------------------------- MODULE MCConfigAdmission -------------------------
EXTENDS ConfigAdmission

RegIo == [scheme |-> "", parts |-> <<"reg", "io">>, port |-> "", path |-> << >>]

Prov(name, apiVersion, duration) ==
    [name |-> name, apiVersion |-> apiVersion, matchImages |-> {RegIo},
     defaultCacheDuration |-> duration]

\* Two providers of every pair of names and versions, and each way to be invalid on its own.
MCProviderLists ==
    {<<Prov(a, v, 0), Prov(b, w, 1)>> : a, b \in {"static", "ecr"}, v, w \in {"v1", "v2"}}
    \cup {<<Prov(a, "v1", 0)>> : a \in {"static", "gone", "a/b", "", ".", ".."}}
    \cup {<<[Prov("ecr", "v1", 0) EXCEPT !.matchImages = {}]>>,
          <<[Prov("ecr", "v1", 0) EXCEPT !.matchImages = {RegIo, Malformed}]>>,
          <<Prov("ecr", "v1", Nil)>>, <<Prov("ecr", "v1", -1)>>, << >>}

MCConfigs ==
    [credentialProviders : MCProviderLists \cup {Nil}]
============================================================================
