------------------------- MODULE MCCredentialLookup -------------------------
(***************************************************************************)
(* A small registry world: reg.io, also on port 5000, a mirror of it under *)
(* mir.io/c, and two providers whose plugins answer with keys that nest,   *)
(* overlap, match both registries, or whose length and byte order disagree.*)
(***************************************************************************)
EXTENDS CredentialLookup, Functions, TLC

CONSTANT MirrorStrategies   \* the strategies the run configures

Url(parts, path) == [scheme |-> "", parts |-> parts, port |-> "", path |-> path]

RegIo     == Url(<<"reg", "io">>, << >>)
RegIoAp   == Url(<<"reg", "io">>, <<"/ap">>)
RegIoApp  == Url(<<"reg", "io">>, <<"/ap", "p">>)
RegIoUp   == Url(<<"reg", "io">>, <<"/APP">>)
RegPort   == [RegIo EXCEPT !.port = "5000"]
RegPortAp == [RegIoApp EXCEPT !.port = "5000"]
AnyIo     == Url(<<"*", "io">>, << >>)
AnyIoAp   == Url(<<"*", "io">>, <<"/ap">>)
PartIo    == Url(<<"r*", "io">>, << >>)
MirIo     == Url(<<"mir", "io">>, << >>)
MirIoC    == Url(<<"mir", "io">>, <<"/c">>)
AnyAny    == Url(<<"*", "*">>, << >>)
AnyPort   == [AnyAny EXCEPT !.port = "5000"]

MirrorEndpoint == [scheme |-> "https://", parts |-> <<"mir", "io">>, port |-> "", path |-> <<"/c", "/">>]

\* The texts in byte order: % * . / digits : letters.
ByteOrder == <<Malformed, AnyAny, AnyPort, AnyIo, AnyIoAp, MirIo, MirIoC, PartIo,
               RegIo, RegIoUp, RegIoAp, RegIoApp, RegPort, RegPortAp>>
Place(u) == CHOOSE i \in 1..Len(ByteOrder) : ByteOrder[i] = u
MCBefore(u, v) == Place(u) < Place(v)

Total(seq) == FoldFunction(LAMBDA part, n : Len(part) + n, 0, seq)
MCLength(u) ==
    IF u = Malformed THEN 1
    ELSE Total(u.parts) + Len(u.parts) - 1 + Total(u.path)
         + (IF u.port = "" THEN 0 ELSE 1 + Len(u.port))

MCPartialGlobs == {<<"r*", "reg">>}

MCAnswers == {
    [duration |-> Nil, auth |-> RegIo :> "regUser" @@ AnyIo :> "anyUser"],
    [duration |-> 5,   auth |-> RegIoAp :> "appUser" @@ RegPort :> "portUser"],
    [duration |-> 1,   auth |-> MirIoC :> "cacheUser" @@ AnyIo :> "anyUser"],
    [duration |-> 2,   auth |-> AnyIoAp :> "anyAppUser" @@ RegIo :> "regUser"],
    [duration |-> 3,   auth |-> MirIo :> "mirUser" @@ PartIo :> "partUser" @@ Malformed :> "badUser"],
    [duration |-> 0,   auth |-> << >>]}

WidePlugins ==
    "ecr" :> [matchImages |-> {AnyIo, RegPort}, defaultCacheDuration |-> 4] @@
    "acr" :> [matchImages |-> {MirIoC, PartIo, Malformed}, defaultCacheDuration |-> Nil]
MirrorPlugin ==
    "mir" :> [matchImages |-> {MirIo}, defaultCacheDuration |-> 4]

MCConfigs ==
    {[mirror |-> m, providers |-> WidePlugins] :
        m \in {NoMirror} \cup [endpoint : {MirrorEndpoint}, strategy : MirrorStrategies]} \cup
    {[mirror |-> m, providers |-> MirrorPlugin] :
        m \in [endpoint : {MirrorEndpoint, Malformed}, strategy : MirrorStrategies \cup {""}]}

MCImages == {RegIoApp, RegPortAp, RegIoUp}
MCInvalidReferences == {RegIoUp}
=============================================================================
