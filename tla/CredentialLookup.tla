-------------------------- MODULE CredentialLookup --------------------------
(***************************************************************************)
(* pkg/credentialprovider/dynamic: one GetCredentials call of the dynamic  *)
(* provider, from the image the kubelet asks about to the response it gets *)
(* back.                                                                   *)
(*                                                                         *)
(* The call looks the image up twice: under the name the mirror serves it  *)
(* with, and under its own name. A lookup asks the configured providers    *)
(* one by one, in the random order of a Go map range, walks the keys of    *)
(* each answer, again in a random order, and keeps one matching key. The   *)
(* two results are merged as the mirror strategy says.                     *)
(*                                                                         *)
(* A provider's plugin may answer anything, or fail, at each call. What    *)
(* the plugins answered is kept in the history variable "heard", which no  *)
(* action reads.                                                           *)
(*                                                                         *)
(* A definition that no other uses stands right before the one it is a     *)
(* faulty variant of: PROJECT.json replaces one by the other to show that  *)
(* the properties notice. The same holds in every module.                  *)
(***************************************************************************)
EXTENDS UrlGlobber, FiniteSets

CONSTANTS
    Configs,            \* the DynamicCredentialProviderConfigs a node may be given
    Images,             \* the images the kubelet asks about
    InvalidReferences,  \* the images among them that are not image references
    Answers,            \* what a plugin may answer: [auth : key -> credential, duration : nil or Nat]
    NoMirror,           \* a nil MirrorConfig
    Nil,                \* a nil duration
    NoKey,              \* the empty longestMatchedURL
    NoAuth,             \* the zero AuthConfig: an entry without user and password
    Length(_),          \* len of the text of a key
    Before(_, _)        \* the byte order of the texts of two keys

Strategies == {"MirrorCredentialsOnly", "MirrorCredentialsFirst", "MirrorCredentialsLast"}

Keys == UNION {DOMAIN a.auth : a \in Answers}

\* The configuration's content is not validated before the lookup, so that the mirror's
\* strategy is any text and its endpoint may fail to parse.
ASSUME ConfigAssumption ==
    \A c \in Configs :
        /\ c.mirror # NoMirror =>
               /\ c.mirror.endpoint \in URL \cup {Malformed}
               /\ c.mirror.strategy \in STRING
        /\ \A p \in DOMAIN c.providers :
               /\ c.providers[p].matchImages \subseteq URL \cup {Malformed}
               /\ c.providers[p].defaultCacheDuration \in Nat \cup {Nil}

ASSUME AnswerAssumption ==
    \A a \in Answers :
        /\ a.duration \in Nat \cup {Nil}
        /\ DOMAIN a.auth \subseteq URL \cup {Malformed}

\* The kubelet asks about full image names: registry, path, and no wildcard, which sorts
\* below every character a registry starts with.
ASSUME ImageAssumption ==
    /\ Images \subseteq URL
    /\ \A i \in Images : NamesRegistry(i)
    /\ \A i \in Images :
           LET glob == GlobbedDomainForImage(i)
           IN  Before(glob, i) /\ ~Before(i, glob) /\ ~Before(i, i) /\ ~Before(glob, glob)

\* Go compares strings by a strict total order in which the empty string is the least.
ASSUME OrderAssumption ==
    /\ NoKey \notin Keys
    /\ \A k \in Keys : Length(k) \in Nat
    /\ \A j, k \in Keys : j # k => (Before(j, k) \/ Before(k, j))
    /\ \A j, k \in Keys : ~(Before(j, k) /\ Before(k, j))
    /\ \A j, k, l \in Keys : (Before(j, k) /\ Before(k, l)) => Before(j, l)

\* Of the strings, the provers know only that they differ.
ASSUME StringAssumption == "" \in STRING /\ "*" \in STRING

VARIABLES
    cfg,        \* the configuration
    img,        \* the image asked about
    phase,      \* where the call is: start, mirror or origin lookup, merge, done, failed
    target,     \* the name being looked up
    pending,    \* the providers the range has not reached
    answer,     \* who answered last, and what
    keys,       \* the keys of that answer the range has not reached
    best,       \* longestMatchedURL, authConfig and cacheDuration
    mirror,     \* the result of the mirror lookup
    origin,     \* the result of the origin lookup
    response,   \* the response, once done
    heard       \* history: every answer of every plugin

vars == <<cfg, img, phase, target, pending, answer, keys, best, mirror, origin, response, heard>>

lookupVars == <<target, pending, answer, keys, best>>

---------------------------------------------------------------------------

NoMatch == [url |-> NoKey, auth |-> NoAuth, duration |-> 0]
NotFound == [auth |-> NoAuth, duration |-> 0, found |-> FALSE]
NoAnswer == [provider |-> Nil, duration |-> Nil, auth |-> << >>]
NoResponse == [auth |-> << >>, duration |-> 0]

Only == cfg.mirror # NoMirror /\ cfg.mirror.strategy = "MirrorCredentialsOnly"

DefaultCacheDurationAsConfigured(p) == cfg.providers[p].defaultCacheDuration
DefaultCacheDuration(p) ==
    IF cfg.providers[p].defaultCacheDuration = Nil
    THEN 0
    ELSE cfg.providers[p].defaultCacheDuration

IsImageAllowed(p, url) ==
    \E m \in cfg.providers[p].matchImages : URLsMatchStr(m, url)

\* How long a credential of provider p's answer may be cached.
AnswerDuration(p, a) == IF a.duration = Nil THEN DefaultCacheDuration(p) ELSE a.duration

\* The condition under which a matching key replaces the one kept so far.
ReplacesBestShorter(key) ==
    best.url = NoKey \/ Length(key) < Length(best.url) \/ Before(key, best.url)
ReplacesBest(key) ==
    best.url = NoKey \/ Length(best.url) < Length(key) \/ Before(best.url, key)

Result == [auth |-> best.auth, duration |-> best.duration, found |-> best.url # NoKey]

CacheDurationOfMirror == IF mirror.found THEN mirror.duration ELSE origin.duration
CacheDuration ==
    IF origin.found /\ (~mirror.found \/ mirror.duration > origin.duration)
    THEN origin.duration
    ELSE mirror.duration

Put(map, key, value) ==
    [k \in DOMAIN map \cup {key} |-> IF k = key THEN value ELSE map[k]]

\* The origin's entry is there, empty, when the origin lookup found nothing.
OriginAuthMap == IF Only THEN << >> ELSE Put(<< >>, img, origin.auth)

\* updateAuthConfigMapForMirror; Mergeable holds the error it returns for other strategies.
WithMirrorSwapped(authMap, strategy) ==
    LET glob == GlobbedDomainForImage(img)
    IN  IF strategy = "MirrorCredentialsFirst"
        THEN Put(authMap, glob, mirror.auth)
        ELSE Put(authMap, img, mirror.auth)
WithMirror(authMap, strategy) ==
    LET glob    == GlobbedDomainForImage(img)
        demoted == IF img \in DOMAIN authMap THEN Put(authMap, glob, authMap[img]) ELSE authMap
    IN  IF strategy = "MirrorCredentialsOnly" THEN Put(authMap, img, mirror.auth)
        ELSE IF strategy = "MirrorCredentialsLast" THEN Put(authMap, glob, mirror.auth)
        ELSE Put(demoted, img, mirror.auth)

---------------------------------------------------------------------------

\* The state of a call has its type; every duration is a number once it was chosen, although
\* the answer's and the configured one may be nil (plugin_executor.go:87-93).
TypeOK ==
    /\ cfg \in Configs
    /\ img \in Images
    /\ phase \in {"start", "mirror", "origin", "merge", "done", "failed"}
    /\ pending \subseteq DOMAIN cfg.providers
    /\ keys \subseteq Keys
    /\ best.url \in Keys \cup {NoKey}
    /\ best.duration \in Nat
    /\ mirror.found \in BOOLEAN /\ mirror.duration \in Nat
    /\ origin.found \in BOOLEAN /\ origin.duration \in Nat
    /\ response.duration \in Nat
    /\ heard \subseteq [lookup   : {"mirror", "origin"},
                        provider : DOMAIN cfg.providers,
                        answer   : Answers]

Init ==
    /\ cfg \in Configs
    /\ img \in Images
    /\ phase = "start"
    /\ target = img
    /\ pending = {}
    /\ answer = NoAnswer
    /\ keys = {}
    /\ best = NoMatch
    /\ mirror = NotFound
    /\ origin = NotFound
    /\ response = NoResponse
    /\ heard = {}

\* getCredentialsForImage is called for url.
BeginLookup(lookup, url) ==
    /\ phase' = lookup
    /\ target' = url
    /\ pending' = DOMAIN cfg.providers
    /\ best' = NoMatch
    /\ UNCHANGED <<answer, keys>>

\* getMirrorCredentialsForImage finds no mirror: on to the image itself.
SkipMirrorLookup ==
    /\ phase = "start"
    /\ cfg.mirror = NoMirror
    /\ BeginLookup("origin", img)
    /\ UNCHANGED <<cfg, img, mirror, origin, response, heard>>

StartMirrorLookup ==
    /\ phase = "start"
    /\ cfg.mirror # NoMirror
    /\ Parses(cfg.mirror.endpoint)
    /\ BeginLookup("mirror", MirrorTarget(cfg.mirror.endpoint, img))
    /\ UNCHANGED <<cfg, img, mirror, origin, response, heard>>

RejectEndpoint ==
    /\ phase = "start"
    /\ cfg.mirror # NoMirror
    /\ ~Parses(cfg.mirror.endpoint)
    /\ phase' = "failed"
    /\ UNCHANGED <<cfg, img, lookupVars, mirror, origin, response, heard>>

\* The range over the providers reaches p: the last answer has been walked.
Reaches(p) ==
    /\ phase \in {"mirror", "origin"}
    /\ keys = {}
    /\ p \in pending

\* Provide returns no response: p is not configured for this image.
ProviderNotConcerned(p) ==
    /\ Reaches(p)
    /\ ~IsImageAllowed(p, target)
    /\ pending' = pending \ {p}
    /\ UNCHANGED <<cfg, img, phase, target, answer, keys, best, mirror, origin, response, heard>>

\* One failing plugin fails the whole call.
ProviderFailsAndRetried(p) ==
    /\ Reaches(p)
    /\ IsImageAllowed(p, target)
    /\ BeginLookup(phase, target)
    /\ UNCHANGED <<cfg, img, mirror, origin, response, heard>>
ProviderFails(p) ==
    /\ Reaches(p)
    /\ IsImageAllowed(p, target)
    /\ phase' = "failed"
    /\ UNCHANGED <<cfg, img, lookupVars, mirror, origin, response, heard>>

ProviderAnswers(p, a) ==
    /\ Reaches(p)
    /\ IsImageAllowed(p, target)
    /\ pending' = pending \ {p}
    /\ answer' = [provider |-> p, duration |-> a.duration, auth |-> a.auth]
    /\ keys' = DOMAIN a.auth
    /\ heard' = heard \cup {[lookup |-> phase, provider |-> p, answer |-> a]}
    /\ UNCHANGED <<cfg, img, phase, target, best, mirror, origin, response>>

\* The range over the answer's keys reaches key.
ConsiderKey(key) ==
    /\ key \in keys
    /\ keys' = keys \ {key}
    /\ best' = IF URLsMatchStr(key, target) /\ ReplacesBest(key)
               THEN [url      |-> key,
                     auth     |-> answer.auth[key],
                     duration |-> AnswerDuration(answer.provider, answer)]
               ELSE best
    /\ UNCHANGED <<cfg, img, phase, target, pending, answer, mirror, origin, response, heard>>

EndMirrorLookupOrAskAgain ==
    /\ phase = "mirror" /\ pending = {} /\ keys = {}
    /\ mirror' = Result
    /\ IF Only
       THEN IF Result.found THEN phase' = "merge" /\ UNCHANGED lookupVars
            ELSE BeginLookup("mirror", target)
       ELSE BeginLookup("origin", img)
    /\ UNCHANGED <<cfg, img, origin, response, heard>>
EndMirrorLookup ==
    /\ phase = "mirror" /\ pending = {} /\ keys = {}
    /\ mirror' = Result
    /\ IF Only
       THEN phase' = "merge" /\ UNCHANGED lookupVars
       ELSE BeginLookup("origin", img)
    /\ UNCHANGED <<cfg, img, origin, response, heard>>

EndOriginLookup ==
    /\ phase = "origin" /\ pending = {} /\ keys = {}
    /\ origin' = Result
    /\ phase' = "merge"
    /\ UNCHANGED <<cfg, img, lookupVars, mirror, response, heard>>

\* The mirror's credentials can be merged only if the wildcard key can be built and the
\* strategy is a known one.
Mergeable ==
    mirror.found => img \notin InvalidReferences /\ cfg.mirror.strategy \in Strategies

Respond ==
    /\ phase = "merge"
    /\ Mergeable
    /\ phase' = "done"
    /\ response' = [auth |-> IF mirror.found
                             THEN WithMirror(OriginAuthMap, cfg.mirror.strategy)
                             ELSE OriginAuthMap,
                    duration |-> CacheDuration]
    /\ UNCHANGED <<cfg, img, lookupVars, mirror, origin, heard>>

RejectMerge ==
    /\ phase = "merge"
    /\ ~Mergeable
    /\ phase' = "failed"
    /\ UNCHANGED <<cfg, img, lookupVars, mirror, origin, response, heard>>

\* A plugin that was run ends, in an answer or an error; the call waits for it.
PluginEnds ==
    \E p \in pending : ProviderFails(p) \/ \E a \in Answers : ProviderAnswers(p, a)

CallStep ==
    \/ SkipMirrorLookup
    \/ StartMirrorLookup
    \/ RejectEndpoint
    \/ \E p \in pending : ProviderNotConcerned(p)
    \/ \E key \in keys : ConsiderKey(key)
    \/ EndMirrorLookup
    \/ EndOriginLookup
    \/ Respond
    \/ RejectMerge

Next == CallStep \/ PluginEnds

\* The goroutine of the call runs. A plugin need not end: its timeout kills the program that
\* was started, and then still waits for what that has started (PluginExec).
Spec == Init /\ [][Next]_vars /\ WF_vars(CallStep)

---------------------------------------------------------------------------
(* What the response means to the kubelet: it goes through the keys that   *)
(* match the image from the last to the first in byte order, and tries the *)
(* credential of each.                                                     *)

MatchingKeys(auth) == {k \in DOMAIN auth : URLsMatchStr(k, img)}

KubeletAttempts(auth) ==
    [i \in 1..Cardinality(MatchingKeys(auth)) |->
        auth[CHOOSE k \in MatchingKeys(auth) :
                Cardinality({j \in MatchingKeys(auth) : Before(k, j)}) = i - 1]]

Policy == INSTANCE CredentialPolicy WITH
    outcome <- [status   |-> CASE phase = "done"   -> "granted"
                               [] phase = "failed" -> "refused"
                               [] OTHER            -> "pending",
                attempts |-> KubeletAttempts(response.auth),
                duration |-> response.duration]

\* The call implements the policy: whatever the random orders of the ranges, the kubelet
\* tries what some concerned plugin offered, in the order the mirror strategy names, only
\* after every concerned plugin was heard, and for no longer than each of them allows
\* (dynamic.go:118-305).
ImplementsPolicy == Policy!Spec

---------------------------------------------------------------------------

NameLookedUp(lookup) ==
    IF lookup = "mirror" THEN MirrorTarget(cfg.mirror.endpoint, img) ELSE img

\* The keys that plugins offered for a lookup and that match what was looked up.
Offered(lookup) ==
    {k \in UNION {DOMAIN h.answer.auth : h \in {g \in heard : g.lookup = lookup}} :
        URLsMatchStr(k, NameLookedUp(lookup))}

\* The credential auth was offered under key in the lookup, for at least the duration.
Grants(lookup, key, auth, duration) ==
    \E h \in heard :
        /\ h.lookup = lookup
        /\ key \in DOMAIN h.answer.auth
        /\ h.answer.auth[key] = auth
        /\ duration <= AnswerDuration(h.provider, h.answer)
        /\ IsImageAllowed(h.provider, NameLookedUp(lookup))

\* No credential of the response reaches beyond what a plugin granted: it comes from an
\* answer that a provider configured for the name looked up gave under a key matching that
\* name, and the kubelet caches it no longer than that answer allows, although one
\* cacheDuration covers the mirror's and the origin's credentials (dynamic.go:145-147).
EntriesAreGranted ==
    phase = "done" =>
        \A k \in DOMAIN response.auth :
            \/ response.auth[k] = NoAuth
            \/ \E lookup \in {"mirror", "origin"} : \E key \in Offered(lookup) :
                   Grants(lookup, key, response.auth[k], response.duration)

\* Of the keys of S none is longer than key, nor later in byte order.
Leads(key, S) == \A j \in S : Length(j) <= Length(key) /\ (j = key \/ Before(j, key))

\* The result is what one answer to the lookup said under key, credential and duration both.
TakenFrom(lookup, key, result) ==
    \E h \in heard :
        /\ h.lookup = lookup
        /\ key \in DOMAIN h.answer.auth
        /\ result.auth = h.answer.auth[key]
        /\ result.duration = AnswerDuration(h.provider, h.answer)

Finished(lookup) ==
    IF lookup = "mirror" THEN phase \in {"origin", "merge", "done"} ELSE phase \in {"merge", "done"}

ResultOf(lookup) == IF lookup = "mirror" THEN mirror ELSE origin

\* A lookup's result does not depend on the orders of the ranges as far as the key goes: a
\* credential is found exactly when one was offered, and a key that is both the longest and
\* the last of those offered wins, with the duration of the answer it came in, although the
\* same key may come in several answers (dynamic.go:288-301).
BestKeyWins ==
    \A lookup \in {"mirror", "origin"} :
        Finished(lookup) =>
            /\ ResultOf(lookup).found <=> Offered(lookup) # {}
            /\ \A k \in Offered(lookup) :
                   Leads(k, Offered(lookup)) => TakenFrom(lookup, k, ResultOf(lookup))

PluginsEnd == WF_vars(PluginEnds)

\* A call comes to an end, with a response or an error, whoever is asked and whatever they
\* answer, if every plugin it runs ends; it is not sure that one does (dynamic.go:118-168,
\* plugin_executor.go:235).
Returns == PluginsEnd => <>(phase \in {"done", "failed"})

LookupsLeft ==
    [start |-> 4, mirror |-> 3, origin |-> 2, merge |-> 1, done |-> 0, failed |-> 0]

\* Whatever is answered, a call only goes forward: to a later part of it, or else to fewer
\* providers still to ask, or else to fewer keys of the last answer. There being finitely
\* many of each, no call goes on for ever, and no provider is run twice in a lookup
\* (dynamic.go:118-168, 258-305).
CallAdvances ==
    [][\/ LookupsLeft[phase'] < LookupsLeft[phase]
       \/ phase' = phase /\ pending' \subseteq pending /\ pending' # pending
       \/ phase' = phase /\ pending' = pending /\ keys' \subseteq keys /\ keys' # keys]_vars

---------------------------------------------------------------------------
(* A statement of the repository the code does not meet.                   *)

\* doc.go:26-28: of several matching keys the last in byte order comes first, so that a
\* wildcard key gives way to a plain one. The condition of dynamic.go:293 takes a key that
\* is longer or later, so that the order of the range decides between a longer key and a
\* later one.
LastKeyWins ==
    Finished("origin") =>
        \A k \in Offered("origin") :
            (\A j \in Offered("origin") : j = k \/ Before(j, k))
                => Grants("origin", k, origin.auth, 0)
===========================================================================
