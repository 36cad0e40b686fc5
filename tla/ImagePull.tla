----------------------------- MODULE ImagePull -----------------------------
(***************************************************************************)
(* Image pulls on a node while sync-config rewrites the files they depend  *)
(* on. For a pull the kubelet runs the dynamic provider, a process that    *)
(* reads its configuration, runs the static provider once for each lookup, *)
(* which reads the credentials file, and responds; the kubelet may cache   *)
(* the response (get_credentials.go, static_credentials.go, dynamic.go).   *)
(*                                                                         *)
(* The files are the abstract ones of SyncedFiles, which FileSync          *)
(* implements. No process keeps anything for the next one.                 *)
(***************************************************************************)
EXTENDS Naturals, Sequences

CONSTANTS
    Files,      \* the files that are synchronised
    DynamicConfig, StaticCredentials,  \* they are these two
    Missing, Torn, MaxVersion,
    Lookups,    \* Lookups[v]: the lookups that version v of the configuration leads to
    Unread,     \* no content was read
    MaxKills    \* bound: how many pulls the kubelet gives up

\* With MirrorCredentialsOnly the origin is not looked up, without a mirror the mirror is not.
Plans == {<<"mirror", "origin">>, <<"mirror">>, <<"origin">>}

ASSUME PullAssumption ==
    /\ Files = {DynamicConfig, StaticCredentials} /\ DynamicConfig # StaticCredentials
    /\ MaxVersion \in Nat \ {0} /\ MaxKills \in Nat
    /\ Missing \notin Nat /\ Torn \notin Nat /\ Unread \notin Nat
    /\ Missing # Torn
    /\ Lookups \in [1..MaxVersion -> Plans]

VARIABLES
    secret, dest, missed, newest,  \* the files, see SyncedFiles
    phase,   \* idle, config (the process starts), lookups
    todo,    \* the lookups still to be made
    used,    \* what the process read: the configuration, and in each lookup the credentials
    floor,   \* history: the newest versions when the pull began
    served,  \* what the last response was made from
    cached,  \* the kubelet still answers pulls with that response
    kills

fileVars == <<secret, dest, missed, newest>>
pullVars == <<phase, todo, used, floor, served, cached, kills>>
vars == <<fileVars, pullVars>>

Sync == INSTANCE SyncedFiles

Versions == Sync!Versions
Content == Versions \cup {Torn, Unread}
Reads == [config : Content, mirror : Content, origin : Content]
Nothing == [config |-> Unread, mirror |-> Unread, origin |-> Unread]

FileOf(read) == IF read = "config" THEN DynamicConfig ELSE StaticCredentials

\* The state has its type: nothing is made from a file that does not exist
\* (dynamic.go:49-53, static_credentials.go:45-48).
TypeOK ==
    /\ phase \in {"idle", "config", "lookups"}
    /\ todo \in Plans \cup {<< >>}
    /\ used \in Reads
    /\ floor \in [Files -> 0..MaxVersion]
    /\ served \in Reads
    /\ cached \in BOOLEAN
    /\ kills \in 0..MaxKills

Init ==
    /\ Sync!Init
    /\ phase = "idle"
    /\ todo = << >>
    /\ used = Nothing
    /\ floor = newest
    /\ served = Nothing
    /\ cached = FALSE
    /\ kills = 0

---------------------------------------------------------------------------

\* The kubelet has no cached response and starts the dynamic provider.
StartPull ==
    /\ phase = "idle"
    /\ ~cached
    /\ phase' = "config"
    /\ used' = Nothing
    /\ floor' = newest
    /\ UNCHANGED <<fileVars, todo, served, cached, kills>>

\* NewProviderFromConfigFile. Of a torn file a part may be read that happens to decode.
LoadConfigOnce ==
    /\ phase = "config"
    /\ dest[DynamicConfig] # Missing
    /\ used' = [used EXCEPT !.config = IF served.config = Unread THEN dest[DynamicConfig]
                                       ELSE served.config]
    /\ phase' = "lookups"
    /\ todo' \in IF used'.config = Torn THEN Plans ELSE {Lookups[used'.config]}
    /\ UNCHANGED <<fileVars, floor, served, cached, kills>>
LoadConfig ==
    /\ phase = "config"
    /\ dest[DynamicConfig] # Missing
    /\ used' = [used EXCEPT !.config = dest[DynamicConfig]]
    /\ phase' = "lookups"
    /\ todo' \in IF dest[DynamicConfig] = Torn THEN Plans ELSE {Lookups[dest[DynamicConfig]]}
    /\ UNCHANGED <<fileVars, floor, served, cached, kills>>

\* A lookup runs the static provider, which reads the credentials each time it is called.
LookUpAnyContent ==
    /\ phase = "lookups" /\ todo # << >>
    /\ used' = [used EXCEPT ![Head(todo)] = dest[StaticCredentials]]
    /\ todo' = Tail(todo)
    /\ UNCHANGED <<fileVars, phase, floor, served, cached, kills>>
LookUpOnce ==
    /\ phase = "lookups" /\ todo # << >>
    /\ dest[StaticCredentials] # Missing
    /\ used' = [used EXCEPT ![Head(todo)] =
                    IF served[Head(todo)] = Unread THEN dest[StaticCredentials]
                    ELSE served[Head(todo)]]
    /\ todo' = Tail(todo)
    /\ UNCHANGED <<fileVars, phase, floor, served, cached, kills>>
LookUp ==
    /\ phase = "lookups" /\ todo # << >>
    /\ dest[StaticCredentials] # Missing
    /\ used' = [used EXCEPT ![Head(todo)] = dest[StaticCredentials]]
    /\ todo' = Tail(todo)
    /\ UNCHANGED <<fileVars, phase, floor, served, cached, kills>>

GiveUpPull ==
    /\ phase' = "idle"
    /\ todo' = << >>
    /\ UNCHANGED <<fileVars, used, floor, served, cached>>

\* The file does not exist or does not decode; the error of the static provider fails the
\* lookup, and that the call.
ReadFails ==
    /\ \/ phase = "config" /\ dest[DynamicConfig] \in {Missing, Torn}
       \/ phase = "lookups" /\ todo # << >> /\ dest[StaticCredentials] \in {Missing, Torn}
    /\ GiveUpPull
    /\ UNCHANGED kills

\* The response, with a cache duration of zero or more.
Respond ==
    /\ phase = "lookups" /\ todo = << >>
    /\ phase' = "idle"
    /\ served' = used
    /\ cached' \in BOOLEAN
    /\ UNCHANGED <<fileVars, todo, used, floor, kills>>

\* Another plugin fails, or the kubelet stops the call after a minute.
Kill ==
    /\ phase # "idle"
    /\ kills < MaxKills
    /\ kills' = kills + 1
    /\ GiveUpPull

\* The cache duration has passed, or the kubelet was restarted.
Expire ==
    /\ cached
    /\ cached' = FALSE
    /\ UNCHANGED <<fileVars, phase, todo, used, floor, served, kills>>

Process == LoadConfig \/ LookUp \/ ReadFails \/ Respond

Next ==
    \/ Sync!Next /\ UNCHANGED pullVars
    \/ StartPull \/ Process \/ Kill \/ Expire

\* The kubelet retries a pull that failed, and the node's workloads make it pull again; the
\* process runs; cache durations are finite.
Fairness == WF_vars(StartPull) /\ WF_vars(Process) /\ WF_vars(Expire)

Spec == Init /\ [][Next]_vars /\ Fairness

---------------------------------------------------------------------------

\* A pull works with nothing older than what was on the host when it began, and its second
\* lookup with nothing older than its first, whatever is rewritten under it; it may see a
\* newer version, or a torn file (dynamic.go:49-73, static_credentials.go:40-51).
PullsReadForward ==
    phase # "idle" =>
        /\ \A read \in DOMAIN used :
               used[read] \in Versions =>
                   floor[FileOf(read)] <= used[read] /\ used[read] <= newest[FileOf(read)]
        /\ used.mirror \in Versions /\ used.origin \in Versions => used.mirror <= used.origin

\* A replaced configuration or credential does not come back: whatever the kubelet cached,
\* gave up or retried, a response is not made from an older version than the one before
\* (dynamic.go:49-73, 118-168).
ServedForward ==
    [][\A read \in DOMAIN served :
           served[read] \in Versions /\ served'[read] \in Versions
               => served'[read] >= served[read]]_vars

Current == /\ served.config = secret[DynamicConfig]
           /\ \A lookup \in {"mirror", "origin"} :
                  served[lookup] \in {Unread, secret[StaticCredentials]}

\* Once the files are and stay what their Secrets are, which FileSync shows of every file no
\* copy was missed of, the kubelet's credentials are and stay those of the Secrets: neither
\* a torn read nor a cached response outlives the update (get_credentials.go:36-53,
\* static_credentials.go:40-51).
ServesCurrent == (\A f \in Files : <>[](dest[f] = secret[f])) => <>[]Current
=============================================================================
