-------------------------------- MODULE Node --------------------------------
(***************************************************************************)
(* A node as a whole: sync-config in every detail (FileSync) and the pulls *)
(* that read the files it writes (ImagePull). They share the two files on  *)
(* the host and nothing else; either takes its steps at any time.          *)
(***************************************************************************)
EXTENDS FileSync

CONSTANTS
    DynamicConfig, StaticCredentials,  \* the two files synchronised
    Lookups, Unread, MaxKills          \* see ImagePull

VARIABLES phase, todo, used, floor, served, cached, kills  \* see ImagePull

Pulls == INSTANCE ImagePull

ASSUME NodeAssumption ==
    /\ Files = {DynamicConfig, StaticCredentials}
    /\ DynamicConfig # StaticCredentials
    /\ Unread \notin Nat
    /\ Lookups \in [Versions -> Pulls!Plans]
    /\ MaxKills \in Nat

pullVars == <<phase, todo, used, floor, served, cached, kills>>
nodeVars == <<vars, pullVars>>

NodeInit == Init /\ Pulls!Init

PullStep == Pulls!StartPull \/ Pulls!Process \/ Pulls!Kill \/ Pulls!Expire

NodeNext ==
    \/ Next /\ UNCHANGED pullVars
    \/ PullStep /\ UNCHANGED vars

NodeFairness == Fairness /\ Pulls!Fairness

NodeSpec == NodeInit /\ [][NodeNext]_nodeVars /\ NodeFairness

---------------------------------------------------------------------------

\* Pulls over the real sync-config behave as pulls over the abstract files: its queues,
\* goroutines, restarts and failures add nothing that a pull could see
\* (sync_config.go:71-88, static_credentials.go:40-51).
ImplementsImagePull == Pulls!Spec

\* The watcher of f waits, and nothing that calls for a copy is queued or was missed.
Settled(f) == pc[f] = "idle" /\ ~CallsForCopy(queue[f]) /\ ~missed[f]

\* A pull that begins once sync-config has settled works with the Secrets of that moment or
\* newer ones: what it begins with is what the Secrets are, and no read of it that ends in a
\* response is older, whatever update, copy or restart comes between
\* (watcher.go:51-62, dynamic.go:49-73, static_credentials.go:40-51).
AnswersSettledSecrets ==
    [][ /\ phase = "idle" /\ phase' = "config" =>
               \A f \in Files : Settled(f) => floor'[f] = secret[f]
        /\ phase = "lookups" /\ served' # served =>
               \A read \in DOMAIN served' :
                   served'[read] \in Versions => served'[read] >= floor[Pulls!FileOf(read)]
      ]_nodeVars

\* The purpose of the system: once updates, failures and crashes are over, and unless a copy
\* failed or its last event was dropped, the kubelet's credentials are and stay those of the
\* current Secrets, from the Secret through watcher, copy and process to the kubelet's cache
\* (watcher.go:47-92, dynamic.go:49-73, static_credentials.go:40-51).
SecretsReachKubelet == (\A f \in Files : <>[]~missed[f]) => <>[]Pulls!Current
=============================================================================
