------------------------------ MODULE FileSync ------------------------------
(***************************************************************************)
(* The sync-config process of the DaemonSet: it copies the dynamic         *)
(* provider's configuration and the static credentials, two files of       *)
(* mounted Secrets, to the directory of the host where the credential      *)
(* providers read them, once when it starts and again whenever a Secret    *)
(* changes (cmd/dynamic-credential-provider/sync_config.go and             *)
(* pkg/filewatcher/watcher.go).                                            *)
(*                                                                         *)
(* The kubelet updates a mounted Secret atomically: it writes the new      *)
(* content to a new directory, makes the link "..data" point to it, and    *)
(* removes the old directory. The watched file is a link through "..data". *)
(* Each of the three steps queues an event at the inotify instance of the  *)
(* file's watcher, if there is one and its queue has room.                 *)
(*                                                                         *)
(* The copy is not atomic: the source is opened, then the destination is   *)
(* truncated, then written (otiai10/copy).                                 *)
(***************************************************************************)
EXTENDS Naturals, Sequences

CONSTANTS
    Files,        \* the files to synchronise
    Missing,      \* the content of a destination that does not exist
    Torn,         \* the content of a destination that was truncated or partly written
    MaxVersion,   \* bound: the last version of each Secret
    QueueCap,     \* the capacity of an inotify queue
    MaxCrashes,   \* bound: how often the process is killed
    MaxFailures   \* bound: how many copies and watches fail

Versions == 1..MaxVersion

ASSUME BoundAssumption ==
    /\ MaxVersion \in Nat \ {0} /\ QueueCap \in Nat
    /\ MaxCrashes \in Nat /\ MaxFailures \in Nat
ASSUME ContentAssumption == Missing \notin Nat /\ Torn \notin Nat /\ Missing # Torn

VARIABLES
    secret,    \* secret[f]: the version "..data" points to
    dirs,      \* dirs[f]: the versions whose directories exist
    process,   \* down, up, or stopping: the group's context is cancelled
    pc,        \* pc[f]: where the goroutine of f is
    initial,   \* initial[f]: f's Start has not passed its first copy
    watched,   \* watched[f]: the volume's directory is watched
    queue,     \* queue[f]: the events not yet received
    reading,   \* reading[f]: the version the copy resolved its source to
    dest,      \* dest[f]: the content of the destination
    crashes, failures,
    missed,    \* history: a copy of f failed, or the last event that calls for one was dropped
    newest     \* history: newest[f] is the newest version the destination ever held

vars == <<secret, dirs, process, pc, initial, watched, queue, reading, dest,
          crashes, failures, missed, newest>>

volumeVars == <<secret, dirs>>

---------------------------------------------------------------------------

\* The kernel drops an event when the queue is full; the overflow is only logged.
Enqueue(f, event) ==
    queue' = IF watched[f] /\ Len(queue[f]) < QueueCap
             THEN [queue EXCEPT ![f] = Append(@, event)]
             ELSE queue

CallsForCopy(q) == \E i \in 1..Len(q) : q[i] = "..data"

\* The state has its type; a copy reads a version the Secret had (sync_config.go:71-88).
TypeOK ==
    /\ secret \in [Files -> Versions]
    /\ dirs \in [Files -> SUBSET Versions]
    /\ process \in {"down", "up", "stopping"}
    /\ pc \in [Files -> {"off", "start", "handle", "resolved", "writing", "idle"}]
    /\ initial \in [Files -> BOOLEAN]
    /\ watched \in [Files -> BOOLEAN]
    /\ queue \in [Files -> Seq({"..data", "directory"})]
    /\ reading \in [Files -> Versions]
    /\ dest \in [Files -> Versions \cup {Missing, Torn}]
    /\ crashes \in 0..MaxCrashes
    /\ failures \in 0..MaxFailures
    /\ missed \in [Files -> BOOLEAN]
    /\ newest \in [Files -> 0..MaxVersion]

Init ==
    /\ secret = [f \in Files |-> 1]
    /\ dirs = [f \in Files |-> {1}]
    /\ process = "down"
    /\ pc = [f \in Files |-> "off"]
    /\ initial = [f \in Files |-> FALSE]
    /\ watched = [f \in Files |-> FALSE]
    /\ queue = [f \in Files |-> << >>]
    /\ reading = [f \in Files |-> 1]
    /\ dest = [f \in Files |-> Missing]
    /\ crashes = 0
    /\ failures = 0
    /\ missed = [f \in Files |-> FALSE]
    /\ newest = [f \in Files |-> 0]

---------------------------------------------------------------------------
(* The kubelet's volume manager.                                           *)

WriteVersion(f) ==
    /\ secret[f] < MaxVersion
    /\ dirs[f] = {secret[f]}
    /\ dirs' = [dirs EXCEPT ![f] = @ \cup {secret[f] + 1}]
    /\ Enqueue(f, "directory")
    /\ UNCHANGED <<secret, process, pc, initial, watched, reading, dest,
                   crashes, failures, missed, newest>>

SwapData(f) ==
    /\ secret[f] + 1 \in dirs[f]
    /\ secret' = [secret EXCEPT ![f] = @ + 1]
    /\ Enqueue(f, "..data")
    /\ missed' = [missed EXCEPT ![f] = @ \/ (watched[f] /\ ~CallsForCopy(queue'[f]))]
    /\ UNCHANGED <<dirs, process, pc, initial, watched, reading, dest,
                   crashes, failures, newest>>

RemoveOldVersion(f) ==
    /\ secret[f] - 1 \in dirs[f]
    /\ dirs' = [dirs EXCEPT ![f] = {secret[f]}]
    /\ Enqueue(f, "directory")
    /\ UNCHANGED <<secret, process, pc, initial, watched, reading, dest,
                   crashes, failures, missed, newest>>

---------------------------------------------------------------------------
(* The process.                                                            *)

\* One goroutine per file.
Boot ==
    /\ process = "down"
    /\ process' = "up"
    /\ pc' = [f \in Files |-> "start"]
    /\ initial' = [f \in Files |-> TRUE]
    /\ UNCHANGED <<volumeVars, watched, queue, reading, dest, crashes, failures, missed, newest>>

\* Start: the watch is added before the first copy.
AddWatchUnnoticedFailure(f) ==
    /\ pc[f] = "start"
    /\ pc' = [pc EXCEPT ![f] = "handle"]
    /\ UNCHANGED <<volumeVars, process, initial, watched, queue, reading, dest,
                   crashes, failures, missed, newest>>
AddWatch(f) ==
    /\ pc[f] = "start"
    /\ pc' = [pc EXCEPT ![f] = "handle"]
    /\ watched' = [watched EXCEPT ![f] = TRUE]
    /\ UNCHANGED <<volumeVars, process, initial, queue, reading, dest,
                   crashes, failures, missed, newest>>

\* Start fails, and the group cancels its context.
FailStart(f) ==
    /\ pc' = [pc EXCEPT ![f] = "off"]
    /\ initial' = [initial EXCEPT ![f] = FALSE]
    /\ watched' = [watched EXCEPT ![f] = FALSE]
    /\ queue' = [queue EXCEPT ![f] = << >>]
    /\ process' = "stopping"

\* There are no more inotify instances or watches, or the directory is not there.
CannotWatch(f) ==
    /\ pc[f] = "start"
    /\ failures < MaxFailures
    /\ failures' = failures + 1
    /\ FailStart(f)
    /\ UNCHANGED <<volumeVars, reading, dest, crashes, missed, newest>>

\* handleEvent: only the file itself and "..data" call for a copy.
ReceiveEventForFileOnly(f) ==
    /\ pc[f] = "idle"
    /\ queue[f] # << >>
    /\ queue' = [queue EXCEPT ![f] = Tail(@)]
    /\ UNCHANGED <<volumeVars, process, pc, initial, watched, reading, dest,
                   crashes, failures, missed, newest>>
ReceiveEvent(f) ==
    /\ pc[f] = "idle"
    /\ queue[f] # << >>
    /\ queue' = [queue EXCEPT ![f] = Tail(@)]
    /\ pc' = [pc EXCEPT ![f] = IF Head(queue[f]) = "..data" THEN "handle" ELSE "idle"]
    /\ UNCHANGED <<volumeVars, process, initial, watched, reading, dest,
                   crashes, failures, missed, newest>>

\* The callback reads the link; the path leads through "..data".
ResolvePreviousVersion(f) ==
    /\ pc[f] = "handle"
    /\ pc' = [pc EXCEPT ![f] = "resolved"]
    /\ reading' = [reading EXCEPT ![f] = secret[f] - 1]
    /\ missed' = [missed EXCEPT ![f] = FALSE]
    /\ UNCHANGED <<volumeVars, process, initial, watched, queue, dest, crashes, failures, newest>>
ResolveAnyVersion(f) ==
    /\ pc[f] = "handle"
    /\ pc' = [pc EXCEPT ![f] = "resolved"]
    /\ \E v \in dirs[f] : reading' = [reading EXCEPT ![f] = v]
    /\ missed' = [missed EXCEPT ![f] = FALSE]
    /\ UNCHANGED <<volumeVars, process, initial, watched, queue, dest, crashes, failures, newest>>
Resolve(f) ==
    /\ pc[f] = "handle"
    /\ pc' = [pc EXCEPT ![f] = "resolved"]
    /\ reading' = [reading EXCEPT ![f] = secret[f]]
    /\ missed' = [missed EXCEPT ![f] = FALSE]
    /\ UNCHANGED <<volumeVars, process, initial, watched, queue, dest, crashes, failures, newest>>

\* The source is open, and creating the destination truncates it.
Open(f) ==
    /\ pc[f] = "resolved"
    /\ reading[f] \in dirs[f]
    /\ pc' = [pc EXCEPT ![f] = "writing"]
    /\ dest' = [dest EXCEPT ![f] = Torn]
    /\ UNCHANGED <<volumeVars, process, initial, watched, queue, reading,
                   crashes, failures, missed, newest>>

\* The copy is over: Start goes on to watch, Watch to the next event.
Settle(f) ==
    /\ pc' = [pc EXCEPT ![f] = "idle"]
    /\ initial' = [initial EXCEPT ![f] = FALSE]
    /\ UNCHANGED process

\* An error of the first copy makes Start fail; in Watch it is only logged.
Abort(f) ==
    IF initial[f]
    THEN FailStart(f)
    ELSE /\ pc' = [pc EXCEPT ![f] = "idle"]
         /\ UNCHANGED <<initial, watched, queue, process>>

Write(f) ==
    /\ pc[f] = "writing"
    /\ dest' = [dest EXCEPT ![f] = reading[f]]
    /\ newest' = [newest EXCEPT ![f] = IF reading[f] > @ THEN reading[f] ELSE @]
    /\ Settle(f)
    /\ UNCHANGED <<volumeVars, watched, queue, reading, crashes, failures, missed>>

\* The directory went away under the copy. A source that cannot be opened for that reason
\* is passed over without an error; one that cannot even be examined is an error.
PassOver(f) ==
    /\ pc[f] = "resolved"
    /\ reading[f] \notin dirs[f]
    /\ Settle(f)
    /\ UNCHANGED <<volumeVars, watched, queue, reading, dest, crashes, failures, missed, newest>>

SourceVanished(f) ==
    /\ pc[f] = "resolved"
    /\ reading[f] \notin dirs[f]
    /\ Abort(f)
    /\ UNCHANGED <<volumeVars, reading, dest, crashes, failures, missed, newest>>

\* The disk is full, or an I/O error, before the destination is touched or after.
CopyFails(f) ==
    /\ pc[f] \in {"resolved", "writing"}
    /\ failures < MaxFailures
    /\ failures' = failures + 1
    /\ missed' = [missed EXCEPT ![f] = TRUE]
    /\ Abort(f)
    /\ UNCHANGED <<volumeVars, reading, dest, crashes, newest>>

Die ==
    /\ process' = "down"
    /\ pc' = [f \in Files |-> "off"]
    /\ initial' = [f \in Files |-> FALSE]
    /\ watched' = [f \in Files |-> FALSE]
    /\ queue' = [f \in Files |-> << >>]
    /\ UNCHANGED <<volumeVars, reading, dest, failures, missed, newest>>

\* Wait returns when every Start has; a copy that Watch is making is abandoned.
Exit ==
    /\ process = "stopping"
    /\ \A f \in Files : ~initial[f]
    /\ Die
    /\ UNCHANGED crashes

\* SIGTERM is not handled: the process dies at once, as at SIGKILL or when the node fails.
Crash ==
    /\ process # "down"
    /\ crashes < MaxCrashes
    /\ crashes' = crashes + 1
    /\ Die

VolumeStep(f) == SwapData(f) \/ RemoveOldVersion(f)

CopyStep(f) ==
    \/ AddWatch(f) \/ ReceiveEvent(f) \/ Resolve(f) \/ Open(f) \/ Write(f)
    \/ PassOver(f) \/ SourceVanished(f)

Next ==
    \/ \E f \in Files : \/ WriteVersion(f) \/ VolumeStep(f) \/ CopyStep(f)
                       \/ CannotWatch(f) \/ CopyFails(f)
    \/ Boot \/ Exit \/ Crash

\* The kubelet finishes an update it began and restarts the container; the goroutines run.
\* New versions, failures and crashes come when they come.
Fairness ==
    /\ \A f \in Files : WF_vars(VolumeStep(f)) /\ WF_vars(CopyStep(f))
    /\ WF_vars(Boot)
    /\ WF_vars(Exit)

Spec == Init /\ [][Next]_vars /\ Fairness

---------------------------------------------------------------------------

\* A file whose watcher waits, with no event queued that calls for a copy, is an exact copy
\* of the current Secret, however updates, the first copy, the removal of the old directory
\* and restarts interleaved, unless a copy failed or its last event was dropped since
\* (watcher.go:51-62: the watch is added before the first copy).
IdleInSync ==
    \A f \in Files :
        pc[f] = "idle" /\ ~CallsForCopy(queue[f]) /\ ~missed[f] => dest[f] = secret[f]

\* The destination never goes back to an older version of the Secret than one it held,
\* whatever it was in between and however often the process restarted.
NeverOlder ==
    [][\A f \in Files : dest'[f] \in Versions => dest'[f] >= newest[f]]_vars

\* Once updates, failures and crashes are over, every destination is and stays a copy of its
\* Secret, or a copy of it failed or its last event was dropped (watcher.go:47-92).
ConvergesUnlessMissed ==
    \A f \in Files : <>[](dest[f] = secret[f] \/ missed[f])

Readers == INSTANCE SyncedFiles

\* To the programs that read the destinations the process is no more than a file that is
\* torn and rewritten with a version that is not older than any it held, nor newer than
\* the Secret, whatever queues, goroutines, restarts and failures do
\* (sync_config.go:71-88).
ImplementsSyncedFiles == Readers!Safety

\* sync_config.go:36: "watching the source and writing to target"; the e2e test
\* dynamic_credentials_test.go:258 says "config should be updated on node when secret
\* updated". A copy that fails in Watch is logged and not tried again until the next update
\* of the Secret or restart (watcher.go:80-82).
Converges == \A f \in Files : <>[](dest[f] = secret[f])
=============================================================================
