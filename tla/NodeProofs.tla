----------------------------- MODULE NodeProofs -----------------------------
(***************************************************************************)
(* The safety of the synchronisation, for any number of versions, failures *)
(* and crashes, and inotify queues of any capacity; and what it gives the  *)
(* pulls of the node.                                                      *)
(***************************************************************************)
EXTENDS Node, TLAPS

Event == {"..data", "directory"}

LEMMA TailCalls ==
    ASSUME NEW q \in Seq(Event), q # << >>, Head(q) # "..data", CallsForCopy(q)
    PROVE  CallsForCopy(Tail(q))
<1>1. PICK i \in 1..Len(q) : q[i] = "..data"
  BY DEF CallsForCopy
<1>2. i # 1 /\ i - 1 \in 1..Len(Tail(q)) /\ Tail(q)[i - 1] = q[i]
  BY <1>1
<1> QED
  BY <1>1, <1>2 DEF CallsForCopy

LEMMA AppendCalls ==
    ASSUME NEW q \in Seq(Event), NEW e \in Event
    PROVE  /\ CallsForCopy(q) => CallsForCopy(Append(q, e))
           /\ e = "..data" => CallsForCopy(Append(q, e))
<1>1. Len(Append(q, e)) = Len(q) + 1 /\ Append(q, e)[Len(q) + 1] = e
  OBVIOUS
<1>2. \A i \in 1..Len(q) : Append(q, e)[i] = q[i]
  OBVIOUS
<1>3. Len(q) \in Nat
  OBVIOUS
<1> QED
  BY <1>1, <1>2, <1>3 DEF CallsForCopy

\* An event that is queued, or dropped, leaves the calls that were queued.
LEMMA EnqueueKeepsType ==
    ASSUME TypeOK, NEW f \in Files, NEW e \in Event, Enqueue(f, e)
    PROVE  /\ queue' \in [Files -> Seq(Event)]
           /\ \A g \in Files : CallsForCopy(queue[g]) => CallsForCopy(queue'[g])
<1>1. queue \in [Files -> Seq(Event)]
  BY DEF TypeOK, Event
<1>2. Append(queue[f], e) \in Seq(Event)
  BY <1>1
<1> QED
  BY <1>1, <1>2, AppendCalls DEF Enqueue

\* Which directories exist around an update of the Secret.
DirsAround(f) ==
    \/ dirs[f] = {secret[f]}
    \/ secret[f] < MaxVersion /\ dirs[f] = {secret[f], secret[f] + 1}
    \/ secret[f] > 1 /\ dirs[f] = {secret[f] - 1, secret[f]}

Watching(f) == pc[f] \in {"handle", "resolved", "writing", "idle"} => watched[f]

\* A copy in progress reads the current Secret, unless another copy is called for or missed.
InSync(f) ==
    ~CallsForCopy(queue[f]) /\ ~missed[f] =>
        /\ pc[f] \in {"resolved", "writing"} => reading[f] = secret[f]
        /\ pc[f] = "idle" => dest[f] = secret[f]

Newest(f) ==
    /\ newest[f] <= secret[f]
    /\ pc[f] \in {"resolved", "writing"} => newest[f] <= reading[f] /\ reading[f] <= secret[f]
    /\ dest[f] \in Versions => dest[f] = newest[f]

SyncInv ==
    /\ TypeOK
    /\ \A f \in Files : DirsAround(f) /\ Watching(f) /\ InSync(f) /\ Newest(f)

LEMMA InitSyncInv == Init => SyncInv
  BY BoundAssumption, ContentAssumption
  DEF Init, SyncInv, TypeOK, Versions, DirsAround, Watching, InSync, Newest

\* An error leaves the goroutine stopped or waiting.
LEMMA AbortKeepsType ==
    ASSUME TypeOK, NEW f \in Files, Abort(f) \/ FailStart(f)
    PROVE  /\ pc' \in [Files -> {"off", "start", "handle", "resolved", "writing", "idle"}]
           /\ initial' \in [Files -> BOOLEAN] /\ watched' \in [Files -> BOOLEAN]
           /\ queue' \in [Files -> Seq({"..data", "directory"})]
           /\ process' \in {"down", "up", "stopping"}
<1>1. CASE FailStart(f)
  BY <1>1 DEF FailStart, TypeOK
<1>2. CASE Abort(f) /\ ~FailStart(f)
  BY <1>2 DEF Abort, TypeOK
<1> QED
  BY <1>1, <1>2

LEMMA NextType == SyncInv /\ [Next]_vars => TypeOK'
<1> SUFFICES ASSUME SyncInv, [Next]_vars PROVE TypeOK'
  OBVIOUS
<1> USE BoundAssumption DEF SyncInv
<1>1. ASSUME NEW f \in Files, WriteVersion(f) PROVE TypeOK'
  BY <1>1, EnqueueKeepsType DEF WriteVersion, TypeOK, Event, Versions
<1>2. ASSUME NEW f \in Files, SwapData(f) PROVE TypeOK'
  <2>1. secret[f] + 1 \in Versions
    BY <1>2 DEF SwapData, TypeOK
  <2> QED
    BY <1>2, <2>1, EnqueueKeepsType DEF SwapData, TypeOK, Event
<1>3. ASSUME NEW f \in Files, RemoveOldVersion(f) PROVE TypeOK'
  BY <1>3, EnqueueKeepsType DEF RemoveOldVersion, TypeOK, Event
<1>4. ASSUME NEW f \in Files, AddWatch(f) PROVE TypeOK'
  BY <1>4 DEF AddWatch, volumeVars, TypeOK
<1>5. ASSUME NEW f \in Files, ReceiveEvent(f) PROVE TypeOK'
  <2>1. Tail(queue[f]) \in Seq({"..data", "directory"})
    BY <1>5 DEF ReceiveEvent, TypeOK
  <2> QED
    BY <1>5, <2>1 DEF ReceiveEvent, volumeVars, TypeOK
<1>6. ASSUME NEW f \in Files, Resolve(f) PROVE TypeOK'
  BY <1>6 DEF Resolve, volumeVars, TypeOK
<1>7. ASSUME NEW f \in Files, Open(f) PROVE TypeOK'
  BY <1>7 DEF Open, volumeVars, TypeOK
<1>8. ASSUME NEW f \in Files, Write(f) PROVE TypeOK'
  BY <1>8 DEF Write, Settle, volumeVars, TypeOK, Versions
<1>9. ASSUME NEW f \in Files, PassOver(f) PROVE TypeOK'
  BY <1>9 DEF PassOver, Settle, volumeVars, TypeOK
<1>10. ASSUME NEW f \in Files, SourceVanished(f) PROVE TypeOK'
  BY <1>10, AbortKeepsType DEF SourceVanished, volumeVars, TypeOK
<1>11. ASSUME NEW f \in Files, CopyFails(f) PROVE TypeOK'
  BY <1>11, AbortKeepsType DEF CopyFails, volumeVars, TypeOK
<1>12. ASSUME NEW f \in Files, CannotWatch(f) PROVE TypeOK'
  BY <1>12, AbortKeepsType DEF CannotWatch, volumeVars, TypeOK
<1>13. CASE Boot
  BY <1>13 DEF Boot, volumeVars, TypeOK
<1>14. CASE Exit
  BY <1>14 DEF Exit, Die, volumeVars, TypeOK
<1>15. CASE Crash
  BY <1>15 DEF Crash, Die, volumeVars, TypeOK
<1>16. CASE UNCHANGED vars
  BY <1>16 DEF vars, TypeOK
<1> QED
  BY <1>1, <1>2, <1>3, <1>4, <1>5, <1>6, <1>7, <1>8, <1>9, <1>10, <1>11, <1>12, <1>13, <1>14, <1>15,
     <1>16
  DEF Next, VolumeStep, CopyStep

\* A step of one file's volume or goroutine leaves the other files' variables alone.
LEMMA OthersUntouched ==
    ASSUME TypeOK, NEW f \in Files, NEW g \in Files, g # f,
           WriteVersion(f) \/ VolumeStep(f) \/ CopyStep(f) \/ CannotWatch(f) \/ CopyFails(f)
    PROVE  /\ secret'[g] = secret[g] /\ dirs'[g] = dirs[g] /\ pc'[g] = pc[g]
           /\ watched'[g] = watched[g] /\ queue'[g] = queue[g] /\ reading'[g] = reading[g]
           /\ dest'[g] = dest[g] /\ missed'[g] = missed[g] /\ newest'[g] = newest[g]
  BY DEF TypeOK, VolumeStep, CopyStep, WriteVersion, SwapData, RemoveOldVersion, Enqueue, AddWatch,
         ReceiveEvent, Resolve, Open, Write, PassOver, SourceVanished, CannotWatch, CopyFails,
         Settle, Abort, FailStart, volumeVars

FileInv(f) == DirsAround(f) /\ Watching(f) /\ InSync(f) /\ Newest(f)

\* The destination never goes back, as a fact about one file's step.
Forward(f) == dest'[f] \in Versions => dest'[f] >= newest[f]

LEMMA VolumeStepKeeps ==
    ASSUME SyncInv, NEW f \in Files, WriteVersion(f) \/ VolumeStep(f)
    PROVE  FileInv(f)' /\ Forward(f)
<1> USE BoundAssumption DEF SyncInv
<1>1. CASE WriteVersion(f)
  <2>1. CallsForCopy(queue[f]) => CallsForCopy(queue'[f])
    BY <1>1, EnqueueKeepsType DEF WriteVersion, Event
  <2> QED
    BY <1>1, <2>1 DEF WriteVersion, TypeOK, Versions, FileInv, Forward, DirsAround, Watching,
                      InSync, Newest
<1>2. CASE SwapData(f)
  <2>1. /\ secret'[f] = secret[f] + 1 /\ dirs' = dirs /\ dirs[f] = {secret[f], secret[f] + 1}
        /\ secret[f] < MaxVersion
    <3>1. secret[f] \in Nat /\ secret[f] + 1 \in dirs[f] /\ dirs' = dirs
          /\ secret'[f] = secret[f] + 1
      BY <1>2 DEF SwapData, TypeOK, Versions
    <3>2. DirsAround(f)
      OBVIOUS
    <3>3. dirs[f] = {secret[f], secret[f] + 1} /\ secret[f] < MaxVersion
      BY <3>1, <3>2 DEF DirsAround
    <3> QED
      BY <3>1, <3>3
  <2>2. DirsAround(f)'
    BY <2>1 DEF DirsAround, TypeOK, Versions
  <2>3. ~CallsForCopy(queue'[f]) /\ ~missed'[f] => ~watched[f]
    BY <1>2 DEF SwapData, TypeOK
  <2>4. Watching(f)' /\ InSync(f)'
    BY <1>2, <2>3 DEF SwapData, TypeOK, Watching, InSync
  <2>5. Newest(f)' /\ Forward(f)
    BY <1>2, <2>1 DEF SwapData, TypeOK, Versions, Newest, Forward
  <2> QED
    BY <2>2, <2>4, <2>5 DEF FileInv
<1>3. CASE RemoveOldVersion(f)
  <2>1. CallsForCopy(queue[f]) => CallsForCopy(queue'[f])
    BY <1>3, EnqueueKeepsType DEF RemoveOldVersion, Event
  <2> QED
    BY <1>3, <2>1 DEF RemoveOldVersion, TypeOK, Versions, FileInv, Forward, DirsAround, Watching,
                      InSync, Newest
<1> QED
  BY <1>1, <1>2, <1>3 DEF VolumeStep

LEMMA CopyStepKeeps ==
    ASSUME SyncInv, NEW f \in Files, CopyStep(f) \/ CannotWatch(f) \/ CopyFails(f)
    PROVE  FileInv(f)' /\ Forward(f)
<1> USE BoundAssumption, ContentAssumption
    DEF SyncInv, TypeOK, Versions, volumeVars, FileInv, Forward
<1>1. secret[f] \in dirs[f]
  BY DEF DirsAround
<1>2. CASE AddWatch(f)
  BY <1>2 DEF AddWatch, DirsAround, Watching, InSync, Newest
<1>3. CASE ReceiveEvent(f)
  <2>1. pc'[f] # "handle" /\ CallsForCopy(queue[f]) => CallsForCopy(queue'[f])
    BY <1>3, TailCalls DEF ReceiveEvent, Event
  <2>2. pc'[f] \in {"handle", "idle"} /\ pc[f] = "idle" /\ watched' = watched
    BY <1>3 DEF ReceiveEvent
  <2>3. Watching(f)' /\ InSync(f)'
    BY <1>3, <2>1, <2>2 DEF ReceiveEvent, Watching, InSync
  <2>4. DirsAround(f)' /\ Newest(f)' /\ Forward(f)
    BY <1>3, <2>2 DEF ReceiveEvent, DirsAround, Newest
  <2> QED
    BY <2>3, <2>4
<1>4. CASE Resolve(f)
  BY <1>4 DEF Resolve, DirsAround, Watching, InSync, Newest
<1>5. CASE Open(f)
  BY <1>5 DEF Open, DirsAround, Watching, InSync, Newest
<1>6. CASE Write(f)
  BY <1>6 DEF Write, Settle, DirsAround, Watching, InSync, Newest
<1>7. CASE PassOver(f)
  BY <1>1, <1>7 DEF PassOver, Settle, DirsAround, Watching, InSync, Newest
<1>8. CASE SourceVanished(f)
  <2>1. reading[f] # secret[f] /\ pc[f] = "resolved"
    BY <1>1, <1>8 DEF SourceVanished
  <2>2. CallsForCopy(queue[f]) \/ missed[f]
    BY <2>1 DEF InSync
  <2>3. InSync(f)' /\ Watching(f)'
    BY <1>8, <2>2 DEF SourceVanished, Abort, FailStart, InSync, Watching
  <2>4. DirsAround(f)' /\ Newest(f)' /\ Forward(f)
    BY <1>8 DEF SourceVanished, Abort, FailStart, DirsAround, Newest
  <2> QED
    BY <2>3, <2>4
<1>9. CASE CopyFails(f)
  <2>1. InSync(f)' /\ Watching(f)'
    BY <1>9 DEF CopyFails, Abort, FailStart, InSync, Watching
  <2>2. DirsAround(f)' /\ Newest(f)' /\ Forward(f)
    BY <1>9 DEF CopyFails, Abort, FailStart, DirsAround, Newest
  <2> QED
    BY <2>1, <2>2
<1>10. CASE CannotWatch(f)
  BY <1>10 DEF CannotWatch, FailStart, DirsAround, Watching, InSync, Newest
<1> QED
  BY <1>2, <1>3, <1>4, <1>5, <1>6, <1>7, <1>8, <1>9, <1>10 DEF CopyStep

\* The steps of the process as a whole.
LEMMA ProcessStepKeeps ==
    ASSUME SyncInv, Boot \/ Exit \/ Crash \/ UNCHANGED vars, NEW f \in Files
    PROVE  FileInv(f)' /\ Forward(f)
<1> USE DEF SyncInv, TypeOK, Versions, FileInv, Forward, volumeVars
<1>1. CASE Boot
  BY <1>1 DEF Boot, DirsAround, Watching, InSync, Newest
<1>2. CASE Exit
  BY <1>2 DEF Exit, Die, DirsAround, Watching, InSync, Newest
<1>3. CASE Crash
  BY <1>3 DEF Crash, Die, DirsAround, Watching, InSync, Newest
<1>4. CASE UNCHANGED vars
  BY <1>4 DEF vars, DirsAround, Watching, InSync, Newest
<1> QED
  BY <1>1, <1>2, <1>3, <1>4

LEMMA NextSyncInv == SyncInv /\ [Next]_vars => SyncInv' /\ \A f \in Files : Forward(f)
<1> SUFFICES ASSUME SyncInv, [Next]_vars, NEW f \in Files PROVE FileInv(f)' /\ Forward(f)
  BY NextType DEF SyncInv, FileInv
<1>1. CASE Boot \/ Exit \/ Crash \/ UNCHANGED vars
  BY <1>1, ProcessStepKeeps
<1>2. ASSUME NEW g \in Files,
             WriteVersion(g) \/ VolumeStep(g) \/ CopyStep(g) \/ CannotWatch(g) \/ CopyFails(g)
      PROVE  FileInv(f)' /\ Forward(f)
  <2>1. CASE g = f
    BY <1>2, <2>1, VolumeStepKeeps, CopyStepKeeps
  <2>2. CASE g # f
    <3>1. FileInv(f)
      BY DEF SyncInv, FileInv
    <3>2. newest[f] \in Nat /\ (dest[f] \in Versions => dest[f] = newest[f])
      BY BoundAssumption DEF SyncInv, TypeOK, Newest
    <3>3. Forward(f)
      BY <1>2, <2>2, <3>2, OthersUntouched DEF SyncInv, Forward
    <3>4. FileInv(f)'
      BY <1>2, <2>2, <3>1, OthersUntouched
      DEF SyncInv, FileInv, DirsAround, Watching, InSync, Newest
    <3> QED
      BY <3>3, <3>4
  <2> QED
    BY <2>1, <2>2
<1> QED
  BY <1>1, <1>2 DEF Next

\* The state of the synchronisation has its type; in particular a copy always reads a
\* version that exists or existed (sync_config.go:71-88).
THEOREM SyncTypeCorrect == Spec => []TypeOK
<1>1. Spec => []SyncInv
  BY InitSyncInv, NextSyncInv, PTL DEF Spec
<1> QED
  BY <1>1, PTL DEF SyncInv

\* A waiting watcher without a call for a copy left has an exact copy, or a copy failed or
\* its event was dropped, for queues of any capacity (watcher.go:51-82).
THEOREM WaitingMeansInSync == Spec => []IdleInSync
<1>1. Spec => []SyncInv
  BY InitSyncInv, NextSyncInv, PTL DEF Spec
<1>2. SyncInv => IdleInSync
  BY DEF SyncInv, InSync, IdleInSync
<1> QED
  BY <1>1, <1>2, PTL

\* A destination never goes back to an older version, across failures and restarts
\* (sync_config.go:71-88).
THEOREM NeverGoesBack == Spec => NeverOlder
<1>1. Spec => []SyncInv
  BY InitSyncInv, NextSyncInv, PTL DEF Spec
<1>2. SyncInv /\ [Next]_vars => [\A f \in Files : dest'[f] \in Versions => dest'[f] >= newest[f]]_vars
  BY NextSyncInv DEF Forward
<1> QED
  BY <1>1, <1>2, PTL DEF Spec, NeverOlder

---------------------------------------------------------------------------
(* The refinement. A step of the process is a step of one file as a reader *)
(* sees it, or none.                                                       *)

\* Between Open and Write the destination is torn.
TornInv == \A f \in Files : pc[f] = "writing" => dest[f] = Torn

LEMMA NextTornInv == SyncInv /\ TornInv /\ [Next]_vars => TornInv'
<1> SUFFICES ASSUME SyncInv, TornInv, [Next]_vars, NEW f \in Files PROVE (pc[f] = "writing" => dest[f] = Torn)'
  BY DEF TornInv
<1> USE DEF SyncInv, TypeOK, TornInv, volumeVars
<1>1. CASE Boot \/ Exit \/ Crash \/ UNCHANGED vars
  BY <1>1 DEF Boot, Exit, Crash, Die, vars
<1>2. ASSUME NEW g \in Files, WriteVersion(g) \/ VolumeStep(g)
      PROVE  (pc[f] = "writing" => dest[f] = Torn)'
  BY <1>2 DEF WriteVersion, VolumeStep, SwapData, RemoveOldVersion
<1>3. ASSUME NEW g \in Files, CopyStep(g) \/ CannotWatch(g) \/ CopyFails(g)
      PROVE  (pc[f] = "writing" => dest[f] = Torn)'
  <2>1. CASE g = f
    BY <1>3, <2>1 DEF CopyStep, AddWatch, ReceiveEvent, Resolve, Open, Write, PassOver,
                      SourceVanished, CannotWatch, CopyFails, Settle, Abort, FailStart
  <2>2. CASE g # f
    BY <1>3, <2>2, OthersUntouched
  <2> QED
    BY <2>1, <2>2
<1> QED
  BY <1>1, <1>2, <1>3 DEF Next

LEMMA VolumeStepImplements ==
    ASSUME SyncInv, NEW f \in Files, WriteVersion(f) \/ VolumeStep(f)
    PROVE  Readers!Step(f) \/ UNCHANGED Readers!vars
<1> USE BoundAssumption DEF SyncInv, TypeOK, Versions, Readers!vars
<1>1. CASE WriteVersion(f) \/ RemoveOldVersion(f)
  BY <1>1 DEF WriteVersion, RemoveOldVersion
<1>2. CASE SwapData(f)
  <2>1. secret[f] < MaxVersion
    BY <1>2 DEF SwapData, DirsAround
  <2>2. Readers!Update(f)
    BY <1>2, <2>1 DEF SwapData, Readers!Update
  <2> QED
    BY <2>2 DEF Readers!Step
<1> QED
  BY <1>1, <1>2 DEF VolumeStep

LEMMA CopyStepImplements ==
    ASSUME SyncInv, TornInv, NEW f \in Files, CopyStep(f) \/ CannotWatch(f) \/ CopyFails(f)
    PROVE  Readers!Step(f) \/ UNCHANGED Readers!vars
<1> USE DEF SyncInv, TypeOK, volumeVars, Readers!vars
<1>1. CASE AddWatch(f) \/ ReceiveEvent(f) \/ PassOver(f) \/ SourceVanished(f) \/ CannotWatch(f)
  BY <1>1 DEF AddWatch, ReceiveEvent, PassOver, SourceVanished, CannotWatch
<1>2. CASE Resolve(f)
  <2>1. Readers!BeginCopy(f)
    BY <1>2 DEF Resolve, Readers!BeginCopy
  <2> QED
    BY <2>1 DEF Readers!Step
<1>3. CASE Open(f)
  <2>1. Readers!Truncate(f)
    BY <1>3 DEF Open, Readers!Truncate
  <2> QED
    BY <2>1 DEF Readers!Step
<1>4. CASE Write(f)
  <2>1. /\ reading[f] \in 1..secret[f]
        /\ newest[f] <= reading[f]
        /\ newest'[f] = reading[f]
    BY <1>4, BoundAssumption DEF Write, Newest, Versions
  <2>2. newest' = [newest EXCEPT ![f] = reading[f]] /\ dest' = [dest EXCEPT ![f] = reading[f]]
    BY <1>4, <2>1 DEF Write
  <2>3. dest[f] = Torn /\ UNCHANGED <<secret, missed>>
    BY <1>4 DEF Write, TornInv
  <2>4. Readers!Write(f)
    BY <2>1, <2>2, <2>3 DEF Readers!Write
  <2> QED
    BY <2>4 DEF Readers!Step
<1>5. CASE CopyFails(f)
  <2>1. Readers!GiveUp(f)
    BY <1>5 DEF CopyFails, Readers!GiveUp
  <2> QED
    BY <2>1 DEF Readers!Step
<1> QED
  BY <1>1, <1>2, <1>3, <1>4, <1>5 DEF CopyStep

LEMMA StepImplements == SyncInv /\ TornInv /\ [Next]_vars => [Readers!Next]_Readers!vars
<1> SUFFICES ASSUME SyncInv, TornInv, [Next]_vars PROVE Readers!Next \/ UNCHANGED Readers!vars
  OBVIOUS
<1>1. CASE Boot \/ Exit \/ Crash \/ UNCHANGED vars
  BY <1>1 DEF Boot, Exit, Crash, Die, volumeVars, vars, Readers!vars
<1>2. ASSUME NEW f \in Files,
             WriteVersion(f) \/ VolumeStep(f) \/ CopyStep(f) \/ CannotWatch(f) \/ CopyFails(f)
      PROVE  Readers!Next \/ UNCHANGED Readers!vars
  BY <1>2, VolumeStepImplements, CopyStepImplements DEF Readers!Next
<1> QED
  BY <1>1, <1>2 DEF Next

\* To a reader of the destinations the whole process is a file that is torn and rewritten
\* with versions that never go back, which the models of image pulls rest on
\* (sync_config.go:71-88).
THEOREM SyncImplementsSyncedFiles == Spec => ImplementsSyncedFiles
<1>1. Init => Readers!Init /\ TornInv
  BY DEF Init, Readers!Init, TornInv
<1> QED
  BY <1>1, StepImplements, InitSyncInv, NextSyncInv, NextTornInv, PTL
  DEF Spec, ImplementsSyncedFiles, Readers!Safety

---------------------------------------------------------------------------
(* The node. Its files are those of FileSync, its pulls those of ImagePull.*)

\* The node's steps leave the process and the files as FileSync would.
LEMMA NodeStepIsSyncStep == [NodeNext]_nodeVars => [Next]_vars
  BY DEF NodeNext, nodeVars

\* The abstract files are the same for the pulls and for FileSync.
LEMMA SameFiles == Readers!Next => Pulls!Sync!Next
  BY DEF Readers!Next, Readers!Step, Readers!Update, Readers!BeginCopy, Readers!Truncate,
         Readers!Write, Readers!GiveUp, Pulls!Sync!Next, Pulls!Sync!Step, Pulls!Sync!Update,
         Pulls!Sync!BeginCopy, Pulls!Sync!Truncate, Pulls!Sync!Write, Pulls!Sync!GiveUp

LEMMA NodeStepIsPullStep ==
    SyncInv /\ TornInv /\ [NodeNext]_nodeVars => [Pulls!Next]_Pulls!vars
<1> SUFFICES ASSUME SyncInv, TornInv, [NodeNext]_nodeVars
             PROVE  Pulls!Next \/ UNCHANGED Pulls!vars
  OBVIOUS
<1> USE DEF Pulls!vars, Pulls!fileVars, Pulls!pullVars, pullVars
<1>1. CASE Next /\ UNCHANGED pullVars
  <2>1. [Readers!Next]_Readers!vars
    BY <1>1, StepImplements
  <2> QED
    BY <1>1, <2>1, SameFiles DEF Pulls!Next, Readers!vars
<1>2. CASE PullStep /\ UNCHANGED vars
  BY <1>2 DEF PullStep, Pulls!Next
<1>3. CASE UNCHANGED nodeVars
  BY <1>3 DEF nodeVars, vars
<1> QED
  BY <1>1, <1>2, <1>3 DEF NodeNext

\* The invariants of FileSync hold of the node.
LEMMA NodeInv == NodeSpec => [](SyncInv /\ TornInv)
<1>1. NodeInit => SyncInv /\ TornInv
  BY InitSyncInv DEF NodeInit, Init, TornInv
<1> QED
  BY <1>1, NodeStepIsSyncStep, NextSyncInv, NextTornInv, PTL DEF NodeSpec

\* Pulls over the real sync-config, with its queues, goroutines, restarts and failures,
\* behave as pulls over the abstract files, in what they reach and in what they must reach;
\* all that is said of ImagePull holds of the node
\* (sync_config.go:71-88, static_credentials.go:40-51).
THEOREM NodeImplementsImagePull == NodeSpec => ImplementsImagePull
<1>1. NodeInit => Pulls!Init
  BY DEF NodeInit
<1> QED
  BY <1>1, NodeInv, NodeStepIsPullStep, PTL
  DEF NodeSpec, NodeFairness, ImplementsImagePull, Pulls!Spec

\* The node does not keep sync-config from its own specification: what is proved of FileSync
\* holds of the node (sync_config.go:71-88, watcher.go:47-92).
LEMMA NodeImplementsFileSync == NodeSpec => Spec
  BY NodeStepIsSyncStep, PTL DEF NodeSpec, NodeInit, NodeFairness, Spec

---------------------------------------------------------------------------
(* What is proved of the pulls over abstract files, brought to the node.   *)

Facts == INSTANCE ImagePullProofs

LEMMA FactsAssumption ==
    /\ Lookups \in [1..MaxVersion -> Facts!Plans]
    /\ Facts!Plans = Pulls!Plans
    /\ Facts!Versions = Versions /\ Pulls!Versions = Versions
  BY NodeAssumption
  DEF Pulls!Plans, Facts!Plans, Versions, Facts!Versions, Facts!Sync!Versions,
      Pulls!Versions, Pulls!Sync!Versions

LEMMA SamePulls ==
    /\ Pulls!Init => Facts!Init
    /\ [Pulls!Next]_Pulls!vars => [Facts!Next]_Facts!vars
<1>1. Pulls!Init => Facts!Init
  BY DEF Pulls!Init, Facts!Init, Pulls!Sync!Init, Facts!Sync!Init, Pulls!Nothing, Facts!Nothing
<1>2. /\ UNCHANGED Pulls!vars => UNCHANGED Facts!vars
      /\ UNCHANGED Pulls!pullVars => UNCHANGED Facts!pullVars
  BY DEF Pulls!vars, Facts!vars, Pulls!fileVars, Facts!fileVars, Pulls!pullVars, Facts!pullVars
<1>3. Pulls!Sync!Next => Facts!Sync!Next
  BY DEF Pulls!Sync!Next, Pulls!Sync!Step, Pulls!Sync!Update,
         Pulls!Sync!BeginCopy, Pulls!Sync!Truncate, Pulls!Sync!Write, Pulls!Sync!GiveUp,
         Facts!Sync!Next, Facts!Sync!Step, Facts!Sync!Update, Facts!Sync!BeginCopy,
         Facts!Sync!Truncate, Facts!Sync!Write, Facts!Sync!GiveUp
<1>4. Pulls!StartPull => Facts!StartPull
  BY DEF Pulls!StartPull, Facts!StartPull, Pulls!Nothing, Facts!Nothing, Pulls!fileVars,
         Facts!fileVars
<1>5. Pulls!Process => Facts!Process
  BY DEF Pulls!Process, Facts!Process, Pulls!LoadConfig, Facts!LoadConfig, Pulls!LookUp,
         Facts!LookUp, Pulls!ReadFails, Facts!ReadFails, Pulls!GiveUpPull, Facts!GiveUpPull,
         Pulls!Respond, Facts!Respond, Pulls!Plans, Facts!Plans, Pulls!fileVars,
         Facts!fileVars
<1>6. Pulls!Kill \/ Pulls!Expire => Facts!Kill \/ Facts!Expire
  BY DEF Pulls!Kill, Facts!Kill, Pulls!GiveUpPull, Facts!GiveUpPull, Pulls!Expire,
         Facts!Expire, Pulls!fileVars, Facts!fileVars
<1> QED
  BY <1>1, <1>2, <1>3, <1>4, <1>5, <1>6 DEF Pulls!Next, Facts!Next

LEMMA NodePullInv == NodeSpec => []Facts!PullInv
<1>1. Facts!Init => Facts!PullInv
  BY Facts!InitPullInv, FactsAssumption, NodeAssumption, BoundAssumption, ContentAssumption
<1>2. Facts!PullInv /\ [Facts!Next]_Facts!vars => Facts!PullInv'
  BY Facts!NextPullInv, FactsAssumption, NodeAssumption, BoundAssumption, ContentAssumption
<1> QED
  BY <1>1, <1>2, SamePulls, NodeInv, NodeStepIsPullStep, PTL DEF NodeSpec, NodeInit

\* A settled file is the current Secret, which is then the newest version it ever held.
LEMMA SettledIsNewest ==
    ASSUME SyncInv, NEW f \in Files, Settled(f)
    PROVE  newest[f] = secret[f]
  BY DEF SyncInv, TypeOK, Settled, InSync, Newest

\* A pull that begins once sync-config has settled is answered with the Secrets of that
\* moment or newer ones, whatever update, copy or restart comes between, for any number of
\* them (watcher.go:51-62, dynamic.go:49-73, static_credentials.go:40-51).
THEOREM SettledSecretsAreAnswered == NodeSpec => AnswersSettledSecrets
<1> DEFINE
      Begins == phase = "idle" /\ phase' = "config" =>
                    \A f \in Files : Settled(f) => floor'[f] = secret[f]
      Answers == phase = "lookups" /\ served' # served =>
                     \A read \in DOMAIN served' :
                         served'[read] \in Versions =>
                             served'[read] >= floor[Pulls!FileOf(read)]
<1>1. SyncInv /\ [NodeNext]_nodeVars => [Begins]_nodeVars
  <2> SUFFICES ASSUME SyncInv, NodeNext, phase = "idle", phase' = "config",
                      NEW f \in Files, Settled(f)
               PROVE  floor'[f] = secret[f]
    OBVIOUS
  <2>1. Pulls!StartPull
    BY DEF NodeNext, PullStep, pullVars, Pulls!Process, Pulls!LoadConfig, Pulls!LookUp,
           Pulls!ReadFails, Pulls!Respond, Pulls!GiveUpPull, Pulls!Kill, Pulls!Expire
  <2> QED
    BY <2>1, SettledIsNewest DEF Pulls!StartPull
<1>2. Facts!PullInv /\ [NodeNext]_nodeVars => [Answers]_nodeVars
  <2> SUFFICES ASSUME Facts!PullInv, NodeNext, phase = "lookups", served' # served,
                      NEW read \in DOMAIN served', served'[read] \in Versions
               PROVE  served'[read] >= floor[Pulls!FileOf(read)]
    OBVIOUS
  <2>1. served' = used
    BY DEF NodeNext, PullStep, pullVars, Pulls!Process, Pulls!LoadConfig, Pulls!LookUp,
           Pulls!ReadFails, Pulls!Respond, Pulls!GiveUpPull, Pulls!Kill, Pulls!Expire,
           Pulls!StartPull
  <2>2. DOMAIN used = Facts!ReadNames /\ floor \in [Files -> 0..MaxVersion]
    BY FactsAssumption DEF Facts!PullInv, Facts!TypeOK, Facts!Reads, Facts!ReadNames
  <2>3. Facts!Since(read)
    BY <2>1, <2>2 DEF Facts!PullInv
  <2>4. floor[Facts!FileOf(read)] <= used[read]
    BY <2>1, <2>3, FactsAssumption DEF Facts!Since
  <2>5. Pulls!FileOf(read) = Facts!FileOf(read) /\ Facts!FileOf(read) \in Files
    BY NodeAssumption DEF Pulls!FileOf, Facts!FileOf
  <2>6. floor[Facts!FileOf(read)] \in Nat /\ used[read] \in Nat
    BY <2>1, <2>2, <2>5, BoundAssumption DEF Versions
  <2> QED
    BY <2>1, <2>4, <2>5, <2>6
<1> QED
  BY <1>1, <1>2, NodeInv, NodePullInv, PTL DEF NodeSpec, AnswersSettledSecrets

\* On the node, with files that sync-config really writes, a pull reads nothing older than
\* what was there when it began, and no response is older than the one before it
\* (sync_config.go:71-88, dynamic.go:49-73, static_credentials.go:40-51).
THEOREM NodeReadsForward == NodeSpec => []Pulls!PullsReadForward
<1>1. Facts!PullInv => Pulls!PullsReadForward
  <2> SUFFICES ASSUME Facts!PullInv, phase # "idle"
               PROVE  /\ \A read \in DOMAIN used :
                             used[read] \in Versions =>
                                 /\ floor[Pulls!FileOf(read)] <= used[read]
                                 /\ used[read] <= newest[Pulls!FileOf(read)]
                      /\ used.mirror \in Versions /\ used.origin \in Versions =>
                             used.mirror <= used.origin
    BY FactsAssumption DEF Pulls!PullsReadForward
  <2>1. DOMAIN used = Facts!ReadNames
    BY DEF Facts!PullInv, Facts!TypeOK, Facts!Reads, Facts!ReadNames
  <2>2. \A read : Pulls!FileOf(read) = Facts!FileOf(read)
    BY DEF Pulls!FileOf, Facts!FileOf
  <2> QED
    BY <2>1, <2>2, FactsAssumption DEF Facts!PullInv, Facts!Past, Facts!Since
<1> QED
  BY <1>1, NodePullInv, PTL

\* What remains for liveness. If sync-config converges and pulls over converged files serve
\* the current credentials, both of which hold of the two parts by themselves wherever they
\* were checked, then on the node as a whole every Secret reaches the kubelet, for all
\* bounds (watcher.go:47-92, static_credentials.go:40-51).
THEOREM SecretsReachKubeletByParts ==
    /\ Spec => ConvergesUnlessMissed
    /\ Pulls!Spec => Pulls!ServesCurrent
    => (NodeSpec => SecretsReachKubelet)
<1>1. ASSUME NEW f \in Files
      PROVE  <>[](dest[f] = secret[f] \/ missed[f]) /\ <>[]~missed[f] =>
                 <>[](dest[f] = secret[f])
  BY PTL
<1>2. ConvergesUnlessMissed /\ (\A f \in Files : <>[]~missed[f]) =>
          \A f \in Files : <>[](dest[f] = secret[f])
  BY <1>1 DEF ConvergesUnlessMissed
<1>3. ConvergesUnlessMissed /\ Pulls!ServesCurrent => SecretsReachKubelet
  BY <1>2 DEF SecretsReachKubelet, Pulls!ServesCurrent
<1> QED
  BY <1>3, NodeImplementsFileSync, NodeImplementsImagePull, PTL DEF ImplementsImagePull
=============================================================================
