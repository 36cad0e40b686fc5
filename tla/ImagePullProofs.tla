-------------------------- MODULE ImagePullProofs --------------------------
(***************************************************************************)
(* Image pulls while their files are rewritten, for any number of versions *)
(* of the two files and of pulls that the kubelet gives up.                *)
(***************************************************************************)
EXTENDS ImagePull, TLAPS

ReadNames == {"config", "mirror", "origin"}

\* The files of SyncedFiles never hold more than their Secrets did.
FilesInv ==
    /\ secret \in [Files -> Versions]
    /\ dest \in [Files -> Versions \cup {Missing, Torn}]
    /\ newest \in [Files -> 0..MaxVersion]
    /\ \A f \in Files : /\ newest[f] <= secret[f]
                        /\ dest[f] \in Versions => dest[f] = newest[f]

\* Nothing was read that the file did not hold by then.
Past(read) ==
    /\ used[read] \in Versions => used[read] <= newest[FileOf(read)]
    /\ served[read] \in Versions => served[read] <= newest[FileOf(read)]

\* A pull began after the last response, and reads from there on.
Since(read) ==
    /\ used[read] \in Versions => floor[FileOf(read)] <= used[read]
    /\ served[read] \in Versions => served[read] <= floor[FileOf(read)]

\* The mirror is looked up first, if at all.
Order ==
    /\ phase = "config" => used = Nothing
    /\ phase = "lookups" /\ todo # << >> => used.origin = Unread
    /\ phase = "lookups" /\ todo # << >> /\ Head(todo) = "mirror" => used.mirror = Unread

PullInv ==
    /\ TypeOK
    /\ FilesInv
    /\ \A f \in Files : floor[f] <= newest[f]
    /\ \A read \in ReadNames : Past(read)
    /\ phase # "idle" => \A read \in ReadNames : Since(read)
    /\ phase # "idle" /\ used.mirror \in Versions /\ used.origin \in Versions =>
           used.mirror <= used.origin
    /\ Order

LEMMA VersionsType ==
    /\ Versions = 1..MaxVersion
    /\ \A read \in ReadNames : FileOf(read) \in Files
    /\ FileOf("config") = DynamicConfig
    /\ FileOf("mirror") = StaticCredentials /\ FileOf("origin") = StaticCredentials
    /\ Unread \notin Versions /\ Torn \notin Versions /\ Missing \notin Versions
  BY PullAssumption DEF Versions, Sync!Versions, ReadNames, FileOf

LEMMA PlansType ==
    ASSUME NEW t \in Plans
    PROVE  /\ t # << >>
           /\ Head(t) \in {"mirror", "origin"}
           /\ Tail(t) \in Plans \cup {<< >>}
           /\ Tail(t) # << >> => Head(t) = "mirror" /\ Head(Tail(t)) = "origin"
<1>1. CASE t = <<"mirror", "origin">>
  <2>1. Tail(t) = <<"origin">>
    BY <1>1
  <2> QED
    BY <1>1, <2>1 DEF Plans
<1>2. CASE t = <<"mirror">>
  BY <1>2
<1>3. CASE t = <<"origin">>
  BY <1>3
<1> QED
  BY <1>1, <1>2, <1>3 DEF Plans

LEMMA InitPullInv == Init => PullInv
<1> SUFFICES ASSUME Init PROVE PullInv
  OBVIOUS
<1>1. FilesInv /\ newest = [f \in Files |-> 0]
  BY VersionsType, PullAssumption DEF Init, Sync!Init, FilesInv
<1>2. used = Nothing /\ served = Nothing /\ phase = "idle" /\ floor = newest
  BY DEF Init
<1>3. Nothing \in Reads /\ \A read \in ReadNames : Nothing[read] = Unread
  BY DEF Nothing, Reads, Content, ReadNames
<1>4. TypeOK
  <2>1. cached \in BOOLEAN /\ todo \in {<< >>} /\ phase = "idle"
    BY DEF Init
  <2>2. kills \in 0..MaxKills
    BY PullAssumption DEF Init
  <2>3. floor \in [Files -> 0..MaxVersion]
    BY <1>1, <1>2 DEF FilesInv
  <2> QED
    BY <1>2, <1>3, <2>1, <2>2, <2>3 DEF TypeOK
<1>5. \A read \in ReadNames : Past(read)
  BY <1>2, <1>3, VersionsType DEF Past
<1> QED
  BY <1>1, <1>2, <1>4, <1>5 DEF PullInv, Order

\* A step of sync-config or a Secret.
LEMMA FilesStep ==
    ASSUME FilesInv, Sync!Next
    PROVE  /\ FilesInv'
           /\ \A f \in Files : newest[f] <= newest'[f]
<1> USE VersionsType, PullAssumption DEF FilesInv
<1>1. PICK f \in Files : Sync!Step(f)
  BY DEF Sync!Next
<1>2. CASE Sync!Update(f)
  BY <1>2 DEF Sync!Update
<1>3. CASE Sync!BeginCopy(f)
  BY <1>3 DEF Sync!BeginCopy
<1>4. CASE Sync!Truncate(f)
  <2>1. dest' = [dest EXCEPT ![f] = Torn] /\ UNCHANGED <<secret, newest>>
    BY <1>4 DEF Sync!Truncate
  <2>2. \A g \in Files : dest'[g] \in Versions => dest'[g] = dest[g]
    BY <2>1
  <2>3. dest' \in [Files -> Versions \cup {Missing, Torn}]
    BY <2>1
  <2>4. secret' \in [Files -> Versions] /\ newest' \in [Files -> 0..MaxVersion]
    BY <2>1
  <2>5. \A g \in Files : /\ newest'[g] <= secret'[g] /\ newest[g] <= newest'[g]
                         /\ dest'[g] \in Versions => dest'[g] = newest'[g]
    BY <2>1, <2>2
  <2> QED
    BY <2>3, <2>4, <2>5
<1>5. CASE Sync!Write(f)
  <2>1. PICK v \in 1..secret[f] :
           /\ v >= newest[f]
           /\ dest' = [dest EXCEPT ![f] = v]
           /\ newest' = [newest EXCEPT ![f] = v]
    BY <1>5 DEF Sync!Write
  <2>2. secret' = secret /\ v \in Versions
    BY <1>5, <2>1 DEF Sync!Write
  <2> QED
    BY <2>1, <2>2
<1>6. CASE Sync!GiveUp(f)
  BY <1>6 DEF Sync!GiveUp
<1> QED
  BY <1>1, <1>2, <1>3, <1>4, <1>5, <1>6 DEF Sync!Step

LEMMA SyncKeeps ==
    ASSUME PullInv, Sync!Next, UNCHANGED pullVars
    PROVE  PullInv'
<1>1. FilesInv' /\ \A f \in Files : newest[f] <= newest'[f]
  BY FilesStep DEF PullInv
<1>2. TypeOK' /\ Order'
  BY DEF PullInv, TypeOK, Order, pullVars
<1>3. \A f \in Files : floor'[f] <= newest'[f]
  BY <1>1, PullAssumption DEF PullInv, TypeOK, FilesInv, pullVars
<1>4. ASSUME NEW read \in ReadNames PROVE Past(read)'
  BY <1>1, VersionsType, PullAssumption DEF PullInv, Past, FilesInv, pullVars, FileOf
<1>5. phase' # "idle" => \A read \in ReadNames : Since(read)'
  BY DEF PullInv, Since, FileOf, pullVars
<1> QED
  BY <1>1, <1>2, <1>3, <1>4, <1>5 DEF PullInv, pullVars

\* A read takes what the file holds now, which is not older than the beginning of the pull.
LEMMA ReadIsRecent ==
    ASSUME PullInv, NEW f \in Files, dest[f] # Missing
    PROVE  /\ dest[f] \in Content
           /\ dest[f] \in Versions => floor[f] <= dest[f] /\ dest[f] <= newest[f]
           /\ dest[f] = Torn \/ dest[f] \in Versions
  BY PullAssumption, VersionsType DEF PullInv, FilesInv, TypeOK, Content

LEMMA StartPullKeeps ==
    ASSUME PullInv, StartPull
    PROVE  PullInv'
<1>1. /\ phase' = "config" /\ used' = Nothing /\ floor' = newest /\ served' = served
      /\ UNCHANGED <<secret, dest, newest>>
  BY DEF StartPull, fileVars
<1>2. Nothing \in Reads /\ \A read \in ReadNames : Nothing[read] = Unread
  BY DEF Nothing, Reads, Content, ReadNames
<1>3. TypeOK'
  BY <1>1, <1>2 DEF PullInv, FilesInv, TypeOK, StartPull
<1>4. FilesInv' /\ \A f \in Files : floor'[f] <= newest'[f]
  BY <1>1, PullAssumption DEF PullInv, FilesInv
<1>5. \A read \in ReadNames : Past(read)' /\ Since(read)'
  BY <1>1, <1>2, VersionsType DEF PullInv, Past, Since, FileOf
<1>6. used'.mirror \notin Versions
  BY <1>1, <1>2, VersionsType DEF ReadNames
<1> QED
  BY <1>1, <1>3, <1>4, <1>5, <1>6 DEF PullInv, Order

\* What a read of the configuration or of the credentials leaves as it was.
ReadStep == UNCHANGED <<secret, dest, newest, floor, served, cached, kills>>

LEMMA ReadKeeps ==
    ASSUME PullInv, ReadStep, phase # "idle",
           NEW read \in ReadNames, dest[FileOf(read)] # Missing,
           used' = [used EXCEPT ![read] = dest[FileOf(read)]]
    PROVE  /\ used' \in Reads
           /\ FilesInv'
           /\ \A f \in Files : floor'[f] <= newest'[f]
           /\ \A r \in ReadNames : Past(r)' /\ Since(r)'
           /\ \A r \in ReadNames \ {read} : used'[r] = used[r]
           /\ used'[read] = dest[FileOf(read)]
<1>1. /\ dest[FileOf(read)] \in Content
      /\ dest[FileOf(read)] \in Versions =>
             /\ floor[FileOf(read)] <= dest[FileOf(read)]
             /\ dest[FileOf(read)] <= newest[FileOf(read)]
  BY ReadIsRecent, VersionsType
<1>2. used \in Reads /\ DOMAIN used = ReadNames
  BY DEF PullInv, TypeOK, Reads, ReadNames
<1>3. /\ \A r \in ReadNames \ {read} : used'[r] = used[r]
      /\ used'[read] = dest[FileOf(read)]
  BY <1>2
<1>4. used' \in Reads
  <2>1. CASE read = "config"
    BY <1>1, <1>2, <2>1 DEF Reads
  <2>2. CASE read = "mirror"
    BY <1>1, <1>2, <2>2 DEF Reads
  <2>3. CASE read = "origin"
    BY <1>1, <1>2, <2>3 DEF Reads
  <2> QED
    BY <2>1, <2>2, <2>3 DEF ReadNames
<1>5. FilesInv' /\ \A f \in Files : floor'[f] <= newest'[f]
  BY DEF ReadStep, PullInv, FilesInv
<1>6. ASSUME NEW r \in ReadNames PROVE Past(r)' /\ Since(r)'
  <2>1. Past(r) /\ Since(r)
    BY DEF PullInv
  <2>2. CASE r = read
    BY <1>1, <1>3, <2>1, <2>2 DEF ReadStep, Past, Since, FileOf
  <2>3. CASE r # read
    BY <1>3, <2>1, <2>3 DEF ReadStep, Past, Since, FileOf
  <2> QED
    BY <2>2, <2>3
<1> QED
  BY <1>3, <1>4, <1>5, <1>6

LEMMA LoadConfigKeeps ==
    ASSUME PullInv, LoadConfig
    PROVE  PullInv'
<1>1. /\ ReadStep /\ phase = "config" /\ phase' = "lookups"
      /\ "config" \in ReadNames /\ FileOf("config") = DynamicConfig
      /\ dest[DynamicConfig] # Missing
      /\ used' = [used EXCEPT !["config"] = dest[DynamicConfig]]
  BY VersionsType DEF LoadConfig, ReadStep, ReadNames, fileVars
<1>2. /\ used' \in Reads /\ FilesInv'
      /\ \A f \in Files : floor'[f] <= newest'[f]
      /\ \A r \in ReadNames : Past(r)' /\ Since(r)'
      /\ used'["mirror"] = used["mirror"] /\ used'["origin"] = used["origin"]
  BY <1>1, ReadKeeps DEF ReadNames
<1>3. used["mirror"] = Unread /\ used["origin"] = Unread
  BY <1>1 DEF PullInv, Order, Nothing
<1>4. todo' \in Plans
  BY PullAssumption, ReadIsRecent, VersionsType DEF LoadConfig
<1>5. TypeOK'
  BY <1>1, <1>2, <1>4 DEF PullInv, TypeOK, ReadStep
<1>6. Order'
  BY <1>1, <1>2, <1>3 DEF Order
<1> QED
  BY <1>1, <1>2, <1>3, <1>5, <1>6, VersionsType DEF PullInv

LEMMA LookUpKeeps ==
    ASSUME PullInv, LookUp
    PROVE  PullInv'
<1> DEFINE lookup == Head(todo)
<1>1. todo \in Plans /\ todo' = Tail(todo) /\ lookup \in {"mirror", "origin"}
  BY PlansType DEF LookUp, PullInv, TypeOK
<1>2. /\ ReadStep /\ phase = "lookups" /\ phase' = "lookups" /\ todo # << >>
      /\ lookup \in ReadNames /\ FileOf(lookup) = StaticCredentials
      /\ dest[StaticCredentials] # Missing
      /\ used' = [used EXCEPT ![lookup] = dest[StaticCredentials]]
  BY <1>1, VersionsType DEF LookUp, ReadStep, ReadNames, fileVars
<1>3. /\ used' \in Reads /\ FilesInv'
      /\ \A f \in Files : floor'[f] <= newest'[f]
      /\ \A r \in ReadNames : Past(r)' /\ Since(r)'
      /\ \A r \in ReadNames \ {lookup} : used'[r] = used[r]
      /\ used'[lookup] = dest[StaticCredentials]
  BY <1>2, ReadKeeps
<1>4. used["origin"] = Unread /\ (lookup = "mirror" => used["mirror"] = Unread)
  BY <1>2 DEF PullInv, Order
<1>5. Tail(todo) # << >> => lookup = "mirror" /\ Head(Tail(todo)) = "origin"
  BY <1>1, PlansType
<1>6. TypeOK'
  BY <1>1, <1>2, <1>3, PlansType DEF PullInv, TypeOK, ReadStep
<1>7. Order'
  BY <1>1, <1>2, <1>3, <1>4, <1>5 DEF Order, ReadNames
<1>8. used'.mirror \in Versions /\ used'.origin \in Versions => used'.mirror <= used'.origin
  <2>1. CASE lookup = "mirror"
    BY <1>3, <1>4, <2>1, VersionsType DEF ReadNames
  <2>2. CASE lookup = "origin"
    <3>1. used'["mirror"] = used["mirror"] /\ used'["origin"] = dest[StaticCredentials]
      BY <1>3, <2>2 DEF ReadNames
    <3>2. used["mirror"] \in Versions => used["mirror"] <= newest[StaticCredentials]
      BY VersionsType DEF PullInv, Past, ReadNames
    <3>3. dest[StaticCredentials] \in Versions =>
              dest[StaticCredentials] = newest[StaticCredentials]
      BY PullAssumption DEF PullInv, FilesInv
    <3> QED
      BY <3>1, <3>2, <3>3
  <2> QED
    BY <1>1, <2>1, <2>2
<1> QED
  BY <1>2, <1>3, <1>6, <1>7, <1>8 DEF PullInv

\* The pull ends, with a response or without.
LEMMA EndKeeps ==
    ASSUME PullInv, ReadFails \/ Respond \/ Kill
    PROVE  PullInv'
<1>1. /\ phase' = "idle" /\ todo' \in Plans \cup {<< >>} /\ kills' \in 0..MaxKills
      /\ cached' \in BOOLEAN /\ served' \in {served, used}
      /\ UNCHANGED <<secret, dest, newest, used, floor>>
  BY PullAssumption
  DEF ReadFails, Respond, Kill, GiveUpPull, fileVars, PullInv, TypeOK
<1>2. TypeOK' /\ Order'
  BY <1>1 DEF PullInv, TypeOK, Order
<1>3. FilesInv' /\ \A f \in Files : floor'[f] <= newest'[f]
  BY <1>1 DEF PullInv, FilesInv
<1>4. \A read \in ReadNames : Past(read)'
  BY <1>1 DEF PullInv, Past, FileOf
<1> QED
  BY <1>1, <1>2, <1>3, <1>4 DEF PullInv

LEMMA NextPullInv == PullInv /\ [Next]_vars => PullInv'
<1> SUFFICES ASSUME PullInv, [Next]_vars PROVE PullInv'
  OBVIOUS
<1>1. CASE Expire \/ UNCHANGED vars
  <2>1. /\ cached' \in BOOLEAN
        /\ UNCHANGED <<secret, dest, newest, phase, todo, used, floor, served, kills>>
    BY <1>1 DEF Expire, vars, fileVars, pullVars, PullInv, TypeOK
  <2>2. TypeOK' /\ FilesInv' /\ Order'
    BY <2>1 DEF PullInv, TypeOK, FilesInv, Order
  <2>3. \A read \in ReadNames : (Past(read) => Past(read)') /\ (Since(read) => Since(read)')
    BY <2>1 DEF Past, Since, FileOf
  <2> QED
    BY <2>1, <2>2, <2>3 DEF PullInv
<1> QED
  BY <1>1, SyncKeeps, StartPullKeeps, LoadConfigKeeps, LookUpKeeps, EndKeeps
  DEF Next, Process

\* The state has its type, for any number of versions and kills: nothing is made from a file
\* that does not exist (dynamic.go:49-53, static_credentials.go:45-48).
THEOREM PullTypeCorrect == Spec => []TypeOK
<1>1. PullInv => TypeOK
  BY DEF PullInv
<1> QED
  BY <1>1, InitPullInv, NextPullInv, PTL DEF Spec

\* A pull never reads an older version than the host held when it began, nor an older one in
\* its second lookup than in its first (dynamic.go:49-73, static_credentials.go:40-51).
THEOREM PullsAlwaysReadForward == Spec => []PullsReadForward
<1>1. PullInv => PullsReadForward
  <2> SUFFICES ASSUME PullInv, phase # "idle"
               PROVE  /\ \A read \in DOMAIN used :
                             used[read] \in Versions =>
                                 /\ floor[FileOf(read)] <= used[read]
                                 /\ used[read] <= newest[FileOf(read)]
                      /\ used.mirror \in Versions /\ used.origin \in Versions =>
                             used.mirror <= used.origin
    BY DEF PullsReadForward
  <2>1. DOMAIN used = ReadNames
    BY DEF PullInv, TypeOK, Reads, ReadNames
  <2> QED
    BY <2>1 DEF PullInv, Past, Since
<1> QED
  BY <1>1, InitPullInv, NextPullInv, PTL DEF Spec

\* No response is made from an older version than the one before it, whatever was cached,
\* given up or retried between them (dynamic.go:49-73, 118-168).
THEOREM AlwaysServedForward == Spec => ServedForward
<1> DEFINE Forward ==
      \A read \in DOMAIN served :
          served[read] \in Versions /\ served'[read] \in Versions
              => served'[read] >= served[read]
<1>1. PullInv /\ [Next]_vars => [Forward]_vars
  <2> SUFFICES ASSUME PullInv, Next PROVE Forward
    OBVIOUS
  <2>1. CASE Respond
    <3>1. /\ DOMAIN served = ReadNames
          /\ served' = used
          /\ \A read \in ReadNames : Since(read)
      BY <2>1 DEF Respond, PullInv, TypeOK, Reads, ReadNames
    <3>2. \A read \in ReadNames : floor[FileOf(read)] \in Nat
      BY VersionsType, PullAssumption DEF PullInv, TypeOK
    <3> QED
      BY <3>1, <3>2, VersionsType, PullAssumption DEF Since
  <2>2. CASE ~Respond
    <3>1. served' = served
      BY <2>2
      DEF Next, Process, StartPull, LoadConfig, LookUp, ReadFails, GiveUpPull, Kill, Expire,
          pullVars
    <3> QED
      BY <3>1, VersionsType, PullAssumption
  <2> QED
    BY <2>1, <2>2
<1> QED
  BY <1>1, InitPullInv, NextPullInv, PTL DEF Spec, ServedForward
=============================================================================
