---------------------------- MODULE InstallProofs ----------------------------
(***************************************************************************)
(* The installer implements AtomicInstall, for any binaries, releases and  *)
(* numbers of failures, kills and roll-outs.                               *)
(***************************************************************************)
EXTENDS Install, TLAPS

InPlace(b) == target[b] = release \/ (~update /\ target[b] \notin {Missing, Directory})

\* The installer is busy with a binary it should install, and what it is about to rename is
\* the whole binary of this release.
AtBusyBinary ==
    /\ pc \in {"copy", "write", "rename"} => Binary \notin skip /\ ~InPlace(Binary)
    /\ pc = "rename" => temporary[Binary] = release

\* The binaries it has passed are in place.
PassedInPlace ==
    pc # "down" => \A i \in 1..Len(Binaries) :
                       i < at \/ pc = "done" => Binaries[i] \in skip \/ InPlace(Binaries[i])

InstallInv == TypeOK /\ AtBusyBinary /\ PassedInPlace

LEMMA BinaryIsName == ASSUME TypeOK, at <= Len(Binaries) PROVE Binary \in Names
  BY InstallAssumption DEF TypeOK, Binary, Names

LEMMA NeedsInstallNotInPlace ==
    ASSUME NEW b \in Names PROVE NeedsInstall(b) <=> b \notin skip /\ ~InPlace(b)
  BY DEF NeedsInstall, InPlace, Exists, UpToDate

LEMMA InitInstallInv == Init => InstallInv
<1> SUFFICES ASSUME Init PROVE InstallInv
  OBVIOUS
<1>1. TypeOK
  BY InstallAssumption DEF Init, TypeOK, Contents
<1> QED
  BY <1>1 DEF Init, InstallInv, AtBusyBinary, PassedInPlace

LEMMA NextInstallInv == InstallInv /\ [Next]_vars => InstallInv'
<1> SUFFICES ASSUME InstallInv, [Next]_vars PROVE InstallInv'
  OBVIOUS
<1> USE InstallAssumption DEF InstallInv
<1>1. CASE Start
  BY <1>1 DEF Start, config, bounds, TypeOK, AtBusyBinary, PassedInPlace
<1>2. CASE LeaveAlone
  <2>1. Binary \in skip \/ InPlace(Binary)
    BY <1>2, BinaryIsName, NeedsInstallNotInPlace DEF LeaveAlone
  <2>2. TypeOK'
    BY <1>2 DEF LeaveAlone, GoOn, config, bounds, TypeOK
  <2>3. PassedInPlace'
    BY <1>2, <2>1 DEF LeaveAlone, GoOn, config, TypeOK, PassedInPlace, InPlace, Binary
  <2> QED
    BY <1>2, <2>2, <2>3 DEF LeaveAlone, GoOn, AtBusyBinary
<1>3. CASE BeginCopy
  <2>1. Binary \notin skip /\ ~InPlace(Binary)
    BY <1>3, BinaryIsName, NeedsInstallNotInPlace DEF BeginCopy
  <2> QED
    BY <1>3, <2>1 DEF BeginCopy, config, bounds, TypeOK, AtBusyBinary, PassedInPlace, InPlace, Binary
<1>4. CASE CreateTemporary
  <2>1. TypeOK'
    BY <1>4, BinaryIsName DEF CreateTemporary, config, bounds, TypeOK
  <2> QED
    BY <1>4, <2>1 DEF CreateTemporary, config, AtBusyBinary, PassedInPlace, InPlace, Binary
<1>5. CASE WriteTemporary
  <2>1. Binary \in Names
    BY <1>5, BinaryIsName DEF WriteTemporary, TypeOK
  <2>2. TypeOK'
    BY <1>5 DEF WriteTemporary, config, bounds, TypeOK
  <2> QED
    BY <1>5, <2>1, <2>2
    DEF WriteTemporary, config, TypeOK, AtBusyBinary, PassedInPlace, InPlace, Binary
<1>6. CASE Rename
  <2>1. Binary \in Names /\ temporary[Binary] = release
    BY <1>6, BinaryIsName DEF Rename, TypeOK, AtBusyBinary
  <2>2. TypeOK'
    BY <1>6, <2>1 DEF Rename, GoOn, config, bounds, TypeOK, Contents
  <2>3. target' = [target EXCEPT ![Binary] = release]
    BY <1>6, <2>1 DEF Rename
  <2>4. ASSUME NEW i \in 1..Len(Binaries), i < at'
        PROVE  Binaries[i] \in skip \/ InPlace(Binaries[i])'
    <3>1. Binaries[i] \in Names
      BY DEF Names
    <3>2. CASE Binaries[i] = Binary
      BY <1>6, <2>1, <2>3, <3>2 DEF Rename, config, InPlace, TypeOK
    <3>3. CASE Binaries[i] # Binary
      <4>1. i < at
        BY <1>6, <2>4, <3>3 DEF Rename, GoOn, TypeOK, Binary
      <4>2. target'[Binaries[i]] = target[Binaries[i]]
        BY <2>3, <3>1, <3>3 DEF TypeOK
      <4> QED
        BY <1>6, <4>1, <4>2 DEF Rename, config, PassedInPlace, InPlace
    <3> QED
      BY <3>2, <3>3
  <2> QED
    BY <1>6, <2>2, <2>4 DEF Rename, GoOn, config, AtBusyBinary, PassedInPlace
<1>7. CASE RenameOverDirectory
  BY <1>7 DEF RenameOverDirectory, config, bounds, TypeOK, AtBusyBinary, PassedInPlace
<1>8. CASE Finish
  <2>1. TypeOK'
    BY <1>8 DEF Finish, config, bounds, TypeOK
  <2>2. PassedInPlace'
    BY <1>8 DEF Finish, config, TypeOK, PassedInPlace, InPlace
  <2> QED
    BY <1>8, <2>1, <2>2 DEF Finish, AtBusyBinary
<1>9. CASE Fail
  BY <1>9 DEF Fail, config, TypeOK, AtBusyBinary, PassedInPlace
<1>10. CASE Kill
  BY <1>10 DEF Kill, config, TypeOK, AtBusyBinary, PassedInPlace
<1>11. CASE RollOut
  BY <1>11 DEF RollOut, TypeOK, AtBusyBinary, PassedInPlace
<1>12. CASE UNCHANGED vars
  BY <1>12 DEF vars, config, bounds, TypeOK, AtBusyBinary, PassedInPlace, InPlace, Binary
<1> QED
  BY <1>1, <1>2, <1>3, <1>4, <1>5, <1>6, <1>7, <1>8, <1>9, <1>10, <1>11, <1>12 DEF Next, Step

\* The installer's variables are always of their types, and it is at a binary whenever it
\* copies one (install.go:89-107).
THEOREM InstallTypeCorrect == Spec => []TypeOK
<1>1. Spec => []InstallInv
  BY InitInstallInv, NextInstallInv, PTL DEF Spec
<1> QED
  BY <1>1, PTL DEF InstallInv

LEMMA InitImplements == Init => Atomic!Init
  BY DEF Init, Atomic!Init, Names, Atomic!Names

LEMMA NextImplements == InstallInv /\ [Next]_vars => [Atomic!Next]_(Atomic!vars)
<1> SUFFICES ASSUME InstallInv, [Next]_vars PROVE [Atomic!Next]_(Atomic!vars)
  OBVIOUS
<1> USE DEF InstallInv
<1>1. CASE Start \/ LeaveAlone \/ BeginCopy \/ CreateTemporary \/ WriteTemporary
           \/ RenameOverDirectory \/ Fail
  BY <1>1 DEF Start, LeaveAlone, GoOn, BeginCopy, CreateTemporary, WriteTemporary,
              RenameOverDirectory, Fail, config, Atomic!vars
<1>2. CASE Rename
  <2>1. Binary \in Atomic!Names
    BY <1>2, BinaryIsName DEF Rename, TypeOK, Names, Atomic!Names
  <2>2. Atomic!Place(Binary)
    BY <1>2 DEF Rename, GoOn, config, AtBusyBinary, InPlace, Atomic!Place, Atomic!InPlace
  <2> QED
    BY <2>1, <2>2 DEF Atomic!Next
<1>3. CASE Finish
  <2>1. \A b \in Atomic!Names \ skip : Atomic!InPlace(b)
    BY <1>3, InstallAssumption DEF Finish, TypeOK, PassedInPlace, InPlace, Atomic!InPlace, Atomic!Names
  <2>2. Atomic!Succeed
    BY <1>3, <2>1 DEF Finish, config, Atomic!Succeed
  <2> QED
    BY <2>2 DEF Atomic!Next
<1>4. CASE Kill
  BY <1>4 DEF Kill, config, TypeOK, Names, Atomic!Next, Atomic!RollOut, Atomic!Names, Atomic!vars
<1>5. CASE RollOut
  BY <1>5 DEF RollOut, Names, Atomic!Next, Atomic!RollOut, Atomic!Names
<1>6. CASE UNCHANGED vars
  BY <1>6 DEF vars, Atomic!vars
<1> QED
  BY <1>1, <1>2, <1>3, <1>4, <1>5, <1>6 DEF Next, Step

\* Whatever fails, is killed or rolled out in between, the host sees each binary change at
\* once to the whole binary of the release, only when it should change, and success only
\* when everything is in place (install.go:89-107 and 141-152).
THEOREM InstallIsAtomic == Spec => ImplementsAtomicInstall
<1>1. Spec => []InstallInv
  BY InitInstallInv, NextInstallInv, PTL DEF Spec
<1> QED
  BY <1>1, InitImplements, NextImplements, PTL
  DEF Spec, ImplementsAtomicInstall, Atomic!Spec
==============================================================================
