---------------------------- MODULE SyncedFiles ----------------------------
(***************************************************************************)
(* What a credential provider on the host may rely on: the files that      *)
(* sync-config keeps equal to mounted Secrets, as a reader sees them. A    *)
(* file is rewritten in place, so that a reader may find it torn, and may  *)
(* lag behind its Secret, but never goes back to an older version.         *)
(***************************************************************************)
EXTENDS Naturals

CONSTANTS Files, Missing, Torn, MaxVersion

Versions == 1..MaxVersion

VARIABLES
    secret,  \* secret[f]: the version of the mounted Secret
    dest,    \* dest[f]: the content on the host
    missed,  \* missed[f]: nothing calls for the copy that f lacks
    newest   \* history: newest[f] is the newest version the file ever held

vars == <<secret, dest, missed, newest>>

Init ==
    /\ secret = [f \in Files |-> 1]
    /\ dest = [f \in Files |-> Missing]
    /\ missed = [f \in Files |-> FALSE]
    /\ newest = [f \in Files |-> 0]

\* A new version of the Secret; its event may be dropped.
Update(f) ==
    /\ secret[f] < MaxVersion
    /\ secret' = [secret EXCEPT ![f] = @ + 1]
    /\ \E dropped \in BOOLEAN : missed' = [missed EXCEPT ![f] = @ \/ dropped]
    /\ UNCHANGED <<dest, newest>>

BeginCopy(f) ==
    /\ missed' = [missed EXCEPT ![f] = FALSE]
    /\ UNCHANGED <<secret, dest, newest>>

Truncate(f) ==
    /\ dest' = [dest EXCEPT ![f] = Torn]
    /\ UNCHANGED <<secret, missed, newest>>

\* A copy may have read an older version than the current one.
WriteAnyVersion(f) ==
    /\ dest[f] = Torn
    /\ \E v \in 1..secret[f] :
           /\ dest' = [dest EXCEPT ![f] = v]
           /\ newest' = [newest EXCEPT ![f] = IF v > @ THEN v ELSE @]
    /\ UNCHANGED <<secret, missed>>
Write(f) ==
    /\ dest[f] = Torn
    /\ \E v \in 1..secret[f] :
           /\ v >= newest[f]
           /\ dest' = [dest EXCEPT ![f] = v]
           /\ newest' = [newest EXCEPT ![f] = v]
    /\ UNCHANGED <<secret, missed>>

\* A failed copy is not tried again.
GiveUp(f) ==
    /\ missed' = [missed EXCEPT ![f] = TRUE]
    /\ UNCHANGED <<secret, dest, newest>>

Step(f) == Update(f) \/ BeginCopy(f) \/ Truncate(f) \/ Write(f) \/ GiveUp(f)

Next == \E f \in Files : Step(f)

Safety == Init /\ [][Next]_vars
=============================================================================
