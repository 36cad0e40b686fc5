--------------------------- MODULE AtomicInstall ---------------------------
(***************************************************************************)
(* What the installer promises the kubelet, which may run a credential     *)
(* provider at any time: each binary changes at once from what it was to   *)
(* the binary of the release being installed, and the installer reports    *)
(* success when all that it should install are there.                      *)
(***************************************************************************)
EXTENDS Naturals, Sequences

CONSTANTS Binaries, Releases, Missing, Directory

VARIABLES
    release,    \* the release whose image the DaemonSet runs
    skip,       \* SKIP_CREDENTIAL_PROVIDER_BINARIES
    update,     \* UPDATE_CREDENTIAL_PROVIDER_BINARIES
    target,     \* target[b]: the content of binary b on the host
    installed   \* the installer of this release has succeeded

vars == <<release, skip, update, target, installed>>

Names == {Binaries[i] : i \in 1..Len(Binaries)}

\* 0 is a binary that does not come from any release.
Init ==
    /\ release \in Releases
    /\ skip \in SUBSET Names
    /\ update \in BOOLEAN
    /\ target \in [Names -> {0, Missing, Directory}]
    /\ installed = FALSE

InPlace(b) == target[b] = release \/ (~update /\ target[b] \notin {Missing, Directory})

Place(b) ==
    /\ ~installed
    /\ b \notin skip
    /\ ~InPlace(b)
    /\ target[b] # Directory
    /\ target' = [target EXCEPT ![b] = release]
    /\ UNCHANGED <<release, skip, update, installed>>

Succeed ==
    /\ ~installed
    /\ \A b \in Names \ skip : InPlace(b)
    /\ installed' = TRUE
    /\ UNCHANGED <<release, skip, update, target>>

\* Another release, or another configuration, is rolled out.
RollOut ==
    /\ release' \in Releases
    /\ skip' \in SUBSET Names
    /\ update' \in BOOLEAN
    /\ installed' = FALSE
    /\ UNCHANGED target

Next == (\E b \in Names : Place(b)) \/ Succeed \/ RollOut

Spec == Init /\ [][Next]_vars
=============================================================================
