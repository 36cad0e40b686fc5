------------------------------- MODULE Install -------------------------------
(***************************************************************************)
(* pkg/install: the init container of the DaemonSet, which copies the      *)
(* credential provider binaries of its image to the kubelet's plugin       *)
(* directory on the host. It goes through the binaries in the order of     *)
(* their names, copies each to a temporary file next to its target, and    *)
(* renames that over the target. The container may fail or be killed at    *)
(* any point, and is then restarted from the beginning; a roll-out replaces*)
(* it by the container of another release or configuration.                *)
(***************************************************************************)
EXTENDS Naturals, Sequences

CONSTANTS
    Binaries,      \* the binaries of the image, in the order ReadDir lists them
    Releases,      \* the releases of the image; a binary's content is its release
    Missing,       \* the content of a file that does not exist
    Directory,     \* what is there instead is a directory
    Torn,          \* the content of a file that is only partly written
    MaxRollOuts,   \* bound
    MaxFailures,   \* bound: failing reads, writes and renames
    MaxKills       \* bound: how often the container is killed

Names == {Binaries[i] : i \in 1..Len(Binaries)}

Contents == Releases \cup {0, Missing, Directory}

ASSUME InstallAssumption ==
    /\ Releases \subseteq Nat \ {0}
    /\ Binaries \in Seq(STRING)
    /\ \A i, j \in 1..Len(Binaries) : Binaries[i] = Binaries[j] => i = j
    /\ {Missing, Directory, Torn} \cap Nat = {}
    /\ Missing # Directory /\ Missing # Torn /\ Directory # Torn
    /\ MaxRollOuts \in Nat /\ MaxFailures \in Nat /\ MaxKills \in Nat

VARIABLES
    release, skip, update,   \* what the container was started with
    target,      \* target[b]: the content of b in the plugin directory
    temporary,   \* temporary[b]: the content of b's temporary file
    at,          \* the index of the binary the installer is at
    pc,          \* where it is: down, next, copy, write, rename, done
    rollOuts, failures, kills

vars == <<release, skip, update, target, temporary, at, pc, rollOuts, failures, kills>>

config == <<release, skip, update>>
bounds == <<rollOuts, failures, kills>>

---------------------------------------------------------------------------

Binary == Binaries[at]

\* The state has its type; the installer is at a binary whenever it copies one
\* (install.go:89-107).
TypeOK ==
    /\ release \in Releases /\ skip \subseteq Names /\ update \in BOOLEAN
    /\ target \in [Names -> Contents \cup {Torn}]
    /\ temporary \in [Names -> Releases \cup {Missing, Torn}]
    /\ at \in 1..Len(Binaries) + 1
    /\ pc \in {"down", "next", "copy", "write", "rename", "done"}
    /\ pc \in {"copy", "write", "rename"} => at <= Len(Binaries)
    /\ rollOuts \in 0..MaxRollOuts /\ failures \in 0..MaxFailures /\ kills \in 0..MaxKills

\* fileExists: a directory does not count.
Exists(b) == target[b] \notin {Missing, Directory}

\* destinationUpToDate compares size, mode and content.
UpToDate(b) == target[b] = release

Init ==
    /\ release \in Releases
    /\ skip \in SUBSET Names
    /\ update \in BOOLEAN
    /\ target \in [Names -> {0, Missing, Directory}]
    /\ temporary = [b \in Names |-> Missing]
    /\ at = 1
    /\ pc = "down"
    /\ rollOuts = 0 /\ failures = 0 /\ kills = 0

\* The container starts: the configuration and the directories are read.
StartBeforeFirst ==
    /\ pc = "down"
    /\ pc' = "next"
    /\ at' = 0
    /\ UNCHANGED <<config, target, temporary, bounds>>
Start ==
    /\ pc = "down"
    /\ pc' = "next"
    /\ at' = 1
    /\ UNCHANGED <<config, target, temporary, bounds>>

GoOn ==
    /\ pc' = "next"
    /\ at' = at + 1

NeedsInstall(b) == b \notin skip /\ (Exists(b) => update) /\ ~UpToDate(b)

LeaveAlone ==
    /\ pc = "next"
    /\ at <= Len(Binaries)
    /\ ~NeedsInstall(Binary)
    /\ GoOn
    /\ UNCHANGED <<config, target, temporary, bounds>>

BeginCopy ==
    /\ pc = "next"
    /\ at <= Len(Binaries)
    /\ NeedsInstall(Binary)
    /\ pc' = "copy"
    /\ UNCHANGED <<config, target, temporary, at, bounds>>

\* copy.Copy opens the source and creates, or truncates, the temporary file,
CreateTarget ==
    /\ pc = "copy"
    /\ target' = [target EXCEPT ![Binary] = Torn]
    /\ pc' = "write"
    /\ UNCHANGED <<config, temporary, at, bounds>>
CreateTemporaryExclusively ==
    /\ pc = "copy"
    /\ temporary[Binary] = Missing
    /\ temporary' = [temporary EXCEPT ![Binary] = Torn]
    /\ pc' = "write"
    /\ UNCHANGED <<config, target, at, bounds>>
CreateTemporary ==
    /\ pc = "copy"
    /\ temporary' = [temporary EXCEPT ![Binary] = Torn]
    /\ pc' = "write"
    /\ UNCHANGED <<config, target, at, bounds>>

\* and fills it.
WriteTemporary ==
    /\ pc = "write"
    /\ temporary' = [temporary EXCEPT ![Binary] = release]
    /\ pc' = "rename"
    /\ UNCHANGED <<config, target, at, bounds>>

\* A file cannot be renamed over a directory.
Rename ==
    /\ pc = "rename"
    /\ target[Binary] # Directory
    /\ target' = [target EXCEPT ![Binary] = temporary[Binary]]
    /\ temporary' = [temporary EXCEPT ![Binary] = Missing]
    /\ GoOn
    /\ UNCHANGED <<config, bounds>>

RenameOverDirectory ==
    /\ pc = "rename"
    /\ target[Binary] = Directory
    /\ pc' = "down"
    /\ UNCHANGED <<config, target, temporary, at, bounds>>

\* Any error ends the installation; what was installed or left behind stays.
Fail ==
    /\ pc \in {"next", "copy", "write", "rename"}
    /\ failures < MaxFailures
    /\ failures' = failures + 1
    /\ pc' = "down"
    /\ UNCHANGED <<config, target, temporary, at, rollOuts, kills>>

Finish ==
    /\ pc = "next"
    /\ at > Len(Binaries)
    /\ pc' = "done"
    /\ UNCHANGED <<config, target, temporary, at, bounds>>

\* The container is killed, or the pod recreated after it had finished.
Kill ==
    /\ pc # "down"
    /\ kills < MaxKills
    /\ kills' = kills + 1
    /\ pc' = "down"
    /\ UNCHANGED <<config, target, temporary, at, rollOuts, failures>>

RollOut ==
    /\ rollOuts < MaxRollOuts
    /\ rollOuts' = rollOuts + 1
    /\ release' \in Releases
    /\ skip' \in SUBSET Names
    /\ update' \in BOOLEAN
    /\ pc' = "down"
    /\ UNCHANGED <<target, temporary, at, failures, kills>>

Step ==
    \/ Start \/ LeaveAlone \/ BeginCopy \/ CreateTemporary \/ WriteTemporary
    \/ Rename \/ RenameOverDirectory \/ Finish

Next == Step \/ Fail \/ Kill \/ RollOut

\* The kubelet restarts the container until it succeeds.
Spec == Init /\ [][Next]_vars /\ WF_vars(Step)

---------------------------------------------------------------------------

Atomic == INSTANCE AtomicInstall WITH installed <- pc = "done"

\* A binary on the host changes only from what it was to the whole binary of the release
\* being installed, and only if it may be changed, wherever the installer fails, is killed
\* or is replaced; it succeeds only when all binaries are in place (install.go:141-152:
\* copy to a temporary file, then rename).
ImplementsAtomicInstall == Atomic!Spec

\* Unless a directory is in the way, the installer succeeds in the end, after any number of
\* failures, kills and roll-outs, from whatever they left behind (install.go:73-155).
EventuallyInstalled ==
    (\A b \in Names : target[b] # Directory) => <>[](pc = "done")
==============================================================================
