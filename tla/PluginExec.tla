----------------------------- MODULE PluginExec -----------------------------
(***************************************************************************)
(* pkg/credentialprovider/dynamic/plugin_executor.go: one execution of a   *)
(* credential provider plugin, ExecPlugin, with its timeout.               *)
(*                                                                         *)
(* The plugin is a program, often a script, that may start further         *)
(* processes. They inherit its standard output, a pipe whose other end     *)
(* os/exec copies to a buffer, and may hold it open and write to it when   *)
(* the plugin is long gone. The timeout kills the plugin only.             *)
(*                                                                         *)
(* The call sees one sequence of bytes, whoever of them printed which, and *)
(* accepts what parses and decodes: what a child adds may spoil a document,*)
(* or be blank, or stand within a text of it, or be a document itself.     *)
(***************************************************************************)
EXTENDS Naturals, Sequences

CONSTANTS
    APIVersion,   \* the apiVersion the provider is configured with
    Children,     \* the processes the plugin may start
    Chunks,       \* what is printed at a time
    MaxPrints,    \* bound: how often something is printed
    Documents,    \* the JSON documents: apiVersion, kind, whether they fit the type, and more
    Decode(_),    \* the document that a buffer holds, or Nothing
    Nothing       \* a nil response

\* The errors, and "" for none.
Errors == {"", "not started", "deadline exceeded", "exit status", "unreadable", "apiVersion", "decoding"}

Buffers == UNION {[1..n -> Chunks] : n \in 0..MaxPrints}

ASSUME DocumentAssumption ==
    \A d \in Documents : d.apiVersion \in STRING /\ d.kind \in STRING /\ d.fits \in BOOLEAN
ASSUME DecodeAssumption ==
    MaxPrints \in Nat /\ \A b \in Buffers : Decode(b) \in Documents \cup {Nothing}
ASSUME ProcessAssumption == "plugin" \notin Children
ASSUME ResponseAssumption == Nothing \notin Documents

VARIABLES
    phase,      \* the call: start, run, reaped, ran, returned
    plugin,     \* the plugin: absent, running, succeeded, failed, killed
    started,    \* the children started so far
    holders,    \* the processes that hold the output open
    stdout,     \* the buffer
    expired,    \* the minute is over
    result      \* the response and the error that the call returns

vars == <<phase, plugin, started, holders, stdout, expired, result>>

Success(response) == [response |-> response, error |-> ""]
Failure(error) == [response |-> Nothing, error |-> error]

---------------------------------------------------------------------------

\* The state has its type; the running plugin, and no other, has its hold on the output
\* (plugin_executor.go:178-193).
TypeOK ==
    /\ phase \in {"start", "run", "reaped", "ran", "returned"}
    /\ plugin \in {"absent", "running", "succeeded", "failed", "killed"}
    /\ started \subseteq Children
    /\ holders \subseteq started \cup {"plugin"}
    /\ "plugin" \in holders <=> plugin = "running"
    /\ stdout \in Buffers
    /\ expired \in BOOLEAN
    /\ result \in [response : Documents \cup {Nothing}, error : Errors]

Init ==
    /\ phase = "start"
    /\ plugin = "absent"
    /\ started = {}
    /\ holders = {}
    /\ stdout = << >>
    /\ expired = FALSE
    /\ result = Failure("")

Return(r) ==
    /\ phase' = "returned"
    /\ result' = r

\* The request cannot be encoded, or there is no such program.
CannotStart ==
    /\ phase = "start"
    /\ Return(Failure("not started"))
    /\ UNCHANGED <<plugin, started, holders, stdout, expired>>

Start ==
    /\ phase = "start"
    /\ phase' = "run"
    /\ plugin' = "running"
    /\ holders' = {"plugin"}
    /\ UNCHANGED <<started, stdout, expired, result>>

---------------------------------------------------------------------------
(* The plugin and its children.                                            *)

\* The plugin or a child prints something, whatever the others did.
Prints(p, chunk) ==
    /\ p \in holders
    /\ Len(stdout) < MaxPrints
    /\ stdout' = Append(stdout, chunk)
    /\ UNCHANGED <<phase, plugin, started, holders, expired, result>>

\* The plugin, or a child, starts a child.
Fork(c) ==
    /\ holders # {}
    /\ c \notin started
    /\ started' = started \cup {c}
    /\ holders' = holders \cup {c}
    /\ UNCHANGED <<phase, plugin, stdout, expired, result>>

ChildReleases(c) ==
    /\ c \in holders
    /\ holders' = holders \ {c}
    /\ UNCHANGED <<phase, plugin, started, stdout, expired, result>>

EndPlugin(how) ==
    /\ plugin' = how
    /\ holders' = holders \ {"plugin"}
    /\ UNCHANGED <<phase, started, stdout, expired, result>>

\* It may end before it has printed all.
PluginEnds ==
    /\ plugin = "running"
    /\ EndPlugin("succeeded") \/ EndPlugin("failed")

---------------------------------------------------------------------------
(* The call.                                                               *)

\* The context's deadline, which the return of the call cancels.
Expire ==
    /\ phase \in {"run", "reaped", "ran"}
    /\ ~expired
    /\ expired' = TRUE
    /\ UNCHANGED <<phase, plugin, started, holders, stdout, result>>

\* Two variants of Kill: too late, and with the writing end of the pipe left open.
KillAfterRun ==
    /\ plugin = "running"
    /\ phase = "ran"
    /\ EndPlugin("killed")
KillKeepingPipe ==
    /\ plugin = "running"
    /\ expired
    /\ plugin' = "killed"
    /\ UNCHANGED <<phase, started, holders, stdout, expired, result>>
\* exec.CommandContext.
Kill ==
    /\ plugin = "running"
    /\ expired
    /\ EndPlugin("killed")

Proceed(to) ==
    /\ phase' = to
    /\ UNCHANGED <<plugin, started, holders, stdout, expired, result>>

\* Run waits for the process,
Reap ==
    /\ phase = "run"
    /\ plugin # "running"
    /\ Proceed("reaped")

\* and then for the end of its output; nothing ends this wait.
CollectAtOnce ==
    /\ phase = "reaped"
    /\ Proceed("ran")
Collect ==
    /\ phase = "reaped"
    /\ holders = {}
    /\ Proceed("ran")

\* A deadline that passed is an error even if the plugin succeeded. What was printed has to
\* be one document, of the version the provider is configured with, and a response.
Verdict ==
    LET document == Decode(stdout)
    IN  IF expired THEN Failure("deadline exceeded")
        ELSE IF plugin # "succeeded" THEN Failure("exit status")
        ELSE IF document = Nothing THEN Failure("unreadable")
        ELSE IF document.apiVersion # APIVersion THEN Failure("apiVersion")
        ELSE IF document.kind # "CredentialProviderResponse" \/ ~document.fits
             THEN Failure("decoding")
        ELSE Success(document)

Judge ==
    /\ phase = "ran"
    /\ Return(Verdict)
    /\ UNCHANGED <<plugin, started, holders, stdout, expired>>

Next ==
    \/ CannotStart \/ Start
    \/ \E p \in holders, chunk \in Chunks : Prints(p, chunk)
    \/ PluginEnds
    \/ \E c \in Children : Fork(c) \/ ChildReleases(c)
    \/ Expire \/ Kill \/ Reap \/ Collect \/ Judge

\* Time passes and the call runs; the plugin and its children do what they like.
Spec ==
    /\ Init /\ [][Next]_vars
    /\ WF_vars(CannotStart \/ Start)
    /\ WF_vars(Expire) /\ WF_vars(Kill)
    /\ WF_vars(Reap) /\ WF_vars(Collect) /\ WF_vars(Judge)

---------------------------------------------------------------------------

\* A call answers only if the plugin succeeded in time, and with what everything that was
\* printed, by the plugin and by all it started, decodes to, a response of the right version:
\* nobody can still write to the buffer when it is read. Who printed what the call cannot
\* tell; a child's output is accepted if the whole still decodes (plugin_executor.go:206-231).
AnswerIsWhole ==
    result.response # Nothing =>
        /\ plugin = "succeeded" /\ ~expired
        /\ holders = {}
        /\ result = Success(Decode(stdout))
        /\ result.response.apiVersion = APIVersion
        /\ result.response.kind = "CredentialProviderResponse"
        /\ result.response.fits

\* Whatever the plugin does, the call ends if its children let go of the output in the end
\* (plugin_executor.go:186-189 and 235).
ReturnsOnceReleased == <>[](holders \cap Children = {}) => <>(phase = "returned")

\* plugin_executor.go:182-184: the timeout is there for "ensuring an exec plugin does not
\* run forever". It kills the plugin; a child that keeps the output open makes Run wait as
\* long as the child lives, because no WaitDelay is set.
DoesNotRunForever == <>(phase = "returned")
=============================================================================
