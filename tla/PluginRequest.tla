--------------------------- MODULE PluginRequest ---------------------------
(***************************************************************************)
(* One process of either binary, as its caller sees it: it reads a         *)
(* CredentialProviderRequest from its standard input, asks its provider    *)
(* and writes the response to its standard output, a pipe                  *)
(* (pkg/credentialprovider/plugin, the commands, and the static provider). *)
(*                                                                         *)
(* The caller writes the request and closes its end, may stop reading, and *)
(* may kill the process. The credentials file may be rewritten meanwhile.  *)
(* What the dynamic provider answers is the subject of CredentialLookup.   *)
(***************************************************************************)
EXTENDS Naturals

CONSTANTS
    Inputs,     \* what a caller may send: [apiVersion, kind, image], or Garbage
    Contents,   \* what the credentials file may hold: [apiVersion, kind, body], or Garbage
    Bodies,     \* the credentials of a response
    Large,      \* the bodies too long for the 4096 bytes of the writer's buffer
    Group,      \* the API versions of credentialprovider.kubelet.k8s.io
    V1,         \* the version of requests and responses
    Garbage,    \* no document, a torn one among others, or no file
    Nil         \* no response

Response(body) == [apiVersion |-> V1, kind |-> "CredentialProviderResponse", body |-> body]

ASSUME RequestAssumption ==
    /\ V1 \in Group
    /\ Nil # Garbage /\ Nil \notin Inputs /\ Nil \notin Bodies
    /\ Nil \notin {"success", "failure", "killed"}
    /\ \A b \in Bodies : Response(b) # Nil
    /\ \A c \in Contents : c # Garbage => c.body \in Bodies

VARIABLES
    program,  \* static or dynamic
    input,    \* what was sent, or Nil while the standard input is open
    file,     \* the content of the credentials file
    output,   \* the standard output: open, or closed by its reader
    pc,       \* init, read, call, write, partly, flush, exited
    answer,   \* what the provider returned: a body, or Nil
    sent,     \* what was written: nothing (Nil), part of a response (Garbage), or a response
    exit,     \* success, failure, killed (by the caller or by SIGPIPE), or Nil while it runs
    held      \* history: what the file held since the request was complete

vars == <<program, input, file, output, pc, answer, sent, exit, held>>

\* The state has its type; a response that was sent is of the version asked for
\* (plugin.go:159-173).
TypeOK ==
    /\ program \in {"static", "dynamic"}
    /\ input \in Inputs \cup {Nil}
    /\ file \in Contents
    /\ output \in {"open", "closed"}
    /\ pc \in {"init", "read", "call", "write", "partly", "flush", "exited"}
    /\ answer \in Bodies \cup {Nil}
    /\ sent \in {Nil, Garbage} \cup {Response(b) : b \in Bodies}
    /\ exit \in {"success", "failure", "killed", Nil}
    /\ held \subseteq Contents

Init ==
    /\ program \in {"static", "dynamic"}
    /\ input = Nil
    /\ file \in Contents
    /\ output = "open"
    /\ pc = "init"
    /\ answer = Nil
    /\ sent = Nil
    /\ exit = Nil
    /\ held = {}

---------------------------------------------------------------------------
(* The caller and the host.                                                *)

Send(request) ==
    /\ input = Nil
    /\ input' = request
    /\ held' = {file}
    /\ UNCHANGED <<program, file, output, pc, answer, sent, exit>>

Rewrite(content) ==
    /\ program = "static" /\ pc # "exited"
    /\ file' = content
    /\ held' = IF input = Nil THEN held ELSE held \cup {content}
    /\ UNCHANGED <<program, input, output, pc, answer, sent, exit>>

\* The pipe loses its reader.
LoseOutput ==
    /\ output = "open" /\ pc # "exited"
    /\ output' = "closed"
    /\ UNCHANGED <<program, input, file, pc, answer, sent, exit, held>>

Exit(status) ==
    /\ pc' = "exited"
    /\ exit' = status
    /\ UNCHANGED <<program, input, file, output, held>>

Kill ==
    /\ pc # "exited"
    /\ Exit("killed")
    /\ UNCHANGED <<answer, sent>>

---------------------------------------------------------------------------
(* The process. Every error is logged and ends it with status 1.           *)

Goto(next) ==
    /\ pc' = next
    /\ UNCHANGED <<program, input, file, output, exit, held>>

\* The dynamic provider loads its configuration before it reads the request.
Initialise ==
    /\ pc = "init"
    /\ Goto("read")
    /\ UNCHANGED <<answer, sent>>

CannotInitialise ==
    /\ pc = "init" /\ program = "dynamic"
    /\ Exit("failure")
    /\ UNCHANGED <<answer, sent>>

\* Interpret, decodeRequest and the check of the image.
Accepted(request) ==
    /\ request # Garbage
    /\ request.apiVersion = V1
    /\ request.kind = "CredentialProviderRequest"
    /\ request.image # ""

ReadAnyRequest ==
    /\ pc = "read"
    /\ input # Nil
    /\ Goto("call")
    /\ UNCHANGED <<answer, sent>>
ReadNextRequest ==
    /\ pc = "read"
    /\ input # Nil
    /\ Goto(IF Accepted(input) THEN "call" ELSE "read")
    /\ UNCHANGED <<answer, sent>>
ReadRequest ==
    /\ pc = "read"
    /\ input # Nil
    /\ IF Accepted(input) THEN Goto("call") ELSE Exit("failure")
    /\ UNCHANGED <<answer, sent>>

\* decodeResponse of the static provider: any version of the group is converted.
Decodes(content) ==
    /\ content # Garbage
    /\ content.apiVersion \in Group
    /\ content.kind = "CredentialProviderResponse"

ReadCredentials ==
    /\ pc = "call" /\ program = "static"
    /\ IF Decodes(file)
       THEN Goto("write") /\ answer' = file.body
       ELSE Exit("failure") /\ UNCHANGED answer
    /\ UNCHANGED sent

CallDynamicProvider ==
    /\ pc = "call" /\ program = "dynamic"
    /\ \/ Exit("failure") /\ UNCHANGED answer
       \/ Goto("write") /\ answer' \in Bodies
    /\ UNCHANGED sent

BrokenReported == output = "closed" /\ Exit("failure")
Broken == output = "closed" /\ Exit("killed")

\* A large response is written past the buffer, and its write may fail.
WriteLarge ==
    /\ pc = "write" /\ answer \in Large
    /\ \/ output = "open" /\ Goto("partly") /\ sent' = Garbage
       \/ Broken /\ UNCHANGED sent
    /\ UNCHANGED answer

WriteRestAsRead ==
    /\ pc = "partly"
    /\ output = "open" /\ Goto("flush") /\ sent' = file
    /\ UNCHANGED answer
WriteRest ==
    /\ pc = "partly"
    /\ \/ output = "open" /\ Goto("flush") /\ sent' = Response(answer)
       \/ Broken /\ UNCHANGED sent
    /\ UNCHANGED answer

Buffer ==
    /\ pc = "write" /\ answer \notin Large
    /\ Goto("flush")
    /\ UNCHANGED <<answer, sent>>

\* The deferred Flush, whose error nobody looks at.
Flush ==
    /\ pc = "flush"
    /\ \/ sent = Nil /\ output = "open" /\ Exit("success") /\ sent' = Response(answer)
       \/ sent = Nil /\ Broken /\ UNCHANGED sent
       \/ sent # Nil /\ Exit("success") /\ UNCHANGED sent
    /\ UNCHANGED answer

Process ==
    \/ Initialise \/ CannotInitialise \/ ReadRequest \/ ReadCredentials \/ CallDynamicProvider
    \/ WriteLarge \/ WriteRest \/ Buffer \/ Flush

Next ==
    \/ \E request \in Inputs : Send(request)
    \/ \E content \in Contents : Rewrite(content)
    \/ LoseOutput \/ Kill \/ Process

\* The caller closes the standard input in the end; the provider's call ends.
Spec == Init /\ [][Next]_vars /\ WF_vars(Process) /\ WF_vars(\E r \in Inputs : Send(r))

---------------------------------------------------------------------------

\* What a successful process wrote is one whole response of the version asked for, to a
\* proper request; the static provider's is what the credentials file held, whole, at some
\* moment after the request was complete, though it may have been rewritten before and after
\* (plugin.go:68-113, static_credentials.go:40-78).
SuccessIsAnswer ==
    exit = "success" =>
        /\ Accepted(input)
        /\ \E body \in Bodies :
               /\ sent = Response(body)
               /\ program = "static" =>
                      \E c \in held : Decodes(c) /\ c.body = body

\* A process that ends with an error by itself has written nothing: half a response is only
\* ever followed by the end of a process that was killed or lost its reader
\* (plugin.go:101-112).
FailureIsSilent == exit = "failure" => sent = Nil

\* Every process ends, once its input is complete (plugin.go:68-113).
Ends == <>(pc = "exited")
=============================================================================
