------------------------ MODULE PluginRequestProofs ------------------------
(***************************************************************************)
(* One process behind the plugin protocol, for any requests, contents of   *)
(* the credentials file and sizes of responses.                            *)
(***************************************************************************)
EXTENDS PluginRequest, TLAPS

\* The answer is of the file, if the provider is the static one.
FromFile ==
    /\ answer \in Bodies
    /\ program = "static" => \E c \in held : Decodes(c) /\ c.body = answer

Reading == pc \in {"init", "read"}
Writing == pc \in {"write", "partly", "flush"}

\* Where the process is, what it has sent and what it may still send.
RequestInv ==
    /\ TypeOK
    /\ pc = "call" \/ Writing => input # Nil /\ Accepted(input)
    /\ input # Nil => file \in held
    /\ Writing => FromFile
    /\ Reading \/ pc \in {"call", "write"} => sent = Nil
    /\ pc = "partly" => sent = Garbage
    /\ pc = "flush" => sent \in {Nil, Response(answer)}
    /\ pc # "exited" <=> exit = Nil
    /\ exit = "success" => input # Nil
    /\ SuccessIsAnswer
    /\ FailureIsSilent

LEMMA InitRequestInv == Init => RequestInv
  BY RequestAssumption
  DEF Init, RequestInv, TypeOK, Reading, Writing, SuccessIsAnswer, FailureIsSilent

LEMMA EnvironmentKeeps ==
    ASSUME RequestInv,
           \/ \E request \in Inputs : Send(request)
           \/ \E content \in Contents : Rewrite(content)
           \/ LoseOutput \/ Kill \/ UNCHANGED vars
    PROVE  RequestInv'
<1> USE RequestAssumption DEF RequestInv, TypeOK, Reading, Writing, FromFile
<1>1. ASSUME NEW request \in Inputs, Send(request) PROVE RequestInv'
  BY <1>1 DEF Send, SuccessIsAnswer, FailureIsSilent
<1>2. ASSUME NEW content \in Contents, Rewrite(content) PROVE RequestInv'
  BY <1>2 DEF Rewrite, SuccessIsAnswer, FailureIsSilent
<1>3. CASE LoseOutput
  BY <1>3 DEF LoseOutput, SuccessIsAnswer, FailureIsSilent
<1>4. CASE Kill
  BY <1>4 DEF Kill, Exit, SuccessIsAnswer, FailureIsSilent
<1>5. CASE UNCHANGED vars
  BY <1>5 DEF vars, SuccessIsAnswer, FailureIsSilent
<1> QED
  BY <1>1, <1>2, <1>3, <1>4, <1>5

LEMMA ProcessKeeps ==
    ASSUME RequestInv, Process
    PROVE  RequestInv'
<1> USE RequestAssumption DEF RequestInv, TypeOK, Reading, Writing, FromFile, Goto, Exit
<1>1. CASE Initialise \/ CannotInitialise
  BY <1>1 DEF Initialise, CannotInitialise, SuccessIsAnswer, FailureIsSilent
<1>2. CASE ReadRequest
  BY <1>2 DEF ReadRequest, SuccessIsAnswer, FailureIsSilent
<1>3. CASE ReadCredentials
  <2>1. file \in held /\ (Decodes(file) => file.body \in Bodies)
    BY <1>3, RequestAssumption DEF ReadCredentials, Decodes
  <2> QED
    BY <1>3, <2>1 DEF ReadCredentials, SuccessIsAnswer, FailureIsSilent
<1>4. CASE CallDynamicProvider
  BY <1>4 DEF CallDynamicProvider, SuccessIsAnswer, FailureIsSilent
<1>5. CASE WriteLarge
  BY <1>5 DEF WriteLarge, Broken, SuccessIsAnswer, FailureIsSilent
<1>6. CASE WriteRest
  BY <1>6 DEF WriteRest, Broken, SuccessIsAnswer, FailureIsSilent
<1>7. CASE Buffer
  BY <1>7 DEF Buffer, SuccessIsAnswer, FailureIsSilent
<1>8. CASE Flush
  BY <1>8 DEF Flush, Broken, SuccessIsAnswer, FailureIsSilent
<1> QED
  BY <1>1, <1>2, <1>3, <1>4, <1>5, <1>6, <1>7, <1>8 DEF Process

LEMMA NextRequestInv == RequestInv /\ [Next]_vars => RequestInv'
  BY EnvironmentKeeps, ProcessKeeps DEF Next

LEMMA Invariance == Spec => []RequestInv
<1>1. RequestInv /\ [Next]_vars => RequestInv'
  BY NextRequestInv
<1> QED
  BY <1>1, InitRequestInv, PTL DEF Spec

\* The state of a process has its type, and what it sends is a response of the right version
\* (plugin.go:159-173).
THEOREM RequestTypeCorrect == Spec => []TypeOK
<1>1. RequestInv => TypeOK
  BY DEF RequestInv
<1> QED
  BY <1>1, Invariance, PTL

\* A process that succeeds has sent the whole answer to a proper request, and the static
\* provider one that the credentials file held after the request was complete
\* (plugin.go:68-113, static_credentials.go:40-78).
THEOREM SuccessIsAlwaysAnswer == Spec => []SuccessIsAnswer
<1>1. RequestInv => SuccessIsAnswer
  BY DEF RequestInv
<1> QED
  BY <1>1, Invariance, PTL

\* A process that fails by itself has sent nothing (plugin.go:101-112).
THEOREM FailureIsAlwaysSilent == Spec => []FailureIsSilent
<1>1. RequestInv => FailureIsSilent
  BY DEF RequestInv
<1> QED
  BY <1>1, Invariance, PTL
=============================================================================
