-------------------------- MODULE PluginExecProofs --------------------------
(***************************************************************************)
(* The safety of a plugin's execution, for any children it may start, any  *)
(* number of prints, and any way in which what was printed decodes.        *)
(***************************************************************************)
EXTENDS PluginExec, SequenceTheorems, TLAPS

\* Nobody can print before Run and once it has returned, and nobody answers before.
Sealed ==
    /\ phase \in {"start", "ran", "returned"} => holders = {}
    /\ phase # "returned" => result.response = Nothing

ExecInv == TypeOK /\ Sealed /\ AnswerIsWhole

LEMMA FailureIsResult ==
    ASSUME NEW error \in Errors
    PROVE  /\ Failure(error) \in [response : Documents \cup {Nothing}, error : Errors]
           /\ Failure(error).response = Nothing
  BY DEF Failure

LEMMA InitExecInv == Init => ExecInv
<1>1. "" \in Errors
  BY DEF Errors
<1> SUFFICES ASSUME Init PROVE ExecInv
  OBVIOUS
<1>2. << >> \in Buffers
  <2>1. << >> \in [1..0 -> Chunks]
    OBVIOUS
  <2> QED
    BY <2>1, DecodeAssumption DEF Buffers
<1>3. TypeOK
  BY <1>1, <1>2, FailureIsResult DEF Init, TypeOK
<1>4. Sealed /\ AnswerIsWhole
  BY <1>1, FailureIsResult DEF Init, Sealed, AnswerIsWhole
<1> QED
  BY <1>3, <1>4 DEF ExecInv

LEMMA PrintsStayInBuffers ==
    ASSUME NEW b \in Buffers, NEW chunk \in Chunks, Len(b) < MaxPrints
    PROVE  Append(b, chunk) \in Buffers
<1>1. PICK n \in 0..MaxPrints : b \in [1..n -> Chunks]
  BY DEF Buffers
<1>2. n \in Nat /\ n + 1 \in Nat
  BY <1>1, DecodeAssumption
<1>3. b \in Seq(Chunks) /\ Len(b) = n
  BY <1>1, <1>2
<1>4. Append(b, chunk) \in [1..n + 1 -> Chunks]
  <2>1. Append(b, chunk) \in Seq(Chunks) /\ Len(Append(b, chunk)) = n + 1
    BY <1>2, <1>3, AppendProperties
  <2> QED
    BY <2>1, LenProperties
<1>5. n + 1 \in 0..MaxPrints
  BY <1>1, <1>3, DecodeAssumption
<1> QED
  BY <1>4, <1>5 DEF Buffers

LEMMA NextExecInv == ExecInv /\ [Next]_vars => ExecInv'
<1> SUFFICES ASSUME ExecInv, [Next]_vars PROVE ExecInv'
  OBVIOUS
<1> USE ResponseAssumption DEF ExecInv
<1>1. CASE CannotStart
  <2>1. "not started" \in Errors
    BY DEF Errors
  <2>2. TypeOK'
    BY <1>1, <2>1, FailureIsResult DEF CannotStart, Return, TypeOK
  <2>3. Sealed'
    BY <1>1 DEF CannotStart, Return, TypeOK, Sealed
  <2>4. AnswerIsWhole'
    BY <1>1, <2>1, FailureIsResult DEF CannotStart, Return, AnswerIsWhole
  <2> QED
    BY <2>2, <2>3, <2>4
<1>2. CASE Start
  BY <1>2 DEF Start, TypeOK, Sealed, AnswerIsWhole
<1>3. ASSUME NEW p \in holders, NEW chunk \in Chunks, Prints(p, chunk) PROVE ExecInv'
  <2>1. stdout' \in Buffers
    BY <1>3, PrintsStayInBuffers DEF Prints, TypeOK
  <2>2. TypeOK'
    BY <1>3, <2>1 DEF Prints, TypeOK
  <2>3. Sealed' /\ AnswerIsWhole'
    BY <1>3 DEF Prints, TypeOK, Sealed, AnswerIsWhole
  <2> QED
    BY <2>2, <2>3
<1>4. CASE PluginEnds
  BY <1>4 DEF PluginEnds, EndPlugin, TypeOK, Sealed, AnswerIsWhole
<1>5. ASSUME NEW c \in Children, Fork(c) PROVE ExecInv'
  BY <1>5, ProcessAssumption DEF Fork, TypeOK, Sealed, AnswerIsWhole
<1>6. ASSUME NEW c \in Children, ChildReleases(c) PROVE ExecInv'
  BY <1>6, ProcessAssumption DEF ChildReleases, TypeOK, Sealed, AnswerIsWhole
<1>7. CASE Expire
  BY <1>7 DEF Expire, TypeOK, Sealed, AnswerIsWhole
<1>8. CASE Kill
  BY <1>8 DEF Kill, EndPlugin, TypeOK, Sealed, AnswerIsWhole
<1>9. CASE Reap
  BY <1>9 DEF Reap, Proceed, TypeOK, Sealed, AnswerIsWhole
<1>10. CASE Collect
  BY <1>10 DEF Collect, Proceed, TypeOK, Sealed, AnswerIsWhole
<1>11. CASE Judge
  <2>1. Decode(stdout) \in Documents \cup {Nothing}
    BY DecodeAssumption DEF TypeOK
  <2>2. TypeOK'
    BY <1>11, <2>1 DEF Judge, Return, Verdict, Success, Failure, Errors, TypeOK
  <2>3. Sealed'
    BY <1>11 DEF Judge, Return, Sealed
  <2>4. AnswerIsWhole'
    BY <1>11, <2>1 DEF Judge, Return, Verdict, Success, Failure, TypeOK, Sealed, AnswerIsWhole
  <2> QED
    BY <2>2, <2>3, <2>4
<1>12. CASE UNCHANGED vars
  BY <1>12 DEF vars, TypeOK, Sealed, AnswerIsWhole
<1> QED
  BY <1>1, <1>2, <1>3, <1>4, <1>5, <1>6, <1>7, <1>8, <1>9, <1>10, <1>11, <1>12 DEF Next

\* The state of an execution has its type, and only the running plugin has the plugin's hold
\* on the output (plugin_executor.go:165-232).
THEOREM ExecTypeCorrect == Spec => []TypeOK
<1>1. Spec => []ExecInv
  BY InitExecInv, NextExecInv, PTL DEF Spec
<1> QED
  BY <1>1, PTL DEF ExecInv

\* The call answers only if the plugin succeeded in time, with what the whole of the output
\* decodes to once nobody can add to it, for any way of decoding (plugin_executor.go:206-231).
THEOREM AnswersAreWhole == Spec => []AnswerIsWhole
<1>1. Spec => []ExecInv
  BY InitExecInv, NextExecInv, PTL DEF Spec
<1> QED
  BY <1>1, PTL DEF ExecInv
=============================================================================
