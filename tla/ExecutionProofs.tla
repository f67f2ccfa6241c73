-------------------------- MODULE ExecutionProofs --------------------------
(***************************************************************************)
(* Proofs about module Execution, for every bound on the frames: the       *)
(* records the entry points return and the frames in flight keep their     *)
(* types, whatever ExceptionError is handed and wherever termination       *)
(* lands.                                                                  *)
(***************************************************************************)
EXTENDS Execution, SequenceTheorems, TLAPS

\* Whatever ExceptionError is asked to convert, its record is well formed.
LEMMA ErrorType ==
  ASSUME NEW t \in BOOLEAN, NEW text \in {"text", "empty"},
         NEW m \in BOOLEAN, NEW s \in BOOLEAN
  PROVE  ExceptionError(t, text, m, s) \in RtnError
BY DEF ExceptionError, CopyString, RtnError

LEMMA ReturnType ==
  ASSUME NEW value \in BOOLEAN, NEW err \in RtnError, NEW t \in BOOLEAN,
         NEW asked \in BOOLEAN, Return(value, err, t, asked)
  PROVE  rtn' \in Rtn /\ why' \in Why
BY DEF Return, Rtn, Why

LEMMA StackFrames ==
  ASSUME stack \in Seq(Frame), stack # <<>>
  PROVE  /\ Top \in Frame
         /\ SubSeq(stack, 1, Len(stack) - 1) \in Seq(Frame)
<1>1. Len(stack) \in Nat \ {0}
  BY LenProperties, EmptySeq
<1>. QED
  BY <1>1, SubSeqProperties DEF Top

LEMMA InheritedType ==
  ASSUME stack \in Seq(Frame)
  PROVE  Inherited \in BOOLEAN
BY StackFrames DEF Inherited

LEMMA PushType ==
  ASSUME stack \in Seq(Frame), NEW op \in {"script", "callback"}, Push(op)
  PROVE  stack' \in Seq(Frame)
<1>1. [op |-> op, asked |-> Inherited] \in Frame
  BY InheritedType DEF Frame
<1>. QED BY <1>1, AppendProperties DEF Push

LEMMA ExecInitType == ExecInit => ExecTypeOK
<1> SUFFICES ASSUME ExecInit PROVE ExecTypeOK
  OBVIOUS
<1>1. stack \in Seq(Frame)
  BY DEF ExecInit
<1>2. rtn \in Rtn /\ why \in Why
  BY DEF ExecInit, NoRtn, Rtn, RtnError, Why
<1>. QED
  BY <1>1, <1>2 DEF ExecInit, ExecTypeOK

LEMMA ExecNextType ==
  ASSUME ExecTypeOK, [ExecNext]_vars
  PROVE  ExecTypeOK'
<1> USE DEF ExecTypeOK
<1>1. CASE Terminate
  <2>1. \A i \in 1..Len(stack) : [stack[i] EXCEPT !.asked = TRUE] \in Frame
    <3> SUFFICES ASSUME NEW i \in 1..Len(stack)
                 PROVE  [stack[i] EXCEPT !.asked = TRUE] \in Frame
      OBVIOUS
    <3>1. stack[i] \in Frame
      BY ElementOfSeq
    <3>. QED
      BY <3>1 DEF Frame
  <2>2. [i \in 1..Len(stack) |-> [stack[i] EXCEPT !.asked = TRUE]] \in Seq(Frame)
    <3>1. Len(stack) \in Nat
      BY LenProperties
    <3>. QED
      BY <2>1, <3>1, IsASeq
  <2>. QED BY <1>1, <2>2 DEF Terminate
<1>2. ASSUME NEW src \in {"unconvertible", "syntax_error", "runs"}, RunScript(src)
      PROVE  ExecTypeOK'
  <2>1. Inherited \in BOOLEAN
    BY InheritedType
  <2>2. CASE src = "runs"
    BY <1>2, <2>2, PushType DEF RunScript
  <2>3. CASE src # "runs"
    BY <1>2, <2>1, <2>3, ErrorType, ReturnType DEF RunScript, Failed
  <2>. QED BY <2>2, <2>3
<1>3. CASE ScriptCompletes
  <2>1. Top \in Frame /\ SubSeq(stack, 1, Len(stack) - 1) \in Seq(Frame)
    BY <1>3, StackFrames DEF ScriptCompletes
  <2>2. NoRtn.error \in RtnError
    BY DEF NoRtn, RtnError
  <2>. QED
    BY <1>3, <2>1, <2>2, ReturnType DEF ScriptCompletes, Pop, Frame
<1>4. ASSUME NEW text \in {"text", "empty"}, NEW runsJS \in BOOLEAN,
             ScriptThrows(text, runsJS)
      PROVE  ExecTypeOK'
  <2>1. Top \in Frame /\ SubSeq(stack, 1, Len(stack) - 1) \in Seq(Frame)
    BY <1>4, StackFrames DEF ScriptThrows
  <2>2. (IF runsJS /\ pending THEN "empty" ELSE text) \in {"text", "empty"}
    OBVIOUS
  <2>. QED
    BY <1>4, <2>1, <2>2, ErrorType, ReturnType DEF ScriptThrows, Pop, Failed, Frame
<1>5. CASE ScriptCallsNative
  BY <1>5, PushType DEF ScriptCallsNative
<1>6. CASE CallbackReturn
  BY <1>6, StackFrames DEF CallbackReturn, Pop
<1>7. CASE StackCheck
  BY <1>7 DEF StackCheck
<1>8. CASE Unwind
  <2>1. Top \in Frame /\ SubSeq(stack, 1, Len(stack) - 1) \in Seq(Frame)
    BY <1>8, StackFrames DEF Unwind
  <2>. QED
    BY <1>8, <2>1, ErrorType, ReturnType DEF Unwind, Pop, Failed, Frame
<1>9. ASSUME NEW runsJS \in BOOLEAN, NEW throws \in BOOLEAN, CheckedCall(runsJS, throws)
      PROVE  ExecTypeOK'
  BY <1>9 DEF CheckedCall, Faults
<1>10. ASSUME NEW input \in {"unconvertible", "invalid", "valid"}, JSONParse(input)
       PROVE  ExecTypeOK'
  <2>1. Inherited \in BOOLEAN
    BY InheritedType
  <2>2. NoRtn.error \in RtnError
    BY DEF NoRtn, RtnError
  <2>3. faults' \subseteq Faults
    BY <1>10 DEF JSONParse, Faults
  <2>. QED
    BY <1>10, <2>1, <2>2, <2>3, ErrorType, ReturnType DEF JSONParse, Failed
<1>11. CASE UNCHANGED vars
  BY <1>11 DEF vars
<1>. QED
  BY <1>1, <1>2, <1>3, <1>4, <1>5, <1>6, <1>7, <1>8, <1>9, <1>10, <1>11 DEF ExecNext

\* Whatever the host, the script and the terminating thread do, every
\* record RunScript, JSONParse and the function calls return is a value or
\* a well-formed error (ExceptionError's three fields), and the frames in
\* flight stay a stack of script and callback frames.
THEOREM ExecTypeCorrect == ExecSpec => []ExecTypeOK
<1>1. ExecInit => ExecTypeOK
  BY ExecInitType
<1>2. ExecTypeOK /\ [ExecNext]_vars => ExecTypeOK'
  BY ExecNextType
<1>. QED
  BY <1>1, <1>2, PTL DEF ExecSpec

=============================================================================
