------------------------------ MODULE Execution ------------------------------
(***************************************************************************)
(* Script execution, termination and error translation in v8go.cc.         *)
(*                                                                         *)
(* RunScript, FunctionCall and FunctionNewInstance run JS under a TryCatch *)
(* and, on every failure path, build the error record with ExceptionError. *)
(* A script may call a native function, whose Go code may run a nested     *)
(* script; the frames in flight are kept on stack as in module Bridge,     *)
(* without the contexts and wrappers, which do not matter here.            *)
(*                                                                         *)
(* IsolateTerminateExecution is called from another thread, with no        *)
(* Locker: it only requests a stack-guard interrupt (pending).  JS polls   *)
(* for it at function entries and loop back-edges; taking it throws the    *)
(* termination exception (active), which no JS can catch and which         *)
(* unwinds every script frame until none is left, when V8 clears it.       *)
(*                                                                         *)
(* Entry points that convert with ToChecked()/Check() (ValueToInt32,       *)
(* ObjectHas, ObjectSet, PromiseResolverResolve, ...) and JSONParse are    *)
(* here because what they do on a failed engine call is the question.      *)
(***************************************************************************)
EXTENDS Naturals, Sequences

CONSTANT MaxDepth  \* bound on the frames in flight at once

ASSUME ExecAssumption == MaxDepth \in Nat \ {0}

\* What the fields of an RtnValue hold.  msg is nullptr, the termination
\* sentinel or the exception's text; location and stack are non-null or not.
RtnError == [msg : {"null", "sentinel", "text"}, location : BOOLEAN, stack : BOOLEAN]
Rtn == [value : BOOLEAN, error : RtnError]
NoRtn == [value |-> FALSE, error |-> [msg |-> "null", location |-> FALSE, stack |-> FALSE]]

\* What the last run really went through, which the C code cannot see:
\* whether an entry point has returned a record yet, whether the run was
\* unwound by termination, and whether IsolateTerminateExecution was called
\* while it (or a run it is nested in) was in flight.
Why == [returned : BOOLEAN, terminated : BOOLEAN, asked : BOOLEAN]

\* A script frame of an entry point, or a FunctionTemplateCallback running
\* Go code.  asked: termination was requested while the frame was in flight.
Frame == [op : {"script", "callback"}, asked : BOOLEAN]

\* Undefined behaviour: a Maybe that is Nothing passed to ToChecked()/Check()
\* (V8 aborts the process), and an empty Local passed to JSON::Parse.
Faults == {"checked_nothing", "empty_handle"}

VARIABLES
  pending,  \* the stack guard's terminate-execution interrupt is requested
  active,   \* the termination exception is propagating
  stack,    \* the frames in flight, innermost last
  rtn,      \* the RtnValue the last RunScript/FunctionCall/JSONParse returned
  why,      \* what that run went through (history, not program state)
  faults    \* the undefined behaviour committed so far

vars == <<pending, active, stack, rtn, why, faults>>

ExecTypeOK ==
  /\ pending \in BOOLEAN
  /\ active \in BOOLEAN
  /\ stack \in Seq(Frame)
  /\ rtn \in Rtn
  /\ why \in Why
  /\ faults \subseteq Faults

ExecInit ==
  /\ pending = FALSE
  /\ active = FALSE
  /\ stack = <<>>
  /\ rtn = NoRtn
  /\ why = [returned |-> FALSE, terminated |-> FALSE, asked |-> FALSE]
  /\ faults = {}

Top == stack[Len(stack)]
HostTurn == stack = <<>> \/ (stack # <<>> /\ Top.op = "callback")

\* A frame pushed inside another belongs to the same run for termination.
Inherited == stack # <<>> /\ Top.asked
Push(op) == stack' = Append(stack, [op |-> op, asked |-> Inherited])
Pop == stack' = SubSeq(stack, 1, Len(stack) - 1)

\* CopyString(String::Utf8Value&): nullptr for a string of length 0, which
\* is what an empty exception handle converts to as well.
CopyString(text) == IF text = "empty" THEN "null" ELSE "text"

\* A faulty ExceptionError that builds the termination record without the
\* initialiser {nullptr, nullptr, nullptr}: only msg is set.
ExceptionErrorUninitialised(terminated, text, hasMessage, hasStack) ==
  IF terminated
    THEN [msg |-> "sentinel"]
    ELSE [msg |-> CopyString(text), location |-> hasMessage, stack |-> hasStack]

\* ExceptionError: the sentinel alone when the TryCatch has terminated;
\* otherwise the exception's text, a location when there is a Message
\* (CopyString of a std::string, never null) and the stack trace if any.
ExceptionError(terminated, text, hasMessage, hasStack) ==
  IF terminated
    THEN [msg |-> "sentinel", location |-> FALSE, stack |-> FALSE]
    ELSE [msg |-> CopyString(text), location |-> hasMessage, stack |-> hasStack]

\* Record what an entry point returns: a tracked value, or an error.
Return(value, err, terminated, asked) ==
  /\ rtn' = [value |-> value, error |-> err]
  /\ why' = [returned |-> TRUE, terminated |-> terminated, asked |-> asked]

Failed(err, terminated, asked) == Return(FALSE, err, terminated, asked)

(***************************************************************************)
(* Actions.                                                                *)
(***************************************************************************)

\* IsolateTerminateExecution, from any thread at any time.
Terminate ==
  /\ pending' = TRUE
  /\ stack' = [i \in 1..Len(stack) |-> [stack[i] EXCEPT !.asked = TRUE]]
  /\ UNCHANGED <<active, rtn, why, faults>>

\* RunScript(ctx, source, origin): NewFromUtf8 of source or origin fails
\* (nothing is thrown, so the TryCatch is empty), compilation throws a
\* SyntaxError, or script->Run starts.  FunctionCall and FunctionNewInstance
\* are the last case.
RunScript(src) ==
  /\ HostTurn
  /\ Len(stack) < MaxDepth
  /\ \/ /\ src = "unconvertible"
        /\ Failed(ExceptionError(FALSE, "empty", FALSE, FALSE), FALSE, Inherited)
        /\ UNCHANGED stack
     \/ /\ src = "syntax_error"
        /\ ~active
        /\ \E hasStack \in BOOLEAN :
             Failed(ExceptionError(FALSE, "text", TRUE, hasStack), FALSE, Inherited)
        /\ UNCHANGED stack
     \/ /\ src = "runs"
        /\ Push("script")
        /\ UNCHANGED <<rtn, why>>
  /\ UNCHANGED <<pending, active, faults>>

\* The script returns a value, which is tracked and returned.
ScriptCompletes ==
  /\ stack # <<>>
  /\ Top.op = "script"
  /\ ~active
  /\ Pop
  /\ Return(TRUE, NoRtn.error, FALSE, Top.asked)
  /\ UNCHANGED <<pending, active, faults>>

\* The script throws a value whose string form is empty or not; a thrown
\* value has a Message, and a stack trace only if it is an Error object.
\* ExceptionError asks HasTerminated first and only then converts the
\* exception with String::Utf8Value, which calls the value's toString: JS
\* that takes a pending terminate request there.  The conversion is then
\* cut short (an empty string, so CopyString gives nullptr) and the
\* termination exception unwinds whatever script frames remain.
ScriptThrows(text, runsJS) ==
  LET cut == runsJS /\ pending
  IN
  /\ stack # <<>>
  /\ Top.op = "script"
  /\ ~active
  /\ Pop
  /\ \E hasStack \in BOOLEAN :
       Failed(ExceptionError(FALSE, IF cut THEN "empty" ELSE text, TRUE, hasStack),
              FALSE, Top.asked)
  /\ pending' = (pending /\ ~cut)
  /\ active' = (cut /\ \E i \in 1..(Len(stack) - 1) : stack[i].op = "script")
  /\ UNCHANGED faults

\* The script calls a native function: FunctionTemplateCallback runs Go.
ScriptCallsNative ==
  /\ stack # <<>>
  /\ Top.op = "script"
  /\ ~active
  /\ Len(stack) < MaxDepth
  /\ Push("callback")
  /\ UNCHANGED <<pending, active, rtn, why, faults>>

\* goFunctionCallback returns to the script.
CallbackReturn ==
  /\ stack # <<>>
  /\ Top.op = "callback"
  /\ Pop
  /\ UNCHANGED <<pending, active, rtn, why, faults>>

\* An interrupt that is taken without throwing, as when the entry point
\* requests a plain interrupt (RequestInterrupt) instead of TerminateExecution.
StackCheckDropsInterrupt ==
  /\ stack # <<>>
  /\ Top.op = "script"
  /\ pending
  /\ pending' = FALSE
  /\ UNCHANGED <<active, stack, rtn, why, faults>>

\* The interrupt iso->TerminateExecution() requested takes effect at a stack
\* check of running JS: the termination exception is thrown.
StackCheck ==
  /\ stack # <<>>
  /\ Top.op = "script"
  /\ pending
  /\ pending' = FALSE
  /\ active' = TRUE
  /\ UNCHANGED <<stack, rtn, why, faults>>

\* The termination exception leaves the innermost script frame: its entry
\* point calls ExceptionError; V8 clears the exception once no script frame
\* is left below.
Unwind ==
  /\ stack # <<>>
  /\ Top.op = "script"
  /\ active
  /\ Pop
  /\ active' = \E i \in 1..(Len(stack) - 1) : stack[i].op = "script"
  /\ Failed(ExceptionError(TRUE, "empty", FALSE, FALSE), TRUE, Top.asked)
  /\ UNCHANGED <<pending, faults>>

\* ValueToInt32, ObjectHas, ObjectSet, PromiseResolverResolve and the other
\* entry points that call ToChecked() or Check(): the engine call returns
\* Nothing when it runs JS (a valueOf, a getter, a proxy trap) that throws
\* or is terminated.
CheckedCall(runsJS, throws) ==
  /\ HostTurn
  /\ IF runsJS /\ (throws \/ pending \/ active)
       THEN faults' = faults \cup {"checked_nothing"}
       ELSE UNCHANGED faults
  /\ UNCHANGED <<pending, active, stack, rtn, why>>

\* JSONParse(ctx, str): when NewFromUtf8 fails the error is recorded but
\* the empty string handle is still passed to JSON::Parse.
JSONParse(input) ==
  /\ HostTurn
  /\ \/ /\ input = "unconvertible"
        /\ faults' = faults \cup {"empty_handle"}
        /\ Failed(ExceptionError(FALSE, "empty", FALSE, FALSE), FALSE, Inherited)
     \/ /\ input = "invalid"
        /\ ~active
        /\ Failed(ExceptionError(FALSE, "text", TRUE, FALSE), FALSE, Inherited)
        /\ UNCHANGED faults
     \/ /\ input = "valid"
        /\ ~active
        /\ Return(TRUE, NoRtn.error, FALSE, Inherited)
        /\ UNCHANGED faults
  /\ UNCHANGED <<pending, active, stack>>

ExecNext ==
  \/ Terminate
  \/ \E src \in {"unconvertible", "syntax_error", "runs"} : RunScript(src)
  \/ ScriptCompletes
  \/ \E text \in {"text", "empty"}, runsJS \in BOOLEAN : ScriptThrows(text, runsJS)
  \/ ScriptCallsNative
  \/ CallbackReturn
  \/ StackCheck
  \/ Unwind
  \/ \E runsJS, throws \in BOOLEAN : CheckedCall(runsJS, throws)
  \/ \E input \in {"unconvertible", "invalid", "valid"} : JSONParse(input)

\* V8 polls for interrupts at every function entry and loop back-edge, so
\* JS that keeps running takes a requested interrupt (strong fairness: a
\* script may leave the top to call natives in between); unwinding is the
\* engine's own; and the host's Go callbacks return (an assumption on the
\* host: a callback that never returns holds its script forever).
ExecFairness ==
  /\ SF_vars(StackCheck)
  /\ WF_vars(Unwind)
  /\ SF_vars(CallbackReturn)

ExecSpec == ExecInit /\ [][ExecNext]_vars /\ ExecFairness

(***************************************************************************)
(* Properties.                                                             *)
(***************************************************************************)

\* A script frame in flight when termination is requested or under way
\* eventually leaves the stack, however the script and the Go code nested
\* in it call each other (spec 5: "the current runScript call unwinds").
TerminationEndsRun ==
  \A n \in 1..MaxDepth :
    ((pending \/ active) /\ Len(stack) = n /\ stack[n].op = "script")
      ~> Len(stack) < n

\* Spec 4.4 and 7: every record an entry point has returned holds a value
\* or an error whose message is present, the termination sentinel standing
\* in for it when execution was terminated (RunScript, JSONParse and the
\* function calls, through ExceptionError and CopyString).
ErrorHasMessage == why.returned => rtn.value \/ rtn.error.msg # "null"

\* Spec 5: termination ends the run in flight when it was requested, and no
\* later one (IsolateTerminateExecution against a script that completes).
TerminationTargetsCurrentRun == why.terminated => why.asked

\* Spec 1 and 7: an engine failure reaches the host as an error record,
\* never as undefined behaviour in the engine: no ToChecked()/Check() on
\* Nothing in the conversion and object entry points, and no empty handle
\* passed to JSON::Parse by JSONParse.
NoEngineFault == faults = {}

=============================================================================
