------------------------------- MODULE Bridge -------------------------------
(***************************************************************************)
(* The callback bridge of v8go.cc on top of the handle registry: entry     *)
(* points that run script code (RunScript, FunctionCall,                   *)
(* FunctionNewInstance, IsolatePerformMicrotaskCheckpoint) stay in flight  *)
(* while the script calls native functions; each such call enters         *)
(* FunctionTemplateCallback, which recovers the m_ctx from embedder data   *)
(* slot 1 of the function's context through goContext, tracks `this` and   *)
(* the arguments there, and runs Go code that may call any entry point     *)
(* again, ContextFree included.  Native functions come from function       *)
(* templates (FunctionTemplateGetFunction, a NewContext global template)   *)
(* and from PromiseThen/PromiseThen2/PromiseCatch, whose continuations     *)
(* wait in the isolate's microtask queue until a checkpoint.               *)
(*                                                                         *)
(* All of this happens on the one thread that holds the isolate's Locker:  *)
(* the interleaving is the nesting of frames on stack.  A value's kind is  *)
(* abstracted to whether it is a native function and where it was created. *)
(***************************************************************************)
EXTENDS Registry

CONSTANTS
  MaxDepth,  \* bound on the native frames in flight at once
  MaxArgs,   \* bound on the arguments a script passes to a native function
  MaxQueue   \* bound on the continuations waiting in the microtask queue

ASSUME BridgeAssumption ==
  /\ MaxDepth \in Nat \ {0}
  /\ MaxArgs \in Nat
  /\ MaxQueue \in Nat

VARIABLES
  stack,     \* the frames in flight, innermost last
  callable,  \* per context: creation contexts of the natives its scripts reach
  native,    \* per wrapper: creation context of the native it holds, or NullCtx
  stamped,   \* per context: whether embedder data slot 1 holds its ref
  queue      \* the microtask queue: creation contexts of queued continuations

bridgeVars == <<stack, callable, native, stamped, queue>>
allVars == <<vars, bridgeVars>>

\* A frame: a script running for an entry point that will use the m_ctx ctx
\* when it returns, a FunctionTemplateCallback running Go code for context
\* ctx, or a microtask checkpoint.
Frame == [op : {"script", "callback", "pump"}, ctx : AllCtx \cup {NullCtx}]

BridgeTypeOK ==
  /\ TypeOK
  /\ stack \in Seq(Frame)
  /\ callable \in [AllCtx -> SUBSET AllCtx]
  /\ native \in [Val -> AllCtx \cup {NullCtx}]
  /\ stamped \in [AllCtx -> BOOLEAN]
  /\ queue \in Seq(AllCtx)

BridgeInit ==
  /\ Init
  /\ stack = <<>>
  /\ callable = [c \in AllCtx |-> {}]
  /\ native = [v \in Val |-> NullCtx]
  /\ stamped = [c \in AllCtx |-> FALSE]
  /\ queue = <<>>

Top == stack[Len(stack)]
Push(f) == stack' = Append(stack, f)
Pop == stack' = SubSeq(stack, 1, Len(stack) - 1)

\* Go code runs at top level or inside goFunctionCallback.
HostTurn == stack = <<>> \/ (stack # <<>> /\ Top.op = "callback")

\* An entry point running a script will use c's m_ctx when the script returns.
InUse(c) == \E i \in 1..Len(stack) : stack[i].op = "script" /\ stack[i].ctx = c

\* Room for k more wrappers, keeping two (`this` and the settled value) for
\* every queued continuation: the bound MaxVals never blocks a checkpoint.
Room(k) == nextVal + k + 2 * Len(queue) <= MaxVals + 1

\* A faulty callback that wraps the arguments but calls tracked_value on
\* `this` only.
TrackArgsThisOnly(d, argc) ==
  LET new == [i \in 1..(argc + 1) |-> nextVal + i - 1]
  IN  /\ valState' = [v \in Val |-> IF v \in Range(new) THEN "live" ELSE valState[v]]
      /\ valCtx' = [v \in Val |-> IF v \in Range(new) THEN d ELSE valCtx[v]]
      /\ vals' = [vals EXCEPT ![d] = Append(@, nextVal)]
      /\ nextVal' = nextVal + argc + 1

\* `new m_value` for `this` and each of argc arguments, tracked in d in order.
TrackArgs(d, argc) ==
  LET new == [i \in 1..(argc + 1) |-> nextVal + i - 1]
  IN  /\ valState' = [v \in Val |-> IF v \in Range(new) THEN "live" ELSE valState[v]]
      /\ valCtx' = [v \in Val |-> IF v \in Range(new) THEN d ELSE valCtx[v]]
      /\ vals' = [vals EXCEPT ![d] = @ \o new]
      /\ nextVal' = nextVal + argc + 1

\* A faulty callback that trusts whatever goContext returns and tracks the
\* arguments in it, freed or not.
EnterCallbackNoLookupCheck(d, argc) ==
  \/ /\ ~stamped[d]
     /\ faults' = faults \cup {"no_embedder_data"}
     /\ UNCHANGED <<stack, iso, ctxState, vals, valState, valCtx, nextVal>>
  \/ /\ stamped[d]
     /\ TrackArgs(d, argc)
     /\ Push([op |-> "callback", ctx |-> d])
     /\ UNCHANGED <<iso, ctxState, faults>>

\* FunctionTemplateCallback for a native created in d: read the ref from
\* slot 1 of d (never set for the internal context), look the m_ctx up with
\* goContext (gone once the host freed d), track this and the arguments in
\* it and call goFunctionCallback.
EnterCallback(d, argc) ==
  \/ /\ ~stamped[d]
     /\ faults' = faults \cup {"no_embedder_data"}
     /\ UNCHANGED <<stack, iso, ctxState, vals, valState, valCtx, nextVal>>
  \/ /\ stamped[d]
     /\ ctxState[d] # "live"
     /\ faults' = faults \cup {"stale_context"}
     /\ UNCHANGED <<stack, iso, ctxState, vals, valState, valCtx, nextVal>>
  \/ /\ stamped[d]
     /\ ctxState[d] = "live"
     /\ TrackArgs(d, argc)
     /\ Push([op |-> "callback", ctx |-> d])
     /\ UNCHANGED <<iso, ctxState, faults>>

(***************************************************************************)
(* Entry points the Go side calls.                                         *)
(***************************************************************************)

HostNewIsolate ==
  /\ stack = <<>>
  /\ NewIsolate
  /\ UNCHANGED bridgeVars

\* IsolateDispose is not called from inside a callback.
HostIsolateDispose ==
  /\ stack = <<>>
  /\ IsolateDispose
  /\ UNCHANGED bridgeVars

\* A faulty NewContext that does not store ref in embedder data slot 1.
BridgeNewContextNoRef(c, withNatives) ==
  /\ HostTurn
  /\ NewContext(c)
  /\ callable' = [callable EXCEPT ![c] = IF withNatives THEN {c} ELSE {}]
  /\ UNCHANGED <<stack, native, stamped, queue>>

\* NewContext(iso, global_template, ref): the global template may hold
\* function templates, whose natives are then created in c; ref goes into
\* embedder data slot 1.
BridgeNewContext(c, withNatives) ==
  /\ HostTurn
  /\ NewContext(c)
  /\ stamped' = [stamped EXCEPT ![c] = TRUE]
  /\ callable' = [callable EXCEPT ![c] = IF withNatives THEN {c} ELSE {}]
  /\ UNCHANGED <<stack, native, queue>>

\* ContextFree, from top level or a callback.  Freeing a context a running
\* script will come back to needs "free_in_use"; freeing one with a queued
\* continuation needs "free_pending".
BridgeContextFree(c) ==
  /\ HostTurn
  /\ ~InUse(c) \/ "free_in_use" \in HostMay
  /\ c \notin Range(queue) \/ "free_pending" \in HostMay
  /\ ContextFree(c)
  /\ UNCHANGED bridgeVars

HostIsolateValue ==
  /\ HostTurn
  /\ Room(1)
  /\ IsolateValue
  /\ UNCHANGED bridgeVars

HostContextValue(c) ==
  /\ HostTurn
  /\ Room(1)
  /\ ContextValue(c)
  /\ UNCHANGED bridgeVars

HostDerivedValue(v) ==
  /\ HostTurn
  /\ Room(1)
  /\ DerivedValue(v)
  /\ UNCHANGED bridgeVars

\* FunctionTemplateGetFunction(tmpl, c): a native created in c.
GetFunction(c) ==
  /\ HostTurn
  /\ Room(1)
  /\ ContextValue(c)
  /\ native' = [native EXCEPT ![nextVal] = c]
  /\ UNCHANGED <<stack, callable, stamped, queue>>

\* ObjectSet(o, key, f) with f a native: the scripts of o's context reach it.
\* Setting it into an object of another context needs "share_native".
ObjectSet(o, f) ==
  /\ HostTurn
  /\ iso = "live"
  /\ valState[o] = "live"
  /\ valState[f] = "live"
  /\ native[f] # NullCtx
  /\ native[f] = ValueContext(o) \/ "share_native" \in HostMay
  /\ callable' = [callable EXCEPT ![ValueContext(o)] = @ \cup {native[f]}]
  /\ UNCHANGED <<vars, stack, native, stamped, queue>>

\* PromiseThen(p, ref) (and PromiseThen2, PromiseCatch) on a settled
\* promise: Function::New(local_ctx, FunctionTemplateCallback, ref) creates
\* the continuation in p's context and queues it; the promise Then returns
\* is tracked in p's context.  A promise of the internal context needs
\* "internal_then".
PromiseThen(p) ==
  /\ HostTurn
  /\ Room(3)
  /\ Len(queue) < MaxQueue
  /\ ValueContext(p) # Internal \/ "internal_then" \in HostMay
  /\ DerivedValue(p)
  /\ queue' = Append(queue, ValueContext(p))
  /\ UNCHANGED <<stack, callable, native, stamped>>

\* RunScript(c): compiled, script->Run in flight in c.
RunScriptBegin(c) ==
  /\ HostTurn
  /\ iso = "live"
  /\ ctxState[c] = "live"
  /\ Len(stack) < MaxDepth
  /\ Push([op |-> "script", ctx |-> c])
  /\ UNCHANGED <<vars, callable, native, stamped, queue>>

\* FunctionCall(f, recv, args) and FunctionNewInstance(f, args): LOCAL_VALUE
\* takes ctx from f, then fn->Call is in flight.
FunctionCallBegin(f) ==
  /\ HostTurn
  /\ iso = "live"
  /\ valState[f] = "live"
  /\ Len(stack) < MaxDepth
  /\ Push([op |-> "script", ctx |-> ValueContext(f)])
  /\ UNCHANGED <<vars, callable, native, stamped, queue>>

\* The script throws: ExceptionError reads only Local handles.
ScriptThrow ==
  /\ stack # <<>>
  /\ Top.op = "script"
  /\ Pop
  /\ UNCHANGED <<vars, callable, native, stamped, queue>>

\* The script returns a value: tracked_value(ctx, val) with the ctx read
\* before the script ran, whether or not the host freed it meanwhile.
ScriptReturn ==
  /\ stack # <<>>
  /\ Top.op = "script"
  /\ Pop
  /\ \/ /\ ctxState[Top.ctx] = "live"
        /\ Room(1)
        /\ TrackNew(Top.ctx)
        /\ UNCHANGED <<iso, ctxState, faults>>
     \/ /\ ctxState[Top.ctx] # "live"
        /\ faults' = faults \cup {"ctx_use_after_free"}
        /\ UNCHANGED <<iso, ctxState, vals, valState, valCtx, nextVal>>
  /\ UNCHANGED <<callable, native, stamped, queue>>

\* The running script calls a native created in d with argc arguments.
ScriptCallsNative(d, argc) ==
  /\ stack # <<>>
  /\ Top.op = "script"
  /\ d \in callable[Top.ctx]
  /\ Len(stack) < MaxDepth
  /\ Room(argc + 1)
  /\ EnterCallback(d, argc)
  /\ UNCHANGED <<callable, native, stamped, queue>>

\* goFunctionCallback returns nullptr or a live wrapper, which becomes the
\* script's return value.
CallbackReturn ==
  /\ stack # <<>>
  /\ Top.op = "callback"
  /\ Pop
  /\ UNCHANGED <<vars, callable, native, stamped, queue>>

\* IsolatePerformMicrotaskCheckpoint.  Inside a running checkpoint it
\* returns at once, a stuttering step.
PumpBegin ==
  /\ HostTurn
  /\ iso = "live"
  /\ \A i \in 1..Len(stack) : stack[i].op # "pump"
  /\ Len(stack) + 2 <= MaxDepth
  /\ Push([op |-> "pump", ctx |-> NullCtx])
  /\ UNCHANGED <<vars, callable, native, stamped, queue>>

\* A faulty checkpoint that runs a continuation without dequeuing it.
PumpRunsReactionKeepsTask ==
  /\ stack # <<>>
  /\ Top.op = "pump"
  /\ queue # <<>>
  /\ EnterCallback(Head(queue), 1)
  /\ UNCHANGED <<callable, native, stamped, queue>>

\* The checkpoint runs the oldest continuation with the settled value as its
\* one argument.
PumpRunsReaction ==
  /\ stack # <<>>
  /\ Top.op = "pump"
  /\ queue # <<>>
  /\ queue' = Tail(queue)
  /\ EnterCallback(Head(queue), 1)
  /\ UNCHANGED <<callable, native, stamped>>

PumpEnd ==
  /\ stack # <<>>
  /\ Top.op = "pump"
  /\ queue = <<>>
  /\ Pop
  /\ UNCHANGED <<vars, callable, native, stamped, queue>>

BridgeNext ==
  \/ HostNewIsolate
  \/ HostIsolateDispose
  \/ \E c \in Ctx, b \in BOOLEAN : BridgeNewContext(c, b)
  \/ \E c \in Ctx : BridgeContextFree(c)
  \/ HostIsolateValue
  \/ \E c \in Ctx : HostContextValue(c) \/ GetFunction(c) \/ RunScriptBegin(c)
  \/ \E v \in Val : HostDerivedValue(v) \/ PromiseThen(v) \/ FunctionCallBegin(v)
  \/ \E o, f \in Val : ObjectSet(o, f)
  \/ ScriptThrow
  \/ ScriptReturn
  \/ \E d \in AllCtx, argc \in 0..MaxArgs : ScriptCallsNative(d, argc)
  \/ CallbackReturn
  \/ PumpBegin
  \/ PumpRunsReaction
  \/ PumpEnd
  \/ Disposed /\ UNCHANGED bridgeVars

BridgeSpec == BridgeInit /\ [][BridgeNext]_allVars

(***************************************************************************)
(* Properties.                                                             *)
(***************************************************************************)

\* Under the discipline (HostMay = {}) no entry point, native callback or
\* continuation touches a freed or missing m_ctx, m_value or isolate,
\* however the Go code nests calls inside callbacks.
NoUndefinedBehaviour == faults = {}

\* RunScript and FunctionCall append their result to a context that still
\* exists when the script returns.
ScriptResultContextLive == "ctx_use_after_free" \notin faults

\* Every native callback locates the context that invoked it (spec 4.3:
\* failing to is "a fatal implementation error" that "should not occur").
CallbackFindsSandbox == faults \cap {"stale_context", "no_embedder_data"} = {}

=============================================================================
