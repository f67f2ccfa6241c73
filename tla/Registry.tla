------------------------------ MODULE Registry ------------------------------
(***************************************************************************)
(* The handle registry of v8go.cc: the lifetime of the value wrappers      *)
(* (struct m_value) that the host holds, of the contexts (struct m_ctx)    *)
(* that track them, and of the isolate that owns the internal context.     *)
(*                                                                         *)
(* Every entry point that returns a value to the host allocates a fresh    *)
(* m_value and appends it to the vals vector of one context with           *)
(* tracked_value; nothing ever removes a single wrapper.  ContextFree      *)
(* Resets and deletes every wrapper of a context, and IsolateDispose does  *)
(* so for the internal context.  The values themselves are abstracted to   *)
(* identities 1..MaxVals; what a value is does not change who owns it.     *)
(* Entry points are atomic here: the re-entrant callbacks and scripts are  *)
(* added by module Bridge.                                                 *)
(***************************************************************************)
EXTENDS Naturals, Sequences, Functions

CONSTANTS
  Ctx,           \* handles of user contexts, the m_ctx* NewContext returns
  Internal,      \* the isolate's internal context, iso->GetData(0)
  NullCtx,       \* nullptr as a ContextPtr and as an unset m_value::ctx
  MaxVals,       \* bound on the number of m_value wrappers allocated
  HostMay        \* the host behaviours beyond the safe discipline it may show

(***************************************************************************)
(* What the host (the Go side, not in this repository) may do beyond the   *)
(* discipline under which every entry point is safe:                       *)
(*   "refree"        call ContextFree again on a context it has freed,     *)
(*                   which spec section 8 says is a safe no-op;            *)
(*   "late_free"     call ContextFree after IsolateDispose;                *)
(* and, in module Bridge, "free_in_use", "share_native", "free_pending",   *)
(* "internal_then".                                                        *)
(***************************************************************************)
HostBehaviours == {"refree", "late_free", "free_in_use", "share_native",
                   "free_pending", "internal_then"}

ASSUME ConstAssumption ==
  /\ Internal \notin Ctx
  /\ NullCtx \notin Ctx \cup {Internal}
  /\ MaxVals \in Nat
  /\ HostMay \subseteq HostBehaviours

AllCtx == Ctx \cup {Internal}
Val == 1..MaxVals

\* Undefined behaviour the C code can commit, recorded when it happens:
\* deleting an m_ctx or an m_value twice, resetting a Persistent of a disposed
\* isolate, and (module Bridge) appending to a deleted m_ctx after a script
\* returns, a callback whose goContext lookup finds no live context, and a
\* callback in a context whose embedder data slot 1 was never set.
Faults == {"ctx_double_free", "val_double_free", "disposed_isolate",
           "ctx_use_after_free", "stale_context", "no_embedder_data"}

VARIABLES
  iso,       \* the isolate: "none" before NewIsolate, "live", "disposed"
  ctxState,  \* per context: "unused" (not allocated), "live", "freed"
  vals,      \* per context: the m_ctx::vals vector, in registration order
  valState,  \* per wrapper: "unused" (not allocated), "live", "freed"
  valCtx,    \* per wrapper: its m_value::ctx field
  nextVal,   \* the next wrapper identity `new m_value` hands out
  faults     \* the undefined behaviour committed so far

vars == <<iso, ctxState, vals, valState, valCtx, nextVal, faults>>

TypeOK ==
  /\ iso \in {"none", "live", "disposed"}
  /\ ctxState \in [AllCtx -> {"unused", "live", "freed"}]
  /\ vals \in [AllCtx -> Seq(Val)]
  /\ valState \in [Val -> {"unused", "live", "freed"}]
  /\ valCtx \in [Val -> AllCtx \cup {NullCtx}]
  /\ nextVal \in 1..(MaxVals + 1)
  /\ faults \subseteq Faults

Init ==
  /\ iso = "none"
  /\ ctxState = [c \in AllCtx |-> "unused"]
  /\ vals = [c \in AllCtx |-> <<>>]
  /\ valState = [v \in Val |-> "unused"]
  /\ valCtx = [v \in Val |-> NullCtx]
  /\ nextVal = 1
  /\ faults = {}

(***************************************************************************)
(* Helpers shared by the entry points.                                     *)
(***************************************************************************)

\* LOCAL_VALUE: a wrapper whose ctx is null resolves to the internal context.
ValueContext(v) == IF valCtx[v] = NullCtx THEN Internal ELSE valCtx[v]

\* Faulty variants of TrackNew and Release, each a slip the C code could
\* make, that the properties below must tell apart from the real ones:
\* no check of the bound, the wrapper appended to the internal context's
\* vector instead of its own, the m_ctx not deleted.
TrackNewUnbounded(c) ==
  /\ valState' = [valState EXCEPT ![nextVal] = "live"]
  /\ valCtx' = [valCtx EXCEPT ![nextVal] = c]
  /\ vals' = [vals EXCEPT ![c] = Append(@, nextVal)]
  /\ nextVal' = nextVal + 1

TrackNewWrongVector(c) ==
  /\ nextVal <= MaxVals
  /\ valState' = [valState EXCEPT ![nextVal] = "live"]
  /\ valCtx' = [valCtx EXCEPT ![nextVal] = c]
  /\ vals' = [vals EXCEPT ![Internal] = Append(@, nextVal)]
  /\ nextVal' = nextVal + 1

\* A faulty Release that never deletes the m_ctx: the context stays usable
\* while its wrappers are gone.
ReleaseKeepsContext(c) ==
  LET tracked == Range(vals[c])
      twice == ~IsInjective(vals[c]) \/ \E v \in tracked : valState[v] # "live"
  IN
  /\ ctxState' = ctxState
  /\ valState' = [v \in Val |-> IF v \in tracked THEN "freed" ELSE valState[v]]
  /\ vals' = [vals EXCEPT ![c] = <<>>]
  /\ faults' = faults \cup (IF iso = "disposed" THEN {"disposed_isolate"} ELSE {})
                      \cup (IF twice THEN {"val_double_free"} ELSE {})

\* `new m_value` with ctx = c, then tracked_value(c, val): the fresh wrapper
\* is appended to c's registry.
TrackNew(c) ==
  /\ nextVal <= MaxVals
  /\ valState' = [valState EXCEPT ![nextVal] = "live"]
  /\ valCtx' = [valCtx EXCEPT ![nextVal] = c]
  /\ vals' = [vals EXCEPT ![c] = Append(@, nextVal)]
  /\ nextVal' = nextVal + 1

\* The body of ContextFree on a context c that is still allocated: Reset its
\* Persistent (a disposed isolate's handle table if the isolate is gone),
\* Reset and delete every wrapper of vals in order (twice if it is there
\* twice, or again if something already deleted it), delete the m_ctx.
Release(c) ==
  LET tracked == Range(vals[c])
      twice == ~IsInjective(vals[c]) \/ \E v \in tracked : valState[v] # "live"
  IN
  /\ ctxState' = [ctxState EXCEPT ![c] = "freed"]
  /\ valState' = [v \in Val |-> IF v \in tracked THEN "freed" ELSE valState[v]]
  /\ vals' = [vals EXCEPT ![c] = <<>>]
  /\ faults' = faults \cup (IF iso = "disposed" THEN {"disposed_isolate"} ELSE {})
                      \cup (IF twice THEN {"val_double_free"} ELSE {})

(***************************************************************************)
(* The entry points.                                                       *)
(***************************************************************************)

\* A faulty NewIsolate that never creates the internal context.
NewIsolateNoInternal ==
  /\ iso = "none"
  /\ iso' = "live"
  /\ UNCHANGED <<ctxState, vals, valState, valCtx, nextVal, faults>>

\* NewIsolate: a new isolate with its internal context stored in slot 0.
NewIsolate ==
  /\ iso = "none"
  /\ iso' = "live"
  /\ ctxState' = [ctxState EXCEPT ![Internal] = "live"]
  /\ UNCHANGED <<vals, valState, valCtx, nextVal, faults>>

\* IsolateDispose: ContextFree of the internal context, then iso->Dispose().
\* The user contexts are left as they are.
IsolateDispose ==
  /\ iso = "live"
  /\ Release(Internal)
  /\ iso' = "disposed"
  /\ UNCHANGED <<valCtx, nextVal>>

\* NewContext: a fresh m_ctx with an empty registry.
NewContext(c) ==
  /\ iso = "live"
  /\ ctxState[c] = "unused"
  /\ ctxState' = [ctxState EXCEPT ![c] = "live"]
  /\ UNCHANGED <<iso, vals, valState, valCtx, nextVal, faults>>

\* The contexts the host may pass to ContextFree.  The code itself only
\* tests for nullptr, which returns at once and is a stuttering step.
HostMayFree(c) ==
  /\ \/ ctxState[c] = "live"
     \/ "refree" \in HostMay /\ ctxState[c] = "freed"
  /\ \/ iso = "live"
     \/ "late_free" \in HostMay /\ iso = "disposed"

\* ContextFree(c) on a non-null handle: a freed m_ctx is deleted again.
ContextFree(c) ==
  /\ HostMayFree(c)
  /\ IF ctxState[c] = "live"
       THEN Release(c)
       ELSE /\ faults' = faults \cup {"ctx_double_free"}
            /\ UNCHANGED <<ctxState, vals, valState>>
  /\ UNCHANGED <<iso, valCtx, nextVal>>

\* The constructors under ISOLATE_SCOPE_INTERNAL_CONTEXT (NewValueInteger,
\* NewValueString, NewValueError, BuiltinSymbol, ...): the wrapper belongs
\* to the internal context.  Their failure paths allocate nothing.
IsolateValue ==
  /\ iso = "live"
  /\ TrackNew(Internal)
  /\ UNCHANGED <<iso, ctxState, faults>>

\* The entry points under LOCAL_CONTEXT (RunScript of a script that calls no
\* native function, JSONParse, ContextGlobal, NewPromiseResolver) and
\* ObjectTemplateNewInstance, FunctionTemplateGetFunction: on success the
\* wrapper belongs to the context passed in.
ContextValue(c) ==
  /\ iso = "live"
  /\ ctxState[c] = "live"
  /\ TrackNew(c)
  /\ UNCHANGED <<iso, ctxState, faults>>

\* The entry points under LOCAL_VALUE that return a new wrapper (ObjectGet*,
\* ValueToObject, PromiseResolverGetPromise, PromiseResult, FunctionCall and
\* FunctionNewInstance of a function that calls no native function,
\* FunctionSourceMapUrl):
\* the wrapper belongs to the context of the wrapper operated on.
DerivedValue(v) ==
  /\ iso = "live"
  /\ valState[v] = "live"
  /\ TrackNew(ValueContext(v))
  /\ UNCHANGED <<iso, ctxState, faults>>

\* Once the isolate is disposed the process makes no further call on it.
Disposed ==
  /\ iso = "disposed"
  /\ UNCHANGED vars

Next ==
  \/ NewIsolate
  \/ IsolateDispose
  \/ \E c \in Ctx : NewContext(c) \/ ContextFree(c) \/ ContextValue(c)
  \/ IsolateValue
  \/ \E v \in Val : DerivedValue(v)
  \/ Disposed

Spec == Init /\ [][Next]_vars

(***************************************************************************)
(* Properties.                                                             *)
(***************************************************************************)

\* Every live wrapper is in the registry of the context its ctx field names,
\* exactly once, and every registry holds only such wrappers: the condition
\* under which ContextFree Resets and deletes each wrapper once and only once
\* (tracked_value, ContextFree, IsolateDispose).
RegistryExact ==
  \A c \in AllCtx :
    /\ IsInjective(vals[c])
    /\ Range(vals[c]) = {v \in Val : valState[v] = "live" /\ valCtx[v] = c}

\* A wrapper is usable exactly as long as its context lives: freeing a
\* context, or disposing the isolate for the internal one, ends every wrapper
\* created under it, whichever entry point created it.
WrapperLifetime ==
  \A v \in Val : valState[v] = "live" => ctxState[ValueContext(v)] = "live"

\* Freeing a context that was already freed is a no-op, as spec section 8
\* requires of freeSandbox: ContextFree never deletes an m_ctx twice.
FreeIdempotent == "ctx_double_free" \notin faults

\* ContextFree never touches the handle table of a disposed isolate.
NoFreeAfterDispose == "disposed_isolate" \notin faults

\* The arenas are the contexts, the handles the wrappers: ctxState,
\* valState and valCtx are the abstract state as they stand.
Abstract == INSTANCE Arena WITH Arenas <- AllCtx, Handles <- Val, NoArena <- NullCtx,
                                arena <- ctxState, handle <- valState, owner <- valCtx

\* Whatever the host does, every step of the entry points either opens a
\* context, hands out wrappers into a live context, or frees a context
\* together with exactly the wrappers whose ctx field names it (ContextFree
\* releases by walking vals, the specification by ownership), or leaves
\* every lifetime as it was.
ImplementsArena == Abstract!ArenaSpec

=============================================================================
