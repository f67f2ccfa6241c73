---------------------------- MODULE ArenaProofs ----------------------------
(***************************************************************************)
(* Proofs that Registry and Bridge implement Arena under the mapping of    *)
(* Registry!Abstract: a context is an arena, a wrapper a handle.           *)
(*                                                                         *)
(* A step of the code maps to an Arena step only because the registry is   *)
(* exact: ContextFree releases the wrappers in vals, Arena's Close those   *)
(* owned by the context, and RegistryExact says these are the same.  An    *)
(* allocation maps to Alloc because the wrappers handed out are fresh      *)
(* (FreshUnused) and their context is live.  NewIsolate maps to Open only  *)
(* because the internal context is unused until then (BeforeIsolate).      *)
(***************************************************************************)
EXTENDS BridgeProofs

\* Until NewIsolate, the internal context has not been created.
BeforeIsolate == iso = "none" => ctxState[Internal] = "unused"

-----------------------------------------------------------------------------
(* Each kind of step of the code is a step of Arena.                       *)

\* A context that comes to life opens its arena.
LEMMA OpenStep ==
  ASSUME NEW c \in AllCtx, ctxState[c] = "unused",
         ctxState' = [ctxState EXCEPT ![c] = "live"],
         UNCHANGED <<valState, valCtx>>
  PROVE  Abstract!ArenaNext
BY DEF Abstract!ArenaNext, Abstract!Open

\* `new m_value` tracked in a live context hands out one fresh handle.
LEMMA AllocStep ==
  ASSUME TypeOK, FreshUnused, NEW c \in AllCtx, ctxState[c] = "live",
         TrackNew(c), UNCHANGED ctxState
  PROVE  Abstract!ArenaNext
<1>1. nextVal \in Val /\ nextVal \in Nat
  BY DEF TrackNew, TypeOK, Val
<1>2. valState[nextVal] = "unused"
  BY <1>1 DEF FreshUnused
<1>3. /\ valState' = [h \in Val |-> IF h \in {nextVal} THEN "live" ELSE valState[h]]
      /\ valCtx' = [h \in Val |-> IF h \in {nextVal} THEN c ELSE valCtx[h]]
  BY <1>1 DEF TrackNew, TypeOK
<1>4. Abstract!Alloc({nextVal}, c)
  BY <1>2, <1>3 DEF Abstract!Alloc
<1>. QED
  BY <1>1, <1>4 DEF Abstract!ArenaNext

\* FunctionTemplateCallback hands out `this` and the arguments at once.
LEMMA TrackArgsStep ==
  ASSUME IInv, NEW d \in AllCtx, ctxState[d] = "live", NEW argc \in Nat,
         nextVal + argc <= MaxVals, TrackArgs(d, argc), UNCHANGED ctxState
  PROVE  Abstract!ArenaNext
<1> DEFINE S == Range(Fresh(nextVal, argc))
<1>1. nextVal \in Nat /\ nextVal >= 1
  BY DEF IInv, TypeOK
<1>2. S = nextVal..(nextVal + argc)
  BY <1>1, FreshProperties
<1>3. S \subseteq Val /\ S # {}
  <2>1. nextVal..(nextVal + argc) \subseteq 1..MaxVals
    BY <1>1, ConstAssumption
  <2>2. nextVal \in nextVal..(nextVal + argc)
    BY <1>1
  <2>. QED BY <1>2, <2>1, <2>2 DEF Val
<1>4. \A h \in S : valState[h] = "unused"
  BY <1>1, <1>2, <1>3 DEF IInv, FreshUnused
<1>5. /\ valState' = [h \in Val |-> IF h \in S THEN "live" ELSE valState[h]]
      /\ valCtx' = [h \in Val |-> IF h \in S THEN d ELSE valCtx[h]]
  BY DEF TrackArgs, Fresh
<1>6. Abstract!Alloc(S, d)
  BY <1>3, <1>4, <1>5 DEF Abstract!Alloc
<1>. QED
  BY <1>3, <1>6 DEF Abstract!ArenaNext

\* ContextFree of a live context closes its arena: the wrappers in vals are
\* exactly the live wrappers whose ctx field names it.
LEMMA ReleaseStep ==
  ASSUME IInv, NEW c \in AllCtx, ctxState[c] = "live", Release(c),
         UNCHANGED valCtx
  PROVE  Abstract!ArenaNext
<1>1. \A v \in Val : v \in Range(vals[c]) <=> valState[v] = "live" /\ valCtx[v] = c
  BY DEF IInv, RegistryExact
<1>2. valState' = [h \in Val |-> IF valState[h] = "live" /\ valCtx[h] = c
                                   THEN "freed" ELSE valState[h]]
  BY <1>1 DEF Release
<1>3. Abstract!Close(c)
  BY <1>2 DEF Release, Abstract!Close
<1>. QED
  BY <1>3 DEF Abstract!ArenaNext

\* Steps that keep every lifetime.
LEMMA StutterStep ==
  ASSUME UNCHANGED <<ctxState, valState, valCtx>>
  PROVE  UNCHANGED Abstract!arenaVars
BY DEF Abstract!arenaVars

-----------------------------------------------------------------------------
(* Registry.                                                               *)

\* Every step of an entry point is a step of Arena or keeps the lifetimes.
LEMMA RegistryStep ==
  ASSUME IInv, BeforeIsolate, Next
  PROVE  [Abstract!ArenaNext]_Abstract!arenaVars
<1>1. CASE NewIsolate
  BY <1>1, OpenStep DEF NewIsolate, BeforeIsolate, AllCtx
<1>2. CASE IsolateDispose
  BY <1>2, ReleaseStep DEF IsolateDispose, IInv, InternalLives, AllCtx
<1>3. ASSUME NEW c \in Ctx, NewContext(c) PROVE [Abstract!ArenaNext]_Abstract!arenaVars
  BY <1>3, OpenStep DEF NewContext, AllCtx
<1>4. ASSUME NEW c \in Ctx, ContextFree(c) PROVE [Abstract!ArenaNext]_Abstract!arenaVars
  <2>1. CASE ctxState[c] = "live"
    BY <1>4, <2>1, ReleaseStep DEF ContextFree, AllCtx
  <2>2. CASE ctxState[c] # "live"
    BY <1>4, <2>2, StutterStep DEF ContextFree
  <2>. QED BY <2>1, <2>2
<1>5. ASSUME NEW c \in Ctx, ContextValue(c) PROVE [Abstract!ArenaNext]_Abstract!arenaVars
  BY <1>5, AllocStep DEF ContextValue, IInv, AllCtx
<1>6. CASE IsolateValue
  BY <1>6, AllocStep DEF IsolateValue, IInv, InternalLives, AllCtx
<1>7. ASSUME NEW v \in Val, DerivedValue(v) PROVE [Abstract!ArenaNext]_Abstract!arenaVars
  <2>1. ValueContext(v) \in AllCtx /\ ctxState[ValueContext(v)] = "live"
    BY <1>7, ConstAssumption
       DEF DerivedValue, IInv, WrapperLifetime, OwnedByContext, ValueContext, AllCtx
  <2>. QED BY <1>7, <2>1, AllocStep DEF DerivedValue, IInv
<1>8. CASE Disposed
  BY <1>8, StutterStep DEF Disposed, vars
<1>. QED
  BY <1>1, <1>2, <1>3, <1>4, <1>5, <1>6, <1>7, <1>8 DEF Next

\* No step but NewIsolate creates the internal context while there is no
\* isolate.
LEMMA BeforeIsolateStep ==
  ASSUME IInv, BeforeIsolate, [Next]_vars
  PROVE  BeforeIsolate'
<1>1. ctxState \in [AllCtx -> {"unused", "live", "freed"}]
  BY DEF IInv, TypeOK
<1>2. CASE \E c \in Ctx : NewContext(c) \/ ContextFree(c)
  BY <1>1, <1>2, ConstAssumption DEF NewContext, ContextFree, HostMayFree, BeforeIsolate
<1>3. CASE ~\E c \in Ctx : NewContext(c) \/ ContextFree(c)
  BY <1>3 DEF Next, NewIsolate, IsolateDispose, IsolateValue, ContextValue,
              DerivedValue, Disposed, vars, BeforeIsolate
<1>. QED BY <1>2, <1>3

\* The internal context is created by NewIsolate and by nothing before it.
THEOREM RegistryBeforeIsolate == Spec => []BeforeIsolate
<1>1. Init => BeforeIsolate
  BY DEF Init, BeforeIsolate, AllCtx
<1>2. IInv /\ BeforeIsolate /\ [Next]_vars => BeforeIsolate'
  BY BeforeIsolateStep
<1>. QED
  BY <1>1, <1>2, RegistryInvariant, PTL DEF Spec

\* Whatever the host does (refree and late_free included), the entry points
\* of module Registry open, fill and free contexts as Arena allows: freeing
\* a context ends exactly the wrappers created under it (ImplementsArena).
THEOREM RegistryRefinesArena == Spec => ImplementsArena
<1>1. Init => Abstract!ArenaInit
  BY DEF Init, Abstract!ArenaInit
<1>2. IInv /\ BeforeIsolate /\ [Next]_vars => [Abstract!ArenaNext]_Abstract!arenaVars
  BY RegistryStep, StutterStep DEF vars
<1>. QED
  BY <1>1, <1>2, RegistryInvariant, RegistryBeforeIsolate, PTL
     DEF Spec, ImplementsArena, Abstract!ArenaSpec


-----------------------------------------------------------------------------
(* Bridge.                                                                 *)

\* A native callback either commits a fault and allocates nothing, or
\* hands out `this` and the arguments in the live context it found.
LEMMA EnterCallbackStep ==
  ASSUME IInv, NEW d \in AllCtx, NEW argc \in Nat, nextVal + argc <= MaxVals,
         EnterCallback(d, argc)
  PROVE  [Abstract!ArenaNext]_Abstract!arenaVars
<1>1. CASE ctxState[d] = "live" /\ stamped[d]
  BY <1>1, TrackArgsStep DEF EnterCallback
<1>2. CASE ~(ctxState[d] = "live" /\ stamped[d])
  BY <1>2, StutterStep DEF EnterCallback
<1>. QED BY <1>1, <1>2

\* Every step of the bridge is a step of Arena or keeps the lifetimes.
LEMMA BridgeStep ==
  ASSUME HInv, BeforeIsolate, BridgeNext
  PROVE  [Abstract!ArenaNext]_Abstract!arenaVars
<1>0. IInv /\ nextVal \in Nat
  BY DEF HInv, IInv, TypeOK
<1>1. CASE \/ HostNewIsolate \/ HostIsolateDispose
           \/ \E c \in Ctx, b \in BOOLEAN : BridgeNewContext(c, b)
           \/ \E c \in Ctx : BridgeContextFree(c) \/ HostContextValue(c) \/ GetFunction(c)
           \/ HostIsolateValue
           \/ \E v \in Val : HostDerivedValue(v) \/ PromiseThen(v)
           \/ Disposed /\ UNCHANGED bridgeVars
  BY <1>0, <1>1, HostStepIsNext, RegistryStep
<1>2. CASE \/ \E c \in Ctx : RunScriptBegin(c)
           \/ \E v \in Val : FunctionCallBegin(v)
           \/ \E o, f \in Val : ObjectSet(o, f)
           \/ ScriptThrow \/ CallbackReturn \/ PumpBegin \/ PumpEnd
  BY <1>2, StutterStep
     DEF RunScriptBegin, FunctionCallBegin, ObjectSet, ScriptThrow, CallbackReturn,
         PumpBegin, PumpEnd, vars
<1>3. CASE ScriptReturn
  <2>1. Top.ctx \in AllCtx
    BY <1>3, OwnedPop DEF ScriptReturn, HInv, BridgeTypeOK
  <2>2. CASE ctxState[Top.ctx] = "live"
    BY <1>0, <1>3, <2>1, <2>2, AllocStep DEF ScriptReturn, IInv
  <2>3. CASE ctxState[Top.ctx] # "live"
    BY <1>3, <2>3, StutterStep DEF ScriptReturn
  <2>. QED BY <2>2, <2>3
<1>4. ASSUME NEW d \in AllCtx, NEW argc \in 0..MaxArgs, ScriptCallsNative(d, argc)
      PROVE  [Abstract!ArenaNext]_Abstract!arenaVars
  <2>1. argc \in Nat /\ Len(queue) \in Nat
    BY BridgeAssumption, LenProperties DEF HInv, BridgeTypeOK
  <2>2. nextVal + argc <= MaxVals
    BY <1>0, <1>4, <2>1, ConstAssumption DEF ScriptCallsNative, Room
  <2>. QED BY <1>0, <1>4, <2>1, <2>2, EnterCallbackStep DEF ScriptCallsNative
<1>5. CASE PumpRunsReaction
  <2>1. /\ queue # <<>> /\ EnterCallback(Head(queue), 1)
    BY <1>5 DEF PumpRunsReaction
  <2>2. /\ Len(queue) \in Nat \ {0}
        /\ Head(queue) = queue[1]
    BY <2>1, LenProperties, EmptySeq DEF HInv, BridgeTypeOK
  <2>3. Head(queue) \in AllCtx
    BY <2>1, HeadTailProperties DEF HInv, BridgeTypeOK
  <2>4. nextVal + 1 <= MaxVals
    BY <1>0, <2>2, ConstAssumption DEF HInv, Reserved
  <2>. QED BY <1>0, <2>1, <2>3, <2>4, EnterCallbackStep
<1>. QED
  BY <1>1, <1>2, <1>3, <1>4, <1>5 DEF BridgeNext

\* Nothing in the bridge creates the internal context before NewIsolate.
THEOREM BridgeBeforeIsolate == BridgeSpec => []BeforeIsolate
<1>1. BridgeInit => BeforeIsolate
  BY DEF BridgeInit, Init, BeforeIsolate, AllCtx
<1>2. HInv /\ BeforeIsolate /\ [BridgeNext]_allVars => BeforeIsolate'
  <2> SUFFICES ASSUME HInv, BeforeIsolate, [BridgeNext]_allVars PROVE BeforeIsolate'
    OBVIOUS
  <2>1. CASE \/ HostNewIsolate \/ HostIsolateDispose
             \/ \E c \in Ctx, b \in BOOLEAN : BridgeNewContext(c, b)
             \/ \E c \in Ctx : BridgeContextFree(c) \/ HostContextValue(c) \/ GetFunction(c)
             \/ HostIsolateValue
             \/ \E v \in Val : HostDerivedValue(v) \/ PromiseThen(v)
             \/ Disposed /\ UNCHANGED bridgeVars
    <3>1. Next
      BY <2>1, HostStepIsNext
    <3>. QED BY <3>1, BeforeIsolateStep DEF HInv
  <2>2. CASE ~(\/ HostNewIsolate \/ HostIsolateDispose
               \/ \E c \in Ctx, b \in BOOLEAN : BridgeNewContext(c, b)
               \/ \E c \in Ctx : BridgeContextFree(c) \/ HostContextValue(c) \/ GetFunction(c)
               \/ HostIsolateValue
               \/ \E v \in Val : HostDerivedValue(v) \/ PromiseThen(v)
               \/ Disposed /\ UNCHANGED bridgeVars)
    <3>1. UNCHANGED <<iso, ctxState>>
      BY <2>2 DEF BridgeNext, RunScriptBegin, FunctionCallBegin, ObjectSet,
                  ScriptThrow, CallbackReturn, PumpBegin, PumpEnd, ScriptReturn,
                  ScriptCallsNative, PumpRunsReaction, EnterCallback, allVars, vars
    <3>. QED BY <3>1 DEF BeforeIsolate
  <2>. QED BY <2>1, <2>2
<1>. QED
  BY <1>1, <1>2, HostInvariant, PTL DEF BridgeSpec

\* Whatever the host does (frees in use, shared natives, lost continuations
\* included), the bridge opens, fills and frees contexts as Arena allows:
\* native callbacks, script results and continuations hand out wrappers only
\* into live contexts (a miss is a fault, not an allocation), and freeing a
\* context ends exactly the wrappers created under it (ImplementsArena).
THEOREM BridgeRefinesArena == BridgeSpec => ImplementsArena
<1>1. BridgeInit => Abstract!ArenaInit
  BY DEF BridgeInit, Init, Abstract!ArenaInit
<1>2. HInv /\ BeforeIsolate /\ [BridgeNext]_allVars
        => [Abstract!ArenaNext]_Abstract!arenaVars
  BY BridgeStep, StutterStep DEF allVars, vars
<1>. QED
  BY <1>1, <1>2, HostInvariant, BridgeBeforeIsolate, PTL
     DEF BridgeSpec, ImplementsArena, Abstract!ArenaSpec

=============================================================================
