---------------------------- MODULE BridgeProofs ----------------------------
(***************************************************************************)
(* Proofs about module Bridge: under the discipline (HostMay = {}) no step *)
(* of the bridge commits undefined behaviour, for every number of contexts *)
(* and every bound.                                                        *)
(*                                                                         *)
(* NoUndefinedBehaviour is far from inductive.  A callback finds its       *)
(* sandbox only because every context a script frame or a queued          *)
(* continuation names is live and stamped, natives are reachable only from *)
(* their own context, and wrappers are tracked exactly (else ContextFree   *)
(* would delete one twice).  BInv collects those facts on top of IInv.     *)
(***************************************************************************)
EXTENDS Bridge, RegistryProofs

\* Every context a running script will return to is live.
ScriptFramesLive ==
  \A i \in 1..Len(stack) :
    stack[i].op = "script" => stack[i].ctx \in AllCtx /\ ctxState[stack[i].ctx] = "live"

\* The scripts of a context reach only the natives created in it, and only
\* user contexts have natives.
CallableOwn == \A c \in AllCtx : callable[c] \subseteq {c} \cap Ctx

\* Every user context NewContext has created carries its ref in slot 1.
ContextsStamped == \A c \in Ctx : ctxState[c] # "unused" => stamped[c]

\* A native function wrapper was created in a user context.
NativesOwned == \A v \in Val : native[v] # NullCtx => native[v] \in Ctx

\* Every queued continuation belongs to a live user context.
QueueLive == \A i \in 1..Len(queue) : queue[i] \in Ctx /\ ctxState[queue[i]] = "live"

\* Two wrappers stay reserved for each queued continuation.
Reserved == nextVal + 2 * Len(queue) <= MaxVals + 1

BInv ==
  /\ BridgeTypeOK
  /\ IInv
  /\ NoUndefinedBehaviour
  /\ ScriptFramesLive
  /\ CallableOwn
  /\ ContextsStamped
  /\ NativesOwned
  /\ QueueLive
  /\ Reserved

-----------------------------------------------------------------------------
(* Lemmas about the sequence operators of the call stack, the microtask    *)
(* queue and the registry.                                                 *)

LEMMA ConcatKeepsInjective ==
  ASSUME NEW S, NEW s \in Seq(S), NEW t \in Seq(S),
         IsInjective(s), IsInjective(t), Range(s) \cap Range(t) = {}
  PROVE  IsInjective(s \o t)
<1>1. /\ s \o t \in Seq(S)
      /\ Len(s \o t) = Len(s) + Len(t)
      /\ \A i \in 1..(Len(s) + Len(t)) :
           (s \o t)[i] = IF i <= Len(s) THEN s[i] ELSE t[i - Len(s)]
  BY ConcatProperties
<1>2. /\ DOMAIN (s \o t) = 1..(Len(s) + Len(t))
      /\ DOMAIN s = 1..Len(s)
      /\ DOMAIN t = 1..Len(t)
      /\ Len(s) \in Nat /\ Len(t) \in Nat
  BY <1>1, LenProperties
<1> SUFFICES ASSUME NEW a \in 1..(Len(s) + Len(t)), NEW b \in 1..(Len(s) + Len(t)),
                    (s \o t)[a] = (s \o t)[b]
             PROVE  a = b
  BY <1>2 DEF IsInjective
<1>1a. CASE a <= Len(s) /\ b <= Len(s)
  BY <1>1, <1>1a, <1>2 DEF IsInjective
<1>1b. CASE a > Len(s) /\ b > Len(s)
  <2>1. t[a - Len(s)] = t[b - Len(s)] /\ a - Len(s) \in DOMAIN t /\ b - Len(s) \in DOMAIN t
    BY <1>1, <1>1b, <1>2
  <2>. QED BY <2>1, <1>2 DEF IsInjective
<1>1c. CASE a <= Len(s) /\ b > Len(s)
  <2>1. s[a] \in Range(s) /\ t[b - Len(s)] \in Range(t) /\ s[a] = t[b - Len(s)]
    BY <1>1, <1>1c, <1>2 DEF Range
  <2>. QED BY <2>1
<1>1d. CASE a > Len(s) /\ b <= Len(s)
  <2>1. s[b] \in Range(s) /\ t[a - Len(s)] \in Range(t) /\ s[b] = t[a - Len(s)]
    BY <1>1, <1>1d, <1>2 DEF Range
  <2>. QED BY <2>1
<1>. QED
  BY <1>1a, <1>1b, <1>1c, <1>1d, <1>2

\* The wrappers a callback allocates, `this` first, as a sequence.
Fresh(n, k) == [i \in 1..(k + 1) |-> n + i - 1]

LEMMA FreshProperties ==
  ASSUME NEW n \in Nat, NEW k \in Nat, n + k <= MaxVals, n >= 1
  PROVE  /\ Fresh(n, k) \in Seq(Val)
         /\ Range(Fresh(n, k)) = n..(n + k)
         /\ IsInjective(Fresh(n, k))
<1>1. Fresh(n, k) \in [1..(k + 1) -> Val]
  BY ConstAssumption DEF Fresh, Val
<1>2. Fresh(n, k) \in Seq(Val)
  BY <1>1
<1>3. Range(Fresh(n, k)) = n..(n + k)
  <2>1. \A i \in 1..(k + 1) : Fresh(n, k)[i] \in n..(n + k)
    BY DEF Fresh
  <2>2. \A x \in n..(n + k) : x - n + 1 \in 1..(k + 1) /\ Fresh(n, k)[x - n + 1] = x
    BY DEF Fresh
  <2>. QED BY <2>1, <2>2 DEF Range, Fresh
<1>4. IsInjective(Fresh(n, k))
  BY DEF Fresh, IsInjective
<1>. QED
  BY <1>2, <1>3, <1>4

\* Popping the innermost frame keeps the outer ones in place.
LEMMA PopProperties ==
  ASSUME NEW S, NEW s \in Seq(S), s # <<>>
  PROVE  /\ SubSeq(s, 1, Len(s) - 1) \in Seq(S)
         /\ Len(SubSeq(s, 1, Len(s) - 1)) = Len(s) - 1
         /\ \A i \in 1..(Len(s) - 1) : SubSeq(s, 1, Len(s) - 1)[i] = s[i]
<1>1. Len(s) \in Nat \ {0} /\ DOMAIN s = 1..Len(s)
  BY LenProperties, EmptySeq
<1>. QED
  BY <1>1, SubSeqProperties

\* Pushing a frame keeps the others in place.
LEMMA PushProperties ==
  ASSUME NEW S, NEW s \in Seq(S), NEW x \in S
  PROVE  /\ Append(s, x) \in Seq(S)
         /\ Len(Append(s, x)) = Len(s) + 1
         /\ \A i \in 1..Len(s) : Append(s, x)[i] = s[i]
         /\ Append(s, x)[Len(s) + 1] = x
BY AppendProperties

-----------------------------------------------------------------------------
(* The registry invariant across a callback's allocations.                 *)

\* FunctionTemplateCallback tracks `this` and argc arguments, all fresh, in
\* a live context d: IInv is kept.
LEMMA TrackArgsPreserves ==
  ASSUME IInv, NEW d \in AllCtx, ctxState[d] = "live", NEW argc \in Nat,
         nextVal + argc <= MaxVals, TrackArgs(d, argc),
         UNCHANGED <<iso, ctxState, faults>>
  PROVE  IInv'
<1> USE DEF IInv
<1> DEFINE new == Fresh(nextVal, argc)
<1>1. nextVal \in Nat /\ nextVal >= 1
  BY DEF TypeOK
<1>2. /\ new \in Seq(Val)
      /\ Range(new) = nextVal..(nextVal + argc)
      /\ IsInjective(new)
  BY <1>1, FreshProperties
<1>3. \A v \in Range(new) : valState[v] = "unused"
  <2> SUFFICES ASSUME NEW v \in Range(new) PROVE valState[v] = "unused"
    OBVIOUS
  <2>1. v \in nextVal..(nextVal + argc)
    BY <1>2
  <2>2. v \in Val /\ v >= nextVal
    BY <1>1, <2>1, ConstAssumption DEF Val
  <2>. QED BY <2>2 DEF FreshUnused
<1>4. \A c \in AllCtx : Range(vals[c]) \cap Range(new) = {}
  BY <1>3 DEF RegistryExact
<1>5. /\ valState' = [v \in Val |-> IF v \in Range(new) THEN "live" ELSE valState[v]]
      /\ valCtx' = [v \in Val |-> IF v \in Range(new) THEN d ELSE valCtx[v]]
      /\ vals' = [vals EXCEPT ![d] = vals[d] \o new]
      /\ nextVal' = nextVal + argc + 1
  BY DEF TrackArgs, Fresh
<1>6. vals[d] \o new \in Seq(Val)
  BY <1>2, ConcatProperties DEF TypeOK
<1>7. TypeOK'
  <2>1. valState' \in [Val -> {"unused", "live", "freed"}]
    BY <1>5 DEF TypeOK
  <2>2. valCtx' \in [Val -> AllCtx \cup {NullCtx}]
    BY <1>5 DEF TypeOK
  <2>3. vals' \in [AllCtx -> Seq(Val)]
    BY <1>5, <1>6 DEF TypeOK
  <2>4. nextVal' \in 1..(MaxVals + 1)
    BY <1>1, <1>5, ConstAssumption
  <2>. QED BY <2>1, <2>2, <2>3, <2>4 DEF TypeOK
<1>8. RegistryExact'
  <2> SUFFICES ASSUME NEW c \in AllCtx
               PROVE  /\ IsInjective(vals'[c])
                      /\ Range(vals'[c]) = {v \in Val : valState'[v] = "live" /\ valCtx'[v] = c}
    BY DEF RegistryExact
  <2>1. CASE c = d
    <3>1. vals'[c] = vals[d] \o new
      BY <1>5, <2>1 DEF TypeOK
    <3>2. IsInjective(vals[d] \o new)
      <4>1. /\ vals[d] \in Seq(Val)
            /\ IsInjective(vals[d])
            /\ Range(vals[d]) \cap Range(new) = {}
        BY <1>4 DEF TypeOK, RegistryExact
      <4>. QED BY <1>2, <4>1, ConcatKeepsInjective
    <3>3. Range(vals'[c]) = Range(vals[d]) \cup Range(new)
      BY <1>2, <3>1, RangeConcatenation DEF TypeOK
    <3>4. Range(new) \subseteq Val
      BY <1>2, RangeOfSeq
    <3>. QED
      BY <1>3, <1>5, <2>1, <3>1, <3>2, <3>3, <3>4 DEF RegistryExact
  <2>2. CASE c # d
    <3>1. vals'[c] = vals[c]
      BY <1>5, <2>2 DEF TypeOK
    <3>. QED
      BY <1>3, <1>5, <2>2, <3>1 DEF RegistryExact, TypeOK
  <2>. QED BY <2>1, <2>2
<1>9. WrapperLifetime'
  BY <1>3, <1>5, ConstAssumption DEF WrapperLifetime, ValueContext, AllCtx, TypeOK
<1>10. FreshUnused'
  BY <1>1, <1>2, <1>5 DEF FreshUnused, Val
<1>11. OwnedByContext'
  BY <1>5 DEF OwnedByContext
<1>12. InternalLives'
  BY DEF InternalLives
<1>. QED BY <1>7, <1>8, <1>9, <1>10, <1>11, <1>12

-----------------------------------------------------------------------------
(* Lemmas shared by the steps of the bridge.                               *)

\* A step that keeps the contexts, the frames, the natives and the queue,
\* keeps IInv, commits no fault and keeps the reserve keeps BInv.
LEMMA StableBridge ==
  ASSUME BInv, IInv', faults' = {}, Reserved',
         UNCHANGED <<ctxState, stack, callable, stamped, native, queue>>
  PROVE  BInv'
<1>1. BridgeTypeOK'
  BY DEF BInv, BridgeTypeOK, IInv
<1>2. NoUndefinedBehaviour'
  BY DEF NoUndefinedBehaviour
<1>. QED
  BY <1>1, <1>2 DEF BInv, ScriptFramesLive, CallableOwn, ContextsStamped,
                    NativesOwned, QueueLive

\* Release on a live isolate and an exact registry deletes nothing twice.
LEMMA ReleaseNoFault ==
  ASSUME IInv, iso = "live", NEW c \in AllCtx, Release(c), faults = {}
  PROVE  faults' = {}
<1>1. IsInjective(vals[c])
  BY DEF IInv, RegistryExact
<1>2. \A v \in Range(vals[c]) : valState[v] = "live"
  BY DEF IInv, RegistryExact
<1>. QED
  BY <1>1, <1>2 DEF Release

\* Pushing a frame whose script context, if any, is live.
LEMMA PushFrame ==
  ASSUME stack \in Seq(Frame), ScriptFramesLive, NEW f \in Frame,
         f.op = "script" => f.ctx \in AllCtx /\ ctxState[f.ctx] = "live",
         Push(f), UNCHANGED ctxState
  PROVE  stack' \in Seq(Frame) /\ ScriptFramesLive'
<1>1. /\ stack' \in Seq(Frame)
      /\ Len(stack') = Len(stack) + 1
      /\ \A i \in 1..Len(stack) : stack'[i] = stack[i]
      /\ stack'[Len(stack) + 1] = f
  BY PushProperties DEF Push
<1>2. Len(stack) \in Nat
  BY LenProperties
<1>. QED
  BY <1>1, <1>2 DEF ScriptFramesLive

\* Popping the innermost frame.
LEMMA PopFrame ==
  ASSUME stack \in Seq(Frame), stack # <<>>, ScriptFramesLive, Pop,
         UNCHANGED ctxState
  PROVE  stack' \in Seq(Frame) /\ ScriptFramesLive'
<1>1. /\ stack' \in Seq(Frame)
      /\ Len(stack') = Len(stack) - 1
      /\ \A i \in 1..(Len(stack) - 1) : stack'[i] = stack[i]
  BY PopProperties DEF Pop
<1>2. Len(stack) \in Nat
  BY LenProperties
<1>. QED
  BY <1>1, <1>2 DEF ScriptFramesLive

-----------------------------------------------------------------------------
(* The bridge invariant.                                                   *)

LEMMA BridgeInitInv == BridgeInit => BInv
<1> SUFFICES ASSUME BridgeInit PROVE BInv
  OBVIOUS
<1>1. IInv
  <2>1. TypeOK
    BY InitTypeOK DEF BridgeInit
  <2>. QED
    BY <2>1, EmptyRegistry
       DEF BridgeInit, Init, IInv, RegistryExact, WrapperLifetime, FreshUnused,
           OwnedByContext, InternalLives, Val, AllCtx
<1>2. <<>> \in Seq(Frame) /\ <<>> \in Seq(AllCtx)
  BY EmptySeq
<1>3. BridgeTypeOK
  BY <1>1, <1>2 DEF BridgeInit, BridgeTypeOK, IInv
<1>4. Len(stack) = 0 /\ Len(queue) = 0 /\ nextVal = 1
  BY EmptySeq DEF BridgeInit, Init
<1>5. Reserved
  BY <1>4, ConstAssumption DEF Reserved
<1>6. ScriptFramesLive /\ QueueLive
  BY <1>4 DEF ScriptFramesLive, QueueLive
<1>. QED
  BY <1>1, <1>3, <1>5, <1>6
     DEF BridgeInit, Init, BInv, NoUndefinedBehaviour, CallableOwn,
         ContextsStamped, NativesOwned, AllCtx

\* NewIsolate: only the internal context comes to life.
LEMMA NewIsolateInv ==
  ASSUME BInv, HostNewIsolate
  PROVE  BInv'
<1>1. IInv'
  BY DEF HostNewIsolate, NewIsolate, BInv, IInv, TypeOK, RegistryExact,
         WrapperLifetime, FreshUnused, OwnedByContext, InternalLives, AllCtx,
         ValueContext
<1>2. /\ ctxState' = [ctxState EXCEPT ![Internal] = "live"]
      /\ UNCHANGED <<faults, nextVal, stack, callable, stamped, native, queue>>
  BY DEF HostNewIsolate, NewIsolate, bridgeVars
<1>3. BridgeTypeOK'
  BY <1>1, <1>2 DEF BInv, BridgeTypeOK, IInv
<1>4. \A c \in Ctx : ctxState'[c] = ctxState[c]
  BY <1>2, ConstAssumption DEF BInv, BridgeTypeOK, TypeOK, AllCtx
<1>5. ScriptFramesLive'
  BY <1>2 DEF BInv, ScriptFramesLive, BridgeTypeOK, TypeOK
<1>. QED
  BY <1>1, <1>2, <1>3, <1>4, <1>5
     DEF BInv, NoUndefinedBehaviour, CallableOwn, ContextsStamped, NativesOwned,
         QueueLive, Reserved

\* IsolateDispose: the call stack is empty and no queued continuation
\* belongs to the internal context.
LEMMA IsolateDisposeInv ==
  ASSUME BInv, HostIsolateDispose
  PROVE  BInv'
<1>1. ctxState[Internal] = "live" /\ iso = "live"
  BY DEF HostIsolateDispose, IsolateDispose, BInv, IInv, InternalLives
<1>2. IInv'
  BY <1>1, ReleasePreserves DEF HostIsolateDispose, IsolateDispose, BInv, AllCtx
<1>3. faults' = {}
  BY <1>1, ReleaseNoFault DEF HostIsolateDispose, IsolateDispose, BInv,
                              NoUndefinedBehaviour, AllCtx
<1>4. /\ \A c \in Ctx : ctxState'[c] = ctxState[c]
      /\ UNCHANGED <<nextVal, stack, callable, stamped, native, queue>>
      /\ stack = <<>>
  BY ConstAssumption DEF HostIsolateDispose, IsolateDispose, Release, bridgeVars,
                         BInv, BridgeTypeOK, TypeOK
<1>5. BridgeTypeOK'
  BY <1>2, <1>4 DEF BInv, BridgeTypeOK, IInv
<1>6. ScriptFramesLive'
  BY <1>4 DEF ScriptFramesLive
<1>. QED
  BY <1>2, <1>3, <1>4, <1>5, <1>6
     DEF BInv, NoUndefinedBehaviour, CallableOwn, ContextsStamped, NativesOwned,
         QueueLive, Reserved

\* NewContext: a fresh user context, stamped, whose natives are its own.
LEMMA NewContextInv ==
  ASSUME BInv, NEW c \in Ctx, NEW b \in BOOLEAN, BridgeNewContext(c, b)
  PROVE  BInv'
<1>1. IInv'
  BY DEF BridgeNewContext, NewContext, BInv, IInv, TypeOK, RegistryExact,
         WrapperLifetime, FreshUnused, OwnedByContext, InternalLives, AllCtx,
         ValueContext
<1>2. /\ ctxState' = [ctxState EXCEPT ![c] = "live"]
      /\ stamped' = [stamped EXCEPT ![c] = TRUE]
      /\ callable' = [callable EXCEPT ![c] = IF b THEN {c} ELSE {}]
      /\ UNCHANGED <<faults, nextVal, stack, native, queue>>
  BY DEF BridgeNewContext, NewContext
<1>3. BridgeTypeOK'
  BY <1>1, <1>2 DEF BInv, BridgeTypeOK, IInv, AllCtx
<1>4. ScriptFramesLive'
  BY <1>2 DEF BInv, ScriptFramesLive, BridgeTypeOK, TypeOK
<1>5. CallableOwn'
  BY <1>2 DEF BInv, CallableOwn, BridgeTypeOK, AllCtx
<1>6. ContextsStamped'
  BY <1>2 DEF BInv, ContextsStamped, BridgeTypeOK, TypeOK, AllCtx
<1>7. QueueLive'
  BY <1>2 DEF BInv, QueueLive, BridgeTypeOK, TypeOK, AllCtx
<1>. QED
  BY <1>1, <1>2, <1>3, <1>4, <1>5, <1>6, <1>7
     DEF BInv, NoUndefinedBehaviour, NativesOwned, Reserved

\* ContextFree under the discipline: a live context no running script and
\* no queued continuation will come back to.
LEMMA ContextFreeInv ==
  ASSUME HostMay = {}, BInv, NEW c \in Ctx, BridgeContextFree(c)
  PROVE  BInv'
<1>1. ctxState[c] = "live" /\ iso = "live" /\ c # Internal
  BY ConstAssumption DEF BridgeContextFree, ContextFree, HostMayFree
<1>2. /\ Release(c)
      /\ UNCHANGED <<iso, valCtx, nextVal, stack, callable, stamped, native, queue>>
  BY <1>1 DEF BridgeContextFree, ContextFree, bridgeVars
<1>3. IInv'
  BY <1>1, <1>2, ReleasePreserves DEF BInv, AllCtx
<1>4. faults' = {}
  BY <1>1, <1>2, ReleaseNoFault DEF BInv, NoUndefinedBehaviour, AllCtx
<1>5. ctxState' = [ctxState EXCEPT ![c] = "freed"]
  BY <1>2 DEF Release
<1>6. ScriptFramesLive'
  <2>1. \A i \in 1..Len(stack) : stack[i].op = "script" => stack[i].ctx # c
    BY DEF BridgeContextFree, InUse
  <2>. QED
    BY <1>2, <1>5, <2>1 DEF BInv, ScriptFramesLive, BridgeTypeOK, TypeOK
<1>7. QueueLive'
  <2>1. DOMAIN queue = 1..Len(queue)
    BY LenProperties DEF BInv, BridgeTypeOK
  <2>2. \A i \in 1..Len(queue) : queue[i] # c
    BY <2>1 DEF BridgeContextFree, Range
  <2>. QED
    BY <1>2, <1>5, <2>2 DEF BInv, QueueLive, BridgeTypeOK, TypeOK, AllCtx
<1>8. ContextsStamped'
  BY <1>1, <1>2, <1>5 DEF BInv, ContextsStamped, BridgeTypeOK, TypeOK, AllCtx
<1>9. BridgeTypeOK'
  BY <1>2, <1>3 DEF BInv, BridgeTypeOK, IInv
<1>. QED
  BY <1>2, <1>3, <1>4, <1>6, <1>7, <1>8, <1>9
     DEF BInv, NoUndefinedBehaviour, CallableOwn, NativesOwned, Reserved

\* An entry point that allocates one wrapper in a live context, leaving the
\* frames, the callables and the queue alone.
LEMMA AllocInv ==
  ASSUME BInv, NEW c \in AllCtx, ctxState[c] = "live", TrackNew(c),
         UNCHANGED <<iso, ctxState, faults>>, Room(1),
         UNCHANGED <<stack, callable, stamped, queue>>,
         native' \in [Val -> AllCtx \cup {NullCtx}], NativesOwned'
  PROVE  BInv'
<1>1. IInv'
  BY TrackNewPreserves DEF BInv
<1>2. Reserved'
  BY DEF Room, Reserved, TrackNew
<1>3. BridgeTypeOK'
  BY <1>1 DEF BInv, BridgeTypeOK, IInv
<1>. QED
  BY <1>1, <1>2, <1>3
     DEF BInv, NoUndefinedBehaviour, ScriptFramesLive, CallableOwn,
         ContextsStamped, QueueLive

\* The context a live wrapper resolves to under LOCAL_VALUE is live.
LEMMA LiveValueContext ==
  ASSUME IInv, NEW v \in Val, valState[v] = "live"
  PROVE  /\ ValueContext(v) = valCtx[v]
         /\ valCtx[v] \in AllCtx
         /\ ctxState[valCtx[v]] = "live"
<1>1. valCtx[v] \in AllCtx
  BY DEF IInv, OwnedByContext
<1>2. ValueContext(v) = valCtx[v]
  BY <1>1, ConstAssumption DEF ValueContext, AllCtx
<1>. QED
  BY <1>1, <1>2 DEF IInv, WrapperLifetime

\* The plain allocations: constructors, LOCAL_CONTEXT and LOCAL_VALUE.
LEMMA HostAllocInv ==
  ASSUME BInv,
         \/ HostIsolateValue
         \/ \E c \in Ctx : HostContextValue(c)
         \/ \E v \in Val : HostDerivedValue(v)
  PROVE  BInv'
<1>1. CASE HostIsolateValue
  <2>1. ctxState[Internal] = "live"
    BY <1>1 DEF HostIsolateValue, IsolateValue, BInv, IInv, InternalLives
  <2>. QED
    BY <1>1, <2>1, AllocInv DEF HostIsolateValue, IsolateValue, bridgeVars,
                                BInv, BridgeTypeOK, NativesOwned, AllCtx
<1>2. ASSUME NEW c \in Ctx, HostContextValue(c) PROVE BInv'
  BY <1>2, AllocInv DEF HostContextValue, ContextValue, bridgeVars,
                        BInv, BridgeTypeOK, NativesOwned, AllCtx
<1>3. ASSUME NEW v \in Val, HostDerivedValue(v) PROVE BInv'
  <2>1. ValueContext(v) \in AllCtx /\ ctxState[ValueContext(v)] = "live"
    BY <1>3, LiveValueContext DEF HostDerivedValue, DerivedValue, BInv
  <2>. QED
    BY <1>3, <2>1, AllocInv DEF HostDerivedValue, DerivedValue, bridgeVars,
                                BInv, BridgeTypeOK, NativesOwned
<1>. QED BY <1>1, <1>2, <1>3

\* FunctionTemplateGetFunction: a native of a live user context.
LEMMA GetFunctionInv ==
  ASSUME BInv, NEW c \in Ctx, GetFunction(c)
  PROVE  BInv'
<1>1. native' = [native EXCEPT ![nextVal] = c]
  BY DEF GetFunction
<1>2. native' \in [Val -> AllCtx \cup {NullCtx}] /\ NativesOwned'
  BY <1>1 DEF BInv, BridgeTypeOK, NativesOwned, AllCtx
<1>. QED
  BY <1>2, AllocInv DEF GetFunction, ContextValue, AllCtx

\* PromiseThen under the discipline: the continuation belongs to the live
\* user context of the promise wrapper.
LEMMA PromiseThenInv ==
  ASSUME HostMay = {}, BInv, NEW p \in Val, PromiseThen(p)
  PROVE  BInv'
<1> DEFINE c == ValueContext(p)
<1>1. c = valCtx[p] /\ c \in AllCtx /\ ctxState[c] = "live"
  BY LiveValueContext DEF PromiseThen, DerivedValue, BInv
<1>2. c \in Ctx
  BY <1>1 DEF PromiseThen, AllCtx
<1>3. /\ TrackNew(c)
      /\ UNCHANGED <<iso, ctxState, faults, stack, callable, native, stamped>>
      /\ queue' = Append(queue, c)
  BY DEF PromiseThen, DerivedValue
<1>4. IInv'
  BY <1>1, <1>3, TrackNewPreserves DEF BInv
<1>5. /\ queue' \in Seq(AllCtx)
      /\ Len(queue') = Len(queue) + 1
      /\ \A i \in 1..Len(queue) : queue'[i] = queue[i]
      /\ queue'[Len(queue) + 1] = c
  BY <1>1, <1>3, PushProperties DEF BInv, BridgeTypeOK
<1>6. Len(queue) \in Nat
  BY LenProperties DEF BInv, BridgeTypeOK
<1>7. QueueLive'
  BY <1>1, <1>2, <1>3, <1>5, <1>6 DEF BInv, QueueLive
<1>8. Reserved'
  <2>1. nextVal \in Nat /\ nextVal' = nextVal + 1
    BY <1>3 DEF TrackNew, BInv, IInv, TypeOK
  <2>2. nextVal + 3 + 2 * Len(queue) <= MaxVals + 1
    BY DEF PromiseThen, Room
  <2>. QED BY <1>5, <1>6, <2>1, <2>2 DEF Reserved
<1>9. BridgeTypeOK'
  BY <1>3, <1>4, <1>5 DEF BInv, BridgeTypeOK, IInv
<1>. QED
  BY <1>3, <1>4, <1>7, <1>8, <1>9
     DEF BInv, NoUndefinedBehaviour, ScriptFramesLive, CallableOwn,
         ContextsStamped, NativesOwned

\* ObjectSet under the discipline: a native becomes callable only from the
\* context it was created in.
LEMMA ObjectSetInv ==
  ASSUME HostMay = {}, BInv, NEW o \in Val, NEW f \in Val, ObjectSet(o, f)
  PROVE  BInv'
<1>1. native[f] \in Ctx /\ native[f] = ValueContext(o)
  BY DEF ObjectSet, BInv, NativesOwned
<1>2. callable' = [callable EXCEPT ![native[f]] = @ \cup {native[f]}]
  BY <1>1 DEF ObjectSet
<1>3. CallableOwn'
  BY <1>1, <1>2 DEF BInv, CallableOwn, BridgeTypeOK, AllCtx
<1>4. BridgeTypeOK'
  <2>1. TypeOK' /\ UNCHANGED <<stack, native, stamped, queue>>
    BY DEF ObjectSet, vars, BInv, BridgeTypeOK, TypeOK
  <2>2. callable' \in [AllCtx -> SUBSET AllCtx]
    BY <1>1, <1>2 DEF BInv, BridgeTypeOK, AllCtx
  <2>. QED BY <2>1, <2>2 DEF BInv, BridgeTypeOK
<1>. QED
  BY <1>3, <1>4
     DEF ObjectSet, vars, BInv, IInv, TypeOK, RegistryExact, WrapperLifetime,
         FreshUnused, OwnedByContext, InternalLives, ValueContext,
         NoUndefinedBehaviour, ScriptFramesLive, ContextsStamped, NativesOwned,
         QueueLive, Reserved

\* A step that only pushes or pops a frame.
LEMMA StackOnlyInv ==
  ASSUME BInv, UNCHANGED <<vars, callable, native, stamped, queue>>,
         stack' \in Seq(Frame), ScriptFramesLive'
  PROVE  BInv'
BY DEF vars, BInv, BridgeTypeOK, IInv, TypeOK, RegistryExact, WrapperLifetime,
       FreshUnused, OwnedByContext, InternalLives, ValueContext,
       NoUndefinedBehaviour, CallableOwn, ContextsStamped, NativesOwned,
       QueueLive, Reserved

\* The innermost frame of a non-empty stack, and what ScriptFramesLive says
\* of it.
LEMMA TopFrame ==
  ASSUME stack \in Seq(Frame), stack # <<>>, ScriptFramesLive
  PROVE  /\ Top \in Frame
         /\ Top.op = "script" => Top.ctx \in AllCtx /\ ctxState[Top.ctx] = "live"
<1>1. Len(stack) \in Nat \ {0} /\ Len(stack) \in 1..Len(stack)
  BY LenProperties, EmptySeq
<1>. QED
  BY <1>1 DEF Top, ScriptFramesLive

\* RunScript and FunctionCall start a script in a live context.
LEMMA ScriptBeginInv ==
  ASSUME BInv,
         \/ \E c \in Ctx : RunScriptBegin(c)
         \/ \E f \in Val : FunctionCallBegin(f)
  PROVE  BInv'
<1>1. ASSUME NEW c \in Ctx, RunScriptBegin(c) PROVE BInv'
  <2>1. [op |-> "script", ctx |-> c] \in Frame
    BY DEF Frame, AllCtx
  <2>2. stack' \in Seq(Frame) /\ ScriptFramesLive'
    BY <1>1, <2>1, PushFrame DEF RunScriptBegin, BInv, BridgeTypeOK, vars, AllCtx
  <2>. QED BY <1>1, <2>2, StackOnlyInv DEF RunScriptBegin
<1>2. ASSUME NEW f \in Val, FunctionCallBegin(f) PROVE BInv'
  <2>1. ValueContext(f) \in AllCtx /\ ctxState[ValueContext(f)] = "live"
    BY <1>2, LiveValueContext DEF FunctionCallBegin, BInv
  <2>2. [op |-> "script", ctx |-> ValueContext(f)] \in Frame
    BY <2>1 DEF Frame
  <2>3. stack' \in Seq(Frame) /\ ScriptFramesLive'
    BY <1>2, <2>1, <2>2, PushFrame DEF FunctionCallBegin, BInv, BridgeTypeOK, vars
  <2>. QED BY <1>2, <2>3, StackOnlyInv DEF FunctionCallBegin
<1>. QED BY <1>1, <1>2

\* The frames that end without allocating, and a checkpoint starting.
LEMMA FrameOnlyInv ==
  ASSUME BInv, ScriptThrow \/ CallbackReturn \/ PumpBegin \/ PumpEnd
  PROVE  BInv'
<1>1. CASE ScriptThrow \/ CallbackReturn \/ PumpEnd
  <2>1. stack # <<>> /\ Pop /\ UNCHANGED <<vars, callable, native, stamped, queue>>
    BY <1>1 DEF ScriptThrow, CallbackReturn, PumpEnd
  <2>2. stack' \in Seq(Frame) /\ ScriptFramesLive'
    BY <2>1, PopFrame DEF BInv, BridgeTypeOK, vars
  <2>. QED BY <2>1, <2>2, StackOnlyInv
<1>2. CASE PumpBegin
  <2>1. [op |-> "pump", ctx |-> NullCtx] \in Frame
    BY DEF Frame
  <2>2. stack' \in Seq(Frame) /\ ScriptFramesLive'
    BY <1>2, <2>1, PushFrame DEF PumpBegin, BInv, BridgeTypeOK, vars
  <2>. QED BY <1>2, <2>2, StackOnlyInv DEF PumpBegin
<1>. QED BY <1>1, <1>2

\* A script returns to its live context and tracks its result there.
LEMMA ScriptReturnInv ==
  ASSUME BInv, ScriptReturn
  PROVE  BInv'
<1>1. /\ stack # <<>> /\ Top.op = "script" /\ Pop
      /\ UNCHANGED <<callable, native, stamped, queue>>
  BY DEF ScriptReturn
<1>2. Top.ctx \in AllCtx /\ ctxState[Top.ctx] = "live"
  BY <1>1, TopFrame DEF BInv, BridgeTypeOK
<1>3. Room(1) /\ TrackNew(Top.ctx) /\ UNCHANGED <<iso, ctxState, faults>>
  BY <1>2 DEF ScriptReturn
<1>4. IInv'
  BY <1>2, <1>3, TrackNewPreserves DEF BInv
<1>5. stack' \in Seq(Frame) /\ ScriptFramesLive'
  BY <1>1, <1>3, PopFrame DEF BInv, BridgeTypeOK
<1>6. Reserved'
  BY <1>1, <1>3 DEF Room, Reserved, TrackNew
<1>7. BridgeTypeOK'
  BY <1>1, <1>4, <1>5 DEF BInv, BridgeTypeOK, IInv
<1>. QED
  BY <1>1, <1>3, <1>4, <1>5, <1>6, <1>7
     DEF BInv, NoUndefinedBehaviour, CallableOwn, ContextsStamped, NativesOwned,
         QueueLive

\* FunctionTemplateCallback for a native of a live user context: the ref in
\* slot 1 is there, goContext finds the context, `this` and the arguments
\* are tracked in it.
LEMMA EnterCallbackInv ==
  ASSUME BInv, NEW d \in Ctx, ctxState[d] = "live", NEW argc \in Nat,
         nextVal + argc <= MaxVals, EnterCallback(d, argc)
  PROVE  /\ IInv'
         /\ faults' = {}
         /\ UNCHANGED ctxState
         /\ nextVal' = nextVal + argc + 1
         /\ stack' \in Seq(Frame)
         /\ ScriptFramesLive'
<1>1. stamped[d]
  BY DEF BInv, ContextsStamped
<1>2. /\ TrackArgs(d, argc)
      /\ Push([op |-> "callback", ctx |-> d])
      /\ UNCHANGED <<iso, ctxState, faults>>
  BY <1>1 DEF EnterCallback
<1>3. IInv'
  BY <1>2, TrackArgsPreserves DEF BInv, AllCtx
<1>4. [op |-> "callback", ctx |-> d] \in Frame
  BY DEF Frame, AllCtx
<1>5. stack' \in Seq(Frame) /\ ScriptFramesLive'
  BY <1>2, <1>4, PushFrame DEF BInv, BridgeTypeOK
<1>. QED
  BY <1>2, <1>3, <1>5 DEF TrackArgs, BInv, NoUndefinedBehaviour

\* A script calls a native: it is one of its own context's.
LEMMA ScriptCallsNativeInv ==
  ASSUME BInv, NEW d \in AllCtx, NEW argc \in 0..MaxArgs, ScriptCallsNative(d, argc)
  PROVE  BInv'
<1>1. /\ stack # <<>> /\ Top.op = "script" /\ d \in callable[Top.ctx]
      /\ Room(argc + 1) /\ EnterCallback(d, argc)
      /\ UNCHANGED <<callable, native, stamped, queue>>
  BY DEF ScriptCallsNative
<1>2. Top.ctx \in AllCtx /\ ctxState[Top.ctx] = "live"
  BY <1>1, TopFrame DEF BInv, BridgeTypeOK
<1>3. d = Top.ctx /\ d \in Ctx
  BY <1>1, <1>2 DEF BInv, CallableOwn
<1>4. /\ argc \in Nat
      /\ nextVal \in Nat
      /\ Len(queue) \in Nat
  BY BridgeAssumption, LenProperties DEF BInv, BridgeTypeOK, IInv, TypeOK
<1>5. nextVal + argc <= MaxVals
  BY <1>1, <1>4, ConstAssumption DEF Room
<1>6. /\ IInv'
      /\ faults' = {}
      /\ UNCHANGED ctxState
      /\ nextVal' = nextVal + argc + 1
      /\ stack' \in Seq(Frame)
      /\ ScriptFramesLive'
  BY <1>1, <1>2, <1>3, <1>4, <1>5, EnterCallbackInv
<1>7. Reserved'
  BY <1>1, <1>4, <1>6 DEF Room, Reserved
<1>8. BridgeTypeOK'
  BY <1>1, <1>6 DEF BInv, BridgeTypeOK, IInv
<1>. QED
  BY <1>1, <1>6, <1>7, <1>8
     DEF BInv, NoUndefinedBehaviour, CallableOwn, ContextsStamped, NativesOwned,
         QueueLive

\* A checkpoint runs the oldest continuation: its context is live and
\* stamped, and two wrappers were kept for it.
LEMMA PumpRunsReactionInv ==
  ASSUME BInv, PumpRunsReaction
  PROVE  BInv'
<1>1. /\ queue # <<>> /\ queue' = Tail(queue)
      /\ EnterCallback(Head(queue), 1)
      /\ UNCHANGED <<callable, native, stamped>>
  BY DEF PumpRunsReaction
<1>2. /\ Len(queue) \in Nat \ {0}
      /\ Head(queue) = queue[1]
      /\ nextVal \in Nat
  BY <1>1, LenProperties, EmptySeq DEF BInv, BridgeTypeOK, IInv, TypeOK
<1>3. Head(queue) \in Ctx /\ ctxState[Head(queue)] = "live"
  BY <1>2 DEF BInv, QueueLive
<1>4. nextVal + 1 <= MaxVals
  BY <1>2, ConstAssumption DEF BInv, Reserved
<1>5. /\ IInv'
      /\ faults' = {}
      /\ UNCHANGED ctxState
      /\ nextVal' = nextVal + 1 + 1
      /\ stack' \in Seq(Frame)
      /\ ScriptFramesLive'
  BY <1>1, <1>3, <1>4, EnterCallbackInv
<1>6. /\ Tail(queue) \in Seq(AllCtx)
      /\ Len(Tail(queue)) = Len(queue) - 1
      /\ \A i \in 1..Len(Tail(queue)) : Tail(queue)[i] = queue[i + 1]
  BY <1>1, HeadTailProperties DEF BInv, BridgeTypeOK
<1>7. QueueLive'
  BY <1>1, <1>2, <1>5, <1>6 DEF BInv, QueueLive
<1>8. Reserved'
  BY <1>1, <1>2, <1>5, <1>6 DEF BInv, Reserved
<1>9. BridgeTypeOK'
  BY <1>1, <1>5, <1>6 DEF BInv, BridgeTypeOK, IInv
<1>. QED
  BY <1>1, <1>5, <1>7, <1>8, <1>9
     DEF BInv, NoUndefinedBehaviour, CallableOwn, ContextsStamped, NativesOwned

-----------------------------------------------------------------------------
(* The theorems.                                                           *)

\* BInv holds in every reachable state of a host that keeps the discipline.
THEOREM BridgeInvariant ==
  ASSUME HostMay = {}
  PROVE  BridgeSpec => []BInv
<1>1. BridgeInit => BInv
  BY BridgeInitInv
<1>2. BInv /\ [BridgeNext]_allVars => BInv'
  <2> SUFFICES ASSUME BInv, [BridgeNext]_allVars PROVE BInv'
    OBVIOUS
  <2>1. CASE HostNewIsolate
    BY <2>1, NewIsolateInv
  <2>2. CASE HostIsolateDispose
    BY <2>2, IsolateDisposeInv
  <2>3. ASSUME NEW c \in Ctx, NEW b \in BOOLEAN, BridgeNewContext(c, b) PROVE BInv'
    BY <2>3, NewContextInv
  <2>4. ASSUME NEW c \in Ctx, BridgeContextFree(c) PROVE BInv'
    BY <2>4, ContextFreeInv
  <2>5. CASE HostIsolateValue
    BY <2>5, HostAllocInv
  <2>6. ASSUME NEW c \in Ctx, HostContextValue(c) PROVE BInv'
    BY <2>6, HostAllocInv
  <2>7. ASSUME NEW c \in Ctx, GetFunction(c) PROVE BInv'
    BY <2>7, GetFunctionInv
  <2>8. ASSUME NEW c \in Ctx, RunScriptBegin(c) PROVE BInv'
    BY <2>8, ScriptBeginInv
  <2>9. ASSUME NEW v \in Val, HostDerivedValue(v) PROVE BInv'
    BY <2>9, HostAllocInv
  <2>10. ASSUME NEW v \in Val, PromiseThen(v) PROVE BInv'
    BY <2>10, PromiseThenInv
  <2>11. ASSUME NEW v \in Val, FunctionCallBegin(v) PROVE BInv'
    BY <2>11, ScriptBeginInv
  <2>12. ASSUME NEW o \in Val, NEW f \in Val, ObjectSet(o, f) PROVE BInv'
    BY <2>12, ObjectSetInv
  <2>13. CASE ScriptThrow \/ CallbackReturn \/ PumpBegin \/ PumpEnd
    BY <2>13, FrameOnlyInv
  <2>14. CASE ScriptReturn
    BY <2>14, ScriptReturnInv
  <2>15. ASSUME NEW d \in AllCtx, NEW argc \in 0..MaxArgs, ScriptCallsNative(d, argc)
         PROVE  BInv'
    BY <2>15, ScriptCallsNativeInv
  <2>16. CASE PumpRunsReaction
    BY <2>16, PumpRunsReactionInv
  <2>17. CASE UNCHANGED <<vars, stack, callable, native, stamped, queue>>
    <3>1. stack' \in Seq(Frame) /\ ScriptFramesLive'
      BY <2>17 DEF vars, BInv, BridgeTypeOK, ScriptFramesLive
    <3>. QED BY <2>17, <3>1, StackOnlyInv
  <2>18. (Disposed /\ UNCHANGED bridgeVars) \/ UNCHANGED allVars
         => UNCHANGED <<vars, stack, callable, native, stamped, queue>>
    BY DEF Disposed, bridgeVars, allVars
  <2>. QED
    BY <2>1, <2>2, <2>3, <2>4, <2>5, <2>6, <2>7, <2>8, <2>9, <2>10, <2>11,
       <2>12, <2>13, <2>14, <2>15, <2>16, <2>17, <2>18 DEF BridgeNext
<1>. QED
  BY <1>1, <1>2, PTL DEF BridgeSpec

\* Under the discipline no entry point, native callback or continuation ever
\* touches a freed or missing m_ctx, m_value or isolate: FunctionTemplateCallback
\* always finds its sandbox, RunScript and FunctionCall always return into a
\* live context, ContextFree never deletes anything twice.
THEOREM NoUndefinedBehaviourHolds ==
  ASSUME HostMay = {}
  PROVE  BridgeSpec => []NoUndefinedBehaviour
BY BridgeInvariant, PTL DEF BInv

-----------------------------------------------------------------------------
(* Any host.  Without the discipline faults are committed, but the         *)
(* bookkeeping stays sound: HInv holds whatever HostMay allows.  It keeps  *)
(* of BInv what no misuse can break: the types, the registry invariant,    *)
(* the reserve, and that script frames name a context.                     *)

\* A running script will return to a context, live or not.
ScriptFramesOwned ==
  \A i \in 1..Len(stack) : stack[i].op = "script" => stack[i].ctx \in AllCtx

HInv ==
  /\ BridgeTypeOK
  /\ IInv
  /\ Reserved
  /\ ScriptFramesOwned

\* The steps of Bridge that are entry points of Registry.
LEMMA HostStepIsNext ==
  \/ HostNewIsolate \/ HostIsolateDispose
  \/ \E c \in Ctx, b \in BOOLEAN : BridgeNewContext(c, b)
  \/ \E c \in Ctx : BridgeContextFree(c) \/ HostContextValue(c) \/ GetFunction(c)
  \/ HostIsolateValue
  \/ \E v \in Val : HostDerivedValue(v) \/ PromiseThen(v)
  \/ Disposed /\ UNCHANGED bridgeVars
  => Next
BY DEF HostNewIsolate, HostIsolateDispose, BridgeNewContext, BridgeContextFree,
       HostContextValue, GetFunction, HostIsolateValue, HostDerivedValue,
       PromiseThen, Next

LEMMA BInvHInv == BInv => HInv
BY DEF BInv, HInv, ScriptFramesLive, ScriptFramesOwned

\* LOCAL_VALUE resolves every wrapper to a context.
LEMMA ValueContextType ==
  ASSUME TypeOK, NEW v \in Val
  PROVE  ValueContext(v) \in AllCtx
BY ConstAssumption DEF TypeOK, ValueContext, AllCtx

\* The frames as HInv sees them: pushing, popping and the innermost one.
LEMMA OwnedPush ==
  ASSUME stack \in Seq(Frame), ScriptFramesOwned, NEW f \in Frame,
         f.op = "script" => f.ctx \in AllCtx, Push(f)
  PROVE  stack' \in Seq(Frame) /\ ScriptFramesOwned'
<1>1. /\ stack' \in Seq(Frame)
      /\ Len(stack') = Len(stack) + 1
      /\ \A i \in 1..Len(stack) : stack'[i] = stack[i]
      /\ stack'[Len(stack) + 1] = f
  BY PushProperties DEF Push
<1>2. Len(stack) \in Nat
  BY LenProperties
<1>. QED
  BY <1>1, <1>2 DEF ScriptFramesOwned

LEMMA OwnedPop ==
  ASSUME stack \in Seq(Frame), stack # <<>>, ScriptFramesOwned, Pop
  PROVE  /\ stack' \in Seq(Frame) /\ ScriptFramesOwned'
         /\ Top \in Frame /\ (Top.op = "script" => Top.ctx \in AllCtx)
<1>1. /\ stack' \in Seq(Frame)
      /\ Len(stack') = Len(stack) - 1
      /\ \A i \in 1..(Len(stack) - 1) : stack'[i] = stack[i]
  BY PopProperties DEF Pop
<1>2. Len(stack) \in Nat \ {0} /\ Len(stack) \in 1..Len(stack)
  BY LenProperties, EmptySeq
<1>. QED
  BY <1>1, <1>2 DEF ScriptFramesOwned, Top

\* BridgeTypeOK from the types of its parts.
LEMMA BridgeTypeParts ==
  ASSUME TypeOK', stack' \in Seq(Frame), callable' \in [AllCtx -> SUBSET AllCtx],
         native' \in [Val -> AllCtx \cup {NullCtx}], stamped' \in [AllCtx -> BOOLEAN],
         queue' \in Seq(AllCtx)
  PROVE  BridgeTypeOK'
BY DEF BridgeTypeOK

\* A step that only moves frames keeps HInv.
LEMMA FramesOnlyH ==
  ASSUME HInv, UNCHANGED <<vars, callable, native, stamped, queue>>,
         stack' \in Seq(Frame), ScriptFramesOwned'
  PROVE  HInv'
BY DEF vars, HInv, BridgeTypeOK, IInv, TypeOK, RegistryExact, WrapperLifetime,
       FreshUnused, OwnedByContext, InternalLives, ValueContext, Reserved

\* The entry points of Registry, called as the host likes: IInv is
\* Registry's, and only allocations and PromiseThen move the reserve.
LEMMA HostStepH ==
  ASSUME HInv,
         \/ HostNewIsolate \/ HostIsolateDispose
         \/ \E c \in Ctx, b \in BOOLEAN : BridgeNewContext(c, b)
         \/ \E c \in Ctx : BridgeContextFree(c) \/ HostContextValue(c) \/ GetFunction(c)
         \/ HostIsolateValue
         \/ \E v \in Val : HostDerivedValue(v) \/ PromiseThen(v)
         \/ Disposed /\ UNCHANGED bridgeVars
  PROVE  HInv'
<1>1. IInv'
  BY HostStepIsNext, IInvStep DEF HInv
<1>2. TypeOK' /\ nextVal \in Nat /\ Len(queue) \in Nat
  BY <1>1, LenProperties DEF IInv, HInv, BridgeTypeOK, TypeOK
<1>3. CASE \/ HostNewIsolate \/ HostIsolateDispose
           \/ \E c \in Ctx : BridgeContextFree(c)
           \/ Disposed /\ UNCHANGED bridgeVars
  <2>1. UNCHANGED <<bridgeVars, nextVal>>
    BY <1>3 DEF HostNewIsolate, HostIsolateDispose, BridgeContextFree, ContextFree,
                NewIsolate, IsolateDispose, Disposed, vars
  <2>. QED
    BY <1>1, <1>2, <2>1, BridgeTypeParts
       DEF bridgeVars, HInv, BridgeTypeOK, Reserved, ScriptFramesOwned
<1>4. ASSUME NEW c \in Ctx, NEW w \in BOOLEAN, BridgeNewContext(c, w) PROVE HInv'
  <2>1. UNCHANGED <<stack, native, queue, nextVal>>
    BY <1>4 DEF BridgeNewContext, NewContext
  <2>2. callable' \in [AllCtx -> SUBSET AllCtx] /\ stamped' \in [AllCtx -> BOOLEAN]
    BY <1>4 DEF BridgeNewContext, HInv, BridgeTypeOK, AllCtx
  <2>. QED
    BY <1>1, <1>2, <2>1, <2>2, BridgeTypeParts
       DEF HInv, BridgeTypeOK, Reserved, ScriptFramesOwned
<1>5. CASE \/ HostIsolateValue
           \/ \E c \in Ctx : HostContextValue(c) \/ GetFunction(c)
           \/ \E v \in Val : HostDerivedValue(v)
  <2>1. /\ Room(1) /\ nextVal <= MaxVals /\ nextVal' = nextVal + 1
        /\ UNCHANGED <<stack, callable, stamped, queue>>
    BY <1>5 DEF HostIsolateValue, HostContextValue, GetFunction, HostDerivedValue,
                IsolateValue, ContextValue, DerivedValue, TrackNew, bridgeVars
  <2>2. native' \in [Val -> AllCtx \cup {NullCtx}]
    <3>1. CASE \E c \in Ctx : GetFunction(c)
      BY <2>1, <3>1, <1>2 DEF GetFunction, HInv, BridgeTypeOK, Val, AllCtx
    <3>2. CASE ~\E c \in Ctx : GetFunction(c)
      BY <1>5, <3>2 DEF HostIsolateValue, HostContextValue, HostDerivedValue,
                        bridgeVars, HInv, BridgeTypeOK
    <3>. QED BY <3>1, <3>2
  <2>3. Reserved'
    BY <1>2, <2>1 DEF Room, Reserved
  <2>. QED
    BY <1>1, <1>2, <2>1, <2>2, <2>3, BridgeTypeParts
       DEF HInv, BridgeTypeOK, ScriptFramesOwned
<1>6. ASSUME NEW p \in Val, PromiseThen(p) PROVE HInv'
  <2>1. ValueContext(p) \in AllCtx
    BY ValueContextType DEF HInv, BridgeTypeOK
  <2>2. /\ Room(3) /\ nextVal' = nextVal + 1
        /\ queue' = Append(queue, ValueContext(p))
        /\ UNCHANGED <<stack, callable, native, stamped>>
    BY <1>6 DEF PromiseThen, DerivedValue, TrackNew
  <2>3. queue' \in Seq(AllCtx) /\ Len(queue') = Len(queue) + 1
    BY <2>1, <2>2, PushProperties DEF HInv, BridgeTypeOK
  <2>4. Reserved'
    BY <1>2, <2>2, <2>3 DEF Room, Reserved
  <2>. QED
    BY <1>1, <1>2, <2>2, <2>3, <2>4, BridgeTypeParts
       DEF HInv, BridgeTypeOK, ScriptFramesOwned
<1>. QED BY <1>3, <1>4, <1>5, <1>6

\* A step that only records a fault keeps IInv.
LEMMA FaultOnlyIInv ==
  ASSUME IInv, UNCHANGED <<iso, ctxState, vals, valState, valCtx, nextVal>>,
         faults' \subseteq Faults
  PROVE  IInv'
BY DEF IInv, TypeOK, RegistryExact, WrapperLifetime, FreshUnused,
       OwnedByContext, InternalLives, ValueContext

\* FunctionTemplateCallback whatever goContext finds: a fault and nothing
\* else, or `this` and the arguments tracked in a live context.
LEMMA EnterCallbackH ==
  ASSUME IInv, stack \in Seq(Frame), ScriptFramesOwned, NEW d \in AllCtx,
         NEW argc \in Nat, nextVal + argc <= MaxVals, EnterCallback(d, argc)
  PROVE  /\ IInv'
         /\ stack' \in Seq(Frame) /\ ScriptFramesOwned'
         /\ nextVal' = nextVal \/ nextVal' = nextVal + argc + 1
         /\ UNCHANGED ctxState
<1>1. CASE ~stamped[d] \/ ctxState[d] # "live"
  <2>1. /\ UNCHANGED <<stack, iso, ctxState, vals, valState, valCtx, nextVal>>
        /\ faults' \subseteq Faults
    BY <1>1 DEF EnterCallback, IInv, TypeOK, Faults
  <2>. QED BY <2>1, FaultOnlyIInv DEF ScriptFramesOwned
<1>2. CASE stamped[d] /\ ctxState[d] = "live"
  <2>1. /\ TrackArgs(d, argc)
        /\ Push([op |-> "callback", ctx |-> d])
        /\ UNCHANGED <<iso, ctxState, faults>>
    BY <1>2 DEF EnterCallback
  <2>2. IInv'
    BY <1>2, <2>1, TrackArgsPreserves
  <2>3. [op |-> "callback", ctx |-> d] \in Frame
    BY DEF Frame
  <2>4. stack' \in Seq(Frame) /\ ScriptFramesOwned'
    BY <2>1, <2>3, OwnedPush
  <2>. QED BY <2>1, <2>2, <2>4 DEF TrackArgs
<1>. QED BY <1>1, <1>2

\* The steps of scripts, callbacks and checkpoints, whatever the host did.
LEMMA ScriptStepH ==
  ASSUME HInv,
         \/ \E c \in Ctx : RunScriptBegin(c)
         \/ \E v \in Val : FunctionCallBegin(v)
         \/ \E o, f \in Val : ObjectSet(o, f)
         \/ ScriptThrow \/ CallbackReturn \/ PumpBegin \/ PumpEnd
  PROVE  HInv'
<1>0. stack \in Seq(Frame) /\ ScriptFramesOwned /\ TypeOK
  BY DEF HInv, BridgeTypeOK, IInv
<1>1. ASSUME NEW c \in Ctx, RunScriptBegin(c) PROVE HInv'
  <2>1. [op |-> "script", ctx |-> c] \in Frame /\ c \in AllCtx
    BY DEF Frame, AllCtx
  <2>. QED BY <1>0, <1>1, <2>1, OwnedPush, FramesOnlyH DEF RunScriptBegin
<1>2. ASSUME NEW v \in Val, FunctionCallBegin(v) PROVE HInv'
  <2>1. ValueContext(v) \in AllCtx
    BY <1>0, ValueContextType
  <2>2. [op |-> "script", ctx |-> ValueContext(v)] \in Frame
    BY <2>1 DEF Frame
  <2>. QED BY <1>0, <1>2, <2>1, <2>2, OwnedPush, FramesOnlyH DEF FunctionCallBegin
<1>3. ASSUME NEW o \in Val, NEW f \in Val, ObjectSet(o, f) PROVE HInv'
  <2>1. ValueContext(o) \in AllCtx /\ native[f] \in AllCtx
    BY <1>0, <1>3, ValueContextType DEF ObjectSet, HInv, BridgeTypeOK
  <2>2. callable' \in [AllCtx -> SUBSET AllCtx]
    BY <1>3, <2>1 DEF ObjectSet, HInv, BridgeTypeOK
  <2>. QED
    BY <1>3, <2>2 DEF ObjectSet, vars, HInv, BridgeTypeOK, IInv, TypeOK,
       RegistryExact, WrapperLifetime, FreshUnused, OwnedByContext,
       InternalLives, ValueContext, Reserved, ScriptFramesOwned
<1>4. CASE ScriptThrow \/ CallbackReturn \/ PumpEnd
  <2>1. stack # <<>> /\ Pop /\ UNCHANGED <<vars, callable, native, stamped, queue>>
    BY <1>4 DEF ScriptThrow, CallbackReturn, PumpEnd
  <2>. QED BY <1>0, <2>1, OwnedPop, FramesOnlyH
<1>5. CASE PumpBegin
  <2>1. [op |-> "pump", ctx |-> NullCtx] \in Frame
    BY DEF Frame
  <2>. QED BY <1>0, <1>5, <2>1, OwnedPush, FramesOnlyH DEF PumpBegin
<1>. QED BY <1>1, <1>2, <1>3, <1>4, <1>5

\* A script returns: its result is tracked if its context is live, and
\* the fault is recorded otherwise.
LEMMA ScriptReturnH ==
  ASSUME HInv, ScriptReturn
  PROVE  HInv'
<1>1. /\ stack # <<>> /\ Top.op = "script" /\ Pop
      /\ UNCHANGED <<callable, native, stamped, queue>>
  BY DEF ScriptReturn
<1>2. /\ stack' \in Seq(Frame) /\ ScriptFramesOwned'
      /\ Top.ctx \in AllCtx
  BY <1>1, OwnedPop DEF HInv, BridgeTypeOK
<1>3. /\ IInv'
      /\ nextVal' = nextVal \/ (nextVal' = nextVal + 1 /\ Room(1))
  <2>1. CASE ctxState[Top.ctx] = "live"
    <3>1. Room(1) /\ TrackNew(Top.ctx) /\ UNCHANGED <<iso, ctxState, faults>>
      BY <2>1 DEF ScriptReturn
    <3>. QED BY <1>2, <2>1, <3>1, TrackNewPreserves DEF HInv, TrackNew
  <2>2. CASE ctxState[Top.ctx] # "live"
    <3>1. /\ UNCHANGED <<iso, ctxState, vals, valState, valCtx, nextVal>>
          /\ faults' \subseteq Faults
      BY <2>2 DEF ScriptReturn, HInv, IInv, TypeOK, Faults
    <3>. QED BY <3>1, FaultOnlyIInv DEF HInv
  <2>. QED BY <2>1, <2>2
<1>4. nextVal \in Nat /\ Len(queue) \in Nat
  BY LenProperties DEF HInv, IInv, TypeOK, BridgeTypeOK
<1>5. Reserved'
  BY <1>1, <1>3, <1>4 DEF HInv, Reserved, Room
<1>. QED
  BY <1>1, <1>2, <1>3, <1>5, BridgeTypeParts DEF HInv, BridgeTypeOK, IInv

\* A script calls a native of any context it can reach.
LEMMA ScriptCallsNativeH ==
  ASSUME HInv, NEW d \in AllCtx, NEW argc \in 0..MaxArgs, ScriptCallsNative(d, argc)
  PROVE  HInv'
<1>1. /\ Room(argc + 1) /\ EnterCallback(d, argc)
      /\ UNCHANGED <<callable, native, stamped, queue>>
  BY DEF ScriptCallsNative
<1>2. argc \in Nat /\ nextVal \in Nat /\ Len(queue) \in Nat
  BY BridgeAssumption, LenProperties DEF HInv, BridgeTypeOK, IInv, TypeOK
<1>3. nextVal + argc <= MaxVals
  BY <1>1, <1>2, ConstAssumption DEF Room
<1>4. /\ IInv'
      /\ stack' \in Seq(Frame) /\ ScriptFramesOwned'
      /\ nextVal' = nextVal \/ nextVal' = nextVal + argc + 1
  BY <1>1, <1>2, <1>3, EnterCallbackH DEF HInv, BridgeTypeOK
<1>5. Reserved'
  <2>1. nextVal + (argc + 1) + 2 * Len(queue) <= MaxVals + 1
    BY <1>1 DEF Room
  <2>2. Len(queue') = Len(queue)
    BY <1>1
  <2>3. nextVal' + 2 * Len(queue') <= MaxVals + 1
    <3>1. CASE nextVal' = nextVal
      <4>1. nextVal' + 2 * Len(queue') = nextVal + 2 * Len(queue')
        BY <3>1
      <4>. QED BY <1>2, <2>1, <2>2, <4>1, ConstAssumption
    <3>2. CASE nextVal' = nextVal + argc + 1
      BY <1>2, <2>1, <2>2, <3>2, ConstAssumption
    <3>. QED BY <1>4, <3>1, <3>2
  <2>. QED BY <2>3 DEF Reserved
<1>. QED
  BY <1>1, <1>4, <1>5, BridgeTypeParts DEF HInv, BridgeTypeOK, IInv

\* A checkpoint runs the oldest continuation, in whatever context it was
\* created: the two wrappers it may allocate were kept in reserve.
LEMMA PumpRunsReactionH ==
  ASSUME HInv, PumpRunsReaction
  PROVE  HInv'
<1>1. /\ queue # <<>> /\ queue' = Tail(queue)
      /\ EnterCallback(Head(queue), 1)
      /\ UNCHANGED <<callable, native, stamped>>
  BY DEF PumpRunsReaction
<1>2. /\ Len(queue) \in Nat \ {0}
      /\ Head(queue) \in AllCtx
      /\ nextVal \in Nat
  BY <1>1, LenProperties, EmptySeq, HeadTailProperties DEF HInv, BridgeTypeOK, IInv, TypeOK
<1>3. nextVal + 1 <= MaxVals
  BY <1>2, ConstAssumption DEF HInv, Reserved
<1>4. /\ IInv'
      /\ stack' \in Seq(Frame) /\ ScriptFramesOwned'
      /\ nextVal' = nextVal \/ nextVal' = nextVal + 1 + 1
  BY <1>1, <1>2, <1>3, EnterCallbackH DEF HInv, BridgeTypeOK
<1>5. Tail(queue) \in Seq(AllCtx) /\ Len(Tail(queue)) = Len(queue) - 1
  BY <1>1, HeadTailProperties DEF HInv, BridgeTypeOK
<1>6. Reserved'
  <2>1. nextVal + 2 * Len(queue) <= MaxVals + 1
    BY DEF HInv, Reserved
  <2>2. Len(queue') = Len(queue) - 1
    BY <1>1, <1>5
  <2>3. nextVal' + 2 * Len(queue') <= MaxVals + 1
    <3>1. CASE nextVal' = nextVal
      <4>1. nextVal' + 2 * Len(queue') = nextVal + 2 * Len(queue')
        BY <3>1
      <4>. QED BY <1>2, <2>1, <2>2, <4>1, ConstAssumption
    <3>2. CASE nextVal' = nextVal + 1 + 1
      BY <1>2, <2>1, <2>2, <3>2, ConstAssumption
    <3>. QED BY <1>4, <3>1, <3>2
  <2>. QED BY <2>3 DEF Reserved
<1>7. queue' \in Seq(AllCtx)
  BY <1>1, <1>5
<1>8. /\ TypeOK'
      /\ callable' \in [AllCtx -> SUBSET AllCtx]
      /\ native' \in [Val -> AllCtx \cup {NullCtx}]
      /\ stamped' \in [AllCtx -> BOOLEAN]
  BY <1>1, <1>4 DEF HInv, BridgeTypeOK, IInv
<1>9. BridgeTypeOK'
  BY <1>4, <1>7, <1>8, BridgeTypeParts
<1>. QED
  BY <1>4, <1>6, <1>9 DEF HInv


LEMMA HInvInit == BridgeInit => HInv
BY BridgeInitInv, BInvHInv

LEMMA HInvStep ==
  ASSUME HInv, [BridgeNext]_allVars
  PROVE  HInv'
<1>1. CASE \/ HostNewIsolate \/ HostIsolateDispose
           \/ \E c \in Ctx, b \in BOOLEAN : BridgeNewContext(c, b)
           \/ \E c \in Ctx : BridgeContextFree(c) \/ HostContextValue(c) \/ GetFunction(c)
           \/ HostIsolateValue
           \/ \E v \in Val : HostDerivedValue(v) \/ PromiseThen(v)
           \/ Disposed /\ UNCHANGED bridgeVars
  BY <1>1, HostStepH
<1>2. CASE \/ \E c \in Ctx : RunScriptBegin(c)
           \/ \E v \in Val : FunctionCallBegin(v)
           \/ \E o, f \in Val : ObjectSet(o, f)
           \/ ScriptThrow \/ CallbackReturn \/ PumpBegin \/ PumpEnd
  BY <1>2, ScriptStepH
<1>3. CASE ScriptReturn
  BY <1>3, ScriptReturnH
<1>4. ASSUME NEW d \in AllCtx, NEW argc \in 0..MaxArgs, ScriptCallsNative(d, argc)
      PROVE  HInv'
  BY <1>4, ScriptCallsNativeH
<1>5. CASE PumpRunsReaction
  BY <1>5, PumpRunsReactionH
<1>6. CASE UNCHANGED allVars
  <2>1. UNCHANGED <<vars, callable, native, stamped, queue>> /\ stack' = stack
    BY <1>6 DEF allVars, bridgeVars
  <2>2. stack' \in Seq(Frame) /\ ScriptFramesOwned'
    BY <2>1 DEF HInv, BridgeTypeOK, ScriptFramesOwned
  <2>. QED BY <2>1, <2>2, FramesOnlyH
<1>. QED
  BY <1>1, <1>2, <1>3, <1>4, <1>5, <1>6 DEF BridgeNext

\* Whatever the Go host does with freed isolates, contexts and values (any
\* HostMay), the registry of each context (Tracker in v8go.cc), the value
\* counter's reserve for queued continuations, the types and the owners of
\* running script frames stay sound.
THEOREM HostInvariant == BridgeSpec => []HInv
<1>1. BridgeInit => HInv
  BY HInvInit
<1>2. HInv /\ [BridgeNext]_allVars => HInv'
  BY HInvStep
<1>. QED
  BY <1>1, <1>2, PTL DEF BridgeSpec

\* Every frame, registry, callback table and queued continuation has its
\* type, whatever the host does.
THEOREM BridgeTypeCorrect == BridgeSpec => []BridgeTypeOK
BY HostInvariant, PTL DEF HInv

\* Whatever the host does, each context's m_values list holds each tracked
\* value once, and exactly the live values the context owns (ContextFree and
\* Tracker never leave a stale or a duplicated entry).
THEOREM BridgeRegistryExact == BridgeSpec => []RegistryExact
<1>1. HInv => RegistryExact
  BY DEF HInv, IInv
<1>. QED BY HostInvariant, <1>1, PTL

=============================================================================
