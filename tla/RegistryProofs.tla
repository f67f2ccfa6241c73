--------------------------- MODULE RegistryProofs ---------------------------
(***************************************************************************)
(* Proofs about module Registry, for every value of its constants.         *)
(*                                                                         *)
(* RegistryExact is not inductive alone: appending nextVal to a registry   *)
(* keeps it injective only if nextVal is in no registry yet, and freeing a *)
(* context ends exactly the wrappers whose ctx field names it only if live *)
(* wrappers point at allocated contexts.  IInv adds those facts.           *)
(***************************************************************************)
EXTENDS Registry, SequenceTheorems, TLAPS

\* Wrappers from nextVal on have not been handed out.
FreshUnused == \A v \in Val : v >= nextVal => valState[v] = "unused"

\* Every wrapper handed out has a non-null ctx field.
OwnedByContext == \A v \in Val : valState[v] # "unused" => valCtx[v] \in AllCtx

\* While the isolate lives, so does its internal context.
InternalLives == iso = "live" => ctxState[Internal] = "live"

IInv ==
  /\ TypeOK
  /\ RegistryExact
  /\ WrapperLifetime
  /\ FreshUnused
  /\ OwnedByContext
  /\ InternalLives

-----------------------------------------------------------------------------
(* Lemmas about the sequence operators the registry is built from.         *)

LEMMA AppendRange ==
  ASSUME NEW S, NEW s \in Seq(S), NEW x \in S
  PROVE  Range(Append(s, x)) = Range(s) \cup {x}
<1>1. /\ DOMAIN Append(s, x) = 1..(Len(s) + 1)
      /\ DOMAIN s = 1..Len(s)
      /\ Len(s) \in Nat
  BY AppendProperties, LenProperties
<1>2. /\ \A i \in 1..Len(s) : Append(s, x)[i] = s[i]
      /\ Append(s, x)[Len(s) + 1] = x
  BY AppendProperties
<1>. QED
  BY <1>1, <1>2 DEF Range

LEMMA AppendKeepsInjective ==
  ASSUME NEW S, NEW s \in Seq(S), NEW x \in S,
         IsInjective(s), x \notin Range(s)
  PROVE  IsInjective(Append(s, x))
<1>1. /\ DOMAIN Append(s, x) = 1..(Len(s) + 1)
      /\ DOMAIN s = 1..Len(s)
      /\ Len(s) \in Nat
  BY AppendProperties, LenProperties
<1>2. /\ \A i \in 1..Len(s) : Append(s, x)[i] = s[i]
      /\ Append(s, x)[Len(s) + 1] = x
  BY AppendProperties
<1>. QED
  BY <1>1, <1>2 DEF IsInjective, Range

LEMMA EmptyRegistry ==
  /\ Range(<<>>) = {}
  /\ IsInjective(<<>>)
BY DEF Range, IsInjective

-----------------------------------------------------------------------------
(* Type correctness.                                                       *)

LEMMA TrackNewType ==
  ASSUME TypeOK, NEW c \in AllCtx, TrackNew(c)
  PROVE  /\ valState' \in [Val -> {"unused", "live", "freed"}]
         /\ valCtx' \in [Val -> AllCtx \cup {NullCtx}]
         /\ vals' \in [AllCtx -> Seq(Val)]
         /\ nextVal' \in 1..(MaxVals + 1)
<1>1. nextVal \in Val
  BY ConstAssumption DEF TrackNew, TypeOK, Val
<1>2. Append(vals[c], nextVal) \in Seq(Val)
  BY <1>1, AppendProperties DEF TypeOK
<1>3. vals' \in [AllCtx -> Seq(Val)]
  BY <1>2 DEF TrackNew, TypeOK
<1>4. nextVal' \in 1..(MaxVals + 1)
  BY <1>1, ConstAssumption DEF TrackNew, Val
<1>. QED
  BY <1>1, <1>3, <1>4 DEF TrackNew, TypeOK

LEMMA ReleaseType ==
  ASSUME TypeOK, NEW c \in AllCtx, Release(c)
  PROVE  /\ ctxState' \in [AllCtx -> {"unused", "live", "freed"}]
         /\ valState' \in [Val -> {"unused", "live", "freed"}]
         /\ vals' \in [AllCtx -> Seq(Val)]
         /\ faults' \subseteq Faults
<1>1. <<>> \in Seq(Val)
  BY EmptySeq
<1>2. vals' \in [AllCtx -> Seq(Val)]
  BY <1>1 DEF Release, TypeOK
<1>3. faults' \subseteq Faults
  BY DEF Release, TypeOK, Faults
<1>. QED
  BY <1>2, <1>3 DEF Release, TypeOK

LEMMA InitTypeOK == Init => TypeOK
<1>1. <<>> \in Seq(Val)
  BY EmptySeq
<1>. QED
  BY <1>1, ConstAssumption DEF Init, TypeOK, Val, AllCtx

\* Every reachable state is well typed.
THEOREM TypeCorrect == Spec => []TypeOK
<1>1. Init => TypeOK
  BY InitTypeOK
<1>2. TypeOK /\ [Next]_vars => TypeOK'
  <2> SUFFICES ASSUME TypeOK, [Next]_vars PROVE TypeOK'
    OBVIOUS
  <2>1. CASE NewIsolate
    BY <2>1 DEF NewIsolate, TypeOK, AllCtx
  <2>2. CASE IsolateDispose
    BY <2>2, ReleaseType DEF IsolateDispose, TypeOK, AllCtx
  <2>3. ASSUME NEW c \in Ctx, NewContext(c) PROVE TypeOK'
    BY <2>3 DEF NewContext, TypeOK, AllCtx
  <2>4. ASSUME NEW c \in Ctx, ContextFree(c) PROVE TypeOK'
    <3>1. CASE ctxState[c] = "live"
      BY <2>4, <3>1, ReleaseType DEF ContextFree, TypeOK, AllCtx
    <3>2. CASE ctxState[c] # "live"
      BY <2>4, <3>2 DEF ContextFree, TypeOK, Faults
    <3>. QED BY <3>1, <3>2
  <2>5. ASSUME NEW c \in Ctx, ContextValue(c) PROVE TypeOK'
    BY <2>5, TrackNewType DEF ContextValue, TypeOK, AllCtx
  <2>6. CASE IsolateValue
    BY <2>6, TrackNewType DEF IsolateValue, TypeOK, AllCtx
  <2>7. ASSUME NEW v \in Val, DerivedValue(v) PROVE TypeOK'
    <3>1. ValueContext(v) \in AllCtx
      BY DEF ValueContext, TypeOK, AllCtx
    <3>. QED BY <2>7, <3>1, TrackNewType DEF DerivedValue, TypeOK
  <2>8. CASE Disposed \/ UNCHANGED vars
    BY <2>8 DEF Disposed, vars, TypeOK
  <2>. QED
    BY <2>1, <2>2, <2>3, <2>4, <2>5, <2>6, <2>7, <2>8 DEF Next
<1>. QED
  BY <1>1, <1>2, PTL DEF Spec

-----------------------------------------------------------------------------
(* The registry invariant.                                                 *)

\* tracked_value of a fresh wrapper into a live context keeps IInv.
LEMMA TrackNewPreserves ==
  ASSUME IInv, NEW c \in AllCtx, ctxState[c] = "live", TrackNew(c),
         UNCHANGED <<iso, ctxState, faults>>
  PROVE  IInv'
<1> USE DEF IInv
<1>1. TypeOK'
  BY TrackNewType DEF TypeOK
<1>2. /\ nextVal \in Val
      /\ valState[nextVal] = "unused"
      /\ \A d \in AllCtx : nextVal \notin Range(vals[d])
  BY ConstAssumption DEF TrackNew, TypeOK, Val, FreshUnused, RegistryExact
<1>3. RegistryExact'
  <2> SUFFICES ASSUME NEW d \in AllCtx
               PROVE  /\ IsInjective(vals'[d])
                      /\ Range(vals'[d]) = {v \in Val : valState'[v] = "live" /\ valCtx'[v] = d}
    BY DEF RegistryExact
  <2>1. CASE d = c
    <3>1. vals'[d] = Append(vals[c], nextVal)
      BY <2>1 DEF TrackNew, TypeOK
    <3>2. IsInjective(vals'[d])
      BY <1>2, <3>1, AppendKeepsInjective DEF TypeOK, RegistryExact
    <3>3. Range(vals'[d]) = Range(vals[c]) \cup {nextVal}
      BY <1>2, <3>1, AppendRange DEF TypeOK
    <3>. QED
      BY <1>2, <2>1, <3>2, <3>3 DEF TrackNew, TypeOK, RegistryExact
  <2>2. CASE d # c
    BY <1>2, <2>2 DEF TrackNew, TypeOK, RegistryExact
  <2>. QED BY <2>1, <2>2
<1>4. WrapperLifetime'
  BY <1>2, ConstAssumption DEF TrackNew, TypeOK, WrapperLifetime, ValueContext, AllCtx
<1>5. FreshUnused'
  BY <1>2 DEF TrackNew, TypeOK, FreshUnused, Val
<1>6. OwnedByContext'
  BY <1>2 DEF TrackNew, TypeOK, OwnedByContext
<1>7. InternalLives'
  BY DEF InternalLives
<1>. QED BY <1>1, <1>3, <1>4, <1>5, <1>6, <1>7

\* Releasing a live context (ContextFree, IsolateDispose) keeps IInv.
LEMMA ReleasePreserves ==
  ASSUME IInv, NEW c \in AllCtx, ctxState[c] = "live", Release(c),
         UNCHANGED <<valCtx, nextVal>>,
         \/ iso' = iso /\ c # Internal
         \/ iso' = "disposed" /\ c = Internal
  PROVE  IInv'
<1> USE DEF IInv
<1> DEFINE tracked == Range(vals[c])
<1>1. tracked = {v \in Val : valState[v] = "live" /\ valCtx[v] = c}
  BY DEF RegistryExact
<1>2. TypeOK'
  <2>1. iso' \in {"none", "live", "disposed"}
    BY DEF TypeOK
  <2>. QED BY <2>1, ReleaseType DEF TypeOK, Release
<1>3. \A v \in Val : valState'[v] = IF v \in tracked THEN "freed" ELSE valState[v]
  BY DEF Release
<1>4. RegistryExact'
  <2> SUFFICES ASSUME NEW d \in AllCtx
               PROVE  /\ IsInjective(vals'[d])
                      /\ Range(vals'[d]) = {v \in Val : valState'[v] = "live" /\ valCtx'[v] = d}
    BY DEF RegistryExact
  <2>1. CASE d = c
    <3>1. vals'[d] = <<>>
      BY <2>1 DEF Release, TypeOK
    <3>. QED
      BY <1>1, <1>3, <2>1, <3>1, EmptyRegistry
  <2>2. CASE d # c
    <3>1. vals'[d] = vals[d]
      BY <2>2 DEF Release, TypeOK
    <3>. QED
      BY <1>1, <1>3, <2>2, <3>1 DEF RegistryExact
  <2>. QED BY <2>1, <2>2
<1>5. WrapperLifetime'
  <2> SUFFICES ASSUME NEW v \in Val, valState'[v] = "live"
               PROVE  ctxState'[ValueContext(v)'] = "live"
    BY DEF WrapperLifetime
  <2>1. valState[v] = "live" /\ valCtx[v] # c
    BY <1>1, <1>3
  <2>2. ValueContext(v) = valCtx[v] /\ valCtx[v] \in AllCtx
    BY <2>1, ConstAssumption DEF OwnedByContext, ValueContext, AllCtx, TypeOK
  <2>3. ctxState[valCtx[v]] = "live"
    BY <2>1, <2>2 DEF WrapperLifetime
  <2>4. ValueContext(v)' = valCtx[v]
    BY <2>2 DEF ValueContext
  <2>5. ctxState'[valCtx[v]] = ctxState[valCtx[v]]
    BY <2>1, <2>2 DEF Release, TypeOK
  <2>. QED
    BY <2>3, <2>4, <2>5
<1>6. FreshUnused'
  BY <1>1, <1>3 DEF FreshUnused
<1>7. OwnedByContext'
  BY <1>1, <1>3 DEF OwnedByContext
<1>8. InternalLives'
  BY DEF Release, InternalLives, TypeOK
<1>. QED BY <1>2, <1>4, <1>5, <1>6, <1>7, <1>8

LEMMA IInvInit == Init => IInv
<1> SUFFICES ASSUME Init PROVE IInv
  OBVIOUS
<1>1. TypeOK
  BY InitTypeOK
<1>. QED
  BY <1>1, EmptyRegistry
     DEF Init, IInv, TypeOK, RegistryExact, WrapperLifetime, FreshUnused,
         OwnedByContext, InternalLives, Val, AllCtx

\* Every entry point, and the faulty paths of ContextFree, keep IInv.
LEMMA IInvStep ==
  ASSUME IInv, [Next]_vars
  PROVE  IInv'
<1>1. CASE NewIsolate
  BY <1>1 DEF NewIsolate, IInv, TypeOK, RegistryExact, WrapperLifetime,
              FreshUnused, OwnedByContext, InternalLives, AllCtx, ValueContext
<1>2. CASE IsolateDispose
  BY <1>2, ReleasePreserves DEF IsolateDispose, IInv, InternalLives, AllCtx
<1>3. ASSUME NEW c \in Ctx, NewContext(c) PROVE IInv'
  BY <1>3 DEF NewContext, IInv, TypeOK, RegistryExact, WrapperLifetime,
              FreshUnused, OwnedByContext, InternalLives, AllCtx, ValueContext
<1>4. ASSUME NEW c \in Ctx, ContextFree(c) PROVE IInv'
  <2>1. CASE ctxState[c] = "live"
    <3>1. c # Internal
      BY ConstAssumption
    <3>. QED BY <1>4, <2>1, <3>1, ReleasePreserves DEF ContextFree, AllCtx
  <2>2. CASE ctxState[c] # "live"
    <3>1. /\ UNCHANGED <<iso, ctxState, vals, valState, valCtx, nextVal>>
          /\ faults' \subseteq Faults
      BY <1>4, <2>2 DEF ContextFree, IInv, TypeOK, Faults
    <3>2. TypeOK'
      BY <3>1 DEF IInv, TypeOK
    <3>. QED
      BY <3>1, <3>2 DEF IInv, RegistryExact, WrapperLifetime, FreshUnused,
                        OwnedByContext, InternalLives, ValueContext
  <2>. QED BY <2>1, <2>2
<1>5. ASSUME NEW c \in Ctx, ContextValue(c) PROVE IInv'
  BY <1>5, TrackNewPreserves DEF ContextValue, AllCtx
<1>6. CASE IsolateValue
  BY <1>6, TrackNewPreserves DEF IsolateValue, IInv, InternalLives, AllCtx
<1>7. ASSUME NEW v \in Val, DerivedValue(v) PROVE IInv'
  <2>1. ValueContext(v) \in AllCtx /\ ctxState[ValueContext(v)] = "live"
    BY <1>7 DEF DerivedValue, IInv, WrapperLifetime, OwnedByContext, ValueContext, AllCtx
  <2>. QED BY <1>7, <2>1, TrackNewPreserves DEF DerivedValue
<1>8. CASE Disposed \/ UNCHANGED vars
  BY <1>8 DEF Disposed, vars, IInv, TypeOK, RegistryExact, WrapperLifetime,
              FreshUnused, OwnedByContext, InternalLives, ValueContext
<1>. QED
  BY <1>1, <1>2, <1>3, <1>4, <1>5, <1>6, <1>7, <1>8 DEF Next

\* The registry invariant holds in every reachable state, whatever the host
\* does among HostMay: the faulty paths of ContextFree leave it intact.
THEOREM RegistryInvariant == Spec => []IInv
<1>1. Init => IInv
  BY IInvInit
<1>2. IInv /\ [Next]_vars => IInv'
  BY IInvStep
<1>. QED
  BY <1>1, <1>2, PTL DEF Spec

\* Every live wrapper is tracked exactly once, by its own context's registry.
THEOREM RegistryExactHolds == Spec => []RegistryExact
BY RegistryInvariant, PTL DEF IInv

\* A wrapper lives exactly as long as the context that created it.
THEOREM WrapperLifetimeHolds == Spec => []WrapperLifetime
BY RegistryInvariant, PTL DEF IInv

=============================================================================
