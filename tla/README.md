# TLA+ models of the v8go C bridge (`src/v8go.cc`)

`src/v8go.cc` is the C++ layer between Go and V8. The Go side (`goContext`,
`goFunctionCallback`, the context registry) is not in this repository and
appears here only through the calls it makes and the callbacks it receives.

## 1. Inventory

### Components and their state

| Component | State kept by the C code | Lines |
|---|---|---|
| VM Instance (isolate) | the V8 isolate; slot 0 holds the internal `m_ctx` | 143-206 |
| Execution Sandbox (`m_ctx`) | `iso`, `Persistent<Context> ptr`, `vals` vector; V8 embedder data slot 1 = Go ref | 29-34, 393-547 |
| Handle Registry / Value Wrapper (`m_value`) | `iso`, `ctx` (nullable), `Persistent<Value> ptr`; appended to `ctx->vals` by `tracked_value` | 36-40, 104-123, 551-731 |
| Callback Bridge | none of its own: `FunctionTemplateCallback` reads slot 1 of the current context, calls `goContext`, tracks `this` and the arguments | 310-349, 1441-1490 |
| Promise Adapter | continuations created by `Function::New(local_ctx, FunctionTemplateCallback)` sit in V8's microtask queue | 1298-1437, 166-169 |
| Template Builder (`m_template`) | `iso`, `Persistent<Template>` | 42-45, 208-389 |
| Error Translator | none: `ExceptionError` and `CopyString` build a record from a `TryCatch` | 47-102 |
| Conversions, predicates, JSON, heap statistics, flags | none | 188-206, 479-535, 733-1101, 1506-1512 |

### Operations and how the components interact

- Every entry point that hands a value to Go does `new m_value`, then
  `tracked_value(ctx, val)`. Nothing ever removes one wrapper on its own.
  Which context `ctx` is depends on the macro:
  - `LOCAL_CONTEXT` (RunScript, JSONParse, ContextGlobal, NewPromiseResolver)
    uses the context passed in.
  - `LOCAL_VALUE` (ObjectGet*, FunctionCall, Promise*) uses the wrapper's own
    `ctx`, or the internal context when that is null.
  - `ISOLATE_SCOPE_INTERNAL_CONTEXT` (NewValue*, BuiltinSymbol) uses the
    internal context.
- `ContextFree` does four things in order:
  1. Resets the context's `Persistent`.
  2. Resets and deletes every wrapper in `vals`, in order.
  3. Deletes the `m_ctx`.
  4. Checks nothing except `nullptr`.
- `IsolateDispose` calls `ContextFree` on the internal context and then
  `Dispose`. User contexts are not touched.
- While `script->Run` or `fn->Call` runs, the script may call a native
  function. `FunctionTemplateCallback` then runs Go code, which may call any
  entry point again, `ContextFree` included. The outer entry point still holds
  the `m_ctx*` it read before the call and uses it afterwards.
- `PromiseThen` queues continuations. `IsolatePerformMicrotaskCheckpoint`
  runs them later, through the same callback.

### The hard behaviours

- Callbacks nest inside running scripts. This is re-entrancy on one thread.
- Continuations are delayed until a checkpoint, however much later that is.
- Contexts can be freed at any point between these steps.
- A freed `m_ctx` and its wrappers are plain `delete`d memory.
- A native function's context is its *creation* context, not the caller's.
- The internal context has no slot 1.
- `ContextFree` and `IsolateDispose` take no `Locker`.
- Error and termination paths: see the hazards in PROJECT.json.

### What makes each component correct

- **Registry:** every live wrapper is in exactly one vector, its own
  context's, exactly once (`RegistryExact`). A wrapper lives exactly as long
  as its context (`WrapperLifetime`).
- **Sandbox:** freeing is idempotent (spec §8: `FreeIdempotent`). Nothing
  touches a disposed isolate (`NoFreeAfterDispose`). A script's result goes
  to a live context (`ScriptResultContextLive`).
- **Callback Bridge and Promise Adapter:** every callback finds the sandbox
  that triggered it (spec §4.3: `CallbackFindsSandbox`). Under a disciplined
  host no step commits undefined behaviour (`NoUndefinedBehaviour`).
- **Error Translator and termination:** a requested termination ends the
  script frames in flight (`TerminationEndsRun`). Every returned error has a
  message, or the termination sentinel in its place (spec §4.4:
  `ErrorHasMessage`). A terminate request targets the
  current run (spec §5: `TerminationTargetsCurrentRun`). No entry point
  aborts the process or hands V8 an empty handle (`NoEngineFault`).
- **Arena (spec §9):** every sandbox is an arena of handles, and freeing it
  ends exactly its handles (`ImplementsArena`).

## 2. Modules and how they correspond to the code

### `Registry.tla` — the handle registry, contexts and the isolate, with atomic entry points

**State:**
- `iso`;
- `ctxState[c]`: unused, live or freed;
- `vals[c]`: the `m_ctx::vals` vector, as a sequence;
- `valState[v]`;
- `valCtx[v]`: `m_value::ctx`;
- `nextVal`: the next `new m_value`;
- `faults`: the undefined behaviour committed so far.

**Actions:**
- `NewIsolate`, `IsolateDispose`, `NewContext` and `ContextFree`.
- `IsolateValue`: the `ISOLATE_SCOPE_INTERNAL_CONTEXT` constructors.
- `ContextValue`: the `LOCAL_CONTEXT` allocations.
- `DerivedValue`: the `LOCAL_VALUE` allocations.
- Shared helpers: `TrackNew` is `new m_value` followed by `tracked_value`.
  `Release` is the body of `ContextFree`.

**The host's discipline is a constant.** `HostMay` is a subset of
`HostBehaviours`. With `HostMay = {}` the host frees each context once and
before dispose. Each violation run enables one misuse.

Undefined behaviour is not modelled as a crash. It is recorded in `faults`,
so a property can say that it never happens. The recorded kinds are:
- double delete;
- Reset on a disposed isolate;
- push into a deleted `m_ctx`;
- a callback that finds no context.

### `Bridge.tla` — the callback bridge and promises (EXTENDS Registry)

It adds the following state:
- `stack`: frames in flight, which are script runs, native callbacks and
  checkpoints;
- `callable[c]`: the creation contexts of the natives that scripts of `c`
  reach;
- `native[v]`;
- `stamped[c]`: whether slot 1 is set;
- `queue`: the microtask queue, holding the creation context of each
  continuation.

Go code runs only when the stack is empty or its top frame is a callback
(`HostTurn`). That is where every Registry entry point is called, wrapped as
`Host*` and `Bridge*`.

| Code | Actions |
|---|---|
| RunScript | `RunScriptBegin`, then `ScriptThrow` or `ScriptReturn` |
| FunctionCall, FunctionNewInstance | `FunctionCallBegin`, then `ScriptThrow` or `ScriptReturn` |
| FunctionTemplateCallback | `ScriptCallsNative`, `PumpRunsReaction` (both through `EnterCallback`), `CallbackReturn` |
| IsolatePerformMicrotaskCheckpoint | `PumpBegin`, `PumpRunsReaction`, `PumpEnd` |

Continuations run only at the explicit checkpoint
`IsolatePerformMicrotaskCheckpoint`. V8's default policy (kAuto) also runs
them when the outermost script returns, and the model leaves that out. The
model therefore allows a continuation to wait longer than V8 would. What a
continuation meets when it runs (a freed or an unstamped context) is
reachable either way: a nested callback can resolve the promise and free
the context before the automatic checkpoint.
| PromiseThen, PromiseThen2, PromiseCatch | `PromiseThen` |
| FunctionTemplateGetFunction | `GetFunction` |
| ObjectSet with a function | `ObjectSet` |

The further host misuses are:
- `free_in_use`: freeing the context of a running script;
- `share_native`: setting a native into another context;
- `free_pending`: freeing a context that has a queued continuation;
- `internal_then`: `PromiseThen` on a wrapper of the internal context. Such a
  wrapper comes from reading a promise back out of an object of the internal
  context.

### `Execution.tla` — running scripts, termination and error translation

This module abstracts Bridge's stack to what termination and error reporting
need. It keeps no contexts and no wrappers.
- `stack` is a sequence of `script` and `callback` frames. `HostTurn` says
  when Go may call an entry point: nothing is running, or a callback is.
- `pending` is V8's stack-guard interrupt. `IsolateTerminateExecution`
  (`Terminate`, :180-182) sets it from any thread, without a `Locker`.
- `active` is the termination exception. `StackCheck` turns `pending` into
  `active` in running JS. `Unwind` pops script frames and clears `active`
  once no script frame is left below.
- `rtn` is the `RtnValue` the last entry point returned. Its `msg`,
  `location` and `stack` say what `ExceptionError` (:62-102) filled in.
  `CopyString` (:55-60) gives nullptr for an empty string.
- `why` is history the C code cannot see: whether an entry point has
  returned a record yet, whether the last run was terminated, and whether
  termination was requested while it was in flight.
- `faults` records undefined behaviour:
  - `checked_nothing`: `ToChecked()`/`Check()` on Nothing, which aborts;
  - `empty_handle`: `JSONParse`'s missing `return` (:484-488).

The actions:
- `RunScript(src)` covers the three failure paths of `RunScript` (:444-477)
  and a run that starts.
- `ScriptCompletes`, `ScriptThrows(text, runsJS)`, `ScriptCallsNative` and
  `CallbackReturn` cover the script's own steps. They also stand for
  `FunctionCall` and `FunctionNewInstance`, which fail and succeed the same way.
- `ScriptThrows` models `ExceptionError` in its order. `HasTerminated` is
  asked first (:69). Only then does `String::Utf8Value` convert the thrown
  value (:75), running its `toString` when `runsJS`. A pending terminate
  request is taken inside that `toString`: the conversion comes back empty,
  `CopyString` gives nullptr, and the termination exception goes on to
  unwind any script frames that are left.
- `StackCheck` and `Unwind` are V8's behaviour, not v8go code. `Unwind` is
  mapped to the branch of `RunScript` (:466-469) that calls `ExceptionError`
  when `script->Run` fails.
- `CheckedCall(runsJS, throws)` covers the conversions and object operations
  that call `ToChecked()`.
- `JSONParse(input)` covers `JSONParse`.

### `Arena.tla` — what the registry promises

An abstract specification with no vectors and no pointers:
- handles are handed out (`Alloc(S, a)`) only into an open arena;
- closing an arena (`Close(a)`) ends every live handle it owns, and no other;
- a handle never changes owner and is never released on its own.

`Registry.tla` instantiates it as `Abstract`, with:
- arenas ↦ contexts;
- handles ↦ wrapper identities;
- `arena` ↦ `ctxState`, `handle` ↦ `valState`, `owner` ↦ `valCtx`.

It defines `ImplementsArena == Abstract!ArenaSpec`, which Bridge inherits.

### `RegistryProofs.tla`, `BridgeProofs.tla`, `ArenaProofs.tla`, `ExecutionProofs.tla` — TLAPS proofs

See section 5.

### `MC_Registry.tla`, `MC_Bridge.tla` — model-checking instances

- Two user contexts, as model values, with symmetry. Freeing and allocation
  never depend on a context's name.
- `MaxVals` = 5. `MC_Bridge` also has `MaxDepth` = 3, `MaxArgs` = 1 and
  `MaxQueue` = 1. The run that allows every host misuse uses `MaxVals` = 4.
- `registry` and `bridge_any_host`, which check the refinement, drop the symmetry. A temporal property under
  symmetry is not sound.
- `MC_Execution` has `MaxDepth` = 3: a script, a Go callback, and a script
  that callback runs. Termination can then arrive while the inner run is in
  flight, and must unwind the outer one too.

## 3. Runs

| Run | cfg | Expect | Shows |
|---|---|---|---|
| registry | MC_Registry.cfg | pass (8,301 states) | `TypeOK`, `RegistryExact`, `WrapperLifetime` and `ImplementsArena`, with atomic entry points and a host that may free twice or after dispose |
| registry_refree | MC_Registry_Refree.cfg | violation | `FreeIdempotent`: a second `ContextFree` deletes the `m_ctx` again (spec §3, §8 say it is a no-op) |
| registry_late_free | MC_Registry_LateFree.cfg | violation | `NoFreeAfterDispose`: `ContextFree` after `IsolateDispose` Resets handles of a disposed isolate |
| bridge | MC_Bridge.cfg | pass (186,777 states) | `NoUndefinedBehaviour`: nested callbacks, re-entrant frees and continuations are safe under the discipline. The types and the registries are checked by `bridge_any_host`, whose behaviours include these |
| bridge_any_host | MC_Bridge_AnyHost.cfg | pass (1,002,916 states, about a minute) | `BridgeTypeOK`, `RegistryExact` and `ImplementsArena` under every misuse: each misuse is a fault at the step that commits it, and the bookkeeping still implements Arena |
| bridge_free_in_use | MC_Bridge_FreeInUse.cfg | violation | `ScriptResultContextLive`: a callback frees the running script's context, and RunScript pushes into the deleted `m_ctx` |
| bridge_share_native | MC_Bridge_ShareNative.cfg | violation | `CallbackFindsSandbox`: a shared native runs against its freed creation context |
| bridge_continuation_lost | MC_Bridge_ContinuationLost.cfg | violation | `CallbackFindsSandbox`: a continuation created in the internal context finds no slot 1, or a queued continuation outlives its context. TLC reports the first, which is shorter |
| execution | MC_Execution.cfg | pass (962 states) | `ExecTypeOK`; `TerminationEndsRun`: every script frame in flight when termination is requested eventually leaves the stack, also when the request is taken inside `ExceptionError`'s conversion |
| execution_empty_message | MC_Execution_EmptyMessage.cfg | violation | `ErrorHasMessage`: TLC reports `RunScript` with a source that NewFromUtf8 rejects. It returns the all-null record, with no message (spec §4.4, §7). The property covers two more paths, on longer traces that TLC does not report: `throw ""`, and a terminate request taken in the thrown value's `toString` (:75) |
| execution_stale_terminate | MC_Execution_StaleTerminate.cfg | violation | `TerminationTargetsCurrentRun`: a terminate request made while nothing runs kills the next run (spec §5) |
| execution_engine_fault | MC_Execution_EngineFault.cfg | violation | `NoEngineFault`: a throwing `valueOf` makes `ValueToInt32` call `ToChecked()` on Nothing, or `JSONParse` passes an empty handle to `JSON::Parse`. Both are one step from the initial state; TLC reports the `ToChecked()` one |

The violations and what they show are recorded in PROJECT.json under
"findings".

**Bounds, and why they are enough.**
- Two contexts are the fewest in which one can be freed while the other runs
  and a native can cross between them.
- Three frames allow a script, a callback inside it, and a script run by that
  callback, or a checkpoint with a continuation inside it.
- One argument distinguishes `this` from the arguments.
- Five wrappers cover a callback with an argument plus a result.
- `Room(k)` keeps two wrappers in reserve for each queued continuation. The
  wrapper bound therefore never blocks a checkpoint, and a bounded state is
  never a false deadlock.
- Once the isolate is disposed the model stutters (`Disposed`).

**Mutants.** Each property of each passing run is broken by a plausible slip
in the mapped code. The mutants are listed in PROJECT.json:
- an unbounded `TrackNew`;
- a push into the wrong vector;
- an isolate without its internal context;
- a continuation that is never dequeued;
- arguments that are not tracked;
- a context that is never stamped;
- `ContextFree` that leaves the context live;
- a callback that skips the live check;
- `ExceptionError` with an uninitialised record;
- a stack check that clears the interrupt without throwing.

**Fairness.** Only `ExecSpec` has fairness, because `TerminationEndsRun` is
its only liveness property:
- strong fairness on `StackCheck`: V8 polls the stack guard at every function
  entry and loop back-edge. A script that keeps running therefore takes the
  interrupt, even if it is sometimes in a callback;
- weak fairness on `Unwind`: the engine unwinds on its own;
- strong fairness on `CallbackReturn`: an assumption on the host, that Go
  callbacks return. The C code cannot force a Go function to return, and a
  callback that never returns keeps its script alive forever.

No fairness is given to `Terminate`, `RunScript` or any host action. The Go
side need never call them. A checkpoint's progress likewise depends on the Go
side calling it, so Registry and Bridge assume no fairness and check only
safety.

## 4. Plan

Module order, each composing the ones before it:

1. `Registry` (done).
2. `Bridge` (done): composes Registry with the call stack and the microtask
   queue.
3. `Arena` (done): the abstract specification from spec §9, refined by
   Registry and by Bridge, checked by TLC and proved.
4. `Execution` (done): termination, `ExceptionError`, `CopyString`,
   `JSONParse` and the `ToChecked` aborts.
5. `Threads`: entry points as sequences of steps under and outside the
   `Locker`. This covers `ContextFree` and `IsolateDispose` without a
   `Locker`.
6. Templates (`TemplateSet*`, `TemplateFreeWrapper`) and promise states
   (pending/fulfilled/rejected, resolve/reject, then on a pending promise).

Theorems worth proving next: the invariants of the `Threads` module, once
it is written.

## 5. What is proved

`RegistryProofs.tla` proves four theorems for every value of the constants
allowed by `ConstAssumption`. That assumption requires `Internal` and
`NullCtx` to be distinct from the user contexts, `MaxVals` to be a natural
number, and `HostMay` to be any subset of the behaviours. The theorems hold
for every host behaviour, not only the disciplined one.

- **`TypeCorrect`**: `Spec => []TypeOK`.
- **`RegistryInvariant`**: `Spec => []IInv`.
- **`RegistryExactHolds`**: `Spec => []RegistryExact`.
- **`WrapperLifetimeHolds`**: `Spec => []WrapperLifetime`.

`RegistryExact` and `WrapperLifetime` are not inductive on their own.
`IInv` adds three conjuncts:
- `FreshUnused`: identities at or above `nextVal` are unused. Without it,
  `TrackNew` could append a wrapper that is already in a vector.
- `OwnedByContext`: every allocated wrapper's `ctx` is a real context. This
  makes `ValueContext` agree with `valCtx`.
- `InternalLives`: a live isolate has a live internal context. Without it,
  `IsolateValue` could create a wrapper in a dead context.

The proof has one step per action. Two lemmas show that `TrackNew` and
`Release` preserve `IInv`. They rest on lemmas about `Append` (its range and
injectivity), proved from the library's `SequenceTheorems`. TLC also checked
`IInv` as an invariant before it was proved.

`BridgeProofs.tla` proves two more theorems, under the hypothesis
`HostMay = {}` together with `ConstAssumption` and `BridgeAssumption`:

- **`BridgeInvariant`**: `BridgeSpec => []BInv`.
- **`NoUndefinedBehaviourHolds`**: `BridgeSpec => []NoUndefinedBehaviour`.

So under the discipline no interleaving of nested callbacks, checkpoints and
frees commits a fault, for any number of contexts, wrappers, frames,
arguments or queued continuations.

`NoUndefinedBehaviour` is far from inductive. `BInv` adds to `IInv`:
- `ScriptFramesLive`: every script frame's context is live. This is why
  `ScriptReturn` never pushes into a deleted `m_ctx`.
- `CallableOwn`: `callable[c] ⊆ {c} ∩ Ctx`. A script reaches only its own
  context's natives.
- `ContextsStamped`: every created user context has slot 1. A callback
  therefore always finds its ref.
- `NativesOwned`: natives belong to user contexts.
- `QueueLive`: queued continuations belong to live user contexts.
- `Reserved`: `nextVal + 2·Len(queue) ≤ MaxVals + 1`. This keeps the type
  invariant across a checkpoint.

`BInv` was checked with TLC on the `bridge` instance before it was proved.

The proof has one lemma per action, and each rests on shared lemmas:
- `TrackArgsPreserves`: a callback's fresh wrappers keep `IInv`. It uses a
  lemma that concatenating disjoint injective sequences is injective.
- `EnterCallbackInv`: a callback on a live stamped context commits no fault.
- `PushFrame` and `PopFrame`.
- `ReleaseNoFault`: an exact registry is released without a double delete.
- `StableBridge` and `StackOnlyInv`: steps that leave the rest of the state
  alone.

`BridgeProofs.tla` also proves, for every host behaviour (any `HostMay`):

- **`HostInvariant`**: `BridgeSpec => []HInv`.
- **`BridgeTypeCorrect`**: `BridgeSpec => []BridgeTypeOK`.
- **`BridgeRegistryExact`**: `BridgeSpec => []RegistryExact`.

A misusing host breaks `ScriptFramesLive`, `CallableOwn`, `QueueLive` and
the other fault-free conjuncts of `BInv`. `HInv` keeps only what no misuse
can break:
- `BridgeTypeOK` and `IInv`: the types and the registry invariant;
- `Reserved`: `PromiseThen` asks for three wrappers of room, and a
  checkpoint spends at most the two it frees from the reserve;
- `ScriptFramesOwned`: every script frame names a context, live or not.
  `Frame` lets a frame's context be `NullCtx`, as callback and checkpoint
  frames may have. Without this conjunct, `ScriptReturn` could track its
  result under `NullCtx`, and the types would break.

A faulting step (a callback that finds no sandbox, a return into a freed
context) records the fault and allocates nothing, so `IInv` survives it
(`FaultOnlyIInv`). A host step is a step of `Registry`'s `Next`
(`HostStepIsNext`), so `IInvStep` of `RegistryProofs` covers it. TLC
checked `HInv` first, on the `bridge_any_host` instance (1,002,916 states).

`ArenaProofs.tla` proves that the registry implements Arena:
- **`RegistryRefinesArena`**: `Spec => ImplementsArena`, for every host
  behaviour.
- **`BridgeRefinesArena`**: `BridgeSpec => ImplementsArena`, for every host
  behaviour. Its step lemma rests on `HInv`: a faulting callback or return
  stutters, and an allocating one has a context from `ScriptFramesOwned` or
  from the typed queue, and room from `Reserved`.

The argument follows the usual two steps:
1. `Init` maps to `Abstract!ArenaInit`.
2. Every step of the invariant-satisfying state maps to an Arena step or a
   stutter. There is one step lemma per abstract action:
   - `NewContext` and `NewIsolate` are `Open`;
   - `TrackNew` is `Alloc({nextVal}, c)`;
   - a callback's `TrackArgs` is `Alloc` of the fresh identities;
   - `ContextFree` is `Close(c)`: `RegistryExact` gives exactly the context's
     live wrappers;
   - everything else stutters.

The invariants do not quite suffice. `Open` needs the internal context to be
unused before `NewIsolate`, so the proof adds `BeforeIsolate`
(`iso = "none" => ctxState[Internal] = "unused"`), proved invariant as
`RegistryBeforeIsolate` and `BridgeBeforeIsolate`.

`ExecutionProofs.tla` proves one theorem for every `MaxDepth`:
- **`ExecTypeCorrect`**: `ExecSpec => []ExecTypeOK`. Every record returned
  is a value or a well-formed error, whatever `ExceptionError` converts and
  wherever termination lands. The lemmas `ErrorType` and `ReturnType` type
  the records, and `StackFrames` and `PushType` type the frames.

## 6. Only model-checked, and not modelled

**Only model-checked:**
- the violation runs, which show counterexamples rather than theorems;
- `TerminationEndsRun`, a liveness property under fairness (`execution`).

**Out of the prover's reach:** liveness and ENABLED, induction over data, and
modules with RECURSIVE operators. None are used in the proved modules.

**Not modelled yet:**
- threads: `ContextFree` and `IsolateDispose` called without the isolate's
  `Locker`, racing a script in another thread. Termination from another
  thread is modelled, because it is the one entry point meant for that;
- templates as objects;
- promise states.

**Not modelled by design:**
- value predicates and string conversions, which are single engine reads.
  The numeric conversions are modelled only for their `ToChecked()` abort;
- `JSONStringify`, heap statistics, flags and version (out of the core by
  spec §1).

PROJECT.json lists each of these with its reason.
