------------------------------ MODULE WasmGuard -------------------------------
(***************************************************************************)
(* A WASM guard instance (internal/guard/wasm_*.go) shared by the requests *)
(* of a server: one module, entered by one caller at a time under g.mu,    *)
(* that may call back into the caller's own backend while it runs.  What   *)
(* the guest computes is a choice; what is modelled is who runs it, with   *)
(* whose backend and for how long.  Buffer sizes are counted in units of   *)
(* the initial 4 MB.                                                       *)
(***************************************************************************)
EXTENDS Naturals

CONSTANTS
  Callers,          \* requests that call the guard
  MaxBackendCalls,  \* maxBackendCallsPerInvocation (50)
  MaxAttempts,      \* maxRetries of callWasmFunction (3)
  MaxOutput,        \* wasmMaxOutputSize in units of wasmInitialOutputSize (4)
  RequiredSizes,    \* sizes a guest asks for with -2; 0 when it does not say
  NoCaller          \* nobody

ASSUME WasmGuardAssumption ==
  /\ MaxBackendCalls \in Nat /\ MaxAttempts \in Nat \ {0} /\ MaxOutput \in Nat \ {0}
  /\ RequiredSizes \subseteq Nat
  /\ NoCaller \notin Callers

VARIABLES
  guard,    \* the instance: mutex holder, g.backend, backendCallCount, attempt, buffer, failed
  module,   \* "open", or "closed" once the runtime has torn the module down
  gone      \* callers whose context is done

guardVars == <<guard, module, gone>>

\* NewWasmGuardWithOptions has succeeded: a guard that fails to load is closed
\* and never used.
GuardInit ==
  /\ guard = [holder |-> NoCaller, backend |-> NoCaller, calls |-> 0,
              attempt |-> 0, size |-> 0, failed |-> FALSE]
  /\ module = "open"
  /\ gone = {}

\* Mutant: the guest runs under the context of its caller.
ExecContextOfCaller(c) == IF c \in gone THEN {} ELSE {"cancelable"}

\* wasmExecContext: a caller that is already gone is refused, any other runs
\* under a context it cannot cancel.
WasmExecContext(c) == IF c \in gone THEN {} ELSE {"withoutCancel"}

\* The caller's context ends.  WithCloseOnContextDone closes a module that
\* runs under a context that can be cancelled.
CallerGone(c) ==
  /\ c \notin gone
  /\ gone' = gone \union {c}
  /\ module' = IF guard.holder = c /\ "cancelable" \in WasmExecContext(c)
               THEN "closed" ELSE module
  /\ UNCHANGED guard

\* callWasmGuardFunction: lock, check the context, set the backend, reset the
\* counter and make the first attempt of callWasmFunction.
GuardEnter(c) ==
  /\ guard.holder = NoCaller /\ WasmExecContext(c) # {} /\ ~guard.failed /\ module = "open"
  /\ guard' = [guard EXCEPT !.holder = c, !.backend = c, !.calls = 0, !.attempt = 1, !.size = 1]
  /\ UNCHANGED <<module, gone>>

\* The call ends before the guest runs: the context is done, the guard has
\* failed or the input is too large.
GuardRefuses(c) ==
  /\ guard.holder = NoCaller
  /\ guard' = IF WasmExecContext(c) # {} THEN [guard EXCEPT !.backend = c] ELSE guard
  /\ UNCHANGED <<module, gone>>

\* hostCallBackend: counts first, then calls the backend of the instance;
\* past the limit the guest gets an error instead.
HostCallBackend(c) ==
  /\ guard.holder = c /\ guard.calls <= MaxBackendCalls
  /\ guard' = [guard EXCEPT !.calls = @ + 1]
  /\ UNCHANGED <<module, gone>>

BackendCallAllowed == guard.calls < MaxBackendCalls

\* The guest answered -2: try again with the size it asks for, or double.
NextSize(required) == IF required = 0 THEN guard.size * 2 ELSE required

CanRetry(required) == NextSize(required) <= MaxOutput /\ guard.attempt < MaxAttempts

GuardRetries(c) ==
  /\ guard.holder = c
  /\ \E required \in RequiredSizes :
       /\ CanRetry(required)
       /\ guard' = [guard EXCEPT !.attempt = @ + 1, !.size = NextSize(required)]
  /\ UNCHANGED <<module, gone>>

\* The guard is left: with a result, or with an error (also a buffer that can
\* grow no more).  The backend reference stays behind; the call's counters are
\* dead.
Unlocked == [guard EXCEPT !.holder = NoCaller, !.calls = 0, !.attempt = 0, !.size = 0]

GuardLeaves(c) ==
  /\ guard.holder = c
  /\ guard' = Unlocked
  /\ UNCHANGED <<module, gone>>

\* A trap in the guest poisons the instance.
GuardTraps(c) ==
  /\ guard.holder = c
  /\ guard' = [Unlocked EXCEPT !.failed = TRUE]
  /\ UNCHANGED <<module, gone>>

GuardTypeOK ==
  /\ guard \in [holder : Callers \union {NoCaller}, backend : Callers \union {NoCaller},
                calls : 0..MaxBackendCalls + 1, attempt : 0..MaxAttempts, size : 0..MaxOutput,
                failed : BOOLEAN]
  /\ module \in {"open", "closed"}
  /\ gone \subseteq Callers

===============================================================================
