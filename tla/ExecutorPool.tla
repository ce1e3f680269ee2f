---------------------------- MODULE ExecutorPool ----------------------------
(***************************************************************************)
(* The executor's pools of compiled programs (executor.go).  A run looks   *)
(* up the pool of its scope (script digest, tenant and principal), takes   *)
(* an idle program or compiles one, fills the program's slots, evaluates   *)
(* it in a goroutine the interpreter owns, reads the result out of the     *)
(* slots and gives the program back if the evaluation ended without error. *)
(* A cancelled evaluation returns while its goroutine is still unwinding.  *)
(*                                                                         *)
(* A run creates at most one pool and compiles at most one program, so     *)
(* both are named by that run.                                             *)
(***************************************************************************)
EXTENDS Integers, FiniteSets

CONSTANTS Runs,              \* calls to executor.run
          NoRun,             \* nobody
          Scopes,            \* pool keys
          MaxPools,          \* maxPools
          MaxPooledPrograms  \* maxPooledPrograms

ASSUME PoolAssumption ==
  /\ NoRun \notin Runs
  /\ MaxPools \in Nat \ {0} /\ MaxPooledPrograms \in Nat \ {0}

VARIABLES
  scope,    \* the pool key of each run
  pools,    \* executor.pools: from pool keys to pools
  free,     \* programPool.free, of every pool, dropped ones included
  pc,       \* where each run is in executor.run
  pool,     \* the pool each run looked up
  prog,     \* the program each run works with
  args,     \* program slots api, params and env: whose they are
  returned, \* program slots returned and returnErr: from whose arguments
  eval,     \* the interpreter's goroutine of each run
  seen,     \* whose arguments that goroutine was handed
  outcome,  \* what the run reported
  result    \* and from whose arguments that was computed

poolVars == <<pools, free>>
slotVars == <<args, returned>>
evalVars == <<eval, seen>>
vars == <<scope, poolVars, pc, pool, prog, slotVars, evalVars, outcome, result>>

Stages == {"idle", "lookedUp", "compiling", "ready", "evaluating", "evaluated",
           "putting", "over"}
EvalStates == {"none", "started", "running", "captured", "returned", "failed"}
Outcomes == {"none", "compile_error", "aborted", "script_failed", "error",
             "non_serializable_result", "panic", "ok"}

Init ==
  /\ scope \in [Runs -> Scopes]
  /\ pools = [s \in {} |-> NoRun]
  /\ free = [p \in Runs |-> {}]
  /\ pc = [r \in Runs |-> "idle"]
  /\ pool = [r \in Runs |-> NoRun] /\ prog = [r \in Runs |-> NoRun]
  /\ args = [p \in Runs |-> NoRun] /\ returned = [p \in Runs |-> NoRun]
  /\ eval = [r \in Runs |-> "none"] /\ seen = [r \in Runs |-> NoRun]
  /\ outcome = [r \in Runs |-> "none"] /\ result = [r \in Runs |-> NoRun]

Goto(r, stage) == pc' = [pc EXCEPT ![r] = stage]

Report(r, class) == outcome' = [outcome EXCEPT ![r] = class]

-----------------------------------------------------------------------------
(* The pools. *)

Known(s) == s \in DOMAIN pools

(* The map poolFor leaves: past the cap it starts again from nothing. *)
PoolsWith(s, new) ==
  LET kept == IF Cardinality(DOMAIN pools) >= MaxPools THEN {} ELSE DOMAIN pools
  IN  [k \in kept \cup {s} |-> IF k = s THEN new ELSE pools[k]]

(* Mutant: the key leaves the scope out, so any pool there is will do. *)
MutPoolFor(r) ==
  LET key == IF DOMAIN pools = {} THEN scope[r] ELSE CHOOSE s \in DOMAIN pools : TRUE
  IN  /\ pc[r] = "idle"
      /\ pools' = IF Known(key) THEN pools ELSE PoolsWith(key, r)
      /\ pool' = [pool EXCEPT ![r] = pools'[key]]
      /\ Goto(r, "lookedUp")
      /\ UNCHANGED <<scope, free, prog, slotVars, evalVars, outcome, result>>

PoolFor(r) ==
  /\ pc[r] = "idle"
  /\ pools' = IF Known(scope[r]) THEN pools ELSE PoolsWith(scope[r], r)
  /\ pool' = [pool EXCEPT ![r] = pools'[scope[r]]]
  /\ Goto(r, "lookedUp")
  /\ UNCHANGED <<scope, free, prog, slotVars, evalVars, outcome, result>>

(* Mutant: the program taken stays in the pool. *)
MutGet(r) ==
  /\ pc[r] = "lookedUp"
  /\ \E p \in free[pool[r]] : prog' = [prog EXCEPT ![r] = p]
  /\ Goto(r, "ready")
  /\ UNCHANGED <<scope, poolVars, pool, slotVars, evalVars, outcome, result>>

(* Which idle program is taken makes no difference: any of them. *)
Get(r) ==
  /\ pc[r] = "lookedUp"
  /\ \E p \in free[pool[r]] :
       /\ prog' = [prog EXCEPT ![r] = p]
       /\ free' = [free EXCEPT ![pool[r]] = @ \ {p}]
  /\ Goto(r, "ready")
  /\ UNCHANGED <<scope, pools, pool, slotVars, evalVars, outcome, result>>

GetNothing(r) ==
  /\ pc[r] = "lookedUp"
  /\ free[pool[r]] = {}
  /\ Goto(r, "compiling")
  /\ UNCHANGED <<scope, poolVars, pool, prog, slotVars, evalVars, outcome, result>>

(* Mutant: a pool is never full. *)
MutPut(r) ==
  /\ pc[r] = "putting"
  /\ free' = [free EXCEPT ![pool[r]] = @ \cup {prog[r]}]
  /\ Goto(r, "over")
  /\ UNCHANGED <<scope, pools, pool, prog, slotVars, evalVars, outcome, result>>

(* The deferred put: a full pool lets the program go. *)
Put(r) ==
  /\ pc[r] = "putting"
  /\ free' = IF Cardinality(free[pool[r]]) < MaxPooledPrograms
               THEN [free EXCEPT ![pool[r]] = @ \cup {prog[r]}]
               ELSE free
  /\ Goto(r, "over")
  /\ UNCHANGED <<scope, pools, pool, prog, slotVars, evalVars, outcome, result>>

-----------------------------------------------------------------------------
(* A run. *)

Compile(r) ==
  /\ pc[r] = "compiling"
  /\ prog' = [prog EXCEPT ![r] = r]
  /\ Goto(r, "ready")
  /\ UNCHANGED <<scope, poolVars, pool, slotVars, evalVars, outcome, result>>

(* Mutant: the put is deferred before the error is looked at. *)
MutCompileFails(r) ==
  /\ pc[r] = "compiling"
  /\ Report(r, "compile_error")
  /\ Goto(r, "putting")
  /\ UNCHANGED <<scope, poolVars, pool, prog, slotVars, evalVars, result>>

CompileFails(r) ==
  /\ pc[r] = "compiling"
  /\ Report(r, "compile_error")
  /\ Goto(r, "over")
  /\ UNCHANGED <<scope, poolVars, pool, prog, slotVars, evalVars, result>>

(* Fill the slots and start the interpreter's goroutine. *)
Evaluate(r) ==
  /\ pc[r] = "ready"
  /\ args' = [args EXCEPT ![prog[r]] = r]
  /\ returned' = [returned EXCEPT ![prog[r]] = NoRun]
  /\ eval' = [eval EXCEPT ![r] = "started"]
  /\ Goto(r, "evaluating")
  /\ UNCHANGED <<scope, poolVars, pool, prog, seen, outcome, result>>

(* The evaluation ended without an error: the program will be reused. *)
EvalReturns(r) ==
  /\ pc[r] = "evaluating" /\ eval[r] = "returned"
  /\ Goto(r, "evaluated")
  /\ UNCHANGED <<scope, poolVars, pool, prog, slotVars, evalVars, outcome, result>>

EvalFails(r) ==
  /\ pc[r] = "evaluating" /\ eval[r] = "failed"
  /\ Report(r, "script_failed")
  /\ Goto(r, "over")
  /\ UNCHANGED <<scope, poolVars, pool, prog, slotVars, evalVars, result>>

(* Mutant: a cancelled program is pooled like any other. *)
MutAbort(r) ==
  /\ pc[r] = "evaluating"
  /\ Report(r, "aborted")
  /\ Goto(r, "putting")
  /\ UNCHANGED <<scope, poolVars, pool, prog, slotVars, evalVars, result>>

(* The deadline passes or the request is cancelled: EvalWithContext returns *)
(* whatever the goroutine is doing, and the program is left to it.          *)
Abort(r) ==
  /\ pc[r] = "evaluating"
  /\ Report(r, "aborted")
  /\ Goto(r, "over")
  /\ UNCHANGED <<scope, poolVars, pool, prog, slotVars, evalVars, result>>

(* The result is read out of the slots.  Calling Error or marshalling the   *)
(* value runs foreign code: a panic there is recovered, and the deferred    *)
(* put runs all the same.                                                   *)
Finish(r) ==
  /\ pc[r] = "evaluated"
  /\ \E class \in {"error", "non_serializable_result", "panic", "ok"} : Report(r, class)
  /\ result' = [result EXCEPT ![r] = returned[prog[r]]]
  /\ Goto(r, "putting")
  /\ UNCHANGED <<scope, poolVars, pool, prog, slotVars, evalVars>>

-----------------------------------------------------------------------------
(* The interpreter's goroutine running the trampoline, which cancellation   *)
(* does not join: it may take these steps after the run is over.            *)

(* Mutant: the bridge binds the arguments of the run that compiled. *)
MutReadArgs(r) ==
  /\ eval[r] = "started"
  /\ eval' = [eval EXCEPT ![r] = "running"]
  /\ seen' = [seen EXCEPT ![r] = prog[r]]
  /\ UNCHANGED <<scope, poolVars, pc, pool, prog, slotVars, outcome, result>>

ReadArgs(r) ==
  /\ eval[r] = "started"
  /\ eval' = [eval EXCEPT ![r] = "running"]
  /\ seen' = [seen EXCEPT ![r] = args[prog[r]]]
  /\ UNCHANGED <<scope, poolVars, pc, pool, prog, slotVars, outcome, result>>

Capture(r) ==
  /\ eval[r] = "running"
  /\ eval' = [eval EXCEPT ![r] = "captured"]
  /\ returned' = [returned EXCEPT ![prog[r]] = seen[r]]
  /\ UNCHANGED <<scope, poolVars, pc, pool, prog, args, seen, outcome, result>>

EvalEnds(r) ==
  /\ \/ eval[r] = "captured" /\ eval' = [eval EXCEPT ![r] = "returned"]
     \/ eval[r] = "running" /\ eval' = [eval EXCEPT ![r] = "failed"]
  /\ UNCHANGED <<scope, poolVars, pc, pool, prog, slotVars, seen, outcome, result>>

RunStep(r) ==
  \/ PoolFor(r) \/ Get(r) \/ GetNothing(r) \/ Compile(r) \/ CompileFails(r)
  \/ Evaluate(r) \/ EvalReturns(r) \/ EvalFails(r) \/ Abort(r) \/ Finish(r) \/ Put(r)

EvalStep(r) == ReadArgs(r) \/ Capture(r) \/ EvalEnds(r)

Next == \E r \in Runs : RunStep(r) \/ EvalStep(r)

Spec == Init /\ [][Next]_vars

-----------------------------------------------------------------------------
(* Properties. *)

TypeOK ==
  /\ scope \in [Runs -> Scopes]
  /\ DOMAIN pools \subseteq Scopes /\ pools \in [DOMAIN pools -> Runs]
  /\ free \in [Runs -> SUBSET Runs]
  /\ pc \in [Runs -> Stages]
  /\ pool \in [Runs -> Runs \cup {NoRun}] /\ prog \in [Runs -> Runs \cup {NoRun}]
  /\ args \in [Runs -> Runs \cup {NoRun}] /\ returned \in [Runs -> Runs \cup {NoRun}]
  /\ eval \in [Runs -> EvalStates] /\ seen \in [Runs -> Runs \cup {NoRun}]
  /\ outcome \in [Runs -> Outcomes] /\ result \in [Runs -> Runs \cup {NoRun}]

(* A run has its program between taking it and giving it back or leaving it. *)
Holding(r) == pc[r] \in {"ready", "evaluating", "evaluated", "putting"}

(* A goroutine of the interpreter that may still touch its program's slots. *)
Unwinding(r) == eval[r] \in {"started", "running", "captured"}

(* A program "is checked out of a pool for exactly one execution at a time":*)
(* no two runs hold it, and an idle one is held by none and is in one pool, *)
(* pools dropped from the map included.                                     *)
ProgramExclusive ==
  /\ \A r, q \in Runs : Holding(r) /\ Holding(q) /\ prog[r] = prog[q] => r = q
  /\ \A r, k \in Runs : Holding(r) => prog[r] \notin free[k]
  /\ \A k, l \in Runs : k # l => free[k] \cap free[l] = {}

(* "A pooled-back program could still have that goroutine write this run's  *)
(* result slots underneath the NEXT run": no goroutine is left in a program *)
(* that is idle or that another run holds.                                  *)
NoStrayGoroutine ==
  \A r, p \in Runs :
    Unwinding(r) /\ prog[r] = p =>
      /\ \A k \in Runs : p \notin free[k]
      /\ \A q \in Runs \ {r} : Holding(q) => prog[q] # p

(* "A principal-less run must never inherit a prior principal assertion":   *)
(* a program only ever works for the scope it was compiled for.             *)
ScopeIsolated == \A r \in Runs : Holding(r) => scope[prog[r]] = scope[r]

(* What a run reports was computed from its own arguments. *)
OwnResultReported ==
  \A r \in Runs : outcome[r] \in {"ok", "error", "non_serializable_result"} => result[r] = r

(* The runs whose evaluation ended without an error and which reported what *)
(* it returned, an error of the script's own included.                      *)
Reported == {"ok", "error", "non_serializable_result"}

(* The runs as SoloRun sees them; a program remembers every run it had. *)
Promise ==
  INSTANCE SoloRun WITH
    working <- {r \in Runs : Holding(r)},
    heritage <- [r \in Runs |->
                   {q \in Runs : Holding(r) /\ q # r /\ prog[q] = prog[r]}],
    computed <- {r \in Runs : eval[r] \in {"captured", "returned"}},
    clean <- {r \in Runs : pc[r] = "over" /\ outcome[r] \in Reported},
    panicked <- {r \in Runs : pc[r] = "over" /\ outcome[r] = "panic"},
    source <- result

(* "Scripts may retain package state", yet no run meets that of another     *)
(* scope, of a run whose evaluation failed or was cut short, or of one      *)
(* still going on.  It may meet that of a run that panicked once its        *)
(* evaluation was over (LeavePanicked): PanickedNotPooled does not hold.    *)
ImplementsSoloRun == Promise!Spec

(* The idle programs a customer's process keeps are bounded. *)
IdleBounded ==
  /\ Cardinality(DOMAIN pools) <= MaxPools
  /\ \A k \in Runs : Cardinality(free[k]) <= MaxPooledPrograms

(* executor.go on a panic escaping the interpreter: "The program is         *)
(* deliberately NOT pooled here - its interpreter state is unknown."        *)
PanickedNotPooled ==
  \A r, k \in Runs : outcome[r] = "panic" /\ pc[r] = "over" => prog[r] \notin free[k]
=============================================================================
