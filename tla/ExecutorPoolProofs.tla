------------------------- MODULE ExecutorPoolProofs -------------------------
(***************************************************************************)
(* Theorems about ExecutorPool, for any number of runs and scopes and any  *)
(* bounds on the pools.                                                    *)
(***************************************************************************)
EXTENDS ExecutorPool, FiniteSetTheorems, TLAPS

(* A run that has not got a program yet. *)
Early(r) == pc[r] \in {"idle", "lookedUp", "compiling"}

(* A program does not exist before its run compiled it. *)
FreshInv ==
  \A r \in Runs : Early(r) =>
    /\ eval[r] = "none"
    /\ \A k \in Runs : r \notin free[k]
    /\ \A q \in Runs : prog[q] # r

(* Pools and what is in them belong to one scope. *)
ScopeInv ==
  /\ \A s \in DOMAIN pools : scope[pools[s]] = s
  /\ \A r \in Runs : pc[r] \notin {"idle", "over"} =>
       pool[r] \in Runs /\ scope[pool[r]] = scope[r]
  /\ \A k \in Runs : \A p \in free[k] : scope[p] = scope[k]
  /\ \A r \in Runs : Holding(r) => prog[r] \in Runs
  /\ ScopeIsolated

(* Where a goroutine can be, given where its run is. *)
GoroutineInv ==
  \A r \in Runs :
    /\ pc[r] = "ready" => eval[r] = "none"
    /\ pc[r] \in {"evaluated", "putting"} => eval[r] = "returned"
    /\ eval[r] # "none" => prog[r] \in Runs

(* Whose the slots are while a run's goroutine works with them. *)
SlotInv ==
  \A r \in Runs :
    /\ eval[r] = "started" => args[prog[r]] = r
    /\ eval[r] = "running" => seen[r] = r
    /\ pc[r] = "evaluating" /\ eval[r] \in {"captured", "returned"} => returned[prog[r]] = r
    /\ pc[r] = "evaluated" => returned[prog[r]] = r

IInv ==
  /\ TypeOK /\ FreshInv /\ ScopeInv /\ GoroutineInv /\ SlotInv
  /\ ProgramExclusive /\ NoStrayGoroutine /\ OwnResultReported

-----------------------------------------------------------------------------
(* The invariant is inductive. *)

LEMMA InitInv == Init => IInv
  BY PoolAssumption DEF Init, IInv, TypeOK, FreshInv, ScopeInv, GoroutineInv, SlotInv,
     ProgramExclusive, NoStrayGoroutine, OwnResultReported, ScopeIsolated,
     Holding, Unwinding, Early, Stages, EvalStates, Outcomes

(* Looking up a pool: the map still sends each key to a pool of that scope. *)
LEMMA PoolForInv ==
  ASSUME IInv, NEW r \in Runs, PoolFor(r)
  PROVE  IInv'
  <1> USE DEF IInv
  <1>1. /\ DOMAIN pools' \subseteq Scopes /\ pools' \in [DOMAIN pools' -> Runs]
        /\ scope[r] \in DOMAIN pools'
        /\ \A s \in DOMAIN pools' : scope[pools'[s]] = s
    <2>1. CASE Known(scope[r])
      BY <2>1 DEF PoolFor, Known, TypeOK, ScopeInv
    <2>2. CASE ~Known(scope[r])
      <3>1. pools' = PoolsWith(scope[r], r)
        BY <2>2 DEF PoolFor
      <3>2. PICK kept \in SUBSET DOMAIN pools :
              pools' = [k \in kept \cup {scope[r]} |-> IF k = scope[r] THEN r ELSE pools[k]]
        BY <3>1 DEF PoolsWith
      <3> QED
        BY <3>2 DEF TypeOK, ScopeInv
    <2> QED
      BY <2>1, <2>2
  <1>2. pool'[r] \in Runs /\ scope[pool'[r]] = scope[r]
    BY <1>1 DEF PoolFor, TypeOK
  <1>3. TypeOK'
    BY <1>1, <1>2 DEF TypeOK, PoolFor, Goto, Stages, slotVars, evalVars
  <1>4. FreshInv' /\ GoroutineInv' /\ SlotInv' /\ OwnResultReported'
    BY DEF FreshInv, GoroutineInv, SlotInv, OwnResultReported, Early, PoolFor, Goto, TypeOK,
       slotVars, evalVars
  <1>5. ScopeInv'
    BY <1>1, <1>2 DEF ScopeInv, ScopeIsolated, Holding, PoolFor, Goto, TypeOK
  <1>6. ProgramExclusive' /\ NoStrayGoroutine'
    BY DEF ProgramExclusive, NoStrayGoroutine, Holding, Unwinding, PoolFor, Goto, TypeOK,
       evalVars
  <1> QED
    BY <1>3, <1>4, <1>5, <1>6

(* Taking an idle program: no run and no goroutine had it. *)
LEMMA GetInv ==
  ASSUME IInv, NEW r \in Runs, Get(r)
  PROVE  IInv'
  <1> USE DEF IInv
  <1>1. PICK p \in free[pool[r]] :
          /\ prog' = [prog EXCEPT ![r] = p]
          /\ free' = [free EXCEPT ![pool[r]] = @ \ {p}]
    BY DEF Get
  <1>2. /\ pool[r] \in Runs /\ p \in Runs /\ scope[p] = scope[r]
        /\ \A q \in Runs : Holding(q) => prog[q] # p
        /\ \A q \in Runs : Unwinding(q) => prog[q] # p
        /\ ~Early(p) /\ eval[r] = "none"
    BY <1>1 DEF Get, TypeOK, ScopeInv, ProgramExclusive, NoStrayGoroutine, FreshInv, Early
  <1>3. /\ UNCHANGED <<scope, pools, pool, slotVars, evalVars, outcome, result>>
        /\ pc' = [pc EXCEPT ![r] = "ready"]
    BY DEF Get, Goto
  <1>4. TypeOK'
    BY <1>1, <1>2, <1>3 DEF TypeOK, Stages, slotVars, evalVars
  <1>5. \A k \in Runs : free'[k] = IF k = pool[r] THEN free[k] \ {p} ELSE free[k]
    BY <1>1, <1>2 DEF TypeOK
  <1>6. FreshInv' /\ GoroutineInv'
    BY <1>1, <1>2, <1>3, <1>5 DEF FreshInv, GoroutineInv, Early, TypeOK, evalVars
  <1>7. ScopeInv'
    BY <1>1, <1>2, <1>3, <1>5 DEF ScopeInv, ScopeIsolated, Holding, TypeOK, Get
  <1>8. SlotInv' /\ OwnResultReported'
    BY <1>1, <1>2, <1>3 DEF SlotInv, OwnResultReported, TypeOK, slotVars, evalVars, Get
  <1>9. ProgramExclusive'
    BY <1>1, <1>2, <1>3, <1>5 DEF ProgramExclusive, Holding, TypeOK
  <1>10. NoStrayGoroutine'
    BY <1>1, <1>2, <1>3, <1>5 DEF NoStrayGoroutine, Holding, Unwinding, TypeOK, evalVars
  <1> QED
    BY <1>4, <1>6, <1>7, <1>8, <1>9, <1>10

(* Steps that only move a run on, or end it without its program. *)
LEMMA MoveInv ==
  ASSUME IInv, NEW r \in Runs,
         \/ GetNothing(r) \/ CompileFails(r) \/ EvalReturns(r) \/ EvalFails(r) \/ Abort(r)
  PROVE  IInv'
  <1> USE DEF IInv
  <1>1. /\ UNCHANGED <<scope, poolVars, pool, prog, slotVars, evalVars, result>>
        /\ \/ /\ pc[r] = "lookedUp" /\ pc' = [pc EXCEPT ![r] = "compiling"]
              /\ outcome' = outcome
           \/ /\ pc[r] = "evaluating" /\ eval[r] = "returned"
              /\ pc' = [pc EXCEPT ![r] = "evaluated"] /\ outcome' = outcome
           \/ /\ pc[r] \in {"compiling", "evaluating"} /\ pc' = [pc EXCEPT ![r] = "over"]
              /\ \E class \in {"compile_error", "script_failed", "aborted"} :
                   outcome' = [outcome EXCEPT ![r] = class]
    BY DEF GetNothing, CompileFails, EvalReturns, EvalFails, Abort, Goto, Report
  <1>2. TypeOK'
    BY <1>1 DEF TypeOK, Stages, Outcomes, poolVars, slotVars, evalVars
  <1>3. FreshInv'
    BY <1>1 DEF FreshInv, Early, TypeOK, poolVars, evalVars
  <1>4. GoroutineInv'
    BY <1>1 DEF GoroutineInv, TypeOK, evalVars
  <1>5. ScopeInv'
    BY <1>1 DEF ScopeInv, ScopeIsolated, Holding, TypeOK, poolVars
  <1>6. SlotInv'
    BY <1>1 DEF SlotInv, TypeOK, slotVars, evalVars
  <1>7. ProgramExclusive'
    BY <1>1 DEF ProgramExclusive, Holding, TypeOK, poolVars
  <1>8. NoStrayGoroutine'
    BY <1>1 DEF NoStrayGoroutine, Holding, Unwinding, TypeOK, poolVars, evalVars
  <1>9. OwnResultReported'
    BY <1>1 DEF OwnResultReported, TypeOK
  <1> QED
    BY <1>2, <1>3, <1>4, <1>5, <1>6, <1>7, <1>8, <1>9

(* A compiled program is one nobody has had. *)
LEMMA CompileInv ==
  ASSUME IInv, NEW r \in Runs, Compile(r)
  PROVE  IInv'
  <1> USE DEF IInv
  <1>1. /\ UNCHANGED <<scope, poolVars, pool, slotVars, evalVars, outcome, result>>
        /\ prog' = [prog EXCEPT ![r] = r] /\ pc[r] = "compiling"
        /\ pc' = [pc EXCEPT ![r] = "ready"]
        /\ eval[r] = "none"
        /\ \A k \in Runs : r \notin free[k]
        /\ \A q \in Runs : prog[q] # r
    BY DEF Compile, Goto, FreshInv, Early
  <1>2. TypeOK'
    BY <1>1 DEF TypeOK, Stages, poolVars, slotVars, evalVars
  <1>3. FreshInv' /\ GoroutineInv'
    BY <1>1 DEF FreshInv, GoroutineInv, Early, TypeOK, poolVars, evalVars
  <1>4. ScopeInv'
    BY <1>1 DEF ScopeInv, ScopeIsolated, Holding, TypeOK, poolVars
  <1>5. SlotInv' /\ OwnResultReported'
    BY <1>1 DEF SlotInv, OwnResultReported, TypeOK, slotVars, evalVars
  <1>6. ProgramExclusive' /\ NoStrayGoroutine'
    BY <1>1 DEF ProgramExclusive, NoStrayGoroutine, Holding, Unwinding, TypeOK, poolVars, evalVars
  <1> QED
    BY <1>2, <1>3, <1>4, <1>5, <1>6

(* Filling the slots of a program disturbs no other run. *)
LEMMA EvaluateInv ==
  ASSUME IInv, NEW r \in Runs, Evaluate(r)
  PROVE  IInv'
  <1> USE DEF IInv
  <1>1. /\ UNCHANGED <<scope, poolVars, pool, prog, seen, outcome, result>>
        /\ pc[r] = "ready" /\ pc' = [pc EXCEPT ![r] = "evaluating"]
        /\ eval' = [eval EXCEPT ![r] = "started"]
        /\ args' = [args EXCEPT ![prog[r]] = r]
        /\ returned' = [returned EXCEPT ![prog[r]] = NoRun]
        /\ prog[r] \in Runs
    BY DEF Evaluate, Goto, ScopeInv, Holding
  <1>2. TypeOK'
    BY <1>1 DEF TypeOK, Stages, EvalStates, poolVars
  <1>3. FreshInv' /\ GoroutineInv' /\ OwnResultReported'
    BY <1>1 DEF FreshInv, GoroutineInv, OwnResultReported, Early, TypeOK, poolVars
  <1>4. ScopeInv'
    BY <1>1 DEF ScopeInv, ScopeIsolated, Holding, TypeOK, poolVars
  <1>5. /\ \A q \in Runs \ {r} : Holding(q) \/ Unwinding(q) => prog[q] # prog[r]
        /\ \A k \in Runs : prog[r] \notin free[k]
    BY <1>1 DEF ProgramExclusive, NoStrayGoroutine, Holding
  <1>6. SlotInv'
    BY <1>1, <1>5 DEF SlotInv, Holding, Unwinding, GoroutineInv, TypeOK
  <1>7. ProgramExclusive'
    BY <1>1 DEF ProgramExclusive, Holding, TypeOK, poolVars
  <1>8. NoStrayGoroutine'
    BY <1>1, <1>5 DEF NoStrayGoroutine, Holding, Unwinding, TypeOK, poolVars
  <1> QED
    BY <1>2, <1>3, <1>4, <1>6, <1>7, <1>8

(* Reading the result, then giving the program back. *)
LEMMA FinishInv ==
  ASSUME IInv, NEW r \in Runs, Finish(r)
  PROVE  IInv'
  <1> USE DEF IInv
  <1>1. /\ UNCHANGED <<scope, poolVars, pool, prog, slotVars, evalVars>>
        /\ pc[r] = "evaluated" /\ pc' = [pc EXCEPT ![r] = "putting"]
        /\ \E class \in {"error", "non_serializable_result", "panic", "ok"} :
             outcome' = [outcome EXCEPT ![r] = class]
        /\ result' = [result EXCEPT ![r] = r]
    BY DEF Finish, Goto, Report, SlotInv
  <1>2. TypeOK'
    BY <1>1 DEF TypeOK, Stages, Outcomes, poolVars, slotVars, evalVars
  <1>3. FreshInv' /\ GoroutineInv' /\ OwnResultReported' /\ SlotInv'
    BY <1>1 DEF FreshInv, GoroutineInv, OwnResultReported, SlotInv, Early, TypeOK, poolVars,
       slotVars, evalVars
  <1>4. ScopeInv'
    BY <1>1 DEF ScopeInv, ScopeIsolated, Holding, TypeOK, poolVars
  <1>5. ProgramExclusive' /\ NoStrayGoroutine'
    BY <1>1 DEF ProgramExclusive, NoStrayGoroutine, Holding, Unwinding, TypeOK, poolVars, evalVars
  <1> QED
    BY <1>2, <1>3, <1>4, <1>5

LEMMA PutInv ==
  ASSUME IInv, NEW r \in Runs, Put(r)
  PROVE  IInv'
  <1> USE DEF IInv
  <1>1. /\ UNCHANGED <<scope, pools, pool, prog, slotVars, evalVars, outcome, result>>
        /\ pc[r] = "putting" /\ pc' = [pc EXCEPT ![r] = "over"]
        /\ prog[r] \in Runs /\ pool[r] \in Runs /\ eval[r] = "returned"
        /\ scope[prog[r]] = scope[pool[r]]
    BY DEF Put, Goto, ScopeInv, ScopeIsolated, Holding, GoroutineInv
  <1>2. \A k \in Runs :
          free'[k] = free[k] \/ (k = pool[r] /\ free'[k] = free[k] \cup {prog[r]})
    BY <1>1 DEF Put, TypeOK
  <1>3. TypeOK'
    BY <1>1 DEF Put, TypeOK, Stages, slotVars, evalVars
  <1>4. FreshInv' /\ GoroutineInv' /\ OwnResultReported' /\ SlotInv'
    BY <1>1, <1>2 DEF FreshInv, GoroutineInv, OwnResultReported, SlotInv, Early, TypeOK,
       slotVars, evalVars
  <1>5. ScopeInv'
    BY <1>1, <1>2 DEF ScopeInv, ScopeIsolated, Holding, TypeOK
  <1>6. /\ \A q \in Runs \ {r} : Holding(q) \/ Unwinding(q) => prog[q] # prog[r]
        /\ \A k \in Runs : prog[r] \notin free[k]
    BY <1>1 DEF ProgramExclusive, NoStrayGoroutine, Holding
  <1>7. ProgramExclusive'
    <2>1. \A q, o \in Runs : Holding(q)' /\ Holding(o)' /\ prog'[q] = prog'[o] => q = o
      BY <1>1 DEF ProgramExclusive, Holding, TypeOK
    <2>2. \A q, k \in Runs : Holding(q)' => prog'[q] \notin free'[k]
      BY <1>1, <1>2, <1>6 DEF ProgramExclusive, Holding, TypeOK
    <2>3. \A k, l \in Runs : k # l => free'[k] \cap free'[l] = {}
      BY <1>2, <1>6 DEF ProgramExclusive
    <2> QED
      BY <2>1, <2>2, <2>3 DEF ProgramExclusive
  <1>8. NoStrayGoroutine'
    BY <1>1, <1>2, <1>6 DEF NoStrayGoroutine, Holding, Unwinding, TypeOK, evalVars
  <1> QED
    BY <1>3, <1>4, <1>5, <1>7, <1>8

(* The goroutine writes to a program nobody else has. *)
LEMMA EvalStepInv ==
  ASSUME IInv, NEW r \in Runs, EvalStep(r)
  PROVE  IInv'
  <1> USE DEF IInv
  <1>1. /\ UNCHANGED <<scope, poolVars, pc, pool, prog, args, outcome, result>>
        /\ Unwinding(r) /\ prog[r] \in Runs /\ pc[r] \notin {"evaluated", "putting", "ready"}
        /\ ~Early(r)
        /\ \E e \in {"running", "captured", "returned", "failed"} : eval' = [eval EXCEPT ![r] = e]
    BY DEF EvalStep, ReadArgs, Capture, EvalEnds, Unwinding, GoroutineInv, FreshInv, slotVars
  <1>2. TypeOK'
    BY <1>1 DEF EvalStep, ReadArgs, Capture, EvalEnds, TypeOK, EvalStates, poolVars, slotVars
  <1>3. FreshInv' /\ GoroutineInv' /\ OwnResultReported'
    BY <1>1 DEF FreshInv, GoroutineInv, OwnResultReported, Early, TypeOK, poolVars
  <1>4. ScopeInv' /\ ProgramExclusive'
    BY <1>1 DEF ScopeInv, ScopeIsolated, ProgramExclusive, Holding, poolVars
  <1>5. NoStrayGoroutine'
    BY <1>1 DEF NoStrayGoroutine, Holding, Unwinding, TypeOK, poolVars
  <1>6. SlotInv'
    <2>1. CASE ReadArgs(r)
      BY <1>1, <2>1 DEF ReadArgs, SlotInv, TypeOK, slotVars
    <2>2. CASE Capture(r)
      <3>1. \A q \in Runs \ {r} : pc[q] \in {"evaluating", "evaluated"} => prog[q] # prog[r]
        BY <1>1 DEF NoStrayGoroutine, Holding
      <3> QED
        BY <1>1, <2>2, <3>1 DEF Capture, SlotInv, TypeOK
    <2>3. CASE EvalEnds(r)
      BY <1>1, <2>3 DEF EvalEnds, SlotInv, TypeOK, slotVars
    <2> QED
      BY <2>1, <2>2, <2>3 DEF EvalStep
  <1> QED
    BY <1>2, <1>3, <1>4, <1>5, <1>6

LEMMA NextInv == IInv /\ [Next]_vars => IInv'
  <1>1. IInv /\ UNCHANGED vars => IInv'
    BY DEF IInv, TypeOK, FreshInv, ScopeInv, GoroutineInv, SlotInv, ProgramExclusive,
       NoStrayGoroutine, OwnResultReported, ScopeIsolated, Holding, Unwinding, Early,
       vars, poolVars, slotVars, evalVars
  <1> QED
    BY <1>1, PoolForInv, GetInv, MoveInv, CompileInv, EvaluateInv, FinishInv, PutInv,
       EvalStepInv DEF Next, RunStep

LEMMA InvCorrect == Spec => []IInv
  BY InitInv, NextInv, PTL DEF Spec

-----------------------------------------------------------------------------
(* What the invariant says. *)

(* Every variable keeps its type. *)
THEOREM TypeCorrect == Spec => []TypeOK
  <1>1. IInv => TypeOK
    BY DEF IInv
  <1> QED
    BY <1>1, InvCorrect, PTL

(* No interleaving of runs, dropped pools and cancelled evaluations hands   *)
(* one program to two runs.                                                 *)
THEOREM ProgramExclusiveCorrect == Spec => []ProgramExclusive
  <1>1. IInv => ProgramExclusive
    BY DEF IInv
  <1> QED
    BY <1>1, InvCorrect, PTL

(* A goroutine that outlives its cancelled run is alone with its program.   *)
THEOREM NoStrayGoroutineCorrect == Spec => []NoStrayGoroutine
  <1>1. IInv => NoStrayGoroutine
    BY DEF IInv
  <1> QED
    BY <1>1, InvCorrect, PTL

(* A program never works for a scope other than the one it was compiled     *)
(* for, whatever the cap on pools drops.                                    *)
THEOREM ScopeIsolatedCorrect == Spec => []ScopeIsolated
  <1>1. IInv => ScopeIsolated
    BY DEF IInv, ScopeInv
  <1> QED
    BY <1>1, InvCorrect, PTL

(* No run reports a result computed from the arguments of another.          *)
THEOREM OwnResultReportedCorrect == Spec => []OwnResultReported
  <1>1. IInv => OwnResultReported
    BY DEF IInv
  <1> QED
    BY <1>1, InvCorrect, PTL

-----------------------------------------------------------------------------
(* The bounds on what stays idle. *)

FiniteInv ==
  /\ IsFiniteSet(DOMAIN pools)
  /\ \A k \in Runs : IsFiniteSet(free[k])

(* However runs interleave, no more than MaxPools pools are in the map and  *)
(* none has more than MaxPooledPrograms idle programs.                      *)
THEOREM IdleBoundedCorrect == Spec => []IdleBounded
  <1>1. Init => IdleBounded /\ FiniteInv
    BY FS_EmptySet, PoolAssumption DEF Init, IdleBounded, FiniteInv
  <1>2. IInv /\ FiniteInv /\ IdleBounded /\ [Next]_vars => IdleBounded' /\ FiniteInv'
    <2> SUFFICES ASSUME IInv, FiniteInv, IdleBounded, [Next]_vars
                 PROVE  IdleBounded' /\ FiniteInv'
      OBVIOUS
    <2>1. ASSUME NEW r \in Runs, PoolFor(r)
          PROVE  IdleBounded' /\ FiniteInv'
      <3>1. CASE Known(scope[r])
        BY <2>1, <3>1 DEF PoolFor, IdleBounded, FiniteInv
      <3>2. CASE ~Known(scope[r]) /\ Cardinality(DOMAIN pools) >= MaxPools
        <4>1. DOMAIN pools' = {scope[r]}
          BY <2>1, <3>2 DEF PoolFor, PoolsWith
        <4>2. IsFiniteSet({scope[r]}) /\ Cardinality({scope[r]}) = 1
          BY FS_Singleton
        <4> QED
          BY <2>1, <4>1, <4>2, PoolAssumption DEF PoolFor, IdleBounded, FiniteInv
      <3>3. CASE ~Known(scope[r]) /\ ~(Cardinality(DOMAIN pools) >= MaxPools)
        <4>1. DOMAIN pools' = DOMAIN pools \cup {scope[r]}
          BY <2>1, <3>3 DEF PoolFor, PoolsWith
        <4>2. IsFiniteSet(DOMAIN pools) /\ Cardinality(DOMAIN pools) \in Nat
          BY FS_CardinalityType DEF FiniteInv
        <4>3. /\ IsFiniteSet(DOMAIN pools')
              /\ Cardinality(DOMAIN pools') = Cardinality(DOMAIN pools) + 1
          BY <3>3, <4>1, <4>2, FS_AddElement DEF Known
        <4>4. Cardinality(DOMAIN pools') <= MaxPools
          BY <3>3, <4>2, <4>3, PoolAssumption
        <4> QED
          BY <2>1, <4>3, <4>4 DEF PoolFor, IdleBounded, FiniteInv
      <3> QED
        BY <3>1, <3>2, <3>3
    <2>2. ASSUME NEW r \in Runs, Get(r)
          PROVE  IdleBounded' /\ FiniteInv'
      <3>1. PICK p \in free[pool[r]] : free' = [free EXCEPT ![pool[r]] = @ \ {p}]
        BY <2>2 DEF Get
      <3>2. \A k \in Runs : free'[k] \subseteq free[k]
        BY <3>1 DEF IInv, TypeOK
      <3>3. \A k \in Runs : /\ IsFiniteSet(free'[k])
                            /\ Cardinality(free'[k]) <= Cardinality(free[k])
        BY <3>2, FS_Subset DEF FiniteInv
      <3>4. \A k \in Runs : Cardinality(free[k]) \in Nat /\ Cardinality(free'[k]) \in Nat
        BY <3>3, FS_CardinalityType DEF FiniteInv
      <3>5. pools' = pools
        BY <2>2 DEF Get
      <3>6. ASSUME NEW k \in Runs
            PROVE  Cardinality(free'[k]) <= MaxPooledPrograms
        <4>1. Cardinality(free[k]) <= MaxPooledPrograms
          BY DEF IdleBounded
        <4> QED
          BY <3>3, <3>4, <4>1, PoolAssumption
      <3> QED
        BY <3>3, <3>5, <3>6 DEF IdleBounded, FiniteInv
    <2>3. ASSUME NEW r \in Runs, Put(r)
          PROVE  IdleBounded' /\ FiniteInv'
      <3>1. pools' = pools /\ pool[r] \in Runs
        BY <2>3 DEF Put, IInv, ScopeInv
      <3>2. CASE ~(Cardinality(free[pool[r]]) < MaxPooledPrograms)
        BY <2>3, <3>1, <3>2 DEF Put, IdleBounded, FiniteInv
      <3>3. CASE Cardinality(free[pool[r]]) < MaxPooledPrograms
        <4>1. \A k \in Runs : free'[k] = IF k = pool[r] THEN free[k] \cup {prog[r]} ELSE free[k]
          BY <2>3, <3>1, <3>3 DEF Put, IInv, TypeOK
        <4>2. prog[r] \notin free[pool[r]]
          BY <2>3, <3>1 DEF Put, IInv, ProgramExclusive, Holding
        <4>3. /\ IsFiniteSet(free'[pool[r]])
              /\ Cardinality(free'[pool[r]]) = Cardinality(free[pool[r]]) + 1
          <5>1. IsFiniteSet(free[pool[r]])
            BY <3>1 DEF FiniteInv
          <5>2. free'[pool[r]] = free[pool[r]] \cup {prog[r]}
            BY <3>1, <4>1
          <5>3. /\ IsFiniteSet(free[pool[r]] \cup {prog[r]})
                /\ Cardinality(free[pool[r]] \cup {prog[r]}) = Cardinality(free[pool[r]]) + 1
            BY <5>1, <4>2, FS_AddElement
          <5> QED
            BY <5>2, <5>3
        <4>4. Cardinality(free[pool[r]]) \in Nat
          BY <3>1, FS_CardinalityType DEF FiniteInv
        <4>5. Cardinality(free'[pool[r]]) <= MaxPooledPrograms
          BY <3>3, <4>3, <4>4, PoolAssumption
        <4> QED
          BY <3>1, <4>1, <4>3, <4>5 DEF IdleBounded, FiniteInv
      <3> QED
        BY <3>2, <3>3
    <2>4. ASSUME UNCHANGED poolVars
          PROVE  IdleBounded' /\ FiniteInv'
      BY <2>4 DEF poolVars, IdleBounded, FiniteInv
    <2>5. ASSUME NEW r \in Runs, RunStep(r) \/ EvalStep(r)
          PROVE  PoolFor(r) \/ Get(r) \/ Put(r) \/ UNCHANGED poolVars
      BY <2>5 DEF RunStep, EvalStep, GetNothing, Compile, CompileFails, Evaluate, EvalReturns,
         EvalFails, Abort, Finish, ReadArgs, Capture, EvalEnds
    <2> QED
      BY <2>1, <2>2, <2>3, <2>4, <2>5 DEF Next, vars, poolVars
  <1> QED
    BY <1>1, <1>2, InvCorrect, PTL DEF Spec

-----------------------------------------------------------------------------
(* The executor implements SoloRun. *)

(* A run that is over and left its program fit for another one. *)
(* How a run ends whose evaluation did not fail: the put is deferred.       *)
Ended == Reported \cup {"panic"}
Pooled(q) == pc[q] = "over" /\ outcome[q] \in Ended

(* Who was in a program before: its idle ones and those that runs hold have *)
(* only been in the hands of runs of their scope that ended so.             *)
HeritageInv ==
  /\ \A r \in Runs : prog[r] \in Runs => scope[prog[r]] = scope[r]
  /\ \A k, q \in Runs : prog[q] \in free[k] => Pooled(q)
  /\ \A r, q \in Runs : Holding(r) /\ q # r /\ prog[q] = prog[r] => Pooled(q)

(* What a run has and has reported, given where it is. *)
ReportInv ==
  \A r \in Runs :
    /\ Early(r) => prog[r] = NoRun
    /\ pc[r] \notin {"putting", "over"} => outcome[r] = "none"
    /\ pc[r] = "putting" => outcome[r] \in Ended
    /\ pc[r] = "over" /\ eval[r] \in {"started", "running", "captured"} => outcome[r] = "aborted"

LEMMA ReportNext == IInv /\ ReportInv /\ [Next]_vars => ReportInv'
  <1> SUFFICES ASSUME IInv, ReportInv, [Next]_vars
               PROVE  ReportInv'
    OBVIOUS
  <1> USE DEF IInv, TypeOK, ReportInv, GoroutineInv, FreshInv, Early
  <1>1. ASSUME NEW r \in Runs, RunStep(r)
        PROVE  ReportInv'
    BY <1>1 DEF RunStep, PoolFor, Get, GetNothing, Compile, CompileFails, Evaluate, EvalReturns,
       EvalFails, Abort, Finish, Put, Goto, Report, evalVars, Ended, Reported
  <1>2. ASSUME NEW r \in Runs, EvalStep(r)
        PROVE  ReportInv'
    BY <1>2 DEF EvalStep, ReadArgs, Capture, EvalEnds
  <1>3. CASE UNCHANGED vars
    BY <1>3 DEF vars, evalVars
  <1> QED
    BY <1>1, <1>2, <1>3 DEF Next

LEMMA HeritageNext == IInv /\ HeritageInv /\ ReportInv /\ [Next]_vars => HeritageInv'
  <1> SUFFICES ASSUME IInv, HeritageInv, ReportInv, [Next]_vars
               PROVE  HeritageInv'
    OBVIOUS
  <1> USE DEF IInv, TypeOK, HeritageInv
  <1>1. ASSUME NEW r \in Runs,
               \/ PoolFor(r) \/ GetNothing(r) \/ CompileFails(r) \/ Evaluate(r)
               \/ EvalReturns(r) \/ EvalFails(r) \/ Abort(r) \/ Finish(r) \/ EvalStep(r)
        PROVE  HeritageInv'
    <2>1. UNCHANGED <<scope, free, prog>>
      BY <1>1 DEF PoolFor, GetNothing, CompileFails, Evaluate, EvalReturns, EvalFails, Abort,
         Finish, EvalStep, ReadArgs, Capture, EvalEnds, poolVars
    <2>2. \A q \in Runs : (Pooled(q) => Pooled(q)') /\ (Holding(q)' => Holding(q))
      BY <1>1 DEF PoolFor, GetNothing, CompileFails, Evaluate, EvalReturns, EvalFails, Abort,
         Finish, EvalStep, ReadArgs, Capture, EvalEnds, Goto, Report, Pooled, Holding
    <2> QED
      BY <2>1, <2>2
  <1>2. ASSUME NEW r \in Runs, Get(r)
        PROVE  HeritageInv'
    <2>1. PICK p \in free[pool[r]] :
            prog' = [prog EXCEPT ![r] = p] /\ free' = [free EXCEPT ![pool[r]] = @ \ {p}]
      BY <1>2 DEF Get
    <2>2. /\ pool[r] \in Runs /\ p \in Runs /\ scope[p] = scope[r]
          /\ \A q \in Runs : Holding(q) => prog[q] # p
          /\ \A k \in Runs : p \in free[k] => k = pool[r]
      BY <1>2, <2>1 DEF Get, ScopeInv, ProgramExclusive
    <2>3. /\ UNCHANGED <<scope, outcome>> /\ pc' = [pc EXCEPT ![r] = "ready"]
          /\ pc[r] = "lookedUp"
      BY <1>2 DEF Get, Goto
    <2>4. \A k \in Runs : free'[k] \subseteq free[k] /\ p \notin free'[k]
      BY <2>1, <2>2
    <2>5. \A q \in Runs : (Pooled(q) => Pooled(q)') /\ (q # r => (Holding(q)' <=> Holding(q)))
      BY <2>3 DEF Pooled, Holding
    <2>6. \A q \in Runs \ {r} : prog[q] = p => Pooled(q)
      BY <2>1, <2>2
    <2> QED
      BY <2>1, <2>2, <2>3, <2>4, <2>5, <2>6
  <1>3. ASSUME NEW r \in Runs, Compile(r)
        PROVE  HeritageInv'
    <2>1. /\ UNCHANGED <<scope, free, outcome>> /\ pc[r] = "compiling"
          /\ pc' = [pc EXCEPT ![r] = "ready"] /\ prog' = [prog EXCEPT ![r] = r]
          /\ \A k \in Runs : r \notin free[k]
          /\ \A q \in Runs : prog[q] # r
      BY <1>3 DEF Compile, Goto, FreshInv, Early, poolVars
    <2>2. \A q \in Runs : (Pooled(q) => Pooled(q)') /\ (q # r => (Holding(q)' <=> Holding(q)))
      BY <2>1 DEF Pooled, Holding
    <2> QED
      BY <2>1, <2>2
  <1>4. ASSUME NEW r \in Runs, Put(r)
        PROVE  HeritageInv'
    <2>1. /\ UNCHANGED <<scope, prog, outcome>> /\ pc' = [pc EXCEPT ![r] = "over"]
          /\ pc[r] = "putting" /\ pool[r] \in Runs
          /\ \A k \in Runs : free'[k] \subseteq free[k] \cup {prog[r]}
      BY <1>4 DEF Put, Goto, ScopeInv
    <2>2. \A q \in Runs : (Pooled(q) => Pooled(q)') /\ (Holding(q)' => Holding(q))
      BY <2>1 DEF Pooled, Holding
    <2>3. Pooled(r)'
      BY <2>1 DEF Pooled, ReportInv
    <2>4. \A q \in Runs : prog[q] = prog[r] => Pooled(q)'
      BY <2>1, <2>2, <2>3 DEF Holding
    <2> QED
      BY <2>1, <2>2, <2>4
  <1>5. CASE UNCHANGED vars
    BY <1>5 DEF vars, poolVars, Pooled, Holding
  <1> QED
    BY <1>1, <1>2, <1>3, <1>4, <1>5 DEF Next, RunStep

(* What SoloRun sees of the runs that ended so. *)
CleanRuns == {q \in Runs : pc[q] = "over" /\ outcome[q] \in Reported}
PanickedRuns == {q \in Runs : pc[q] = "over" /\ outcome[q] = "panic"}

(* The function SoloRun sees as heritage. *)
Before == [r \in Runs |-> {q \in Runs : Holding(r) /\ q # r /\ prog[q] = prog[r]}]

(* A program that is taken was last in the hands of such runs, or is new.   *)
LEMMA TakesProgram ==
  ASSUME IInv, HeritageInv, ReportInv, NEW r \in Runs, Get(r) \/ Compile(r)
  PROVE  Promise!Take(r)
  <1> USE DEF IInv, TypeOK
  <1>1. /\ UNCHANGED <<scope, outcome, result, eval>> /\ pc' = [pc EXCEPT ![r] = "ready"]
        /\ ~Holding(r) /\ outcome[r] = "none" /\ pc[r] # "over"
    BY DEF Get, Compile, Goto, Holding, evalVars, ReportInv
  <1>2. \A q \in Runs \ {r} : (Holding(q)' <=> Holding(q)) /\ pc'[q] = pc[q]
    BY <1>1 DEF Holding
  <1>3. PICK p \in Runs :
          /\ prog' = [prog EXCEPT ![r] = p]
          /\ \A q \in Runs : Holding(q) => prog[q] # p
          /\ \A q \in Runs \ {r} : prog[q] = p => Pooled(q) /\ scope[q] = scope[r]
    <2>1. CASE Get(r)
      <3>1. PICK p \in free[pool[r]] : prog' = [prog EXCEPT ![r] = p]
        BY <2>1 DEF Get
      <3>2. pool[r] \in Runs /\ scope[p] = scope[r] /\ p \in Runs
        BY <2>1, <3>1 DEF Get, ScopeInv
      <3>3. \A q \in Runs : Holding(q) => prog[q] # p
        BY <3>1, <3>2 DEF ProgramExclusive
      <3>4. \A q \in Runs \ {r} : prog[q] = p => Pooled(q)
        BY <3>1, <3>2 DEF HeritageInv
      <3>5. \A q \in Runs \ {r} : prog[q] = p => scope[q] = scope[r]
        BY <3>2 DEF HeritageInv
      <3> QED
        BY <3>1, <3>2, <3>3, <3>4, <3>5
    <2>2. CASE Compile(r)
      BY <2>2 DEF Compile, FreshInv, Early
    <2> QED
      BY <2>1, <2>2
  <1> DEFINE earlier == {q \in Runs \ {r} : prog[q] = p}
  <1>4. earlier \in SUBSET {q \in CleanRuns \cup PanickedRuns : scope[q] = scope[r]}
    BY <1>3 DEF Pooled, Ended, CleanRuns, PanickedRuns
  <1>5. prog[r] = NoRun
    BY DEF Get, Compile, ReportInv, Early
  <1>6. Before' = [Before EXCEPT ![r] = earlier]
    <2> SUFFICES ASSUME NEW e \in Runs
                 PROVE  Before'[e] = [Before EXCEPT ![r] = earlier][e]
      BY DEF Before
    <2>1. CASE e = r
      BY <1>1, <1>3, <2>1 DEF Before, Holding
    <2>2. CASE e # r
      <3>1. Holding(e) => prog[r] # prog[e] /\ prog'[r] # prog'[e]
        BY <1>3, <1>5, <2>2, PoolAssumption DEF ScopeInv
      <3>2. {q \in Runs : Holding(e)' /\ q # e /\ prog'[q] = prog'[e]}
              = {q \in Runs : Holding(e) /\ q # e /\ prog[q] = prog[e]}
        BY <1>2, <1>3, <2>2, <3>1
      <3> QED
        BY <2>2, <3>2 DEF Before
    <2> QED
      BY <2>1, <2>2
  <1>7. {q \in Runs : Holding(q)}' = {q \in Runs : Holding(q)} \cup {r}
    BY <1>1, <1>2 DEF Holding
  <1>8. UNCHANGED <<CleanRuns, PanickedRuns>>
    BY <1>1, <1>2 DEF CleanRuns, PanickedRuns
  <1> QED
    BY <1>1, <1>4, <1>6, <1>7, <1>8 DEF Promise!Take, Before, CleanRuns, PanickedRuns

(* Steps before a program is taken, and in it, that SoloRun does not see. *)
LEMMA UnseenSteps ==
  ASSUME IInv, NEW r \in Runs,
         \/ PoolFor(r) \/ GetNothing(r) \/ Evaluate(r) \/ EvalReturns(r) \/ ReadArgs(r)
         \/ EvalEnds(r)
  PROVE  UNCHANGED Promise!vars
  <1> USE DEF IInv, TypeOK
  <1>1. UNCHANGED <<scope, prog, outcome, result>>
    BY DEF PoolFor, GetNothing, Evaluate, EvalReturns, ReadArgs, EvalEnds
  <1>2. \A q \in Runs :
          /\ Holding(q)' <=> Holding(q)
          /\ pc'[q] = "over" <=> pc[q] = "over"
          /\ eval'[q] \in {"captured", "returned"} <=> eval[q] \in {"captured", "returned"}
    BY DEF PoolFor, GetNothing, Evaluate, EvalReturns, ReadArgs, EvalEnds, Goto, Holding,
       evalVars, GoroutineInv
  <1> QED
    BY <1>1, <1>2 DEF Promise!vars

(* What an evaluation captures, and what becomes of it. *)
LEMMA RunProceeds ==
  ASSUME IInv, ReportInv, NEW r \in Runs, CompileFails(r) \/ Capture(r) \/ Finish(r)
  PROVE  \/ Promise!NothingToTake(r) \/ Promise!Compute(r)
         \/ Promise!Complete(r) \/ Promise!Panic(r)
  <1> USE DEF IInv, TypeOK
  <1>1. UNCHANGED <<scope, prog>>
    BY DEF CompileFails, Capture, Finish
  <1>2. \A q \in Runs : Holding(q)' <=> Holding(q)
    BY DEF CompileFails, Capture, Finish, Goto, Holding
  <1>3. UNCHANGED Before
    BY <1>1, <1>2 DEF Before
  <1>4. \A q \in Runs :
          /\ pc'[q] = "over" /\ outcome'[q] \in Reported
               <=> pc[q] = "over" /\ outcome[q] \in Reported
          /\ pc'[q] = "over" /\ outcome'[q] = "panic"
               <=> pc[q] = "over" /\ outcome[q] = "panic"
    BY DEF CompileFails, Capture, Finish, Goto, Report, Reported
  <1>5. CASE CompileFails(r)
    BY <1>1, <1>2, <1>3, <1>4, <1>5 DEF CompileFails, Report, ReportInv, Holding, Before, evalVars,
       Promise!NothingToTake
  <1>6. CASE Capture(r)
    <2>1. Holding(r) \/ outcome[r] = "aborted"
      BY <1>6 DEF Capture, GoroutineInv, ReportInv, FreshInv, Early, Stages, Holding
    <2>2. {q \in Runs : eval[q] \in {"captured", "returned"}}'
            = {q \in Runs : eval[q] \in {"captured", "returned"}} \cup {r}
      BY <1>6 DEF Capture
    <2> QED
      BY <1>1, <1>2, <1>3, <1>4, <1>6, <2>1, <2>2 DEF Capture, Before, Promise!Compute
  <1>7. CASE Finish(r)
    <2>1. Holding(r) /\ eval[r] = "returned" /\ outcome[r] = "none"
      BY <1>7 DEF Finish, Holding, GoroutineInv, ReportInv
    <2>2. /\ result' = [result EXCEPT ![r] = r] /\ UNCHANGED eval
          /\ \/ \E class \in Reported : outcome' = [outcome EXCEPT ![r] = class]
             \/ outcome' = [outcome EXCEPT ![r] = "panic"]
      BY <1>7 DEF Finish, Report, SlotInv, Reported, evalVars
    <2>3. r \in {q \in Runs : Holding(q)} \cap {q \in Runs : eval[q] \in {"captured", "returned"}}
      BY <2>1
    <2> QED
      BY <1>1, <1>2, <1>3, <1>4, <2>1, <2>2, <2>3
         DEF Before, Reported, Promise!Reported, Promise!Complete, Promise!Panic
  <1> QED
    BY <1>5, <1>6, <1>7

(* A run leaves its program, fit for another or to nobody. *)
LEMMA RunLeaves ==
  ASSUME IInv, ReportInv, NEW r \in Runs, EvalFails(r) \/ Abort(r) \/ Put(r)
  PROVE  Promise!LeaveClean(r) \/ Promise!LeavePanicked(r) \/ Promise!Quit(r)
  <1> USE DEF IInv, TypeOK
  <1>1. /\ UNCHANGED <<scope, prog, result, eval>> /\ pc' = [pc EXCEPT ![r] = "over"]
        /\ Holding(r) /\ pc[r] # "over"
    BY DEF EvalFails, Abort, Put, Goto, Holding, evalVars
  <1>2. ~Holding(r)' /\ \A q \in Runs \ {r} : (Holding(q)' <=> Holding(q)) /\ pc'[q] = pc[q]
    BY <1>1 DEF Holding
  <1>3. Before' = [Before EXCEPT ![r] = {}]
    <2> SUFFICES ASSUME NEW e \in Runs
                 PROVE  Before'[e] = [Before EXCEPT ![r] = {}][e]
      BY DEF Before
    <2> QED
      BY <1>1, <1>2 DEF Before
  <1>4. Promise!Leave(r)
    BY <1>1, <1>2, <1>3 DEF Promise!Leave, Before
  <1>5. CASE Put(r)
    <2>1. outcome[r] \in Ended /\ UNCHANGED outcome
      BY <1>5 DEF Put, ReportInv
    <2>2. CASE outcome[r] \in Reported
      <3>1. CleanRuns' = CleanRuns \cup {r} /\ PanickedRuns' = PanickedRuns
        BY <1>1, <1>2, <2>1, <2>2 DEF CleanRuns, PanickedRuns, Reported
      <3> QED
        BY <1>1, <1>4, <2>1, <2>2, <3>1
           DEF CleanRuns, PanickedRuns, Reported, Promise!Reported, Promise!LeaveClean
    <2>3. CASE outcome[r] = "panic"
      <3>1. CleanRuns' = CleanRuns /\ PanickedRuns' = PanickedRuns \cup {r}
        BY <1>1, <1>2, <2>1, <2>3 DEF CleanRuns, PanickedRuns, Reported
      <3> QED
        BY <1>1, <1>4, <2>1, <2>3, <3>1 DEF CleanRuns, PanickedRuns, Promise!LeavePanicked
    <2> QED
      BY <2>1, <2>2, <2>3 DEF Ended
  <1>6. CASE EvalFails(r) \/ Abort(r)
    <2>1. /\ outcome[r] = "none"
          /\ \/ outcome' = [outcome EXCEPT ![r] = "aborted"]
             \/ eval[r] = "failed" /\ outcome' = [outcome EXCEPT ![r] = "script_failed"]
      BY <1>6 DEF EvalFails, Abort, Report, ReportInv
    <2>2. outcome'[r] \notin Ended /\ \A q \in Runs \ {r} : outcome'[q] = outcome[q]
      BY <2>1 DEF Ended, Reported
    <2>3. UNCHANGED <<CleanRuns, PanickedRuns>>
      BY <1>1, <1>2, <2>2 DEF Ended, CleanRuns, PanickedRuns
    <2> QED
      BY <1>1, <1>4, <2>1, <2>3 DEF CleanRuns, PanickedRuns, Promise!Quit
  <1> QED
    BY <1>5, <1>6

(* Every step of a run or of its goroutine is a step of SoloRun or changes  *)
(* nothing in it.                                                           *)
LEMMA StepSimulation ==
  ASSUME IInv, HeritageInv, ReportInv, [Next]_vars
  PROVE  [Promise!Next]_(Promise!vars)
  <1>1. CASE \E r \in Runs : Get(r) \/ Compile(r)
    BY <1>1, TakesProgram DEF Promise!Next
  <1>2. CASE \E r \in Runs : CompileFails(r) \/ Capture(r) \/ Finish(r)
    BY <1>2, RunProceeds DEF Promise!Next
  <1>3. CASE \E r \in Runs : EvalFails(r) \/ Abort(r) \/ Put(r)
    BY <1>3, RunLeaves DEF Promise!Next
  <1>4. CASE UNCHANGED vars
    BY <1>4 DEF vars, evalVars, Holding, Promise!vars
  <1> QED
    BY <1>1, <1>2, <1>3, <1>4, UnseenSteps DEF Next, RunStep, EvalStep

(* For any number of runs and scopes and any bounds on the pools: a run     *)
(* works alone in its program, meets only what runs of its own scope left   *)
(* there whose evaluation ended without an error (and which reported, or    *)
(* panicked afterwards), and reports what its own evaluation computed.      *)
THEOREM SoloRunCorrect == Spec => ImplementsSoloRun
  <1>1. Init => Promise!Init
    BY DEF Init, Promise!Init, Holding
  <1>2. Init => HeritageInv /\ ReportInv
    BY PoolAssumption DEF Init, HeritageInv, ReportInv, Holding
  <1>3. IInv /\ HeritageInv /\ ReportInv /\ [Next]_vars => [Promise!Next]_(Promise!vars)
    BY StepSimulation
  <1> QED
    BY <1>1, <1>2, <1>3, HeritageNext, ReportNext, InvCorrect, PTL
       DEF Spec, ImplementsSoloRun, Promise!Spec
=============================================================================
