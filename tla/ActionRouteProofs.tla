------------------------- MODULE ActionRouteProofs -------------------------
(***************************************************************************)
(* Theorems about ActionRoute, for any number of invocations and requests  *)
(* and any delays.                                                         *)
(***************************************************************************)
EXTENDS ActionRoute, NonceStoreProofs, TLAPS

(* The instant until which a nonce is remembered at least: ClockSkew past   *)
(* issued_at, and what the steps of the wall clock leave of the second.     *)
Remembered == [n \in Invocations |-> issued[n] + ClockSkew + Second - Swing]

(* Who has recorded a nonce, given where it is, and that every entry of the *)
(* store is of a request whose record it has not lost.                      *)
StageInv ==
  /\ \A q \in Requests :
       /\ pc[q] \in {"idle", "reading", "checked"} => q \notin consumers
       /\ pc[q] \in {"resolving", "starting", "running", "reporting"} => q \in consumers \ lost
       /\ pc[q] = "resolving" => q \notin ran
       /\ answer[q] # "none" => pc[q] = "answered"
  /\ \A n \in DOMAIN expiries : \E r \in consumers \ lost : carries[r] = n

(* Past the check, issued_at is as close as the two clocks let it be. *)
CheckedInv ==
  \A q \in Requests : pc[q] = "checked" =>
    /\ since[q] >= issued[carries[q]] - ClockSkew - Swing
    /\ since[q] <= issued[carries[q]] + ClockSkew
    /\ since[q] <= now /\ now <= since[q] + Lag

(* An entry lasts until Remembered, and is pruned only after. *)
EntryInv ==
  /\ \A n \in DOMAIN expiries : expiries[n] >= Remembered[n]
  /\ \A q \in consumers \ lost :
       carries[q] \in DOMAIN expiries \/ now >= Remembered[carries[q]]

OneConsumer ==
  SpareCoversStalls => \A q, r \in consumers \ lost : SameNonce(q, r) => q = r

(* What ended an execution, and what ended its context. *)
CauseInv ==
  \A q \in Requests :
    /\ outcome[q] # "none" => pc[q] = "reporting"
    /\ outcome[q] = "timeout" => ctx[q] = "expired" \/ now >= since[q] + Timeout
    /\ pc[q] = "idle" => ctx[q] = "live"
    /\ ctx[q] = "expired" => now >= arrived[q] + TotalDeadline

IInv ==
  /\ TypeOK /\ StageInv /\ CheckedInv /\ EntryInv /\ OneConsumer /\ CauseInv
  /\ ReplayedOnlyAfterConsumed

-----------------------------------------------------------------------------
(* The nonce store. *)

(* What Add leaves of every entry, and what it forgets. *)
LEMMA AddedEntries ==
  ASSUME TypeOK, NEW n \in Invocations, NEW t \in Nat
  PROVE  /\ DOMAIN Added(expiries, n, t) = Live(expiries, t) \cup {n}
         /\ Added(expiries, n, t) \in [Live(expiries, t) \cup {n} -> Nat]
         /\ \A m \in Live(expiries, t) : Added(expiries, n, t)[m] = expiries[m]
         /\ n \notin Live(expiries, t) => Added(expiries, n, t)[n] = t + Ttl
  <1>1. \A m \in Live(expiries, t) : m \in DOMAIN expiries /\ expiries[m] \in Nat
    BY DEF Live, TypeOK
  <1> QED
    BY <1>1, TtlType DEF Added

(* A nonce Add finds is one that somebody recorded. *)
LEMMA ReplayedInv ==
  ASSUME IInv, NEW q \in Requests, Replayed(q)
  PROVE  IInv'
  <1> USE DEF IInv
  <1> DEFINE n == carries[q]
  <1>1. PICK t \in since[q]..now : Seen(expiries, n, t) /\ expiries' = Added(expiries, n, t)
    BY DEF Replayed
  <1>2. t \in Nat /\ t <= now /\ n \in Invocations
    BY <1>1 DEF TypeOK
  <1>3. /\ DOMAIN expiries' = Live(expiries, t)
        /\ \A m \in Live(expiries, t) : expiries'[m] = expiries[m]
        /\ expiries' \in [DOMAIN expiries' -> Nat]
    <2>1. n \in Live(expiries, t) /\ Live(expiries, t) \cup {n} = Live(expiries, t)
      BY <1>1 DEF Seen
    <2> QED
      BY <1>1, <1>2, <2>1, AddedEntries
  <1>4. DOMAIN expiries' \subseteq DOMAIN expiries /\ n \in DOMAIN expiries
    BY <1>1, <1>3 DEF Live, Seen
  <1>5. /\ UNCHANGED <<clockVars, inputVars, historyVars>>
        /\ pc[q] = "checked" /\ pc' = [pc EXCEPT ![q] = "answered"]
        /\ answer' = [answer EXCEPT ![q] = "replayed"] /\ ctx' = [ctx EXCEPT ![q] = "live"]
        /\ arrived' = [arrived EXCEPT ![q] = 0] /\ since' = [since EXCEPT ![q] = 0]
        /\ outcome' = [outcome EXCEPT ![q] = "none"]
    BY DEF Replayed, Answer, Goto
  <1>6. TypeOK'
    BY <1>3, <1>4, <1>5 DEF TypeOK, Stages, Contexts, Answers, Outcomes, clockVars, inputVars,
       historyVars
  <1>7. StageInv'
    BY <1>4, <1>5 DEF StageInv, TypeOK, inputVars, historyVars
  <1>8. CheckedInv' /\ CauseInv'
    BY <1>5 DEF CheckedInv, CauseInv, TypeOK, clockVars, inputVars
  <1>9. EntryInv'
    <2>1. ASSUME NEW m \in DOMAIN expiries, m \notin Live(expiries, t)
          PROVE  now >= Remembered[m]
      <3>1. m \in Invocations /\ expiries[m] \in Nat /\ expiries[m] <= t /\ expiries[m] >= Remembered[m]
        BY <1>2, <2>1 DEF Live, EntryInv, TypeOK
      <3>2. Remembered[m] \in Int /\ now \in Nat
        BY <3>1, SkewAssumption, ActionAssumption DEF Remembered, TypeOK
      <3> QED
        BY <1>2, <3>1, <3>2
    <2>2. Remembered' = Remembered
      BY <1>5 DEF Remembered, inputVars
    <2>3. \A m \in DOMAIN expiries' : expiries'[m] >= Remembered'[m]
      BY <1>3, <1>4, <2>2 DEF EntryInv
    <2>4. \A r \in consumers' \ lost' :
            carries'[r] \in DOMAIN expiries' \/ now' >= Remembered'[carries'[r]]
      BY <1>3, <1>5, <2>1, <2>2 DEF EntryInv, clockVars, inputVars, historyVars
    <2> QED
      BY <2>3, <2>4 DEF EntryInv
  <1>10. OneConsumer'
    BY <1>5 DEF OneConsumer, SameNonce, inputVars, historyVars
  <1>11. ReplayedOnlyAfterConsumed'
    <2>1. \E r \in consumers \ {q} : SameNonce(q, r)
      BY <1>4, <1>5 DEF StageInv, SameNonce
    <2> QED
      BY <1>5, <2>1 DEF ReplayedOnlyAfterConsumed, SameNonce, TypeOK, inputVars, historyVars
  <1> QED
    BY <1>6, <1>7, <1>8, <1>9, <1>10, <1>11

(* A nonce Add records is one that nobody has, as far as the store goes. *)
LEMMA ConsumeInv ==
  ASSUME IInv, NEW q \in Requests, Consume(q)
  PROVE  IInv'
  <1> USE DEF IInv
  <1> DEFINE n == carries[q]
  <1>1. PICK t \in since[q]..now : ~Seen(expiries, n, t) /\ expiries' = Added(expiries, n, t)
    BY DEF Consume
  <1>2. t \in Nat /\ t <= now /\ n \in Invocations /\ now \in Nat /\ since[q] \in Nat
    BY <1>1 DEF TypeOK
  <1>3. /\ DOMAIN expiries' = Live(expiries, t) \cup {n}
        /\ \A m \in Live(expiries, t) : expiries'[m] = expiries[m]
        /\ expiries'[n] = t + Ttl
        /\ expiries' \in [DOMAIN expiries' -> Nat]
        /\ n \notin Live(expiries, t)
    BY <1>1, <1>2, AddedEntries DEF Seen
  <1>4. Live(expiries, t) \subseteq DOMAIN expiries
    BY DEF Live
  <1>5. /\ UNCHANGED <<clockVars, inputVars, ctx, arrived, since, outcome, answer, ran, lost>>
        /\ consumers' = consumers \cup {q}
        /\ pc[q] = "checked" /\ pc' = [pc EXCEPT ![q] = "resolving"]
        /\ q \notin consumers /\ q \notin lost
    BY DEF Consume, Goto, StageInv, TypeOK
  <1>6. TypeOK'
    BY <1>2, <1>3, <1>4, <1>5 DEF TypeOK, Stages, clockVars, inputVars
  <1>7. StageInv'
    BY <1>3, <1>4, <1>5 DEF StageInv, TypeOK, inputVars
  <1>8. CheckedInv' /\ CauseInv'
    BY <1>5 DEF CheckedInv, CauseInv, TypeOK, clockVars, inputVars
  <1>9. \A m \in Invocations : Remembered[m] \in Int
    BY SkewAssumption, ActionAssumption DEF Remembered, TypeOK
  <1>10. ASSUME NEW m \in DOMAIN expiries, m \notin Live(expiries, t)
         PROVE  now >= Remembered[m] /\ t >= Remembered[m]
    <2>1. expiries[m] \in Nat /\ expiries[m] <= t /\ expiries[m] >= Remembered[m]
      BY <1>2, <1>10 DEF Live, EntryInv, TypeOK
    <2> QED
      BY <1>2, <1>9, <2>1 DEF TypeOK
  <1>11. since[q] >= issued[n] - ClockSkew - Swing /\ now <= issued[n] + ClockSkew + Lag
    <2>1. issued[n] \in Int
      BY <1>2, ActionAssumption DEF TypeOK
    <2> QED
      BY <1>2, <1>5, <2>1, SkewAssumption, ActionAssumption DEF CheckedInv
  <1>12. EntryInv'
    <2>1. t + Ttl >= Remembered[n]
      <3>1. issued[n] \in Int /\ t >= since[q]
        BY <1>1, <1>2, ActionAssumption DEF TypeOK
      <3> QED
        BY <1>2, <1>11, <3>1, SkewAssumption, ActionAssumption DEF Ttl, Remembered
    <2>2. Remembered' = Remembered
      BY <1>5 DEF Remembered, inputVars
    <2>3. \A m \in DOMAIN expiries' : expiries'[m] >= Remembered'[m]
      BY <1>3, <1>4, <2>1, <2>2 DEF EntryInv
    <2>4. \A r \in consumers' \ lost' :
            carries'[r] \in DOMAIN expiries' \/ now' >= Remembered'[carries'[r]]
      BY <1>3, <1>5, <1>10, <2>2 DEF EntryInv, inputVars, clockVars
    <2> QED
      BY <2>3, <2>4 DEF EntryInv
  <1>13. OneConsumer'
    <2> SUFFICES ASSUME SpareCoversStalls, NEW r \in consumers \ lost, carries[r] = n
                 PROVE  FALSE
      BY <1>5 DEF OneConsumer, SameNonce, SpareCoversStalls, inputVars
    <2>1. now < Remembered[n]
      <3>1. issued[n] \in Int
        BY <1>2, ActionAssumption DEF TypeOK
      <3> QED
        BY <1>2, <1>11, <3>1, SkewAssumption, ActionAssumption DEF SpareCoversStalls, Remembered
    <2>2. n \in DOMAIN expiries
      BY <1>2, <1>9, <2>1 DEF EntryInv
    <2> QED
      BY <1>2, <1>3, <1>9, <1>10, <2>1, <2>2
  <1>14. ReplayedOnlyAfterConsumed'
    BY <1>5 DEF ReplayedOnlyAfterConsumed, SameNonce, inputVars
  <1> QED
    BY <1>6, <1>7, <1>8, <1>12, <1>13, <1>14

-----------------------------------------------------------------------------
(* The other steps leave the store alone, or lose it. *)

LEMMA InitInv == Init => IInv
  BY ActionAssumption DEF Init, IInv, TypeOK, StageInv, CheckedInv, EntryInv, OneConsumer,
     CauseInv, ReplayedOnlyAfterConsumed, EmptyStore, Stages, Contexts, Outcomes, Answers

(* The parts of the invariant that speak of the store and its history. *)
LEMMA StoreKept ==
  ASSUME IInv, UNCHANGED <<expiries, inputVars, consumers, lost>>, now' \in Nat, now' >= now
  PROVE  EntryInv' /\ OneConsumer'
  <1>1. Remembered' = Remembered /\ \A m \in Invocations : Remembered[m] \in Int
    BY SkewAssumption, ActionAssumption DEF IInv, TypeOK, Remembered, inputVars
  <1>2. /\ \A q \in consumers : carries[q] \in Invocations
        /\ DOMAIN expiries \subseteq Invocations /\ now \in Nat
    BY DEF IInv, TypeOK
  <1>3. EntryInv'
    <2>1. \A m \in DOMAIN expiries' : expiries'[m] >= Remembered'[m]
      BY <1>1, <1>2 DEF IInv, EntryInv
    <2>2. \A q \in consumers' \ lost' :
            carries'[q] \in DOMAIN expiries' \/ now' >= Remembered'[carries'[q]]
      <3> SUFFICES ASSUME NEW q \in consumers \ lost, carries[q] \notin DOMAIN expiries
                   PROVE  now' >= Remembered'[carries[q]]
        BY DEF inputVars
      <3>1. now >= Remembered[carries[q]] /\ carries[q] \in Invocations
        BY <1>2 DEF IInv, EntryInv
      <3> QED
        BY <1>1, <1>2, <3>1
    <2> QED
      BY <2>1, <2>2 DEF EntryInv
  <1> QED
    BY <1>3 DEF IInv, OneConsumer, SameNonce, inputVars

LEMMA CheckInv ==
  ASSUME IInv, NEW q \in Requests, Check(q)
  PROVE  IInv'
  <1> USE DEF IInv
  <1>1. /\ UNCHANGED <<clockVars, inputVars, expiries, ctx, arrived, outcome, answer, historyVars>>
        /\ pc[q] = "reading" /\ pc' = [pc EXCEPT ![q] = "checked"]
        /\ since' = [since EXCEPT ![q] = now]
        /\ Wall - issued[carries[q]] \in -ClockSkew..ClockSkew
    BY DEF Check, Goto, Fresh
  <1>2. /\ issued[carries[q]] \in Int /\ now \in Nat /\ offset \in 0..Swing
    BY ActionAssumption DEF TypeOK
  <1>3. /\ now >= issued[carries[q]] - ClockSkew - Swing
        /\ now <= issued[carries[q]] + ClockSkew
    BY <1>1, <1>2, SkewAssumption, ActionAssumption DEF Wall
  <1>4. TypeOK'
    BY <1>1, <1>2 DEF TypeOK, Stages, clockVars, inputVars, historyVars
  <1>5. StageInv' /\ ReplayedOnlyAfterConsumed'
    BY <1>1 DEF StageInv, ReplayedOnlyAfterConsumed, SameNonce, TypeOK, inputVars, historyVars
  <1>6. CheckedInv'
    BY <1>1, <1>2, <1>3, ActionAssumption DEF CheckedInv, TypeOK, clockVars, inputVars
  <1>7. CauseInv'
    BY <1>1 DEF CauseInv, TypeOK, clockVars
  <1>8. EntryInv' /\ OneConsumer'
    BY <1>1, <1>2, StoreKept DEF clockVars, historyVars
  <1> QED
    BY <1>4, <1>5, <1>6, <1>7, <1>8

(* Steps of one request that touch neither clock nor store. *)
LEMMA RequestInv ==
  ASSUME IInv, NEW q \in Requests,
         \/ Arrive(q) \/ Refuse(q) \/ ResolveFails(q) \/ AnswerDryRun(q) \/ Execute(q)
         \/ Start(q) \/ RunEnds(q) \/ Abort(q) \/ Report(q) \/ Expire(q) \/ ClientGone(q)
  PROVE  IInv'
  <1> USE DEF IInv
  <1>1. UNCHANGED <<clockVars, inputVars, expiries, consumers, lost>>
    BY DEF Arrive, Refuse, ResolveFails, AnswerDryRun, Execute, Start, RunEnds, Abort, Report,
       Expire, ClientGone, historyVars
  <1>2. TypeOK'
    BY DEF TypeOK, Arrive, Refuse, ResolveFails, AnswerDryRun, Execute, Start, RunEnds, Abort,
       Report, Expire, ClientGone, Goto, Answer, Conclude, StageInv, Stages, Contexts, Outcomes,
       Answers, clockVars, inputVars, historyVars
  <1>3. /\ pc'[q] # "checked" \/ (pc'[q] = pc[q] /\ since'[q] = since[q])
        /\ \A r \in Requests \ {q} :
             /\ pc'[r] = pc[r] /\ since'[r] = since[r] /\ arrived'[r] = arrived[r]
             /\ ctx'[r] = ctx[r] /\ outcome'[r] = outcome[r] /\ answer'[r] = answer[r]
        /\ answer'[q] # "replayed" \/ answer'[q] = answer[q]
    BY DEF TypeOK, Arrive, Refuse, ResolveFails, AnswerDryRun, Execute, Start, RunEnds, Abort,
       Report, Expire, ClientGone, Goto, Answer, Conclude, Outcomes
  <1>4. StageInv'
    <2>1. ran' \subseteq ran \cup {q}
      BY DEF Arrive, Refuse, ResolveFails, AnswerDryRun, Execute, Start, RunEnds, Abort, Report,
         Expire, ClientGone, historyVars
    <2>2. /\ pc'[q] \in {"idle", "reading", "checked"} => q \notin consumers
          /\ pc'[q] \in {"resolving", "starting", "running", "reporting"}
               => q \in consumers \ lost
      BY DEF StageInv, TypeOK, Arrive, Refuse, ResolveFails, AnswerDryRun, Execute, Start,
         RunEnds, Abort, Report, Expire, ClientGone, Goto, Answer, Conclude
    <2>3. pc'[q] = "resolving" => q \notin ran'
      BY DEF StageInv, TypeOK, Arrive, Refuse, ResolveFails, AnswerDryRun, Execute, Start,
         RunEnds, Abort, Report, Expire, ClientGone, Goto, Answer, Conclude, historyVars
    <2>4. answer'[q] # "none" => pc'[q] = "answered"
      BY DEF StageInv, TypeOK, Arrive, Refuse, ResolveFails, AnswerDryRun, Execute, Start,
         RunEnds, Abort, Report, Expire, ClientGone, InProcess, Goto, Answer, Conclude
    <2> QED
      BY <1>1, <1>3, <2>1, <2>2, <2>3, <2>4 DEF StageInv, inputVars
  <1>5. CheckedInv'
    BY <1>1, <1>3 DEF CheckedInv, clockVars, inputVars
  <1>6. EntryInv' /\ OneConsumer'
    BY <1>1, StoreKept DEF TypeOK, clockVars
  <1>7. CauseInv'
    <2>1. /\ outcome'[q] # "none" => pc'[q] = "reporting"
          /\ pc'[q] = "idle" => ctx'[q] = "live"
      BY DEF CauseInv, TypeOK, Arrive, Refuse, ResolveFails, AnswerDryRun, Execute, Start,
         RunEnds, Abort, Report, Expire, ClientGone, InProcess, Goto, Answer, Conclude
    <2>2. outcome'[q] = "timeout" => ctx'[q] = "expired" \/ now >= since'[q] + Timeout
      BY DEF CauseInv, TypeOK, Arrive, Refuse, ResolveFails, AnswerDryRun, Execute, Start,
         RunEnds, Abort, Report, Expire, ClientGone, InProcess, Goto, Answer, Conclude
    <2>3. ctx'[q] = "expired" => now >= arrived'[q] + TotalDeadline
      BY DEF CauseInv, TypeOK, Arrive, Refuse, ResolveFails, AnswerDryRun, Execute, Start,
         RunEnds, Abort, Report, Expire, ClientGone, InProcess, Goto, Answer, Conclude
    <2> QED
      BY <1>1, <1>3, <2>1, <2>2, <2>3 DEF CauseInv, clockVars
  <1>8. ReplayedOnlyAfterConsumed'
    BY <1>1, <1>3 DEF ReplayedOnlyAfterConsumed, SameNonce, inputVars
  <1> QED
    BY <1>2, <1>4, <1>5, <1>6, <1>7, <1>8

(* Clocks and stuttering. *)
LEMMA TimeInv ==
  ASSUME IInv, Tick \/ StepClock \/ UNCHANGED vars
  PROVE  IInv'
  <1> USE DEF IInv
  <1>1. /\ UNCHANGED <<inputVars, expiries, pc, ctx, arrived, since, outcome, answer, historyVars>>
        /\ now' \in {now, now + 1} /\ now \in Nat
        /\ now' = now \/ \A q \in Requests : pc[q] = "checked" => now < since[q] + Lag
        /\ offset' \in 0..Swing
    BY DEF Tick, StepClock, vars, clockVars, TypeOK
  <1>2. TypeOK'
    BY <1>1 DEF TypeOK, inputVars, historyVars
  <1>3. StageInv' /\ ReplayedOnlyAfterConsumed'
    BY <1>1 DEF StageInv, ReplayedOnlyAfterConsumed, SameNonce, inputVars, historyVars
  <1>4. CheckedInv' /\ CauseInv'
    BY <1>1, ActionAssumption DEF CheckedInv, CauseInv, TypeOK, inputVars
  <1>5. EntryInv' /\ OneConsumer'
    BY <1>1, StoreKept DEF historyVars
  <1> QED
    BY <1>2, <1>3, <1>4, <1>5

(* With the in-process store its whole history is lost. *)
LEMMA RestartInv ==
  ASSUME IInv, Restart
  PROVE  IInv'
  <1> USE DEF IInv
  <1>1. /\ UNCHANGED <<clockVars, inputVars, answer, consumers, ran>>
        /\ \A q \in Requests : pc'[q] = IF InProcess(q) THEN "dropped" ELSE pc[q]
        /\ \A q \in Requests : ctx'[q] = "live" /\ outcome'[q] = "none"
        /\ \/ UNCHANGED <<expiries, lost>>
           \/ expiries' = EmptyStore /\ lost' = consumers
    BY DEF Restart
  <1>2. TypeOK'
    BY <1>1 DEF TypeOK, Restart, Stages, Contexts, Outcomes, EmptyStore, clockVars, inputVars
  <1>3. StageInv' /\ ReplayedOnlyAfterConsumed'
    BY <1>1 DEF StageInv, ReplayedOnlyAfterConsumed, SameNonce, InProcess, EmptyStore, inputVars
  <1>4. CheckedInv' /\ CauseInv'
    BY <1>1 DEF CheckedInv, CauseInv, InProcess
  <1>5. EntryInv' /\ OneConsumer'
    BY <1>1 DEF EntryInv, OneConsumer, SameNonce, Remembered, EmptyStore, clockVars, inputVars
  <1> QED
    BY <1>2, <1>3, <1>4, <1>5

LEMMA NextInv == IInv /\ [Next]_vars => IInv'
  BY CheckInv, ReplayedInv, ConsumeInv, RequestInv, TimeInv, RestartInv DEF Next, RouteStep

LEMMA InvCorrect == Spec => []IInv
  BY InitInv, NextInv, PTL DEF Spec

-----------------------------------------------------------------------------
(* What the invariant says. *)

(* Every variable keeps its type. *)
THEOREM TypeCorrect == Spec => []TypeOK
  <1>1. IInv => TypeOK
    BY DEF IInv
  <1> QED
    BY <1>1, InvCorrect, PTL

(* However often, late or concurrently the bytes of an invocation arrive,   *)
(* it is executed at most once in the life of its nonce store, provided     *)
(* stalls and steps of the wall clock stay below the spare second.          *)
THEOREM AtMostOnceCorrect ==
  ASSUME SpareCoversStalls
  PROVE  Spec => []AtMostOnce
  <1>1. IInv => AtMostOnce
    BY DEF IInv, OneConsumer, AtMostOnce, TypeOK
  <1> QED
    BY <1>1, InvCorrect, PTL

(* No first delivery is refused as a replay. *)
THEOREM ReplayedOnlyAfterConsumedCorrect == Spec => []ReplayedOnlyAfterConsumed
  <1>1. IInv => ReplayedOnlyAfterConsumed
    BY DEF IInv
  <1> QED
    BY <1>1, InvCorrect, PTL

(* The timeout an answer names is the one that had passed. *)
THEOREM TimeoutNamesItsCauseCorrect == Spec => TimeoutNamesItsCause
  <1> DEFINE Named == \A q \in Requests : answer[q] = "none" =>
                        /\ answer'[q] = "timeout" => now >= since[q] + Timeout
                        /\ answer'[q] = "total_timeout" => now >= arrived[q] + TotalDeadline
  <1>1. ASSUME IInv, Next, NEW q \in Requests, answer[q] = "none"
        PROVE  /\ answer'[q] = "timeout" => now >= since[q] + Timeout
               /\ answer'[q] = "total_timeout" => now >= arrived[q] + TotalDeadline
    <2>1. CASE Report(q)
      BY <1>1, <2>1 DEF Report, Answer, IInv, CauseInv, TypeOK, Outcomes
    <2>2. CASE ~Report(q)
      <3>1. answer'[q] \notin {"timeout", "total_timeout"}
        BY <1>1, <2>2 DEF Next, RouteStep, Arrive, Refuse, Check, Replayed, Consume, ResolveFails,
           AnswerDryRun, Execute, Start, RunEnds, Abort, Report, Expire, ClientGone, StepClock,
           Tick, Restart, Answer, IInv, TypeOK
      <3> QED
        BY <3>1
    <2> QED
      BY <2>1, <2>2
  <1>2. IInv /\ [Next]_vars => [Named]_vars
    BY <1>1
  <1> QED
    BY <1>2, InvCorrect, PTL DEF Spec, TimeoutNamesItsCause

-----------------------------------------------------------------------------
(* The route implements OneShot. *)

(* Steps of the route that OneShot does not see. *)
LEMMA UnseenSteps ==
  ASSUME IInv, NEW q \in Requests,
         \/ Arrive(q) \/ Refuse(q) \/ Check(q) \/ ResolveFails(q) \/ AnswerDryRun(q)
         \/ Start(q) \/ RunEnds(q) \/ Abort(q) \/ Report(q) \/ Expire(q) \/ ClientGone(q)
  PROVE  UNCHANGED Promise!vars
  <1>1. UNCHANGED <<inputVars, historyVars>>
    BY DEF Arrive, Refuse, Check, ResolveFails, AnswerDryRun, Start, RunEnds, Abort, Report,
       Expire, ClientGone
  <1>2. \A r \in Requests : answer'[r] = "replayed" <=> answer[r] = "replayed"
    BY DEF IInv, TypeOK, StageInv, CauseInv, Outcomes, Arrive, Refuse, Check, ResolveFails,
       AnswerDryRun, Start, RunEnds, Abort, Report, Expire, ClientGone, Answer
  <1> QED
    BY <1>1, <1>2 DEF Promise!vars, inputVars, historyVars

(* A nonce is consumed by nobody a second time, and before execution. *)
LEMMA ClaimAndExecute ==
  ASSUME SpareCoversStalls, IInv, IInv', NEW q \in Requests, Consume(q) \/ Execute(q)
  PROVE  Promise!Claim(q) \/ Promise!Execute(q)
  <1>1. UNCHANGED <<inputVars, answer, lost>>
    BY DEF Consume, Execute
  <1>2. CASE Consume(q)
    <2>1. /\ q \notin consumers /\ q \notin lost /\ consumers' = consumers \cup {q} /\ ran' = ran
      BY <1>2 DEF Consume, IInv, StageInv, TypeOK
    <2>2. \A r \in consumers \ lost : carries[r] # carries[q]
      BY <1>1, <2>1 DEF IInv, OneConsumer, SameNonce, SpareCoversStalls, inputVars
    <2> QED
      BY <1>1, <2>1, <2>2 DEF Promise!Claim, Promise!Claimed, inputVars
  <1>3. CASE Execute(q)
    BY <1>1, <1>3 DEF Execute, IInv, StageInv, TypeOK, Promise!Execute, inputVars
  <1> QED
    BY <1>2, <1>3

LEMMA RefusedReplay ==
  ASSUME IInv, NEW q \in Requests, Replayed(q)
  PROVE  Promise!RefuseReplay(q)
  <1>1. PICK t \in since[q]..now : carries[q] \in Live(expiries, t)
    BY DEF Replayed, Seen
  <1>2. PICK r \in consumers \ lost : carries[r] = carries[q]
    BY <1>1 DEF IInv, StageInv, Live
  <1>3. UNCHANGED <<inputVars, historyVars>> /\ q \notin consumers
        /\ answer' = [answer EXCEPT ![q] = "replayed"]
    BY DEF Replayed, Answer, IInv, StageInv
  <1> QED
    BY <1>2, <1>3 DEF Promise!RefuseReplay, Promise!Claimed, IInv, TypeOK, inputVars, historyVars

(* Every step of the route is a step of OneShot or changes nothing in it. *)
LEMMA StepSimulation ==
  ASSUME SpareCoversStalls, IInv, IInv', [Next]_vars
  PROVE  [Promise!Next]_(Promise!vars)
  <1>1. CASE \E q \in Requests : Consume(q) \/ Execute(q)
    BY <1>1, ClaimAndExecute DEF Promise!Next
  <1>2. CASE \E q \in Requests : Replayed(q)
    BY <1>2, RefusedReplay DEF Promise!Next
  <1>3. CASE Restart
    <2>1. UNCHANGED <<inputVars, answer, consumers, ran>> /\ (lost' = lost \/ lost' = consumers)
      BY <1>3 DEF Restart
    <2>2. lost' = consumers => consumers' \ lost' = {} /\ ran' \ lost' = {}
      BY <2>1 DEF IInv, TypeOK
    <2> QED
      BY <2>1, <2>2 DEF Promise!Next, Promise!Forget, Promise!vars, inputVars
  <1>4. CASE Tick \/ StepClock \/ UNCHANGED vars
    BY <1>4 DEF Tick, StepClock, vars, Promise!vars, inputVars, historyVars
  <1> QED
    BY <1>1, <1>2, <1>3, <1>4, UnseenSteps DEF Next, RouteStep

(* The route keeps the promise of OneShot for any number of invocations and *)
(* deliveries, if the spare second covers stalls and steps of the clock.    *)
THEOREM KeepsPromiseCorrect ==
  ASSUME SpareCoversStalls
  PROVE  Spec => KeepsPromise
  <1>1. Init => Promise!Init
    BY DEF Init, Promise!Init
  <1>2. IInv /\ IInv' /\ [Next]_vars => [Promise!Next]_(Promise!vars)
    BY StepSimulation
  <1> QED
    BY <1>1, <1>2, InvCorrect, PTL DEF Spec, KeepsPromise, Promise!Spec
=============================================================================
