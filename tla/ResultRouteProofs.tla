-------------------------- MODULE ResultRouteProofs --------------------------
(***************************************************************************)
(* Theorems about ResultRoute, for every number of deliveries and results  *)
(* and every skew, timeout and stall that TimeoutFitsWindow allows.        *)
(***************************************************************************)
EXTENDS ResultRoute, NonceStoreProofs, TLAPS

(* How long before the stage of d its nonce may have been recorded: a stall *)
(* before its dispatch, and the dispatch itself when that has failed.        *)
Head(d) == IF pc[d] = "releasing" THEN Timeout + 2 * Lag ELSE Lag

(* Delivery d holds its nonce, and the store will keep it for the window. *)
Holds(d) ==
  /\ result[d] \in DOMAIN expiries
  /\ owner[result[d]] = d
  /\ expiries[result[d]] >= since[d] + Ttl - Head(d)

(* No stage began in the future, and no request stalls past its Lag. *)
ClockInv ==
  \A d \in Deliveries :
    /\ since[d] <= now
    /\ Processing(d) => now <= Due(d)

OpenHolds == \A d \in Deliveries : Open(d) => Holds(d)

(* A delivery whose success the process still remembers, in its window. *)
Recent(d) == Done(d) /\ since[d] # NoTime /\ now < since[d] + Ttl - Lag

RecentHolds == \A d \in Deliveries : Recent(d) => Holds(d)

Dropped(d) == pc[d] = "dropped"

(* Whoever recorded a nonce dispatched that result, and did not fail; a crash *)
(* interrupted it only if the store outlives crashes.                         *)
HeldInv ==
  \A n \in DOMAIN expiries :
    /\ result[owner[n]] = n
    /\ Open(owner[n]) \/ Done(owner[n]) \/ (durable /\ Dropped(owner[n]))

(* A dispatch under way began after every success it could repeat. *)
DoneBeforeOpen ==
  \A d, e \in Deliveries :
    Open(d) /\ Done(e) /\ SameResult(d, e) => since[e] <= since[d]

(* A delivery is answered once, and is acked only when its handler is over. *)
StageInv ==
  \A d \in Deliveries :
    /\ answer[d] # "none" => pc[d] = "answered"
    /\ answer[d] = "ack" => handler[d] # "running"
    /\ pc[d] \in {"idle", "travelling", "checked"} => handler[d] = "none"

IInv ==
  /\ TypeOK /\ StageInv /\ ClockInv /\ OpenHolds /\ RecentHolds /\ HeldInv
  /\ DoneBeforeOpen /\ NoRepeatInWindow

-----------------------------------------------------------------------------
(* The nonce store. *)

(* Every nonce that has not expired at t survives an Add at t, and nothing  *)
(* but the added nonce comes in.                                            *)
LEMMA AddedStore ==
  ASSUME NEW d \in Deliveries, NEW t \in Nat, StoreAdds(d, t), TypeOK
  PROVE  /\ DOMAIN expiries' = Live(expiries, t) \cup {result[d]}
         /\ DOMAIN owner' = DOMAIN expiries'
         /\ \A n \in Live(expiries, t) : expiries'[n] = expiries[n] /\ owner'[n] = owner[n]
         /\ ~Seen(expiries, result[d], t) =>
              expiries'[result[d]] = t + Ttl /\ owner'[result[d]] = d
         /\ expiries' \in [DOMAIN expiries' -> Nat]
  <1>1. DOMAIN expiries' = Live(expiries, t) \cup {result[d]}
    BY DEF StoreAdds, Added
  <1>2. \A n \in Live(expiries, t) : expiries'[n] = expiries[n]
    BY DEF StoreAdds, Added
  <1>3. DOMAIN owner' = DOMAIN expiries'
    BY DEF StoreAdds
  <1>4. \A n \in Live(expiries, t) : owner'[n] = owner[n]
    BY <1>1 DEF StoreAdds, Seen
  <1>5. ~Seen(expiries, result[d], t) =>
          expiries'[result[d]] = t + Ttl /\ owner'[result[d]] = d
    BY <1>1 DEF StoreAdds, Added, Seen
  <1>6. expiries' \in [DOMAIN expiries' -> Nat]
    BY TtlType, <1>1 DEF StoreAdds, Added, Live, TypeOK, Times
  <1> QED
    BY <1>1, <1>2, <1>3, <1>4, <1>5, <1>6

-----------------------------------------------------------------------------
(* Types. *)

LEMMA InitType == Init => TypeOK
  BY DEF Init, TypeOK, EmptyStore, Times, NoTime, Stages, HandlerStates, Answers

LEMMA StoreAddsType ==
  ASSUME TypeOK, NEW d \in Deliveries, NEW t \in Nat, StoreAdds(d, t)
  PROVE  /\ DOMAIN expiries' \subseteq Results
         /\ expiries' \in [DOMAIN expiries' -> Times]
         /\ owner' \in [DOMAIN expiries' -> Deliveries]
  <1>1. result[d] \in Results
    BY DEF TypeOK
  <1>2. owner' \in [DOMAIN expiries' -> Deliveries]
    BY DEF StoreAdds, TypeOK, Seen, Live
  <1>3. /\ DOMAIN expiries' = Live(expiries, t) \cup {result[d]}
        /\ expiries' \in [DOMAIN expiries' -> Nat]
    BY AddedStore
  <1> QED
    BY <1>1, <1>2, <1>3 DEF TypeOK, Live, Times

LEMMA NextType == TypeOK /\ [Next]_vars => TypeOK'
  <1> SUFFICES ASSUME TypeOK, [Next]_vars
               PROVE  TypeOK'
    OBVIOUS
  <1> USE DEF TypeOK, Times, Stages, HandlerStates, Answers, configVars, storeVars,
              hostVars, NoTime
  <1>1. ASSUME NEW d \in Deliveries, Send(d)
        PROVE  TypeOK'
    BY <1>1, RouteAssumption DEF Send
  <1>2. ASSUME NEW d \in Deliveries, GiveUp(d)
        PROVE  TypeOK'
    BY <1>2 DEF GiveUp
  <1>3. ASSUME NEW d \in Deliveries, HostReads(d)
        PROVE  TypeOK'
    BY <1>3 DEF HostReads
  <1>4. ASSUME NEW d \in Deliveries, Refuse(d)
        PROVE  TypeOK'
    BY <1>4 DEF Refuse, Finish, Forget
  <1>5. ASSUME NEW d \in Deliveries, Check(d)
        PROVE  TypeOK'
    BY <1>5 DEF Check, Forget
  <1>6. ASSUME NEW d \in Deliveries, AckDuplicate(d)
        PROVE  TypeOK'
    <2>1. PICK t \in since[d]..now : StoreAdds(d, t)
      BY <1>6 DEF AckDuplicate
    <2>2. t \in Nat
      BY <2>1
    <2> QED
      BY <1>6, <2>1, <2>2, StoreAddsType DEF AckDuplicate, Finish
  <1>7. ASSUME NEW d \in Deliveries, Dispatch(d)
        PROVE  TypeOK'
    <2>1. PICK t \in since[d]..now : StoreAdds(d, t)
      BY <1>7 DEF Dispatch
    <2>2. t \in Nat
      BY <2>1
    <2> QED
      BY <1>7, <2>1, <2>2, StoreAddsType DEF Dispatch
  <1>8. ASSUME NEW d \in Deliveries, HandlerEnds(d)
        PROVE  TypeOK'
    BY <1>8 DEF HandlerEnds
  <1>9. ASSUME NEW d \in Deliveries, DispatchSucceeds(d)
        PROVE  TypeOK'
    BY <1>9 DEF DispatchSucceeds, Finish
  <1>10. ASSUME NEW d \in Deliveries, DispatchFails(d)
         PROVE  TypeOK'
    BY <1>10 DEF DispatchFails
  <1>11. ASSUME NEW d \in Deliveries, Release(d)
         PROVE  TypeOK'
    BY <1>11 DEF Release, Finish, Deleted
  <1>12. CASE Restart
    BY <1>12 DEF Restart, EmptyStore
  <1>13. CASE Tick
    BY <1>13 DEF Tick
  <1>14. CASE UNCHANGED vars
    BY <1>14 DEF vars
  <1> QED
    BY <1>1, <1>2, <1>3, <1>4, <1>5, <1>6, <1>7, <1>8, <1>9, <1>10, <1>11, <1>12,
       <1>13, <1>14 DEF Next, HostStep, RouteStep

(* Every variable keeps its type: no deadline, clock or stage of a delivery *)
(* ever leaves its range.                                                   *)
THEOREM TypeCorrect == Spec => []TypeOK
  BY InitType, NextType, PTL DEF Spec

-----------------------------------------------------------------------------
(* The inductive invariant, action by action. *)

Stable == <<now, configVars, storeVars, result, since>>

LEMMA InitInv == Init => IInv
  <1> SUFFICES ASSUME Init PROVE IInv
    OBVIOUS
  <1>1. TypeOK
    BY InitType
  <1>2. DOMAIN expiries = {}
    BY DEF Init, EmptyStore
  <1> QED
    BY <1>1, <1>2 DEF Init, IInv, StageInv, ClockInv, OpenHolds, RecentHolds, HeldInv,
       DoneBeforeOpen, NoRepeatInWindow, Open, Done, Recent, Processing, NoTime

LEMMA DoneIsAnswered ==
  ASSUME StageInv, NEW d \in Deliveries, Done(d)
  PROVE  pc[d] = "answered" /\ Head(d) = Lag
  BY DEF StageInv, Done, Head

(* A step that leaves the store, the clock and the dispatches as they were. *)
LEMMA QuietStep ==
  ASSUME IInv, TypeOK', StageInv', UNCHANGED Stable,
         \A e \in Deliveries :
           /\ Open(e)' <=> Open(e)
           /\ Processing(e)' => Processing(e)
           /\ Done(e)' <=> Done(e)
           /\ Dropped(e)' <=> Dropped(e)
           /\ Processing(e)' \/ Open(e) => pc'[e] = pc[e]
  PROVE  IInv'
  <1>1. \A e \in Deliveries : Processing(e)' => Due(e)' = Due(e)
    BY DEF Due, Stable
  <1>2. ClockInv' /\ OpenHolds' /\ RecentHolds'
    <2>1. \A e \in Deliveries : Open(e) \/ Done(e) => Head(e)' = Head(e)
      BY DEF IInv, StageInv, Done, Open, Head
    <2> QED
      BY <1>1, <2>1 DEF IInv, ClockInv, OpenHolds, RecentHolds, Recent, Holds, Stable, storeVars
  <1>3. HeldInv'
    BY DEF IInv, TypeOK, HeldInv, Stable, storeVars, configVars
  <1>4. DoneBeforeOpen' /\ NoRepeatInWindow'
    BY DEF IInv, DoneBeforeOpen, NoRepeatInWindow, SameResult, Stable
  <1> QED
    BY <1>2, <1>3, <1>4 DEF IInv

(* The host, a refusal and the handler. *)
LEMMA QuietInv ==
  ASSUME IInv, NEW d \in Deliveries,
         HostStep(d) \/ Refuse(d) \/ HandlerEnds(d)
  PROVE  IInv'
  <1>1. TypeOK'
    BY NextType DEF IInv, Next, RouteStep
  <1>2. UNCHANGED Stable
    BY DEF HostStep, Send, GiveUp, HostReads, Refuse, HandlerEnds, Stable
  <1>3. StageInv'
    BY DEF IInv, TypeOK, StageInv, HostStep, Send, GiveUp, HostReads, Refuse, Finish,
       HandlerEnds
  <1>4. \A e \in Deliveries :
          /\ Open(e)' <=> Open(e)
          /\ Processing(e)' => Processing(e)
          /\ Dropped(e)' <=> Dropped(e)
          /\ Processing(e)' \/ Open(e) => pc'[e] = pc[e]
    BY DEF IInv, TypeOK, HostStep, Send, GiveUp, HostReads, Refuse, Finish,
       HandlerEnds, Open, Processing, Dropped
  <1>5. \A e \in Deliveries : Done(e)' <=> Done(e)
    BY DEF IInv, TypeOK, StageInv, HostStep, Send, GiveUp, HostReads, Refuse, Finish,
       HandlerEnds, Done
  <1> QED
    BY <1>1, <1>2, <1>3, <1>4, <1>5, QuietStep

LEMMA CheckInv ==
  ASSUME IInv, NEW d \in Deliveries, Check(d)
  PROVE  IInv'
  <1>1. TypeOK'
    BY NextType DEF IInv, Next, RouteStep
  <1>2. StageInv'
    BY DEF IInv, TypeOK, StageInv, Check
  <1>3. UNCHANGED <<now, configVars, storeVars, result, handler, answer>>
    BY DEF Check
  <1>4. \A e \in Deliveries :
          /\ Open(e)' <=> Open(e)
          /\ Done(e)' <=> Done(e)
          /\ Dropped(e)' <=> Dropped(e)
          /\ Open(e) \/ Done(e) => since'[e] = since[e] /\ Head(e)' = Head(e)
    BY DEF IInv, TypeOK, StageInv, Check, Open, Done, Dropped, Head
  <1>5. ClockInv'
    <2> SUFFICES ASSUME NEW e \in Deliveries
                 PROVE  since'[e] <= now' /\ (Processing(e)' => now' <= Due(e)')
      BY DEF ClockInv
    <2>1. CASE e = d
      BY <2>1, <1>3, RouteAssumption DEF Check, Processing, Due, Open, IInv, TypeOK, Times
    <2>2. CASE e # d
      BY <2>2, <1>3 DEF Check, Processing, Due, Open, IInv, TypeOK, Times, ClockInv
    <2> QED
      BY <2>1, <2>2
  <1>6. OpenHolds' /\ RecentHolds'
    BY <1>3, <1>4 DEF IInv, OpenHolds, RecentHolds, Recent, Holds, storeVars
  <1>7. HeldInv'
    BY <1>3, <1>4 DEF IInv, TypeOK, HeldInv, storeVars, configVars
  <1>8. DoneBeforeOpen' /\ NoRepeatInWindow'
    BY <1>3, <1>4 DEF IInv, DoneBeforeOpen, NoRepeatInWindow, SameResult
  <1> QED
    BY <1>1, <1>2, <1>5, <1>6, <1>7, <1>8 DEF IInv

-----------------------------------------------------------------------------
(* The steps that use the store. *)

(* A nonce that is held and has not expired is seen by an Add at any        *)
(* instant read so far, and stays held.                                     *)
LEMMA AddKeepsHolder ==
  ASSUME TypeOK, NEW d \in Deliveries, NEW t \in Nat, t <= now, StoreAdds(d, t),
         NEW e \in Deliveries, Holds(e), now < expiries[result[e]]
  PROVE  /\ Seen(expiries, result[e], t)
         /\ result[e] \in DOMAIN expiries'
         /\ owner'[result[e]] = e
         /\ expiries'[result[e]] = expiries[result[e]]
  <1>1. now \in Nat /\ expiries[result[e]] \in Nat
    BY DEF TypeOK, Times, Holds
  <1>2. expiries[result[e]] > t
    BY <1>1
  <1>3. result[e] \in Live(expiries, t)
    BY <1>2 DEF Holds, Live
  <1>4. /\ DOMAIN expiries' = Live(expiries, t) \cup {result[d]}
        /\ \A n \in Live(expiries, t) : expiries'[n] = expiries[n] /\ owner'[n] = owner[n]
    BY AddedStore
  <1> QED
    BY <1>3, <1>4 DEF Seen, Holds

(* A dispatch under way has not outlived its nonce, not even when it failed *)
(* at the last moment and has yet to give the nonce back.                   *)
LEMMA OpenInWindow ==
  ASSUME IInv, TimeoutFitsWindow, NEW d \in Deliveries, Open(d)
  PROVE  Holds(d) /\ now < expiries[result[d]]
  <1>1. now \in Nat /\ since[d] \in Nat /\ Ttl \in Nat /\ Lag \in Nat /\ Timeout \in Nat
    BY TtlType, RouteAssumption DEF IInv, TypeOK, Times
  <1>2. Holds(d) /\ expiries[result[d]] \in Nat
    BY DEF IInv, OpenHolds, Holds, TypeOK, Times
  <1>3. now <= Due(d)
    BY DEF IInv, ClockInv, Processing, Open
  <1>4. CASE pc[d] = "dispatching"
    BY <1>1, <1>2, <1>3, <1>4 DEF TimeoutFitsWindow, Due, Holds, Head
  <1>5. CASE pc[d] = "releasing"
    BY <1>1, <1>2, <1>3, <1>5 DEF TimeoutFitsWindow, Due, Holds, Head
  <1> QED
    BY <1>2, <1>4, <1>5 DEF Open

(* A recent success is remembered. *)
LEMMA RecentInWindow ==
  ASSUME IInv, NEW d \in Deliveries, Recent(d)
  PROVE  Holds(d) /\ now < expiries[result[d]]
  <1>1. now \in Nat /\ since[d] \in Nat /\ Ttl \in Nat /\ Lag \in Nat
    BY TtlType, RouteAssumption DEF IInv, TypeOK, Times
  <1>2. Holds(d) /\ expiries[result[d]] \in Nat
    BY DEF IInv, RecentHolds, Holds, TypeOK, Times
  <1>3. Head(d) = Lag
    BY DoneIsAnswered DEF IInv, Recent
  <1> QED
    BY <1>1, <1>2, <1>3 DEF Recent, Holds

LEMMA AckDuplicateInv ==
  ASSUME IInv, TimeoutFitsWindow, NEW d \in Deliveries, AckDuplicate(d)
  PROVE  IInv'
  <1>1. TypeOK'
    BY NextType DEF IInv, Next, RouteStep
  <1>2. PICK t \in since[d]..now : Seen(expiries, result[d], t) /\ StoreAdds(d, t)
    BY DEF AckDuplicate
  <1>3. t \in Nat /\ t <= now
    BY <1>2 DEF IInv, TypeOK, Times
  <1>4. UNCHANGED <<now, configVars, result, since, handler>>
    BY DEF AckDuplicate
  <1>5. StageInv'
    BY DEF IInv, TypeOK, StageInv, AckDuplicate, Finish
  <1>6. \A e \in Deliveries :
          /\ Open(e)' <=> Open(e)
          /\ Processing(e)' => Processing(e)
          /\ Done(e)' <=> Done(e)
          /\ Dropped(e)' <=> Dropped(e)
          /\ Head(e)' = Head(e)
          /\ Processing(e)' => Due(e)' = Due(e)
    BY DEF IInv, TypeOK, StageInv, AckDuplicate, Finish, Open, Processing, Done, Dropped,
       Head, Due
  <1>7. ClockInv'
    BY <1>4, <1>6 DEF IInv, ClockInv
  <1>8. \A e \in Deliveries : Holds(e) /\ now < expiries[result[e]] => Holds(e)'
    BY <1>2, <1>3, <1>4, <1>6, AddKeepsHolder DEF Holds, IInv
  <1>9. OpenHolds'
    BY <1>6, <1>8, OpenInWindow DEF OpenHolds
  <1>10. RecentHolds'
    BY <1>4, <1>6, <1>8, RecentInWindow DEF RecentHolds, Recent
  <1>11. HeldInv'
    <2>1. /\ DOMAIN expiries' = Live(expiries, t)
          /\ \A n \in Live(expiries, t) : owner'[n] = owner[n]
      <3>1. /\ DOMAIN expiries' = Live(expiries, t) \cup {result[d]}
            /\ \A n \in Live(expiries, t) : owner'[n] = owner[n]
        BY <1>2, <1>3, AddedStore DEF IInv
      <3> QED
        BY <3>1, <1>2 DEF Seen
    <2> QED
      BY <2>1, <1>4, <1>6 DEF IInv, TypeOK, HeldInv, Live, configVars
  <1>12. DoneBeforeOpen' /\ NoRepeatInWindow'
    BY <1>4, <1>6 DEF IInv, DoneBeforeOpen, NoRepeatInWindow, SameResult
  <1> QED
    BY <1>1, <1>5, <1>7, <1>9, <1>10, <1>11, <1>12 DEF IInv

LEMMA DispatchInv ==
  ASSUME IInv, TimeoutFitsWindow, NEW d \in Deliveries, Dispatch(d)
  PROVE  IInv'
  <1>1. TypeOK'
    BY NextType DEF IInv, Next, RouteStep
  <1>2. PICK t \in since[d]..now : ~Seen(expiries, result[d], t) /\ StoreAdds(d, t)
    BY DEF Dispatch
  <1>3. /\ t \in Nat /\ t <= now /\ now \in Nat /\ now <= t + Lag
        /\ Ttl \in Nat /\ Lag \in Nat /\ Timeout \in Nat
    <2>1. now \in Nat /\ since[d] \in Nat /\ t \in Nat /\ t <= now /\ since[d] <= t
      BY <1>2 DEF IInv, TypeOK, Times
    <2>2. now <= since[d] + Lag
      BY <2>1, RouteAssumption DEF Dispatch, IInv, ClockInv, Processing, Due, Open
    <2> QED
      BY <2>1, <2>2, TtlType, RouteAssumption
  <1>4. UNCHANGED <<now, configVars, result, answer>>
    BY DEF Dispatch
  <1>5. StageInv'
    BY DEF IInv, TypeOK, StageInv, Dispatch, HandlerStates
  <1>6. /\ Open(d)' /\ ~Open(d) /\ ~Done(d) /\ ~Done(d)'
        /\ since'[d] = now
        /\ Head(d)' \in {Lag, Timeout + 2 * Lag}
    BY DEF IInv, TypeOK, StageInv, Dispatch, Open, Done, Head
  <1>7. \A e \in Deliveries \ {d} :
          /\ Open(e)' <=> Open(e)
          /\ Processing(e)' <=> Processing(e)
          /\ Done(e)' <=> Done(e)
          /\ Dropped(e)' <=> Dropped(e)
          /\ since'[e] = since[e]
          /\ Head(e)' = Head(e)
          /\ Due(e)' = Due(e)
    BY DEF IInv, TypeOK, Dispatch, Open, Processing, Done, Dropped, Head, Due
  <1>8. ClockInv'
    <2> SUFFICES ASSUME NEW e \in Deliveries
                 PROVE  since'[e] <= now' /\ (Processing(e)' => now' <= Due(e)')
      BY DEF ClockInv
    <2>1. CASE e = d
      BY <2>1, <1>3, <1>4, <1>6 DEF Due
    <2>2. CASE e # d
      BY <2>2, <1>4, <1>7 DEF IInv, ClockInv
    <2> QED
      BY <2>1, <2>2
  <1>9. Holds(d)'
    <2>1. /\ DOMAIN expiries' = Live(expiries, t) \cup {result[d]}
          /\ expiries'[result[d]] = t + Ttl /\ owner'[result[d]] = d
      BY <1>2, <1>3, AddedStore DEF IInv
    <2> QED
      BY <2>1, <1>3, <1>4, <1>6 DEF Holds
  <1>10. \A e \in Deliveries \ {d} :
           Holds(e) /\ now < expiries[result[e]] => Holds(e)' /\ ~SameResult(e, d)
    BY <1>2, <1>3, <1>4, <1>7, AddKeepsHolder DEF Holds, IInv, SameResult
  <1>11. OpenHolds'
    BY <1>7, <1>9, <1>10, OpenInWindow DEF OpenHolds
  <1>12. RecentHolds'
    BY <1>4, <1>6, <1>7, <1>10, RecentInWindow DEF RecentHolds, Recent
  <1>13. HeldInv'
    <2>1. /\ DOMAIN expiries' = Live(expiries, t) \cup {result[d]}
          /\ owner'[result[d]] = d
          /\ \A n \in Live(expiries, t) : owner'[n] = owner[n]
      BY <1>2, <1>3, AddedStore DEF IInv
    <2> QED
      BY <2>1, <1>4, <1>6, <1>7 DEF IInv, TypeOK, HeldInv, Live, configVars
  <1>14. DoneBeforeOpen'
    <2>1. \A e \in Deliveries : since[e] <= now
      BY DEF IInv, ClockInv
    <2> QED
      BY <2>1, <1>4, <1>6, <1>7 DEF IInv, DoneBeforeOpen, SameResult
  <1>15. NoRepeatInWindow'
    <2> SUFFICES ASSUME NEW a \in Deliveries, NEW b \in Deliveries,
                        a # b, SameResult(a, b), Done(a)', since'[a] # NoTime,
                        Open(b)' \/ Done(b)', since'[b] >= since'[a]
                 PROVE  since'[b] - since'[a] >= 2 * ClockSkew + Second - Lag
      BY <1>4 DEF NoRepeatInWindow, SameResult
    <2>1. a # d
      BY <1>6
    <2>2. CASE b = d
      <3>1. ~Recent(a)
        BY <2>1, <2>2, <1>10, RecentInWindow
      <3>2. Done(a) /\ since[a] # NoTime /\ since'[a] = since[a] /\ since[a] \in Nat
        BY <2>1, <1>7 DEF IInv, TypeOK, Times
      <3> QED
        BY <3>1, <3>2, <2>2, <1>3, <1>6, SkewAssumption DEF Recent, Ttl
    <2>3. CASE b # d
      BY <2>1, <2>3, <1>7 DEF IInv, NoRepeatInWindow
    <2> QED
      BY <2>2, <2>3
  <1> QED
    BY <1>1, <1>5, <1>8, <1>11, <1>12, <1>13, <1>14, <1>15 DEF IInv

(* A nonce has one holder. *)
LEMMA OneHolder ==
  ASSUME NEW d \in Deliveries, NEW e \in Deliveries, Holds(d), Holds(e), SameResult(d, e)
  PROVE  d = e
  BY DEF Holds, SameResult

LEMMA DispatchSucceedsInv ==
  ASSUME IInv, TimeoutFitsWindow, NEW d \in Deliveries, DispatchSucceeds(d)
  PROVE  IInv'
  <1>1. TypeOK'
    BY NextType DEF IInv, Next, RouteStep
  <1>2. StageInv'
    BY DEF IInv, TypeOK, StageInv, DispatchSucceeds, Finish
  <1>3. UNCHANGED Stable
    BY DEF DispatchSucceeds, Stable
  <1>4. /\ Open(d) /\ ~Open(d)' /\ ~Done(d) /\ Done(d)' /\ ~Processing(d)'
        /\ \A e \in Deliveries \ {d} :
             /\ Open(e)' <=> Open(e)
             /\ Processing(e)' <=> Processing(e)
             /\ Done(e)' <=> Done(e)
             /\ Dropped(e)' <=> Dropped(e)
             /\ Due(e)' = Due(e)
        /\ \A e \in Deliveries : Head(e)' = Head(e)
    BY DEF IInv, TypeOK, StageInv, DispatchSucceeds, Finish, Open, Processing, Done, Dropped,
       Head, Due
  <1>5. Holds(d)
    BY <1>4 DEF IInv, OpenHolds
  <1>6. \A e \in Deliveries : Holds(e)' <=> Holds(e)
    BY <1>3, <1>4 DEF Holds, Stable, storeVars
  <1>7. ClockInv'
    BY <1>3, <1>4 DEF IInv, ClockInv, Stable
  <1>8. OpenHolds' /\ RecentHolds'
    BY <1>3, <1>4, <1>5, <1>6 DEF IInv, OpenHolds, RecentHolds, Recent, Stable
  <1>9. HeldInv'
    BY <1>3, <1>4 DEF IInv, TypeOK, HeldInv, Stable, storeVars, configVars
  <1>10. \A e \in Deliveries : Open(e)' /\ SameResult(d, e) => FALSE
    BY <1>4, <1>5, OneHolder DEF IInv, OpenHolds
  <1>11. DoneBeforeOpen'
    BY <1>3, <1>4, <1>10 DEF IInv, DoneBeforeOpen, SameResult, Stable
  <1>12. NoRepeatInWindow'
    <2> SUFFICES ASSUME NEW a \in Deliveries, NEW b \in Deliveries,
                        a # b, SameResult(a, b), Done(a)', since[a] # NoTime,
                        Open(b)' \/ Done(b)', since[b] >= since[a]
                 PROVE  since[b] - since[a] >= 2 * ClockSkew + Second - Lag
      BY <1>3 DEF NoRepeatInWindow, SameResult, Stable
    <2>1. CASE a = d
      <3>1. Done(b) /\ SameResult(b, d) /\ b # d
        BY <2>1, <1>4, <1>10 DEF SameResult
      <3>2. since[b] <= since[d]
        BY <3>1, <1>4 DEF IInv, DoneBeforeOpen, SameResult
      <3>3. since[d] = since[b] /\ since[b] # NoTime /\ since[b] \in Nat
        BY <3>2, <2>1 DEF IInv, TypeOK, Times
      <3>4. since[d] - since[b] >= 2 * ClockSkew + Second - Lag
        BY <3>1, <3>3, <1>4 DEF IInv, NoRepeatInWindow
      <3> QED
        BY <3>3, <3>4, <2>1
    <2>2. CASE a # d
      BY <2>2, <1>4 DEF IInv, NoRepeatInWindow
    <2> QED
      BY <2>1, <2>2
  <1> QED
    BY <1>1, <1>2, <1>7, <1>8, <1>9, <1>11, <1>12 DEF IInv

(* A failing dispatch keeps its nonce, which is still good. *)
LEMMA DispatchFailsInv ==
  ASSUME IInv, NEW d \in Deliveries, DispatchFails(d)
  PROVE  IInv'
  <1>1. TypeOK'
    BY NextType DEF IInv, Next, RouteStep
  <1>2. StageInv'
    BY DEF IInv, TypeOK, StageInv, DispatchFails
  <1>3. UNCHANGED <<now, configVars, storeVars, result, handler, answer>>
    BY DEF DispatchFails
  <1>4. /\ \A e \in Deliveries :
             /\ Open(e)' <=> Open(e)
             /\ Done(e)' <=> Done(e)
             /\ Dropped(e)' <=> Dropped(e)
        /\ \A e \in Deliveries \ {d} :
             /\ Processing(e)' <=> Processing(e)
             /\ since'[e] = since[e]
             /\ Head(e)' = Head(e)
             /\ Due(e)' = Due(e)
    BY DEF IInv, TypeOK, StageInv, DispatchFails, Open, Processing, Done, Dropped, Head, Due
  <1>5. /\ pc[d] = "dispatching" /\ pc'[d] = "releasing"
        /\ Open(d) /\ ~Done(d) /\ since'[d] = now
    BY DEF IInv, TypeOK, StageInv, DispatchFails, Open, Done
  <1>6. /\ now \in Nat /\ since[d] \in Nat /\ Ttl \in Nat /\ Lag \in Nat /\ Timeout \in Nat
        /\ since[d] <= now /\ now <= since[d] + Timeout + Lag
    <2>1. now \in Nat /\ since[d] \in Nat /\ Ttl \in Nat /\ Lag \in Nat /\ Timeout \in Nat
      BY TtlType, RouteAssumption DEF IInv, TypeOK, Times
    <2>2. since[d] <= now /\ now <= Due(d)
      BY <1>5 DEF IInv, ClockInv, Processing
    <2> QED
      BY <2>1, <2>2, <1>5 DEF Due
  <1>7. ClockInv'
    <2> SUFFICES ASSUME NEW e \in Deliveries
                 PROVE  since'[e] <= now' /\ (Processing(e)' => now' <= Due(e)')
      BY DEF ClockInv
    <2>1. CASE e = d
      BY <2>1, <1>3, <1>5, <1>6 DEF Due
    <2>2. CASE e # d
      BY <2>2, <1>3, <1>4 DEF IInv, ClockInv
    <2> QED
      BY <2>1, <2>2
  <1>8. Holds(d)'
    <2>1. Holds(d) /\ expiries[result[d]] \in Nat
      BY <1>5 DEF IInv, OpenHolds, Holds, TypeOK, Times
    <2>2. expiries[result[d]] >= since[d] + Ttl - Lag
      BY <2>1, <1>5 DEF Holds, Head
    <2>3. expiries[result[d]] >= now + Ttl - (Timeout + 2 * Lag)
      BY <2>1, <2>2, <1>6
    <2> QED
      BY <2>1, <2>3, <1>3, <1>5 DEF Holds, Head, storeVars
  <1>9. OpenHolds' /\ RecentHolds'
    <2>1. \A e \in Deliveries \ {d} : Holds(e)' <=> Holds(e)
      BY <1>3, <1>4 DEF Holds, storeVars
    <2> QED
      BY <2>1, <1>3, <1>4, <1>5, <1>8 DEF IInv, OpenHolds, RecentHolds, Recent
  <1>10. HeldInv'
    BY <1>3, <1>4 DEF IInv, TypeOK, HeldInv, storeVars, configVars
  <1>11. DoneBeforeOpen'
    <2> SUFFICES ASSUME NEW a \in Deliveries, NEW b \in Deliveries,
                        Open(a), Done(b), SameResult(a, b)
                 PROVE  since'[b] <= since'[a]
      BY <1>3, <1>4 DEF DoneBeforeOpen, SameResult
    <2>1. since[b] <= since[a] /\ since'[b] = since[b]
      BY <1>4, <1>5 DEF IInv, DoneBeforeOpen
    <2>2. since[a] \in Nat /\ since[b] \in Nat /\ since[a] <= since'[a] /\ since'[a] \in Nat
      BY <1>4, <1>5, <1>6 DEF IInv, TypeOK, Times
    <2> QED
      BY <2>1, <2>2
  <1>12. NoRepeatInWindow'
    <2> SUFFICES ASSUME NEW a \in Deliveries, NEW b \in Deliveries,
                        a # b, SameResult(a, b), Done(a), since'[a] # NoTime,
                        Open(b) \/ Done(b), since'[b] >= since'[a]
                 PROVE  since'[b] - since'[a] >= 2 * ClockSkew + Second - Lag
      BY <1>3, <1>4 DEF NoRepeatInWindow, SameResult
    <2>1. since'[a] = since[a]
      BY <1>4, <1>5
    <2>2. /\ since[a] \in Nat /\ since[b] \in Nat /\ since'[b] \in Nat
          /\ 2 * ClockSkew + Second - Lag \in Int
      BY <1>6, <1>4, <1>5, SkewAssumption DEF IInv, TypeOK, Times
    <2>3. CASE b = d
      <3>1. since[a] <= since[b]
        BY <2>3, <1>5 DEF IInv, DoneBeforeOpen, SameResult
      <3>2. since[b] - since[a] >= 2 * ClockSkew + Second - Lag
        BY <3>1, <2>1, <2>2 DEF IInv, NoRepeatInWindow
      <3> QED
        BY <3>2, <2>1, <2>2, <2>3, <1>5, <1>6
    <2>4. CASE b # d
      BY <2>1, <2>4, <1>4 DEF IInv, NoRepeatInWindow
    <2> QED
      BY <2>3, <2>4
  <1> QED
    BY <1>1, <1>2, <1>7, <1>9, <1>10, <1>11, <1>12 DEF IInv

LEMMA ReleaseInv ==
  ASSUME IInv, NEW d \in Deliveries, Release(d)
  PROVE  IInv'
  <1>1. TypeOK'
    BY NextType DEF IInv, Next, RouteStep
  <1>2. StageInv'
    BY DEF IInv, TypeOK, StageInv, Release, Finish
  <1>3. UNCHANGED <<now, configVars, result, since>>
    BY DEF Release
  <1>4. /\ Open(d) /\ ~Open(d)' /\ ~Done(d) /\ ~Done(d)' /\ ~Processing(d)'
        /\ \A e \in Deliveries \ {d} :
             /\ Open(e)' <=> Open(e)
             /\ Processing(e)' <=> Processing(e)
             /\ Done(e)' <=> Done(e)
             /\ Dropped(e)' <=> Dropped(e)
             /\ Head(e)' = Head(e)
             /\ Due(e)' = Due(e)
    BY DEF IInv, TypeOK, StageInv, Release, Finish, Open, Processing, Done, Dropped, Head, Due
  <1>5. Holds(d)
    BY <1>4 DEF IInv, OpenHolds
  <1>6. \A e \in Deliveries \ {d} : Holds(e) => Holds(e)'
    <2> SUFFICES ASSUME NEW e \in Deliveries \ {d}, Holds(e)
                 PROVE  Holds(e)'
      OBVIOUS
    <2>1. result[e] # result[d]
      BY <1>5, OneHolder DEF SameResult
    <2>2. /\ result[e] \in DOMAIN expiries'
          /\ expiries'[result[e]] = expiries[result[e]]
      BY <2>1 DEF Holds, Release, Deleted
    <2>3. result[e] \in DOMAIN owner
      BY DEF IInv, TypeOK, Holds
    <2>4. owner'[result[e]] = owner[result[e]]
      BY <2>1, <2>3 DEF Release, Deleted
    <2> QED
      BY <2>2, <2>4, <1>3, <1>4 DEF Holds
  <1>7. ClockInv'
    BY <1>3, <1>4 DEF IInv, ClockInv
  <1>8. OpenHolds' /\ RecentHolds'
    BY <1>3, <1>4, <1>6 DEF IInv, OpenHolds, RecentHolds, Recent
  <1>9. HeldInv'
    BY <1>3, <1>4, <1>5 DEF IInv, TypeOK, HeldInv, Release, Deleted, configVars
  <1>10. DoneBeforeOpen' /\ NoRepeatInWindow'
    BY <1>3, <1>4 DEF IInv, DoneBeforeOpen, NoRepeatInWindow, SameResult
  <1> QED
    BY <1>1, <1>2, <1>7, <1>8, <1>9, <1>10 DEF IInv

-----------------------------------------------------------------------------
(* The environment. *)

LEMMA RestartInv ==
  ASSUME IInv, Restart
  PROVE  IInv'
  <1>1. TypeOK'
    BY NextType DEF IInv, Next
  <1>2. StageInv'
    BY DEF IInv, TypeOK, StageInv, Restart, Processing
  <1>3. \A e \in Deliveries :
          ~Processing(e)' /\ ~Open(e)' /\ (Done(e)' <=> Done(e)) /\ since'[e] = NoTime
    BY DEF IInv, TypeOK, StageInv, Restart, Processing, Open, Done
  <1>4. ClockInv' /\ OpenHolds' /\ RecentHolds' /\ DoneBeforeOpen' /\ NoRepeatInWindow'
    BY <1>1, <1>3 DEF ClockInv, OpenHolds, RecentHolds, Recent, DoneBeforeOpen,
       NoRepeatInWindow, NoTime, TypeOK, Times
  <1>5. HeldInv'
    <2>1. CASE durable
      BY <1>3, <2>1 DEF IInv, TypeOK, StageInv, HeldInv, Restart, configVars, Dropped, Open,
         Processing
    <2>2. CASE ~durable
      BY <2>2 DEF HeldInv, Restart, EmptyStore
    <2> QED
      BY <2>1, <2>2
  <1> QED
    BY <1>1, <1>2, <1>4, <1>5 DEF IInv

LEMMA TickInv ==
  ASSUME IInv, Tick
  PROVE  IInv'
  <1>1. TypeOK'
    BY NextType DEF IInv, Next
  <1>2. UNCHANGED <<configVars, storeVars, pc, result, since, handler, answer>>
    BY DEF Tick
  <1>3. now' = now + 1 /\ now \in Nat
    BY DEF Tick, IInv, TypeOK, Times
  <1>4. \A e \in Deliveries :
          /\ Open(e)' <=> Open(e)
          /\ Processing(e)' <=> Processing(e)
          /\ Done(e)' <=> Done(e)
          /\ Dropped(e)' <=> Dropped(e)
          /\ Holds(e)' <=> Holds(e)
          /\ Due(e)' = Due(e)
    BY <1>2 DEF Open, Processing, Done, Dropped, Holds, Head, Due, storeVars
  <1>5. StageInv'
    BY <1>2 DEF IInv, StageInv
  <1>6. ClockInv'
    <2> SUFFICES ASSUME NEW e \in Deliveries
                 PROVE  since[e] <= now + 1 /\ (Processing(e) => now + 1 <= Due(e))
      BY <1>2, <1>3, <1>4 DEF ClockInv
    <2>1. since[e] \in Nat /\ since[e] <= now /\ Due(e) \in Nat
      BY RouteAssumption DEF IInv, ClockInv, TypeOK, Times, Due
    <2> QED
      BY <2>1, <1>3 DEF Tick
  <1>7. OpenHolds'
    BY <1>4 DEF IInv, OpenHolds
  <1>8. RecentHolds'
    <2> SUFFICES ASSUME NEW e \in Deliveries, Recent(e)'
                 PROVE  Holds(e)
      BY <1>4 DEF RecentHolds
    <2>1. since[e] \in Nat /\ Ttl \in Nat /\ Lag \in Nat
      BY TtlType, RouteAssumption DEF IInv, TypeOK, Times
    <2>2. Recent(e)
      BY <2>1, <1>2, <1>3, <1>4 DEF Recent
    <2> QED
      BY <2>2 DEF IInv, RecentHolds
  <1>9. HeldInv'
    BY <1>2, <1>4 DEF IInv, TypeOK, HeldInv, storeVars, configVars
  <1>10. DoneBeforeOpen' /\ NoRepeatInWindow'
    BY <1>2, <1>4 DEF IInv, DoneBeforeOpen, NoRepeatInWindow, SameResult
  <1> QED
    BY <1>1, <1>5, <1>6, <1>7, <1>8, <1>9, <1>10 DEF IInv

LEMMA StutterInv ==
  ASSUME IInv, UNCHANGED vars
  PROVE  IInv'
  <1>1. TypeOK'
    BY NextType DEF IInv
  <1>2. \A e \in Deliveries :
          /\ Open(e)' <=> Open(e)
          /\ Processing(e)' <=> Processing(e)
          /\ Done(e)' <=> Done(e)
          /\ Dropped(e)' <=> Dropped(e)
          /\ pc'[e] = pc[e]
    BY DEF Open, Processing, Done, Dropped, vars
  <1>3. StageInv' /\ UNCHANGED Stable
    BY DEF IInv, StageInv, Stable, vars
  <1> QED
    BY <1>1, <1>2, <1>3, QuietStep

LEMMA NextInv ==
  ASSUME TimeoutFitsWindow, IInv, [Next]_vars
  PROVE  IInv'
  <1>1. CASE \E d \in Deliveries : HostStep(d) \/ Refuse(d) \/ HandlerEnds(d)
    BY <1>1, QuietInv
  <1>2. CASE \E d \in Deliveries : Check(d)
    BY <1>2, CheckInv
  <1>3. CASE \E d \in Deliveries : AckDuplicate(d)
    BY <1>3, AckDuplicateInv
  <1>4. CASE \E d \in Deliveries : Dispatch(d)
    BY <1>4, DispatchInv
  <1>5. CASE \E d \in Deliveries : DispatchSucceeds(d)
    BY <1>5, DispatchSucceedsInv
  <1>6. CASE \E d \in Deliveries : Release(d)
    BY <1>6, ReleaseInv
  <1>7. CASE Restart
    BY <1>7, RestartInv
  <1>8. CASE Tick
    BY <1>8, TickInv
  <1>9. CASE UNCHANGED vars
    BY <1>9, StutterInv
  <1>10. CASE \E d \in Deliveries : DispatchFails(d)
    BY <1>10, DispatchFailsInv
  <1> QED
    BY <1>1, <1>2, <1>3, <1>4, <1>5, <1>6, <1>7, <1>8, <1>9, <1>10 DEF Next, RouteStep

LEMMA InvCorrect == ASSUME TimeoutFitsWindow PROVE Spec => []IInv
  <1>1. IInv /\ [Next]_vars => IInv'
    BY NextInv
  <1> QED
    BY <1>1, InitInv, PTL DEF Spec

-----------------------------------------------------------------------------
(* What the invariant says. *)

(* Concurrent redeliveries of one result never have two dispatches in       *)
(* progress, for any number of them, as long as no dispatch outlives its    *)
(* nonce.                                                                   *)
THEOREM OneOpenDispatchCorrect ==
  ASSUME TimeoutFitsWindow PROVE Spec => []OneOpenDispatch
  <1>1. IInv => OneOpenDispatch
    BY OneHolder DEF IInv, OpenHolds, OneOpenDispatch
  <1> QED
    BY <1>1, InvCorrect, PTL

(* A nonce the store holds is one of a dispatch that succeeded or is not    *)
(* over yet (it may still fail, or have failed and be about to give the     *)
(* nonce back) or, with a store that outlives the process, of one that a    *)
(* crash interrupted.                                                       *)
THEOREM HeldNonceIsBackedCorrect ==
  ASSUME TimeoutFitsWindow PROVE Spec => []HeldNonceIsBacked
  <1>1. IInv => HeldNonceIsBacked
    BY DEF IInv, TypeOK, HeldInv, HeldNonceIsBacked, Live, Dropped, Orphaned
  <1> QED
    BY <1>1, InvCorrect, PTL

(* A result handled with success is not dispatched again in the window.     *)
THEOREM NoRepeatInWindowCorrect ==
  ASSUME TimeoutFitsWindow PROVE Spec => []NoRepeatInWindow
  <1>1. IInv => NoRepeatInWindow
    BY DEF IInv
  <1> QED
    BY <1>1, InvCorrect, PTL

(* The unconditional Delete never removes a nonce another delivery recorded. *)
THEOREM OnlyOwnerReleasesCorrect ==
  ASSUME TimeoutFitsWindow PROVE Spec => OnlyOwnerReleases
  <1> DEFINE Gone(n) == n \in Live(expiries, now) /\ n \notin DOMAIN expiries'
             Freed(n) == pc[owner[n]] = "releasing" /\ pc'[owner[n]] = "answered"
             Rule == \A n \in Live(expiries, now) \ DOMAIN expiries' : Restart \/ Freed(n)
  <1>1. IInv /\ [Next]_vars => [Rule]_vars
    <2> SUFFICES ASSUME IInv, Next, ~Restart, NEW n, Gone(n)
                 PROVE  Freed(n)
      BY DEF vars
    <2>1. ASSUME NEW d \in Deliveries, AckDuplicate(d) \/ Dispatch(d)
          PROVE  FALSE
      <3>1. PICK t \in since[d]..now : StoreAdds(d, t)
        BY <2>1 DEF AckDuplicate, Dispatch
      <3>2. t \in Nat /\ t <= now /\ now \in Nat
        BY <3>1 DEF IInv, TypeOK, Times
      <3>3. n \in Live(expiries, t)
        BY <3>2 DEF Live, IInv, TypeOK, Times
      <3>4. DOMAIN expiries' = Live(expiries, t) \cup {result[d]}
        BY <3>1, <3>2, AddedStore DEF IInv
      <3> QED
        BY <3>3, <3>4
    <2>2. ASSUME NEW d \in Deliveries, Release(d)
          PROVE  Freed(n)
      <3>1. n = result[d]
        BY <2>2 DEF Release, Deleted, Live
      <3>2. owner[n] = d
        BY <2>2, <3>1 DEF IInv, OpenHolds, Open, Release, Holds
      <3> QED
        BY <2>2, <3>2 DEF Release, Finish, IInv, TypeOK
    <2>3. expiries' # expiries
      BY DEF Live
    <2>4. ASSUME NEW d \in Deliveries,
                 HostStep(d) \/ Refuse(d) \/ Check(d) \/ HandlerEnds(d)
                 \/ DispatchSucceeds(d) \/ DispatchFails(d)
          PROVE  FALSE
      BY <2>3, <2>4 DEF HostStep, Send, GiveUp, HostReads, Refuse, Check, HandlerEnds,
         DispatchSucceeds, DispatchFails, storeVars
    <2>5. CASE Tick
      BY <2>3, <2>5 DEF Tick, storeVars
    <2> QED
      BY <2>1, <2>2, <2>4, <2>5 DEF Next, RouteStep
  <1> QED
    BY <1>1, InvCorrect, PTL DEF Spec, OnlyOwnerReleases

-----------------------------------------------------------------------------
(* The route implements Redelivery. *)

(* Steps that start, end or ack nothing, and leave the store alone. *)
LEMMA UnseenSteps ==
  ASSUME IInv, NEW d \in Deliveries,
         HostStep(d) \/ Refuse(d) \/ Check(d) \/ HandlerEnds(d) \/ DispatchFails(d)
  PROVE  UNCHANGED Promise!vars
  <1>1. UNCHANGED <<durable, storeVars, result>>
    BY DEF HostStep, Send, GiveUp, HostReads, Refuse, Check, HandlerEnds, DispatchFails,
       configVars
  <1>2. \A e \in Deliveries :
          /\ Open(e)' <=> Open(e)
          /\ Done(e)' <=> Done(e)
          /\ Dropped(e)' <=> Dropped(e)
          /\ answer'[e] = "ack" <=> answer[e] = "ack"
          /\ answer'[e] = "failed" <=> answer[e] = "failed"
    BY DEF IInv, TypeOK, StageInv, HostStep, Send, GiveUp, HostReads, Refuse, Check, Finish,
       HandlerEnds, DispatchFails, Open, Done, Dropped
  <1>3. \A e \in Deliveries : Orphaned(e)' <=> Orphaned(e)
    BY <1>1, <1>2 DEF Orphaned, Dropped, storeVars
  <1> QED
    BY <1>1, <1>2, <1>3 DEF Promise!vars

(* A dispatch begins only when no other one of the result is open, and when *)
(* no crash left its nonce behind.                                          *)
LEMMA DispatchBegins ==
  ASSUME TimeoutFitsWindow, IInv, IInv', NEW d \in Deliveries, Dispatch(d)
  PROVE  Promise!Begin(d)
  <1>1. PICK t \in since[d]..now : ~Seen(expiries, result[d], t) /\ StoreAdds(d, t)
    BY DEF Dispatch
  <1>2. t \in Nat
    BY <1>1 DEF IInv, TypeOK, Times
  <1>3. UNCHANGED <<durable, result, answer>>
    BY DEF Dispatch, configVars
  <1>4. /\ Open(d)' /\ ~Open(d) /\ answer[d] = "none"
        /\ \A e \in Deliveries \ {d} : Open(e)' <=> Open(e)
        /\ \A e \in Deliveries : (Done(e)' <=> Done(e)) /\ (Dropped(e)' <=> Dropped(e))
    BY DEF IInv, TypeOK, StageInv, Dispatch, Open, Done, Dropped
  <1>5. \A e \in Deliveries : Open(e) => ~SameResult(e, d)
    <2> SUFFICES ASSUME NEW e \in Deliveries, Open(e), SameResult(e, d)
                 PROVE  FALSE
      OBVIOUS
    <2>1. Holds(d)' /\ Holds(e)'
      BY <1>4 DEF IInv, OpenHolds
    <2> QED
      BY <2>1, <1>3, <1>4 DEF Holds, SameResult
  <1>6. \A e \in Deliveries : Orphaned(e)' => Orphaned(e) /\ ~SameResult(e, d)
    <2>1. /\ DOMAIN expiries' = Live(expiries, t) \cup {result[d]}
          /\ owner'[result[d]] = d
          /\ \A n \in Live(expiries, t) : owner'[n] = owner[n]
      BY <1>1, <1>2, AddedStore DEF IInv
    <2> QED
      BY <2>1, <1>3, <1>4 DEF Orphaned, Dropped, SameResult, Live, Dispatch
  <1> QED
    BY <1>3, <1>4, <1>5, <1>6 DEF Promise!Begin, Promise!SameAs, SameResult, Done

(* A duplicate is acked for the delivery whose nonce it met. *)
LEMMA DuplicateIsBacked ==
  ASSUME IInv, NEW d \in Deliveries, AckDuplicate(d)
  PROVE  Promise!AckDuplicate(d)
  <1>1. PICK t \in since[d]..now : Seen(expiries, result[d], t) /\ StoreAdds(d, t)
    BY DEF AckDuplicate
  <1>2. t \in Nat
    BY <1>1 DEF IInv, TypeOK, Times
  <1>3. UNCHANGED <<durable, result, handler>> /\ answer' = [answer EXCEPT ![d] = "ack"]
        /\ pc' = [pc EXCEPT ![d] = "answered"]
    BY DEF AckDuplicate, Finish, configVars
  <1>4. /\ ~Open(d) /\ answer[d] = "none"
        /\ \A e \in Deliveries :
             /\ Open(e)' <=> Open(e)
             /\ Done(e)' <=> Done(e)
             /\ Dropped(e)' <=> Dropped(e)
    BY <1>3 DEF IInv, TypeOK, StageInv, AckDuplicate, Open, Done, Dropped
  <1>5. /\ DOMAIN expiries' = Live(expiries, t)
        /\ \A n \in Live(expiries, t) : owner'[n] = owner[n]
    <2>1. /\ DOMAIN expiries' = Live(expiries, t) \cup {result[d]}
          /\ \A n \in Live(expiries, t) : owner'[n] = owner[n]
      BY <1>1, <1>2, AddedStore DEF IInv
    <2> QED
      BY <2>1, <1>1 DEF Seen
  <1>6. \A e \in Deliveries : Orphaned(e)' => Orphaned(e)
    BY <1>3, <1>4, <1>5 DEF Orphaned, Dropped, Live
  <1>7. \E e \in Deliveries : SameResult(e, d) /\ (Open(e) \/ Done(e) \/ Orphaned(e)')
    <2>1. result[d] \in Live(expiries, t) /\ result[d] \in DOMAIN expiries
      BY <1>1 DEF Seen, Live
    <2>2. PICK e \in Deliveries : e = owner[result[d]]
      BY <2>1 DEF IInv, TypeOK
    <2>3. SameResult(e, d) /\ (Open(e) \/ Done(e) \/ Dropped(e))
      BY <2>1, <2>2 DEF IInv, HeldInv, SameResult
    <2>4. Dropped(e) => Orphaned(e)'
      BY <1>3, <1>4, <1>5, <2>1, <2>2, <2>3 DEF Orphaned, Dropped, SameResult
    <2> QED
      BY <2>3, <2>4
  <1> QED
    BY <1>3, <1>4, <1>6, <1>7 DEF Promise!AckDuplicate, Promise!SameAs, SameResult, IInv, TypeOK

LEMMA DispatchEnds ==
  ASSUME IInv, NEW d \in Deliveries, DispatchSucceeds(d) \/ Release(d)
  PROVE  Promise!Succeed(d) \/ Promise!Fail(d)
  <1>1. UNCHANGED <<durable, result, handler>>
    BY DEF DispatchSucceeds, Release, configVars
  <1>2. /\ Open(d) /\ ~Open(d)'
        /\ \A e \in Deliveries \ {d} : (Open(e)' <=> Open(e)) /\ (Done(e)' <=> Done(e))
        /\ \A e \in Deliveries : Dropped(e)' <=> Dropped(e)
        /\ \A e \in Deliveries \ {d} : answer'[e] = answer[e]
        /\ answer[d] = "none" /\ ~Done(d)
    BY DEF IInv, TypeOK, StageInv, DispatchSucceeds, Release, Finish, Open, Done, Dropped
  <1>3. CASE DispatchSucceeds(d)
    <2>1. answer'[d] = "ack" /\ Done(d)'
      BY <1>3 DEF IInv, TypeOK, DispatchSucceeds, Finish, Done
    <2>2. \A e \in Deliveries : Orphaned(e)' <=> Orphaned(e)
      BY <1>1, <1>2, <1>3 DEF DispatchSucceeds, Orphaned, Dropped, storeVars
    <2> QED
      BY <1>1, <1>2, <2>1, <2>2 DEF Promise!Succeed
  <1>4. CASE Release(d)
    <2>1. answer'[d] = "failed" /\ ~Done(d)'
      BY <1>4 DEF IInv, TypeOK, Release, Finish, Done
    <2>2. \A e \in Deliveries : Orphaned(e)' <=> Orphaned(e)
      <3>1. owner[result[d]] = d
        BY <1>2 DEF IInv, OpenHolds, Holds
      <3>2. ~Dropped(d)
        BY <1>2 DEF Open, Dropped
      <3>3. DOMAIN expiries' = DOMAIN expiries \ {result[d]}
            /\ \A n \in DOMAIN expiries' : owner'[n] = owner[n]
        BY <1>4 DEF IInv, TypeOK, Release, Deleted
      <3> QED
        BY <1>1, <1>2, <3>1, <3>2, <3>3 DEF Orphaned, Dropped
    <2> QED
      BY <1>1, <1>2, <2>1, <2>2 DEF Promise!Fail
  <1> QED
    BY <1>3, <1>4

(* Only an open dispatch leaves its nonce behind in a crash. *)
LEMMA RestartCrashes ==
  ASSUME IInv, Restart
  PROVE  Promise!Crash
  <1>1. UNCHANGED <<durable, result, answer>>
    BY DEF Restart, configVars
  <1>2. \A e \in Deliveries : ~Open(e)' /\ (Done(e)' <=> Done(e))
    BY DEF IInv, TypeOK, StageInv, Restart, Processing, Open, Done
  <1>3. ASSUME durable, NEW e \in Deliveries
        PROVE  Orphaned(e)' <=> Orphaned(e) \/ Open(e)
    <2>1. UNCHANGED storeVars
      BY <1>3 DEF Restart, storeVars
    <2>2. Dropped(e)' <=> Dropped(e) \/ Processing(e)
      BY DEF IInv, TypeOK, Restart, Dropped
    <2>3. Open(e) => Processing(e) /\ Holds(e)
      BY DEF IInv, OpenHolds, Open, Processing
    <2>4. Processing(e) /\ result[e] \in DOMAIN expiries /\ owner[result[e]] = e => Open(e)
      BY DEF IInv, HeldInv, StageInv, TypeOK, Processing, Done, Dropped
    <2> QED
      BY <1>1, <2>1, <2>2, <2>3, <2>4 DEF Orphaned, Dropped, Holds, storeVars
  <1>4. ASSUME ~durable, NEW e \in Deliveries
        PROVE  ~Orphaned(e)'
    BY <1>4 DEF Restart, EmptyStore, Orphaned
  <1> QED
    BY <1>1, <1>2, <1>3, <1>4 DEF Promise!Crash, IInv, TypeOK

(* Every step of the route is a step of Redelivery or changes nothing in it. *)
LEMMA StepSimulation ==
  ASSUME TimeoutFitsWindow, IInv, IInv', [Next]_vars
  PROVE  [Promise!Next]_(Promise!vars)
  <1>1. CASE \E d \in Deliveries : Dispatch(d)
    BY <1>1, DispatchBegins DEF Promise!Next
  <1>2. CASE \E d \in Deliveries : AckDuplicate(d)
    BY <1>2, DuplicateIsBacked DEF Promise!Next
  <1>3. CASE \E d \in Deliveries : DispatchSucceeds(d) \/ Release(d)
    BY <1>3, DispatchEnds DEF Promise!Next
  <1>4. CASE Restart
    BY <1>4, RestartCrashes DEF Promise!Next
  <1>5. CASE Tick \/ UNCHANGED vars
    BY <1>5 DEF Tick, vars, Promise!vars, configVars, storeVars, Open, Done, Orphaned
  <1> QED
    BY <1>1, <1>2, <1>3, <1>4, <1>5, UnseenSteps DEF Next, RouteStep

(* For any number of results and deliveries, one delivery of a result at a  *)
(* time has its dispatch in progress, and a delivery is acked only for its  *)
(* own success or for another delivery of the result that succeeded, is in  *)
(* progress (and may yet fail), or was cut short by a crash that the store  *)
(* remembers, as long as no dispatch outlives its nonce.                    *)
THEOREM RedeliveryCorrect ==
  ASSUME TimeoutFitsWindow PROVE Spec => ImplementsRedelivery
  <1>1. Init => Promise!Init
    BY DEF Init, Promise!Init, EmptyStore, Open, Done, Orphaned
  <1>2. IInv /\ IInv' /\ [Next]_vars => [Promise!Next]_(Promise!vars)
    BY StepSimulation
  <1> QED
    BY <1>1, <1>2, InvCorrect, PTL DEF Spec, ImplementsRedelivery, Promise!Spec
=============================================================================
