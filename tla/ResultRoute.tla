---------------------------- MODULE ResultRoute ----------------------------
(***************************************************************************)
(* The result route (resultroute.go) under concurrent redeliveries.  The   *)
(* host posts the result of an analysis until it reads an ack; every       *)
(* delivery of one result carries the same nonce (the run id), so the      *)
(* result stands for its nonce here.  A delivery is checked for freshness, *)
(* recorded in the nonce store, dispatched to the customer's handler in a  *)
(* goroutine of its own under a timer, and answered; a failed dispatch     *)
(* gives the nonce back.  The handler goroutine outlives a dispatch that   *)
(* timed out or was cancelled.                                             *)
(***************************************************************************)
EXTENDS NonceStore, FiniteSets

CONSTANTS Results,      \* results, each with its stable nonce
          Deliveries,   \* the host's POSTs, first deliveries and redeliveries
          Timeout,      \* Config.Timeout, in ticks
          Lag,          \* longest stall of a request goroutine between steps
          HostOffsets,  \* how far the host's clock may be from ours
          MaxTime       \* bound: time stops here unless a timer is pending

ASSUME RouteAssumption ==
  /\ Timeout \in Nat \ {0}
  /\ Lag \in Nat
  /\ HostOffsets \subseteq Int
  /\ MaxTime \in Nat

VARIABLES
  now,        \* the clock: time.Now and Config.Now agree here
  handlerSet, \* Config.ResultHandler is not nil
  durable,    \* Config.NonceStore is an injected one that outlives a crash
  expiries,   \* the nonce store
  owner,      \* history: which delivery recorded each nonce of the store
  pc,         \* where each delivery is in receiveResult
  result,     \* the result each delivery carries
  issuedAt,   \* its issued_at
  since,      \* when its freshness was checked, then when it was dispatched, then
              \* when the dispatch failed
  handler,    \* the goroutine running the customer's handler for it
  answer,     \* what the route answered
  waiting,    \* host: the deliveries whose answer it still waits for
  acked       \* host: the results it has seen acked

hostVars == <<waiting, acked>>
storeVars == <<expiries, owner>>
configVars == <<handlerSet, durable>>
vars == <<now, configVars, storeVars, pc, result, issuedAt, since, handler, answer,
          hostVars>>

Stages == {"idle", "travelling", "checked", "dispatching", "releasing",
           "answered", "dropped"}
HandlerStates == {"none", "running", "succeeded", "failed"}
Answers == {"none", "ack", "refused", "failed"}
NoTime == 0

Init ==
  /\ now = 1
  /\ handlerSet \in BOOLEAN /\ durable \in BOOLEAN
  /\ expiries = EmptyStore /\ owner = EmptyStore
  /\ pc = [d \in Deliveries |-> "idle"]
  /\ result \in [Deliveries -> Results]
  /\ issuedAt = [d \in Deliveries |-> NoTime]
  /\ since = [d \in Deliveries |-> NoTime]
  /\ handler = [d \in Deliveries |-> "none"]
  /\ answer = [d \in Deliveries |-> "none"]
  /\ waiting = {} /\ acked = {}

SameResult(d, e) == result[d] = result[e]

(* A delivery whose dispatch has begun and has not given its nonce back. *)
Open(d) == pc[d] \in {"dispatching", "releasing"}

(* A delivery whose dispatch succeeded: acked by its own handler. *)
Done(d) == answer[d] = "ack" /\ handler[d] = "succeeded"

-----------------------------------------------------------------------------
(* The host and the network between it and the route. *)

(* The host posts a result, or posts it again once the last POST is over. *)
Send(d) ==
  /\ pc[d] = "idle"
  /\ result[d] \notin acked
  /\ \A e \in waiting : ~SameResult(d, e)
  /\ \E offset \in HostOffsets : issuedAt' = [issuedAt EXCEPT ![d] = now + offset]
  /\ pc' = [pc EXCEPT ![d] = "travelling"]
  /\ waiting' = waiting \cup {d}
  /\ UNCHANGED <<now, configVars, storeVars, result, since, handler, answer, acked>>

(* The request or its answer is lost, or the host stops waiting for it.  The *)
(* request may still arrive; a dispatch of it may see its context cancelled, *)
(* once the loss of the connection is noticed, if it is.                     *)
GiveUp(d) ==
  /\ d \in waiting
  /\ waiting' = waiting \ {d}
  /\ UNCHANGED <<now, configVars, storeVars, pc, result, issuedAt, since, handler,
                 answer, acked>>

HostReads(d) ==
  /\ d \in waiting
  /\ answer[d] # "none"
  /\ waiting' = waiting \ {d}
  /\ acked' = IF answer[d] = "ack" THEN acked \cup {result[d]} ELSE acked
  /\ UNCHANGED <<now, configVars, storeVars, pc, result, issuedAt, since, handler, answer>>

-----------------------------------------------------------------------------
(* The route. *)

Finish(d, reply) ==
  /\ pc' = [pc EXCEPT ![d] = "answered"]
  /\ answer' = [answer EXCEPT ![d] = reply]

(* issued_at is not read again once the delivery is past the check. *)
Forget(d) == issuedAt' = [issuedAt EXCEPT ![d] = NoTime]

(* Whatever is wrong with a delivery - no secret selected, a bad signature,  *)
(* an unreadable body, a missing field, a stale issued_at - refuses it with  *)
(* nothing recorded.                                                         *)
Refuse(d) ==
  /\ pc[d] = "travelling"
  /\ Finish(d, "refused")
  /\ Forget(d)
  /\ UNCHANGED <<now, configVars, storeVars, result, since, handler, hostVars>>

Check(d) ==
  /\ pc[d] = "travelling"
  /\ Fresh(issuedAt[d], now)
  /\ pc' = [pc EXCEPT ![d] = "checked"]
  /\ since' = [since EXCEPT ![d] = now]
  /\ Forget(d)
  /\ UNCHANGED <<now, configVars, storeVars, result, handler, answer, hostVars>>

(* Add read the clock at t, before it took the lock. *)
StoreAdds(d, t) ==
  /\ expiries' = Added(expiries, result[d], t)
  /\ owner' = [n \in DOMAIN expiries' |->
                 IF Seen(expiries, n, t) THEN owner[n] ELSE d]

(* A nonce already in the store: our own retry, acked and not dispatched. *)
AckDuplicate(d) ==
  /\ pc[d] = "checked"
  /\ \E t \in since[d]..now :
       Seen(expiries, result[d], t) /\ StoreAdds(d, t)
  /\ Finish(d, "ack")
  /\ UNCHANGED <<now, configVars, result, issuedAt, since, handler, hostVars>>

(* Mutant: the result is dispatched first and its nonce left for later. *)
MutDispatch(d) ==
  /\ pc[d] = "checked"
  /\ ~Seen(expiries, result[d], now)
  /\ pc' = [pc EXCEPT ![d] = IF handlerSet THEN "dispatching" ELSE "releasing"]
  /\ handler' = [handler EXCEPT ![d] = IF handlerSet THEN "running" ELSE @]
  /\ since' = [since EXCEPT ![d] = now]
  /\ UNCHANGED <<now, configVars, storeVars, result, issuedAt, answer, hostVars>>

(* The nonce is consumed before the dispatch, which starts the handler and  *)
(* its timer, or fails at once when there is no handler.                    *)
Dispatch(d) ==
  /\ pc[d] = "checked"
  /\ \E t \in since[d]..now :
       ~Seen(expiries, result[d], t) /\ StoreAdds(d, t)
  /\ pc' = [pc EXCEPT ![d] = IF handlerSet THEN "dispatching" ELSE "releasing"]
  /\ handler' = [handler EXCEPT ![d] = IF handlerSet THEN "running" ELSE @]
  /\ since' = [since EXCEPT ![d] = now]
  /\ UNCHANGED <<now, configVars, result, issuedAt, answer, hostVars>>

(* The handler returns nil, or returns an error or panics: its outcome goes *)
(* to a buffered channel, whether or not the dispatch still listens.        *)
HandlerEnds(d) ==
  /\ handler[d] = "running"
  /\ \E outcome \in {"succeeded", "failed"} :
       handler' = [handler EXCEPT ![d] = outcome]
  /\ UNCHANGED <<now, configVars, storeVars, pc, result, issuedAt, since, answer, hostVars>>

(* Mutant: the nonce is given back whatever the outcome (a deferred Delete). *)
MutDispatchSucceeds(d) ==
  /\ pc[d] = "dispatching"
  /\ handler[d] = "succeeded"
  /\ Finish(d, "ack")
  /\ expiries' = Deleted(expiries, result[d])
  /\ owner' = Deleted(owner, result[d])
  /\ UNCHANGED <<now, configVars, result, issuedAt, since, handler, hostVars>>

(* The select of dispatchResult takes the outcome of a finished handler ... *)
DispatchSucceeds(d) ==
  /\ pc[d] = "dispatching"
  /\ handler[d] = "succeeded"
  /\ Finish(d, "ack")
  /\ UNCHANGED <<now, configVars, storeVars, result, issuedAt, since, handler, hostVars>>

TimerFired(d) == now >= since[d] + Timeout
Cancelled(d) == d \notin waiting

(* Mutant: the select has no timer. *)
MutDispatchFails(d) ==
  /\ pc[d] = "dispatching"
  /\ handler[d] = "failed" \/ Cancelled(d)
  /\ pc' = [pc EXCEPT ![d] = "releasing"]
  /\ since' = [since EXCEPT ![d] = now]
  /\ UNCHANGED <<now, configVars, storeVars, result, issuedAt, handler, answer, hostVars>>

(* ... or fails on the handler's error, the timer or the cancelled context.  *)
(* Select picks any ready case, so a handler that succeeded may lose to the  *)
(* timer.                                                                    *)
DispatchFails(d) ==
  /\ pc[d] = "dispatching"
  /\ handler[d] = "failed" \/ TimerFired(d) \/ Cancelled(d)
  /\ pc' = [pc EXCEPT ![d] = "releasing"]
  /\ since' = [since EXCEPT ![d] = now]
  /\ UNCHANGED <<now, configVars, storeVars, result, issuedAt, handler, answer, hostVars>>

(* Mutant: a failed dispatch keeps its nonce. *)
MutRelease(d) ==
  /\ pc[d] = "releasing"
  /\ Finish(d, "failed")
  /\ UNCHANGED <<now, configVars, storeVars, result, issuedAt, since, handler, hostVars>>

(* A failed dispatch deletes its nonce and answers an error. *)
Release(d) ==
  /\ pc[d] = "releasing"
  /\ expiries' = Deleted(expiries, result[d])
  /\ owner' = Deleted(owner, result[d])
  /\ Finish(d, "failed")
  /\ UNCHANGED <<now, configVars, result, issuedAt, since, handler, hostVars>>

-----------------------------------------------------------------------------
(* The environment: the process restarting, and time. *)

Processing(d) == pc[d] \in {"checked", "dispatching", "releasing"}

(* A crash takes the requests, their timers, the handler goroutines and the *)
(* default store with it; an injected store keeps its nonces.               *)
Restart ==
  /\ pc' = [d \in Deliveries |-> IF Processing(d) THEN "dropped" ELSE pc[d]]
  /\ handler' = [d \in Deliveries |->
                   IF handler[d] = "running" THEN "none" ELSE handler[d]]
  /\ expiries' = IF durable THEN expiries ELSE EmptyStore
  /\ owner' = IF durable THEN owner ELSE EmptyStore
  /\ since' = [d \in Deliveries |-> NoTime]
  /\ UNCHANGED <<now, configVars, result, issuedAt, answer, hostVars>>

(* The latest instant a request goroutine may still be where it is: only a  *)
(* dispatch with a handler waits, for its timer at most.  A failed one, or  *)
(* one without a handler, goes on at once to give its nonce back.           *)
Due(d) == since[d] + (IF pc[d] = "dispatching" THEN Timeout ELSE 0) + Lag

Tick ==
  /\ now < MaxTime \/ \E d \in Deliveries : pc[d] = "dispatching"
  /\ \A d \in Deliveries : Processing(d) => now < Due(d)
  /\ now' = now + 1
  /\ UNCHANGED <<configVars, storeVars, pc, result, issuedAt, since,
                 handler, answer, hostVars>>

RouteStep(d) ==
  \/ Refuse(d) \/ Check(d) \/ AckDuplicate(d) \/ Dispatch(d)
  \/ DispatchSucceeds(d) \/ DispatchFails(d) \/ Release(d)

HostStep(d) == Send(d) \/ GiveUp(d) \/ HostReads(d)

Next ==
  \/ \E d \in Deliveries : HostStep(d) \/ RouteStep(d) \/ HandlerEnds(d)
  \/ Restart
  \/ Tick

Spec == Init /\ [][Next]_vars

(* The scheduler runs every request goroutine and the clock advances.       *)
(* Nothing makes the host send, the network deliver or a handler return.    *)
FairSpec ==
  /\ Spec
  /\ WF_vars(Tick)
  /\ \A d \in Deliveries : WF_vars(Processing(d) /\ RouteStep(d))

-----------------------------------------------------------------------------
(* Properties. *)

Times == Nat

TypeOK ==
  /\ now \in Times
  /\ handlerSet \in BOOLEAN /\ durable \in BOOLEAN
  /\ DOMAIN expiries \subseteq Results
  /\ expiries \in [DOMAIN expiries -> Times]
  /\ owner \in [DOMAIN expiries -> Deliveries]
  /\ pc \in [Deliveries -> Stages]
  /\ result \in [Deliveries -> Results]
  /\ issuedAt \in [Deliveries -> Int]
  /\ since \in [Deliveries -> Times]
  /\ handler \in [Deliveries -> HandlerStates]
  /\ answer \in [Deliveries -> Answers]
  /\ waiting \subseteq Deliveries
  /\ acked \subseteq Results

(* The longest dispatch, with a stall before it, after its timer and before *)
(* its release, ends before its nonce can expire.  The defaults (20s against *)
(* 601s) satisfy it; validateAction does not ask for it.                    *)
TimeoutFitsWindow == Timeout + 3 * Lag < Ttl

(* However redeliveries interleave, a result has at most one dispatch in    *)
(* progress if TimeoutFitsWindow: "two concurrent redeliveries cannot both reach the handler".   *)
OneOpenDispatch ==
  \A d, e \in Deliveries : Open(d) /\ Open(e) /\ SameResult(d, e) => d = e

(* A dispatch that a crash interrupted and that an injected store remembers. *)
Orphaned(d) ==
  /\ pc[d] = "dropped"
  /\ result[d] \in DOMAIN expiries /\ owner[result[d]] = d

(* A nonce the store still holds belongs to a dispatch of its result that is *)
(* not over or that succeeded; only with an injected store may it belong to  *)
(* one that a crash interrupted.  One that is not over may fail, or have     *)
(* failed and be about to give its nonce back: a duplicate that meets it     *)
(* there is acked all the same (FailureIsNotAcked).                          *)
HeldNonceIsBacked ==
  \A n \in Live(expiries, now) :
    /\ result[owner[n]] = n
    /\ Open(owner[n]) \/ Done(owner[n]) \/ (durable /\ Orphaned(owner[n]))

(* The deliveries as Redelivery sees them. *)
Promise ==
  INSTANCE Redelivery WITH
    of <- result,
    open <- {d \in Deliveries : Open(d)},
    handled <- {d \in Deliveries : Done(d)},
    orphaned <- {d \in Deliveries : Orphaned(d)},
    acked <- {d \in Deliveries : answer[d] = "ack"},
    failed <- {d \in Deliveries : answer[d] = "failed"}

(* The route keeps the promise of Redelivery, however deliveries, handlers, *)
(* timers and crashes interleave, as long as TimeoutFitsWindow.             *)
ImplementsRedelivery == Promise!Spec

(* Within one life of the process, a result whose dispatch succeeded is not *)
(* dispatched again before the window of 2*ClockSkew and a second has       *)
(* passed, less one stall: the window counts from a clock read before the   *)
(* dispatch.                                                                *)
NoRepeatInWindow ==
  \A d, e \in Deliveries :
    /\ d # e /\ SameResult(d, e)
    /\ Done(d) /\ since[d] # NoTime
    /\ Open(e) \/ Done(e)
    /\ since[e] >= since[d]
    => since[e] - since[d] >= 2 * ClockSkew + Second - Lag

(* A nonce that has not expired leaves the store only by the failed         *)
(* dispatch that recorded it (Delete itself takes any caller's word), or    *)
(* with the process.                                                        *)
OnlyOwnerReleases ==
  [][\A n \in Live(expiries, now) \ DOMAIN expiries' :
       Restart \/ (pc[owner[n]] = "releasing" /\ pc'[owner[n]] = "answered")]_vars

(* Every delivery under way is answered, or lost with the process: a        *)
(* handler that never returns does not hold the host's request.             *)
DeliveriesEnd == \A d \in Deliveries : Processing(d) ~> ~Processing(d)

(* A dispatch that fails - its handler did, its timer fired, its request was *)
(* cancelled, or there is no handler - ends up with its nonce given back, by *)
(* the route or by the crash that takes the in-process store.                *)
FailureReleases ==
  \A d \in Deliveries :
    (~durable /\ (pc[d] = "releasing" \/ (pc[d] = "dispatching" /\ handler[d] = "failed")))
      ~> (\A n \in DOMAIN owner : owner[n] # d)

(* What resultroute.go promises of acks: a failed dispatch gives the nonce  *)
(* back, "or one transient handler error would permanently drop the result  *)
(* behind a 200 ack".  So a result with a failed dispatch that the host has *)
(* seen acked is handled, or still being handled.                           *)
FailureIsNotAcked ==
  \A d \in Deliveries :
    handler[d] = "failed" /\ answer[d] = "failed" /\ result[d] \in acked =>
      \E e \in Deliveries :
        SameResult(d, e) /\ (Open(e) \/ handler[e] \in {"running", "succeeded"})

(* What resultroute.go promises of handlers: "two concurrent redeliveries   *)
(* cannot both reach the handler".                                          *)
OneRunningHandler ==
  \A d, e \in Deliveries :
    handler[d] = "running" /\ handler[e] = "running" /\ SameResult(d, e) => d = e
=============================================================================
