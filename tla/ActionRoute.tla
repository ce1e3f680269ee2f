---------------------------- MODULE ActionRoute ----------------------------
(***************************************************************************)
(* The action route (action.go).  A signed invocation may arrive more than *)
(* once; it is checked for freshness on the wall clock, its nonce is       *)
(* recorded with a deadline on the monotonic clock, and from then on it is *)
(* either refused or executed, its nonce gone in both cases.  One deadline *)
(* starts before the body is read; the execution has a timeout of its own  *)
(* under it.  The executor and the resolver appear as stages that end, or  *)
(* do not, under the context they are given.                               *)
(***************************************************************************)
EXTENDS NonceStore, FiniteSets

CONSTANTS Invocations,    \* signed invocations, each with its nonce
          Requests,       \* arrivals of one on the wire
          IssueTimes,     \* what issued_at may say
          Timeout,        \* Config.Timeout, in ticks
          TotalDeadline,  \* Config.TotalDeadline, in ticks
          Lag,            \* longest stall between the freshness check and Add
          Swing,          \* how far steps of the wall clock may move it
          MaxTime         \* bound: time stops here unless a deadline is pending

(* validateAction asks for Timeout > 0 and TotalDeadline > Timeout. *)
ASSUME ActionAssumption ==
  /\ IssueTimes \subseteq Int
  /\ Timeout \in Nat \ {0}
  /\ TotalDeadline \in Nat /\ TotalDeadline > Timeout
  /\ Lag \in Nat /\ Swing \in Nat /\ MaxTime \in Nat

VARIABLES
  now,       \* the monotonic clock
  offset,    \* how far the wall clock is ahead of it
  durable,   \* Config.NonceStore is an injected one that outlives a crash
  expiries,  \* the nonce store
  issued,    \* issued_at of each invocation
  dryRun,    \* its dry_run
  carries,   \* the invocation each request carries
  pc,        \* where each request is in serveInvocation
  ctx,       \* its context, under the total deadline
  arrived,   \* when that deadline started
  since,     \* when its freshness was checked, then when it began to execute
  outcome,   \* what the executor made of it
  answer,    \* what the route answered
  consumers, \* history: the requests that recorded their nonce
  ran,       \* history: those handed to the executor
  lost       \* history: those whose record was lost with the store

clockVars == <<now, offset>>
inputVars == <<durable, issued, dryRun, carries>>
historyVars == <<consumers, ran, lost>>
vars == <<clockVars, inputVars, expiries, pc, ctx, arrived, since, outcome, answer, historyVars>>

Stages == {"idle", "reading", "checked", "resolving", "starting", "running", "reporting",
           "answered", "dropped"}
Contexts == {"live", "expired", "cancelled"}
Outcomes == {"none", "ok", "failed", "timeout", "canceled"}
Answers == Outcomes \cup {"refused", "replayed", "total_timeout"}

Wall == now + offset

Init ==
  /\ now = 1 /\ offset \in 0..Swing
  /\ durable \in BOOLEAN
  /\ expiries = EmptyStore
  /\ issued \in [Invocations -> IssueTimes] /\ dryRun \in [Invocations -> BOOLEAN]
  /\ carries \in [Requests -> Invocations]
  /\ pc = [q \in Requests |-> "idle"]
  /\ ctx = [q \in Requests |-> "live"]
  /\ arrived = [q \in Requests |-> 0] /\ since = [q \in Requests |-> 0]
  /\ outcome = [q \in Requests |-> "none"] /\ answer = [q \in Requests |-> "none"]
  /\ consumers = {} /\ ran = {} /\ lost = {}

Goto(q, stage) == pc' = [pc EXCEPT ![q] = stage]

(* The request is over: its context and its instants with it. *)
Answer(q, reply) ==
  /\ Goto(q, "answered")
  /\ answer' = [answer EXCEPT ![q] = reply]
  /\ ctx' = [ctx EXCEPT ![q] = "live"]
  /\ arrived' = [arrived EXCEPT ![q] = 0] /\ since' = [since EXCEPT ![q] = 0]
  /\ outcome' = [outcome EXCEPT ![q] = "none"]

SameNonce(q, r) == carries[q] = carries[r]

-----------------------------------------------------------------------------
(* From the wire to the nonce. *)

(* The deadline starts before the body is read. *)
Arrive(q) ==
  /\ pc[q] = "idle"
  /\ Goto(q, "reading")
  /\ arrived' = [arrived EXCEPT ![q] = now]
  /\ UNCHANGED <<clockVars, inputVars, expiries, ctx, since, outcome, answer, historyVars>>

(* Whatever is wrong with a request - unreadable or oversized body, no      *)
(* secret, bad signature, a field, the tenant, the principal, a stale       *)
(* issued_at - refuses it with nothing recorded.                            *)
Refuse(q) ==
  /\ pc[q] = "reading"
  /\ Answer(q, "refused")
  /\ UNCHANGED <<clockVars, inputVars, expiries, historyVars>>

(* Mutant: the nonce is recorded as soon as the signature is verified. *)
MutCheck(q) ==
  /\ pc[q] = "reading"
  /\ Fresh(issued[carries[q]], Wall)
  /\ Goto(q, "checked")
  /\ since' = [since EXCEPT ![q] = now]
  /\ expiries' = Added(expiries, carries[q], now)
  /\ UNCHANGED <<clockVars, inputVars, ctx, arrived, outcome, answer, historyVars>>

Check(q) ==
  /\ pc[q] = "reading"
  /\ Fresh(issued[carries[q]], Wall)
  /\ Goto(q, "checked")
  /\ since' = [since EXCEPT ![q] = now]
  /\ UNCHANGED <<clockVars, inputVars, expiries, ctx, arrived, outcome, answer, historyVars>>

(* A nonce in the store: a replay, refused. *)
Replayed(q) ==
  /\ pc[q] = "checked"
  /\ \E t \in since[q]..now :
       /\ Seen(expiries, carries[q], t)
       /\ expiries' = Added(expiries, carries[q], t)
  /\ Answer(q, "replayed")
  /\ UNCHANGED <<clockVars, inputVars, historyVars>>

Consume(q) ==
  /\ pc[q] = "checked"
  /\ \E t \in since[q]..now :
       /\ ~Seen(expiries, carries[q], t)
       /\ expiries' = Added(expiries, carries[q], t)
  /\ consumers' = consumers \cup {q}
  /\ Goto(q, "resolving")
  /\ UNCHANGED <<clockVars, inputVars, ctx, arrived, since, outcome, answer, ran, lost>>

-----------------------------------------------------------------------------
(* Script and execution. *)

(* Invalid params, a malformed digest, no secret, a failed fetch, a body    *)
(* that does not hash to the digest.  The nonce stays recorded.             *)
ResolveFails(q) ==
  /\ pc[q] = "resolving"
  /\ Answer(q, "refused")
  /\ UNCHANGED <<clockVars, inputVars, expiries, historyVars>>

(* A dry run stops where the execution would begin. *)
AnswerDryRun(q) ==
  /\ pc[q] = "resolving"
  /\ dryRun[carries[q]]
  /\ Answer(q, "ok")
  /\ UNCHANGED <<clockVars, inputVars, expiries, historyVars>>

(* The timeout of the execution starts before the script is compiled. *)
Execute(q) ==
  /\ pc[q] = "resolving"
  /\ ~dryRun[carries[q]]
  /\ ran' = ran \cup {q}
  /\ since' = [since EXCEPT ![q] = now]
  /\ Goto(q, "starting")
  /\ UNCHANGED <<clockVars, inputVars, expiries, ctx, arrived, outcome, answer, consumers, lost>>

Conclude(q, class) ==
  /\ Goto(q, "reporting")
  /\ outcome' = [outcome EXCEPT ![q] = class]

(* A pooled program is ready at once; compiling takes no notice of ctx. *)
Start(q) ==
  /\ pc[q] = "starting"
  /\ \/ Goto(q, "running") /\ UNCHANGED outcome
     \/ Conclude(q, "failed")
  /\ UNCHANGED <<clockVars, inputVars, expiries, ctx, arrived, since, answer, historyVars>>

RunEnds(q) ==
  /\ pc[q] = "running"
  /\ \E class \in {"ok", "failed"} : Conclude(q, class)
  /\ UNCHANGED <<clockVars, inputVars, expiries, ctx, arrived, since, answer, historyVars>>

(* Mutant: the execution has no timeout, and only the client can end it. *)
MutAbort(q) ==
  /\ pc[q] = "running"
  /\ ctx[q] = "cancelled" /\ Conclude(q, "canceled")
  /\ UNCHANGED <<clockVars, inputVars, expiries, ctx, arrived, since, answer, historyVars>>

(* context.WithTimeout keeps no timer when the context above ends sooner. *)
OwnTimer(q) == since[q] + Timeout <= arrived[q] + TotalDeadline

(* The execution's context ends by its own timer or with the one above it. *)
Abort(q) ==
  /\ pc[q] = "running"
  /\ \/ OwnTimer(q) /\ now >= since[q] + Timeout /\ Conclude(q, "timeout")
     \/ ctx[q] = "expired" /\ Conclude(q, "timeout")
     \/ ctx[q] = "cancelled" /\ Conclude(q, "canceled")
  /\ UNCHANGED <<clockVars, inputVars, expiries, ctx, arrived, since, answer, historyVars>>

(* Mutant: the executor's word is passed on. *)
MutReport(q) ==
  /\ pc[q] = "reporting"
  /\ Answer(q, outcome[q])
  /\ UNCHANGED <<clockVars, inputVars, expiries, historyVars>>

(* A failure after the total deadline is blamed on that deadline. *)
Report(q) ==
  /\ pc[q] = "reporting"
  /\ Answer(q, IF outcome[q] # "ok" /\ ctx[q] = "expired" THEN "total_timeout"
                                                          ELSE outcome[q])
  /\ UNCHANGED <<clockVars, inputVars, expiries, historyVars>>

-----------------------------------------------------------------------------
(* Contexts, clocks and the process. *)

InProcess(q) == pc[q] \in {"reading", "checked", "resolving", "starting", "running", "reporting"}

Expire(q) ==
  /\ InProcess(q) /\ ctx[q] = "live"
  /\ now >= arrived[q] + TotalDeadline
  /\ ctx' = [ctx EXCEPT ![q] = "expired"]
  /\ UNCHANGED <<clockVars, inputVars, expiries, pc, arrived, since, outcome, answer, historyVars>>

(* The host closes the connection. *)
ClientGone(q) ==
  /\ InProcess(q) /\ ctx[q] = "live"
  /\ ctx' = [ctx EXCEPT ![q] = "cancelled"]
  /\ UNCHANGED <<clockVars, inputVars, expiries, pc, arrived, since, outcome, answer, historyVars>>

(* The wall clock is set, forward or back. *)
StepClock ==
  /\ offset' \in 0..Swing
  /\ UNCHANGED <<now, inputVars, expiries, pc, ctx, arrived, since, outcome, answer, historyVars>>

(* A deadline that has still to pass. *)
Pending(q) ==
  /\ pc[q] \in {"resolving", "running"}
  /\ now < arrived[q] + TotalDeadline

Tick ==
  /\ now < MaxTime \/ \E q \in Requests : Pending(q)
  /\ \A q \in Requests : pc[q] = "checked" => now < since[q] + Lag
  /\ now' = now + 1
  /\ UNCHANGED <<offset, inputVars, expiries, pc, ctx, arrived, since, outcome, answer, historyVars>>

(* A crash takes the requests with it, and the in-process store. *)
Restart ==
  /\ pc' = [q \in Requests |-> IF InProcess(q) THEN "dropped" ELSE pc[q]]
  /\ expiries' = IF durable THEN expiries ELSE EmptyStore
  /\ lost' = IF durable THEN lost ELSE consumers
  /\ ctx' = [q \in Requests |-> "live"]
  /\ arrived' = [q \in Requests |-> 0] /\ since' = [q \in Requests |-> 0]
  /\ outcome' = [q \in Requests |-> "none"]
  /\ UNCHANGED <<clockVars, inputVars, answer, consumers, ran>>

RouteStep(q) ==
  \/ Arrive(q) \/ Refuse(q) \/ Check(q) \/ Replayed(q) \/ Consume(q)
  \/ ResolveFails(q) \/ AnswerDryRun(q) \/ Execute(q)
  \/ Start(q) \/ RunEnds(q) \/ Abort(q) \/ Report(q)

Next ==
  \/ \E q \in Requests : RouteStep(q) \/ Expire(q) \/ ClientGone(q)
  \/ StepClock
  \/ Tick
  \/ Restart

Spec == Init /\ [][Next]_vars

(* Time passes, timers fire and the scheduler runs the request goroutines.  *)
(* A fetch ends with its context; nothing makes a body arrive or a script   *)
(* compile or return.                                                       *)
FairSpec ==
  /\ Spec
  /\ WF_vars(Tick)
  /\ \A q \in Requests :
       /\ WF_vars(Expire(q))
       /\ WF_vars(Replayed(q) \/ Consume(q))
       /\ WF_vars(ctx[q] # "live" /\ ResolveFails(q))
       /\ WF_vars(Abort(q))
       /\ WF_vars(Report(q))

-----------------------------------------------------------------------------
(* Properties. *)

TypeOK ==
  /\ now \in Nat /\ offset \in 0..Swing
  /\ durable \in BOOLEAN
  /\ DOMAIN expiries \subseteq Invocations /\ expiries \in [DOMAIN expiries -> Nat]
  /\ issued \in [Invocations -> IssueTimes] /\ dryRun \in [Invocations -> BOOLEAN]
  /\ carries \in [Requests -> Invocations]
  /\ pc \in [Requests -> Stages] /\ ctx \in [Requests -> Contexts]
  /\ arrived \in [Requests -> Nat] /\ since \in [Requests -> Nat]
  /\ outcome \in [Requests -> Outcomes] /\ answer \in [Requests -> Answers]
  /\ consumers \subseteq Requests /\ ran \subseteq consumers /\ lost \subseteq consumers

(* The spare second of the ttl covers a stall between the freshness check   *)
(* and Add together with the steps of the wall clock.                       *)
SpareCoversStalls == Lag + Swing < Second

(* An invocation is executed at most once as long as its nonce store lives, *)
(* however often, late or concurrently its bytes arrive: "Full replay       *)
(* semantics here".                                                         *)
AtMostOnce ==
  \A q, r \in ran \ lost : SameNonce(q, r) => q = r

(* The deliveries as OneShot sees them: those of the current store. *)
Promise ==
  INSTANCE OneShot WITH
    Deliveries <- Requests,
    of <- carries,
    dry <- {i \in Invocations : dryRun[i]},
    claimed <- consumers \ lost,
    executed <- ran \ lost,
    refused <- {q \in Requests : answer[q] = "replayed"}

(* The route keeps the promise of OneShot: redeliveries, stalls, restarts   *)
(* and clock steps included, as long as SpareCoversStalls.                  *)
KeepsPromise == Promise!Spec

(* A request is refused as a replay only if another one really recorded the *)
(* nonce: neither a refused delivery nor the request itself can have.       *)
ReplayedOnlyAfterConsumed ==
  \A q \in Requests :
    answer[q] = "replayed" => \E r \in consumers \ {q} : SameNonce(q, r)

(* An execution that is reported to have exceeded its timeout had all of    *)
(* it, although the total deadline may cut it short; and an invocation that *)
(* is reported to have exceeded the total deadline did.                     *)
TimeoutNamesItsCause ==
  [][\A q \in Requests : answer[q] = "none" =>
       /\ answer'[q] = "timeout" => now >= since[q] + Timeout
       /\ answer'[q] = "total_timeout" => now >= arrived[q] + TotalDeadline]_vars

(* "A hung script fetch must still leave us time to answer": past the       *)
(* freshness check a request is answered, or reaches the compiler, which    *)
(* has no deadline; and a running script is answered for.                   *)
InvocationsEnd ==
  \A q \in Requests :
    /\ pc[q] = "checked" ~> pc[q] \in {"starting", "answered", "dropped"}
    /\ pc[q] = "running" ~> pc[q] \in {"answered", "dropped"}
=============================================================================
