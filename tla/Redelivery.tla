----------------------------- MODULE Redelivery -----------------------------
(***************************************************************************)
(* What the result route promises a host that posts the same result again  *)
(* and again: its deliveries are handled one at a time, and a delivery is  *)
(* acked only if its own handling succeeded or another delivery of the     *)
(* result was handled, is being handled - and may still fail behind the    *)
(* ack - or was interrupted by a crash that a durable store remembers.     *)
(***************************************************************************)
CONSTANTS Results, Deliveries

VARIABLES of,        \* the result each delivery is of
          durable,   \* the store outlives a crash
          open,      \* the deliveries being handled
          handled,   \* those handled with success
          orphaned,  \* those a crash interrupted, while the store remembers them
          acked,     \* those answered with an ack
          failed     \* those answered with a failure of their handling

vars == <<of, durable, open, handled, orphaned, acked, failed>>

Init ==
  /\ of \in [Deliveries -> Results] /\ durable \in BOOLEAN
  /\ open = {} /\ handled = {} /\ orphaned = {}
  /\ acked = {} /\ failed = {}

SameAs(d) == {e \in Deliveries : of[e] = of[d]}

Begin(d) ==
  /\ d \notin handled \cup acked \cup failed
  /\ SameAs(d) \cap open = {}
  /\ open' = open \cup {d}
  /\ orphaned' \in SUBSET (orphaned \ SameAs(d))
  /\ UNCHANGED <<of, durable, handled, acked, failed>>

Succeed(d) ==
  /\ d \in open
  /\ open' = open \ {d}
  /\ handled' = handled \cup {d}
  /\ acked' = acked \cup {d}
  /\ UNCHANGED <<of, durable, orphaned, failed>>

Fail(d) ==
  /\ d \in open
  /\ open' = open \ {d}
  /\ failed' = failed \cup {d}
  /\ UNCHANGED <<of, durable, handled, orphaned, acked>>

AckDuplicate(d) ==
  /\ d \notin open \cup acked \cup failed
  /\ orphaned' \in SUBSET orphaned
  /\ SameAs(d) \cap (open \cup handled \cup orphaned') # {}
  /\ acked' = acked \cup {d}
  /\ UNCHANGED <<of, durable, open, handled, failed>>

Crash ==
  /\ open' = {}
  /\ orphaned' = IF durable THEN orphaned \cup open ELSE {}
  /\ UNCHANGED <<of, durable, handled, acked, failed>>

Next ==
  \/ \E d \in Deliveries : Begin(d) \/ Succeed(d) \/ Fail(d) \/ AckDuplicate(d)
  \/ Crash

Spec == Init /\ [][Next]_vars
=============================================================================
