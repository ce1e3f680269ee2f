------------------------------ MODULE BodyStore ------------------------------
(***************************************************************************)
(* What the resolver promises of script bodies, as if they were kept and   *)
(* fetched in single steps: a request is given the body it asked for, out  *)
(* of memory, from a file that holds it whole, or from the host; what is   *)
(* remembered or saved is a body somebody was given; only a request that   *)
(* found nothing at hand asks the host, unless its file became unreliable; *)
(* and memory is all that a crash takes.                                   *)
(***************************************************************************)
CONSTANTS Requests, Digests, Projects, Contents, Absent

VARIABLES asked,      \* the digest each request asks for, and for which project
          remembered, \* what the process remembers the body of
          file,       \* what the file of each body holds
          unreliable, \* the files others changed, or that could not be used
          served,     \* what the host has served
          cold,       \* the requests that began with nothing at hand
          holding,    \* those that have their body, and may still save it
          outcome     \* the body each was given

vars == <<asked, remembered, file, unreliable, served, cold, holding, outcome>>

Scopes == Digests \X Projects

Init ==
  /\ asked \in [Requests -> Scopes]
  /\ remembered = {} /\ unreliable = {} /\ served = {}
  /\ file = [k \in Scopes |-> Absent]
  /\ cold = {} /\ holding = {}
  /\ outcome = [q \in Requests |-> Absent]

Body(q) == asked[q][1]

AtHand == remembered \cup {k \in Scopes \ unreliable : file[k] # Absent}

BeginCold(q) ==
  /\ q \notin cold
  /\ cold' = cold \cup {q}
  /\ asked[q] \notin AtHand
  /\ UNCHANGED <<asked, remembered, file, unreliable, served, holding, outcome>>

Waits(q) == q \notin holding /\ outcome[q] = Absent

Recall(q) ==
  /\ Waits(q)
  /\ asked[q] \in remembered
  /\ outcome' = [outcome EXCEPT ![q] = Body(q)]
  /\ UNCHANGED <<asked, remembered, file, unreliable, served, cold, holding>>

Read(q) ==
  /\ Waits(q)
  /\ file[asked[q]] = Body(q)
  /\ holding' = holding \cup {q}
  /\ UNCHANGED <<asked, remembered, file, unreliable, served, cold, outcome>>

Fetch(q) ==
  /\ Waits(q)
  /\ q \in cold \/ asked[q] \in unreliable
  /\ served' = served \cup {asked[q]}
  /\ holding' = holding \cup {q}
  /\ UNCHANGED <<asked, remembered, file, unreliable, cold, outcome>>

Remember(q) ==
  /\ q \in holding
  /\ remembered' = remembered \cup {asked[q]}
  /\ UNCHANGED <<asked, file, unreliable, served, cold, holding, outcome>>

(* The body may be saved on the way out; a failure may spoil the attempt. *)
Give(q) ==
  /\ q \in holding
  /\ outcome' = [outcome EXCEPT ![q] = Body(q)]
  /\ holding' = holding \ {q}
  /\ remembered' = remembered \cup {asked[q]}
  /\ \/ file' = [file EXCEPT ![asked[q]] = Body(q)] /\ UNCHANGED unreliable
     \/ unreliable' \in {unreliable, unreliable \cup {asked[q]}} /\ UNCHANGED file
  /\ UNCHANGED <<asked, served, cold>>

Tamper(k) ==
  /\ unreliable' = unreliable \cup {k}
  /\ UNCHANGED <<outcome, holding, cold, served, remembered, asked>>
  /\ \E text \in Contents \cup {Absent} : file' = [file EXCEPT ![k] = text]

Crash ==
  /\ remembered' = {} /\ holding' = {}
  /\ UNCHANGED <<asked, file, unreliable, served, cold, outcome>>

Next ==
  \/ \E q \in Requests :
       BeginCold(q) \/ Recall(q) \/ Read(q) \/ Fetch(q) \/ Remember(q) \/ Give(q)
  \/ \E k \in Scopes : Tamper(k)
  \/ Crash

Spec == Init /\ [][Next]_vars
=============================================================================
