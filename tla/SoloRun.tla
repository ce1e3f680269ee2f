------------------------------- MODULE SoloRun -------------------------------
(***************************************************************************)
(* What the executor keeps of the promise of a run that works in a program *)
(* of its own, whatever programs it reuses: the run works alone in its     *)
(* program; only runs of its own scope whose evaluation ended without an   *)
(* error were there before it; it reports once; and a result it reports is *)
(* the one its own evaluation computed.                                    *)
(*                                                                         *)
(* The programs of runs that panicked are reused too (LeavePanicked),      *)
(* which a comment of the code denies: a run that panicked is kept apart   *)
(* from the clean ones here, and its program is not called clean.          *)
(***************************************************************************)
CONSTANTS Runs, Scopes, NoRun

VARIABLES scope,    \* what each run works for
          working,  \* the runs that have a program
          heritage, \* the runs whose package state each of them may find in it
          computed, \* the runs whose own evaluation captured a result
          clean,    \* those that reported and left their program for another run
          panicked, \* those that left it for another run after a panic
          outcome,  \* what each run reported
          source    \* and whose evaluation computed it

vars == <<scope, working, heritage, computed, clean, panicked, outcome, source>>

(* A script that returns an error has run to its end: only what it returns  *)
(* tells it from a success.                                                 *)
Reported == {"ok", "error", "non_serializable_result"}

Init ==
  /\ scope \in [Runs -> Scopes]
  /\ working = {} /\ computed = {}
  /\ clean = {} /\ panicked = {}
  /\ heritage = [r \in Runs |-> {}]
  /\ outcome = [r \in Runs |-> "none"]
  /\ source = [r \in Runs |-> NoRun]

Take(r) ==
  /\ r \notin working /\ outcome[r] = "none"
  /\ \E earlier \in SUBSET {q \in clean \cup panicked : scope[q] = scope[r]} :
       heritage' = [heritage EXCEPT ![r] = earlier]
  /\ working' = working \cup {r}
  /\ UNCHANGED <<scope, computed, clean, panicked, outcome, source>>

NothingToTake(r) ==
  /\ r \notin working /\ outcome[r] = "none"
  /\ outcome' = [outcome EXCEPT ![r] = "compile_error"]
  /\ UNCHANGED <<scope, working, heritage, computed, clean, panicked, source>>

(* The evaluation of an aborted run may still end. *)
Compute(r) ==
  /\ r \in working \/ outcome[r] = "aborted"
  /\ computed' = computed \cup {r}
  /\ UNCHANGED <<scope, working, heritage, clean, panicked, outcome, source>>

Complete(r) ==
  /\ r \in working \cap computed /\ outcome[r] = "none"
  /\ \E class \in Reported : outcome' = [outcome EXCEPT ![r] = class]
  /\ source' = [source EXCEPT ![r] = r]
  /\ UNCHANGED <<scope, working, heritage, computed, clean, panicked>>

(* Reading the result of a finished evaluation panics. *)
Panic(r) ==
  /\ r \in working \cap computed /\ outcome[r] = "none"
  /\ outcome' = [outcome EXCEPT ![r] = "panic"]
  /\ source' = [source EXCEPT ![r] = r]
  /\ UNCHANGED <<scope, working, heritage, computed, clean, panicked>>

Leave(r) ==
  /\ r \in working
  /\ working' = working \ {r}
  /\ heritage' = [heritage EXCEPT ![r] = {}]

LeaveClean(r) ==
  /\ Leave(r)
  /\ outcome[r] \in Reported
  /\ clean' = clean \cup {r}
  /\ UNCHANGED <<scope, computed, panicked, outcome, source>>

(* The departure from what the code says of panics, as the code has it. *)
LeavePanicked(r) ==
  /\ Leave(r)
  /\ outcome[r] = "panic"
  /\ panicked' = panicked \cup {r}
  /\ UNCHANGED <<scope, computed, clean, outcome, source>>

(* The script failed, or the run was aborted: nobody takes the program over. *)
Quit(r) ==
  /\ Leave(r)
  /\ outcome[r] = "none"
  /\ \/ outcome' = [outcome EXCEPT ![r] = "aborted"]
     \/ r \notin computed /\ outcome' = [outcome EXCEPT ![r] = "script_failed"]
  /\ UNCHANGED <<scope, computed, clean, panicked, source>>

Next ==
  \E r \in Runs :
    \/ Take(r) \/ NothingToTake(r) \/ Compute(r) \/ Complete(r) \/ Panic(r)
    \/ LeaveClean(r) \/ LeavePanicked(r) \/ Quit(r)

Spec == Init /\ [][Next]_vars
=============================================================================
