--------------------------- MODULE ResolverProofs ---------------------------
(***************************************************************************)
(* Theorems about Resolver, for any number of concurrent requests, digests *)
(* and projects, whatever crashes, fails or changes the files.             *)
(***************************************************************************)
EXTENDS Resolver, TLAPS

(* Where a text has been verified, or is one that was. *)
Verified == {"promoting", "storing", "creating", "writing", "closing", "renaming", "returned"}

(* A key is served what hashes to its digest, and what was vouched for. *)
MemoryInv ==
  \A k \in Keys : memory[k] # NoFile => memory[k] = k[1] /\ k \in vouched \cup damaged

BodyInv ==
  \A q \in Requests :
    pc[q] \in Verified => body[q] = digest[q] /\ Scope(q) \in vouched \cup damaged

TempInv == \A q \in Requests : pc[q] \in {"closing", "renaming"} => temp[q] = body[q]

(* Files nobody touched. *)
DiskInv ==
  \A k \in Keys \ damaged :
    /\ disk[k] # NoFile => disk[k] = k[1] /\ k \in vouched
    /\ k \in saved => disk[k] = k[1]

(* What is known is in memory; only a process with a CacheDir saves. *)
KnownInv ==
  /\ \A k \in known : memory[k] # NoFile
  /\ saved # {} => cacheDir
  /\ \A q \in Requests :
       pc[q] \in {"disk", "creating", "writing", "closing", "renaming"} => cacheDir

(* How far a request that began warm may have come. *)
WarmInv ==
  \A q \in warm :
    /\ pc[q] # "idle"
    /\ pc[q] = "lookup" => Scope(q) \in known \cup saved \cup damaged
    /\ pc[q] = "disk" => Scope(q) \in saved \cup damaged
    /\ pc[q] = "fetching" => Scope(q) \in damaged

IInv ==
  /\ TypeOK /\ MemoryInv /\ BodyInv /\ TempInv /\ DiskInv /\ KnownInv /\ WarmInv /\ NoLitter

-----------------------------------------------------------------------------

(* The key the code makes is the scope of the request. *)
LEMMA KeyIsScope ==
  ASSUME TypeOK, NEW q \in Requests
  PROVE  CacheKey(q) = Scope(q) /\ Scope(q) \in Keys /\ Scope(q)[1] = digest[q]
  BY IdAssumption DEF TypeOK, CacheKey, Scope, Keys, Projects

LEMMA ScopeStays ==
  ASSUME [Next]_vars, NEW q \in Requests
  PROVE  Scope(q)' = Scope(q)
  <1>1. UNCHANGED <<config, requestVars>>
    BY DEF Next, vars, configVars, Resolve, Begin, MemoryHit, MemoryMiss, DiskHit, DiskMiss,
       Promote, FetchFails, FetchAnswers, CheckFails, CheckPasses, Store, CreateTemp,
       WriteTemp, CloseTemp, SaveFails, Rename, Restart, Damage
  <1> QED
    BY <1>1 DEF Scope, requestVars, SingleSecret

LEMMA InitInv == Init => IInv
  BY ContentAssumption
  DEF Init, IInv, TypeOK, Stages, Contents, MemoryInv, BodyInv, Verified, TempInv, DiskInv,
      KnownInv, WarmInv, NoLitter

(* Steps that leave memory, the files and what is known of them alone. *)
LEMMA LookupInv ==
  ASSUME IInv, NEW r \in Requests, \A q \in Requests : Scope(q)' = Scope(q),
         Begin(r) \/ MemoryHit(r) \/ MemoryMiss(r) \/ DiskHit(r) \/ FetchFails(r)
         \/ FetchAnswers(r) \/ CheckFails(r)
  PROVE  IInv'
  <1> USE ContentAssumption DEF IInv
  <1>1. CacheKey(r) = Scope(r) /\ Scope(r) \in Keys /\ Scope(r)[1] = digest[r]
    BY KeyIsScope
  <1>2. UNCHANGED <<configVars, memory, disk, temp, requestVars, vouched, known, saved, damaged>>
    BY DEF Begin, MemoryHit, MemoryMiss, DiskHit, FetchFails, FetchAnswers, CheckFails,
       historyVars
  <1>3. TypeOK'
    BY <1>1, <1>2 DEF TypeOK, Contents, Stages, configVars, requestVars, historyVars, Goto, Hold,
       Begin, MemoryHit, MemoryMiss, DiskHit, FetchFails, FetchAnswers, CheckFails
  <1>4. MemoryInv' /\ DiskInv'
    BY <1>2 DEF MemoryInv, DiskInv
  <1>5. BodyInv'
    BY <1>1, <1>2 DEF BodyInv, Verified, MemoryInv, DiskInv, Hashes, TypeOK, requestVars, Goto,
       Hold, Begin, MemoryHit, MemoryMiss, DiskHit, FetchFails, FetchAnswers, CheckFails
  <1>6. TempInv' /\ NoLitter'
    BY <1>2 DEF TempInv, NoLitter, TypeOK, Goto, Hold, Begin, MemoryHit, MemoryMiss, DiskHit,
       FetchFails, FetchAnswers, CheckFails
  <1>7. KnownInv'
    BY <1>2 DEF KnownInv, TypeOK, configVars, Goto, Begin, MemoryHit, MemoryMiss, DiskHit,
       FetchFails, FetchAnswers, CheckFails
  <1>8. WarmInv'
    BY <1>1, <1>2 DEF WarmInv, KnownInv, TypeOK, historyVars, Goto, Begin, MemoryHit, MemoryMiss,
       DiskHit, FetchFails, FetchAnswers, CheckFails
  <1> QED
    BY <1>3, <1>4, <1>5, <1>6, <1>7, <1>8

(* A file that does not serve, and a fetched body that does. *)
LEMMA VerdictInv ==
  ASSUME IInv, NEW r \in Requests, \A q \in Requests : Scope(q)' = Scope(q),
         DiskMiss(r) \/ CheckPasses(r)
  PROVE  IInv'
  <1> USE ContentAssumption DEF IInv
  <1>1. CacheKey(r) = Scope(r) /\ Scope(r) \in Keys /\ Scope(r)[1] = digest[r]
    BY KeyIsScope
  <1>2. UNCHANGED <<configVars, memory, disk, temp, requestVars, body, known, saved, warm>>
    BY DEF DiskMiss, CheckPasses
  <1>3. TypeOK'
    BY <1>1, <1>2 DEF TypeOK, Stages, configVars, requestVars, Goto, DiskMiss, CheckPasses
  <1>4. vouched \subseteq vouched' /\ damaged \subseteq damaged'
    BY DEF DiskMiss, CheckPasses
  <1>5. MemoryInv' /\ DiskInv'
    BY <1>2, <1>4 DEF MemoryInv, DiskInv
  <1>6. BodyInv'
    BY <1>1, <1>2, <1>4 DEF BodyInv, Verified, Hashes, TypeOK, requestVars, Goto, DiskMiss,
       CheckPasses
  <1>7. TempInv' /\ KnownInv'
    BY <1>2 DEF TempInv, KnownInv, TypeOK, configVars, Goto, DiskMiss, CheckPasses
  <1>8. NoLitter'
    BY <1>2, <1>4 DEF NoLitter, TypeOK, Goto, DiskMiss, CheckPasses
  <1>9. WarmInv'
    BY <1>1, <1>2, <1>4 DEF WarmInv, DiskInv, Hashes, TypeOK, Goto, DiskMiss, CheckPasses
  <1> QED
    BY <1>3, <1>5, <1>6, <1>7, <1>8, <1>9

LEMMA RememberInv ==
  ASSUME IInv, NEW r \in Requests, \A q \in Requests : Scope(q)' = Scope(q),
         Promote(r) \/ Store(r)
  PROVE  IInv'
  <1> USE ContentAssumption DEF IInv
  <1>1. CacheKey(r) = Scope(r) /\ Scope(r) \in Keys /\ Scope(r)[1] = digest[r]
    BY KeyIsScope
  <1>2. /\ UNCHANGED <<configVars, disk, temp, requestVars, body, vouched, saved, damaged, warm>>
        /\ memory' = [memory EXCEPT ![Scope(r)] = digest[r]]
        /\ known' = known \cup {Scope(r)}
    BY <1>1 DEF Promote, Store, Remember, BodyInv, Verified
  <1>3. TypeOK'
    BY <1>1, <1>2 DEF TypeOK, Stages, configVars, requestVars, Goto, Promote, Store
  <1>4. MemoryInv'
    BY <1>1, <1>2 DEF MemoryInv, BodyInv, Verified, TypeOK, Promote, Store
  <1>5. BodyInv'
    BY <1>2 DEF BodyInv, Verified, TypeOK, requestVars, Goto, Promote, Store
  <1>6. TempInv' /\ NoLitter' /\ DiskInv'
    BY <1>2 DEF TempInv, NoLitter, DiskInv, TypeOK, Goto, Promote, Store
  <1>7. KnownInv'
    BY <1>1, <1>2 DEF KnownInv, TypeOK, configVars, Goto, Promote, Store
  <1>8. WarmInv'
    BY <1>2 DEF WarmInv, TypeOK, Goto, Promote, Store
  <1> QED
    BY <1>3, <1>4, <1>5, <1>6, <1>7, <1>8

(* Writing the temporary file, and giving it up. *)
LEMMA TempFileInv ==
  ASSUME IInv, NEW r \in Requests, \A q \in Requests : Scope(q)' = Scope(q),
         CreateTemp(r) \/ WriteTemp(r) \/ CloseTemp(r) \/ SaveFails(r)
  PROVE  IInv'
  <1> USE ContentAssumption DEF IInv
  <1>1. CacheKey(r) = Scope(r) /\ Scope(r) \in Keys
    BY KeyIsScope
  <1>2. UNCHANGED <<configVars, memory, disk, requestVars, body, vouched, known, saved, warm>>
    BY DEF CreateTemp, WriteTemp, CloseTemp, SaveFails, historyVars
  <1>3. damaged \subseteq damaged' /\ damaged' \subseteq Keys
    BY <1>1 DEF TypeOK, CreateTemp, WriteTemp, CloseTemp, SaveFails, historyVars
  <1>4. TypeOK'
    BY <1>2, <1>3 DEF TypeOK, Contents, Stages, configVars, requestVars, Goto, CreateTemp,
       WriteTemp, CloseTemp, SaveFails
  <1>5. MemoryInv' /\ DiskInv'
    BY <1>2, <1>3 DEF MemoryInv, DiskInv
  <1>6. BodyInv'
    BY <1>2, <1>3 DEF BodyInv, Verified, TypeOK, requestVars, Goto, CreateTemp, WriteTemp,
       CloseTemp, SaveFails
  <1>7. TempInv' /\ KnownInv'
    BY <1>2 DEF TempInv, KnownInv, TypeOK, configVars, Goto, CreateTemp, WriteTemp, CloseTemp,
       SaveFails
  <1>8. NoLitter'
    BY <1>1, <1>3 DEF NoLitter, TypeOK, Goto, CreateTemp, WriteTemp, CloseTemp, SaveFails
  <1>9. WarmInv'
    BY <1>2, <1>3 DEF WarmInv, TypeOK, Goto, CreateTemp, WriteTemp, CloseTemp, SaveFails
  <1> QED
    BY <1>4, <1>5, <1>6, <1>7, <1>8, <1>9

LEMMA RenameInv ==
  ASSUME IInv, NEW r \in Requests, \A q \in Requests : Scope(q)' = Scope(q), Rename(r)
  PROVE  IInv'
  <1> USE ContentAssumption DEF IInv
  <1>1. CacheKey(r) = Scope(r) /\ Scope(r) \in Keys /\ Scope(r)[1] = digest[r]
    BY KeyIsScope
  <1>2. /\ UNCHANGED <<configVars, memory, requestVars, body, vouched, known, damaged, warm>>
        /\ disk' = [disk EXCEPT ![Scope(r)] = digest[r]]
        /\ saved' = saved \cup {Scope(r)}
        /\ temp' = [temp EXCEPT ![r] = NoFile]
    BY <1>1 DEF Rename, TempInv, BodyInv, Verified
  <1>3. TypeOK'
    BY <1>1, <1>2 DEF TypeOK, Contents, Stages, configVars, requestVars, Goto, Rename
  <1>4. MemoryInv' /\ DiskInv'
    BY <1>1, <1>2 DEF MemoryInv, DiskInv, BodyInv, Verified, TypeOK, Rename
  <1>5. BodyInv'
    BY <1>2 DEF BodyInv, Verified, TypeOK, requestVars, Goto, Rename
  <1>6. TempInv' /\ NoLitter'
    BY <1>2 DEF TempInv, NoLitter, TypeOK, Goto, Rename
  <1>7. KnownInv'
    BY <1>2 DEF KnownInv, TypeOK, configVars, Goto, Rename
  <1>8. WarmInv'
    BY <1>2 DEF WarmInv, TypeOK, Goto, Rename
  <1> QED
    BY <1>3, <1>4, <1>5, <1>6, <1>7, <1>8

LEMMA RestartInv ==
  ASSUME IInv, \A q \in Requests : Scope(q)' = Scope(q), Restart
  PROVE  IInv'
  <1> USE ContentAssumption DEF IInv, Restart
  <1>1. TypeOK'
    BY DEF TypeOK, Stages, configVars, requestVars
  <1>2. MemoryInv' /\ DiskInv' /\ KnownInv'
    BY DEF MemoryInv, DiskInv, KnownInv, InProcess, TypeOK, configVars
  <1>3. BodyInv' /\ TempInv'
    BY DEF BodyInv, Verified, TempInv, InProcess, TypeOK, requestVars
  <1>4. NoLitter'
    BY DEF NoLitter, InProcess, TypeOK
  <1>5. ASSUME NEW q \in warm
        PROVE  pc'[q] \notin {"idle", "lookup", "disk", "fetching"}
    BY <1>5 DEF WarmInv, InProcess, TypeOK
  <1>6. WarmInv'
    BY <1>5 DEF WarmInv
  <1> QED
    BY <1>1, <1>2, <1>3, <1>4, <1>6

LEMMA DamageInv ==
  ASSUME IInv, NEW k \in Keys, \A q \in Requests : Scope(q)' = Scope(q), Damage(k)
  PROVE  IInv'
  <1> USE ContentAssumption DEF IInv, Damage
  <1>1. TypeOK'
    BY DEF TypeOK, configVars, requestVars
  <1>2. MemoryInv' /\ KnownInv'
    BY DEF MemoryInv, KnownInv, configVars
  <1>3. \A j \in Keys \ damaged' : j \notin damaged /\ disk'[j] = disk[j]
    BY DEF TypeOK
  <1>4. DiskInv'
    BY <1>3 DEF DiskInv
  <1>5. BodyInv' /\ TempInv' /\ NoLitter' /\ WarmInv'
    BY DEF BodyInv, TempInv, NoLitter, WarmInv, TypeOK, requestVars
  <1> QED
    BY <1>1, <1>2, <1>4, <1>5

LEMMA NextInv == IInv /\ [Next]_vars => IInv'
  <1> SUFFICES ASSUME IInv, [Next]_vars PROVE IInv'
    OBVIOUS
  <1>1. \A q \in Requests : Scope(q)' = Scope(q)
    BY ScopeStays
  <1>2. CASE \E q \in Requests : Resolve(q)
    <2>1. PICK q \in Requests : Resolve(q)
      BY <1>2
    <2> QED
      BY <1>1, <2>1, LookupInv, VerdictInv, RememberInv, TempFileInv, RenameInv DEF Resolve
  <1>3. CASE Restart
    BY <1>1, <1>3, RestartInv
  <1>4. CASE \E q \in Requests : Damage(Scope(q))
    BY <1>1, <1>4, DamageInv, KeyIsScope DEF IInv
  <1>5. CASE UNCHANGED vars
    BY <1>1, <1>5 DEF IInv, vars, configVars, requestVars, historyVars, TypeOK, MemoryInv,
       BodyInv, TempInv, DiskInv, KnownInv, WarmInv, NoLitter
  <1> QED
    BY <1>2, <1>3, <1>4, <1>5 DEF Next

THEOREM Invariance == Spec => []IInv
  BY InitInv, NextInv, PTL DEF Spec

-----------------------------------------------------------------------------

(* Every variable of the resolver keeps its type; memory in particular      *)
(* holds digests' bodies only.                                              *)
THEOREM TypeCorrect == Spec => []TypeOK
  BY Invariance, PTL DEF IInv

(* Every body that leaves resolve hashes to the digest asked for. *)
THEOREM VerifiedBodyCorrect == Spec => []VerifiedBody
  <1>1. IInv => VerifiedBody
    BY DEF IInv, BodyInv, Verified, VerifiedBody
  <1> QED
    BY <1>1, Invariance, PTL

(* A file under a body's name is that body, or damaged by others. *)
THEOREM NoHalfFileCorrect == Spec => []NoHalfFile
  <1>1. IInv => NoHalfFile
    BY DEF IInv, DiskInv, NoHalfFile
  <1> QED
    BY <1>1, Invariance, PTL

(* No project is served a body the host has not served to it. *)
THEOREM ProjectsApartCorrect == Spec => []ProjectsApart
  <1>1. IInv => ProjectsApart
    BY DEF IInv, BodyInv, Verified, ProjectsApart
  <1> QED
    BY <1>1, Invariance, PTL

(* A body known to the process or saved on disk is not fetched again. *)
THEOREM CacheSparesFetchCorrect == Spec => []CacheSparesFetch
  <1>1. IInv => CacheSparesFetch
    BY DEF IInv, WarmInv, CacheSparesFetch
  <1> QED
    BY <1>1, Invariance, PTL

(* Only a crash or a failed removal leaves a temporary file behind. *)
THEOREM NoLitterCorrect == Spec => []NoLitter
  BY Invariance, PTL DEF IInv

-----------------------------------------------------------------------------
(* Resolver implements BodyStore. *)

(* What a request has in hand it remembers before it saves it, and what is  *)
(* in memory or in a file nobody touched was known or saved.                *)
AtHandInv ==
  /\ \A k \in Keys : memory[k] # NoFile => k \in known
  /\ \A k \in Keys \ damaged : disk[k] # NoFile => k \in saved
  /\ \A q \in Requests :
       pc[q] \in {"creating", "writing", "closing", "renaming"} => Scope(q) \in known
  /\ \A q \in warm : pc[q] = "checking" => Scope(q) \in damaged

LEMMA AtHandNext == IInv /\ AtHandInv /\ [Next]_vars => AtHandInv'
  <1> SUFFICES ASSUME IInv, AtHandInv, [Next]_vars PROVE AtHandInv'
    OBVIOUS
  <1> USE ContentAssumption DEF IInv
  <1>1. \A q \in Requests : Scope(q)' = Scope(q)
    BY ScopeStays
  <1>2. \A q \in Requests : CacheKey(q) = Scope(q) /\ Scope(q) \in Keys /\ Scope(q)[1] = digest[q]
    BY KeyIsScope
  <1>3. ASSUME NEW r \in Requests, Resolve(r)
        PROVE  AtHandInv'
    <2>1. CASE Begin(r) \/ MemoryHit(r) \/ MemoryMiss(r) \/ DiskHit(r) \/ FetchFails(r)
               \/ FetchAnswers(r) \/ CheckFails(r)
      <3>1. UNCHANGED <<memory, disk, known, saved, damaged>>
        BY <2>1 DEF Begin, MemoryHit, MemoryMiss, DiskHit, FetchFails, FetchAnswers, CheckFails,
           historyVars
      <3> QED
        BY <1>1, <2>1, <3>1 DEF AtHandInv, WarmInv, TypeOK, Goto, Begin, MemoryHit, MemoryMiss,
           DiskHit, FetchFails, FetchAnswers, CheckFails, historyVars
    <2>2. CASE DiskMiss(r) \/ CheckPasses(r)
      <3>1. UNCHANGED <<memory, disk, known, saved, warm>> /\ damaged \subseteq damaged'
        BY <2>2 DEF DiskMiss, CheckPasses
      <3> QED
        BY <1>1, <2>2, <3>1 DEF AtHandInv, TypeOK, Goto, DiskMiss, CheckPasses
    <2>3. CASE Promote(r) \/ Store(r)
      <3>1. /\ UNCHANGED <<disk, saved, damaged, warm>>
            /\ memory' = [memory EXCEPT ![Scope(r)] = body[r]]
            /\ known' = known \cup {Scope(r)}
        BY <1>2, <2>3 DEF Promote, Store, Remember
      <3> QED
        BY <1>1, <1>2, <2>3, <3>1 DEF AtHandInv, TypeOK, Goto, Promote, Store
    <2>4. CASE CreateTemp(r) \/ WriteTemp(r) \/ CloseTemp(r) \/ SaveFails(r)
      <3>1. UNCHANGED <<memory, disk, known, saved, warm>> /\ damaged \subseteq damaged'
        BY <2>4 DEF CreateTemp, WriteTemp, CloseTemp, SaveFails, historyVars
      <3> QED
        BY <1>1, <2>4, <3>1 DEF AtHandInv, TypeOK, Goto, CreateTemp, WriteTemp, CloseTemp,
           SaveFails
    <2>5. CASE Rename(r)
      <3>1. /\ UNCHANGED <<memory, known, damaged, warm>>
            /\ disk' = [disk EXCEPT ![Scope(r)] = temp[r]]
            /\ saved' = saved \cup {Scope(r)}
        BY <1>2, <2>5 DEF Rename
      <3> QED
        BY <1>1, <1>2, <2>5, <3>1 DEF AtHandInv, TypeOK, Goto, Rename
    <2> QED
      BY <1>3, <2>1, <2>2, <2>3, <2>4, <2>5 DEF Resolve
  <1>4. CASE Restart
    BY <1>1, <1>4 DEF AtHandInv, TypeOK, Restart, InProcess
  <1>5. CASE \E q \in Requests : Damage(Scope(q))
    BY <1>1, <1>2, <1>5 DEF AtHandInv, TypeOK, Damage
  <1>6. CASE UNCHANGED vars
    BY <1>1, <1>6 DEF AtHandInv, vars, historyVars, TypeOK
  <1> QED
    BY <1>3, <1>4, <1>5, <1>6 DEF Next

Cold == {q \in Requests : pc[q] # "idle" /\ q \notin warm}

Holding ==
  {q \in Requests : pc[q] \in {"promoting", "storing", "creating", "writing", "closing",
                               "renaming"}}

Given == [q \in Requests |-> IF pc[q] = "returned" THEN body[q] ELSE NoFile]

Remembered == {k \in Keys : memory[k] # NoFile}

(* What a step that takes request r from one stage to another shows. *)
LEMMA StageShows ==
  ASSUME IInv, NEW r \in Requests, NEW s, Goto(r, s),
         \A q \in Requests \ {r} : body'[q] = body[q]
  PROVE  /\ s \notin {"promoting", "storing", "creating", "writing", "closing", "renaming"}
              => Holding' = Holding \ {r}
         /\ s \in {"promoting", "storing", "creating", "writing", "closing", "renaming"}
              => Holding' = Holding \cup {r}
         /\ pc[r] # "idle" /\ s # "idle" /\ warm' = warm => Cold' = Cold
         /\ pc[r] # "returned" /\ s # "returned" => Given' = Given
         /\ s = "returned" => Given' = [Given EXCEPT ![r] = body'[r]]
  BY DEF Goto, Holding, Cold, Given, IInv, TypeOK

LEMMA PromiseViews ==
  /\ Promise!Scopes = Keys
  /\ \A q \in Requests : [p \in Requests |-> Scope(p)][q] = Scope(q)
  BY DEF Promise!Scopes, Keys

(* Looking up, missing, refusing and the steps of the temporary file.       *)
LEMMA UnseenSteps ==
  ASSUME IInv, NEW r \in Requests, [q \in Requests |-> Scope(q)]' = [q \in Requests |-> Scope(q)],
         \/ MemoryMiss(r) \/ FetchFails(r) \/ FetchAnswers(r) \/ CheckFails(r)
         \/ CreateTemp(r) \/ WriteTemp(r) \/ CloseTemp(r)
  PROVE  UNCHANGED Promise!vars
  <1>1. /\ UNCHANGED <<memory, disk, damaged, vouched, warm>>
        /\ \A q \in Requests \ {r} : body'[q] = body[q]
    BY DEF MemoryMiss, FetchFails, FetchAnswers, CheckFails, CreateTemp, WriteTemp, CloseTemp,
       historyVars, Hold, IInv, TypeOK
  <1>2. UNCHANGED <<Cold, Holding, Given>>
    BY <1>1 DEF MemoryMiss, FetchFails, FetchAnswers, CheckFails, CreateTemp, WriteTemp,
       CloseTemp, Goto, Cold, Holding, Given, IInv, TypeOK
  <1> QED
    BY <1>1, <1>2 DEF Promise!vars, Cold, Holding, Given

(* A request that begins with nothing at hand is seen; any other is not.    *)
LEMMA BeginShows ==
  ASSUME IInv, AtHandInv, NEW r \in Requests, Begin(r),
         [q \in Requests |-> Scope(q)]' = [q \in Requests |-> Scope(q)]
  PROVE  [Promise!BeginCold(r)]_(Promise!vars)
  <1>1. pc[r] = "idle" /\ UNCHANGED <<memory, disk, damaged, vouched, body>>
    BY DEF Begin
  <1>2. UNCHANGED <<Holding, Given>>
    BY <1>1 DEF Begin, Goto, Holding, Given, IInv, TypeOK
  <1>3. CASE Scope(r) \in known \cup saved
    <2>1. Cold' = Cold
      BY <1>1, <1>3 DEF Begin, Goto, Cold, IInv, TypeOK
    <2> QED
      BY <1>1, <1>2, <2>1 DEF Promise!vars, Cold, Holding, Given
  <1>4. CASE Scope(r) \notin known \cup saved
    <2>1. r \notin Cold /\ Cold' = Cold \cup {r}
      BY <1>1, <1>4 DEF Begin, Goto, Cold, IInv, TypeOK, WarmInv
    <2>2. Scope(r) \notin Promise!AtHand
      BY <1>4, PromiseViews DEF AtHandInv, Promise!AtHand
    <2> QED
      BY <1>1, <1>2, <2>1, <2>2 DEF Promise!BeginCold, Cold, Holding, Given
  <1> QED
    BY <1>3, <1>4

(* A request finds its body: in memory, in a file, or at the host. *)
LEMMA BodyIsFound ==
  ASSUME IInv, AtHandInv, NEW r \in Requests,
         MemoryHit(r) \/ DiskHit(r) \/ CheckPasses(r),
         [q \in Requests |-> Scope(q)]' = [q \in Requests |-> Scope(q)]
  PROVE  Promise!Recall(r) \/ Promise!Read(r) \/ Promise!Fetch(r)
  <1>1. CacheKey(r) = Scope(r) /\ Scope(r) \in Keys /\ Scope(r)[1] = digest[r]
    BY KeyIsScope DEF IInv
  <1>2. /\ pc[r] \in {"lookup", "disk", "checking"}
        /\ UNCHANGED <<memory, disk, damaged, warm>>
    BY DEF MemoryHit, DiskHit, CheckPasses, historyVars
  <1>3. r \notin Holding /\ Given[r] = NoFile
    BY <1>2 DEF Holding, Given
  <1>4. \A q \in Requests \ {r} : body'[q] = body[q]
    BY DEF MemoryHit, DiskHit, CheckPasses, Hold, IInv, TypeOK
  <1>5. CASE MemoryHit(r)
    <2>1. Scope(r) \in Remembered /\ body'[r] = Scope(r)[1]
      BY <1>1, <1>5 DEF MemoryHit, Hold, Remembered, IInv, MemoryInv, TypeOK
    <2>2. Holding' = Holding /\ Cold' = Cold /\ Given' = [Given EXCEPT ![r] = body'[r]]
      BY <1>2, <1>3, <1>4, <1>5, StageShows DEF MemoryHit
    <2>3. vouched' = vouched
      BY <1>5 DEF MemoryHit, historyVars
    <2> QED
      BY <1>2, <1>3, <2>1, <2>2, <2>3
      DEF Promise!Recall, Promise!Waits, Promise!Body, Cold, Holding, Given, Remembered
  <1>6. CASE DiskHit(r)
    <2>1. disk[Scope(r)] = Scope(r)[1]
      BY <1>1, <1>6 DEF DiskHit, Hashes
    <2>2. Holding' = Holding \cup {r} /\ Cold' = Cold /\ Given' = Given
      BY <1>2, <1>4, <1>6, StageShows DEF DiskHit
    <2>3. vouched' = vouched
      BY <1>6 DEF DiskHit, historyVars
    <2> QED
      BY <1>2, <1>3, <2>1, <2>2, <2>3
      DEF Promise!Read, Promise!Waits, Promise!Body, Cold, Holding, Given
  <1>7. CASE CheckPasses(r)
    <2>1. r \in Cold \/ Scope(r) \in damaged
      BY <1>7 DEF CheckPasses, Cold, AtHandInv
    <2>2. Holding' = Holding \cup {r} /\ Cold' = Cold /\ Given' = Given
      BY <1>2, <1>4, <1>7, StageShows DEF CheckPasses
    <2>3. vouched' = vouched \cup {Scope(r)}
      BY <1>7 DEF CheckPasses
    <2> QED
      BY <1>2, <1>3, <2>1, <2>2, <2>3
      DEF Promise!Fetch, Promise!Waits, Cold, Holding, Given
  <1> QED
    BY <1>5, <1>6, <1>7

(* What is in hand goes to memory, and out, saved or not. *)
LEMMA BodyIsGiven ==
  ASSUME IInv, AtHandInv, NEW r \in Requests,
         Promote(r) \/ Store(r) \/ SaveFails(r) \/ Rename(r),
         [q \in Requests |-> Scope(q)]' = [q \in Requests |-> Scope(q)]
  PROVE  Promise!Remember(r) \/ Promise!Give(r)
  <1>1. CacheKey(r) = Scope(r) /\ Scope(r) \in Keys /\ Scope(r)[1] = digest[r]
    BY KeyIsScope DEF IInv
  <1>2. r \in Holding /\ UNCHANGED <<body, vouched, warm>>
    BY DEF Holding, Promote, Store, SaveFails, Rename
  <1>3. body[r] = Scope(r)[1] /\ body[r] # NoFile
    BY <1>1, <1>2, ContentAssumption DEF Holding, IInv, BodyInv, Verified, TypeOK
  <1>4. Remembered' = Remembered \cup {Scope(r)}
    <2>1. CASE Promote(r) \/ Store(r)
      BY <1>1, <1>3, <2>1 DEF Promote, Store, Remember, Remembered, IInv, TypeOK
    <2>2. CASE SaveFails(r) \/ Rename(r)
      BY <1>1, <2>2 DEF SaveFails, Rename, Remembered, AtHandInv, IInv, KnownInv
    <2> QED
      BY <2>1, <2>2
  <1>5. ASSUME Goto(r, "returned")
        PROVE  /\ Holding' = Holding \ {r} /\ Cold' = Cold
               /\ Given' = [Given EXCEPT ![r] = Scope(r)[1]]
    BY <1>2, <1>3, <1>5, StageShows DEF Holding
  <1>6. CASE Goto(r, "returned") /\ UNCHANGED <<disk, damaged>>
    BY <1>2, <1>4, <1>5, <1>6
    DEF Promise!Give, Promise!Body, Cold, Holding, Given, Remembered
  <1>7. CASE Goto(r, "creating") /\ UNCHANGED <<disk, damaged>>
    <2>1. Holding' = Holding /\ Cold' = Cold /\ Given' = Given
      BY <1>2, <1>7, StageShows DEF Holding
    <2> QED
      BY <1>2, <1>4, <1>7, <2>1 DEF Promise!Remember, Cold, Holding, Given, Remembered
  <1>8. CASE SaveFails(r)
    <2>1. /\ Goto(r, "returned") /\ disk' = disk
          /\ damaged' \in {damaged, damaged \cup {Scope(r)}}
      BY <1>1, <1>8 DEF SaveFails
    <2> QED
      BY <1>2, <1>4, <1>5, <2>1
      DEF Promise!Give, Promise!Body, Cold, Holding, Given, Remembered
  <1>9. CASE Rename(r)
    <2>1. /\ Goto(r, "returned") /\ damaged' = damaged
          /\ disk' = [disk EXCEPT ![Scope(r)] = Scope(r)[1]]
      BY <1>1, <1>3, <1>9 DEF Rename, IInv, TempInv
    <2> QED
      BY <1>2, <1>4, <1>5, <2>1
      DEF Promise!Give, Promise!Body, Cold, Holding, Given, Remembered
  <1> QED
    BY <1>6, <1>7, <1>8, <1>9 DEF Promote, Store

(* Whatever else happens to files, and the process. *)
LEMMA FilesAreTouched ==
  ASSUME IInv, NEW r \in Requests, Damage(Scope(r)) \/ DiskMiss(r),
         [q \in Requests |-> Scope(q)]' = [q \in Requests |-> Scope(q)]
  PROVE  [Promise!Tamper(Scope(r))]_(Promise!vars)
  <1>1. CacheKey(r) = Scope(r) /\ Scope(r) \in Keys
    BY KeyIsScope DEF IInv
  <1>2. UNCHANGED <<memory, vouched, warm, body>>
    BY DEF Damage, DiskMiss
  <1>3. UNCHANGED <<Cold, Holding, Given>>
    BY <1>2 DEF Damage, DiskMiss, Goto, Cold, Holding, Given, IInv, TypeOK
  <1>4. CASE UNCHANGED <<disk, damaged>>
    BY <1>2, <1>3, <1>4 DEF Promise!vars, Cold, Holding, Given
  <1>5. CASE damaged' = damaged \cup {Scope(r)}
    <2>1. \E text \in Contents \cup {NoFile} : disk' = [disk EXCEPT ![Scope(r)] = text]
      <3>1. CASE Damage(Scope(r))
        BY <3>1 DEF Damage
      <3>2. CASE disk' = disk
        BY <1>1, <3>2 DEF IInv, TypeOK
      <3> QED
        BY <3>1, <3>2 DEF DiskMiss
    <2> QED
      BY <1>2, <1>3, <1>5, <2>1 DEF Promise!Tamper, Cold, Holding, Given
  <1> QED
    BY <1>1, <1>4, <1>5 DEF Damage, DiskMiss

LEMMA RestartShows ==
  ASSUME IInv, Restart, [q \in Requests |-> Scope(q)]' = [q \in Requests |-> Scope(q)]
  PROVE  Promise!Crash
  <1>1. Remembered' = {} /\ Holding' = {} /\ Cold' = Cold /\ Given' = Given
    BY DEF Restart, InProcess, Remembered, Holding, Cold, Given, IInv, TypeOK
  <1> QED
    BY <1>1 DEF Restart, Promise!Crash, Remembered, Holding, Cold, Given

(* Every step of a request, a crash or of others is a step of BodyStore or  *)
(* changes nothing in it.                                                   *)
LEMMA StepSimulation ==
  ASSUME IInv, AtHandInv, [Next]_vars
  PROVE  [Promise!Next]_(Promise!vars)
  <1>1. [q \in Requests |-> Scope(q)]' = [q \in Requests |-> Scope(q)]
    BY ScopeStays
  <1>2. CASE \E q \in Requests : Begin(q) \/ MemoryHit(q) \/ DiskHit(q) \/ CheckPasses(q)
                                \/ Promote(q) \/ Store(q) \/ SaveFails(q) \/ Rename(q)
    BY <1>1, <1>2, BeginShows, BodyIsFound, BodyIsGiven DEF Promise!Next
  <1>3. CASE \E q \in Requests : Damage(Scope(q)) \/ DiskMiss(q)
    BY <1>1, <1>3, FilesAreTouched, KeyIsScope, PromiseViews DEF Promise!Next, IInv
  <1>4. CASE Restart
    BY <1>1, <1>4, RestartShows DEF Promise!Next
  <1>5. CASE UNCHANGED vars
    BY <1>1, <1>5 DEF vars, historyVars, Promise!vars
  <1> QED
    BY <1>1, <1>2, <1>3, <1>4, <1>5, UnseenSteps DEF Next, Resolve

(* For any number of requests, digests and projects, and wherever a crash   *)
(* or a failure comes in: a request is given the body of its digest or      *)
(* none, memory and untouched files hold nothing else, and whoever found    *)
(* the body at hand does not ask the host.                                  *)
THEOREM BodyStoreCorrect == Spec => ImplementsBodyStore
  <1>1. Init => Promise!Init /\ AtHandInv
    <2>1. ASSUME Init PROVE [q \in Requests |-> Scope(q)] \in [Requests -> Promise!Scopes]
      BY <2>1, InitInv, KeyIsScope, PromiseViews DEF IInv
    <2> QED
      BY <2>1, PromiseViews DEF Init, Promise!Init, AtHandInv, Keys
  <1>2. IInv /\ AtHandInv /\ [Next]_vars => [Promise!Next]_(Promise!vars)
    BY StepSimulation
  <1> QED
    BY <1>1, <1>2, AtHandNext, Invariance, PTL DEF Spec, ImplementsBodyStore, Promise!Spec
=============================================================================
