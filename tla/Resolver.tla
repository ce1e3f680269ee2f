------------------------------ MODULE Resolver ------------------------------
(***************************************************************************)
(* The script resolver (resolver.go): memory, then disk, then a signed     *)
(* fetch, for concurrent requests and across restarts of the process.  A   *)
(* body stands for its own SHA-256: a digest is the one body that hashes   *)
(* to it, and Junk is any text (half of a body, somebody else's) that      *)
(* hashes to no digest asked for.                                          *)
(***************************************************************************)
EXTENDS ProjectSecrets

CONSTANTS Requests, \* calls of resolve
          Digests,  \* well-formed digests
          Configs,  \* validated configurations: their secret and secrets
          Junk,
          NoFile,
          AnyProject \* stands for the project where one secret serves all

ASSUME ContentAssumption ==
  /\ Junk \notin Digests /\ NoFile \notin Digests \cup {Junk}
  /\ AnyProject \notin ProjectIds
  /\ \A c \in Configs : DOMAIN c.secrets \subseteq ProjectIds

VARIABLES
  config,  \* Config
  cacheDir, \* Config.CacheDir is set
  memory,  \* the verified bodies by cache key
  disk,    \* the files under CacheDir by cache key
  temp,    \* the temporary file of each request
  pc,      \* where each request is in resolve
  digest,  \* the digest it asks for
  project, \* the project id it carries
  body,    \* the text it holds, and returns
  vouched, \* history: what the host has served to a project, verified
  known,   \* history: what this process has verified for a project
  saved,   \* history: what was put on disk for a project
  damaged, \* history: files others changed, or that could not be read or removed
  warm     \* history: requests that began with their body known or saved

configVars == <<config, cacheDir>>
requestVars == <<digest, project>>
historyVars == <<vouched, known, saved, damaged, warm>>
vars == <<configVars, memory, disk, temp, pc, requestVars, body, historyVars>>

Contents == Digests \cup {Junk}
Projects == ProjectIds \cup {AnyProject}
Keys == Digests \X Projects
Stages == {"idle", "lookup", "disk", "promoting", "fetching", "checking", "storing", "creating",
           "writing", "closing", "renaming", "returned", "refused", "dropped"}

(* Mutant: the key keeps the spelling of the project id. *)
MutCacheKey(q) ==
  <<digest[q], IF SingleSecret(config) THEN AnyProject ELSE project[q]>>

(* Mutant: the key is the digest alone. *)
MutCacheKeyOneProject(q) == <<digest[q], AnyProject>>

(* cacheKey, and the path under CacheDir, which has the same two parts. *)
CacheKey(q) ==
  <<digest[q], IF SingleSecret(config) THEN AnyProject ELSE Lower[project[q]]>>

(* What the request is entitled to: its digest, in its own project. *)
Scope(q) == <<digest[q], IF SingleSecret(config) THEN AnyProject ELSE Lower[project[q]]>>

Hashes(text, d) == text = d

Init ==
  /\ config \in Configs /\ cacheDir \in BOOLEAN
  /\ memory = [k \in Keys |-> NoFile] /\ disk = [k \in Keys |-> NoFile]
  /\ temp = [q \in Requests |-> NoFile]
  /\ pc = [q \in Requests |-> "idle"]
  /\ digest \in [Requests -> Digests] /\ project \in [Requests -> ProjectIds]
  /\ body = [q \in Requests |-> NoFile]
  /\ vouched = {} /\ known = {} /\ saved = {} /\ damaged = {} /\ warm = {}

Goto(q, stage) == pc' = [pc EXCEPT ![q] = stage]
Hold(q, text) == body' = [body EXCEPT ![q] = text]

-----------------------------------------------------------------------------
(* Looking the body up. *)

Begin(q) ==
  /\ pc[q] = "idle"
  /\ Goto(q, IF SecretForProject(config, project[q]) = {} THEN "refused" ELSE "lookup")
  /\ warm' = IF Scope(q) \in known \cup saved THEN warm \cup {q} ELSE warm
  /\ UNCHANGED <<configVars, memory, disk, temp, requestVars, body, vouched, known, saved, damaged>>

(* What memory holds is returned as it is. *)
MemoryHit(q) ==
  /\ pc[q] = "lookup"
  /\ memory[CacheKey(q)] # NoFile
  /\ Hold(q, memory[CacheKey(q)])
  /\ Goto(q, "returned")
  /\ UNCHANGED <<configVars, memory, disk, temp, requestVars, historyVars>>

MemoryMiss(q) ==
  /\ pc[q] = "lookup"
  /\ memory[CacheKey(q)] = NoFile
  /\ Goto(q, IF cacheDir THEN "disk" ELSE "fetching")
  /\ UNCHANGED <<configVars, memory, disk, temp, requestVars, body, historyVars>>

(* Mutant: a file is trusted for its name. *)
MutDiskHit(q) ==
  /\ pc[q] = "disk"
  /\ disk[CacheKey(q)] # NoFile
  /\ Hold(q, disk[CacheKey(q)])
  /\ Goto(q, "promoting")
  /\ UNCHANGED <<configVars, memory, disk, temp, requestVars, historyVars>>

(* A file is hashed before it is trusted. *)
DiskHit(q) ==
  /\ pc[q] = "disk"
  /\ Hashes(disk[CacheKey(q)], digest[q])
  /\ Hold(q, disk[CacheKey(q)])
  /\ Goto(q, "promoting")
  /\ UNCHANGED <<configVars, memory, disk, temp, requestVars, historyVars>>

(* No file, one that does not hash, or one that cannot be read. *)
DiskMiss(q) ==
  /\ pc[q] = "disk"
  /\ damaged' = IF Hashes(disk[CacheKey(q)], digest[q]) THEN damaged \cup {CacheKey(q)}
                                                        ELSE damaged
  /\ Goto(q, "fetching")
  /\ UNCHANGED <<configVars, memory, disk, temp, requestVars, body, vouched, known, saved, warm>>

(* The body goes to memory: read from disk, or fetched. *)
Remember(q) ==
  /\ memory' = [memory EXCEPT ![CacheKey(q)] = body[q]]
  /\ known' = known \cup {Scope(q)}

Promote(q) ==
  /\ pc[q] = "promoting"
  /\ Remember(q)
  /\ Goto(q, "returned")
  /\ UNCHANGED <<configVars, disk, temp, requestVars, body, vouched, saved, damaged, warm>>

-----------------------------------------------------------------------------
(* Fetching and storing it. *)

(* No answer before the context ends, an unreadable or unsigned one, a      *)
(* status that is not 2xx, a payload without a script or for something else.*)
FetchFails(q) ==
  /\ pc[q] = "fetching"
  /\ Goto(q, "refused")
  /\ UNCHANGED <<configVars, memory, disk, temp, requestVars, body, historyVars>>

FetchAnswers(q) ==
  /\ pc[q] = "fetching"
  /\ \E text \in Contents : Hold(q, text)
  /\ Goto(q, "checking")
  /\ UNCHANGED <<configVars, memory, disk, temp, requestVars, historyVars>>

CheckFails(q) ==
  /\ pc[q] = "checking"
  /\ ~Hashes(body[q], digest[q])
  /\ Hold(q, NoFile)
  /\ Goto(q, "refused")
  /\ UNCHANGED <<configVars, memory, disk, temp, requestVars, historyVars>>

(* Mutant: the fetched body is trusted, as the channel is signed. *)
MutCheckPasses(q) ==
  /\ pc[q] = "checking"
  /\ vouched' = vouched \cup {Scope(q)}
  /\ Goto(q, "storing")
  /\ UNCHANGED <<configVars, memory, disk, temp, requestVars, body, known, saved, damaged, warm>>

CheckPasses(q) ==
  /\ pc[q] = "checking"
  /\ Hashes(body[q], digest[q])
  /\ vouched' = vouched \cup {Scope(q)}
  /\ Goto(q, "storing")
  /\ UNCHANGED <<configVars, memory, disk, temp, requestVars, body, known, saved, damaged, warm>>

Store(q) ==
  /\ pc[q] = "storing"
  /\ Remember(q)
  /\ Goto(q, IF cacheDir THEN "creating" ELSE "returned")
  /\ UNCHANGED <<configVars, disk, temp, requestVars, body, vouched, saved, damaged, warm>>

(* Mutant: the body is written under its final name. *)
MutCreateTemp(q) ==
  /\ pc[q] = "creating"
  /\ disk' = [disk EXCEPT ![CacheKey(q)] = Junk]
  /\ temp' = [temp EXCEPT ![q] = Junk]
  /\ Goto(q, "writing")
  /\ UNCHANGED <<configVars, memory, requestVars, body, historyVars>>

(* MkdirAll and CreateTemp; a new file has nothing in it yet. *)
CreateTemp(q) ==
  /\ pc[q] = "creating"
  /\ temp' = [temp EXCEPT ![q] = Junk]
  /\ Goto(q, "writing")
  /\ UNCHANGED <<configVars, memory, disk, requestVars, body, historyVars>>

WriteTemp(q) ==
  /\ pc[q] = "writing"
  /\ temp' = [temp EXCEPT ![q] = body[q]]
  /\ Goto(q, "closing")
  /\ UNCHANGED <<configVars, memory, disk, requestVars, body, historyVars>>

CloseTemp(q) ==
  /\ pc[q] = "closing"
  /\ Goto(q, "renaming")
  /\ UNCHANGED <<configVars, memory, disk, temp, requestVars, body, historyVars>>

(* Mutant: only a failed write removes the file. *)
MutSaveFails(q) ==
  /\ pc[q] \in {"creating", "writing", "closing", "renaming"}
  /\ temp' = IF pc[q] = "writing" THEN [temp EXCEPT ![q] = NoFile] ELSE temp
  /\ Goto(q, "returned")
  /\ UNCHANGED <<configVars, memory, disk, requestVars, body, historyVars>>

(* Any step may fail: the body is returned all the same, and the file is    *)
(* removed, if that succeeds.                                               *)
SaveFails(q) ==
  /\ pc[q] \in {"creating", "writing", "closing", "renaming"}
  /\ \/ temp' = [temp EXCEPT ![q] = NoFile] /\ UNCHANGED damaged
     \/ damaged' = damaged \cup {CacheKey(q)} /\ UNCHANGED temp
  /\ Goto(q, "returned")
  /\ UNCHANGED <<configVars, memory, disk, requestVars, body, vouched, known, saved, warm>>

Rename(q) ==
  /\ pc[q] = "renaming"
  /\ disk' = [disk EXCEPT ![CacheKey(q)] = temp[q]]
  /\ temp' = [temp EXCEPT ![q] = NoFile]
  /\ saved' = saved \cup {Scope(q)}
  /\ Goto(q, "returned")
  /\ UNCHANGED <<configVars, memory, requestVars, body, vouched, known, damaged, warm>>

-----------------------------------------------------------------------------
(* Crashes, and the rest of the machine. *)

InProcess(q) == pc[q] \notin {"idle", "returned", "refused", "dropped"}

(* Memory goes with the process; files stay, temporary ones included. *)
Restart ==
  /\ pc' = [q \in Requests |-> IF InProcess(q) THEN "dropped" ELSE pc[q]]
  /\ body' = [q \in Requests |-> IF InProcess(q) THEN NoFile ELSE body[q]]
  /\ memory' = [k \in Keys |-> NoFile]
  /\ known' = {}
  /\ UNCHANGED <<configVars, disk, temp, requestVars, vouched, saved, damaged, warm>>

(* "Disk is shared, mutable state": somebody writes or removes a file, or a *)
(* power failure takes what was never flushed.  Files no request asks for   *)
(* are left out.                                                            *)
Damage(k) ==
  /\ cacheDir
  /\ \E text \in Contents \cup {NoFile} : disk' = [disk EXCEPT ![k] = text]
  /\ damaged' = damaged \cup {k}
  /\ UNCHANGED <<configVars, memory, temp, pc, requestVars, body, vouched, known, saved, warm>>

Resolve(q) ==
  \/ Begin(q) \/ MemoryHit(q) \/ MemoryMiss(q) \/ DiskHit(q) \/ DiskMiss(q) \/ Promote(q)
  \/ FetchFails(q) \/ FetchAnswers(q) \/ CheckFails(q) \/ CheckPasses(q) \/ Store(q)
  \/ CreateTemp(q) \/ WriteTemp(q) \/ CloseTemp(q) \/ SaveFails(q) \/ Rename(q)

Next ==
  \/ \E q \in Requests : Resolve(q)
  \/ Restart
  \/ \E q \in Requests : Damage(Scope(q))

Spec == Init /\ [][Next]_vars

-----------------------------------------------------------------------------
(* Properties. *)

TypeOK ==
  /\ config \in Configs /\ cacheDir \in BOOLEAN
  /\ memory \in [Keys -> Digests \cup {NoFile}]
  /\ disk \in [Keys -> Contents \cup {NoFile}]
  /\ temp \in [Requests -> Contents \cup {NoFile}]
  /\ pc \in [Requests -> Stages]
  /\ digest \in [Requests -> Digests] /\ project \in [Requests -> ProjectIds]
  /\ body \in [Requests -> Contents \cup {NoFile}]
  /\ vouched \subseteq Keys /\ known \subseteq Keys /\ saved \subseteq Keys
  /\ damaged \subseteq Keys /\ warm \subseteq Requests

(* "A body runs iff sha256(body) equals the digest inside the signed        *)
(* invocation": also one that came from memory, which is not hashed again,  *)
(* or from a file somebody else has changed.                                *)
VerifiedBody == \A q \in Requests : pc[q] = "returned" => body[q] = digest[q]

(* "The write is atomic (temp + rename) so a concurrent reader never sees a *)
(* half body": unless another program wrote there, a file under a body's    *)
(* name is that body, whatever crashes or fails and whoever writes beside.  *)
NoHalfFile == \A k \in Keys \ damaged : disk[k] \in {NoFile, k[1]}

(* A project is served only a body the host has served to that project,     *)
(* unless another program put it on disk: the caches do not carry a body    *)
(* from one project of the deployment to another.                           *)
ProjectsApart ==
  \A q \in Requests : pc[q] = "returned" => Scope(q) \in vouched \cup damaged

(* A request that begins with its body known to this process, or saved by   *)
(* any, does not fetch it again unless the file was damaged: "CacheDir      *)
(* persists digest-keyed script bodies across restarts".                    *)
CacheSparesFetch ==
  \A q \in warm : pc[q] = "fetching" => Scope(q) \in damaged

(* Whichever step of saving fails, only a crash, or a file that cannot be   *)
(* removed, leaves a temporary file behind.                                 *)
NoLitter ==
  \A q \in Requests :
    temp[q] # NoFile /\ Scope(q) \notin damaged
      => pc[q] \in {"writing", "closing", "renaming", "dropped"}

(* The requests, memory and files as BodyStore sees them. *)
Promise ==
  INSTANCE BodyStore WITH
    Absent <- NoFile,
    asked <- [q \in Requests |-> Scope(q)],
    remembered <- {k \in Keys : memory[k] # NoFile},
    file <- disk,
    unreliable <- damaged,
    served <- vouched,
    cold <- {q \in Requests : pc[q] # "idle" /\ q \notin warm},
    holding <- {q \in Requests : pc[q] \in {"promoting", "storing", "creating", "writing",
                                            "closing", "renaming"}},
    outcome <- [q \in Requests |-> IF pc[q] = "returned" THEN body[q] ELSE NoFile]

(* Seen from outside, the lookups, the checks and the steps of the atomic   *)
(* write are single steps of BodyStore, wherever they fail or crash.        *)
ImplementsBodyStore == Promise!Spec
=============================================================================
