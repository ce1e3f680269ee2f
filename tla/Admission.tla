----------------------------- MODULE Admission -----------------------------
(***************************************************************************)
(* A deployment from its boot to what it lets run (config.go, secrets.go,  *)
(* action.go): a configuration is completed and validated once, and from   *)
(* then on every request to the action handler is answered, unsigned or    *)
(* under the secret of the project it names, and an invocation that passes *)
(* every validator runs in the scope it carries.  Freshness, the nonce and *)
(* the lookup of the script, which ActionRoute and Resolver model, let     *)
(* everything pass here.                                                   *)
(***************************************************************************)
EXTENDS Boot, InvocationContext, ParamSchema

CONSTANTS Deployments,  \* what one may configure, and what its environment may say
          HTTPRequests, \* requests to the action handler
          CanonicalIds, \* texts with the shape of a lower-case UUID
          DigestHex,    \* the hex of every spelling of a digest that is one
          MaxRuns       \* bound: different runs, after which nothing is served

ASSUME RequestAssumption ==
  /\ HTTPRequests # {} /\ MaxRuns \in Nat
  /\ \A r \in HTTPRequests :
       /\ r.query \in Seq(ProjectIds \cup {""})
       /\ \A f \in DOMAIN r.raw : IsString(r.raw[f]) => IsText(r.raw[f].text)

(* The principals that may be asserted. *)
Asserted ==
  {PrincipalOf(r.raw) : r \in {q \in HTTPRequests :
                                 "principal" \in DOMAIN q.raw /\ PrincipalValid(q.raw)}}

(* A hash has no NUL, and no two principals have one hash. *)
ASSUME ShapeAssumption ==
  /\ Empty \notin CanonicalIds
  /\ \A d \in DOMAIN DigestHex : IsText(DigestHex[d]) /\ ~HasNul(DigestHex[d])
  /\ \A p \in Asserted : Sha(p) \in Parts /\ \A o \in Asserted : Sha(p) = Sha(o) => p = o

VARIABLES phase,   \* "new", "refused" at boot, or "up"
          env,     \* the environment of the process
          config,  \* Config
          request, \* the request that was last answered
          reply,   \* its status and the secret it was signed with
          runs     \* history: the runs handed to the executor

vars == <<phase, env, config, request, reply, runs>>

Unsigned == ""
NoReply == [status |-> "none", secret |-> Unsigned]
Statuses == {"none", "ok", "refused", "bad_signature", "not_found", "method_not_allowed",
             "disabled"}

Init ==
  /\ phase = "new" /\ \E d \in Deployments : config = d.config /\ env = d.env
  /\ request = (CHOOSE r \in HTTPRequests : TRUE) /\ reply = NoReply /\ runs = {}

(* New: applyDefaults, then validate. *)
BootUp ==
  /\ phase = "new"
  /\ config' = WithDefaults(config, env)
  /\ phase' = IF Valid(config') THEN "up" ELSE "refused"
  /\ UNCHANGED <<env, request, reply, runs>>

-----------------------------------------------------------------------------
(* What selects the key, and what a body must be. *)

(* inboundSecret: in map mode only a body that decodes names a project.  Of *)
(* one above the limit only the beginning is read, which decodes if what is *)
(* left out is white space.                                                 *)
InboundSecrets(r) ==
  LET id == StringField(r.raw, "project_id")
  IN  IF SingleSecret(config) THEN SecretForProject(config, "")
      ELSE {s \in SecretForProject(config, Head(id)) : r.body \in {"json", "padded"} /\ ~HasNul(id)}

(* Mutant: the first of several project ids counts. *)
MutHealthSecrets(r) ==
  IF SingleSecret(config) THEN SecretForProject(config, "")
  ELSE IF r.query = <<>> THEN {} ELSE SecretForProject(config, r.query[1])

(* healthSecret: the query must name exactly one project. *)
HealthSecrets(r) ==
  IF SingleSecret(config) THEN SecretForProject(config, "")
  ELSE IF Len(r.query) # 1 THEN {} ELSE SecretForProject(config, r.query[1])

Verified(r, secret) == r.signer = secret

(* parseInvocation; a field that is no string counts as an empty one, and   *)
(* an empty runtime as ours.                                                *)
Parsed(r) ==
  /\ r.body = "json"
  /\ "dry_run" \in DOMAIN r.raw => IsBool(r.raw.dry_run)
  /\ "action_run_id" \in DOMAIN r.raw =>
       IsString(r.raw.action_run_id) /\ r.raw.action_run_id.text \in CanonicalIds
  /\ "attachments" \in DOMAIN r.raw => r.raw.attachments = Object(<<>>)
  /\ \A f \in {"action_id", "script_digest", "nonce", "issued_at"} : StringField(r.raw, f) # Empty
  /\ StringField(r.raw, "runtime") \in {Empty, <<"go">>}

TenantRequired(r) ==
  /\ config.requireTenantContext
  /\ \A i \in DOMAIN config.tenantlessActions :
       StringField(r.raw, "action_id") # <<config.tenantlessActions[i]>>

(* Past the validators of invoke and the resolver's. *)
Admitted(r) ==
  /\ Parsed(r)
  /\ TenantValid(r.raw, TenantRequired(r))
  /\ PrincipalValid(r.raw)
  /\ ParamsValid(r.raw)
  /\ StringField(r.raw, "script_digest") \in DOMAIN DigestHex

DryRun(r) == "dry_run" \in DOMAIN r.raw /\ r.raw.dry_run.truth

RunOf(r) ==
  LET tenant == TenantOf(r.raw)
      principal == PrincipalOf(r.raw)
      hexDigest == DigestHex[StringField(r.raw, "script_digest")]
  IN  [request |-> r, tenant |-> tenant, principal |-> principal,
       environment |-> InvocationEnvironment(principal, StringField(r.raw, "action_run_id")),
       poolKey |-> PoolKey(hexDigest, tenant, principal)]

-----------------------------------------------------------------------------
(* The handler. *)

Reply(r, status, secret) ==
  /\ request' = r
  /\ reply' = [status |-> status, secret |-> secret]
  /\ UNCHANGED <<phase, env, config>>

IsHealth(r) == r.path = "health"

AnswerDisabled(r) ==
  /\ phase = "up" /\ ~ActionEnabled(config)
  /\ Reply(r, "disabled", Unsigned)
  /\ UNCHANGED runs

(* Anything wrong with a probe, and nothing is there. *)
AnswerHealth(r) ==
  /\ phase = "up" /\ ActionEnabled(config) /\ IsHealth(r)
  /\ \/ \E s \in HealthSecrets(r) :
          r.method = "GET" /\ Verified(r, s) /\ Reply(r, "ok", s)
     \/ /\ \/ HealthSecrets(r) = {} \/ r.method # "GET"
           \/ \E s \in HealthSecrets(r) : ~Verified(r, s)
        /\ Reply(r, "not_found", Unsigned)
  /\ UNCHANGED runs

AnswerMethod(r) ==
  /\ phase = "up" /\ ActionEnabled(config) /\ ~IsHealth(r) /\ r.method # "POST"
  /\ Reply(r, "method_not_allowed", Unsigned)
  /\ UNCHANGED runs

Invoked(r) == phase = "up" /\ ActionEnabled(config) /\ ~IsHealth(r) /\ r.method = "POST"

(* No project key was found to sign with. *)
AnswerNoSecret(r) ==
  /\ Invoked(r) /\ InboundSecrets(r) = {}
  /\ Reply(r, "bad_signature", Unsigned)
  /\ UNCHANGED runs

(* An unreadable or oversized body is refused before its signature is looked at. *)
AnswerRefusal(r) ==
  /\ Invoked(r)
  /\ \E s \in InboundSecrets(r) :
       \/ r.body \in {"unreadable", "oversized", "padded"} /\ Reply(r, "refused", s)
       \/ r.body \in {"json", "not_json"} /\ ~Verified(r, s) /\ Reply(r, "bad_signature", s)
       \/ /\ r.body \in {"json", "not_json"} /\ Verified(r, s) /\ ~Admitted(r)
          /\ Reply(r, "refused", s)
  /\ UNCHANGED runs

Execute(r) ==
  /\ Invoked(r) /\ r.body = "json"
  /\ \E s \in InboundSecrets(r) : Verified(r, s) /\ Admitted(r) /\ Reply(r, "ok", s)
  /\ runs' = IF DryRun(r) THEN runs ELSE runs \cup {RunOf(r)}

Serve(r) ==
  \/ AnswerDisabled(r) \/ AnswerHealth(r) \/ AnswerMethod(r)
  \/ AnswerNoSecret(r) \/ AnswerRefusal(r) \/ Execute(r)

Next ==
  \/ BootUp
  \/ Cardinality(runs) < MaxRuns /\ \E r \in HTTPRequests : Serve(r)

Spec == Init /\ [][Next]_vars

-----------------------------------------------------------------------------
(* Properties. *)

TypeOK ==
  /\ phase \in {"new", "refused", "up"}
  /\ \E d \in Deployments : env = d.env
  /\ request \in HTTPRequests
  /\ reply.status \in Statuses
  /\ \A run \in runs :
       /\ run.request \in HTTPRequests
       /\ run.principal # NoPrincipal =>
            \A text \in {run.principal.kind, run.principal.externalID} :
              text # Empty /\ ~HasNul(text)
  /\ Cardinality(runs) <= MaxRuns

Serving == phase = "up" /\ ActionEnabled(config)

(* However the ids of a deployment are spelled, in its configuration and in *)
(* what arrives, a project has one secret, in every direction: the host is  *)
(* answered and called with the key it is expected to use.                  *)
OneSecretPerProject ==
  Serving => \A p, q \in ProjectIds :
    p \in ValidIds /\ q \in ValidIds /\ SameProject(p, q) =>
      /\ SecretForProject(config, p) = SecretForProject(config, q)
      /\ OutboundSecret(config, p) = SecretForProject(config, q)
      /\ Cardinality(SecretForProject(config, p)) <= 1

(* The spellings of the project a request names: the one of the body, or    *)
(* those of a probe's query.                                                *)
Named(r) ==
  IF IsHealth(r) THEN {r.query[i] : i \in DOMAIN r.query}
  ELSE {Head(StringField(r.raw, "project_id"))}

(* The secret is the deployment's only one, or configured for the one       *)
(* project that the request names.                                          *)
KeyOf(r, secret) ==
  IF SingleSecret(config) THEN secret = config.secret
  ELSE /\ Named(r) # {}
       /\ \E p \in DOMAIN config.secrets :
            secret = config.secrets[p] /\ \A id \in Named(r) : SameProject(p, id)

(* Whoever asks with several projects, with another spelling or with the    *)
(* key of another project: every signature the handler gives, on a refusal  *)
(* too, is under the key configured for the one project the request names,  *)
(* and only the holder of that key is answered with success.  Which answers *)
(* have no signature is not part of this: the code leaves out more than the *)
(* two exceptions its README names.                                         *)
AnsweredUnderOneKey ==
  /\ reply.secret # Unsigned => KeyOf(request, reply.secret)
  /\ reply.status = "ok" => reply.secret = request.signer

(* "Two different privilege boundaries": wherever the two secrets of a      *)
(* deployment come from, its configuration or its environment, the one that *)
(* signs the tokens of the chat neither signs an answer of the action plane *)
(* nor opens it.                                                            *)
ChatKeyOpensNothing ==
  phase = "up" /\ ChatEnabled(config) =>
    /\ reply.secret # config.chatSecret
    /\ reply.status = "ok" => request.signer # config.chatSecret

(* "A principal-less run must never inherit a prior principal assertion     *)
(* through an interpreter reused for a different scope": runs share a pool  *)
(* of interpreters only if they run one script for one tenant and one       *)
(* principal.                                                               *)
PoolsApart ==
  \A a, b \in runs : a.poolKey = b.poolKey =>
    /\ a.tenant = b.tenant /\ a.principal = b.principal
    /\ DigestHex[StringField(a.request.raw, "script_digest")]
         = DigestHex[StringField(b.request.raw, "script_digest")]

(* A script finds every claim of its principal, and its run id, in the      *)
(* environment, and nothing without one.                                    *)
EnvironmentIsWhole ==
  \A run \in runs :
    /\ <<"RC_ACTION_RUN_ID">> \in DOMAIN run.environment
         <=> "action_run_id" \in DOMAIN run.request.raw
    /\ run.principal = NoPrincipal => DOMAIN run.environment \subseteq {<<"RC_ACTION_RUN_ID">>}
    /\ run.principal # NoPrincipal =>
         \A n \in DOMAIN run.principal.claims :
           run.environment[ClaimVar(n)] = run.principal.claims[n]
=============================================================================
