-------------------------- MODULE AdmissionProofs --------------------------
(***************************************************************************)
(* The properties of Admission for every configuration, environment and    *)
(* request: what serves has been validated and is not reconfigured, and    *)
(* every run came from a request that was admitted, so that each property  *)
(* is one of a valid configuration or of an admitted request.              *)
(***************************************************************************)
EXTENDS Admission, FiniteSetTheorems, SequenceTheorems, TLAPS

Settled ==
  /\ phase = "up" => Valid(config)
  /\ phase # "up" => runs = {} /\ reply = NoReply

RunsAdmitted ==
  \A run \in runs :
    run.request \in HTTPRequests /\ Admitted(run.request) /\ run = RunOf(run.request)

RunsBounded == IsFiniteSet(runs) /\ Cardinality(runs) <= MaxRuns

IInv ==
  /\ phase \in {"new", "refused", "up"} /\ (\E d \in Deployments : env = d.env)
  /\ request \in HTTPRequests /\ reply.status \in Statuses
  /\ Settled /\ RunsAdmitted /\ RunsBounded /\ AnsweredUnderOneKey

-----------------------------------------------------------------------------
(* The selected secret. *)

(* In a valid configuration the spelling of a project does not matter, and *)
(* what is selected is what is sent with.                                   *)
LEMMA OneSecret ==
  ASSUME NEW c, SecretsValid(c),
         NEW p \in ValidIds, NEW q \in ValidIds, SameProject(p, q)
  PROVE  \E s : /\ SecretForProject(c, p) \in {{}, {s}}
                /\ SecretForProject(c, q) = SecretForProject(c, p)
                /\ ~Blank(s)
                /\ OutboundSecret(c, p) = SecretForProject(c, p)
<1>1. CASE SingleSecret(c)
  <2>1. ~Blank(c.secret)
    BY <1>1 DEF SecretsValid
  <2>2. SecretForProject(c, p) = {c.secret} /\ SecretForProject(c, q) = {c.secret}
    BY <1>1, <2>1 DEF SecretForProject, Blank
  <2>3. OutboundSecret(c, p) = {c.secret}
    BY <1>1, <2>1 DEF OutboundSecret, ActionEnabled
  <2> QED BY <2>1, <2>2, <2>3
<1>2. CASE ~SingleSecret(c)
  <2>1. \A a \in DOMAIN c.secrets :
          ~Blank(c.secrets[a]) /\ \A b \in DOMAIN c.secrets : SameProject(a, b) => a = b
    BY DEF SecretsValid
  <2>2. OutboundSecret(c, p) = SecretForProject(c, p)
    BY <1>2 DEF OutboundSecret, ActionEnabled
  <2>3. CASE \E a \in DOMAIN c.secrets : SameProject(a, p)
    <3>1. PICK a \in DOMAIN c.secrets : SameProject(a, p)
      BY <2>3
    <3>2. \A id \in ValidIds : SameProject(a, id) => SecretForProject(c, id) = {c.secrets[a]}
      <4> SUFFICES ASSUME NEW id \in ValidIds, SameProject(a, id)
                   PROVE  SecretForProject(c, id) = {c.secrets[a]}
        OBVIOUS
      <4>1. \A b \in DOMAIN c.secrets : SameProject(b, id) <=> b = a
        BY <2>1 DEF SameProject
      <4>2. id \in DOMAIN c.secrets => id = a
        BY <4>1 DEF SameProject
      <4> QED BY <1>2, <2>1, <4>1, <4>2 DEF SecretForProject
    <3> QED BY <2>1, <2>2, <3>1, <3>2 DEF SameProject
  <2>4. CASE \A a \in DOMAIN c.secrets : ~SameProject(a, p)
    <3>1. \A id \in ValidIds : SameProject(p, id) => SecretForProject(c, id) = {}
      BY <1>2, <2>4 DEF SecretForProject, SameProject
    <3>2. ~Blank("s")
      BY DEF Blank
    <3> QED BY <2>2, <3>1, <3>2 DEF SameProject
  <2> QED BY <2>3, <2>4
<1> QED BY <1>1, <1>2

(* Where invocations are served, the whole action plane has been validated. *)
LEMMA ServedIsValid ==
  ASSUME Settled, Serving
  PROVE  ActionValid(config)
BY DEF Settled, Serving, Valid, ActionPlaneRequested

-----------------------------------------------------------------------------
(* Every step keeps the invariant. *)

LEMMA InitIInv == Init => IInv
<1> SUFFICES ASSUME Init PROVE IInv
  OBVIOUS
<1>1. request \in HTTPRequests
  BY RequestAssumption DEF Init
<1>2. RunsBounded
  <2>1. MaxRuns \in Nat
    BY RequestAssumption
  <2>2. IsFiniteSet(runs) /\ Cardinality(runs) = 0
    BY FS_EmptySet, Zenon DEF Init
  <2> QED BY <2>1, <2>2 DEF RunsBounded
<1>3. phase = "new" /\ runs = {} /\ reply = NoReply /\ \E d \in Deployments : env = d.env
  BY DEF Init
<1>4. AnsweredUnderOneKey /\ reply.status \in Statuses
  BY <1>3 DEF AnsweredUnderOneKey, NoReply, Statuses
<1>5. Settled /\ RunsAdmitted
  BY <1>3 DEF Settled, RunsAdmitted
<1> QED
  BY <1>1, <1>2, <1>3, <1>4, <1>5 DEF IInv

LEMMA BootIInv ==
  ASSUME IInv, BootUp
  PROVE  IInv'
<1>1. runs' = {} /\ reply' = NoReply
  BY DEF IInv, Settled, BootUp
<1>2. RunsBounded'
  BY <1>1 DEF IInv, RunsBounded, BootUp
<1>3. AnsweredUnderOneKey'
  BY <1>1 DEF AnsweredUnderOneKey, NoReply
<1>4. RunsAdmitted'
  BY <1>1 DEF RunsAdmitted
<1> QED
  BY <1>1, <1>2, <1>3, <1>4 DEF IInv, Settled, BootUp

(* What every answer leaves alone. *)
LEMMA ServeFrame ==
  ASSUME IInv, phase = "up", NEW r \in HTTPRequests,
         NEW status \in Statuses, NEW secret, Reply(r, status, secret)
  PROVE  /\ phase' \in {"new", "refused", "up"} /\ (\E d \in Deployments : env' = d.env)
         /\ request' \in HTTPRequests /\ reply'.status \in Statuses
         /\ Settled'
         /\ UNCHANGED runs => RunsAdmitted' /\ RunsBounded'
<1>1. UNCHANGED <<phase, env, config>> /\ request' = r
      /\ reply' = [status |-> status, secret |-> secret]
  BY DEF Reply
<1>2. Settled'
  BY <1>1 DEF IInv, Settled
<1>3. ASSUME UNCHANGED runs PROVE RunsAdmitted' /\ RunsBounded'
  <2>1. \A q : Admitted(q)' <=> Admitted(q)
    BY <1>1 DEF Admitted, TenantRequired
  <2> QED BY <1>3, <2>1 DEF IInv, RunsAdmitted, RunsBounded
<1> QED BY <1>1, <1>2, <1>3 DEF IInv

(* The key of an answer. *)
LEMMA SameKeys ==
  ASSUME UNCHANGED config, NEW r, NEW s
  PROVE  KeyOf(r, s)' <=> KeyOf(r, s)
BY DEF KeyOf, SingleSecret

(* What the selector finds for a spelling is configured for that project. *)
LEMMA SelectedFor ==
  ASSUME NEW c, ~SingleSecret(c), NEW id, NEW s \in SecretForProject(c, id)
  PROVE  \E p \in DOMAIN c.secrets : s = c.secrets[p] /\ SameProject(p, id)
BY DEF SecretForProject, SameProject

LEMMA SelectedSingly ==
  ASSUME NEW c, SingleSecret(c), NEW id, NEW s \in SecretForProject(c, id)
  PROVE  s = c.secret
BY DEF SecretForProject

LEMMA UnsignedKey ==
  ASSUME NEW r, NEW status, Reply(r, status, Unsigned), status # "ok"
  PROVE  AnsweredUnderOneKey'
BY DEF Reply, AnsweredUnderOneKey

LEMMA SignedKey ==
  ASSUME NEW r, NEW s, KeyOf(r, s), NEW status, Reply(r, status, s),
         status = "ok" => Verified(r, s)
  PROVE  AnsweredUnderOneKey'
<1>1. KeyOf(r, s)' <=> KeyOf(r, s)
  BY SameKeys DEF Reply
<1>2. request' = r /\ reply' = [status |-> status, secret |-> s]
  BY DEF Reply
<1>3. KeyOf(request, reply.secret)' <=> KeyOf(r, s)'
  BY <1>2 DEF KeyOf, Named, IsHealth
<1> QED BY <1>1, <1>2, <1>3 DEF AnsweredUnderOneKey, Verified

(* The selectors of the two routes pick a key of the project they name. *)
LEMMA InboundKey ==
  ASSUME NEW r, ~IsHealth(r), NEW s \in InboundSecrets(r)
  PROVE  KeyOf(r, s)
<1> DEFINE id == Head(StringField(r.raw, "project_id"))
<1>1. CASE SingleSecret(config)
  BY <1>1, SelectedSingly DEF InboundSecrets, KeyOf
<1>2. CASE ~SingleSecret(config)
  <2>1. s \in SecretForProject(config, id)
    BY <1>2 DEF InboundSecrets
  <2>2. PICK p \in DOMAIN config.secrets : s = config.secrets[p] /\ SameProject(p, id)
    BY <1>2, <2>1, SelectedFor
  <2>3. Named(r) = {id}
    BY DEF Named
  <2> HIDE DEF id
  <2> QED BY <1>2, <2>2, <2>3 DEF KeyOf
<1> QED BY <1>1, <1>2

LEMMA HealthKey ==
  ASSUME NEW r \in HTTPRequests, IsHealth(r), NEW s \in HealthSecrets(r)
  PROVE  KeyOf(r, s)
<1>1. CASE SingleSecret(config)
  BY <1>1, SelectedSingly DEF HealthSecrets, KeyOf
<1>2. CASE ~SingleSecret(config)
  <2>1. Len(r.query) = 1 /\ s \in SecretForProject(config, r.query[1])
    BY <1>2 DEF HealthSecrets
  <2>2. PICK p \in DOMAIN config.secrets : s = config.secrets[p] /\ SameProject(p, r.query[1])
    BY <1>2, <2>1, SelectedFor
  <2>3. DOMAIN r.query = {1}
    <3>1. r.query \in Seq(ProjectIds \cup {""})
      BY RequestAssumption
    <3>2. DOMAIN r.query = 1..1
      BY <2>1, <3>1, LenProperties
    <3> QED BY <3>2
  <2>4. Named(r) = {r.query[1]}
    BY <2>3 DEF Named
  <2> QED BY <1>2, <2>2, <2>4 DEF KeyOf
<1> QED BY <1>1, <1>2

LEMMA HealthIInv ==
  ASSUME IInv, NEW r \in HTTPRequests, AnswerHealth(r)
  PROVE  IInv'
<1>1. phase = "up" /\ UNCHANGED runs /\ IsHealth(r)
  BY DEF AnswerHealth
<1>2. ASSUME NEW s \in HealthSecrets(r), Verified(r, s), Reply(r, "ok", s)
      PROVE  IInv'
  BY <1>1, <1>2, HealthKey, SignedKey, ServeFrame DEF IInv, Statuses
<1>3. ASSUME Reply(r, "not_found", Unsigned) PROVE IInv'
  BY <1>1, <1>3, UnsignedKey, ServeFrame DEF IInv, Statuses
<1> QED BY <1>2, <1>3 DEF AnswerHealth

LEMMA UnsignedIInv ==
  ASSUME IInv, NEW r \in HTTPRequests,
         AnswerDisabled(r) \/ AnswerMethod(r) \/ AnswerNoSecret(r)
  PROVE  IInv'
<1>1. PICK status \in {"disabled", "method_not_allowed", "bad_signature"} :
        Reply(r, status, Unsigned)
  BY DEF AnswerDisabled, AnswerMethod, AnswerNoSecret
<1>2. phase = "up" /\ UNCHANGED runs
  BY DEF AnswerDisabled, AnswerMethod, AnswerNoSecret, Invoked
<1> QED BY <1>1, <1>2, UnsignedKey, ServeFrame DEF IInv, Statuses

LEMMA RefusalIInv ==
  ASSUME IInv, NEW r \in HTTPRequests, AnswerRefusal(r)
  PROVE  IInv'
<1>1. PICK s \in InboundSecrets(r), status \in {"refused", "bad_signature"} : Reply(r, status, s)
  BY DEF AnswerRefusal
<1>2. phase = "up" /\ UNCHANGED runs /\ ~IsHealth(r)
  BY DEF AnswerRefusal, Invoked
<1> QED BY <1>1, <1>2, InboundKey, SignedKey, ServeFrame DEF IInv, Statuses

LEMMA ExecuteIInv ==
  ASSUME IInv, NEW r \in HTTPRequests, Cardinality(runs) < MaxRuns, Execute(r)
  PROVE  IInv'
<1>1. phase = "up" /\ ~IsHealth(r)
  BY DEF Execute, Invoked
<1>2. PICK s \in InboundSecrets(r) : Verified(r, s) /\ Admitted(r) /\ Reply(r, "ok", s)
  BY DEF Execute
<1>3. runs' \in {runs, runs \cup {RunOf(r)}}
  BY DEF Execute
<1>4. \A q : Admitted(q)' <=> Admitted(q)
  BY <1>2 DEF Reply, Admitted, TenantRequired
<1>5. RunOf(r).request = r
  BY DEF RunOf
<1>6. RunsAdmitted'
  BY <1>2, <1>3, <1>4, <1>5 DEF IInv, RunsAdmitted
<1>7. RunsBounded'
  <2>1. IsFiniteSet(runs) /\ Cardinality(runs) \in Nat
    BY FS_CardinalityType DEF IInv, RunsBounded
  <2>2. CASE runs' = runs
    BY <2>2 DEF IInv, RunsBounded
  <2>3. CASE runs' = runs \cup {RunOf(r)}
    <3>1. /\ IsFiniteSet(runs')
          /\ Cardinality(runs') = Cardinality(runs) \/ Cardinality(runs') = Cardinality(runs) + 1
      BY <2>1, <2>3, FS_AddElement, Zenon
    <3>2. MaxRuns \in Nat
      BY RequestAssumption
    <3>3. Cardinality(runs') <= MaxRuns
      BY <2>1, <3>1, <3>2
    <3> QED BY <3>1, <3>3 DEF RunsBounded
  <2> QED BY <1>3, <2>2, <2>3
<1>8. AnsweredUnderOneKey'
  BY <1>1, <1>2, InboundKey, SignedKey
<1> QED BY <1>1, <1>2, <1>6, <1>7, <1>8, ServeFrame DEF IInv, Statuses

LEMMA StutterIInv == IInv /\ UNCHANGED vars => IInv'
<1> SUFFICES ASSUME IInv, UNCHANGED vars PROVE IInv'
  OBVIOUS
<1>1. \A q : Admitted(q)' <=> Admitted(q)
  BY DEF vars, Admitted, TenantRequired
<1>2. AnsweredUnderOneKey'
  BY DEF vars, IInv, AnsweredUnderOneKey, KeyOf, Named, IsHealth, SingleSecret
<1> QED
  BY <1>1, <1>2 DEF vars, IInv, Settled, RunsAdmitted, RunsBounded

(* The invariant, of every behaviour. *)
THEOREM Inductive == Spec => []IInv
<1>1. IInv /\ [Next]_vars => IInv'
  BY BootIInv, UnsignedIInv, HealthIInv, RefusalIInv, ExecuteIInv, StutterIInv DEF Next, Serve
<1> QED BY InitIInv, <1>1, PTL DEF Spec

-----------------------------------------------------------------------------
(* Properties of a deployment that serves. *)

(* One secret for a project, however it is spelled and whoever is asked: a  *)
(* map that passed validation has no project twice.                         *)
THEOREM OneSecretPerProjectCorrect == Spec => []OneSecretPerProject
<1>1. IInv => OneSecretPerProject
  <2> SUFFICES ASSUME IInv, Serving, NEW p \in ValidIds, NEW q \in ValidIds, SameProject(p, q)
               PROVE  /\ SecretForProject(config, p) = SecretForProject(config, q)
                      /\ OutboundSecret(config, p) = SecretForProject(config, q)
                      /\ Cardinality(SecretForProject(config, p)) <= 1
    BY DEF OneSecretPerProject
  <2>1. SecretsValid(config)
    BY ServedIsValid DEF IInv, ActionValid
  <2>2. PICK s : /\ SecretForProject(config, p) \in {{}, {s}}
                 /\ SecretForProject(config, q) = SecretForProject(config, p)
                 /\ ~Blank(s)
                 /\ OutboundSecret(config, p) = SecretForProject(config, p)
    BY <2>1, OneSecret, Zenon
  <2>3. Cardinality({}) = 0 /\ Cardinality({s}) = 1
    BY FS_EmptySet, FS_Singleton, Zenon
  <2> QED BY <2>2, <2>3
<1> QED BY <1>1, Inductive, PTL

(* Every signature is under the key configured for the one project that the *)
(* request names, and success is answered to the holder of that key.        *)
THEOREM AnsweredUnderOneKeyCorrect == Spec => []AnsweredUnderOneKey
BY Inductive, PTL DEF IInv

(* The chat's secret, configured or from the environment, is not the key of *)
(* any answer and gets no answer of success.                                *)
THEOREM ChatKeyOpensNothingCorrect == Spec => []ChatKeyOpensNothing
<1>1. IInv => ChatKeyOpensNothing
  <2> SUFFICES ASSUME IInv, phase = "up", ChatEnabled(config)
               PROVE  /\ reply.secret # config.chatSecret
                      /\ reply.status = "ok" => request.signer # config.chatSecret
    BY DEF ChatKeyOpensNothing
  <2>1. /\ config.chatSecret # config.secret
        /\ \A q \in DOMAIN config.secrets : config.chatSecret # config.secrets[q]
    BY DEF IInv, Settled, Valid, ChatValid, ChatEnabled
  <2>2. reply.secret # config.chatSecret
    <3>1. CASE reply.secret = Unsigned
      BY <3>1 DEF ChatEnabled, Unsigned
    <3>2. CASE reply.secret # Unsigned
      BY <2>1, <3>2 DEF IInv, AnsweredUnderOneKey, KeyOf
    <3> QED BY <3>1, <3>2
  <2>3. reply.status = "ok" => reply.secret = request.signer
    BY DEF IInv, AnsweredUnderOneKey
  <2> QED BY <2>2, <2>3
<1> QED BY <1>1, Inductive, PTL

-----------------------------------------------------------------------------
(* Properties of a run, each of the request it was admitted with. *)

(* A field that is absent, or no string, reads as an empty text. *)
LEMMA FieldText ==
  ASSUME NEW r \in HTTPRequests, NEW f
  PROVE  IsText(StringField(r.raw, f))
<1>1. CASE f \in DOMAIN r.raw /\ IsString(r.raw[f])
  BY <1>1, RequestAssumption DEF StringField
<1>2. CASE ~(f \in DOMAIN r.raw /\ IsString(r.raw[f]))
  <2>1. StringField(r.raw, f) = <<"">>
    BY <1>2 DEF StringField, Empty
  <2>2. ASSUME NEW part \in Parts PROVE IsText(<<part>>)
    BY DEF IsText
  <2> QED BY <2>1, <2>2, PartsAssumption, Zenon
<1> QED BY <1>1, <1>2

(* Two records of scope are not their absent forms. *)
LEMMA Present ==
  /\ \A i, s, v : [id |-> i, slug |-> s, scopeValue |-> v] # NoTenant
  /\ \A k, e, c : [kind |-> k, externalID |-> e, claims |-> c] # NoPrincipal
<1>1. ASSUME NEW i, NEW s, NEW v PROVE [id |-> i, slug |-> s, scopeValue |-> v] # NoTenant
  <2>1. DOMAIN [id |-> i, slug |-> s, scopeValue |-> v] = {"id", "slug", "scopeValue"}
    OBVIOUS
  <2>2. DOMAIN NoTenant = {"tenant"}
    BY DEF NoTenant
  <2> QED BY <2>1, <2>2
<1>2. ASSUME NEW k, NEW e, NEW c PROVE [kind |-> k, externalID |-> e, claims |-> c] # NoPrincipal
  <2>1. DOMAIN [kind |-> k, externalID |-> e, claims |-> c] = {"kind", "externalID", "claims"}
    OBVIOUS
  <2>2. DOMAIN NoPrincipal = {"principal"}
    BY DEF NoPrincipal
  <2> QED BY <2>1, <2>2
<1> QED BY <1>1, <1>2

LEMMA TenantShape ==
  ASSUME NEW r \in HTTPRequests, Admitted(r)
  PROVE  IF TenantOf(r.raw) = NoTenant
         THEN Provided(r.raw) = {} /\ ~TenantRequired(r)
         ELSE LET t == TenantOf(r.raw)
              IN  /\ t.id \in TenantIds /\ t.slug \in Slugs
                  /\ IsText(t.scopeValue) /\ ~HasNul(t.scopeValue)
                  /\ t = [id |-> t.id, slug |-> t.slug, scopeValue |-> t.scopeValue]
<1>1. TenantValid(r.raw, TenantRequired(r))
  BY DEF Admitted
<1>2. CASE Provided(r.raw) = {}
  BY <1>1, <1>2 DEF TenantValid, TenantOf
<1>3. CASE Provided(r.raw) # {}
  <2>1. TenantOf(r.raw) = [id |-> StringField(r.raw, "tenant_id"),
                           slug |-> StringField(r.raw, "tenant_slug"),
                           scopeValue |-> StringField(r.raw, "tenant_scope_value")]
    BY <1>3 DEF TenantOf
  <2>2. TenantOf(r.raw) # NoTenant
    BY <2>1, Present, Zenon
  <2>3. ~HasNul(StringField(r.raw, "tenant_scope_value"))
    <3>1. CASE "tenant_scope_value" \in DOMAIN r.raw
      <4>1. "tenant_scope_value" \in Provided(r.raw)
        BY <3>1 DEF Provided, TenantFields
      <4> QED BY <1>1, <3>1, <4>1 DEF TenantValid, StringField
    <3>2. CASE "tenant_scope_value" \notin DOMAIN r.raw
      <4>1. ~HasNul(<<"">>)
        BY DEF HasNul
      <4> QED BY <3>2, <4>1 DEF StringField, Empty
    <3> QED BY <3>1, <3>2
  <2>4. IsText(StringField(r.raw, "tenant_scope_value"))
    BY FieldText
  <2> QED BY <1>1, <1>3, <2>1, <2>2, <2>3, <2>4 DEF TenantValid
<1> QED BY <1>2, <1>3

-----------------------------------------------------------------------------
(* The principal and the environment of a run. *)

LEMMA PrincipalShape ==
  ASSUME NEW r \in HTTPRequests, Admitted(r), PrincipalOf(r.raw) # NoPrincipal
  PROVE  LET p == PrincipalOf(r.raw)
         IN  /\ p \in Asserted
             /\ DOMAIN p.claims \subseteq ClaimNames
             /\ p.kind # Empty /\ ~HasNul(p.kind)
             /\ p.externalID # Empty /\ ~HasNul(p.externalID)
<1>1. "principal" \in DOMAIN r.raw
  BY DEF PrincipalOf
<1>2. PrincipalValid(r.raw)
  BY DEF Admitted
<1>3. PrincipalOf(r.raw) \in Asserted
  BY <1>1, <1>2 DEF Asserted
<1> DEFINE object == r.raw.principal.fields
<1>4. PrincipalOf(r.raw) = [kind |-> object.kind.text, externalID |-> object.external_id.text,
                            claims |-> object.claims.fields]
  BY <1>1 DEF PrincipalOf
<1>5. \A f \in {"kind", "external_id"} :
        StringField(object, f) # Empty /\ ~HasNul(StringField(object, f))
  BY <1>1, <1>2 DEF PrincipalValid
<1>6. /\ StringField(object, "kind") = object.kind.text
      /\ StringField(object, "external_id") = object.external_id.text
  BY <1>5 DEF StringField
<1>7. DOMAIN object.claims.fields \subseteq ClaimNames
  BY <1>1, <1>2 DEF PrincipalValid, ClaimsValid
<1> HIDE DEF object
<1> QED BY <1>3, <1>4, <1>5, <1>6, <1>7

LEMMA NamesApart ==
  /\ \A n : /\ ClaimVar(n) # <<"RC_ACTION_RUN_ID">>
           /\ ClaimVar(n) # <<"RC_PRINCIPAL_KIND">>
           /\ ClaimVar(n) # <<"RC_PRINCIPAL_EXTERNAL_ID">>
  /\ \A m, n \in ClaimNames : ClaimVar(m) = ClaimVar(n) => m = n
<1>1. ASSUME NEW n, NEW word PROVE ClaimVar(n) # <<word>>
  <2>1. Len(ClaimVar(n)) = 2 /\ Len(<<word>>) = 1
    BY DEF ClaimVar
  <2> QED BY <2>1
<1>2. ASSUME NEW m \in ClaimNames, NEW n \in ClaimNames, ClaimVar(m) = ClaimVar(n) PROVE m = n
  <2>1. ClaimVar(m)[2] = Upper[m] /\ ClaimVar(n)[2] = Upper[n]
    BY DEF ClaimVar
  <2> QED BY <1>2, <2>1, ScopeAssumption
<1> QED BY <1>1, <1>2

LEMMA EnvironmentOf ==
  ASSUME NEW p, NEW id, p # NoPrincipal => DOMAIN p.claims \subseteq ClaimNames
  PROVE  LET e == InvocationEnvironment(p, id)
         IN  /\ <<"RC_ACTION_RUN_ID">> \in DOMAIN e <=> id # Empty
             /\ p = NoPrincipal => DOMAIN e \subseteq {<<"RC_ACTION_RUN_ID">>}
             /\ p # NoPrincipal => \A n \in DOMAIN p.claims : e[ClaimVar(n)] = p.claims[n]
<1>1. CASE p = NoPrincipal
  BY <1>1 DEF InvocationEnvironment
<1>2. CASE p # NoPrincipal
  <2> DEFINE run == IF id = Empty THEN {} ELSE {<<"RC_ACTION_RUN_ID">>}
             fixed == {<<"RC_PRINCIPAL_KIND">>, <<"RC_PRINCIPAL_EXTERNAL_ID">>}
             names == run \cup fixed \cup {ClaimVar(n) : n \in DOMAIN p.claims}
             value(v) ==
               IF v = <<"RC_ACTION_RUN_ID">> THEN String(id)
               ELSE IF v = <<"RC_PRINCIPAL_KIND">> THEN String(p.kind)
               ELSE IF v = <<"RC_PRINCIPAL_EXTERNAL_ID">> THEN String(p.externalID)
               ELSE p.claims[CHOOSE n \in DOMAIN p.claims : ClaimVar(n) = v]
  <2>1. InvocationEnvironment(p, id) = [v \in names |-> value(v)]
    BY <1>2 DEF InvocationEnvironment
  <2>2. <<"RC_ACTION_RUN_ID">> \notin fixed
    OBVIOUS
  <2>3. <<"RC_ACTION_RUN_ID">> \in names <=> id # Empty
    BY <2>2, NamesApart
  <2>4. ASSUME NEW n \in DOMAIN p.claims
        PROVE  ClaimVar(n) \in names /\ value(ClaimVar(n)) = p.claims[n]
    <3>1. \A m \in DOMAIN p.claims : ClaimVar(m) = ClaimVar(n) => m = n
      BY <1>2, NamesApart
    <3>2. (CHOOSE m \in DOMAIN p.claims : ClaimVar(m) = ClaimVar(n)) = n
      BY <3>1
    <3> QED BY <3>2, NamesApart
  <2> HIDE DEF names, value
  <2> QED BY <1>2, <2>1, <2>3, <2>4
<1> QED BY <1>1, <1>2

(* The environment of a run is made of its principal and its run id. *)
THEOREM EnvironmentIsWholeCorrect == Spec => []EnvironmentIsWhole
<1>1. IInv => EnvironmentIsWhole
  <2> SUFFICES ASSUME IInv, NEW run \in runs
               PROVE  /\ <<"RC_ACTION_RUN_ID">> \in DOMAIN run.environment
                            <=> "action_run_id" \in DOMAIN run.request.raw
                      /\ run.principal = NoPrincipal =>
                            DOMAIN run.environment \subseteq {<<"RC_ACTION_RUN_ID">>}
                      /\ run.principal # NoPrincipal =>
                            \A n \in DOMAIN run.principal.claims :
                              run.environment[ClaimVar(n)] = run.principal.claims[n]
    BY DEF EnvironmentIsWhole
  <2> DEFINE r == run.request
             id == StringField(r.raw, "action_run_id")
  <2>1. r \in HTTPRequests /\ Admitted(r) /\ run = RunOf(r)
    BY DEF IInv, RunsAdmitted
  <2>2. /\ run.principal = PrincipalOf(r.raw)
        /\ run.environment = InvocationEnvironment(run.principal, id)
    <3>1. /\ RunOf(r).principal = PrincipalOf(r.raw)
          /\ RunOf(r).environment = InvocationEnvironment(PrincipalOf(r.raw), id)
      BY DEF RunOf
    <3> QED BY <2>1, <3>1
  <2>3. id # Empty <=> "action_run_id" \in DOMAIN r.raw
    BY <2>1, ShapeAssumption DEF Admitted, Parsed, StringField
  <2>4. run.principal # NoPrincipal => DOMAIN run.principal.claims \subseteq ClaimNames
    BY <2>1, <2>2, PrincipalShape
  <2> HIDE DEF id
  <2> QED BY <2>2, <2>3, <2>4, EnvironmentOf
<1> QED BY <1>1, Inductive, PTL

(* Type correctness. *)
THEOREM TypeCorrect == Spec => []TypeOK
<1>1. IInv => TypeOK
  <2>1. ASSUME IInv, NEW run \in runs
        PROVE  /\ run.request \in HTTPRequests
               /\ run.principal # NoPrincipal =>
                    \A text \in {run.principal.kind, run.principal.externalID} :
                      text # Empty /\ ~HasNul(text)
    <3>1. run.request \in HTTPRequests /\ Admitted(run.request) /\ run = RunOf(run.request)
      BY <2>1 DEF IInv, RunsAdmitted
    <3>2. run.principal = PrincipalOf(run.request.raw)
      BY <3>1 DEF RunOf
    <3> QED BY <3>1, <3>2, PrincipalShape
  <2> QED BY <2>1 DEF IInv, TypeOK, RunsBounded
<1> QED BY <1>1, Inductive, PTL

-----------------------------------------------------------------------------
(* The key of an interpreter's pool tells its length what it was made of,   *)
(* because no part of it has a NUL.                                         *)

OnePart(text) == text \in Seq(Parts) /\ Len(text) = 1

Whole(tenant) ==
  tenant # NoTenant =>
    /\ OnePart(tenant.id) /\ OnePart(tenant.slug) /\ OnePart(tenant.scopeValue)
    /\ tenant = [id |-> tenant.id, slug |-> tenant.slug, scopeValue |-> tenant.scopeValue]

LEMMA OnePartIsItsPart ==
  ASSUME NEW a, NEW b, OnePart(a), OnePart(b), a[1] = b[1]
  PROVE  a = b
BY DEF OnePart

LEMMA TextOfOnePart ==
  ASSUME NEW text, IsText(text), ~HasNul(text)
  PROVE  OnePart(text)
<1>1. text \in Seq(Parts) /\ Len(text) > 0 /\ ~(Len(text) > 1)
  BY DEF IsText, HasNul
<1>2. Len(text) \in Nat
  BY <1>1, LenProperties
<1> QED BY <1>1, <1>2 DEF OnePart

LEMMA PartIsText ==
  ASSUME NEW part \in Parts
  PROVE  OnePart(<<part>>) /\ <<part>>[1] = part
BY DEF OnePart

(* w is s with t behind it. *)
Joins(w, s, t) ==
  /\ w \in Seq(Parts) /\ Len(s) \in Nat /\ Len(t) \in Nat /\ Len(w) = Len(s) + Len(t)
  /\ \A i \in 1..Len(s) : w[i] = s[i]
  /\ \A i \in 1..Len(t) : w[Len(s) + i] = t[i]

LEMMA Joined ==
  ASSUME NEW s \in Seq(Parts), NEW t \in Seq(Parts)
  PROVE  Joins(s \o t, s, t)
<1>1. Len(s) \in Nat /\ Len(t) \in Nat
  BY LenProperties
<1>2. /\ s \o t \in Seq(Parts) /\ Len(s \o t) = Len(s) + Len(t)
      /\ \A i \in 1..Len(s) + Len(t) : (s \o t)[i] = IF i <= Len(s) THEN s[i] ELSE t[i - Len(s)]
  BY ConcatProperties, Zenon
<1> DEFINE w == s \o t
<1> HIDE DEF w
<1>3. \A i \in 1..Len(s) : w[i] = s[i]
  BY <1>1, <1>2 DEF w
<1>4. ASSUME NEW i \in 1..Len(t) PROVE w[Len(s) + i] = t[i]
  BY <1>1, <1>2 DEF w
<1> QED BY <1>1, <1>2, <1>3, <1>4 DEF w, Joins

(* A text put between two others. *)
LEMMA Between ==
  ASSUME NEW a, OnePart(a), NEW m, NEW c, Len(c) \in {0, 1},
         NEW e, Joins(e, a, m), NEW w, Joins(w, e, c)
  PROVE  /\ w \in Seq(Parts) /\ Len(w) = 1 + Len(m) + Len(c)
         /\ w[1] = a[1]
         /\ \A i \in 1..Len(m) : w[1 + i] = m[i]
         /\ Len(c) = 1 => w[Len(w)] = c[1]
BY DEF OnePart, Joins

HasThree(w, a, b, c) ==
  w \in Seq(Parts) /\ Len(w) = 3 /\ w[1] = a[1] /\ w[2] = b[1] /\ w[3] = c[1]

LEMMA ThreeParts ==
  ASSUME NEW a, OnePart(a), NEW b, OnePart(b), NEW c, OnePart(c)
  PROVE  HasThree(a \o b \o c, a, b, c)
<1> DEFINE e == a \o b
           w == e \o c
<1>1. Joins(e, a, b)
  BY Joined DEF OnePart
<1>2. Joins(w, e, c)
  BY <1>1, Joined DEF OnePart, Joins
<1> HIDE DEF e, w
<1>3. Len(a) = 1 /\ Len(b) = 1 /\ Len(c) = 1
  BY DEF OnePart
<1>4. Len(e) = 2 /\ e[1] = a[1] /\ e[2] = b[1]
  <2>1. e[1 + 1] = b[1]
    BY <1>1, <1>3 DEF Joins
  <2> QED BY <2>1, <1>1, <1>3 DEF Joins
<1>5. w \in Seq(Parts) /\ Len(w) = 3 /\ w[1] = e[1] /\ w[2] = e[2] /\ w[3] = c[1]
  <2>1. w[2 + 1] = c[1]
    BY <1>2, <1>3, <1>4 DEF Joins
  <2> QED BY <2>1, <1>2, <1>3, <1>4 DEF Joins
<1>6. HasThree(w, a, b, c)
  BY <1>4, <1>5 DEF HasThree
<1> QED BY <1>6 DEF e, w

LEMMA PoolKeyShape ==
  ASSUME NEW h, OnePart(h), NEW t, Whole(t), NEW p, p # NoPrincipal => Sha(p) \in Parts
  PROVE  LET k == PoolKey(h, t, p)
         IN  /\ k[1] = h[1]
             /\ t # NoTenant => k[2] = t.id[1] /\ k[3] = t.slug[1] /\ k[4] = t.scopeValue[1]
             /\ p # NoPrincipal => k[Len(k)] = Sha(p)
             /\ Len(k) = IF t = NoTenant THEN IF p = NoPrincipal THEN 1 ELSE 3
                                         ELSE IF p = NoPrincipal THEN 4 ELSE 5
<1> DEFINE m == IF t # NoTenant THEN t.id \o t.slug \o t.scopeValue
                ELSE IF p # NoPrincipal THEN Empty ELSE <<>>
           c == IF p # NoPrincipal THEN <<Sha(p)>> ELSE <<>>
           k == h \o m \o c
<1>1. PoolKey(h, t, p) = k
  BY DEF PoolKey
<1>2. OnePart(Empty)
  BY PartIsText, PartsAssumption, Zenon DEF Empty
<1>3. /\ m \in Seq(Parts)
      /\ Len(m) = IF t # NoTenant THEN 3 ELSE IF p # NoPrincipal THEN 1 ELSE 0
      /\ t # NoTenant => m[1] = t.id[1] /\ m[2] = t.slug[1] /\ m[3] = t.scopeValue[1]
  <2>1. CASE t # NoTenant
    <3>1. OnePart(t.id) /\ OnePart(t.slug) /\ OnePart(t.scopeValue)
      BY <2>1 DEF Whole
    <3>2. m = t.id \o t.slug \o t.scopeValue
      BY <2>1
    <3> HIDE DEF m
    <3>3. HasThree(m, t.id, t.slug, t.scopeValue)
      BY <3>1, <3>2, ThreeParts
    <3> QED BY <2>1, <3>3 DEF HasThree
  <2>2. CASE t = NoTenant /\ p # NoPrincipal
    BY <1>2, <2>2 DEF OnePart
  <2>3. CASE t = NoTenant /\ p = NoPrincipal
    BY <2>3
  <2> QED BY <2>1, <2>2, <2>3
<1>4. /\ c \in Seq(Parts) /\ Len(c) = IF p # NoPrincipal THEN 1 ELSE 0
      /\ p # NoPrincipal => c[1] = Sha(p)
  <2>1. CASE p # NoPrincipal
    BY <2>1, PartIsText DEF OnePart
  <2>2. CASE p = NoPrincipal
    BY <2>2
  <2> QED BY <2>1, <2>2
<1> HIDE DEF m, c
<1>5. /\ Len(k) = 1 + Len(m) + Len(c) /\ k[1] = h[1]
      /\ \A i \in 1..Len(m) : k[1 + i] = m[i]
      /\ Len(c) = 1 => k[Len(k)] = c[1]
  <2> DEFINE e == h \o m
  <2>1. Joins(e, h, m)
    BY <1>3, Joined DEF OnePart
  <2>2. Joins(k, e, c)
    BY <1>4, <2>1, Joined DEF Joins
  <2>3. Len(c) \in {0, 1}
    BY <1>4
  <2> HIDE DEF e, k
  <2> QED BY <2>1, <2>2, <2>3, Between
<1> HIDE DEF k
<1>6. t # NoTenant => k[2] = t.id[1] /\ k[3] = t.slug[1] /\ k[4] = t.scopeValue[1]
  BY <1>3, <1>5
<1>7. Len(k) = IF t = NoTenant THEN IF p = NoPrincipal THEN 1 ELSE 3
                               ELSE IF p = NoPrincipal THEN 4 ELSE 5
  BY <1>3, <1>4, <1>5
<1>8. p # NoPrincipal => k[Len(k)] = Sha(p)
  BY <1>4, <1>5
<1> QED BY <1>1, <1>5, <1>6, <1>7, <1>8

LEMMA PoolKeyApart ==
  ASSUME NEW h, OnePart(h), NEW t, Whole(t), NEW p, p # NoPrincipal => p \in Asserted,
         NEW i, OnePart(i), NEW u, Whole(u), NEW q, q # NoPrincipal => q \in Asserted,
         PoolKey(h, t, p) = PoolKey(i, u, q)
  PROVE  h = i /\ t = u /\ p = q
<1> DEFINE k == PoolKey(h, t, p)
<1>1. \A o \in Asserted : Sha(o) \in Parts
  BY ShapeAssumption
<1>2. /\ k[1] = h[1]
      /\ t # NoTenant => k[2] = t.id[1] /\ k[3] = t.slug[1] /\ k[4] = t.scopeValue[1]
      /\ p # NoPrincipal => k[Len(k)] = Sha(p)
      /\ Len(k) = IF t = NoTenant THEN IF p = NoPrincipal THEN 1 ELSE 3
                                  ELSE IF p = NoPrincipal THEN 4 ELSE 5
  BY <1>1, PoolKeyShape
<1>3. /\ k[1] = i[1]
      /\ u # NoTenant => k[2] = u.id[1] /\ k[3] = u.slug[1] /\ k[4] = u.scopeValue[1]
      /\ q # NoPrincipal => k[Len(k)] = Sha(q)
      /\ Len(k) = IF u = NoTenant THEN IF q = NoPrincipal THEN 1 ELSE 3
                                  ELSE IF q = NoPrincipal THEN 4 ELSE 5
  BY <1>1, PoolKeyShape
<1> HIDE DEF k
<1>4. (t = NoTenant <=> u = NoTenant) /\ (p = NoPrincipal <=> q = NoPrincipal)
  BY <1>2, <1>3
<1>5. h = i
  BY <1>2, <1>3, OnePartIsItsPart
<1>6. t = u
  <2>1. CASE t = NoTenant
    BY <1>4, <2>1
  <2>2. CASE t # NoTenant
    <3>1. u # NoTenant
      BY <1>4, <2>2
    <3>2. t.id = u.id /\ t.slug = u.slug /\ t.scopeValue = u.scopeValue
      BY <1>2, <1>3, <2>2, <3>1, OnePartIsItsPart DEF Whole
    <3> QED BY <2>2, <3>1, <3>2 DEF Whole
  <2> QED BY <2>1, <2>2
<1>7. p = q
  <2>1. CASE p = NoPrincipal
    BY <1>4, <2>1
  <2>2. CASE p # NoPrincipal
    <3>1. q # NoPrincipal /\ Sha(p) = Sha(q)
      BY <1>2, <1>3, <1>4, <2>2
    <3> QED BY <2>2, <3>1, ShapeAssumption
  <2> QED BY <2>1, <2>2
<1> QED BY <1>5, <1>6, <1>7

(* Two runs that may meet in one interpreter run one script for one scope.  *)
THEOREM PoolsApartCorrect == Spec => []PoolsApart
<1> DEFINE hex(run) == DigestHex[StringField(run.request.raw, "script_digest")]
<1>1. ASSUME IInv, NEW run \in runs
      PROVE  /\ OnePart(hex(run)) /\ Whole(run.tenant)
             /\ run.principal # NoPrincipal => run.principal \in Asserted
             /\ run.poolKey = PoolKey(hex(run), run.tenant, run.principal)
  <2>1. run.request \in HTTPRequests /\ Admitted(run.request) /\ run = RunOf(run.request)
    BY <1>1 DEF IInv, RunsAdmitted
  <2>2. /\ run.tenant = TenantOf(run.request.raw)
        /\ run.principal = PrincipalOf(run.request.raw)
        /\ run.poolKey = PoolKey(hex(run), run.tenant, run.principal)
    <3>1. /\ RunOf(run.request).tenant = TenantOf(run.request.raw)
          /\ RunOf(run.request).principal = PrincipalOf(run.request.raw)
          /\ RunOf(run.request).poolKey =
               PoolKey(hex(run), TenantOf(run.request.raw), PrincipalOf(run.request.raw))
      BY DEF RunOf
    <3> QED BY <2>1, <3>1
  <2>3. OnePart(hex(run))
    <3>1. IsText(hex(run)) /\ ~HasNul(hex(run))
      BY <2>1, ShapeAssumption DEF Admitted
    <3> QED BY <3>1, TextOfOnePart
  <2>4. Whole(run.tenant)
    <3> QED BY <2>1, <2>2, TextOfOnePart, TenantShape, ScopeAssumption DEF Whole
  <2>5. run.principal # NoPrincipal => run.principal \in Asserted
    BY <2>1, <2>2, PrincipalShape
  <2> QED BY <2>2, <2>3, <2>4, <2>5
<1>2. IInv => PoolsApart
  <2> SUFFICES ASSUME IInv, NEW a \in runs, NEW b \in runs, a.poolKey = b.poolKey
               PROVE  a.tenant = b.tenant /\ a.principal = b.principal /\ hex(a) = hex(b)
    BY DEF PoolsApart
  <2> HIDE DEF hex
  <2> QED BY <1>1, PoolKeyApart
<1> QED BY <1>2, Inductive, PTL
=============================================================================
