------------------------- MODULE InvocationContext -------------------------
(***************************************************************************)
(* The scope the host signs into an invocation: the tenant (tenant.go) and *)
(* the principal (principal.go), the environment a run sees and the key    *)
(* its interpreter is pooled under (executor.go).  `raw` is the decoded    *)
(* body, a function of its fields.                                         *)
(***************************************************************************)
EXTENDS WireValues

CONSTANTS TenantIds,  \* texts with the shape of a UUID that is not nil
          Slugs,      \* texts with the shape of a slug
          ClaimNames, \* names with the shape of a claim's
          Upper,      \* strings.ToUpper, on names
          Sha(_)      \* sha256Hex of the JSON of a principal

ASSUME ScopeAssumption ==
  /\ \A text \in TenantIds \cup Slugs : IsText(text) /\ ~HasNul(text)
  /\ \A m, n \in ClaimNames : Upper[m] = Upper[n] => m = n

NoTenant == [tenant |-> "none"]
NoPrincipal == [principal |-> "none"]

TenantFields == {"tenant_id", "tenant_slug", "tenant_scope_value"}
Provided(raw) == TenantFields \cap DOMAIN raw

(* Mutant: a scope value may have a NUL. *)
MutTenantValid(raw, required) ==
  IF Provided(raw) = {} THEN ~required
  ELSE /\ \A f \in Provided(raw) : IsString(raw[f])
       /\ StringField(raw, "tenant_id") \in TenantIds
       /\ StringField(raw, "tenant_slug") \in Slugs

(* Absent, or with an id and a slug; the scope value may be left out. *)
TenantValid(raw, required) ==
  IF Provided(raw) = {} THEN ~required
  ELSE /\ \A f \in Provided(raw) : IsString(raw[f]) /\ ~HasNul(raw[f].text)
       /\ StringField(raw, "tenant_id") \in TenantIds
       /\ StringField(raw, "tenant_slug") \in Slugs

TenantOf(raw) ==
  IF Provided(raw) = {} THEN NoTenant
  ELSE [id |-> StringField(raw, "tenant_id"), slug |-> StringField(raw, "tenant_slug"),
        scopeValue |-> StringField(raw, "tenant_scope_value")]

(* A string, an integer, or an array of either kind; no NUL anywhere. *)
ScalarValid(value) == (IsString(value) /\ ~HasNul(value.text)) \/ IsInteger(value)
ClaimValid(value) ==
  \/ ScalarValid(value)
  \/ /\ value.kind = "array"
     /\ \A i \in DOMAIN value.items :
          ScalarValid(value.items[i]) /\ value.items[i].kind = value.items[1].kind

(* Mutant: names are not looked at. *)
MutClaimsValid(claims) == \A name \in DOMAIN claims : ClaimValid(claims[name])

ClaimsValid(claims) ==
  \A name \in DOMAIN claims : name \in ClaimNames /\ ClaimValid(claims[name])

(* Mutant: strings will do, empty ones too. *)
MutPrincipalValid(raw) ==
  "principal" \in DOMAIN raw =>
    /\ raw.principal.kind = "object"
    /\ LET object == raw.principal.fields
       IN  /\ \A f \in {"kind", "external_id"} :
                f \in DOMAIN object /\ IsString(object[f]) /\ ~HasNul(object[f].text)
           /\ "claims" \in DOMAIN object /\ object.claims.kind = "object"
           /\ ClaimsValid(object.claims.fields)

(* With a kind, an external id and claims, which may be none. *)
PrincipalValid(raw) ==
  "principal" \in DOMAIN raw =>
    /\ raw.principal.kind = "object"
    /\ LET object == raw.principal.fields
       IN  /\ \A f \in {"kind", "external_id"} :
                StringField(object, f) # Empty /\ ~HasNul(StringField(object, f))
           /\ "claims" \in DOMAIN object /\ object.claims.kind = "object"
           /\ ClaimsValid(object.claims.fields)

(* An empty array counts as one of strings; the rest is kept as it came. *)
PrincipalOf(raw) ==
  IF "principal" \notin DOMAIN raw THEN NoPrincipal
  ELSE LET object == raw.principal.fields
       IN  [kind |-> object.kind.text, externalID |-> object.external_id.text,
            claims |-> object.claims.fields]

ClaimVar(name) == <<"RC_PRINCIPAL_CLAIM_", Upper[name]>>

(* The environment of one run, written claim by claim in the order of       *)
(* names.  A claim that is no string stands for its decimal digits or its   *)
(* JSON, which nothing here tells apart from it.                            *)
InvocationEnvironment(principal, runID) ==
  LET run == IF runID = Empty THEN {} ELSE {<<"RC_ACTION_RUN_ID">>}
      fixed == {<<"RC_PRINCIPAL_KIND">>, <<"RC_PRINCIPAL_EXTERNAL_ID">>}
      claims == DOMAIN principal.claims
  IN  IF principal = NoPrincipal THEN [v \in run |-> String(runID)]
      ELSE [v \in run \cup fixed \cup {ClaimVar(n) : n \in claims} |->
              IF v = <<"RC_ACTION_RUN_ID">> THEN String(runID)
              ELSE IF v = <<"RC_PRINCIPAL_KIND">> THEN String(principal.kind)
              ELSE IF v = <<"RC_PRINCIPAL_EXTERNAL_ID">> THEN String(principal.externalID)
              ELSE principal.claims[CHOOSE n \in claims : ClaimVar(n) = v]]

(* The digest, the tenant's fields and the principal's hash, NUL between. *)
PoolKey(hexDigest, tenant, principal) ==
  hexDigest
  \o (IF tenant # NoTenant THEN tenant.id \o tenant.slug \o tenant.scopeValue
      ELSE IF principal # NoPrincipal THEN Empty ELSE <<>>)
  \o (IF principal # NoPrincipal THEN <<Sha(principal)>> ELSE <<>>)
=============================================================================
