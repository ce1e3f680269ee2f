---------------------------- MODULE MCAdmission ----------------------------
(* Instances of Admission for TLC: around one good configuration and one    *)
(* good request, what each validator has to tell apart.                     *)
EXTENDS Admission, TLC

Ids == {"p1", "P1", "p2", "nil"}
RealIds == {"p1", "P1", "p2"}
ToLower == [p \in Ids |-> IF p = "P1" THEN "p1" ELSE p]

-----------------------------------------------------------------------------
(* Configurations. *)

NoSecrets == [p \in {} |-> ""]

Nothing ==
  [secret |-> "", secrets |-> NoSecrets, fetchURL |-> "", otherActionField |-> FALSE,
   timeout |-> 0, totalDeadline |-> 0, clockSkew |-> 0,
   requireTenantContext |-> FALSE, tenantlessActions |-> <<>>,
   apiBaseURL |-> "", apiKey |-> "",
   chatSecret |-> "", chatProject |-> "", chatBaseURL |-> ""]

One == [Nothing EXCEPT !.secret = "s", !.fetchURL = "web"]
Many == [Nothing EXCEPT !.secrets = "p1" :> "s" @@ "p2" :> "t", !.fetchURL = "web"]
Chatting == [Nothing EXCEPT !.chatSecret = "u", !.chatProject = "demo"]
Strict == [One EXCEPT !.requireTenantContext = TRUE]

SecretMaps == {"P1" :> "s", "p1" :> "s" @@ "P1" :> "t", "nil" :> "s", "p1" :> " "}

Configs ==
  {Nothing, One, Many, Strict}
  \cup {[Nothing EXCEPT !.otherActionField = TRUE], [Nothing EXCEPT !.secret = " "],
        [Many EXCEPT !.secret = "u"], [Strict EXCEPT !.tenantlessActions = <<"refund">>],
        [Strict EXCEPT !.tenantlessActions = <<"refund", "refund">>],
        [One EXCEPT !.tenantlessActions = <<"refund">>]}
  \cup {[Many EXCEPT !.secrets = m] : m \in SecretMaps}
  \cup {[One EXCEPT !.fetchURL = u] : u \in Urls}
  \cup {[One EXCEPT !.timeout = t] : t \in {-1, 22}}
  \cup {[One EXCEPT !.clockSkew = -1], [One EXCEPT !.totalDeadline = 20]}
  \cup {[Nothing EXCEPT !.chatSecret = k, !.chatProject = p] : k \in {"", "t"}, p \in {"", "demo"}}
  \cup {[c EXCEPT !.chatSecret = k, !.chatProject = "demo"] : c \in {One, Many}, k \in {"s", "t"}}
  \cup {[Nothing EXCEPT !.apiBaseURL = u, !.apiKey = k] : u \in Urls, k \in {"", "k"}}

NothingSet ==
  [secret |-> "", fetchURL |-> "", tenantlessActions |-> <<>>, apiBaseURL |-> "", apiKey |-> "",
   chatSecret |-> "", chatProject |-> "", chatBaseURL |-> ""]

(* The environment fills in what is left out, for better or worse. *)
MCDeployments ==
  [config : Configs, env : {NothingSet}]
  \cup [config : {Nothing, One, Many, Chatting},
        env : {[NothingSet EXCEPT !.secret = "u", !.fetchURL = "web"],
               [NothingSet EXCEPT !.chatSecret = "s", !.chatProject = "demo"],
               [NothingSet EXCEPT !.chatBaseURL = "hostless"],
               [NothingSet EXCEPT !.tenantlessActions = <<"refund">>]}]

-----------------------------------------------------------------------------
(* Bodies. *)

MCParts == STRING
Text(word) == String(<<word>>)

Good ==
  "action_id" :> Text("refund") @@ "script_digest" :> Text("d1") @@ "nonce" :> Text("n")
  @@ "issued_at" :> Text("now") @@ "project_id" :> Text("P1") @@ "schema" :> Object(<<>>)

MCDigestHex == <<"d1">> :> <<"d1">> @@ <<"D1">> :> <<"d1">> @@ <<"d2">> :> <<"d2">>

Uuid == <<"0a">>
Uuids == {Uuid}
MCSlugs == {<<"acme">>}
MCClaimNames == {"team", "roles"}
MCUpper == [n \in {"team", "roles", "Team"} |-> IF n = "roles" THEN "ROLES" ELSE "TEAM"]

Alice(claims) ==
  "kind" :> Text("user") @@ "external_id" :> Text("alice") @@ "claims" :> Object(claims)

(* The claims of Alice, the wrong ones too, and a hash for each. *)
HashedClaims ==
  "h0" :> <<>> @@ "h1" :> ("team" :> Text("a")) @@ "h2" :> ("team" :> Text("b"))
  @@ "h3" :> ("team" :> Text("a") @@ "roles" :> Array(<<Text("x"), Text("y")>>))
  @@ "h4" :> ("Team" :> Text("a")) @@ "h5" :> ("team" :> Text("a") @@ "Team" :> Text("b"))
  @@ "h6" :> ("team" :> String(<<"a", "b">>)) @@ "h7" :> ("team" :> Null)
  @@ "h8" :> ("team" :> Number(FALSE, TRUE))
  @@ "h9" :> ("team" :> Array(<<Text("x"), Number(TRUE, TRUE)>>))

MCSha(principal) ==
  IF principal.kind = <<"">> THEN "nobody"
  ELSE CHOOSE h \in DOMAIN HashedClaims : HashedClaims[h] = principal.claims

Principals == {Object(Alice(HashedClaims[h])) : h \in DOMAIN HashedClaims}
WrongPrincipals ==
  {Null, Object("kind" :> Text("user")), Object("kind" :> Text("") @@ Alice(<<>>)),
   Object("external_id" :> String(<<"a", "">>) @@ Alice(<<>>))}

(* A scope value that ends like the hash of a principal. *)
Forged == String(<<"", MCSha(PrincipalOf("principal" :> Object(Alice(<<>>))))>>)

Tenant(scope) ==
  "tenant_id" :> String(Uuid) @@ "tenant_slug" :> Text("acme") @@ "tenant_scope_value" :> scope

Tenants == {Tenant(Text("")), Tenant(Text("eu"))}
WrongTenants ==
  {Tenant(Forged), Tenant(Null), "tenant_id" :> String(Uuid),
   "tenant_slug" :> Text("acme"), "tenant_scope_value" :> Text("eu"),
   "tenant_id" :> Text("") @@ "tenant_slug" :> Text("") @@ "tenant_scope_value" :> Text(""),
   "tenant_id" :> Text("nil") @@ "tenant_slug" :> Text("acme")}

Scopes ==
  {<<>>} \cup Tenants \cup {"principal" :> p : p \in Principals}
  \cup {"tenant_id" :> String(Uuid) @@ "tenant_slug" :> Text("acme")}
  \cup {t @@ "principal" :> p : t \in Tenants, p \in {Object(Alice(<<>>))}}

Spec_(type) == "type" :> Text(type)
Params_(params, schema) == "params" :> params @@ "schema" :> Object(schema)

ParamCases ==
  {Params_(Object("n" :> v), "n" :> Object(Spec_(t))) :
     v \in {Text("x"), Number(TRUE, TRUE), Number(FALSE, FALSE), Array(<<Text("x")>>)},
     t \in {"string", "integer", "number", "boolean", "string[]", "date"}}
  \cup {Params_(p, "n" :> Object(Spec_("string") @@ q)) :
          p \in {Null, Object(<<>>), Text("x")},
          q \in {<<>>, "required" :> Bool(FALSE), "required" :> Text("no")}}
  \cup {Params_(Object(n :> Text("x")), n :> Object(Spec_("string"))) :
          n \in {"tenant_id", "Tenant_ID"}}
  \cup {Params_(Object("n" :> Text("x")), <<>>), "schema" :> Array(<<>>)}

Names == {"n", "tenant_id", "Tenant_ID"}
MCLowerName == [n \in Names |-> IF n = "Tenant_ID" THEN "tenant_id" ELSE n]
MCHostOwned == {"tenant_id"}

Fields ==
  {"dry_run" :> Bool(TRUE), "dry_run" :> Text("no"), "nonce" :> Text(""),
   "action_run_id" :> String(Uuid), "action_run_id" :> Text("0A"),
   "attachments" :> Object(<<>>), "attachments" :> Object("a" :> Null),
   "runtime" :> Text("go"), "runtime" :> Text("ruby"), "runtime" :> Null,
   "project_id" :> Text("p2"), "project_id" :> Text("nil"), "project_id" :> Null,
   "action_id" :> Text("other"),
   "script_digest" :> Text("D1"), "script_digest" :> Text("d2"), "script_digest" :> Text("d")}

Bodies ==
  {f @@ Good : f \in Scopes \cup WrongTenants \cup {"principal" :> p : p \in WrongPrincipals}
                     \cup Fields \cup ParamCases}

-----------------------------------------------------------------------------
(* Requests. *)

GoodRequest ==
  [path |-> "action", method |-> "POST", body |-> "json", raw |-> Good, query |-> <<>>,
   signer |-> "s"]

MCRequests ==
  {[GoodRequest EXCEPT !.raw = b] : b \in Bodies}
  \cup {[GoodRequest EXCEPT !.body = b, !.signer = k] :
          b \in {"json", "not_json", "padded", "oversized", "unreadable"}, k \in {"s", "t", " ", ""}}
  \cup {[GoodRequest EXCEPT !.method = "GET"]}
  \cup {[GoodRequest EXCEPT !.path = "health", !.method = m, !.query = q, !.signer = k] :
          m \in {"GET", "POST"}, k \in {"s", "t", ""},
          q \in {<<>>, <<"p1">>, <<"P1">>, <<"p2">>, <<"nil">>, <<"p1", "p2">>}}
=============================================================================
