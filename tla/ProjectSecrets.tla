--------------------------- MODULE ProjectSecrets ---------------------------
(***************************************************************************)
(* The secret selector every HMAC direction goes through (secrets.go).  A  *)
(* configuration has one secret for the whole deployment or one for each   *)
(* project; a project id may be spelled in either case.                    *)
(***************************************************************************)
EXTENDS FiniteSets

CONSTANTS ProjectIds, \* spellings of project ids
          ValidIds,   \* those that are UUIDs other than the nil one
          Lower       \* strings.ToLower, on these spellings

ASSUME IdAssumption == ValidIds \subseteq ProjectIds /\ Lower \in [ProjectIds -> ProjectIds]

(* Nothing is left of it by strings.TrimSpace. *)
Blank(text) == text \in {"", " "}

(* strings.EqualFold: valid ids are ASCII. *)
SameProject(p, q) == Lower[p] = Lower[q]

SingleSecret(config) == DOMAIN config.secrets = {}

(* The secrets secretForProject may return, none when it reports false: an  *)
(* id that is not configured as spelled is looked up in a loop over the     *)
(* map, whose order is not defined.                                         *)
SecretForProject(config, id) ==
  LET usable == {p \in DOMAIN config.secrets : ~Blank(config.secrets[p])}
      matching == {p \in usable : SameProject(p, id)}
  IN  IF SingleSecret(config) THEN {config.secret} \ {""}
      ELSE IF id \notin ValidIds THEN {}
      ELSE {config.secrets[p] : p \in IF id \in usable THEN {id} ELSE matching}

(* actionEnabled: without a secret the action plane answers nothing. *)
ActionEnabled(config) == ~Blank(config.secret) \/ ~SingleSecret(config)

(* outboundSecret, none when it is an error: what a request to the host is  *)
(* signed with.                                                             *)
OutboundSecret(config, id) ==
  IF ~ActionEnabled(config) THEN {}
  ELSE IF SingleSecret(config) THEN {config.secret} ELSE SecretForProject(config, id)
=============================================================================
