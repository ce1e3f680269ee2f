-------------------------------- MODULE Boot --------------------------------
(***************************************************************************)
(* What a deployment may look like when it serves (config.go): defaults    *)
(* from the environment and the package, then validate.  A URL is known by *)
(* its class, a duration by its seconds.                                   *)
(***************************************************************************)
EXTENDS ProjectSecrets, Integers, Sequences

(* "" for unset; the package's placeholder; a web URL under .invalid; one   *)
(* without a host; one of another scheme; a web URL.                        *)
Urls == {"", "placeholder", "reserved", "hostless", "other_scheme", "web"}

IsPlaceholderFetchURL(url) == url \in {"", "placeholder", "reserved", "hostless"}
IsAbsoluteHTTPURL(url) == url \in {"placeholder", "reserved", "web"}

OrElse(value, default) == IF value = "" THEN default ELSE value
OrSeconds(value, default) == IF value = 0 THEN default ELSE value

(* applyDefaults; the other fields it fills in do not bear on validate. *)
WithDefaults(config, env) ==
  [config EXCEPT
     !.secret = OrElse(@, env.secret),
     !.fetchURL = OrElse(OrElse(@, env.fetchURL), "placeholder"),
     !.apiBaseURL = OrElse(@, env.apiBaseURL),
     !.apiKey = OrElse(@, env.apiKey),
     !.chatSecret = OrElse(@, env.chatSecret),
     !.chatProject = OrElse(@, env.chatProject),
     !.chatBaseURL = OrElse(OrElse(@, env.chatBaseURL), "web"),
     !.tenantlessActions = IF @ = <<>> THEN env.tenantlessActions ELSE @,
     !.timeout = OrSeconds(@, 20),
     !.totalDeadline = OrSeconds(@, 22),
     !.clockSkew = OrSeconds(@, 300)]

(* Any field of the action plane asks for all of it; otherActionField is    *)
(* TriggerURL, SentMessageURL, ResultHandler, CacheDir or Symbols.          *)
ActionPlaneRequested(config) ==
  \/ ActionEnabled(config)
  \/ config.fetchURL # "placeholder"
  \/ config.requireTenantContext \/ config.tenantlessActions # <<>>
  \/ config.otherActionField

(* Mutant: two spellings of one project pass. *)
MutSecretsValid(config) ==
  /\ Blank(config.secret) # SingleSecret(config)
  /\ \A p \in DOMAIN config.secrets : p \in ValidIds /\ ~Blank(config.secrets[p])

(* One secret or a map of them; in the map, real secrets under real ids, no *)
(* project twice.                                                           *)
SecretsValid(config) ==
  /\ Blank(config.secret) # SingleSecret(config)
  /\ \A p \in DOMAIN config.secrets :
       /\ p \in ValidIds /\ ~Blank(config.secrets[p])
       /\ \A q \in DOMAIN config.secrets : SameProject(p, q) => p = q

TenantlessActionsValid(config) ==
  LET actions == config.tenantlessActions
  IN  actions # <<>> =>
        /\ config.requireTenantContext
        /\ \A i \in DOMAIN actions : ~Blank(actions[i])
        /\ \A i, j \in DOMAIN actions : actions[i] = actions[j] => i = j

ActionValid(config) ==
  /\ SecretsValid(config)
  /\ ~IsPlaceholderFetchURL(config.fetchURL)
  /\ config.timeout > 0 /\ config.totalDeadline > config.timeout /\ config.clockSkew > 0
  /\ TenantlessActionsValid(config)

(* Half a plane is a mistake. *)
APIValid(config) ==
  \/ config.apiBaseURL = "" /\ config.apiKey = ""
  \/ IsAbsoluteHTTPURL(config.apiBaseURL) /\ config.apiKey # ""

ChatEnabled(config) == config.chatSecret # "" /\ config.chatProject # ""

(* Mutant: only the single secret is compared with the chat's. *)
MutChatValid(config) ==
  /\ IsAbsoluteHTTPURL(config.chatBaseURL)
  /\ \/ config.chatSecret = "" /\ config.chatProject = ""
     \/ ChatEnabled(config) /\ config.chatSecret # config.secret

ChatValid(config) ==
  /\ IsAbsoluteHTTPURL(config.chatBaseURL)
  /\ \/ config.chatSecret = "" /\ config.chatProject = ""
     \/ /\ ChatEnabled(config)
        /\ config.chatSecret # config.secret
        /\ \A p \in DOMAIN config.secrets : config.chatSecret # config.secrets[p]

Valid(config) ==
  /\ ActionPlaneRequested(config) => ActionValid(config)
  /\ APIValid(config)
  /\ ChatValid(config)
=============================================================================
