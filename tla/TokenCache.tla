----------------------------- MODULE TokenCache -----------------------------
(***************************************************************************)
(* The generic API caller (api.go) and the access-token cache it keeps     *)
(* (apiauth.go).  Concurrent calls to Do on one API share one cache: a     *)
(* refresh key is exchanged for an access token under the cache's mutex,   *)
(* held across the round trip; a call refused with 401 burns the cache,    *)
(* asks for a bearer again and takes the second answer as final.           *)
(*                                                                         *)
(* The host grants tokens, lets them expire and refuses any of them when   *)
(* it likes.  It may grant the same token again, so a bearer is the number *)
(* of the grant that brought it: nothing in the code compares two tokens,  *)
(* and two grants may carry the same one.                                  *)
(***************************************************************************)
EXTENDS Integers, Sequences

CONSTANTS Calls,            \* concurrent calls to Do on one API
          Tokens,           \* access tokens the host may grant
          StaticKey,        \* an API key that is its own bearer
          NoCall,           \* nobody holds the mutex
          Lifetimes,        \* expires_in values, in ticks; 0 when omitted
          UnsaidLifetimes,  \* how long the host may mean when it omits expires_in
          DefaultExpiresIn, \* defaultExpiresIn, in ticks
          ExpirySkew,       \* expirySkew, in ticks
          RoundTrip,        \* the HTTP client's timeout: the longest exchange or call
          MaxGrants,        \* bound: how many tokens the host grants
          MaxTime           \* bound: time stops here

ASSUME CacheAssumption ==
  /\ StaticKey \notin Nat
  /\ NoCall \notin Calls
  /\ Lifetimes \subseteq Nat /\ UnsaidLifetimes \subseteq Nat
  /\ DefaultExpiresIn \in Nat /\ ExpirySkew \in Nat /\ RoundTrip \in Nat
  /\ MaxGrants \in Nat /\ MaxTime \in Nat

VARIABLES
  now,
  exchangeable, \* the API key is a refresh token
  token,        \* apiAuth.token, by its grant
  expiresAt,    \* apiAuth.expiresAt
  holder,       \* the call that holds apiAuth.mu across an exchange
  grants,       \* host: the token of each grant, the expires_in it said, and
                \* until when it means to accept it
  pc,           \* where each call is in Do
  attempt,      \* 1, then 2 after a refusal
  bearer,       \* the bearer each call holds, by its grant
  refused,      \* the bearer whose 401 made a call try again
  refusedAt,    \* history: how many grants the host had made by that 401
  sentAt,       \* when its current request left
  outcome,      \* what Do returned
  delivered,    \* history: local deadline of every grant that reached us
  burned        \* history: grants invalidate took out of the cache

cacheVars == <<token, expiresAt, delivered, burned>>
refusals == <<refused, refusedAt>>
callVars == <<attempt, bearer, refusals, sentAt, outcome>>
vars == <<now, exchangeable, cacheVars, holder, grants, pc, callVars>>

Stages == {"idle", "bearer", "exchanging", "issued", "performing", "unauthorized",
           "returned"}
Outcomes == {"none", "answered", "unauthorized", "retryable", "misconfigured"}

NoToken == 0
NoDeadlines == [g \in {} |-> 0]
Grant == [token : Tokens, said : Nat, until : Nat]
Granted == 1..Len(grants)
Bearers == Granted \cup {NoToken, StaticKey}

Init ==
  /\ now = 0
  /\ exchangeable \in BOOLEAN
  /\ token = NoToken /\ expiresAt = 0 /\ holder = NoCall
  /\ grants = <<>>
  /\ pc = [c \in Calls |-> "idle"]
  /\ attempt = [c \in Calls |-> 1]
  /\ bearer = [c \in Calls |-> NoToken]
  /\ refused = [c \in Calls |-> NoToken]
  /\ refusedAt = [c \in Calls |-> 0]
  /\ sentAt = [c \in Calls |-> 0]
  /\ outcome = [c \in Calls |-> "none"]
  /\ delivered = NoDeadlines /\ burned = {}

With(f, k, v) == [x \in DOMAIN f \cup {k} |-> IF x = k THEN v ELSE f[x]]

Return(c, reply) ==
  /\ pc' = [pc EXCEPT ![c] = "returned"]
  /\ outcome' = [outcome EXCEPT ![c] = reply]
  /\ bearer' = [bearer EXCEPT ![c] = NoToken]
  /\ sentAt' = [sentAt EXCEPT ![c] = 0]

Perform(c, b) ==
  /\ pc' = [pc EXCEPT ![c] = "performing"]
  /\ bearer' = [bearer EXCEPT ![c] = b]
  /\ sentAt' = [sentAt EXCEPT ![c] = now]

-----------------------------------------------------------------------------
(* A call to Do. *)

(* A base URL, key, path or body that cannot make a request ends the call. *)
Start(c) ==
  /\ pc[c] = "idle"
  /\ \/ pc' = [pc EXCEPT ![c] = "bearer"] /\ UNCHANGED <<outcome, bearer, sentAt>>
     \/ Return(c, "misconfigured")
  /\ UNCHANGED <<now, exchangeable, cacheVars, holder, grants, attempt, refusals>>

StaticBearer(c) ==
  /\ pc[c] = "bearer" /\ ~exchangeable
  /\ Perform(c, StaticKey)
  /\ UNCHANGED <<now, exchangeable, cacheVars, holder, grants, attempt, refusals, outcome>>

(* Mutant: a token is used until it expires. *)
MutCached == token # NoToken /\ now < expiresAt

(* A cached token that will not expire within the skew. *)
Cached == token # NoToken /\ now < expiresAt - ExpirySkew

CachedBearer(c) ==
  /\ pc[c] = "bearer" /\ exchangeable
  /\ holder = NoCall
  /\ Cached
  /\ Perform(c, token)
  /\ UNCHANGED <<now, exchangeable, cacheVars, holder, grants, attempt, refusals, outcome>>

(* Mutant: a call that waited for the mutex does not look at the cache again. *)
MutBeginExchange(c) ==
  /\ pc[c] = "bearer" /\ exchangeable
  /\ holder = NoCall
  /\ holder' = c
  /\ pc' = [pc EXCEPT ![c] = "exchanging"]
  /\ sentAt' = [sentAt EXCEPT ![c] = now]
  /\ UNCHANGED <<now, exchangeable, cacheVars, grants, attempt, bearer, refusals, outcome>>

(* No token worth using: exchange the key, holding the mutex until it is over. *)
BeginExchange(c) ==
  /\ pc[c] = "bearer" /\ exchangeable
  /\ holder = NoCall
  /\ ~Cached
  /\ holder' = c
  /\ pc' = [pc EXCEPT ![c] = "exchanging"]
  /\ sentAt' = [sentAt EXCEPT ![c] = now]
  /\ UNCHANGED <<now, exchangeable, cacheVars, grants, attempt, bearer, refusals, outcome>>

(* Mutant: the skew is taken off as well, and the default forgotten. *)
MutExpiresIn(l) == l - ExpirySkew

ExpiresIn(l) == IF l > 0 THEN l ELSE DefaultExpiresIn

(* A host that says a lifetime means it; one that says none means its own. *)
HostLifetimes(l) == IF l > 0 THEN {l} ELSE UnsaidLifetimes

(* The host grants a token: another one, or one it granted before. *)
HostIssues(c) ==
  /\ pc[c] = "exchanging" /\ Len(grants) < MaxGrants
  /\ \E k \in Tokens, l \in Lifetimes : \E t \in HostLifetimes(l) :
       grants' = Append(grants, [token |-> k, said |-> l, until |-> now + t])
  /\ bearer' = [bearer EXCEPT ![c] = Len(grants')]
  /\ pc' = [pc EXCEPT ![c] = "issued"]
  /\ UNCHANGED <<now, exchangeable, cacheVars, holder, attempt, refusals, sentAt,
                 outcome>>

(* The grant arrives: cache it, give the mutex up and use it. *)
ExchangeSucceeds(c) ==
  /\ pc[c] = "issued"
  /\ token' = bearer[c]
  /\ expiresAt' = now + ExpiresIn(grants[bearer[c]].said)
  /\ delivered' = With(delivered, bearer[c], expiresAt')
  /\ holder' = NoCall
  /\ Perform(c, bearer[c])
  /\ UNCHANGED <<now, exchangeable, burned, grants, attempt, refusals, outcome>>

(* Mutant: a failed exchange returns with the mutex held. *)
MutExchangeFails(c) ==
  /\ pc[c] \in {"exchanging", "issued"}
  /\ Return(c, "retryable")
  /\ UNCHANGED <<now, exchangeable, cacheVars, holder, grants, attempt, refusals>>

(* Transport, a refusal or an unusable answer: the cache keeps what it had. *)
ExchangeFails(c) ==
  /\ pc[c] \in {"exchanging", "issued"}
  /\ holder' = NoCall
  /\ Return(c, "retryable")
  /\ UNCHANGED <<now, exchangeable, cacheVars, grants, attempt, refusals>>

(* The host may accept a token until its last grant of it runs out. *)
Accepts(g) == \E h \in Granted : grants[h].token = grants[g].token /\ now < grants[h].until

(* Any answer but a 401, whatever its status, is the answer of the call. *)
HostAnswers(c) ==
  /\ pc[c] = "performing"
  /\ bearer[c] = StaticKey \/ Accepts(bearer[c])
  /\ Return(c, "answered")
  /\ UNCHANGED <<now, exchangeable, cacheVars, holder, grants, attempt, refusals>>

(* Transport, the client's timeout or the caller's context; or, found out   *)
(* only once there is a bearer, a method or a request that cannot be sent.  *)
CallFails(c) ==
  /\ pc[c] = "performing"
  /\ \/ Return(c, "retryable")
     \/ attempt[c] = 1 /\ Return(c, "misconfigured")
  /\ UNCHANGED <<now, exchangeable, cacheVars, holder, grants, attempt, refusals>>

(* The first 401 of an exchanged bearer is worth a second try ... *)
FirstRefusal(c) ==
  /\ pc[c] = "performing" /\ exchangeable /\ attempt[c] = 1
  /\ pc' = [pc EXCEPT ![c] = "unauthorized"]
  /\ refused' = [refused EXCEPT ![c] = bearer[c]]
  /\ refusedAt' = [refusedAt EXCEPT ![c] = Len(grants)]
  /\ bearer' = [bearer EXCEPT ![c] = NoToken]
  /\ UNCHANGED <<now, exchangeable, cacheVars, holder, grants, attempt, sentAt, outcome>>

(* ... any other 401 is the answer. *)
FinalRefusal(c) ==
  /\ pc[c] = "performing"
  /\ ~exchangeable \/ attempt[c] = 2
  /\ Return(c, "unauthorized")
  /\ UNCHANGED <<now, exchangeable, cacheVars, holder, grants, attempt, refusals>>

(* Mutant: the second attempt asks the cache without emptying it. *)
MutInvalidate(c) ==
  /\ pc[c] = "unauthorized"
  /\ holder = NoCall
  /\ attempt' = [attempt EXCEPT ![c] = 2]
  /\ pc' = [pc EXCEPT ![c] = "bearer"]
  /\ UNCHANGED <<now, exchangeable, cacheVars, holder, grants, bearer, refusals,
                 sentAt, outcome>>

(* Mutant: invalidate does not wait for the mutex. *)
MutInvalidateUnlocked(c) ==
  /\ pc[c] = "unauthorized"
  /\ token' = NoToken /\ expiresAt' = 0
  /\ burned' = burned \cup ({token} \ {NoToken})
  /\ attempt' = [attempt EXCEPT ![c] = 2]
  /\ pc' = [pc EXCEPT ![c] = "bearer"]
  /\ UNCHANGED <<now, exchangeable, delivered, holder, grants, bearer, refusals,
                 sentAt, outcome>>

(* invalidate empties the cache, whatever it holds by now. *)
Invalidate(c) ==
  /\ pc[c] = "unauthorized"
  /\ holder = NoCall
  /\ token' = NoToken /\ expiresAt' = 0
  /\ burned' = burned \cup ({token} \ {NoToken})
  /\ attempt' = [attempt EXCEPT ![c] = 2]
  /\ pc' = [pc EXCEPT ![c] = "bearer"]
  /\ UNCHANGED <<now, exchangeable, delivered, holder, grants, bearer, refusals,
                 sentAt, outcome>>

-----------------------------------------------------------------------------
OnTheWire(c) == pc[c] \in {"exchanging", "issued", "performing"}

Tick ==
  /\ now < MaxTime
  /\ \A c \in Calls : OnTheWire(c) => now < sentAt[c] + RoundTrip
  /\ now' = now + 1
  /\ UNCHANGED <<exchangeable, cacheVars, holder, grants, pc, callVars>>

Call(c) ==
  \/ StaticBearer(c) \/ CachedBearer(c) \/ BeginExchange(c)
  \/ HostIssues(c) \/ ExchangeSucceeds(c) \/ ExchangeFails(c)
  \/ HostAnswers(c) \/ CallFails(c) \/ FirstRefusal(c) \/ FinalRefusal(c)
  \/ Invalidate(c)

Next ==
  \/ \E c \in Calls : Start(c) \/ Call(c)
  \/ Tick

Spec == Init /\ [][Next]_vars

(* A request ends, by an answer or by the client's timeout, and the runtime *)
(* hands the mutex to every call that waits for it.                         *)
FairSpec == Spec /\ \A c \in Calls : SF_vars(Call(c))

-----------------------------------------------------------------------------
(* Properties. *)

TypeOK ==
  /\ now \in Nat /\ exchangeable \in BOOLEAN
  /\ grants \in Seq(Grant)
  /\ token \in Granted \cup {NoToken} /\ expiresAt \in Nat
  /\ holder \in Calls \cup {NoCall}
  /\ pc \in [Calls -> Stages] /\ attempt \in [Calls -> {1, 2}]
  /\ bearer \in [Calls -> Bearers] /\ refused \in [Calls -> Bearers]
  /\ refusedAt \in [Calls -> 0..Len(grants)]
  /\ sentAt \in [Calls -> Nat] /\ outcome \in [Calls -> Outcomes]
  /\ DOMAIN delivered \subseteq Granted /\ delivered \in [DOMAIN delivered -> Nat]
  /\ burned \subseteq Granted

(* The early refresh of expirySkew: "a call starting just before the        *)
(* boundary never lands with a dead token".  Two round trips must fit in    *)
(* the skew (the grant's way back and the call's way there), and in the     *)
(* lifetime of a token used as soon as it is granted.  Of a lifetime the    *)
(* host did not say the client knows nothing, and nothing is claimed.       *)
SkewCoversTrips == 2 * RoundTrip <= ExpirySkew

NeverDeadOnArrival ==
  SkewCoversTrips =>
    \A c \in Calls :
      pc[c] = "performing" /\ bearer[c] \in Granted /\ grants[bearer[c]].said > 2 * RoundTrip
        => now < grants[bearer[c]].until

(* The bearer of a second attempt was granted after the host had refused    *)
(* the first, however other calls burn and fill the cache meanwhile: a      *)
(* retry never takes a token that was already on its way, and a refusal is  *)
(* reported only of such a second bearer.  (The host may grant the token it *)
(* refused again; the retry then carries that.)                             *)
RetryIsFresh ==
  \A c \in Calls :
    pc[c] = "performing" /\ attempt[c] = 2
      => refused[c] \in Granted /\ bearer[c] \in Granted /\ bearer[c] > refusedAt[c]

(* "Concurrent callers do it once": of the grants that reached us, every    *)
(* one but the cached one was burned or is too old to start a call with.    *)
SingleFlight ==
  \A g \in DOMAIN delivered :
    g = token \/ g \in burned \/ now >= delivered[g] - ExpirySkew

(* The calls and the cache as OneToken sees them. *)
Current == IF Cached THEN token ELSE NoToken
Worn == {g \in DOMAIN delivered : now >= delivered[g] - ExpirySkew}
Presented == [c \in Calls |-> IF pc[c] = "performing" THEN bearer[c] ELSE NoToken]
Burning == {c \in Calls : pc[c] = "unauthorized"}

Promise ==
  INSTANCE OneToken WITH
    current <- Current, made <- Len(grants), granted <- DOMAIN delivered, worn <- Worn,
    presented <- Presented, burning <- Burning

(* The cache keeps the promise of OneToken, whatever calls share, refill,   *)
(* let expire and burn it meanwhile.                                        *)
ImplementsOneToken == Promise!Spec

(* Every call that started returns: no call is left waiting for a mutex     *)
(* another one keeps.                                                       *)
CallsReturn == \A c \in Calls : pc[c] = "bearer" ~> pc[c] = "returned"

(* apiauth.go: "invalidate burns the cached token after the host refused    *)
(* it".                                                                     *)
BurnsOnlyRefused ==
  \A g \in burned :
    \E c \in Calls : refused[c] \in Granted /\ grants[refused[c]].token = grants[g].token
=============================================================================
