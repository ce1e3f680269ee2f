-------------------------- MODULE TokenCacheProofs --------------------------
(***************************************************************************)
(* Theorems about TokenCache, for any number of concurrent calls, tokens,  *)
(* lifetimes and delays.                                                   *)
(***************************************************************************)
EXTENDS TokenCache, TLAPS

(* Exchanging, with or without the host's grant: the mutex is held. *)
Exchanging(c) == pc[c] \in {"exchanging", "issued"}

MutexInv == \A c \in Calls : Exchanging(c) <=> holder = c

(* The cache cannot become worth using under a holder that refills it. *)
HolderInv == holder # NoCall => ~Cached

(* Where the grants are: one on its way has not been delivered, every      *)
(* bearer in use has.                                                       *)
TokenInv ==
  /\ token # NoToken => token \in DOMAIN delivered /\ expiresAt = delivered[token]
  /\ \A c \in Calls :
       /\ pc[c] = "issued" => bearer[c] \in Granted \ DOMAIN delivered
       /\ pc[c] = "performing" =>
            bearer[c] = StaticKey \/ bearer[c] \in DOMAIN delivered
       /\ pc[c] = "performing" /\ exchangeable => bearer[c] \in DOMAIN delivered

(* Whatever a call that tries again can still come to hold, cached, on its  *)
(* way to some other call or in its hands, was granted after its refusal.   *)
RefusedInv ==
  \A c \in Calls :
    /\ pc[c] = "unauthorized" => refused[c] \in Granted /\ attempt[c] = 1 /\ exchangeable
    /\ attempt[c] = 2 =>
         /\ refused[c] \in Granted /\ exchangeable
         /\ token = NoToken \/ token > refusedAt[c]
         /\ \A d \in Calls : pc[d] = "issued" => bearer[d] > refusedAt[c]
         /\ pc[c] = "performing" => bearer[c] > refusedAt[c]

(* A call has an outcome only once it has returned. *)
OutcomeInv == \A c \in Calls : outcome[c] # "none" => pc[c] = "returned"

IInv ==
  /\ TypeOK /\ MutexInv /\ HolderInv /\ TokenInv /\ RefusedInv /\ OutcomeInv
  /\ SingleFlight

-----------------------------------------------------------------------------

LEMMA InitInv == Init => IInv
  BY CacheAssumption DEF Init, IInv, TypeOK, NoDeadlines, NoToken, Granted, Stages, Outcomes,
     Bearers, MutexInv, Exchanging, HolderInv, TokenInv, RefusedInv, OutcomeInv, SingleFlight

(* What the types say of a bearer. *)
LEMMA BearerTypes ==
  ASSUME TypeOK
  PROVE  /\ Len(grants) \in Nat /\ Granted \subseteq Nat \ {NoToken}
         /\ StaticKey \notin Granted /\ StaticKey # NoToken /\ token \in Nat
         /\ \A c \in Calls : refusedAt[c] \in Nat
  BY CacheAssumption DEF TypeOK, Granted, NoToken

LEMMA CallTypes ==
  ASSUME TypeOK
  PROVE  /\ pc \in [Calls -> Stages] /\ outcome \in [Calls -> Outcomes]
         /\ sentAt \in [Calls -> Nat] /\ now \in Nat /\ holder \in Calls \cup {NoCall}
  BY DEF TypeOK

(* Steps that leave the cache, the mutex and the host's grants alone. *)
LEMMA CallInv ==
  ASSUME IInv, NEW c \in Calls,
         Start(c) \/ StaticBearer(c) \/ CachedBearer(c) \/ HostAnswers(c) \/ CallFails(c)
         \/ FirstRefusal(c) \/ FinalRefusal(c)
  PROVE  IInv'
  <1> USE DEF IInv
  <1>2. UNCHANGED <<now, exchangeable, cacheVars, holder, grants, Granted, Bearers, attempt>>
    BY DEF Start, StaticBearer, CachedBearer, HostAnswers, CallFails, FirstRefusal,
       FinalRefusal, Granted, Bearers
  <1>1. TypeOK'
    <2>1. /\ pc' \in [Calls -> Stages] /\ outcome' \in [Calls -> Outcomes]
          /\ sentAt' \in [Calls -> Nat]
      BY CallTypes DEF Stages, Outcomes, Start, StaticBearer, CachedBearer, HostAnswers,
         CallFails, FirstRefusal, FinalRefusal, Return, Perform
    <2>2. bearer' \in [Calls -> Bearers] /\ refused' \in [Calls -> Bearers]
      BY DEF TypeOK, Bearers, refusals, Start, StaticBearer, CachedBearer, HostAnswers,
         CallFails, FirstRefusal, FinalRefusal, Return, Perform
    <2>3. refusedAt' \in [Calls -> 0..Len(grants)]
      BY BearerTypes DEF TypeOK, refusals, Start, StaticBearer, CachedBearer, HostAnswers,
         CallFails, FirstRefusal, FinalRefusal
    <2> QED
      BY <1>2, <2>1, <2>2, <2>3 DEF TypeOK, cacheVars
  <1>3. MutexInv' /\ OutcomeInv'
    BY <1>2 DEF MutexInv, OutcomeInv, Exchanging, TypeOK, Start, StaticBearer, CachedBearer,
       HostAnswers, CallFails, FirstRefusal, FinalRefusal, Return, Perform
  <1>4. HolderInv' /\ SingleFlight'
    BY <1>2 DEF HolderInv, SingleFlight, Cached, cacheVars
  <1>5. TokenInv'
    BY <1>2, BearerTypes, CacheAssumption DEF TokenInv, TypeOK, cacheVars, Start, StaticBearer,
       CachedBearer, Cached, HostAnswers, CallFails, FirstRefusal, FinalRefusal, Return, Perform
  <1>6. RefusedInv'
    <2>1. pc[c] = "performing" /\ exchangeable => bearer[c] \in Granted
      BY DEF TokenInv, TypeOK
    <2>2. \A d \in Calls : pc'[d] = "issued" => pc[d] = "issued" /\ bearer'[d] = bearer[d]
      BY DEF TypeOK, Start, StaticBearer, CachedBearer, HostAnswers, CallFails, FirstRefusal,
         FinalRefusal, Return, Perform
    <2>3. \A d \in Calls \ {c} : /\ pc'[d] = pc[d] /\ bearer'[d] = bearer[d]
                                /\ refused'[d] = refused[d] /\ refusedAt'[d] = refusedAt[d]
      BY DEF TypeOK, Start, StaticBearer, CachedBearer, HostAnswers, CallFails, FirstRefusal,
         FinalRefusal, Return, Perform, refusals
    <2>4. attempt[c] = 2 => refused'[c] = refused[c] /\ refusedAt'[c] = refusedAt[c]
      BY DEF TypeOK, Start, StaticBearer, CachedBearer, HostAnswers, CallFails, FirstRefusal,
         FinalRefusal, refusals
    <2>5. pc'[c] = "unauthorized" => refused'[c] \in Granted /\ attempt[c] = 1 /\ exchangeable
      BY <2>1 DEF TypeOK, Start, StaticBearer, CachedBearer, HostAnswers, CallFails,
         FirstRefusal, FinalRefusal, Return, Perform
    <2>6. attempt[c] = 2 /\ pc'[c] = "performing" => bearer'[c] > refusedAt[c]
      BY BearerTypes DEF RefusedInv, TypeOK, Cached, Start, StaticBearer, CachedBearer,
         HostAnswers, CallFails, FirstRefusal, FinalRefusal, Return, Perform
    <2> QED
      BY <1>2, <2>2, <2>3, <2>4, <2>5, <2>6 DEF RefusedInv, cacheVars
  <1> QED
    BY <1>1, <1>3, <1>4, <1>5, <1>6

(* Taking the mutex, and giving it up empty-handed. *)
LEMMA MutexStepInv ==
  ASSUME IInv, NEW c \in Calls, BeginExchange(c) \/ ExchangeFails(c)
  PROVE  IInv'
  <1> USE DEF IInv
  <1>2. UNCHANGED <<now, exchangeable, cacheVars, grants, Granted, Bearers, attempt, refused,
                    refusedAt>>
    BY DEF BeginExchange, ExchangeFails, Granted, Bearers, refusals
  <1>1. TypeOK'
    <2>1. /\ pc' \in [Calls -> Stages] /\ outcome' \in [Calls -> Outcomes]
          /\ sentAt' \in [Calls -> Nat] /\ holder' \in Calls \cup {NoCall}
      BY CallTypes DEF Stages, Outcomes, BeginExchange, ExchangeFails, Return
    <2>2. bearer' \in [Calls -> Bearers]
      BY DEF TypeOK, Bearers, BeginExchange, ExchangeFails, Return
    <2> QED
      BY <1>2, <2>1, <2>2 DEF TypeOK, cacheVars
  <1>3. MutexInv' /\ OutcomeInv'
    BY <1>2, CallTypes, CacheAssumption DEF MutexInv, OutcomeInv, Exchanging, BeginExchange,
       ExchangeFails, Return
  <1>4. HolderInv' /\ SingleFlight'
    BY <1>2 DEF HolderInv, SingleFlight, Cached, cacheVars, BeginExchange, ExchangeFails
  <1>5. TokenInv'
    BY <1>2 DEF TokenInv, TypeOK, cacheVars, BeginExchange, ExchangeFails, Return
  <1>6. RefusedInv'
    BY <1>2 DEF RefusedInv, TypeOK, cacheVars, BeginExchange, ExchangeFails, Return
  <1> QED
    BY <1>1, <1>3, <1>4, <1>5, <1>6

(* What the host's grant is, and that it comes after every earlier one. *)
LEMMA GrantFacts ==
  ASSUME TypeOK, NEW c \in Calls, HostIssues(c)
  PROVE  \E k \in Tokens, l \in Lifetimes : \E t \in HostLifetimes(l) :
           /\ t \in Nat /\ l \in Nat
           /\ grants' = Append(grants, [token |-> k, said |-> l, until |-> now + t])
           /\ grants' \in Seq(Grant) /\ Len(grants') = Len(grants) + 1
           /\ Granted' = Granted \cup {Len(grants) + 1} /\ Len(grants) + 1 \notin Granted
           /\ \A g \in Granted : grants'[g] = grants[g]
           /\ grants'[Len(grants) + 1] = [token |-> k, said |-> l, until |-> now + t]
           /\ bearer' = [bearer EXCEPT ![c] = Len(grants) + 1]
  <1>0. PICK k \in Tokens, l \in Lifetimes : \E t \in HostLifetimes(l) :
          grants' = Append(grants, [token |-> k, said |-> l, until |-> now + t])
    BY DEF HostIssues
  <1>1. PICK t \in HostLifetimes(l) :
          grants' = Append(grants, [token |-> k, said |-> l, until |-> now + t])
    BY <1>0
  <1>2. t \in Nat /\ l \in Nat
    BY CacheAssumption DEF HostLifetimes
  <1>3. [token |-> k, said |-> l, until |-> now + t] \in Grant
    BY <1>2 DEF Grant, TypeOK
  <1>4. grants \in Seq(Grant)
    BY DEF TypeOK
  <1>5. /\ grants' \in Seq(Grant) /\ Len(grants') = Len(grants) + 1
        /\ \A g \in 1..Len(grants) : grants'[g] = grants[g]
        /\ grants'[Len(grants) + 1] = [token |-> k, said |-> l, until |-> now + t]
    BY <1>1, <1>3, <1>4
  <1>6. Granted' = Granted \cup {Len(grants) + 1} /\ Len(grants) + 1 \notin Granted
    BY <1>4, <1>5 DEF Granted
  <1> QED
    BY <1>1, <1>2, <1>5, <1>6 DEF Granted, HostIssues

LEMMA HostIssuesInv ==
  ASSUME IInv, NEW c \in Calls, HostIssues(c)
  PROVE  IInv'
  <1> USE DEF IInv
  <1> DEFINE n == Len(grants) + 1
  <1>1. /\ grants' \in Seq(Grant) /\ Len(grants') = n
        /\ Granted' = Granted \cup {n} /\ n \notin Granted
        /\ bearer' = [bearer EXCEPT ![c] = n]
    BY GrantFacts
  <1>2. /\ UNCHANGED <<now, exchangeable, cacheVars, holder, attempt, refused, refusedAt,
                       sentAt, outcome>>
        /\ pc' = [pc EXCEPT ![c] = "issued"] /\ pc[c] = "exchanging"
    BY DEF HostIssues, refusals
  <1>3. Len(grants) \in Nat
    BY BearerTypes
  <1>4. TypeOK'
    <2>1. Bearers' = Bearers \cup {n}
      BY <1>1 DEF Bearers
    <2>2. 0..Len(grants) \subseteq 0..Len(grants')
      BY <1>1, <1>3
    <2>3. refusedAt' \in [Calls -> 0..Len(grants')]
      BY <1>2, <2>2 DEF TypeOK
    <2>4. bearer' \in [Calls -> Bearers'] /\ refused' \in [Calls -> Bearers']
      BY <1>1, <1>2, <2>1 DEF TypeOK
    <2> QED
      BY <1>1, <1>2, <2>3, <2>4 DEF TypeOK, Stages, cacheVars
  <1>5. MutexInv' /\ OutcomeInv'
    BY <1>2 DEF MutexInv, OutcomeInv, Exchanging, TypeOK
  <1>6. HolderInv' /\ SingleFlight'
    BY <1>2 DEF HolderInv, SingleFlight, Cached, cacheVars
  <1>7. TokenInv'
    BY <1>1, <1>2 DEF TokenInv, TypeOK, cacheVars
  <1>8. RefusedInv'
    <2>1. \A d \in Calls : refusedAt[d] < n
      BY <1>3 DEF TypeOK
    <2> QED
      BY <1>1, <1>2, <2>1 DEF RefusedInv, TypeOK, cacheVars
  <1> QED
    BY <1>4, <1>5, <1>6, <1>7, <1>8

LEMMA ExchangeSucceedsInv ==
  ASSUME IInv, NEW c \in Calls, ExchangeSucceeds(c)
  PROVE  IInv'
  <1> USE DEF IInv
  <1> DEFINE g == bearer[c]
             deadline == now + ExpiresIn(grants[g].said)
  <1>1. /\ g \in Granted \ DOMAIN delivered /\ g # NoToken
        /\ deadline \in Nat
    <2>1. g \in Granted \ DOMAIN delivered /\ g # NoToken
      BY BearerTypes DEF TokenInv, TypeOK, ExchangeSucceeds
    <2>2. grants[g] \in Grant
      BY <2>1 DEF TypeOK, Granted
    <2>3. ExpiresIn(grants[g].said) \in Nat
      BY <2>2, CacheAssumption DEF Grant, ExpiresIn
    <2> QED
      BY <2>1, <2>3 DEF TypeOK
  <1>2. /\ token' = g /\ expiresAt' = deadline /\ holder' = NoCall
        /\ DOMAIN delivered' = DOMAIN delivered \cup {g}
        /\ delivered'[g] = deadline
        /\ \A x \in DOMAIN delivered : delivered'[x] = delivered[x]
    BY <1>1 DEF ExchangeSucceeds, With
  <1>3. /\ UNCHANGED <<now, exchangeable, burned, grants, Granted, attempt, refused, refusedAt,
                       outcome>>
        /\ bearer' = bearer
        /\ pc' = [pc EXCEPT ![c] = "performing"]
    BY DEF ExchangeSucceeds, Perform, TypeOK, refusals, Granted
  <1>4. TypeOK'
    <2>1. delivered' \in [DOMAIN delivered' -> Nat]
      BY <1>1 DEF ExchangeSucceeds, With, TypeOK
    <2> QED
      BY <1>1, <1>2, <1>3, <2>1 DEF TypeOK, Stages, Bearers, ExchangeSucceeds, Perform
  <1>5. MutexInv' /\ OutcomeInv'
    BY <1>2, <1>3, CacheAssumption DEF MutexInv, OutcomeInv, Exchanging, TypeOK, ExchangeSucceeds
  <1>6. HolderInv'
    BY <1>2 DEF HolderInv
  <1>7. SingleFlight'
    <2>1. holder = c /\ holder # NoCall
      BY CacheAssumption DEF MutexInv, Exchanging, ExchangeSucceeds
    <2>2. ~Cached
      BY <2>1 DEF HolderInv
    <2>3. token \in DOMAIN delivered => now >= delivered[token] - ExpirySkew
      BY <2>2, BearerTypes, CacheAssumption DEF Cached, TokenInv, TypeOK
    <2> QED
      BY <2>3, <1>2, <1>3 DEF SingleFlight
  <1>8. TokenInv'
    BY <1>1, <1>2, <1>3 DEF TokenInv, TypeOK, MutexInv, Exchanging, ExchangeSucceeds
  <1>9. RefusedInv'
    BY <1>1, <1>2, <1>3 DEF RefusedInv, TypeOK, ExchangeSucceeds
  <1> QED
    BY <1>4, <1>5, <1>6, <1>7, <1>8, <1>9

LEMMA InvalidateInv ==
  ASSUME IInv, NEW c \in Calls, Invalidate(c)
  PROVE  IInv'
  <1> USE DEF IInv
  <1>1. TypeOK'
    BY DEF TypeOK, Stages, Bearers, Granted, refusals, Invalidate
  <1>2. UNCHANGED <<now, exchangeable, delivered, holder, grants, Granted, bearer, refused,
                    refusedAt, outcome>>
    BY DEF Invalidate, refusals, Granted
  <1>3. MutexInv' /\ OutcomeInv'
    BY <1>2 DEF MutexInv, OutcomeInv, Exchanging, TypeOK, Invalidate
  <1>4. HolderInv' /\ SingleFlight'
    BY <1>2, BearerTypes DEF HolderInv, SingleFlight, Invalidate, TypeOK
  <1>5. TokenInv'
    BY <1>2 DEF TokenInv, TypeOK, Invalidate
  <1>6. RefusedInv'
    <2>1. \A d \in Calls : pc[d] # "issued"
      BY CacheAssumption DEF MutexInv, Exchanging, Invalidate
    <2> QED
      BY <1>2, <2>1 DEF RefusedInv, TypeOK, Invalidate
  <1> QED
    BY <1>1, <1>3, <1>4, <1>5, <1>6

(* The clock and stuttering. *)
LEMMA EnvironmentInv ==
  ASSUME IInv, Tick \/ UNCHANGED vars
  PROVE  IInv'
  <1> USE DEF IInv
  <1>1. TypeOK'
    BY DEF TypeOK, Bearers, Granted, cacheVars, callVars, refusals, Tick, vars
  <1>2. /\ UNCHANGED <<exchangeable, cacheVars, holder, grants, Granted, pc, callVars>>
        /\ now' \in {now, now + 1}
    BY DEF Tick, vars, Granted
  <1>3. MutexInv' /\ OutcomeInv' /\ TokenInv' /\ RefusedInv'
    BY <1>2 DEF MutexInv, OutcomeInv, Exchanging, TokenInv, RefusedInv, cacheVars, callVars,
       refusals
  <1>4. HolderInv' /\ SingleFlight'
    BY <1>2, BearerTypes, CacheAssumption DEF HolderInv, SingleFlight, Cached, TypeOK, cacheVars
  <1> QED
    BY <1>1, <1>3, <1>4

LEMMA NextInv == IInv /\ [Next]_vars => IInv'
  BY CallInv, MutexStepInv, HostIssuesInv, ExchangeSucceedsInv, InvalidateInv,
     EnvironmentInv DEF Next, Call

LEMMA InvCorrect == Spec => []IInv
  BY InitInv, NextInv, PTL DEF Spec

-----------------------------------------------------------------------------

(* Every variable keeps its type. *)
THEOREM TypeCorrect == Spec => []TypeOK
  <1>1. IInv => TypeOK
    BY DEF IInv
  <1> QED
    BY <1>1, InvCorrect, PTL

(* However many calls burn and refill the cache between the two attempts of *)
(* one, the second carries a bearer granted after the first was refused.    *)
THEOREM RetryCorrect == Spec => []RetryIsFresh
  <1>1. IInv => RetryIsFresh
    <2> SUFFICES ASSUME IInv, NEW c \in Calls, pc[c] = "performing", attempt[c] = 2
                 PROVE  refused[c] \in Granted /\ bearer[c] \in Granted
                        /\ bearer[c] > refusedAt[c]
      BY DEF RetryIsFresh
    <2>1. refused[c] \in Granted /\ exchangeable /\ bearer[c] > refusedAt[c]
      BY DEF IInv, RefusedInv
    <2>2. bearer[c] \in Granted
      BY <2>1 DEF IInv, TokenInv, TypeOK
    <2> QED
      BY <2>1, <2>2
  <1> QED
    BY <1>1, InvCorrect, PTL

(* No exchange replaces a token that could still start a call, unless that  *)
(* token was burned.                                                        *)
THEOREM SingleFlightCorrect == Spec => []SingleFlight
  <1>1. IInv => SingleFlight
    BY DEF IInv
  <1> QED
    BY <1>1, InvCorrect, PTL

-----------------------------------------------------------------------------
(* Delays.  No request is under way longer than RoundTrip, so the deadline  *)
(* we count for a token is at most that much later than the one the host    *)
(* said, and a call carries a token taken from the cache before the skew or *)
(* one just granted.  Nothing is known of a lifetime the host did not say.  *)
Said(g) == grants[g].said > 0

DelayInv ==
  /\ \A g \in Granted : grants[g].said \in Nat /\ grants[g].until \in Nat
  /\ \A c \in Calls :
       /\ OnTheWire(c) => sentAt[c] <= now /\ now <= sentAt[c] + RoundTrip
       /\ pc[c] = "issued" /\ Said(bearer[c]) =>
            sentAt[c] + grants[bearer[c]].said <= grants[bearer[c]].until
       /\ pc[c] = "performing" /\ bearer[c] \in Granted /\ Said(bearer[c]) =>
            \/ sentAt[c] + ExpirySkew < delivered[bearer[c]]
            \/ sentAt[c] + grants[bearer[c]].said <= grants[bearer[c]].until + RoundTrip
  /\ \A g \in DOMAIN delivered : Said(g) => delivered[g] <= grants[g].until + RoundTrip

LEMMA DelayNext == IInv /\ IInv' /\ DelayInv /\ [Next]_vars => DelayInv'
  <1> SUFFICES ASSUME IInv, IInv', DelayInv, [Next]_vars
               PROVE  DelayInv'
    OBVIOUS
  <1>1. TypeOK /\ TypeOK'
    BY DEF IInv
  <1>2. ASSUME NEW c \in Calls,
               Start(c) \/ HostAnswers(c) \/ CallFails(c) \/ FirstRefusal(c) \/ FinalRefusal(c)
               \/ ExchangeFails(c) \/ Invalidate(c) \/ StaticBearer(c) \/ BeginExchange(c)
        PROVE  DelayInv'
    <2>1. UNCHANGED <<now, grants, Granted, delivered>>
      BY <1>2 DEF Start, HostAnswers, CallFails, FirstRefusal, FinalRefusal, ExchangeFails,
         Invalidate, StaticBearer, BeginExchange, cacheVars, Granted
    <2>2. /\ \A d \in Calls \ {c} :
               pc'[d] = pc[d] /\ sentAt'[d] = sentAt[d] /\ bearer'[d] = bearer[d]
          /\ pc'[c] # "issued"
          /\ pc'[c] \in {"performing", "exchanging"} => sentAt'[c] = now
          /\ pc'[c] = "performing" => bearer'[c] = StaticKey
      BY <1>1, <1>2, CallTypes DEF TypeOK, Start, HostAnswers, CallFails, FirstRefusal,
         FinalRefusal, ExchangeFails, Invalidate, StaticBearer, BeginExchange, Perform, Return
    <2>3. StaticKey \notin Granted /\ now \in Nat
      BY <1>1, BearerTypes, CallTypes
    <2> QED
      BY <2>1, <2>2, <2>3, CacheAssumption DEF DelayInv, OnTheWire, Said
  <1>3. ASSUME NEW c \in Calls, CachedBearer(c)
        PROVE  DelayInv'
    <2>1. token \in DOMAIN delivered /\ expiresAt = delivered[token] /\ now + ExpirySkew < expiresAt
      BY <1>1, <1>3, CacheAssumption DEF CachedBearer, Cached, IInv, TokenInv, TypeOK
    <2>2. UNCHANGED <<now, grants, Granted, delivered>>
      BY <1>3 DEF CachedBearer, cacheVars, Granted
    <2>3. /\ \A d \in Calls \ {c} :
               pc'[d] = pc[d] /\ sentAt'[d] = sentAt[d] /\ bearer'[d] = bearer[d]
          /\ pc'[c] = "performing" /\ sentAt'[c] = now /\ bearer'[c] = token
      BY <1>1, <1>3 DEF CachedBearer, Perform, TypeOK
    <2>4. now \in Nat
      BY <1>1, CallTypes
    <2> QED
      BY <2>1, <2>2, <2>3, <2>4, CacheAssumption DEF DelayInv, OnTheWire, Said
  <1>4. ASSUME NEW c \in Calls, HostIssues(c)
        PROVE  DelayInv'
    <2> DEFINE n == Len(grants) + 1
    <2>1. PICK k \in Tokens, l \in Lifetimes : \E t \in HostLifetimes(l) :
           /\ t \in Nat /\ l \in Nat
           /\ Granted' = Granted \cup {n} /\ n \notin Granted
           /\ \A g \in Granted : grants'[g] = grants[g]
           /\ grants'[n] = [token |-> k, said |-> l, until |-> now + t]
           /\ bearer' = [bearer EXCEPT ![c] = n]
      BY <1>1, <1>4, GrantFacts
    <2>2. PICK t \in HostLifetimes(l) :
           /\ t \in Nat /\ l \in Nat
           /\ grants'[n] = [token |-> k, said |-> l, until |-> now + t]
      BY <2>1
    <2>3. /\ grants'[n].said = l /\ grants'[n].until = now + t
          /\ l > 0 => t = l
      BY <2>2 DEF HostLifetimes
    <2>4. /\ UNCHANGED <<now, delivered, sentAt>>
          /\ pc[c] = "exchanging" /\ pc'[c] = "issued" /\ bearer'[c] = n
          /\ \A d \in Calls \ {c} : pc'[d] = pc[d] /\ bearer'[d] = bearer[d]
      BY <1>1, <1>4, <2>1 DEF HostIssues, cacheVars, TypeOK
    <2>5. now \in Nat /\ sentAt[c] \in Nat /\ sentAt[c] <= now /\ now <= sentAt[c] + RoundTrip
      BY <1>1, <2>4, CallTypes DEF DelayInv, OnTheWire
    <2>6. /\ \A d \in Calls \ {c} : /\ pc[d] = "issued" => bearer[d] \in Granted
                                    /\ pc[d] = "performing" /\ bearer[d] \in Granted'
                                         => bearer[d] \in Granted
          /\ DOMAIN delivered \subseteq Granted
      <3>1. StaticKey # n
        BY <1>1, BearerTypes, CacheAssumption
      <3>2. DOMAIN delivered \subseteq Granted
        BY <1>1 DEF TypeOK
      <3> QED
        BY <2>1, <3>1, <3>2 DEF IInv, TokenInv
    <2>7. \A g \in Granted' : grants'[g].said \in Nat /\ grants'[g].until \in Nat
      BY <2>1, <2>2, <2>3, <2>5 DEF DelayInv
    <2>8. \A d \in Calls : OnTheWire(d)' => sentAt'[d] <= now' /\ now' <= sentAt'[d] + RoundTrip
      BY <2>4, <2>5 DEF DelayInv, OnTheWire
    <2>9. l > 0 => sentAt[c] + l <= now + t
      BY <2>2, <2>3, <2>5
    <2>10. \A d \in Calls :
            pc'[d] = "issued" /\ Said(bearer[d])' =>
              sentAt'[d] + grants'[bearer'[d]].said <= grants'[bearer'[d]].until
      BY <2>1, <2>3, <2>4, <2>6, <2>9 DEF DelayInv, Said
    <2>11. \A d \in Calls :
            pc'[d] = "performing" /\ bearer'[d] \in Granted' /\ Said(bearer[d])' =>
              \/ sentAt'[d] + ExpirySkew < delivered'[bearer'[d]]
              \/ sentAt'[d] + grants'[bearer'[d]].said <= grants'[bearer'[d]].until + RoundTrip
      BY <2>1, <2>4, <2>6 DEF DelayInv, Said
    <2>12. \A g \in DOMAIN delivered' : Said(g)' => delivered'[g] <= grants'[g].until + RoundTrip
      BY <2>1, <2>4, <2>6 DEF DelayInv, Said
    <2> QED
      BY <2>7, <2>8, <2>10, <2>11, <2>12 DEF DelayInv
  <1>5. ASSUME NEW c \in Calls, ExchangeSucceeds(c)
        PROVE  DelayInv'
    <2> DEFINE g == bearer[c]
               l == grants[g].said
    <2>1. /\ g \in Granted \ DOMAIN delivered /\ l \in Nat /\ grants[g].until \in Nat
          /\ sentAt[c] \in Nat /\ now \in Nat
      BY <1>1, <1>5, CallTypes DEF IInv, TokenInv, DelayInv, ExchangeSucceeds
    <2>2. /\ DOMAIN delivered' = DOMAIN delivered \cup {g}
          /\ delivered'[g] = now + ExpiresIn(l)
          /\ \A x \in DOMAIN delivered : delivered'[x] = delivered[x]
      BY <1>5, <2>1 DEF ExchangeSucceeds, With
    <2>3. /\ now <= sentAt[c] + RoundTrip
          /\ l > 0 => sentAt[c] + l <= grants[g].until /\ ExpiresIn(l) = l
      BY <1>5 DEF DelayInv, OnTheWire, Said, ExpiresIn, ExchangeSucceeds
    <2>4. l > 0 => now + l <= grants[g].until + RoundTrip
      BY <2>1, <2>3, CacheAssumption
    <2>5. /\ UNCHANGED <<now, grants, Granted>> /\ bearer' = bearer
          /\ pc'[c] = "performing" /\ sentAt'[c] = now
          /\ \A d \in Calls \ {c} : pc'[d] = pc[d] /\ sentAt'[d] = sentAt[d]
      BY <1>1, <1>5 DEF ExchangeSucceeds, Perform, TypeOK, Granted
    <2>6. \A d \in Calls \ {c} :
            pc[d] = "performing" /\ bearer[d] \in Granted => bearer[d] \in DOMAIN delivered
      BY <1>1, BearerTypes DEF IInv, TokenInv
    <2>7. \A x \in DOMAIN delivered' : Said(x)' => delivered'[x] <= grants'[x].until + RoundTrip
      BY <2>2, <2>3, <2>4, <2>5 DEF DelayInv, Said
    <2>8. \A d \in Calls : OnTheWire(d)' => sentAt'[d] <= now' /\ now' <= sentAt'[d] + RoundTrip
      BY <2>1, <2>5, CacheAssumption DEF DelayInv, OnTheWire
    <2>9. \A d \in Calls \ {c} :
            /\ pc'[d] = "issued" /\ Said(bearer[d])' =>
                 sentAt'[d] + grants'[bearer'[d]].said <= grants'[bearer'[d]].until
            /\ pc'[d] = "performing" /\ bearer'[d] \in Granted' /\ Said(bearer[d])' =>
                 \/ sentAt'[d] + ExpirySkew < delivered'[bearer'[d]]
                 \/ sentAt'[d] + grants'[bearer'[d]].said <= grants'[bearer'[d]].until + RoundTrip
      BY <2>2, <2>5, <2>6 DEF DelayInv, Said
    <2>10. /\ pc'[c] # "issued"
           /\ Said(bearer[c])' =>
                sentAt'[c] + grants'[bearer'[c]].said <= grants'[bearer'[c]].until + RoundTrip
      BY <2>4, <2>5 DEF Said
    <2> QED
      BY <2>5, <2>7, <2>8, <2>9, <2>10 DEF DelayInv
  <1>6. CASE Tick
    <2>1. /\ UNCHANGED <<grants, Granted, delivered, pc, bearer, sentAt>>
          /\ now' = now + 1
          /\ \A c \in Calls : OnTheWire(c) => now < sentAt[c] + RoundTrip
      BY <1>6 DEF Tick, cacheVars, callVars, Granted
    <2>2. now \in Nat /\ sentAt \in [Calls -> Nat]
      BY <1>1, CallTypes
    <2> QED
      BY <2>1, <2>2, CacheAssumption DEF DelayInv, OnTheWire, Said
  <1>7. CASE UNCHANGED vars
    BY <1>7 DEF DelayInv, OnTheWire, Said, Granted, cacheVars, callVars, vars
  <1> QED
    BY <1>2, <1>3, <1>4, <1>5, <1>6, <1>7 DEF Next, Call

(* A bearer on its way to the host is one the host still means to accept,   *)
(* when the host said how long: with the defaults, 20s round trips against  *)
(* a skew of 60s.                                                           *)
THEOREM NeverDeadOnArrivalCorrect == Spec => []NeverDeadOnArrival
  <1>1. Init => DelayInv
    BY DEF Init, DelayInv, OnTheWire, NoDeadlines, Granted
  <1>2. IInv /\ DelayInv => NeverDeadOnArrival
    <2> SUFFICES ASSUME IInv, DelayInv, SkewCoversTrips, NEW c \in Calls,
                        pc[c] = "performing", bearer[c] \in Granted,
                        grants[bearer[c]].said > 2 * RoundTrip
                 PROVE  now < grants[bearer[c]].until
      BY DEF NeverDeadOnArrival
    <2> DEFINE g == bearer[c]
    <2>1. g \in DOMAIN delivered
      BY BearerTypes DEF IInv, TokenInv
    <2>2. /\ now \in Nat /\ sentAt[c] \in Nat /\ delivered[g] \in Nat
          /\ grants[g].said \in Nat /\ grants[g].until \in Nat
      BY <2>1, CallTypes DEF IInv, TypeOK, DelayInv
    <2>3. Said(g)
      BY <2>2, CacheAssumption DEF Said
    <2>4. now <= sentAt[c] + RoundTrip
      BY DEF DelayInv, OnTheWire
    <2>5. delivered[g] <= grants[g].until + RoundTrip
      BY <2>1, <2>3 DEF DelayInv
    <2>6. \/ sentAt[c] + ExpirySkew < delivered[g]
          \/ sentAt[c] + grants[g].said <= grants[g].until + RoundTrip
      BY <2>3 DEF DelayInv
    <2> QED
      BY <2>2, <2>4, <2>5, <2>6, CacheAssumption DEF SkewCoversTrips
  <1> QED
    BY <1>1, <1>2, DelayNext, InvCorrect, PTL DEF Spec

-----------------------------------------------------------------------------
(* The cache implements OneToken. *)

(* Only a call that trades tokens was ever refused and tries again. *)
TryInv ==
  \A c \in Calls :
    /\ pc[c] = "idle" => attempt[c] = 1
    /\ attempt[c] = 1 /\ pc[c] # "unauthorized" => refusedAt[c] = 0
    /\ attempt[c] = 2 \/ pc[c] = "unauthorized" => refusedAt[c] # 0
    /\ attempt[c] = 2 \/ pc[c] \in {"exchanging", "issued", "unauthorized"} => exchangeable

(* A bearer on its way is one, and a token one when it was traded. *)
LEMMA PresentedIsBearer ==
  ASSUME IInv, NEW c \in Calls, pc[c] = "performing"
  PROVE  /\ bearer[c] # NoToken /\ outcome[c] = "none"
         /\ exchangeable => bearer[c] \in Granted /\ Len(grants) # 0
  <1>1. bearer[c] # NoToken /\ outcome[c] = "none"
    BY BearerTypes DEF IInv, TypeOK, TokenInv, OutcomeInv
  <1>2. ASSUME exchangeable PROVE bearer[c] \in Granted
    BY <1>2 DEF IInv, TypeOK, TokenInv
  <1>3. bearer[c] \in Granted => Len(grants) # 0
    BY DEF Granted, IInv, TypeOK
  <1> QED
    BY <1>1, <1>2, <1>3

LEMMA TryNext == IInv /\ TryInv /\ [Next]_vars => TryInv'
  <1> SUFFICES ASSUME IInv, TryInv, [Next]_vars PROVE TryInv'
    OBVIOUS
  <1>1. /\ pc \in [Calls -> Stages] /\ attempt \in [Calls -> {1, 2}]
        /\ refusedAt \in [Calls -> 0..Len(grants)]
    BY DEF IInv, TypeOK
  <1>2. ASSUME NEW c \in Calls, FirstRefusal(c) PROVE TryInv'
    <2>1. Len(grants) # 0
      BY <1>2, PresentedIsBearer DEF FirstRefusal
    <2> QED
      BY <1>1, <1>2, <2>1 DEF TryInv, FirstRefusal
  <1>3. ASSUME NEW c \in Calls, Start(c) \/ StaticBearer(c) \/ CachedBearer(c) \/ BeginExchange(c)
                                 \/ HostIssues(c) \/ ExchangeSucceeds(c)
        PROVE  TryInv'
    BY <1>1, <1>3 DEF TryInv, refusals, Start, StaticBearer, CachedBearer, BeginExchange,
       HostIssues, ExchangeSucceeds, Return, Perform
  <1>4. ASSUME NEW c \in Calls, ExchangeFails(c) \/ HostAnswers(c) \/ CallFails(c)
                                 \/ FinalRefusal(c) \/ Invalidate(c)
        PROVE  TryInv'
    BY <1>1, <1>4 DEF TryInv, refusals, ExchangeFails, HostAnswers, CallFails, FinalRefusal,
       Invalidate, Return
  <1>5. CASE Tick \/ UNCHANGED vars
    BY <1>5 DEF TryInv, Tick, vars, callVars, refusals
  <1> QED
    BY <1>2, <1>3, <1>4, <1>5 DEF Next, Call

(* The current grant is one that reached us and has not worn out. *)
LEMMA CurrentFacts ==
  ASSUME IInv
  PROVE  /\ Cached => Current = token /\ token \in DOMAIN delivered
         /\ ~Cached => Current = NoToken
         /\ token # NoToken => (Cached <=> token \notin Worn)
         /\ NoToken \notin DOMAIN delivered /\ DOMAIN delivered \subseteq Granted
  <1>1. NoToken \notin DOMAIN delivered /\ DOMAIN delivered \subseteq Granted
    BY BearerTypes DEF IInv, TypeOK
  <1>2. token # NoToken => /\ token \in DOMAIN delivered /\ expiresAt = delivered[token]
                           /\ expiresAt \in Nat /\ now \in Nat
    BY DEF IInv, TokenInv, TypeOK
  <1> QED
    BY <1>1, <1>2, CacheAssumption DEF Cached, Current, Worn

(* What leaves the cache and the clock alone leaves these alone. *)
LEMMA CacheKept ==
  ASSUME UNCHANGED <<now, token, expiresAt, delivered>>
  PROVE  UNCHANGED <<Current, Worn>> /\ Cached' = Cached
  BY DEF Current, Worn, Cached

(* Taking the mutex shows nothing; a grant is one more made. *)
LEMMA HostMakes ==
  ASSUME IInv, TryInv, NEW c \in Calls, BeginExchange(c) \/ HostIssues(c)
  PROVE  [Promise!Make]_(Promise!vars)
  <1>1. UNCHANGED <<now, exchangeable, token, expiresAt, delivered, refusedAt, outcome>>
    BY DEF BeginExchange, HostIssues, cacheVars, refusals
  <1>2. UNCHANGED <<Presented, Burning>>
    BY CallTypes DEF IInv, TypeOK, BeginExchange, HostIssues, Presented, Burning
  <1>3. CASE BeginExchange(c)
    <2>1. UNCHANGED grants
      BY <1>3 DEF BeginExchange
    <2> QED
      BY <1>1, <1>2, <2>1, CacheKept DEF Promise!vars
  <1>4. CASE HostIssues(c)
    <2>1. Len(grants') = Len(grants) + 1
      BY <1>4, GrantFacts DEF IInv
    <2>2. exchangeable
      BY <1>4 DEF HostIssues, TryInv
    <2> QED
      BY <1>1, <1>2, <2>1, <2>2, CacheKept DEF Promise!Make
  <1> QED
    BY <1>3, <1>4

(* The clock only wears grants out. *)
LEMMA TickWears ==
  ASSUME IInv, Tick
  PROVE  Promise!Wear
  <1>1. /\ UNCHANGED <<exchangeable, token, expiresAt, delivered, grants, refusedAt, outcome, pc,
                       bearer>>
        /\ now' = now + 1 /\ now \in Nat
    BY CallTypes DEF Tick, cacheVars, callVars, refusals, IInv
  <1>2. UNCHANGED <<Presented, Burning>>
    BY <1>1 DEF Presented, Burning
  <1>3. delivered \in [DOMAIN delivered -> Nat]
    BY DEF IInv, TypeOK
  <1>4. Worn \subseteq Worn' /\ Worn' \subseteq DOMAIN delivered
    BY <1>1, <1>3, CacheAssumption DEF Worn
  <1>5. Current' = IF Current \in Worn' THEN NoToken ELSE Current
    <2>1. CASE ~Cached
      BY <1>1, <2>1, CurrentFacts, CacheAssumption DEF Cached, Current, IInv, TypeOK
    <2>2. CASE Cached
      <3>1. token \in DOMAIN delivered /\ expiresAt = delivered[token] /\ Current = token
            /\ token # NoToken /\ expiresAt \in Nat
        BY <2>2, CurrentFacts DEF Cached, IInv, TokenInv, TypeOK
      <3>2. Cached' <=> token \notin Worn'
        BY <1>1, <3>1, CacheAssumption DEF Cached, Worn
      <3> QED
        BY <1>1, <3>1, <3>2 DEF Current
    <2> QED
      BY <2>1, <2>2
  <1> QED
    BY <1>1, <1>2, <1>4, <1>5 DEF Promise!Wear, Promise!NoBearer, NoToken

(* A refused call burns the current grant. *)
LEMMA InvalidateBurns ==
  ASSUME IInv, NEW c \in Calls, Invalidate(c)
  PROVE  Promise!Burn(c)
  <1>1. /\ UNCHANGED <<now, exchangeable, delivered, grants, refusedAt, outcome, bearer>>
        /\ token' = NoToken
        /\ pc[c] = "unauthorized" /\ pc' = [pc EXCEPT ![c] = "bearer"]
    BY DEF Invalidate, refusals
  <1>2. UNCHANGED Presented /\ Burning' = Burning \ {c} /\ c \in Burning
    BY <1>1, CallTypes DEF IInv, Presented, Burning
  <1>3. UNCHANGED Worn /\ Current' = NoToken
    BY <1>1 DEF Worn, Current, Cached
  <1> QED
    BY <1>1, <1>2, <1>3 DEF Promise!Burn, Promise!NoBearer, NoToken

(* A call is handed a bearer: its key, the current grant, or a new one. *)
LEMMA BearerIsHanded ==
  ASSUME IInv, IInv', TryInv, NEW c \in Calls,
         StaticBearer(c) \/ CachedBearer(c) \/ ExchangeSucceeds(c)
  PROVE  Promise!UseKey(c) \/ Promise!UseCurrent(c) \/ Promise!UseNew(c)
  <1>1. /\ pc[c] \in {"bearer", "issued"} /\ outcome[c] = "none"
        /\ UNCHANGED <<now, exchangeable, grants, refusedAt, outcome>>
    BY DEF IInv, OutcomeInv, StaticBearer, CachedBearer, ExchangeSucceeds, refusals
  <1>2. ASSUME NEW b, Perform(c, b)
        PROVE  Promise!Present(c, b)
    <2>1. Presented[c] = NoToken /\ c \notin Burning
      BY <1>1 DEF Presented, Burning
    <2>2. Presented' = [Presented EXCEPT ![c] = b] /\ UNCHANGED Burning
      BY <1>1, <1>2, CallTypes DEF Perform, IInv, TypeOK, Presented, Burning
    <2> QED
      BY <1>1, <2>1, <2>2 DEF Promise!Present, Promise!NoBearer, NoToken
  <1>3. CASE StaticBearer(c)
    BY <1>1, <1>2, <1>3, CacheKept DEF StaticBearer, cacheVars, Promise!UseKey
  <1>4. CASE CachedBearer(c)
    <2>1. Cached /\ exchangeable /\ Current = token /\ token # NoToken
      BY <1>4, CurrentFacts DEF CachedBearer, Cached
    <2>2. token > refusedAt[c]
      <3>1. token \in Nat /\ token # 0
        BY <2>1, BearerTypes DEF IInv, NoToken
      <3>2. attempt[c] \in {1, 2}
        BY DEF IInv, TypeOK
      <3> QED
        BY <1>4, <2>1, <3>1, <3>2 DEF CachedBearer, TryInv, IInv, RefusedInv
    <2> QED
      BY <1>1, <1>2, <1>4, <2>1, <2>2, CacheKept
         DEF CachedBearer, cacheVars, Promise!UseCurrent, Promise!NoBearer, NoToken
  <1>5. CASE ExchangeSucceeds(c)
    <2> DEFINE g == bearer[c]
    <2>1. g \in Granted /\ g \notin DOMAIN delivered /\ exchangeable
      BY <1>5 DEF ExchangeSucceeds, TryInv, IInv, TokenInv
    <2>2. g > refusedAt[c]
      <3>1. g \in Nat /\ g # 0
        BY <2>1, BearerTypes DEF IInv, NoToken
      <3>2. attempt[c] \in {1, 2}
        BY DEF IInv, TypeOK
      <3> QED
        BY <1>5, <3>1, <3>2 DEF ExchangeSucceeds, TryInv, IInv, RefusedInv
    <2>3. Current = NoToken
      BY <1>5, CurrentFacts, CacheAssumption DEF ExchangeSucceeds, IInv, MutexInv, HolderInv,
         Exchanging
    <2>4. /\ token' = g /\ Perform(c, g)
          /\ DOMAIN delivered' = DOMAIN delivered \cup {g}
          /\ \A x \in DOMAIN delivered : delivered'[x] = delivered[x]
      BY <1>5, <2>1 DEF ExchangeSucceeds, With
    <2>5. Worn' \ {g} = Worn
      BY <1>1, <2>1, <2>4 DEF Worn
    <2>6. g # NoToken
      BY <2>1, BearerTypes DEF IInv
    <2>7. \/ Current' = g /\ Worn' = Worn
          \/ Current' = NoToken /\ Worn' = Worn \cup {g}
      <3>1. expiresAt' = delivered'[g] /\ expiresAt' \in Nat /\ now' \in Nat
        BY <2>4, <2>6 DEF IInv, TokenInv, TypeOK
      <3>2. Cached' <=> g \notin Worn'
        BY <2>4, <2>6, <3>1, CacheAssumption DEF Cached, Worn, NoToken
      <3>3. g \notin Worn
        BY <2>1 DEF Worn
      <3> QED
        BY <2>4, <2>5, <3>2, <3>3 DEF Current
    <2>8. g \in 1..Len(grants)
      BY <2>1 DEF Granted
    <2> QED
      BY <1>2, <2>1, <2>2, <2>3, <2>4, <2>7, <2>8
         DEF Promise!UseNew, Promise!NoBearer, NoToken
  <1> QED
    BY <1>3, <1>4, <1>5

(* A call that ends, having put to the host what its report asks for. *)
LEMMA CallReports ==
  ASSUME IInv, TryInv, NEW c \in Calls,
         \/ Start(c) \/ ExchangeFails(c) \/ HostAnswers(c) \/ CallFails(c) \/ FinalRefusal(c)
  PROVE  [Promise!Report(c)]_(Promise!vars)
  <1>1. /\ UNCHANGED <<now, exchangeable, cacheVars, grants, refusedAt>>
        /\ outcome[c] = "none" /\ pc[c] # "unauthorized"
    BY DEF IInv, OutcomeInv, Start, ExchangeFails, HostAnswers, CallFails, FinalRefusal, refusals
  <1>2. UNCHANGED <<Current, Worn>>
    BY <1>1, CacheKept DEF cacheVars
  <1>3. CASE pc[c] = "idle" /\ pc' = [pc EXCEPT ![c] = "bearer"] /\ UNCHANGED <<outcome, bearer>>
    <2>1. UNCHANGED <<Presented, Burning>>
      BY <1>3, CallTypes DEF IInv, Presented, Burning
    <2> QED
      BY <1>1, <1>2, <1>3, <2>1 DEF Promise!vars, cacheVars
  <1>4. ASSUME NEW reply \in {"answered", "unauthorized", "retryable", "misconfigured"},
               Return(c, reply), Promise!May(c, reply)
        PROVE  Promise!Report(c)
    <2>1. /\ Presented' = [Presented EXCEPT ![c] = NoToken]
          /\ UNCHANGED Burning /\ c \notin Burning
      BY <1>1, <1>4, CallTypes DEF Return, IInv, TypeOK, Presented, Burning
    <2> QED
      BY <1>1, <1>2, <1>4, <2>1 DEF Return, Promise!Report, Promise!NoBearer, NoToken, cacheVars
  <1>5. pc[c] = "performing" => Presented[c] # Promise!NoBearer
    BY PresentedIsBearer DEF Presented, Promise!NoBearer, NoToken
  <1>6. CASE Start(c)
    <2>1. pc[c] = "idle" => Promise!May(c, "misconfigured")
      BY DEF TryInv, Promise!May
    <2> QED
      BY <1>3, <1>4, <1>6, <2>1 DEF Start
  <1>7. CASE ExchangeFails(c)
    <2>1. exchangeable
      BY <1>7 DEF ExchangeFails, TryInv
    <2>2. Promise!May(c, "retryable")
      BY <2>1 DEF Promise!May
    <2> QED
      BY <1>4, <1>7, <2>2 DEF ExchangeFails
  <1>8. CASE HostAnswers(c)
    <2>1. Promise!May(c, "answered")
      BY <1>5, <1>8 DEF HostAnswers, Promise!May
    <2> QED
      BY <1>4, <1>8, <2>1 DEF HostAnswers
  <1>9. CASE CallFails(c)
    <2>1. Promise!May(c, "retryable")
      BY <1>5, <1>9 DEF CallFails, Promise!May
    <2>2. attempt[c] = 1 => Promise!May(c, "misconfigured")
      BY <1>9 DEF CallFails, TryInv, Promise!May
    <2> QED
      BY <1>4, <1>9, <2>1, <2>2 DEF CallFails
  <1>10. CASE FinalRefusal(c)
    <2>1. exchangeable => refusedAt[c] # 0
      BY <1>10 DEF FinalRefusal, TryInv
    <2>2. Promise!May(c, "unauthorized")
      BY <1>5, <1>10, <2>1 DEF FinalRefusal, Promise!May
    <2> QED
      BY <1>4, <1>10, <2>2 DEF FinalRefusal
  <1> QED
    BY <1>6, <1>7, <1>8, <1>9, <1>10

LEMMA FirstRefusalShows ==
  ASSUME IInv, TryInv, NEW c \in Calls, FirstRefusal(c)
  PROVE  Promise!RefusedOnce(c)
  <1>1. /\ UNCHANGED <<now, exchangeable, cacheVars, grants, outcome>>
        /\ Presented[c] # NoToken /\ refusedAt[c] = 0
        /\ refusedAt' = [refusedAt EXCEPT ![c] = Len(grants)]
    BY PresentedIsBearer DEF FirstRefusal, TryInv, Presented
  <1>2. /\ Presented' = [Presented EXCEPT ![c] = NoToken]
        /\ Burning' = Burning \cup {c}
    BY CallTypes DEF FirstRefusal, IInv, TypeOK, Presented, Burning
  <1> QED
    BY <1>1, <1>2, CacheKept
       DEF FirstRefusal, Promise!RefusedOnce, Promise!NoBearer, NoToken, cacheVars

(* Every step of a call, the host or the clock is a step of OneToken or     *)
(* changes nothing in it.                                                   *)
LEMMA StepSimulation ==
  ASSUME IInv, IInv', TryInv, [Next]_vars
  PROVE  [Promise!Next]_(Promise!vars)
  <1>1. CASE \E c \in Calls : StaticBearer(c) \/ CachedBearer(c) \/ ExchangeSucceeds(c)
    BY <1>1, BearerIsHanded DEF Promise!Next
  <1>2. CASE \E c \in Calls : Start(c) \/ ExchangeFails(c) \/ HostAnswers(c) \/ CallFails(c)
                             \/ FinalRefusal(c)
    BY <1>2, CallReports DEF Promise!Next
  <1>3. CASE \E c \in Calls : FirstRefusal(c)
    BY <1>3, FirstRefusalShows DEF Promise!Next
  <1>4. CASE \E c \in Calls : Invalidate(c)
    BY <1>4, InvalidateBurns DEF Promise!Next
  <1>5. CASE Tick
    BY <1>5, TickWears DEF Promise!Next
  <1>6. CASE \E c \in Calls : BeginExchange(c) \/ HostIssues(c)
    BY <1>6, HostMakes DEF Promise!Next
  <1>7. CASE UNCHANGED vars
    BY <1>7 DEF vars, cacheVars, callVars, refusals, Cached, Current, Worn, Presented, Burning,
       Promise!vars
  <1> QED
    BY <1>1, <1>2, <1>3, <1>4, <1>5, <1>6, <1>7 DEF Next, Call

(* For any number of concurrent calls, grants, lifetimes and delays: a new  *)
(* grant is used only when none is current, which it stays until it wears   *)
(* out or a refused call burns it, and a refused call tries again once,     *)
(* with a grant made after its refusal, before it reports anything.         *)
THEOREM OneTokenCorrect == Spec => ImplementsOneToken
  <1>1. Init => Promise!Init /\ TryInv
    BY CacheAssumption DEF Init, Promise!Init, Promise!NoBearer, NoToken, TryInv, Cached,
       Current, Worn, Presented, Burning, NoDeadlines
  <1>2. IInv /\ IInv' /\ TryInv /\ [Next]_vars => [Promise!Next]_(Promise!vars)
    BY StepSimulation
  <1> QED
    BY <1>1, <1>2, TryNext, InvCorrect, PTL DEF Spec, ImplementsOneToken, Promise!Spec
=============================================================================
