---------------------- MODULE AcbsAuthentication_proofs ----------------------
(***************************************************************************)
(* Safety of AcbsAuthentication for any number of calls and any TTL that   *)
(* leaves room for the latency of storing a token.                         *)
(***************************************************************************)
EXTENDS AcbsAuthentication, TLAPS

\* The age of a token when it is stored is bounded, and so is the age of the
\* one in the cache at the time it was put there.
Ages ==
    /\ \A c \in Calls : pc[c] = "storing" => now <= token[c] + Latency
    /\ cached # NoToken => storedAt <= cached + Latency

\* A call that has not failed has not used up its retries.
RetriesLeft == \A c \in Calls : pc[c] # "failed" => retryNumber[c] <= MaxRetries

AInv == TypeOK /\ Ages /\ RetriesLeft

\* A new token is stored no later than Latency after it was issued: time waits
\* for the calls that are storing one, and the other steps keep their tokens.
LEMMA AgesBounded == AInv /\ [Next]_vars => AInv'
<1> SUFFICES ASSUME AInv, [Next]_vars
             PROVE  AInv'
  OBVIOUS
<1> USE AuthenticationAssumption DEF AInv, TypeOK, Ages, RetriesLeft
<1>1. CASE Tick
  BY <1>1 DEF Tick
<1>2. ASSUME NEW c \in Calls, GetCachedIdToken(c)
      PROVE  AInv'
  BY <1>2 DEF GetCachedIdToken, CacheHits
<1>3. ASSUME NEW c \in Calls, Retry(c), pc[c] \in {"session", "connect"}
      PROVE  /\ retryNumber' \in [Calls -> 0..(MaxRetries + 1)]
             /\ pc' \in [Calls -> {"called", "session", "connect", "waiting", "storing",
                                   "done", "failed"}]
             /\ \A d \in Calls : pc'[d] \in {"storing", "done"} => pc'[d] = pc[d]
             /\ RetriesLeft'
  <2>1. retryNumber[c] <= MaxRetries
    BY <1>3
  <2> QED
    BY <1>3, <2>1 DEF Retry
<1>4. ASSUME NEW c \in Calls, CreateSession(c)
      PROVE  AInv'
  BY <1>3, <1>4 DEF CreateSession
<1>5. ASSUME NEW c \in Calls, GetIdTokenForSession(c)
      PROVE  AInv'
  BY <1>3, <1>5 DEF GetIdTokenForSession
<1>6. ASSUME NEW c \in Calls, WaitFor(c)
      PROVE  AInv'
  BY <1>6 DEF WaitFor
<1>7. ASSUME NEW c \in Calls, StoreIdTokenInCache(c)
      PROVE  AInv'
  BY <1>7 DEF StoreIdTokenInCache
<1>8. CASE UNCHANGED vars
  BY <1>8 DEF vars
<1> QED
  BY <1>1, <1>2, <1>4, <1>5, <1>6, <1>7, <1>8 DEF Next, GetIdToken

\* The ages stay bounded, and the variables keep their types.
THEOREM AgesAlwaysBounded == Spec => []AInv
<1>1. Init => AInv
  BY AuthenticationAssumption DEF Init, AInv, TypeOK, Ages, RetriesLeft
<1> QED
  BY <1>1, AgesBounded, PTL DEF Spec

\* The variables keep their types: no call counts past its last retry, and one
\* that stores or is done has a token.
THEOREM TypeCorrect == Spec => []TypeOK
<1>1. AInv => TypeOK
  BY DEF AInv
<1> QED
  BY AgesAlwaysBounded, <1>1, PTL

\* A token that is returned is new, or was stored at most CacheTtl ago.
LEMMA ReturnStep ==
  ASSUME CacheTtl # 0, CacheTtl + Latency < Lifetime, AInv, [Next]_vars,
         NEW c \in Calls, pc[c] # "done", pc'[c] = "done"
  PROVE  now < token'[c] + Lifetime
<1> USE AuthenticationAssumption DEF AInv, TypeOK, Ages, RetriesLeft
<1>1. CASE GetCachedIdToken(c)
  BY <1>1 DEF GetCachedIdToken, CacheHits
<1>2. CASE StoreIdTokenInCache(c)
  BY <1>2 DEF StoreIdTokenInCache
<1>3. GetCachedIdToken(c) \/ StoreIdTokenInCache(c)
  BY DEF Next, vars, Tick, GetIdToken, GetCachedIdToken, CreateSession,
         GetIdTokenForSession, WaitFor, StoreIdTokenInCache, Retry
<1> QED
  BY <1>1, <1>2, <1>3

\* With a TTL that is not 0 and, with the latency, below the lifetime of a
\* token, getIdToken never returns a token that ACBS no longer honours.
THEOREM TokensAreHonoured ==
  CacheTtl # 0 /\ CacheTtl + Latency < Lifetime => (Spec => ReturnedTokenIsHonoured)
<1> SUFFICES ASSUME CacheTtl # 0, CacheTtl + Latency < Lifetime
             PROVE  Spec => ReturnedTokenIsHonoured
  OBVIOUS
<1>1. AInv /\ [Next]_vars =>
        [\A c \in Calls : pc[c] # "done" /\ pc'[c] = "done" => now < token'[c] + Lifetime]_vars
  BY ReturnStep
<1> QED
  BY AgesAlwaysBounded, <1>1, PTL DEF Spec, ReturnedTokenIsHonoured
=============================================================================
