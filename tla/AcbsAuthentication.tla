------------------------- MODULE AcbsAuthentication -------------------------
(***************************************************************************)
(* The ID token for ACBS: CachingAcbsAuthenticationService around          *)
(* RetryingAcbsAuthenticationService around BaseAcbsAuthenticationService. *)
(* Calls of getIdToken run concurrently and share one cache entry; a call  *)
(* that misses it makes a session and a token of its own.                  *)
(*                                                                         *)
(* A token is represented by the time it was issued.  The identity         *)
(* provider, the clock and the cache are external; the cache keeps an      *)
(* entry for the TTL it was stored with, or for ever when that is 0.       *)
(***************************************************************************)
EXTENDS Integers

CONSTANTS
    Calls,       \* calls of getIdToken
    NoToken,
    Lifetime,    \* how long the identity provider honours a token
    CacheTtl,    \* idTokenCacheTtlInMilliseconds
    MaxRetries,  \* maxNumberOfRetries
    Latency,     \* bound: from a token being issued to its being stored
    MaxTime      \* bound: how long time passes

ASSUME AuthenticationAssumption ==
    /\ NoToken \notin Nat
    /\ Lifetime \in Nat \ {0}
    /\ CacheTtl \in Nat
    /\ MaxRetries \in Nat
    /\ Latency \in Nat
    /\ MaxTime \in Nat

VARIABLES
    now,
    pc,           \* where each call is
    retryNumber,  \* of each call
    token,        \* the token a call holds, and returns once "done"
    cached,       \* the token in the cache
    storedAt      \* when it was put there

vars == <<now, pc, retryNumber, token, cached, storedAt>>

TypeOK ==
    /\ now \in Nat
    /\ pc \in [Calls -> {"called", "session", "connect", "waiting", "storing",
                         "done", "failed"}]
    /\ retryNumber \in [Calls -> 0..(MaxRetries + 1)]
    /\ token \in [Calls -> Nat \cup {NoToken}]
    /\ \A c \in Calls : pc[c] \in {"storing", "done"} => token[c] # NoToken
    /\ cached \in Nat \cup {NoToken}
    /\ storedAt \in Nat

Init ==
    /\ now = 0
    /\ pc = [c \in Calls |-> "called"]
    /\ retryNumber = [c \in Calls |-> 0]
    /\ token = [c \in Calls |-> NoToken]
    /\ cached = NoToken
    /\ storedAt = 0

-----------------------------------------------------------------------------
\* Time passes, but no call is left storing a token for longer than Latency.
Tick ==
    /\ now < MaxTime
    /\ \A c \in Calls : pc[c] = "storing" => now < token[c] + Latency
    /\ now' = now + 1
    /\ UNCHANGED <<pc, retryNumber, token, cached, storedAt>>

CacheHits == cached # NoToken /\ (CacheTtl = 0 \/ now - storedAt <= CacheTtl)

\* tryGetCachedIdToken: the cached token is returned; without one, or when the
\* cache cannot be read, a new one is requested.
GetCachedIdToken(c) ==
    /\ pc[c] = "called"
    /\ \/ /\ CacheHits
          /\ token' = [token EXCEPT ![c] = cached]
          /\ pc' = [pc EXCEPT ![c] = "done"]
       \/ /\ pc' = [pc EXCEPT ![c] = "session"]
          /\ UNCHANGED token
    /\ UNCHANGED <<now, retryNumber, cached, storedAt>>

RetryForgets(c) ==   \* variant: every attempt starts counting anew
    /\ retryNumber' = [retryNumber EXCEPT ![c] = 1]
    /\ pc' = [pc EXCEPT ![c] = IF 1 > MaxRetries THEN "failed" ELSE "waiting"]

RetryOnceMore(c) ==   \* variant: >= where the count starts at 0
    /\ retryNumber' = [retryNumber EXCEPT ![c] = @ + 1]
    /\ pc' = [pc EXCEPT ![c] = IF retryNumber[c] > MaxRetries THEN "failed" ELSE "waiting"]

\* The catch block of getIdTokenWithRetry.
Retry(c) ==
    /\ retryNumber' = [retryNumber EXCEPT ![c] = @ + 1]
    /\ pc' = [pc EXCEPT ![c] = IF retryNumber[c] + 1 > MaxRetries THEN "failed" ELSE "waiting"]

WaitFor(c) ==
    /\ pc[c] = "waiting"
    /\ pc' = [pc EXCEPT ![c] = "session"]
    /\ UNCHANGED <<now, retryNumber, token, cached, storedAt>>

\* createSession: throws on any error, and when no session cookie came back.
CreateSession(c) ==
    /\ pc[c] = "session"
    /\ \/ pc' = [pc EXCEPT ![c] = "connect"] /\ UNCHANGED retryNumber
       \/ Retry(c)
    /\ UNCHANGED <<now, token, cached, storedAt>>

\* getIdTokenForSession: throws on any error, and when no token came back.
GetIdTokenForSession(c) ==
    /\ pc[c] = "connect"
    /\ \/ /\ token' = [token EXCEPT ![c] = now]
          /\ pc' = [pc EXCEPT ![c] = "storing"]
          /\ UNCHANGED retryNumber
       \/ Retry(c) /\ UNCHANGED token
    /\ UNCHANGED <<now, cached, storedAt>>

StoreForEver(c) ==   \* variant: an entry that is there keeps its token
    /\ pc[c] = "storing"
    /\ pc' = [pc EXCEPT ![c] = "done"]
    /\ cached' = IF cached = NoToken THEN token[c] ELSE cached
    /\ storedAt' = now
    /\ UNCHANGED <<now, retryNumber, token>>

\* tryStoreIdTokenInCache: the token is returned whether it was stored or not.
StoreIdTokenInCache(c) ==
    /\ pc[c] = "storing"
    /\ pc' = [pc EXCEPT ![c] = "done"]
    /\ \/ cached' = token[c] /\ storedAt' = now
       \/ UNCHANGED <<cached, storedAt>>
    /\ UNCHANGED <<now, retryNumber, token>>

-----------------------------------------------------------------------------
GetIdToken(c) ==
    \/ GetCachedIdToken(c)
    \/ CreateSession(c)
    \/ GetIdTokenForSession(c)
    \/ WaitFor(c)
    \/ StoreIdTokenInCache(c)

Next == Tick \/ \E c \in Calls : GetIdToken(c)

Spec == Init /\ [][Next]_vars

\* The identity provider answers or times out, and a wait comes to its end.
FairSpec == Spec /\ \A c \in Calls : WF_vars(GetIdToken(c))

-----------------------------------------------------------------------------
(***************************************************************************)
(* Properties                                                              *)
(***************************************************************************)

\* A token is still honoured by ACBS when getIdToken returns it, whether it is
\* new or comes from the cache, and though concurrent calls overwrite the
\* entry with an older token.  It takes a TTL that leaves room for the time
\* between the issue of a token and its being stored.
ReturnedTokenIsHonoured ==
    [][\A c \in Calls : pc[c] # "done" /\ pc'[c] = "done" => now < token'[c] + Lifetime]_vars

\* A call does not go on for ever: after its retries it returns or throws.
EveryCallReturns == \A c \in Calls : <>(pc[c] \in {"done", "failed"})
=============================================================================
