---------------------------- MODULE SessionCache ----------------------------
(***************************************************************************)
(* The venue sessions of services/session_manager.py: one bearer token per *)
(* venue, kept in Redis and in the memory of every worker process, taken   *)
(* by the orders of all workers and refreshed by whoever finds it stale,   *)
(* under an asyncio lock per process and a Redis lock with a time to live  *)
(* across processes.                                                       *)
(*                                                                         *)
(* There is no clock.  The Redis lock may run out whenever it is held, and *)
(* a wait for it may end whenever there is one: SNIPER_AUTH_TIMEOUT_SECONDS *)
(* limits each phase of a request to the token endpoint, not a refresh and *)
(* the login after it, so either may happen during a login.  How long a    *)
(* token lives is told apart only in what the code asks: more than the     *)
(* refresh margin left, less, none.  Tokens are numbered in the order the  *)
(* venue issues them; MaxTokens bounds the logins.                         *)
(***************************************************************************)
EXTENDS Naturals, Sequences

CONSTANTS
  Workers,      \* processes
  Callers,      \* orders, and runs of the beat task, that need a token
  MaxTokens,    \* bound on the tokens issued
  SessionOutages \* bound on the outages of Redis

ASSUME SessionAssumption ==
  /\ MaxTokens \in Nat \ {0}
  /\ SessionOutages \in Nat
  /\ "free" \notin Callers     \* stands for no holder of a lock

VARIABLES
  host,         \* per caller: the worker it runs in
  beats,        \* the callers that are refresh_due, and fire no order
  redisTok,     \* the token in Redis, 0 for none
  memTok,       \* per worker: the token in memory, 0 for none
  life,         \* per issued token: 2 outside the margin, 1 inside, 0 expired
  accepted,     \* the tokens the venue still accepts
  asking,       \* per caller: where it is
  tok,          \* per caller: the token it has in hand
  stale,        \* per caller: the token the venue refused it
  procLock,     \* per worker: who holds the asyncio lock, or "free"
  lease,        \* who holds the Redis lock, or "free"
  redisUp,
  outages,
  calm          \* history: Redis was up, and nobody has been in the locked
                \* section without its lock

sessVars == <<host, beats, redisTok, memTok, life, accepted, asking, tok,
              stale, procLock, lease, redisUp, outages, calm>>
callerVars == <<asking, tok, stale>>
venueVars == <<life, accepted>>
redisVars == <<redisUp, outages>>
places == <<host, beats>>

Issued == DOMAIN life

SessInit ==
  /\ host \in [Callers -> Workers]
  /\ beats \in SUBSET Callers
  /\ life = << >>
  /\ accepted = {}
  /\ redisTok = 0
  /\ memTok = [w \in Workers |-> 0]
  /\ asking = [c \in Callers |-> "idle"]
  /\ tok = [c \in Callers |-> 0]
  /\ stale = [c \in Callers |-> 0]
  /\ procLock = [w \in Workers |-> "free"]
  /\ lease = "free"
  /\ redisUp = TRUE
  /\ outages = 0
  /\ calm = TRUE

\* A caller moves on; one that is answered keeps nothing.
Moves(c, to, newTok, newStale) ==
  /\ asking' = [asking EXCEPT ![c] = to]
  /\ tok' = [tok EXCEPT ![c] = IF to = "fire" THEN newTok ELSE 0]
  /\ stale' = [stale EXCEPT ![c] = IF to \in {"done", "failed"} THEN 0 ELSE newStale]

\* bearer() and refresh_due() end with a token.
Served(c, t) == Moves(c, IF c \in beats THEN "done" ELSE "fire", t, stale[c])

-----------------------------------------------------------------------------
(* _load: Redis first, and what it holds replaces the token in memory. *)
Cached(w) ==
  IF redisUp /\ redisTok # 0 THEN redisTok
  ELSE IF memTok[w] # 0 /\ life[memTok[w]] > 0 THEN memTok[w]
  ELSE 0

Loaded(w) ==
  memTok' = IF redisUp /\ redisTok # 0 THEN [memTok EXCEPT ![w] = redisTok]
            ELSE memTok

\* Mutant: the second look takes what the cache holds.
UsableUnlessExpired(t, refused) == t # 0 /\ life[t] = 2

\* Not the token the venue refused, and not about to expire.
Usable(t, refused) == t # 0 /\ t # refused /\ life[t] = 2

\* bearer() and refresh_due() before any lock.  The beat passes the token it
\* found as the stale one.
Ask(c) ==
  LET t == Cached(host[c]) IN
  /\ asking[c] = "idle"
  /\ Loaded(host[c])
  /\ IF Usable(t, stale[c]) THEN Served(c, t)
     ELSE Moves(c, "locking", 0, IF c \in beats THEN t ELSE stale[c])
  /\ UNCHANGED <<places, redisTok, venueVars, procLock, lease,
                 redisVars, calm>>

-----------------------------------------------------------------------------
(* _refresh: the two locks, the second look, the grants. *)

LockProcess(c) ==
  /\ asking[c] = "locking"
  /\ procLock[host[c]] = "free"
  /\ procLock' = [procLock EXCEPT ![host[c]] = c]
  /\ Moves(c, "leasing", 0, stale[c])
  /\ UNCHANGED <<places, redisTok, memTok, venueVars, lease, redisVars, calm>>

TakeLease(c) ==
  /\ asking[c] = "leasing"
  /\ redisUp
  /\ lease = "free"
  /\ lease' = c
  /\ Moves(c, "rereading", 0, stale[c])
  /\ UNCHANGED <<places, redisTok, memTok, venueVars, procLock, redisVars, calm>>

\* The wait for the Redis lock has timed out, or Redis is down: it goes on
\* without.
GoWithoutLease(c) ==
  /\ asking[c] = "leasing"
  /\ Moves(c, "rereading", 0, stale[c])
  /\ calm' = FALSE
  /\ UNCHANGED <<places, redisTok, memTok, venueVars, procLock, lease,
                 redisVars>>

\* Both locks are given back; another holder's lease is left alone.
Release(c) ==
  /\ procLock' = [procLock EXCEPT ![host[c]] = "free"]
  /\ lease' = IF redisUp /\ lease = c THEN "free" ELSE lease

\* Mutant: no second look.
LoginAtOnce(c) ==
  /\ asking[c] = "rereading"
  /\ Moves(c, "login", 0, stale[c])
  /\ UNCHANGED <<places, redisTok, memTok, venueVars, procLock, lease,
                 redisVars, calm>>

\* The second look: somebody refreshed while this caller waited, or it asks
\* the venue itself, first with the refresh token of the session it found.
Reread(c) ==
  LET t == Cached(host[c]) IN
  /\ asking[c] = "rereading"
  /\ Loaded(host[c])
  /\ IF Usable(t, stale[c]) THEN Served(c, t) /\ Release(c)
     ELSE /\ Moves(c, IF t # 0 THEN "refresh" ELSE "login", 0, stale[c])
          /\ UNCHANGED <<places, procLock, lease>>
  /\ UNCHANGED <<places, redisTok, venueVars, redisVars, calm>>

\* The venue issues a token; _store puts it in memory and, if Redis answers,
\* there; the locks are released.
Granted(c) ==
  LET t == Len(life) + 1 IN
  /\ asking[c] \in {"refresh", "login"}
  /\ t <= MaxTokens
  /\ life' = Append(life, 2)
  /\ accepted' = accepted \cup {t}
  /\ memTok' = [memTok EXCEPT ![host[c]] = t]
  /\ redisTok' = IF redisUp THEN t ELSE redisTok
  /\ Served(c, t)
  /\ Release(c)
  /\ UNCHANGED <<places, redisVars, calm>>

\* The refresh token is refused, or its answer does not come: a full login.
RefreshRefused(c) ==
  /\ asking[c] = "refresh"
  /\ Moves(c, "login", 0, stale[c])
  /\ UNCHANGED <<places, redisTok, memTok, venueVars, procLock, lease,
                 redisVars, calm>>

\* The login fails too: SessionError, and the order is refused.
LoginFails(c) ==
  /\ asking[c] = "login"
  /\ Moves(c, "failed", 0, 0)
  /\ Release(c)
  /\ UNCHANGED <<places, redisTok, memTok, venueVars, redisVars, calm>>

-----------------------------------------------------------------------------
(* The order: a 401 is answered once with another token. *)

FireAccepted(c) ==
  /\ asking[c] = "fire"
  /\ tok[c] \in accepted
  /\ Moves(c, "done", 0, 0)
  /\ UNCHANGED <<places, redisTok, memTok, venueVars, procLock, lease,
                 redisVars, calm>>

\* The second refusal is final: AUTH_FAILED.
FireRefused(c) ==
  /\ asking[c] = "fire"
  /\ tok[c] \notin accepted
  /\ Moves(c, IF stale[c] = 0 THEN "idle" ELSE "failed", 0, tok[c])
  /\ UNCHANGED <<places, redisTok, memTok, venueVars, procLock, lease,
                 redisVars, calm>>

-----------------------------------------------------------------------------
(* The lease, the venue, Redis and the workers. *)

InSection(c) == asking[c] \in {"rereading", "refresh", "login"}

\* The time to live ends, whatever its holder is doing.
RefreshLockRunsOut ==
  /\ lease # "free"
  /\ lease' = "free"
  /\ calm' = (calm /\ ~InSection(lease))
  /\ UNCHANGED <<places, redisTok, memTok, venueVars, callerVars, procLock, redisVars>>

\* A token comes into the margin, then expires; Redis drops it with its TTL.
TokenAges(t) ==
  /\ life[t] > 0
  /\ life' = [life EXCEPT ![t] = @ - 1]
  /\ redisTok' = IF redisTok = t /\ life[t] = 1 THEN 0 ELSE redisTok
  /\ accepted' = IF life[t] = 1 THEN accepted \ {t} ELSE accepted
  /\ UNCHANGED <<places, memTok, callerVars, procLock, lease,
                 redisVars, calm>>

VenueRevokes(t) ==
  /\ t \in accepted
  /\ accepted' = accepted \ {t}
  /\ UNCHANGED <<places, redisTok, memTok, life, callerVars, procLock, lease,
                 redisVars, calm>>

RedisFails ==
  /\ redisUp /\ outages < SessionOutages
  /\ redisUp' = FALSE
  /\ outages' = outages + 1
  /\ calm' = FALSE
  /\ UNCHANGED <<places, redisTok, memTok, venueVars, callerVars, procLock, lease>>

RedisReturns ==
  /\ ~redisUp
  /\ redisUp' = TRUE
  /\ UNCHANGED <<places, redisTok, memTok, venueVars, callerVars, procLock, lease,
                 outages, calm>>

\* A worker dies with its memory; its lease runs out by itself.
WorkerDies(w) ==
  /\ \E c \in Callers : host[c] = w /\ asking[c] \notin {"done", "failed"}
  /\ LET dies(f, v) == [c \in Callers |-> IF host[c] = w THEN v ELSE f[c]] IN
       /\ asking' = dies(asking, "failed")
       /\ tok' = dies(tok, 0)
       /\ stale' = dies(stale, 0)
  /\ memTok' = [memTok EXCEPT ![w] = 0]
  /\ procLock' = [procLock EXCEPT ![w] = "free"]
  /\ UNCHANGED <<places, redisTok, venueVars, lease, redisVars, calm>>

SessNext ==
  \/ \E c \in Callers :
       \/ Ask(c) \/ LockProcess(c) \/ TakeLease(c) \/ GoWithoutLease(c)
       \/ Reread(c) \/ Granted(c) \/ RefreshRefused(c) \/ LoginFails(c)
       \/ FireAccepted(c) \/ FireRefused(c)
  \/ RefreshLockRunsOut \/ RedisFails \/ RedisReturns
  \/ \E t \in Issued : TokenAges(t) \/ VenueRevokes(t)
  \/ \E w \in Workers : WorkerDies(w)

SessSpec == SessInit /\ [][SessNext]_sessVars

-----------------------------------------------------------------------------
\* Every variable stays in its domain.
SessTypeOK ==
  /\ life \in Seq(0..2) /\ Len(life) <= MaxTokens
  /\ accepted \subseteq Issued
  /\ host \in [Callers -> Workers]
  /\ beats \subseteq Callers
  /\ redisTok \in Issued \cup {0}
  /\ memTok \in [Workers -> Issued \cup {0}]
  /\ asking \in [Callers -> {"idle", "locking", "leasing", "rereading", "refresh",
                             "login", "fire", "done", "failed"}]
  /\ tok \in [Callers -> Issued \cup {0}]
  /\ stale \in [Callers -> Issued \cup {0}]
  /\ procLock \in [Workers -> Callers \cup {"free"}]
  /\ lease \in Callers \cup {"free"}
  /\ redisUp \in BOOLEAN
  /\ outages \in 0..SessionOutages
  /\ calm \in BOOLEAN

Live(t) == t \in accepted /\ life[t] = 2

\* "Refresh is single-flight" (session_manager.py:8) as far as the Redis lock
\* goes: until Redis has been down, a lease has run out during its holder's
\* login, or a caller has given up waiting for it, a login only ever replaces a
\* token that is refused or about to expire, however many orders of however many
\* workers found it stale at once; so no two usable tokens exist.
OneUsableToken ==
  calm => \A t, u \in Issued : Live(t) /\ Live(u) => t = u

\* The second attempt of an order after a 401 carries another token than the
\* one the venue refused, whoever replaced it and whatever Redis and the
\* process memory still hold.
RetryCarriesAnotherToken ==
  \A c \in Callers : asking[c] = "fire" => tok[c] # stale[c]

Granting(c) == asking[c] \in {"refresh", "login"}

\* "Redis down: the per-process lock still prevents a stampede here": the
\* orders of one process never have two requests at the token endpoint.
OneGrantPerProcess ==
  \A c, d \in Callers :
    host[c] = host[d] /\ Granting(c) /\ Granting(d) => c = d
=============================================================================
