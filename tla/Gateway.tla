-------------------------------- MODULE Gateway --------------------------------
(***************************************************************************)
(* The pipeline of the API gateway (api/routes/gateway.py) for the requests *)
(* that share one rate-limit key: authentication, the sliding window that a *)
(* Lua script keeps in Redis (core/rate_limiter.py), and the call to the    *)
(* service behind; and the life of the Redis client (core/redis_manager.py).*)
(* A request reads its clock before the script runs, so that scripts may    *)
(* run in another order than their stamps, and lets everything through when *)
(* Redis does not answer.                                                   *)
(***************************************************************************)
EXTENDS Integers, FiniteSets

CONSTANTS
  Calls,       \* requests of one client for one method and path
  Limit,       \* RATE_LIMIT_MAX_REQUESTS, or that of the auth paths
  Window,      \* RATE_LIMIT_WINDOW_SECONDS
  RandomTails, \* the values of math.random
  PingRetries, \* _PING_RETRIES
  LastTick     \* bound on the clock

ASSUME GatewayAssumption ==
  /\ IsFiniteSet(Calls)
  /\ Limit \in Nat \ {0} /\ Window \in Nat \ {0}
  /\ PingRetries \in Nat \ {0} /\ LastTick \in Nat

VARIABLES
  tick,      \* the clock of the gateway
  client,    \* the Redis client: "booting", "ready", "closed" or "failed"
  pings,     \* pings of the boot that failed
  window,    \* the sorted set in Redis: members with the stamp as their score
  call,      \* the requests: how far each is, and its stamp
  irregular  \* history: a late script, members that collide, or no Redis

gatewayVars == <<tick, client, pings, window, call, irregular>>

NewCall == [at |-> "new", stamp |-> 0]

GatewayInit ==
  /\ tick = 1
  /\ client = "booting"
  /\ pings = 0
  /\ window = {}
  /\ call = [c \in Calls |-> NewCall]
  /\ irregular = FALSE

At(c, place) == call[c].at = place
MoveTo(c, place) == call' = [call EXCEPT ![c].at = place]

PassTick ==
  /\ tick < LastTick
  /\ tick' = tick + 1
  /\ UNCHANGED <<client, pings, window, call, irregular>>

-----------------------------------------------------------------------------
(* The Redis client.                                                       *)

\* Mutant: one ping too many.
PingFailsOnce ==
  /\ client = "booting"
  /\ pings' = pings + 1
  /\ client' = IF pings' > PingRetries THEN "failed" ELSE "booting"
  /\ UNCHANGED <<tick, window, call, irregular>>

\* init_redis pings until it is answered, PingRetries times at most.
PingFails ==
  /\ client = "booting"
  /\ pings' = pings + 1
  /\ client' = IF pings' = PingRetries THEN "failed" ELSE "booting"
  /\ UNCHANGED <<tick, window, call, irregular>>

PingAnswered ==
  /\ client = "booting"
  /\ client' = "ready"
  /\ UNCHANGED <<tick, pings, window, call, irregular>>

\* close_redis drops the client, of requests on their way too.
close_redis ==
  /\ client = "ready"
  /\ client' = "closed"
  /\ UNCHANGED <<tick, pings, window, call, irregular>>

-----------------------------------------------------------------------------
(* proxy_request.                                                          *)

\* A public path, or a bearer token that can be decoded; 401 otherwise.  The
\* stamp is read with no await in between.
Authenticate(c) ==
  /\ client = "ready" /\ At(c, "new")
  /\ \/ call' = [call EXCEPT ![c] = [at |-> "stamped", stamp |-> tick]]
     \/ MoveTo(c, "refused")
  /\ UNCHANGED <<tick, client, pings, window, irregular>>

\* Mutant: an entry as old as the window is kept no longer than one tick less.
SlideShort(entries, stamp) == {e \in entries : e.score > stamp - Window + 1}

\* ZREMRANGEBYSCORE: what the script leaves of the set.
Slide(entries, stamp) == {e \in entries : e.score > stamp - Window}

Limited(c) == Cardinality(Slide(window, call[c].stamp)) >= Limit

Late(c) == \E d \in Calls : call[d].at \notin {"new", "stamped"} /\ call[d].stamp > call[c].stamp

\* The script adds the request to the set, as a member that may be there.
Admit(c, suffix) ==
  LET member == [score |-> call[c].stamp, suffix |-> suffix]
      left == Slide(window, call[c].stamp)
  IN  /\ client = "ready" /\ At(c, "stamped") /\ ~Limited(c)
      /\ window' = left \cup {member}
      /\ irregular' = (irregular \/ Late(c) \/ member \in left)
      /\ MoveTo(c, "admitted")
      /\ UNCHANGED <<tick, client, pings>>

\* Or it leaves the set as it is, and the answer is 429.
Refuse(c) ==
  /\ client = "ready" /\ At(c, "stamped") /\ Limited(c)
  /\ window' = Slide(window, call[c].stamp)
  /\ irregular' = (irregular \/ Late(c))
  /\ MoveTo(c, "refused")
  /\ UNCHANGED <<tick, client, pings>>

\* "Fail open": an error of Redis, or the client is closed.
FailOpen(c) ==
  /\ At(c, "stamped")
  /\ irregular' = TRUE
  /\ MoveTo(c, "admitted")
  /\ UNCHANGED <<tick, client, pings, window>>

\* The prefix finds the service, and the service answers; or 404, 503, 504, 502.
Forward(c) ==
  /\ At(c, "admitted")
  /\ MoveTo(c, "answered")
  /\ UNCHANGED <<tick, client, pings, window, irregular>>

CallStep(c) ==
  \/ Authenticate(c) \/ Refuse(c) \/ FailOpen(c) \/ Forward(c)
  \/ \E suffix \in RandomTails : Admit(c, suffix)

GatewayNext ==
  \/ PassTick \/ PingFails \/ PingAnswered \/ close_redis
  \/ \E c \in Calls : CallStep(c)

GatewaySpec == GatewayInit /\ [][GatewayNext]_gatewayVars

-----------------------------------------------------------------------------
GatewayTypeOK ==
  /\ tick \in Nat /\ pings \in 0..PingRetries
  /\ client \in {"booting", "ready", "closed", "failed"}
  /\ window \subseteq [score : Nat, suffix : RandomTails]
  /\ call \in [Calls -> [at : {"new", "stamped", "refused", "admitted", "answered"},
                         stamp : Nat]]
  /\ irregular \in BOOLEAN

\* Requests let through that were stamped in the window that ends at a time.
Through(time) == {c \in Calls : /\ call[c].at \in {"admitted", "answered"}
                                /\ time - Window < call[c].stamp /\ call[c].stamp <= time}

\* "A true sliding window" (rate_limiter.py:13-15): in no window at all, wherever
\* it starts, are more requests let through than the limit, as long as scripts
\* run in the order of their stamps, members differ and Redis answers.
SlidingWindow == ~irregular => \A time \in 0..LastTick : Cardinality(Through(time)) <= Limit
=============================================================================
