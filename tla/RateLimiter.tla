------------------------------ MODULE RateLimiter ------------------------------
(***************************************************************************)
(* RateLimiter.Middleware: requests of several limiters run their Redis    *)
(* pipeline (ZREMRANGEBYSCORE, ZCARD, ZADD, EXPIRE) on the sorted set of   *)
(* their key and are let through or turned away by the count they read.    *)
(*                                                                         *)
(* A pipeline is a batch, not a transaction: Redis may run commands of     *)
(* other connections between its commands.  The client is built without    *)
(* MaxRetries, so that go-redis re-sends a batch whose connection breaks.  *)
(* The EXPIRE is not modelled: it is renewed by every request, so what it  *)
(* deletes is a window old.                                                *)
(***************************************************************************)
EXTENDS Integers, FiniteSets

CONSTANTS
    Requests,      \* HTTP requests that reach a rate limiter
    Callers,       \* users (or client addresses)
    Limiters,      \* which of the limiters of main are used: "login", "order", "wallet"
    maxRequests,   \* maxRequests of each limiter
    window,        \* length of the window
    Timeout,       \* within how long its commands reach Redis, if at all: the 500 ms in
                   \* which a batch may be re-sent and a last exchange, which has only the
                   \* client's own limits (5 s to connect, 3 s to write, 3 s to read)
    MaxRetries,    \* how often the client re-sends a batch (go-redis: 3)
    MaxTime,       \* bound of the clock
    Faults         \* {"redis"}: Redis may be unavailable

ASSUME LimiterConstants ==
    /\ maxRequests \in [Limiters -> Nat]
    /\ {window, Timeout, MaxRetries, MaxTime} \subseteq Nat
    /\ Timeout < window

VARIABLES
    zset,   \* zset[k]: the scores in the sorted set of key k; score and member are the time
    pc,     \* where a request is in the middleware
    call,   \* call[r]: its limiter and its caller
    now,    \* now[r]: time.Now() as it read it
    count,  \* count[r]: the answer to its ZCARD
    attempt,\* attempt[r]: how often its batch has been re-sent
    clock,
    unseen  \* history: unseen[r]: the requests counted but not yet added when r was counted

vars == <<zset, pc, call, now, count, attempt, clock, unseen>>

Keys == {"ip", "user"} \X Callers

NoCall == [limiter |-> "none", caller |-> "none"]

Calls == [limiter : Limiters, caller : Callers]

InPipeline == {"zrem", "zcard", "zadd"}

PCs == {"idle", "allowed", "failedOpen", "blocked"} \cup InPipeline

\* Mutant of key: every limiter counts by address.
keyByIP(c) == <<"ip", c.caller>>

(* ByIP for /auth/login, ByUserID for /orders and /wallet; the key does not *)
(* name the limiter.                                                        *)
key(c) == IF c.limiter = "login" THEN <<"ip", c.caller>> ELSE <<"user", c.caller>>

Init ==
    /\ zset = [k \in Keys |-> {}]
    /\ pc = [r \in Requests |-> "idle"]
    /\ call = [r \in Requests |-> NoCall]
    /\ now = [r \in Requests |-> 0]
    /\ count = [r \in Requests |-> 0]
    /\ attempt = [r \in Requests |-> 0]
    /\ clock = 1
    /\ unseen = [r \in Requests |-> {}]

(* No two requests read the same nanosecond: equal members would be one.       *)
Arrive(r, c) ==
    /\ pc[r] = "idle"
    /\ \A q \in Requests : pc[q] # "idle" => now[q] # clock
    /\ call' = [call EXCEPT ![r] = c]
    /\ now' = [now EXCEPT ![r] = clock]
    /\ pc' = [pc EXCEPT ![r] = "zrem"]
    /\ UNCHANGED <<zset, count, attempt, clock, unseen>>

\* Mutant of ZRemRangeByScore: everything up to now is removed.
ZRemRangeToNow(r) ==
    /\ pc[r] = "zrem"
    /\ zset' = [zset EXCEPT ![key(call[r])] = {t \in @ : t > now[r]}]
    /\ pc' = [pc EXCEPT ![r] = "zcard"]
    /\ UNCHANGED <<call, now, count, attempt, clock, unseen>>

ZRemRangeByScore(r) ==
    /\ pc[r] = "zrem"
    /\ zset' = [zset EXCEPT ![key(call[r])] = {t \in @ : t > now[r] - window}]
    /\ pc' = [pc EXCEPT ![r] = "zcard"]
    /\ UNCHANGED <<call, now, count, attempt, clock, unseen>>

ZCard(r) ==
    /\ pc[r] = "zcard"
    /\ count' = [count EXCEPT ![r] = Cardinality(zset[key(call[r])])]
    /\ pc' = [pc EXCEPT ![r] = "zadd"]
    /\ UNCHANGED <<zset, call, now, attempt, clock>>
    /\ unseen' = [unseen EXCEPT ![r] = {q \in Requests : /\ pc[q] = "zadd"
                                                        /\ key(call[q]) = key(call[r])}]

(* The request is added whether or not it will be let through; then the count *)
(* read before decides.                                                       *)
ZAdd(r) ==
    /\ pc[r] = "zadd"
    /\ zset' = [zset EXCEPT ![key(call[r])] = @ \cup {now[r]}]
    /\ pc' = [pc EXCEPT ![r] = IF count[r] >= maxRequests[call[r].limiter]
                               THEN "blocked" ELSE "allowed"]
    /\ UNCHANGED <<call, now, count, attempt, clock, unseen>>

(* The connection breaks before, in the middle or at the end of the batch.  When *)
(* only the answer is lost, the request has been added.                          *)
Broken(r) ==
    /\ "redis" \in Faults
    /\ pc[r] \in InPipeline
    /\ \/ UNCHANGED zset
       \/ pc[r] = "zadd" /\ zset' = [zset EXCEPT ![key(call[r])] = @ \cup {now[r]}]

(* go-redis sends the whole batch again, with the same time, and ZCARD counts *)
(* what the first attempt has added.                                          *)
Resend(r) ==
    /\ Broken(r)
    /\ attempt[r] < MaxRetries
    /\ attempt' = [attempt EXCEPT ![r] = @ + 1]
    /\ pc' = [pc EXCEPT ![r] = "zrem"]
    /\ UNCHANGED <<call, now, count, clock, unseen>>

(* Exec fails, for want of retries or of time: fail open. *)
ExecError(r) ==
    /\ Broken(r)
    /\ pc' = [pc EXCEPT ![r] = "failedOpen"]
    /\ UNCHANGED <<call, now, count, attempt, clock, unseen>>

(* Time passes; a pipeline is over, one way or the other, before its deadline. *)
Tick ==
    /\ clock < MaxTime
    /\ \A r \in Requests : pc[r] \in InPipeline => clock < now[r] + Timeout
    /\ clock' = clock + 1
    /\ UNCHANGED <<zset, pc, call, now, count, attempt, unseen>>

Next ==
    \/ \E r \in Requests, c \in Calls : Arrive(r, c)
    \/ \E r \in Requests : ZRemRangeByScore(r) \/ ZCard(r) \/ ZAdd(r)
    \/ \E r \in Requests : Resend(r) \/ ExecError(r)
    \/ Tick

Spec == Init /\ [][Next]_vars

-------------------------------------------------------------------------------
(* The requests of a caller that were let through with a time in the interval *)
(* of this length that ends at t.                                             *)
Allowed(c, t, length) ==
    {r \in Requests : /\ pc[r] = "allowed" /\ call[r] = c
                      /\ now[r] \in (t - length + 1)..t}

(* ratelimit.go: "Each unique key (IP or user) is limited to maxRequests per   *)
(* window".  It is so but for two effects.  Pipelines overlap: requests that    *)
(* did not see each other do not count.  And a batch that breaks off after its  *)
(* removals has made room for an earlier request that comes late, so that the   *)
(* interval is shorter than the window by the pipeline's deadline.              *)
EffectiveLimit ==
    \A c \in Calls, t \in 1..MaxTime :
        LET A == Allowed(c, t, window - Timeout)
        IN  Cardinality({r \in A : unseen[r] \cap A = {}}) <= maxRequests[c.limiter]

(* main.go: "60/min per user" for orders, "30/min per user" for the wallet.  A *)
(* request is turned away only when the maximum of its own limiter has been     *)
(* reached within the last window, and the pipeline's deadline, by requests to  *)
(* the limiters that count under the same key: ByUserID does not name the       *)
(* limiter, so orders and wallet operations of a user count together.  A        *)
(* request whose batch was re-sent may have counted itself, but only once.      *)
BlockedOnlyOverLimit ==
    \A r \in Requests : pc[r] = "blocked" =>
        maxRequests[call[r].limiter] <=
            Cardinality({q \in Requests \ {r} :
                            /\ pc[q] # "idle" /\ call[q].caller = call[r].caller
                            /\ (call[q].limiter = "login") <=> (call[r].limiter = "login")
                            /\ now[q] \in (now[r] - window + 1)..(now[r] + Timeout)})
            + (IF attempt[r] > 0 THEN 1 ELSE 0)
===============================================================================
