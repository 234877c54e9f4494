----------------------------- MODULE RequestProofs -----------------------------
(***************************************************************************)
(* Proofs about what clients get: which requests a rate limiter lets       *)
(* through and turns away, for any number of requests, callers and         *)
(* limiters, every maximum, and every window longer than the deadline of a *)
(* pipeline; and which rows a walk through a paged list returns, for any   *)
(* number of rows, times, pages and page sizes.                            *)
(***************************************************************************)
EXTENDS RateLimiter, Paging, FiniteSetTheorems, SequenceTheorems, TLAPS

-------------------------------------------------------------------------------
(* RateLimiter *)

Arrived(r) == pc[r] # "idle"

Counted(r) == pc[r] \in {"zadd", "allowed", "blocked"}

LimiterTypes ==
    /\ zset \in [Keys -> SUBSET Nat]
    /\ pc \in [Requests -> PCs]
    /\ now \in [Requests -> Nat]
    /\ count \in [Requests -> Nat]
    /\ attempt \in [Requests -> Nat]
    /\ clock \in Nat
    /\ DOMAIN call = Requests
    /\ DOMAIN unseen = Requests
    /\ \A r \in Requests : Arrived(r) => call[r] \in Calls

TimesInv ==
    /\ \A r \in Requests : Arrived(r) => now[r] <= clock
    /\ \A r \in Requests : pc[r] \in InPipeline => clock <= now[r] + Timeout
    /\ \A q, r \in Requests : Arrived(q) /\ Arrived(r) /\ now[q] = now[r] => q = r

(* What is in a sorted set has been added by a request that was counted before, *)
(* by this attempt of its batch or an earlier one.                              *)
AddedBy(q, k, t) ==
    /\ pc[q] # "idle" /\ (pc[q] \notin {"zrem", "zcard"} \/ attempt[q] > 0)
    /\ key(call[q]) = k /\ now[q] = t

OriginInv == \A k \in Keys : \A t \in zset[k] : \E q \in Requests : AddedBy(q, k, t)

(* A request is counted among those of its window only. *)
TrimmedInv ==
    \A r \in Requests : pc[r] = "zcard" =>
        \A t \in zset[key(call[r])] : t > now[r] - window

(* What a request adds stays for a window. *)
KeptInv ==
    \A q \in Requests :
        pc[q] \in {"allowed", "blocked"} /\ now[q] > clock - window =>
            now[q] \in zset[key(call[q])]

(* The requests that may be counted when r is. *)
Peers(r) ==
    {q \in Requests \ {r} : /\ pc[q] # "idle" /\ call[q].caller = call[r].caller
                            /\ (call[q].limiter = "login") <=> (call[r].limiter = "login")
                            /\ now[q] \in (now[r] - window + 1)..(now[r] + Timeout)}

(* A request whose batch was re-sent may count itself. *)
Itself(r) == IF attempt[r] > 0 THEN 1 ELSE 0

CountInv == \A r \in Requests : Counted(r) => count[r] <= Cardinality(Peers(r)) + Itself(r)

VerdictInv ==
    \A r \in Requests :
        /\ pc[r] = "allowed" => count[r] < maxRequests[call[r].limiter]
        /\ pc[r] = "blocked" => maxRequests[call[r].limiter] <= count[r]

(* Requests for one key within a window less the deadline, none of which was *)
(* between its count and its addition when another one was counted.          *)
Group(S) ==
    /\ \A r \in S : Counted(r)
    /\ \A q, r \in S : /\ key(call[q]) = key(call[r])
                       /\ now[r] - now[q] < window - Timeout
                       /\ q \notin unseen[r]

(* The one of them that was counted last has counted all the others. *)
GroupInv ==
    \A S \in SUBSET Requests : S # {} /\ Group(S) => \E r \in S : Cardinality(S) <= count[r] + 1

LInv ==
    /\ LimiterTypes
    /\ TimesInv
    /\ OriginInv
    /\ TrimmedInv
    /\ KeptInv
    /\ CountInv
    /\ VerdictInv
    /\ GroupInv

-------------------------------------------------------------------------------
LEMMA Constants ==
    /\ window \in Nat /\ Timeout \in Nat /\ Timeout < window
    /\ maxRequests \in [Limiters -> Nat]
BY LimiterConstants

(* Two limiters share a key when both count by user, or both by address. *)
LEMMA KeyOfCall ==
    ASSUME NEW c \in Calls, NEW d \in Calls
    PROVE  /\ key(c) \in Keys
           /\ key(c) = key(d) <=> /\ c.caller = d.caller
                                  /\ (c.limiter = "login") <=> (d.limiter = "login")
BY DEF Calls, key, Keys

LEMMA RequestTypes ==
    ASSUME LInv, NEW r \in Requests, Arrived(r)
    PROVE  call[r] \in Calls /\ key(call[r]) \in Keys
BY KeyOfCall DEF LInv, LimiterTypes

(* No two requests have one time, so those that have arrived are finitely many. *)
LEMMA ArrivedFinite ==
    ASSUME LInv, NEW S \in SUBSET Requests, \A q \in S : Arrived(q)
    PROVE  IsFiniteSet(S)
<1> DEFINE f == [q \in S |-> now[q]]
<1>1. \A q \in S : now[q] \in 0..clock
  BY DEF LInv, LimiterTypes, TimesInv
<1>2. f \in Injection(S, 0..clock)
  <2>1. f \in [S -> 0..clock]
    BY <1>1
  <2>2. \A q, r \in S : f[q] = f[r] => q = r
    BY DEF LInv, TimesInv
  <2> QED
    BY <2>1, <2>2 DEF Injection, IsInjective
<1>3. IsFiniteSet(0..clock)
  BY FS_Interval DEF LInv, LimiterTypes
<1> QED
  BY <1>2, <1>3, FS_Injection

LEMMA PeersFinite ==
    ASSUME LInv, NEW r \in Requests
    PROVE  IsFiniteSet(Peers(r))
BY ArrivedFinite DEF Peers, Arrived

(* Steps that count nobody. *)
LEMMA NobodyCounted ==
    ASSUME LInv, UNCHANGED <<call, now, count, unseen>>,
           \A q \in Requests : /\ pc'[q] # "idle" <=> pc[q] # "idle"
                               /\ pc'[q] \in {"zadd", "allowed", "blocked"} =>
                                     Counted(q) /\ attempt'[q] = attempt[q]
    PROVE  CountInv' /\ GroupInv'
<1>1. ASSUME NEW r \in Requests, Counted(r)'
      PROVE  count'[r] <= Cardinality(Peers(r)') + Itself(r)'
  <2>1. Peers(r)' = Peers(r)
    BY DEF Peers
  <2>2. Counted(r) /\ Itself(r)' = Itself(r)
    BY <1>1 DEF Counted, Itself
  <2> QED
    BY <2>1, <2>2 DEF LInv, CountInv
<1>2. ASSUME NEW S \in SUBSET Requests, S # {}, Group(S)'
      PROVE  \E r \in S : Cardinality(S) <= count'[r] + 1
  <2>1. Group(S)
    BY <1>2 DEF Group, Counted
  <2> QED
    BY <1>2, <2>1 DEF LInv, GroupInv
<1> QED
  BY <1>1, <1>2 DEF CountInv, GroupInv

-------------------------------------------------------------------------------
LEMMA ArriveKeeps ==
    ASSUME LInv, NEW r \in Requests, NEW c \in Calls, Arrive(r, c)
    PROVE  LInv'
<1>1. /\ pc[r] = "idle" /\ \A q \in Requests : Arrived(q) => now[q] # clock
      /\ pc' = [pc EXCEPT ![r] = "zrem"]
      /\ call' = [call EXCEPT ![r] = c]
      /\ now' = [now EXCEPT ![r] = clock]
      /\ UNCHANGED <<zset, count, attempt, clock, unseen>>
  BY DEF Arrive, Arrived
<1>2. /\ pc'[r] = "zrem" /\ call'[r] = c /\ now'[r] = clock
      /\ \A q \in Requests : q # r => pc'[q] = pc[q] /\ call'[q] = call[q] /\ now'[q] = now[q]
      /\ DOMAIN call' = Requests
  BY <1>1 DEF LInv, LimiterTypes
<1>3. LimiterTypes'
  <2>1. pc' \in [Requests -> PCs] /\ now' \in [Requests -> Nat]
    BY <1>1 DEF LInv, LimiterTypes, PCs, InPipeline
  <2> QED
    BY <1>1, <1>2, <2>1 DEF LInv, LimiterTypes, Arrived
<1>4. TimesInv'
  <2>1. clock \in Nat /\ clock <= clock + Timeout
    BY Constants DEF LInv, LimiterTypes
  <2> QED
    BY <1>1, <1>2, <2>1 DEF LInv, TimesInv, Arrived, InPipeline
<1>5. OriginInv'
  <2>1. \A q \in Requests, k \in Keys, t \in Nat : AddedBy(q, k, t) => AddedBy(q, k, t)'
    BY <1>1, <1>2 DEF AddedBy
  <2> QED
    BY <1>1, <2>1 DEF LInv, LimiterTypes, OriginInv
<1>6. TrimmedInv' /\ KeptInv' /\ VerdictInv'
  BY <1>1, <1>2 DEF LInv, TrimmedInv, KeptInv, VerdictInv
<1>7. CountInv'
  <2>1. ASSUME NEW q \in Requests, Counted(q)'
        PROVE  count'[q] <= Cardinality(Peers(q)') + Itself(q)'
    <3>1. q # r /\ Counted(q)
      BY <1>2, <2>1 DEF Counted
    <3>2. /\ \A p \in Peers(q) : p # r
          /\ Peers(q) \subseteq Peers(q)' /\ Peers(q)' \subseteq Peers(q) \cup {r}
      BY <1>1, <1>2, <3>1 DEF Peers
    <3>3. IsFiniteSet(Peers(q)')
      BY <3>2, PeersFinite, FS_AddElement, FS_Subset
    <3>4. /\ Cardinality(Peers(q)) <= Cardinality(Peers(q)')
          /\ Cardinality(Peers(q)) \in Nat /\ Cardinality(Peers(q)') \in Nat
      BY <3>2, <3>3, PeersFinite, FS_Subset, FS_CardinalityType
    <3>5. count[q] <= Cardinality(Peers(q)) + Itself(q) /\ count[q] \in Nat
      BY <3>1 DEF LInv, LimiterTypes, CountInv
    <3>6. Itself(q)' = Itself(q) /\ Itself(q) \in Nat
      BY <1>1 DEF Itself
    <3> HIDE DEF Peers
    <3> QED
      BY <1>1, <3>4, <3>5, <3>6
  <2> QED
    BY <2>1 DEF CountInv
<1>8. GroupInv'
  <2>1. ASSUME NEW S \in SUBSET Requests, S # {}, Group(S)'
        PROVE  \E q \in S : Cardinality(S) <= count'[q] + 1
    <3>1. \A q \in S : q # r /\ q \in Requests
      BY <1>2, <2>1 DEF Group, Counted
    <3>2. Group(S)
      BY <1>1, <1>2, <2>1, <3>1 DEF Group, Counted
    <3> QED
      BY <1>1, <2>1, <3>2 DEF LInv, GroupInv
  <2> QED
    BY <2>1 DEF GroupInv
<1> QED
  BY <1>3, <1>4, <1>5, <1>6, <1>7, <1>8 DEF LInv

(* A request goes from one command of its pipeline to the next, or leaves it. *)
LEMMA PipelineStep ==
    ASSUME LInv, NEW r \in Requests, pc[r] \in InPipeline,
           NEW p \in PCs, p # "idle", pc' = [pc EXCEPT ![r] = p],
           UNCHANGED <<call, now, clock>>
    PROVE  /\ TimesInv' /\ pc' \in [Requests -> PCs] /\ pc'[r] = p
           /\ \A q \in Requests : q # r => pc'[q] = pc[q]
           /\ \A q \in Requests : Arrived(q)' <=> Arrived(q)
<1>1. /\ pc' \in [Requests -> PCs] /\ pc'[r] = p
      /\ \A q \in Requests : q # r => pc'[q] = pc[q]
  BY DEF LInv, LimiterTypes
<1>2. \A q \in Requests : Arrived(q)' <=> Arrived(q)
  BY <1>1 DEF Arrived, InPipeline
<1>3. \A q \in Requests : pc'[q] \in InPipeline => pc[q] \in InPipeline
  BY <1>1
<1> QED
  BY <1>1, <1>2, <1>3 DEF LInv, TimesInv

LEMMA ZRemKeeps ==
    ASSUME LInv, NEW r \in Requests, ZRemRangeByScore(r)
    PROVE  LInv'
<1> DEFINE k == key(call[r])
           kept == {t \in zset[k] : t > now[r] - window}
<1>1. /\ pc[r] = "zrem" /\ pc' = [pc EXCEPT ![r] = "zcard"]
      /\ zset' = [zset EXCEPT ![k] = kept]
      /\ UNCHANGED <<call, now, count, attempt, clock, unseen>>
  BY DEF ZRemRangeByScore
<1>2. /\ TimesInv' /\ pc' \in [Requests -> PCs] /\ pc'[r] = "zcard"
      /\ \A q \in Requests : q # r => pc'[q] = pc[q]
      /\ \A q \in Requests : Arrived(q)' <=> Arrived(q)
  BY <1>1, PipelineStep DEF InPipeline, PCs
<1>3. Arrived(r) /\ k \in Keys
  BY <1>1, RequestTypes DEF Arrived
<1>4. kept \in SUBSET Nat /\ kept \subseteq zset[k]
  BY <1>3 DEF LInv, LimiterTypes
<1>5. /\ zset' \in [Keys -> SUBSET Nat] /\ zset'[k] = kept
      /\ \A j \in Keys : j # k => zset'[j] = zset[j]
  BY <1>1, <1>3, <1>4 DEF LInv, LimiterTypes
<1>6. \A j \in Keys : zset'[j] \subseteq zset[j]
  BY <1>4, <1>5
<1>7. LimiterTypes'
  BY <1>1, <1>2, <1>5 DEF LInv, LimiterTypes
<1>8. OriginInv'
  <2>1. \A q \in Requests, j \in Keys, t \in Nat : AddedBy(q, j, t) => AddedBy(q, j, t)'
    BY <1>1, <1>2 DEF AddedBy
  <2>2. \A j \in Keys : \A t \in zset'[j] : t \in zset[j] /\ t \in Nat
    BY <1>6 DEF LInv, LimiterTypes
  <2> QED
    BY <2>1, <2>2 DEF LInv, OriginInv
<1>9. TrimmedInv'
  <2>1. ASSUME NEW q \in Requests, pc'[q] = "zcard", NEW t \in zset'[key(call[q])]
        PROVE  t > now[q] - window
    <3>1. CASE q = r
      BY <1>5, <2>1, <3>1
    <3>2. CASE q # r
      <4>1. pc[q] = "zcard" /\ key(call[q]) \in Keys
        BY <1>2, <2>1, <3>2, RequestTypes DEF Arrived
      <4> QED
        BY <1>6, <2>1, <4>1 DEF LInv, TrimmedInv
    <3> QED
      BY <3>1, <3>2
  <2> QED
    BY <1>1, <2>1 DEF TrimmedInv
<1>10. KeptInv'
  <2>1. ASSUME NEW q \in Requests, pc'[q] \in {"allowed", "blocked"}, now[q] > clock - window
        PROVE  now[q] \in zset'[key(call[q])]
    <3>1. pc[q] \in {"allowed", "blocked"} /\ Arrived(q)
      BY <1>2, <2>1 DEF Arrived
    <3>2. now[q] \in zset[key(call[q])] /\ key(call[q]) \in Keys
      BY <2>1, <3>1, RequestTypes DEF LInv, KeptInv
    <3>3. /\ now[r] <= clock /\ now[r] \in Int /\ now[q] \in Int /\ clock \in Int
          /\ window \in Int
      BY <1>3, Constants DEF LInv, LimiterTypes, TimesInv
    <3>4. now[q] > now[r] - window
      BY <2>1, <3>3
    <3> QED
      BY <1>5, <3>2, <3>4
  <2> QED
    BY <1>1, <2>1 DEF KeptInv
<1>11. VerdictInv'
  BY <1>1, <1>2 DEF LInv, VerdictInv
<1>12. CountInv' /\ GroupInv'
  BY <1>1, <1>2, NobodyCounted DEF Counted
<1> QED
  BY <1>2, <1>7, <1>8, <1>9, <1>10, <1>11, <1>12 DEF LInv

(* Request r is added to the set of its key. *)
Add(r) == zset' = [zset EXCEPT ![key(call[r])] = @ \cup {now[r]}]

(* A pipeline ends or is re-sent, its request added or not. *)
LEMMA PipelineEnds ==
    ASSUME LInv, NEW r \in Requests, pc[r] \in InPipeline,
           NEW p \in {"allowed", "blocked", "failedOpen", "zrem"}, pc' = [pc EXCEPT ![r] = p],
           p \in {"allowed", "blocked"} => pc[r] = "zadd" /\ Add(r),
           UNCHANGED zset \/ (pc[r] = "zadd" /\ Add(r)),
           p = "allowed" => count[r] < maxRequests[call[r].limiter],
           p = "blocked" => maxRequests[call[r].limiter] <= count[r],
           attempt' = IF p = "zrem" THEN [attempt EXCEPT ![r] = @ + 1] ELSE attempt,
           UNCHANGED <<call, now, count, clock, unseen>>
    PROVE  LInv'
<1> DEFINE k == key(call[r])
<1>0. /\ attempt' \in [Requests -> Nat] /\ (p = "zrem" => attempt'[r] > 0)
      /\ \A q \in Requests : attempt'[q] >= attempt[q] /\ (q # r => attempt'[q] = attempt[q])
      /\ p # "zrem" => attempt' = attempt
  <2>1. attempt \in [Requests -> Nat]
    BY DEF LInv, LimiterTypes
  <2>2. CASE p = "zrem"
    BY <2>1, <2>2
  <2>3. CASE p # "zrem"
    BY <2>1, <2>3
  <2> QED
    BY <2>2, <2>3
<1>1. p \in PCs /\ p # "idle" /\ p # "zcard"
  BY DEF PCs, InPipeline
<1>2. /\ TimesInv' /\ pc' \in [Requests -> PCs] /\ pc'[r] = p
      /\ \A q \in Requests : q # r => pc'[q] = pc[q]
      /\ \A q \in Requests : Arrived(q)' <=> Arrived(q)
  BY <1>1, PipelineStep
<1>3. Arrived(r) /\ k \in Keys /\ now[r] \in Nat /\ zset \in [Keys -> SUBSET Nat]
  BY RequestTypes DEF Arrived, InPipeline, LInv, LimiterTypes
<1>4. /\ zset' \in [Keys -> SUBSET Nat]
      /\ \A j \in Keys : zset[j] \subseteq zset'[j]
      /\ \A j \in Keys : \A t \in zset'[j] :
            t \in zset[j] \/ (pc[r] = "zadd" /\ j = k /\ t = now[r])
      /\ p \in {"allowed", "blocked"} => now[r] \in zset'[k]
  <2>1. CASE UNCHANGED zset /\ p \notin {"allowed", "blocked"}
    BY <1>3, <2>1
  <2>2. CASE pc[r] = "zadd" /\ Add(r)
    <3>1. zset' = [zset EXCEPT ![k] = zset[k] \cup {now[r]}]
      BY <2>2 DEF Add
    <3> HIDE DEF k
    <3> QED
      BY <1>3, <2>2, <3>1
  <2> QED
    BY <2>1, <2>2
<1>5. LimiterTypes'
  BY <1>0, <1>2, <1>4 DEF LInv, LimiterTypes
<1>6. OriginInv'
  <2>0. pc'[r] # "idle" /\ (pc'[r] \notin {"zrem", "zcard"} \/ attempt'[r] > 0)
    BY <1>0, <1>1, <1>2
  <2>1. ASSUME NEW q \in Requests, NEW j, NEW t, AddedBy(q, j, t)
        PROVE  AddedBy(q, j, t)'
    <3>1. CASE q = r
      BY <2>0, <2>1, <3>1 DEF AddedBy
    <3>2. CASE q # r
      BY <1>0, <1>2, <2>1, <3>2 DEF AddedBy
    <3> QED
      BY <3>1, <3>2
  <2>2. AddedBy(r, k, now[r])'
    BY <2>0 DEF AddedBy
  <2>3. ASSUME NEW j \in Keys, NEW t \in zset'[j]
        PROVE  \E q \in Requests : AddedBy(q, j, t)'
    <3>1. CASE t \in zset[j]
      BY <1>3, <2>1, <3>1 DEF LInv, OriginInv
    <3>2. CASE j = k /\ t = now[r]
      BY <2>2, <3>2
    <3> QED
      BY <1>4, <2>3, <3>1, <3>2
  <2> QED
    BY <2>3 DEF OriginInv
<1>7. TrimmedInv'
  <2>1. ASSUME NEW q \in Requests, pc'[q] = "zcard", NEW t \in zset'[key(call[q])]
        PROVE  t > now[q] - window
    <3>1. q # r /\ pc[q] = "zcard" /\ Arrived(q) /\ key(call[q]) \in Keys
      BY <1>2, <2>1, RequestTypes DEF Arrived
    <3>2. CASE t \in zset[key(call[q])]
      BY <3>1, <3>2 DEF LInv, TrimmedInv
    <3>3. CASE t = now[r]
      <4>1. /\ now[q] \in Int /\ now[r] \in Int /\ clock \in Int
            /\ now[q] <= clock /\ clock <= now[r] + Timeout
        BY <3>1 DEF LInv, LimiterTypes, TimesInv
      <4> QED
        BY <3>3, <4>1, Constants
    <3> QED
      BY <1>4, <2>1, <3>1, <3>2, <3>3
  <2> QED
    BY <2>1 DEF TrimmedInv
<1>8. KeptInv'
  <2>1. ASSUME NEW q \in Requests, pc'[q] \in {"allowed", "blocked"}, now[q] > clock - window
        PROVE  now[q] \in zset'[key(call[q])]
    <3>1. CASE q = r
      BY <1>2, <1>4, <2>1, <3>1
    <3>2. CASE q # r
      <4>1. pc[q] \in {"allowed", "blocked"} /\ key(call[q]) \in Keys
        BY <1>2, <2>1, <3>2, RequestTypes DEF Arrived
      <4> QED
        BY <1>4, <2>1, <4>1 DEF LInv, KeptInv
    <3> QED
      BY <3>1, <3>2
  <2> QED
    BY <2>1 DEF KeptInv
<1>9. VerdictInv'
  BY <1>2 DEF LInv, VerdictInv
<1>10. CountInv' /\ GroupInv'
  <2>1. \A q \in Requests : pc'[q] \in {"zadd", "allowed", "blocked"} =>
                               Counted(q) /\ attempt'[q] = attempt[q]
    BY <1>0, <1>2 DEF Counted
  <2> QED
    BY <1>2, <2>1, NobodyCounted DEF Arrived
<1> QED
  BY <1>2, <1>5, <1>6, <1>7, <1>8, <1>9, <1>10 DEF LInv

LEMMA ZAddKeeps ==
    ASSUME LInv, NEW r \in Requests, ZAdd(r)
    PROVE  LInv'
<1> DEFINE p == IF count[r] >= maxRequests[call[r].limiter] THEN "blocked" ELSE "allowed"
<1>1. /\ pc[r] = "zadd" /\ Add(r) /\ pc' = [pc EXCEPT ![r] = p]
      /\ UNCHANGED <<call, now, count, attempt, clock, unseen>>
  BY DEF ZAdd, Add
<1>2. count[r] \in Nat /\ maxRequests[call[r].limiter] \in Nat
  BY <1>1, RequestTypes, Constants DEF Calls, Arrived, LInv, LimiterTypes
<1>3. /\ p \in {"allowed", "blocked", "failedOpen", "zrem"} /\ p # "zrem"
      /\ p = "allowed" => count[r] < maxRequests[call[r].limiter]
      /\ p = "blocked" => maxRequests[call[r].limiter] <= count[r]
  BY <1>2
<1>4. pc[r] \in InPipeline
  BY <1>1 DEF InPipeline
<1> HIDE DEF p
<1> QED
  BY <1>1, <1>3, <1>4, PipelineEnds

LEMMA ExecErrorKeeps ==
    ASSUME LInv, NEW r \in Requests, ExecError(r)
    PROVE  LInv'
<1>1. /\ pc[r] \in InPipeline /\ pc' = [pc EXCEPT ![r] = "failedOpen"]
      /\ UNCHANGED zset \/ (pc[r] = "zadd" /\ Add(r))
      /\ UNCHANGED <<call, now, count, attempt, clock, unseen>>
  BY DEF ExecError, Broken, Add
<1> QED
  BY <1>1, PipelineEnds

LEMMA ResendKeeps ==
    ASSUME LInv, NEW r \in Requests, Resend(r)
    PROVE  LInv'
<1>1. /\ pc[r] \in InPipeline /\ pc' = [pc EXCEPT ![r] = "zrem"]
      /\ UNCHANGED zset \/ (pc[r] = "zadd" /\ Add(r))
      /\ attempt' = [attempt EXCEPT ![r] = @ + 1]
      /\ UNCHANGED <<call, now, count, clock, unseen>>
  BY DEF Resend, Broken, Add
<1> QED
  BY <1>1, PipelineEnds

-------------------------------------------------------------------------------
(* The count *)

(* Everything in the set is the time of a peer, or of the request itself when its  *)
(* batch was re-sent, so the count is no larger than they.                         *)
LEMMA CountOfPeers ==
    ASSUME LInv, NEW r \in Requests, pc[r] = "zcard"
    PROVE  /\ IsFiniteSet(zset[key(call[r])])
           /\ Cardinality(zset[key(call[r])]) <= Cardinality(Peers(r)) + Itself(r)
<1> DEFINE k == key(call[r])
           P == IF attempt[r] > 0 THEN Peers(r) \cup {r} ELSE Peers(r)
           f == [t \in zset[k] |-> CHOOSE q \in Requests : AddedBy(q, k, t)]
<1>1. Arrived(r) /\ k \in Keys /\ zset[k] \subseteq Nat
  BY RequestTypes DEF Arrived, LInv, LimiterTypes
<1>2. ASSUME NEW t \in zset[k]
      PROVE  f[t] \in P /\ now[f[t]] = t
  <2>1. f[t] \in Requests /\ AddedBy(f[t], k, t)
    <3>1. \E q \in Requests : AddedBy(q, k, t)
      BY <1>1, <1>2 DEF LInv, OriginInv
    <3> QED
      BY <3>1
  <2> DEFINE q == f[t]
  <2> HIDE DEF f
  <2>2. /\ q \in Requests /\ Arrived(q) /\ now[q] = t
        /\ key(call[q]) = key(call[r]) /\ (q = r => attempt[r] > 0)
    BY <2>1 DEF AddedBy, Arrived
  <2> HIDE DEF q
  <2>3. call[q] \in Calls /\ call[r] \in Calls
    BY <1>1, <2>2, RequestTypes
  <2>4. /\ call[q].caller = call[r].caller
        /\ (call[q].limiter = "login") <=> (call[r].limiter = "login")
    BY <2>2, <2>3, KeyOfCall
  <2>5. /\ now[q] <= clock /\ clock <= now[r] + Timeout /\ now[q] > now[r] - window
        /\ now[q] \in Int /\ now[r] \in Int /\ clock \in Int
    BY <2>2 DEF LInv, LimiterTypes, TimesInv, TrimmedInv, InPipeline
  <2>6. now[q] \in (now[r] - window + 1)..(now[r] + Timeout)
    BY <2>5, Constants
  <2>7. q \in P
    BY <2>2, <2>4, <2>6 DEF Peers, Arrived
  <2> QED
    BY <2>2, <2>7 DEF q
<1>3. f \in Injection(zset[k], P)
  <2>1. DOMAIN f = zset[k] /\ f = [t \in zset[k] |-> f[t]]
    OBVIOUS
  <2> HIDE DEF f, P
  <2>2. f \in [zset[k] -> P]
    BY <1>2, <2>1
  <2>3. \A t, u \in zset[k] : f[t] = f[u] => t = u
    BY <1>2
  <2> QED
    BY <2>2, <2>3 DEF Injection, IsInjective
<1>4. IsFiniteSet(P) /\ Cardinality(P) = Cardinality(Peers(r)) + Itself(r)
  <2>1. IsFiniteSet(Peers(r)) /\ r \notin Peers(r) /\ Cardinality(Peers(r)) \in Nat
    BY PeersFinite, FS_CardinalityType DEF Peers
  <2>2. CASE attempt[r] > 0
    BY <2>1, <2>2, FS_AddElement DEF Itself
  <2>3. CASE ~(attempt[r] > 0)
    <3> HIDE DEF Peers
    <3> QED
      BY <2>1, <2>3 DEF Itself
  <2> QED
    BY <2>2, <2>3
<1> HIDE DEF f, P
<1> QED
  BY <1>3, <1>4, FS_Injection

(* What a request counts includes every other member of its group. *)
LEMMA CountOfGroup ==
    ASSUME LInv, NEW r \in Requests, pc[r] = "zcard",
           NEW S \in SUBSET Requests, r \in S,
           \A q \in S \ {r} : /\ pc[q] \in {"allowed", "blocked"}
                              /\ key(call[q]) = key(call[r])
                              /\ now[r] - now[q] < window - Timeout
    PROVE  Cardinality(S) <= Cardinality(zset[key(call[r])]) + 1
<1> DEFINE k == key(call[r])
           R == S \ {r}
           f == [q \in R |-> now[q]]
<1>1. ASSUME NEW q \in R
      PROVE  now[q] \in zset[k]
  <2>1. /\ now[r] - now[q] < window - Timeout /\ clock <= now[r] + Timeout
        /\ now[q] \in Int /\ now[r] \in Int /\ clock \in Int
    BY <1>1 DEF LInv, LimiterTypes, TimesInv, InPipeline
  <2>2. now[q] > clock - window
    BY <2>1, Constants
  <2> QED
    BY <1>1, <2>2 DEF LInv, KeptInv
<1>2. f \in Injection(R, zset[k])
  <2>1. f \in [R -> zset[k]]
    BY <1>1
  <2>2. \A p, q \in R : f[p] = f[q] => p = q
    BY DEF LInv, TimesInv, Arrived
  <2> QED
    BY <2>1, <2>2 DEF Injection, IsInjective
<1>3. IsFiniteSet(zset[k])
  BY CountOfPeers
<1> HIDE DEF f
<1>4. IsFiniteSet(R) /\ Cardinality(R) <= Cardinality(zset[k])
  BY <1>2, <1>3, FS_Injection
<1>5. Cardinality(R) \in Nat /\ Cardinality(zset[k]) \in Nat
  BY <1>3, <1>4, FS_CardinalityType
<1>6. S = R \cup {r} /\ r \notin R
  OBVIOUS
<1>7. Cardinality(S) = Cardinality(R) + 1
  BY <1>4, <1>6, FS_AddElement
<1> QED
  BY <1>4, <1>5, <1>7

LEMMA ZCardKeeps ==
    ASSUME LInv, NEW r \in Requests, ZCard(r)
    PROVE  LInv'
<1> DEFINE k == key(call[r])
           n == Cardinality(zset[k])
           between == {q \in Requests : pc[q] = "zadd" /\ key(call[q]) = k}
<1>1. /\ pc[r] = "zcard" /\ pc' = [pc EXCEPT ![r] = "zadd"]
      /\ count' = [count EXCEPT ![r] = n]
      /\ unseen' = [unseen EXCEPT ![r] = between]
      /\ UNCHANGED <<zset, call, now, attempt, clock>>
  BY DEF ZCard
<1>2. /\ TimesInv' /\ pc' \in [Requests -> PCs] /\ pc'[r] = "zadd"
      /\ \A q \in Requests : q # r => pc'[q] = pc[q]
      /\ \A q \in Requests : Arrived(q)' <=> Arrived(q)
  BY <1>1, PipelineStep DEF InPipeline, PCs
<1>3. IsFiniteSet(zset[k]) /\ n <= Cardinality(Peers(r)) + Itself(r) /\ n \in Nat
  BY <1>1, CountOfPeers, FS_CardinalityType
<1> HIDE DEF n, between
<1>4. /\ count' \in [Requests -> Nat] /\ count'[r] = n
      /\ \A q \in Requests : q # r => count'[q] = count[q]
      /\ DOMAIN unseen' = Requests /\ unseen'[r] = between
      /\ \A q \in Requests : q # r => unseen'[q] = unseen[q]
  BY <1>1, <1>3 DEF LInv, LimiterTypes
<1>5. LimiterTypes'
  BY <1>1, <1>2, <1>4 DEF LInv, LimiterTypes
<1>6. OriginInv'
  <2>1. \A q \in Requests, j \in Keys, t \in Nat : AddedBy(q, j, t) => AddedBy(q, j, t)'
    BY <1>1, <1>2 DEF AddedBy
  <2> QED
    BY <1>1, <2>1 DEF LInv, LimiterTypes, OriginInv
<1>7. TrimmedInv' /\ KeptInv' /\ VerdictInv'
  BY <1>1, <1>2, <1>4 DEF LInv, TrimmedInv, KeptInv, VerdictInv
<1>8. CountInv'
  <2>1. \A q \in Requests : Peers(q)' = Peers(q) /\ Itself(q)' = Itself(q)
    BY <1>1, <1>2 DEF Peers, Arrived, Itself
  <2>2. \A q \in Requests : Counted(q)' => q = r \/ Counted(q)
    BY <1>2 DEF Counted
  <2> QED
    BY <1>3, <1>4, <2>1, <2>2 DEF LInv, CountInv
<1>9. GroupInv'
  <2>1. ASSUME NEW S \in SUBSET Requests, S # {}, Group(S)', r \in S
        PROVE  Cardinality(S) <= count'[r] + 1
    <3>1. ASSUME NEW q \in S \ {r}
          PROVE  /\ pc[q] \in {"allowed", "blocked"} /\ key(call[q]) = key(call[r])
                 /\ now[r] - now[q] < window - Timeout
      <4>1. /\ pc[q] \in {"zadd", "allowed", "blocked"} /\ key(call[q]) = k
            /\ now[r] - now[q] < window - Timeout /\ q \notin between
        BY <1>1, <1>2, <1>4, <2>1 DEF Group, Counted
      <4> QED
        BY <4>1 DEF between
    <3>2. Cardinality(S) <= Cardinality(zset[key(call[r])]) + 1
      BY <1>1, <2>1, <3>1, CountOfGroup
    <3> QED
      BY <1>4, <3>2 DEF n
  <2>2. ASSUME NEW S \in SUBSET Requests, S # {}, Group(S)', r \notin S
        PROVE  \E q \in S : Cardinality(S) <= count'[q] + 1
    <3>1. Group(S)
      BY <1>1, <1>2, <1>4, <2>2 DEF Group, Counted
    <3>2. PICK q \in S : Cardinality(S) <= count[q] + 1
      BY <2>2, <3>1 DEF LInv, GroupInv
    <3> QED
      BY <1>4, <2>2, <3>2
  <2> QED
    BY <2>1, <2>2 DEF GroupInv
<1> QED
  BY <1>2, <1>5, <1>6, <1>7, <1>8, <1>9 DEF LInv

LEMMA TickKeeps ==
    ASSUME LInv, Tick
    PROVE  LInv'
<1>1. /\ clock' = clock + 1 /\ clock \in Nat
      /\ \A r \in Requests : pc[r] \in InPipeline => clock < now[r] + Timeout
      /\ UNCHANGED <<zset, pc, call, now, count, attempt, unseen>>
  BY DEF Tick, LInv, LimiterTypes
<1>2. LimiterTypes'
  BY <1>1 DEF LInv, LimiterTypes, Arrived
<1>3. TimesInv'
  <2>1. \A r \in Requests : now[r] \in Nat
    BY DEF LInv, LimiterTypes
  <2>2. \A r \in Requests : pc[r] \in InPipeline => clock + 1 <= now[r] + Timeout
    BY <1>1, <2>1, Constants
  <2>3. \A r \in Requests : Arrived(r) => now[r] <= clock + 1
    BY <1>1, <2>1 DEF LInv, TimesInv
  <2> QED
    BY <1>1, <2>2, <2>3 DEF LInv, TimesInv, Arrived
<1>4. OriginInv' /\ TrimmedInv' /\ VerdictInv'
  BY <1>1 DEF LInv, OriginInv, AddedBy, TrimmedInv, VerdictInv
<1>5. KeptInv'
  <2>1. \A q \in Requests : now[q] > clock' - window => now[q] > clock - window
    BY <1>1, Constants DEF LInv, LimiterTypes
  <2> QED
    BY <1>1, <2>1 DEF LInv, KeptInv
<1>6. CountInv' /\ GroupInv'
  BY <1>1, NobodyCounted DEF Counted
<1> QED
  BY <1>2, <1>3, <1>4, <1>5, <1>6 DEF LInv

-------------------------------------------------------------------------------
LEMMA InitLInv == Init => LInv
<1> SUFFICES ASSUME Init PROVE LInv
  OBVIOUS
<1>1. /\ \A r \in Requests : pc[r] = "idle" /\ ~Arrived(r) /\ ~Counted(r)
      /\ \A k \in Keys : zset[k] = {}
  BY DEF Init, Arrived, Counted
<1>2. LimiterTypes
  BY <1>1 DEF Init, LimiterTypes, PCs
<1>3. TimesInv /\ OriginInv /\ TrimmedInv /\ KeptInv /\ CountInv /\ VerdictInv
  BY <1>1 DEF TimesInv, OriginInv, TrimmedInv, KeptInv, CountInv, VerdictInv, InPipeline
<1>4. GroupInv
  BY <1>1 DEF GroupInv, Group
<1> QED
  BY <1>2, <1>3, <1>4 DEF LInv

LEMMA StepLInv == LInv /\ [Next]_vars => LInv'
<1> SUFFICES ASSUME LInv, [Next]_vars PROVE LInv'
  OBVIOUS
<1>1. CASE UNCHANGED vars
  BY <1>1 DEF vars, LInv, LimiterTypes, TimesInv, OriginInv, AddedBy, TrimmedInv, KeptInv,
     CountInv, Peers, Itself, VerdictInv, GroupInv, Group, Counted, Arrived
<1>2. CASE Next
  BY <1>2, ArriveKeeps, ZRemKeeps, ZCardKeeps, ZAddKeeps, ExecErrorKeeps,
     ResendKeeps, TickKeeps DEF Next
<1> QED
  BY <1>1, <1>2

(* The limiter's invariant. *)
THEOREM LimiterCorrect == Spec => []LInv
BY InitLInv, StepLInv, PTL DEF Spec

(* RateLimiter.Middleware turns a request away only when the maximum of its limiter *)
(* has been reached, within the window and the deadline, by other requests that     *)
(* count under the same key, or by all but one of them and itself when its batch    *)
(* was re-sent, however often that was.                                             *)
THEOREM BlockedCorrect == Spec => []BlockedOnlyOverLimit
<1>1. LInv => BlockedOnlyOverLimit
  <2> SUFFICES ASSUME LInv, NEW r \in Requests, pc[r] = "blocked"
               PROVE  maxRequests[call[r].limiter] <= Cardinality(Peers(r)) + Itself(r)
    BY DEF BlockedOnlyOverLimit, Peers, Itself
  <2>1. /\ maxRequests[call[r].limiter] <= count[r]
        /\ count[r] <= Cardinality(Peers(r)) + Itself(r) /\ count[r] \in Nat
    BY DEF LInv, LimiterTypes, VerdictInv, CountInv, Counted
  <2>2. Cardinality(Peers(r)) \in Nat /\ Itself(r) \in Nat
    BY PeersFinite, FS_CardinalityType DEF Itself
  <2>3. maxRequests[call[r].limiter] \in Nat
    BY RequestTypes, Constants DEF Calls, Arrived
  <2> QED
    BY <2>1, <2>2, <2>3
<1> QED
  BY <1>1, LimiterCorrect, PTL

(* In any interval shorter than the window by the deadline, no more requests of a     *)
(* caller than the maximum are let through by RateLimiter.Middleware, not counting    *)
(* those that were counted while another one of them was about to be added: the one   *)
(* counted last has counted all the others.                                           *)
THEOREM LimitEffective == Spec => []EffectiveLimit
<1>1. LInv => EffectiveLimit
  <2> SUFFICES ASSUME LInv, NEW c \in Calls, NEW t \in 1..MaxTime
               PROVE  LET A == Allowed(c, t, window - Timeout)
                      IN  Cardinality({r \in A : unseen[r] \cap A = {}})
                             <= maxRequests[c.limiter]
    BY DEF EffectiveLimit
  <2> DEFINE A == Allowed(c, t, window - Timeout)
             B == {r \in A : unseen[r] \cap A = {}}
  <2>1. maxRequests[c.limiter] \in Nat
    BY Constants DEF Calls
  <2>2. \A r \in B : /\ r \in Requests /\ pc[r] = "allowed" /\ call[r] = c
                     /\ now[r] \in (t - (window - Timeout) + 1)..t
    BY DEF Allowed
  <2>3. \A q, r \in B : q \notin unseen[r]
    OBVIOUS
  <2> HIDE DEF A, B
  <2>4. B \in SUBSET Requests /\ IsFiniteSet(B)
    BY <2>2, ArrivedFinite DEF Arrived
  <2>5. CASE B = {}
    BY <2>1, <2>5, FS_EmptySet DEF B, A
  <2>6. CASE B # {}
    <3>1. \A q, r \in B : now[r] - now[q] < window - Timeout
      <4>1. t \in Int /\ \A q \in B : now[q] \in Int
        BY <2>2 DEF LInv, LimiterTypes
      <4> QED
        BY <2>2, <4>1, Constants
    <3>2. Group(B)
      BY <2>2, <2>3, <3>1 DEF Group, Counted
    <3>3. PICK r \in B : Cardinality(B) <= count[r] + 1
      BY <2>4, <2>6, <3>2 DEF LInv, GroupInv
    <3>4. count[r] < maxRequests[c.limiter] /\ count[r] \in Nat
      BY <2>2, <3>3 DEF LInv, LimiterTypes, VerdictInv
    <3>5. Cardinality(B) \in Nat
      BY <2>4, FS_CardinalityType
    <3>6. Cardinality(B) <= maxRequests[c.limiter]
      BY <2>1, <3>3, <3>4, <3>5
    <3> QED
      BY <3>6 DEF B, A
  <2> QED
    BY <2>5, <2>6
<1> QED
  BY <1>1, LimiterCorrect, PTL

-------------------------------------------------------------------------------
(* Paging: sorted sequences *)

(* The rows that come before r in any order by created_at. *)
Earlier(r, S) == {q \in S : at[q] > at[r]}

(* A sorted sequence of S has every element of S, once. *)
LEMMA SortedSequence ==
    ASSUME NEW S, IsFiniteSet(S), NEW s \in Sorted(S)
    PROVE  /\ Len(s) = Cardinality(S) /\ Len(s) \in Nat
           /\ s \in [1..Len(s) -> S]
           /\ \A i, j \in 1..Len(s) : i # j => s[i] # s[j]
           /\ \A i, j \in 1..Len(s) : i < j => at[s[i]] >= at[s[j]]
           /\ \A q \in S : \E i \in 1..Len(s) : s[i] = q
<1> DEFINE n == Cardinality(S)
<1>1. n \in Nat
  BY FS_CardinalityType
<1>2. s \in [1..n -> S] /\ \A i, j \in 1..n : i # j => s[i] # s[j]
  BY DEF Sorted, SetToSeqs
<1>3. s \in Seq(S) /\ Len(s) = n
  <2> HIDE DEF n
  <2> QED
    BY <1>1, <1>2
<1>4. s \in Injection(1..n, S)
  BY <1>2 DEF Injection, IsInjective
<1>5. Cardinality(1..n) = Cardinality(S)
  BY <1>1, FS_Interval
<1>6. s \in Surjection(1..n, S)
  BY <1>4, <1>5, FS_Injection
<1> QED
  BY <1>1, <1>2, <1>3, <1>6 DEF Surjection, Sorted

(* The place of a row that shares its time with no other is one more than the   *)
(* number of rows that come before it.                                          *)
LEMMA Rank ==
    ASSUME NEW S, IsFiniteSet(S), \A q \in S : at[q] \in Nat,
           NEW s \in Sorted(S), NEW i \in 1..Len(s),
           \A q \in S \ {s[i]} : at[q] # at[s[i]]
    PROVE  Cardinality(Earlier(s[i], S)) = i - 1
<1> DEFINE f == [j \in 1..(i - 1) |-> s[j]]
           E == Earlier(s[i], S)
<1>1. /\ Len(s) \in Nat /\ s \in [1..Len(s) -> S]
      /\ \A j, k \in 1..Len(s) : j # k => s[j] # s[k]
      /\ \A j, k \in 1..Len(s) : j < k => at[s[j]] >= at[s[k]]
      /\ \A q \in S : \E j \in 1..Len(s) : s[j] = q
  BY SortedSequence
<1>2. \A j \in 1..(i - 1) : j \in 1..Len(s) /\ j < i
  BY <1>1
<1>3. \A j \in 1..(i - 1) : f[j] \in E
  <2> SUFFICES ASSUME NEW j \in 1..(i - 1) PROVE s[j] \in E
    OBVIOUS
  <2>1. s[j] \in S /\ s[j] # s[i] /\ at[s[j]] >= at[s[i]] /\ s[i] \in S
    BY <1>1, <1>2
  <2>2. at[s[j]] \in Nat /\ at[s[i]] \in Nat /\ at[s[j]] # at[s[i]]
    BY <2>1
  <2> QED
    BY <2>1, <2>2 DEF Earlier
<1>4. \A q \in E : \E j \in 1..(i - 1) : f[j] = q
  <2> SUFFICES ASSUME NEW q \in E PROVE \E j \in 1..(i - 1) : s[j] = q
    OBVIOUS
  <2>1. q \in S /\ at[q] > at[s[i]] /\ s[i] \in S /\ at[q] \in Nat /\ at[s[i]] \in Nat
    BY <1>1 DEF Earlier
  <2>2. PICK j \in 1..Len(s) : s[j] = q
    BY <1>1, <2>1
  <2>3. ~(i < j) /\ i # j
    BY <1>1, <2>1, <2>2
  <2> QED
    BY <1>1, <2>2, <2>3
<1>5. f \in Bijection(1..(i - 1), E)
  <2>1. f \in [1..(i - 1) -> E]
    BY <1>3
  <2>2. \A j, k \in 1..(i - 1) : f[j] = f[k] => j = k
    BY <1>1, <1>2
  <2> HIDE DEF f, E
  <2> QED
    BY <1>4, <2>1, <2>2 DEF Bijection, Injection, IsInjective, Surjection
<1>6. i - 1 \in Nat /\ IsFiniteSet(1..(i - 1)) /\ Cardinality(1..(i - 1)) = i - 1
  <2>1. i - 1 \in Nat
    BY <1>1
  <2> QED
    BY <2>1, FS_Interval
<1> QED
  <2>1. ExistsBijection(1..(i - 1), E)
    BY <1>5 DEF ExistsBijection
  <2> HIDE DEF E
  <2>2. Cardinality(E) = i - 1
    BY <1>6, <2>1, FS_Bijection
  <2> QED
    BY <2>2 DEF E

(* Which rows a page has. *)
LEMMA RowOfPage ==
    ASSUME NEW S, IsFiniteSet(S), \A q \in S : at[q] \in Nat, NEW s \in Sorted(S),
           NEW r \in S, \A q \in S \ {r} : at[q] # at[r], NEW page, NEW size
    PROVE  r \in PageOf(s, page, size) <=>
              /\ Cardinality(Earlier(r, S)) + 1 > offset(page, size)
              /\ Cardinality(Earlier(r, S)) + 1 <= offset(page, size) + clampSize(size)
<1>1. /\ Len(s) \in Nat
      /\ \A j, k \in 1..Len(s) : j # k => s[j] # s[k]
  BY SortedSequence
<1>2. PICK i \in 1..Len(s) : s[i] = r
  BY SortedSequence
<1>3. Cardinality(Earlier(r, S)) + 1 = i
  <2>1. Cardinality(Earlier(s[i], S)) = i - 1
    BY <1>2, Rank
  <2> QED
    BY <1>1, <1>2, <2>1
<1>4. r \in PageOf(s, page, size) <=>
         i > offset(page, size) /\ i <= offset(page, size) + clampSize(size)
  BY <1>1, <1>2 DEF PageOf
<1> QED
  BY <1>3, <1>4

-------------------------------------------------------------------------------
(* Paging: pages and their number *)

LEMMA PageBounds ==
    ASSUME NEW p \in Int, NEW n \in Int
    PROVE  /\ clampSize(n) \in Nat \ {0}
           /\ clampPage(p) \in Nat \ {0}
           /\ offset(p, n) \in Nat
           /\ p <= 1 => offset(p, n) = 0
           /\ offset(clampPage(p) + 1, n) = offset(p, n) + clampSize(n)
           /\ offset(p, n) + clampSize(n) = clampPage(p) * clampSize(n)
           /\ offset(p + 1, n) <= offset(p, n) + clampSize(n)
<1> DEFINE c == clampSize(n)
           k == clampPage(p)
<1>1. c \in Nat \ {0}
  BY PagingConstants DEF clampSize
<1>2. k \in Nat \ {0} /\ clampPage(k + 1) = k + 1 /\ (p <= 1 => k = 1)
  BY DEF clampPage
<1>3. offset(p, n) = (k - 1) * c /\ offset(k + 1, n) = k * c
  <2>1. offset(k + 1, n) = (clampPage(k + 1) - 1) * c
    BY DEF offset
  <2>2. clampPage(k + 1) - 1 = k
    BY <1>2
  <2> QED
    BY <2>1, <2>2 DEF offset
<1>4. p + 1 <= 1 => offset(p + 1, n) = 0
  <2>1. p + 1 <= 1 => clampPage(p + 1) = 1
    BY DEF clampPage
  <2> QED
    BY <1>1, <2>1 DEF offset
<1>5. p >= 1 => k = p
  BY DEF clampPage
<1> HIDE DEF c, k
<1>6. (k - 1) * c \in Nat /\ k * c = (k - 1) * c + c
  <2>1. k - 1 \in Nat
    BY <1>2
  <2> DEFINE m == k - 1
  <2>2. k = m + 1
    BY <1>2
  <2> HIDE DEF m
  <2>3. m * c \in Nat /\ (m + 1) * c = m * c + c
    BY <1>1, <2>1 DEF m
  <2> QED
    BY <2>2, <2>3 DEF m
<1>7. p <= 1 => offset(p, n) = 0
  BY <1>1, <1>2, <1>3
<1>8. offset(p + 1, n) <= offset(p, n) + c
  <2>1. CASE p >= 1
    BY <1>1, <1>3, <1>5, <1>6, <2>1
  <2>2. CASE ~(p >= 1)
    BY <1>1, <1>3, <1>4, <1>6, <2>2
  <2> QED
    BY <2>1, <2>2
<1> QED
  BY <1>1, <1>2, <1>3, <1>6, <1>7, <1>8 DEF c, k

LEMMA TotalPagesType ==
    ASSUME NEW total \in Nat, pageSize \in Nat \ {0}
    PROVE  totalPages(total) \in Nat
<1> DEFINE c == pageSize
           d == goDiv(total + c - 1, c)
<1>1. c \in Nat \ {0}
  OBVIOUS
<1> HIDE DEF c
<1>2. d \in Nat
  BY <1>1 DEF goDiv
<1> HIDE DEF d
<1>3. totalPages(total) = IF d = 0 THEN 1 ELSE d
  BY Zenon DEF totalPages, d, c
<1> QED
  BY <1>2, <1>3

(* All rows fit on the pages that are counted. *)
LEMMA PagesCover ==
    ASSUME NEW total \in Nat, pageSize \in Nat \ {0}, NEW p \in Int, totalPages(total) <= p
    PROVE  p >= 1 /\ total <= p * pageSize
<1> DEFINE c == pageSize
           n == goDiv(total + c - 1, c)
<1>1. c \in Nat \ {0}
  OBVIOUS
<1>2. (n = 0 => 1 <= p) /\ (n # 0 => n <= p)
  BY DEF totalPages
<1> HIDE DEF c
<1>3. n = (total + c - 1) \div c
  BY <1>1 DEF goDiv
<1>4. (total + c - 1) \div c \in Nat
  BY <1>1
<1>5. total + c - 1 < ((total + c - 1) \div c) * c + c
  BY <1>1
<1> HIDE DEF n
<1>6. n \in Nat /\ p \in Nat /\ n <= p /\ total <= n * c
  <2>1. n \in Nat /\ p \in Nat /\ n <= p
    BY <1>2, <1>3, <1>4
  <2>2. n * c \in Nat /\ total + c - 1 < n * c + c
    BY <1>1, <1>3, <1>5, <2>1
  <2> QED
    BY <1>1, <2>1, <2>2
<1>7. n * c <= p * c
  <2> DEFINE d == p - n
  <2>1. d \in Nat /\ p = n + d
    BY <1>6
  <2> HIDE DEF d
  <2>2. (n + d) * c = n * c + d * c /\ d * c \in Nat /\ n * c \in Nat
    BY <1>1, <1>6, <2>1
  <2> QED
    BY <2>1, <2>2
<1>8. n * c \in Nat /\ p * c \in Nat
  BY <1>1, <1>6
<1>9. p >= 1
  BY <1>2, <1>6
<1> QED
  BY <1>6, <1>7, <1>8, <1>9 DEF c

-------------------------------------------------------------------------------
(* Paging: the inductive invariant *)

WalkPCs == {"idle", "list", "count", "done", "failed"}

PagingTypes ==
    /\ DOMAIN at \subseteq Rows /\ at \in [DOMAIN at -> Nat]
    /\ match \subseteq DOMAIN at /\ IsFiniteSet(match)
    /\ walk \in [pc : WalkPCs, first : Int, page : Int, size : Int]
    /\ walk.first <= walk.page
    /\ seen \in [Rows -> Nat]

(* What the history variables say about the table: a row that is in the list was *)
(* there from the beginning or came later.                                       *)
HistoryInv ==
    /\ there \cup came \cup left \subseteq DOMAIN at
    /\ walk.pc = "idle" =>
          there = {} /\ came = {} /\ left = {} /\ seen = [r \in Rows |-> 0]
    /\ walk.pc # "idle" => there \subseteq match /\ match \subseteq there \cup came

(* How many places of the list the pages read so far, or passed over, stand for. *)
Reached == IF walk.pc = "list" THEN offset(walk.page, walk.size)
           ELSE offset(walk.page, walk.size) + clampSize(walk.size)

(* Why a row may be returned twice, and why it may be missed. *)
MayRepeat(r) == Before(r, came) \/ Tied(r) \/ (list = "audit" /\ walk.first < 1)
MaySkip(r)   == Tied(r) \/ Before(r, left) \/ (list = "audit" /\ Clamped)

(* A row that was returned is behind the walk: what comes before it can only     *)
(* become less.                                                                  *)
RepeatInv ==
    \A r \in there :
        \/ MayRepeat(r)
        \/ seen[r] = 0
        \/ seen[r] = 1 /\ (Walking => Cardinality(Earlier(r, there)) < Reached)

(* A row that was not returned is ahead of the walk: what comes before it can    *)
(* only become more.                                                             *)
SkipInv ==
    walk.pc \in {"list", "count", "done"} /\ walk.first <= 1 =>
        \A r \in there :
            \/ seen[r] > 0
            \/ MaySkip(r)
            \/ Walking /\ Reached <= Cardinality(Earlier(r, match))

PagingInv == PagingTypes /\ HistoryInv /\ RepeatInv /\ SkipInv

LEMMA InitPagingInv == PagingInit => PagingInv
<1> SUFFICES ASSUME PagingInit PROVE PagingInv
  OBVIOUS
<1>1. /\ walk = [pc |-> "idle", first |-> 0, page |-> 0, size |-> 0]
      /\ at = [r \in {} |-> 0] /\ match = {} /\ seen = [r \in Rows |-> 0]
      /\ there = {} /\ came = {} /\ left = {}
  BY DEF PagingInit
<1>2. PagingTypes
  <2>1. IsFiniteSet(match)
    BY <1>1, FS_EmptySet
  <2>2. DOMAIN at \subseteq Rows /\ at \in [DOMAIN at -> Nat] /\ match \subseteq DOMAIN at
    BY <1>1
  <2>3. walk \in [pc : WalkPCs, first : Int, page : Int, size : Int] /\ walk.first <= walk.page
    BY <1>1 DEF WalkPCs
  <2>4. seen \in [Rows -> Nat]
    BY <1>1
  <2> QED
    BY <2>1, <2>2, <2>3, <2>4 DEF PagingTypes
<1>3. HistoryInv
  BY <1>1 DEF HistoryInv
<1>4. RepeatInv /\ SkipInv
  BY <1>1 DEF RepeatInv, SkipInv
<1> QED
  BY <1>2, <1>3, <1>4 DEF PagingInv

LEMMA WalkBounds ==
    ASSUME PagingTypes
    PROVE  /\ walk.page \in Int /\ walk.size \in Int /\ walk.first \in Int
           /\ clampSize(walk.size) \in Nat \ {0}
           /\ offset(walk.page, walk.size) \in Nat
           /\ Reached \in Nat
<1>1. walk.page \in Int /\ walk.size \in Int /\ walk.first \in Int
  BY DEF PagingTypes
<1>2. clampSize(walk.size) \in Nat \ {0} /\ offset(walk.page, walk.size) \in Nat
  BY <1>1, PageBounds
<1> QED
  BY <1>1, <1>2 DEF Reached

(* The excuses are never taken back. *)
LEMMA ExcusesStay ==
    ASSUME HistoryInv, NEW r \in there,
           \A q \in DOMAIN at : q \in DOMAIN at' /\ at'[q] = at[q],
           came \subseteq came', left \subseteq left',
           there \cup came \cup left \subseteq there' \cup came' \cup left',
           list' = list, walk'.first = walk.first, walk'.size = walk.size
    PROVE  /\ MayRepeat(r) => MayRepeat(r)'
           /\ MaySkip(r) => MaySkip(r)'
<1>1. r \in DOMAIN at /\ came \subseteq DOMAIN at /\ left \subseteq DOMAIN at
      /\ there \cup came \cup left \subseteq DOMAIN at
  BY DEF HistoryInv
<1>2. Before(r, came) => Before(r, came)'
  BY <1>1 DEF Before
<1>3. Before(r, left) => Before(r, left)'
  BY <1>1 DEF Before
<1>4. Tied(r) => Tied(r)'
  BY <1>1 DEF Tied
<1>5. Clamped => Clamped'
  BY DEF Clamped, clampSize
<1> QED
  BY <1>2, <1>3, <1>4, <1>5 DEF MayRepeat, MaySkip

-------------------------------------------------------------------------------
(* Paging: the table changes *)

(* What a change of the table does while a client walks: rows keep their times,   *)
(* what comes is noted in came, and what goes in left.                            *)
TableMoves ==
    /\ walk' = walk /\ seen' = seen /\ list' = list
    /\ \A q \in DOMAIN at : q \in DOMAIN at' /\ at'[q] = at[q]
    /\ there' \subseteq there /\ came \subseteq came' /\ left \subseteq left'
    /\ there \cup came \cup left \subseteq there' \cup came' \cup left'
    /\ match \ match' \subseteq left'

LEMMA EntersTypes ==
    ASSUME PagingTypes, HistoryInv, Watched, NEW r, Enters(r), walk' = walk, seen' = seen,
           DOMAIN at \subseteq DOMAIN at', r \in DOMAIN at', DOMAIN at' \subseteq Rows,
           at' \in [DOMAIN at' -> Nat]
    PROVE  PagingTypes' /\ HistoryInv'
<1>1. IsFiniteSet(match')
  BY FS_AddElement DEF PagingTypes, Enters
<1>2. PagingTypes'
  BY <1>1 DEF PagingTypes, Enters
<1>3. match' = match \cup {r} /\ there' = there /\ left' = left
  BY DEF Enters
<1>4. walk.pc = "idle" => came' = came
  BY DEF Enters, Walking
<1>5. came \subseteq came' /\ came' \subseteq came \cup {r}
  BY DEF Enters
<1>6. walk.pc \in {"list", "count"} => came' = came \cup {r}
  BY DEF Enters, Walking
<1>7. walk.pc \in {"idle", "list", "count"}
  BY DEF Watched
<1>8. HistoryInv'
  BY <1>3, <1>4, <1>5, <1>6, <1>7 DEF HistoryInv
<1> QED
  BY <1>2, <1>8

LEMMA InsertMoves ==
    ASSUME PagingTypes, HistoryInv, NEW r \in Rows, NEW t \in Times, Insert(r, t)
    PROVE  PagingTypes' /\ HistoryInv' /\ TableMoves
<1>1. /\ Watched /\ Enters(r) /\ r \notin DOMAIN at
      /\ walk' = walk /\ seen' = seen /\ list' = list
      /\ at' = [i \in DOMAIN at \cup {r} |-> IF i = r THEN t ELSE at[i]]
  BY DEF Insert
<1>2. t \in Nat /\ at \in [DOMAIN at -> Nat] /\ DOMAIN at \subseteq Rows
  BY PagingConstants DEF PagingTypes
<1>3. DOMAIN at' = DOMAIN at \cup {r} /\ at' \in [DOMAIN at' -> Nat]
  BY <1>1, <1>2
<1>4. PagingTypes' /\ HistoryInv'
  BY <1>1, <1>2, <1>3, EntersTypes
<1>5. TableMoves
  BY <1>1, <1>3 DEF TableMoves, Enters
<1> QED
  BY <1>4, <1>5

LEMMA ChangeStatusMoves ==
    ASSUME PagingTypes, HistoryInv, NEW r \in Rows, ChangeStatus(r)
    PROVE  PagingTypes' /\ HistoryInv' /\ (walk.pc # "idle" => TableMoves)
<1>1. /\ Watched /\ r \in DOMAIN at
      /\ walk' = walk /\ seen' = seen /\ list' = list /\ at' = at
  BY DEF ChangeStatus
<1>2. CASE Enters(r)
  <2>1. PagingTypes' /\ HistoryInv'
    BY <1>1, <1>2, EntersTypes DEF PagingTypes
  <2>2. TableMoves
    BY <1>1, <1>2 DEF TableMoves, Enters
  <2> QED
    BY <2>1, <2>2
<1>3. CASE /\ match' = match \ {r} /\ there' = there \ {r} /\ came' = came
           /\ left' = IF Walking THEN left \cup {r} ELSE left
  <2>1. IsFiniteSet(match')
    BY <1>3, FS_RemoveElement DEF PagingTypes
  <2>2. PagingTypes'
    BY <1>1, <1>3, <2>1 DEF PagingTypes
  <2>3. walk.pc = "idle" => left' = left
    BY <1>3 DEF Walking
  <2>4. walk.pc # "idle" => left' = left \cup {r}
    BY <1>1, <1>3 DEF Walking, Watched
  <2>5. left' \subseteq left \cup {r}
    BY <1>3
  <2>6. HistoryInv'
    <3>1. there' \cup came' \cup left' \subseteq DOMAIN at'
      BY <1>1, <1>3, <2>5 DEF HistoryInv
    <3>2. walk.pc = "idle" => there' = {} /\ came' = {} /\ left' = {} /\ seen' = [q \in Rows |-> 0]
      BY <1>1, <1>3, <2>3 DEF HistoryInv
    <3>3. walk.pc # "idle" => there' \subseteq match' /\ match' \subseteq there' \cup came'
      BY <1>3 DEF HistoryInv
    <3> QED
      BY <1>1, <3>1, <3>2, <3>3 DEF HistoryInv
  <2>7. walk.pc # "idle" => TableMoves
    BY <1>1, <1>3, <2>4 DEF TableMoves
  <2> QED
    BY <2>2, <2>6, <2>7
<1> QED
  BY <1>2, <1>3 DEF ChangeStatus

(* Rows that come and go leave the invariant as it is: one that comes before a row *)
(* is an excuse for returning it twice, one that goes for missing it.              *)
LEMMA TableKeeps ==
    ASSUME PagingInv, PagingTypes', HistoryInv', TableMoves
    PROVE  RepeatInv' /\ SkipInv'
<1>1. /\ there' \subseteq there /\ walk' = walk /\ seen' = seen /\ Reached' = Reached
      /\ Walking' = Walking
  BY DEF TableMoves, Reached, Walking
<1>2. /\ there \subseteq DOMAIN at /\ match \subseteq DOMAIN at /\ IsFiniteSet(match)
      /\ match' \subseteq DOMAIN at' /\ IsFiniteSet(match')
      /\ walk.pc # "idle" => there \subseteq match
      /\ walk.pc = "idle" => there = {}
  BY DEF PagingInv, PagingTypes, HistoryInv
<1>3. \A q \in DOMAIN at : at'[q] = at[q]
  BY DEF TableMoves
<1>4. Reached \in Nat
  BY WalkBounds DEF PagingInv
<1>5. ASSUME NEW r \in there', MayRepeat(r) \/ MaySkip(r)
      PROVE  /\ MayRepeat(r) => MayRepeat(r)'
             /\ MaySkip(r) => MaySkip(r)'
  BY <1>1, ExcusesStay DEF PagingInv, TableMoves
<1>6. RepeatInv'
  <2> SUFFICES ASSUME NEW r \in there',
                      ~MayRepeat(r)', seen'[r] # 0
               PROVE  seen'[r] = 1 /\ (Walking' => Cardinality(Earlier(r, there)') < Reached')
    BY DEF RepeatInv
  <2>1. r \in there /\ ~MayRepeat(r)
    BY <1>1, <1>5
  <2>2. seen[r] = 1 /\ (Walking => Cardinality(Earlier(r, there)) < Reached)
    BY <1>1, <2>1 DEF PagingInv, RepeatInv
  <2>3. Earlier(r, there)' \subseteq Earlier(r, there)
    BY <1>1, <1>2, <1>3, <2>1 DEF Earlier
  <2>4. IsFiniteSet(Earlier(r, there))
    <3>1. IsFiniteSet(there)
      BY <1>2, FS_Subset, FS_EmptySet
    <3> QED
      BY <3>1, FS_Subset DEF Earlier
  <2>5. /\ Cardinality(Earlier(r, there)') <= Cardinality(Earlier(r, there))
        /\ Cardinality(Earlier(r, there)') \in Nat /\ Cardinality(Earlier(r, there)) \in Nat
    BY <2>3, <2>4, FS_Subset, FS_CardinalityType
  <2> QED
    BY <1>1, <1>4, <2>2, <2>5
<1>7. SkipInv'
  <2> SUFFICES ASSUME walk'.pc \in {"list", "count", "done"}, walk'.first <= 1,
                      NEW r \in there', ~(seen'[r] > 0), ~MaySkip(r)'
               PROVE  Walking' /\ Reached' <= Cardinality(Earlier(r, match)')
    BY DEF SkipInv
  <2>1. r \in there /\ ~MaySkip(r)
    BY <1>1, <1>5
  <2>2. Walking /\ Reached <= Cardinality(Earlier(r, match))
    BY <1>1, <2>1 DEF PagingInv, SkipInv
  <2>3. Earlier(r, match) \subseteq Earlier(r, match)'
    <3> SUFFICES ASSUME NEW q \in match, at[q] > at[r] PROVE q \in match' /\ at'[q] > at'[r]
      BY DEF Earlier
    <3>1. at'[q] = at[q] /\ at'[r] = at[r] /\ q # r
      BY <1>2, <1>3, <2>1 DEF PagingInv, PagingTypes
    <3>2. at'[q] >= at'[r] /\ at'[q] > at'[r]
      BY <1>2, <2>1, <3>1 DEF PagingInv, PagingTypes
    <3>3. q \notin left'
      BY <3>1, <3>2 DEF MaySkip, Before
    <3> QED
      BY <3>2, <3>3 DEF TableMoves
  <2>4. IsFiniteSet(Earlier(r, match)')
    BY <1>2, FS_Subset DEF Earlier
  <2>5. /\ Cardinality(Earlier(r, match)) <= Cardinality(Earlier(r, match)')
        /\ Cardinality(Earlier(r, match)') \in Nat /\ Cardinality(Earlier(r, match)) \in Nat
    BY <2>3, <2>4, FS_Subset, FS_CardinalityType
  <2> QED
    BY <1>1, <1>4, <2>2, <2>5
<1> QED
  BY <1>6, <1>7

-------------------------------------------------------------------------------
(* Paging: the walk *)

(* The list does not change. *)
LEMMA WalkTypes ==
    ASSUME PagingTypes, UNCHANGED <<list, at, match>>,
           walk' \in [pc : WalkPCs, first : Int, page : Int, size : Int],
           walk'.first <= walk'.page, seen' \in [Rows -> Nat]
    PROVE  PagingTypes'
BY DEF PagingTypes

LEMMA StartKeeps ==
    ASSUME PagingInv, NEW q \in Queries, Start(q[1], q[2])
    PROVE  PagingInv'
<1> DEFINE first == q[1]
           size == q[2]
<1>1. /\ walk.pc = "idle"
      /\ walk' = [pc |-> "list", first |-> first, page |-> first, size |-> size]
      /\ there' = match /\ UNCHANGED <<list, at, match, seen, came, left>>
  BY DEF Start
<1>2. first \in Int /\ size \in Int
  BY PagingConstants
<1> HIDE DEF first, size
<1>3. PagingTypes'
  <2>1. /\ walk' \in [pc : WalkPCs, first : Int, page : Int, size : Int]
        /\ walk'.first <= walk'.page
    BY <1>1, <1>2 DEF WalkPCs
  <2>2. seen' \in [Rows -> Nat] /\ PagingTypes
    BY <1>1 DEF PagingInv, PagingTypes
  <2> QED
    BY <1>1, <2>1, <2>2, WalkTypes
<1>4. /\ came = {} /\ left = {} /\ seen = [r \in Rows |-> 0]
      /\ match \subseteq DOMAIN at /\ DOMAIN at \subseteq Rows /\ IsFiniteSet(match)
  BY <1>1 DEF PagingInv, HistoryInv, PagingTypes
<1>5. HistoryInv'
  BY <1>1, <1>4 DEF HistoryInv
<1>6. RepeatInv'
  <2>1. \A r \in there' : seen'[r] = 0
    BY <1>1, <1>4
  <2> QED
    BY <2>1 DEF RepeatInv
<1>7. SkipInv'
  <2> SUFFICES ASSUME walk'.first <= 1, NEW r \in there'
               PROVE  Walking' /\ Reached' <= Cardinality(Earlier(r, match)')
    BY DEF SkipInv
  <2>1. Walking' /\ Reached' = offset(first, size)
    BY <1>1 DEF Walking, Reached
  <2>2. offset(first, size) = 0
    BY <1>1, <1>2, PageBounds
  <2>3. IsFiniteSet(Earlier(r, match)')
    BY <1>1, <1>4, FS_Subset DEF Earlier
  <2>4. Cardinality(Earlier(r, match)') \in Nat
    BY <2>3, FS_CardinalityType
  <2> QED
    BY <2>1, <2>2, <2>4
<1> QED
  BY <1>3, <1>5, <1>6, <1>7 DEF PagingInv

(* A row that is not tied is returned by the page its place is on. *)
LEMMA Listed ==
    ASSUME PagingInv, walk.pc = "list", NEW s \in Sorted(match), NEW r \in there, ~Tied(r)
    PROVE  /\ Cardinality(Earlier(r, match)) \in Nat
           /\ r \in PageOf(s, walk.page, walk.size) <=>
                 /\ Reached <= Cardinality(Earlier(r, match))
                 /\ Cardinality(Earlier(r, match)) < Reached + clampSize(walk.size)
<1>1. /\ IsFiniteSet(match) /\ \A q \in match : at[q] \in Nat
      /\ there \subseteq match /\ match \subseteq there \cup came
  BY DEF PagingInv, PagingTypes, HistoryInv
<1>2. \A q \in match \ {r} : at[q] # at[r]
  BY <1>1 DEF Tied
<1>3. Cardinality(Earlier(r, match)) \in Nat
  <2>1. IsFiniteSet(Earlier(r, match))
    BY <1>1, FS_Subset DEF Earlier
  <2> QED
    BY <2>1, FS_CardinalityType
<1>4. Reached = offset(walk.page, walk.size) /\ Reached \in Nat
      /\ clampSize(walk.size) \in Nat
  BY WalkBounds DEF Reached, PagingInv
<1> DEFINE e == Cardinality(Earlier(r, match))
<1>5. r \in PageOf(s, walk.page, walk.size) <=>
         e + 1 > Reached /\ e + 1 <= Reached + clampSize(walk.size)
  BY <1>1, <1>2, <1>4, RowOfPage
<1>6. e \in Nat
  BY <1>3
<1> HIDE DEF e
<1>7. r \in PageOf(s, walk.page, walk.size) <=>
         Reached <= e /\ e < Reached + clampSize(walk.size)
  BY <1>4, <1>5, <1>6
<1> QED
  BY <1>6, <1>7 DEF e

LEMMA ListRowsKeeps ==
    ASSUME PagingInv, ListRows
    PROVE  PagingInv'
<1>1. PICK s \in Sorted(match) :
         seen' = [r \in Rows |-> IF r \in PageOf(s, walk.page, walk.size)
                                 THEN seen[r] + 1 ELSE seen[r]]
  BY DEF ListRows
<1>2. /\ walk.pc = "list" /\ walk' = [walk EXCEPT !.pc = "count"]
      /\ UNCHANGED <<list, at, match, there, came, left>>
  BY DEF ListRows
<1>3. /\ walk \in [pc : WalkPCs, first : Int, page : Int, size : Int]
      /\ walk.first <= walk.page /\ seen \in [Rows -> Nat]
  BY DEF PagingInv, PagingTypes
<1>4. /\ walk' \in [pc : WalkPCs, first : Int, page : Int, size : Int]
      /\ walk'.pc = "count" /\ walk'.first = walk.first /\ walk'.page = walk.page
      /\ walk'.size = walk.size
  BY <1>2, <1>3 DEF WalkPCs
<1>5. seen' \in [Rows -> Nat]
  BY <1>1, <1>3
<1>6. PagingTypes'
  BY <1>2, <1>3, <1>4, <1>5, WalkTypes DEF PagingInv
<1>7. HistoryInv'
  BY <1>2, <1>4 DEF PagingInv, HistoryInv
<1>8. Reached' = Reached + clampSize(walk.size) /\ Walking' /\ Walking
  BY <1>2, <1>4 DEF Reached, Walking
<1>9. Reached \in Nat /\ clampSize(walk.size) \in Nat \ {0}
  BY WalkBounds DEF PagingInv
<1>10. /\ there \subseteq match /\ match \subseteq there \cup came
       /\ there \subseteq Rows
  BY <1>2 DEF PagingInv, PagingTypes, HistoryInv
<1>11. ASSUME NEW r \in there
       PROVE  (MayRepeat(r) => MayRepeat(r)') /\ (MaySkip(r) => MaySkip(r)')
  BY <1>2, <1>4, ExcusesStay DEF PagingInv
<1>12. ASSUME NEW r \in there
       PROVE  /\ seen[r] \in Nat
              /\ seen'[r] = IF r \in PageOf(s, walk.page, walk.size) THEN seen[r] + 1 ELSE seen[r]
              /\ Earlier(r, match)' = Earlier(r, match) /\ Earlier(r, there)' = Earlier(r, there)
  BY <1>1, <1>2, <1>3, <1>10 DEF Earlier
<1>13. RepeatInv'
  <2> SUFFICES ASSUME NEW r \in there, ~MayRepeat(r)', seen'[r] # 0
               PROVE  seen'[r] = 1 /\ Cardinality(Earlier(r, there)') < Reached'
    BY <1>2 DEF RepeatInv
  <2>1. ~MayRepeat(r) /\ ~Tied(r)
    BY <1>11 DEF MayRepeat
  <2>2. seen[r] = 0 \/ (seen[r] = 1 /\ Cardinality(Earlier(r, there)) < Reached)
    BY <1>8, <2>1 DEF PagingInv, RepeatInv
  <2>3. Earlier(r, there) = Earlier(r, match)
    <3> SUFFICES ASSUME NEW q \in match, at[q] > at[r] PROVE q \in there
      BY <1>10 DEF Earlier
    <3>1. at[q] \in Nat /\ at[r] \in Nat
      BY <1>10 DEF PagingInv, PagingTypes
    <3>2. q # r /\ at[q] >= at[r]
      BY <3>1
    <3>3. q \notin came
      BY <2>1, <3>2 DEF MayRepeat, Before
    <3> QED
      BY <1>10, <3>3
  <2> DEFINE e == Cardinality(Earlier(r, match))
  <2>4. /\ e \in Nat
        /\ r \in PageOf(s, walk.page, walk.size) <=>
              Reached <= e /\ e < Reached + clampSize(walk.size)
    BY <1>2, <2>1, Listed
  <2>5. Cardinality(Earlier(r, there)) = e /\ Cardinality(Earlier(r, there)') = e
    BY <1>12, <2>3
  <2> HIDE DEF e
  <2> QED
    BY <1>8, <1>9, <1>12, <2>2, <2>4, <2>5
<1>14. SkipInv'
  <2> SUFFICES ASSUME walk.first <= 1, NEW r \in there, ~(seen'[r] > 0), ~MaySkip(r)'
               PROVE  Reached' <= Cardinality(Earlier(r, match)')
    BY <1>2, <1>4, <1>8 DEF SkipInv
  <2>1. ~MaySkip(r) /\ ~Tied(r)
    BY <1>11 DEF MaySkip
  <2>2. seen[r] > 0 \/ Reached <= Cardinality(Earlier(r, match))
    BY <1>2, <2>1 DEF PagingInv, SkipInv
  <2> DEFINE e == Cardinality(Earlier(r, match))
  <2>3. /\ e \in Nat
        /\ r \in PageOf(s, walk.page, walk.size) <=>
              Reached <= e /\ e < Reached + clampSize(walk.size)
    BY <1>2, <2>1, Listed
  <2>4. Cardinality(Earlier(r, match)') = e
    BY <1>12
  <2>5. seen[r] > 0 \/ Reached <= e
    BY <2>2
  <2> HIDE DEF e
  <2> QED
    BY <1>8, <1>9, <1>12, <2>3, <2>4, <2>5
<1> QED
  BY <1>6, <1>7, <1>13, <1>14 DEF PagingInv

(* The page a response names: the page that was read, if there is such a page. *)
LEMMA AnsweredPage ==
    ASSUME PagingTypes
    PROVE  /\ answeredPage \in Int /\ walk.page <= answeredPage
           /\ list # "audit" \/ walk.page >= 1 => answeredPage = clampPage(walk.page)
           /\ answeredPage \in {walk.page, clampPage(walk.page)}
<1>1. walk.page \in Int
  BY DEF PagingTypes
<1> QED
  BY <1>1 DEF answeredPage, clampPage

LEMMA CountRowsKeeps ==
    ASSUME PagingInv, CountRows
    PROVE  PagingInv'
<1> DEFINE total == Cardinality(match)
           next == [walk EXCEPT !.pc = "list", !.page = answeredPage + 1]
<1>1. /\ walk.pc = "count" /\ pageSize # 0
      /\ UNCHANGED <<list, at, match, seen, there, came, left>>
      /\ \/ answeredPage < totalPages(total) /\ walk' = next
         \/ ~(answeredPage < totalPages(total)) /\ walk' = [walk EXCEPT !.pc = "done"]
  BY DEF CountRows
<1>2. /\ walk \in [pc : WalkPCs, first : Int, page : Int, size : Int]
      /\ walk.first <= walk.page /\ PagingTypes
  BY DEF PagingInv, PagingTypes
<1>3. /\ walk.page \in Int /\ walk.size \in Int /\ walk.first \in Int
      /\ clampSize(walk.size) \in Nat \ {0} /\ offset(walk.page, walk.size) \in Nat
      /\ Reached \in Nat
  BY <1>2, WalkBounds
<1>4. answeredPage \in Int /\ walk.page <= answeredPage
  BY <1>2, AnsweredPage
<1>5. /\ walk' \in [pc : WalkPCs, first : Int, page : Int, size : Int]
      /\ walk'.first = walk.first /\ walk'.size = walk.size
      /\ walk'.first <= walk'.page /\ walk'.pc \in {"list", "done"}
      /\ walk'.pc = "list" => walk'.page = answeredPage + 1
      /\ walk'.pc = "done" => ~(answeredPage < totalPages(total))
  <2> HIDE DEF total
  <2>1. CASE walk' = next
    <3>1. answeredPage + 1 \in Int /\ walk.first <= answeredPage + 1
      BY <1>2, <1>3, <1>4
    <3>2. /\ walk'.pc = "list" /\ walk'.page = answeredPage + 1
          /\ walk'.first = walk.first /\ walk'.size = walk.size
      BY <1>2, <2>1
    <3>3. walk' \in [pc : WalkPCs, first : Int, page : Int, size : Int]
      BY <1>2, <2>1, <3>1 DEF WalkPCs
    <3> QED
      BY <3>1, <3>2, <3>3
  <2>2. CASE walk' = [walk EXCEPT !.pc = "done"] /\ ~(answeredPage < totalPages(total))
    BY <1>2, <1>3, <2>2 DEF WalkPCs
  <2> QED
    BY <1>1, <2>1, <2>2
<1>6. PagingTypes'
  BY <1>1, <1>2, <1>5, WalkTypes DEF PagingTypes
<1>7. HistoryInv'
  BY <1>1, <1>5 DEF PagingInv, HistoryInv
<1>8. Reached = offset(walk.page, walk.size) + clampSize(walk.size) /\ Walking
  BY <1>1 DEF Reached, Walking
<1>9. /\ Walking' <=> walk'.pc = "list"
      /\ walk'.pc = "list" => Reached' = offset(answeredPage + 1, walk.size)
  BY <1>5 DEF Walking, Reached
<1>10. /\ offset(clampPage(walk.page) + 1, walk.size) = Reached
       /\ offset(walk.page + 1, walk.size) <= Reached
  BY <1>3, <1>8, PageBounds
<1>11. ASSUME NEW r \in there
       PROVE  (MayRepeat(r) => MayRepeat(r)') /\ (MaySkip(r) => MaySkip(r)')
  BY <1>1, <1>5, ExcusesStay DEF PagingInv
<1>12. ASSUME NEW r \in there
       PROVE  /\ Earlier(r, match)' = Earlier(r, match) /\ Earlier(r, there)' = Earlier(r, there)
              /\ seen'[r] = seen[r]
  BY <1>1 DEF Earlier
<1>13. RepeatInv'
  <2> SUFFICES ASSUME NEW r \in there, ~MayRepeat(r)', seen'[r] # 0
               PROVE  /\ seen'[r] = 1
                      /\ Walking' => Cardinality(Earlier(r, there)') < Reached'
    BY <1>1 DEF RepeatInv
  <2>1. ~MayRepeat(r)
    BY <1>11
  <2>2. seen[r] = 1 /\ Cardinality(Earlier(r, there)) < Reached
    BY <1>8, <1>12, <2>1 DEF PagingInv, RepeatInv
  <2>3. list # "audit" \/ walk.page >= 1
    BY <1>2, <1>3, <2>1 DEF MayRepeat
  <2>4. Walking' => Reached' = Reached
    BY <1>2, <1>9, <1>10, <2>3, AnsweredPage
  <2> QED
    BY <1>12, <2>2, <2>4
<1>14. SkipInv'
  <2> SUFFICES ASSUME walk.first <= 1, NEW r \in there, ~(seen'[r] > 0), ~MaySkip(r)'
               PROVE  Walking' /\ Reached' <= Cardinality(Earlier(r, match)')
    BY <1>1, <1>5 DEF SkipInv
  <2>1. ~MaySkip(r)
    BY <1>11
  <2>2. Reached <= Cardinality(Earlier(r, match))
    BY <1>1, <1>12, <2>1 DEF PagingInv, SkipInv
  <2>3. IsFiniteSet(match) /\ r \in match /\ at[r] \in Nat
    BY <1>1 DEF PagingInv, PagingTypes, HistoryInv
  <2>4. /\ total \in Nat /\ Cardinality(Earlier(r, match)) \in Nat
        /\ Cardinality(Earlier(r, match)) < total
    <3>1. Earlier(r, match) \subseteq match \ {r}
      BY <2>3 DEF Earlier
    <3>2. /\ IsFiniteSet(match \ {r}) /\ Cardinality(match \ {r}) = total - 1
          /\ total \in Nat
      BY <2>3, FS_RemoveElement, FS_CardinalityType
    <3>3. /\ Cardinality(Earlier(r, match)) \in Nat
          /\ Cardinality(Earlier(r, match)) <= Cardinality(match \ {r})
      BY <3>1, <3>2, FS_Subset, FS_CardinalityType
    <3> HIDE DEF total
    <3> QED
      BY <3>2, <3>3
  <2>5. CASE walk'.pc = "list"
    <3>1. Reached' <= Reached /\ Reached' \in Int
      <4>1. offset(answeredPage + 1, walk.size) \in Nat
        <5>1. answeredPage + 1 \in Int
          BY <1>4
        <5> QED
          BY <1>3, <5>1, PageBounds
      <4>2. offset(answeredPage + 1, walk.size) <= Reached
        BY <1>2, <1>3, <1>10, AnsweredPage
      <4> QED
        BY <1>9, <2>5, <4>1, <4>2
    <3> HIDE DEF total
    <3> QED
      BY <1>3, <1>9, <1>12, <2>2, <2>4, <2>5, <3>1
  <2>6. CASE walk'.pc = "done"
    <3>1. pageSize = clampSize(walk.size)
      BY <2>1 DEF pageSize, MaySkip, Clamped
    <3>2. totalPages(total) <= answeredPage
      <4>1. totalPages(total) \in Int
        BY <1>3, <2>4, <3>1, TotalPagesType
      <4> HIDE DEF total
      <4> QED
        BY <1>4, <1>5, <2>6, <4>1
    <3>3. answeredPage >= 1 /\ total <= answeredPage * pageSize
      BY <1>3, <1>4, <2>4, <3>1, <3>2, PagesCover
    <3>4. answeredPage = clampPage(walk.page)
      BY <1>2, <1>3, <3>3, AnsweredPage
    <3>5. Reached = answeredPage * pageSize
      BY <1>3, <1>8, <3>1, <3>4, PageBounds
    <3> HIDE DEF total
    <3> QED
      BY <1>3, <2>2, <2>4, <3>3, <3>5
  <2> QED
    BY <1>5, <2>5, <2>6
<1> QED
  BY <1>6, <1>7, <1>13, <1>14 DEF PagingInv

(* A walk that ends with an error. *)
LEMMA WalkFailsKeeps ==
    ASSUME PagingInv, CountPanics \/ QueryFails
    PROVE  PagingInv'
<1>1. /\ Walking /\ walk' = [walk EXCEPT !.pc = "failed"]
      /\ UNCHANGED <<list, at, match, seen, there, came, left>>
  BY DEF CountPanics, QueryFails, Walking
<1>2. /\ walk \in [pc : WalkPCs, first : Int, page : Int, size : Int]
      /\ walk.first <= walk.page
  BY DEF PagingInv, PagingTypes
<1>3. /\ walk' \in [pc : WalkPCs, first : Int, page : Int, size : Int]
      /\ walk'.pc = "failed" /\ walk'.first = walk.first /\ walk'.page = walk.page
      /\ walk'.size = walk.size
  BY <1>1, <1>2 DEF WalkPCs
<1>4. PagingTypes'
  BY <1>1, <1>2, <1>3, WalkTypes DEF PagingInv, PagingTypes
<1>5. HistoryInv'
  BY <1>1, <1>3 DEF PagingInv, HistoryInv, Walking
<1>6. SkipInv' /\ ~Walking'
  BY <1>3 DEF SkipInv, Walking
<1>7. RepeatInv'
  <2> SUFFICES ASSUME NEW r \in there, ~MayRepeat(r)', seen[r] # 0
               PROVE  seen[r] = 1
    BY <1>1, <1>6 DEF RepeatInv
  <2>1. ~MayRepeat(r)
    BY <1>1, <1>3, ExcusesStay DEF PagingInv
  <2> QED
    BY <2>1 DEF PagingInv, RepeatInv
<1> QED
  BY <1>4, <1>5, <1>6, <1>7 DEF PagingInv

-------------------------------------------------------------------------------
(* Paging: the theorems *)

LEMMA NextPagingInv == PagingInv /\ [PagingNext]_paging => PagingInv'
<1> SUFFICES ASSUME PagingInv, [PagingNext]_paging PROVE PagingInv'
  OBVIOUS
<1>0. PagingTypes /\ HistoryInv
  BY DEF PagingInv
<1>1. CASE \E r \in Rows, t \in Times : Insert(r, t)
  <2>1. PagingTypes' /\ HistoryInv' /\ TableMoves
    BY <1>0, <1>1, InsertMoves
  <2> QED
    BY <2>1, TableKeeps DEF PagingInv
<1>2. CASE \E r \in Rows : ChangeStatus(r)
  <2>1. PICK r \in Rows : ChangeStatus(r)
    BY <1>2
  <2>2. PagingTypes' /\ HistoryInv' /\ (walk.pc # "idle" => TableMoves)
    BY <1>0, <2>1, ChangeStatusMoves
  <2>3. CASE walk.pc # "idle"
    BY <2>2, <2>3, TableKeeps DEF PagingInv
  <2>4. CASE walk.pc = "idle"
    <3>1. walk' = walk
      BY <2>1 DEF ChangeStatus
    <3>2. there' = {}
      BY <2>2, <2>4, <3>1 DEF HistoryInv
    <3> QED
      BY <2>2, <3>2 DEF PagingInv, RepeatInv, SkipInv
  <2> QED
    BY <2>3, <2>4
<1>3. CASE \E q \in Queries : Start(q[1], q[2])
  BY <1>3, StartKeeps
<1>4. CASE ListRows
  BY <1>4, ListRowsKeeps
<1>5. CASE CountRows
  BY <1>5, CountRowsKeeps
<1>6. CASE CountPanics \/ QueryFails
  BY <1>6, WalkFailsKeeps
<1>7. CASE UNCHANGED paging
  <2>1. /\ PagingTypes' = PagingTypes /\ HistoryInv' = HistoryInv
        /\ RepeatInv' = RepeatInv /\ SkipInv' = SkipInv
    BY <1>7 DEF paging, PagingTypes, HistoryInv, RepeatInv, SkipInv, MayRepeat, MaySkip,
                Before, Tied, Clamped, Reached, Walking, Earlier
  <2> QED
    BY <2>1 DEF PagingInv
<1> QED
  BY <1>1, <1>2, <1>3, <1>4, <1>5, <1>6, <1>7 DEF PagingNext

(* The inductive invariant holds in every reachable state. *)
THEOREM PagingInvHolds == PagingSpec => []PagingInv
BY InitPagingInv, NextPagingInv, PTL DEF PagingSpec

(* However many rows, pages and page sizes: a client that walks a list from its    *)
(* first page to its last misses a row of it only for the reasons NothingSkipped   *)
(* names, although every page is an OFFSET into a table that changes.              *)
THEOREM NoRowIsSkipped == PagingSpec => []NothingSkipped
<1>1. PagingInv => NothingSkipped
  BY DEF PagingInv, SkipInv, NothingSkipped, MaySkip, Walking
<1> QED
  BY <1>1, PagingInvHolds, PTL

(* However many rows, pages and page sizes: a walk returns a row twice only for    *)
(* the reasons NothingRepeated names.                                              *)
THEOREM NoRowIsRepeated == PagingSpec => []NothingRepeated
<1>1. PagingInv => NothingRepeated
  BY DEF PagingInv, RepeatInv, NothingRepeated, MayRepeat
<1> QED
  BY <1>1, PagingInvHolds, PTL
===============================================================================
