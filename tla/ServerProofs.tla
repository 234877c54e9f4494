----------------------------- MODULE ServerProofs -----------------------------
(***************************************************************************)
(* The API process from its start to its end, for every set of             *)
(* transactions, partitions and consumer groups and whatever faults come   *)
(* in between: an orderly shutdown cuts off no request, an event has its   *)
(* effects once, and the migrations that come before never record what     *)
(* they have not done, for every list of scripts sorted by version and any *)
(* number of processes.                                                    *)
(***************************************************************************)
EXTENDS Server, Migrations, FiniteSetTheorems, TLAPS

(* What makes it so: no request runs once the deferred calls are made, none of  *)
(* them is made before, and only a goroutine that still runs has to publish.    *)
JobTypes     == job \in [Txns -> {"idle", "running", "committed", "done"}]
PublishTypes == DOMAIN unpublished = Txns
DrainedFirst == phase = "closing" => \A x \in Requests : job[x] \notin {"running", "committed"}
ClosedLater  == phase # "closing" => deferred = Closers
PendingRuns  == \A x \in Txns : unpublished[x] # <<>> => job[x] = "committed"

ShutdownInv ==
    /\ JobTypes
    /\ PublishTypes
    /\ DrainedFirst
    /\ ClosedLater
    /\ PendingRuns
    /\ ShutdownCutsOnlyTrades

-------------------------------------------------------------------------------
(* The producer is open as long as the shutdown has not come to the deferred calls. *)
LEMMA OpenBeforeClosing ==
    ASSUME deferred = Closers
    PROVE  ~Ran("kafkaProducer.Close")
<1>1. Closers[3] = "kafkaProducer.Close" /\ 3 \in DOMAIN Closers
  BY DEF Closers
<1>2. QED
  BY <1>1 DEF Ran, Range

(* A goroutine that has events to publish once the producer is closed is the engine's. *)
LEMMA ClosedUnderTrades ==
    ASSUME ShutdownInv, NEW x \in Txns, job[x] = "committed", phase = "closing"
    PROVE  x \in Trades
BY DEF ShutdownInv, DrainedFirst, Trades

LEMMA NothingInEmpty ==
    ASSUME NEW s, Range(s) # {}
    PROVE  s # <<>>
BY DEF Range

(* Every end of the process leaves nothing to publish and all clients to close. *)
LEMMA EndsKeeps ==
    ASSUME ShutdownInv, Ends, \A e \in cut' : e[1] \in Trades
    PROVE  ShutdownInv'
<1>1. JobTypes' /\ DrainedFirst' /\ ClosedLater'
  BY DEF Ends, ShutdownInv, JobTypes, DrainedFirst, ClosedLater, Closers
<1>2. PublishTypes' /\ PendingRuns'
  BY DEF Ends, Forget, PublishTypes, PendingRuns
<1>3. Trades' = Trades
  BY DEF Trades, Requests
<1>4. ShutdownCutsOnlyTrades'
  BY <1>3 DEF ShutdownCutsOnlyTrades
<1>5. QED
  BY <1>1, <1>2, <1>4 DEF ShutdownInv

LEMMA InitShutdown == ServerInit => ShutdownInv
BY DEF ServerInit, Init, ShutdownInv, JobTypes, PublishTypes, DrainedFirst, ClosedLater,
       PendingRuns, ShutdownCutsOnlyTrades

LEMMA TransactionKeeps ==
    ASSUME ShutdownInv, NEW x \in Txns,
           Begin(x) \/ CommitTxn(x) \/ Rollback(x) \/ Leave(x) \/ Answer(x)
    PROVE  ShutdownInv'
<1> USE DEF ShutdownInv, JobTypes, PublishTypes, DrainedFirst, ClosedLater, PendingRuns,
            ShutdownCutsOnlyTrades, Trades, Requests
<1>1. CASE Begin(x)
  <2>1. phase = "closing" => x \notin Requests
    BY <1>1 DEF Begin
  <2>2. QED
    BY <1>1, <2>1 DEF Begin, pipeline
<1>2. CASE CommitTxn(x)
  BY <1>2 DEF CommitTxn, Commit
<1>3. CASE Rollback(x)
  BY <1>3 DEF Rollback, pipeline
<1>4. CASE Leave(x)
  BY <1>4 DEF Leave, pipeline
<1>5. CASE Answer(x)
  BY <1>5 DEF Answer, pipeline
<1>6. QED
  BY <1>1, <1>2, <1>3, <1>4, <1>5

LEMMA PublishStepKeeps ==
    ASSUME ShutdownInv, NEW x \in Txns, PublishStep(x)
    PROVE  ShutdownInv'
<1>1. /\ job[x] = "committed"
      /\ unpublished' = [unpublished EXCEPT ![x] = Tail(@)]
      /\ UNCHANGED <<phase, deferred, job>>
  BY DEF PublishStep, PublishLost, Publish, PublishFail, PublishEvent, PublishRetried, server
<1>2. \A e \in cut' : e \in cut \/ (e[1] = x /\ Ran("kafkaProducer.Close"))
  BY DEF PublishStep, PublishLost, Publish, server
<1>3. \A e \in cut' : e[1] \in Trades
  <2>1. Ran("kafkaProducer.Close") => phase = "closing"
    BY OpenBeforeClosing DEF ShutdownInv, ClosedLater
  <2>2. QED
    BY <1>1, <1>2, <2>1, ClosedUnderTrades DEF ShutdownInv, ShutdownCutsOnlyTrades
<1>4. PendingRuns' /\ PublishTypes'
  BY <1>1 DEF ShutdownInv, PendingRuns, PublishTypes
<1>5. JobTypes' /\ DrainedFirst' /\ ClosedLater'
  BY <1>1 DEF ShutdownInv, JobTypes, DrainedFirst, ClosedLater, Requests
<1>6. QED
  BY <1>3, <1>4, <1>5 DEF ShutdownInv, ShutdownCutsOnlyTrades, Trades, Requests

(* Consumers and stuttering leave alone everything this is about. *)
LEMMA OthersKeep ==
    ASSUME ShutdownInv, UNCHANGED <<unpublished, server>>
    PROVE  ShutdownInv'
BY DEF server, ShutdownInv, JobTypes, PublishTypes, DrainedFirst, ClosedLater, PendingRuns,
       ShutdownCutsOnlyTrades, Trades, Requests

LEMMA ShutdownStepKeeps ==
    ASSUME ShutdownInv, Signal \/ ShutdownStep \/ Kill \/ Boot
    PROVE  ShutdownInv'
<1>1. CASE Signal \/ Drained \/ CloseNext \/ Boot
  BY <1>1 DEF Signal, Drained, CloseNext, Boot, pipeline, Running, ShutdownInv, JobTypes,
              PublishTypes, DrainedFirst, ClosedLater, PendingRuns, ShutdownCutsOnlyTrades,
              Trades, Requests
<1>2. CASE Exit
  <2>1. ASSUME NEW e \in cut' PROVE e[1] \in Trades
    <3>1. CASE e \in cut
      BY <3>1 DEF ShutdownInv, ShutdownCutsOnlyTrades
    <3>2. CASE e \notin cut
      <4>1. PICK x \in Txns : e \in {x} \X Range(unpublished[x])
        BY <1>2, <2>1, <3>2 DEF Exit
      <4>2. e[1] = x /\ Range(unpublished[x]) # {}
        BY <4>1
      <4>3. job[x] = "committed"
        BY <4>2, NothingInEmpty DEF ShutdownInv, PendingRuns
      <4>4. QED
        BY <1>2, <4>2, <4>3, ClosedUnderTrades DEF Exit
    <3>3. QED
      BY <3>1, <3>2
  <2>2. QED
    BY <1>2, <2>1, EndsKeeps DEF Exit
<1>3. CASE ForcedExit \/ Kill
  BY <1>3, EndsKeeps DEF ForcedExit, Kill, ShutdownInv, ShutdownCutsOnlyTrades
<1>4. QED
  BY <1>1, <1>2, <1>3 DEF ShutdownStep

LEMMA NextShutdown == ShutdownInv /\ [ServerNext]_vars => ShutdownInv'
<1> SUFFICES ASSUME ShutdownInv, [ServerNext]_vars PROVE ShutdownInv'
  OBVIOUS
<1>1. CASE \E x \in Txns : Begin(x) \/ CommitTxn(x) \/ Rollback(x) \/ Leave(x) \/ Answer(x)
  BY <1>1, TransactionKeeps
<1>2. CASE \E x \in Txns : PublishStep(x)
  BY <1>2, PublishStepKeeps
<1>3. CASE \E g \in Groups : \E t \in Reads(g) : Consume(g, t)
  BY <1>3, OthersKeep DEF Consume, ReadMessage, ReadMessageError, Handle,
                         HandleResent, HandleFail
<1>4. CASE Signal \/ ShutdownStep \/ Kill \/ Boot
  BY <1>4, ShutdownStepKeeps
<1>5. CASE UNCHANGED vars
  BY <1>5, OthersKeep DEF vars, pipeline
<1>6. QED
  BY <1>1, <1>2, <1>3, <1>4, <1>5 DEF ServerNext

(* What an orderly shutdown (srv.Shutdown and main's deferred calls) cuts off is *)
(* always an event of the engine, never one of a request.                        *)
THEOREM OnlyTradesAreCut == ServerSpec => []ShutdownCutsOnlyTrades
<1>1. ShutdownInv => ShutdownCutsOnlyTrades
  BY DEF ShutdownInv
<1>2. QED
  BY <1>1, InitShutdown, NextShutdown, PTL DEF ServerSpec

-------------------------------------------------------------------------------
(* Effects happen at most once *)

EventTypes ==
    {"order.created", "order.cancelled", "trade.executed", "wallet.updated buyer",
     "wallet.updated seller", "wallet.updated"}

EffectKinds == {"entry", "buyer", "seller", "total_volume", "trade_count"}

Events == Txns \X EventTypes

(* Every partition holds events of its own topic; no reader is beyond its end, and *)
(* no offset is committed beyond what the reader has fetched.                      *)
LogInv ==
    /\ unpublished \in [Txns -> Seq(EventTypes)]
    /\ log \in [Topics -> [Partitions -> Seq(Events)]]
    /\ \A t \in Topics : \A p \in Partitions : \A i \in 1..Len(log[t][p]) :
          TopicOf(log[t][p][i][2]) = t
    /\ offset \in [Groups -> [Topics -> [Partitions -> Nat]]]
    /\ position \in [Groups -> [Topics -> [Partitions -> Nat]]]
    /\ \A g \in Groups : \A t \in Topics : \A p \in Partitions :
          /\ offset[g][t][p] <= position[g][t][p]
          /\ position[g][t][p] <= Len(log[t][p])

(* What a group with these offsets has read of event e, as ReadsOf says it, for *)
(* the partitions before a step and after it.                                   *)
ReadsIn(lg, off, e) ==
    LET t == TopicOf(e[2])
    IN  UNION {{p} \X {i \in 1..off[t][p] : lg[t][p][i] = e} : p \in Partitions}

IsRead(lg, off, e, p, i) ==
    /\ p \in Partitions /\ i \in 1..off[TopicOf(e[2])][p]
    /\ lg[TopicOf(e[2])][p][i] = e

(* What a group has read of an event can be counted. *)
ReadsInv == \A g \in Groups : \A e \in Events : IsFiniteSet(ReadsIn(log, offset[g], e))

(* How often effect a may have happened, with these messages and offsets and what *)
(* the Redis client has added.                                                    *)
Owed(lg, off, rs, a) == Cardinality(ReadsIn(lg, off[a[1]], a[2])) + rs[a]

(* An effect that goroutine (g, t) has at hand is its own and happened less often *)
(* than its message was read.                                                     *)
Due(g, t, a, dn, lg, off, rs) ==
    /\ a[1] = g /\ a[2] \in Events /\ TopicOf(a[2][2]) = t
    /\ a \in AllEffects => dn[a] < Owed(lg, off, rs, a)

NoRepeat(s) == \A i, j \in 1..Len(s) : s[i] = s[j] => i = j

HandTypes == [Groups -> [Topics -> Seq(Groups \X Events \X EffectKinds)]]

HandInv ==
    /\ inHand \in HandTypes
    /\ \A g \in Groups : \A t \in Topics :
          /\ NoRepeat(inHand[g][t])
          /\ \A i \in 1..Len(inHand[g][t]) : Due(g, t, inHand[g][t][i], done, log, offset, resent)

DoneInv ==
    /\ done \in [AllEffects -> Nat] /\ resent \in [AllEffects -> Nat]
    /\ \A a \in AllEffects : done[a] <= Owed(log, offset, resent, a)

OnceInv ==
    /\ LogInv
    /\ ReadsInv
    /\ HandInv
    /\ DoneInv

-------------------------------------------------------------------------------
(* Sequences of effects that group g has on account of event m, none twice. *)
OwnEffects(s, g, m) ==
    /\ s \in Seq(Groups \X Events \X EffectKinds)
    /\ \A i \in 1..Len(s) : s[i][1] = g /\ s[i][2] = m
    /\ NoRepeat(s)

LEMMA OwnSequences ==
    ASSUME NEW g \in Groups, NEW m \in Events, NEW a \in EffectKinds, NEW b \in EffectKinds
    PROVE  /\ OwnEffects(<<<<g, m, a>>>>, g, m)
           /\ a # b => OwnEffects(<<<<g, m, a>>, <<g, m, b>>>>, g, m)
<1> DEFINE x == <<g, m, a>>
           y == <<g, m, b>>
           S == Groups \X Events \X EffectKinds
<1>1. x \in S /\ y \in S /\ x[1] = g /\ x[2] = m /\ y[1] = g /\ y[2] = m
  OBVIOUS
<1>2. a # b => x # y
  OBVIOUS
<1> HIDE DEF x, y, S
<1>3. /\ <<x>> \in Seq(S)
      /\ \A i \in 1..Len(<<x>>) : <<x>>[i][1] = g /\ <<x>>[i][2] = m
      /\ \A i, j \in 1..Len(<<x>>) : <<x>>[i] = <<x>>[j] => i = j
  BY <1>1
<1>4. /\ <<x, y>> \in Seq(S)
      /\ \A i \in 1..Len(<<x, y>>) : <<x, y>>[i][1] = g /\ <<x, y>>[i][2] = m
      /\ x # y => \A i, j \in 1..Len(<<x, y>>) : <<x, y>>[i] = <<x, y>>[j] => i = j
  BY <1>1
<1> QED
  BY <1>2, <1>3, <1>4, Zenon DEF OwnEffects, NoRepeat, x, y, S

LEMMA EffectsShape ==
    ASSUME NEW g \in Groups, NEW m \in Events
    PROVE  OwnEffects(Effects(g, m), g, m)
<1>1. \/ Effects(g, m) = <<<<g, m, "buyer">>, <<g, m, "seller">>>>
      \/ Effects(g, m) = <<<<g, m, "entry">>>>
      \/ Effects(g, m) = <<<<g, m, "total_volume">>, <<g, m, "trade_count">>>>
  <2>1. g \in {"audit-group", "notification-group", "analytics-group"}
    BY PipelineConstants
  <2>2. CASE g = "audit-group"
    BY <2>2 DEF Effects, AuditEffects
  <2>3. CASE g = "notification-group"
    BY <2>3 DEF Effects, NotificationEffects
  <2>4. CASE g = "analytics-group"
    BY <2>4 DEF Effects, AnalyticsEffects
  <2> QED
    BY <2>1, <2>2, <2>3, <2>4
<1>2. /\ "buyer" # "seller" /\ "total_volume" # "trade_count"
      /\ "buyer" \in EffectKinds /\ "seller" \in EffectKinds /\ "entry" \in EffectKinds
      /\ "total_volume" \in EffectKinds /\ "trade_count" \in EffectKinds
  BY DEF EffectKinds
<1>3. /\ OwnEffects(<<<<g, m, "buyer">>, <<g, m, "seller">>>>, g, m)
      /\ OwnEffects(<<<<g, m, "entry">>>>, g, m)
      /\ OwnEffects(<<<<g, m, "total_volume">>, <<g, m, "trade_count">>>>, g, m)
  BY <1>2, OwnSequences, Zenon
<1> QED
  BY <1>1, <1>3, Zenon

LEMMA PublishedTypes ==
    ASSUME NEW x \in Txns
    PROVE  Published(x) \in Seq(EventTypes)
<1>1. Kind[x] \in Kinds
  BY PipelineConstants
<1>2. \/ Published(x) = <<"order.created">>
      \/ Published(x) = <<"order.cancelled">>
      \/ Published(x) = <<"trade.executed", "wallet.updated buyer", "wallet.updated seller">>
      \/ Published(x) = <<"wallet.updated">>
  BY <1>1 DEF Published, Kinds
<1>3. \A a, b, c \in EventTypes : <<a>> \in Seq(EventTypes) /\ <<a, b, c>> \in Seq(EventTypes)
  OBVIOUS
<1> QED
  BY <1>2, <1>3 DEF EventTypes

(* Every effect belongs to a group that runs and to an event that is published. *)
LEMMA EffectsOwned ==
    ASSUME NEW a \in AllEffects
    PROVE  a[1] \in Groups /\ a[2] \in Events
<1>1. PICK x \in Txns : a \in EffectsOfEvents(x, Published(x))
  BY DEF AllEffects
<1>2. PICK type \in Range(Published(x)) : a \in EffectsOfEvent(<<x, type>>)
  BY <1>1 DEF EffectsOfEvents
<1>3. type \in EventTypes
  BY <1>2, PublishedTypes DEF Range
<1>4. <<x, type>> \in Events
  BY <1>3 DEF Events
<1>5. PICK g \in Groups : a \in Range(Effects(g, <<x, type>>))
  BY <1>2 DEF EffectsOfEvent
<1>6. PICK i \in DOMAIN Effects(g, <<x, type>>) : a = Effects(g, <<x, type>>)[i]
  BY <1>5 DEF Range
<1>7. DOMAIN Effects(g, <<x, type>>) = 1..Len(Effects(g, <<x, type>>))
  BY <1>4, EffectsShape DEF OwnEffects
<1>8. a[1] = g /\ a[2] = <<x, type>>
  BY <1>4, <1>6, <1>7, EffectsShape, Zenon DEF OwnEffects
<1> QED
  BY <1>4, <1>8

LEMMA TopicsOfEvents ==
    ASSUME NEW type
    PROVE  TopicOf(type) \in Topics
BY DEF TopicOf, Topics

LEMMA ReadsMember ==
    ASSUME NEW lg, NEW off, NEW e, NEW r
    PROVE  r \in ReadsIn(lg, off, e) <=> \E q, i : IsRead(lg, off, e, q, i) /\ r = <<q, i>>
BY DEF ReadsIn, IsRead

LEMMA ReadsSame ==
    ASSUME NEW lg1, NEW off1, NEW lg2, NEW off2, NEW e,
           \A q, i : IsRead(lg1, off1, e, q, i) <=> IsRead(lg2, off2, e, q, i)
    PROVE  ReadsIn(lg1, off1, e) = ReadsIn(lg2, off2, e)
<1>1. ASSUME NEW r PROVE r \in ReadsIn(lg1, off1, e) <=> r \in ReadsIn(lg2, off2, e)
  BY ReadsMember
<1> QED
  BY <1>1

(* Writing to a partition leaves alone what was read from it. *)
LEMMA WritesUnread ==
    ASSUME OnceInv, NEW t \in Topics, NEW p \in Partitions, NEW s \in Seq(Events),
           log' = [log EXCEPT ![t][p] = @ \o s], UNCHANGED <<offset, position>>,
           \A i \in 1..Len(s) : TopicOf(s[i][2]) = t
    PROVE  /\ \A g \in Groups : \A e \in Events : ReadsIn(log', offset'[g], e) = ReadsIn(log, offset[g], e)
           /\ log' \in [Topics -> [Partitions -> Seq(Events)]]
           /\ \A u \in Topics : \A q \in Partitions : \A i \in 1..Len(log'[u][q]) :
                 TopicOf(log'[u][q][i][2]) = u
           /\ \A g \in Groups : \A u \in Topics : \A q \in Partitions :
                 position'[g][u][q] <= Len(log'[u][q])
<1>1. log \in [Topics -> [Partitions -> Seq(Events)]]
  BY DEF OnceInv, LogInv
<1>2. log[t][p] \in Seq(Events)
  BY <1>1
<1>3. /\ log[t][p] \o s \in Seq(Events)
      /\ Len(log[t][p] \o s) = Len(log[t][p]) + Len(s)
      /\ \A i \in 1..Len(log[t][p]) : (log[t][p] \o s)[i] = log[t][p][i]
      /\ \A i \in 1..Len(log[t][p] \o s) : i > Len(log[t][p]) =>
            i - Len(log[t][p]) \in 1..Len(s) /\ (log[t][p] \o s)[i] = s[i - Len(log[t][p])]
  BY <1>2
<1>4. log' \in [Topics -> [Partitions -> Seq(Events)]]
  BY <1>1, <1>3
<1>5. \A u \in Topics : \A q \in Partitions :
         \/ log'[u][q] = log[u][q]
         \/ u = t /\ q = p /\ log'[u][q] = log[t][p] \o s
  BY <1>1
<1>6. \A u \in Topics : \A q \in Partitions :
         /\ Len(log[u][q]) <= Len(log'[u][q])
         /\ \A i \in 1..Len(log[u][q]) : log'[u][q][i] = log[u][q][i]
  <2> SUFFICES ASSUME NEW u \in Topics, NEW q \in Partitions
               PROVE  /\ Len(log[u][q]) <= Len(log'[u][q])
                      /\ \A i \in 1..Len(log[u][q]) : log'[u][q][i] = log[u][q][i]
    OBVIOUS
  <2>1. Len(log[u][q]) \in Nat /\ Len(s) \in Nat
    BY <1>1
  <2>2. CASE log'[u][q] = log[u][q]
    BY <2>1, <2>2
  <2>3. CASE u = t /\ q = p /\ log'[u][q] = log[t][p] \o s
    BY <1>3, <2>1, <2>3
  <2> QED
    BY <1>5, <2>2, <2>3
<1>7. \A u \in Topics : \A q \in Partitions : \A i \in 1..Len(log'[u][q]) :
         TopicOf(log'[u][q][i][2]) = u
  <2> SUFFICES ASSUME NEW u \in Topics, NEW q \in Partitions, NEW i \in 1..Len(log'[u][q])
               PROVE  TopicOf(log'[u][q][i][2]) = u
    OBVIOUS
  <2>1. CASE log'[u][q] = log[u][q]
    <3>1. \A k \in 1..Len(log[u][q]) : TopicOf(log[u][q][k][2]) = u
      BY DEF OnceInv, LogInv
    <3> QED
      BY <2>1, <3>1, Zenon
  <2>2. CASE u = t /\ q = p /\ log'[u][q] = log[t][p] \o s
    <3>1. CASE i \in 1..Len(log[t][p])
      BY <1>3, <2>2, <3>1 DEF OnceInv, LogInv
    <3>2. CASE i > Len(log[t][p])
      BY <1>3, <2>2, <3>2
    <3>3. Len(log[t][p]) \in Nat
      BY <1>2
    <3> QED
      BY <3>1, <3>2, <3>3
  <2> QED
    BY <1>5, <2>1, <2>2
<1>8. \A g \in Groups : \A u \in Topics : \A q \in Partitions :
         /\ offset[g][u][q] \in Nat /\ position[g][u][q] \in Nat
         /\ Len(log[u][q]) \in Nat /\ Len(log'[u][q]) \in Nat
         /\ offset[g][u][q] <= Len(log[u][q]) /\ position[g][u][q] <= Len(log[u][q])
  BY <1>1, <1>4 DEF OnceInv, LogInv
<1>9. ASSUME NEW g \in Groups, NEW e \in Events
      PROVE  ReadsIn(log', offset'[g], e) = ReadsIn(log, offset[g], e)
  <2> DEFINE u == TopicOf(e[2])
  <2>1. u \in Topics
    BY TopicsOfEvents
  <2>2. \A q \in Partitions : \A i \in 1..offset[g][u][q] : log'[u][q][i] = log[u][q][i]
    BY <1>6, <1>8, <2>1
  <2>3. \A q, i : IsRead(log', offset'[g], e, q, i) <=> IsRead(log, offset[g], e, q, i)
    BY <2>2 DEF IsRead
  <2> DEFINE lg  == log'
             off == offset'[g]
  <2>4. \A q, i : IsRead(lg, off, e, q, i) <=> IsRead(log, offset[g], e, q, i)
    BY <2>3, Zenon
  <2> HIDE DEF lg, off
  <2>5. ReadsIn(lg, off, e) = ReadsIn(log, offset[g], e)
    BY <2>4, ReadsSame
  <2> QED
    BY <2>5, Zenon DEF lg, off
<1>10. \A g \in Groups : \A u \in Topics : \A q \in Partitions :
          position'[g][u][q] <= Len(log'[u][q])
  BY <1>6, <1>8
<1> QED
  BY <1>4, <1>7, <1>9, <1>10, Zenon

(* Moving an offset on, over one message or over several of which some were not *)
(* handed over, takes back nothing of what was read, and reading the message it *)
(* is moved to adds it.                                                         *)
LEMMA ReadsGrow ==
    ASSUME OnceInv, NEW g \in Groups, NEW t \in Topics, NEW p \in Partitions,
           NEW n \in 1..Len(log[t][p]), offset[g][t][p] < n,
           offset' = [offset EXCEPT ![g][t][p] = n]
    PROVE  /\ offset' \in [Groups -> [Topics -> [Partitions -> Nat]]]
           /\ log[t][p][n] \in Events /\ TopicOf(log[t][p][n][2]) = t
           /\ \A h \in Groups : \A e \in Events :
                 /\ IsFiniteSet(ReadsIn(log, offset'[h], e))
                 /\ ReadsIn(log, offset[h], e) \subseteq ReadsIn(log, offset'[h], e)
           /\ <<p, n>> \in ReadsIn(log, offset'[g], log[t][p][n])
           /\ <<p, n>> \notin ReadsIn(log, offset[g], log[t][p][n])
<1> DEFINE off == offset'
           m   == log[t][p][n]
<1>1. /\ log \in [Topics -> [Partitions -> Seq(Events)]]
      /\ offset \in [Groups -> [Topics -> [Partitions -> Nat]]]
  BY DEF OnceInv, LogInv
<1>2. log[t][p] \in Seq(Events) /\ offset[g][t][p] \in Nat /\ n \in Nat
  BY <1>1
<1>3. n \notin 1..offset[g][t][p] /\ 1..offset[g][t][p] \subseteq 1..n /\ n \in 1..n
  BY <1>2
<1>4. m \in Events
  BY <1>2
<1>5. TopicOf(m[2]) = t
  BY DEF OnceInv, LogInv
<1>6. /\ off \in [Groups -> [Topics -> [Partitions -> Nat]]]
      /\ off[g][t][p] = n
      /\ \A h \in Groups : \A u \in Topics : \A q \in Partitions :
            off[h][u][q] = offset[h][u][q] \/ (h = g /\ u = t /\ q = p)
  BY <1>1, <1>2
<1>m. m = log[t][p][n]
  OBVIOUS
<1> HIDE DEF off, m
<1>7. <<p, n>> \notin ReadsIn(log, offset[g], m)
  <2>1. ~IsRead(log, offset[g], m, p, n)
    BY <1>3, <1>5, <1>m DEF IsRead
  <2>2. <<p, n>> \in ReadsIn(log, offset[g], m) <=>
           \E q, i : IsRead(log, offset[g], m, q, i) /\ <<p, n>> = <<q, i>>
    BY ReadsMember
  <2> QED
    BY <2>1, <2>2
<1>8. <<p, n>> \in ReadsIn(log, off[g], m)
  <2>1. IsRead(log, off[g], m, p, n)
    BY <1>3, <1>5, <1>6, <1>m DEF IsRead
  <2> QED
    BY <2>1, ReadsMember
<1>9. ASSUME NEW h \in Groups, NEW e \in Events
      PROVE  /\ IsFiniteSet(ReadsIn(log, off[h], e))
             /\ ReadsIn(log, offset[h], e) \subseteq ReadsIn(log, off[h], e)
  <2> DEFINE u == TopicOf(e[2])
  <2>1. u \in Topics
    BY TopicsOfEvents
  <2>2. \A q \in Partitions : \A i :
           /\ i \in 1..offset[h][u][q] => i \in 1..off[h][u][q]
           /\ i \in 1..off[h][u][q] => i \in 1..offset[h][u][q] \/ (q = p /\ i \in 1..n)
    <3> SUFFICES ASSUME NEW q \in Partitions, NEW i
                 PROVE  /\ i \in 1..offset[h][u][q] => i \in 1..off[h][u][q]
                        /\ i \in 1..off[h][u][q] =>
                              i \in 1..offset[h][u][q] \/ (q = p /\ i \in 1..n)
      OBVIOUS
    <3>1. CASE off[h][u][q] = offset[h][u][q]
      BY <3>1, Zenon
    <3>2. CASE h = g /\ u = t /\ q = p
      BY <1>3, <1>6, <3>2, Zenon
    <3> QED
      BY <1>6, <2>1, <3>1, <3>2, Zenon
  <2>3. \A q, i : IsRead(log, offset[h], e, q, i) => IsRead(log, off[h], e, q, i)
    BY <2>2 DEF IsRead
  <2>4. \A q, i : IsRead(log, off[h], e, q, i) =>
                     IsRead(log, offset[h], e, q, i) \/ (q = p /\ i \in 1..n)
    BY <2>2 DEF IsRead
  <2> DEFINE old   == ReadsIn(log, offset[h], e)
             more  == ReadsIn(log, off[h], e)
             first == {p} \X (1..n)
  <2>5. /\ \A d : d \in old <=> \E q, i : IsRead(log, offset[h], e, q, i) /\ d = <<q, i>>
        /\ \A d : d \in more <=> \E q, i : IsRead(log, off[h], e, q, i) /\ d = <<q, i>>
    BY ReadsMember
  <2>6. \A i \in 1..n : <<p, i>> \in first
    OBVIOUS
  <2>7. IsFiniteSet(old)
    BY DEF OnceInv, ReadsInv
  <2>8. IsFiniteSet(first)
    <3>1. IsFiniteSet({p})
      BY FS_Singleton
    <3>2. 1 \in Int /\ n \in Int
      BY <1>2
    <3>3. IsFiniteSet(1..n)
      BY <3>2, FS_Interval, Zenon
    <3> QED
      BY <3>1, <3>3, FS_Product, Zenon
  <2> HIDE DEF old, more, first
  <2>9. old \subseteq more
    BY <2>3, <2>5
  <2>10. more \subseteq old \cup first
    BY <2>4, <2>5, <2>6
  <2>11. IsFiniteSet(more)
    BY <2>7, <2>8, <2>10, FS_Union, FS_Subset
  <2> QED
    BY <2>9, <2>11 DEF old, more
<1> QED
  BY <1>4, <1>5, <1>6, <1>7, <1>8, <1>9, Zenon DEF off, m

LEMMA TailFacts ==
    ASSUME NEW S, NEW s \in Seq(S), s # <<>>, NoRepeat(s)
    PROVE  /\ Tail(s) \in Seq(S)
           /\ NoRepeat(Tail(s))
           /\ Head(s) = s[1] /\ 1 \in 1..Len(s)
           /\ \A i \in 1..Len(Tail(s)) :
                 \E k \in 1..Len(s) : Tail(s)[i] = s[k] /\ s[k] # Head(s)
<1>1. /\ Tail(s) \in Seq(S) /\ Len(Tail(s)) = Len(s) - 1 /\ Len(s) \in Nat \ {0}
      /\ \A i \in 1..Len(Tail(s)) : Tail(s)[i] = s[i + 1]
      /\ Head(s) = s[1]
  OBVIOUS
<1>2. \A i \in 1..Len(Tail(s)) : i + 1 \in 1..Len(s) /\ i + 1 # 1
  BY <1>1
<1>3. 1 \in 1..Len(s)
  BY <1>1
<1>4. NoRepeat(Tail(s))
  BY <1>1, <1>2 DEF NoRepeat
<1>5. \A i \in 1..Len(Tail(s)) : s[i + 1] # s[1]
  BY <1>2, <1>3 DEF NoRepeat
<1> QED
  BY <1>1, <1>2, <1>3, <1>4, <1>5

(* A step that writes to the topics or takes effects out of a hand, and neither *)
(* reads nor acts.                                                              *)
LEMMA FewerInHand ==
    ASSUME OnceInv, LogInv', UNCHANGED <<done, resent>>, inHand' \in HandTypes,
           \A g \in Groups : \A e \in Events :
              ReadsIn(log', offset'[g], e) = ReadsIn(log, offset[g], e),
           \A g \in Groups : \A t \in Topics :
              \/ inHand'[g][t] = inHand[g][t]
              \/ inHand'[g][t] = <<>>
              \/ inHand[g][t] # <<>> /\ inHand'[g][t] = Tail(inHand[g][t])
    PROVE  OnceInv'
<1>1. \A g \in Groups : \A e \in Events :
         /\ IsFiniteSet(ReadsIn(log', offset'[g], e))
         /\ Cardinality(ReadsIn(log', offset'[g], e)) = Cardinality(ReadsIn(log, offset[g], e))
  BY DEF OnceInv, ReadsInv
<1>2. ReadsInv'
  BY <1>1, Zenon DEF ReadsInv
<1>3. \A a \in AllEffects : Owed(log', offset', resent', a) = Owed(log, offset, resent, a)
  BY <1>1, EffectsOwned, Zenon DEF Owed
<1>4. DoneInv'
  BY <1>3, Zenon DEF OnceInv, DoneInv
<1>5. ASSUME NEW g \in Groups, NEW t \in Topics
      PROVE  /\ NoRepeat(inHand'[g][t])
             /\ \A i \in 1..Len(inHand'[g][t]) :
                   Due(g, t, inHand'[g][t][i], done', log', offset', resent')
  <2>1. \A a : Due(g, t, a, done, log, offset, resent) => Due(g, t, a, done', log', offset', resent')
    BY <1>3, Zenon DEF Due
  <2>2. /\ NoRepeat(inHand[g][t])
        /\ \A i \in 1..Len(inHand[g][t]) : Due(g, t, inHand[g][t][i], done, log, offset, resent)
    BY DEF OnceInv, HandInv
  <2>3. CASE inHand'[g][t] = inHand[g][t]
    BY <2>1, <2>2, <2>3, Zenon
  <2>4. CASE inHand'[g][t] = <<>>
    BY <2>4 DEF NoRepeat
  <2>5. CASE inHand[g][t] # <<>> /\ inHand'[g][t] = Tail(inHand[g][t])
    <3>1. inHand[g][t] \in Seq(Groups \X Events \X EffectKinds)
      BY DEF OnceInv, HandInv, HandTypes
    <3>2. /\ NoRepeat(Tail(inHand[g][t]))
          /\ \A i \in 1..Len(Tail(inHand[g][t])) :
                \E k \in 1..Len(inHand[g][t]) : Tail(inHand[g][t])[i] = inHand[g][t][k]
      BY <2>2, <2>5, <3>1, TailFacts
    <3> QED
      BY <2>1, <2>2, <2>5, <3>2, Zenon
  <2> QED
    BY <2>3, <2>4, <2>5
<1> QED
  BY <1>2, <1>4, <1>5, Zenon DEF OnceInv, HandInv

(* An offset is moved on to the message that was fetched: nothing is owed less   *)
(* often than before, and the effects of that message are owed once more.        *)
LEMMA CommitOwes ==
    ASSUME OnceInv, NEW g \in Groups, NEW t \in Topics, NEW p \in Partitions,
           position[g][t][p] < Len(log[t][p]), Committed(g, t, p)
    PROVE  /\ offset' \in [Groups -> [Topics -> [Partitions -> Nat]]]
           /\ Fetched(g, t, p) \in Events /\ TopicOf(Fetched(g, t, p)[2]) = t
           /\ \A h \in Groups : \A e \in Events : IsFiniteSet(ReadsIn(log, offset'[h], e))
           /\ \A a \in AllEffects :
                 /\ Owed(log, offset, resent, a) \in Nat /\ Owed(log, offset', resent, a) \in Nat
                 /\ Owed(log, offset, resent, a) <= Owed(log, offset', resent, a)
                 /\ a[1] = g /\ a[2] = Fetched(g, t, p) =>
                       Owed(log, offset, resent, a) < Owed(log, offset', resent, a)
<1> DEFINE n   == position[g][t][p] + 1
           m   == Fetched(g, t, p)
           off == offset'
<1>1. /\ offset[g][t][p] \in Nat /\ position[g][t][p] \in Nat /\ Len(log[t][p]) \in Nat
      /\ offset[g][t][p] <= position[g][t][p]
  <2>1. log[t][p] \in Seq(Events)
    BY DEF OnceInv, LogInv
  <2> QED
    BY <2>1 DEF OnceInv, LogInv
<1>2. n \in 1..Len(log[t][p]) /\ offset[g][t][p] < n
  BY <1>1
<1>3. offset' = [offset EXCEPT ![g][t][p] = n] /\ m = log[t][p][n]
  BY DEF Committed, Fetched
<1> HIDE DEF n, m
<1>4. /\ off \in [Groups -> [Topics -> [Partitions -> Nat]]]
      /\ m \in Events /\ TopicOf(m[2]) = t
      /\ \A h \in Groups : \A e \in Events :
            /\ IsFiniteSet(ReadsIn(log, off[h], e))
            /\ ReadsIn(log, offset[h], e) \subseteq ReadsIn(log, off[h], e)
      /\ <<p, n>> \in ReadsIn(log, off[g], m)
      /\ <<p, n>> \notin ReadsIn(log, offset[g], m)
  <2> HIDE DEF OnceInv
  <2> QED
    BY <1>2, <1>3, ReadsGrow
<1> HIDE DEF off
<1>5. ASSUME NEW h \in Groups, NEW e \in Events
      PROVE  /\ Cardinality(ReadsIn(log, offset[h], e)) \in Nat
             /\ Cardinality(ReadsIn(log, off[h], e)) \in Nat
             /\ Cardinality(ReadsIn(log, offset[h], e)) <= Cardinality(ReadsIn(log, off[h], e))
             /\ h = g /\ e = m =>
                   Cardinality(ReadsIn(log, offset[h], e)) < Cardinality(ReadsIn(log, off[h], e))
  <2> DEFINE old  == ReadsIn(log, offset[h], e)
             more == ReadsIn(log, off[h], e)
  <2>1. IsFiniteSet(more) /\ old \in SUBSET more /\ (h = g /\ e = m => old # more)
    BY <1>4, Zenon
  <2> HIDE DEF old, more
  <2>2. /\ Cardinality(old) \in Nat /\ Cardinality(more) \in Nat
        /\ Cardinality(old) <= Cardinality(more)
        /\ Cardinality(more) = Cardinality(old) => more = old
    BY <2>1, FS_Subset, FS_CardinalityType
  <2>3. h = g /\ e = m => Cardinality(old) < Cardinality(more)
    BY <2>1, <2>2
  <2> QED
    BY <2>2, <2>3 DEF old, more
<1>6. ASSUME NEW a \in AllEffects
      PROVE  /\ Owed(log, offset, resent, a) \in Nat /\ Owed(log, off, resent, a) \in Nat
             /\ Owed(log, offset, resent, a) <= Owed(log, off, resent, a)
             /\ a[1] = g /\ a[2] = m =>
                   Owed(log, offset, resent, a) < Owed(log, off, resent, a)
  <2> DEFINE h == a[1]
             e == a[2]
             c == Cardinality(ReadsIn(log, offset[h], e))
             d == Cardinality(ReadsIn(log, off[h], e))
  <2>1. h \in Groups /\ e \in Events
    BY EffectsOwned
  <2>2. c \in Nat /\ d \in Nat /\ c <= d /\ (h = g /\ e = m => c < d)
    BY <1>5, <2>1
  <2>3. resent[a] \in Nat
    BY DEF OnceInv, DoneInv
  <2>4. Owed(log, offset, resent, a) = c + resent[a] /\ Owed(log, off, resent, a) = d + resent[a]
    BY DEF Owed
  <2> HIDE DEF c, d
  <2> QED
    BY <2>2, <2>3, <2>4
<1> QED
  BY <1>4, <1>6, Zenon DEF m, off

(* The reader has fetched a message, and its offset is committed or not. *)
LEMMA FetchKeepsLog ==
    ASSUME OnceInv, NEW g \in Groups, NEW t \in Topics, NEW p \in Partitions,
           Fetch(g, t, p), UNCHANGED offset \/ Committed(g, t, p),
           UNCHANGED <<unpublished, log>>
    PROVE  LogInv'
<1>1. /\ position \in [Groups -> [Topics -> [Partitions -> Nat]]]
      /\ offset \in [Groups -> [Topics -> [Partitions -> Nat]]]
      /\ log \in [Topics -> [Partitions -> Seq(Events)]]
  BY DEF OnceInv, LogInv
<1>2. /\ position[g][t][p] < Len(log[t][p])
      /\ position' = [position EXCEPT ![g][t][p] = position[g][t][p] + 1]
  BY DEF Fetch
<1>3. /\ position' \in [Groups -> [Topics -> [Partitions -> Nat]]]
      /\ position'[g][t][p] = position[g][t][p] + 1
      /\ \A h \in Groups : \A u \in Topics : \A q \in Partitions :
            position'[h][u][q] = position[h][u][q] \/ (h = g /\ u = t /\ q = p)
  BY <1>1, <1>2
<1>4. /\ offset' \in [Groups -> [Topics -> [Partitions -> Nat]]]
      /\ \A h \in Groups : \A u \in Topics : \A q \in Partitions :
            \/ offset'[h][u][q] = offset[h][u][q]
            \/ h = g /\ u = t /\ q = p /\ offset'[h][u][q] = position[g][t][p] + 1
  <2>1. CASE UNCHANGED offset
    BY <1>1, <2>1
  <2>2. CASE Committed(g, t, p)
    <3>1. offset' = [offset EXCEPT ![g][t][p] = position[g][t][p] + 1]
      BY <2>2 DEF Committed
    <3> QED
      BY <1>1, <3>1
  <2> QED
    BY <2>1, <2>2
<1>5. ASSUME NEW h \in Groups, NEW u \in Topics, NEW q \in Partitions
      PROVE  offset'[h][u][q] <= position'[h][u][q] /\ position'[h][u][q] <= Len(log[u][q])
  <2>1. /\ position[h][u][q] \in Nat /\ offset[h][u][q] \in Nat /\ Len(log[u][q]) \in Nat
        /\ offset[h][u][q] <= position[h][u][q] /\ position[h][u][q] <= Len(log[u][q])
    <3>1. log[u][q] \in Seq(Events)
      BY <1>1
    <3>2. /\ position[h][u][q] \in Nat /\ offset[h][u][q] \in Nat
          /\ Len(log[u][q]) \in Nat
      BY <1>1, <3>1
    <3>3. offset[h][u][q] <= position[h][u][q] /\ position[h][u][q] <= Len(log[u][q])
      BY Zenon DEF OnceInv, LogInv
    <3> QED
      BY <3>2, <3>3
  <2>2. CASE h = g /\ u = t /\ q = p
    <3>1. position'[h][u][q] = position[h][u][q] + 1
      BY <1>3, <2>2, Zenon
    <3>2. offset'[h][u][q] = offset[h][u][q] \/ offset'[h][u][q] = position[h][u][q] + 1
      BY <1>4, <2>2, Zenon
    <3>3. position[h][u][q] < Len(log[u][q])
      BY <1>2, <2>2, Zenon
    <3> QED
      BY <2>1, <3>1, <3>2, <3>3
  <2>3. CASE ~(h = g /\ u = t /\ q = p)
    <3>1. offset'[h][u][q] = offset[h][u][q] /\ position'[h][u][q] = position[h][u][q]
      BY <1>3, <1>4, <2>3, Zenon
    <3> QED
      BY <2>1, <3>1
  <2> QED
    BY <2>2, <2>3
<1>6. log' = log /\ unpublished' = unpublished
  OBVIOUS
<1>7. /\ unpublished' \in [Txns -> Seq(EventTypes)]
      /\ log' \in [Topics -> [Partitions -> Seq(Events)]]
      /\ \A u \in Topics : \A q \in Partitions : \A i \in 1..Len(log'[u][q]) :
            TopicOf(log'[u][q][i][2]) = u
  BY <1>6 DEF OnceInv, LogInv
<1>8. \A h \in Groups : \A u \in Topics : \A q \in Partitions :
         offset'[h][u][q] <= position'[h][u][q] /\ position'[h][u][q] <= Len(log'[u][q])
  BY <1>5, <1>6
<1> QED
  BY <1>3, <1>4, <1>7, <1>8, Zenon DEF LogInv

(* ReadMessage: the effects that come to hand are owed once more than before. *)
LEMMA ReadKeepsOnce ==
    ASSUME OnceInv, NEW g \in Groups, NEW t \in Topics, NEW p \in Partitions,
           ReadMessage(g, t, p)
    PROVE  OnceInv'
<1> DEFINE m   == Fetched(g, t, p)
           off == offset'
<1>1. /\ position[g][t][p] < Len(log[t][p])
      /\ Fetch(g, t, p) /\ Committed(g, t, p)
      /\ inHand' = [inHand EXCEPT ![g][t] = Effects(g, m)]
      /\ UNCHANGED <<unpublished, log, done, resent>>
  BY DEF ReadMessage, Fetch
<1>2. /\ off \in [Groups -> [Topics -> [Partitions -> Nat]]]
      /\ m \in Events /\ TopicOf(m[2]) = t
      /\ \A h \in Groups : \A e \in Events : IsFiniteSet(ReadsIn(log, off[h], e))
  BY <1>1, CommitOwes
<1>3. LogInv'
  BY <1>1, FetchKeepsLog
<1>5. \A a \in AllEffects :
         /\ Owed(log, offset, resent, a) \in Nat /\ Owed(log, off, resent, a) \in Nat
         /\ Owed(log, offset, resent, a) <= Owed(log, off, resent, a)
         /\ a[1] = g /\ a[2] = m =>
               Owed(log, offset, resent, a) < Owed(log, off, resent, a)
  BY <1>1, CommitOwes
<1> HIDE DEF m, off
<1>6. ReadsInv'
  BY <1>1, <1>2, Zenon DEF ReadsInv, off
<1>7. /\ done \in [AllEffects -> Nat] /\ resent \in [AllEffects -> Nat]
      /\ \A a \in AllEffects : done[a] <= Owed(log, offset, resent, a)
  BY DEF OnceInv, DoneInv
<1>8. \A a \in AllEffects : done[a] <= Owed(log, off, resent, a)
  BY <1>5, <1>7
<1>9. DoneInv'
  BY <1>1, <1>7, <1>8, Zenon DEF DoneInv, off
<1>10. OwnEffects(Effects(g, m), g, m)
  BY <1>2, EffectsShape
<1>11. inHand \in HandTypes
  BY DEF OnceInv, HandInv
<1>12. inHand' \in HandTypes
  BY <1>1, <1>10, <1>11 DEF HandTypes, OwnEffects
<1>13. ASSUME NEW h \in Groups, NEW u \in Topics
       PROVE  /\ NoRepeat(inHand'[h][u])
              /\ \A i \in 1..Len(inHand'[h][u]) :
                    Due(h, u, inHand'[h][u][i], done, log, off, resent)
  <2>1. \/ inHand'[h][u] = inHand[h][u]
        \/ h = g /\ u = t /\ inHand'[h][u] = Effects(g, m)
    BY <1>1, <1>11 DEF HandTypes
  <2>2. CASE inHand'[h][u] = inHand[h][u]
    <3>1. \A a \in AllEffects :
             done[a] < Owed(log, offset, resent, a) => done[a] < Owed(log, off, resent, a)
      BY <1>5, <1>7
    <3>2. \A a : Due(h, u, a, done, log, offset, resent) => Due(h, u, a, done, log, off, resent)
      BY <3>1, Zenon DEF Due
    <3> QED
      BY <2>2, <3>2, Zenon DEF OnceInv, HandInv
  <2>3. CASE h = g /\ u = t /\ inHand'[h][u] = Effects(g, m)
    <3>1. \A a \in AllEffects : a[1] = g /\ a[2] = m => done[a] < Owed(log, off, resent, a)
      BY <1>5, <1>7
    <3>2. \A a : a[1] = g /\ a[2] = m => Due(g, t, a, done, log, off, resent)
      BY <1>2, <3>1, Zenon DEF Due
    <3> QED
      BY <1>10, <2>3, <3>2, Zenon DEF OwnEffects
  <2> QED
    BY <2>1, <2>2, <2>3
<1>14. HandInv'
  BY <1>1, <1>12, <1>13, Zenon DEF HandInv, off
<1> QED
  BY <1>3, <1>6, <1>9, <1>14 DEF OnceInv

(* ReadMessage fails after the fetch: what is owed may grow, and nothing comes to hand. *)
LEMMA ReadErrorKeepsOnce ==
    ASSUME OnceInv, NEW g \in Groups, NEW t \in Topics, NEW p \in Partitions,
           ReadMessageError(g, t, p)
    PROVE  OnceInv'
<1> DEFINE off == offset'
<1>1. /\ position[g][t][p] < Len(log[t][p])
      /\ Fetch(g, t, p) /\ (UNCHANGED offset \/ Committed(g, t, p))
      /\ UNCHANGED <<unpublished, log, inHand, done, resent>>
  BY DEF ReadMessageError, Fetch
<1>2. LogInv'
  BY <1>1, FetchKeepsLog
<1>3. CASE UNCHANGED offset
  <2>1. /\ \A h \in Groups : \A e \in Events :
              ReadsIn(log', offset'[h], e) = ReadsIn(log, offset[h], e)
        /\ inHand' \in HandTypes /\ UNCHANGED <<done, resent, inHand>>
    BY <1>1, <1>3 DEF OnceInv, HandInv
  <2> QED
    BY <1>2, <2>1, FewerInHand, Zenon
<1>4. CASE Committed(g, t, p)
  <2>1. \A h \in Groups : \A e \in Events : IsFiniteSet(ReadsIn(log, off[h], e))
    BY <1>1, <1>4, CommitOwes
  <2>2. \A a \in AllEffects :
           /\ Owed(log, offset, resent, a) \in Nat /\ Owed(log, off, resent, a) \in Nat
           /\ Owed(log, offset, resent, a) <= Owed(log, off, resent, a)
    BY <1>1, <1>4, CommitOwes
  <2> HIDE DEF off
  <2>3. ReadsInv'
    BY <1>1, <2>1, Zenon DEF ReadsInv, off
  <2>4. /\ done \in [AllEffects -> Nat] /\ resent \in [AllEffects -> Nat]
        /\ \A a \in AllEffects : done[a] <= Owed(log, offset, resent, a)
    BY DEF OnceInv, DoneInv
  <2>5. \A a \in AllEffects :
           /\ done[a] <= Owed(log, off, resent, a)
           /\ done[a] < Owed(log, offset, resent, a) => done[a] < Owed(log, off, resent, a)
    BY <2>2, <2>4
  <2>6. DoneInv'
    BY <1>1, <2>4, <2>5, Zenon DEF DoneInv, off
  <2>7. \A h, u, a : Due(h, u, a, done, log, offset, resent) => Due(h, u, a, done, log, off, resent)
    BY <2>5, Zenon DEF Due
  <2>8. HandInv'
    BY <1>1, <2>7, Zenon DEF OnceInv, HandInv, off
  <2> QED
    BY <1>2, <2>3, <2>6, <2>8 DEF OnceInv
<1> QED
  BY <1>1, <1>3, <1>4

(* Handle: what was owed is done, once and as often again as the Redis client has *)
(* re-sent it, by the only goroutine that has it at hand.                         *)
LEMMA HandleKeepsOnce ==
    ASSUME OnceInv, NEW g \in Groups, NEW t \in Topics, Handle(g, t) \/ HandleResent(g, t)
    PROVE  OnceInv'
<1> DEFINE a  == Head(inHand[g][t])
           dn == done'
           rs == resent'
<1>1. /\ inHand[g][t] # <<>>
      /\ inHand' = [inHand EXCEPT ![g][t] = Tail(@)]
      /\ UNCHANGED <<unpublished, log, offset, position>>
  BY DEF Handle, HandleResent
<1>0. \/ done' = [done EXCEPT ![a] = @ + 1] /\ resent' = resent
      \/ done' = [done EXCEPT ![a] = @ + 2] /\ resent' = [resent EXCEPT ![a] = @ + 1]
  BY DEF Handle, HandleResent
<1>2. LogInv' /\ ReadsInv'
  BY <1>1 DEF OnceInv, LogInv, ReadsInv
<1>3. inHand \in HandTypes /\ NoRepeat(inHand[g][t])
  BY DEF OnceInv, HandInv
<1>4. inHand[g][t] \in Seq(Groups \X Events \X EffectKinds)
  BY <1>3 DEF HandTypes
<1>5. /\ Tail(inHand[g][t]) \in Seq(Groups \X Events \X EffectKinds)
      /\ NoRepeat(Tail(inHand[g][t]))
      /\ a = inHand[g][t][1] /\ 1 \in 1..Len(inHand[g][t])
      /\ \A i \in 1..Len(Tail(inHand[g][t])) :
            \E k \in 1..Len(inHand[g][t]) :
               Tail(inHand[g][t])[i] = inHand[g][t][k] /\ inHand[g][t][k] # a
  BY <1>1, <1>3, <1>4, TailFacts
<1>6. Due(g, t, a, done, log, offset, resent)
  BY <1>5 DEF OnceInv, HandInv
<1>7. /\ done \in [AllEffects -> Nat] /\ resent \in [AllEffects -> Nat]
      /\ \A b \in AllEffects : done[b] <= Owed(log, offset, resent, b)
  BY DEF OnceInv, DoneInv
<1>8. /\ dn \in [AllEffects -> Nat] /\ rs \in [AllEffects -> Nat]
      /\ \A b \in AllEffects : b # a => dn[b] = done[b] /\ rs[b] = resent[b]
      /\ a \in AllEffects => dn[a] - rs[a] = done[a] - resent[a] + 1
  <2> HIDE DEF a
  <2>1. CASE a \in AllEffects
    <3>1. done[a] \in Nat /\ resent[a] \in Nat
      BY <1>7, <2>1
    <3>2. CASE done' = [done EXCEPT ![a] = @ + 1] /\ resent' = resent
      BY <1>7, <2>1, <3>1, <3>2
    <3>3. CASE done' = [done EXCEPT ![a] = @ + 2] /\ resent' = [resent EXCEPT ![a] = @ + 1]
      BY <1>7, <2>1, <3>1, <3>3
    <3> QED
      BY <1>0, <3>2, <3>3
  <2>2. CASE a \notin AllEffects
    <3>1. dn = done /\ rs = resent
      BY <1>0, <1>7, <2>2
    <3> QED
      BY <1>7, <2>2, <3>1
  <2> QED
    BY <2>1, <2>2
<1>9. inHand' \in HandTypes
  BY <1>1, <1>3, <1>5 DEF HandTypes
<1>10. \A h \in Groups : \A u \in Topics :
          \/ inHand'[h][u] = inHand[h][u] /\ (h # g \/ u # t)
          \/ h = g /\ u = t /\ inHand'[h][u] = Tail(inHand[g][t])
  BY <1>1, <1>3 DEF HandTypes
<1> HIDE DEF a, dn, rs
<1>11. ASSUME NEW b \in AllEffects
       PROVE  /\ Owed(log, offset, resent, b) \in Nat
              /\ Owed(log, offset, rs, b) = Owed(log, offset, resent, b) + rs[b] - resent[b]
  <2> DEFINE c == Cardinality(ReadsIn(log, offset[b[1]], b[2]))
  <2>1. b[1] \in Groups /\ b[2] \in Events
    BY EffectsOwned
  <2>2. IsFiniteSet(ReadsIn(log, offset[b[1]], b[2]))
    BY <2>1 DEF OnceInv, ReadsInv
  <2>3. c \in Nat /\ resent[b] \in Nat /\ rs[b] \in Nat
    BY <1>7, <1>8, <2>2, FS_CardinalityType
  <2>4. Owed(log, offset, resent, b) = c + resent[b] /\ Owed(log, offset, rs, b) = c + rs[b]
    BY DEF Owed
  <2> HIDE DEF c
  <2> QED
    BY <2>3, <2>4
<1>12. \A b \in AllEffects : dn[b] <= Owed(log, offset, rs, b)
  <2> SUFFICES ASSUME NEW b \in AllEffects PROVE dn[b] <= Owed(log, offset, rs, b)
    OBVIOUS
  <2>0. done[b] \in Nat /\ dn[b] \in Nat /\ resent[b] \in Nat /\ rs[b] \in Nat
    BY <1>7, <1>8
  <2>1. CASE b = a
    <3>1. done[b] < Owed(log, offset, resent, b)
      BY <1>6, <2>1 DEF Due
    <3> QED
      BY <1>8, <1>11, <2>0, <2>1, <3>1
  <2>2. CASE b # a
    BY <1>7, <1>8, <1>11, <2>0, <2>2
  <2> QED
    BY <2>1, <2>2
<1>13. DoneInv'
  BY <1>1, <1>8, <1>12, Zenon DEF DoneInv, dn, rs
<1>14. \A h \in Groups : \A u \in Topics : \A b :
          Due(h, u, b, done, log, offset, resent) /\ b # a => Due(h, u, b, dn, log, offset, rs)
  <2>1. \A b \in AllEffects : b # a =>
           dn[b] = done[b] /\ Owed(log, offset, rs, b) = Owed(log, offset, resent, b)
    BY <1>7, <1>8, <1>11
  <2> QED
    BY <2>1, Zenon DEF Due
<1>15. ASSUME NEW h \in Groups, NEW u \in Topics
       PROVE  /\ NoRepeat(inHand'[h][u])
              /\ \A i \in 1..Len(inHand'[h][u]) : Due(h, u, inHand'[h][u][i], dn, log, offset, rs)
  <2>1. /\ NoRepeat(inHand[h][u])
        /\ \A i \in 1..Len(inHand[h][u]) : Due(h, u, inHand[h][u][i], done, log, offset, resent)
    BY DEF OnceInv, HandInv
  <2>2. CASE inHand'[h][u] = inHand[h][u] /\ (h # g \/ u # t)
    <3>1. \A b : Due(h, u, b, done, log, offset, resent) => b # a
      BY <1>6, <2>2 DEF Due
    <3> QED
      BY <1>14, <2>1, <2>2, <3>1, Zenon
  <2>3. CASE h = g /\ u = t /\ inHand'[h][u] = Tail(inHand[g][t])
    <3>1. ASSUME NEW i \in 1..Len(inHand'[h][u])
          PROVE  Due(h, u, inHand'[h][u][i], dn, log, offset, rs)
      <4>1. PICK k \in 1..Len(inHand[g][t]) :
               Tail(inHand[g][t])[i] = inHand[g][t][k] /\ inHand[g][t][k] # a
        BY <1>5, <2>3, Zenon
      <4>2. Due(h, u, inHand[g][t][k], done, log, offset, resent)
        BY <2>1, <2>3, <4>1, Zenon
      <4> QED
        BY <1>14, <2>3, <4>1, <4>2, Zenon
    <3> QED
      BY <1>5, <2>3, <3>1, Zenon
  <2> QED
    BY <1>10, <2>2, <2>3
<1>16. HandInv'
  BY <1>1, <1>9, <1>15, Zenon DEF HandInv, dn, rs
<1> QED
  BY <1>2, <1>13, <1>16 DEF OnceInv

LEMMA OnceOrTwice ==
    ASSUME NEW S, NEW q \in Seq(S), NEW d \in S
    PROVE  /\ Append(q, d) = q \o <<d>>
           /\ <<d>> \in Seq(S) /\ \A i \in 1..Len(<<d>>) : <<d>>[i] = d
           /\ <<d, d>> \in Seq(S) /\ \A i \in 1..Len(<<d, d>>) : <<d, d>>[i] = d
OBVIOUS

LEMMA PublishKeepsOnce ==
    ASSUME OnceInv, NEW x \in Txns, NEW p \in Partitions,
           PublishEvent(x, p) \/ PublishRetried(x, p)
    PROVE  OnceInv'
<1> DEFINE type == Head(unpublished[x])
           e    == <<x, type>>
<1>1. /\ unpublished[x] # <<>>
      /\ unpublished' = [unpublished EXCEPT ![x] = Tail(@)]
      /\ UNCHANGED <<offset, position, inHand, done, resent>>
  BY DEF PublishEvent, PublishRetried, consumers
<1>2. unpublished \in [Txns -> Seq(EventTypes)]
  BY DEF OnceInv, LogInv
<1>3. unpublished[x] \in Seq(EventTypes)
  BY <1>2
<1>4. type \in EventTypes /\ Tail(unpublished[x]) \in Seq(EventTypes)
  BY <1>1, <1>3
<1>5. unpublished' \in [Txns -> Seq(EventTypes)]
  BY <1>1, <1>2, <1>4
<1>6. e \in Events /\ e[2] = type /\ TopicOf(type) \in Topics
  BY <1>4, TopicsOfEvents DEF Events
<1>7. log[TopicOf(type)][p] \in Seq(Events)
  BY <1>6 DEF OnceInv, LogInv
<1>8. PICK s \in {<<e>>, <<e, e>>} :
         log' = [log EXCEPT ![TopicOf(type)][p] = log[TopicOf(type)][p] \o s]
  <2>1. CASE PublishEvent(x, p)
    <3>1. log' = [log EXCEPT ![TopicOf(type)][p] = Append(log[TopicOf(type)][p], e)]
      BY <2>1 DEF PublishEvent
    <3>2. Append(log[TopicOf(type)][p], e) = log[TopicOf(type)][p] \o <<e>>
      <4> HIDE DEF e, type
      <4> QED
        BY <1>6, <1>7, OnceOrTwice
    <3> QED
      BY <3>1, <3>2
  <2>2. CASE PublishRetried(x, p)
    BY <2>2 DEF PublishRetried
  <2> QED
    BY <2>1, <2>2
<1> HIDE DEF e, type
<1>9. s \in Seq(Events) /\ \A i \in 1..Len(s) : s[i] = e
  <2>1. /\ <<e>> \in Seq(Events) /\ \A i \in 1..Len(<<e>>) : <<e>>[i] = e
        /\ <<e, e>> \in Seq(Events) /\ \A i \in 1..Len(<<e, e>>) : <<e, e>>[i] = e
    BY <1>6, <1>7, OnceOrTwice
  <2> QED
    BY <1>8, <2>1, Zenon
<1>10. \A i \in 1..Len(s) : TopicOf(s[i][2]) = TopicOf(type)
  BY <1>6, <1>9, Zenon
<1>11. /\ \A g \in Groups : \A d \in Events :
             ReadsIn(log', offset'[g], d) = ReadsIn(log, offset[g], d)
       /\ log' \in [Topics -> [Partitions -> Seq(Events)]]
       /\ \A u \in Topics : \A q \in Partitions : \A i \in 1..Len(log'[u][q]) :
             TopicOf(log'[u][q][i][2]) = u
       /\ \A g \in Groups : \A u \in Topics : \A q \in Partitions :
             position'[g][u][q] <= Len(log'[u][q])
  BY <1>1, <1>6, <1>8, <1>9, <1>10, WritesUnread
<1>12. LogInv'
  <2>1. offset' = offset /\ position' = position
    BY <1>1
  <2> QED
    BY <1>5, <1>11, <2>1, Zenon DEF OnceInv, LogInv
<1>13. inHand' \in HandTypes
  BY <1>1 DEF OnceInv, HandInv
<1> QED
  BY <1>1, <1>11, <1>12, <1>13, FewerInHand, Zenon

(* What a step of the server is to the pipeline. *)
LEMMA PipelineSteps ==
    ASSUME [ServerNext]_vars
    PROVE  \/ UNCHANGED <<unpublished, log, consumers>>
           \/ \E x \in Txns : Commit(x) \/ PublishFail(x)
           \/ \E x \in Txns : \E p \in Partitions : PublishEvent(x, p) \/ PublishRetried(x, p)
           \/ \E g \in Groups : \E t \in Topics :
                 \/ \E p \in Partitions : ReadMessage(g, t, p) \/ ReadMessageError(g, t, p)
                 \/ Handle(g, t) \/ HandleResent(g, t)
                 \/ HandleFail(g, t)
           \/ Forget
<1>1. CASE \E x \in Txns : Begin(x) \/ CommitTxn(x) \/ Rollback(x) \/ Leave(x) \/ Answer(x)
  BY <1>1, Zenon DEF Begin, CommitTxn, Rollback, Leave, Answer, pipeline
<1>2. CASE \E x \in Txns : PublishStep(x)
  BY <1>2, Zenon DEF PublishStep, PublishLost, Publish
<1>3. CASE \E g \in Groups : \E t \in Reads(g) : Consume(g, t)
  <2>1. \A g \in Groups : Reads(g) \subseteq Topics
    BY DEF Reads, Topics
  <2> QED
    BY <1>3, <2>1, Zenon DEF Consume
<1>4. CASE Signal \/ ShutdownStep \/ Kill \/ Boot
  BY <1>4 DEF Signal, ShutdownStep, Drained, CloseNext, Exit, ForcedExit, Kill, Boot, Ends, pipeline
<1>5. CASE UNCHANGED vars
  BY <1>5 DEF vars, pipeline
<1> QED
  BY <1>1, <1>2, <1>3, <1>4, <1>5 DEF ServerNext

LEMMA NextOnce ==
    ASSUME OnceInv, [ServerNext]_vars
    PROVE  OnceInv'
<1>1. unpublished \in [Txns -> Seq(EventTypes)] /\ inHand \in HandTypes
  BY DEF OnceInv, LogInv, HandInv
<1>2. ASSUME NEW s \in Seq(EventTypes), s # <<>> PROVE Tail(s) \in Seq(EventTypes)
  BY <1>2
<1>3. ASSUME unpublished' \in [Txns -> Seq(EventTypes)],
             UNCHANGED <<log, offset, done, resent>>, position' \in {position, offset},
             inHand' \in HandTypes,
             \A g \in Groups : \A t \in Topics :
                \/ inHand'[g][t] = inHand[g][t]
                \/ inHand'[g][t] = <<>>
                \/ inHand[g][t] # <<>> /\ inHand'[g][t] = Tail(inHand[g][t])
      PROVE  OnceInv'
  <2>1. LogInv'
    <3>1. /\ position' \in [Groups -> [Topics -> [Partitions -> Nat]]]
          /\ \A g \in Groups : \A t \in Topics : \A p \in Partitions :
                /\ offset[g][t][p] <= position'[g][t][p]
                /\ position'[g][t][p] <= Len(log[t][p])
      <4>1. CASE position' = position
        BY <4>1 DEF OnceInv, LogInv
      <4>2. CASE position' = offset
        <5>1. /\ offset \in [Groups -> [Topics -> [Partitions -> Nat]]]
              /\ position \in [Groups -> [Topics -> [Partitions -> Nat]]]
              /\ log \in [Topics -> [Partitions -> Seq(Events)]]
          BY DEF OnceInv, LogInv
        <5>2. ASSUME NEW g \in Groups, NEW t \in Topics, NEW p \in Partitions
              PROVE  /\ offset[g][t][p] \in Nat /\ position[g][t][p] \in Nat
                     /\ Len(log[t][p]) \in Nat /\ offset[g][t][p] <= position[g][t][p]
                     /\ position[g][t][p] <= Len(log[t][p])
          BY <5>1 DEF OnceInv, LogInv
        <5>3. \A g \in Groups : \A t \in Topics : \A p \in Partitions :
                 offset[g][t][p] <= offset[g][t][p] /\ offset[g][t][p] <= Len(log[t][p])
          BY <5>2
        <5> QED
          BY <4>2, <5>1, <5>3, Zenon
      <4> QED
        BY <1>3, <4>1, <4>2
    <3>2. log' = log /\ offset' = offset
      BY <1>3
    <3>3. /\ unpublished' \in [Txns -> Seq(EventTypes)]
          /\ log' \in [Topics -> [Partitions -> Seq(Events)]]
          /\ \A t \in Topics : \A p \in Partitions : \A i \in 1..Len(log'[t][p]) :
                TopicOf(log'[t][p][i][2]) = t
          /\ offset' \in [Groups -> [Topics -> [Partitions -> Nat]]]
      <4>1. /\ log \in [Topics -> [Partitions -> Seq(Events)]]
            /\ \A t \in Topics : \A p \in Partitions : \A i \in 1..Len(log[t][p]) :
                  TopicOf(log[t][p][i][2]) = t
            /\ offset \in [Groups -> [Topics -> [Partitions -> Nat]]]
        BY DEF OnceInv, LogInv
      <4>2. unpublished' \in [Txns -> Seq(EventTypes)]
        BY <1>3
      <4> QED
        BY <3>2, <4>1, <4>2
    <3>4. \A g \in Groups : \A t \in Topics : \A p \in Partitions :
             offset'[g][t][p] <= position'[g][t][p] /\ position'[g][t][p] <= Len(log'[t][p])
      BY <3>1, <3>2
    <3> QED
      BY <3>1, <3>3, <3>4, Zenon DEF LogInv
  <2>2. log' = log /\ offset' = offset /\ done' = done /\ resent' = resent
    BY <1>3
  <2> QED
    BY <1>3, <2>1, <2>2, FewerInHand, Zenon
<1>4. CASE UNCHANGED <<unpublished, log, consumers>>
  BY <1>1, <1>3, <1>4 DEF consumers
<1>5. CASE \E x \in Txns : Commit(x) \/ PublishFail(x)
  <2>1. PICK x \in Txns : Commit(x) \/ PublishFail(x)
    BY <1>5
  <2>2. Published(x) \in Seq(EventTypes) /\ unpublished[x] \in Seq(EventTypes)
    BY <1>1, PublishedTypes
  <2>3. unpublished' \in [Txns -> Seq(EventTypes)]
    BY <1>1, <1>2, <2>1, <2>2 DEF Commit, PublishFail
  <2> QED
    BY <1>1, <1>3, <2>1, <2>3 DEF Commit, PublishFail, consumers
<1>6. CASE \E x \in Txns : \E p \in Partitions : PublishEvent(x, p) \/ PublishRetried(x, p)
  BY <1>6, PublishKeepsOnce
<1>7. CASE \E g \in Groups : \E t \in Topics :
              \/ \E p \in Partitions : ReadMessage(g, t, p) \/ ReadMessageError(g, t, p)
              \/ Handle(g, t) \/ HandleResent(g, t)
  BY <1>7, ReadKeepsOnce, ReadErrorKeepsOnce, HandleKeepsOnce
<1>8. CASE \E g \in Groups : \E t \in Topics : HandleFail(g, t)
  <2>1. PICK g \in Groups, t \in Topics : HandleFail(g, t)
    BY <1>8
  <2>2. /\ inHand[g][t] # <<>> /\ inHand' = [inHand EXCEPT ![g][t] = Tail(@)]
        /\ UNCHANGED <<unpublished, log, offset, position, done, resent>>
    BY <2>1 DEF HandleFail
  <2>3. Tail(inHand[g][t]) \in Seq(Groups \X Events \X EffectKinds)
    BY <1>1, <2>2, TailFacts DEF OnceInv, HandInv, HandTypes
  <2>4. inHand' \in HandTypes
    BY <1>1, <2>2, <2>3 DEF HandTypes
  <2>5. \A h \in Groups : \A u \in Topics :
           \/ inHand'[h][u] = inHand[h][u]
           \/ inHand[h][u] # <<>> /\ inHand'[h][u] = Tail(inHand[h][u])
    BY <1>1, <2>2 DEF HandTypes
  <2> QED
    BY <1>1, <1>3, <2>2, <2>4, <2>5
<1>9. CASE Forget
  <2>1. /\ unpublished' \in [Txns -> Seq(EventTypes)]
        /\ inHand' \in HandTypes
        /\ \A g \in Groups : \A t \in Topics : inHand'[g][t] = <<>>
        /\ UNCHANGED <<log, offset, done, resent>> /\ position' = offset
    BY <1>9 DEF Forget, HandTypes
  <2> QED
    BY <1>3, <2>1
<1> QED
  BY <1>4, <1>5, <1>6, <1>7, <1>8, <1>9, PipelineSteps

LEMMA InitOnce == ServerInit => OnceInv
<1> SUFFICES ASSUME ServerInit PROVE OnceInv
  OBVIOUS
<1> USE DEF ServerInit, Init
<1>1. LogInv
  BY DEF LogInv
<1>2. ASSUME NEW g \in Groups, NEW e \in Events PROVE ReadsIn(log, offset[g], e) = {}
  <2>1. TopicOf(e[2]) \in Topics
    BY TopicsOfEvents
  <2>2. \A p \in Partitions : offset[g][TopicOf(e[2])][p] = 0
    BY <2>1
  <2> QED
    BY <2>2 DEF ReadsIn
<1>3. ReadsInv
  BY <1>2, FS_EmptySet DEF ReadsInv
<1>4. HandInv
  BY DEF HandInv, HandTypes, NoRepeat
<1>5. done = [a \in AllEffects |-> 0] /\ resent = done
  OBVIOUS
<1> HIDE DEF ServerInit, Init
<1>6. DoneInv
  <2>1. ASSUME NEW a \in AllEffects PROVE Owed(log, offset, resent, a) = 0
    <3>1. a[1] \in Groups /\ a[2] \in Events
      BY EffectsOwned
    <3>2. ReadsIn(log, offset[a[1]], a[2]) = {}
      BY <1>2, <3>1, Zenon
    <3>3. Cardinality(ReadsIn(log, offset[a[1]], a[2])) = 0
      BY <3>2, FS_EmptySet, Zenon
    <3>4. resent[a] = 0
      BY <1>5
    <3>5. Owed(log, offset, resent, a) = 0 + 0
      BY <3>3, <3>4, Zenon DEF Owed
    <3> QED
      BY <3>5
  <2>2. done \in [AllEffects -> Nat] /\ resent \in [AllEffects -> Nat]
    BY <1>5
  <2>3. \A a \in AllEffects : done[a] <= Owed(log, offset, resent, a)
    <3>1. \A a \in AllEffects : done[a] = 0
      BY <1>5
    <3> QED
      BY <2>1, <3>1
  <2> QED
    BY <2>2, <2>3, Zenon DEF DoneInv
<1> QED
  BY <1>1, <1>3, <1>4, <1>6 DEF OnceInv

(* No consumer group acts on a message more often than it has read it, whatever   *)
(* crashes, failed commits, failed writes and shutdowns come in between: only what *)
(* the Redis client re-sends is added, since ReadMessage commits the offset before *)
(* the handlers see the message.                                                   *)
THEOREM EffectsAtMostOnce == ServerSpec => []HandledAtMostOnce
<1>1. OnceInv => HandledAtMostOnce
  BY DEF OnceInv, DoneInv, HandledAtMostOnce, Owed, ReadsIn, ReadsOf
<1>2. QED
  BY <1>1, InitOnce, NextOnce, PTL DEF ServerSpec

-------------------------------------------------------------------------------
(* The migrations: RunMigrations never records what it has not done. *)

MigrationTypes ==
    /\ rows \in [Versions -> {"none", "clean"}]
    /\ file \in [Processes -> 1..Len(Files)]

(* A process comes to a file when the versions of all files before it are recorded. *)
EarlierClean ==
    \A p \in Processes : \A i \in 1..Len(Files) :
        i < file[p] => rows[Files[i].version] = "clean"

MInv == MigrationTypes /\ EarlierClean /\ SchemaMatchesRows

-------------------------------------------------------------------------------
LEMMA VersionTypes ==
    ASSUME NEW i \in 1..Len(Files)
    PROVE  Files[i].version \in Versions /\ Files[i].version \in Nat
BY MigrationConstants DEF Versions

(* A version below that of file k belongs to a file before it. *)
LEMMA LowerIsEarlier ==
    ASSUME NEW k \in 1..Len(Files), NEW w \in Versions, w < Files[k].version
    PROVE  \E j \in 1..Len(Files) : j < k /\ Files[j].version = w
<1>1. PICK j \in 1..Len(Files) : Files[j].version = w
  BY MigrationConstants DEF Versions
<1>2. k <= j => Files[k].version <= Files[j].version
  BY MigrationConstants
<1>3. Files[k].version \in Nat /\ w \in Nat
  BY <1>1, VersionTypes
<1>4. j < k
  BY <1>1, <1>2, <1>3, MigrationConstants
<1> QED
  BY <1>1, <1>4

(* On to the next file, once the version of this one is recorded. *)
LEMMA NextFileKeeps ==
    ASSUME MigrationTypes, NEW p \in Processes, NextFile(p)
    PROVE  /\ file' \in [Processes -> 1..Len(Files)]
           /\ \A q \in Processes : q # p => file'[q] = file[q]
           /\ \A i \in 1..Len(Files) : i < file'[p] => i < file[p] \/ i = file[p]
<1>1. Len(Files) \in Nat /\ file \in [Processes -> 1..Len(Files)]
  BY MigrationConstants DEF MigrationTypes
<1>2. CASE file[p] < Len(Files) /\ file' = [file EXCEPT ![p] = @ + 1]
  <2>1. file[p] + 1 \in 1..Len(Files)
    BY <1>1, <1>2
  <2>2. \A i \in 1..Len(Files) : i < file[p] + 1 => i < file[p] \/ i = file[p]
    BY <1>1
  <2> QED
    BY <1>1, <1>2, <2>1, <2>2
<1>3. CASE file' = file
  BY <1>1, <1>3
<1> QED
  BY <1>2, <1>3 DEF NextFile

(* A step that records nothing and moves only to files whose predecessors are recorded. *)
LEMMA NothingRecorded ==
    ASSUME MInv, UNCHANGED <<schema, rows>>, file' \in [Processes -> 1..Len(Files)],
           \A p \in Processes : \A i \in 1..Len(Files) :
              i < file'[p] => rows[Files[i].version] = "clean"
    PROVE  MInv'
BY DEF MInv, MigrationTypes, EarlierClean, SchemaMatchesRows

LEMMA CheckKeeps ==
    ASSUME MInv, NEW p \in Processes, Check(p)
    PROVE  MInv'
<1>1. UNCHANGED <<schema, rows>>
  BY DEF Check
<1>2. file[p] \in 1..Len(Files) /\ rows[Version(p)] \in {"none", "clean"}
  BY VersionTypes DEF MInv, MigrationTypes, Version
<1>3. CASE file' = file
  BY <1>1, <1>3, NothingRecorded DEF MInv, MigrationTypes, EarlierClean
<1>4. CASE rows[Version(p)] = "clean" /\ NextFile(p)
  <2>1. \A q \in Processes : \A i \in 1..Len(Files) :
           i < file'[q] => rows[Files[i].version] = "clean"
    BY <1>4, NextFileKeeps DEF MInv, EarlierClean, Version
  <2> QED
    BY <1>1, <1>4, <2>1, NextFileKeeps, NothingRecorded DEF MInv
<1> QED
  BY <1>2, <1>3, <1>4 DEF Check

(* The commit of a script records its version; every lower one is recorded. *)
LEMMA CommitKeeps ==
    ASSUME MInv, NEW p \in Processes, ScriptCommits(p)
    PROVE  MInv'
<1> DEFINE f == Files[file[p]]
           v == f.version
<1>1. file[p] \in 1..Len(Files) /\ rows \in [Versions -> {"none", "clean"}]
  BY DEF MInv, MigrationTypes
<1>2. v \in Versions
  BY <1>1, VersionTypes
<1>3. /\ schema' = schema \cup f.creates \cup f.ensures
      /\ rows' = [rows EXCEPT ![v] = "clean"]
      /\ NextFile(p)
  BY DEF ScriptCommits, Version
<1> HIDE DEF v
<1>4. /\ rows' \in [Versions -> {"none", "clean"}]
      /\ rows'[v] = "clean"
      /\ \A w \in Versions : rows'[w] = rows[w] \/ w = v
      /\ \A w \in Versions : rows[w] = "clean" => rows'[w] = "clean"
  BY <1>1, <1>2, <1>3
<1>5. MigrationTypes'
  BY <1>3, <1>4, NextFileKeeps DEF MInv, MigrationTypes
<1>6. EarlierClean'
  <2>1. ASSUME NEW q \in Processes, NEW i \in 1..Len(Files), i < file'[q]
        PROVE  rows'[Files[i].version] = "clean"
    <3>1. i < file[q] \/ (q = p /\ i = file[p])
      BY <1>3, <2>1, NextFileKeeps DEF MInv
    <3>2. CASE i < file[q]
      BY <1>4, <3>2, VersionTypes DEF MInv, EarlierClean
    <3>3. CASE q = p /\ i = file[p]
      BY <1>4, <3>3 DEF v
    <3> QED
      BY <3>1, <3>2, <3>3
  <2> QED
    BY <2>1 DEF EarlierClean
<1>7. ASSUME NEW u \in Versions, rows'[u] # "none"
      PROVE  /\ \E i \in DOMAIN Files :
                   /\ Files[i].version = u
                   /\ Files[i].creates \cup Files[i].ensures \subseteq schema'
             /\ \A w \in Versions : w < u => rows'[w] = "clean"
  <2>1. CASE u = v
    <3>1. f.creates \cup f.ensures \subseteq schema' /\ file[p] \in DOMAIN Files
      BY <1>1, <1>3, MigrationConstants
    <3>2. ASSUME NEW w \in Versions, w < u PROVE rows'[w] = "clean"
      <4>1. PICK j \in 1..Len(Files) : j < file[p] /\ Files[j].version = w
        BY <1>1, <2>1, <3>2, LowerIsEarlier DEF v
      <4>2. rows[w] = "clean"
        BY <4>1 DEF MInv, EarlierClean
      <4> QED
        BY <1>4, <4>2
    <3> QED
      BY <2>1, <3>1, <3>2 DEF v
  <2>2. CASE u # v
    <3>1. rows[u] # "none"
      BY <1>4, <1>7, <2>2
    <3>2. /\ \E i \in DOMAIN Files : /\ Files[i].version = u
                                     /\ Files[i].creates \cup Files[i].ensures \subseteq schema
          /\ \A w \in Versions : w < u => rows[w] = "clean"
      BY <3>1 DEF MInv, SchemaMatchesRows
    <3> QED
      BY <1>3, <1>4, <3>2
  <2> QED
    BY <2>1, <2>2
<1>8. SchemaMatchesRows'
  BY <1>7 DEF SchemaMatchesRows
<1> QED
  BY <1>5, <1>6, <1>8 DEF MInv

LEMMA InitMigrations == MigrationInit => MInv
<1>1. 1 \in 1..Len(Files)
  BY MigrationConstants
<1> QED
  BY <1>1, VersionTypes
  DEF MigrationInit, MInv, MigrationTypes, EarlierClean, SchemaMatchesRows

LEMMA NextMigrations ==
    ASSUME MInv, [MigrationNext]_migration
    PROVE  MInv'
<1>1. ASSUME NEW p \in Processes, MarkDirty(p) \/ ScriptFails(p) \/ Crash(p) PROVE MInv'
  BY <1>1 DEF MarkDirty, ScriptFails, Crash, MInv, MigrationTypes, EarlierClean, SchemaMatchesRows
<1>2. ASSUME NEW p \in Processes, Restart(p) PROVE MInv'
  <2>1. 1 \in 1..Len(Files) /\ \A i \in 1..Len(Files) : ~(i < 1)
    BY MigrationConstants
  <2>2. UNCHANGED <<schema, rows>> /\ file' = [file EXCEPT ![p] = 1]
    BY <1>2 DEF Restart
  <2>3. /\ file' \in [Processes -> 1..Len(Files)]
        /\ \A q \in Processes : file'[q] = file[q] \/ file'[q] = 1
    BY <2>1, <2>2 DEF MInv, MigrationTypes
  <2>4. \A q \in Processes : \A i \in 1..Len(Files) :
           i < file'[q] => rows[Files[i].version] = "clean"
    BY <2>1, <2>3 DEF MInv, EarlierClean
  <2> QED
    BY <2>2, <2>3, <2>4, NothingRecorded
<1>3. CASE UNCHANGED migration
  BY <1>3 DEF migration, MInv, MigrationTypes, EarlierClean, SchemaMatchesRows
<1> QED
  BY <1>1, <1>2, <1>3, CheckKeeps, CommitKeeps DEF MigrationNext, Migrate

(* A version that schema_migrations records has all of one of its scripts in   *)
(* the schema, and all earlier versions are recorded: the row and the script   *)
(* are committed together, whoever is killed or migrates at the same time.     *)
THEOREM SchemaCorrect == MigrationSpec => []SchemaMatchesRows
<1>1. MInv => SchemaMatchesRows
  BY DEF MInv
<1> QED
  BY <1>1, InitMigrations, NextMigrations, PTL DEF MigrationSpec
===============================================================================
