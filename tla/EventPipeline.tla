---------------------------- MODULE EventPipeline ----------------------------
(***************************************************************************)
(* What follows a commit: the service that committed publishes its events  *)
(* to Kafka, and the three consumer groups (audit, notification,           *)
(* analytics), one goroutine per group and topic, act on them.             *)
(*                                                                         *)
(* Kafka and its client library are external and modelled from their use:  *)
(* a topic is a set of partitions, LeastBytes picks any of them, and       *)
(* ReadMessage of a reader with a GroupID fetches a message and commits    *)
(* its offset before it hands the message over.  A reader keeps the        *)
(* partitions it has been given: rebalances of a group are left out.       *)
(*                                                                         *)
(* These are the steps of the pipeline; Server says when the process that  *)
(* takes them is up, and what it still can reach.                          *)
(***************************************************************************)
EXTENDS Naturals, Sequences, FiniteSets, Functions

CONSTANTS
    Txns,        \* the transactions that commit
    Kind,        \* Kind[x]: "place", "cancel", "trade", "wallet"
    Partitions,  \* partitions of every topic
    Groups       \* the consumer groups looked at: they share nothing but the topics

Kinds == {"place", "cancel", "trade", "wallet"}

ASSUME PipelineConstants ==
    /\ Kind \in [Txns -> Kinds]
    /\ Groups \subseteq {"audit-group", "notification-group", "analytics-group"}

Topics == {"order-events", "trade-events", "wallet-events"}

VARIABLES
    committed,    \* transactions that have committed
    unpublished,  \* unpublished[x]: the event types its goroutine has still to publish
    log,          \* log[t][p]: the messages of a partition
    offset,       \* offset[g][t][p]: the committed offset of a consumer group
    position,     \* position[g][t][p]: how far its reader has fetched
    inHand,       \* inHand[g][t]: the effects of the message at hand still to come
    done,         \* done[e]: how many times effect e has happened
    resent,       \* history: resent[e]: how many of these the Redis client has added
    lost          \* history: the effects that a fault has made impossible once

consumers == <<offset, position, inHand, done, resent>>
pipeline  == <<committed, unpublished, log, consumers, lost>>

(* The events each service publishes after its commit, in this order. *)
Published(x) ==
    CASE Kind[x] = "place"  -> <<"order.created">>
      [] Kind[x] = "cancel" -> <<"order.cancelled">>
      [] Kind[x] = "trade"  -> <<"trade.executed", "wallet.updated buyer", "wallet.updated seller">>
      [] Kind[x] = "wallet" -> <<"wallet.updated">>

TopicOf(type) ==
    CASE type \in {"order.created", "order.cancelled"} -> "order-events"
      [] type = "trade.executed" -> "trade-events"
      [] OTHER -> "wallet-events"

(* What each consumer does with an event, in this order.  The audit consumer   *)
(* writes one row, or one for each side of a trade ...                          *)
AuditEffects(e) ==
    IF e[2] = "trade.executed"
    THEN <<<<"audit-group", e, "buyer">>, <<"audit-group", e, "seller">>>>
    ELSE <<<<"audit-group", e, "entry">>>>

(* ... the analytics consumer adds to the volume, then to the count of trades ... *)
AnalyticsEffects(e) ==
    <<<<"analytics-group", e, "total_volume">>, <<"analytics-group", e, "trade_count">>>>

(* ... and the notification consumer prints one line. *)
NotificationEffects(e) == <<<<"notification-group", e, "entry">>>>

Effects(g, e) ==
    CASE g = "audit-group" -> AuditEffects(e)
      [] g = "analytics-group" -> AnalyticsEffects(e)
      [] OTHER -> NotificationEffects(e)

(* The topics a group reads: analytics reads the trades only. *)
Reads(g) == IF g = "analytics-group" THEN {"trade-events"} ELSE Topics

(* The effects that an event has in all the groups that read its topic. *)
EffectsOfEvent(e) ==
    UNION {Range(Effects(g, e)) : g \in {h \in Groups : TopicOf(e[2]) \in Reads(h)}}

EffectsOfEvents(x, types) == UNION {EffectsOfEvent(<<x, type>>) : type \in Range(types)}

AllEffects == UNION {EffectsOfEvents(x, Published(x)) : x \in Txns}

Init ==
    /\ committed = {}
    /\ unpublished = [x \in Txns |-> <<>>]
    /\ log = [t \in Topics |-> [p \in Partitions |-> <<>>]]
    /\ offset = [g \in Groups |-> [t \in Topics |-> [p \in Partitions |-> 0]]]
    /\ position = offset
    /\ inHand = [g \in Groups |-> [t \in Topics |-> <<>>]]
    /\ done = [e \in AllEffects |-> 0]
    /\ resent = done
    /\ lost = {}

-------------------------------------------------------------------------------
Commit(x) ==
    /\ x \notin committed
    /\ committed' = committed \cup {x}
    /\ unpublished' = [unpublished EXCEPT ![x] = Published(x)]
    /\ UNCHANGED <<log, consumers, lost>>

(* PublishEvent writes one message; the next event of the transaction follows. *)
PublishEvent(x, p) ==
    /\ unpublished[x] # <<>>
    /\ LET type == Head(unpublished[x])
       IN  log' = [log EXCEPT ![TopicOf(type)][p] = Append(@, <<x, type>>)]
    /\ unpublished' = [unpublished EXCEPT ![x] = Tail(@)]
    /\ UNCHANGED <<committed, consumers, lost>>

(* The broker's answer is lost and the writer sends the message again. *)
PublishRetried(x, p) ==
    /\ unpublished[x] # <<>>
    /\ LET type == Head(unpublished[x])
       IN  log' = [log EXCEPT ![TopicOf(type)][p] = @ \o <<<<x, type>>, <<x, type>>>>]
    /\ unpublished' = [unpublished EXCEPT ![x] = Tail(@)]
    /\ UNCHANGED <<committed, consumers, lost>>

(* PublishEvent returns an error, which every caller ignores: the next event follows. *)
PublishFail(x) ==
    /\ unpublished[x] # <<>>
    /\ unpublished' = [unpublished EXCEPT ![x] = Tail(@)]
    /\ lost' = lost \cup EffectsOfEvent(<<x, Head(unpublished[x])>>)
    /\ UNCHANGED <<committed, log, consumers>>

(* The reader of (g, t) is free and fetches the next message of a partition. *)
Fetch(g, t, p) ==
    /\ inHand[g][t] = <<>>
    /\ position[g][t][p] < Len(log[t][p])
    /\ position' = [position EXCEPT ![g][t][p] = @ + 1]

Fetched(g, t, p) == log[t][p][position[g][t][p] + 1]

Committed(g, t, p) == offset' = [offset EXCEPT ![g][t][p] = position[g][t][p] + 1]

\* Mutant of ReadMessage: the offset is not committed with the read.
ReadMessageUncommitted(g, t, p) ==
    /\ Fetch(g, t, p)
    /\ inHand' = [inHand EXCEPT ![g][t] = Effects(g, Fetched(g, t, p))]
    /\ UNCHANGED <<committed, unpublished, log, offset, done, resent, lost>>

(* ReadMessage: the offset is committed and the message is decoded. *)
ReadMessage(g, t, p) ==
    /\ Fetch(g, t, p)
    /\ Committed(g, t, p)
    /\ inHand' = [inHand EXCEPT ![g][t] = Effects(g, Fetched(g, t, p))]
    /\ UNCHANGED <<committed, unpublished, log, done, resent, lost>>

(* ReadMessage has fetched a message and its commit fails, or its answer is lost. *)
(* The loop logs the error, sleeps and reads the next message; this one comes     *)
(* again only if the process ends before the offset is committed past it.         *)
ReadMessageError(g, t, p) ==
    /\ Fetch(g, t, p)
    /\ UNCHANGED offset \/ Committed(g, t, p)
    /\ lost' = lost \cup Range(Effects(g, Fetched(g, t, p)))
    /\ UNCHANGED <<committed, unpublished, log, inHand, done, resent>>

\* Mutant of Handle: the goroutine goes on to the next message after one effect.
HandleFirst(g, t) ==
    /\ inHand[g][t] # <<>>
    /\ done' = [done EXCEPT ![Head(inHand[g][t])] = @ + 1]
    /\ inHand' = [inHand EXCEPT ![g][t] = <<>>]
    /\ UNCHANGED <<committed, unpublished, log, offset, position, resent, lost>>

Handle(g, t) ==
    /\ inHand[g][t] # <<>>
    /\ done' = [done EXCEPT ![Head(inHand[g][t])] = @ + 1]
    /\ inHand' = [inHand EXCEPT ![g][t] = Tail(@)]
    /\ UNCHANGED <<committed, unpublished, log, offset, position, resent, lost>>

(* INCRBYFLOAT and INCR are not idempotent: when only the answer is lost, go-redis *)
(* sends the command again, and it happens twice.                                  *)
HandleResent(g, t) ==
    /\ g = "analytics-group"
    /\ inHand[g][t] # <<>>
    /\ done' = [done EXCEPT ![Head(inHand[g][t])] = @ + 2]
    /\ resent' = [resent EXCEPT ![Head(inHand[g][t])] = @ + 1]
    /\ inHand' = [inHand EXCEPT ![g][t] = Tail(@)]
    /\ UNCHANGED <<committed, unpublished, log, offset, position, lost>>

(* auditRepo.Create or a Redis command fails: ignored or logged, never retried. *)
HandleFail(g, t) ==
    /\ g # "notification-group"
    /\ inHand[g][t] # <<>>
    /\ inHand' = [inHand EXCEPT ![g][t] = Tail(@)]
    /\ lost' = lost \cup {Head(inHand[g][t])}
    /\ UNCHANGED <<committed, unpublished, log, offset, position, done, resent>>

(* The process ends: what was still to be published or handled is forgotten, and *)
(* the next one reads on from the committed offsets.                             *)
Forget ==
    /\ position' = offset
    /\ unpublished' = [x \in Txns |-> <<>>]
    /\ inHand' = [g \in Groups |-> [t \in Topics |-> <<>>]]
    /\ lost' = lost \cup UNION {EffectsOfEvents(x, unpublished[x]) : x \in Txns}
                    \cup UNION {Range(inHand[g][t]) : g \in Groups, t \in Topics}
    /\ UNCHANGED <<committed, log, offset, done, resent>>

-------------------------------------------------------------------------------
(* Properties *)

(* The messages of event e that group g will not read again. *)
ReadsOf(g, e) ==
    LET t == TopicOf(e[2])
    IN  UNION {{p} \X {i \in 1..offset[g][t][p] : log[t][p][i] = e} : p \in Partitions}

(* No message is acted on twice by a consumer group, whatever crashes, failed     *)
(* commits and write failures come between fetching a message and acting on it,   *)
(* and however a trade's two audit rows are torn apart.  Only a message that the  *)
(* producer's retry has put into the topic twice has its effects twice, and only  *)
(* an increment that the Redis client has sent twice is added twice.              *)
HandledAtMostOnce ==
    \A e \in AllEffects : done[e] <= Cardinality(ReadsOf(e[1], e[2])) + resent[e]

(* Every committed transaction is audited on both sides, announced and counted *)
(* in the end; an effect is missing only if the very event that asks for it    *)
(* could not be published, if the commit of its own message's offset failed, if *)
(* its own write failed, or if the process died with one of these pending.  A   *)
(* fault never takes anything else with it: not the other side's audit row, not *)
(* the events behind it in the partition, not the messages of another group.    *)
EveryEffectHappens ==
    \A x \in Txns :
        x \in committed ~> \A e \in AllEffects : e[2][1] = x => done[e] > 0 \/ e \in lost
===============================================================================
