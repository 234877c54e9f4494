----------------------------- MODULE WebsocketHub -----------------------------
(***************************************************************************)
(* The WebSocket hub: Hub.Run with its three channels, the read and write  *)
(* pump of every client, the HTTP handler that connects clients and the    *)
(* goroutine that forwards Redis messages to the hub.                      *)
(*                                                                         *)
(* The mutex.  Subscribe, Unsubscribe and unsubscribeAll hold subMutex for *)
(* writing and never block inside, so each is one step, taken when the     *)
(* hub's goroutine does not hold the read lock (nobody else ever takes the *)
(* read lock).  A goroutine that wants the lock is at a pc of its own and  *)
(* waits there.                                                            *)
(***************************************************************************)
EXTENDS Naturals, Sequences, FiniteSets

CONSTANTS
    Clients,       \* the WebSocket connections made
    Topics,        \* "asset:<id>"
    NoClient,
    SendCap,       \* capacity of a client's Send channel
    RegisterCap,   \* capacity of RegisterChan
    UnregisterCap, \* capacity of UnregisterChan
    BroadcastCap,  \* capacity of BroadcastChan
    MaxMessages    \* bound: how many price updates Redis delivers

ASSUME HubConstants ==
    /\ NoClient \notin Clients
    /\ {SendCap, RegisterCap, UnregisterCap, BroadcastCap} \subseteq Nat \ {0}
    /\ MaxMessages \in Nat

VARIABLES
    subscriptions,  \* Hub.subscriptions: topic to set of clients
    topics,         \* Client.topics, per client
    send,           \* Client.Send: how many messages are buffered
    closed,         \* the clients whose Send channel is closed
    conn,           \* the clients whose connection is open
    reader,         \* ReadPump, per client: pc and the topic it is working on
    writer,         \* WritePump, per client
    hub,            \* Hub.Run: pc, the client at hand, clients left in the range loop
    rlocked,        \* Run holds subMutex for reading
    registerChan,   \* how many clients are in RegisterChan
    unregisterChan, \* UnregisterChan
    broadcastChan,  \* BroadcastChan: topics of the messages
    delivered       \* how many messages Redis has delivered

subs  == <<subscriptions, topics>>
pumps == <<conn, reader, writer>>
chans == <<registerChan, unregisterChan, broadcastChan, delivered>>
vars  == <<subs, send, closed, pumps, hub, rlocked, chans>>

NoTopic == "none"

HubPCs    == {"select", "broadcast", "unsubscribeAll", "unsubscribeFull", "close"}
ReaderPCs == {"none", "read", "subscribe", "unsubscribe", "unregister", "done"}

AtSelect == [pc |-> "select", client |-> NoClient, todo |-> {}]

Reading == [pc |-> "read", topic |-> NoTopic]

Init ==
    /\ subscriptions = [t \in Topics |-> {}]
    /\ topics = [c \in Clients |-> {}]
    /\ send = [c \in Clients |-> 0]
    /\ closed = {}
    /\ conn = {}
    /\ reader = [c \in Clients |-> [pc |-> "none", topic |-> NoTopic]]
    /\ writer = [c \in Clients |-> "none"]
    /\ hub = AtSelect
    /\ rlocked = FALSE
    /\ registerChan = 0
    /\ unregisterChan = <<>>
    /\ broadcastChan = <<>>
    /\ delivered = 0

-------------------------------------------------------------------------------
(* Handler.Connect: the upgrade, the blocking send to RegisterChan, both pumps. *)
Connect(c) ==
    /\ reader[c].pc = "none"
    /\ registerChan < RegisterCap
    /\ registerChan' = registerChan + 1
    /\ conn' = conn \cup {c}
    /\ reader' = [reader EXCEPT ![c] = Reading]
    /\ writer' = [writer EXCEPT ![c] = "run"]
    /\ UNCHANGED <<subs, send, closed, hub, rlocked, unregisterChan, broadcastChan, delivered>>

(* The forwarder in main: a blocking send of each price update. *)
Forward(t) ==
    /\ delivered < MaxMessages
    /\ Len(broadcastChan) < BroadcastCap
    /\ delivered' = delivered + 1
    /\ broadcastChan' = Append(broadcastChan, t)
    /\ UNCHANGED <<subs, send, closed, pumps, hub, rlocked, registerChan, unregisterChan>>

-------------------------------------------------------------------------------
(* Client.ReadPump *)

(* ReadMessage returns a request of the peer; it is served under the lock. *)
ReadRequest(c, action, t) ==
    /\ reader[c].pc = "read"
    /\ c \in conn
    /\ reader' = [reader EXCEPT ![c] = [pc |-> action, topic |-> t]]
    /\ UNCHANGED <<subs, send, closed, conn, writer, hub, rlocked, chans>>

Subscribe(c) ==
    /\ reader[c].pc = "subscribe"
    /\ ~rlocked
    /\ LET t == reader[c].topic
       IN  /\ subscriptions' = [subscriptions EXCEPT ![t] = @ \cup {c}]
           /\ topics' = [topics EXCEPT ![c] = @ \cup {t}]
    /\ reader' = [reader EXCEPT ![c] = Reading]
    /\ UNCHANGED <<send, closed, conn, writer, hub, rlocked, chans>>

\* Mutant of Unsubscribe: the client's own set of topics keeps the topic.
UnsubscribeHubOnly(c) ==
    /\ reader[c].pc = "unsubscribe"
    /\ ~rlocked
    /\ LET t == reader[c].topic
       IN  /\ subscriptions' = [subscriptions EXCEPT ![t] = @ \ {c}]
           /\ UNCHANGED topics
    /\ reader' = [reader EXCEPT ![c] = Reading]
    /\ UNCHANGED <<send, closed, conn, writer, hub, rlocked, chans>>

Unsubscribe(c) ==
    /\ reader[c].pc = "unsubscribe"
    /\ ~rlocked
    /\ LET t == reader[c].topic
       IN  /\ subscriptions' = [subscriptions EXCEPT ![t] = @ \ {c}]
           /\ topics' = [topics EXCEPT ![c] = @ \ {t}]
    /\ reader' = [reader EXCEPT ![c] = Reading]
    /\ UNCHANGED <<send, closed, conn, writer, hub, rlocked, chans>>

(* ReadMessage fails: the peer is gone, sent nothing for pongWait, or the     *)
(* write pump has closed the connection.                                      *)
ReadFail(c) ==
    /\ reader[c].pc = "read"
    /\ reader' = [reader EXCEPT ![c] = [pc |-> "unregister", topic |-> NoTopic]]
    /\ UNCHANGED <<subs, send, closed, conn, writer, hub, rlocked, chans>>

(* The deferred function: a blocking send to UnregisterChan, then Conn.Close. *)
ReadUnregister(c) ==
    /\ reader[c].pc = "unregister"
    /\ Len(unregisterChan) < UnregisterCap
    /\ unregisterChan' = Append(unregisterChan, c)
    /\ conn' = conn \ {c}
    /\ reader' = [reader EXCEPT ![c].pc = "done"]
    /\ UNCHANGED <<subs, send, closed, writer, hub, rlocked, registerChan, broadcastChan, delivered>>

-------------------------------------------------------------------------------
(* Client.WritePump *)

(* One message is received and everything behind it in the buffer goes out with it. *)
WriteMessages(c) ==
    /\ writer[c] = "run"
    /\ c \in conn
    /\ send[c] > 0
    /\ send' = [send EXCEPT ![c] = 0]
    /\ UNCHANGED <<subs, closed, pumps, hub, rlocked, chans>>

(* A write or a ping fails, or the channel is closed and drained: the pump returns. *)
WriteEnd(c) ==
    /\ writer[c] = "run"
    /\ writer' = [writer EXCEPT ![c] = "done"]
    /\ conn' = conn \ {c}
    /\ UNCHANGED <<subs, send, closed, reader, hub, rlocked, chans>>

-------------------------------------------------------------------------------
(* Hub.Run *)

HubRegister ==
    /\ hub.pc = "select"
    /\ registerChan > 0
    /\ registerChan' = registerChan - 1
    /\ UNCHANGED <<subs, send, closed, pumps, hub, rlocked, unregisterChan, broadcastChan, delivered>>

HubUnregister ==
    /\ hub.pc = "select"
    /\ unregisterChan # <<>>
    /\ hub' = [pc |-> "unsubscribeAll", client |-> Head(unregisterChan), todo |-> {}]
    /\ unregisterChan' = Tail(unregisterChan)
    /\ UNCHANGED <<subs, send, closed, pumps, rlocked, registerChan, broadcastChan, delivered>>

(* RLock, and the range over the topic's clients begins.  Nobody can change the *)
(* map while the read lock is held.                                             *)
HubBroadcast ==
    /\ hub.pc = "select"
    /\ broadcastChan # <<>>
    /\ hub' = [pc |-> "broadcast", client |-> NoClient, todo |-> subscriptions[Head(broadcastChan)]]
    /\ broadcastChan' = Tail(broadcastChan)
    /\ rlocked' = TRUE
    /\ UNCHANGED <<subs, send, closed, pumps, registerChan, unregisterChan, delivered>>

(* The non-blocking send to one client: a full buffer takes the default branch, *)
(* which calls unsubscribeAll with the read lock still held.                    *)
HubSend(c) ==
    /\ hub.pc = "broadcast"
    /\ c \in hub.todo
    /\ IF send[c] < SendCap
       THEN /\ send' = [send EXCEPT ![c] = @ + 1]
            /\ hub' = [hub EXCEPT !.todo = @ \ {c}]
       ELSE /\ hub' = [pc |-> "unsubscribeFull", client |-> c, todo |-> hub.todo \ {c}]
            /\ UNCHANGED send
    /\ UNCHANGED <<subs, closed, pumps, rlocked, chans>>

\* Mutant of HubRUnlock: the read lock is kept.
HubRUnlockForgotten ==
    /\ hub.pc = "broadcast"
    /\ hub.todo = {}
    /\ hub' = AtSelect
    /\ UNCHANGED <<subs, send, closed, pumps, rlocked, chans>>

HubRUnlock ==
    /\ hub.pc = "broadcast"
    /\ hub.todo = {}
    /\ hub' = AtSelect
    /\ rlocked' = FALSE
    /\ UNCHANGED <<subs, send, closed, pumps, chans>>

\* Mutant of unsubscribeAll: only the client's set of topics is reset.
unsubscribeAllTopicsOnly ==
    /\ hub.pc \in {"unsubscribeAll", "unsubscribeFull"}
    /\ ~rlocked
    /\ topics' = [topics EXCEPT ![hub.client] = {}]
    /\ hub' = [hub EXCEPT !.pc = "close"]
    /\ UNCHANGED <<subscriptions, send, closed, pumps, rlocked, chans>>

(* Called for a client that has disconnected, and for one whose buffer is full. *)
unsubscribeAll ==
    /\ hub.pc \in {"unsubscribeAll", "unsubscribeFull"}
    /\ ~rlocked
    /\ subscriptions' = [t \in Topics |-> IF t \in topics[hub.client]
                                          THEN subscriptions[t] \ {hub.client}
                                          ELSE subscriptions[t]]
    /\ topics' = [topics EXCEPT ![hub.client] = {}]
    /\ hub' = [hub EXCEPT !.pc = "close"]
    /\ UNCHANGED <<send, closed, pumps, rlocked, chans>>

(* close(client.Send); then on with the range loop, or back to the select. *)
HubClose ==
    /\ hub.pc = "close"
    /\ closed' = closed \cup {hub.client}
    /\ hub' = IF rlocked THEN [hub EXCEPT !.pc = "broadcast"] ELSE AtSelect
    /\ UNCHANGED <<subs, send, pumps, rlocked, chans>>

HubStep ==
    \/ HubRegister
    \/ HubUnregister
    \/ HubBroadcast
    \/ \E c \in Clients : HubSend(c)
    \/ HubRUnlock
    \/ unsubscribeAll
    \/ HubClose

Next ==
    \/ \E c \in Clients : Connect(c)
    \/ \E t \in Topics : Forward(t)
    \/ \E c \in Clients, action \in {"subscribe", "unsubscribe"}, t \in Topics :
          ReadRequest(c, action, t)
    \/ \E c \in Clients : Subscribe(c) \/ Unsubscribe(c)
    \/ \E c \in Clients : ReadFail(c) \/ ReadUnregister(c)
    \/ \E c \in Clients : WriteMessages(c) \/ WriteEnd(c)
    \/ HubStep

Spec == Init /\ [][Next]_vars

(* What a pump does whatever the peer does: serve the request it has read,      *)
(* unregister, notice that its connection or its channel is closed.             *)
ReadPump(c) ==
    \/ Subscribe(c) \/ Unsubscribe(c) \/ ReadUnregister(c)
    \/ c \notin conn /\ ReadFail(c)

WritePump(c) == c \in closed /\ WriteEnd(c)

(* The Go scheduler runs every runnable goroutine.  A peer need not read, and   *)
(* need not send anything.                                                      *)
FairSpec == /\ Spec
            /\ WF_vars(HubStep)
            /\ \A c \in Clients : WF_vars(ReadPump(c)) /\ WF_vars(WritePump(c))

-------------------------------------------------------------------------------
(* Properties *)

(* Channels stay within their capacity, and every goroutine is at one of its pcs. *)
TypeOK ==
    /\ subscriptions \in [Topics -> SUBSET Clients]
    /\ topics \in [Clients -> SUBSET Topics]
    /\ send \in [Clients -> 0..SendCap]
    /\ closed \subseteq Clients
    /\ conn \subseteq Clients
    /\ reader \in [Clients -> [pc : ReaderPCs, topic : Topics \cup {NoTopic}]]
    /\ writer \in [Clients -> {"none", "run", "done"}]
    /\ hub \in [pc : HubPCs, client : Clients \cup {NoClient}, todo : SUBSET Clients]
    /\ rlocked \in BOOLEAN
    /\ registerChan \in 0..RegisterCap
    /\ unregisterChan \in Seq(Clients)
    /\ broadcastChan \in Seq(Topics)
    /\ delivered \in 0..MaxMessages

(* The two halves of a subscription, the hub's set of clients and the client's  *)
(* set of topics, agree, so that unsubscribeAll, which only looks at the        *)
(* client's half, leaves nothing behind in the hub's.                           *)
SubscriptionsAgree ==
    \A c \in Clients, t \in Topics : c \in subscriptions[t] <=> t \in topics[c]

(* Run never sends on a closed Send channel and never closes one twice, either  *)
(* of which would panic and take the whole process down.                        *)
ChannelsUsedOpen ==
    /\ hub.pc = "broadcast" => hub.todo \cap closed = {}
    /\ hub.pc = "close" => hub.client \notin closed

(* Once a client's read pump has ended, the hub forgets the client and closes   *)
(* its channel, and its write pump ends, unless the hub has met a full buffer.  *)
DisconnectedClientsReleased ==
    \A c \in Clients :
        reader[c].pc = "unregister" ~>
            \/ c \in closed /\ writer[c] = "done" /\ \A t \in Topics : c \notin subscriptions[t]
            \/ hub.pc = "unsubscribeFull"

(* hub.go: "If client buffer is full, unregister it": the client whose buffer   *)
(* Run finds full is unregistered in the end, as every disconnected client is,  *)
(* and its channel closed.                                                      *)
FullBufferUnregistered ==
    \A c \in Clients : hub.pc = "unsubscribeFull" /\ hub.client = c ~> c \in closed
===============================================================================
