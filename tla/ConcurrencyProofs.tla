--------------------------- MODULE ConcurrencyProofs ---------------------------
(***************************************************************************)
(* Proofs about who waits for whom: the row locks of RowLocks, for any     *)
(* orders, traders, engines, handlers and jobs, and the goroutines and     *)
(* channels of WebsocketHub, for any clients, topics and capacities.       *)
(***************************************************************************)
EXTENDS RowLocks, WebsocketHub, FiniteSetTheorems, SequenceTheorems, TLAPS

-------------------------------------------------------------------------------
(* RowLocks.  Only an engine or an expiry job holds a lock while it waits for    *)
(* another one, so a deadlock needs two of them.                                 *)

(* The rows of a trade, and of every other transaction, are rows. *)
LEMMA TradePlanType ==
    ASSUME NEW b \in OrderIds, NEW s \in OrderIds
    PROVE  TradePlan(b, s) \in Seq(Rows)
<1>1. Owner[b] \in Users /\ Owner[s] \in Users
  BY LockConstants
<1>2. {OrderRow(b), OrderRow(s), WalletRow(Owner[b]), WalletRow(Owner[s]),
       HoldingRow(Owner[b]), HoldingRow(Owner[s])} \subseteq Rows
  BY <1>1 DEF Rows
<1>3. /\ <<OrderRow(s), OrderRow(b)>> \in Seq(Rows)
      /\ <<OrderRow(b), OrderRow(s)>> \in Seq(Rows)
      /\ <<WalletRow(Owner[b]), WalletRow(Owner[s]), HoldingRow(Owner[b]), HoldingRow(Owner[s])>>
            \in Seq(Rows)
  BY <1>2
<1>. QED
  BY <1>3 DEF TradePlan

(* What a transaction that begins, locks or ends does to the types. *)
LEMMA BeginType ==
    ASSUME LockTypes, NEW a \in Actors, NEW rows \in Seq(Rows), Begin(a, rows)
    PROVE  LockTypes'
BY DEF LockTypes, Begin

LEMMA ReleaseType ==
    ASSUME LockTypes, NEW a \in Actors, Release(a)
    PROVE  LockTypes'
<1>1. active' \subseteq Actors
  BY DEF LockTypes, Release
<1>2. plan' \in [Actors -> Seq(Rows)]
  BY DEF LockTypes, Release
<1>3. holder' \in [Rows -> Actors \cup {Nobody}]
  BY DEF LockTypes, Release
<1>. QED
  BY <1>1, <1>2, <1>3 DEF LockTypes

LEMMA LockType ==
    ASSUME LockTypes, NEW a \in Actors, Lock(a)
    PROVE  LockTypes'
<1>1. Head(plan[a]) \in Rows /\ Tail(plan[a]) \in Seq(Rows)
  BY DEF LockTypes, Lock
<1>. QED
  BY <1>1 DEF LockTypes, Lock

(* The rows of one UPDATE, in whatever order it scans them. *)
LEMMA ScanPlanType ==
    ASSUME NEW S \in SUBSET OrderIds, NEW s \in ScanOrders(S)
    PROVE  [i \in DOMAIN s |-> OrderRow(s[i])] \in Seq(Rows)
<1>0. Cardinality(S) \in Nat
  BY FS_Subset, FS_CardinalityType, LockConstants
<1>1. s \in [1..Cardinality(S) -> S]
  BY DEF ScanOrders
<1>2. \A i \in 1..Cardinality(S) : OrderRow(s[i]) \in Rows
  BY <1>1 DEF Rows
<1>3. [i \in DOMAIN s |-> OrderRow(s[i])] \in [1..Cardinality(S) -> Rows]
  BY <1>1, <1>2
<1>. QED
  BY <1>0, <1>3

-------------------------------------------------------------------------------
(* A handler takes one lock: while it waits it holds none, so nobody waits for  *)
(* a handler that waits.                                                        *)
SessionsTakeOneLock ==
    \A a \in Sessions : plan[a] # <<>> =>
        Tail(plan[a]) = <<>> /\ \A r \in Rows : holder[r] # a

(* The inductive invariant: LocksHaveOwners makes sure that a transaction       *)
(* begins without locks, which SessionsTakeOneLock needs.                       *)
LockInv == LockTypes /\ LocksHaveOwners /\ SessionsTakeOneLock

LEMMA InitLockInv == LockInit => LockInv
BY DEF LockInit, LockInv, LockTypes, LocksHaveOwners, SessionsTakeOneLock, Actors

(* An engine or a job may begin with any plan, a session with a plan of one row. *)
LEMMA BeginIInv ==
    ASSUME LockInv, NEW a \in Actors, NEW rows \in Seq(Rows), Begin(a, rows),
           a \in Sessions => Tail(rows) = <<>>
    PROVE  LockInv'
<1>1. LockTypes'
  BY BeginType DEF LockInv
<1>2. LocksHaveOwners'
  BY DEF LockInv, LockTypes, LocksHaveOwners, Begin
<1>3. \A r \in Rows : holder[r] # a
  BY LockConstants DEF LockInv, LocksHaveOwners, Begin
<1>4. SessionsTakeOneLock'
  BY <1>3 DEF LockInv, LockTypes, SessionsTakeOneLock, Begin, Actors
<1>. QED
  BY <1>1, <1>2, <1>4 DEF LockInv

LEMMA ReleaseIInv ==
    ASSUME LockInv, NEW a \in Actors, Release(a)
    PROVE  LockInv'
<1>1. LockTypes'
  BY ReleaseType DEF LockInv
<1>2. LocksHaveOwners'
  BY DEF LockInv, LockTypes, LocksHaveOwners, Release
<1>3. SessionsTakeOneLock'
  BY LockConstants DEF LockInv, LockTypes, SessionsTakeOneLock, Release, Actors
<1>. QED
  BY <1>1, <1>2, <1>3 DEF LockInv

LEMMA LockIInv ==
    ASSUME LockInv, NEW a \in Actors, Lock(a)
    PROVE  LockInv'
<1>1. LockTypes'
  BY LockType DEF LockInv
<1>2. LocksHaveOwners'
  BY DEF LockInv, LockTypes, LocksHaveOwners, Lock
<1>3. SessionsTakeOneLock'
  <2>1. SUFFICES ASSUME NEW b \in Sessions, plan'[b] # <<>>
                 PROVE  Tail(plan'[b]) = <<>> /\ \A r \in Rows : holder'[r] # b
    BY DEF SessionsTakeOneLock
  <2>2. b # a
    BY <2>1 DEF LockInv, LockTypes, SessionsTakeOneLock, Lock
  <2>3. plan'[b] = plan[b]
    BY <2>2 DEF LockInv, LockTypes, Lock, Actors
  <2>4. \A r \in Rows : holder'[r] # b
    BY <2>1, <2>2, <2>3 DEF LockInv, LockTypes, SessionsTakeOneLock, Lock
  <2>. QED
    BY <2>1, <2>3, <2>4 DEF LockInv, SessionsTakeOneLock
<1>. QED
  BY <1>1, <1>2, <1>3 DEF LockInv

LEMMA NextLockInv == LockInv /\ [LockNext]_locking => LockInv'
<1>1. SUFFICES ASSUME LockInv, [LockNext]_locking PROVE LockInv'
  OBVIOUS
<1>2. ASSUME NEW e \in Engines, NEW b \in BuyOrders, NEW s \in OrderIds \ BuyOrders,
             ExecuteTrade(e, b, s)
      PROVE  LockInv'
  <2>1. e \in Actors /\ e \notin Sessions /\ b \in OrderIds /\ s \in OrderIds
    BY LockConstants DEF Actors
  <2>. QED
    BY <1>1, <1>2, <2>1, TradePlanType, BeginIInv DEF ExecuteTrade
<1>3. ASSUME NEW a \in Sessions, NEW o \in OrderIds, CancelOrder(a, o)
      PROVE  LockInv'
  <2>1. a \in Actors /\ <<OrderRow(o)>> \in Seq(Rows) /\ Tail(<<OrderRow(o)>>) = <<>>
    BY DEF Actors, Rows
  <2>. QED
    BY <1>1, <1>3, <2>1, BeginIInv DEF CancelOrder
<1>4. ASSUME NEW a \in Sessions, NEW u \in Users, ChangeBalance(a, u)
      PROVE  LockInv'
  <2>1. a \in Actors /\ <<WalletRow(u)>> \in Seq(Rows) /\ Tail(<<WalletRow(u)>>) = <<>>
    BY DEF Actors, Rows
  <2>. QED
    BY <1>1, <1>4, <2>1, BeginIInv DEF ChangeBalance
<1>5. ASSUME NEW j \in Jobs, NEW S \in (SUBSET OrderIds) \ {{}}, ExpireStaleOrders(j, S)
      PROVE  LockInv'
  <2>1. PICK s \in ScanOrders(S) : Begin(j, [i \in DOMAIN s |-> OrderRow(s[i])])
    BY <1>5 DEF ExpireStaleOrders
  <2>2. [i \in DOMAIN s |-> OrderRow(s[i])] \in Seq(Rows)
    BY ScanPlanType
  <2>3. j \in Actors /\ j \notin Sessions
    BY LockConstants DEF Actors
  <2>. QED
    BY <1>1, <2>1, <2>2, <2>3, BeginIInv
<1>6. ASSUME NEW a \in Actors, Commit(a) \/ Rollback(a) \/ DeadlockAbort(a)
      PROVE  LockInv'
  BY <1>1, <1>6, ReleaseIInv DEF Commit, Rollback, DeadlockAbort
<1>7. ASSUME NEW a \in Actors, Lock(a)
      PROVE  LockInv'
  BY <1>1, <1>7, LockIInv
<1>8. CASE UNCHANGED locking
  BY <1>1, <1>8 DEF locking, LockInv, LockTypes, LocksHaveOwners, SessionsTakeOneLock
<1>. QED
  BY <1>1, <1>2, <1>3, <1>4, <1>5, <1>6, <1>7, <1>8 DEF LockNext

(* No lock outlives its transaction, however many engines, handlers and expiry  *)
(* jobs run: each early return of executeTrade, CancelOrder and the wallet      *)
(* service rolls back.                                                          *)
THEOREM LocksOwned == LockSpec => []LocksHaveOwners
<1>1. LockInv => LocksHaveOwners
  BY DEF LockInv
<1>. QED
  BY <1>1, InitLockInv, NextLockInv, PTL DEF LockSpec

(* Who waits and is waited for locks several rows: a handler that waits holds    *)
(* no lock.                                                                      *)
LEMMA NoHandlerInTheMiddle ==
    ASSUME LockInv, NEW a \in Actors, NEW b \in Actors, NEW c \in Actors,
           WaitsFor(a, b), WaitsFor(b, c)
    PROVE  b \in Engines \cup Jobs
<1>1. holder[Head(plan[a])] = b /\ Head(plan[a]) \in Rows
  BY DEF LockInv, LockTypes, WaitsFor
<1>2. b \notin Sessions
  BY <1>1 DEF LockInv, SessionsTakeOneLock, WaitsFor
<1>. QED
  BY <1>2 DEF Actors

(* Whoever deadlocks, two of them are engines or expiry jobs, for any number of  *)
(* engines, handlers and jobs.                                                   *)
THEOREM DeadlocksInvolveTwo == LockSpec => []DeadlocksNeedTwo
<1>1. ASSUME LockInv PROVE DeadlocksNeedTwo
  <2>1. SUFFICES ASSUME NEW S \in (SUBSET Actors) \ {{}}, Circular(S)
                 PROVE  \E a, b \in S \cap (Engines \cup Jobs) : a # b
    BY DEF DeadlocksNeedTwo
  <2>2. ASSUME NEW b \in S PROVE b \in Engines \cup Jobs
    <3>1. PICK a \in S : WaitsFor(a, b)
      BY <2>1, <2>2 DEF Circular
    <3>2. PICK c \in S : WaitsFor(b, c)
      BY <2>1, <2>2 DEF Circular
    <3>. QED
      BY <1>1, <3>1, <3>2, NoHandlerInTheMiddle
  <2>3. PICK a \in S, b \in S : WaitsFor(a, b)
    BY <2>1 DEF Circular
  <2>. QED
    BY <2>2, <2>3 DEF WaitsFor
<1>. QED
  BY <1>1, InitLockInv, NextLockInv, PTL DEF LockSpec

(* README: order rows are locked "in ascending ID order to prevent deadlocks".   *)
(* With one API process, and no run of the expiry job in progress, the           *)
(* transactions of the engine and of any number of handlers never deadlock.      *)
THEOREM OneEngineNeverDeadlocks ==
    ASSUME Jobs = {}, \A d, e \in Engines : d = e
    PROVE  LockSpec => []NoDeadlock
<1>1. ASSUME LockInv PROVE NoDeadlock
  <2>1. SUFFICES ASSUME NEW S \in (SUBSET Actors) \ {{}},
                        \A a \in S : \E b \in S : WaitsFor(a, b)
                 PROVE  FALSE
    BY DEF NoDeadlock
  <2>2. PICK a \in S, b \in S, c \in S, d \in S :
            WaitsFor(a, b) /\ WaitsFor(b, c) /\ WaitsFor(c, d)
    BY <2>1
  <2>3. b \in Engines /\ c \in Engines
    BY <1>1, <2>2, NoHandlerInTheMiddle
  <2>. QED
    BY <2>2, <2>3 DEF WaitsFor
<1>. QED
  BY <1>1, InitLockInv, NextLockInv, PTL DEF LockSpec

-------------------------------------------------------------------------------
(* WebsocketHub.  The hub's two maps agree, and Run never sends on a closed      *)
(* channel and never closes one twice.                                           *)

(* A client is unregistered once: it is put into UnregisterChan when its read   *)
(* pump ends, and its channel is closed after it has left UnregisterChan and    *)
(* every topic.                                                                 *)
ChanInv ==
    /\ \A i \in 1..Len(unregisterChan) : /\ reader[unregisterChan[i]].pc = "done"
                                         /\ unregisterChan[i] \notin closed
    /\ \A i, j \in 1..Len(unregisterChan) : unregisterChan[i] = unregisterChan[j] => i = j
    /\ \A c \in closed : reader[c].pc = "done" /\ topics[c] = {}

(* What Run knows at each point: with the read lock, the clients still to be    *)
(* served are subscribed; without it, the client at hand is the one it has      *)
(* taken out of UnregisterChan.                                                 *)
HubInv ==
    /\ rlocked <=> hub.pc \in {"broadcast", "unsubscribeFull"}
    /\ rlocked => \A c \in hub.todo : topics[c] # {}
    /\ hub.pc \in {"unsubscribeAll", "close"} =>
          /\ hub.client \in Clients
          /\ reader[hub.client].pc = "done"
          /\ hub.client \notin closed
          /\ \A i \in 1..Len(unregisterChan) : unregisterChan[i] # hub.client
    /\ hub.pc = "close" => topics[hub.client] = {}

ReaderInv ==
    \A c \in Clients : reader[c].pc \in {"subscribe", "unsubscribe"} => reader[c].topic \in Topics

(* The inductive invariant. *)
IInv == TypeOK /\ ReaderInv /\ SubscriptionsAgree /\ ChanInv /\ HubInv

LEMMA InitIInv == Init => IInv
<1>1. SUFFICES ASSUME Init PROVE IInv
  OBVIOUS
<1>2. TypeOK
  <2>1. send \in [Clients -> 0..SendCap] /\ registerChan \in 0..RegisterCap
        /\ delivered \in 0..MaxMessages
    BY <1>1, HubConstants DEF Init
  <2>2. /\ subscriptions \in [Topics -> SUBSET Clients]
        /\ topics \in [Clients -> SUBSET Topics]
        /\ closed \subseteq Clients
        /\ conn \subseteq Clients
        /\ reader \in [Clients -> [pc : ReaderPCs, topic : Topics \cup {NoTopic}]]
        /\ writer \in [Clients -> {"none", "run", "done"}]
    BY <1>1 DEF Init, ReaderPCs
  <2>3. hub \in [pc : HubPCs, client : Clients \cup {NoClient}, todo : SUBSET Clients]
    BY <1>1 DEF Init, AtSelect, HubPCs
  <2>4. unregisterChan \in Seq(Clients) /\ broadcastChan \in Seq(Topics)
    BY <1>1 DEF Init
  <2>5. rlocked \in BOOLEAN
    BY <1>1 DEF Init
  <2>. QED
    BY <2>1, <2>2, <2>3, <2>4, <2>5 DEF TypeOK
<1>3. ReaderInv /\ SubscriptionsAgree /\ ChanInv /\ HubInv
  BY <1>1, HubConstants DEF Init, ReaderInv, SubscriptionsAgree, ChanInv, HubInv, AtSelect
<1>. QED
  BY <1>2, <1>3 DEF IInv

LEMMA NextIInv == IInv /\ [Next]_vars => IInv'
<1>1. SUFFICES ASSUME IInv, [Next]_vars PROVE IInv'
  OBVIOUS
<1>. USE HubConstants DEF subs, pumps, chans
<1>2. ASSUME NEW c \in Clients, Connect(c)
      PROVE  IInv'
  <2>1. TypeOK'
    BY <1>1, <1>2 DEF Connect, Reading, IInv, TypeOK, HubPCs, ReaderPCs, ReaderInv, HubInv
  <2>2. ReaderInv'
    BY <1>1, <1>2 DEF Connect, Reading, IInv, TypeOK, ReaderInv
  <2>3. SubscriptionsAgree'
    BY <1>1, <1>2 DEF Connect, Reading, IInv, TypeOK, ReaderInv, SubscriptionsAgree
  <2>4. ChanInv'
    BY <1>1, <1>2 DEF Connect, Reading, IInv, TypeOK, ChanInv, HubInv
  <2>5. HubInv'
    BY <1>1, <1>2 DEF Connect, Reading, IInv, TypeOK, ChanInv, HubInv, SubscriptionsAgree
  <2>. QED
    BY <2>1, <2>2, <2>3, <2>4, <2>5 DEF IInv
<1>3. ASSUME NEW t \in Topics, Forward(t)
      PROVE  IInv'
  <2>1. TypeOK'
    BY <1>1, <1>3 DEF Forward, IInv, TypeOK, HubPCs, ReaderPCs, ReaderInv, HubInv
  <2>2. ReaderInv'
    BY <1>1, <1>3 DEF Forward, IInv, TypeOK, ReaderInv
  <2>3. SubscriptionsAgree'
    BY <1>1, <1>3 DEF Forward, IInv, TypeOK, ReaderInv, SubscriptionsAgree
  <2>4. ChanInv'
    BY <1>1, <1>3 DEF Forward, IInv, TypeOK, ChanInv, HubInv
  <2>5. HubInv'
    BY <1>1, <1>3 DEF Forward, IInv, TypeOK, ChanInv, HubInv, SubscriptionsAgree
  <2>. QED
    BY <2>1, <2>2, <2>3, <2>4, <2>5 DEF IInv
<1>4. ASSUME NEW c \in Clients, NEW action \in {"subscribe", "unsubscribe"}, NEW t \in Topics,
             ReadRequest(c, action, t)
      PROVE  IInv'
  <2>1. TypeOK'
    BY <1>1, <1>4 DEF ReadRequest, IInv, TypeOK, HubPCs, ReaderPCs, ReaderInv, HubInv
  <2>2. ReaderInv'
    BY <1>1, <1>4 DEF ReadRequest, IInv, TypeOK, ReaderInv
  <2>3. SubscriptionsAgree'
    BY <1>1, <1>4 DEF ReadRequest, IInv, TypeOK, ReaderInv, SubscriptionsAgree
  <2>4. ChanInv'
    BY <1>1, <1>4 DEF ReadRequest, IInv, TypeOK, ChanInv, HubInv
  <2>5. HubInv'
    BY <1>1, <1>4 DEF ReadRequest, IInv, TypeOK, ChanInv, HubInv, SubscriptionsAgree
  <2>. QED
    BY <2>1, <2>2, <2>3, <2>4, <2>5 DEF IInv
<1>5. ASSUME NEW c \in Clients, Subscribe(c)
      PROVE  IInv'
  <2>1. TypeOK'
    BY <1>1, <1>5 DEF Subscribe, Reading, IInv, TypeOK, HubPCs, ReaderPCs, ReaderInv, HubInv
  <2>2. ReaderInv'
    BY <1>1, <1>5 DEF Subscribe, Reading, IInv, TypeOK, ReaderInv
  <2>3. SubscriptionsAgree'
    BY <1>1, <1>5 DEF Subscribe, Reading, IInv, TypeOK, ReaderInv, SubscriptionsAgree
  <2>4. ChanInv'
    BY <1>1, <1>5 DEF Subscribe, Reading, IInv, TypeOK, ChanInv, HubInv
  <2>5. HubInv'
    BY <1>1, <1>5 DEF Subscribe, Reading, IInv, TypeOK, ChanInv, HubInv, SubscriptionsAgree
  <2>. QED
    BY <2>1, <2>2, <2>3, <2>4, <2>5 DEF IInv
<1>6. ASSUME NEW c \in Clients, Unsubscribe(c)
      PROVE  IInv'
  <2>1. TypeOK'
    BY <1>1, <1>6 DEF Unsubscribe, Reading, IInv, TypeOK, HubPCs, ReaderPCs, ReaderInv, HubInv
  <2>2. ReaderInv'
    BY <1>1, <1>6 DEF Unsubscribe, Reading, IInv, TypeOK, ReaderInv
  <2>3. SubscriptionsAgree'
    BY <1>1, <1>6 DEF Unsubscribe, Reading, IInv, TypeOK, ReaderInv, SubscriptionsAgree
  <2>4. ChanInv'
    BY <1>1, <1>6 DEF Unsubscribe, Reading, IInv, TypeOK, ChanInv, HubInv
  <2>5. HubInv'
    BY <1>1, <1>6 DEF Unsubscribe, Reading, IInv, TypeOK, ChanInv, HubInv, SubscriptionsAgree
  <2>. QED
    BY <2>1, <2>2, <2>3, <2>4, <2>5 DEF IInv
<1>7. ASSUME NEW c \in Clients, ReadFail(c)
      PROVE  IInv'
  <2>1. TypeOK'
    BY <1>1, <1>7 DEF ReadFail, IInv, TypeOK, HubPCs, ReaderPCs, ReaderInv, HubInv
  <2>2. ReaderInv'
    BY <1>1, <1>7 DEF ReadFail, IInv, TypeOK, ReaderInv
  <2>3. SubscriptionsAgree'
    BY <1>1, <1>7 DEF ReadFail, IInv, TypeOK, ReaderInv, SubscriptionsAgree
  <2>4. ChanInv'
    BY <1>1, <1>7 DEF ReadFail, IInv, TypeOK, ChanInv, HubInv
  <2>5. HubInv'
    BY <1>1, <1>7 DEF ReadFail, IInv, TypeOK, ChanInv, HubInv, SubscriptionsAgree
  <2>. QED
    BY <2>1, <2>2, <2>3, <2>4, <2>5 DEF IInv
<1>8. ASSUME NEW c \in Clients, ReadUnregister(c)
      PROVE  IInv'
  <2>0. /\ unregisterChan' = Append(unregisterChan, c)
        /\ reader' = [reader EXCEPT ![c].pc = "done"]
        /\ reader[c].pc = "unregister"
    BY <1>8 DEF ReadUnregister
  <2>a. unregisterChan' \in Seq(Clients)
    BY <1>1, <2>0 DEF IInv, TypeOK
  <2>b. reader' \in [Clients -> [pc : ReaderPCs, topic : Topics \cup {NoTopic}]]
    <3>a. reader[c] \in [pc : ReaderPCs, topic : Topics \cup {NoTopic}]
      BY <1>1, <1>8 DEF IInv, TypeOK
    <3>b. "done" \in ReaderPCs
      BY DEF ReaderPCs
    <3>1. [reader[c] EXCEPT !.pc = "done"] \in [pc : ReaderPCs, topic : Topics \cup {NoTopic}]
      BY <3>a, <3>b
    <3>2. reader' = [reader EXCEPT ![c] = [reader[c] EXCEPT !.pc = "done"]]
      BY <2>0
    <3>. QED
      BY <1>1, <3>1, <3>2 DEF IInv, TypeOK
  <2>c. /\ \A d \in Clients : reader'[d].pc = IF d = c THEN "done" ELSE reader[d].pc
        /\ Len(unregisterChan') = Len(unregisterChan) + 1
        /\ \A i \in 1..Len(unregisterChan') :
              unregisterChan'[i] = IF i = Len(unregisterChan') THEN c ELSE unregisterChan[i]
        /\ \A i \in 1..Len(unregisterChan) : unregisterChan[i] \in Clients
        /\ Len(unregisterChan) \in Nat
    BY <1>1, <2>0 DEF IInv, TypeOK
  <2>1. TypeOK'
    BY <1>1, <1>8, <2>a, <2>b DEF ReadUnregister, IInv, TypeOK
  <2>2. ReaderInv'
    BY <1>1, <1>8 DEF ReadUnregister, IInv, TypeOK, ReaderInv
  <2>3. SubscriptionsAgree'
    BY <1>1, <1>8 DEF ReadUnregister, IInv, TypeOK, ReaderInv, SubscriptionsAgree
  <2>4. ChanInv'
    <3>1. closed' = closed /\ topics' = topics /\ closed \subseteq Clients
      BY <1>1, <1>8 DEF ReadUnregister, IInv, TypeOK
    <3>2. c \notin closed /\ \A i \in 1..Len(unregisterChan) : unregisterChan[i] # c
      BY <1>1, <2>0 DEF IInv, ChanInv
    <3>. QED
      <4>1. \A i \in 1..Len(unregisterChan') : /\ reader'[unregisterChan'[i]].pc = "done"
                                               /\ unregisterChan'[i] \notin closed
        BY <1>1, <2>c, <3>2 DEF IInv, ChanInv
      <4>2. \A i, j \in 1..Len(unregisterChan') : unregisterChan'[i] = unregisterChan'[j] => i = j
        BY <1>1, <2>c, <3>2 DEF IInv, ChanInv
      <4>3. \A d \in closed : reader'[d].pc = "done" /\ topics[d] = {}
        BY <1>1, <2>c, <3>1 DEF IInv, ChanInv
      <4>. QED
        BY <3>1, <4>1, <4>2, <4>3 DEF ChanInv
  <2>5. HubInv'
    BY <1>1, <1>8 DEF ReadUnregister, IInv, TypeOK, ChanInv, HubInv, SubscriptionsAgree
  <2>. QED
    BY <2>1, <2>2, <2>3, <2>4, <2>5 DEF IInv
<1>9. ASSUME NEW c \in Clients, WriteMessages(c)
      PROVE  IInv'
  <2>1. TypeOK'
    BY <1>1, <1>9 DEF WriteMessages, IInv, TypeOK, HubPCs, ReaderPCs, ReaderInv, HubInv
  <2>2. ReaderInv'
    BY <1>1, <1>9 DEF WriteMessages, IInv, TypeOK, ReaderInv
  <2>3. SubscriptionsAgree'
    BY <1>1, <1>9 DEF WriteMessages, IInv, TypeOK, ReaderInv, SubscriptionsAgree
  <2>4. ChanInv'
    BY <1>1, <1>9 DEF WriteMessages, IInv, TypeOK, ChanInv, HubInv
  <2>5. HubInv'
    BY <1>1, <1>9 DEF WriteMessages, IInv, TypeOK, ChanInv, HubInv, SubscriptionsAgree
  <2>. QED
    BY <2>1, <2>2, <2>3, <2>4, <2>5 DEF IInv
<1>10. ASSUME NEW c \in Clients, WriteEnd(c)
      PROVE  IInv'
  <2>1. TypeOK'
    BY <1>1, <1>10 DEF WriteEnd, IInv, TypeOK, HubPCs, ReaderPCs, ReaderInv, HubInv
  <2>2. ReaderInv'
    BY <1>1, <1>10 DEF WriteEnd, IInv, TypeOK, ReaderInv
  <2>3. SubscriptionsAgree'
    BY <1>1, <1>10 DEF WriteEnd, IInv, TypeOK, ReaderInv, SubscriptionsAgree
  <2>4. ChanInv'
    BY <1>1, <1>10 DEF WriteEnd, IInv, TypeOK, ChanInv, HubInv
  <2>5. HubInv'
    BY <1>1, <1>10 DEF WriteEnd, IInv, TypeOK, ChanInv, HubInv, SubscriptionsAgree
  <2>. QED
    BY <2>1, <2>2, <2>3, <2>4, <2>5 DEF IInv
<1>11. ASSUME HubRegister
      PROVE  IInv'
  <2>1. TypeOK'
    BY <1>1, <1>11 DEF HubRegister, IInv, TypeOK, HubPCs, ReaderPCs, ReaderInv, HubInv
  <2>2. ReaderInv'
    BY <1>1, <1>11 DEF HubRegister, IInv, TypeOK, ReaderInv
  <2>3. SubscriptionsAgree'
    BY <1>1, <1>11 DEF HubRegister, IInv, TypeOK, ReaderInv, SubscriptionsAgree
  <2>4. ChanInv'
    BY <1>1, <1>11 DEF HubRegister, IInv, TypeOK, ChanInv, HubInv
  <2>5. HubInv'
    BY <1>1, <1>11 DEF HubRegister, IInv, TypeOK, ChanInv, HubInv, SubscriptionsAgree
  <2>. QED
    BY <2>1, <2>2, <2>3, <2>4, <2>5 DEF IInv
<1>12. ASSUME HubUnregister
      PROVE  IInv'
  <2>1. TypeOK'
    BY <1>1, <1>12 DEF HubUnregister, IInv, TypeOK, HubPCs, ReaderPCs, ReaderInv, HubInv
  <2>2. ReaderInv'
    BY <1>1, <1>12 DEF HubUnregister, IInv, TypeOK, ReaderInv
  <2>3. SubscriptionsAgree'
    BY <1>1, <1>12 DEF HubUnregister, IInv, TypeOK, ReaderInv, SubscriptionsAgree
  <2>4. ChanInv'
    BY <1>1, <1>12 DEF HubUnregister, IInv, TypeOK, ChanInv, HubInv
  <2>5. HubInv'
    BY <1>1, <1>12 DEF HubUnregister, IInv, TypeOK, ChanInv, HubInv, SubscriptionsAgree
  <2>. QED
    BY <2>1, <2>2, <2>3, <2>4, <2>5 DEF IInv
<1>13. ASSUME HubBroadcast
      PROVE  IInv'
  <2>1. TypeOK'
    BY <1>1, <1>13 DEF HubBroadcast, IInv, TypeOK, HubPCs, ReaderPCs, ReaderInv, HubInv
  <2>2. ReaderInv'
    BY <1>1, <1>13 DEF HubBroadcast, IInv, TypeOK, ReaderInv
  <2>3. SubscriptionsAgree'
    BY <1>1, <1>13 DEF HubBroadcast, IInv, TypeOK, ReaderInv, SubscriptionsAgree
  <2>4. ChanInv'
    BY <1>1, <1>13 DEF HubBroadcast, IInv, TypeOK, ChanInv, HubInv
  <2>5. HubInv'
    BY <1>1, <1>13 DEF HubBroadcast, IInv, TypeOK, ChanInv, HubInv, SubscriptionsAgree
  <2>. QED
    BY <2>1, <2>2, <2>3, <2>4, <2>5 DEF IInv
<1>14. ASSUME NEW c \in Clients, HubSend(c)
      PROVE  IInv'
  <2>0. /\ send' \in [Clients -> 0..SendCap]
        /\ hub' \in [pc : HubPCs, client : Clients \cup {NoClient}, todo : SUBSET Clients]
    <3>1. CASE send[c] < SendCap
      <4>1. send[c] \in 0..SendCap /\ send[c] + 1 \in 0..SendCap
        BY <1>1, <3>1 DEF IInv, TypeOK
      <4>2. send' = [send EXCEPT ![c] = send[c] + 1] /\ hub' = [hub EXCEPT !.todo = @ \ {c}]
        BY <1>14, <3>1 DEF HubSend
      <4>3. send' \in [Clients -> 0..SendCap]
        BY <1>1, <4>1, <4>2 DEF IInv, TypeOK
      <4>4. hub' \in [pc : HubPCs, client : Clients \cup {NoClient}, todo : SUBSET Clients]
        BY <1>1, <4>2 DEF IInv, TypeOK
      <4>. QED
        BY <4>3, <4>4
    <3>2. CASE ~(send[c] < SendCap)
      BY <1>1, <1>14, <3>2 DEF HubSend, IInv, TypeOK, HubPCs
    <3>. QED
      BY <3>1, <3>2
  <2>1. TypeOK'
    BY <1>1, <1>14, <2>0 DEF HubSend, IInv, TypeOK
  <2>2. ReaderInv'
    BY <1>1, <1>14 DEF HubSend, IInv, TypeOK, ReaderInv
  <2>3. SubscriptionsAgree'
    BY <1>1, <1>14 DEF HubSend, IInv, TypeOK, ReaderInv, SubscriptionsAgree
  <2>4. ChanInv'
    BY <1>1, <1>14 DEF HubSend, IInv, TypeOK, ChanInv, HubInv
  <2>5. HubInv'
    BY <1>1, <1>14 DEF HubSend, IInv, TypeOK, ChanInv, HubInv, SubscriptionsAgree
  <2>. QED
    BY <2>1, <2>2, <2>3, <2>4, <2>5 DEF IInv
<1>15. ASSUME HubRUnlock
      PROVE  IInv'
  <2>1. TypeOK'
    BY <1>1, <1>15 DEF HubRUnlock, AtSelect, IInv, TypeOK, HubPCs, ReaderPCs, ReaderInv, HubInv
  <2>2. ReaderInv'
    BY <1>1, <1>15 DEF HubRUnlock, AtSelect, IInv, TypeOK, ReaderInv
  <2>3. SubscriptionsAgree'
    BY <1>1, <1>15 DEF HubRUnlock, AtSelect, IInv, TypeOK, ReaderInv, SubscriptionsAgree
  <2>4. ChanInv'
    BY <1>1, <1>15 DEF HubRUnlock, AtSelect, IInv, TypeOK, ChanInv, HubInv
  <2>5. HubInv'
    BY <1>1, <1>15 DEF HubRUnlock, AtSelect, IInv, TypeOK, ChanInv, HubInv, SubscriptionsAgree
  <2>. QED
    BY <2>1, <2>2, <2>3, <2>4, <2>5 DEF IInv
<1>16. ASSUME unsubscribeAll
      PROVE  IInv'
  <2>1. TypeOK'
    BY <1>1, <1>16 DEF unsubscribeAll, IInv, TypeOK, HubPCs, ReaderPCs, ReaderInv, HubInv
  <2>2. ReaderInv'
    BY <1>1, <1>16 DEF unsubscribeAll, IInv, TypeOK, ReaderInv
  <2>3. SubscriptionsAgree'
    BY <1>1, <1>16 DEF unsubscribeAll, IInv, TypeOK, ReaderInv, SubscriptionsAgree
  <2>4. ChanInv'
    BY <1>1, <1>16 DEF unsubscribeAll, IInv, TypeOK, ChanInv, HubInv
  <2>5. HubInv'
    BY <1>1, <1>16 DEF unsubscribeAll, IInv, TypeOK, ChanInv, HubInv, SubscriptionsAgree
  <2>. QED
    BY <2>1, <2>2, <2>3, <2>4, <2>5 DEF IInv
<1>17. ASSUME HubClose
      PROVE  IInv'
  <2>1. TypeOK'
    BY <1>1, <1>17 DEF HubClose, AtSelect, IInv, TypeOK, HubPCs, ReaderPCs, ReaderInv, HubInv
  <2>2. ReaderInv'
    BY <1>1, <1>17 DEF HubClose, AtSelect, IInv, TypeOK, ReaderInv
  <2>3. SubscriptionsAgree'
    BY <1>1, <1>17 DEF HubClose, AtSelect, IInv, TypeOK, ReaderInv, SubscriptionsAgree
  <2>4. ChanInv'
    BY <1>1, <1>17 DEF HubClose, AtSelect, IInv, TypeOK, ChanInv, HubInv
  <2>5. HubInv'
    BY <1>1, <1>17 DEF HubClose, AtSelect, IInv, TypeOK, ChanInv, HubInv, SubscriptionsAgree
  <2>. QED
    BY <2>1, <2>2, <2>3, <2>4, <2>5 DEF IInv
<1>18. CASE UNCHANGED vars
  BY <1>1, <1>18 DEF vars, IInv, TypeOK, ReaderInv, SubscriptionsAgree, ChanInv, HubInv
<1>. QED
  BY <1>1, <1>2, <1>3, <1>4, <1>5, <1>6, <1>7, <1>8, <1>9, <1>10, <1>11, <1>12, <1>13, <1>14, <1>15, <1>16, <1>17, <1>18 DEF Next, HubStep

(* The hub's set of clients of a topic and a client's set of topics agree       *)
(* whenever Subscribe, Unsubscribe and unsubscribeAll are not in the middle.    *)
THEOREM SubscriptionsCorrect == Spec => []SubscriptionsAgree
<1>1. IInv => SubscriptionsAgree
  BY DEF IInv
<1>. QED
  BY <1>1, InitIInv, NextIInv, PTL DEF Spec

(* Run never sends on a closed Send channel and never closes one twice.         *)
THEOREM NeverPanics == Spec => []ChannelsUsedOpen
<1>1. IInv => ChannelsUsedOpen
  BY DEF IInv, ChanInv, HubInv, ChannelsUsedOpen
<1>. QED
  BY <1>1, InitIInv, NextIInv, PTL DEF Spec

(* Why FullBufferUnregistered fails, and not only with small channels: at a full *)
(* buffer Run waits in unsubscribeAll for the read lock it holds itself, and no   *)
(* step of the hub or of a pump is possible there that ends the wait, changes a   *)
(* subscription or closes a channel.                                              *)
THEOREM FullBufferIsFatal ==
    Spec => [][hub.pc = "unsubscribeFull" =>
                  UNCHANGED <<subscriptions, topics, closed, hub>>]_vars
<1>1. ASSUME IInv, [Next]_vars, hub.pc = "unsubscribeFull"
      PROVE  UNCHANGED <<subscriptions, topics, closed, hub>>
  <2>1. rlocked
    BY <1>1 DEF IInv, HubInv
  <2>2. ~HubStep
    BY <1>1, <2>1 DEF HubStep, HubRegister, HubUnregister, HubBroadcast, HubSend, HubRUnlock,
                      unsubscribeAll, HubClose
  <2>. QED
    BY <1>1, <2>1, <2>2 DEF Next, vars, subs, Connect, Forward, ReadRequest, Subscribe,
                            Unsubscribe, ReadFail, ReadUnregister, WriteMessages, WriteEnd
<1>2. IInv /\ [Next]_vars =>
         [hub.pc = "unsubscribeFull" => UNCHANGED <<subscriptions, topics, closed, hub>>]_vars
  BY <1>1
<1>. QED
  BY <1>2, InitIInv, NextIInv, PTL DEF Spec
===============================================================================
