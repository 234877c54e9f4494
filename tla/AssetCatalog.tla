----------------------------- MODULE AssetCatalog -----------------------------
(***************************************************************************)
(* The asset service: the assets table, and the Redis cache of asset       *)
(* prices, which the matching engine also writes after every trade.        *)
(*                                                                         *)
(* No call of the service uses a transaction or a row lock.  Every query   *)
(* and every Redis command is a step, with other calls in between.         *)
(*                                                                         *)
(* Data.  An asset's id stands for its symbol too; of the columns, price,  *)
(* status and broker are kept.  Quantity, name and description behave like *)
(* the price column of an update and are never cached.                     *)
(***************************************************************************)
EXTENDS Integers, FiniteSets

CONSTANTS
    Assets,
    Brokers,
    Prices,
    Requests,  \* the calls: of the asset service, and executeTrade after its commit
    Inputs,    \* their arguments
    TTL,       \* DefaultTTL
    CallTime,  \* bound: how long a call may take from its first read to its end
    MaxTime,   \* bound of the clock
    Faults,    \* {"redis"}: Redis commands may fail
    NoEntry

ASSUME CatalogConstants ==
    /\ Prices \subseteq Nat \ {0}
    /\ {TTL, CallTime, MaxTime} \subseteq Nat \ {0}
    /\ NoEntry \notin Prices
    /\ Inputs \subseteq [kind : {"create", "update", "disable", "get", "list", "trade"},
                         asset : Assets, broker : Brokers, price : Prices \cup {NoEntry}]
    /\ \A c \in Inputs : c.kind \in {"create", "trade"} => c.price # NoEntry

VARIABLES
    assets,   \* the assets table: a function from the ids created so far to rows
    cache,    \* "asset:<id>:price" in Redis: the price and when it expires
    pc,       \* where a call is
    call,     \* its arguments
    copy,     \* the rows it has read or written and is not done with
    began,    \* when it first read or wrote the table
    clock,
    wasPrice, \* history: when a price was last an asset's listed price or that of a trade
    age       \* history: the age of the oldest price a call has been given by the cache

vars == <<assets, cache, pc, call, copy, began, clock, wasPrice, age>>

NewRow(c) == [broker |-> c.broker, price |-> c.price, status |-> "ACTIVE"]

NoRows == [a \in {} |-> NoEntry]

Listed == DOMAIN assets

Active == {a \in Listed : assets[a].status = "ACTIVE"}

Init ==
    /\ assets = NoRows
    /\ cache = [a \in Assets |-> NoEntry]
    /\ pc = [r \in Requests |-> "idle"]
    /\ call = [r \in Requests |-> NoEntry]
    /\ copy = [r \in Requests |-> NoRows]
    /\ began = [r \in Requests |-> 0]
    /\ clock = 0
    /\ wasPrice = [a \in Assets |-> [p \in Prices |-> -1]]
    /\ age = [r \in Requests |-> 0]

-------------------------------------------------------------------------------
Begin(r, c) ==
    /\ pc[r] = "idle"
    /\ call' = [call EXCEPT ![r] = c]
    /\ began' = [began EXCEPT ![r] = clock]

Goto(r, p) == pc' = [pc EXCEPT ![r] = p]

PriceIs(a, p) == wasPrice' = [wasPrice EXCEPT ![a][p] = clock]

(* CreateAsset: the INSERT, or its conflict with the unique index on symbol. *)
CreateAsset(r, c) ==
    /\ c.kind = "create"
    /\ Begin(r, c)
    /\ IF c.asset \in Listed
       THEN Goto(r, "done") /\ UNCHANGED <<assets, copy, wasPrice>>
       ELSE /\ assets' = [a \in Listed \cup {c.asset} |->
                             IF a = c.asset THEN NewRow(c) ELSE assets[a]]
            /\ PriceIs(c.asset, c.price)
            /\ copy' = [copy EXCEPT ![r] = [a \in {c.asset} |-> NewRow(c)]]
            /\ Goto(r, "set")
    /\ UNCHANGED <<cache, clock, age>>

(* UpdateAsset and DisableAsset read the row and check its owner. *)
ReadForWrite(r, c) ==
    /\ c.kind \in {"update", "disable"}
    /\ Begin(r, c)
    /\ IF c.asset \in Listed /\ assets[c.asset].broker = c.broker
       THEN /\ copy' = [copy EXCEPT ![r] = [a \in {c.asset} |-> assets[a]]]
            /\ Goto(r, "write")
       ELSE Goto(r, "done") /\ UNCHANGED copy
    /\ UNCHANGED <<assets, cache, clock, wasPrice, age>>

\* Mutant of Written: an update makes the asset tradable.
WrittenActive(row, c) ==
    [row EXCEPT !.price = IF c.kind = "update" /\ c.price # NoEntry THEN c.price ELSE @,
                !.status = IF c.kind = "disable" THEN "DISABLED" ELSE "ACTIVE"]

(* The row as it was read, with what the call changes; a price need not be given. *)
Written(row, c) ==
    [row EXCEPT !.price = IF c.kind = "update" /\ c.price # NoEntry THEN c.price ELSE @,
                !.status = IF c.kind = "disable" THEN "DISABLED" ELSE @]

(* The UPDATE writes every column back, whatever has happened to the row since. *)
Write(r) ==
    /\ pc[r] = "write"
    /\ LET a   == call[r].asset
           row == Written(copy[r][a], call[r])
       IN  /\ assets' = [assets EXCEPT ![a] = row]
           /\ copy' = [copy EXCEPT ![r][a] = row]
           /\ PriceIs(a, row.price)
    /\ Goto(r, "invalidate")
    /\ UNCHANGED <<cache, call, began, clock, age>>

(* executeTrade has committed a trade at this price; its SetPrice is to come.  *)
(* One goroutine does all trades.                                              *)
TradeCommit(r, c) ==
    /\ c.kind = "trade"
    /\ c.asset \in Listed
    /\ \A q \in Requests : pc[q] \notin {"idle", "done"} => call[q].kind # "trade"
    /\ Begin(r, c)
    /\ PriceIs(c.asset, c.price)
    /\ copy' = [copy EXCEPT ![r] = [a \in {c.asset} |-> [assets[a] EXCEPT !.price = c.price]]]
    /\ Goto(r, "set")
    /\ UNCHANGED <<assets, cache, clock, age>>

(* GetAsset reads one row, ListActiveAssets all active ones. *)
ReadForPrice(r, c) ==
    /\ c.kind \in {"get", "list"}
    /\ Begin(r, c)
    /\ LET wanted == IF c.kind = "get" THEN {c.asset} \cap Listed ELSE Active
       IN  /\ copy' = [copy EXCEPT ![r] = [a \in wanted |-> assets[a]]]
           /\ Goto(r, IF wanted = {} THEN "done" ELSE "lookup")
    /\ UNCHANGED <<assets, cache, clock, wasPrice, age>>

-------------------------------------------------------------------------------
(* The cache *)

Entry(p) == [price |-> p, expires |-> clock + TTL]

Cached(a) == cache[a] # NoEntry /\ clock < cache[a].expires

(* The call is done with asset a: on with the next row it has read, if any. *)
DoneWith(r, a) ==
    /\ copy' = [copy EXCEPT ![r] = [b \in DOMAIN @ \ {a} |-> @[b]]]
    /\ Goto(r, IF DOMAIN copy[r] = {a} THEN "done" ELSE "lookup")

(* InvalidatePrice, after the write; an update then sets the new price.  An     *)
(* error of Redis is logged and ignored, here and in SetPrice.                  *)
InvalidatePrice(r) ==
    /\ pc[r] = "invalidate"
    /\ \/ cache' = [cache EXCEPT ![call[r].asset] = NoEntry]
       \/ "redis" \in Faults /\ UNCHANGED cache
    /\ Goto(r, IF call[r].kind = "update" THEN "set" ELSE "done")
    /\ UNCHANGED <<assets, call, copy, began, clock, wasPrice, age>>

(* SetPrice caches the price written, traded at, or read a while ago and not    *)
(* found in the cache.                                                          *)
SetPrice(r) ==
    /\ pc[r] = "set"
    /\ LET a == call[r].asset
       IN  /\ \/ cache' = [cache EXCEPT ![a] = Entry(copy[r][a].price)]
              \/ "redis" \in Faults /\ UNCHANGED cache
           /\ DoneWith(r, a)
    /\ UNCHANGED <<assets, call, began, clock, wasPrice, age>>

Older(x, y) == IF x > y THEN x ELSE y

\* Mutant of CacheHit: reading a price prolongs its life in the cache.
CacheHitRenewing(r, a) ==
    /\ pc[r] = "lookup"
    /\ a \in DOMAIN copy[r]
    /\ Cached(a)
    /\ cache' = [cache EXCEPT ![a] = Entry(cache[a].price)]
    /\ age' = [age EXCEPT ![r] = Older(@, clock - wasPrice[a][cache[a].price])]
    /\ DoneWith(r, a)
    /\ UNCHANGED <<assets, call, began, clock, wasPrice>>

(* GetPrice finds a price: it replaces that of the row. *)
CacheHit(r, a) ==
    /\ pc[r] = "lookup"
    /\ a \in DOMAIN copy[r]
    /\ Cached(a)
    /\ age' = [age EXCEPT ![r] = Older(@, clock - wasPrice[a][cache[a].price])]
    /\ DoneWith(r, a)
    /\ UNCHANGED <<assets, cache, call, began, clock, wasPrice>>

(* GetPrice finds none, or fails: the price of the row as read is used, and is *)
(* cached by the next command.                                                 *)
CacheMiss(r, a) ==
    /\ pc[r] = "lookup"
    /\ a \in DOMAIN copy[r]
    /\ ~Cached(a) \/ "redis" \in Faults
    /\ call' = [call EXCEPT ![r].asset = a]
    /\ age' = [age EXCEPT ![r] = Older(@, clock - wasPrice[a][copy[r][a].price])]
    /\ Goto(r, "set")
    /\ UNCHANGED <<assets, cache, copy, began, clock, wasPrice>>

(* Time passes, but no call lasts longer than CallTime; what is listed stays listed. *)
Tick ==
    /\ clock < MaxTime
    /\ \A r \in Requests : pc[r] \notin {"idle", "done"} => clock < began[r] + CallTime
    /\ clock' = clock + 1
    /\ wasPrice' = [a \in Assets |-> [p \in Prices |->
                       IF a \in Listed /\ assets[a].price = p THEN clock' ELSE wasPrice[a][p]]]
    /\ UNCHANGED <<assets, cache, pc, call, copy, began, age>>

Next ==
    \/ \E r \in Requests, c \in Inputs :
          \/ CreateAsset(r, c) \/ ReadForWrite(r, c)
          \/ TradeCommit(r, c) \/ ReadForPrice(r, c)
    \/ \E r \in Requests : Write(r) \/ InvalidatePrice(r) \/ SetPrice(r)
    \/ \E r \in Requests, a \in Assets : CacheHit(r, a) \/ CacheMiss(r, a)
    \/ Tick

Spec == Init /\ [][Next]_vars

-------------------------------------------------------------------------------
(* Properties *)

(* A price shown to a caller was the listed price, or that of a trade, not      *)
(* longer ago than a cache entry lives and the call that cached it took,        *)
(* although a slow reader may cache an old price over a newer one.              *)
ServedPricesAreRecent == \A r \in Requests : age[r] < TTL + CallTime

(* A disabled asset becomes tradable again only through an UpdateAsset that     *)
(* overlapped the DisableAsset and writes back the status it had read before.   *)
RevivedOnlyByOverlap ==
    [][\A a \in Listed :
          (assets[a].status = "DISABLED" /\ assets'[a].status = "ACTIVE") =>
              \E r \in Requests : /\ pc[r] = "write" /\ pc'[r] = "invalidate"
                                  /\ copy[r] # [b \in {a} |-> assets[b]]
                                  /\ call[r].kind = "update" /\ call[r].asset = a]_vars
===============================================================================
