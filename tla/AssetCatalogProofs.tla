-------------------------- MODULE AssetCatalogProofs --------------------------
(***************************************************************************)
(* How old a price served by the asset service can be, and how a disabled  *)
(* asset can become tradable again, for any number of calls and assets and *)
(* every lifetime of a cache entry.                                        *)
(***************************************************************************)
EXTENDS AssetCatalog, TLAPS

Row == [broker : Brokers, price : Prices, status : {"ACTIVE", "DISABLED"}]

Call == [kind : {"create", "update", "disable", "get", "list", "trade"},
         asset : Assets, broker : Brokers, price : Prices \cup {NoEntry}]

Running(r) == pc[r] \notin {"idle", "done"}

TableTypes ==
    /\ Listed \subseteq Assets
    /\ \A a \in Listed : assets[a] \in Row

TimeTypes ==
    /\ clock \in Nat
    /\ began \in [Requests -> Nat]
    /\ wasPrice \in [Assets -> [Prices -> Int]]
    /\ age \in [Requests -> Int]

CallTypes ==
    /\ pc \in [Requests -> {"idle", "set", "write", "invalidate", "lookup", "done"}]
    /\ DOMAIN call = Requests
    /\ DOMAIN copy = Requests
    /\ \A r \in Requests : Running(r) => call[r] \in Call
    /\ \A r \in Requests : \A a \in DOMAIN copy[r] : a \in Assets /\ copy[r][a] \in Row

CacheTypes == cache \in [Assets -> [price : Prices, expires : Nat] \cup {NoEntry}]

(* What the history records is past, and what is listed is recorded up to now. *)
HistoryInv ==
    /\ \A a \in Assets, p \in Prices : wasPrice[a][p] <= clock
    /\ \A a \in Listed : wasPrice[a][assets[a].price] = clock

(* A call takes CallTime at most, and every price it holds was current when it began. *)
CopiesInv ==
    \A r \in Requests : Running(r) =>
        /\ began[r] <= clock /\ clock <= began[r] + CallTime
        /\ \A a \in DOMAIN copy[r] : began[r] <= wasPrice[a][copy[r][a].price]

(* A call about to write or to cache a row holds it; what is written is listed. *)
PlacesInv ==
    \A r \in Requests :
        /\ pc[r] \in {"set", "write", "invalidate"} => call[r].asset \in DOMAIN copy[r]
        /\ pc[r] = "write" => /\ call[r].kind \in {"update", "disable"}
                              /\ call[r].asset \in Listed

(* An entry is gone TTL and the time of one call after its price was current. *)
CacheInv ==
    \A a \in Assets : cache[a] # NoEntry =>
        cache[a].expires <= wasPrice[a][cache[a].price] + TTL + CallTime

CatalogTypes == TableTypes /\ TimeTypes /\ CallTypes /\ CacheTypes

CInv ==
    /\ CatalogTypes
    /\ HistoryInv
    /\ CopiesInv
    /\ PlacesInv
    /\ CacheInv
    /\ ServedPricesAreRecent

-------------------------------------------------------------------------------
LEMMA Constants ==
    /\ Prices \subseteq Nat
    /\ TTL \in Nat /\ TTL > 0
    /\ CallTime \in Nat /\ CallTime > 0
    /\ NoEntry \notin Prices
    /\ Inputs \subseteq Call
    /\ \A c \in Inputs : c.kind \in {"create", "trade"} => c.price \in Prices
BY CatalogConstants DEF Call

(* The history of the prices only grows. *)
Grown(old, new) ==
    /\ new \in [Assets -> [Prices -> Int]]
    /\ \A a \in Assets, p \in Prices : old[a][p] <= new[a][p] /\ new[a][p] <= clock

LEMMA SamePrices ==
    ASSUME CInv, UNCHANGED wasPrice
    PROVE  Grown(wasPrice, wasPrice')
BY DEF CInv, CatalogTypes, TimeTypes, HistoryInv, Grown

LEMMA PriceRecorded ==
    ASSUME CInv, NEW a \in Assets, NEW p \in Prices, PriceIs(a, p)
    PROVE  /\ Grown(wasPrice, wasPrice')
           /\ wasPrice'[a][p] = clock
           /\ \A b \in Assets : b # a => wasPrice'[b] = wasPrice[b]
<1>1. clock \in Int /\ wasPrice \in [Assets -> [Prices -> Int]]
  BY DEF CInv, CatalogTypes, TimeTypes
<1>2. \A b \in Assets, q \in Prices : wasPrice[b][q] <= clock /\ wasPrice[b][q] \in Int
  BY <1>1 DEF CInv, HistoryInv
<1>3. wasPrice' = [wasPrice EXCEPT ![a] = [wasPrice[a] EXCEPT ![p] = clock]]
  BY DEF PriceIs
<1>4. [wasPrice[a] EXCEPT ![p] = clock] \in [Prices -> Int]
  BY <1>1
<1>5. wasPrice' \in [Assets -> [Prices -> Int]]
  BY <1>1, <1>3, <1>4
<1>6. /\ wasPrice'[a][p] = clock
      /\ \A q \in Prices : q # p => wasPrice'[a][q] = wasPrice[a][q]
      /\ \A b \in Assets : b # a => wasPrice'[b] = wasPrice[b]
  BY <1>1, <1>3
<1>7. \A b \in Assets, q \in Prices :
         wasPrice'[b][q] = wasPrice[b][q] \/ wasPrice'[b][q] = clock
  BY <1>6
<1>8. \A b \in Assets, q \in Prices :
         wasPrice[b][q] <= wasPrice'[b][q] /\ wasPrice'[b][q] <= clock
  BY <1>1, <1>2, <1>7
<1> QED
  BY <1>5, <1>6, <1>8 DEF Grown

(* A step of call r keeps what holds of every call, when it holds of r after it. *)
LEMMA OneCallSteps ==
    ASSUME CInv, NEW r \in Requests,
           Grown(wasPrice, wasPrice'), UNCHANGED clock, Listed \subseteq DOMAIN assets',
           pc' \in [Requests -> {"idle", "set", "write", "invalidate", "lookup", "done"}],
           began' \in [Requests -> Nat], DOMAIN call' = Requests, DOMAIN copy' = Requests,
           \A q \in Requests : q # r => /\ pc'[q] = pc[q] /\ began'[q] = began[q]
                                        /\ call'[q] = call[q] /\ copy'[q] = copy[q],
           \A a \in DOMAIN copy'[r] : a \in Assets /\ copy'[r][a] \in Row,
           pc'[r] \notin {"idle", "done"} =>
              /\ call'[r] \in Call
              /\ began'[r] <= clock /\ clock <= began'[r] + CallTime
              /\ \A a \in DOMAIN copy'[r] : began'[r] <= wasPrice'[a][copy'[r][a].price],
           pc'[r] \in {"set", "write", "invalidate"} => call'[r].asset \in DOMAIN copy'[r],
           pc'[r] = "write" => /\ call'[r].kind \in {"update", "disable"}
                               /\ call'[r].asset \in DOMAIN assets'
    PROVE  CallTypes' /\ CopiesInv' /\ PlacesInv'
<1>1. CallTypes'
  BY DEF CInv, CatalogTypes, CallTypes, Running
<1>2. ASSUME NEW q \in Requests, Running(q)'
      PROVE  /\ began'[q] <= clock' /\ clock' <= began'[q] + CallTime
             /\ \A a \in DOMAIN copy'[q] : began'[q] <= wasPrice'[a][copy'[q][a].price]
  <2>1. CASE q = r
    BY <1>2, <2>1 DEF Running
  <2>2. CASE q # r
    <3>1. /\ pc'[q] = pc[q] /\ began'[q] = began[q] /\ copy'[q] = copy[q]
          /\ Running(q)
      BY <1>2, <2>2 DEF Running
    <3>2. ASSUME NEW a \in DOMAIN copy[q]
          PROVE  began[q] <= wasPrice'[a][copy[q][a].price]
      <4> DEFINE p == copy[q][a].price
      <4>1. a \in Assets /\ p \in Prices
        BY <3>2 DEF CInv, CatalogTypes, CallTypes, Row
      <4>2. began[q] <= wasPrice[a][p] /\ began[q] \in Int
        BY <3>1, <3>2 DEF CInv, CatalogTypes, TimeTypes, CopiesInv
      <4> HIDE DEF p
      <4>3. wasPrice[a][p] <= wasPrice'[a][p] /\ wasPrice'[a][p] \in Int
        BY <4>1 DEF Grown
      <4>4. wasPrice[a][p] \in Int
        BY <4>1 DEF CInv, CatalogTypes, TimeTypes
      <4>5. began[q] <= wasPrice'[a][p]
        BY <4>2, <4>3, <4>4
      <4> QED
        BY <4>5 DEF p
    <3> QED
      BY <3>1, <3>2 DEF CInv, CopiesInv
  <2> QED
    BY <2>1, <2>2
<1>3. CopiesInv'
  BY <1>2 DEF CopiesInv
<1>4. PlacesInv'
  BY DEF CInv, PlacesInv, Listed
<1> QED
  BY <1>1, <1>3, <1>4

(* Entries of the cache that are left alone stay in time. *)
LEMMA CacheLeftAlone ==
    ASSUME CInv, Grown(wasPrice, wasPrice'), NEW a \in Assets, cache[a] # NoEntry
    PROVE  cache[a].expires <= wasPrice'[a][cache[a].price] + TTL + CallTime
<1> DEFINE p == cache[a].price
           x == cache[a].expires
<1>1. p \in Prices /\ x \in Int
  BY DEF CInv, CatalogTypes, CacheTypes
<1>2. x <= wasPrice[a][p] + TTL + CallTime
  BY DEF CInv, CacheInv
<1> HIDE DEF p, x
<1>3. wasPrice[a][p] \in Int /\ wasPrice'[a][p] \in Int /\ wasPrice[a][p] <= wasPrice'[a][p]
  BY <1>1 DEF CInv, CatalogTypes, TimeTypes, Grown
<1>4. x <= wasPrice'[a][p] + TTL + CallTime
  BY <1>1, <1>2, <1>3, Constants
<1> QED
  BY <1>4 DEF p, x

LEMMA CacheUnchanged ==
    ASSUME CInv, Grown(wasPrice, wasPrice'), UNCHANGED cache
    PROVE  CacheTypes' /\ CacheInv'
BY CacheLeftAlone DEF CInv, CatalogTypes, CacheTypes, CacheInv

-------------------------------------------------------------------------------
(* The first step of a call *)

LEMMA CallBegins ==
    ASSUME CInv, NEW r \in Requests, NEW c \in Inputs, Begin(r, c),
           NEW p \in {"set", "write", "lookup", "done"}, Goto(r, p)
    PROVE  /\ pc' \in [Requests -> {"idle", "set", "write", "invalidate", "lookup", "done"}]
           /\ began' \in [Requests -> Nat]
           /\ DOMAIN call' = Requests
           /\ \A q \in Requests : q # r => /\ pc'[q] = pc[q] /\ began'[q] = began[q]
                                           /\ call'[q] = call[q]
           /\ pc'[r] = p /\ call'[r] = c /\ c \in Call
           /\ began'[r] = clock /\ clock <= clock + CallTime /\ clock <= clock
<1>1. clock \in Nat /\ clock <= clock + CallTime
  BY Constants DEF CInv, CatalogTypes, TimeTypes
<1>2. c \in Call
  BY Constants
<1> QED
  BY <1>1, <1>2 DEF CInv, CatalogTypes, TimeTypes, CallTypes, Begin, Goto

(* Of the rows that calls hold, only those of call r change. *)
OnlyCopyOf(r, new) ==
    /\ DOMAIN new = Requests
    /\ \A q \in Requests : q # r => new[q] = copy[q]

LEMMA CopyReplaced ==
    ASSUME CInv, NEW r \in Requests, NEW rows, copy' = [copy EXCEPT ![r] = rows]
    PROVE  OnlyCopyOf(r, copy') /\ copy'[r] = rows
BY DEF CInv, CatalogTypes, CallTypes, OnlyCopyOf

(* A call that begins with rows whose prices are current. *)
LEMMA BeginsWithRows ==
    ASSUME CInv, NEW r \in Requests, NEW c \in Inputs, Begin(r, c),
           NEW p \in {"set", "write", "lookup", "done"}, Goto(r, p),
           Grown(wasPrice, wasPrice'), UNCHANGED clock, Listed \subseteq DOMAIN assets',
           OnlyCopyOf(r, copy'),
           \A a \in DOMAIN copy'[r] : /\ a \in Assets /\ copy'[r][a] \in Row
                                      /\ wasPrice'[a][copy'[r][a].price] = clock,
           p \in {"set", "write"} => c.asset \in DOMAIN copy'[r],
           p = "write" => c.kind \in {"update", "disable"} /\ c.asset \in DOMAIN assets'
    PROVE  CallTypes' /\ CopiesInv' /\ PlacesInv'
<1>1. \A a \in DOMAIN copy'[r] : clock <= wasPrice'[a][copy'[r][a].price]
  BY DEF CInv, CatalogTypes, TimeTypes
<1> QED
  BY <1>1, CallBegins, OneCallSteps DEF OnlyCopyOf

(* A call that is refused at once. *)
LEMMA BeginsAndEnds ==
    ASSUME CInv, NEW r \in Requests, NEW c \in Inputs, Begin(r, c), Goto(r, "done"),
           UNCHANGED <<assets, copy, clock, wasPrice>>
    PROVE  CallTypes' /\ CopiesInv' /\ PlacesInv'
<1>1. Grown(wasPrice, wasPrice')
  BY SamePrices
<1>2. /\ DOMAIN copy' = Requests
      /\ \A q \in Requests : copy'[q] = copy[q]
      /\ \A a \in DOMAIN copy'[r] : a \in Assets /\ copy'[r][a] \in Row
      /\ Listed \subseteq DOMAIN assets'
  BY DEF CInv, CatalogTypes, CallTypes, Listed
<1>3. pc'[r] = "done"
  BY DEF CInv, CatalogTypes, CallTypes, Goto
<1> QED
  BY <1>1, <1>2, <1>3, CallBegins, OneCallSteps

(* Steps that change no row, entry or price served. *)
LEMMA TableAsItWas ==
    ASSUME CInv, UNCHANGED <<assets, clock, wasPrice>>
    PROVE  TableTypes' /\ HistoryInv'
BY DEF CInv, CatalogTypes, TableTypes, HistoryInv, Listed

LEMMA TimesTyped ==
    ASSUME CInv, Grown(wasPrice, wasPrice'), UNCHANGED <<clock, age>>,
           began' \in [Requests -> Nat]
    PROVE  TimeTypes' /\ ServedPricesAreRecent'
BY DEF CInv, CatalogTypes, TimeTypes, ServedPricesAreRecent, Grown

LEMMA NewRowTyped ==
    ASSUME NEW c \in Inputs, c.kind = "create"
    PROVE  NewRow(c) \in Row /\ NewRow(c).price = c.price /\ c.price \in Prices
BY Constants DEF NewRow, Row, Call

(* The row of asset b is written; b may be new. *)
LEMMA RowWritten ==
    ASSUME CInv, NEW b \in Assets, NEW row \in Row,
           DOMAIN assets' = Listed \cup {b}, assets'[b] = row,
           \A a \in Listed : a # b => assets'[a] = assets[a],
           PriceIs(b, row.price), UNCHANGED clock
    PROVE  TableTypes' /\ HistoryInv'
<1>1. row.price \in Prices
  BY DEF Row
<1>2. /\ Grown(wasPrice, wasPrice')
      /\ wasPrice'[b][row.price] = clock
      /\ \A a \in Assets : a # b => wasPrice'[a] = wasPrice[a]
  BY <1>1, PriceRecorded
<1>3. TableTypes'
  BY DEF CInv, CatalogTypes, TableTypes, Listed
<1>4. \A a \in DOMAIN assets' : wasPrice'[a][assets'[a].price] = clock
  BY <1>2 DEF CInv, CatalogTypes, TableTypes, HistoryInv
<1> QED
  BY <1>2, <1>3, <1>4 DEF HistoryInv, Grown, Listed

LEMMA CreateAssetKeeps ==
    ASSUME CInv, NEW r \in Requests, NEW c \in Inputs, CreateAsset(r, c)
    PROVE  CInv'
<1>1. /\ Begin(r, c)
      /\ UNCHANGED <<cache, clock, age>>
  BY DEF CreateAsset
<1>2. c.asset \in Assets
  BY Constants DEF Call
<1>3. CASE c.asset \in Listed
  <2>1. Goto(r, "done") /\ UNCHANGED <<assets, copy, wasPrice>>
    BY <1>3 DEF CreateAsset
  <2>2. Grown(wasPrice, wasPrice') /\ began' \in [Requests -> Nat]
    BY <1>1, <2>1, SamePrices, CallBegins
  <2>3. CallTypes' /\ CopiesInv' /\ PlacesInv'
    BY <1>1, <2>1, BeginsAndEnds
  <2> QED
    BY <1>1, <2>1, <2>2, <2>3, TableAsItWas, TimesTyped, CacheUnchanged DEF CInv, CatalogTypes
<1>4. CASE c.asset \notin Listed
  <2> DEFINE row == NewRow(c)
             rows == [a \in {c.asset} |-> row]
  <2>1. /\ assets' = [a \in Listed \cup {c.asset} |-> IF a = c.asset THEN row ELSE assets[a]]
        /\ PriceIs(c.asset, c.price)
        /\ copy' = [copy EXCEPT ![r] = rows]
        /\ Goto(r, "set")
        /\ c.kind = "create"
    BY <1>4 DEF CreateAsset
  <2>2. row \in Row /\ row.price = c.price /\ c.price \in Prices
    BY <2>1, NewRowTyped
  <2> HIDE DEF row
  <2>3. /\ DOMAIN assets' = Listed \cup {c.asset} /\ assets'[c.asset] = row
        /\ \A a \in Listed : a # c.asset => assets'[a] = assets[a]
    BY <2>1
  <2>4. TableTypes' /\ HistoryInv'
    BY <1>1, <1>2, <2>1, <2>2, <2>3, RowWritten
  <2>5. Grown(wasPrice, wasPrice') /\ wasPrice'[c.asset][c.price] = clock
    BY <1>2, <2>1, <2>2, PriceRecorded
  <2>6. began' \in [Requests -> Nat]
    BY <1>1, <2>1, CallBegins
  <2>7. /\ DOMAIN rows = {c.asset}
        /\ \A a \in DOMAIN rows : /\ a \in Assets /\ rows[a] \in Row
                                  /\ wasPrice'[a][rows[a].price] = clock
    BY <1>2, <2>2, <2>5
  <2> HIDE DEF rows
  <2>8. OnlyCopyOf(r, copy') /\ copy'[r] = rows
    BY <2>1, CopyReplaced
  <2>9. Goto(r, "set") /\ Listed \subseteq DOMAIN assets'
    BY <2>1, <2>3
  <2>10. CallTypes' /\ CopiesInv' /\ PlacesInv'
    BY <1>1, <2>5, <2>7, <2>8, <2>9, BeginsWithRows
  <2> QED
    BY <1>1, <2>4, <2>5, <2>6, <2>10, TimesTyped, CacheUnchanged DEF CInv, CatalogTypes
<1> QED
  BY <1>3, <1>4

(* A call that begins with rows as they are listed, or with none. *)
LEMMA ReadsListed ==
    ASSUME CInv, NEW r \in Requests, NEW c \in Inputs, Begin(r, c),
           NEW p \in {"write", "lookup", "done"}, Goto(r, p),
           NEW wanted \in SUBSET Listed,
           copy' = [copy EXCEPT ![r] = [a \in wanted |-> assets[a]]],
           p = "write" => c.kind \in {"update", "disable"} /\ c.asset \in wanted,
           UNCHANGED <<assets, cache, clock, wasPrice, age>>
    PROVE  CInv'
<1> DEFINE rows == [a \in wanted |-> assets[a]]
<1>1. Grown(wasPrice, wasPrice') /\ began' \in [Requests -> Nat]
  BY SamePrices, CallBegins
<1>2. /\ DOMAIN rows = wanted
      /\ \A a \in DOMAIN rows : /\ a \in Assets /\ rows[a] \in Row
                                /\ wasPrice'[a][rows[a].price] = clock
  BY DEF CInv, CatalogTypes, TableTypes, HistoryInv
<1>3. Listed \subseteq DOMAIN assets'
  BY DEF Listed
<1>4. copy' = [copy EXCEPT ![r] = rows]
  OBVIOUS
<1> HIDE DEF rows
<1>5. /\ p \in {"set", "write", "lookup", "done"}
      /\ p \in {"set", "write"} => c.asset \in DOMAIN rows
      /\ p = "write" => c.kind \in {"update", "disable"} /\ c.asset \in DOMAIN assets'
  BY <1>2, <1>3
<1>6. OnlyCopyOf(r, copy') /\ copy'[r] = rows
  BY <1>4, CopyReplaced
<1>7. CallTypes' /\ CopiesInv' /\ PlacesInv'
  BY <1>1, <1>2, <1>3, <1>5, <1>6, BeginsWithRows
<1> QED
  BY <1>1, <1>7, TableAsItWas, TimesTyped, CacheUnchanged DEF CInv, CatalogTypes

LEMMA ReadForWriteKeeps ==
    ASSUME CInv, NEW r \in Requests, NEW c \in Inputs, ReadForWrite(r, c)
    PROVE  CInv'
<1>1. CASE c.asset \in Listed /\ assets[c.asset].broker = c.broker
  <2>1. {c.asset} \in SUBSET Listed /\ c.asset \in {c.asset}
    BY <1>1
  <2> QED
    BY <1>1, <2>1, ReadsListed DEF ReadForWrite
<1>2. CASE ~(c.asset \in Listed /\ assets[c.asset].broker = c.broker)
  <2>1. /\ Begin(r, c) /\ Goto(r, "done")
        /\ UNCHANGED <<assets, cache, copy, clock, wasPrice, age>>
    BY <1>2 DEF ReadForWrite
  <2>2. Grown(wasPrice, wasPrice') /\ began' \in [Requests -> Nat]
    BY <2>1, SamePrices, CallBegins
  <2>3. CallTypes' /\ CopiesInv' /\ PlacesInv'
    BY <2>1, BeginsAndEnds
  <2> QED
    BY <2>1, <2>2, <2>3, TableAsItWas, TimesTyped, CacheUnchanged DEF CInv, CatalogTypes
<1> QED
  BY <1>1, <1>2

LEMMA ReadForPriceKeeps ==
    ASSUME CInv, NEW r \in Requests, NEW c \in Inputs, ReadForPrice(r, c)
    PROVE  CInv'
<1> DEFINE wanted == IF c.kind = "get" THEN {c.asset} \cap Listed ELSE Active
           p == IF wanted = {} THEN "done" ELSE "lookup"
<1>1. /\ Begin(r, c) /\ Goto(r, p)
      /\ copy' = [copy EXCEPT ![r] = [a \in wanted |-> assets[a]]]
      /\ UNCHANGED <<assets, cache, clock, wasPrice, age>>
  BY DEF ReadForPrice
<1>2. wanted \in SUBSET Listed /\ p \in {"write", "lookup", "done"} /\ p # "write"
  BY DEF Active
<1> HIDE DEF wanted, p
<1> QED
  BY <1>1, <1>2, ReadsListed

LEMMA TradeCommitKeeps ==
    ASSUME CInv, NEW r \in Requests, NEW c \in Inputs, TradeCommit(r, c)
    PROVE  CInv'
<1> DEFINE row == [assets[c.asset] EXCEPT !.price = c.price]
           rows == [a \in {c.asset} |-> [assets[a] EXCEPT !.price = c.price]]
<1>1. /\ Begin(r, c) /\ Goto(r, "set")
      /\ c.asset \in Listed
      /\ PriceIs(c.asset, c.price)
      /\ copy' = [copy EXCEPT ![r] = rows]
      /\ UNCHANGED <<assets, cache, clock, age>>
  BY DEF TradeCommit
<1>2. c.asset \in Assets /\ c.price \in Prices /\ assets[c.asset] \in Row
  BY <1>1, Constants DEF CInv, CatalogTypes, TableTypes, TradeCommit
<1>3. row \in Row /\ row.price = c.price
  BY <1>2 DEF Row
<1>4. /\ Grown(wasPrice, wasPrice')
      /\ wasPrice'[c.asset][c.price] = clock
      /\ \A b \in Assets : b # c.asset => wasPrice'[b] = wasPrice[b]
  BY <1>1, <1>2, PriceRecorded
<1>5. /\ DOMAIN rows = {c.asset}
      /\ \A a \in DOMAIN rows : /\ a \in Assets /\ rows[a] \in Row
                                /\ wasPrice'[a][rows[a].price] = clock
  BY <1>2, <1>3, <1>4
<1>6. Listed \subseteq DOMAIN assets' /\ began' \in [Requests -> Nat]
  BY <1>1, CallBegins DEF Listed
<1>7. TableTypes' /\ HistoryInv'
  <2>1. ASSUME NEW a \in Listed
        PROVE  wasPrice'[a][assets[a].price] = clock
    <3>1. a \in Assets /\ assets[a].price \in Prices /\ wasPrice[a][assets[a].price] = clock
      BY DEF CInv, CatalogTypes, TableTypes, HistoryInv, Row
    <3>2. /\ clock <= wasPrice'[a][assets[a].price] /\ wasPrice'[a][assets[a].price] <= clock
          /\ wasPrice'[a][assets[a].price] \in Int /\ clock \in Int
      BY <1>4, <3>1 DEF Grown, CInv, CatalogTypes, TimeTypes
    <3> QED
      BY <3>2
  <2> QED
    BY <1>1, <1>4, <2>1 DEF CInv, CatalogTypes, TableTypes, HistoryInv, Grown, Listed
<1> HIDE DEF rows
<1>8. OnlyCopyOf(r, copy') /\ copy'[r] = rows
  BY <1>1, CopyReplaced
<1>9. CallTypes' /\ CopiesInv' /\ PlacesInv'
  BY <1>1, <1>4, <1>5, <1>6, <1>8, BeginsWithRows
<1> QED
  BY <1>1, <1>4, <1>6, <1>7, <1>9, TimesTyped, CacheUnchanged DEF CInv, CatalogTypes

-------------------------------------------------------------------------------
(* The later steps of a call *)

LEMMA WrittenRow ==
    ASSUME NEW row \in Row, NEW c \in Call
    PROVE  /\ Written(row, c) \in Row
           /\ c.kind = "disable" => Written(row, c).status = "DISABLED"
           /\ c.kind # "disable" => Written(row, c).status = row.status
<1>1. c.price \in Prices \cup {NoEntry}
  BY DEF Call
<1> DEFINE p == IF c.kind = "update" /\ c.price # NoEntry THEN c.price ELSE row.price
           s == IF c.kind = "disable" THEN "DISABLED" ELSE row.status
<1>2. p \in Prices /\ s \in {"ACTIVE", "DISABLED"}
  BY <1>1 DEF Row
<1>3. Written(row, c) = [[row EXCEPT !.price = p] EXCEPT !.status = s]
  BY DEF Written
<1> HIDE DEF p, s
<1>4. Written(row, c) \in Row /\ Written(row, c).status = s
  BY <1>2, <1>3 DEF Row
<1> QED
  BY <1>4 DEF s

(* A running call goes on, with the row of one asset replaced by a current one, *)
(* or with some of its rows.                                                    *)
LEMMA GoesOn ==
    ASSUME CInv, NEW r \in Requests, Running(r),
           NEW p \in {"set", "invalidate", "lookup", "done"}, Goto(r, p),
           Grown(wasPrice, wasPrice'), UNCHANGED <<began, clock>>,
           Listed \subseteq DOMAIN assets', DOMAIN call' = Requests,
           \A q \in Requests : q # r => call'[q] = call[q], call'[r] \in Call,
           OnlyCopyOf(r, copy'),
           \A a \in DOMAIN copy'[r] : \/ a \in DOMAIN copy[r] /\ copy'[r][a] = copy[r][a]
                                      \/ /\ a \in Assets /\ copy'[r][a] \in Row
                                         /\ wasPrice'[a][copy'[r][a].price] = clock,
           p \in {"set", "invalidate"} => call'[r].asset \in DOMAIN copy'[r]
    PROVE  CallTypes' /\ CopiesInv' /\ PlacesInv'
<1> DEFINE rows == copy'[r]
<1>1. pc'[r] = p
  BY DEF CInv, CatalogTypes, CallTypes, Goto
<1>2. \A q \in Requests : q # r => pc'[q] = pc[q]
  BY DEF CInv, CatalogTypes, CallTypes, Goto
<1>3. /\ pc' \in [Requests -> {"idle", "set", "write", "invalidate", "lookup", "done"}]
      /\ began' \in [Requests -> Nat]
  BY DEF CInv, CatalogTypes, CallTypes, TimeTypes, Goto
<1>4. /\ began[r] \in Int /\ clock \in Int
      /\ began[r] <= clock /\ clock <= began[r] + CallTime
  BY DEF CInv, CatalogTypes, TimeTypes, CopiesInv
<1>5. \A a \in DOMAIN rows : a \in Assets /\ rows[a] \in Row
  BY DEF CInv, CatalogTypes, CallTypes
<1>6. ASSUME NEW a \in DOMAIN rows
      PROVE  began[r] <= wasPrice'[a][rows[a].price]
  <2> DEFINE m == rows[a].price
  <2>1. a \in Assets /\ m \in Prices
    BY <1>5 DEF Row
  <2>2. began[r] <= wasPrice[a][m] \/ wasPrice'[a][m] = clock
    BY DEF CInv, CopiesInv
  <2> HIDE DEF m
  <2>3. wasPrice[a][m] \in Int /\ wasPrice'[a][m] \in Int /\ wasPrice[a][m] <= wasPrice'[a][m]
    BY <2>1 DEF Grown, CInv, CatalogTypes, TimeTypes
  <2>4. began[r] <= wasPrice'[a][m]
    BY <1>4, <2>2, <2>3
  <2> QED
    BY <2>4 DEF m
<1> QED
  BY <1>1, <1>2, <1>3, <1>4, <1>5, <1>6, OneCallSteps DEF OnlyCopyOf

LEMMA DoneWithKeeps ==
    ASSUME CInv, NEW r \in Requests, NEW a, Running(r), DoneWith(r, a),
           UNCHANGED <<assets, call, began, clock, wasPrice>>
    PROVE  CallTypes' /\ CopiesInv' /\ PlacesInv'
<1> DEFINE rows == [b \in DOMAIN copy[r] \ {a} |-> copy[r][b]]
           p == IF DOMAIN copy[r] = {a} THEN "done" ELSE "lookup"
<1>1. copy' = [copy EXCEPT ![r] = rows] /\ Goto(r, p)
  BY DEF DoneWith, CInv, CatalogTypes, CallTypes
<1>2. p \in {"set", "invalidate", "lookup", "done"} /\ p \notin {"set", "invalidate"}
  OBVIOUS
<1>3. \A b \in DOMAIN rows : b \in DOMAIN copy[r] /\ rows[b] = copy[r][b]
  OBVIOUS
<1>4. /\ Listed \subseteq DOMAIN assets' /\ DOMAIN call' = Requests
      /\ \A q \in Requests : call'[q] = call[q]
      /\ call'[r] \in Call
  BY DEF CInv, CatalogTypes, CallTypes, Listed
<1>5. Grown(wasPrice, wasPrice')
  BY SamePrices
<1> HIDE DEF rows, p
<1>6. OnlyCopyOf(r, copy') /\ copy'[r] = rows
  BY <1>1, CopyReplaced
<1> QED
  BY <1>1, <1>2, <1>3, <1>4, <1>5, <1>6, GoesOn

(* What Write(r) finds. *)
LEMMA WriteFinds ==
    ASSUME CInv, NEW r \in Requests, pc[r] = "write"
    PROVE  /\ Running(r) /\ call[r] \in Call
           /\ call[r].kind \in {"update", "disable"}
           /\ call[r].asset \in DOMAIN copy[r] /\ call[r].asset \in Listed
           /\ call[r].asset \in Assets /\ copy[r][call[r].asset] \in Row
<1>1. Running(r)
  BY DEF Running
<1> QED
  BY <1>1 DEF CInv, CatalogTypes, CallTypes, PlacesInv

LEMMA WriteKeeps ==
    ASSUME CInv, NEW r \in Requests, Write(r)
    PROVE  CInv'
<1> DEFINE a == call[r].asset
           row == Written(copy[r][a], call[r])
           rows == [copy[r] EXCEPT ![a] = row]
<1>1. pc[r] = "write"
  BY DEF Write
<1>2. /\ assets' = [assets EXCEPT ![a] = row]
      /\ copy' = [copy EXCEPT ![r] = rows]
      /\ PriceIs(a, row.price)
      /\ Goto(r, "invalidate")
      /\ UNCHANGED <<cache, call, began, clock, age>>
  BY DEF Write
<1>3. /\ Running(r) /\ call[r] \in Call
      /\ a \in DOMAIN copy[r] /\ a \in Listed /\ a \in Assets /\ copy[r][a] \in Row
  BY <1>1, WriteFinds
<1>4. row \in Row
  BY <1>3, WrittenRow
<1> HIDE DEF row
<1>5. /\ DOMAIN assets' = Listed \cup {a} /\ assets'[a] = row
      /\ \A b \in Listed : b # a => assets'[b] = assets[b]
  BY <1>2, <1>3 DEF Listed
<1>6. DOMAIN rows = DOMAIN copy[r] /\ rows[a] = row
      /\ \A b \in DOMAIN copy[r] : b # a => rows[b] = copy[r][b]
  BY <1>3
<1>7. /\ DOMAIN call' = Requests /\ began' \in [Requests -> Nat]
      /\ \A q \in Requests : call'[q] = call[q]
  BY <1>2 DEF CInv, CatalogTypes, CallTypes, TimeTypes
<1>8. call'[r] \in Call /\ call'[r].asset \in DOMAIN rows
  BY <1>3, <1>6, <1>7
<1> HIDE DEF rows, a
<1>9. TableTypes' /\ HistoryInv'
  BY <1>2, <1>3, <1>4, <1>5, RowWritten
<1>10. Grown(wasPrice, wasPrice') /\ wasPrice'[a][row.price] = clock
  BY <1>2, <1>3, <1>4, PriceRecorded DEF Row
<1>11. \A b \in DOMAIN rows : \/ b \in DOMAIN copy[r] /\ rows[b] = copy[r][b]
                              \/ /\ b \in Assets /\ rows[b] \in Row
                                 /\ wasPrice'[b][rows[b].price] = clock
  BY <1>3, <1>4, <1>6, <1>10
<1>12. OnlyCopyOf(r, copy') /\ copy'[r] = rows
  BY <1>2, CopyReplaced
<1>13. Listed \subseteq DOMAIN assets'
  BY <1>5
<1>14. CallTypes' /\ CopiesInv' /\ PlacesInv'
  BY <1>2, <1>3, <1>7, <1>8, <1>10, <1>11, <1>12, <1>13, GoesOn
<1> QED
  BY <1>2, <1>7, <1>9, <1>10, <1>14, TimesTyped, CacheUnchanged DEF CInv, CatalogTypes

LEMMA InvalidatePriceKeeps ==
    ASSUME CInv, NEW r \in Requests, InvalidatePrice(r)
    PROVE  CInv'
<1> DEFINE a == call[r].asset
           p == IF call[r].kind = "update" THEN "set" ELSE "done"
<1>1. /\ pc[r] = "invalidate" /\ Goto(r, p)
      /\ cache' = [cache EXCEPT ![a] = NoEntry] \/ UNCHANGED cache
      /\ UNCHANGED <<assets, call, copy, began, clock, wasPrice, age>>
  BY DEF InvalidatePrice
<1>2. Running(r) /\ call[r] \in Call /\ a \in DOMAIN copy[r]
  BY <1>1 DEF CInv, CatalogTypes, CallTypes, PlacesInv, Running
<1>3. Grown(wasPrice, wasPrice') /\ began' \in [Requests -> Nat]
  BY <1>1, SamePrices DEF CInv, CatalogTypes, TimeTypes
<1>4. /\ DOMAIN call' = Requests /\ Listed \subseteq DOMAIN assets'
      /\ \A q \in Requests : call'[q] = call[q]
      /\ OnlyCopyOf(r, copy') /\ copy'[r] = copy[r]
  BY <1>1 DEF CInv, CatalogTypes, CallTypes, Listed, OnlyCopyOf
<1>5. p \in {"set", "invalidate", "lookup", "done"}
  OBVIOUS
<1>6. call'[r] \in Call /\ call'[r].asset \in DOMAIN copy'[r]
  BY <1>2, <1>4
<1> HIDE DEF p
<1>7. CallTypes' /\ CopiesInv' /\ PlacesInv'
  BY <1>1, <1>2, <1>3, <1>4, <1>5, <1>6, GoesOn
<1>8. CacheTypes' /\ CacheInv'
  <2>1. CASE UNCHANGED cache
    BY <1>3, <2>1, CacheUnchanged
  <2>2. CASE cache' = [cache EXCEPT ![a] = NoEntry]
    <3>1. CacheTypes'
      BY <2>2 DEF CInv, CatalogTypes, CacheTypes
    <3>2. \A b \in Assets : cache'[b] # NoEntry => cache'[b] = cache[b]
      BY <2>2 DEF CInv, CatalogTypes, CacheTypes
    <3>3. CacheInv'
      BY <1>3, <3>2, CacheLeftAlone DEF CacheInv
    <3> QED
      BY <3>1, <3>3
  <2> QED
    BY <1>1, <2>1, <2>2
<1> QED
  BY <1>1, <1>3, <1>7, <1>8, TableAsItWas, TimesTyped DEF CInv, CatalogTypes

(* The price cached belongs to a call that began at most CallTime ago. *)
LEMMA NewEntryInTime ==
    ASSUME CInv, NEW r \in Requests, Running(r), NEW a \in DOMAIN copy[r]
    PROVE  /\ Entry(copy[r][a].price) \in [price : Prices, expires : Nat]
           /\ clock + TTL <= wasPrice[a][copy[r][a].price] + TTL + CallTime
<1> DEFINE p == copy[r][a].price
<1>1. a \in Assets /\ p \in Prices
  BY DEF CInv, CatalogTypes, CallTypes, Row
<1>2. began[r] <= wasPrice[a][p] /\ clock <= began[r] + CallTime
  BY DEF CInv, CopiesInv
<1> HIDE DEF p
<1>3. wasPrice[a][p] \in Int /\ began[r] \in Int /\ clock \in Nat
  BY <1>1 DEF CInv, CatalogTypes, TimeTypes
<1>4. clock + TTL <= wasPrice[a][p] + TTL + CallTime /\ clock + TTL \in Nat
  BY <1>2, <1>3, Constants
<1>5. Entry(p) \in [price : Prices, expires : Nat]
  BY <1>1, <1>4 DEF Entry
<1> QED
  BY <1>4, <1>5 DEF p

LEMMA SetPriceKeeps ==
    ASSUME CInv, NEW r \in Requests, SetPrice(r)
    PROVE  CInv'
<1> DEFINE a == call[r].asset
           e == Entry(copy[r][a].price)
<1>1. /\ pc[r] = "set" /\ DoneWith(r, a)
      /\ cache' = [cache EXCEPT ![a] = e] \/ UNCHANGED cache
      /\ UNCHANGED <<assets, call, began, clock, wasPrice, age>>
  BY DEF SetPrice
<1>2. Running(r) /\ a \in DOMAIN copy[r] /\ a \in Assets
  BY <1>1 DEF CInv, CatalogTypes, CallTypes, PlacesInv, Running
<1>3. Grown(wasPrice, wasPrice') /\ began' \in [Requests -> Nat]
  BY <1>1, SamePrices DEF CInv, CatalogTypes, TimeTypes
<1>4. CallTypes' /\ CopiesInv' /\ PlacesInv'
  BY <1>1, <1>2, DoneWithKeeps
<1>5. CacheTypes' /\ CacheInv'
  <2>1. CASE UNCHANGED cache
    BY <1>3, <2>1, CacheUnchanged
  <2>2. CASE cache' = [cache EXCEPT ![a] = e]
    <3>1. /\ e \in [price : Prices, expires : Nat]
          /\ e.price = copy[r][a].price /\ e.expires = clock + TTL
      BY <1>2, NewEntryInTime DEF Entry
    <3>2. e.expires <= wasPrice'[a][e.price] + TTL + CallTime
      BY <1>1, <1>2, <3>1, NewEntryInTime
    <3> HIDE DEF e, a
    <3>3. CacheTypes'
      BY <1>2, <2>2, <3>1 DEF CInv, CatalogTypes, CacheTypes
    <3>4. /\ cache'[a] = e
          /\ \A b \in Assets : b # a => cache'[b] = cache[b]
      BY <1>2, <2>2 DEF CInv, CatalogTypes, CacheTypes
    <3>5. CacheInv'
      BY <1>3, <3>2, <3>4, CacheLeftAlone DEF CacheInv
    <3> QED
      BY <3>3, <3>5
  <2> QED
    BY <1>1, <2>1, <2>2
<1> QED
  BY <1>1, <1>3, <1>4, <1>5, TableAsItWas, TimesTyped DEF CInv, CatalogTypes

(* A call is given one more price, of age x. *)
LEMMA OneMoreServed ==
    ASSUME CInv, NEW r \in Requests, NEW x \in Int, x < TTL + CallTime,
           age' = [age EXCEPT ![r] = Older(@, x)], UNCHANGED <<began, clock, wasPrice>>
    PROVE  TimeTypes' /\ ServedPricesAreRecent'
<1> DEFINE y == Older(age[r], x)
<1>1. y \in Int /\ y < TTL + CallTime
  BY DEF CInv, CatalogTypes, TimeTypes, ServedPricesAreRecent, Older
<1>2. age' = [age EXCEPT ![r] = y]
  OBVIOUS
<1> HIDE DEF y
<1> QED
  BY <1>1, <1>2 DEF CInv, CatalogTypes, TimeTypes, ServedPricesAreRecent

LEMMA CacheHitKeeps ==
    ASSUME CInv, NEW r \in Requests, NEW a \in Assets, CacheHit(r, a)
    PROVE  CInv'
<1> DEFINE w == wasPrice[a][cache[a].price]
           x == clock - w
<1>1. /\ pc[r] = "lookup" /\ Cached(a) /\ DoneWith(r, a)
      /\ age' = [age EXCEPT ![r] = Older(@, x)]
      /\ UNCHANGED <<assets, cache, call, began, clock, wasPrice>>
  BY DEF CacheHit
<1>2. Running(r)
  BY <1>1 DEF Running
<1>3. /\ cache[a].price \in Prices /\ cache[a].expires \in Int
      /\ cache[a].expires <= w + TTL + CallTime /\ clock < cache[a].expires
  BY <1>1 DEF CInv, CatalogTypes, CacheTypes, CacheInv, Cached
<1>4. w \in Int /\ clock \in Int
  BY <1>3 DEF CInv, CatalogTypes, TimeTypes
<1> HIDE DEF w
<1>5. x \in Int /\ x < TTL + CallTime
  BY <1>3, <1>4, Constants
<1> HIDE DEF x
<1>6. TimeTypes' /\ ServedPricesAreRecent'
  BY <1>1, <1>5, OneMoreServed
<1>7. CallTypes' /\ CopiesInv' /\ PlacesInv'
  BY <1>1, <1>2, DoneWithKeeps
<1> QED
  BY <1>1, <1>6, <1>7, SamePrices, TableAsItWas, CacheUnchanged DEF CInv, CatalogTypes

LEMMA CacheMissKeeps ==
    ASSUME CInv, NEW r \in Requests, NEW a \in Assets, CacheMiss(r, a)
    PROVE  CInv'
<1> DEFINE w == wasPrice[a][copy[r][a].price]
           x == clock - w
<1>1. /\ pc[r] = "lookup" /\ a \in DOMAIN copy[r] /\ Goto(r, "set")
      /\ age' = [age EXCEPT ![r] = Older(@, x)]
      /\ call' = [call EXCEPT ![r].asset = a]
      /\ UNCHANGED <<assets, cache, copy, began, clock, wasPrice>>
  BY DEF CacheMiss
<1>2. Running(r) /\ copy[r][a].price \in Prices /\ call[r] \in Call
  BY <1>1 DEF Running, CInv, CatalogTypes, CallTypes, Row
<1>3. began[r] <= w /\ clock <= began[r] + CallTime
  BY <1>1, <1>2 DEF CInv, CopiesInv
<1>4. w \in Int /\ clock \in Int /\ began[r] \in Int
  BY <1>2 DEF CInv, CatalogTypes, TimeTypes
<1> HIDE DEF w
<1>5. x \in Int /\ x < TTL + CallTime
  BY <1>3, <1>4, Constants
<1> HIDE DEF x
<1>6. TimeTypes' /\ ServedPricesAreRecent'
  BY <1>1, <1>5, OneMoreServed
<1>7. Grown(wasPrice, wasPrice')
  BY <1>1, SamePrices
<1>8. /\ DOMAIN call' = Requests /\ call'[r] = [call[r] EXCEPT !.asset = a]
      /\ \A q \in Requests : q # r => call'[q] = call[q]
  BY <1>1 DEF CInv, CatalogTypes, CallTypes
<1>9. call'[r] \in Call /\ call'[r].asset = a
  BY <1>2, <1>8 DEF Call
<1>10. /\ OnlyCopyOf(r, copy') /\ copy'[r] = copy[r] /\ Listed \subseteq DOMAIN assets'
       /\ call'[r].asset \in DOMAIN copy'[r]
       /\ \A q \in Requests : q # r => call'[q] = call[q]
       /\ Goto(r, "set") /\ UNCHANGED <<began, clock>> /\ DOMAIN call' = Requests
  BY <1>1, <1>8, <1>9 DEF CInv, CatalogTypes, CallTypes, Listed, OnlyCopyOf
<1>11. CallTypes' /\ CopiesInv' /\ PlacesInv'
  BY <1>2, <1>7, <1>9, <1>10, GoesOn
<1> QED
  BY <1>1, <1>6, <1>7, <1>11, TableAsItWas, CacheUnchanged DEF CInv, CatalogTypes

-------------------------------------------------------------------------------
(* Time *)

LEMMA TickKeeps ==
    ASSUME CInv, Tick
    PROVE  CInv'
<1>1. /\ clock' = clock + 1
      /\ wasPrice' = [a \in Assets |-> [p \in Prices |->
                         IF a \in Listed /\ assets[a].price = p THEN clock' ELSE wasPrice[a][p]]]
      /\ UNCHANGED <<assets, cache, pc, call, copy, began, age>>
  BY DEF Tick
<1>2. clock \in Nat /\ clock' \in Nat /\ clock <= clock' /\ clock' = clock + 1
  BY <1>1 DEF CInv, CatalogTypes, TimeTypes
<1>3. \A a \in Assets, p \in Prices : wasPrice[a][p] \in Int /\ wasPrice[a][p] <= clock
  BY DEF CInv, CatalogTypes, TimeTypes, HistoryInv
<1>4. ASSUME NEW a \in Assets, NEW p \in Prices
      PROVE  /\ wasPrice'[a][p] = wasPrice[a][p] \/ wasPrice'[a][p] = clock'
             /\ a \in Listed /\ assets[a].price = p => wasPrice'[a][p] = clock'
  <2>1. wasPrice'[a][p] =
           IF a \in Listed /\ assets[a].price = p THEN clock' ELSE wasPrice[a][p]
    BY <1>1
  <2> QED
    BY <2>1
<1>5. wasPrice' \in [Assets -> [Prices -> Int]]
  BY <1>1, <1>2, <1>3
<1>6. \A a \in Assets, p \in Prices : /\ wasPrice[a][p] <= wasPrice'[a][p]
                                      /\ wasPrice'[a][p] <= clock'
                                      /\ wasPrice'[a][p] \in Int
  BY <1>2, <1>3, <1>4
<1>7. CatalogTypes'
  <2>1. UNCHANGED <<assets, cache, pc, call, copy, began, age>>
    BY <1>1
  <2>2. TableTypes' /\ CacheTypes'
    BY <2>1 DEF CInv, CatalogTypes, TableTypes, CacheTypes, Listed
  <2>3. CallTypes'
    BY <2>1 DEF CInv, CatalogTypes, CallTypes, Running
  <2>4. TimeTypes'
    BY <1>2, <1>5, <2>1 DEF CInv, CatalogTypes, TimeTypes
  <2> QED
    BY <2>2, <2>3, <2>4 DEF CatalogTypes
<1>8. HistoryInv'
  <2>1. \A a \in Listed : a \in Assets /\ assets[a].price \in Prices
    BY DEF CInv, CatalogTypes, TableTypes, Row
  <2>2. \A a \in Listed : wasPrice'[a][assets[a].price] = clock'
    BY <1>4, <2>1
  <2> QED
    BY <1>1, <1>6, <2>2 DEF HistoryInv, Listed
<1>9. CopiesInv'
  <2>1. ASSUME NEW r \in Requests, Running(r)
        PROVE  began[r] <= clock' /\ clock' <= began[r] + CallTime
    <3>1. /\ began[r] \in Int /\ clock \in Int
          /\ began[r] <= clock /\ clock < began[r] + CallTime
      BY <2>1 DEF CInv, CatalogTypes, TimeTypes, CopiesInv, Tick, Running
    <3> QED
      BY <1>2, <3>1, Constants
  <2>2. ASSUME NEW r \in Requests, Running(r), NEW a \in DOMAIN copy[r]
        PROVE  began[r] <= wasPrice'[a][copy[r][a].price]
    <3> DEFINE p == copy[r][a].price
    <3>1. /\ a \in Assets /\ p \in Prices
          /\ began[r] <= wasPrice[a][p] /\ began[r] \in Int
      BY <2>2 DEF CInv, CatalogTypes, CallTypes, TimeTypes, CopiesInv, Row
    <3> HIDE DEF p
    <3>2. began[r] <= wasPrice'[a][p]
      BY <1>3, <1>6, <3>1
    <3> QED
      BY <3>2 DEF p
  <2>3. \A r \in Requests : Running(r)' <=> Running(r)
    BY <1>1 DEF Running
  <2>4. UNCHANGED <<copy, began>>
    BY <1>1
  <2> QED
    BY <2>1, <2>2, <2>3, <2>4 DEF CopiesInv
<1>10. PlacesInv'
  BY <1>1 DEF CInv, PlacesInv, Listed
<1>11. CacheInv'
  <2>1. ASSUME NEW a \in Assets, cache[a] # NoEntry
        PROVE  cache[a].expires <= wasPrice'[a][cache[a].price] + TTL + CallTime
    <3> DEFINE p == cache[a].price
               x == cache[a].expires
    <3>1. p \in Prices /\ x \in Int /\ x <= wasPrice[a][p] + TTL + CallTime
      BY <2>1 DEF CInv, CatalogTypes, CacheTypes, CacheInv
    <3> HIDE DEF p, x
    <3>2. /\ wasPrice[a][p] \in Int /\ wasPrice'[a][p] \in Int
          /\ wasPrice[a][p] <= wasPrice'[a][p]
      BY <1>3, <1>6, <3>1
    <3>3. x <= wasPrice'[a][p] + TTL + CallTime
      BY <3>1, <3>2, Constants
    <3> QED
      BY <3>3 DEF p, x
  <2>2. UNCHANGED cache
    BY <1>1
  <2> QED
    BY <2>1, <2>2 DEF CacheInv
<1>12. ServedPricesAreRecent'
  BY <1>1 DEF CInv, ServedPricesAreRecent
<1> QED
  BY <1>7, <1>8, <1>9, <1>10, <1>11, <1>12 DEF CInv

-------------------------------------------------------------------------------
LEMMA InitCInv == Init => CInv
<1> SUFFICES ASSUME Init PROVE CInv
  OBVIOUS
<1>1. Listed = {}
  BY DEF Init, NoRows, Listed
<1>2. TableTypes /\ CacheTypes
  BY <1>1 DEF Init, TableTypes, CacheTypes
<1>3. TimeTypes
  BY DEF Init, TimeTypes
<1>4. \A r \in Requests : ~Running(r) /\ DOMAIN copy[r] = {} /\ pc[r] = "idle"
  BY DEF Init, NoRows, Running
<1>5. CallTypes
  BY <1>4 DEF Init, CallTypes
<1>6. CopiesInv /\ PlacesInv
  BY <1>4 DEF CopiesInv, PlacesInv
<1>7. HistoryInv /\ CacheInv
  BY <1>1 DEF Init, HistoryInv, CacheInv
<1>8. ServedPricesAreRecent
  BY Constants DEF Init, ServedPricesAreRecent
<1> QED
  BY <1>2, <1>3, <1>5, <1>6, <1>7, <1>8 DEF CInv, CatalogTypes

LEMMA StepCInv == CInv /\ [Next]_vars => CInv'
<1> SUFFICES ASSUME CInv, [Next]_vars PROVE CInv'
  OBVIOUS
<1>1. CASE UNCHANGED vars
  <2>1. UNCHANGED <<assets, cache, pc, call, copy, began, clock, wasPrice, age>>
    BY <1>1 DEF vars
  <2> QED
    BY <2>1 DEF CInv, CatalogTypes, TableTypes, TimeTypes, CallTypes, CacheTypes, HistoryInv,
           CopiesInv, PlacesInv, CacheInv, ServedPricesAreRecent, Running, Listed
<1>2. CASE Next
  BY <1>2, CreateAssetKeeps, ReadForWriteKeeps, TradeCommitKeeps, ReadForPriceKeeps,
     WriteKeeps, InvalidatePriceKeeps, SetPriceKeeps, CacheHitKeeps, CacheMissKeeps, TickKeeps
     DEF Next
<1> QED
  BY <1>1, <1>2

(* The catalog's invariant: types, what calls in progress hold, and how long cached *)
(* prices live.                                                                     *)
THEOREM CatalogCorrect == Spec => []CInv
BY InitCInv, StepCInv, PTL DEF Spec

(* A price that GetAsset or ListActiveAssets returns was the listed price, or that   *)
(* of a trade, at most DefaultTTL and the time of one call ago, whatever calls       *)
(* overlap and whichever Redis commands fail.                                        *)
THEOREM PricesRecent == Spec => []ServedPricesAreRecent
<1>1. CInv => ServedPricesAreRecent
  BY DEF CInv
<1> QED
  BY <1>1, CatalogCorrect, PTL

-------------------------------------------------------------------------------
(* One step of RevivedOnlyByOverlap. *)
RevivedByUpdate ==
    \A a \in Listed :
        (assets[a].status = "DISABLED" /\ assets'[a].status = "ACTIVE") =>
            \E r \in Requests : /\ pc[r] = "write" /\ pc'[r] = "invalidate"
                                /\ copy[r] # [b \in {a} |-> assets[b]]
                                /\ call[r].kind = "update" /\ call[r].asset = a

LEMMA WriteRevives ==
    ASSUME CInv, NEW r \in Requests, Write(r)
    PROVE  RevivedByUpdate
<1> SUFFICES ASSUME NEW a \in Listed,
                    assets[a].status = "DISABLED", assets'[a].status = "ACTIVE"
             PROVE  /\ pc[r] = "write" /\ pc'[r] = "invalidate"
                    /\ copy[r] # [b \in {a} |-> assets[b]]
                    /\ call[r].kind = "update" /\ call[r].asset = a
  BY DEF RevivedByUpdate
<1> DEFINE b == call[r].asset
           row == Written(copy[r][b], call[r])
<1>1. /\ pc[r] = "write" /\ Goto(r, "invalidate")
      /\ assets' = [assets EXCEPT ![b] = row]
  BY DEF Write
<1>2. pc'[r] = "invalidate"
  BY <1>1 DEF CInv, CatalogTypes, CallTypes, Goto
<1>3. /\ call[r].kind \in {"update", "disable"} /\ b \in Listed
      /\ row.status = IF call[r].kind = "disable" THEN "DISABLED" ELSE copy[r][b].status
  BY <1>1, WriteFinds, WrittenRow
<1> HIDE DEF row, b
<1>4. a = b /\ row.status = "ACTIVE"
  BY <1>1, <1>3 DEF Listed
<1>5. call[r].kind = "update" /\ copy[r][a].status = "ACTIVE"
  BY <1>3, <1>4
<1>6. copy[r] # [c \in {a} |-> assets[c]]
  <2>1. [c \in {a} |-> assets[c]][a].status = "DISABLED"
    OBVIOUS
  <2> QED
    BY <1>5, <2>1
<1> QED
  BY <1>1, <1>2, <1>4, <1>5, <1>6 DEF b

LEMMA CreateRevivesNothing ==
    ASSUME CInv, NEW r \in Requests, NEW c \in Inputs, CreateAsset(r, c)
    PROVE  RevivedByUpdate
<1>1. \A a \in Listed : assets'[a] = assets[a]
  BY DEF CreateAsset
<1> QED
  BY <1>1 DEF RevivedByUpdate

LEMMA OthersReviveNothing ==
    ASSUME UNCHANGED assets
    PROVE  RevivedByUpdate
BY DEF RevivedByUpdate

(* A disabled asset becomes tradable again only when an UpdateAsset that read it     *)
(* before the DisableAsset wrote it writes its status back; nothing else, CreateAsset *)
(* of the same symbol included, revives it.                                          *)
THEOREM RevivedCorrect == Spec => RevivedOnlyByOverlap
<1>1. CInv /\ [Next]_vars => [RevivedByUpdate]_vars
  <2> SUFFICES ASSUME CInv, Next PROVE RevivedByUpdate
    OBVIOUS
  <2>1. ASSUME NEW r \in Requests, NEW c \in Inputs,
               ReadForWrite(r, c) \/ TradeCommit(r, c) \/ ReadForPrice(r, c)
        PROVE  UNCHANGED assets
    BY <2>1 DEF ReadForWrite, TradeCommit, ReadForPrice
  <2>2. ASSUME NEW r \in Requests, InvalidatePrice(r) \/ SetPrice(r)
        PROVE  UNCHANGED assets
    BY <2>2 DEF InvalidatePrice, SetPrice
  <2>3. ASSUME NEW r \in Requests, NEW a \in Assets, CacheHit(r, a) \/ CacheMiss(r, a)
        PROVE  UNCHANGED assets
    BY <2>3 DEF CacheHit, CacheMiss
  <2>4. Tick => UNCHANGED assets
    BY DEF Tick
  <2> QED
    BY <2>1, <2>2, <2>3, <2>4, WriteRevives, CreateRevivesNothing, OthersReviveNothing DEF Next
<1> QED
  BY <1>1, CatalogCorrect, PTL DEF Spec, RevivedOnlyByOverlap, RevivedByUpdate
===============================================================================
