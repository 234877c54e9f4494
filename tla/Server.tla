-------------------------------- MODULE Server --------------------------------
(***************************************************************************)
(* main: the life of the API process around the event pipeline.  Requests  *)
(* and the engine commit transactions and publish their events, the        *)
(* consumers act on events, until a signal comes: srv.Shutdown waits up to *)
(* five seconds for the requests that run, the deferred calls close one    *)
(* client after the other, and main returns, whatever the engine and the   *)
(* consumers are doing.  The container is started again ("restart: always" *)
(* in deployments/docker-compose.prod.yml).                                *)
(***************************************************************************)
EXTENDS EventPipeline

CONSTANTS
    Faults,      \* what may go wrong: "publish", "commit", "handle", "kill", "leave"
    MaxTxns,     \* bound: how many of the transactions begin
    MaxRetries,  \* bound: how many messages and increments are sent twice
    MaxFailures, \* bound: how many effects are lost before the last query fails
    MaxStops     \* bound: how often the process stops

ASSUME ServerConstants ==
    MaxTxns \in Nat /\ MaxRetries \in Nat /\ MaxFailures \in Nat /\ MaxStops \in Nat

VARIABLES
    phase,     \* "down", "serving", "draining" (in srv.Shutdown) or "closing"
    deferred,  \* the deferred calls of main still to run
    job,       \* job[x]: how far the goroutine that runs transaction x is
    gone,      \* the requests whose client has closed its connection
    stops,     \* how often the process has stopped
    cut        \* history: the events an orderly shutdown has cut off

server == <<phase, deferred, job, gone, stops, cut>>
vars   == <<pipeline, server>>

(* The deferred calls, last in, first out.  Left out are the two that only cancel *)
(* a context nobody waits on, and scheduler.Stop: no job publishes or consumes.   *)
Closers == <<"engineCancel", "redisClient.Close", "kafkaProducer.Close", "db.Close">>

ServerInit ==
    /\ Init
    /\ phase = "serving"
    /\ deferred = Closers
    /\ job = [x \in Txns |-> "idle"]
    /\ gone = {}
    /\ stops = 0
    /\ cut = {}

Up == phase # "down"

Ran(call) == call \notin Range(deferred)

(* Trades are the engine's; every other transaction belongs to a request. *)
Requests == {x \in Txns : Kind[x] # "trade"}
Trades   == Txns \ Requests

Running(X) == {x \in X : job[x] \in {"running", "committed"}}

-------------------------------------------------------------------------------
(* Transactions *)

(* A request is accepted while the listener is open; the one goroutine of the *)
(* engine takes the next order while its context is not cancelled.            *)
Begin(x) ==
    /\ job[x] = "idle"
    /\ Cardinality({y \in Txns : job[y] # "idle"}) < MaxTxns
    /\ IF x \in Requests THEN phase = "serving"
       ELSE Up /\ ~Ran("engineCancel") /\ Running(Trades) = {}
    /\ job' = [job EXCEPT ![x] = "running"]
    /\ UNCHANGED <<pipeline, phase, deferred, gone, stops, cut>>

(* A COMMIT on its way when a context is cancelled may still take effect. *)
CommitTxn(x) ==
    /\ job[x] = "running"
    /\ ~Ran("db.Close")
    /\ Commit(x)
    /\ job' = [job EXCEPT ![x] = "committed"]
    /\ UNCHANGED <<phase, deferred, gone, stops, cut>>

(* The request is refused, or an error or a cancelled context ends it. *)
Rollback(x) ==
    /\ job[x] = "running"
    /\ job' = [job EXCEPT ![x] = "done"]
    /\ UNCHANGED <<pipeline, phase, deferred, gone, stops, cut>>

(* The client leaves: net/http cancels the request's context, which the handler *)
(* has passed on to the database and the producer.                              *)
Leave(x) ==
    /\ "leave" \in Faults
    /\ x \in Running(Requests) \ gone
    /\ gone' = gone \cup {x}
    /\ UNCHANGED <<pipeline, phase, deferred, job, stops, cut>>

(* The messages that stand in a topic twice. *)
SentTwice ==
    UNION {{t} \X {p} \X {i \in 2..Len(log[t][p]) : log[t][p][i] = log[t][p][i - 1]} :
              t \in Topics, p \in Partitions}

MaySendTwice ==
    Cardinality(SentTwice) + Cardinality({e \in AllEffects : resent[e] > 0}) < MaxRetries

(* kafka-go refuses a message after Close. *)
Publish(x, p) ==
    /\ job[x] = "committed"
    /\ ~Ran("kafkaProducer.Close")
    /\ PublishEvent(x, p) \/ (PublishRetried(x, p) /\ MaySendTwice)
    /\ UNCHANGED server

PublishLost(x) ==
    /\ job[x] = "committed"
    /\ "publish" \in Faults \/ x \in gone \/ Ran("kafkaProducer.Close")
    /\ PublishFail(x)
    /\ cut' = IF Ran("kafkaProducer.Close") THEN cut \cup {<<x, Head(unpublished[x])>>} ELSE cut
    /\ UNCHANGED <<phase, deferred, job, gone, stops>>

(* The handler writes its response; the engine goes on to the next order. *)
Answer(x) ==
    /\ job[x] = "committed"
    /\ unpublished[x] = <<>>
    /\ job' = [job EXCEPT ![x] = "done"]
    /\ UNCHANGED <<pipeline, phase, deferred, gone, stops, cut>>

-------------------------------------------------------------------------------
(* Consumers: they run on context.Background and are never stopped, but their *)
(* database and their Redis client are closed under them.                     *)

Reachable(g) ==
    CASE g = "audit-group"     -> ~Ran("db.Close")
      [] g = "analytics-group" -> ~Ran("redisClient.Close")
      [] OTHER -> TRUE

MayFail(g) ==
    \/ ~Reachable(g)
    \/ "handle" \in Faults /\ Cardinality(lost) < MaxFailures

Consume(g, t) ==
    /\ Up
    /\ UNCHANGED server
    /\ \/ \E p \in Partitions : ReadMessage(g, t, p)
       \/ /\ "commit" \in Faults /\ Cardinality(lost) < MaxFailures
          /\ \E p \in Partitions : ReadMessageError(g, t, p)
       \/ Reachable(g) /\ Handle(g, t)
       \/ HandleResent(g, t) /\ Reachable(g) /\ MaySendTwice
       \/ MayFail(g) /\ HandleFail(g, t)

-------------------------------------------------------------------------------
(* The process *)

Signal ==
    /\ phase = "serving"
    /\ stops < MaxStops
    /\ phase' = "draining"
    /\ UNCHANGED <<pipeline, deferred, job, gone, stops, cut>>

\* Mutant of Drained: Close instead of Shutdown, running requests are not waited for.
DrainedAtOnce ==
    /\ phase = "draining"
    /\ phase' = "closing"
    /\ UNCHANGED <<pipeline, deferred, job, gone, stops, cut>>

(* srv.Shutdown returns nil once no request runs. *)
Drained ==
    /\ phase = "draining"
    /\ Running(Requests) = {}
    /\ phase' = "closing"
    /\ UNCHANGED <<pipeline, deferred, job, gone, stops, cut>>

CloseNext ==
    /\ phase = "closing"
    /\ deferred # <<>>
    /\ deferred' = Tail(deferred)
    /\ UNCHANGED <<pipeline, phase, job, gone, stops, cut>>

Ends ==
    /\ phase' = "down"
    /\ deferred' = Closers
    /\ job' = [x \in Txns |-> IF job[x] = "idle" THEN "idle" ELSE "done"]
    /\ stops' = stops + 1
    /\ Forget
    /\ UNCHANGED gone

(* main returns. *)
Exit ==
    /\ phase = "closing"
    /\ deferred = <<>>
    /\ cut' = cut \cup UNION {{x} \X Range(unpublished[x]) : x \in Txns}
    /\ Ends

\* Mutant of ForcedExit: Shutdown is given a context without a deadline.
ForcedExitNever == FALSE /\ Ends /\ UNCHANGED cut

(* The five seconds are over and a request still runs: log.Fatal ends the *)
(* process, no deferred call is made.                                     *)
ForcedExit ==
    /\ phase = "draining"
    /\ Running(Requests) # {}
    /\ Ends
    /\ UNCHANGED cut

(* SIGKILL, a panic of a goroutine or a log.Fatal. *)
Kill ==
    /\ "kill" \in Faults
    /\ Up
    /\ stops < MaxStops
    /\ Ends
    /\ UNCHANGED cut

(* main starts again: configuration, database, migrations, clients, goroutines. *)
Boot ==
    /\ phase = "down"
    /\ phase' = "serving"
    /\ UNCHANGED <<pipeline, deferred, job, gone, stops, cut>>

PublishStep(x) == PublishLost(x) \/ \E p \in Partitions : Publish(x, p)

ShutdownStep == Drained \/ CloseNext \/ Exit \/ ForcedExit

ServerNext ==
    \/ \E x \in Txns : \/ Begin(x) \/ CommitTxn(x) \/ Rollback(x) \/ Leave(x)
                       \/ PublishStep(x) \/ Answer(x)
    \/ \E g \in Groups : \E t \in Reads(g) : Consume(g, t)
    \/ Signal
    \/ ShutdownStep
    \/ Kill
    \/ Boot

(* A goroutine that has committed goes on, the consumers go on, main goes on     *)
(* with the shutdown and the container is started again.  Nothing is assumed of  *)
(* a request before its commit: it may hang on a row lock or on its client.      *)
ServerSpec ==
    /\ ServerInit /\ [][ServerNext]_vars
    /\ \A x \in Txns : WF_vars(PublishStep(x))
    /\ \A g \in Groups : \A t \in Reads(g) : WF_vars(Consume(g, t))
    /\ WF_vars(ShutdownStep)
    /\ WF_vars(Boot)

-------------------------------------------------------------------------------
(* Properties *)

(* An orderly shutdown cuts off the engine's events only: srv.Shutdown has seen *)
(* every request end, its event published, before the producer is closed.  The  *)
(* engine is told to stop and nobody waits for it: a trade may be committed and *)
(* never announced.                                                             *)
ShutdownCutsOnlyTrades == \A e \in cut : e[1] \in Trades

(* A shutdown comes to its end, however long a request hangs. *)
ShutdownEnds == phase = "draining" ~> phase = "down"
===============================================================================
