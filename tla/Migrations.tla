------------------------------ MODULE Migrations ------------------------------
(***************************************************************************)
(* RunMigrations, which every API process runs before it serves: the .up   *)
(* scripts in the order of their versions, each in a transaction of its    *)
(* own together with its row in schema_migrations.                         *)
(*                                                                         *)
(* PostgreSQL is external: an INSERT of a version another transaction has  *)
(* inserted and not committed waits for that transaction, and DDL is       *)
(* transactional.                                                          *)
(*                                                                         *)
(* A script is abstracted to the tables, columns and indexes it creates:   *)
(* those it creates IF NOT EXISTS, and those it creates unconditionally,   *)
(* which is an error when there is one of that name.                       *)
(***************************************************************************)
EXTENDS Integers, Sequences

CONSTANTS
    Processes,        \* API processes that start
    Files,            \* the .up.sql files, sorted by version
    MigrationFaults,  \* {"crash"}: a process may be killed while it migrates
    Nobody

ASSUME MigrationConstants ==
    /\ Nobody \notin Processes
    /\ Len(Files) \in Nat \ {0} /\ DOMAIN Files = 1..Len(Files)
    /\ \A i \in DOMAIN Files : Files[i].version \in Nat
    /\ \A i, j \in DOMAIN Files : i <= j => Files[i].version <= Files[j].version

VARIABLES
    schema,   \* the tables, columns and indexes there are
    rows,     \* schema_migrations, as committed: "none", "clean" or "dirty" per version
    locked,   \* locked[v]: the process whose transaction has written the row of v
    pc,       \* pc[p]
    file      \* file[p]: the index of the file it is at

migration == <<schema, rows, locked, pc, file>>

Versions == {Files[i].version : i \in DOMAIN Files}

Version(p) == Files[file[p]].version

MigrationInit ==
    /\ schema = {}
    /\ rows = [v \in Versions |-> "none"]
    /\ locked = [v \in Versions |-> Nobody]
    /\ pc = [p \in Processes |-> "check"]
    /\ file = [p \in Processes |-> 1]

-------------------------------------------------------------------------------
Goto(p, l) == pc' = [pc EXCEPT ![p] = l]

(* On to the next file; after the last one main goes on to serve. *)
NextFile(p) ==
    IF file[p] < Len(Files)
    THEN Goto(p, "check") /\ file' = [file EXCEPT ![p] = @ + 1]
    ELSE Goto(p, "serving") /\ UNCHANGED file

(* The row of the file's version decides: stop if dirty, skip if applied. *)
Check(p) ==
    /\ pc[p] = "check"
    /\ CASE rows[Version(p)] = "dirty" -> Goto(p, "dirty") /\ UNCHANGED file
         [] rows[Version(p)] = "clean" -> NextFile(p)
         [] OTHER -> Goto(p, "begin") /\ UNCHANGED file
    /\ UNCHANGED <<schema, rows, locked>>

(* The transaction begins with the row, dirty: INSERT ... ON CONFLICT DO UPDATE  *)
(* waits for a transaction that has written it, and overwrites what it finds.    *)
MarkDirty(p) ==
    /\ pc[p] = "begin"
    /\ locked[Version(p)] = Nobody
    /\ locked' = [locked EXCEPT ![Version(p)] = p]
    /\ Goto(p, "script")
    /\ UNCHANGED <<schema, rows, file>>

\* Mutant of Release: the connection is kept with its transaction open.
ReleaseNever(p) == UNCHANGED locked

(* The end of the transaction, committed or rolled back. *)
Release(p) == locked' = [v \in Versions |-> IF locked[v] = p THEN Nobody ELSE locked[v]]

(* Everything the script creates unconditionally must be new. *)
Runs(f) == f.creates \cap schema = {}

(* A statement of the script fails: rollback, and main stops the process. *)
ScriptFails(p) ==
    /\ pc[p] = "script"
    /\ ~Runs(Files[file[p]])
    /\ Release(p)
    /\ Goto(p, "fatal")
    /\ UNCHANGED <<schema, rows, file>>

\* Mutant of ScriptCommits: the row is marked clean and the script is not run.
ScriptCommitsRowOnly(p) ==
    /\ pc[p] = "script"
    /\ Runs(Files[file[p]])
    /\ rows' = [rows EXCEPT ![Version(p)] = "clean"]
    /\ Release(p)
    /\ NextFile(p)
    /\ UNCHANGED schema

(* The script runs, the row is marked clean, and the transaction commits. *)
ScriptCommits(p) ==
    LET f == Files[file[p]]
    IN  /\ pc[p] = "script"
        /\ Runs(f)
        /\ schema' = schema \cup f.creates \cup f.ensures
        /\ rows' = [rows EXCEPT ![Version(p)] = "clean"]
        /\ Release(p)
        /\ NextFile(p)

(* Killed while migrating: the open transaction is rolled back. *)
Crash(p) ==
    /\ "crash" \in MigrationFaults
    /\ pc[p] \in {"check", "begin", "script"}
    /\ Release(p)
    /\ Goto(p, "down")
    /\ UNCHANGED <<schema, rows, file>>

(* A process that has stopped is started again, from the first file. *)
Restart(p) ==
    /\ pc[p] \in {"down", "dirty", "fatal"}
    /\ Goto(p, "check")
    /\ file' = [file EXCEPT ![p] = 1]
    /\ UNCHANGED <<schema, rows, locked>>

Migrate(p) == Check(p) \/ MarkDirty(p) \/ ScriptFails(p) \/ ScriptCommits(p)

MigrationNext == \E p \in Processes : Migrate(p) \/ Crash(p) \/ Restart(p)

MigrationSpec == MigrationInit /\ [][MigrationNext]_migration

(* A process that runs makes progress, one that has stopped is restarted, and  *)
(* PostgreSQL queues those that wait for a transaction: whoever waits for a row *)
(* that is released again and again gets it in the end.                        *)
FairMigrationSpec ==
    MigrationSpec /\ \A p \in Processes : SF_migration(Migrate(p)) /\ WF_migration(Restart(p))

-------------------------------------------------------------------------------
(* The scripts of the repository *)

init_schema == [version |-> 1, creates |-> {},
    ensures |-> {"users", "wallets", "wallet_transactions", "assets", "orders", "trades",
                 "portfolios", "audit_logs", "idx_orders_user_id", "idx_orders_asset_id",
                 "idx_orders_status", "idx_trades_buyer_id", "idx_trades_seller_id",
                 "idx_portfolios_user_id", "idx_wallet_transactions_wallet_id",
                 "idx_audit_logs_user_id", "idx_audit_logs_created_at"}]

assets_broker_id == [version |-> 2, creates |-> {},
    ensures |-> {"assets.broker_id", "idx_assets_broker_id", "idx_assets_status"}]

create_wallets == [version |-> 2, ensures |-> {"wallets", "wallet_transactions"},
    creates |-> {"idx_wallets_user_id", "idx_wallets_currency",
                 "idx_wallet_transactions_wallet_id", "idx_wallet_transactions_user_id",
                 "idx_wallet_transactions_status"}]

orders_phase5 == [version |-> 3, creates |-> {},
    ensures |-> {"orders.remaining_quantity", "orders.idempotency_key",
                 "idx_orders_idempotency_key", "idx_orders_asset_side_status"}]

admin_phase10 == [version |-> 4, creates |-> {},
    ensures |-> {"users.status", "idx_users_status", "idx_users_role", "idx_trades_created_at",
                 "idx_trades_buyer_created", "idx_trades_seller_created"}]

create_assets == [version |-> 4, ensures |-> {"assets"},
    creates |-> {"idx_assets_symbol", "idx_assets_type", "idx_assets_is_active"}]

create_orders == [version |-> 5, ensures |-> {"orders"},
    creates |-> {"idx_orders_user_id", "idx_orders_asset_id", "idx_orders_status",
                 "idx_orders_side"}]

create_trades == [version |-> 6, ensures |-> {"trades"},
    creates |-> {"idx_trades_buyer_id", "idx_trades_seller_id", "idx_trades_asset_id",
                 "idx_trades_status"}]

create_portfolios == [version |-> 7, ensures |-> {"portfolios"},
    creates |-> {"idx_portfolios_user_id", "idx_portfolios_asset_id"}]

create_audit_logs == [version |-> 8, ensures |-> {"audit_logs"},
    creates |-> {"idx_audit_logs_user_id", "idx_audit_logs_action",
                 "idx_audit_logs_created_at"}]

(* All of them; ReadDir lists files of one version in the order of their names. *)
AllFiles == <<init_schema, assets_broker_id, create_wallets, orders_phase5, admin_phase10,
              create_assets, create_orders, create_trades, create_portfolios, create_audit_logs>>

-------------------------------------------------------------------------------
(* Properties *)

(* Whatever is killed in the middle and however many processes migrate at once: *)
(* a version that is recorded has all of one of its scripts in the schema, and  *)
(* all earlier versions are recorded too.                                       *)
SchemaMatchesRows ==
    \A v \in Versions : rows[v] # "none" =>
        /\ \E i \in DOMAIN Files : /\ Files[i].version = v
                                   /\ Files[i].creates \cup Files[i].ensures \subseteq schema
        /\ \A w \in Versions : w < v => rows[w] = "clean"

(* No process waits for ever for the row another one has written: it comes to   *)
(* serve, or to a script that fails, or is killed, whoever is killed meanwhile. *)
NobodyWaitsForEver ==
    \A p \in Processes : []<>(pc[p] \in {"serving", "fatal", "down"})
===============================================================================
