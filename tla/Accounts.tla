------------------------------- MODULE Accounts -------------------------------
(***************************************************************************)
(* The auth service (Register, Login, RefreshTokens), the middleware that  *)
(* accepts a request by its access token, and the admin service's          *)
(* UpdateUserStatus with its audit log.                                    *)
(*                                                                         *)
(* No call uses a transaction.  Every query is a step; the bcrypt hash of  *)
(* a registration and the comparison of a login come between two of them.  *)
(* An email stands for the account's id too, passwords are right, and a    *)
(* token is its claims: signing and parsing are taken to work.             *)
(***************************************************************************)
EXTENDS Integers, Sequences

CONSTANTS
    Emails,
    Calls,       \* HTTP requests
    Inputs,      \* what they ask for
    AccessTTL,   \* lifetime of an access token
    RefreshTTL,  \* lifetime of a refresh token
    CallTime,    \* bound: how long a call may take
    MaxTime,     \* bound of the clock
    Faults,      \* "db": a query may fail; "crash": the process may be restarted
    NoInput

ASSUME AccountsConstants ==
    /\ {AccessTTL, RefreshTTL, CallTime, MaxTime} \subseteq Nat \ {0}
    /\ Inputs \subseteq [kind : {"register", "login", "refresh", "request", "suspend", "activate"},
                         email : Emails]
    /\ NoInput \notin Inputs

VARIABLES
    users,      \* users table: a function from the emails registered to the status
    wallets,    \* the users that have a wallet row
    audit,      \* audit_logs: what UpdateUserStatus has written, in order
    tokens,     \* the tokens clients have been given
    pc, call,   \* where a call is, and what it asks for
    read,       \* read[c]: when the call read or wrote the user's row
    clock,
    age,        \* history: age[c]: how long before request c its user's row was last read
    unlogged,   \* history: the emails for which the INSERT of an audit row has been lost
    overlapped  \* history: the emails two of whose status changes have overlapped

history == <<age, unlogged, overlapped>>
vars == <<users, wallets, audit, tokens, pc, call, read, clock, history>>

Registered == DOMAIN users

Init ==
    /\ users = [e \in {} |-> "ACTIVE"]
    /\ wallets = {}
    /\ audit = <<>>
    /\ tokens = {}
    /\ pc = [c \in Calls |-> "idle"]
    /\ call = [c \in Calls |-> NoInput]
    /\ read = [c \in Calls |-> 0]
    /\ clock = 0
    /\ age = [c \in Calls |-> 0]
    /\ unlogged = {}
    /\ overlapped = {}

-------------------------------------------------------------------------------
(* A call begins with a query of the users table and goes on at p. *)
Begin(c, in, p) ==
    /\ pc[c] = "idle"
    /\ call' = [call EXCEPT ![c] = in]
    /\ read' = [read EXCEPT ![c] = clock]
    /\ pc' = [pc EXCEPT ![c] = p]

Goto(c, p) == pc' = [pc EXCEPT ![c] = p]

Token(e, type, lookup, ttl) ==
    [email |-> e, type |-> type, read |-> lookup, expires |-> clock + ttl]

(* GenerateTokenPair; read is when the row behind the tokens was read. *)
GenerateTokenPair(e, lookup) ==
    {Token(e, "access", lookup, AccessTTL), Token(e, "refresh", lookup, RefreshTTL)}

(* Register looks the email up... *)
RegisterLookup(c, in) ==
    /\ in.kind = "register"
    /\ Begin(c, in, IF in.email \in Registered THEN "exists" ELSE "create")
    /\ UNCHANGED <<users, wallets, audit, tokens, clock, history>>

\* Mutant of EmailFree: the column has no unique index.
EmailFreeAlways(e) == TRUE

(* The unique index on users.email. *)
EmailFree(e) == e \notin Registered

(* ... hashes the password, and inserts, unless the email has been taken since. *)
RegisterCreate(c) ==
    LET e == call[c].email
    IN  /\ pc[c] = "create"
        /\ IF EmailFree(e)
           THEN /\ users' = [i \in Registered \cup {e} |->
                                IF i = e THEN "ACTIVE" ELSE users[i]]
                /\ read' = [read EXCEPT ![c] = clock]
                /\ Goto(c, "wallet")
           ELSE Goto(c, "failed") /\ UNCHANGED <<users, read>>
        /\ UNCHANGED <<wallets, audit, tokens, call, clock, history>>

(* The wallet follows in a query of its own; its failure is logged, and the     *)
(* caller is given tokens all the same.                                         *)
RegisterWallet(c) ==
    LET e == call[c].email
    IN  /\ pc[c] = "wallet"
        /\ \/ wallets' = wallets \cup {e}
           \/ "db" \in Faults /\ UNCHANGED wallets
        /\ tokens' = tokens \cup GenerateTokenPair(e, read[c])
        /\ Goto(c, "done")
        /\ UNCHANGED <<users, audit, call, read, clock, history>>

(* Login reads the row; password and status are checked on what was read. *)
LoginLookup(c, in) ==
    /\ in.kind = "login"
    /\ Begin(c, in, IF in.email \in Registered /\ users[in.email] = "ACTIVE"
                    THEN "issue" ELSE "rejected")
    /\ UNCHANGED <<users, wallets, audit, tokens, clock, history>>

(* RefreshTokens takes a refresh token that has not expired and reads the row. *)
RefreshLookup(c, in) ==
    /\ in.kind = "refresh"
    /\ \E t \in tokens : /\ t.type = "refresh" /\ t.email = in.email
                         /\ clock < t.expires
    /\ Begin(c, in, IF in.email \in Registered THEN "issue" ELSE "rejected")
    /\ UNCHANGED <<users, wallets, audit, tokens, clock, history>>

IssueTokens(c) ==
    /\ pc[c] = "issue"
    /\ tokens' = tokens \cup GenerateTokenPair(call[c].email, read[c])
    /\ Goto(c, "done")
    /\ UNCHANGED <<users, wallets, audit, call, read, clock, history>>

\* Mutant of Authenticates: the type of the token is not looked at.
AuthenticatesAnyType(t) == clock < t.expires

(* AuthMiddleware: an access token that has not expired. *)
Authenticates(t) == t.type = "access" /\ clock < t.expires

(* A request of any route behind the middleware. *)
Request(c, in, t) ==
    /\ in.kind = "request"
    /\ t \in tokens
    /\ t.email = in.email
    /\ Begin(c, in, IF Authenticates(t) THEN "done" ELSE "rejected")
    /\ age' = [age EXCEPT ![c] = IF Authenticates(t) THEN clock - t.read ELSE @]
    /\ UNCHANGED <<users, wallets, audit, tokens, clock, unlogged, overlapped>>

StatusOf(kind) == IF kind = "suspend" THEN "SUSPENDED" ELSE "ACTIVE"

(* A status change of this email whose audit row is still to be written. *)
Unwritten(c, e) == pc[c] = "audit" /\ call[c].email = e

(* UpdateUserStatus: the UPDATE ... *)
UpdateStatus(c, in) ==
    /\ in.kind \in {"suspend", "activate"}
    /\ IF in.email \in Registered
       THEN /\ Begin(c, in, "audit")
            /\ users' = [users EXCEPT ![in.email] = StatusOf(in.kind)]
            /\ overlapped' = IF \E d \in Calls : Unwritten(d, in.email)
                             THEN overlapped \cup {in.email} ELSE overlapped
       ELSE Begin(c, in, "rejected") /\ UNCHANGED <<users, overlapped>>
    /\ UNCHANGED <<wallets, audit, tokens, clock, age, unlogged>>

\* Mutant of Entry: every change is logged as an activation.
EntryActivated(c) == [email |-> call[c].email, status |-> "ACTIVE"]

Entry(c) == [email |-> call[c].email, status |-> StatusOf(call[c].kind)]

(* ... and then the audit row, whose failure is only logged. *)
UpdateAudit(c) ==
    /\ pc[c] = "audit"
    /\ \/ audit' = Append(audit, Entry(c)) /\ UNCHANGED unlogged
       \/ /\ "db" \in Faults
          /\ unlogged' = unlogged \cup {call[c].email}
          /\ UNCHANGED audit
    /\ Goto(c, "done")
    /\ UNCHANGED <<users, wallets, tokens, call, read, clock, age, overlapped>>

InProgress(c) == pc[c] \in {"create", "wallet", "issue", "audit"}

(* The process is restarted: calls in progress end where they are. *)
Crash ==
    /\ "crash" \in Faults
    /\ \E c \in Calls : InProgress(c)
    /\ pc' = [c \in Calls |-> IF InProgress(c) THEN "failed" ELSE pc[c]]
    /\ unlogged' = unlogged \cup {call[c].email : c \in {d \in Calls : pc[d] = "audit"}}
    /\ UNCHANGED <<users, wallets, audit, tokens, call, read, clock, age, overlapped>>

Tick ==
    /\ clock < MaxTime
    /\ \A c \in Calls : InProgress(c) => clock < read[c] + CallTime
    /\ clock' = clock + 1
    /\ UNCHANGED <<users, wallets, audit, tokens, pc, call, read, history>>

Next ==
    \/ \E c \in Calls, in \in Inputs :
          \/ RegisterLookup(c, in) \/ LoginLookup(c, in) \/ RefreshLookup(c, in)
          \/ UpdateStatus(c, in)
          \/ \E t \in tokens : Request(c, in, t)
    \/ \E c \in Calls : \/ RegisterCreate(c) \/ RegisterWallet(c)
                        \/ IssueTokens(c) \/ UpdateAudit(c)
    \/ Crash
    \/ Tick

Spec == Init /\ [][Next]_vars

-------------------------------------------------------------------------------
(* Properties *)

(* At most one registration of an email succeeds, although the lookup and the   *)
(* insert are two queries with a password hash between them.                    *)
OneAccountPerEmail ==
    \A c, d \in Calls :
        /\ pc[c] \in {"wallet", "done"} /\ pc[d] \in {"wallet", "done"}
        /\ call[c].kind = "register" /\ call[d].kind = "register"
        /\ call[c].email = call[d].email
        => c = d

(* A request is accepted only if its user's row was looked up, by a login, a    *)
(* refresh or the registration, within the lifetime of an access token and the  *)
(* time of that call: however long refresh tokens live, none gets past the      *)
(* middleware.                                                                  *)
AcceptedRecently == \A c \in Calls : age[c] < AccessTTL + CallTime

(* The rows of an audit log say that e has status s: the last one about e does, *)
(* or there is none and s is what an account has at first.                      *)
Tells(rows, e, s) ==
    \/ s = "ACTIVE" /\ \A i \in DOMAIN rows : rows[i].email # e
    \/ \E i \in DOMAIN rows :
          /\ rows[i].email = e /\ rows[i].status = s
          /\ \A j \in DOMAIN rows : j > i => rows[j].email # e

(* README: "Audit logs in Postgres for every trade, order, and admin action".   *)
(* The last row about an account tells its status, although the UPDATE and the  *)
(* INSERT are not one transaction, as long as no two changes of it have         *)
(* overlapped and no row about it has been lost with a failed INSERT or a       *)
(* restart; an account without a row is active.                                 *)
AuditTellsStatus ==
    \A e \in Registered \ (unlogged \cup overlapped) :
        (\A c \in Calls : ~Unwritten(c, e)) =>
            Tells(audit, e, users[e])
===============================================================================
