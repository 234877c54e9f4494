---------------------------- MODULE AccountsProofs ----------------------------
(***************************************************************************)
(* Theorems about Accounts, for every set of emails, calls and inputs, all *)
(* lifetimes of tokens, failing queries and restarts.                      *)
(***************************************************************************)
EXTENDS Accounts, TLAPS

Statuses == {"ACTIVE", "SUSPENDED"}

PCs == {"idle", "exists", "create", "wallet", "issue", "audit", "done", "failed", "rejected"}

TokenType == [email : Emails, type : {"access", "refresh"}, read : Nat, expires : Nat]

AccountTypes ==
    /\ users \in [Registered -> Statuses] /\ Registered \subseteq Emails
    /\ audit \in Seq([email : Emails, status : Statuses])
    /\ tokens \subseteq TokenType
    /\ pc \in [Calls -> PCs]
    /\ call \in [Calls -> Inputs \cup {NoInput}]
    /\ read \in [Calls -> Nat]
    /\ clock \in Nat
    /\ age \in [Calls -> Int]

(* Where a call is tells what it is. *)
CallKinds ==
    \A c \in Calls :
        /\ pc[c] # "idle" => call[c] \in Inputs
        /\ pc[c] \in {"create", "wallet"} => call[c].kind = "register"
        /\ pc[c] = "issue" => call[c].kind \in {"login", "refresh"}
        /\ pc[c] = "audit" => call[c].kind \in {"suspend", "activate"}

(* A registration that has inserted its row. *)
Made(c) == pc[c] \in {"wallet", "done"} /\ call[c].kind = "register"

MadeRegistered == \A c \in Calls : Made(c) => call[c].email \in Registered

(* A token is as old as the read behind it allows. *)
TokenAges ==
    /\ \A c \in Calls : InProgress(c) => read[c] <= clock /\ clock <= read[c] + CallTime
    /\ \A t \in tokens : t.type = "access" => t.expires <= t.read + CallTime + AccessTTL

(* Changes and rows are of accounts that exist; while one change alone is still *)
(* to be logged, the account has the status it has given.                       *)
ChangesKnown ==
    /\ \A c \in Calls : pc[c] = "audit" => call[c].email \in Registered
    /\ \A i \in DOMAIN audit : audit[i].email \in Registered
    /\ \A c \in Calls : pc[c] = "audit" /\ call[c].email \notin unlogged \cup overlapped =>
          /\ users[call[c].email] = StatusOf(call[c].kind)
          /\ \A d \in Calls : pc[d] = "audit" /\ call[d].email = call[c].email => d = c

AInv ==
    /\ AccountTypes
    /\ CallKinds
    /\ MadeRegistered
    /\ TokenAges
    /\ ChangesKnown
    /\ OneAccountPerEmail
    /\ AcceptedRecently
    /\ AuditTellsStatus

-------------------------------------------------------------------------------
LEMMA InputFields ==
    ASSUME NEW in \in Inputs
    PROVE  /\ in.kind \in {"register", "login", "refresh", "request", "suspend", "activate"}
           /\ in.email \in Emails
BY AccountsConstants

LEMMA ConstantTypes ==
    AccessTTL \in Nat /\ RefreshTTL \in Nat /\ CallTime \in Nat /\ AccessTTL > 0
BY AccountsConstants

(* The steps of calls; a crash and the clock are left. *)
FirstStep(c, in) ==
    \/ RegisterLookup(c, in) \/ LoginLookup(c, in) \/ RefreshLookup(c, in)
    \/ UpdateStatus(c, in) \/ \E t \in tokens : Request(c, in, t)

LaterStep(c) == RegisterCreate(c) \/ RegisterWallet(c) \/ IssueTokens(c) \/ UpdateAudit(c)

LEMMA StepCases ==
    ASSUME [Next]_vars
    PROVE  \/ \E c \in Calls, in \in Inputs : FirstStep(c, in)
           \/ \E c \in Calls : LaterStep(c)
           \/ Crash
           \/ Tick
           \/ UNCHANGED vars
BY DEF Next, FirstStep, LaterStep

(* How a call begins. *)
LEMMA FirstSteps ==
    ASSUME AccountTypes, NEW c \in Calls, NEW in \in Inputs, FirstStep(c, in)
    PROVE  /\ pc[c] = "idle"
           /\ call' = [call EXCEPT ![c] = in]
           /\ read' = [read EXCEPT ![c] = clock]
           /\ UNCHANGED <<wallets, audit, tokens, clock, unlogged>>
           /\ \E p \in PCs \ {"idle", "wallet"} :
                 /\ pc' = [pc EXCEPT ![c] = p]
                 /\ p = "create" => in.kind = "register"
                 /\ p = "issue" => in.kind \in {"login", "refresh"}
                 /\ p = "done" => in.kind = "request"
                 /\ p = "audit" =>
                       /\ in.kind \in {"suspend", "activate"}
                       /\ in.email \in Registered
                       /\ users' = [users EXCEPT ![in.email] = StatusOf(in.kind)]
                       /\ overlapped' = IF \E d \in Calls : Unwritten(d, in.email)
                                        THEN overlapped \cup {in.email} ELSE overlapped
                 /\ p # "audit" => UNCHANGED <<users, overlapped>>
<1> USE DEF Begin, history, PCs
<1>1. CASE RegisterLookup(c, in)
  <2>1. CASE in.email \in Registered
    <3>1. pc' = [pc EXCEPT ![c] = "exists"]
      BY <1>1, <2>1 DEF RegisterLookup
    <3> QED
      BY <1>1, <3>1 DEF RegisterLookup
  <2>2. CASE ~(in.email \in Registered)
    <3>1. pc' = [pc EXCEPT ![c] = "create"]
      BY <1>1, <2>2 DEF RegisterLookup
    <3> QED
      BY <1>1, <3>1 DEF RegisterLookup
  <2> QED
    BY <2>1, <2>2
<1>2. CASE LoginLookup(c, in)
  <2>1. CASE in.email \in Registered /\ users[in.email] = "ACTIVE"
    <3>1. pc' = [pc EXCEPT ![c] = "issue"]
      BY <1>2, <2>1 DEF LoginLookup
    <3> QED
      BY <1>2, <3>1 DEF LoginLookup
  <2>2. CASE ~(in.email \in Registered /\ users[in.email] = "ACTIVE")
    <3>1. pc' = [pc EXCEPT ![c] = "rejected"]
      BY <1>2, <2>2 DEF LoginLookup
    <3> QED
      BY <1>2, <3>1 DEF LoginLookup
  <2> QED
    BY <2>1, <2>2
<1>3. CASE RefreshLookup(c, in)
  <2>1. CASE in.email \in Registered
    <3>1. pc' = [pc EXCEPT ![c] = "issue"]
      BY <1>3, <2>1 DEF RefreshLookup
    <3> QED
      BY <1>3, <3>1 DEF RefreshLookup
  <2>2. CASE ~(in.email \in Registered)
    <3>1. pc' = [pc EXCEPT ![c] = "rejected"]
      BY <1>3, <2>2 DEF RefreshLookup
    <3> QED
      BY <1>3, <3>1 DEF RefreshLookup
  <2> QED
    BY <2>1, <2>2
<1>4. CASE UpdateStatus(c, in)
  BY <1>4 DEF UpdateStatus
<1>5. CASE \E t \in tokens : Request(c, in, t)
  BY <1>5 DEF Request
<1> QED
  BY <1>1, <1>2, <1>3, <1>4, <1>5 DEF FirstStep

LEMMA RegisterCreates ==
    ASSUME NEW c \in Calls, RegisterCreate(c)
    PROVE  /\ pc[c] = "create"
           /\ UNCHANGED <<wallets, audit, tokens, call, clock, history>>
           /\ \/ /\ call[c].email \notin Registered
                 /\ users' = [i \in Registered \cup {call[c].email} |->
                                 IF i = call[c].email THEN "ACTIVE" ELSE users[i]]
                 /\ read' = [read EXCEPT ![c] = clock]
                 /\ pc' = [pc EXCEPT ![c] = "wallet"]
              \/ /\ UNCHANGED <<users, read>>
                 /\ pc' = [pc EXCEPT ![c] = "failed"]
BY DEF RegisterCreate, EmailFree, Goto

-------------------------------------------------------------------------------
(* Types *)

LEMMA PairType ==
    ASSUME AccountTypes, NEW e \in Emails, NEW n \in Nat
    PROVE  GenerateTokenPair(e, n) \subseteq TokenType
BY ConstantTypes DEF AccountTypes, GenerateTokenPair, Token, TokenType

LEMMA CallsHaveInputs ==
    ASSUME AccountTypes, CallKinds, NEW c \in Calls, pc[c] # "idle"
    PROVE  call[c].email \in Emails /\ StatusOf(call[c].kind) \in Statuses
BY InputFields DEF CallKinds, StatusOf, Statuses

LEMMA TypesKept ==
    ASSUME AccountTypes, CallKinds, [Next]_vars
    PROVE  AccountTypes'
<1> USE DEF AccountTypes
<1>1. CASE \E c \in Calls, in \in Inputs : FirstStep(c, in)
  <2>1. PICK c \in Calls, in \in Inputs : FirstStep(c, in)
    BY <1>1
  <2>2. in.email \in Emails /\ StatusOf(in.kind) \in Statuses
    BY InputFields DEF StatusOf, Statuses
  <2>3. users' \in [DOMAIN users' -> Statuses] /\ DOMAIN users' \subseteq Emails
    <3>1. CASE UNCHANGED users
      BY <3>1 DEF Registered
    <3>2. CASE in.email \in Registered /\ users' = [users EXCEPT ![in.email] = StatusOf(in.kind)]
      BY <2>2, <3>2 DEF Registered
    <3> QED
      BY <2>1, <3>1, <3>2, FirstSteps
  <2>4. age' \in [Calls -> Int]
    <3>1. age' = age \/ \E t \in tokens, n \in Int : age' = [age EXCEPT ![c] = n]
      <4>1. CASE \E t \in tokens : Request(c, in, t)
        <5>1. PICK t \in tokens : Request(c, in, t)
          BY <4>1
        <5>2. t.read \in Nat
          BY DEF TokenType
        <5>3. clock - t.read \in Int /\ age[c] \in Int
          BY <5>2
        <5> QED
          BY <5>1, <5>3 DEF Request
      <4>2. CASE ~\E t \in tokens : Request(c, in, t)
        BY <2>1, <4>2 DEF FirstStep, RegisterLookup, LoginLookup, RefreshLookup, UpdateStatus, history
      <4> QED
        BY <4>1, <4>2
    <3> QED
      BY <3>1
  <2>5. PICK p \in PCs : pc' = [pc EXCEPT ![c] = p]
    BY <2>1, FirstSteps
  <2>6. pc' \in [Calls -> PCs] /\ call' \in [Calls -> Inputs \cup {NoInput}] /\ read' \in [Calls -> Nat]
    <3>1. call' = [call EXCEPT ![c] = in] /\ read' = [read EXCEPT ![c] = clock]
      BY <2>1, FirstSteps
    <3> QED
      BY <2>5, <3>1
  <2>7. UNCHANGED <<audit, tokens, clock>>
    BY <2>1, FirstSteps
  <2> QED
    BY <2>3, <2>4, <2>6, <2>7 DEF Registered
<1>2. CASE \E c \in Calls : LaterStep(c)
  <2>1. PICK c \in Calls : LaterStep(c)
    BY <1>2
  <2>2. pc[c] # "idle"
    BY <2>1 DEF LaterStep, RegisterCreate, RegisterWallet, IssueTokens, UpdateAudit
  <2>3. call[c].email \in Emails /\ StatusOf(call[c].kind) \in Statuses
    BY <2>2, CallsHaveInputs
  <2>4. CASE RegisterCreate(c)
    <3>1. CASE UNCHANGED <<users, read>> /\ pc' = [pc EXCEPT ![c] = "failed"]
      BY <2>4, <3>1, RegisterCreates DEF Registered, PCs, history
    <3>2. CASE /\ users' = [i \in Registered \cup {call[c].email} |->
                                 IF i = call[c].email THEN "ACTIVE" ELSE users[i]]
               /\ read' = [read EXCEPT ![c] = clock]
               /\ pc' = [pc EXCEPT ![c] = "wallet"]
      <4>1. users' \in [DOMAIN users' -> Statuses] /\ DOMAIN users' \subseteq Emails
        BY <2>3, <3>2 DEF Registered, Statuses
      <4>2. pc' \in [Calls -> PCs] /\ read' \in [Calls -> Nat]
        BY <3>2 DEF PCs
      <4>3. UNCHANGED <<audit, tokens, call, clock, age>>
        BY <2>4, RegisterCreates DEF history
      <4> QED
        BY <4>1, <4>2, <4>3 DEF Registered
    <3> QED
      BY <2>4, <3>1, <3>2, RegisterCreates
  <2>5. CASE RegisterWallet(c) \/ IssueTokens(c)
    <3>1. tokens' \subseteq TokenType
      BY <2>3, <2>5, PairType DEF RegisterWallet, IssueTokens
    <3> QED
      BY <2>5, <3>1 DEF RegisterWallet, IssueTokens, Goto, Registered, PCs, history
  <2>6. CASE UpdateAudit(c)
    <3>1. Entry(c) \in [email : Emails, status : Statuses]
      BY <2>3 DEF Entry
    <3>2. audit' \in Seq([email : Emails, status : Statuses])
      <4> DEFINE S == [email : Emails, status : Statuses]
                 r == Entry(c)
      <4>1. audit \in Seq(S) /\ r \in S /\ (audit' = audit \/ audit' = Append(audit, r))
        BY <2>6, <3>1 DEF UpdateAudit
      <4> HIDE DEF S, r
      <4>2. Append(audit, r) \in Seq(S)
        BY <4>1
      <4> QED
        BY <4>1, <4>2, Zenon DEF S
    <3>3. pc' \in [Calls -> PCs] /\ UNCHANGED <<users, tokens, call, read, clock, age>>
      BY <2>6 DEF UpdateAudit, Goto, PCs
    <3> QED
      BY <3>2, <3>3 DEF Registered
  <2> QED
    BY <2>1, <2>4, <2>5, <2>6 DEF LaterStep
<1>3. CASE Crash \/ Tick \/ UNCHANGED vars
  BY <1>3 DEF Crash, Tick, vars, history, Registered, PCs
<1> QED
  BY <1>1, <1>2, <1>3, StepCases

-------------------------------------------------------------------------------
(* What happens to one call in a step: it begins, goes on, ends or is left alone. *)
CallStep(c) ==
    \/ pc'[c] = pc[c] /\ call'[c] = call[c]
    \/ pc'[c] = "failed" /\ call'[c] = call[c] /\ pc[c] # "idle"
    \/ /\ pc[c] = "idle" /\ call'[c] \in Inputs /\ pc'[c] \in PCs \ {"idle", "wallet"}
       /\ pc'[c] = "create" => call'[c].kind = "register"
       /\ pc'[c] = "issue" => call'[c].kind \in {"login", "refresh"}
       /\ pc'[c] = "done" => call'[c].kind = "request"
       /\ pc'[c] = "audit" => call'[c].kind \in {"suspend", "activate"}
    \/ /\ pc[c] = "create" /\ pc'[c] = "wallet" /\ call'[c] = call[c]
       /\ call[c].email \notin Registered /\ call[c].email \in DOMAIN users'
       /\ \A d \in Calls \ {c} : pc'[d] = pc[d] /\ call'[d] = call[d]
    \/ pc[c] \in {"wallet", "issue", "audit"} /\ pc'[c] = "done" /\ call'[c] = call[c]

LEMMA CallSteps ==
    ASSUME AccountTypes, [Next]_vars, NEW c \in Calls
    PROVE  CallStep(c)
<1> USE DEF AccountTypes
<1>1. ASSUME NEW d \in Calls, NEW in \in Inputs, FirstStep(d, in) PROVE CallStep(c)
  <2>1. call' = [call EXCEPT ![d] = in] /\ pc[d] = "idle"
    BY <1>1, FirstSteps
  <2>2. PICK p \in PCs \ {"idle", "wallet"} :
                 /\ pc' = [pc EXCEPT ![d] = p]
                 /\ p = "create" => in.kind = "register"
                 /\ p = "issue" => in.kind \in {"login", "refresh"}
                 /\ p = "done" => in.kind = "request"
                 /\ p = "audit" => in.kind \in {"suspend", "activate"}
    BY <1>1, FirstSteps
  <2>3. CASE c = d
    <3>1. pc'[c] = p /\ call'[c] = in
      BY <2>1, <2>2, <2>3
    <3> QED
      BY <2>1, <2>2, <2>3, <3>1 DEF CallStep
  <2>4. CASE c # d
    BY <2>1, <2>2, <2>4 DEF CallStep
  <2> QED
    BY <2>3, <2>4
<1>2. ASSUME NEW d \in Calls, RegisterCreate(d) PROVE CallStep(c)
  <2>1. pc[d] = "create" /\ call' = call
    BY <1>2, RegisterCreates
  <2>2. CASE pc' = [pc EXCEPT ![d] = "failed"]
    BY <2>1, <2>2 DEF CallStep
  <2>3. CASE /\ pc' = [pc EXCEPT ![d] = "wallet"] /\ call[d].email \notin Registered
             /\ call[d].email \in DOMAIN users'
    <3>1. CASE c = d
      BY <2>1, <2>3, <3>1 DEF CallStep
    <3>2. CASE c # d
      BY <2>1, <2>3, <3>2 DEF CallStep
    <3> QED
      BY <3>1, <3>2
  <2>4. \/ pc' = [pc EXCEPT ![d] = "failed"]
        \/ /\ pc' = [pc EXCEPT ![d] = "wallet"] /\ call[d].email \notin Registered
           /\ users' = [i \in Registered \cup {call[d].email} |->
                           IF i = call[d].email THEN "ACTIVE" ELSE users[i]]
    BY <1>2, RegisterCreates
  <2> QED
    BY <2>2, <2>3, <2>4
<1>3. ASSUME NEW d \in Calls, RegisterWallet(d) \/ IssueTokens(d) \/ UpdateAudit(d)
      PROVE  CallStep(c)
  <2>1. /\ pc[d] \in {"wallet", "issue", "audit"} /\ call' = call
        /\ pc' = [pc EXCEPT ![d] = "done"]
    BY <1>3 DEF RegisterWallet, IssueTokens, UpdateAudit, Goto
  <2> QED
    BY <2>1 DEF CallStep
<1>4. CASE Crash \/ Tick \/ UNCHANGED vars
  BY <1>4 DEF Crash, Tick, vars, CallStep, InProgress
<1> QED
  BY <1>1, <1>2, <1>3, <1>4, StepCases DEF LaterStep

(* Accounts are not deleted. *)
LEMMA RegisteredGrows ==
    ASSUME AccountTypes, [Next]_vars
    PROVE  Registered \subseteq DOMAIN users'
<1>1. ASSUME NEW c \in Calls, NEW in \in Inputs, FirstStep(c, in)
      PROVE  Registered \subseteq DOMAIN users'
  <2>1. users' = users \/ users' = [users EXCEPT ![in.email] = StatusOf(in.kind)]
    BY <1>1, FirstSteps
  <2> QED
    BY <2>1 DEF AccountTypes, Registered
<1>2. ASSUME NEW c \in Calls, LaterStep(c) PROVE Registered \subseteq DOMAIN users'
  BY <1>2, RegisterCreates
  DEF LaterStep, RegisterWallet, IssueTokens, UpdateAudit, Registered
<1>3. CASE Crash \/ Tick \/ UNCHANGED vars
  BY <1>3 DEF Crash, Tick, vars, Registered
<1> QED
  BY <1>1, <1>2, <1>3, StepCases

LEMMA KindsKept ==
    ASSUME AccountTypes, CallKinds, [Next]_vars
    PROVE  CallKinds'
<1> SUFFICES ASSUME NEW c \in Calls
             PROVE  /\ pc'[c] # "idle" => call'[c] \in Inputs
                    /\ pc'[c] \in {"create", "wallet"} => call'[c].kind = "register"
                    /\ pc'[c] = "issue" => call'[c].kind \in {"login", "refresh"}
                    /\ pc'[c] = "audit" => call'[c].kind \in {"suspend", "activate"}
  BY DEF CallKinds
<1>1. CallStep(c)
  BY CallSteps
<1> QED
  BY <1>1 DEF CallStep, CallKinds

-------------------------------------------------------------------------------
(* One account per email *)

LEMMA RegistrationsKept ==
    ASSUME AccountTypes, CallKinds, MadeRegistered, OneAccountPerEmail, [Next]_vars
    PROVE  MadeRegistered' /\ OneAccountPerEmail'
<1>1. Registered \subseteq DOMAIN users'
  BY RegisteredGrows
<1>2. ASSUME NEW c \in Calls, Made(c)'
      PROVE  /\ call'[c] = call[c]
             /\ \/ Made(c)
                \/ /\ call[c].email \notin Registered /\ call[c].email \in DOMAIN users'
                   /\ \A d \in Calls \ {c} : pc'[d] = pc[d] /\ call'[d] = call[d]
  <2>1. CallStep(c)
    BY CallSteps
  <2>2. pc'[c] \in {"wallet", "done"} /\ call'[c].kind = "register"
    BY <1>2 DEF Made
  <2> QED
    BY <2>1, <2>2 DEF CallStep, CallKinds, Made
<1>3. MadeRegistered'
  BY <1>1, <1>2 DEF MadeRegistered, Registered
<1>4. ASSUME NEW c \in Calls, NEW d \in Calls, Made(c)', Made(d)',
             call'[c].email = call'[d].email
      PROVE  c = d
  <2>1. call'[c] = call[c] /\ call'[d] = call[d]
    BY <1>2, <1>4
  <2>2. CASE Made(c) /\ Made(d)
    BY <1>4, <2>1, <2>2 DEF OneAccountPerEmail, Made
  <2>3. CASE ~Made(c)
    <3>1. call[c].email \notin Registered
          /\ \A x \in Calls \ {c} : pc'[x] = pc[x] /\ call'[x] = call[x]
      BY <1>2, <1>4, <2>3
    <3>2. d # c => Made(d)
      BY <1>4, <3>1 DEF Made
    <3> QED
      BY <1>4, <2>1, <3>1, <3>2 DEF MadeRegistered
  <2>4. CASE ~Made(d)
    <3>1. call[d].email \notin Registered
          /\ \A x \in Calls \ {d} : pc'[x] = pc[x] /\ call'[x] = call[x]
      BY <1>2, <1>4, <2>4
    <3>2. c # d => Made(c)
      BY <1>4, <3>1 DEF Made
    <3> QED
      BY <1>4, <2>1, <3>1, <3>2 DEF MadeRegistered
  <2> QED
    BY <2>2, <2>3, <2>4
<1>5. OneAccountPerEmail'
  BY <1>4 DEF OneAccountPerEmail, Made
<1> QED
  BY <1>3, <1>5

-------------------------------------------------------------------------------
(* Tokens and the reads behind them *)

LEMMA ReadSteps ==
    ASSUME AccountTypes, TokenAges, [Next]_vars, NEW c \in Calls, InProgress(c)'
    PROVE  read'[c] <= clock' /\ clock' <= read'[c] + CallTime
<1> USE DEF AccountTypes
<1>1. clock \in Nat /\ read[c] \in Nat /\ CallTime \in Nat
  BY ConstantTypes
<1>2. InProgress(c) => read[c] <= clock /\ clock <= read[c] + CallTime
  BY DEF TokenAges
<1>3. ASSUME NEW d \in Calls, NEW in \in Inputs, FirstStep(d, in)
      PROVE  clock' = clock /\ (read'[c] = clock \/ (InProgress(c) /\ read'[c] = read[c]))
  <2>1. clock' = clock /\ read' = [read EXCEPT ![d] = clock] /\ \E p : pc' = [pc EXCEPT ![d] = p]
    BY <1>3, FirstSteps
  <2> QED
    BY <2>1 DEF InProgress
<1>4. ASSUME NEW d \in Calls, LaterStep(d)
      PROVE  clock' = clock /\ (read'[c] = clock \/ (InProgress(c) /\ read'[c] = read[c]))
  <2>1. CASE RegisterCreate(d)
    <3>1. clock' = clock /\ (read' = [read EXCEPT ![d] = clock] \/ read' = read)
          /\ pc[d] = "create" /\ \E p : pc' = [pc EXCEPT ![d] = p]
      BY <2>1, RegisterCreates
    <3> QED
      BY <3>1 DEF InProgress
  <2>2. CASE RegisterWallet(d) \/ IssueTokens(d) \/ UpdateAudit(d)
    BY <2>2 DEF RegisterWallet, IssueTokens, UpdateAudit, Goto, InProgress
  <2> QED
    BY <1>4, <2>1, <2>2 DEF LaterStep
<1>5. ~Crash
  BY DEF Crash, InProgress
<1>6. CASE Tick
  <2>1. InProgress(c) /\ clock' = clock + 1 /\ read' = read /\ clock < read[c] + CallTime
    BY <1>6 DEF Tick, InProgress
  <2> QED
    BY <1>1, <1>2, <2>1
<1>7. CASE UNCHANGED vars
  BY <1>1, <1>2, <1>7 DEF vars, InProgress
<1> QED
  BY <1>1, <1>2, <1>3, <1>4, <1>5, <1>6, <1>7, StepCases

LEMMA TokensKept ==
    ASSUME AccountTypes, TokenAges, [Next]_vars
    PROVE  \A t \in tokens' : t.type = "access" => t.expires <= t.read + CallTime + AccessTTL
<1>1. ASSUME NEW c \in Calls, RegisterWallet(c) \/ IssueTokens(c), NEW t \in tokens', t \notin tokens,
             t.type = "access"
      PROVE  t.expires <= t.read + CallTime + AccessTTL
  <2>1. t \in GenerateTokenPair(call[c].email, read[c]) /\ InProgress(c)
    BY <1>1 DEF RegisterWallet, IssueTokens, InProgress
  <2>2. t = Token(call[c].email, "access", read[c], AccessTTL)
    BY <1>1, <2>1 DEF GenerateTokenPair, Token
  <2>3. t.read = read[c] /\ t.expires = clock + AccessTTL
    BY <2>2 DEF Token
  <2>4. clock <= read[c] + CallTime /\ clock \in Nat /\ read[c] \in Nat
    BY <2>1 DEF TokenAges, AccountTypes
  <2> QED
    BY <2>3, <2>4, ConstantTypes
<1>2. \/ tokens' = tokens
      \/ \E c \in Calls : RegisterWallet(c) \/ IssueTokens(c)
  <2>1. ASSUME NEW c \in Calls, NEW in \in Inputs, FirstStep(c, in) PROVE tokens' = tokens
    BY <2>1, FirstSteps
  <2>2. ASSUME NEW c \in Calls, RegisterCreate(c) PROVE tokens' = tokens
    BY <2>2, RegisterCreates
  <2> QED
    BY <2>1, <2>2, StepCases DEF LaterStep, UpdateAudit, Crash, Tick, vars
<1> QED
  BY <1>1, <1>2 DEF TokenAges

LEMMA AgesKept ==
    ASSUME AccountTypes, TokenAges, AcceptedRecently, [Next]_vars
    PROVE  TokenAges' /\ AcceptedRecently'
<1>1. TokenAges'
  <2>1. ASSUME NEW c \in Calls, InProgress(c)'
        PROVE  read'[c] <= clock' /\ clock' <= read'[c] + CallTime
    BY <2>1, ReadSteps
  <2> QED
    BY <2>1, TokensKept DEF TokenAges
<1>2. CASE age' = age
  BY <1>1, <1>2, Zenon DEF AcceptedRecently
<1>3. ASSUME NEW c \in Calls, NEW in \in Inputs, NEW t \in tokens, Request(c, in, t)
      PROVE  AcceptedRecently'
  <2>1. CASE Authenticates(t)
    <3>1. t \in TokenType
      BY DEF AccountTypes
    <3>2. t.read \in Nat /\ t.expires \in Nat /\ clock \in Nat
      BY <3>1 DEF TokenType, AccountTypes
    <3>3. clock < t.expires /\ t.expires <= t.read + CallTime + AccessTTL
      BY <2>1 DEF Authenticates, TokenAges
    <3>4. clock - t.read < AccessTTL + CallTime
      BY <3>2, <3>3, ConstantTypes
    <3>5. age' = [age EXCEPT ![c] = clock - t.read]
      BY <1>3, <2>1 DEF Request
    <3> QED
      BY <3>4, <3>5 DEF AcceptedRecently, AccountTypes
  <2>2. CASE ~Authenticates(t)
    BY <1>3, <2>2 DEF Request, AcceptedRecently, AccountTypes
  <2> QED
    BY <2>1, <2>2
<1>4. age' = age \/ \E c \in Calls, in \in Inputs, t \in tokens : Request(c, in, t)
  BY StepCases DEF FirstStep, LaterStep, RegisterLookup, LoginLookup, RefreshLookup, UpdateStatus,
     RegisterCreate, RegisterWallet, IssueTokens, UpdateAudit, Crash, Tick, vars, history
<1> QED
  BY <1>1, <1>2, <1>3, <1>4

-------------------------------------------------------------------------------
(* The audit log and the status *)

(* A log that is appended to tells what its new row says, and of others what it told. *)
LEMMA AppendTells ==
    ASSUME NEW S, NEW rows \in Seq(S), NEW row \in S, NEW e, NEW s
    PROVE  /\ row.email = e /\ row.status = s => Tells(Append(rows, row), e, s)
           /\ row.email # e /\ Tells(rows, e, s) => Tells(Append(rows, row), e, s)
<1> DEFINE new == Append(rows, row)
           n   == Len(rows) + 1
<1>1. /\ DOMAIN rows = 1..Len(rows) /\ DOMAIN new = 1..n /\ Len(rows) \in Nat
      /\ new[n] = row /\ \A i \in DOMAIN rows : new[i] = rows[i]
  OBVIOUS
<1> HIDE DEF new
<1>2. n \in DOMAIN new /\ (\A j \in DOMAIN new : ~(j > n))
  BY <1>1
<1>3. \A i \in DOMAIN new : i \in DOMAIN rows \/ i = n
  BY <1>1
<1>4. \A i \in DOMAIN rows : i \in DOMAIN new
  BY <1>1
<1> HIDE DEF n
<1>5. row.email = e /\ row.status = s => Tells(new, e, s)
  BY <1>1, <1>2, Zenon DEF Tells
<1>6. ASSUME row.email # e, Tells(rows, e, s) PROVE Tells(new, e, s)
  <2>1. CASE s = "ACTIVE" /\ \A i \in DOMAIN rows : rows[i].email # e
    BY <1>1, <1>3, <1>6, <2>1, Zenon DEF Tells
  <2>2. CASE \E i \in DOMAIN rows :
                /\ rows[i].email = e /\ rows[i].status = s
                /\ \A j \in DOMAIN rows : j > i => rows[j].email # e
    <3>1. PICK i \in DOMAIN rows :
             /\ rows[i].email = e /\ rows[i].status = s
             /\ \A j \in DOMAIN rows : j > i => rows[j].email # e
      BY <2>2
    <3>2. i \in DOMAIN new /\ new[i].email = e /\ new[i].status = s
      BY <1>1, <1>4, <3>1
    <3>3. ASSUME NEW j \in DOMAIN new, j > i PROVE new[j].email # e
      <4>1. CASE j \in DOMAIN rows
        BY <1>1, <3>1, <3>3, <4>1
      <4>2. CASE j = n
        BY <1>1, <1>6, <4>2
      <4> QED
        BY <1>3, <4>1, <4>2
    <3> QED
      BY <3>2, <3>3, Zenon DEF Tells
  <2> QED
    BY <1>6, <2>1, <2>2 DEF Tells
<1> QED
  BY <1>5, <1>6 DEF new

(* A step that makes accounts or moves calls that change no status. *)
LEMMA OtherAudits ==
    ASSUME AccountTypes, ChangesKnown, AuditTellsStatus,
           UNCHANGED <<audit, unlogged, overlapped>>,
           \A c \in Calls : pc'[c] = "audit" <=> pc[c] = "audit",
           \A c \in Calls : pc[c] = "audit" => call'[c] = call[c],
           Registered \subseteq DOMAIN users',
           \A e \in Registered : users'[e] = users[e],
           \A e \in DOMAIN users' \ Registered : users'[e] = "ACTIVE"
    PROVE  ChangesKnown' /\ AuditTellsStatus'
<1>1. ChangesKnown'
  BY DEF ChangesKnown, Registered, StatusOf
<1>2. ASSUME NEW e \in DOMAIN users' \ (unlogged \cup overlapped),
             \A c \in Calls : ~(pc'[c] = "audit" /\ call'[c].email = e)
      PROVE  Tells(audit, e, users'[e])
  <2>1. CASE e \in Registered
    <3>1. \A c \in Calls : ~Unwritten(c, e)
      BY <1>2 DEF Unwritten
    <3>2. Tells(audit, e, users[e])
      BY <1>2, <2>1, <3>1 DEF AuditTellsStatus
    <3> QED
      BY <2>1, <3>2
  <2>2. CASE e \notin Registered
    <3>1. users'[e] = "ACTIVE" /\ \A i \in DOMAIN audit : audit[i].email # e
      BY <1>2, <2>2 DEF ChangesKnown
    <3> QED
      BY <3>1 DEF Tells
  <2> QED
    BY <2>1, <2>2
<1>3. AuditTellsStatus'
  BY <1>2 DEF AuditTellsStatus, Unwritten, Registered
<1> QED
  BY <1>1, <1>3

(* UpdateUserStatus: while the change is alone, the account has the status it gave. *)
LEMMA UpdateAudits ==
    ASSUME AccountTypes, ChangesKnown, AuditTellsStatus, NEW c \in Calls, NEW in \in Inputs,
           FirstStep(c, in), pc' = [pc EXCEPT ![c] = "audit"]
    PROVE  ChangesKnown' /\ AuditTellsStatus'
<1>1. /\ pc[c] = "idle" /\ call' = [call EXCEPT ![c] = in]
      /\ UNCHANGED <<audit, unlogged>>
      /\ in.email \in Registered
      /\ users' = [users EXCEPT ![in.email] = StatusOf(in.kind)]
      /\ overlapped' = IF \E d \in Calls : Unwritten(d, in.email)
                       THEN overlapped \cup {in.email} ELSE overlapped
  <2>1. PICK p \in PCs : /\ pc' = [pc EXCEPT ![c] = p]
                         /\ p = "audit" =>
                               /\ in.email \in Registered
                               /\ users' = [users EXCEPT ![in.email] = StatusOf(in.kind)]
                               /\ overlapped' = IF \E d \in Calls : Unwritten(d, in.email)
                                                THEN overlapped \cup {in.email} ELSE overlapped
    BY FirstSteps
  <2>2. p = "audit"
    BY <2>1 DEF AccountTypes
  <2> QED
    BY <2>1, <2>2, FirstSteps
<1>2. /\ DOMAIN users' = Registered
      /\ users'[in.email] = StatusOf(in.kind)
      /\ \A e \in Registered : e # in.email => users'[e] = users[e]
  BY <1>1 DEF AccountTypes, Registered
<1>3. /\ pc'[c] = "audit" /\ call'[c] = in
      /\ \A d \in Calls : d # c => pc'[d] = pc[d] /\ call'[d] = call[d]
  BY <1>1 DEF AccountTypes
<1>4. \A d \in Calls : pc[d] = "audit" => d # c
  BY <1>1
<1>5. overlapped \subseteq overlapped'
  BY <1>1
<1>6. ASSUME NEW d \in Calls, pc[d] = "audit", call[d].email = in.email
      PROVE  in.email \in overlapped'
  BY <1>1, <1>6 DEF Unwritten
<1>7. ASSUME NEW d \in Calls, pc'[d] = "audit", call'[d].email \notin unlogged \cup overlapped'
      PROVE  /\ users'[call'[d].email] = StatusOf(call'[d].kind)
             /\ \A x \in Calls : pc'[x] = "audit" /\ call'[x].email = call'[d].email => x = d
  <2>1. CASE d = c
    BY <1>2, <1>3, <1>6, <1>7, <2>1
  <2>2. CASE d # c
    <3>1. pc[d] = "audit" /\ call'[d] = call[d] /\ call[d].email # in.email
      BY <1>3, <1>6, <1>7, <2>2
    <3>2. call[d].email \in Registered /\ call[d].email \notin unlogged \cup overlapped
      BY <1>5, <1>7, <3>1 DEF ChangesKnown
    <3>3. users[call[d].email] = StatusOf(call[d].kind)
          /\ \A x \in Calls : pc[x] = "audit" /\ call[x].email = call[d].email => x = d
      BY <3>1, <3>2 DEF ChangesKnown
    <3> QED
      BY <1>2, <1>3, <3>1, <3>2, <3>3
  <2> QED
    BY <2>1, <2>2
<1>8. /\ \A d \in Calls : pc'[d] = "audit" => call'[d].email \in Registered
      /\ \A i \in DOMAIN audit : audit[i].email \in Registered
  BY <1>1, <1>3 DEF ChangesKnown
<1>9. ChangesKnown'
  BY <1>1, <1>2, <1>7, <1>8, Zenon DEF ChangesKnown, Registered
<1>10. ASSUME NEW e \in Registered \ (unlogged \cup overlapped'),
              \A d \in Calls : ~(pc'[d] = "audit" /\ call'[d].email = e)
       PROVE  Tells(audit, e, users'[e])
  <2>1. e # in.email
    BY <1>3, <1>10
  <2>2. \A d \in Calls : ~Unwritten(d, e)
    BY <1>3, <1>4, <1>10 DEF Unwritten
  <2>3. Tells(audit, e, users[e])
    BY <1>5, <1>10, <2>2 DEF AuditTellsStatus
  <2> QED
    BY <1>2, <2>1, <2>3
<1>11. AuditTellsStatus'
  BY <1>1, <1>2, <1>10, Zenon DEF AuditTellsStatus, Unwritten, Registered
<1> QED
  BY <1>9, <1>11

(* The audit row is written, or lost. *)
LEMMA WrittenAudits ==
    ASSUME AccountTypes, CallKinds, ChangesKnown, AuditTellsStatus, NEW c \in Calls, UpdateAudit(c)
    PROVE  ChangesKnown' /\ AuditTellsStatus'
<1> DEFINE e == call[c].email
<1>1. /\ pc[c] = "audit" /\ pc' = [pc EXCEPT ![c] = "done"]
      /\ UNCHANGED <<users, call, overlapped>>
  BY DEF UpdateAudit, Goto
<1>2. pc'[c] = "done" /\ \A d \in Calls : d # c => pc'[d] = pc[d]
  BY <1>1 DEF AccountTypes
<1>3. \A d \in Calls : pc'[d] = "audit" => pc[d] = "audit" /\ d # c
  BY <1>2
<1>4. e \in Registered /\ e \in Emails /\ StatusOf(call[c].kind) \in Statuses
  BY <1>1, CallsHaveInputs DEF ChangesKnown
<1>5. CASE unlogged' = unlogged \cup {e} /\ audit' = audit
  <2>1. ChangesKnown'
    BY <1>1, <1>3, <1>5 DEF ChangesKnown, Registered, StatusOf
  <2>2. ASSUME NEW x \in Registered \ (unlogged' \cup overlapped),
               \A d \in Calls : ~(pc'[d] = "audit" /\ call[d].email = x)
        PROVE  Tells(audit, x, users[x])
    <3>1. x # e /\ x \notin unlogged
      BY <1>5, <2>2
    <3>2. \A d \in Calls : ~Unwritten(d, x)
      BY <1>2, <2>2, <3>1 DEF Unwritten
    <3> QED
      BY <2>2, <3>1, <3>2 DEF AuditTellsStatus
  <2> QED
    BY <1>1, <1>5, <2>1, <2>2, Zenon DEF AuditTellsStatus, Unwritten, Registered
<1>6. CASE audit' = Append(audit, Entry(c)) /\ unlogged' = unlogged
  <2> DEFINE S == [email : Emails, status : Statuses]
             row == Entry(c)
  <2>1. row \in S /\ row.email = e /\ row.status = StatusOf(call[c].kind) /\ audit \in Seq(S)
    BY <1>4 DEF Entry, AccountTypes
  <2> HIDE DEF S, row
  <2>2. \A i \in DOMAIN audit' : audit'[i].email \in Registered
    <3>1. audit' = Append(audit, row)
      BY <1>6 DEF row
    <3>2. \A i \in DOMAIN Append(audit, row) :
             (i \in DOMAIN audit /\ Append(audit, row)[i] = audit[i]) \/ Append(audit, row)[i] = row
      BY <2>1
    <3> QED
      BY <1>4, <2>1, <3>1, <3>2, Zenon DEF ChangesKnown
  <2>3. ChangesKnown'
    BY <1>1, <1>3, <1>6, <2>2 DEF ChangesKnown, Registered, StatusOf
  <2>4. ASSUME NEW x \in Registered \ (unlogged \cup overlapped),
               \A d \in Calls : ~(pc'[d] = "audit" /\ call[d].email = x)
        PROVE  Tells(audit', x, users[x])
    <3>1. audit' = Append(audit, row)
      BY <1>6 DEF row
    <3>2. CASE x = e
      <4>1. users[x] = StatusOf(call[c].kind)
        BY <1>1, <2>4, <3>2 DEF ChangesKnown
      <4> QED
        BY <2>1, <3>1, <3>2, <4>1, AppendTells
    <3>3. CASE x # e
      <4>1. \A d \in Calls : ~Unwritten(d, x)
        BY <1>2, <2>4, <3>3 DEF Unwritten
      <4>2. Tells(audit, x, users[x])
        BY <2>4, <4>1 DEF AuditTellsStatus
      <4> QED
        BY <2>1, <3>1, <3>3, <4>2, AppendTells
    <3> QED
      BY <3>2, <3>3
  <2> QED
    BY <1>1, <1>6, <2>3, <2>4, Zenon DEF AuditTellsStatus, Unwritten, Registered
<1> QED
  BY <1>5, <1>6 DEF UpdateAudit

(* A restart loses the rows of the changes that were in progress. *)
LEMMA CrashAudits ==
    ASSUME AccountTypes, ChangesKnown, AuditTellsStatus, Crash
    PROVE  ChangesKnown' /\ AuditTellsStatus'
<1>1. /\ \A c \in Calls : pc'[c] # "audit"
      /\ \A c \in Calls : pc[c] = "audit" => call[c].email \in unlogged'
      /\ unlogged \subseteq unlogged'
      /\ UNCHANGED <<users, audit, overlapped>>
  BY DEF Crash, InProgress
<1>2. ChangesKnown'
  BY <1>1 DEF ChangesKnown, Registered
<1>3. ASSUME NEW e \in Registered \ (unlogged' \cup overlapped)
      PROVE  Tells(audit, e, users[e])
  <2>1. \A c \in Calls : ~Unwritten(c, e)
    BY <1>1, <1>3 DEF Unwritten
  <2> QED
    BY <1>1, <1>3, <2>1 DEF AuditTellsStatus
<1> QED
  BY <1>1, <1>2, <1>3, Zenon DEF AuditTellsStatus, Unwritten, Registered

LEMMA AuditsKept ==
    ASSUME AccountTypes, CallKinds, ChangesKnown, AuditTellsStatus, [Next]_vars
    PROVE  ChangesKnown' /\ AuditTellsStatus'
<1>1. ASSUME NEW c \in Calls, NEW in \in Inputs, FirstStep(c, in)
      PROVE  ChangesKnown' /\ AuditTellsStatus'
  <2>1. PICK p \in PCs : /\ pc' = [pc EXCEPT ![c] = p]
                         /\ p # "audit" => UNCHANGED <<users, overlapped>>
    BY <1>1, FirstSteps
  <2>2. CASE p = "audit"
    BY <1>1, <2>1, <2>2, UpdateAudits
  <2>3. CASE p # "audit"
    <3>1. pc[c] = "idle" /\ call' = [call EXCEPT ![c] = in] /\ UNCHANGED <<audit, unlogged>>
      BY <1>1, FirstSteps
    <3>2. /\ \A d \in Calls : pc'[d] = "audit" <=> pc[d] = "audit"
          /\ \A d \in Calls : pc[d] = "audit" => call'[d] = call[d]
      BY <2>1, <2>3, <3>1 DEF AccountTypes
    <3>3. UNCHANGED <<users, overlapped>>
      BY <2>1, <2>3
    <3> QED
      BY <3>1, <3>2, <3>3, OtherAudits DEF Registered
  <2> QED
    BY <2>2, <2>3
<1>2. ASSUME NEW c \in Calls, RegisterCreate(c)
      PROVE  ChangesKnown' /\ AuditTellsStatus'
  <2>1. /\ UNCHANGED <<audit, unlogged, overlapped, call>> /\ pc[c] = "create"
        /\ (pc' = [pc EXCEPT ![c] = "wallet"] \/ pc' = [pc EXCEPT ![c] = "failed"])
    BY <1>2, RegisterCreates DEF history
  <2>2. /\ \A d \in Calls : pc'[d] = "audit" <=> pc[d] = "audit"
        /\ \A d \in Calls : pc[d] = "audit" => call'[d] = call[d]
    BY <2>1 DEF AccountTypes
  <2>3. \/ users' = users
        \/ users' = [i \in Registered \cup {call[c].email} |->
                        IF i = call[c].email THEN "ACTIVE" ELSE users[i]]
           /\ call[c].email \notin Registered
    BY <1>2, RegisterCreates
  <2>4. /\ Registered \subseteq DOMAIN users'
        /\ \A e \in Registered : users'[e] = users[e]
        /\ \A e \in DOMAIN users' \ Registered : users'[e] = "ACTIVE"
    BY <2>3 DEF Registered
  <2> QED
    BY <2>1, <2>2, <2>4, OtherAudits
<1>3. ASSUME NEW c \in Calls, RegisterWallet(c) \/ IssueTokens(c)
      PROVE  ChangesKnown' /\ AuditTellsStatus'
  <2>1. /\ UNCHANGED <<users, audit, unlogged, overlapped, call>>
        /\ pc[c] \in {"wallet", "issue"} /\ pc' = [pc EXCEPT ![c] = "done"]
    BY <1>3 DEF RegisterWallet, IssueTokens, Goto, history
  <2>2. \A d \in Calls : pc'[d] = "audit" <=> pc[d] = "audit"
    BY <2>1 DEF AccountTypes
  <2> QED
    BY <2>1, <2>2, OtherAudits DEF Registered
<1>4. CASE Tick \/ UNCHANGED vars
  <2>1. UNCHANGED <<users, audit, unlogged, overlapped, call, pc>>
    BY <1>4 DEF Tick, vars, history
  <2> QED
    BY <2>1, OtherAudits DEF Registered
<1> QED
  BY <1>1, <1>2, <1>3, <1>4, WrittenAudits, CrashAudits, StepCases DEF LaterStep

-------------------------------------------------------------------------------
LEMMA InitAccounts == Init => AInv
<1> SUFFICES ASSUME Init PROVE AInv
  OBVIOUS
<1>1. AccountTypes /\ CallKinds /\ MadeRegistered /\ TokenAges
  BY DEF Init, AccountTypes, CallKinds, MadeRegistered, Made, TokenAges, InProgress, Registered, PCs
<1>2. ChangesKnown /\ OneAccountPerEmail /\ AuditTellsStatus
  BY DEF Init, ChangesKnown, OneAccountPerEmail, AuditTellsStatus, Registered
<1>3. AcceptedRecently
  BY ConstantTypes DEF Init, AcceptedRecently
<1> QED
  BY <1>1, <1>2, <1>3 DEF AInv

LEMMA NextAccounts ==
    ASSUME AInv, [Next]_vars
    PROVE  AInv'
BY TypesKept, KindsKept, RegistrationsKept, AgesKept, AuditsKept DEF AInv

(* The inductive invariant of the accounts. *)
THEOREM AInvHolds == Spec => []AInv
<1> QED
  BY InitAccounts, NextAccounts, PTL DEF Spec

(* At most one registration of an email succeeds, however many overlap: the     *)
(* unique index decides, not Register's lookup.                                 *)
THEOREM OneAccount == Spec => []OneAccountPerEmail
<1>1. AInv => OneAccountPerEmail
  BY DEF AInv
<1> QED
  BY <1>1, AInvHolds, PTL

(* No request is accepted on a row read longer ago than an access token lives   *)
(* and a call takes: a refresh token never passes AuthMiddleware.               *)
THEOREM AcceptedOnRecentReads == Spec => []AcceptedRecently
<1>1. AInv => AcceptedRecently
  BY DEF AInv
<1> QED
  BY <1>1, AInvHolds, PTL

(* The audit log that UpdateUserStatus writes tells the status of every account *)
(* whose changes have not overlapped and of which no row was lost.              *)
THEOREM AuditCorrect == Spec => []AuditTellsStatus
<1>1. AInv => AuditTellsStatus
  BY DEF AInv
<1> QED
  BY <1>1, AInvHolds, PTL
===============================================================================
