------------------------- MODULE ApiRequestsProofs -------------------------
(***************************************************************************)
(* The requests of an API process tell their clients the truth, for any    *)
(* number of requests, accounts, messages and connections.                 *)
(*                                                                         *)
(* None of the properties is inductive.  What an answer says is settled    *)
(* steps before it is given: IInv follows a request through its handler,   *)
(* and says at every stage which rows it has found, which it has left in   *)
(* the database and which connections it holds.  What was found stays,     *)
(* because an account is only ever inserted under a number nobody has.     *)
(***************************************************************************)
EXTENDS ApiRequests, FiniteSetTheorems, TLAPS

\* The stages of POST /iso20022/pain001 once it runs, once it has found the
\* debtor, and once it has found both accounts and accepted the transfer.
Accepted == {"uow", "create", "commit_payment"}
DebtorFound == {"creditor"} \cup Accepted
Pain001 == {"debtor"} \cup DebtorFound

\* The sessions of r that hold a connection, by what r does next.
Sessions(r) ==
    CASE pc[r] \in {"new", "session", "done"} -> {}
      [] pc[r] \in {"create", "commit_payment"} -> {"session", "uow"}
      [] pc[r] = "respond" /\ req[r].endpoint = "create_account" -> {}
      [] OTHER -> {"session"}

\* Every request is where its endpoint leads.
ShapeOK(r) ==
    /\ pc[r] = "new" <=> req[r] = NoRequest
    /\ pc[r] # "done" => answer[r] = None
    /\ pc[r] \in {"insert_account", "commit_account"} => req[r].endpoint = "create_account"
    /\ pc[r] \in Pain001 => req[r].endpoint = "ingest_pain001"
    /\ pc[r] = "respond" => req[r].endpoint \in {"create_account", "ingest_pain001"}
    /\ pc[r] # "done" /\ req[r].endpoint = "ingest_pain001" => Parses(req[r].body)
    /\ held[r] = Sessions(r)

\* What r has found is still there.
FoundOK(r) ==
    LET m == req[r].body
    IN  /\ \A n \in req[r].known : accounts[n] # None
        /\ pc[r] \in DebtorFound => accounts[m.debtor] # None
        /\ pc[r] \in Accepted => accounts[m.creditor] # None /\ Refusal(m) = None
        /\ pc[r] = "commit_payment" =>
             /\ accounts[m.debtor].currency = m.currency
             /\ Rounded(m.amount) \in 1 .. MaxNumeric

Created(r, endpoint) ==
    req[r].endpoint = endpoint /\ (pc[r] = "respond" \/ answer[r] = 201)

\* What r has left in the database.  A request that died may have got as far as
\* its commit or not.
PaymentsOK(r) ==
    /\ Created(r, "ingest_pain001") => {p \in payments : p.id = r} = {NewPayment(r)}
    /\ ~ Created(r, "ingest_pain001") /\ answer[r] # Lost => \A p \in payments : p.id # r

AccountsOK(r) ==
    LET body == req[r].body
    IN  /\ Created(r, "create_account") =>
             accounts[body.number] = NewAccount(r, Upper[body.currency])
        /\ ~ Created(r, "create_account") /\ answer[r] # Lost =>
             \A n \in Numbers : accounts[n] # None => accounts[n].id # r
        /\ req[r].endpoint = "create_account" /\ answer[r] = 409 => accounts[body.number] # None
        /\ pc[r] = "commit_account" => accounts[body.number] = None

\* One transaction at a time has inserted a number.
InsertsExclude ==
    \A r, q \in Requests :
        r # q /\ pc[r] = "commit_account" /\ pc[q] = "commit_account" =>
            req[r].body.number # req[q].body.number

SeededStay == \A n \in Numbers : Seeded[n] # None => accounts[n] # None

IInv ==
    /\ TypeOK
    /\ \A r \in Requests : ShapeOK(r) /\ FoundOK(r) /\ PaymentsOK(r) /\ AccountsOK(r)
    /\ InsertsExclude
    /\ SeededStay
    /\ PaymentsAreValid
    /\ ConfirmedAccountsAreFound

\* Everything IInv says of r.
RequestOK(r) == ShapeOK(r) /\ FoundOK(r) /\ PaymentsOK(r) /\ AccountsOK(r)

\* What ConfirmedAccountsAreFound says of r when it is given a status code.
MayAnswer(r, status) ==
    (req[r].endpoint = "ingest_pain001" /\ status = 404) =>
        \/ ~ {req[r].body.debtor, req[r].body.creditor} \subseteq req[r].known
        \/ req[r].body.amount # NaN /\ Rounded(req[r].body.amount) = 0

Answer == {None, Lost, 200, 201, 400, 404, 409, 422, 500}

-----------------------------------------------------------------------------
\* The initial state satisfies the inductive invariant.
LEMMA InitIInv == Init => IInv
<1> SUFFICES ASSUME Init PROVE IInv
  OBVIOUS
<1> USE DEF Init
<1>1. \A n \in Numbers : accounts[n] \in {None} \cup [id : {0} \cup Requests, currency : Currencies]
  BY DataAssumption DEF NewAccount
<1>2. TypeOK
  BY <1>1 DEF TypeOK, Stage
<1>3. \A n \in Numbers : accounts[n] # None => accounts[n].id = 0
  BY DEF NewAccount
<1>4. \A r \in Requests : RequestOK(r)
  <2> SUFFICES ASSUME NEW r \in Requests PROVE RequestOK(r)
    OBVIOUS
  <2>1. /\ pc[r] = "new" /\ req[r] = NoRequest /\ held[r] = {} /\ answer[r] = None
        /\ req[r].endpoint = None /\ req[r].known = {} /\ r # 0
    BY DEF NoRequest, Requests
  <2>2. None # 201 /\ None # 409
    BY MarkerAssumption
  <2>3. ShapeOK(r)
    BY <2>1, MarkerAssumption DEF ShapeOK, Sessions, Pain001, DebtorFound, Accepted
  <2>4. FoundOK(r)
    BY <2>1 DEF FoundOK, DebtorFound, Accepted
  <2>5. PaymentsOK(r)
    BY <2>1, <2>2 DEF PaymentsOK, Created
  <2>6. AccountsOK(r)
    BY <1>3, <2>1, <2>2 DEF AccountsOK, Created
  <2>. QED
    BY <2>3, <2>4, <2>5, <2>6 DEF RequestOK
<1>5. InsertsExclude /\ PaymentsAreValid /\ ConfirmedAccountsAreFound
  BY MarkerAssumption DEF InsertsExclude, PaymentsAreValid, ConfirmedAccountsAreFound, NoRequest
<1>6. SeededStay
  BY DataAssumption, MarkerAssumption DEF SeededStay, NewAccount
<1>. QED
  BY <1>2, <1>4, <1>5, <1>6 DEF IInv, RequestOK

\* A step in which only r moves, and the database stays as it is, keeps the
\* invariant if it holds of r, unless r inserts what another has inserted.
LEMMA LocalStep ==
    ASSUME IInv, NEW r \in Requests, NEW stage \in Stage,
           NEW sessions \in SUBSET {"session", "uow"}, NEW status \in Answer,
           pc' = [pc EXCEPT ![r] = stage],
           held' = [held EXCEPT ![r] = sessions],
           answer' = [answer EXCEPT ![r] = status],
           UNCHANGED <<accounts, payments, req>>,
           stage = "commit_account" =>
             \A q \in Requests : pc[q] = "commit_account" =>
                 req[q].body.number # req[r].body.number,
           MayAnswer(r, status),
           RequestOK(r)'
    PROVE  IInv'
<1>1. TypeOK /\ TypeOK'
  BY DEF IInv, TypeOK, Answer
<1>2. \A q \in Requests : q # r =>
        pc'[q] = pc[q] /\ held'[q] = held[q] /\ answer'[q] = answer[q]
  BY <1>1 DEF TypeOK
<1>3. pc'[r] = stage /\ answer'[r] = status
  BY <1>1 DEF TypeOK
<1>4. ASSUME NEW q \in Requests, q # r PROVE RequestOK(q)'
  <2>1. RequestOK(q)
    BY DEF IInv, RequestOK
  <2>. QED
    BY <1>2, <1>4, <2>1 DEF RequestOK, ShapeOK, Sessions, FoundOK, PaymentsOK, AccountsOK,
                            Created, NewPayment
<1>5. InsertsExclude'
  BY <1>2, <1>3 DEF IInv, InsertsExclude
<1>6. SeededStay' /\ PaymentsAreValid'
  BY DEF IInv, SeededStay, PaymentsAreValid
<1>7. ConfirmedAccountsAreFound'
  BY <1>2, <1>3 DEF IInv, ConfirmedAccountsAreFound, MayAnswer
<1>. QED
  BY <1>1, <1>4, <1>5, <1>6, <1>7 DEF IInv, RequestOK

\* A request is answered.  Only one that has committed is told so.
LEMMA RespondStep ==
    ASSUME IInv, NEW r \in Requests, NEW status \in {200, 201, 404, 409, 422, 500},
           Respond(r, status), UNCHANGED <<accounts, payments, req>>,
           pc[r] \notin {"new", "done"},
           status = 201 <=> pc[r] = "respond",
           status = 409 => req[r].endpoint = "create_account" /\ accounts[req[r].body.number] # None,
           MayAnswer(r, status)
    PROVE  IInv'
<1>1. TypeOK /\ RequestOK(r) /\ status \in Answer /\ status # Lost /\ status # None
  BY MarkerAssumption DEF IInv, RequestOK, Answer
<1>2. pc'[r] = "done" /\ answer'[r] = status /\ held'[r] = {} /\ answer[r] = None
  BY <1>1 DEF Respond, TypeOK, RequestOK, ShapeOK
<1>3. answer[r] # 201 /\ answer[r] # Lost
  BY <1>2, MarkerAssumption
<1>4. ShapeOK(r)'
  BY <1>1, <1>2 DEF RequestOK, ShapeOK, Sessions, Pain001, DebtorFound, Accepted
<1>5. FoundOK(r)'
  BY <1>1, <1>2 DEF RequestOK, FoundOK, DebtorFound, Accepted
<1>6. \A endpoint : Created(r, endpoint)' <=> Created(r, endpoint)
  BY <1>2, <1>3 DEF Created
<1>7. PaymentsOK(r)'
  BY <1>1, <1>3, <1>6 DEF RequestOK, PaymentsOK, NewPayment
<1>8. AccountsOK(r)'
  BY <1>1, <1>2, <1>3, <1>6 DEF RequestOK, AccountsOK
<1>9. RequestOK(r)'
  BY <1>4, <1>5, <1>7, <1>8 DEF RequestOK
<1>10. "done" \in Stage /\ {} \in SUBSET {"session", "uow"}
  BY DEF Stage
<1>. QED
  BY <1>1, <1>9, <1>10, LocalStep, ZenonT(60) DEF Respond

\* A request goes on to a stage before its commit.
LEMMA GoOnStep ==
    ASSUME IInv, NEW r \in Requests, NEW stage \in Stage \ {"new", "respond", "done"},
           NEW sessions \in SUBSET {"session", "uow"},
           pc[r] \notin {"new", "respond", "done"},
           pc' = [pc EXCEPT ![r] = stage],
           held' = [held EXCEPT ![r] = sessions],
           UNCHANGED <<accounts, payments, req, answer>>,
           stage = "commit_account" =>
             /\ accounts[req[r].body.number] = None
             /\ \A q \in Requests : pc[q] = "commit_account" =>
                    req[q].body.number # req[r].body.number,
           ShapeOK(r)', FoundOK(r)'
    PROVE  IInv'
<1>1. TypeOK /\ RequestOK(r)
  BY DEF IInv, RequestOK
<1>2. pc'[r] = stage /\ answer[r] = None /\ answer'[r] = None
  BY <1>1 DEF TypeOK, RequestOK, ShapeOK
<1>3. None # 201 /\ None # 409 /\ None # 404 /\ None # Lost
  BY MarkerAssumption
<1>4. \A endpoint : ~ Created(r, endpoint) /\ ~ Created(r, endpoint)'
  BY <1>2, <1>3 DEF Created
<1>5. PaymentsOK(r)'
  BY <1>1, <1>2, <1>3, <1>4 DEF RequestOK, PaymentsOK
<1>6. AccountsOK(r)'
  BY <1>1, <1>2, <1>3, <1>4 DEF RequestOK, AccountsOK
<1>7. RequestOK(r)' /\ MayAnswer(r, None)
  BY <1>3, <1>5, <1>6 DEF RequestOK, MayAnswer
<1>8. answer' = [answer EXCEPT ![r] = None] /\ None \in Answer
  BY <1>1, <1>2 DEF TypeOK, Answer
<1>. QED
  BY <1>7, <1>8, LocalStep

\* The pool gives a connection.
LEMMA ConnectStep == ASSUME IInv, NEW r \in Requests, Connect(r) PROVE IInv'
<1> DEFINE stage == IF pc[r] = "uow" THEN "create"
                    ELSE CASE req[r].endpoint = "create_account" -> "insert_account"
                           [] req[r].endpoint = "ingest_pain001" -> "debtor"
                           [] req[r].endpoint = "other" -> "serve"
           sessions == held[r] \cup {pc[r]}
<1>1. TypeOK /\ ShapeOK(r) /\ FoundOK(r)
  BY DEF IInv
<1>2. /\ pc[r] \in {"session", "uow"}
      /\ pc' = [pc EXCEPT ![r] = stage] /\ held' = [held EXCEPT ![r] = sessions]
      /\ UNCHANGED <<accounts, payments, req, answer>>
  BY DEF Connect
<1>3. req[r].endpoint \in {"create_account", "ingest_pain001", "other"}
  BY <1>1, <1>2 DEF TypeOK, ShapeOK, Request
<1>4. \/ stage = "create" /\ pc[r] = "uow" /\ req[r].endpoint = "ingest_pain001"
      \/ stage = "insert_account" /\ pc[r] = "session" /\ req[r].endpoint = "create_account"
      \/ stage = "debtor" /\ pc[r] = "session" /\ req[r].endpoint = "ingest_pain001"
      \/ stage = "serve" /\ pc[r] = "session" /\ req[r].endpoint = "other"
  BY <1>1, <1>2, <1>3 DEF ShapeOK, Pain001, DebtorFound, Accepted
<1>5. held[r] = IF pc[r] = "session" THEN {} ELSE {"session"}
  BY <1>1, <1>2 DEF ShapeOK, Sessions
<1>6. sessions = IF pc[r] = "uow" THEN {"session", "uow"} ELSE {"session"}
  BY <1>2, <1>5
<1>7. stage \in Stage \ {"new", "respond", "done"} /\ sessions \in SUBSET {"session", "uow"}
  BY <1>2, <1>4, <1>6 DEF Stage
<1> HIDE DEF stage, sessions
<1>8. pc'[r] = stage /\ held'[r] = sessions
  BY <1>1, <1>2 DEF TypeOK
<1>9. ShapeOK(r)'
  BY <1>1, <1>2, <1>4, <1>6, <1>8 DEF ShapeOK, Sessions, Pain001, DebtorFound, Accepted
<1>10. FoundOK(r)'
  BY <1>1, <1>2, <1>4, <1>8 DEF FoundOK, DebtorFound, Accepted
<1>. QED
  BY <1>2, <1>4, <1>7, <1>9, <1>10, GoOnStep

\* The pool refuses one.
LEMMA PoolTimeoutStep == ASSUME IInv, NEW r \in Requests, PoolTimeout(r) PROVE IInv'
BY RespondStep DEF PoolTimeout, MayAnswer

\* The INSERT of an account.
LEMMA InsertAccountStep == ASSUME IInv, NEW r \in Requests, InsertAccount(r) PROVE IInv'
<1>1. TypeOK /\ ShapeOK(r) /\ FoundOK(r)
  BY DEF IInv
<1>2. pc[r] = "insert_account" /\ req[r].endpoint = "create_account"
  BY <1>1 DEF InsertAccount, ShapeOK
<1>3. CASE accounts[req[r].body.number] = None
  <2>1. /\ pc' = [pc EXCEPT ![r] = "commit_account"]
        /\ UNCHANGED <<accounts, payments, req, held, answer>>
    BY <1>3 DEF InsertAccount, GoTo
  <2>2. \A q \in Requests : pc[q] = "commit_account" => req[q].body.number # req[r].body.number
    BY <1>2 DEF InsertAccount, WaitsForInsert
  <2>3. pc'[r] = "commit_account" /\ held' = [held EXCEPT ![r] = held[r]]
        /\ held[r] \in SUBSET {"session", "uow"}
    BY <1>1, <2>1 DEF TypeOK
  <2>4. ShapeOK(r)'
    BY <1>1, <1>2, <2>1, <2>3 DEF ShapeOK, Sessions, Pain001, DebtorFound, Accepted
  <2>5. FoundOK(r)'
    BY <1>1, <2>1, <2>3 DEF FoundOK, DebtorFound, Accepted
  <2>6. "commit_account" \in Stage \ {"new", "respond", "done"}
    BY DEF Stage
  <2>. QED
    BY <1>2, <1>3, <2>1, <2>2, <2>3, <2>4, <2>5, <2>6, GoOnStep
<1>4. CASE accounts[req[r].body.number] # None
  BY <1>2, <1>4, RespondStep DEF InsertAccount, MayAnswer
<1>. QED
  BY <1>3, <1>4

\* get_account_by_number for the debtor.
LEMMA LookupDebtorStep == ASSUME IInv, NEW r \in Requests, LookupDebtor(r) PROVE IInv'
<1> DEFINE m == req[r].body
<1>1. TypeOK /\ ShapeOK(r) /\ FoundOK(r)
  BY DEF IInv
<1>2. pc[r] = "debtor" /\ req[r].endpoint = "ingest_pain001"
  BY <1>1 DEF LookupDebtor, ShapeOK, Pain001
<1>3. CASE accounts[m.debtor] = None
  <2>1. m.debtor \notin req[r].known
    BY <1>1, <1>3 DEF FoundOK
  <2>. QED
    BY <1>2, <1>3, <2>1, RespondStep DEF LookupDebtor, MayAnswer
<1>4. CASE accounts[m.debtor] # None
  <2>1. /\ pc' = [pc EXCEPT ![r] = "creditor"]
        /\ UNCHANGED <<accounts, payments, req, held, answer>>
    BY <1>4 DEF LookupDebtor, GoTo
  <2>2. pc'[r] = "creditor" /\ held' = [held EXCEPT ![r] = held[r]]
        /\ held[r] \in SUBSET {"session", "uow"}
    BY <1>1, <2>1 DEF TypeOK
  <2>3. ShapeOK(r)'
    BY <1>1, <1>2, <2>1, <2>2 DEF ShapeOK, Sessions, Pain001, DebtorFound, Accepted
  <2>4. FoundOK(r)'
    BY <1>1, <1>4, <2>1, <2>2 DEF FoundOK, DebtorFound, Accepted
  <2>5. "creditor" \in Stage \ {"new", "respond", "done"}
    BY DEF Stage
  <2>. QED
    BY <1>2, <2>1, <2>2, <2>3, <2>4, <2>5, GoOnStep
<1>. QED
  BY <1>3, <1>4

\* For the creditor, and the checks of the services.
LEMMA LookupCreditorStep == ASSUME IInv, NEW r \in Requests, LookupCreditor(r) PROVE IInv'
<1> DEFINE m == req[r].body
<1>1. TypeOK /\ ShapeOK(r) /\ FoundOK(r)
  BY DEF IInv
<1>2. pc[r] = "creditor" /\ req[r].endpoint = "ingest_pain001"
  BY <1>1 DEF LookupCreditor, ShapeOK, Pain001, DebtorFound
<1>3. CASE accounts[m.creditor] = None
  <2>1. m.creditor \notin req[r].known
    BY <1>1, <1>3 DEF FoundOK
  <2>. QED
    BY <1>2, <1>3, <2>1, RespondStep DEF LookupCreditor, MayAnswer
<1>4. CASE accounts[m.creditor] # None /\ Refusal(m) # None
  <2>1. Refusal(m) \in {422, 500}
    BY <1>4 DEF Refusal
  <2>2. Respond(r, Refusal(m)) /\ UNCHANGED <<accounts, payments, req>>
    BY <1>4 DEF LookupCreditor
  <2>3. MayAnswer(r, Refusal(m))
    BY <2>1 DEF MayAnswer
  <2>. QED
    BY <1>2, <2>1, <2>2, <2>3, RespondStep
<1>5. CASE accounts[m.creditor] # None /\ Refusal(m) = None
  <2>1. /\ pc' = [pc EXCEPT ![r] = "uow"]
        /\ UNCHANGED <<accounts, payments, req, held, answer>>
    BY <1>5 DEF LookupCreditor, GoTo
  <2>2. pc'[r] = "uow" /\ held' = [held EXCEPT ![r] = held[r]]
        /\ held[r] \in SUBSET {"session", "uow"}
    BY <1>1, <2>1 DEF TypeOK
  <2>3. ShapeOK(r)'
    BY <1>1, <1>2, <2>1, <2>2 DEF ShapeOK, Sessions, Pain001, DebtorFound, Accepted
  <2>4. FoundOK(r)'
    BY <1>1, <1>2, <1>5, <2>1, <2>2 DEF FoundOK, DebtorFound, Accepted
  <2>5. "uow" \in Stage \ {"new", "respond", "done"}
    BY DEF Stage
  <2>. QED
    BY <1>2, <2>1, <2>2, <2>3, <2>4, <2>5, GoOnStep
<1>. QED
  BY <1>3, <1>4, <1>5

\* _create_payment_within.
LEMMA CreatePaymentStep == ASSUME IInv, NEW r \in Requests, CreatePayment(r) PROVE IInv'
<1> DEFINE m == req[r].body
<1>1. TypeOK /\ ShapeOK(r) /\ FoundOK(r)
  BY DEF IInv
<1>2. pc[r] = "create" /\ req[r].endpoint = "ingest_pain001" /\ Refusal(m) = None
  BY <1>1 DEF CreatePayment, ShapeOK, FoundOK, Pain001, DebtorFound, Accepted
<1>3. CASE Respond(r, 500)
  BY <1>2, <1>3, RespondStep DEF CreatePayment, MayAnswer
<1>4. CASE Rounded(m.amount) = 0 /\ Respond(r, 404)
  <2>1. m.amount # NaN
    BY <1>2, MarkerAssumption DEF Refusal
  <2>. QED
    BY <1>2, <1>4, <2>1, RespondStep DEF CreatePayment, MayAnswer
<1>5. CASE /\ accounts[m.debtor].currency = m.currency
           /\ Rounded(m.amount) \in 1 .. MaxNumeric /\ GoTo(r, "commit_payment")
  <2>1. /\ pc' = [pc EXCEPT ![r] = "commit_payment"]
        /\ UNCHANGED <<accounts, payments, req, held, answer>>
    BY <1>5 DEF CreatePayment, GoTo
  <2>2. pc'[r] = "commit_payment" /\ held' = [held EXCEPT ![r] = held[r]]
        /\ held[r] \in SUBSET {"session", "uow"}
    BY <1>1, <2>1 DEF TypeOK
  <2>3. ShapeOK(r)'
    BY <1>1, <1>2, <2>1, <2>2 DEF ShapeOK, Sessions, Pain001, DebtorFound, Accepted
  <2>4. FoundOK(r)'
    BY <1>1, <1>2, <1>5, <2>1, <2>2 DEF FoundOK, DebtorFound, Accepted
  <2>5. "commit_payment" \in Stage \ {"new", "respond", "done"}
    BY DEF Stage
  <2>. QED
    BY <1>2, <2>1, <2>2, <2>3, <2>4, <2>5, GoOnStep
<1>. QED
  BY <1>3, <1>4, <1>5 DEF CreatePayment

\* Any other endpoint, and the answer to a request that has committed.
LEMMA ServeStep == ASSUME IInv, NEW r \in Requests, Serve(r) PROVE IInv'
BY RespondStep DEF Serve, MayAnswer

LEMMA RespondCreatedStep == ASSUME IInv, NEW r \in Requests, RespondCreated(r) PROVE IInv'
BY RespondStep DEF RespondCreated, MayAnswer

-----------------------------------------------------------------------------
(* Steps that write to the database, or that move more than one request.    *)

\* A request arrives, and knows only accounts that exist.
LEMMA ReceiveStep ==
    ASSUME IInv, NEW r \in Requests, NEW endpoint, NEW body,
           NEW stage \in {"session", "done"}, NEW status \in {None, 400},
           Receive(r, endpoint, body),
           pc' = [pc EXCEPT ![r] = stage],
           answer' = [answer EXCEPT ![r] = status],
           held' = [held EXCEPT ![r] = {}],
           stage = "session" <=> status = None,
           stage = "session" /\ endpoint = "ingest_pain001" => Parses(body),
           [endpoint |-> endpoint, body |-> body, known |-> Confirmed] \in Request
    PROVE  IInv'
<1> DEFINE new == [endpoint |-> endpoint, body |-> body, known |-> Confirmed]
<1>1. TypeOK /\ RequestOK(r) /\ pc[r] = "new"
  BY DEF IInv, RequestOK, Receive
<1>2. /\ req' = [req EXCEPT ![r] = new] /\ UNCHANGED <<accounts, payments>>
      /\ req[r] = NoRequest /\ answer[r] = None
  BY <1>1 DEF Receive, RequestOK, ShapeOK
<1>3. /\ \A q \in Requests : q # r => /\ pc'[q] = pc[q] /\ held'[q] = held[q]
                                      /\ answer'[q] = answer[q] /\ req'[q] = req[q]
      /\ pc'[r] = stage /\ answer'[r] = status /\ held'[r] = {}
      /\ req'[r].endpoint = endpoint /\ req'[r].body = body /\ req'[r].known = Confirmed
      /\ req'[r] = new
  BY <1>1, <1>2 DEF TypeOK
<1>4. TypeOK'
  BY <1>1, <1>2 DEF TypeOK, Stage
<1>5. new # NoRequest
  BY MarkerAssumption DEF Request, NoRequest
<1>6. /\ None # 201 /\ None # 409 /\ None # 404 /\ None # Lost
      /\ status \notin {201, 404, 409, Lost}
  BY MarkerAssumption
<1>7. \A n \in Confirmed : accounts[n] # None
  <2> SUFFICES ASSUME NEW n \in Confirmed PROVE accounts[n] # None
    OBVIOUS
  <2>1. CASE Seeded[n] # None
    BY <2>1 DEF Confirmed, IInv, SeededStay
  <2>2. CASE \E q \in Requests : /\ req[q].endpoint = "create_account"
                                 /\ req[q].body.number = n /\ answer[q] = 201
    <3>1. PICK q \in Requests : /\ req[q].endpoint = "create_account"
                                /\ req[q].body.number = n /\ answer[q] = 201
      BY <2>2
    <3>2. AccountsOK(q) /\ req[q] \in Request \cup {NoRequest}
      BY <1>1 DEF IInv, TypeOK
    <3>3. accounts[n] = NewAccount(q, Upper[req[q].body.currency])
      BY <3>1, <3>2 DEF AccountsOK, Created
    <3>4. req[q].body \in Creations
      BY <3>1, <3>2, MarkerAssumption DEF Request, NoRequest
    <3>5. NewAccount(q, Upper[req[q].body.currency]) \in [id : Nat, currency : Currencies]
      BY <3>4, DataAssumption DEF NewAccount, Requests
    <3>. QED
      BY <3>3, <3>5, MarkerAssumption
  <2>. QED
    BY <2>1, <2>2 DEF Confirmed
<1>8. RequestOK(r)'
  <2>1. \A e : ~ Created(r, e) /\ ~ Created(r, e)'
    BY <1>1, <1>2, <1>3, <1>6 DEF Created
  <2>2. ShapeOK(r)'
    BY <1>3, <1>5 DEF ShapeOK, Sessions, Pain001, DebtorFound, Accepted
  <2>3. FoundOK(r)'
    BY <1>2, <1>3, <1>7 DEF FoundOK, DebtorFound, Accepted
  <2>4. PaymentsOK(r)' /\ AccountsOK(r)'
    BY <1>1, <1>2, <1>3, <1>6, <2>1 DEF RequestOK, PaymentsOK, AccountsOK
  <2>. QED
    BY <2>2, <2>3, <2>4 DEF RequestOK
<1>9. ASSUME NEW q \in Requests, q # r PROVE RequestOK(q)'
  <2>1. RequestOK(q)
    BY DEF IInv, RequestOK
  <2>. QED
    BY <1>2, <1>3, <1>9, <2>1 DEF RequestOK, ShapeOK, Sessions, FoundOK, PaymentsOK,
                                  AccountsOK, Created, NewPayment
<1>10. InsertsExclude'
  BY <1>3 DEF IInv, InsertsExclude
<1>11. SeededStay' /\ PaymentsAreValid'
  BY <1>2 DEF IInv, SeededStay, PaymentsAreValid
<1>12. ConfirmedAccountsAreFound'
  BY <1>3, <1>6 DEF IInv, ConfirmedAccountsAreFound
<1>. QED
  BY <1>4, <1>8, <1>9, <1>10, <1>11, <1>12 DEF IInv, RequestOK

\* The three ways for a request to arrive.
LEMMA ArriveStep == ASSUME IInv, NEW r \in Requests, Arrive(r) PROVE IInv'
<1>1. TypeOK /\ ShapeOK(r) /\ pc[r] = "new"
  BY DEF IInv, Arrive, ReceiveCreateAccount, ReceivePain001, ReceiveOther, Receive
<1>2. /\ held[r] = {} /\ answer[r] = None
      /\ held = [held EXCEPT ![r] = {}] /\ answer = [answer EXCEPT ![r] = None]
  BY <1>1 DEF TypeOK, ShapeOK, Sessions
<1>3. Confirmed \in SUBSET Numbers
  BY DEF Confirmed
<1>4. CASE \E body \in Creations : ReceiveCreateAccount(r, body)
  <2>1. PICK body \in Creations : ReceiveCreateAccount(r, body)
    BY <1>4
  <2>2. [endpoint |-> "create_account", body |-> body, known |-> Confirmed] \in Request
    BY <1>3 DEF Request
  <2>. QED
    BY <1>2, <2>1, <2>2, ReceiveStep, ZenonT(60) DEF ReceiveCreateAccount, GoTo
<1>5. CASE \E m \in Messages : ReceivePain001(r, m)
  <2>1. PICK m \in Messages : ReceivePain001(r, m)
    BY <1>5
  <2>2. [endpoint |-> "ingest_pain001", body |-> m, known |-> Confirmed] \in Request
    BY <1>3 DEF Request
  <2>3. CASE Parses(m)
    BY <1>2, <2>1, <2>2, <2>3, ReceiveStep DEF ReceivePain001, GoTo
  <2>4. CASE ~ Parses(m)
    <3>1. None # 400
      BY MarkerAssumption
    <3>. QED
      BY <2>1, <2>2, <2>4, <3>1, ReceiveStep DEF ReceivePain001, Respond
  <2>. QED
    BY <2>3, <2>4
<1>6. CASE ReceiveOther(r)
  <2>1. [endpoint |-> "other", body |-> None, known |-> Confirmed] \in Request
    BY <1>3 DEF Request
  <2>. QED
    BY <1>2, <1>6, <2>1, ReceiveStep, ZenonT(60) DEF ReceiveOther, GoTo
<1>. QED
  BY <1>4, <1>5, <1>6 DEF Arrive

\* The fields of a request, by its endpoint and its stage.
LEMMA BodyFields ==
    ASSUME TypeOK, NEW r \in Requests, ShapeOK(r)
    PROVE  /\ req[r].known \subseteq Numbers
           /\ req[r].endpoint = "create_account" =>
                /\ req[r].body.number \in Numbers
                /\ Upper[req[r].body.currency] \in Currencies
           /\ pc[r] \in Pain001 =>
                /\ req[r].body.debtor \in Numbers /\ req[r].body.creditor \in Numbers
                /\ req[r].body.currency \in Currencies
                /\ req[r].body.amount \in Int \cup {NaN}
<1>1. req[r] \in Request \cup {NoRequest}
  BY DEF TypeOK
<1>2. req[r].known \subseteq Numbers
  BY <1>1 DEF Request, NoRequest
<1>3. ASSUME req[r].endpoint = "create_account" PROVE req[r].body \in Creations
  BY <1>1, <1>3, MarkerAssumption DEF Request, NoRequest
<1>4. ASSUME pc[r] \in Pain001 PROVE req[r].body \in Messages /\ Parses(req[r].body)
  <2>1. req[r].endpoint = "ingest_pain001" /\ pc[r] # "done"
    BY <1>4 DEF ShapeOK, Pain001, DebtorFound, Accepted
  <2>. QED
    BY <1>1, <2>1, MarkerAssumption DEF Request, NoRequest, ShapeOK
<1>. QED
  BY <1>2, <1>3, <1>4, DataAssumption, MessagesAssumption

\* An account is committed.
LEMMA CommitAccountStep == ASSUME IInv, NEW r \in Requests, CommitAccount(r) PROVE IInv'
<1> DEFINE number == req[r].body.number
           row == NewAccount(r, Upper[req[r].body.currency])
<1>1. TypeOK /\ RequestOK(r) /\ pc[r] = "commit_account" /\ req[r].endpoint = "create_account"
  BY DEF IInv, RequestOK, CommitAccount, ShapeOK
<1>2. number \in Numbers /\ Upper[req[r].body.currency] \in Currencies
  BY <1>1, BodyFields DEF RequestOK
<1>3. /\ accounts' = [accounts EXCEPT ![number] = row]
      /\ pc' = [pc EXCEPT ![r] = "respond"] /\ held' = [held EXCEPT ![r] = held[r] \ {"session"}]
      /\ UNCHANGED <<payments, req, answer>>
  BY DEF CommitAccount, EndTransaction
<1>4. accounts[number] = None /\ answer[r] = None /\ held[r] = {"session"}
  BY <1>1 DEF RequestOK, AccountsOK, ShapeOK, Sessions
<1>5. row \in [id : Nat, currency : Currencies] /\ row # None /\ row.id = r
      /\ row \in [id : {0} \cup Requests, currency : Currencies]
  BY <1>2, MarkerAssumption DEF NewAccount, Requests
<1>6. /\ accounts'[number] = row
      /\ \A n \in Numbers : n # number => accounts'[n] = accounts[n]
      /\ \A n \in Numbers : accounts[n] # None => accounts'[n] = accounts[n]
  BY <1>1, <1>2, <1>3, <1>4 DEF TypeOK
<1>7. /\ pc'[r] = "respond" /\ held'[r] = {}
      /\ \A q \in Requests : q # r => pc'[q] = pc[q] /\ held'[q] = held[q]
  BY <1>1, <1>3, <1>4 DEF TypeOK
<1>8. TypeOK'
  <2>1. accounts' \in [Numbers -> {None} \cup [id : {0} \cup Requests, currency : Currencies]]
    BY <1>1, <1>3, <1>5, ZenonT(60) DEF TypeOK
  <2>2. pc' \in [Requests -> Stage] /\ held' \in [Requests -> SUBSET {"session", "uow"}]
    BY <1>1, <1>3 DEF TypeOK, Stage
  <2>. QED
    BY <1>1, <1>3, <2>1, <2>2 DEF TypeOK
<1> HIDE DEF row
<1>9. RequestOK(r)'
  <2>1. ShapeOK(r)'
    BY <1>1, <1>3, <1>7 DEF RequestOK, ShapeOK, Sessions, Pain001, DebtorFound, Accepted
  <2>2. req[r].known \subseteq Numbers
    BY <1>1, BodyFields DEF RequestOK
  <2>3. FoundOK(r)'
    BY <1>1, <1>3, <1>6, <1>7, <2>2 DEF RequestOK, FoundOK, DebtorFound, Accepted
  <2>4. PaymentsOK(r)'
    BY <1>1, <1>3, <1>4, <1>7, MarkerAssumption DEF RequestOK, PaymentsOK, Created
  <2>5. AccountsOK(r)'
    BY <1>1, <1>3, <1>4, <1>6, <1>7, MarkerAssumption DEF AccountsOK, Created, row
  <2>. QED
    BY <2>1, <2>3, <2>4, <2>5 DEF RequestOK
<1>10. ASSUME NEW q \in Requests, q # r PROVE RequestOK(q)'
  <2>1. RequestOK(q)
    BY DEF IInv, RequestOK
  <2>2. /\ req[q].known \subseteq Numbers
        /\ req[q].endpoint = "create_account" => req[q].body.number \in Numbers
        /\ pc[q] \in Pain001 =>
             req[q].body.debtor \in Numbers /\ req[q].body.creditor \in Numbers
    BY <1>1, <2>1, BodyFields DEF RequestOK
  <2>3. ShapeOK(q)' /\ PaymentsOK(q)'
    BY <1>3, <1>7, <1>10, <2>1 DEF RequestOK, ShapeOK, Sessions, PaymentsOK, Created, NewPayment
  <2>4. FoundOK(q)'
    BY <1>3, <1>6, <1>7, <1>10, <2>1, <2>2 DEF RequestOK, FoundOK, Pain001, DebtorFound, Accepted
  <2>5. AccountsOK(q)'
    <3>1. Created(q, "create_account")' <=> Created(q, "create_account")
      BY <1>3, <1>7, <1>10 DEF Created
    <3>2. CASE Created(q, "create_account")
      <4>1. accounts[req[q].body.number] = NewAccount(q, Upper[req[q].body.currency])
        BY <2>1, <3>2 DEF RequestOK, AccountsOK
      <4>2. req[q].endpoint = "create_account" /\ Upper[req[q].body.currency] \in Currencies
        BY <1>1, <2>1, <3>2, BodyFields DEF RequestOK, Created
      <4>3. accounts[req[q].body.number] # None
        BY <4>1, <4>2, MarkerAssumption DEF NewAccount, Requests
      <4>4. accounts'[req[q].body.number] = accounts[req[q].body.number]
        BY <1>6, <2>2, <4>2, <4>3
      <4>5. pc[q] # "commit_account"
        BY <2>1, <3>2, MarkerAssumption DEF RequestOK, Created, ShapeOK
      <4>. QED
        BY <1>3, <1>7, <1>10, <3>1, <3>2, <4>1, <4>3, <4>4, <4>5 DEF AccountsOK
    <3>3. CASE ~ Created(q, "create_account")
      <4>1. answer[q] # Lost => \A n \in Numbers : accounts'[n] # None => accounts'[n].id # q
        BY <1>5, <1>6, <1>10, <2>1, <3>3 DEF RequestOK, AccountsOK
      <4>2. req[q].endpoint = "create_account" /\ answer[q] = 409 =>
              accounts'[req[q].body.number] # None
        BY <1>6, <2>1, <2>2 DEF RequestOK, AccountsOK
      <4>3. ASSUME pc[q] = "commit_account" PROVE accounts'[req[q].body.number] = None
        <5>1. req[q].body.number # number
          BY <1>1, <1>10, <4>3 DEF IInv, InsertsExclude
        <5>2. req[q].endpoint = "create_account" /\ accounts[req[q].body.number] = None
          BY <2>1, <4>3 DEF RequestOK, AccountsOK, ShapeOK
        <5>. QED
          BY <1>6, <2>2, <5>1, <5>2
      <4>. QED
        BY <1>3, <1>7, <1>10, <3>1, <3>3, <4>1, <4>2, <4>3 DEF AccountsOK
    <3>. QED
      BY <3>2, <3>3
  <2>. QED
    BY <2>3, <2>4, <2>5 DEF RequestOK
<1>11. InsertsExclude'
  BY <1>3, <1>7 DEF IInv, InsertsExclude
<1>12. SeededStay' /\ ConfirmedAccountsAreFound'
  BY <1>3, <1>6 DEF IInv, SeededStay, ConfirmedAccountsAreFound
<1>13. PaymentsAreValid'
  <2>1. \A p \in payments : p.debtor \in Numbers /\ p.creditor \in Numbers
    BY <1>1 DEF TypeOK
  <2>. QED
    BY <1>3, <1>6, <2>1 DEF IInv, PaymentsAreValid
<1>. QED
  BY <1>8, <1>9, <1>10, <1>11, <1>12, <1>13 DEF IInv, RequestOK

\* A payment is committed.
LEMMA CommitPaymentStep == ASSUME IInv, NEW r \in Requests, CommitPayment(r) PROVE IInv'
<1> DEFINE m == req[r].body
<1>1. /\ TypeOK /\ RequestOK(r) /\ pc[r] = "commit_payment"
      /\ req[r].endpoint = "ingest_pain001" /\ answer[r] = None
  BY DEF IInv, RequestOK, CommitPayment, ShapeOK, Pain001, DebtorFound, Accepted
<1>2. PICK payment : payment = NewPayment(r)
  OBVIOUS
<1>3. /\ payments' = payments \cup {payment}
      /\ pc' = [pc EXCEPT ![r] = "respond"] /\ held' = [held EXCEPT ![r] = held[r] \ {"uow"}]
      /\ UNCHANGED <<accounts, req, answer>>
  BY <1>2 DEF CommitPayment, EndTransaction
<1>4. /\ accounts[m.debtor] # None /\ accounts[m.creditor] # None
      /\ Refusal(m) = None /\ accounts[m.debtor].currency = m.currency
      /\ Rounded(m.amount) \in 1 .. MaxNumeric
      /\ held[r] = {"session", "uow"}
  BY <1>1 DEF RequestOK, FoundOK, DebtorFound, Accepted, ShapeOK, Sessions
<1>5. m.debtor \in Numbers /\ m.creditor \in Numbers /\ m.currency \in Currencies
  BY <1>1, BodyFields DEF RequestOK, Pain001, DebtorFound, Accepted
<1>6. m.debtor # m.creditor
  BY <1>4, MarkerAssumption DEF Refusal
<1>7. /\ payment \in [id : Requests, debtor : Numbers, creditor : Numbers,
                      amount : 1 .. MaxNumeric, currency : Currencies]
      /\ payment.id = r /\ payment.debtor = m.debtor /\ payment.creditor = m.creditor
      /\ payment.currency = m.currency
  BY <1>2, <1>4, <1>5 DEF NewPayment
<1>8. /\ pc'[r] = "respond" /\ held'[r] = {"session"}
      /\ \A q \in Requests : q # r => pc'[q] = pc[q] /\ held'[q] = held[q]
  BY <1>1, <1>3, <1>4 DEF TypeOK
<1>9. TypeOK'
  BY <1>1, <1>3, <1>7 DEF TypeOK, Stage
<1>10. RequestOK(r)'
  <2>1. ShapeOK(r)'
    BY <1>1, <1>3, <1>8 DEF RequestOK, ShapeOK, Sessions, Pain001, DebtorFound, Accepted
  <2>2. FoundOK(r)'
    BY <1>1, <1>3, <1>8 DEF RequestOK, FoundOK, DebtorFound, Accepted
  <2>3. \A p \in payments : p.id # r
    BY <1>1, MarkerAssumption DEF RequestOK, PaymentsOK, Created
  <2>4. {p \in payments' : p.id = r} = {payment}
    BY <1>3, <1>7, <2>3
  <2>5. Created(r, "ingest_pain001")' /\ NewPayment(r)' = payment
    BY <1>1, <1>2, <1>3, <1>8 DEF Created, NewPayment
  <2>6. PaymentsOK(r)'
    BY <2>4, <2>5 DEF PaymentsOK
  <2>7. AccountsOK(r)'
    BY <1>1, <1>3, <1>8, MarkerAssumption DEF RequestOK, AccountsOK, Created
  <2>. QED
    BY <2>1, <2>2, <2>6, <2>7 DEF RequestOK
<1>11. ASSUME NEW q \in Requests, q # r PROVE RequestOK(q)'
  <2>1. RequestOK(q)
    BY DEF IInv, RequestOK
  <2>2. {p \in payments' : p.id = q} = {p \in payments : p.id = q}
    BY <1>3, <1>7, <1>11
  <2>3. /\ Created(q, "ingest_pain001")' <=> Created(q, "ingest_pain001")
        /\ NewPayment(q)' = NewPayment(q)
    BY <1>3, <1>8, <1>11 DEF Created, NewPayment
  <2>4. PaymentsOK(q)'
    BY <1>3, <1>7, <1>11, <2>1, <2>2, <2>3 DEF RequestOK, PaymentsOK
  <2>. QED
    BY <1>3, <1>8, <1>11, <2>1, <2>4 DEF RequestOK, ShapeOK, Sessions, FoundOK, AccountsOK, Created
<1>12. InsertsExclude'
  BY <1>3, <1>8 DEF IInv, InsertsExclude
<1>13. SeededStay' /\ ConfirmedAccountsAreFound'
  BY <1>3 DEF IInv, SeededStay, ConfirmedAccountsAreFound
<1>14. PaymentsAreValid'
  BY <1>3, <1>4, <1>6, <1>7 DEF IInv, PaymentsAreValid
<1>. QED
  BY <1>9, <1>10, <1>11, <1>12, <1>13, <1>14 DEF IInv, RequestOK

\* The process dies, and every request in flight with it.
LEMMA CrashStep == ASSUME IInv, Crash PROVE IInv'
<1>1. TypeOK /\ UNCHANGED <<accounts, payments, req>>
  BY DEF IInv, Crash
<1>2. \A r \in Requests :
        /\ held'[r] = {}
        /\ \/ pc[r] \in {"new", "done"} /\ pc'[r] = pc[r] /\ answer'[r] = answer[r]
           \/ pc[r] \notin {"new", "done"} /\ pc'[r] = "done" /\ answer'[r] = Lost
  BY DEF Crash
<1>3. TypeOK'
  BY <1>1 DEF Crash, TypeOK, Stage
<1>4. Lost # 201 /\ Lost # 409 /\ Lost # 404 /\ None # Lost
  BY MarkerAssumption
<1>5. ASSUME NEW r \in Requests PROVE RequestOK(r)'
  <2>1. RequestOK(r)
    BY DEF IInv, RequestOK
  <2>2. ShapeOK(r)' /\ FoundOK(r)'
    BY <1>1, <1>2, <2>1
       DEF RequestOK, ShapeOK, FoundOK, Sessions, Pain001, DebtorFound, Accepted
  <2>3. PaymentsOK(r)' /\ AccountsOK(r)'
    BY <1>1, <1>2, <1>4, <2>1 DEF RequestOK, PaymentsOK, AccountsOK, Created, NewPayment
  <2>. QED
    BY <2>2, <2>3 DEF RequestOK
<1>6. InsertsExclude' /\ SeededStay' /\ PaymentsAreValid'
  BY <1>1, <1>2 DEF IInv, InsertsExclude, SeededStay, PaymentsAreValid
<1>7. ConfirmedAccountsAreFound'
  BY <1>1, <1>2, <1>4 DEF IInv, ConfirmedAccountsAreFound
<1>. QED
  BY <1>3, <1>5, <1>6, <1>7 DEF IInv, RequestOK

\* Every step keeps the inductive invariant.
LEMMA NextIInv == IInv /\ [Next]_vars => IInv'
<1> SUFFICES ASSUME IInv, [Next]_vars PROVE IInv'
  OBVIOUS
<1>1. CASE UNCHANGED vars
  BY <1>1 DEF vars, IInv, TypeOK, ShapeOK, Sessions, FoundOK, PaymentsOK, AccountsOK, Created,
              NewPayment, InsertsExclude, SeededStay, PaymentsAreValid, ConfirmedAccountsAreFound
<1>2. ASSUME NEW r \in Requests, Arrive(r) PROVE IInv'
  BY <1>2, ArriveStep
<1>3. ASSUME NEW r \in Requests, Advance(r) PROVE IInv'
  BY <1>3, ConnectStep, PoolTimeoutStep, InsertAccountStep, CommitAccountStep, LookupDebtorStep,
     LookupCreditorStep, CreatePaymentStep, CommitPaymentStep, ServeStep, RespondCreatedStep
     DEF Advance
<1>4. CASE Crash
  BY <1>4, CrashStep
<1>. QED
  BY <1>1, <1>2, <1>3, <1>4 DEF Next

\* What an API process keeps true, whatever requests it receives.
THEOREM Inductive == Spec => []IInv
BY InitIInv, NextIInv, PTL DEF Spec

\* The type invariant holds.
THEOREM TypeCorrect == Spec => []TypeOK
BY Inductive, PTL DEF IInv

\* Every answer tells the truth about what its request left in the database,
\* whatever requests ran beside it (create_account and ingest_pain001).
THEOREM AnswersAreTrue == Spec => []AnswersMatchEffects
<1>1. IInv => AnswersMatchEffects
  <2> SUFFICES ASSUME IInv, NEW r \in Requests
               PROVE  AnswersMatchEffects!(r)
    BY DEF AnswersMatchEffects
  <2> DEFINE body == req[r].body
  <2>1. RequestOK(r)
    BY DEF IInv, RequestOK
  <2>2. ASSUME req[r].endpoint = "ingest_pain001", answer[r] \notin {None, Lost}
        PROVE  {p \in payments : p.id = r} =
                 IF answer[r] = 201
                 THEN {[id |-> r, debtor |-> body.debtor, creditor |-> body.creditor,
                        amount |-> Rounded(body.amount), currency |-> body.currency]}
                 ELSE {}
    <3>1. pc[r] = "done"
      BY <2>1, <2>2 DEF RequestOK, ShapeOK
    <3>2. Created(r, "ingest_pain001") <=> answer[r] = 201
      BY <2>2, <3>1 DEF Created
    <3>. QED
      BY <2>1, <2>2, <3>2 DEF RequestOK, PaymentsOK, NewPayment
  <2>3. ASSUME req[r].endpoint = "create_account", answer[r] = 201
        PROVE  accounts[body.number] = NewAccount(r, Upper[body.currency])
    BY <2>1, <2>3 DEF RequestOK, AccountsOK, Created
  <2>4. ASSUME req[r].endpoint = "create_account", answer[r] \in {409, 500}
        PROVE  /\ \A n \in Numbers : accounts[n] # None => accounts[n].id # r
               /\ answer[r] = 409 => accounts[body.number] # None
    <3>1. answer[r] # None /\ answer[r] # Lost
      BY <2>4, MarkerAssumption
    <3>2. ~ Created(r, "create_account")
      BY <2>1, <2>4, <3>1 DEF RequestOK, ShapeOK, Created
    <3>. QED
      BY <2>1, <2>4, <3>1, <3>2 DEF RequestOK, AccountsOK
  <2>5. req[r].endpoint = "create_account" => body.number \in Numbers
    BY <2>1, BodyFields DEF IInv, RequestOK
  <2>. QED
    BY <2>2, <2>3, <2>4, <2>5
<1>. QED
  BY <1>1, Inductive, PTL

\* Every committed payment is between two different accounts that exist, in the
\* debtor's currency (_validate_new_payment and _create_payment_within).
THEOREM OnlyValidPayments == Spec => []PaymentsAreValid
BY Inductive, PTL DEF IInv

\* A client that knows both accounts is not told that one is missing
\* (get_account_by_number in ingest_pain001).
THEOREM KnownAccountsAreFound == Spec => []ConfirmedAccountsAreFound
BY Inductive, PTL DEF IInv

\* A pool can only stall on pain.001 requests, as many as it has connections:
\* all others release what they hold without asking for more (get_session and
\* SqlAlchemyUnitOfWork).
THEOREM OnlyPain001Stalls == Spec => []PoolStallsOnlyOnPain001
<1>1. IInv => PoolStallsOnlyOnPain001
  <2> DEFINE waiting == {r \in Requests : pc[r] = "uow" /\ req[r].endpoint = "ingest_pain001"}
  <2> SUFFICES ASSUME IInv, PoolIsFull,
                      \A r \in Requests : held[r] # {} /\ pc[r] \notin {"uow", "done"} =>
                          WaitsForInsert(r)
               PROVE  Cardinality(waiting) >= Capacity
    BY DEF PoolStallsOnlyOnPain001
  <2>1. \A r \in Requests : ShapeOK(r) /\ pc[r] \in Stage
    BY DEF IInv, TypeOK
  <2>2. \A r \in Requests : ~ WaitsForInsert(r)
    <3> SUFFICES ASSUME NEW r \in Requests, WaitsForInsert(r) PROVE FALSE
      OBVIOUS
    <3>1. PICK q \in Requests : pc[q] = "commit_account"
      BY DEF WaitsForInsert
    <3>2. held[q] = {"session"}
      BY <2>1, <3>1 DEF ShapeOK, Sessions
    <3>. QED
      BY <3>1, <3>2 DEF WaitsForInsert
  <2>3. \A r \in Requests : held[r] # {} => r \in waiting /\ held[r] = {"session"}
    <3> SUFFICES ASSUME NEW r \in Requests, held[r] # {}
                 PROVE  r \in waiting /\ held[r] = {"session"}
      OBVIOUS
    <3>1. pc[r] \in {"uow", "done"}
      BY <2>2
    <3>2. pc[r] = "uow"
      BY <2>1, <3>1 DEF ShapeOK, Sessions
    <3>. QED
      BY <2>1, <3>2 DEF ShapeOK, Sessions, Pain001, DebtorFound, Accepted
  <2>4. \A c \in InUse : c = <<c[1], "session">> /\ c[1] \in waiting
    BY <2>3 DEF InUse
  <2>5. IsFiniteSet(waiting)
    <3>1. IsFiniteSet(Requests)
      BY PoolAssumption, FS_Interval DEF Requests
    <3>. QED
      BY <3>1, FS_Subset
  <2>6. /\ IsFiniteSet(InUse) /\ Cardinality(InUse) <= Cardinality(waiting)
    <3> DEFINE f == [c \in InUse |-> c[1]]
    <3>1. f \in [InUse -> waiting] /\ \A c, d \in InUse : f[c] = f[d] => c = d
      BY <2>4
    <3>2. f \in Injection(InUse, waiting)
      BY <3>1 DEF Injection, IsInjective
    <3>. QED
      BY <2>5, <3>2, FS_Injection
  <2>7. Cardinality(InUse) \in Nat /\ Cardinality(waiting) \in Nat
    BY <2>5, <2>6, FS_CardinalityType
  <2>. QED
    BY <2>6, <2>7, PoolAssumption DEF PoolIsFull
<1>. QED
  BY <1>1, Inductive, PTL
=============================================================================
