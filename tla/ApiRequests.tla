---------------------------- MODULE ApiRequests ----------------------------
(***************************************************************************)
(* The requests of one API process over its pool of database connections:  *)
(* POST /accounts, POST /iso20022/pain001, and the endpoints that use one  *)
(* session.  A session takes a connection at its first statement and       *)
(* returns it when it commits, rolls back or closes; the pain.001 endpoint *)
(* opens a unit of work while its own session still holds a connection.    *)
(* Clients that have no answer in time send their message again.           *)
(*                                                                         *)
(* What happens to a payment later is PaymentTransitions.                  *)
(*                                                                         *)
(* A definition F_Xxx placed before F is a mutant of F, a plausible bug    *)
(* that a property must catch; the specification uses none of them.        *)
(***************************************************************************)
EXTENDS Integers, FiniteSets

CONSTANTS
    MaxRequests,  \* bound on the requests received
    Numbers,      \* account numbers
    Currencies,   \* currency codes as clients write them
    Upper,        \* Upper[c]: c in upper case
    Seeded,       \* Seeded[n]: the currency of an account there is from the start, or None
    Creations,    \* bodies of POST /accounts: number and currency
    Messages,     \* pain.001 messages, see Parses
    Capacity,     \* pool_size + max_overflow
    MaxNumeric,   \* the largest amount the column of a payment holds, in cents
    NaN,          \* the Decimal of that name
    Malformed,    \* the text of an amount that is no Decimal
    Lost,         \* in place of a status code: the request died
    None

ASSUME PoolAssumption == Capacity \in Nat \ {0} /\ MaxRequests \in Nat /\ MaxNumeric \in Nat
ASSUME DataAssumption ==
    /\ Upper \in [Currencies -> Currencies]
    /\ Seeded \in [Numbers -> Currencies \cup {None}]
    /\ Creations \subseteq [number : Numbers, currency : Currencies]
\* The markers are none of the values they stand beside.
ASSUME MarkerAssumption ==
    /\ {None, Lost} \cap Int = {}
    /\ None # Lost
    /\ None \notin {"create_account", "ingest_pain001", "other"}
    /\ None \notin [id : Nat, currency : Currencies]

VARIABLES
    accounts,  \* accounts[n]: the committed row of account number n, or None
    payments,  \* the committed payments
    pc,        \* pc[r]: what request r does next
    req,       \* req[r]: the endpoint and the body of request r
    held,      \* held[r]: which sessions of r hold a connection
    answer     \* answer[r]: the status code given, Lost when r died, or None

vars == <<accounts, payments, pc, req, held, answer>>

\* Requests are numbered in the order of arrival.
Requests == 1 .. MaxRequests

Stage == {"new", "session", "insert_account", "commit_account", "debtor", "creditor",
          "uow", "create", "commit_payment", "serve", "respond", "done"}

NoRequest == [endpoint |-> None, body |-> None, known |-> {}]

\* The requests there are, each with the account numbers its client knew to exist.
Request ==
    [endpoint : {"create_account"}, body : Creations, known : SUBSET Numbers]
      \cup [endpoint : {"ingest_pain001"}, body : Messages, known : SUBSET Numbers]
      \cup [endpoint : {"other"}, body : {None}, known : SUBSET Numbers]

NewAccount(id, currency) == [id |-> id, currency |-> currency]

\* Connections in use, by request and session.
InUse == {c \in Requests \X {"session", "uow"} : c[2] \in held[c[1]]}
PoolIsFull == Cardinality(InUse) >= Capacity

GoTo(r, stage) == pc' = [pc EXCEPT ![r] = stage] /\ UNCHANGED <<held, answer>>

\* A transaction ends, which returns its connection, and the request goes on.
EndTransaction(r, session, stage) ==
    /\ pc' = [pc EXCEPT ![r] = stage]
    /\ held' = [held EXCEPT ![r] = @ \ {session}]
    /\ UNCHANGED answer

\* Mutant: the sessions of a request that fails are never closed.
Respond_LeaksOnError(r, status) ==
    /\ pc' = [pc EXCEPT ![r] = "done"]
    /\ answer' = [answer EXCEPT ![r] = status]
    /\ held' = IF status \in {200, 201} THEN [held EXCEPT ![r] = {}] ELSE held

\* Request r is answered; its sessions close and return what they hold.
Respond(r, status) ==
    /\ pc' = [pc EXCEPT ![r] = "done"]
    /\ answer' = [answer EXCEPT ![r] = status]
    /\ held' = [held EXCEPT ![r] = {}]

-----------------------------------------------------------------------------
(* Messages.  A field that is absent or blank is None.  An amount counts    *)
(* tenths of a cent, or is NaN, or Malformed when it is no Decimal.         *)

Required == {"MsgId", "EndToEndId", "debtor", "creditor", "amount", "currency"}

\* parse_pain001 returns a transfer; otherwise it raises Pain001ParseError.
Parses(m) ==
    /\ m.xml = "wellformed"    \* neither a syntax error nor a DOCTYPE
    /\ \A field \in Required : m[field] # None
    /\ m.amount # Malformed

\* The fields of a transfer are account numbers, a currency code and a Decimal.
ASSUME MessagesAssumption ==
    \A m \in Messages : Parses(m) =>
        /\ m.debtor \in Numbers /\ m.creditor \in Numbers
        /\ m.currency \in Currencies
        /\ m.amount \in Int \cup {NaN}

\* What a column of two decimals keeps of a positive amount in tenths of a cent.
Rounded(amount) == (amount + 5) \div 10

\* Mutant: the two accounts are not compared.
Refusal_AnyAccounts(m) ==
    IF m.amount = NaN THEN 500 ELSE IF m.amount <= 0 THEN 422 ELSE None

\* How _validate_new_payment refuses a transfer, if it does.  NaN cannot be
\* compared with zero, an error that nobody catches.
Refusal(m) ==
    IF m.amount = NaN THEN 500
    ELSE IF m.amount <= 0 \/ m.debtor = m.creditor THEN 422 ELSE None

-----------------------------------------------------------------------------
(* Requests arrive, and wait for a connection.                              *)

\* The account numbers that a client was told exist.
Confirmed ==
    {n \in Numbers :
        \/ Seeded[n] # None
        \/ \E q \in Requests : /\ req[q].endpoint = "create_account"
                               /\ req[q].body.number = n
                               /\ answer[q] = 201}

Receive(r, endpoint, body) ==
    /\ pc[r] = "new"
    /\ \A q \in Requests : q < r => pc[q] # "new"
    /\ req' = [req EXCEPT ![r] = [endpoint |-> endpoint, body |-> body, known |-> Confirmed]]
    /\ UNCHANGED <<accounts, payments>>

ReceiveCreateAccount(r, body) ==
    Receive(r, "create_account", body) /\ GoTo(r, "session")

\* An endpoint that uses one session or one unit of work at a time.
ReceiveOther(r) ==
    Receive(r, "other", None) /\ GoTo(r, "session")

\* A client sends its message, and again when no answer came in time, the
\* request died, or the answer was a 500.  (That an answer was lost on its way
\* is a retry that is slow to reach its first statement.)  What does not parse
\* is refused before any connection is taken.
ReceivePain001(r, m) ==
    /\ \A q \in Requests :
         req[q].endpoint = "ingest_pain001" /\ req[q].body = m => answer[q] \in {None, Lost, 500}
    /\ Receive(r, "ingest_pain001", m)
    /\ IF Parses(m) THEN GoTo(r, "session") ELSE Respond(r, 400)

\* The first statement of a session: the pool has a connection for it.
Connect(r) ==
    /\ pc[r] \in {"session", "uow"}
    /\ ~ PoolIsFull
    /\ held' = [held EXCEPT ![r] = @ \cup {pc[r]}]
    /\ pc' = [pc EXCEPT ![r] =
                IF pc[r] = "uow" THEN "create"
                ELSE CASE req[r].endpoint = "create_account" -> "insert_account"
                       [] req[r].endpoint = "ingest_pain001" -> "debtor"
                       [] req[r].endpoint = "other" -> "serve"]
    /\ UNCHANGED <<accounts, payments, req, answer>>

\* Mutant: pool_timeout is switched off.
PoolTimeout_Never(r) == FALSE

\* The pool has had none for pool_timeout (30 s by default): nobody catches the error.
PoolTimeout(r) ==
    /\ pc[r] \in {"session", "uow"}
    /\ PoolIsFull
    /\ Respond(r, 500)
    /\ UNCHANGED <<accounts, payments, req>>

-----------------------------------------------------------------------------
(* POST /accounts.                                                          *)

\* Another transaction has the number of r, and is not committed.
WaitsForInsert(r) ==
    /\ pc[r] = "insert_account"
    /\ \E q \in Requests :
         pc[q] = "commit_account" /\ req[q].body.number = req[r].body.number

\* Mutant: the number is only looked up before the insert, and not unique.
InsertAccount_LooksFirst(r) ==
    /\ pc[r] = "insert_account"
    /\ IF accounts[req[r].body.number] = None THEN GoTo(r, "commit_account")
       ELSE Respond(r, 409)
    /\ UNCHANGED <<accounts, payments, req>>

\* The INSERT.  A committed account with the number is an IntegrityError:
\* rollback, and 409.
InsertAccount(r) ==
    /\ pc[r] = "insert_account"
    /\ ~ WaitsForInsert(r)
    /\ IF accounts[req[r].body.number] = None THEN GoTo(r, "commit_account")
       ELSE Respond(r, 409)
    /\ UNCHANGED <<accounts, payments, req>>

\* Mutant: the commit is missing, and closing the session rolls back.
CommitAccount_Missing(r) ==
    /\ pc[r] = "commit_account"
    /\ EndTransaction(r, "session", "respond")
    /\ UNCHANGED <<accounts, payments, req>>

CommitAccount(r) ==
    LET body == req[r].body
    IN  /\ pc[r] = "commit_account"
        /\ accounts' = [accounts EXCEPT ![body.number] = NewAccount(r, Upper[body.currency])]
        /\ EndTransaction(r, "session", "respond")
        /\ UNCHANGED <<payments, req>>

-----------------------------------------------------------------------------
(* POST /iso20022/pain001.                                                  *)

\* get_account_by_number, for the debtor.
LookupDebtor(r) ==
    /\ pc[r] = "debtor"
    /\ IF accounts[req[r].body.debtor] = None THEN Respond(r, 404) ELSE GoTo(r, "creditor")
    /\ UNCHANGED <<accounts, payments, req>>

\* For the creditor, and _validate_new_payment.  The session keeps its
\* connection when the unit of work asks for another.
LookupCreditor(r) ==
    LET m == req[r].body
    IN  /\ pc[r] = "creditor"
        /\ \/ accounts[m.creditor] = None /\ Respond(r, 404)
           \/ /\ accounts[m.creditor] # None
              /\ IF Refusal(m) = None THEN GoTo(r, "uow") ELSE Respond(r, Refusal(m))
        /\ UNCHANGED <<accounts, payments, req>>

\* _create_payment_within.  Another currency than the debtor's is a
\* PaymentCurrencyMismatchError, which this endpoint does not catch; an amount
\* that rounds to zero violates the table's check, an IntegrityError that it
\* takes for a missing account; one that the column cannot hold is a DataError.
CreatePayment(r) ==
    LET m == req[r].body
    IN  /\ pc[r] = "create"
        /\ \/ accounts[m.debtor].currency # m.currency /\ Respond(r, 500)
           \/ /\ accounts[m.debtor].currency = m.currency
              /\ \/ Rounded(m.amount) = 0 /\ Respond(r, 404)
                 \/ Rounded(m.amount) > MaxNumeric /\ Respond(r, 500)
                 \/ Rounded(m.amount) \in 1 .. MaxNumeric /\ GoTo(r, "commit_payment")
        /\ UNCHANGED <<accounts, payments, req>>

\* Mutant: the amount is stored as it was parsed.
NewPayment_Unrounded(r) ==
    [id |-> r, debtor |-> req[r].body.debtor, creditor |-> req[r].body.creditor,
     amount |-> req[r].body.amount, currency |-> req[r].body.currency]

NewPayment(r) ==
    LET m == req[r].body
    IN  [id |-> r, debtor |-> m.debtor, creditor |-> m.creditor,
         amount |-> Rounded(m.amount), currency |-> m.currency]

\* The commit, with the history row and the deliveries; the unit of work closes.
CommitPayment(r) ==
    /\ pc[r] = "commit_payment"
    /\ payments' = payments \cup {NewPayment(r)}
    /\ EndTransaction(r, "uow", "respond")
    /\ UNCHANGED <<accounts, req>>

-----------------------------------------------------------------------------
\* Any other endpoint runs its statements.
Serve(r) ==
    /\ pc[r] = "serve"
    /\ Respond(r, 200)
    /\ UNCHANGED <<accounts, payments, req>>

\* The handler returns what it created.
RespondCreated(r) ==
    /\ pc[r] = "respond"
    /\ Respond(r, 201)
    /\ UNCHANGED <<accounts, payments, req>>

\* The API process dies: open transactions roll back, the pool starts empty.
Crash ==
    LET dying == {r \in Requests : pc[r] \notin {"new", "done"}}
    IN  /\ dying # {}
        /\ pc' = [r \in Requests |-> IF r \in dying THEN "done" ELSE pc[r]]
        /\ answer' = [r \in Requests |-> IF r \in dying THEN Lost ELSE answer[r]]
        /\ held' = [r \in Requests |-> {}]
        /\ UNCHANGED <<accounts, payments, req>>

Init ==
    /\ accounts = [n \in Numbers |->
                     IF Seeded[n] = None THEN None ELSE NewAccount(0, Seeded[n])]
    /\ payments = {}
    /\ pc = [r \in Requests |-> "new"]
    /\ req = [r \in Requests |-> NoRequest]
    /\ held = [r \in Requests |-> {}]
    /\ answer = [r \in Requests |-> None]

Arrive(r) ==
    \/ \E body \in Creations : ReceiveCreateAccount(r, body)
    \/ \E m \in Messages : ReceivePain001(r, m)
    \/ ReceiveOther(r)

Advance(r) ==
    \/ Connect(r) \/ PoolTimeout(r) \/ InsertAccount(r) \/ CommitAccount(r)
    \/ LookupDebtor(r) \/ LookupCreditor(r) \/ CreatePayment(r) \/ CommitPayment(r)
    \/ Serve(r) \/ RespondCreated(r)

Next ==
    \/ \E r \in Requests : Arrive(r) \/ Advance(r)
    \/ Crash

Spec == Init /\ [][Next]_vars

\* Handlers keep running, and the pool serves or refuses whoever waits.
FairSpec == Spec /\ \A r \in Requests : WF_vars(Advance(r))

-----------------------------------------------------------------------------
\* The type invariant.
TypeOK ==
    /\ accounts \in [Numbers -> {None} \cup [id : {0} \cup Requests, currency : Currencies]]
    /\ payments \subseteq [id : Requests, debtor : Numbers, creditor : Numbers,
                           amount : 1 .. MaxNumeric, currency : Currencies]
    /\ pc \in [Requests -> Stage]
    /\ req \in [Requests -> Request \cup {NoRequest}]
    /\ held \in [Requests -> SUBSET {"session", "uow"}]
    /\ answer \in [Requests -> {None, Lost, 200, 201, 400, 404, 409, 422, 500}]

\* A client is told the truth.  A 201 means that the payment or the account of
\* this very request is committed, as asked; an error means that the request
\* left nothing behind; and a 409 that another request has the number.  So of
\* any number of concurrent or repeated creations one succeeds.
AnswersMatchEffects ==
    \A r \in Requests :
        LET body == req[r].body
        IN  /\ req[r].endpoint = "ingest_pain001" /\ answer[r] \notin {None, Lost} =>
                 {p \in payments : p.id = r} =
                     IF answer[r] = 201
                     THEN {[id |-> r, debtor |-> body.debtor, creditor |-> body.creditor,
                            amount |-> Rounded(body.amount), currency |-> body.currency]}
                     ELSE {}
            /\ req[r].endpoint = "create_account" =>
                 CASE answer[r] = 201 ->
                        accounts[body.number] = NewAccount(r, Upper[body.currency])
                   [] answer[r] = 409 ->
                        accounts[body.number] # None /\ accounts[body.number].id # r
                   [] answer[r] = 500 ->
                        \A n \in Numbers : accounts[n] # None => accounts[n].id # r
                   [] OTHER -> TRUE

\* Every payment is one that the services accept: two different accounts that
\* exist, the debtor's own currency.
PaymentsAreValid ==
    \A p \in payments :
        /\ p.debtor # p.creditor
        /\ accounts[p.debtor] # None /\ accounts[p.creditor] # None
        /\ p.currency = accounts[p.debtor].currency

\* Whoever was told that both accounts exist is not told 404 afterwards,
\* whatever runs concurrently, except for an amount that rounds to zero.
ConfirmedAccountsAreFound ==
    \A r \in Requests :
        (req[r].endpoint = "ingest_pain001" /\ answer[r] = 404) =>
            \/ ~ {req[r].body.debtor, req[r].body.creditor} \subseteq req[r].known
            \/ req[r].body.amount # NaN /\ Rounded(req[r].body.amount) = 0

\* A full pool is released by one of those that hold it, unless it is all held
\* by pain.001 requests that wait for their second connection.  It takes as
\* many of them as the pool has connections to stall it.
PoolStallsOnlyOnPain001 ==
    PoolIsFull =>
        \/ \E r \in Requests : held[r] # {} /\ pc[r] \notin {"uow", "done"} /\ ~ WaitsForInsert(r)
        \/ Cardinality({r \in Requests : pc[r] = "uow" /\ req[r].endpoint = "ingest_pain001"})
             >= Capacity

\* What the README promises of payment initiation, for pain.001: however often
\* a client sends its message because no answer came, it makes one payment.
OnePaymentPerMessage ==
    \A p, q \in payments : req[p.id].body = req[q.id].body => p = q

\* Every request is answered or dies with the process: a stalled pool recovers.
EveryRequestEnds ==
    \A r \in Requests : pc[r] \notin {"new", "done"} ~> pc[r] = "done"
=============================================================================
