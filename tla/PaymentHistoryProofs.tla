------------------------ MODULE PaymentHistoryProofs ------------------------
(***************************************************************************)
(* What PaymentTransitions records beside the ledger, for any number of    *)
(* payments, accounts, requests and subscriptions: the status history, the *)
(* account versions and the webhook outbox.                                *)
(*                                                                         *)
(* All three rest on IInv of PaymentProofs: a committing transition still  *)
(* finds the row it read.  The account versions need besides that a        *)
(* transaction has bumped exactly the accounts of its entry, the outbox    *)
(* that a subscription left out of a commit was created while it ran.      *)
(***************************************************************************)
EXTENDS PaymentProofs, FiniteSetTheorems

\* Only the two commits write to the database.
LEMMA OnlyCommitsWrite ==
    ASSUME [Next]_vars
    PROVE  \/ UNCHANGED <<payments, accountVersion, journal, history, deliveries>>
           \/ \E r \in Requests : CommitInitiation(r) \/ CommitTransition(r)
BY ZenonT(60) DEF Next, Start, Advance, Environment, vars, db, InitiatePayment, BeginTransition,
       Retry, FetchRate, SetFxDetails, ReadVersions, BumpAccount, UpdatePaymentStatus,
       EnqueueWebhooks, DeadlockAbort, Crash, CreateSubscription, BookRate

\* What a commit that creates a payment knows and does.
LEMMA InitiationFacts ==
    ASSUME IInv, NEW r \in Requests, CommitInitiation(r)
    PROVE  /\ tx[r] \in Transaction /\ tx[r].payment \in Payments
           /\ payments[tx[r].payment].status = "absent"
           /\ pc[r] = "commit" /\ tx[r].to = "initiated"
           /\ payments' = [payments EXCEPT ![tx[r].payment] = NewRow("initiated")]
           /\ history' = [history EXCEPT ![tx[r].payment] =
                             Append(@, [from |-> None, to |-> "initiated"])]
           /\ UNCHANGED <<accountVersion, journal, subscribed>>
BY DEF CommitInitiation, IInv, TxOK, Creates, Holding

\* What a committing transition knows and does: the row is the one it read, and
\* becomes the one its webhook announces.
LEMMA TransitionFacts ==
    ASSUME IInv, NEW r \in Requests, CommitTransition(r)
    PROVE  /\ tx[r] \in Transaction /\ tx[r].payment \in Payments
           /\ payments[tx[r].payment] = tx[r].snap
           /\ payments[tx[r].payment] \in Row
           /\ payments[tx[r].payment].status # "absent"
           /\ pc[r] = "commit" /\ tx[r].to # "initiated"
           /\ tx[r].to \in ALLOWED_TRANSITIONS[payments[tx[r].payment].status]
           /\ tx[r].to \in PaymentStatus
           /\ FxOK("commit", tx[r])
           /\ payments' = [payments EXCEPT ![tx[r].payment] = Updated(tx[r])]
           /\ history' = [history EXCEPT ![tx[r].payment] =
                  Append(@, [from |-> tx[r].snap.status, to |-> tx[r].to])]
           /\ journal' = [journal EXCEPT ![tx[r].payment] =
                  IF MovesMoney(tx[r].to) THEN Append(@, EntryOf(tx[r])) ELSE @]
           /\ UNCHANGED subscribed
<1>1. pc[r] = "commit" /\ tx[r].to # "initiated"
  BY DEF CommitTransition
<1>2. /\ tx[r] \in Transaction /\ tx[r].payment \in Payments
      /\ RowIsSnap(tx[r]) /\ FxOK("commit", tx[r])
      /\ payments \in [Payments -> Row]
  BY <1>1 DEF IInv, TypeOK, TxOK, Holding
<1>3. tx[r].to \in PaymentStatus
  BY <1>2 DEF RowIsSnap, ALLOWED_TRANSITIONS, Row, Status, PaymentStatus, Transaction
<1>. QED
  BY <1>1, <1>2, <1>3, WrittenRowIsUpdated DEF CommitTransition, RowIsSnap

-----------------------------------------------------------------------------
(* The status history.                                                      *)

\* A payment whose history has moved money is still settled or reversed.
MovedStaysMoved ==
    \A p \in Payments : \A i \in DOMAIN history[p] : MovesMoney(history[p][i].to) => Moved(p)

\* Every commit extends the history by a row that fits its last one.
LEMMA NextHistory ==
    ASSUME IInv, HistoryIsLifecycle, MovedStaysMoved, [Next]_vars
    PROVE  HistoryIsLifecycle' /\ MovedStaysMoved'
<1> DEFINE Path(h, row) ==
             /\ Len(h) = row.version + 1
             /\ h[1] = [from |-> None, to |-> "initiated"]
             /\ h[Len(h)].to = row.status
             /\ \A i \in 2 .. Len(h) :
                  /\ h[i].from = h[i - 1].to
                  /\ h[i].to \in ALLOWED_TRANSITIONS[h[i].from]
           PathOK(p) == IF payments[p].status = "absent" THEN history[p] = <<>>
                        ELSE Path(history[p], payments[p])
           MovedOK(p) == \A i \in DOMAIN history[p] : MovesMoney(history[p][i].to) => Moved(p)
<1>0. /\ history \in [Payments -> Seq(HistoryRow)]
      /\ payments \in [Payments -> Row]
  BY DEF IInv, TypeOK
<1>1. \A p \in Payments : PathOK(p) /\ MovedOK(p)
  BY DEF HistoryIsLifecycle, MovedStaysMoved
<1>2. CASE UNCHANGED <<payments, accountVersion, journal, history, deliveries>>
  BY <1>2 DEF HistoryIsLifecycle, MovedStaysMoved, Moved
<1>3. ASSUME NEW r \in Requests, CommitInitiation(r)
      PROVE  \A p \in Payments : PathOK(p)' /\ MovedOK(p)'
  <2> DEFINE x == tx[r].payment
             new == [from |-> None, to |-> "initiated"]
  <2> SUFFICES ASSUME NEW p \in Payments PROVE PathOK(p)' /\ MovedOK(p)'
    OBVIOUS
  <2>1. CASE p # x
    <3>1. payments'[p] = payments[p] /\ history'[p] = history[p]
      BY <1>0, <1>3, <2>1, InitiationFacts
    <3>. QED
      BY <1>1, <3>1 DEF Moved
  <2>2. CASE p = x
    <3>1. history[p] = <<>>
      BY <1>1, <1>3, <2>2, InitiationFacts
    <3>2. history'[p] = <<new>> /\ payments'[p] = NewRow("initiated")
      BY <1>0, <1>3, <2>2, <3>1, InitiationFacts
    <3>3. /\ Len(history'[p]) = 1 /\ history'[p][1] = new /\ DOMAIN history'[p] = 1 .. 1
          /\ payments'[p].status = "initiated" /\ payments'[p].version = 0
      BY <3>2 DEF NewRow
    <3>. QED
      BY <3>3 DEF MovesMoney
  <2>. QED
    BY <2>1, <2>2
<1>4. ASSUME NEW r \in Requests, CommitTransition(r)
      PROVE  \A p \in Payments : PathOK(p)' /\ MovedOK(p)'
  <2> DEFINE t == tx[r]
             x == t.payment
             new == [from |-> t.snap.status, to |-> t.to]
  <2> SUFFICES ASSUME NEW p \in Payments PROVE PathOK(p)' /\ MovedOK(p)'
    OBVIOUS
  <2>1. CASE p # x
    <3>1. payments'[p] = payments[p] /\ history'[p] = history[p]
      BY <1>0, <1>4, <2>1, TransitionFacts
    <3>. QED
      BY <1>1, <3>1 DEF Moved
  <2>2. CASE p = x
    <3> DEFINE h == history[p]
               n == Len(h)
    <3>1. /\ t \in Transaction /\ payments[p] = t.snap /\ payments[p] \in Row
          /\ payments[p].status # "absent"
          /\ t.to \in ALLOWED_TRANSITIONS[payments[p].status]
          /\ t.to \in PaymentStatus
          /\ payments'[p] = Updated(t) /\ history'[p] = Append(h, new)
      BY <1>0, <1>4, <2>2, TransitionFacts
    <3>2. h \in Seq(HistoryRow) /\ new \in HistoryRow /\ n \in Nat
      <4>1. t.snap.status \in PaymentStatus
        BY <3>1 DEF Row, Status
      <4>2. new \in HistoryRow
        BY <3>1, <4>1 DEF HistoryRow
      <4>3. h \in Seq(HistoryRow)
        BY <1>0
      <4>. QED
        BY <4>2, <4>3, LenProperties
    <3>3. /\ Path(h, payments[p]) /\ n = payments[p].version + 1
          /\ h[n].to = payments[p].status
          /\ payments[p].version \in Nat
      BY <1>1, <3>1 DEF Row
    <3>4. /\ Updated(t).status = t.to /\ Updated(t).version = n
      BY <3>1, <3>3 DEF Updated
    <3>5. new.from = payments[p].status /\ new.to = t.to
      BY <3>1
    <3> DEFINE g == history'[p]
    <3>6. /\ Len(g) = n + 1 /\ DOMAIN g = 1 .. n + 1 /\ g[n + 1] = new
          /\ \A i \in 1 .. n : g[i] = h[i]
      BY <3>1, <3>2
    <3>7. n >= 1
      BY <3>3
    <3> HIDE DEF new, g, n, h
    <3>8. Path(g, payments'[p])
      <4>1. \A i \in 2 .. n + 1 : g[i].from = g[i - 1].to
                                 /\ g[i].to \in ALLOWED_TRANSITIONS[g[i].from]
        <5> SUFFICES ASSUME NEW i \in 2 .. n + 1
                     PROVE  /\ g[i].from = g[i - 1].to
                            /\ g[i].to \in ALLOWED_TRANSITIONS[g[i].from]
          OBVIOUS
        <5>1. CASE i = n + 1
          <6>1. i - 1 = n /\ n \in 1 .. n
            BY <3>2, <3>7, <5>1
          <6>2. g[n] = h[n]
            BY <3>6, <6>1
          <6>. QED
            BY <3>1, <3>3, <3>5, <3>6, <5>1, <6>1, <6>2
        <5>2. CASE i # n + 1
          <6>1. i \in 2 .. n /\ i \in 1 .. n /\ i - 1 \in 1 .. n
            BY <3>2, <5>2
          <6>. QED
            BY <3>3, <3>6, <6>1 DEF h, n
        <5>. QED
          BY <5>1, <5>2
      <4>2. g[1] = [from |-> None, to |-> "initiated"]
        BY <3>2, <3>3, <3>6, <3>7 DEF h
      <4>. QED
        BY <3>1, <3>2, <3>4, <3>5, <3>6, <4>1, <4>2
    <3>9. MovedOK(p)'
      <4>1. Moved(p) => MovesMoney(t.to)
        BY <3>1 DEF Moved, MovesMoney, ALLOWED_TRANSITIONS, Row, Status, PaymentStatus
      <4>2. MovesMoney(t.to) => Moved(p)'
        BY <3>1, <3>4 DEF Moved, MovesMoney
      <4>3. \A i \in 1 .. n : MovesMoney(g[i].to) => Moved(p)
        BY <1>0, <1>1, <3>2, <3>6, SMTT(60) DEF h, n
      <4>. QED
        BY <3>2, <3>5, <3>6, <4>1, <4>2, <4>3 DEF g
    <3>. QED
      BY <3>1, <3>4, <3>8, <3>9, NoneAssumption DEF g, PaymentStatus
  <2>. QED
    BY <2>1, <2>2
<1>. QED
  BY <1>2, <1>3, <1>4, OnlyCommitsWrite DEF HistoryIsLifecycle, MovedStaysMoved

\* The initial histories are empty.
LEMMA InitHistory == Init => HistoryIsLifecycle /\ MovedStaysMoved
BY DEF Init, HistoryIsLifecycle, MovedStaysMoved, AbsentRow, NewRow

\* The status history of a payment is a connected path of the state machine,
\* one row per version, whatever requests race, conflict and retry
\* (record_status_transition).
THEOREM HistoryCorrect == Spec => []HistoryIsLifecycle
BY InitHistory, NextHistory, Inductive, PTL DEF Spec

-----------------------------------------------------------------------------
(* The account versions.                                                    *)

\* A commit that posts an entry adds one posting to each account of the entry,
\* and these are the accounts whose version it increments.
LEMMA NextPostings ==
    ASSUME IInv, AllBumpsOK, VersionCountsPostings, [Next]_vars,
           \A a \in Accounts : IsFiniteSet(Postings(a))
    PROVE  /\ VersionCountsPostings'
           /\ \A a \in Accounts : IsFiniteSet(Postings(a)')
<1>0. journal \in [Payments -> Seq(Entry)] /\ accountVersion \in [Accounts -> Nat]
  BY DEF IInv, TypeOK
<1>1. CASE UNCHANGED <<accountVersion, journal>>
  <2>1. \A a \in Accounts : Postings(a)' = Postings(a)
    BY <1>1 DEF Postings
  <2>. QED
    BY <1>1, <2>1 DEF VersionCountsPostings
<1>2. ASSUME NEW r \in Requests, CommitTransition(r)
      PROVE  /\ VersionCountsPostings'
             /\ \A a \in Accounts : IsFiniteSet(Postings(a)')
  <2> DEFINE t == tx[r]
  <2>0. PICK p \in Payments : p = t.payment
    BY <1>2, TransitionFacts
  <2> DEFINE n == Len(journal[p])
  <2>1. /\ p \in Payments /\ journal[p] \in Seq(Entry) /\ n \in Nat
        /\ pc[r] = "commit" /\ t.to # "initiated"
        /\ journal' = [journal EXCEPT ![p] =
               IF MovesMoney(t.to) THEN Append(@, EntryOf(t)) ELSE @]
        /\ accountVersion' = [a \in Accounts |->
               IF a \in t.bumped THEN accountVersion[a] + 1 ELSE accountVersion[a]]
    <3>1. p \in Payments /\ journal[p] \in Seq(Entry)
      BY <1>0, <1>2, TransitionFacts
    <3>. QED
      BY <1>2, <2>0, <3>1, TransitionFacts, LenProperties DEF CommitTransition
  <2>2. t.bumped = IF MovesMoney(t.to) THEN EntryAccounts(t) ELSE {}
    BY <2>1 DEF AllBumpsOK, BumpsOK
  <2>3. CASE ~ MovesMoney(t.to)
    <3>1. journal' = journal /\ accountVersion' = accountVersion
      BY <1>0, <2>1, <2>2, <2>3
    <3>. QED
      BY <1>1, <3>1
  <2>4. CASE MovesMoney(t.to)
    <3>1. EntryOf(t) \in Entry
      BY <2>1, <2>4, EntryOfType
    <3>2. journal'[p] = Append(journal[p], EntryOf(t))
      BY <1>0, <2>1, <2>4
    <3>3. \A x \in Payments : x # p => journal'[x] = journal[x]
      BY <1>0, <2>1
    <3>4. /\ DOMAIN journal[p] = 1 .. n /\ DOMAIN journal'[p] = 1 .. n + 1
          /\ journal'[p][n + 1] = EntryOf(t)
          /\ \A i \in 1 .. n : journal'[p][i] = journal[p][i]
      BY <2>1, <3>1, <3>2, AppendProperties
    <3>5. ASSUME NEW a \in Accounts
          PROVE  /\ accountVersion'[a] = Cardinality(Postings(a)')
                 /\ IsFiniteSet(Postings(a)')
      <4> DEFINE Touching(x) == {i \in DOMAIN journal[x] :
                                    a \in account_ids(journal[x][i].lines)}
      <4>1. \A e : e \in Postings(a) <=> \E x \in Payments : \E i \in Touching(x) : e = <<x, i>>
        BY DEF Postings
      <4>2. \A e : e \in Postings(a)' <=> \E x \in Payments : \E i \in Touching(x)' : e = <<x, i>>
        BY DEF Postings
      <4>3. \A x \in Payments : x # p => Touching(x)' = Touching(x)
        BY <3>3
      <4>4. Touching(p)' = IF a \in EntryAccounts(t) THEN Touching(p) \cup {n + 1}
                           ELSE Touching(p)
        <5>1. Touching(p)' = {i \in 1 .. n + 1 : a \in account_ids(journal'[p][i].lines)}
          BY <3>4
        <5>2. Touching(p) = {i \in 1 .. n : a \in account_ids(journal[p][i].lines)}
          BY <3>4
        <5>3. \A i \in 1 .. n : a \in account_ids(journal'[p][i].lines)
                                 <=> a \in account_ids(journal[p][i].lines)
          BY <3>4
        <5>4. a \in account_ids(journal'[p][n + 1].lines) <=> a \in EntryAccounts(t)
          BY <3>4 DEF EntryAccounts
        <5>5. 1 .. n + 1 = (1 .. n) \cup {n + 1}
          BY <2>1
        <5> HIDE DEF Touching, n
        <5>. QED
          BY <5>1, <5>2, <5>3, <5>4, <5>5
      <4>5. n + 1 \notin Touching(p)
        BY <2>1, <3>4
      <4> HIDE DEF Touching
      <4>6. <<p, n + 1>> \notin Postings(a)
        BY <4>1, <4>5
      <4>7. Postings(a)' = IF a \in EntryAccounts(t) THEN Postings(a) \cup {<<p, n + 1>>}
                           ELSE Postings(a)
        <5>1. \A e : e \in Postings(a)' /\ e \notin Postings(a)
                       => e = <<p, n + 1>> /\ a \in EntryAccounts(t)
          <6> SUFFICES ASSUME NEW e, e \in Postings(a)', e \notin Postings(a)
                       PROVE  e = <<p, n + 1>> /\ a \in EntryAccounts(t)
            OBVIOUS
          <6>1. PICK x \in Payments : \E i \in Touching(x)' : e = <<x, i>>
            BY <4>2
          <6>2. PICK i \in Touching(x)' : e = <<x, i>>
            BY <6>1
          <6>3. i \notin Touching(x)
            BY <4>1, <6>2
          <6>4. x = p
            BY <4>3, <6>3
          <6>. QED
            BY <4>4, <6>2, <6>3, <6>4
        <5>2. \A e : e \in Postings(a) => e \in Postings(a)'
          BY <4>1, <4>2, <4>3, <4>4
        <5>3. a \in EntryAccounts(t) => <<p, n + 1>> \in Postings(a)'
          BY <2>1, <4>2, <4>4
        <5>. QED
          BY <5>1, <5>2, <5>3
      <4>8. IsFiniteSet(Postings(a)) /\ accountVersion[a] = Cardinality(Postings(a))
        BY DEF VersionCountsPostings
      <4>9. accountVersion'[a] = IF a \in EntryAccounts(t) THEN accountVersion[a] + 1
                                 ELSE accountVersion[a]
        BY <2>1, <2>2, <2>4
      <4>10. CASE a \in EntryAccounts(t)
        <5> DEFINE S == Postings(a)
                   e == <<p, n + 1>>
        <5>1. IsFiniteSet(S) /\ e \notin S /\ Postings(a)' = S \cup {e}
          BY <4>6, <4>7, <4>8, <4>10
        <5> HIDE DEF S, e
        <5>2. IsFiniteSet(S \cup {e}) /\ Cardinality(S \cup {e}) = Cardinality(S) + 1
          BY <5>1, FS_AddElement
        <5>. QED
          BY <4>8, <4>9, <4>10, <5>1, <5>2 DEF S
      <4>11. CASE a \notin EntryAccounts(t)
        BY <4>7, <4>8, <4>9, <4>11
      <4>. QED
        BY <4>10, <4>11
    <3>. QED
      BY <3>5 DEF VersionCountsPostings
  <2>. QED
    BY <2>3, <2>4
<1>. QED
  BY <1>1, <1>2, OnlyCommitsWrite, InitiationFacts

\* An account's version counts the journal entries that touch it, whatever
\* postings race for it and whichever of them roll back (bump_account_version).
THEOREM VersionsCorrect == Spec => []VersionCountsPostings
<1> DEFINE Finite == \A a \in Accounts : IsFiniteSet(Postings(a))
<1>1. Init => AllBumpsOK /\ VersionCountsPostings /\ Finite
  <2> SUFFICES ASSUME Init PROVE AllBumpsOK /\ VersionCountsPostings /\ Finite
    OBVIOUS
  <2>1. AllBumpsOK
    BY InitBumps
  <2>2. \A a \in Accounts : Postings(a) = {}
    BY DEF Init, Postings
  <2>. QED
    BY <2>1, <2>2, FS_EmptySet DEF Init, VersionCountsPostings
<1>2. IInv /\ AllBumpsOK /\ VersionCountsPostings /\ Finite /\ [Next]_vars
         => (AllBumpsOK /\ VersionCountsPostings /\ Finite)'
  BY NextBumps, NextPostings
<1>. QED
  BY <1>1, <1>2, Inductive, PTL DEF Spec

-----------------------------------------------------------------------------
(* The webhook outbox.                                                      *)

\* The transitions of p from which on s may be served: the first after s was
\* created, or the one after it when that one was committing already.
Starts(p, s) ==
    LET created == subscribed[s][p]
    IN  {k \in 1 .. Len(history[p]) + 1 :
            k = created.rows + 1 \/ (created.racing /\ k = created.rows + 2)}

ServedAt(p, s) ==
    IF subscribed[s] = None THEN deliveries[p][s] = <<>>
    ELSE \E k \in Starts(p, s) : AnnouncesFrom(k, p, s)

Served == \A p \in Payments, s \in Subscriptions : ServedAt(p, s)

\* s is not there, or was created after the last transition of p.
MayMiss(p, s) ==
    \/ subscribed[s] = None
    \/ subscribed[s][p].racing /\ subscribed[s][p].rows = Len(history[p])

\* The deliveries a transaction is about to commit: to subscriptions that want
\* the event.  One that wants it and is left out was created since they were
\* listed, or is yet to be.
TargetsOK(t) ==
    /\ \A s \in t.targets : subscribed[s] # None /\ Wants(s, t.to)
    /\ \A s \in Subscriptions \ t.targets : Wants(s, t.to) => MayMiss(t.payment, s)

AllTargetsOK == \A r \in Requests : pc[r] = "commit" => TargetsOK(tx[r])

\* A step adds one row to the history of p, which had n, for a transition to
\* `to', leaves p's past announcements alone, and announces the new one by `row'.
Extends(p, n, to, row) ==
    /\ Len(history[p]) = n /\ Len(history'[p]) = n + 1
    /\ \A i \in 1 .. n : history'[p][i] = history[p][i]
    /\ history'[p][n + 1].to = to
    /\ \A i \in 1 .. n : Announcement(p, i)' = Announcement(p, i)
    /\ row = Announcement(p, n + 1)'

\* The outbox after a commit on payment p that extends p's history by one row,
\* of which `row' is the announcement, and queues `row' for the targets.
LEMMA OutboxExtended ==
    ASSUME NEW p \in Payments, NEW s \in Subscriptions, NEW t,
           Served, TargetsOK(t), t.payment = p, subscribed' = subscribed,
           NEW n \in Nat, NEW row \in Row, Extends(p, n, t.to, row),
           deliveries[p][s] \in Seq(Row),
           deliveries'[p][s] = IF s \in t.targets THEN Append(deliveries[p][s], row)
                               ELSE deliveries[p][s]
    PROVE  ServedAt(p, s)'
<1> USE DEF Extends
<1>0. CASE subscribed[s] = None
  BY <1>0 DEF Served, ServedAt, TargetsOK
<1> SUFFICES ASSUME subscribed[s] # None
             PROVE  \E k \in Starts(p, s)' : AnnouncesFrom(k, p, s)'
  BY <1>0 DEF ServedAt
<1> DEFINE box == deliveries[p][s]
           new == deliveries'[p][s]
           W(k) == {i \in k .. n : Wants(s, history[p][i].to)}
           W1(k) == {i \in k .. n + 1 : Wants(s, history'[p][i].to)}
<1>1. PICK k \in Starts(p, s) : AnnouncesFrom(k, p, s)
  BY DEF Served, ServedAt
<1>k. k \in 1 .. n + 1 /\ k \in Starts(p, s)'
  BY DEF Starts
<1>2. /\ \A j \in DOMAIN box : \E i \in W(k) : box[j] = Announcement(p, i)
      /\ \A i \in W(k) : \E j \in DOMAIN box : box[j] = Announcement(p, i)
      /\ \A j, l \in DOMAIN box : j < l => box[j].version < box[l].version
  BY <1>1 DEF AnnouncesFrom
<1>3. /\ \A i \in W(k) : i \in 1 .. n /\ i \in W1(k)
      /\ \A i \in W1(k) : i \in W(k) \/ i = n + 1
      /\ n + 1 \in W1(k) <=> Wants(s, t.to)
  BY <1>k, SMTT(60)
<1>4. Announcement(p, n + 1)' = row /\ row.version = n
  BY DEF Announcement
<1>5. \A i \in 1 .. n : Announcement(p, i).version = i - 1
  BY DEF Announcement
<1>6. ASSUME new = <<>>
      PROVE  AnnouncesFrom(n + 2, p, s)'
  <2>1. (n + 2) .. (n + 1) = {}
    OBVIOUS
  <2>2. DOMAIN new = {}
    <3> HIDE DEF new
    <3>. QED
      BY <1>6
  <2>. QED
    BY <2>1, <2>2 DEF AnnouncesFrom
<1>7. ASSUME /\ \A j \in DOMAIN new : \E i \in W1(k) : new[j] = Announcement(p, i)'
             /\ \A i \in W1(k) : \E j \in DOMAIN new : new[j] = Announcement(p, i)'
             /\ \A j, l \in DOMAIN new : j < l => new[j].version < new[l].version
      PROVE  AnnouncesFrom(k, p, s)'
  BY <1>7, ZenonT(60) DEF AnnouncesFrom
<1> HIDE DEF box, new, W, W1
<1>8. CASE s \in t.targets
  <2>0. Wants(s, t.to)
    BY <1>8 DEF TargetsOK
  <2> DEFINE m == Len(box)
  <2>1. /\ m \in Nat /\ DOMAIN box = 1 .. m /\ DOMAIN new = 1 .. m + 1
        /\ new[m + 1] = row /\ \A j \in 1 .. m : new[j] = box[j]
    BY <1>8, AppendProperties, LenProperties DEF box, new
  <2> HIDE DEF m
  <2>2. \A j \in DOMAIN new : \E i \in W1(k) : new[j] = Announcement(p, i)'
    <3> SUFFICES ASSUME NEW j \in DOMAIN new
                 PROVE  \E i \in W1(k) : new[j] = Announcement(p, i)'
      OBVIOUS
    <3>1. CASE j = m + 1
      BY <1>3, <1>4, <2>0, <2>1, <3>1
    <3>2. CASE j # m + 1
      <4>1. j \in 1 .. m
        BY <2>1, <3>2
      <4>2. PICK i \in W(k) : box[j] = Announcement(p, i)
        BY <1>2, <2>1, <4>1
      <4>. QED
        BY <1>3, <2>1, <4>1, <4>2
    <3>. QED
      BY <3>1, <3>2
  <2>3. \A i \in W1(k) : \E j \in DOMAIN new : new[j] = Announcement(p, i)'
    <3> SUFFICES ASSUME NEW i \in W1(k)
                 PROVE  \E j \in DOMAIN new : new[j] = Announcement(p, i)'
      OBVIOUS
    <3>1. CASE i = n + 1
      <4>1. m + 1 \in DOMAIN new
        BY <2>1
      <4>. QED
        BY <1>4, <2>1, <3>1, <4>1
    <3>2. CASE i # n + 1
      <4>1. i \in W(k) /\ i \in 1 .. n
        BY <1>3, <3>2
      <4>2. PICK j \in DOMAIN box : box[j] = Announcement(p, i)
        BY <1>2, <4>1
      <4>3. j \in DOMAIN new /\ new[j] = box[j]
        BY <2>1
      <4>. QED
        BY <4>1, <4>2, <4>3
    <3>. QED
      BY <3>1, <3>2
  <2>4. \A j, l \in DOMAIN new : j < l => new[j].version < new[l].version
    <3> SUFFICES ASSUME NEW j \in DOMAIN new, NEW l \in DOMAIN new, j < l
                 PROVE  new[j].version < new[l].version
      OBVIOUS
    <3>1. j \in 1 .. m /\ new[j] = box[j]
      BY <2>1
    <3>2. CASE l = m + 1
      <4>1. PICK i \in W(k) : box[j] = Announcement(p, i)
        BY <1>2, <2>1, <3>1
      <4>2. i \in 1 .. n /\ box[j].version = i - 1
        BY <1>3, <1>5, <4>1
      <4>. QED
        BY <1>4, <2>1, <3>1, <3>2, <4>2
    <3>3. CASE l # m + 1
      <4>1. l \in 1 .. m /\ new[l] = box[l]
        BY <2>1, <3>3
      <4>. QED
        BY <1>2, <2>1, <3>1, <4>1
    <3>. QED
      BY <3>2, <3>3
  <2>5. AnnouncesFrom(k, p, s)'
    BY <1>7, <2>2, <2>3, <2>4
  <2>. QED
    BY <1>k, <2>5
<1>9. CASE s \notin t.targets /\ Wants(s, t.to)
  <2>1. subscribed[s][p].racing /\ subscribed[s][p].rows = n
    BY <1>9 DEF TargetsOK, MayMiss
  <2>2. n + 2 \in Starts(p, s)'
    BY <2>1 DEF Starts
  <2>3. k >= n + 1
    BY <2>1 DEF Starts
  <2>4. W(k) = {}
    BY <1>k, <2>3 DEF W
  <2>5. DOMAIN box = {}
    BY <1>2, <2>4
  <2>6. box \in Seq(Row) /\ Len(box) \in Nat /\ DOMAIN box = 1 .. Len(box)
    BY LenProperties DEF box
  <2>7. Len(box) = 0
    BY <2>5, <2>6
  <2>8. new = <<>>
    BY <1>9, <2>6, <2>7, EmptySeq DEF new, box
  <2>. QED
    BY <1>6, <2>2, <2>8
<1>10. CASE s \notin t.targets /\ ~ Wants(s, t.to)
  <2>1. new = box
    BY <1>10 DEF new, box
  <2>2. \A i : i \in W1(k) <=> i \in W(k)
    BY <1>3, <1>10
  <2>3. \A i \in W(k) : Announcement(p, i)' = Announcement(p, i)
    BY <1>3
  <2>4. AnnouncesFrom(k, p, s)'
    BY <1>2, <1>7, <2>1, <2>2, <2>3
  <2>. QED
    BY <1>k, <2>4
<1>. QED
  BY <1>8, <1>9, <1>10

\* A commit on p leaves the announcements of p's past transitions as they were,
\* and the row it writes is the announcement of the new one.
LEMMA AnnouncementsStay ==
    ASSUME IInv, IInv', HistoryIsLifecycle, MovedStaysMoved,
           NEW r \in Requests, CommitTransition(r), NEW p \in Payments, p = tx[r].payment,
           NEW n \in Nat, n = Len(history[p])
    PROVE  Extends(p, n, tx[r].to, Updated(tx[r])) /\ Updated(tx[r]) \in Row
<1> DEFINE t == tx[r]
           new == [from |-> t.snap.status, to |-> t.to]
<1>0. /\ history \in [Payments -> Seq(HistoryRow)] /\ payments \in [Payments -> Row]
      /\ history'[p] \in Seq(HistoryRow)
  BY DEF IInv, TypeOK
<1>1. /\ t \in Transaction /\ payments[p] = t.snap /\ payments[p] \in Row
      /\ payments[p].status # "absent" /\ t.to \in PaymentStatus
      /\ t.to \in ALLOWED_TRANSITIONS[payments[p].status]
      /\ FxOK("commit", t)
      /\ payments'[p] = Updated(t) /\ history'[p] = Append(history[p], new)
  BY <1>0, TransitionFacts
<1>2. /\ history[p] \in Seq(HistoryRow) /\ DOMAIN history[p] = 1 .. n
      /\ n = payments[p].version + 1 /\ payments[p].version \in Nat
  BY <1>0, <1>1, LenProperties DEF HistoryIsLifecycle, Row
<1>3. new \in HistoryRow
  <2>1. t.snap.status \in PaymentStatus
    BY <1>1 DEF Row, Status
  <2>. QED
    BY <1>1, <2>1 DEF HistoryRow
<1>4. /\ Len(history'[p]) = n + 1 /\ history'[p][n + 1] = new
      /\ \A i \in 1 .. n : history'[p][i] = history[p][i]
  BY <1>1, <1>2, <1>3, AppendProperties, SMTT(60)
<1>5. ASSUME NEW i \in 1 .. n
      PROVE  Announcement(p, i)' = Announcement(p, i)
  <2>1. CASE MovesMoney(history[p][i].to)
    <3>1. Moved(p)
      BY <1>2, <2>1 DEF MovedStaysMoved
    <3>2. t.to # "settled"
      BY <1>1, <3>1 DEF Moved, ALLOWED_TRANSITIONS, Row, Status, PaymentStatus
    <3>3. t.fx_rate = None
      BY <1>1, <3>2 DEF FxOK
    <3>4. /\ payments'[p].creditor_amount = payments[p].creditor_amount
          /\ payments'[p].fx_rate = payments[p].fx_rate
      BY <1>1, <3>3 DEF Updated
    <3>. QED
      BY <1>4, <3>4 DEF Announcement
  <2>2. CASE ~ MovesMoney(history[p][i].to)
    BY <1>4, <2>2 DEF Announcement, MovesMoney
  <2>. QED
    BY <2>1, <2>2
<1>6. Updated(t) = Announcement(p, n + 1)' /\ Updated(t) \in Row
  <2>1. pc[r] = "commit" /\ t.to # "initiated"
    BY DEF CommitTransition
  <2>2. Updated(t) \in Row
    BY <2>1, WrittenRowIsUpdated
  <2>3. Updated(t).status = t.to /\ Updated(t).version = n
    BY <1>1, <1>2 DEF Updated
  <2>4. ~ MovesMoney(t.to) => Updated(t).creditor_amount = None /\ Updated(t).fx_rate = None
    <3>1. FxDetailsAreTheBookedOnes' /\ payments'[p] = Updated(t)
      BY <1>1 DEF IInv
    <3>2. ~ MovesMoney(t.to) => ~ Moved(p)'
      BY <2>3, <3>1 DEF MovesMoney, Moved
    <3>. QED
      BY <3>1, <3>2 DEF FxDetailsAreTheBookedOnes
  <2> DEFINE a == Announcement(p, n + 1)'
             u == Updated(t)
  <2>5. a = [status |-> u.status, version |-> u.version,
             creditor_amount |-> u.creditor_amount, fx_rate |-> u.fx_rate]
    <3>1. history'[p][n + 1].to = t.to /\ (n + 1) - 1 = n
      BY <1>4
    <3> HIDE DEF t, u
    <3>. QED
      BY <1>1, <2>3, <2>4, <3>1 DEF Announcement, MovesMoney, u
  <2>6. u = [status |-> u.status, version |-> u.version,
             creditor_amount |-> u.creditor_amount, fx_rate |-> u.fx_rate]
    BY DEF Updated
  <2>. QED
    BY <2>2, <2>5, <2>6
<1>7. new.to = t.to
  OBVIOUS
<1>. QED
  BY <1>4, <1>5, <1>6, <1>7 DEF Extends

\* Only queueing its webhooks takes a request to its commit.
LEMMA CommitIsReached ==
    ASSUME IInv, [Next]_vars, NEW q \in Requests, pc'[q] = "commit"
    PROVE  EnqueueWebhooks(q) \/ (pc[q] = "commit" /\ tx'[q] = tx[q])
<1>0. pc \in [Requests -> Stage] /\ tx \in [Requests -> Transaction]
  BY DEF IInv, TypeOK
<1>1. ASSUME NEW r \in Requests, NEW stage, NEW t, GoTo(r, stage, t), stage # "commit"
      PROVE  pc[q] = "commit" /\ tx'[q] = tx[q]
  BY <1>0, <1>1 DEF GoTo
<1>2. ASSUME NEW r \in Requests, Leave(r) \/ Conflict(r)
      PROVE  pc[q] = "commit" /\ tx'[q] = tx[q]
  BY <1>1, <1>2 DEF Leave, Conflict
<1>3. \A p, to : FirstStage(p, to) # "commit"
  BY DEF FirstStage
<1>4. ASSUME NEW r \in Requests, NEW p, NEW to, NEW attempt, ReadPayment(r, p, to, attempt)
      PROVE  pc[q] = "commit" /\ tx'[q] = tx[q]
  BY <1>1, <1>3, <1>4 DEF ReadPayment
<1>5. ASSUME NEW r \in Requests, Start(r)
      PROVE  pc[q] = "commit" /\ tx'[q] = tx[q]
  BY <1>1, <1>4, <1>5 DEF Start, InitiatePayment, BeginTransition
<1>6. ASSUME NEW r \in Requests, Retry(r) \/ FetchRate(r) \/ SetFxDetails(r) \/ ReadVersions(r)
      PROVE  pc[q] = "commit" /\ tx'[q] = tx[q]
  BY <1>1, <1>2, <1>4, <1>6 DEF Retry, FetchRate, SetFxDetails, ReadVersions
<1>7. ASSUME NEW r \in Requests, NEW a \in Accounts, BumpAccount(r, a)
      PROVE  pc[q] = "commit" /\ tx'[q] = tx[q]
  BY <1>1, <1>2, <1>7 DEF BumpAccount
<1>8. ASSUME NEW r \in Requests, UpdatePaymentStatus(r)
      PROVE  pc[q] = "commit" /\ tx'[q] = tx[q]
  BY <1>1, <1>2, <1>8 DEF UpdatePaymentStatus
<1>9. ASSUME NEW r \in Requests, EnqueueWebhooks(r), r # q
      PROVE  pc[q] = "commit" /\ tx'[q] = tx[q]
  BY <1>0, <1>9 DEF EnqueueWebhooks, GoTo
<1>10. ASSUME NEW r \in Requests,
              CommitInitiation(r) \/ CommitTransition(r) \/ DeadlockAbort(r) \/ Crash(r)
       PROVE  pc[q] = "commit" /\ tx'[q] = tx[q]
  BY <1>2, <1>10 DEF CommitInitiation, CommitTransition, DeadlockAbort, Crash
<1>11. CASE UNCHANGED <<pc, tx>>
  BY <1>11
<1>. QED
  BY <1>5, <1>6, <1>7, <1>8, <1>9, <1>10, <1>11
     DEF Next, Advance, Environment, CreateSubscription, BookRate, vars

\* A payment that a step does not touch keeps its outboxes.
LEMMA SameOutbox ==
    ASSUME Served, NEW p \in Payments, NEW s \in Subscriptions,
           payments'[p] = payments[p], history'[p] = history[p],
           deliveries'[p][s] = deliveries[p][s], subscribed'[s] = subscribed[s]
    PROVE  ServedAt(p, s)'
<1>1. CASE subscribed[s] = None
  BY <1>1 DEF Served, ServedAt
<1>2. CASE subscribed[s] # None
  <2>1. PICK k \in Starts(p, s) : AnnouncesFrom(k, p, s)
    BY <1>2 DEF Served, ServedAt
  <2>2. AnnouncesFrom(k, p, s)'
    BY <2>1, ZenonT(60) DEF AnnouncesFrom, Announcement
  <2>3. k \in Starts(p, s)'
    BY DEF Starts
  <2>. QED
    BY <1>2, <2>2, <2>3 DEF ServedAt
<1>. QED
  BY <1>1, <1>2

\* A new subscription has nothing queued, and is served from the next transition
\* on or, when one is committing, may be from the one after.
LEMMA CreationOutbox ==
    ASSUME IInv, Served, AllTargetsOK, NEW s \in Subscriptions, CreateSubscription(s)
    PROVE  Served' /\ AllTargetsOK'
<1>1. /\ UNCHANGED <<payments, history, deliveries, pc, tx>>
      /\ subscribed[s] = None /\ subscribed'[s] # None
      /\ \A x \in Subscriptions : x # s => subscribed'[x] = subscribed[x]
      /\ \A p \in Payments : /\ Len(history[p]) \in Nat
                             /\ subscribed'[s][p].rows = Len(history[p])
                             /\ (\E r \in Requests : pc[r] = "commit" /\ tx[r].payment = p)
                                   => subscribed'[s][p].racing
  <2> DEFINE c == [p \in Payments |->
                     [rows |-> Len(history[p]),
                      racing |-> \E r \in Requests : pc[r] = "commit" /\ tx[r].payment = p]]
  <2>1. \A p \in Payments : Len(history[p]) \in Nat
    BY LenProperties DEF IInv, TypeOK
  <2>2. c \in [Payments -> CreationPoint]
    BY <2>1 DEF CreationPoint
  <2>3. c # None
    BY <2>2, NoneAssumption
  <2>4. subscribed' = [subscribed EXCEPT ![s] = c]
    BY DEF CreateSubscription
  <2>5. subscribed'[s] = c /\ \A x \in Subscriptions : x # s => subscribed'[x] = subscribed[x]
    BY <2>4 DEF IInv, TypeOK
  <2>6. \A p \in Payments : /\ c[p].rows = Len(history[p])
                            /\ (\E r \in Requests : pc[r] = "commit" /\ tx[r].payment = p)
                                  => c[p].racing
    OBVIOUS
  <2> HIDE DEF c
  <2>. QED
    BY <2>1, <2>3, <2>5, <2>6 DEF CreateSubscription, db
<1>2. Served'
  <2> SUFFICES ASSUME NEW p \in Payments, NEW x \in Subscriptions PROVE ServedAt(p, x)'
    BY DEF Served
  <2>1. CASE x # s
    BY <1>1, <2>1, SameOutbox
  <2>2. CASE x = s
    <3>1. deliveries'[p][s] = <<>>
      BY <1>1 DEF Served, ServedAt
    <3>2. PICK n \in Nat : n = Len(history'[p]) /\ n = subscribed'[s][p].rows
      BY <1>1
    <3>3. (n + 1) .. n = {} /\ DOMAIN deliveries'[p][s] = {}
      BY <3>1
    <3>4. AnnouncesFrom(n + 1, p, s)'
      BY <3>2, <3>3 DEF AnnouncesFrom
    <3>5. n + 1 \in 1 .. Len(history'[p]) + 1 /\ n + 1 = subscribed'[s][p].rows + 1
      BY <3>2
    <3>6. n + 1 \in Starts(p, s)'
      BY <3>5, Zenon DEF Starts
    <3>. QED
      BY <1>1, <2>2, <3>4, <3>6 DEF ServedAt
  <2>. QED
    BY <2>1, <2>2
<1>3. AllTargetsOK'
  <2> SUFFICES ASSUME NEW q \in Requests, pc[q] = "commit" PROVE TargetsOK(tx[q])'
    BY <1>1 DEF AllTargetsOK
  <2>1. /\ TargetsOK(tx[q]) /\ tx[q].payment \in Payments
        /\ tx[q].targets \subseteq Subscriptions /\ tx'[q] = tx[q]
    BY <1>1 DEF AllTargetsOK, IInv, TypeOK, Transaction
  <2>2. \A x \in tx[q].targets : subscribed'[x] # None /\ Wants(x, tx[q].to)
    BY <1>1, <2>1 DEF TargetsOK
  <2>3. ASSUME NEW x \in Subscriptions \ tx[q].targets, Wants(x, tx[q].to)
        PROVE  MayMiss(tx[q].payment, x)'
    <3>1. CASE x = s
      BY <1>1, <2>1, <3>1 DEF MayMiss
    <3>2. CASE x # s
      BY <1>1, <2>1, <2>3, <3>2 DEF MayMiss, TargetsOK
    <3>. QED
      BY <3>1, <3>2
  <2>. QED
    BY <2>1, <2>2, <2>3 DEF TargetsOK, MayMiss, Wants
<1>. QED
  BY <1>2, <1>3

\* A commit on payment p queues `row' for its targets and touches nothing else:
\* the outboxes of p, and the requests about to commit, are in order after it.
LEMMA CommitOutbox ==
    ASSUME IInv, Served, AllTargetsOK, [Next]_vars,
           NEW r \in Requests, pc[r] = "commit", Leave(r),
           NEW p \in Payments, p = tx[r].payment, NEW row \in Row,
           QueueDeliveries(tx[r], row), subscribed' = subscribed,
           \A x \in Payments : x # p => payments'[x] = payments[x] /\ history'[x] = history[x],
           NEW n \in Nat, Extends(p, n, tx[r].to, row)
    PROVE  Served' /\ AllTargetsOK'
<1>1. deliveries \in [Payments -> [Subscriptions -> Seq(Row)]]
  BY DEF IInv, TypeOK
<1>2. ASSUME NEW x \in Payments, NEW s \in Subscriptions
      PROVE  deliveries'[x][s] = IF x = p /\ s \in tx[r].targets
                                 THEN Append(deliveries[x][s], row) ELSE deliveries[x][s]
  BY <1>1 DEF QueueDeliveries
<1>3. TargetsOK(tx[r])
  BY DEF AllTargetsOK
<1>4. Served'
  <2> SUFFICES ASSUME NEW x \in Payments, NEW s \in Subscriptions PROVE ServedAt(x, s)'
    BY DEF Served
  <2>1. CASE x # p
    BY <1>2, <2>1, SameOutbox
  <2>2. CASE x = p
    <3>1. deliveries[p][s] \in Seq(Row)
      BY <1>1
    <3>2. deliveries'[p][s] = IF s \in tx[r].targets THEN Append(deliveries[p][s], row)
                              ELSE deliveries[p][s]
      BY <1>2
    <3>. QED
      BY <1>3, <2>2, <3>1, <3>2, OutboxExtended
  <2>. QED
    BY <2>1, <2>2
<1>5. AllTargetsOK'
  <2> SUFFICES ASSUME NEW q \in Requests, pc'[q] = "commit" PROVE TargetsOK(tx[q])'
    BY DEF AllTargetsOK
  <2>0. q # r /\ pc[q] = "commit" /\ tx'[q] = tx[q]
    BY DEF Leave, GoTo, IInv, TypeOK
  <2>1. TargetsOK(tx[q])
    BY <2>0 DEF AllTargetsOK
  <2>2. tx[q].payment # p /\ tx[q].payment \in Payments
    BY <2>0 DEF IInv, TypeOK, Exclusive, Locks, Holding
  <2>3. history'[tx[q].payment] = history[tx[q].payment]
    BY <2>2
  <2>. QED
    BY <2>0, <2>1, <2>3 DEF TargetsOK, MayMiss, Wants
<1>. QED
  BY <1>4, <1>5

\* Every step keeps the outboxes and the deliveries about to be committed in
\* order.
LEMMA NextOutbox ==
    ASSUME IInv, IInv', HistoryIsLifecycle, MovedStaysMoved, Served, AllTargetsOK, [Next]_vars
    PROVE  Served' /\ AllTargetsOK'
<1>0. /\ history \in [Payments -> Seq(HistoryRow)] /\ payments \in [Payments -> Row]
      /\ deliveries \in [Payments -> [Subscriptions -> Seq(Row)]]
  BY DEF IInv, TypeOK
<1>1. ASSUME NEW r \in Requests, CommitInitiation(r)
      PROVE  Served' /\ AllTargetsOK'
  <2> DEFINE row == NewRow("initiated")
             new == [from |-> None, to |-> "initiated"]
  <2>1. PICK p \in Payments : p = tx[r].payment
    BY <1>1, InitiationFacts
  <2>2. /\ pc[r] = "commit" /\ Leave(r) /\ QueueDeliveries(tx[r], row)
        /\ subscribed' = subscribed /\ tx[r].to = "initiated"
        /\ payments' = [payments EXCEPT ![p] = row]
        /\ history' = [history EXCEPT ![p] = Append(@, new)]
    BY <1>1, <2>1 DEF CommitInitiation
  <2>3. history[p] = <<>>
    BY <1>1, <2>1, InitiationFacts DEF HistoryIsLifecycle
  <2>4. history'[p] = <<new>> /\ payments'[p] = row
    BY <1>0, <2>2, <2>3
  <2>5. row \in Row
    BY DEF NewRow, Row, Status, PaymentStatus
  <2>6. row = Announcement(p, 1)'
    BY <2>4 DEF Announcement, NewRow
  <2>7. Len(history[p]) = 0 /\ Len(history'[p]) = 1 /\ history'[p][1].to = tx[r].to
    BY <2>2, <2>3, <2>4
  <2>8. \A x \in Payments : x # p => payments'[x] = payments[x] /\ history'[x] = history[x]
    BY <1>0, <2>2
  <2>9. Extends(p, 0, tx[r].to, row) /\ 0 \in Nat
    BY <2>6, <2>7 DEF Extends
  <2> HIDE DEF row, new
  <2>. QED
    BY <2>1, <2>2, <2>5, <2>8, <2>9, CommitOutbox
<1>2. ASSUME NEW r \in Requests, CommitTransition(r)
      PROVE  Served' /\ AllTargetsOK'
  <2>1. PICK p \in Payments : p = tx[r].payment
    BY <1>2, TransitionFacts
  <2>2. /\ pc[r] = "commit" /\ Leave(r) /\ QueueDeliveries(tx[r], Updated(tx[r]))
        /\ subscribed' = subscribed
    BY <1>2, <2>1 DEF CommitTransition
  <2>3. \A x \in Payments : x # p => payments'[x] = payments[x] /\ history'[x] = history[x]
    BY <1>0, <1>2, <2>1, TransitionFacts, ZenonT(60)
  <2>4. PICK n \in Nat : n = Len(history[p])
    BY <1>0, LenProperties
  <2>5. Extends(p, n, tx[r].to, Updated(tx[r])) /\ Updated(tx[r]) \in Row
    BY <1>2, <2>1, <2>4, AnnouncementsStay
  <2>6. PICK row \in Row : row = Updated(tx[r])
    BY <2>5
  <2>7. Extends(p, n, tx[r].to, row) /\ QueueDeliveries(tx[r], row)
    BY <2>2, <2>5, <2>6
  <2>8. pc[r] = "commit" /\ Leave(r) /\ subscribed' = subscribed
    BY <2>2
  <2>. QED
    BY <2>1, <2>3, <2>6, <2>7, <2>8, CommitOutbox
<1>3. CASE UNCHANGED <<payments, accountVersion, journal, history, deliveries>>
  <2>1. subscribed' = subscribed \/ \E s \in Subscriptions : CreateSubscription(s)
    BY ZenonT(60) DEF Next, Start, Advance, Environment, vars, db, InitiatePayment, BeginTransition,
           Retry, FetchRate, SetFxDetails, ReadVersions, BumpAccount, UpdatePaymentStatus,
           EnqueueWebhooks, DeadlockAbort, Crash, BookRate,
           CommitInitiation, CommitTransition
  <2>2. SUFFICES ASSUME subscribed' = subscribed PROVE Served' /\ AllTargetsOK'
    BY <2>1, CreationOutbox
  <2>3. Served'
    BY <1>3, <2>2, SameOutbox DEF Served
  <2>4. ASSUME NEW q \in Requests, EnqueueWebhooks(q)
        PROVE  TargetsOK(tx[q])'
    <3> DEFINE T == {s \in Subscriptions :
                       /\ subscribed[s] # None
                       /\ EventFilter[s] = {} \/ tx[q].to \in EventFilter[s]}
               t == [tx[q] EXCEPT !.targets = T]
    <3>1. tx' = [tx EXCEPT ![q] = t] /\ tx[q] \in Transaction
      BY <2>4 DEF EnqueueWebhooks, GoTo, IInv, TypeOK
    <3>2. tx'[q] = t
      BY <3>1 DEF IInv, TypeOK
    <3>3. t.targets = T /\ t.to = tx[q].to
      BY <3>1 DEF Transaction
    <3> HIDE DEF t
    <3>4. \A s \in t.targets : subscribed[s] # None /\ Wants(s, t.to)
      BY <3>3 DEF Wants
    <3>5. \A s \in Subscriptions \ t.targets : Wants(s, t.to) => subscribed[s] = None
      BY <3>3 DEF Wants
    <3>. QED
      BY <2>2, <3>2, <3>4, <3>5 DEF TargetsOK, MayMiss, Wants
  <2>5. AllTargetsOK'
    <3> SUFFICES ASSUME NEW q \in Requests, pc'[q] = "commit" PROVE TargetsOK(tx[q])'
      BY DEF AllTargetsOK
    <3>1. CASE pc[q] = "commit" /\ tx'[q] = tx[q]
      <4>1. TargetsOK(tx[q])
        BY <3>1 DEF AllTargetsOK
      <4>. QED
        BY <1>3, <2>2, <3>1, <4>1 DEF TargetsOK, MayMiss, Wants
    <3>. QED
      BY <2>4, <3>1, CommitIsReached
  <2>. QED
    BY <2>3, <2>5
<1>. QED
  BY <1>1, <1>2, <1>3, OnlyCommitsWrite

\* The outbox of every subscription announces exactly the transitions that it
\* asked for and that committed after it was created, but for one that was
\* committing then, each once, in order and with the row as the transition left
\* it (enqueue_payment_webhook_event).
THEOREM OutboxCorrect == Spec => []OutboxMatchesHistory
<1>1. Init => Served /\ AllTargetsOK
  <2> SUFFICES ASSUME Init PROVE Served /\ AllTargetsOK
    OBVIOUS
  <2>1. AllTargetsOK
    BY DEF Init, AllTargetsOK
  <2>2. Served
    BY DEF Init, Served, ServedAt
  <2>. QED
    BY <2>1, <2>2
<1>2. Served => OutboxMatchesHistory
  BY DEF Served, ServedAt, Starts, OutboxMatchesHistory
<1>. QED
  BY <1>1, <1>2, InitHistory, NextHistory, NextOutbox, Inductive, PTL DEF Spec
=============================================================================
