--------------------------- MODULE AccountsProofs ---------------------------
(***************************************************************************)
(* Proofs about Accounts, for any number of workers, customers, payments   *)
(* and orders: the state is well typed, a statement always ends in the     *)
(* customer's balance, a shipped order has been charged, and, when         *)
(* requests are served one at a time, the accounts implement the abstract  *)
(* Statement.                                                              *)
(***************************************************************************)
EXTENDS Accounts, SequenceTheorems, FiniteSetTheorems, TLAPS

-----------------------------------------------------------------------------
\* What happens to a statement when a row, or a sequence of rows, is added at
\* its end.

\* Rows of integers: the only thing these facts need to know of a row.
BalanceRows(T) == \A r \in T : r.balance \in Int /\ r.amount \in Int

\* The end of a statement is an integer (customer.balance is a number).
LEMMA EndOfType ==
    ASSUME NEW T, BalanceRows(T), NEW rows \in Seq(T), NEW start \in Int
    PROVE  EndOf(rows, start) \in Int
  BY DEF EndOf, BalanceRows

\* Booking one more transaction keeps the statement chained.
LEMMA ChainedAppend ==
    ASSUME NEW T, BalanceRows(T), NEW rows \in Seq(T), NEW start \in Int, NEW r \in T,
           Chained(rows, start), r.balance = EndOf(rows, start) + r.amount
    PROVE  /\ Chained(Append(rows, r), start)
           /\ EndOf(Append(rows, r), start) = r.balance
  <1> DEFINE more == Append(rows, r)
  <1>1. /\ Len(more) = Len(rows) + 1 /\ Len(rows) \in Nat
        /\ more[Len(rows) + 1] = r
        /\ \A i \in 1..Len(rows) : more[i] = rows[i]
    BY AppendProperties
  <1>2. more # <<>>
    BY <1>1
  <1>3. Chained(more, start)
    <2> SUFFICES ASSUME NEW i \in 1..Len(more)
                 PROVE  more[i].balance
                          = (IF i = 1 THEN start ELSE more[i - 1].balance) + more[i].amount
      BY DEF Chained
    <2>1. CASE i \in 1..Len(rows)
      <3>1. i # 1 => i - 1 \in 1..Len(rows)
        BY <1>1, <2>1
      <3>2. QED
        BY <1>1, <2>1, <3>1 DEF Chained
    <2>2. CASE i = Len(rows) + 1 /\ rows = <<>>
      BY <1>1, <2>2 DEF EndOf
    <2>3. CASE i = Len(rows) + 1 /\ rows # <<>>
      <3>1. Len(rows) \in 1..Len(rows) /\ i # 1 /\ i - 1 = Len(rows)
        BY <1>1, <2>3
      <3>2. QED
        BY <1>1, <2>3, <3>1 DEF EndOf
    <2>4. QED
      BY <1>1, <2>1, <2>2, <2>3
  <1>4. EndOf(more, start) = r.balance
    BY <1>1, <1>2 DEF EndOf
  <1>5. QED
    BY <1>3, <1>4

\* Committing the rows a request booked keeps the statement chained when they
\* start from the balance the statement ends in.
LEMMA ChainedConcat ==
    ASSUME NEW T, BalanceRows(T), NEW old \in Seq(T), NEW new \in Seq(T), NEW start \in Int,
           Chained(old, start), Chained(new, EndOf(old, start))
    PROVE  /\ Chained(old \o new, start)
           /\ EndOf(old \o new, start) = EndOf(new, EndOf(old, start))
  <1> DEFINE all == old \o new
  <1>1. /\ Len(all) = Len(old) + Len(new) /\ Len(old) \in Nat /\ Len(new) \in Nat
        /\ \A i \in 1..Len(old) : all[i] = old[i]
        /\ \A i \in 1..Len(new) : all[Len(old) + i] = new[i]
        /\ all \in Seq(T)
    BY ConcatProperties
  <1>2. \A i \in 1..Len(all) : i \in 1..Len(old) \/ (i - Len(old) \in 1..Len(new))
    BY <1>1
  <1>3. Chained(all, start)
    <2> SUFFICES ASSUME NEW i \in 1..Len(all)
                 PROVE  all[i].balance
                          = (IF i = 1 THEN start ELSE all[i - 1].balance) + all[i].amount
      BY DEF Chained
    <2>1. CASE i \in 1..Len(old)
      <3>1. i # 1 => i - 1 \in 1..Len(old)
        BY <1>1, <2>1
      <3>2. QED
        BY <1>1, <2>1, <3>1 DEF Chained
    <2>2. CASE i - Len(old) \in 1..Len(new)
      <3> DEFINE k == i - Len(old)
      <3>1. k \in 1..Len(new) /\ i = Len(old) + k
        BY <1>1, <2>2
      <3>2. all[i] = new[k]
        BY <1>1, <3>1
      <3>3. new[k].balance
              = (IF k = 1 THEN EndOf(old, start) ELSE new[k - 1].balance) + new[k].amount
        BY <3>1 DEF Chained
      <3>4. CASE k = 1 /\ old = <<>>
        BY <1>1, <3>1, <3>2, <3>3, <3>4 DEF EndOf
      <3>5. CASE k = 1 /\ old # <<>>
        <4>1. Len(old) \in 1..Len(old) /\ i # 1 /\ i - 1 = Len(old)
          BY <1>1, <3>1, <3>5
        <4>2. QED
          BY <1>1, <3>2, <3>3, <3>5, <4>1 DEF EndOf
      <3>6. CASE k # 1
        <4>1. k - 1 \in 1..Len(new) /\ i # 1 /\ i - 1 = Len(old) + (k - 1)
          BY <1>1, <3>1, <3>6
        <4>2. all[i - 1] = new[k - 1]
          BY <1>1, <4>1
        <4>3. QED
          BY <3>2, <3>3, <3>6, <4>1, <4>2
      <3>7. QED
        BY <3>4, <3>5, <3>6
    <2>3. QED
      BY <1>2, <2>1, <2>2
  <1>4. EndOf(all, start) = EndOf(new, EndOf(old, start))
    <2>1. CASE new = <<>>
      <3>1. all = old
        BY <2>1, ConcatEmptySeq
      <3>2. QED
        BY <2>1, <3>1 DEF EndOf
    <2>2. CASE new # <<>>
      <3>1. Len(new) \in 1..Len(new) /\ all # <<>>
        BY <1>1, <2>2
      <3>2. QED
        BY <1>1, <2>2, <3>1 DEF EndOf
    <2>3. QED
      BY <2>1, <2>2
  <1>5. QED
    BY <1>3, <1>4

\* The balance a new row shows is the one the statement ends in.
LEMMA EndsInAppend ==
    ASSUME NEW T, NEW rows \in Seq(T), NEW start, NEW r \in T
    PROVE  EndsIn(Append(rows, r), start, r.balance)
  BY AppendProperties DEF EndsIn, StillFrom

\* Rows that move no money leave the end of a statement as it was.
LEMMA EndsInStill ==
    ASSUME NEW T, NEW old \in Seq(T), NEW new \in Seq(T), NEW start, NEW balance,
           EndsIn(old, start, balance), StillFrom(new, 1)
    PROVE  EndsIn(old \o new, start, balance)
  <1> DEFINE all == old \o new
  <1>1. /\ Len(all) = Len(old) + Len(new) /\ Len(old) \in Nat /\ Len(new) \in Nat
        /\ \A i \in 1..Len(old) : all[i] = old[i]
        /\ \A i \in (Len(old) + 1)..Len(all) : all[i] = new[i - Len(old)]
    BY ConcatProperties
  <1>2. StillFrom(all, Len(old) + 1)
    <2> SUFFICES ASSUME NEW i \in (Len(old) + 1)..Len(all)
                 PROVE  all[i].amount = 0
      BY DEF StillFrom
    <2>1. i - Len(old) \in 1..Len(new)
      BY <1>1
    <2>2. QED
      BY <1>1, <2>1 DEF StillFrom
  <1>3. ASSUME NEW k \in 1..(Len(old) + 1), StillFrom(old, k)
        PROVE  StillFrom(all, k)
    <2> SUFFICES ASSUME NEW i \in k..Len(all)
                 PROVE  all[i].amount = 0
      BY DEF StillFrom
    <2>1. CASE i \in (Len(old) + 1)..Len(all)
      BY <1>2, <2>1 DEF StillFrom
    <2>2. CASE i \in k..Len(old)
      BY <1>1, <1>3, <2>2 DEF StillFrom
    <2>3. QED
      BY <1>1, <2>1, <2>2
  <1>4. CASE balance = start /\ StillFrom(old, 1)
    BY <1>1, <1>3, <1>4 DEF EndsIn
  <1>5. CASE \E i \in 1..Len(old) : old[i].balance = balance /\ StillFrom(old, i + 1)
    <2>1. PICK i \in 1..Len(old) : old[i].balance = balance /\ StillFrom(old, i + 1)
      BY <1>5
    <2>2. i \in 1..Len(all) /\ all[i].balance = balance /\ StillFrom(all, i + 1)
      BY <1>1, <1>3, <2>1
    <2>3. QED
      BY <2>2 DEF EndsIn
  <1>6. QED
    BY <1>4, <1>5 DEF EndsIn

\* Rows that moved money decide where the statement they are added to ends.
LEMMA EndsInMoved ==
    ASSUME NEW T, NEW old \in Seq(T), NEW new \in Seq(T), NEW start, NEW from, NEW balance,
           EndsIn(new, from, balance), balance # from
    PROVE  EndsIn(old \o new, start, balance)
  <1> DEFINE all == old \o new
  <1>1. /\ Len(all) = Len(old) + Len(new) /\ Len(old) \in Nat /\ Len(new) \in Nat
        /\ \A i \in (Len(old) + 1)..Len(all) : all[i] = new[i - Len(old)]
    BY ConcatProperties
  <1>2. PICK i \in 1..Len(new) : new[i].balance = balance /\ StillFrom(new, i + 1)
    BY DEF EndsIn
  <1>3. Len(old) + i \in 1..Len(all) /\ all[Len(old) + i] = new[i]
    BY <1>1
  <1>4. StillFrom(all, Len(old) + i + 1)
    <2> SUFFICES ASSUME NEW k \in (Len(old) + i + 1)..Len(all)
                 PROVE  all[k].amount = 0
      BY DEF StillFrom
    <2>1. k - Len(old) \in (i + 1)..Len(new) /\ all[k] = new[k - Len(old)]
      BY <1>1
    <2>2. QED
      BY <1>2, <2>1 DEF StillFrom
  <1>5. QED
    BY <1>2, <1>3, <1>4 DEF EndsIn

\* The rows committed before are a prefix of the statement.
LEMMA ConcatPrefix ==
    ASSUME NEW T, NEW old \in Seq(T), NEW new \in Seq(T)
    PROVE  PrefixOf(old, old \o new)
  BY ConcatProperties DEF PrefixOf

-----------------------------------------------------------------------------
\* The inductive invariant.

\* The calls on the stack ship orders that exist in the request's view.
Shippable(s) == {o \in Orders : s.work.order[o] \in OrderRow}
StackOK(s) ==
    /\ s.pc = "shipping" => s.stack # <<>>
    /\ \A i \in 1..Len(s.stack) : /\ s.stack[i].order \in Shippable(s)
                                  /\ s.stack[i].todo \subseteq Shippable(s)

\* What a request has booked leads from the balance it read to the one it will
\* write; if the two are equal it has moved no money, because a request books
\* either one transaction or, while it ships, deductions only.
BooksOK(s) ==
    \A c \in Customers :
        /\ Chained(s.rows[c], s.snap.balance[c])
        /\ s.work.balance[c] = EndOf(s.rows[c], s.snap.balance[c])
        /\ EndsIn(s.rows[c], s.snap.balance[c], s.work.balance[c])
        /\ s.work.balance[c] = s.snap.balance[c] => StillFrom(s.rows[c], 1)
        /\ s.pc = "shipping" => s.work.balance[c] <= s.snap.balance[c]

SessionOK(s) == s \in Session /\ StackOK(s) /\ BooksOK(s)

OpenSessionsOK == \A w \in Workers : session[w] # Idle => SessionOK(session[w])

\* With a single worker nothing is committed while a request is computed, so
\* that it starts from the balance the statement ends in.
Serial == \A v, w \in Workers : v = w
SerialOK ==
    Serial => /\ StatementChains
              /\ \A w \in Workers : session[w] # Idle => session[w].snap = db

IInv == TypeOK /\ StatementEndsInBalance /\ OpenSessionsOK /\ SerialOK

-----------------------------------------------------------------------------
\* Types.

\* A row of a statement has an integer amount and balance.
LEMMA TransactionRowType == BalanceRows(TransactionRow)
  BY DEF BalanceRows, TransactionRow

\* An idle session is no open one, and a row that exists is not a missing one.
LEMMA RowTypes ==
    /\ Idle \notin Session
    /\ \A row \in OrderRow : row \notin NoRow
    /\ \A row \in OrderRow \cup NoRow : row \notin NoRow => row \in OrderRow
    /\ Absent \notin PaymentRow
  BY DEF Idle, Session, OrderRow, NoRow, Absent, Deleted, PaymentRow, OrderStatus, PaymentStatus

\* A request that has only read: nothing booked, nothing shipping.
LEMMA BeginOK ==
    ASSUME TypeOK
    PROVE  SessionOK(Begin) /\ Begin.pc = "ready" /\ Begin.work = db /\ Begin.snap = db
  <1>1. Begin \in Session
    BY DEF TypeOK, Begin, Session
  <1>2. StackOK(Begin)
    BY DEF Begin, StackOK
  <1>3. BooksOK(Begin)
    BY DEF Begin, BooksOK, Chained, EndOf, EndsIn, StillFrom
  <1>4. QED
    BY <1>1, <1>2, <1>3 DEF SessionOK, Begin

\* Writing a payment keeps a session well formed.
LEMMA WritePaymentsOK ==
    ASSUME NEW s, SessionOK(s), NEW table \in [Payments -> PaymentRow \cup {Absent}]
    PROVE  /\ SessionOK(WritePayments(s, table))
           /\ WritePayments(s, table).work = [s.work EXCEPT !.payment = table]
           /\ WritePayments(s, table).pc = s.pc
           /\ WritePayments(s, table).snap = s.snap
  <1> DEFINE t == WritePayments(s, table)
  <1>1. /\ t.pc = s.pc /\ t.snap = s.snap /\ t.rows = s.rows /\ t.stack = s.stack
        /\ t.work = [s.work EXCEPT !.payment = table]
        /\ t \in Session
    BY DEF WritePayments, SessionOK, Session, Database
  <1>2. t.work.balance = s.work.balance /\ t.work.order = s.work.order
    BY <1>1 DEF SessionOK, Session, Database
  <1>3. StackOK(t) /\ BooksOK(t)
    BY <1>1, <1>2 DEF SessionOK, StackOK, BooksOK, Shippable
  <1>4. QED
    BY <1>1, <1>3 DEF SessionOK

\* ... also when a single row is written.
LEMMA WritePaymentOK ==
    ASSUME NEW s, SessionOK(s), NEW p \in Payments, NEW row \in PaymentRow
    PROVE  /\ SessionOK(WritePayment(s, p, row))
           /\ WritePayment(s, p, row).pc = s.pc
           /\ WritePayment(s, p, row).snap = s.snap
  <1> DEFINE table == [s.work.payment EXCEPT ![p] = row]
  <1>1. table \in [Payments -> PaymentRow \cup {Absent}]
    BY DEF SessionOK, Session, Database
  <1>2. WritePayment(s, p, row) = WritePayments(s, table)
    BY DEF WritePayment, WritePayments, SessionOK, Session, Database
  <1> HIDE DEF table
  <1>3. /\ SessionOK(WritePayments(s, table))
        /\ WritePayments(s, table).pc = s.pc
        /\ WritePayments(s, table).snap = s.snap
    BY <1>1, WritePaymentsOK
  <1>4. QED
    BY <1>2, <1>3

\* Writing orders keeps a session well formed unless it deletes one that the
\* session is shipping.
LEMMA WriteOrdersOK ==
    ASSUME NEW s, SessionOK(s), NEW table \in [Orders -> OrderRow \cup NoRow],
           (s.pc = "ready" /\ s.stack = <<>>) \/ \A o \in Shippable(s) : table[o] \in OrderRow
    PROVE  /\ SessionOK(WriteOrders(s, table))
           /\ WriteOrders(s, table).work = [s.work EXCEPT !.order = table]
           /\ WriteOrders(s, table).pc = s.pc
           /\ WriteOrders(s, table).stack = s.stack
           /\ WriteOrders(s, table).snap = s.snap
  <1> DEFINE t == WriteOrders(s, table)
  <1>1. /\ t.pc = s.pc /\ t.snap = s.snap /\ t.rows = s.rows /\ t.stack = s.stack
        /\ t.work = [s.work EXCEPT !.order = table]
        /\ t \in Session
    BY DEF WriteOrders, SessionOK, Session, Database
  <1>2. t.work.balance = s.work.balance /\ t.work.order = table
    BY <1>1 DEF SessionOK, Session, Database
  <1>3. BooksOK(t)
    BY <1>1, <1>2 DEF SessionOK, BooksOK
  <1>4. StackOK(t)
    BY <1>1, <1>2 DEF SessionOK, StackOK, Shippable
  <1>5. QED
    BY <1>1, <1>3, <1>4 DEF SessionOK

\* Writing a row that exists keeps a session well formed in any case.
LEMMA WriteOrderOK ==
    ASSUME NEW s, SessionOK(s), NEW o \in Orders, NEW row \in OrderRow
    PROVE  /\ SessionOK(WriteOrder(s, o, row))
           /\ WriteOrder(s, o, row).pc = s.pc
           /\ WriteOrder(s, o, row).stack = s.stack
           /\ WriteOrder(s, o, row).snap = s.snap
  <1> DEFINE table == [s.work.order EXCEPT ![o] = row]
  <1>1. /\ table \in [Orders -> OrderRow \cup NoRow]
        /\ \A x \in Shippable(s) : table[x] \in OrderRow
    BY DEF SessionOK, Session, Database, Shippable
  <1>2. WriteOrder(s, o, row) = WriteOrders(s, table)
    BY DEF WriteOrder, WriteOrders, SessionOK, Session, Database
  <1> HIDE DEF table
  <1>3. /\ SessionOK(WriteOrders(s, table))
        /\ WriteOrders(s, table).pc = s.pc
        /\ WriteOrders(s, table).stack = s.stack
        /\ WriteOrders(s, table).snap = s.snap
    BY <1>1, WriteOrdersOK
  <1>4. QED
    BY <1>2, <1>3

\* Booking a transaction: the first one of a request, or a deduction while the
\* request ships.
LEMMA TransactionOK ==
    ASSUME NEW s, SessionOK(s), NEW c \in Customers, NEW amount \in Int,
           NEW kind \in {"payment", "revert", "order", "manual"},
           NEW of \in Payments \cup Orders \cup {NoOrder},
           \/ s.pc = "ready" /\ s.work.balance[c] = s.snap.balance[c]
           \/ s.pc = "shipping" /\ amount <= 0
    PROVE  /\ SessionOK(Transaction(s, c, amount, kind, of))
           /\ Transaction(s, c, amount, kind, of).pc = s.pc
           /\ Transaction(s, c, amount, kind, of).stack = s.stack
           /\ Transaction(s, c, amount, kind, of).snap = s.snap
           /\ Transaction(s, c, amount, kind, of).work.order = s.work.order
  <1> DEFINE t == Transaction(s, c, amount, kind, of)
             before == s.work.balance[c]
             row == [amount |-> amount, balance |-> before + amount, kind |-> kind, of |-> of]
  <1>0. /\ s \in Session /\ s.work \in Database /\ s.snap \in Database
        /\ s.work.balance \in [Customers -> Int] /\ s.snap.balance \in [Customers -> Int]
        /\ s.rows \in [Customers -> Seq(TransactionRow)]
    BY DEF SessionOK, Session, Database
  <1>1. /\ before \in Int /\ s.snap.balance[c] \in Int
        /\ s.rows \in [Customers -> Seq(TransactionRow)]
        /\ row \in TransactionRow
    <2>1. before \in Int /\ s.snap.balance[c] \in Int
      BY <1>0
    <2> HIDE DEF before
    <2>2. row \in TransactionRow
      BY <2>1 DEF TransactionRow
    <2>3. QED
      BY <1>0, <2>1, <2>2
  <1>2. t = [s EXCEPT !.work.balance[c] = before + amount,
                      !.rows[c] = Append(@, row)]
    BY DEF Transaction
  <1>3. /\ t.pc = s.pc /\ t.stack = s.stack /\ t.snap = s.snap
        /\ t.work.order = s.work.order
        /\ t.work.balance = [s.work.balance EXCEPT ![c] = before + amount]
        /\ t.rows = [s.rows EXCEPT ![c] = Append(s.rows[c], row)]
        /\ t \in Session
    <2> HIDE DEF row, before, t
    <2> DEFINE balances == [s.work.balance EXCEPT ![c] = before + amount]
               rows == [s.rows EXCEPT ![c] = Append(s.rows[c], row)]
               work == [s.work EXCEPT !.balance = balances]
    <2>1. rows \in [Customers -> Seq(TransactionRow)]
      BY <1>1
    <2>2. balances \in [Customers -> Int]
      BY <1>0, <1>1
    <2>3. t = [s EXCEPT !.work = work, !.rows = rows]
      BY <1>0, <1>2 DEF Session, Database
    <2> HIDE DEF balances, rows
    <2>4. work \in Database /\ work.balance = balances /\ work.order = s.work.order
      BY <1>0, <2>2 DEF Database
    <2> HIDE DEF work
    <2>5. /\ t.pc = s.pc /\ t.stack = s.stack /\ t.snap = s.snap
          /\ t.work = work /\ t.rows = rows /\ t \in Session
      BY <1>0, <2>1, <2>3, <2>4 DEF Session
    <2>6. QED
      BY <2>4, <2>5 DEF balances, rows
  <1>4. StackOK(t)
    BY <1>3 DEF SessionOK, StackOK, Shippable
  <1>5. BooksOK(t)
    <2> SUFFICES ASSUME NEW x \in Customers
                 PROVE  /\ Chained(t.rows[x], t.snap.balance[x])
                        /\ t.work.balance[x] = EndOf(t.rows[x], t.snap.balance[x])
                        /\ EndsIn(t.rows[x], t.snap.balance[x], t.work.balance[x])
                        /\ t.work.balance[x] = t.snap.balance[x] => StillFrom(t.rows[x], 1)
                        /\ t.pc = "shipping" => t.work.balance[x] <= t.snap.balance[x]
      BY DEF BooksOK
    <2>1. CASE x # c
      <3>1. t.rows[x] = s.rows[x] /\ t.work.balance[x] = s.work.balance[x]
        BY <1>1, <1>3, <2>1 DEF SessionOK, Session, Database
      <3>2. QED
        BY <1>3, <3>1 DEF SessionOK, BooksOK
    <2>2. CASE x = c
      <3> DEFINE rows == s.rows[c]
                 start == s.snap.balance[c]
      <3>1. t.rows[x] = Append(rows, row) /\ t.work.balance[x] = before + amount
        BY <1>1, <1>3, <2>2 DEF SessionOK, Session, Database
      <3>2. /\ Chained(rows, start) /\ before = EndOf(rows, start)
            /\ before = start => StillFrom(rows, 1)
            /\ s.pc = "shipping" => before <= start
        BY DEF SessionOK, BooksOK
      <3>3. rows \in Seq(TransactionRow) /\ start \in Int
        BY <1>1
      <3>4. row.balance = before + amount /\ row.amount = amount
        OBVIOUS
      <3> HIDE DEF row, rows, start, before
      <3>5. Chained(Append(rows, row), start) /\ EndOf(Append(rows, row), start) = before + amount
        BY <1>1, <3>2, <3>3, <3>4, ChainedAppend, TransactionRowType
      <3>6. EndsIn(Append(rows, row), start, before + amount)
        BY <1>1, <3>3, <3>4, EndsInAppend
      <3>7. before + amount = start => StillFrom(Append(rows, row), 1)
        <4> SUFFICES ASSUME before + amount = start
                     PROVE  StillFrom(Append(rows, row), 1)
          OBVIOUS
        <4>1. before = start /\ amount = 0
          BY <1>1, <3>2, <3>3 DEF before, start
        <4>2. /\ Len(Append(rows, row)) = Len(rows) + 1 /\ Len(rows) \in Nat
              /\ Append(rows, row)[Len(rows) + 1] = row
              /\ \A i \in 1..Len(rows) : Append(rows, row)[i] = rows[i]
          BY <1>1, <3>3, AppendProperties
        <4>3. QED
          BY <3>2, <3>4, <4>1, <4>2 DEF StillFrom
      <3>8. s.pc = "shipping" => before + amount <= start
        BY <1>1, <3>2, <3>3
      <3>9. QED
        BY <1>3, <2>2, <3>1, <3>5, <3>6, <3>7, <3>8 DEF start
    <2>3. QED
      BY <2>1, <2>2
  <1>6. QED
    BY <1>3, <1>4, <1>5 DEF SessionOK

-----------------------------------------------------------------------------
\* Requests that are computed in one step.

OrderTable == [Orders -> OrderRow \cup NoRow]

\* A session that has just read the database.
Fresh(s) == SessionOK(s) /\ s.snap = db

\* ... and is not shipping: what the handlers of one step work on.
Ready(s) == Fresh(s) /\ s.pc = "ready" /\ s.stack = <<>>

\* The session of a request that has only read.
LEMMA BeginReady ==
    ASSUME TypeOK
    PROVE  /\ Ready(Begin) /\ Begin.work = db /\ Begin.snap = db
           /\ db \in Database /\ db.order \in OrderTable
           /\ db.payment \in [Payments -> PaymentRow \cup {Absent}]
  <1>1. Begin.stack = <<>>
    BY DEF Begin
  <1>2. QED
    BY <1>1, BeginOK DEF Ready, Fresh, TypeOK, Database, OrderTable

\* Handlers that write the orders,
LEMMA ReadyWriteOrders ==
    ASSUME NEW s, Ready(s), NEW table \in OrderTable
    PROVE  Ready(WriteOrders(s, table)) /\ WriteOrders(s, table).work = [s.work EXCEPT !.order = table]
  BY WriteOrdersOK DEF Ready, Fresh, OrderTable

\* ... one of them,
LEMMA ReadyWriteOrder ==
    ASSUME NEW s, Ready(s), NEW o \in Orders, NEW row \in OrderRow
    PROVE  Ready(WriteOrder(s, o, row))
  BY WriteOrderOK DEF Ready, Fresh

\* ... the payments,
LEMMA ReadyWritePayments ==
    ASSUME NEW s, Ready(s), NEW table \in [Payments -> PaymentRow \cup {Absent}]
    PROVE  Ready(WritePayments(s, table)) /\ WritePayments(s, table).work = [s.work EXCEPT !.payment = table]
  <1>1. WritePayments(s, table).stack = s.stack
    BY DEF WritePayments, Ready, Fresh, SessionOK, Session
  <1>2. QED
    BY <1>1, WritePaymentsOK DEF Ready, Fresh

\* ... or one of them.
LEMMA ReadyWritePayment ==
    ASSUME NEW s, Ready(s), NEW p \in Payments, NEW row \in PaymentRow
    PROVE  Ready(WritePayment(s, p, row))
  <1>1. WritePayment(s, p, row).stack = s.stack
    BY DEF WritePayment, Ready, Fresh, SessionOK, Session
  <1>2. QED
    BY <1>1, WritePaymentOK DEF Ready, Fresh

\* The one transaction of a request that has booked nothing yet.
LEMMA ReadyTransaction ==
    ASSUME TypeOK, NEW c \in Customers, NEW amount \in Int,
           NEW kind \in {"payment", "revert", "order", "manual"},
           NEW of \in Payments \cup Orders \cup {NoOrder}
    PROVE  /\ Ready(Transaction(Begin, c, amount, kind, of))
           /\ Transaction(Begin, c, amount, kind, of).work.order = db.order
  BY BeginReady, TransactionOK DEF Ready, Fresh

\* The step that opens a session preserves the invariant.
LEMMA RequestStep ==
    ASSUME IInv, NEW w \in Workers, NEW s, Request(w, s), Fresh(s)
    PROVE  IInv'
  <1>1. db' = db /\ ledger' = ledger /\ session' = [session EXCEPT ![w] = s]
    BY DEF Request
  <1>2. TypeOK'
    BY <1>1 DEF IInv, TypeOK, Fresh, SessionOK
  <1>3. StatementEndsInBalance'
    BY <1>1 DEF IInv, StatementEndsInBalance
  <1>4. OpenSessionsOK'
    BY <1>1 DEF IInv, OpenSessionsOK, TypeOK, Fresh
  <1>5. SerialOK'
    BY <1>1 DEF IInv, SerialOK, StatementChains, TypeOK, Fresh
  <1>6. QED
    BY <1>2, <1>3, <1>4, <1>5 DEF IInv

\* Payment.set_status.
LEMMA SetPaymentStatusReady ==
    ASSUME TypeOK, NEW p \in Payments, NEW payment \in PaymentRow, NEW status \in PaymentStatus
    PROVE  Ready(SetPaymentStatus(Begin, p, payment, status))
  <1>1. payment.user \in Customers /\ payment.received \in Int /\ -payment.received \in Int
    <2>1. payment.user \in Customers /\ payment.received \in Nat
      BY AccountsAssumption DEF PaymentRow
    <2>2. \A n \in Nat : n \in Int /\ -n \in Int
      OBVIOUS
    <2>3. QED
      BY <2>1, <2>2
  <1>2. Ready(AddPayment(Begin, p, payment))
    <2> DEFINE credited == Transaction(Begin, payment.user, payment.received, "payment", p)
               table == [o \in Orders |->
                            IF o \in payment.orders /\ credited.work.order[o].status = "pending"
                            THEN [credited.work.order[o] EXCEPT !.status = "can_be_paid"]
                            ELSE credited.work.order[o]]
    <2>1. Ready(credited) /\ credited.work.order = db.order
      BY <1>1, ReadyTransaction
    <2>2. table \in OrderTable
      <3> SUFFICES ASSUME NEW o \in Orders
                   PROVE  table[o] \in OrderRow \cup NoRow
        BY DEF OrderTable
      <3>1. db.order[o] \in OrderRow \cup NoRow
        BY BeginReady DEF OrderTable
      <3>2. CASE o \in payment.orders /\ db.order[o].status = "pending"
        <4>1. db.order[o] \in OrderRow
          BY <3>1, <3>2 DEF NoRow, Absent, Deleted
        <4>2. [db.order[o] EXCEPT !.status = "can_be_paid"] \in OrderRow
          BY <4>1 DEF OrderRow, OrderStatus
        <4>3. QED
          BY <2>1, <3>2, <4>2
      <3>3. CASE ~(o \in payment.orders /\ db.order[o].status = "pending")
        BY <2>1, <3>1, <3>3
      <3>4. QED
        BY <3>2, <3>3
    <2>3. AddPayment(Begin, p, payment) = WriteOrders(credited, table)
      BY DEF AddPayment, UpdateOrders
    <2> HIDE DEF credited, table
    <2>4. QED
      BY <2>1, <2>2, <2>3, ReadyWriteOrders
  <1>3. Ready(RevertPayment(Begin, p, payment))
    BY <1>1, ReadyTransaction DEF RevertPayment
  <1>4. [payment EXCEPT !.status = status] \in PaymentRow
    BY DEF PaymentRow
  <1>5. QED
    BY <1>2, <1>3, <1>4, BeginReady, ReadyWritePayment DEF SetPaymentStatus

\* The requests about payments preserve the invariant.
LEMMA PaymentRequestStep ==
    ASSUME IInv, NEW w \in Workers, PaymentRequest(w)
    PROVE  IInv'
  <1>1. TypeOK
    BY DEF IInv
  <1>2. PICK p \in Payments :
            \/ \E user \in Customers, sent \in Amounts, orders \in SUBSET ExistingOrders(db) :
                   \/ user_create_payment(w, p, user, sent, orders)
                   \/ \E received \in Amounts :
                          admin_edit_payment(w, p, user, sent, received, orders)
            \/ user_delete_payment(w, p)
            \/ \E status \in AdminPaymentStatuses : admin_set_payment_status(w, p, status)
            \/ handle_checkout_complete(w, p)
            \/ \E net_amount \in Amounts : approve_payment(w, p, net_amount)
    BY DEF PaymentRequest
  <1>3. Exists(p) => db.payment[p] \in PaymentRow
    BY <1>1, BeginReady DEF Exists
  <1>4. ASSUME NEW user \in Customers, NEW sent \in Amounts, NEW orders \in SUBSET ExistingOrders(db),
               user_create_payment(w, p, user, sent, orders)
        PROVE  IInv'
    <2>1. [status |-> "pending", user |-> user, sent |-> sent, received |-> 0,
           orders |-> orders] \in PaymentRow
      BY AccountsAssumption DEF PaymentRow, PaymentStatus, ExistingOrders
    <2>2. QED
      BY <1>1, <1>4, <2>1, BeginReady, ReadyWritePayment, RequestStep
         DEF user_create_payment, Ready
  <1>5. ASSUME NEW user \in Customers, NEW sent \in Amounts, NEW orders \in SUBSET ExistingOrders(db),
               NEW received \in Amounts, admin_edit_payment(w, p, user, sent, received, orders)
        PROVE  IInv'
    <2> DEFINE row == [db.payment[p] EXCEPT !.user = user, !.sent = sent, !.received = received,
                                            !.orders = IF orders = {} THEN @ ELSE orders]
    <2>1. row \in PaymentRow
      BY <1>3, <1>5 DEF PaymentRow, ExistingOrders, admin_edit_payment
    <2>2. Request(w, WritePayment(Begin, p, row))
      BY <1>5 DEF admin_edit_payment
    <2> HIDE DEF row
    <2>3. QED
      BY <1>1, <2>1, <2>2, BeginReady, ReadyWritePayment, RequestStep DEF Ready
  <1>6. ASSUME user_delete_payment(w, p)
        PROVE  IInv'
    <2>1. [db.payment[p] EXCEPT !.status = "cancelled"] \in PaymentRow
      BY <1>3, <1>6 DEF PaymentRow, PaymentStatus, user_delete_payment
    <2>2. QED
      BY <1>1, <1>6, <2>1, BeginReady, ReadyWritePayment, RequestStep
         DEF user_delete_payment, Ready
  <1>7. ASSUME NEW status \in AdminPaymentStatuses, admin_set_payment_status(w, p, status)
        PROVE  IInv'
    <2>1. status \in PaymentStatus
      BY AccountsAssumption
    <2>2. QED
      BY <1>1, <1>3, <1>7, <2>1, SetPaymentStatusReady, RequestStep
         DEF admin_set_payment_status, Ready
  <1>8. ASSUME NEW net_amount \in Amounts,
               Exists(p),
               Request(w, SetPaymentStatus(Begin, p,
                            [db.payment[p] EXCEPT !.received = net_amount], "approved"))
        PROVE  IInv'
    <2>1. [db.payment[p] EXCEPT !.received = net_amount] \in PaymentRow
      BY <1>3, <1>8 DEF PaymentRow
    <2>2. "approved" \in PaymentStatus
      BY DEF PaymentStatus
    <2>3. QED
      BY <1>1, <1>8, <2>1, <2>2, SetPaymentStatusReady, RequestStep DEF Ready
  <1>9. ASSUME handle_checkout_complete(w, p)
        PROVE  IInv'
    <2>1. Exists(p) /\ db.payment[p].sent \in Amounts
      BY <1>3, <1>9 DEF handle_checkout_complete, PaymentRow
    <2>2. QED
      BY <1>8, <1>9, <2>1 DEF handle_checkout_complete
  <1>10. ASSUME NEW net_amount \in Amounts, approve_payment(w, p, net_amount)
         PROVE  IInv'
    BY <1>8, <1>10 DEF approve_payment
  <1>11. QED
    BY <1>2, <1>4, <1>5, <1>6, <1>7, <1>9, <1>10

\* A transaction entered by hand preserves the invariant.
LEMMA TransactionRequestStep ==
    ASSUME IInv, NEW w \in Workers, TransactionRequest(w)
    PROVE  IInv'
  <1>1. PICK c \in Customers, amount \in ManualAmounts :
            Request(w, Transaction(Begin, c, amount, "manual", NoOrder))
    BY DEF TransactionRequest, admin_save_transaction
  <1>2. amount \in Int /\ TypeOK
    BY AccountsAssumption DEF IInv
  <1>3. Fresh(Transaction(Begin, c, amount, "manual", NoOrder))
    BY <1>2, ReadyTransaction DEF Ready
  <1>4. QED
    BY <1>1, <1>3, RequestStep

-----------------------------------------------------------------------------
\* Requests about orders.

\* Order.attach_orders changes rows that exist only, and only their parent.
LEMMA AttachType ==
    ASSUME NEW table \in OrderTable, NEW o \in Orders, NEW orders
    PROVE  Attach(table, o, orders) \in OrderTable
  <1> SUFFICES ASSUME NEW x \in Orders
               PROVE  Attach(table, o, orders)[x] \in OrderRow \cup NoRow
    BY DEF OrderTable, Attach
  <1>1. CASE table[x] \in NoRow
    BY <1>1 DEF Attach
  <1>2. CASE table[x] \notin NoRow
    <2> DEFINE parent == IF x \in orders THEN o
                         ELSE IF table[x].attachedTo = o THEN NoOrder ELSE table[x].attachedTo
    <2>1. table[x] \in OrderRow
      BY <1>2 DEF OrderTable
    <2>2. parent \in Orders \cup {NoOrder}
      BY <2>1 DEF OrderRow
    <2>3. Attach(table, o, orders)[x] = [table[x] EXCEPT !.attachedTo = parent]
      BY <1>2, <2>1 DEF Attach, OrderRow
    <2> HIDE DEF parent
    <2>4. QED
      BY <2>1, <2>2, <2>3 DEF OrderRow
  <1>3. QED
    BY <1>1, <1>2

\* Deleting an order leaves the other rows in place.
LEMMA RemoveOrderReady ==
    ASSUME NEW s, Ready(s), NEW o \in Orders
    PROVE  /\ Ready(RemoveOrder(s, o))
           /\ RemoveOrder(s, o).work.order \in OrderTable
  <1> DEFINE orders == Remove(s.work.order, o)
             written == WriteOrders(s, orders)
             payments == [p \in Payments |->
                            IF s.work.payment[p] = Absent THEN s.work.payment[p]
                            ELSE [s.work.payment[p] EXCEPT !.orders = @ \ {o}]]
  <1>1. /\ s.work.order \in OrderTable /\ s.work \in Database
        /\ s.work.payment \in [Payments -> PaymentRow \cup {Absent}]
    BY DEF Ready, Fresh, SessionOK, Session, Database, OrderTable
  <1>2. orders \in OrderTable
    BY <1>1, AttachType DEF Remove, OrderTable, NoRow
  <1>3. payments \in [Payments -> PaymentRow \cup {Absent}]
    <2> SUFFICES ASSUME NEW p \in Payments, s.work.payment[p] # Absent
                 PROVE  [s.work.payment[p] EXCEPT !.orders = @ \ {o}] \in PaymentRow
      BY <1>1
    <2>1. s.work.payment[p] \in PaymentRow
      BY <1>1
    <2>2. QED
      BY <2>1 DEF PaymentRow
  <1>4. RemoveOrder(s, o) = WritePayments(written, payments)
    BY DEF RemoveOrder
  <1> HIDE DEF orders, payments
  <1>5. Ready(written) /\ written.work = [s.work EXCEPT !.order = orders]
    BY <1>2, ReadyWriteOrders
  <1>6. written.work.order = orders /\ written.work \in Database
    BY <1>1, <1>2, <1>5 DEF Database, OrderTable
  <1> HIDE DEF written
  <1>7. /\ Ready(WritePayments(written, payments))
        /\ WritePayments(written, payments).work = [written.work EXCEPT !.payment = payments]
    BY <1>3, <1>5, ReadyWritePayments
  <1>8. WritePayments(written, payments).work.order = orders
    BY <1>6, <1>7 DEF Database
  <1>9. QED
    BY <1>2, <1>4, <1>7, <1>8

\* A new order, with the orders attached to it.
LEMMA NewOrderReady ==
    ASSUME NEW s, Ready(s), NEW o \in Orders, NEW user \in Customers, NEW status \in OrderStatus,
           NEW total \in Totals, NEW products \in SUBSET Products, NEW orders
    PROVE  Ready(NewOrder(s, o, user, status, total, products, orders))
  <1> DEFINE row == [status |-> status, user |-> user, total |-> total,
                     unfinished |-> products, attachedTo |-> NoOrder]
             table == [s.work.order EXCEPT ![o] = row]
  <1>1. row \in OrderRow
    BY DEF OrderRow
  <1>2. s.work.order \in OrderTable
    BY DEF Ready, Fresh, SessionOK, Session, Database, OrderTable
  <1>3. NewOrder(s, o, user, status, total, products, orders) = WriteOrders(s, Attach(table, o, orders))
    BY DEF NewOrder
  <1> HIDE DEF row
  <1>4. table \in OrderTable
    BY <1>1, <1>2 DEF OrderTable
  <1> HIDE DEF table
  <1>5. Attach(table, o, orders) \in OrderTable
    BY <1>4, AttachType
  <1>6. Ready(WriteOrders(s, Attach(table, o, orders)))
    BY <1>5, ReadyWriteOrders
  <1>7. QED
    BY <1>3, <1>6

\* An order about to be shipped: the session enters Order.set_status.
LEMMA EnterOK ==
    ASSUME NEW s, SessionOK(s), NEW o \in Shippable(s),
           s.pc = "ready" => \A c \in Customers : s.work.balance[c] = s.snap.balance[c]
    PROVE  SessionOK(Enter(s, o)) /\ Enter(s, o).snap = s.snap
  <1> DEFINE frame == [order |-> o, todo |-> Attached(s.work, o)]
             t == Enter(s, o)
  <1>1. /\ s \in Session /\ s.stack \in Seq(Frame) /\ s.work \in Database
        /\ \A c \in Customers : s.work.balance[c] \in Int /\ s.snap.balance[c] \in Int
    BY DEF SessionOK, Session, Database
  <1>2. frame \in Frame /\ frame.order \in Shippable(s) /\ frame.todo \subseteq Shippable(s)
    BY <1>1, RowTypes DEF Frame, Attached, ExistingOrders, Shippable, Database
  <1> HIDE DEF frame
  <1>3. /\ t.pc = "shipping" /\ t.snap = s.snap /\ t.work = s.work /\ t.rows = s.rows
        /\ t.stack = Append(s.stack, frame)
        /\ t \in Session
    <2>1. Append(s.stack, frame) \in Seq(Frame)
      BY <1>1, <1>2, AppendProperties
    <2>2. t = [s EXCEPT !.pc = "shipping", !.stack = Append(s.stack, frame)]
      BY DEF Enter, frame
    <2>3. QED
      BY <1>1, <2>1, <2>2 DEF Session
  <1> HIDE DEF t
  <1>4. StackOK(t)
    <2>1. /\ Len(t.stack) = Len(s.stack) + 1 /\ Len(s.stack) \in Nat /\ t.stack # <<>>
          /\ \A i \in 1..Len(s.stack) : t.stack[i] = s.stack[i]
          /\ t.stack[Len(s.stack) + 1] = frame
      BY <1>1, <1>2, <1>3, AppendProperties
    <2>2. Shippable(t) = Shippable(s)
      BY <1>3 DEF Shippable
    <2>3. \A i \in 1..Len(t.stack) : i \in 1..Len(s.stack) \/ i = Len(s.stack) + 1
      BY <2>1
    <2>4. QED
      BY <1>2, <2>1, <2>2, <2>3 DEF StackOK, SessionOK
  <1>5. BooksOK(t)
    <2>1. \A c \in Customers : s.work.balance[c] <= s.snap.balance[c]
      BY <1>1 DEF SessionOK, BooksOK, Session
    <2>2. QED
      BY <1>3, <2>1 DEF SessionOK, BooksOK
  <1>6. QED
    BY <1>3, <1>4, <1>5 DEF SessionOK, t

\* A request that writes one order and nothing else.
LEMMA EditOrderStep ==
    ASSUME IInv, NEW w \in Workers, NEW o \in Orders, NEW row \in OrderRow,
           Request(w, WriteOrder(Begin, o, row))
    PROVE  IInv'
  <1>1. Ready(Begin)
    BY BeginReady DEF IInv
  <1>2. Fresh(WriteOrder(Begin, o, row))
    BY <1>1, ReadyWriteOrder DEF Ready
  <1>3. QED
    BY <1>2, RequestStep

\* An order that exists has a row with all columns.
LEMMA ExistingRow ==
    ASSUME TypeOK, NEW o \in ExistingOrders(db)
    PROVE  db.order[o] \in OrderRow
  BY RowTypes DEF TypeOK, Database, ExistingOrders

\* admin_save_order: the total, then another status or the start of shipping.
LEMMA AdminSaveOrderStep ==
    ASSUME IInv, NEW w \in Workers, NEW o \in Orders, NEW total \in Totals,
           NEW status \in AdminOrderStatuses \cup {db.order[o].status},
           admin_save_order(w, o, status, total)
    PROVE  IInv'
  <1> DEFINE row == [db.order[o] EXCEPT !.total = total]
             s == WriteOrder(Begin, o, row)
  <1>1. TypeOK /\ o \in ExistingOrders(db)
    BY DEF IInv, admin_save_order
  <1>2. /\ db.order[o] \in OrderRow /\ status \in OrderStatus
        /\ row \in OrderRow
    <2>1. db.order[o] \in OrderRow
      BY <1>1, ExistingRow
    <2>2. status \in OrderStatus
      BY <2>1, AccountsAssumption DEF OrderRow
    <2>3. row \in OrderRow
      BY <2>1 DEF OrderRow
    <2>4. QED
      BY <2>1, <2>2, <2>3
  <1>3. /\ Fresh(s) /\ s.pc = "ready"
        /\ s.work = [db EXCEPT !.order = [db.order EXCEPT ![o] = row]] /\ s.snap = db
        /\ db \in Database
    <2>1. Fresh(s) /\ s.pc = "ready"
      BY <1>1, <1>2, BeginReady, ReadyWriteOrder DEF Ready
    <2>2. s.work = [db EXCEPT !.order = [db.order EXCEPT ![o] = row]] /\ s.snap = db
      BY <1>1, BeginReady DEF WriteOrder, Begin
    <2>3. QED
      BY <1>1, <2>1, <2>2, BeginReady
  <1>4. CASE status = db.order[o].status /\ Request(w, s)
    BY <1>3, <1>4, RequestStep
  <1>5. CASE Request(w, WriteOrder(s, o, [s.work.order[o] EXCEPT !.status = status]))
    <2>1. s.work.order[o] = row
      BY <1>3 DEF Database
    <2> HIDE DEF row, s
    <2>2. [s.work.order[o] EXCEPT !.status = status] \in OrderRow
      BY <1>2, <2>1 DEF OrderRow
    <2>3. Fresh(WriteOrder(s, o, [s.work.order[o] EXCEPT !.status = status]))
      BY <1>3, <2>2, WriteOrderOK DEF Fresh
    <2>4. QED
      BY <1>5, <2>3, RequestStep
  <1>6. CASE Request(w, Enter(s, o))
    <2>1. o \in Shippable(s)
      BY <1>2, <1>3 DEF Shippable, Database
    <2>2. \A c \in Customers : s.work.balance[c] = s.snap.balance[c]
      BY <1>3 DEF Database
    <2> HIDE DEF s
    <2>3. Fresh(Enter(s, o))
      BY <1>3, <2>1, <2>2, EnterOK DEF Fresh
    <2>4. QED
      BY <1>6, <2>3, RequestStep
  <1>7. QED
    BY <1>4, <1>5, <1>6 DEF admin_save_order

\* The requests about orders preserve the invariant.
LEMMA OrderRequestStep ==
    ASSUME IInv, NEW w \in Workers, OrderRequest(w)
    PROVE  IInv'
  <1>1. TypeOK /\ Ready(Begin) /\ db.order \in OrderTable
    BY BeginReady DEF IInv
  <1>2. PICK o \in Orders, total \in Totals :
            \/ \E products \in SUBSET Products, orders \in SUBSET ExistingOrders(db) :
                   \/ \E user \in Customers, status \in CreatedStatus \cup {"draft"} :
                          \/ user_create_order(w, o, user, status, total, products, orders)
                          \/ \E draft \in ExistingOrders(db) :
                                 user_submit_draft(w, draft, o, user, status, total, products, orders)
                   \/ user_save_order(w, o, total, products, orders)
            \/ user_delete_order(w, o)
            \/ admin_delete_order(w, o)
            \/ \E status \in AdminOrderStatuses \cup {db.order[o].status} :
                   admin_save_order(w, o, status, total)
            \/ admin_print_label(w, o)
            \/ to_dict(w, o, total)
    BY DEF OrderRequest
  <1>0. CreatedStatus \cup {"draft"} \subseteq OrderStatus
    BY DEF CreatedStatus, OrderStatus
  <1>3. ASSUME NEW products \in SUBSET Products, NEW orders \in SUBSET ExistingOrders(db),
               NEW user \in Customers, NEW status \in CreatedStatus \cup {"draft"},
               user_create_order(w, o, user, status, total, products, orders)
        PROVE  IInv'
    <2>1. Fresh(NewOrder(Begin, o, user, status, total, products, orders))
      BY <1>0, <1>1, NewOrderReady DEF Ready
    <2>2. QED
      BY <1>3, <2>1, RequestStep DEF user_create_order
  <1>4. ASSUME NEW products \in SUBSET Products, NEW orders \in SUBSET ExistingOrders(db),
               NEW user \in Customers, NEW status \in CreatedStatus \cup {"draft"},
               NEW draft \in ExistingOrders(db),
               user_submit_draft(w, draft, o, user, status, total, products, orders)
        PROVE  IInv'
    <2> DEFINE s == RemoveOrder(Begin, draft)
    <2>1. Ready(s)
      BY <1>1, RemoveOrderReady DEF ExistingOrders
    <2>2. Request(w, NewOrder(s, o, user, status, total, products, orders \ {draft}))
      BY <1>4 DEF user_submit_draft
    <2> HIDE DEF s
    <2>3. Fresh(NewOrder(s, o, user, status, total, products, orders \ {draft}))
      BY <1>0, <2>1, NewOrderReady DEF Ready
    <2>4. QED
      BY <2>2, <2>3, RequestStep
  <1>5. ASSUME NEW products \in SUBSET Products, NEW orders \in SUBSET ExistingOrders(db),
               user_save_order(w, o, total, products, orders)
        PROVE  IInv'
    <2> DEFINE table == [db.order EXCEPT ![o].total = total, ![o].unfinished = products]
    <2>1. db.order[o] \in OrderRow
      BY <1>1, <1>5, ExistingRow DEF user_save_order
    <2>2. table = [db.order EXCEPT ![o] = [db.order[o] EXCEPT !.total = total,
                                                               !.unfinished = products]]
      BY <1>1, <2>1 DEF OrderTable, OrderRow
    <2>3. [db.order[o] EXCEPT !.total = total, !.unfinished = products] \in OrderRow
      BY <2>1 DEF OrderRow
    <2>4. table \in OrderTable
      BY <1>1, <2>2, <2>3 DEF OrderTable
    <2>5. Request(w, WriteOrders(Begin, Attach(table, o, orders)))
      BY <1>5 DEF user_save_order
    <2> HIDE DEF table
    <2>6. Attach(table, o, orders) \in OrderTable
      BY <2>4, AttachType
    <2>7. Fresh(WriteOrders(Begin, Attach(table, o, orders)))
      BY <1>1, <2>6, ReadyWriteOrders DEF Ready
    <2>8. QED
      BY <2>5, <2>7, RequestStep
  <1>6. ASSUME user_delete_order(w, o) \/ admin_delete_order(w, o)
        PROVE  IInv'
    <2>1. Fresh(RemoveOrder(Begin, o))
      BY <1>1, RemoveOrderReady DEF Ready
    <2>2. QED
      BY <1>6, <2>1, RequestStep DEF user_delete_order, admin_delete_order
  <1>7. ASSUME admin_print_label(w, o)
        PROVE  IInv'
    <2>1. [db.order[o] EXCEPT !.status = "shipped"] \in OrderRow
      BY <1>1, <1>7, ExistingRow DEF admin_print_label, OrderRow, OrderStatus
    <2>2. QED
      BY <1>7, <2>1, EditOrderStep DEF admin_print_label
  <1>8. ASSUME to_dict(w, o, total)
        PROVE  IInv'
    <2>1. [db.order[o] EXCEPT !.total = total] \in OrderRow
      BY <1>1, <1>8, ExistingRow DEF to_dict, OrderRow
    <2>2. QED
      BY <1>8, <2>1, EditOrderStep DEF to_dict
  <1>9. QED
    BY <1>2, <1>3, <1>4, <1>5, <1>6, <1>7, <1>8, AdminSaveOrderStep

\* The requests about order products preserve the invariant.
LEMMA OrderProductRequestStep ==
    ASSUME IInv, NEW w \in Workers, OrderProductRequest(w)
    PROVE  IInv'
  <1>1. TypeOK /\ Ready(Begin)
    BY BeginReady DEF IInv
  <1>2. PICK o \in Orders, total \in Totals, product \in Products :
            \/ \E status \in {"pending", "unavailable", "purchased"} :
                   admin_set_order_product_status(w, o, product, status, total)
            \/ \E products \in SUBSET Products : change_order_product(w, o, products, total)
            \/ \E q \in Orders, q_total \in Totals :
                   postpone_order_product(w, o, product, q, total, q_total)
    BY DEF OrderProductRequest
  <1>3. ASSUME NEW status, admin_set_order_product_status(w, o, product, status, total)
        PROVE  IInv'
    <2> DEFINE products == IF status = "pending" THEN db.order[o].unfinished \cup {product}
                           ELSE db.order[o].unfinished \ {product}
               new_total == IF status = "unavailable" THEN total ELSE db.order[o].total
               row == [db.order[o] EXCEPT !.unfinished = products, !.total = new_total]
    <2>1. db.order[o] \in OrderRow
      BY <1>1, <1>3, ExistingRow DEF admin_set_order_product_status
    <2>2. products \in SUBSET Products /\ new_total \in Totals
      BY <2>1 DEF OrderRow
    <2>3. Request(w, WriteOrder(Begin, o, row))
      BY <1>3 DEF admin_set_order_product_status
    <2> HIDE DEF products, new_total
    <2>4. row \in OrderRow
      BY <2>1, <2>2 DEF OrderRow
    <2> HIDE DEF row
    <2>5. QED
      BY <2>3, <2>4, EditOrderStep
  <1>4. ASSUME NEW products \in SUBSET Products, change_order_product(w, o, products, total)
        PROVE  IInv'
    <2>1. [db.order[o] EXCEPT !.total = total, !.unfinished = products] \in OrderRow
      BY <1>1, <1>4, ExistingRow DEF change_order_product, OrderRow
    <2>2. QED
      BY <1>4, <2>1, EditOrderStep DEF change_order_product
  <1>5. ASSUME NEW q \in Orders, NEW q_total \in Totals,
               postpone_order_product(w, o, product, q, total, q_total)
        PROVE  IInv'
    <2> DEFINE source == [db.order[o] EXCEPT !.unfinished = @ \ {product}, !.total = total]
               fresh == [source EXCEPT !.status = "pending", !.unfinished = {},
                                       !.attachedTo = NoOrder]
               waiting == IF q = o THEN source
                          ELSE IF db.order[q] # Absent THEN db.order[q] ELSE fresh
               target == [waiting EXCEPT !.unfinished = @ \cup {product}, !.total = q_total]
    <2>1. source \in OrderRow
      <3>1. db.order[o] \in OrderRow
        BY <1>1, <1>5, ExistingRow DEF postpone_order_product
      <3>2. QED
        BY <3>1 DEF OrderRow
    <2>2. /\ Request(w, WriteOrder(WriteOrder(Begin, o, source), q, target))
          /\ db.order[q] # Deleted
      BY <1>5 DEF postpone_order_product
    <2> HIDE DEF source
    <2>3. fresh \in OrderRow
      BY <2>1 DEF OrderRow, OrderStatus
    <2> HIDE DEF fresh
    <2>4. waiting \in OrderRow
      BY <1>1, <2>1, <2>2, <2>3 DEF TypeOK, Database, NoRow
    <2> HIDE DEF waiting
    <2>5. target \in OrderRow
      BY <2>4 DEF OrderRow
    <2> HIDE DEF target
    <2>6. Fresh(WriteOrder(WriteOrder(Begin, o, source), q, target))
      BY <1>1, <2>1, <2>5, ReadyWriteOrder DEF Ready
    <2>7. QED
      BY <2>2, <2>6, RequestStep
  <1>6. QED
    BY <1>2, <1>3, <1>4, <1>5

-----------------------------------------------------------------------------
\* Shipping.

\* A step of an open session that leaves the committed state alone.
LEMMA SessionStep ==
    ASSUME IInv, NEW w \in Workers, NEW s,
           s = Idle \/ (SessionOK(s) /\ session[w] # Idle /\ s.snap = session[w].snap),
           session' = [session EXCEPT ![w] = s], UNCHANGED <<db, ledger>>
    PROVE  IInv'
  <1>1. TypeOK'
    BY DEF IInv, TypeOK, SessionOK
  <1>2. StatementEndsInBalance'
    BY DEF IInv, StatementEndsInBalance
  <1>3. OpenSessionsOK'
    BY DEF IInv, OpenSessionsOK, TypeOK
  <1>4. SerialOK'
    BY DEF IInv, SerialOK, StatementChains, TypeOK
  <1>5. QED
    BY <1>1, <1>2, <1>3, <1>4 DEF IInv

\* The innermost call of set_status.
LEMMA TopOK ==
    ASSUME NEW s, SessionOK(s), s.pc = "shipping"
    PROVE  /\ s.stack \in Seq(Frame) /\ Len(s.stack) \in Nat \ {0}
           /\ Top(s) = s.stack[Len(s.stack)] /\ Top(s) \in Frame
           /\ Top(s).order \in Shippable(s) /\ Top(s).todo \subseteq Shippable(s)
  <1>1. s.stack \in Seq(Frame) /\ s.stack # <<>>
    BY DEF SessionOK, StackOK, Session
  <1>2. Len(s.stack) \in Nat \ {0}
    BY <1>1, EmptySeq
  <1>3. Len(s.stack) \in 1..Len(s.stack)
    BY <1>2
  <1>4. QED
    BY <1>1, <1>2, <1>3, ElementOfSeq DEF Top, SessionOK, StackOK

\* Entering the next attached order preserves the invariant.
LEMMA ShipAttachedStep ==
    ASSUME IInv, NEW w \in Workers, NEW x \in Orders, ship_attached(w, x)
    PROVE  IInv'
  <1> DEFINE s == session[w]
             n == Len(s.stack)
             top == [s.stack[n] EXCEPT !.todo = @ \ {x}]
             stack == [s.stack EXCEPT ![n] = top]
             t == [s EXCEPT !.stack = stack]
  <1>1. SessionOK(s) /\ s.pc = "shipping" /\ x \in Top(s).todo
    BY DEF IInv, OpenSessionsOK, ship_attached
  <1>2. /\ s.stack \in Seq(Frame) /\ n \in Nat \ {0} /\ s.stack[n] \in Frame
        /\ s.stack[n].order \in Shippable(s) /\ s.stack[n].todo \subseteq Shippable(s)
        /\ x \in Shippable(s)
    BY <1>1, TopOK
  <1>3. /\ top \in Frame /\ top.order \in Shippable(s) /\ top.todo \subseteq Shippable(s)
    BY <1>2 DEF Frame
  <1>4. session' = [session EXCEPT ![w] = Enter(t, x)] /\ UNCHANGED <<db, ledger>>
    <2>1. [s EXCEPT !.stack[n].todo = @ \ {x}] = t
      BY <1>1 DEF SessionOK, Session
    <2>2. QED
      BY <2>1 DEF ship_attached
  <1> HIDE DEF top
  <1>5. /\ stack \in Seq(Frame) /\ Len(stack) = n /\ stack # <<>>
        /\ \A i \in 1..n : stack[i] = IF i = n THEN top ELSE s.stack[i]
    <2>1. n \in 1..Len(s.stack)
      BY <1>2
    <2>2. stack \in Seq(Frame) /\ Len(stack) = n
      BY <1>2, <1>3, <2>1, ExceptSeq
    <2>3. QED
      BY <1>2, <2>1, <2>2, EmptySeq
  <1> HIDE DEF stack
  <1>6. /\ t \in Session /\ t.pc = s.pc /\ t.snap = s.snap /\ t.work = s.work
        /\ t.rows = s.rows /\ t.stack = stack
    BY <1>1, <1>5 DEF SessionOK, Session
  <1> HIDE DEF t
  <1>7. Shippable(t) = Shippable(s)
    BY <1>6 DEF Shippable
  <1>8. StackOK(t)
    BY <1>1, <1>3, <1>5, <1>6, <1>7 DEF StackOK, SessionOK
  <1>9. BooksOK(t)
    BY <1>1, <1>6 DEF BooksOK, SessionOK
  <1>10. SessionOK(t) /\ x \in Shippable(t) /\ t.pc = "shipping"
    BY <1>1, <1>2, <1>6, <1>7, <1>8, <1>9 DEF SessionOK
  <1>11. SessionOK(Enter(t, x)) /\ Enter(t, x).snap = s.snap /\ s # Idle
    BY <1>6, <1>10, EnterOK DEF ship_attached
  <1>12. QED
    BY <1>4, <1>11, SessionStep

\* Charging an order, and returning, preserves the invariant.
LEMMA PayStep ==
    ASSUME IInv, NEW w \in Workers, NEW total \in Totals, pay(w, total)
    PROVE  IInv'
  <1> DEFINE s == session[w]
             o == Top(s).order
             order == s.work.order[o]
             charged == Transaction(s, order.user, -total, "order", o)
             row == [order EXCEPT !.status = "shipped", !.total = total]
             shipped == WriteOrder(charged, o, row)
             pc == IF Len(s.stack) = 1 THEN "ready" ELSE "shipping"
             t == [shipped EXCEPT !.stack = SubSeq(s.stack, 1, Len(s.stack) - 1), !.pc = pc]
  <1>1. SessionOK(s) /\ s.pc = "shipping"
    BY DEF IInv, OpenSessionsOK, pay
  <1>2. /\ s.stack \in Seq(Frame) /\ Len(s.stack) \in Nat \ {0}
        /\ o \in Orders /\ order \in OrderRow
    BY <1>1, TopOK DEF Shippable
  <1>3. order.user \in Customers /\ row \in OrderRow
    BY <1>2 DEF OrderRow, OrderStatus
  <1>4. -total \in Int /\ -total <= 0
    <2>1. total \in Nat
      BY AccountsAssumption
    <2>2. QED
      BY <2>1
  <1> HIDE DEF order
  <1>5. /\ SessionOK(charged) /\ charged.pc = "shipping" /\ charged.stack = s.stack
        /\ charged.snap = s.snap
    BY <1>1, <1>2, <1>3, <1>4, TransactionOK
  <1> HIDE DEF charged, row
  <1>6. /\ SessionOK(shipped) /\ shipped.pc = "shipping" /\ shipped.stack = s.stack
        /\ shipped.snap = s.snap
    BY <1>2, <1>3, <1>5, WriteOrderOK
  <1>7. session' = [session EXCEPT ![w] = t] /\ UNCHANGED <<db, ledger>>
    <2>1. session' = [session EXCEPT ![w] =
                [shipped EXCEPT !.stack = SubSeq(@, 1, Len(@) - 1), !.pc = pc]]
      BY DEF pay, order, charged, row
    <2> HIDE DEF shipped
    <2>2. QED
      BY <1>6, <2>1 DEF pay
  <1> HIDE DEF shipped
  <1>8. SessionOK(t) /\ t.snap = s.snap /\ s # Idle
    <2> DEFINE stack == SubSeq(s.stack, 1, Len(s.stack) - 1)
    <2>1. /\ stack \in Seq(Frame) /\ Len(stack) = Len(s.stack) - 1
          /\ \A i \in 1..(Len(s.stack) - 1) : stack[i] = s.stack[i]
      BY <1>2, SubSeqProperties
    <2> HIDE DEF stack
    <2>2. /\ t \in Session /\ t.pc = pc /\ t.stack = stack /\ t.snap = shipped.snap
          /\ t.work = shipped.work /\ t.rows = shipped.rows
      BY <1>6, <2>1 DEF SessionOK, Session, stack
    <2>3. t.pc = "shipping" => t.stack # <<>>
      <3>1. CASE Len(s.stack) = 1
        BY <2>2, <3>1
      <3>2. CASE Len(s.stack) # 1
        <4>1. Len(stack) # 0
          BY <1>2, <2>1, <3>2
        <4>2. stack # <<>>
          BY <4>1
        <4>3. QED
          BY <2>2, <4>2
      <3>3. QED
        BY <3>1, <3>2
    <2>4. Shippable(t) = Shippable(shipped)
      BY <2>2 DEF Shippable
    <2>5. \A i \in 1..Len(stack) : i \in 1..Len(s.stack) /\ i \in 1..(Len(s.stack) - 1)
      BY <1>2, <2>1
    <2>6. StackOK(t)
      BY <1>6, <2>1, <2>2, <2>3, <2>4, <2>5 DEF StackOK, SessionOK
    <2>7. BooksOK(t)
      BY <1>6, <2>2 DEF BooksOK, SessionOK
    <2>8. QED
      BY <1>6, <2>2, <2>6, <2>7 DEF SessionOK, pay
  <1> HIDE DEF t
  <1>9. QED
    BY <1>7, <1>8, SessionStep

-----------------------------------------------------------------------------
\* Commit and rollback.

\* What Commit writes is a payment row, or none, as in the table.
LEMMA MergePaymentType ==
    ASSUME NEW old \in PaymentRow \cup {Absent}, NEW new \in PaymentRow \cup {Absent},
           NEW current \in PaymentRow \cup {Absent},
           new # old => (old = Absent <=> current = Absent)
    PROVE  MergePayment(old, new, current) \in PaymentRow \cup {Absent}
  <1>1. CASE new = old \/ Absent \in {old, new}
    BY <1>1 DEF MergePayment
  <1>2. CASE new # old /\ Absent \notin {old, new}
    <2>1. old \in PaymentRow /\ new \in PaymentRow /\ current \in PaymentRow
      BY <1>2
    <2>2. MergePayment(old, new, current) =
            [status   |-> Column(old.status, new.status, current.status),
             user     |-> Column(old.user, new.user, current.user),
             sent     |-> Column(old.sent, new.sent, current.sent),
             received |-> Column(old.received, new.received, current.received),
             orders   |-> Links(old.orders, new.orders, current.orders)]
      BY <1>2 DEF MergePayment
    <2>3. Links(old.orders, new.orders, current.orders) \in SUBSET Orders
      BY <2>1 DEF Links, PaymentRow
    <2>4. QED
      BY <2>1, <2>2, <2>3 DEF Column, PaymentRow
  <1>3. QED
    BY <1>1, <1>2

\* What Commit writes is an order row, or a missing or deleted one.
LEMMA MergeOrderType ==
    ASSUME NEW old \in OrderRow \cup NoRow, NEW new \in OrderRow \cup NoRow,
           NEW current \in OrderRow \cup NoRow,
           new # old => /\ old = Absent <=> current = Absent
                        /\ current = Deleted => new = Deleted
    PROVE  MergeOrder(old, new, current) \in OrderRow \cup NoRow
  <1>1. CASE new = old \/ old \in NoRow \/ new \in NoRow
    BY <1>1 DEF MergeOrder
  <1>2. CASE new # old /\ old \notin NoRow /\ new \notin NoRow
    <2>1. old \in OrderRow /\ new \in OrderRow /\ current \in OrderRow
      BY <1>2 DEF NoRow
    <2>2. MergeOrder(old, new, current) =
            [status     |-> Column(old.status, new.status, current.status),
             user       |-> current.user,
             total      |-> Column(old.total, new.total, current.total),
             unfinished |-> Links(old.unfinished, new.unfinished, current.unfinished),
             attachedTo |-> Column(old.attachedTo, new.attachedTo, current.attachedTo)]
      BY <1>2 DEF MergeOrder
    <2>3. Links(old.unfinished, new.unfinished, current.unfinished) \in SUBSET Products
      BY <2>1 DEF Links, OrderRow
    <2>4. QED
      BY <2>1, <2>2, <2>3 DEF Column, OrderRow
  <1>3. QED
    BY <1>1, <1>2

\* A request that commits leaves the tables typed.
LEMMA MergeType ==
    ASSUME db \in Database, NEW s \in Session, Flushable(s)
    PROVE  Merge(s) \in Database
  <1>1. /\ s.snap \in Database /\ s.work \in Database
    BY DEF Session
  <1>2. ASSUME NEW c \in Customers
        PROVE  Column(s.snap.balance[c], s.work.balance[c], db.balance[c]) \in Int
    BY <1>1 DEF Column, Database
  <1>3. ASSUME NEW p \in Payments
        PROVE  MergePayment(s.snap.payment[p], s.work.payment[p], db.payment[p])
                 \in PaymentRow \cup {Absent}
    <2>1. /\ s.snap.payment[p] \in PaymentRow \cup {Absent}
          /\ s.work.payment[p] \in PaymentRow \cup {Absent}
          /\ db.payment[p] \in PaymentRow \cup {Absent}
      BY <1>1 DEF Database
    <2>2. s.work.payment[p] # s.snap.payment[p] =>
              (s.snap.payment[p] = Absent <=> db.payment[p] = Absent)
      BY DEF Flushable
    <2>3. QED
      BY <2>1, <2>2, MergePaymentType
  <1>4. ASSUME NEW o \in Orders
        PROVE  MergeOrder(s.snap.order[o], s.work.order[o], db.order[o]) \in OrderRow \cup NoRow
    <2>1. /\ s.snap.order[o] \in OrderRow \cup NoRow
          /\ s.work.order[o] \in OrderRow \cup NoRow
          /\ db.order[o] \in OrderRow \cup NoRow
      BY <1>1 DEF Database
    <2>2. s.work.order[o] # s.snap.order[o] =>
              /\ s.snap.order[o] = Absent <=> db.order[o] = Absent
              /\ db.order[o] = Deleted => s.work.order[o] = Deleted
      BY DEF Flushable
    <2>3. QED
      BY <2>1, <2>2, MergeOrderType
  <1>5. QED
    BY <1>2, <1>3, <1>4 DEF Merge, Database

\* The rows of the request are added to the statement they belong to.
LEMMA CommitStep ==
    ASSUME IInv, NEW w \in Workers, Commit(w)
    PROVE  IInv'
  <1> DEFINE s == session[w]
  <1>1. /\ SessionOK(s) /\ s \in Session /\ Flushable(s)
        /\ db' = Merge(s)
        /\ ledger' = [c \in Customers |-> ledger[c] \o s.rows[c]]
        /\ session' = [session EXCEPT ![w] = Idle]
        /\ TypeOK
    BY DEF IInv, OpenSessionsOK, Commit, SessionOK
  <1> HIDE DEF s
  <1>2. ASSUME NEW c \in Customers
        PROVE  /\ ledger[c] \in Seq(TransactionRow) /\ s.rows[c] \in Seq(TransactionRow)
               /\ ledger'[c] = ledger[c] \o s.rows[c]
               /\ ledger'[c] \in Seq(TransactionRow)
    <2>1. ledger[c] \in Seq(TransactionRow) /\ s.rows[c] \in Seq(TransactionRow)
      BY <1>1 DEF TypeOK, Session
    <2>2. QED
      BY <1>1, <2>1, ConcatProperties
  <1>3. TypeOK'
    <2>1. db' \in Database
      BY <1>1, MergeType DEF TypeOK
    <2>2. ledger' \in [Customers -> Seq(TransactionRow)]
      BY <1>1, <1>2
    <2>3. session' \in [Workers -> {Idle} \cup Session]
      BY <1>1 DEF TypeOK
    <2>4. QED
      BY <2>1, <2>2, <2>3 DEF TypeOK
  <1>4. StatementEndsInBalance'
    <2> SUFFICES ASSUME NEW c \in Customers
                 PROVE  EndsIn(ledger'[c], 0, db'.balance[c])
      BY DEF StatementEndsInBalance
    <2>1. db'.balance[c] = Column(s.snap.balance[c], s.work.balance[c], db.balance[c])
      BY <1>1 DEF Merge
    <2>2. EndsIn(ledger[c], 0, db.balance[c])
      BY DEF IInv, StatementEndsInBalance
    <2>3. /\ EndsIn(s.rows[c], s.snap.balance[c], s.work.balance[c])
          /\ s.work.balance[c] = s.snap.balance[c] => StillFrom(s.rows[c], 1)
      BY <1>1 DEF SessionOK, BooksOK
    <2>4. CASE s.work.balance[c] = s.snap.balance[c]
      BY <1>2, <2>1, <2>2, <2>3, <2>4, EndsInStill DEF Column
    <2>5. CASE s.work.balance[c] # s.snap.balance[c]
      BY <1>2, <2>1, <2>3, <2>5, EndsInMoved DEF Column
    <2>6. QED
      BY <2>4, <2>5
  <1>5. OpenSessionsOK'
    BY <1>1 DEF IInv, OpenSessionsOK, TypeOK
  <1>6. SerialOK'
    <2> SUFFICES ASSUME Serial
                 PROVE  /\ StatementChains'
                        /\ \A v \in Workers : session'[v] = Idle
      BY DEF SerialOK
    <2>1. StatementChains /\ s.snap = db
      BY DEF IInv, SerialOK, Commit, s
    <2>2. ASSUME NEW c \in Customers
          PROVE  Chained(ledger'[c], 0) /\ db'.balance[c] = EndOf(ledger'[c], 0)
      <3>1. /\ Chained(ledger[c], 0) /\ db.balance[c] = EndOf(ledger[c], 0)
            /\ Chained(s.rows[c], EndOf(ledger[c], 0))
            /\ s.work.balance[c] = EndOf(s.rows[c], EndOf(ledger[c], 0))
        BY <1>1, <2>1 DEF StatementChains, SessionOK, BooksOK
      <3>2. /\ Chained(ledger[c] \o s.rows[c], 0)
            /\ EndOf(ledger[c] \o s.rows[c], 0) = EndOf(s.rows[c], EndOf(ledger[c], 0))
        <4>1. ledger[c] \in Seq(TransactionRow) /\ s.rows[c] \in Seq(TransactionRow)
          BY <1>2
        <4>2. 0 \in Int
          OBVIOUS
        <4>3. QED
          BY <3>1, <4>1, <4>2, ChainedConcat, TransactionRowType
      <3>3. db'.balance[c] = s.work.balance[c]
        BY <1>1, <2>1 DEF Merge, Column
      <3>4. QED
        BY <1>2, <3>1, <3>2, <3>3
    <2>3. \A v \in Workers : session'[v] = Idle
      BY <1>1 DEF Serial, TypeOK
    <2>4. QED
      BY <2>2, <2>3 DEF StatementChains
  <1>7. QED
    BY <1>3, <1>4, <1>5, <1>6 DEF IInv

-----------------------------------------------------------------------------
\* The theorems for any number of workers.

\* The empty database.
LEMMA InitOK == Init => IInv
  <1> SUFFICES ASSUME Init PROVE IInv
    OBVIOUS
  <1>1. TypeOK
    BY DEF Init, TypeOK, Database, NoRow
  <1>2. StatementEndsInBalance
    BY DEF Init, StatementEndsInBalance, EndsIn, StillFrom
  <1>3. OpenSessionsOK
    BY DEF Init, OpenSessionsOK
  <1>4. SerialOK
    BY DEF Init, SerialOK, StatementChains, Chained, EndOf
  <1>5. QED
    BY <1>1, <1>2, <1>3, <1>4 DEF IInv

\* Every request, every step of a shipment, every commit and every rollback
\* preserves the invariant.
LEMMA NextOK == IInv /\ [Next]_vars => IInv'
  <1> SUFFICES ASSUME IInv, [Next]_vars PROVE IInv'
    OBVIOUS
  <1>1. ASSUME NEW w \in Workers, Shipping(w)
        PROVE  IInv'
    <2>1. ASSUME NEW x \in Orders, ship_attached_fails(w, x)
          PROVE  IInv'
      BY <2>1, SessionStep DEF ship_attached_fails
    <2>2. QED
      BY <1>1, <2>1, ShipAttachedStep, PayStep DEF Shipping
  <1>2. ASSUME NEW w \in Workers, Rollback(w)
        PROVE  IInv'
    BY <1>2, SessionStep DEF Rollback
  <1>3. CASE UNCHANGED vars
    BY <1>3 DEF vars, IInv, TypeOK, StatementEndsInBalance, OpenSessionsOK, SerialOK,
                  StatementChains
  <1>4. QED
    BY <1>1, <1>2, <1>3, PaymentRequestStep, TransactionRequestStep, OrderRequestStep,
       OrderProductRequestStep, CommitStep DEF Next

\* The invariant holds throughout.
LEMMA Invariant == Spec => []IInv
  BY InitOK, NextOK, PTL DEF Spec

\* The tables, the statements and the open sessions are well typed.
THEOREM TypeCorrect == Spec => []TypeOK
  <1>1. IInv => TypeOK
    BY DEF IInv
  <1>2. QED
    BY <1>1, Invariant, PTL

\* However many requests run at the same time, the last row of a customer's
\* statement that moved money shows the customer's balance.
THEOREM EndsInBalance == Spec => []StatementEndsInBalance
  <1>1. IInv => StatementEndsInBalance
    BY DEF IInv
  <1>2. QED
    BY <1>1, Invariant, PTL

-----------------------------------------------------------------------------
\* The theorems for a single worker.

\* When requests are served one at a time, every row of a statement shows the
\* balance of the row before it plus its amount, and the last one the
\* customer's balance.
THEOREM SerialStatementChains ==
    ASSUME \A v, w \in Workers : v = w
    PROVE  Spec => []StatementChains
  <1>1. IInv => StatementChains
    BY DEF IInv, SerialOK, Serial
  <1>2. QED
    BY <1>1, Invariant, PTL

\* A request that starts commits nothing.
LEMMA RequestWritesNothing ==
    ASSUME NEW w, NEW s, Request(w, s)
    PROVE  UNCHANGED <<db, ledger>>
  BY DEF Request

\* Requests and the steps of a shipment commit nothing.
LEMMA OnlyCommitWrites ==
    ASSUME NEW w \in Workers,
           \/ PaymentRequest(w) \/ TransactionRequest(w)
           \/ OrderRequest(w) \/ OrderProductRequest(w)
           \/ Shipping(w) \/ Rollback(w)
    PROVE  UNCHANGED <<db, ledger>>
  <1>1. CASE PaymentRequest(w) \/ TransactionRequest(w)
    BY <1>1, RequestWritesNothing DEF PaymentRequest, TransactionRequest, user_create_payment,
       admin_edit_payment, user_delete_payment, admin_set_payment_status,
       handle_checkout_complete, approve_payment, admin_save_transaction
  <1>2. CASE OrderRequest(w)
    <2>1. ASSUME NEW o, NEW status, NEW total, admin_save_order(w, o, status, total)
          PROVE  UNCHANGED <<db, ledger>>
      BY <2>1, RequestWritesNothing DEF admin_save_order
    <2>2. ASSUME NEW o, NEW draft, NEW user, NEW status, NEW total, NEW products, NEW orders,
                 \/ user_create_order(w, o, user, status, total, products, orders)
                 \/ user_submit_draft(w, draft, o, user, status, total, products, orders)
                 \/ user_save_order(w, o, total, products, orders)
          PROVE  UNCHANGED <<db, ledger>>
      BY <2>2, RequestWritesNothing DEF user_create_order, user_submit_draft, user_save_order
    <2>3. ASSUME NEW o, NEW total,
                 \/ user_delete_order(w, o) \/ admin_delete_order(w, o)
                 \/ admin_print_label(w, o) \/ to_dict(w, o, total)
          PROVE  UNCHANGED <<db, ledger>>
      BY <2>3, RequestWritesNothing DEF user_delete_order, admin_delete_order,
         admin_print_label, to_dict
    <2>4. QED
      BY <1>2, <2>1, <2>2, <2>3 DEF OrderRequest
  <1>3. CASE OrderProductRequest(w)
    <2>1. ASSUME NEW o, NEW product, NEW q, NEW status, NEW products, NEW total, NEW q_total,
                 \/ admin_set_order_product_status(w, o, product, status, total)
                 \/ change_order_product(w, o, products, total)
                 \/ postpone_order_product(w, o, product, q, total, q_total)
          PROVE  UNCHANGED <<db, ledger>>
      BY <2>1, RequestWritesNothing DEF admin_set_order_product_status,
         change_order_product, postpone_order_product
    <2>2. QED
      BY <1>3, <2>1 DEF OrderProductRequest
  <1>4. CASE Shipping(w) \/ Rollback(w)
    BY <1>4 DEF Shipping, ship_attached, ship_attached_fails, pay, Rollback
  <1>5. QED
    BY <1>1, <1>2, <1>3, <1>4

\* When requests are served one at a time, the accounts implement the abstract
\* statement: every step posts rows to the end of statements, or does nothing
\* that a customer sees.
THEOREM SerialImplementsStatement ==
    ASSUME \A v, w \in Workers : v = w
    PROVE  Spec => ImplementsStatement
  <1>1. Init => AsStatement!Init
    BY DEF Init, AsStatement!Init
  <1>2. ASSUME IInv, IInv', [Next]_vars
        PROVE  [AsStatement!Post]_AsStatement!vars
    <2>1. /\ ledger \in [Customers -> Seq(TransactionRow)]
          /\ \A c \in Customers : Chained(ledger'[c], 0) /\ db'.balance[c] = EndOf(ledger'[c], 0)
      BY <1>2 DEF IInv, TypeOK, SerialOK, Serial, StatementChains
    <2>2. ASSUME NEW w \in Workers, Commit(w)
          PROVE  AsStatement!Post
      <3>1. ASSUME NEW c \in Customers
            PROVE  PrefixOf(ledger[c], ledger'[c])
        <4>1. /\ ledger'[c] = ledger[c] \o session[w].rows[c]
              /\ ledger[c] \in Seq(TransactionRow)
              /\ session[w].rows[c] \in Seq(TransactionRow)
          BY <1>2, <2>2 DEF IInv, TypeOK, Commit, Session
        <4>2. QED
          BY <4>1, ConcatPrefix
      <3>2. QED
        BY <2>1, <3>1 DEF AsStatement!Post, AsStatement!PrefixOf, AsStatement!Chained,
           AsStatement!EndOf, PrefixOf, Chained, EndOf
    <2>3. CASE UNCHANGED <<db, ledger>>
      BY <2>3 DEF AsStatement!vars
    <2>4. CASE UNCHANGED vars
      BY <2>3, <2>4 DEF vars
    <2>5. QED
      BY <1>2, <2>2, <2>3, <2>4, OnlyCommitWrites DEF Next
  <1>3. QED
    BY <1>1, <1>2, Invariant, PTL DEF Spec, ImplementsStatement, AsStatement!Spec

-----------------------------------------------------------------------------
\* What is shipped is charged, for any number of workers.

\* A row goes from missing to existing to deleted, and an order keeps its customer.
Follows(old, new) ==
    /\ new = Absent => old = Absent
    /\ old = Deleted => new = Deleted
    /\ old \in OrderRow /\ new \in OrderRow => new.user = old.user

IsShipped(row) == row \in OrderRow /\ row.status = "shipped"
Keeps(old, new) == Follows(old, new) /\ (IsShipped(new) => IsShipped(old))

ChargedIn(rows, o) == \E i \in 1..Len(rows) : rows[i].kind = "order" /\ rows[i].of = o

\* A request ships an order only together with the row that charges it, and what
\* it has read may have gone on, but is of the same customer still.
Traces(s, o) ==
    /\ Follows(s.snap.order[o], s.work.order[o])
    /\ o \notin EmsOrders /\ IsShipped(s.work.order[o]) =>
          IsShipped(s.snap.order[o]) \/ ChargedIn(s.rows[s.work.order[o].user], o)
StillThere(s, o) == Follows(s.snap.order[o], db.order[o])

CInv ==
    /\ IInv /\ ShippedIsCharged
    /\ \A w \in Workers : session[w] # Idle =>
          \A o \in Orders : Traces(session[w], o) /\ StillThere(session[w], o)

\* A request of one step: only EMS orders become shipped in it.
Tracing(s) ==
    /\ Ready(s) /\ s.work.order \in OrderTable
    /\ \A o \in Orders : /\ Follows(db.order[o], s.work.order[o])
                         /\ o \notin EmsOrders => Keeps(db.order[o], s.work.order[o])

\* Rows may be followed over several writes.
LEMMA FollowsOn ==
    ASSUME NEW a \in OrderRow \cup NoRow, NEW b \in OrderRow \cup NoRow, NEW c \in OrderRow \cup NoRow
    PROVE  /\ Follows(a, a)
           /\ Follows(a, b) /\ Follows(b, c) => Follows(a, c)
           /\ Keeps(a, a)
           /\ Keeps(a, b) /\ Keeps(b, c) => Keeps(a, c)
  BY DEF Follows, Keeps, NoRow

\* A statement that is continued keeps its charges and has those it is continued with.
LEMMA ChargedConcat ==
    ASSUME NEW a \in Seq(TransactionRow), NEW b \in Seq(TransactionRow), NEW o,
           ChargedIn(a, o) \/ ChargedIn(b, o)
    PROVE  ChargedIn(a \o b, o)
  <1>1. /\ Len(a) \in Nat /\ Len(b) \in Nat /\ Len(a \o b) = Len(a) + Len(b)
        /\ \A i \in 1..Len(a) : (a \o b)[i] = a[i]
        /\ \A i \in 1..Len(b) : (a \o b)[Len(a) + i] = b[i]
    BY ConcatProperties
  <1>2. CASE ChargedIn(a, o)
    <2>1. PICK i \in 1..Len(a) : a[i].kind = "order" /\ a[i].of = o
      BY <1>2 DEF ChargedIn
    <2>2. i \in 1..Len(a \o b) /\ (a \o b)[i] = a[i]
      BY <1>1
    <2>3. QED
      BY <2>1, <2>2 DEF ChargedIn
  <1>3. CASE ChargedIn(b, o)
    <2>1. PICK i \in 1..Len(b) : b[i].kind = "order" /\ b[i].of = o
      BY <1>3 DEF ChargedIn
    <2>2. Len(a) + i \in 1..Len(a \o b) /\ (a \o b)[Len(a) + i] = b[i]
      BY <1>1
    <2>3. QED
      BY <2>1, <2>2 DEF ChargedIn
  <1>4. QED
    BY <1>2, <1>3

\* ... also when it is continued with a single row.
LEMMA ChargedAppend ==
    ASSUME NEW a \in Seq(TransactionRow), NEW row \in TransactionRow, NEW o,
           ChargedIn(a, o) \/ (row.kind = "order" /\ row.of = o)
    PROVE  ChargedIn(Append(a, row), o)
  <1>1. /\ Len(a) \in Nat /\ Len(Append(a, row)) = Len(a) + 1
        /\ \A i \in 1..Len(a) : Append(a, row)[i] = a[i]
        /\ Append(a, row)[Len(a) + 1] = row
    BY AppendProperties
  <1>2. CASE ChargedIn(a, o)
    <2>1. PICK i \in 1..Len(a) : a[i].kind = "order" /\ a[i].of = o
      BY <1>2 DEF ChargedIn
    <2>2. i \in 1..Len(Append(a, row)) /\ Append(a, row)[i] = a[i]
      BY <1>1
    <2>3. QED
      BY <2>1, <2>2 DEF ChargedIn
  <1>3. CASE row.kind = "order" /\ row.of = o
    <2>1. Len(a) + 1 \in 1..Len(Append(a, row))
      BY <1>1
    <2>2. QED
      BY <1>1, <1>3, <2>1 DEF ChargedIn
  <1>4. QED
    BY <1>2, <1>3

\* A request that has only read.
LEMMA BeginTracing == ASSUME TypeOK PROVE Tracing(Begin) /\ Begin.work = db
  <1>1. Ready(Begin) /\ Begin.work = db /\ db.order \in OrderTable
    BY BeginReady
  <1>2. \A o \in Orders : db.order[o] \in OrderRow \cup NoRow
    BY <1>1 DEF OrderTable
  <1>3. \A o \in Orders : Follows(db.order[o], db.order[o]) /\ Keeps(db.order[o], db.order[o])
    BY <1>2, FollowsOn
  <1>4. QED
    BY <1>1, <1>3 DEF Tracing

\* Writing all orders,
LEMMA TracingWriteOrders ==
    ASSUME TypeOK, NEW s, Tracing(s), NEW table \in OrderTable,
           \A o \in Orders : /\ Follows(s.work.order[o], table[o])
                             /\ o \notin EmsOrders => Keeps(s.work.order[o], table[o])
    PROVE  Tracing(WriteOrders(s, table)) /\ WriteOrders(s, table).work.order = table
  <1>1. Ready(WriteOrders(s, table)) /\ WriteOrders(s, table).work = [s.work EXCEPT !.order = table]
    BY ReadyWriteOrders DEF Tracing
  <1>2. WriteOrders(s, table).work.order = table
    BY <1>1 DEF Tracing, Ready, Fresh, SessionOK, Session, Database
  <1>3. ASSUME NEW o \in Orders
        PROVE  /\ Follows(db.order[o], table[o])
               /\ o \notin EmsOrders => Keeps(db.order[o], table[o])
    <2>1. /\ db.order[o] \in OrderRow \cup NoRow
          /\ s.work.order[o] \in OrderRow \cup NoRow
          /\ table[o] \in OrderRow \cup NoRow
      BY BeginReady DEF OrderTable, Tracing
    <2>2. QED
      BY <2>1, FollowsOn DEF Tracing
  <1>4. QED
    BY <1>1, <1>2, <1>3 DEF Tracing

\* ... one of them,
LEMMA TracingWriteOrder ==
    ASSUME TypeOK, NEW s, Tracing(s), NEW o \in Orders, NEW row \in OrderRow,
           Follows(s.work.order[o], row),
           o \notin EmsOrders => Keeps(s.work.order[o], row)
    PROVE  /\ Tracing(WriteOrder(s, o, row))
           /\ WriteOrder(s, o, row).work.order = [s.work.order EXCEPT ![o] = row]
  <1> DEFINE table == [s.work.order EXCEPT ![o] = row]
  <1>1. s.work.order \in OrderTable
    BY DEF Tracing
  <1>2. table \in OrderTable
    BY <1>1 DEF OrderTable
  <1>3. WriteOrder(s, o, row) = WriteOrders(s, table)
    BY DEF WriteOrder, WriteOrders, Tracing, Ready, Fresh, SessionOK, Session, Database
  <1>4. ASSUME NEW x \in Orders
        PROVE  /\ Follows(s.work.order[x], table[x])
               /\ x \notin EmsOrders => Keeps(s.work.order[x], table[x])
    <2>1. s.work.order[x] \in OrderRow \cup NoRow /\ table[x] = IF x = o THEN row ELSE s.work.order[x]
      BY <1>1 DEF OrderTable
    <2>2. Follows(s.work.order[x], s.work.order[x]) /\ Keeps(s.work.order[x], s.work.order[x])
      BY <2>1, FollowsOn
    <2>3. QED
      BY <2>1, <2>2
  <1> HIDE DEF table
  <1>5. Tracing(WriteOrders(s, table)) /\ WriteOrders(s, table).work.order = table
    BY <1>2, <1>4, TracingWriteOrders
  <1>6. QED
    BY <1>3, <1>5 DEF table

\* ... the payments, which are no orders,
LEMMA TracingWritePayments ==
    ASSUME NEW s, Tracing(s), NEW table \in [Payments -> PaymentRow \cup {Absent}]
    PROVE  /\ Tracing(WritePayments(s, table))
           /\ WritePayments(s, table).work.order = s.work.order
  <1>1. /\ Ready(WritePayments(s, table))
        /\ WritePayments(s, table).work = [s.work EXCEPT !.payment = table]
    BY ReadyWritePayments DEF Tracing
  <1>2. WritePayments(s, table).work.order = s.work.order
    BY <1>1 DEF Tracing, Ready, Fresh, SessionOK, Session, Database
  <1>3. QED
    BY <1>1, <1>2 DEF Tracing

\* ... or one of them.
LEMMA TracingWritePayment ==
    ASSUME NEW s, Tracing(s), NEW p \in Payments, NEW row \in PaymentRow
    PROVE  Tracing(WritePayment(s, p, row))
  <1> DEFINE table == [s.work.payment EXCEPT ![p] = row]
  <1>1. table \in [Payments -> PaymentRow \cup {Absent}]
    BY DEF Tracing, Ready, Fresh, SessionOK, Session, Database
  <1>2. WritePayment(s, p, row) = WritePayments(s, table)
    BY DEF WritePayment, WritePayments, Tracing, Ready, Fresh, SessionOK, Session, Database
  <1> HIDE DEF table
  <1>3. QED
    BY <1>1, <1>2, TracingWritePayments

\* The one transaction of a request.
LEMMA TracingTransaction ==
    ASSUME TypeOK, NEW c \in Customers, NEW amount \in Int,
           NEW kind \in {"payment", "revert", "order", "manual"},
           NEW of \in Payments \cup Orders \cup {NoOrder}
    PROVE  /\ Tracing(Transaction(Begin, c, amount, kind, of))
           /\ Transaction(Begin, c, amount, kind, of).work.order = db.order
  BY BeginTracing, ReadyTransaction DEF Tracing

\* A request opens a session that traces the orders.
LEMMA ChargeRequestStep ==
    ASSUME CInv, IInv', NEW w \in Workers, NEW s, Request(w, s),
           s.snap = db, \A o \in Orders : Traces(s, o)
    PROVE  CInv'
  <1>1. db' = db /\ ledger' = ledger /\ session' = [session EXCEPT ![w] = s]
        /\ session \in [Workers -> {Idle} \cup Session]
    BY DEF Request, CInv, IInv, TypeOK
  <1>2. ShippedIsCharged'
    BY <1>1 DEF CInv, ShippedIsCharged, HasBeenCharged, ExistingOrders
  <1>3. ASSUME NEW v \in Workers, session'[v] # Idle, NEW o \in Orders
        PROVE  Traces(session'[v], o) /\ Follows(session'[v].snap.order[o], db'.order[o])
    <2>1. db.order[o] \in OrderRow \cup NoRow
      BY DEF CInv, IInv, TypeOK, Database
    <2>2. CASE v = w
      <3>1. session'[v] = s
        BY <1>1, <2>2
      <3>2. Follows(db.order[o], db.order[o])
        BY <2>1, FollowsOn
      <3>3. QED
        BY <1>1, <3>1, <3>2
    <2>3. CASE v # w
      <3>1. session'[v] = session[v]
        BY <1>1, <2>3
      <3>2. QED
        BY <1>1, <1>3, <3>1 DEF CInv, StillThere
    <2>4. QED
      BY <2>2, <2>3
  <1>4. QED
    BY <1>2, <1>3 DEF CInv, StillThere, Traces

\* ... which the requests of one step do.
LEMMA TracingRequestStep ==
    ASSUME CInv, IInv', NEW w \in Workers, NEW s, Request(w, s), Tracing(s)
    PROVE  CInv'
  <1>1. s.snap = db /\ \A o \in Orders : Traces(s, o)
    BY DEF Tracing, Ready, Fresh, Traces, Keeps
  <1>2. QED
    BY <1>1, ChargeRequestStep

\* Payment.set_status, which releases pending orders at most.
LEMMA SetPaymentStatusTracing ==
    ASSUME TypeOK, NEW p \in Payments, NEW payment \in PaymentRow, NEW status \in PaymentStatus
    PROVE  Tracing(SetPaymentStatus(Begin, p, payment, status))
  <1>1. payment.user \in Customers /\ payment.received \in Int /\ -payment.received \in Int
    <2>1. payment.user \in Customers /\ payment.received \in Nat
      BY AccountsAssumption DEF PaymentRow
    <2>2. \A n \in Nat : n \in Int /\ -n \in Int
      OBVIOUS
    <2>3. QED
      BY <2>1, <2>2
  <1>2. Tracing(AddPayment(Begin, p, payment))
    <2> DEFINE credited == Transaction(Begin, payment.user, payment.received, "payment", p)
               table == [o \in Orders |->
                            IF o \in payment.orders /\ credited.work.order[o].status = "pending"
                            THEN [credited.work.order[o] EXCEPT !.status = "can_be_paid"]
                            ELSE credited.work.order[o]]
    <2>1. Tracing(credited) /\ credited.work.order = db.order
      BY <1>1, TracingTransaction
    <2>2. AddPayment(Begin, p, payment) = WriteOrders(credited, table)
      BY DEF AddPayment, UpdateOrders
    <2> HIDE DEF credited
    <2>3. ASSUME NEW o \in Orders
          PROVE  table[o] \in OrderRow \cup NoRow /\ Keeps(db.order[o], table[o])
      <3>1. db.order[o] \in OrderRow \cup NoRow
        BY BeginReady DEF OrderTable
      <3>2. CASE o \in payment.orders /\ db.order[o].status = "pending"
        <4>1. db.order[o] \in OrderRow
          BY <3>1, <3>2 DEF NoRow, Absent, Deleted
        <4>2. /\ [db.order[o] EXCEPT !.status = "can_be_paid"] \in OrderRow
              /\ [db.order[o] EXCEPT !.status = "can_be_paid"].status = "can_be_paid"
              /\ [db.order[o] EXCEPT !.status = "can_be_paid"].user = db.order[o].user
          BY <4>1 DEF OrderRow, OrderStatus
        <4>3. table[o] = [db.order[o] EXCEPT !.status = "can_be_paid"]
          BY <2>1, <3>2
        <4> HIDE DEF table
        <4>4. QED
          BY <4>1, <4>2, <4>3, RowTypes DEF Keeps, Follows, IsShipped, NoRow
      <3>3. CASE ~(o \in payment.orders /\ db.order[o].status = "pending")
        <4>1. table[o] = db.order[o]
          BY <2>1, <3>3
        <4> HIDE DEF table
        <4>2. QED
          BY <3>1, <4>1, FollowsOn
      <3>4. QED
        BY <3>2, <3>3
    <2>4. table \in OrderTable
      BY <2>3 DEF OrderTable
    <2> HIDE DEF table
    <2>5. \A o \in Orders : /\ Follows(credited.work.order[o], table[o])
                            /\ o \notin EmsOrders => Keeps(credited.work.order[o], table[o])
      BY <2>1, <2>3 DEF Keeps
    <2>6. QED
      BY <2>1, <2>2, <2>4, <2>5, TracingWriteOrders
  <1>3. Tracing(RevertPayment(Begin, p, payment))
    BY <1>1, TracingTransaction DEF RevertPayment
  <1>4. [payment EXCEPT !.status = status] \in PaymentRow
    BY DEF PaymentRow
  <1>5. QED
    BY <1>2, <1>3, <1>4, BeginTracing, TracingWritePayment DEF SetPaymentStatus

\* The requests about payments keep what is shipped charged.
LEMMA PaymentRequestCharge ==
    ASSUME CInv, IInv', NEW w \in Workers, PaymentRequest(w)
    PROVE  CInv'
  <1>1. TypeOK /\ Tracing(Begin)
    BY BeginTracing DEF CInv, IInv
  <1>2. PICK p \in Payments :
            \/ \E user \in Customers, sent \in Amounts, orders \in SUBSET ExistingOrders(db) :
                   \/ user_create_payment(w, p, user, sent, orders)
                   \/ \E received \in Amounts :
                          admin_edit_payment(w, p, user, sent, received, orders)
            \/ user_delete_payment(w, p)
            \/ \E status \in AdminPaymentStatuses : admin_set_payment_status(w, p, status)
            \/ handle_checkout_complete(w, p)
            \/ \E net_amount \in Amounts : approve_payment(w, p, net_amount)
    BY DEF PaymentRequest
  <1>3. Exists(p) => db.payment[p] \in PaymentRow
    BY <1>1, BeginReady DEF Exists
  <1>4. ASSUME NEW row \in PaymentRow, Request(w, WritePayment(Begin, p, row))
        PROVE  CInv'
    BY <1>1, <1>4, TracingWritePayment, TracingRequestStep
  <1>5. ASSUME NEW user \in Customers, NEW sent \in Amounts, NEW orders \in SUBSET ExistingOrders(db),
               user_create_payment(w, p, user, sent, orders)
        PROVE  CInv'
    <2>1. [status |-> "pending", user |-> user, sent |-> sent, received |-> 0,
           orders |-> orders] \in PaymentRow
      BY AccountsAssumption DEF PaymentRow, PaymentStatus, ExistingOrders
    <2>2. QED
      BY <1>4, <1>5, <2>1 DEF user_create_payment
  <1>6. ASSUME NEW user \in Customers, NEW sent \in Amounts, NEW orders \in SUBSET ExistingOrders(db),
               NEW received \in Amounts, admin_edit_payment(w, p, user, sent, received, orders)
        PROVE  CInv'
    <2> DEFINE row == [db.payment[p] EXCEPT !.user = user, !.sent = sent, !.received = received,
                                            !.orders = IF orders = {} THEN @ ELSE orders]
    <2>1. row \in PaymentRow
      BY <1>3, <1>6 DEF PaymentRow, ExistingOrders, admin_edit_payment
    <2>2. Request(w, WritePayment(Begin, p, row))
      BY <1>6 DEF admin_edit_payment
    <2> HIDE DEF row
    <2>3. QED
      BY <1>4, <2>1, <2>2
  <1>7. ASSUME user_delete_payment(w, p)
        PROVE  CInv'
    <2>1. [db.payment[p] EXCEPT !.status = "cancelled"] \in PaymentRow
      BY <1>3, <1>7 DEF PaymentRow, PaymentStatus, user_delete_payment
    <2>2. QED
      BY <1>4, <1>7, <2>1 DEF user_delete_payment
  <1>8. ASSUME NEW status \in AdminPaymentStatuses, admin_set_payment_status(w, p, status)
        PROVE  CInv'
    <2>1. status \in PaymentStatus
      BY AccountsAssumption
    <2>2. QED
      BY <1>1, <1>3, <1>8, <2>1, SetPaymentStatusTracing, TracingRequestStep
         DEF admin_set_payment_status
  <1>9. ASSUME NEW net_amount \in Amounts, Exists(p),
               Request(w, SetPaymentStatus(Begin, p,
                            [db.payment[p] EXCEPT !.received = net_amount], "approved"))
        PROVE  CInv'
    <2>1. [db.payment[p] EXCEPT !.received = net_amount] \in PaymentRow
      BY <1>3, <1>9 DEF PaymentRow
    <2>2. "approved" \in PaymentStatus
      BY DEF PaymentStatus
    <2>3. QED
      BY <1>1, <1>9, <2>1, <2>2, SetPaymentStatusTracing, TracingRequestStep
  <1>10. ASSUME handle_checkout_complete(w, p)
         PROVE  CInv'
    <2>1. Exists(p) /\ db.payment[p].sent \in Amounts
      BY <1>3, <1>10 DEF handle_checkout_complete, PaymentRow
    <2>2. QED
      BY <1>9, <1>10, <2>1 DEF handle_checkout_complete
  <1>11. ASSUME NEW net_amount \in Amounts, approve_payment(w, p, net_amount)
         PROVE  CInv'
    BY <1>9, <1>11 DEF approve_payment
  <1>12. QED
    BY <1>2, <1>5, <1>6, <1>7, <1>8, <1>10, <1>11

\* ... and so does a transaction entered by hand.
LEMMA TransactionRequestCharge ==
    ASSUME CInv, IInv', NEW w \in Workers, TransactionRequest(w)
    PROVE  CInv'
  <1>1. PICK c \in Customers, amount \in ManualAmounts :
            Request(w, Transaction(Begin, c, amount, "manual", NoOrder))
    BY DEF TransactionRequest, admin_save_transaction
  <1>2. amount \in Int /\ TypeOK
    BY AccountsAssumption DEF CInv, IInv
  <1>3. Tracing(Transaction(Begin, c, amount, "manual", NoOrder))
    BY <1>2, TracingTransaction
  <1>4. QED
    BY <1>1, <1>3, TracingRequestStep

\* Order.attach_orders leaves the customers and the statuses alone.
LEMMA AttachKeeps ==
    ASSUME NEW table \in OrderTable, NEW o \in Orders, NEW orders, NEW x \in Orders
    PROVE  Keeps(table[x], Attach(table, o, orders)[x])
  <1>1. Attach(table, o, orders)[x] \in OrderRow \cup NoRow /\ table[x] \in OrderRow \cup NoRow
    BY AttachType DEF OrderTable
  <1>2. CASE table[x] \in NoRow
    <2>1. Attach(table, o, orders)[x] = table[x]
      BY <1>2 DEF Attach
    <2>2. QED
      BY <1>1, <2>1, FollowsOn
  <1>3. CASE table[x] \notin NoRow
    <2> DEFINE parent == IF x \in orders THEN o
                         ELSE IF table[x].attachedTo = o THEN NoOrder ELSE table[x].attachedTo
    <2>1. table[x] \in OrderRow
      BY <1>3 DEF OrderTable
    <2>2. Attach(table, o, orders)[x] = [table[x] EXCEPT !.attachedTo = parent]
      BY <1>3, <2>1 DEF Attach, OrderRow
    <2> HIDE DEF parent
    <2>3. /\ Attach(table, o, orders)[x].user = table[x].user
          /\ Attach(table, o, orders)[x].status = table[x].status
          /\ Attach(table, o, orders)[x] \in OrderRow
      <3>1. /\ Attach(table, o, orders)[x].user = table[x].user
            /\ Attach(table, o, orders)[x].status = table[x].status
            /\ DOMAIN Attach(table, o, orders)[x] = DOMAIN table[x]
        BY <2>1, <2>2 DEF OrderRow
      <3>2. Attach(table, o, orders)[x] \notin NoRow
        BY <2>1, <3>1 DEF NoRow, Absent, Deleted, OrderRow, OrderStatus
      <3>3. QED
        BY <1>1, <3>1, <3>2
    <2>4. QED
      BY <2>1, <2>3, RowTypes DEF Keeps, Follows, IsShipped, NoRow
  <1>4. QED
    BY <1>2, <1>3

\* Deleting an order changes neither the customer nor the status of another.
LEMMA RemoveOrderTracing ==
    ASSUME TypeOK, NEW o \in ExistingOrders(db)
    PROVE  /\ Tracing(RemoveOrder(Begin, o))
           /\ \A x \in Orders : db.order[x] = Absent => RemoveOrder(Begin, o).work.order[x] = Absent
  <1> DEFINE orders == Remove(db.order, o)
             written == WriteOrders(Begin, orders)
             payments == [p \in Payments |->
                            IF db.payment[p] = Absent THEN db.payment[p]
                            ELSE [db.payment[p] EXCEPT !.orders = @ \ {o}]]
  <1>1. /\ Tracing(Begin) /\ Begin.work = db /\ db \in Database
        /\ db.order \in OrderTable /\ o \in Orders /\ db.order[o] \in OrderRow
        /\ db.payment \in [Payments -> PaymentRow \cup {Absent}]
    BY BeginTracing, BeginReady, ExistingRow DEF ExistingOrders
  <1>2. orders \in OrderTable
    BY <1>1, AttachType DEF Remove, OrderTable, NoRow
  <1>3. ASSUME NEW x \in Orders
        PROVE  /\ Keeps(db.order[x], orders[x])
               /\ db.order[x] = Absent => orders[x] = Absent
    <2>1. CASE x = o
      <3>1. orders[x] = Deleted
        BY <1>1, <2>1 DEF Remove, Attach
      <3> HIDE DEF orders
      <3>2. QED
        BY <1>1, <2>1, <3>1, RowTypes DEF Keeps, Follows, IsShipped, NoRow, Absent, Deleted
    <2>2. CASE x # o
      <3>1. orders[x] = Attach(db.order, o, {})[x]
        BY <1>1, <2>2 DEF Remove, Attach
      <3>2. db.order[x] = Absent => Attach(db.order, o, {})[x] = Absent
        BY DEF Attach, NoRow
      <3> HIDE DEF orders
      <3>3. QED
        BY <1>1, <3>1, <3>2, AttachKeeps
    <2>3. QED
      BY <2>1, <2>2
  <1>4. payments \in [Payments -> PaymentRow \cup {Absent}]
    <2> SUFFICES ASSUME NEW p \in Payments, db.payment[p] # Absent
                 PROVE  [db.payment[p] EXCEPT !.orders = @ \ {o}] \in PaymentRow
      BY <1>1
    <2>1. db.payment[p] \in PaymentRow
      BY <1>1
    <2>2. QED
      BY <2>1 DEF PaymentRow
  <1>5. RemoveOrder(Begin, o) = WritePayments(written, payments)
    BY <1>1 DEF RemoveOrder
  <1> HIDE DEF orders, payments
  <1>6. Tracing(written) /\ written.work.order = orders
    BY <1>1, <1>2, <1>3, TracingWriteOrders DEF Keeps
  <1> HIDE DEF written
  <1>7. /\ Tracing(WritePayments(written, payments))
        /\ WritePayments(written, payments).work.order = orders
    BY <1>4, <1>6, TracingWritePayments
  <1>8. QED
    BY <1>3, <1>5, <1>7

\* A new order is not shipped.
LEMMA NewOrderTracing ==
    ASSUME TypeOK, NEW s, Tracing(s), NEW o \in Orders, s.work.order[o] = Absent,
           NEW user \in Customers, NEW status \in OrderStatus \ {"shipped"},
           NEW total \in Totals, NEW products \in SUBSET Products, NEW orders
    PROVE  Tracing(NewOrder(s, o, user, status, total, products, orders))
  <1> DEFINE row == [status |-> status, user |-> user, total |-> total,
                     unfinished |-> products, attachedTo |-> NoOrder]
             table == [s.work.order EXCEPT ![o] = row]
             attached == Attach(table, o, orders)
  <1>1. row \in OrderRow /\ row.status # "shipped"
    BY DEF OrderRow
  <1>2. s.work.order \in OrderTable
    BY DEF Tracing
  <1>3. NewOrder(s, o, user, status, total, products, orders) = WriteOrders(s, attached)
    BY DEF NewOrder
  <1> HIDE DEF row
  <1>4. table \in OrderTable
    BY <1>1, <1>2 DEF OrderTable
  <1>5. ASSUME NEW x \in Orders
        PROVE  Keeps(s.work.order[x], table[x])
    <2>1. CASE x = o
      <3>1. table[x] = row /\ s.work.order[x] = Absent
        BY <1>2, <2>1 DEF OrderTable
      <3> HIDE DEF table
      <3>2. QED
        BY <1>1, <3>1, RowTypes DEF Keeps, Follows, IsShipped, NoRow, Absent, Deleted
    <2>2. CASE x # o
      <3>1. table[x] = s.work.order[x] /\ s.work.order[x] \in OrderRow \cup NoRow
        BY <1>2, <2>2 DEF OrderTable
      <3>2. QED
        BY <3>1, FollowsOn
    <2>3. QED
      BY <2>1, <2>2
  <1> HIDE DEF table
  <1>6. attached \in OrderTable
    BY <1>4, AttachType
  <1>7. ASSUME NEW x \in Orders
        PROVE  Keeps(s.work.order[x], attached[x])
    <2>1. /\ s.work.order[x] \in OrderRow \cup NoRow /\ table[x] \in OrderRow \cup NoRow
          /\ attached[x] \in OrderRow \cup NoRow
      BY <1>2, <1>4, <1>6 DEF OrderTable
    <2>2. Keeps(table[x], attached[x])
      BY <1>4, AttachKeeps
    <2> HIDE DEF attached
    <2>3. QED
      BY <1>5, <2>1, <2>2, FollowsOn
  <1> HIDE DEF attached
  <1>8. Tracing(WriteOrders(s, attached))
    BY <1>6, <1>7, TracingWriteOrders DEF Keeps
  <1>9. QED
    BY <1>3, <1>8

\* A request that changes one order's columns, none of them the customer.
LEMMA EditOrderCharge ==
    ASSUME CInv, IInv', NEW w \in Workers, NEW o \in ExistingOrders(db), NEW row \in OrderRow,
           row.user = db.order[o].user,
           o \in EmsOrders \/ row.status # "shipped" \/ row.status = db.order[o].status,
           Request(w, WriteOrder(Begin, o, row))
    PROVE  CInv'
  <1>1. TypeOK /\ Tracing(Begin) /\ Begin.work = db /\ o \in Orders /\ db.order[o] \in OrderRow
    BY BeginTracing, ExistingRow DEF CInv, IInv, ExistingOrders
  <1>2. /\ Follows(db.order[o], row)
        /\ o \notin EmsOrders => Keeps(db.order[o], row)
    BY <1>1, RowTypes DEF Follows, Keeps, IsShipped, NoRow
  <1>3. Tracing(WriteOrder(Begin, o, row))
    BY <1>1, <1>2, TracingWriteOrder
  <1>4. QED
    BY <1>3, TracingRequestStep

\* Entering a call of set_status writes and books nothing.
LEMMA EnterKeeps ==
    ASSUME NEW s \in Session, NEW o
    PROVE  Enter(s, o).snap = s.snap /\ Enter(s, o).work = s.work /\ Enter(s, o).rows = s.rows
  BY DEF Enter, Session

\* Only set_status makes an order of the administrator's form shipped.
LEMMA AdminSaveOrderCharge ==
    ASSUME CInv, IInv', NEW w \in Workers, NEW o \in Orders, NEW total \in Totals,
           NEW status \in AdminOrderStatuses \cup {db.order[o].status},
           admin_save_order(w, o, status, total)
    PROVE  CInv'
  <1> DEFINE row == [db.order[o] EXCEPT !.total = total]
             s == WriteOrder(Begin, o, row)
  <1>1. /\ TypeOK /\ o \in ExistingOrders(db) /\ db.order[o] \in OrderRow
        /\ Tracing(Begin) /\ Begin.work = db /\ db.order \in OrderTable
    BY BeginTracing, BeginReady, ExistingRow DEF CInv, IInv, admin_save_order
  <1>2. row \in OrderRow /\ row.user = db.order[o].user /\ row.status = db.order[o].status
    BY <1>1 DEF OrderRow
  <1>3. \/ Request(w, s)
        \/ /\ status # "shipped"
           /\ Request(w, WriteOrder(s, o, [s.work.order[o] EXCEPT !.status = status]))
        \/ Request(w, Enter(s, o))
    BY DEF admin_save_order
  <1>4. status \in OrderStatus
    BY <1>1, AccountsAssumption DEF OrderRow
  <1> HIDE DEF row
  <1>5. Follows(db.order[o], row) /\ Keeps(db.order[o], row)
    BY <1>1, <1>2, RowTypes DEF Follows, Keeps, IsShipped, NoRow
  <1>6. Tracing(s) /\ s.work.order = [db.order EXCEPT ![o] = row]
    BY <1>1, <1>2, <1>5, TracingWriteOrder
  <1>7. s.work.order[o] = row
    BY <1>1, <1>6 DEF OrderTable
  <1> HIDE DEF s
  <1>8. CASE Request(w, s)
    BY <1>6, <1>8, TracingRequestStep
  <1>9. CASE /\ status # "shipped"
             /\ Request(w, WriteOrder(s, o, [s.work.order[o] EXCEPT !.status = status]))
    <2> DEFINE new == [row EXCEPT !.status = status]
    <2>1. new \in OrderRow /\ new.user = row.user /\ new.status # "shipped"
      BY <1>2, <1>4, <1>9 DEF OrderRow
    <2> HIDE DEF new
    <2>2. Follows(row, new) /\ Keeps(row, new)
      BY <1>2, <2>1, RowTypes DEF Follows, Keeps, IsShipped, NoRow
    <2>3. Tracing(WriteOrder(s, o, new))
      BY <1>1, <1>6, <1>7, <2>1, <2>2, TracingWriteOrder
    <2>4. QED
      BY <1>7, <1>9, <2>3, TracingRequestStep DEF new
  <1>10. CASE Request(w, Enter(s, o))
    <2> DEFINE t == Enter(s, o)
    <2>1. t.snap = s.snap /\ t.work = s.work /\ t.rows = s.rows
      BY <1>6, EnterKeeps DEF Tracing, Ready, Fresh, SessionOK
    <2> HIDE DEF t
    <2>2. t.snap = db /\ \A x \in Orders : Traces(t, x)
      BY <1>6, <2>1 DEF Tracing, Ready, Fresh, Traces, Keeps
    <2>3. QED
      BY <1>10, <2>2, ChargeRequestStep DEF t
  <1>11. QED
    BY <1>3, <1>8, <1>9, <1>10

\* The requests about orders keep what is shipped charged.
LEMMA OrderRequestCharge ==
    ASSUME CInv, IInv', NEW w \in Workers, OrderRequest(w)
    PROVE  CInv'
  <1>1. /\ TypeOK /\ Tracing(Begin) /\ Begin.work = db /\ db.order \in OrderTable
    BY BeginTracing, BeginReady DEF CInv, IInv
  <1>2. PICK o \in Orders, total \in Totals :
            \/ \E products \in SUBSET Products, orders \in SUBSET ExistingOrders(db) :
                   \/ \E user \in Customers, status \in CreatedStatus \cup {"draft"} :
                          \/ user_create_order(w, o, user, status, total, products, orders)
                          \/ \E draft \in ExistingOrders(db) :
                                 user_submit_draft(w, draft, o, user, status, total, products, orders)
                   \/ user_save_order(w, o, total, products, orders)
            \/ user_delete_order(w, o)
            \/ admin_delete_order(w, o)
            \/ \E status \in AdminOrderStatuses \cup {db.order[o].status} :
                   admin_save_order(w, o, status, total)
            \/ admin_print_label(w, o)
            \/ to_dict(w, o, total)
    BY DEF OrderRequest
  <1>0. CreatedStatus \cup {"draft"} \subseteq OrderStatus \ {"shipped"}
    BY DEF CreatedStatus, OrderStatus
  <1>3. ASSUME NEW products \in SUBSET Products, NEW orders \in SUBSET ExistingOrders(db),
               NEW user \in Customers, NEW status \in CreatedStatus \cup {"draft"},
               user_create_order(w, o, user, status, total, products, orders)
        PROVE  CInv'
    <2>1. db.order[o] = Absent
      BY <1>3 DEF user_create_order
    <2>2. Tracing(NewOrder(Begin, o, user, status, total, products, orders))
      BY <1>0, <1>1, <2>1, NewOrderTracing
    <2>3. QED
      BY <1>3, <2>2, TracingRequestStep DEF user_create_order
  <1>4. ASSUME NEW products \in SUBSET Products, NEW orders \in SUBSET ExistingOrders(db),
               NEW user \in Customers, NEW status \in CreatedStatus \cup {"draft"},
               NEW draft \in ExistingOrders(db),
               user_submit_draft(w, draft, o, user, status, total, products, orders)
        PROVE  CInv'
    <2> DEFINE s == RemoveOrder(Begin, draft)
    <2>1. db.order[o] = Absent
      BY <1>4 DEF user_submit_draft
    <2>2. Tracing(s) /\ s.work.order[o] = Absent
      BY <1>1, <2>1, RemoveOrderTracing
    <2>3. Request(w, NewOrder(s, o, user, status, total, products, orders \ {draft}))
      BY <1>4 DEF user_submit_draft
    <2> HIDE DEF s
    <2>4. Tracing(NewOrder(s, o, user, status, total, products, orders \ {draft}))
      BY <1>0, <1>1, <2>2, NewOrderTracing
    <2>5. QED
      BY <2>3, <2>4, TracingRequestStep
  <1>5. ASSUME NEW products \in SUBSET Products, NEW orders \in SUBSET ExistingOrders(db),
               user_save_order(w, o, total, products, orders)
        PROVE  CInv'
    <2> DEFINE row == [db.order[o] EXCEPT !.total = total, !.unfinished = products]
               table == [db.order EXCEPT ![o].total = total, ![o].unfinished = products]
    <2>1. db.order[o] \in OrderRow
      BY <1>1, <1>5, ExistingRow DEF user_save_order
    <2>2. table = [db.order EXCEPT ![o] = row]
      BY <1>1, <2>1 DEF OrderTable, OrderRow
    <2>3. row \in OrderRow /\ row.user = db.order[o].user /\ row.status = db.order[o].status
      BY <2>1 DEF OrderRow
    <2>4. Request(w, WriteOrders(Begin, Attach(table, o, orders)))
      BY <1>5 DEF user_save_order
    <2> HIDE DEF row, table
    <2>5. table \in OrderTable /\ Attach(table, o, orders) \in OrderTable
      <3>1. table \in OrderTable
        BY <1>1, <2>2, <2>3 DEF OrderTable
      <3>2. QED
        BY <3>1, AttachType
    <2>6. ASSUME NEW x \in Orders
          PROVE  Keeps(db.order[x], Attach(table, o, orders)[x])
      <3>1. /\ db.order[x] \in OrderRow \cup NoRow /\ table[x] \in OrderRow \cup NoRow
            /\ Attach(table, o, orders)[x] \in OrderRow \cup NoRow
            /\ table[x] = IF x = o THEN row ELSE db.order[x]
        BY <1>1, <2>2, <2>5 DEF OrderTable
      <3>2. Keeps(db.order[x], table[x])
        <4>1. CASE x = o
          BY <2>1, <2>3, <3>1, <4>1, RowTypes DEF Keeps, Follows, IsShipped, NoRow
        <4>2. CASE x # o
          BY <3>1, <4>2, FollowsOn
        <4>3. QED
          BY <4>1, <4>2
      <3>3. Keeps(table[x], Attach(table, o, orders)[x])
        BY <2>5, AttachKeeps
      <3>4. QED
        BY <3>1, <3>2, <3>3, FollowsOn
    <2>7. Tracing(WriteOrders(Begin, Attach(table, o, orders)))
      BY <1>1, <2>5, <2>6, TracingWriteOrders DEF Keeps
    <2>8. QED
      BY <2>4, <2>7, TracingRequestStep
  <1>6. ASSUME user_delete_order(w, o) \/ admin_delete_order(w, o)
        PROVE  CInv'
    <2>1. o \in ExistingOrders(db) /\ Request(w, RemoveOrder(Begin, o))
      BY <1>6 DEF user_delete_order, admin_delete_order
    <2>2. Tracing(RemoveOrder(Begin, o))
      BY <1>1, <2>1, RemoveOrderTracing
    <2>3. QED
      BY <2>1, <2>2, TracingRequestStep
  <1>7. ASSUME admin_print_label(w, o)
        PROVE  CInv'
    <2> DEFINE row == [db.order[o] EXCEPT !.status = "shipped"]
    <2>1. o \in EmsOrders /\ o \in ExistingOrders(db) /\ Request(w, WriteOrder(Begin, o, row))
      BY <1>7 DEF admin_print_label
    <2>2. row \in OrderRow /\ row.user = db.order[o].user
      BY <1>1, <2>1, ExistingRow DEF OrderRow, OrderStatus
    <2> HIDE DEF row
    <2>3. QED
      BY <2>1, <2>2, EditOrderCharge
  <1>8. ASSUME to_dict(w, o, total)
        PROVE  CInv'
    <2> DEFINE row == [db.order[o] EXCEPT !.total = total]
    <2>1. o \in ExistingOrders(db) /\ Request(w, WriteOrder(Begin, o, row))
      BY <1>8 DEF to_dict
    <2>2. row \in OrderRow /\ row.user = db.order[o].user /\ row.status = db.order[o].status
      BY <1>1, <2>1, ExistingRow DEF OrderRow
    <2> HIDE DEF row
    <2>3. QED
      BY <2>1, <2>2, EditOrderCharge
  <1>9. QED
    BY <1>2, <1>3, <1>4, <1>5, <1>6, <1>7, <1>8, AdminSaveOrderCharge

\* The requests about order products change neither the customer nor the status
\* of an order; the order that a postponed product moves to is not shipped.
LEMMA OrderProductRequestCharge ==
    ASSUME CInv, IInv', NEW w \in Workers, OrderProductRequest(w)
    PROVE  CInv'
  <1>1. TypeOK /\ Tracing(Begin) /\ Begin.work = db /\ db.order \in OrderTable
    BY BeginTracing, BeginReady DEF CInv, IInv
  <1>2. PICK o \in Orders, total \in Totals, product \in Products :
            \/ \E status \in {"pending", "unavailable", "purchased"} :
                   admin_set_order_product_status(w, o, product, status, total)
            \/ \E products \in SUBSET Products : change_order_product(w, o, products, total)
            \/ \E q \in Orders, q_total \in Totals :
                   postpone_order_product(w, o, product, q, total, q_total)
    BY DEF OrderProductRequest
  <1>3. ASSUME NEW products \in SUBSET Products, NEW new_total \in Totals,
               o \in ExistingOrders(db),
               Request(w, WriteOrder(Begin, o, [db.order[o] EXCEPT !.total = new_total,
                                                                   !.unfinished = products]))
        PROVE  CInv'
    <2> DEFINE row == [db.order[o] EXCEPT !.total = new_total, !.unfinished = products]
    <2>1. row \in OrderRow /\ row.user = db.order[o].user /\ row.status = db.order[o].status
      BY <1>1, <1>3, ExistingRow DEF OrderRow
    <2> HIDE DEF row
    <2>2. QED
      BY <1>3, <2>1, EditOrderCharge DEF row
  <1>4. ASSUME NEW status, admin_set_order_product_status(w, o, product, status, total)
        PROVE  CInv'
    <2> DEFINE products == IF status = "pending" THEN db.order[o].unfinished \cup {product}
                           ELSE db.order[o].unfinished \ {product}
               new_total == IF status = "unavailable" THEN total ELSE db.order[o].total
    <2>1. o \in ExistingOrders(db) /\ db.order[o] \in OrderRow
      BY <1>1, <1>4, ExistingRow DEF admin_set_order_product_status
    <2>2. products \in SUBSET Products /\ new_total \in Totals
      BY <2>1 DEF OrderRow
    <2>3. Request(w, WriteOrder(Begin, o,
                [db.order[o] EXCEPT !.unfinished = products, !.total = new_total]))
      BY <1>4 DEF admin_set_order_product_status
    <2> HIDE DEF products, new_total
    <2>4. [db.order[o] EXCEPT !.unfinished = products, !.total = new_total]
            = [db.order[o] EXCEPT !.total = new_total, !.unfinished = products]
      BY <2>1 DEF OrderRow
    <2>5. QED
      BY <1>3, <2>1, <2>2, <2>3, <2>4
  <1>5. ASSUME NEW products \in SUBSET Products, change_order_product(w, o, products, total)
        PROVE  CInv'
    BY <1>3, <1>5 DEF change_order_product
  <1>6. ASSUME NEW q \in Orders, NEW q_total \in Totals,
               postpone_order_product(w, o, product, q, total, q_total)
        PROVE  CInv'
    <2> DEFINE source == [db.order[o] EXCEPT !.unfinished = @ \ {product}, !.total = total]
               fresh == [source EXCEPT !.status = "pending", !.unfinished = {},
                                       !.attachedTo = NoOrder]
               waiting == IF q = o THEN source
                          ELSE IF db.order[q] # Absent THEN db.order[q] ELSE fresh
               target == [waiting EXCEPT !.unfinished = @ \cup {product}, !.total = q_total]
               s == WriteOrder(Begin, o, source)
    <2>1. db.order[o] \in OrderRow
      BY <1>1, <1>6, ExistingRow DEF postpone_order_product
    <2>2. /\ source \in OrderRow
          /\ source.user = db.order[o].user /\ source.status = db.order[o].status
      BY <2>1 DEF OrderRow
    <2>3. /\ Request(w, WriteOrder(s, q, target))
          /\ db.order[q] # Deleted
          /\ waiting.status \in {"pending", "can_be_paid"}
      BY <1>6 DEF postpone_order_product
    <2> HIDE DEF source
    <2>4. fresh \in OrderRow
      BY <2>2 DEF OrderRow, OrderStatus
    <2> HIDE DEF fresh
    <2>5. Follows(db.order[o], source) /\ Keeps(db.order[o], source)
      BY <2>1, <2>2, RowTypes DEF Follows, Keeps, IsShipped, NoRow
    <2>6. Tracing(s) /\ s.work.order = [db.order EXCEPT ![o] = source]
      BY <1>1, <2>2, <2>5, TracingWriteOrder
    <2>7. waiting \in OrderRow
      BY <1>1, <2>2, <2>3, <2>4 DEF OrderTable, NoRow
    <2>8. /\ s.work.order[q] = IF q = o THEN source ELSE db.order[q]
          /\ s.work.order[q] = Absent \/ s.work.order[q] = waiting
      BY <1>1, <2>6 DEF OrderTable
    <2> HIDE DEF waiting
    <2>9. target \in OrderRow /\ target.user = waiting.user /\ target.status = waiting.status
      BY <2>7 DEF OrderRow
    <2> HIDE DEF target, s
    <2>10. Follows(s.work.order[q], target) /\ Keeps(s.work.order[q], target)
      <3>1. Absent # Deleted /\ target \notin NoRow /\ Absent \notin OrderRow
        BY <2>9, RowTypes DEF Absent, Deleted, NoRow
      <3>2. waiting # Deleted /\ target # Absent
        BY <2>7, <3>1, RowTypes DEF NoRow
      <3>3. target.status # "shipped"
        BY <2>3, <2>9
      <3>4. QED
        BY <2>7, <2>8, <2>9, <3>1, <3>2, <3>3 DEF Follows, Keeps, IsShipped
    <2>11. Tracing(WriteOrder(s, q, target))
      BY <1>1, <2>6, <2>9, <2>10, TracingWriteOrder
    <2>12. QED
      BY <2>3, <2>11, TracingRequestStep DEF s
  <1>7. QED
    BY <1>2, <1>4, <1>5, <1>6

\* A step of an open session that still traces the orders.
LEMMA ChargeSessionStep ==
    ASSUME CInv, IInv', NEW w \in Workers, NEW s,
           \/ s = Idle
           \/ /\ session[w] # Idle /\ s.snap = session[w].snap
              /\ \A o \in Orders : Traces(s, o),
           session' = [session EXCEPT ![w] = s], UNCHANGED <<db, ledger>>
    PROVE  CInv'
  <1>1. db' = db /\ ledger' = ledger /\ session \in [Workers -> {Idle} \cup Session]
    BY DEF CInv, IInv, TypeOK
  <1>2. ShippedIsCharged'
    BY <1>1 DEF CInv, ShippedIsCharged, HasBeenCharged, ExistingOrders
  <1>3. ASSUME NEW v \in Workers, session'[v] # Idle, NEW o \in Orders
        PROVE  Traces(session'[v], o) /\ Follows(session'[v].snap.order[o], db'.order[o])
    <2>1. CASE v = w
      <3>1. session'[v] = s
        BY <1>1, <2>1
      <3>2. QED
        BY <1>1, <1>3, <2>1, <3>1 DEF CInv, StillThere
    <2>2. CASE v # w
      <3>1. session'[v] = session[v]
        BY <1>1, <2>2
      <3>2. QED
        BY <1>1, <1>3, <3>1 DEF CInv, StillThere
    <2>3. QED
      BY <2>1, <2>2
  <1>4. QED
    BY <1>2, <1>3 DEF CInv, StillThere, Traces

\* Entering the next attached order writes and books nothing.
LEMMA ShipAttachedCharge ==
    ASSUME CInv, IInv', NEW w \in Workers, NEW x \in Orders, ship_attached(w, x)
    PROVE  CInv'
  <1> DEFINE s == session[w]
             n == Len(s.stack)
             t == [s EXCEPT !.stack = [s.stack EXCEPT ![n] = [s.stack[n] EXCEPT !.todo = @ \ {x}]]]
             entered == Enter(t, x)
  <1>1. s \in Session /\ s # Idle /\ \A o \in Orders : Traces(s, o)
    BY DEF CInv, IInv, OpenSessionsOK, SessionOK, ship_attached
  <1>2. session' = [session EXCEPT ![w] = entered] /\ UNCHANGED <<db, ledger>>
    <2>1. [s EXCEPT !.stack[n].todo = @ \ {x}] = t
      BY <1>1 DEF Session
    <2>2. QED
      BY <2>1 DEF ship_attached
  <1>3. entered.snap = s.snap /\ entered.work = s.work /\ entered.rows = s.rows
    BY <1>1 DEF Enter, Session
  <1> HIDE DEF entered
  <1>4. \A o \in Orders : Traces(entered, o)
    BY <1>1, <1>3 DEF Traces
  <1>5. QED
    BY <1>1, <1>2, <1>3, <1>4, ChargeSessionStep

\* Order.__pay books the row of the order whose status becomes shipped.
LEMMA PayCharge ==
    ASSUME CInv, IInv', NEW w \in Workers, NEW total \in Totals, pay(w, total)
    PROVE  CInv'
  <1> DEFINE s == session[w]
             o == Top(s).order
             order == s.work.order[o]
             c == order.user
             row == [amount |-> -total, balance |-> s.work.balance[c] + (-total),
                     kind |-> "order", of |-> o]
             paid == [order EXCEPT !.status = "shipped", !.total = total]
             charged == Transaction(s, order.user, -total, "order", o)
             shipped == WriteOrder(charged, o, paid)
             pc == IF Len(s.stack) = 1 THEN "ready" ELSE "shipping"
             t == [shipped EXCEPT !.stack = SubSeq(@, 1, Len(@) - 1), !.pc = pc]
  <1>1. /\ SessionOK(s) /\ s \in Session /\ s.pc = "shipping" /\ s # Idle
        /\ \A x \in Orders : Traces(s, x)
    BY DEF CInv, IInv, OpenSessionsOK, SessionOK, pay
  <1>2. o \in Orders /\ order \in OrderRow
    BY <1>1, TopOK DEF Shippable
  <1>3. /\ c \in Customers /\ paid \in OrderRow /\ paid.user = c /\ row.kind = "order" /\ row.of = o
    BY <1>2 DEF OrderRow, OrderStatus
  <1>4. /\ row \in TransactionRow
        /\ s.work \in Database /\ s.rows \in [Customers -> Seq(TransactionRow)]
        /\ s.snap.order \in OrderTable /\ s.work.order \in OrderTable
    <2>1. /\ s.work \in Database /\ s.rows \in [Customers -> Seq(TransactionRow)]
          /\ s.snap.order \in OrderTable /\ s.work.order \in OrderTable
      BY <1>1 DEF Session, Database, OrderTable
    <2>2. s.work.balance[c] \in Int /\ -total \in Int
      <3>1. total \in Nat
        BY AccountsAssumption
      <3>2. s.work.balance[c] \in Int
        BY <1>3, <2>1 DEF Database
      <3>3. QED
        BY <3>1, <3>2
    <2>3. row \in TransactionRow
      BY <1>2, <2>2 DEF TransactionRow
    <2>4. QED
      BY <2>1, <2>3
  <1>5. session' = [session EXCEPT ![w] = t] /\ UNCHANGED <<db, ledger>>
    BY DEF pay
  <1> HIDE DEF o, c, row, paid, order
  <1>6. /\ t.snap = s.snap
        /\ t.work.order = [s.work.order EXCEPT ![o] = paid]
        /\ t.rows = [s.rows EXCEPT ![c] = Append(s.rows[c], row)]
    BY <1>1, <1>4 DEF Transaction, WriteOrder, Session, Database, row, c
  <1> HIDE DEF t, s
  <1>7. ASSUME NEW x \in Orders
        PROVE  Traces(t, x)
    <2>1. Follows(s.snap.order[x], s.work.order[x])
      BY <1>1 DEF Traces
    <2>2. /\ s.work.order[x] \in OrderRow \cup NoRow /\ s.snap.order[x] \in OrderRow \cup NoRow
          /\ t.work.order[x] = IF x = o THEN paid ELSE s.work.order[x]
      BY <1>4, <1>6 DEF OrderTable
    <2>3. Follows(t.snap.order[x], t.work.order[x])
      <3>1. CASE x = o
        <4>1. s.work.order[x] = order /\ order \in OrderRow /\ order.user = c
          BY <1>2, <3>1 DEF order, c
        <4>2. QED
          BY <1>3, <1>6, <2>1, <2>2, <3>1, <4>1, RowTypes DEF Follows, NoRow
      <3>2. CASE x # o
        BY <1>6, <2>1, <2>2, <3>2
      <3>3. QED
        BY <3>1, <3>2
    <2>4. ASSUME x \notin EmsOrders, IsShipped(t.work.order[x]), ~ IsShipped(t.snap.order[x])
          PROVE  ChargedIn(t.rows[t.work.order[x].user], x)
      <3>1. CASE x = o
        <4>1. t.work.order[x].user = c /\ t.rows[c] = Append(s.rows[c], row)
              /\ s.rows[c] \in Seq(TransactionRow)
          BY <1>3, <1>4, <1>6, <2>2, <3>1
        <4>2. QED
          BY <1>3, <1>4, <3>1, <4>1, ChargedAppend
      <3>2. CASE x # o
        <4> DEFINE u == t.work.order[x].user
        <4>1. /\ t.work.order[x] = s.work.order[x] /\ u \in Customers
          BY <2>2, <2>4, <3>2 DEF IsShipped, OrderRow
        <4>2. ChargedIn(s.rows[u], x)
          BY <1>1, <1>6, <2>4, <4>1 DEF Traces
        <4> HIDE DEF u
        <4>3. CASE u = c
          <5>1. t.rows[u] = Append(s.rows[u], row) /\ s.rows[u] \in Seq(TransactionRow)
            BY <1>4, <1>6, <4>1, <4>3
          <5>2. QED
            BY <1>4, <4>2, <5>1, ChargedAppend DEF u
        <4>4. CASE u # c
          <5>1. t.rows[u] = s.rows[u]
            BY <1>4, <1>6, <4>1, <4>4
          <5>2. QED
            BY <4>2, <5>1 DEF u
        <4>5. QED
          BY <4>3, <4>4
      <3>3. QED
        BY <3>1, <3>2
    <2>5. QED
      BY <2>3, <2>4 DEF Traces
  <1>8. session[w] # Idle /\ t.snap = session[w].snap
    BY <1>1, <1>6 DEF s
  <1>9. QED
    BY <1>5, <1>7, <1>8, ChargeSessionStep

\* What Commit writes goes on from what the table holds.
LEMMA MergeOrderFollows ==
    ASSUME NEW old \in OrderRow \cup NoRow, NEW new \in OrderRow \cup NoRow,
           NEW current \in OrderRow \cup NoRow,
           Follows(old, new), Follows(old, current),
           new # old => /\ old = Absent <=> current = Absent
                        /\ current = Deleted => new = Deleted
    PROVE  Follows(current, MergeOrder(old, new, current))
  <1>1. CASE new = old
    BY <1>1, FollowsOn DEF MergeOrder
  <1>2. CASE new # old /\ (old \in NoRow \/ new \in NoRow)
    <2>1. MergeOrder(old, new, current) = new
      BY <1>2 DEF MergeOrder
    <2>2. QED
      BY <1>2, <2>1, RowTypes DEF Follows, NoRow
  <1>3. CASE new # old /\ old \notin NoRow /\ new \notin NoRow
    <2>1. old \in OrderRow /\ new \in OrderRow /\ current \in OrderRow
      BY <1>3 DEF NoRow
    <2>2. MergeOrder(old, new, current).user = current.user
      BY <1>3 DEF MergeOrder
    <2>3. MergeOrder(old, new, current) \in OrderRow \cup NoRow
      BY MergeOrderType
    <2>4. MergeOrder(old, new, current) # Absent
      BY <1>3, <2>1 DEF MergeOrder, Absent
    <2>5. QED
      BY <2>1, <2>2, <2>3, <2>4, RowTypes DEF Follows, NoRow
  <1>4. QED
    BY <1>1, <1>2, <1>3

\* The status that Commit writes is the request's or that of the table.
LEMMA MergeOrderShipped ==
    ASSUME NEW old \in OrderRow \cup NoRow, NEW new \in OrderRow \cup NoRow,
           NEW current \in OrderRow \cup NoRow,
           Follows(old, new), Follows(old, current),
           new # old => /\ old = Absent <=> current = Absent
                        /\ current = Deleted => new = Deleted,
           IsShipped(MergeOrder(old, new, current))
    PROVE  \/ IsShipped(current) /\ MergeOrder(old, new, current).user = current.user
           \/ IsShipped(new) /\ ~ IsShipped(old) /\ MergeOrder(old, new, current).user = new.user
  <1>1. CASE new = old
    BY <1>1 DEF MergeOrder
  <1>2. CASE new # old /\ (old \in NoRow \/ new \in NoRow)
    <2>1. MergeOrder(old, new, current) = new
      BY <1>2 DEF MergeOrder
    <2>2. QED
      BY <1>2, <2>1, RowTypes DEF IsShipped
  <1>3. CASE new # old /\ old \notin NoRow /\ new \notin NoRow
    <2>1. old \in OrderRow /\ new \in OrderRow /\ current \in OrderRow
      BY <1>3 DEF NoRow
    <2>2. /\ MergeOrder(old, new, current).user = current.user
          /\ MergeOrder(old, new, current).status = Column(old.status, new.status, current.status)
      BY <1>3 DEF MergeOrder
    <2>3. new.user = old.user /\ current.user = old.user
      BY <2>1 DEF Follows
    <2>4. CASE new.status = old.status
      BY <2>1, <2>2, <2>4 DEF IsShipped, Column
    <2>5. CASE new.status # old.status
      BY <2>1, <2>2, <2>3, <2>5 DEF IsShipped, Column
    <2>6. QED
      BY <2>4, <2>5
  <1>4. QED
    BY <1>1, <1>2, <1>3

\* The order and the row that charges it are committed together.
LEMMA CommitCharge ==
    ASSUME CInv, IInv', NEW w \in Workers, Commit(w)
    PROVE  CInv'
  <1> DEFINE s == session[w]
             old(o) == s.snap.order[o]
             new(o) == s.work.order[o]
  <1>1. /\ s \in Session /\ Flushable(s)
        /\ \A o \in Orders : Traces(s, o) /\ StillThere(s, o)
        /\ db' = Merge(s)
        /\ ledger' = [c \in Customers |-> ledger[c] \o s.rows[c]]
        /\ session' = [session EXCEPT ![w] = Idle]
        /\ TypeOK /\ TypeOK'
    BY DEF CInv, IInv, OpenSessionsOK, SessionOK, Commit
  <1> HIDE DEF s
  <1>2. ASSUME NEW o \in Orders
        PROVE  /\ old(o) \in OrderRow \cup NoRow /\ new(o) \in OrderRow \cup NoRow
               /\ db.order[o] \in OrderRow \cup NoRow
               /\ Follows(old(o), new(o)) /\ Follows(old(o), db.order[o])
               /\ new(o) # old(o) => /\ old(o) = Absent <=> db.order[o] = Absent
                                     /\ db.order[o] = Deleted => new(o) = Deleted
               /\ db'.order[o] = MergeOrder(old(o), new(o), db.order[o])
    BY <1>1 DEF TypeOK, Session, Database, Traces, StillThere, Flushable, Merge
  <1>3. ASSUME NEW o \in Orders
        PROVE  /\ Follows(db.order[o], db'.order[o])
               /\ db'.order[o] \in OrderRow \cup NoRow
    <2>1. Follows(db.order[o], db'.order[o])
      BY <1>2, MergeOrderFollows
    <2>2. db'.order[o] \in OrderRow \cup NoRow
      BY <1>1 DEF TypeOK, Database
    <2>3. QED
      BY <2>1, <2>2
  <1>4. ShippedIsCharged'
    <2> SUFFICES ASSUME NEW o \in Orders, o \notin EmsOrders,
                        db'.order[o] \notin NoRow, db'.order[o].status = "shipped"
                 PROVE  ChargedIn(ledger'[db'.order[o].user], o)
      BY DEF ShippedIsCharged, HasBeenCharged, ExistingOrders, ChargedIn
    <2> DEFINE u == db'.order[o].user
    <2>1. IsShipped(db'.order[o]) /\ u \in Customers
      BY <1>3, RowTypes DEF IsShipped, OrderRow
    <2>2. \/ IsShipped(db.order[o]) /\ u = db.order[o].user
          \/ IsShipped(new(o)) /\ ~ IsShipped(old(o)) /\ u = new(o).user
      BY <1>2, <2>1, MergeOrderShipped
    <2>3. /\ ledger[u] \in Seq(TransactionRow) /\ s.rows[u] \in Seq(TransactionRow)
          /\ ledger'[u] = ledger[u] \o s.rows[u]
      BY <1>1, <2>1 DEF TypeOK, Session
    <2>4. ChargedIn(ledger[u], o) \/ ChargedIn(s.rows[u], o)
      <3>1. CASE IsShipped(db.order[o]) /\ u = db.order[o].user
        BY <3>1, RowTypes DEF CInv, ShippedIsCharged, HasBeenCharged, ExistingOrders, ChargedIn,
           IsShipped
      <3>2. CASE IsShipped(new(o)) /\ ~ IsShipped(old(o)) /\ u = new(o).user
        BY <1>1, <3>2 DEF Traces
      <3>3. QED
        BY <2>2, <3>1, <3>2
    <2> HIDE DEF u
    <2>5. ChargedIn(ledger'[u], o)
      BY <2>3, <2>4, ChargedConcat
    <2>6. QED
      BY <2>5 DEF u
  <1>5. ASSUME NEW v \in Workers, session'[v] # Idle, NEW o \in Orders
        PROVE  Traces(session'[v], o) /\ Follows(session'[v].snap.order[o], db'.order[o])
    <2>1. session'[v] = session[v] /\ session[v] # Idle /\ session[v] \in Session
      BY <1>1, <1>5 DEF TypeOK
    <2>2. Traces(session[v], o) /\ Follows(session[v].snap.order[o], db.order[o])
      BY <2>1 DEF CInv, StillThere
    <2>3. session[v].snap.order[o] \in OrderRow \cup NoRow
      BY <2>1 DEF Session, Database
    <2>4. Follows(session[v].snap.order[o], db'.order[o])
      BY <1>2, <1>3, <2>2, <2>3, FollowsOn
    <2>5. QED
      BY <2>1, <2>2, <2>4
  <1>6. QED
    BY <1>4, <1>5 DEF CInv, StillThere, Traces

\* Every step keeps what is shipped charged.
LEMMA ChargeStep == CInv /\ [Next]_vars => CInv'
  <1> SUFFICES ASSUME CInv, [Next]_vars PROVE CInv'
    OBVIOUS
  <1>1. IInv'
    BY NextOK DEF CInv
  <1>2. ASSUME NEW w \in Workers, Shipping(w) \/ Rollback(w)
        PROVE  CInv'
    <2>1. ASSUME NEW x \in Orders, ship_attached_fails(w, x)
          PROVE  CInv'
      BY <1>1, <2>1, ChargeSessionStep DEF ship_attached_fails
    <2>2. ASSUME Rollback(w)
          PROVE  CInv'
      BY <1>1, <2>2, ChargeSessionStep DEF Rollback
    <2>3. QED
      BY <1>1, <1>2, <2>1, <2>2, ShipAttachedCharge, PayCharge DEF Shipping
  <1>3. CASE UNCHANGED vars
    BY <1>1, <1>3 DEF vars, CInv, ShippedIsCharged, HasBeenCharged, ExistingOrders, StillThere
  <1>4. QED
    BY <1>1, <1>2, <1>3, PaymentRequestCharge, TransactionRequestCharge, OrderRequestCharge,
       OrderProductRequestCharge, CommitCharge DEF Next

\* However many requests run at the same time, an order that is shipped has been
\* charged to its customer, unless EMS ships it.
THEOREM ShippedAreCharged == Spec => []ShippedIsCharged
  <1>1. Init => CInv
    <2> SUFFICES ASSUME Init PROVE CInv
      OBVIOUS
    <2>1. IInv
      BY InitOK
    <2>2. ShippedIsCharged
      BY DEF Init, ShippedIsCharged, ExistingOrders, NoRow
    <2>3. QED
      BY <2>1, <2>2 DEF Init, CInv
  <1>2. CInv => ShippedIsCharged
    BY DEF CInv
  <1>3. QED
    BY <1>1, <1>2, ChargeStep, PTL DEF Spec


-----------------------------------------------------------------------------
\* What a commit adds to the rows of a payment or of an order.

Matches(rows, i, kind, of) == i \in 1..Len(rows) /\ rows[i].kind = kind /\ rows[i].of = of

\* RowsOf in any statements.
RowsIn(statements, kind, of) ==
    {r \in Customers \X (1..MaxRows) : Matches(statements[r[1]], r[2], kind, of)}

\* RowsOf is RowsIn of the statements there are.
LEMMA RowsOfIn ==
    ASSUME NEW kind, NEW of
    PROVE  RowsOf(kind, of) = RowsIn(ledger, kind, of) /\ RowsOf(kind, of)' = RowsIn(ledger', kind, of)
  <1>1. \A r \in Customers \X (1..MaxRows) : r[2] \in 1..MaxRows
    OBVIOUS
  <1>2. ASSUME NEW statements, NEW r \in Customers \X (1..MaxRows)
        PROVE  Matches(statements[r[1]], r[2], kind, of) <=>
                  /\ r[2] <= Len(statements[r[1]])
                  /\ statements[r[1]][r[2]].kind = kind /\ statements[r[1]][r[2]].of = of
    BY <1>1, AccountsAssumption DEF Matches
  <1>3. QED
    BY <1>2 DEF RowsOf, RowsIn

\* The rows of an extended statement are the old ones and the added ones.
LEMMA RowsAdded ==
    ASSUME NEW old \in Seq(TransactionRow), NEW new \in Seq(TransactionRow),
           NEW kind, NEW of, NEW i \in Int
    PROVE  /\ Matches(old \o new, i, kind, of) <=>
                Matches(old, i, kind, of) \/ Matches(new, i - Len(old), kind, of)
           /\ ~ (Matches(old, i, kind, of) /\ Matches(new, i - Len(old), kind, of))
  <1> DEFINE all == old \o new
             k == i - Len(old)
  <1>1. /\ Len(old) \in Nat /\ Len(new) \in Nat
        /\ Len(all) = Len(old) + Len(new)
        /\ \A n \in 1..Len(old) : all[n] = old[n]
        /\ \A n \in 1..Len(new) : all[Len(old) + n] = new[n]
    BY ConcatProperties
  <1>2. k \in Int /\ i = Len(old) + k
    BY <1>1
  <1> HIDE DEF k, all
  <1>3. CASE i \in 1..Len(old)
    BY <1>1, <1>2, <1>3 DEF Matches
  <1>4. CASE k \in 1..Len(new)
    <2>1. i \in 1..Len(all) /\ i \notin 1..Len(old) /\ all[i] = new[k]
      BY <1>1, <1>2, <1>4
    <2>2. QED
      BY <2>1, <1>4 DEF Matches
  <1>5. CASE i \notin 1..Len(old) /\ k \notin 1..Len(new)
    <2>1. i \notin 1..Len(all)
      BY <1>1, <1>2, <1>5
    <2>2. QED
      BY <1>5, <2>1 DEF Matches
  <1>6. QED
    BY <1>3, <1>4, <1>5

\* The statements after a commit.
LEMMA CommitStatements ==
    ASSUME TypeOK, NEW w \in Workers, Commit(w)
    PROVE  /\ ledger \in [Customers -> Seq(TransactionRow)]
           /\ session[w].rows \in [Customers -> Seq(TransactionRow)]
           /\ ledger' \in [Customers -> Seq(TransactionRow)]
           /\ \A c \in Customers : /\ ledger'[c] = ledger[c] \o session[w].rows[c]
                                   /\ Len(ledger[c]) \in Nat /\ Len(session[w].rows[c]) \in Nat
                                   /\ Len(ledger[c]) + Len(session[w].rows[c]) <= MaxRows
  <1>1. /\ ledger \in [Customers -> Seq(TransactionRow)]
        /\ session[w].rows \in [Customers -> Seq(TransactionRow)]
    BY DEF TypeOK, Session, Commit
  <1>2. ledger' = [c \in Customers |-> ledger[c] \o session[w].rows[c]]
    BY DEF Commit
  <1>3. ASSUME NEW c \in Customers
        PROVE  ledger[c] \o session[w].rows[c] \in Seq(TransactionRow)
    BY <1>1, ConcatProperties
  <1>4. QED
    BY <1>1, <1>2, <1>3 DEF Commit

\* ... and the rows of a kind in them.
LEMMA CommitMatches ==
    ASSUME TypeOK, NEW w \in Workers, Commit(w), NEW kind, NEW of,
           NEW c \in Customers, NEW i \in 1..MaxRows
    PROVE  /\ Matches(ledger'[c], i, kind, of) <=>
                \/ Matches(ledger[c], i, kind, of)
                \/ Matches(session[w].rows[c], i - Len(ledger[c]), kind, of)
           /\ ~ (Matches(ledger[c], i, kind, of) /\ Matches(session[w].rows[c], i - Len(ledger[c]), kind, of))
  <1>1. /\ ledger[c] \in Seq(TransactionRow) /\ session[w].rows[c] \in Seq(TransactionRow)
        /\ ledger'[c] = ledger[c] \o session[w].rows[c]
    BY CommitStatements
  <1>2. i \in Int
    BY AccountsAssumption
  <1> DEFINE old == ledger[c]
             new == session[w].rows[c]
  <1>3. /\ Matches(old \o new, i, kind, of) <=>
                Matches(old, i, kind, of) \/ Matches(new, i - Len(old), kind, of)
        /\ ~ (Matches(old, i, kind, of) /\ Matches(new, i - Len(old), kind, of))
    <2>1. old \in Seq(TransactionRow) /\ new \in Seq(TransactionRow)
      BY <1>1
    <2> HIDE DEF old, new
    <2>2. QED
      BY <1>2, <2>1, RowsAdded
  <1>4. QED
    BY <1>1, <1>3

\* A commit without such a row leaves them as they are.
LEMMA RowsStill ==
    ASSUME TypeOK, NEW w \in Workers, Commit(w), NEW kind, NEW of,
           \A c \in Customers : \A i \in 1..Len(session[w].rows[c]) :
               ~ Matches(session[w].rows[c], i, kind, of)
    PROVE  RowsOf(kind, of)' = RowsOf(kind, of)
  <1>1. ASSUME NEW c \in Customers, NEW i \in 1..MaxRows
        PROVE  Matches(ledger'[c], i, kind, of) <=> Matches(ledger[c], i, kind, of)
    <2>1. ~ Matches(session[w].rows[c], i - Len(ledger[c]), kind, of)
      BY DEF Matches
    <2>2. QED
      BY <2>1, CommitMatches
  <1>2. RowsIn(ledger', kind, of) = RowsIn(ledger, kind, of)
    BY <1>1 DEF RowsIn
  <1>3. QED
    BY <1>2, RowsOfIn

\* One row of a kind, and one row more in the statements.
OneRow(rows, kind, of) ==
    \E c \in Customers : \E i \in 1..Len(rows[c]) :
        /\ Matches(rows[c], i, kind, of)
        /\ \A d \in Customers : \A j \in 1..Len(rows[d]) :
               Matches(rows[d], j, kind, of) => d = c /\ j = i
OneMore(kind, of) ==
    \E r : r \notin RowsOf(kind, of) /\ RowsOf(kind, of)' = RowsOf(kind, of) \cup {r}

\* A commit with one such row adds one.
LEMMA RowsOneMore ==
    ASSUME TypeOK, NEW w \in Workers, Commit(w), NEW kind, NEW of,
           OneRow(session[w].rows, kind, of)
    PROVE  OneMore(kind, of)
  <1>a. PICK c \in Customers : \E i \in 1..Len(session[w].rows[c]) :
            /\ Matches(session[w].rows[c], i, kind, of)
            /\ \A d \in Customers : \A j \in 1..Len(session[w].rows[d]) :
                   Matches(session[w].rows[d], j, kind, of) => d = c /\ j = i
    BY DEF OneRow
  <1>b. PICK i \in 1..Len(session[w].rows[c]) :
            /\ Matches(session[w].rows[c], i, kind, of)
            /\ \A d \in Customers : \A j \in 1..Len(session[w].rows[d]) :
                   Matches(session[w].rows[d], j, kind, of) => d = c /\ j = i
    BY <1>a
  <1> DEFINE r == <<c, Len(ledger[c]) + i>>
             rows == session[w].rows
  <1>1. /\ Len(ledger[c]) \in Nat /\ Len(rows[c]) \in Nat /\ i \in Nat /\ MaxRows \in Nat
        /\ Len(ledger[c]) + i \in 1..MaxRows
        /\ (Len(ledger[c]) + i) - Len(ledger[c]) = i
    <2>1. Len(ledger[c]) \in Nat /\ Len(rows[c]) \in Nat /\ Len(ledger[c]) + Len(rows[c]) <= MaxRows
      BY CommitStatements
    <2>2. MaxRows \in Nat
      BY AccountsAssumption
    <2>3. i \in 1..Len(rows[c])
      OBVIOUS
    <2> HIDE DEF rows
    <2>4. \A m, n \in Nat : \A k \in 1..n : m + n <= MaxRows =>
             k \in Nat /\ m + k \in 1..MaxRows /\ (m + k) - m = k
      BY <2>2
    <2>5. QED
      BY <2>1, <2>2, <2>3, <2>4
  <1>2. ASSUME NEW d \in Customers, NEW j \in 1..MaxRows
        PROVE  /\ Matches(ledger'[d], j, kind, of) <=>
                    Matches(ledger[d], j, kind, of) \/ <<d, j>> = r
               /\ ~ (Matches(ledger[d], j, kind, of) /\ <<d, j>> = r)
    <2>1. /\ Matches(ledger'[d], j, kind, of) <=>
                \/ Matches(ledger[d], j, kind, of)
                \/ Matches(rows[d], j - Len(ledger[d]), kind, of)
          /\ ~ (Matches(ledger[d], j, kind, of) /\ Matches(rows[d], j - Len(ledger[d]), kind, of))
      BY CommitMatches
    <2>2. Matches(rows[d], j - Len(ledger[d]), kind, of) => <<d, j>> = r
      <3> SUFFICES ASSUME Matches(rows[d], j - Len(ledger[d]), kind, of) PROVE <<d, j>> = r
        OBVIOUS
      <3>1. j - Len(ledger[d]) \in 1..Len(rows[d])
        BY DEF Matches
      <3>2. d = c /\ j - Len(ledger[c]) = i
        BY <1>b, <3>1
      <3>3. j = Len(ledger[c]) + i
        <4>1. \A m \in Nat : \A k \in Int : \A n : k - m = n => k = m + n
          OBVIOUS
        <4>2. QED
          BY <1>1, <3>2, <4>1
      <3>4. QED
        BY <3>2, <3>3
    <2>3. <<d, j>> = r => Matches(rows[d], j - Len(ledger[d]), kind, of)
      <3> SUFFICES ASSUME <<d, j>> = r PROVE Matches(rows[d], j - Len(ledger[d]), kind, of)
        OBVIOUS
      <3>1. d = c /\ j = Len(ledger[c]) + i
        OBVIOUS
      <3>2. j - Len(ledger[d]) = i
        BY <1>1, <3>1
      <3>3. Matches(rows[c], i, kind, of)
        BY <1>b
      <3> HIDE DEF rows
      <3>4. QED
        BY <3>1, <3>2, <3>3
    <2> HIDE DEF r, rows
    <2>4. QED
      BY <2>1, <2>2, <2>3
  <1>3. r \in Customers \X (1..MaxRows)
    BY <1>1
  <1>4. r \notin RowsIn(ledger, kind, of)
    BY <1>1, <1>2 DEF RowsIn
  <1>5. RowsIn(ledger', kind, of) = RowsIn(ledger, kind, of) \cup {r}
    <2> HIDE DEF r
    <2>1. \A e \in Customers \X (1..MaxRows) : e = <<e[1], e[2]>> /\ e[1] \in Customers /\ e[2] \in 1..MaxRows
      OBVIOUS
    <2>2. \A e \in Customers \X (1..MaxRows) :
             e \in RowsIn(ledger', kind, of) <=> e \in RowsIn(ledger, kind, of) \/ e = r
      BY <1>2, <2>1 DEF RowsIn
    <2>3. QED
      BY <1>3, <2>2 DEF RowsIn
  <1>6. QED
    BY <1>4, <1>5, RowsOfIn DEF OneMore

-----------------------------------------------------------------------------
\* The invariant about payments, approvals and shipments.

Approved(row) == row.status = "approved"
Kinds(s, kinds) == \A c \in Customers : \A i \in 1..Len(s.rows[c]) : s.rows[c][i].kind \in kinds

\* A request that leaves the approvals as they are,
Quiet(s) ==
    /\ \A p \in Payments : Approved(s.work.payment[p]) <=> Approved(s.snap.payment[p])
    /\ Kinds(s, {"order", "manual"})

\* ... one that approves a payment, and one that takes an approval back: each
\* books exactly one row.
Single(s, kind, p) ==
    \E c \in Customers : /\ Len(s.rows[c]) = 1 /\ Matches(s.rows[c], 1, kind, p)
                         /\ \A d \in Customers \ {c} : s.rows[d] = <<>>
Turns(s, p, to) ==
    /\ Approved(s.snap.payment[p]) <=> ~ to
    /\ Approved(s.work.payment[p]) <=> to
    /\ \A q \in Payments \ {p} : Approved(s.work.payment[q]) <=> Approved(s.snap.payment[q])
BooksPayments(s) ==
    \/ Quiet(s)
    \/ \E p \in Payments : \/ Turns(s, p, TRUE) /\ Single(s, "payment", p)
                           \/ Turns(s, p, FALSE) /\ Single(s, "revert", p)

\* The orders of a payment that the request approves do not wait for it.
Released(s) ==
    \A p \in Payments : Approved(s.work.payment[p]) /\ ~ Approved(s.snap.payment[p]) =>
        \A o \in s.work.payment[p].orders : s.work.order[o].status # "pending"

\* The administrators only approve and reject.
Buttons == AdminPaymentStatuses \subseteq {"approved", "rejected"}

PayOK(s) == /\ Released(s)
            /\ s.pc = "shipping" => Quiet(s)
            /\ Buttons => BooksPayments(s)

\* The orders a request has charged, each once,
Paid(s) == {o \in Orders : \E c \in Customers : ChargedIn(s.rows[c], o)}
Once(s) ==
    \A o \in Orders, c, d \in Customers :
        \A i \in 1..Len(s.rows[c]), j \in 1..Len(s.rows[d]) :
            Matches(s.rows[c], i, "order", o) /\ Matches(s.rows[d], j, "order", o) => c = d /\ i = j

\* ... while it changes the links and the products of no order,
Alike(old, new) ==
    /\ old \in NoRow <=> new \in NoRow
    /\ old \notin NoRow => new.attachedTo = old.attachedTo /\ new.unfinished = old.unfinished

\* ... finished, shipped, together with what is attached to them, and before the
\* order they are attached to,
PaidOK(s) ==
    \A o \in Paid(s) :
        /\ s.work.order[o].unfinished = {} /\ s.work.order[o].status = "shipped"
        /\ Attached(s.work, o) \subseteq Paid(s)
        /\ s.pc = "shipping" => s.work.order[o].attachedTo \in Paid(s) \cup OnStack(s)

\* ... by calls that lead from an order to one attached to it.
CallsOK(s) ==
    /\ \A i \in 1..Len(s.stack) :
          /\ s.stack[i].order \notin Paid(s)
          /\ s.work.order[s.stack[i].order].unfinished = {}
          /\ s.stack[i].todo \subseteq Attached(s.work, s.stack[i].order) \ Paid(s)
          /\ \A j \in 1..Len(s.stack) : s.stack[i].order = s.stack[j].order => i = j
          /\ i = Len(s.stack) =>
                Attached(s.work, s.stack[i].order) \subseteq s.stack[i].todo \cup Paid(s)
    /\ \A i, j \in 1..Len(s.stack) : j = i + 1 =>
          /\ s.stack[j].order \notin s.stack[i].todo
          /\ s.work.order[s.stack[j].order].attachedTo = s.stack[i].order
          /\ Attached(s.work, s.stack[i].order)
                \subseteq s.stack[i].todo \cup Paid(s) \cup {s.stack[j].order}
ShipOK(s) ==
    /\ Once(s)
    /\ \/ Paid(s) = {} /\ s.pc = "ready"
       \/ /\ \A x \in Orders : Alike(s.snap.order[x], s.work.order[x])
          /\ PaidOK(s) /\ CallsOK(s)

\* The rows of orders are finitely many; when requests are served one at a time
\* and the administrators only approve and reject, a payment has one row that
\* credits it more than rows that take it back exactly while it is approved.
Counted ==
    /\ \A o \in Orders : IsFiniteSet(RowsOf("order", o))
    /\ Serial /\ Buttons => \A p \in Payments :
          /\ IsFiniteSet(RowsOf("payment", p)) /\ IsFiniteSet(RowsOf("revert", p))
          /\ Booked("payment", p) = Booked("revert", p)
                                      + (IF Approved(db.payment[p]) THEN 1 ELSE 0)

MInv ==
    /\ IInv /\ Counted
    /\ \A w \in Workers : session[w] # Idle => ShipOK(session[w]) /\ PayOK(session[w])

-----------------------------------------------------------------------------
\* Requests of one step.

\* They ship nothing,
Opening(s) == Ready(s) /\ Kinds(s, {"payment", "revert", "manual"}) /\ PayOK(s)

\* ... and those that are not about payments do not even approve anything.
Plain(s) ==
    /\ Ready(s) /\ Kinds(s, {"manual"})
    /\ \A p \in Payments : Approved(s.work.payment[p]) <=> Approved(db.payment[p])

\* A request that is not about payments is one that ships nothing.
LEMMA PlainOpening == ASSUME NEW s, Plain(s) PROVE Opening(s)
  BY DEF Plain, Opening, PayOK, Quiet, BooksPayments, Released, Ready, Fresh, Kinds

\* Such a request fulfils what the invariant asks of a session.
LEMMA OpeningOK ==
    ASSUME NEW s, Opening(s)
    PROVE  Fresh(s) /\ ShipOK(s) /\ PayOK(s)
  <1>1. ASSUME NEW o, NEW c \in Customers, NEW i, Matches(s.rows[c], i, "order", o)
        PROVE  FALSE
    BY <1>1 DEF Opening, Kinds, Matches
  <1>2. Once(s)
    BY <1>1 DEF Once
  <1>3. Paid(s) = {}
    BY <1>1 DEF Paid, ChargedIn, Matches
  <1>4. QED
    BY <1>2, <1>3 DEF Opening, Ready, ShipOK

\* What the operators on sessions leave alone.
LEMMA WriteParts ==
    ASSUME NEW s \in Session
    PROVE  /\ \A table : LET t == WriteOrders(s, table) IN
                /\ t.rows = s.rows /\ t.snap = s.snap /\ t.pc = s.pc /\ t.stack = s.stack
                /\ t.work.payment = s.work.payment /\ t.work.order = table
                /\ t.work.balance = s.work.balance
           /\ \A table : LET t == WritePayments(s, table) IN
                /\ t.rows = s.rows /\ t.snap = s.snap /\ t.pc = s.pc /\ t.stack = s.stack
                /\ t.work.payment = table /\ t.work.order = s.work.order
                /\ t.work.balance = s.work.balance
           /\ \A o, row : WriteOrder(s, o, row) = WriteOrders(s, [s.work.order EXCEPT ![o] = row])
           /\ \A p, row : WritePayment(s, p, row) = WritePayments(s, [s.work.payment EXCEPT ![p] = row])
  <1>1. s.work \in Database /\ s.work = [balance |-> s.work.balance, payment |-> s.work.payment,
                                        order |-> s.work.order]
    BY DEF Session, Database
  <1>2. QED
    BY <1>1 DEF WriteOrders, WritePayments, WriteOrder, WritePayment, Session, Database

\* ... and writing one payment.
LEMMA WritePaymentParts ==
    ASSUME NEW s \in Session, NEW p, NEW row, NEW t, t = WritePayment(s, p, row)
    PROVE  /\ t.rows = s.rows /\ t.snap = s.snap /\ t.pc = s.pc /\ t.stack = s.stack
           /\ t.work.payment = [s.work.payment EXCEPT ![p] = row]
           /\ t.work.order = s.work.order
  <1> DEFINE table == [s.work.payment EXCEPT ![p] = row]
  <1>1. t = WritePayments(s, table)
    BY DEF WritePayment, WritePayments, Session, Database
  <1> HIDE DEF table
  <1>2. QED
    BY <1>1, WriteParts DEF table

\* The row that Transaction books.
RowFor(s, c, amount, kind, of) ==
    [amount |-> amount, balance |-> s.work.balance[c] + amount, kind |-> kind, of |-> of]

\* A transaction books one row and leaves the tables alone.
LEMMA TransactionParts ==
    ASSUME NEW s \in Session, NEW c \in Customers, NEW amount, NEW kind, NEW of,
           NEW t, t = Transaction(s, c, amount, kind, of)
    PROVE  /\ t.snap = s.snap /\ t.pc = s.pc /\ t.stack = s.stack
           /\ t.work.payment = s.work.payment /\ t.work.order = s.work.order
           /\ t.rows = [s.rows EXCEPT ![c] = Append(s.rows[c], RowFor(s, c, amount, kind, of))]
           /\ RowFor(s, c, amount, kind, of).kind = kind
           /\ RowFor(s, c, amount, kind, of).of = of
  <1> DEFINE row == RowFor(s, c, amount, kind, of)
  <1>1. row.kind = kind /\ row.of = of
    BY DEF RowFor
  <1>2. t = [s EXCEPT !.work.balance[c] = s.work.balance[c] + amount,
                    !.rows[c] = Append(s.rows[c], row)]
    BY DEF Transaction, RowFor
  <1> HIDE DEF row
  <1>3. /\ t.rows = [s.rows EXCEPT ![c] = Append(s.rows[c], row)]
        /\ t.snap = s.snap /\ t.pc = s.pc /\ t.stack = s.stack
        /\ t.work.payment = s.work.payment /\ t.work.order = s.work.order
    BY <1>2 DEF Session, Database
  <1>4. QED
    BY <1>1, <1>3 DEF row

\* ... when nothing has been booked before.
LEMMA FirstTransaction ==
    ASSUME TypeOK, NEW c \in Customers, NEW amount, NEW kind, NEW of,
           NEW t, t = Transaction(Begin, c, amount, kind, of)
    PROVE  /\ t.snap = db /\ t.pc = "ready" /\ t.stack = <<>>
           /\ t.work.payment = db.payment /\ t.work.order = db.order
           /\ Len(t.rows[c]) = 1 /\ t.rows[c][1].kind = kind /\ t.rows[c][1].of = of
           /\ \A d \in Customers \ {c} : t.rows[d] = <<>>
  <1> DEFINE row == RowFor(Begin, c, amount, kind, of)
  <1>1. /\ Begin \in Session /\ Begin.rows = [d \in Customers |-> <<>>]
        /\ Begin.work = db /\ Begin.snap = db /\ Begin.pc = "ready" /\ Begin.stack = <<>>
    BY BeginOK DEF SessionOK, Begin
  <1>2. /\ t.snap = Begin.snap /\ t.pc = Begin.pc /\ t.stack = Begin.stack
        /\ t.work.payment = Begin.work.payment /\ t.work.order = Begin.work.order
        /\ t.rows = [Begin.rows EXCEPT ![c] = Append(Begin.rows[c], row)]
        /\ row.kind = kind /\ row.of = of
    <2>1. Begin \in Session
      BY <1>1
    <2>2. t = Transaction(Begin, c, amount, kind, of)
      OBVIOUS
    <2>3. QED
      BY ONLY <2>1, <2>2, TransactionParts, c \in Customers
  <1> HIDE DEF row
  <1>3. t.rows[c] = Append(<<>>, row) /\ \A d \in Customers \ {c} : t.rows[d] = <<>>
    BY <1>1, <1>2
  <1>4. Len(t.rows[c]) = 1 /\ t.rows[c][1] = row
    <2>1. Append(<<>>, row) = <<row>>
      OBVIOUS
    <2>2. Len(<<row>>) = 1 /\ <<row>>[1] = row
      OBVIOUS
    <2>3. QED
      BY <1>3, <2>1, <2>2
  <1>5. QED
    BY <1>1, <1>2, <1>3, <1>4

\* A request that has only read,
LEMMA PlainBegin == ASSUME TypeOK PROVE Plain(Begin)
  <1>1. Begin.rows = [c \in Customers |-> <<>>] /\ Begin.work = db
    BY DEF Begin
  <1>2. Kinds(Begin, {"manual"})
    BY <1>1 DEF Kinds
  <1>3. QED
    BY <1>1, <1>2, BeginReady DEF Plain

\* ... that writes orders,
LEMMA PlainWriteOrders ==
    ASSUME NEW s, Plain(s), NEW table \in OrderTable
    PROVE  Plain(WriteOrders(s, table))
  <1>1. s \in Session /\ Ready(WriteOrders(s, table))
    BY ReadyWriteOrders DEF Plain, Ready, Fresh, SessionOK
  <1>2. QED
    BY <1>1, WriteParts DEF Plain, Kinds

\* ... or one order,
LEMMA PlainWriteOrder ==
    ASSUME NEW s, Plain(s), NEW o \in Orders, NEW row \in OrderRow
    PROVE  Plain(WriteOrder(s, o, row))
  <1>1. s \in Session /\ s.work.order \in OrderTable
    BY DEF Plain, Ready, Fresh, SessionOK, Session, Database, OrderTable
  <1> DEFINE table == [s.work.order EXCEPT ![o] = row]
  <1>2. table \in OrderTable
    BY <1>1 DEF OrderTable
  <1>3. WriteOrder(s, o, row) = WriteOrders(s, table)
    BY DEF WriteOrder, WriteOrders, Plain, Ready, Fresh, SessionOK, Session, Database
  <1> HIDE DEF table
  <1>4. QED
    BY <1>2, <1>3, PlainWriteOrders

\* ... or payments whose approval stays as it is,
LEMMA PlainWritePayments ==
    ASSUME NEW s, Plain(s), NEW table \in [Payments -> PaymentRow \cup {Absent}],
           \A p \in Payments : Approved(table[p]) <=> Approved(s.work.payment[p])
    PROVE  Plain(WritePayments(s, table))
  <1>1. s \in Session /\ Ready(WritePayments(s, table))
    BY ReadyWritePayments DEF Plain, Ready, Fresh, SessionOK
  <1>2. QED
    BY <1>1, WriteParts DEF Plain, Kinds

\* ... or one such payment,
LEMMA PlainWritePayment ==
    ASSUME NEW s, Plain(s), NEW p \in Payments, NEW row \in PaymentRow,
           Approved(row) <=> Approved(s.work.payment[p])
    PROVE  Plain(WritePayment(s, p, row))
  <1> DEFINE table == [s.work.payment EXCEPT ![p] = row]
  <1>1. s \in Session /\ s.work.payment \in [Payments -> PaymentRow \cup {Absent}]
    BY DEF Plain, Ready, Fresh, SessionOK, Session, Database
  <1>2. table \in [Payments -> PaymentRow \cup {Absent}]
        /\ \A q \in Payments : Approved(table[q]) <=> Approved(s.work.payment[q])
    BY <1>1
  <1>3. WritePayment(s, p, row) = WritePayments(s, table)
    BY <1>1, WriteParts
  <1> HIDE DEF table
  <1>4. QED
    BY <1>2, <1>3, PlainWritePayments

\* ... that deletes an order,
LEMMA PlainRemoveOrder ==
    ASSUME NEW s, Plain(s), NEW o \in Orders
    PROVE  Plain(RemoveOrder(s, o))
  <1> DEFINE orders == Remove(s.work.order, o)
             written == WriteOrders(s, orders)
             payments == [p \in Payments |->
                            IF s.work.payment[p] = Absent THEN s.work.payment[p]
                            ELSE [s.work.payment[p] EXCEPT !.orders = @ \ {o}]]
  <1>1. /\ s \in Session /\ s.work.order \in OrderTable
        /\ s.work.payment \in [Payments -> PaymentRow \cup {Absent}]
    BY DEF Plain, Ready, Fresh, SessionOK, Session, Database, OrderTable
  <1>2. orders \in OrderTable
    BY <1>1, AttachType DEF Remove, OrderTable, NoRow
  <1>3. /\ payments \in [Payments -> PaymentRow \cup {Absent}]
        /\ \A p \in Payments : Approved(payments[p]) <=> Approved(s.work.payment[p])
    <2>1. ASSUME NEW p \in Payments, s.work.payment[p] # Absent
          PROVE  /\ [s.work.payment[p] EXCEPT !.orders = @ \ {o}] \in PaymentRow
                 /\ [s.work.payment[p] EXCEPT !.orders = @ \ {o}].status = s.work.payment[p].status
      <3>1. s.work.payment[p] \in PaymentRow
        BY <1>1, <2>1
      <3>2. QED
        BY <3>1 DEF PaymentRow
    <2>2. QED
      BY <1>1, <2>1 DEF Approved
  <1>4. RemoveOrder(s, o) = WritePayments(written, payments)
    BY DEF RemoveOrder
  <1> HIDE DEF orders, payments
  <1>5. Plain(written) /\ written.work.payment = s.work.payment
    BY <1>1, <1>2, PlainWriteOrders, WriteParts
  <1>6. QED
    BY <1>3, <1>4, <1>5, PlainWritePayments

\* ... or creates one.
LEMMA PlainNewOrder ==
    ASSUME NEW s, Plain(s), NEW o \in Orders, NEW user \in Customers, NEW status \in OrderStatus,
           NEW total \in Totals, NEW products \in SUBSET Products, NEW orders
    PROVE  Plain(NewOrder(s, o, user, status, total, products, orders))
  <1> DEFINE row == [status |-> status, user |-> user, total |-> total,
                     unfinished |-> products, attachedTo |-> NoOrder]
             table == [s.work.order EXCEPT ![o] = row]
  <1>1. row \in OrderRow
    BY DEF OrderRow
  <1>2. s.work.order \in OrderTable
    BY DEF Plain, Ready, Fresh, SessionOK, Session, Database, OrderTable
  <1>3. NewOrder(s, o, user, status, total, products, orders) = WriteOrders(s, Attach(table, o, orders))
    BY DEF NewOrder
  <1> HIDE DEF row
  <1>4. table \in OrderTable
    BY <1>1, <1>2 DEF OrderTable
  <1> HIDE DEF table
  <1>5. QED
    BY <1>3, <1>4, AttachType, PlainWriteOrders

\* A transaction by hand.
LEMMA PlainTransaction ==
    ASSUME TypeOK, NEW c \in Customers, NEW amount \in Int
    PROVE  Plain(Transaction(Begin, c, amount, "manual", NoOrder))
  <1> DEFINE t == Transaction(Begin, c, amount, "manual", NoOrder)
  <1>1. Ready(t)
    BY ReadyTransaction
  <1>2. t = Transaction(Begin, c, amount, "manual", NoOrder)
    OBVIOUS
  <1> HIDE DEF t
  <1>3. /\ t.work.payment = db.payment
        /\ Len(t.rows[c]) = 1 /\ t.rows[c][1].kind = "manual"
        /\ \A d \in Customers \ {c} : t.rows[d] = <<>>
    BY <1>2, FirstTransaction
  <1>4. Kinds(t, {"manual"})
    BY <1>3 DEF Kinds
  <1>5. Plain(t)
    BY <1>1, <1>3, <1>4 DEF Plain
  <1>6. QED
    BY <1>5 DEF t

-----------------------------------------------------------------------------
\* Requests preserve the invariant.

\* The step that opens a session.
LEMMA OpenStep ==
    ASSUME MInv, IInv', NEW w \in Workers, NEW s, Request(w, s), ShipOK(s), PayOK(s)
    PROVE  MInv'
  <1>1. db' = db /\ ledger' = ledger /\ session' = [session EXCEPT ![w] = s]
        /\ session \in [Workers -> {Idle} \cup Session]
    BY DEF Request, MInv, IInv, TypeOK
  <1>2. \A kind, of : RowsOf(kind, of)' = RowsOf(kind, of)
    BY <1>1, RowsOfIn
  <1>3. Counted'
    BY <1>1, <1>2 DEF MInv, Counted, Booked
  <1>4. ASSUME NEW v \in Workers, session'[v] # Idle
        PROVE  ShipOK(session'[v]) /\ PayOK(session'[v])
    <2>1. session'[v] = IF v = w THEN s ELSE session[v]
      BY <1>1
    <2>2. QED
      BY <1>4, <2>1 DEF MInv
  <1>5. (\A v \in Workers : session[v] # Idle => ShipOK(session[v]) /\ PayOK(session[v]))'
    BY <1>4
  <1>6. QED
    BY <1>3, <1>5 DEF MInv

\* Payment.set_status approves a payment that is not approved, with one row and
\* with its orders released, or takes an approval back, with one row.
LEMMA SetPaymentStatusOpening ==
    ASSUME TypeOK, NEW p \in Payments, NEW payment \in PaymentRow, NEW status \in PaymentStatus,
           payment.status = db.payment[p].status,
           status = "approved" => payment.status # "approved",
           Buttons => status \in {"approved", "rejected"}
    PROVE  Opening(SetPaymentStatus(Begin, p, payment, status))
  <1> DEFINE row == [payment EXCEPT !.status = status]
             t == SetPaymentStatus(Begin, p, payment, status)
  <1>1. /\ Ready(t) /\ db.payment \in [Payments -> PaymentRow \cup {Absent}]
        /\ db.order \in OrderTable
        /\ Begin \in Session /\ Begin.work = db
        /\ t.pc = "ready" /\ t.snap = db
        /\ payment.user \in Customers /\ payment.orders \in SUBSET Orders
    <2>1. Ready(t)
      BY SetPaymentStatusReady
    <2>2. payment.user \in Customers /\ payment.orders \in SUBSET Orders
      BY DEF PaymentRow
    <2> HIDE DEF t
    <2>3. QED
      BY <2>1, <2>2, BeginReady DEF Ready, Fresh, SessionOK
  <1>2. /\ row \in PaymentRow /\ row.status = status /\ row.orders = payment.orders
    BY DEF PaymentRow
  <1>3. /\ Approved(row) <=> status = "approved"
        /\ Approved(db.payment[p]) <=> payment.status = "approved"
    BY <1>2 DEF Approved
  <1> DEFINE payments == [db.payment EXCEPT ![p] = row]
  <1>4. /\ payments[p] = row
        /\ \A q \in Payments \ {p} : payments[q] = db.payment[q]
    BY <1>1
  <1>5. CASE status = "approved"
    <2> DEFINE credited == Transaction(Begin, payment.user, payment.received, "payment", p)
               table == [o \in Orders |->
                            IF o \in payment.orders /\ credited.work.order[o].status = "pending"
                            THEN [credited.work.order[o] EXCEPT !.status = "can_be_paid"]
                            ELSE credited.work.order[o]]
               released == WriteOrders(credited, table)
    <2>1. t = WritePayment(released, p, row)
      BY <1>5 DEF SetPaymentStatus, AddPayment, UpdateOrders
    <2>2. credited = Transaction(Begin, payment.user, payment.received, "payment", p)
      OBVIOUS
    <2>0. Ready(credited)
      <3>1. payment.received \in Nat
        BY AccountsAssumption DEF PaymentRow
      <3>2. payment.received \in Int
        BY <3>1
      <3>3. QED
        BY <1>1, <3>2, ReadyTransaction
    <2>3. credited \in Session
      BY <2>0 DEF Ready, Fresh, SessionOK
    <2> HIDE DEF credited
    <2>4. /\ credited.work.payment = db.payment /\ credited.work.order = db.order
          /\ Len(credited.rows[payment.user]) = 1
          /\ credited.rows[payment.user][1].kind = "payment"
          /\ credited.rows[payment.user][1].of = p
          /\ \A d \in Customers \ {payment.user} : credited.rows[d] = <<>>
      BY <1>1, <2>2, FirstTransaction
    <2>5. \A o \in Orders : /\ table[o] \in OrderRow \cup NoRow
                            /\ o \in payment.orders => table[o].status # "pending"
      <3> SUFFICES ASSUME NEW o \in Orders
                   PROVE  /\ table[o] \in OrderRow \cup NoRow
                          /\ o \in payment.orders => table[o].status # "pending"
        OBVIOUS
      <3>1. db.order[o] \in OrderRow \cup NoRow
        BY <1>1 DEF OrderTable
      <3>2. CASE o \in payment.orders /\ db.order[o].status = "pending"
        <4>1. db.order[o] \in OrderRow
          BY <3>1, <3>2 DEF NoRow, Absent, Deleted
        <4>2. /\ [db.order[o] EXCEPT !.status = "can_be_paid"].status = "can_be_paid"
              /\ [db.order[o] EXCEPT !.status = "can_be_paid"] \in OrderRow
          BY <4>1 DEF OrderRow, OrderStatus
        <4>3. table[o] = [db.order[o] EXCEPT !.status = "can_be_paid"]
          BY <2>4, <3>1, <3>2
        <4> HIDE DEF table
        <4>4. QED
          BY <4>2, <4>3
      <3>3. CASE ~ (o \in payment.orders /\ db.order[o].status = "pending")
        BY <2>4, <3>1, <3>3
      <3>4. QED
        BY <3>2, <3>3
    <2>a. table \in OrderTable
      BY <2>5 DEF OrderTable
    <2> HIDE DEF table, t, row
    <2>6. /\ released.rows = credited.rows /\ released.work.payment = db.payment
          /\ released.work.order = table
      BY <2>3, <2>4, WriteParts
    <2>7. released \in Session
      BY <2>0, <2>a, ReadyWriteOrders DEF Ready, Fresh, SessionOK
    <2> HIDE DEF released
    <2>8. /\ t.rows = credited.rows /\ t.work.payment = payments /\ t.work.order = table
      <3>1. /\ t.rows = released.rows
            /\ t.work.payment = [released.work.payment EXCEPT ![p] = row]
        BY ONLY <2>1, <2>7, WritePaymentParts
      <3>2. t.work.order = released.work.order
        BY <2>1, <2>7 DEF WritePayment, Session, Database
      <3>3. QED
        BY <2>6, <3>1, <3>2
    <2> HIDE DEF payments
    <2>9. Single(t, "payment", p)
      <3>1. Matches(t.rows[payment.user], 1, "payment", p)
        BY <2>4, <2>8 DEF Matches
      <3>2. QED
        BY <1>1, <2>4, <2>8, <3>1 DEF Single
    <2>10. Turns(t, p, TRUE)
      BY <1>1, <1>3, <1>4, <1>5, <2>8 DEF Turns
    <2>11. Released(t)
      <3> SUFFICES ASSUME NEW q \in Payments, Approved(payments[q]), ~ Approved(db.payment[q]),
                          NEW o \in payments[q].orders
                   PROVE  table[o].status # "pending"
        BY <1>1, <2>8 DEF Released
      <3>1. q = p
        BY <1>4
      <3>2. o \in payment.orders /\ o \in Orders
        BY <1>1, <1>2, <1>4, <3>1
      <3>3. QED
        BY <2>5, <3>2
    <2>12. Kinds(t, {"payment", "revert", "manual"})
      BY <1>1, <2>4, <2>8 DEF Kinds
    <2>13. Opening(t)
      BY <1>1, <2>9, <2>10, <2>11, <2>12 DEF Opening, PayOK, BooksPayments
    <2>14. QED
      BY <2>13 DEF t
  <1>6. CASE status = "rejected" /\ payment.status = "approved"
    <2> DEFINE reverted == Transaction(Begin, payment.user, -payment.received, "revert", p)
    <2>1. t = WritePayment(reverted, p, row)
      BY <1>6 DEF SetPaymentStatus, RevertPayment
    <2>2. reverted = Transaction(Begin, payment.user, -payment.received, "revert", p)
      OBVIOUS
    <2>3. reverted \in Session
      <3>1. payment.received \in Nat
        BY AccountsAssumption DEF PaymentRow
      <3>2. -payment.received \in Int
        BY <3>1
      <3>3. QED
        BY <1>1, <3>2, ReadyTransaction DEF Ready, Fresh, SessionOK
    <2> HIDE DEF reverted, t, row
    <2>4. /\ reverted.work.payment = db.payment
          /\ Len(reverted.rows[payment.user]) = 1
          /\ reverted.rows[payment.user][1].kind = "revert"
          /\ reverted.rows[payment.user][1].of = p
          /\ \A d \in Customers \ {payment.user} : reverted.rows[d] = <<>>
      BY <1>1, <2>2, FirstTransaction
    <2>5. /\ t.rows = reverted.rows /\ t.work.payment = payments
      <3>1. /\ t.rows = reverted.rows
            /\ t.work.payment = [reverted.work.payment EXCEPT ![p] = row]
        BY ONLY <2>1, <2>3, WritePaymentParts
      <3>2. QED
        BY <2>4, <3>1
    <2> HIDE DEF payments
    <2>6. Single(t, "revert", p)
      <3>1. Matches(t.rows[payment.user], 1, "revert", p)
        BY <2>4, <2>5 DEF Matches
      <3>2. QED
        BY <1>1, <2>4, <2>5, <3>1 DEF Single
    <2>7. Turns(t, p, FALSE)
      BY <1>1, <1>3, <1>4, <1>6, <2>5 DEF Turns
    <2>8. Released(t)
      BY <2>7 DEF Released, Turns
    <2>9. Kinds(t, {"payment", "revert", "manual"})
      BY <1>1, <2>4, <2>5 DEF Kinds
    <2>10. Opening(t)
      BY <1>1, <2>6, <2>7, <2>8, <2>9 DEF Opening, PayOK, BooksPayments
    <2>11. QED
      BY <2>10 DEF t
  <1>7. CASE status # "approved" /\ ~ (status = "rejected" /\ payment.status = "approved")
    <2>1. t = WritePayment(Begin, p, row)
      BY <1>7 DEF SetPaymentStatus
    <2>2. /\ t.rows = Begin.rows /\ t.work.payment = payments
      BY <1>1, <2>1, WriteParts
    <2>3. Begin.rows = [c \in Customers |-> <<>>]
      BY DEF Begin
    <2> HIDE DEF t, row, payments
    <2>4. \A kinds : Kinds(t, kinds)
      BY <2>2, <2>3 DEF Kinds
    <2>5. Released(t)
      BY <1>1, <1>3, <1>4, <1>7, <2>2 DEF Released
    <2>6. Buttons => Quiet(t)
      BY <1>1, <1>3, <1>4, <1>7, <2>2, <2>4 DEF Quiet
    <2>7. Opening(t)
      BY <1>1, <2>4, <2>5, <2>6 DEF Opening, PayOK, BooksPayments
    <2>8. QED
      BY <2>7 DEF t
  <1>8. QED
    BY <1>5, <1>6, <1>7

\* So both kinds of requests preserve the invariant.
LEMMA OpeningStep ==
    ASSUME MInv, IInv', NEW w \in Workers, NEW s, Request(w, s), Opening(s)
    PROVE  MInv'
  BY OpeningOK, OpenStep

\* A request that is not about payments preserves it, too.
LEMMA PlainStep ==
    ASSUME MInv, IInv', NEW w \in Workers, NEW s, Request(w, s), Plain(s)
    PROVE  MInv'
  BY PlainOpening, OpeningStep

\* The requests about payments.
LEMMA PaymentRequestMoney ==
    ASSUME MInv, IInv', NEW w \in Workers, PaymentRequest(w)
    PROVE  MInv'
  <1>1. TypeOK /\ Plain(Begin) /\ Begin.work = db
    BY PlainBegin, BeginReady DEF MInv, IInv
  <1>2. PICK p \in Payments :
            \/ \E user \in Customers, sent \in Amounts, orders \in SUBSET ExistingOrders(db) :
                   \/ user_create_payment(w, p, user, sent, orders)
                   \/ \E received \in Amounts :
                          admin_edit_payment(w, p, user, sent, received, orders)
            \/ user_delete_payment(w, p)
            \/ \E status \in AdminPaymentStatuses : admin_set_payment_status(w, p, status)
            \/ handle_checkout_complete(w, p)
            \/ \E net_amount \in Amounts : approve_payment(w, p, net_amount)
    BY DEF PaymentRequest
  <1>3. Exists(p) => db.payment[p] \in PaymentRow
    BY <1>1, BeginReady DEF Exists
  <1>4. ASSUME NEW row \in PaymentRow, Approved(row) <=> Approved(db.payment[p]),
               Request(w, WritePayment(Begin, p, row))
        PROVE  MInv'
    BY <1>1, <1>4, PlainWritePayment, PlainStep
  <1>5. ASSUME NEW user \in Customers, NEW sent \in Amounts, NEW orders \in SUBSET ExistingOrders(db),
               user_create_payment(w, p, user, sent, orders)
        PROVE  MInv'
    <2> DEFINE row == [status |-> "pending", user |-> user, sent |-> sent, received |-> 0,
                       orders |-> orders]
    <2>1. row \in PaymentRow /\ ~ Approved(row)
      BY AccountsAssumption DEF PaymentRow, PaymentStatus, ExistingOrders, Approved
    <2>2. ~ Approved(db.payment[p]) /\ Request(w, WritePayment(Begin, p, row))
      BY <1>5 DEF user_create_payment, Approved, Absent
    <2> HIDE DEF row
    <2>3. QED
      BY <1>4, <2>1, <2>2
  <1>6. ASSUME NEW user \in Customers, NEW sent \in Amounts, NEW orders \in SUBSET ExistingOrders(db),
               NEW received \in Amounts, admin_edit_payment(w, p, user, sent, received, orders)
        PROVE  MInv'
    <2> DEFINE row == [db.payment[p] EXCEPT !.user = user, !.sent = sent, !.received = received,
                                            !.orders = IF orders = {} THEN @ ELSE orders]
    <2>1. row \in PaymentRow /\ row.status = db.payment[p].status
      BY <1>3, <1>6 DEF PaymentRow, ExistingOrders, admin_edit_payment
    <2>2. Request(w, WritePayment(Begin, p, row))
      BY <1>6 DEF admin_edit_payment
    <2> HIDE DEF row
    <2>3. QED
      BY <1>4, <2>1, <2>2 DEF Approved
  <1>7. ASSUME user_delete_payment(w, p)
        PROVE  MInv'
    <2> DEFINE row == [db.payment[p] EXCEPT !.status = "cancelled"]
    <2>1. row \in PaymentRow /\ ~ Approved(row)
      BY <1>3, <1>7 DEF PaymentRow, PaymentStatus, user_delete_payment, Approved
    <2>2. ~ Approved(db.payment[p]) /\ Request(w, WritePayment(Begin, p, row))
      BY <1>7 DEF user_delete_payment, Approved
    <2> HIDE DEF row
    <2>3. QED
      BY <1>4, <2>1, <2>2
  <1>8. ASSUME NEW status \in AdminPaymentStatuses, admin_set_payment_status(w, p, status)
        PROVE  MInv'
    <2>1. /\ status \in PaymentStatus /\ db.payment[p] \in PaymentRow
          /\ status = "approved" => db.payment[p].status # "approved"
          /\ Buttons => status \in {"approved", "rejected"}
          /\ Request(w, SetPaymentStatus(Begin, p, db.payment[p], status))
      BY <1>3, <1>8, AccountsAssumption DEF admin_set_payment_status, CanSetStatus, Buttons
    <2>2. Opening(SetPaymentStatus(Begin, p, db.payment[p], status))
      BY <1>1, <2>1, SetPaymentStatusOpening
    <2>3. QED
      BY <2>1, <2>2, OpeningStep
  <1>9. ASSUME NEW amount \in Amounts, Exists(p), db.payment[p].status # "approved",
               Request(w, SetPaymentStatus(Begin, p,
                            [db.payment[p] EXCEPT !.received = amount], "approved"))
        PROVE  MInv'
    <2> DEFINE payment == [db.payment[p] EXCEPT !.received = amount]
    <2>1. payment \in PaymentRow /\ payment.status = db.payment[p].status
      BY <1>3, <1>9 DEF PaymentRow
    <2>2. Request(w, SetPaymentStatus(Begin, p, payment, "approved"))
      BY <1>9
    <2>3. "approved" \in PaymentStatus
      BY DEF PaymentStatus
    <2> HIDE DEF payment
    <2>4. Opening(SetPaymentStatus(Begin, p, payment, "approved"))
      BY <1>1, <1>9, <2>1, <2>3, SetPaymentStatusOpening
    <2>5. QED
      BY <2>2, <2>4, OpeningStep
  <1>10. ASSUME handle_checkout_complete(w, p)
         PROVE  MInv'
    <2>1. Exists(p) /\ db.payment[p].sent \in Amounts /\ db.payment[p].status # "approved"
      BY <1>3, <1>10 DEF handle_checkout_complete, PaymentRow
    <2>2. QED
      BY <1>9, <1>10, <2>1 DEF handle_checkout_complete
  <1>11. ASSUME NEW net_amount \in Amounts, approve_payment(w, p, net_amount)
         PROVE  MInv'
    BY <1>9, <1>11 DEF approve_payment
  <1>12. QED
    BY <1>2, <1>5, <1>6, <1>7, <1>8, <1>10, <1>11

\* A transaction by hand.
LEMMA TransactionRequestMoney ==
    ASSUME MInv, IInv', NEW w \in Workers, TransactionRequest(w)
    PROVE  MInv'
  <1>1. PICK c \in Customers, amount \in ManualAmounts :
            Request(w, Transaction(Begin, c, amount, "manual", NoOrder))
    BY DEF TransactionRequest, admin_save_transaction
  <1>2. amount \in Int /\ TypeOK
    BY AccountsAssumption DEF MInv, IInv
  <1>3. QED
    BY <1>1, <1>2, PlainTransaction, PlainStep

\* The shipment of an order that has no unfinished product begins.
LEMMA EnterMoney ==
    ASSUME MInv, IInv', NEW w \in Workers, NEW o \in ExistingOrders(db), NEW total \in Totals,
           db.order[o].unfinished = {},
           Request(w, Enter(WriteOrder(Begin, o, [db.order[o] EXCEPT !.total = total]), o))
    PROVE  MInv'
  <1> DEFINE row == [db.order[o] EXCEPT !.total = total]
             s == WriteOrder(Begin, o, row)
             table == [db.order EXCEPT ![o] = row]
             frame == [order |-> o, todo |-> Attached(s.work, o)]
             t == Enter(s, o)
  <1>1. /\ TypeOK /\ Plain(Begin) /\ Begin.work = db /\ Begin.snap = db
        /\ db.order[o] \in OrderRow /\ o \in Orders /\ db.order \in OrderTable
    BY PlainBegin, BeginReady, ExistingRow DEF MInv, IInv, ExistingOrders
  <1>2. /\ row \in OrderRow /\ row.unfinished = db.order[o].unfinished
        /\ row.attachedTo = db.order[o].attachedTo
    BY <1>1 DEF OrderRow
  <1> HIDE DEF row
  <1>3. Plain(s)
    BY <1>1, <1>2, PlainWriteOrder
  <1>4. s \in Session /\ s.snap = db /\ s.stack = <<>>
    BY <1>3 DEF Plain, Ready, Fresh, SessionOK
  <1>5. s.work.order = table
    BY <1>1 DEF Plain, Ready, Fresh, SessionOK, Session, Database, WriteOrder
  <1> HIDE DEF s
  <1>6. /\ t.pc = "shipping" /\ t.snap = db /\ t.work = s.work /\ t.rows = s.rows
        /\ t.stack = Append(<<>>, frame)
    BY <1>4 DEF Enter, Session
  <1>7. /\ Len(t.stack) = 1 /\ t.stack[1] = frame
    <2> HIDE DEF frame, t
    <2>1. Append(<<>>, frame) = <<frame>>
      OBVIOUS
    <2>2. Len(<<frame>>) = 1 /\ <<frame>>[1] = frame
      OBVIOUS
    <2>3. QED
      BY <1>6, <2>1, <2>2
  <1>8. t.stack[1].order = o /\ t.stack[1].todo = Attached(t.work, o)
    BY <1>6, <1>7
  <1> HIDE DEF t
  <1>9. Paid(t) = {} /\ Once(t)
    <2>1. ASSUME NEW x, NEW c \in Customers, NEW i, Matches(t.rows[c], i, "order", x)
          PROVE  FALSE
      BY <1>3, <1>6, <2>1 DEF Plain, Kinds, Matches
    <2>2. QED
      BY <2>1 DEF Paid, Once, ChargedIn, Matches
  <1>10. \A x \in Orders : Alike(t.snap.order[x], t.work.order[x])
    <2> SUFFICES ASSUME NEW x \in Orders PROVE Alike(db.order[x], table[x])
      BY <1>5, <1>6
    <2>1. CASE x = o
      <3>1. table[x] = row
        BY <1>1, <2>1 DEF OrderTable
      <3>2. QED
        BY <1>1, <1>2, <2>1, <3>1, RowTypes DEF Alike
    <2>2. CASE x # o
      BY <1>1, <2>2 DEF Alike, OrderTable
    <2>3. QED
      BY <2>1, <2>2
  <1>11. CallsOK(t)
    <2>1. t.work.order[o].unfinished = {}
      BY <1>1, <1>2, <1>5, <1>6 DEF OrderTable
    <2>2. \A i \in 1..Len(t.stack) : i = 1
      BY <1>7
    <2>3. \A i, j \in 1..Len(t.stack) : j # i + 1
      BY <2>2
    <2>4. QED
      BY <1>7, <1>8, <1>9, <2>1, <2>2, <2>3 DEF CallsOK
  <1>12. ShipOK(t)
    BY <1>9, <1>10, <1>11 DEF ShipOK, PaidOK
  <1>13. Quiet(t)
    BY <1>3, <1>6 DEF Plain, Quiet, Kinds
  <1>14. PayOK(t)
    BY <1>13 DEF PayOK, Quiet, Released, BooksPayments
  <1>15. Request(w, t)
    BY DEF t, s, row
  <1>16. QED
    BY <1>12, <1>14, <1>15, OpenStep

\* admin_save_order.
LEMMA AdminSaveOrderMoney ==
    ASSUME MInv, IInv', NEW w \in Workers, NEW o \in Orders, NEW total \in Totals,
           NEW status \in AdminOrderStatuses \cup {db.order[o].status},
           admin_save_order(w, o, status, total)
    PROVE  MInv'
  <1> DEFINE row == [db.order[o] EXCEPT !.total = total]
             s == WriteOrder(Begin, o, row)
  <1>1. TypeOK /\ o \in ExistingOrders(db) /\ Plain(Begin) /\ Begin.work = db
    BY PlainBegin, BeginReady DEF MInv, IInv, admin_save_order
  <1>2. /\ db.order[o] \in OrderRow /\ status \in OrderStatus /\ row \in OrderRow
    <2>1. db.order[o] \in OrderRow
      BY <1>1, ExistingRow
    <2>2. status \in OrderStatus
      BY <2>1, AccountsAssumption DEF OrderRow
    <2>3. QED
      BY <2>1, <2>2 DEF OrderRow
  <1>3. Plain(s) /\ s.work.order[o] = row
    <2>1. Plain(s)
      BY <1>1, <1>2, PlainWriteOrder
    <2>2. s.work.order[o] = row
      BY <1>1 DEF WriteOrder, Plain, Ready, Fresh, SessionOK, Session, Database
    <2>3. QED
      BY <2>1, <2>2
  <1>4. CASE Request(w, s)
    BY <1>3, <1>4, PlainStep
  <1>5. CASE Request(w, WriteOrder(s, o, [s.work.order[o] EXCEPT !.status = status]))
    <2> HIDE DEF row, s
    <2>1. [s.work.order[o] EXCEPT !.status = status] \in OrderRow
      BY <1>2, <1>3 DEF OrderRow
    <2>2. QED
      BY <1>3, <1>5, <2>1, PlainWriteOrder, PlainStep
  <1>6. CASE db.order[o].unfinished = {} /\ Request(w, Enter(s, o))
    BY <1>1, <1>6, EnterMoney
  <1>7. QED
    BY <1>4, <1>5, <1>6 DEF admin_save_order

\* The requests about orders.
LEMMA OrderRequestMoney ==
    ASSUME MInv, IInv', NEW w \in Workers, OrderRequest(w)
    PROVE  MInv'
  <1>1. TypeOK /\ Plain(Begin) /\ db.order \in OrderTable /\ Begin.work = db
    BY PlainBegin, BeginReady DEF MInv, IInv
  <1>2. PICK o \in Orders, total \in Totals :
            \/ \E products \in SUBSET Products, orders \in SUBSET ExistingOrders(db) :
                   \/ \E user \in Customers, status \in CreatedStatus \cup {"draft"} :
                          \/ user_create_order(w, o, user, status, total, products, orders)
                          \/ \E draft \in ExistingOrders(db) :
                                 user_submit_draft(w, draft, o, user, status, total, products, orders)
                   \/ user_save_order(w, o, total, products, orders)
            \/ user_delete_order(w, o)
            \/ admin_delete_order(w, o)
            \/ \E status \in AdminOrderStatuses \cup {db.order[o].status} :
                   admin_save_order(w, o, status, total)
            \/ admin_print_label(w, o)
            \/ to_dict(w, o, total)
    BY DEF OrderRequest
  <1>3. CreatedStatus \cup {"draft"} \subseteq OrderStatus
    BY DEF CreatedStatus, OrderStatus
  <1>4. ASSUME NEW products \in SUBSET Products, NEW orders \in SUBSET ExistingOrders(db),
               NEW user \in Customers, NEW status \in CreatedStatus \cup {"draft"},
               user_create_order(w, o, user, status, total, products, orders)
        PROVE  MInv'
    <2>1. Plain(NewOrder(Begin, o, user, status, total, products, orders))
      BY <1>1, <1>3, PlainNewOrder
    <2>2. QED
      BY <1>4, <2>1, PlainStep DEF user_create_order
  <1>5. ASSUME NEW products \in SUBSET Products, NEW orders \in SUBSET ExistingOrders(db),
               NEW user \in Customers, NEW status \in CreatedStatus \cup {"draft"},
               NEW draft \in ExistingOrders(db),
               user_submit_draft(w, draft, o, user, status, total, products, orders)
        PROVE  MInv'
    <2> DEFINE s == RemoveOrder(Begin, draft)
    <2>1. Plain(s)
      BY <1>1, PlainRemoveOrder DEF ExistingOrders
    <2>2. Request(w, NewOrder(s, o, user, status, total, products, orders \ {draft}))
      BY <1>5 DEF user_submit_draft
    <2> HIDE DEF s
    <2>3. Plain(NewOrder(s, o, user, status, total, products, orders \ {draft}))
      BY <1>3, <2>1, PlainNewOrder
    <2>4. QED
      BY <2>2, <2>3, PlainStep
  <1>6. ASSUME NEW products \in SUBSET Products, NEW orders \in SUBSET ExistingOrders(db),
               user_save_order(w, o, total, products, orders)
        PROVE  MInv'
    <2> DEFINE table == [db.order EXCEPT ![o].total = total, ![o].unfinished = products]
    <2>1. db.order[o] \in OrderRow
      BY <1>1, <1>6, ExistingRow DEF user_save_order
    <2>2. table = [db.order EXCEPT ![o] = [db.order[o] EXCEPT !.total = total,
                                                               !.unfinished = products]]
      BY <1>1, <2>1 DEF OrderTable, OrderRow
    <2>3. [db.order[o] EXCEPT !.total = total, !.unfinished = products] \in OrderRow
      BY <2>1 DEF OrderRow
    <2>4. table \in OrderTable
      BY <1>1, <2>2, <2>3 DEF OrderTable
    <2>5. Request(w, WriteOrders(Begin, Attach(table, o, orders)))
      BY <1>6 DEF user_save_order
    <2> HIDE DEF table
    <2>6. Plain(WriteOrders(Begin, Attach(table, o, orders)))
      BY <1>1, <2>4, AttachType, PlainWriteOrders
    <2>7. QED
      BY <2>5, <2>6, PlainStep
  <1>7. ASSUME user_delete_order(w, o) \/ admin_delete_order(w, o)
        PROVE  MInv'
    <2>1. Plain(RemoveOrder(Begin, o))
      BY <1>1, PlainRemoveOrder
    <2>2. QED
      BY <1>7, <2>1, PlainStep DEF user_delete_order, admin_delete_order
  <1>8. ASSUME NEW row \in OrderRow, Request(w, WriteOrder(Begin, o, row))
        PROVE  MInv'
    BY <1>1, <1>8, PlainWriteOrder, PlainStep
  <1>9. ASSUME admin_print_label(w, o)
        PROVE  MInv'
    <2>1. [db.order[o] EXCEPT !.status = "shipped"] \in OrderRow
      BY <1>1, <1>9, ExistingRow DEF admin_print_label, OrderRow, OrderStatus
    <2>2. QED
      BY <1>8, <1>9, <2>1 DEF admin_print_label
  <1>10. ASSUME to_dict(w, o, total)
         PROVE  MInv'
    <2>1. [db.order[o] EXCEPT !.total = total] \in OrderRow
      BY <1>1, <1>10, ExistingRow DEF to_dict, OrderRow
    <2>2. QED
      BY <1>8, <1>10, <2>1 DEF to_dict
  <1>11. QED
    BY <1>2, <1>4, <1>5, <1>6, <1>7, <1>9, <1>10, AdminSaveOrderMoney

\* The requests about order products.
LEMMA OrderProductRequestMoney ==
    ASSUME MInv, IInv', NEW w \in Workers, OrderProductRequest(w)
    PROVE  MInv'
  <1>1. TypeOK /\ Plain(Begin)
    BY PlainBegin DEF MInv, IInv
  <1>2. PICK o \in Orders, total \in Totals, product \in Products :
            \/ \E status \in {"pending", "unavailable", "purchased"} :
                   admin_set_order_product_status(w, o, product, status, total)
            \/ \E products \in SUBSET Products : change_order_product(w, o, products, total)
            \/ \E q \in Orders, q_total \in Totals :
                   postpone_order_product(w, o, product, q, total, q_total)
    BY DEF OrderProductRequest
  <1>3. ASSUME NEW row \in OrderRow, Request(w, WriteOrder(Begin, o, row))
        PROVE  MInv'
    BY <1>1, <1>3, PlainWriteOrder, PlainStep
  <1>4. ASSUME NEW status, admin_set_order_product_status(w, o, product, status, total)
        PROVE  MInv'
    <2> DEFINE products == IF status = "pending" THEN db.order[o].unfinished \cup {product}
                           ELSE db.order[o].unfinished \ {product}
               new_total == IF status = "unavailable" THEN total ELSE db.order[o].total
               row == [db.order[o] EXCEPT !.unfinished = products, !.total = new_total]
    <2>1. db.order[o] \in OrderRow
      BY <1>1, <1>4, ExistingRow DEF admin_set_order_product_status
    <2>2. products \in SUBSET Products /\ new_total \in Totals
      BY <2>1 DEF OrderRow
    <2>3. Request(w, WriteOrder(Begin, o, row))
      BY <1>4 DEF admin_set_order_product_status
    <2> HIDE DEF products, new_total
    <2>4. row \in OrderRow
      BY <2>1, <2>2 DEF OrderRow
    <2> HIDE DEF row
    <2>5. QED
      BY <1>3, <2>3, <2>4
  <1>5. ASSUME NEW products \in SUBSET Products, change_order_product(w, o, products, total)
        PROVE  MInv'
    <2>1. [db.order[o] EXCEPT !.total = total, !.unfinished = products] \in OrderRow
      BY <1>1, <1>5, ExistingRow DEF change_order_product, OrderRow
    <2>2. QED
      BY <1>3, <1>5, <2>1 DEF change_order_product
  <1>6. ASSUME NEW q \in Orders, NEW q_total \in Totals,
               postpone_order_product(w, o, product, q, total, q_total)
        PROVE  MInv'
    <2> DEFINE source == [db.order[o] EXCEPT !.unfinished = @ \ {product}, !.total = total]
               fresh == [source EXCEPT !.status = "pending", !.unfinished = {},
                                       !.attachedTo = NoOrder]
               waiting == IF q = o THEN source
                          ELSE IF db.order[q] # Absent THEN db.order[q] ELSE fresh
               target == [waiting EXCEPT !.unfinished = @ \cup {product}, !.total = q_total]
    <2>1. source \in OrderRow
      <3>1. db.order[o] \in OrderRow
        BY <1>1, <1>6, ExistingRow DEF postpone_order_product
      <3>2. QED
        BY <3>1 DEF OrderRow
    <2>2. /\ Request(w, WriteOrder(WriteOrder(Begin, o, source), q, target))
          /\ db.order[q] # Deleted
      BY <1>6 DEF postpone_order_product
    <2> HIDE DEF source
    <2>3. fresh \in OrderRow
      BY <2>1 DEF OrderRow, OrderStatus
    <2> HIDE DEF fresh
    <2>4. waiting \in OrderRow
      BY <1>1, <2>1, <2>2, <2>3 DEF TypeOK, Database, NoRow
    <2> HIDE DEF waiting
    <2>5. target \in OrderRow
      BY <2>4 DEF OrderRow
    <2> HIDE DEF target
    <2>6. Plain(WriteOrder(WriteOrder(Begin, o, source), q, target))
      BY <1>1, <2>1, <2>5, PlainWriteOrder
    <2>7. QED
      BY <2>2, <2>6, PlainStep
  <1>7. QED
    BY <1>2, <1>4, <1>5, <1>6

-----------------------------------------------------------------------------
\* Shipments preserve the invariant.

\* A step of an open session.
LEMMA SessionMoney ==
    ASSUME MInv, IInv', NEW w \in Workers, NEW s, s = Idle \/ (ShipOK(s) /\ PayOK(s)),
           session' = [session EXCEPT ![w] = s], UNCHANGED <<db, ledger>>
    PROVE  MInv'
  <1>1. session \in [Workers -> {Idle} \cup Session]
    BY DEF MInv, IInv, TypeOK
  <1>2. \A kind, of : RowsOf(kind, of)' = RowsOf(kind, of)
    BY RowsOfIn
  <1>3. Counted'
    BY <1>2 DEF MInv, Counted, Booked
  <1>4. ASSUME NEW v \in Workers, session'[v] # Idle
        PROVE  ShipOK(session'[v]) /\ PayOK(session'[v])
    <2>1. session'[v] = IF v = w THEN s ELSE session[v]
      BY <1>1
    <2>2. QED
      BY <1>4, <2>1 DEF MInv
  <1>5. (\A v \in Workers : session[v] # Idle => ShipOK(session[v]) /\ PayOK(session[v]))'
    BY <1>4
  <1>6. QED
    BY <1>3, <1>5 DEF MInv

\* A call for an attached order leads on from the innermost one.
LEMMA EnterCalls ==
    ASSUME NEW s, NEW t, NEW x \in Orders, NEW n \in Nat \ {0}, ShipOK(s),
           s.pc = "shipping", t.pc = "shipping",
           t.work = s.work, t.rows = s.rows, t.snap = s.snap,
           Len(s.stack) = n, Len(t.stack) = n + 1,
           \A i \in 1..n : t.stack[i].order = s.stack[i].order,
           \A i \in 1..n : t.stack[i].todo = IF i = n THEN s.stack[n].todo \ {x}
                                             ELSE s.stack[i].todo,
           t.stack[n + 1].order = x, t.stack[n + 1].todo = Attached(s.work, x),
           x \in s.stack[n].todo, x \notin OnStack(s), s.work.order[x].unfinished = {}
    PROVE  ShipOK(t)
  <1>1. Paid(t) = Paid(s) /\ Once(t)
    BY DEF Paid, ShipOK, Once
  <1>2. PaidOK(s) /\ CallsOK(s) /\ \A y \in Orders : Alike(t.snap.order[y], t.work.order[y])
    BY DEF ShipOK
  <1>3. \A i \in 1..n : x # s.stack[i].order /\ s.stack[i].order \in OnStack(t)
    <2>1. \A i \in 1..n : i \in 1..(n + 1)
      OBVIOUS
    <2>2. QED
      BY <2>1 DEF OnStack
  <1>4. PaidOK(t)
    <2>1. OnStack(s) \subseteq OnStack(t)
      BY <1>3 DEF OnStack
    <2>2. QED
      BY <1>1, <1>2, <2>1 DEF PaidOK
  <1>5. n \in 1..n /\ 1..(n + 1) = (1..n) \cup {n + 1} /\ n + 1 \notin 1..n
    OBVIOUS
  <1>6. x \in Attached(s.work, s.stack[n].order) \ Paid(s)
    BY <1>2, <1>5 DEF CallsOK
  <1>7. Attached(s.work, x) \cap Paid(s) = {}
    <2> SUFFICES ASSUME NEW y \in Attached(s.work, x), y \in Paid(s) PROVE FALSE
      OBVIOUS
    <2>1. s.work.order[y].attachedTo = x
      BY DEF Attached
    <2>2. QED
      BY <1>2, <1>6, <2>1 DEF PaidOK
  <1>8. ASSUME NEW i \in 1..(n + 1)
        PROVE  /\ t.stack[i].order \notin Paid(t)
               /\ t.work.order[t.stack[i].order].unfinished = {}
               /\ t.stack[i].todo \subseteq Attached(t.work, t.stack[i].order) \ Paid(t)
               /\ \A j \in 1..(n + 1) : t.stack[i].order = t.stack[j].order => i = j
               /\ i = n + 1 =>
                     Attached(t.work, t.stack[i].order) \subseteq t.stack[i].todo \cup Paid(t)
    <2>1. CASE i = n + 1
      BY <1>1, <1>3, <1>5, <1>6, <1>7, <2>1
    <2>2. CASE i \in 1..n
      <3>1. /\ s.stack[i].order \notin Paid(s)
            /\ s.work.order[s.stack[i].order].unfinished = {}
            /\ s.stack[i].todo \subseteq Attached(s.work, s.stack[i].order) \ Paid(s)
            /\ \A j \in 1..n : s.stack[i].order = s.stack[j].order => i = j
        BY <1>2, <2>2 DEF CallsOK
      <3>2. \A j \in 1..(n + 1) : t.stack[i].order = t.stack[j].order => i = j
        BY <1>3, <1>5, <2>2, <3>1
      <3>3. t.stack[i].todo \subseteq s.stack[i].todo
        BY <2>2
      <3>4. i # n + 1
        BY <1>5, <2>2
      <3>5. QED
        BY <1>1, <2>2, <3>1, <3>2, <3>3, <3>4
    <2>3. QED
      BY <1>5, <2>1, <2>2
  <1>9. ASSUME NEW i \in 1..(n + 1), NEW j \in 1..(n + 1), j = i + 1
        PROVE  /\ t.stack[j].order \notin t.stack[i].todo
               /\ t.work.order[t.stack[j].order].attachedTo = t.stack[i].order
               /\ Attached(t.work, t.stack[i].order)
                     \subseteq t.stack[i].todo \cup Paid(t) \cup {t.stack[j].order}
    <2>1. CASE i = n
      <3>1. j = n + 1
        BY <1>9, <2>1
      <3>2. Attached(s.work, s.stack[n].order) \subseteq s.stack[n].todo \cup Paid(s)
        BY <1>2, <1>5 DEF CallsOK
      <3>3. s.work.order[x].attachedTo = s.stack[n].order
        BY <1>6 DEF Attached
      <3>4. t.stack[n].order = s.stack[n].order /\ t.stack[n].todo = s.stack[n].todo \ {x}
        BY <1>5
      <3>5. QED
        BY <1>1, <2>1, <3>1, <3>2, <3>3, <3>4
    <2>2. CASE i # n
      <3>1. i \in 1..n /\ j \in 1..n
        BY <1>9, <2>2
      <3>2. /\ s.stack[j].order \notin s.stack[i].todo
            /\ s.work.order[s.stack[j].order].attachedTo = s.stack[i].order
            /\ Attached(s.work, s.stack[i].order)
                  \subseteq s.stack[i].todo \cup Paid(s) \cup {s.stack[j].order}
        BY <1>2, <1>9, <3>1 DEF CallsOK
      <3>3. t.stack[i].todo = s.stack[i].todo
        BY <2>2, <3>1
      <3>4. QED
        BY <1>1, <3>1, <3>2, <3>3
    <2>3. QED
      BY <2>1, <2>2
  <1>10. CallsOK(t)
    <2>1. Len(t.stack) = n + 1
      OBVIOUS
    <2>2. QED
      BY ONLY <1>8, <1>9, <2>1 DEF CallsOK
  <1>11. QED
    BY <1>1, <1>2, <1>4, <1>10 DEF ShipOK

\* Order o, whose call is the innermost of s, is paid: t is s with its row.
Paying(s, t, o, n, c, row, paid) ==
    /\ s.pc = "shipping"
    /\ s.rows \in [Customers -> Seq(TransactionRow)] /\ row \in TransactionRow
    /\ s.work.order \in OrderTable /\ s.work.order[o] \in OrderRow
    /\ t.snap = s.snap
    /\ t.rows = [s.rows EXCEPT ![c] = Append(s.rows[c], row)]
    /\ row.kind = "order" /\ row.of = o
    /\ t.work.order = [s.work.order EXCEPT ![o] = paid]
    /\ paid \in OrderRow /\ paid.status = "shipped"
    /\ paid.attachedTo = s.work.order[o].attachedTo
    /\ paid.unfinished = s.work.order[o].unfinished
    /\ Len(s.stack) = n /\ Len(t.stack) = n - 1
    /\ \A i \in 1..(n - 1) : t.stack[i] = s.stack[i]
    /\ \A i \in 1..n : s.stack[i].order \in Orders
    /\ s.stack[n].order = o /\ s.stack[n].todo = {}
    /\ t.pc = IF n = 1 THEN "ready" ELSE "shipping"

\* It joins the orders that are paid, and its call ends.
LEMMA PayCalls ==
    ASSUME NEW s, NEW t, NEW o \in Orders, NEW n \in Nat \ {0}, NEW c \in Customers, NEW row,
           NEW paid, ShipOK(s), Paying(s, t, o, n, c, row, paid)
    PROVE  ShipOK(t)
  <1> SUFFICES ASSUME
           s.pc = "shipping",
           s.rows \in [Customers -> Seq(TransactionRow)], row \in TransactionRow,
           s.work.order \in OrderTable, s.work.order[o] \in OrderRow,
           t.snap = s.snap,
           t.rows = [s.rows EXCEPT ![c] = Append(s.rows[c], row)],
           row.kind = "order", row.of = o,
           t.work.order = [s.work.order EXCEPT ![o] = paid],
           paid \in OrderRow, paid.status = "shipped",
           paid.attachedTo = s.work.order[o].attachedTo,
           paid.unfinished = s.work.order[o].unfinished,
           Len(s.stack) = n, Len(t.stack) = n - 1,
           \A i \in 1..(n - 1) : t.stack[i] = s.stack[i],
           \A i \in 1..n : s.stack[i].order \in Orders,
           s.stack[n].order = o, s.stack[n].todo = {},
           t.pc = IF n = 1 THEN "ready" ELSE "shipping"
        PROVE ShipOK(t)
    BY DEF Paying
  <1>1. PaidOK(s) /\ CallsOK(s) /\ Once(s) /\ \A y \in Orders : Alike(s.snap.order[y], s.work.order[y])
    BY DEF ShipOK
  <1>a. \A i \in 1..n :
          /\ s.stack[i].order \notin Paid(s)
          /\ s.work.order[s.stack[i].order].unfinished = {}
          /\ s.stack[i].todo \subseteq Attached(s.work, s.stack[i].order) \ Paid(s)
          /\ \A j \in 1..n : s.stack[i].order = s.stack[j].order => i = j
          /\ i = n => Attached(s.work, s.stack[i].order) \subseteq s.stack[i].todo \cup Paid(s)
    BY <1>1 DEF CallsOK
  <1>b. \A i, j \in 1..n : j = i + 1 =>
          /\ s.stack[j].order \notin s.stack[i].todo
          /\ s.work.order[s.stack[j].order].attachedTo = s.stack[i].order
          /\ Attached(s.work, s.stack[i].order)
                \subseteq s.stack[i].todo \cup Paid(s) \cup {s.stack[j].order}
    BY <1>1 DEF CallsOK
  <1>2. n \in 1..n /\ 1..n = (1..(n - 1)) \cup {n} /\ n \notin 1..(n - 1)
    OBVIOUS
  <1>3. ASSUME NEW y \in Orders
        PROVE  /\ t.work.order[y] = IF y = o THEN paid ELSE s.work.order[y]
               /\ t.work.order[y] \in NoRow <=> s.work.order[y] \in NoRow
               /\ t.work.order[y].attachedTo = s.work.order[y].attachedTo
               /\ t.work.order[y].unfinished = s.work.order[y].unfinished
    <2>1. t.work.order[y] = IF y = o THEN paid ELSE s.work.order[y]
      BY DEF OrderTable
    <2>2. paid \notin NoRow /\ s.work.order[o] \notin NoRow
      BY RowTypes
    <2>3. QED
      BY <2>1, <2>2
  <1>4. \A y \in Orders : Attached(t.work, y) = Attached(s.work, y)
    BY <1>3 DEF Attached, ExistingOrders
  <1>5. ASSUME NEW d \in Customers, NEW i
        PROVE  /\ Matches(s.rows[d], i, "order", o) => Matches(t.rows[d], i, "order", o)
               /\ \A y : Matches(t.rows[d], i, "order", y) <=>
                    \/ Matches(s.rows[d], i, "order", y)
                    \/ d = c /\ i = Len(s.rows[c]) + 1 /\ y = o
               /\ i \in 1..Len(t.rows[d]) => i \in 1..Len(s.rows[d]) \/ i = Len(s.rows[c]) + 1
    <2>1. CASE d = c
      <3>1. s.rows[c] \in Seq(TransactionRow) /\ t.rows[d] = Append(s.rows[c], row)
        BY <2>1
      <3>2. /\ Len(s.rows[c]) \in Nat /\ Len(t.rows[d]) = Len(s.rows[c]) + 1
            /\ t.rows[d][Len(s.rows[c]) + 1] = row
            /\ \A k \in 1..Len(s.rows[c]) : t.rows[d][k] = s.rows[c][k]
        <4> DEFINE old == s.rows[c]
        <4>1. old \in Seq(TransactionRow) /\ t.rows[d] = Append(old, row)
          BY <3>1
        <4> HIDE DEF old
        <4>2. /\ Len(old) \in Nat /\ Len(Append(old, row)) = Len(old) + 1
              /\ Append(old, row)[Len(old) + 1] = row
              /\ \A k \in 1..Len(old) : Append(old, row)[k] = old[k]
          BY <4>1, AppendProperties
        <4>3. QED
          BY <4>1, <4>2 DEF old
      <3>3. i \in 1..Len(t.rows[d]) <=> i \in 1..Len(s.rows[c]) \/ i = Len(s.rows[c]) + 1
        BY <3>2
      <3>4. Len(s.rows[c]) + 1 \notin 1..Len(s.rows[c])
        BY <3>2
      <3>5. QED
        BY <2>1, <3>2, <3>3, <3>4 DEF Matches
    <2>2. CASE d # c
      <3>1. t.rows[d] = s.rows[d]
        BY <2>2
      <3>2. QED
        BY <2>2, <3>1 DEF Matches
    <2>3. QED
      BY <2>1, <2>2
  <1>6. \A y \in Orders : y \in Paid(s) <=> \E d \in Customers : \E i \in 1..Len(s.rows[d]) :
                                               Matches(s.rows[d], i, "order", y)
    BY DEF Paid, ChargedIn, Matches
  <1>7. \A y \in Orders : y \in Paid(t) <=> \E d \in Customers : \E i \in 1..Len(t.rows[d]) :
                                               Matches(t.rows[d], i, "order", y)
    BY DEF Paid, ChargedIn, Matches
  <1>8. Paid(t) = Paid(s) \cup {o}
    <2>1. \A y : y \in Paid(s) \/ y \in Paid(t) => y \in Orders
      BY DEF Paid
    <2>2. Matches(t.rows[c], Len(s.rows[c]) + 1, "order", o)
      BY <1>5
    <2>3. \A rows, k, y : Matches(rows, k, "order", y) => k \in 1..Len(rows)
      BY DEF Matches
    <2>4. ASSUME NEW y \in Orders
          PROVE  y \in Paid(t) <=> y \in Paid(s) \/ y = o
      <3>1. ASSUME y \in Paid(t) PROVE y \in Paid(s) \/ y = o
        <4>0. PICK d \in Customers : \E k \in 1..Len(t.rows[d]) : Matches(t.rows[d], k, "order", y)
          BY <1>7, <3>1
        <4>1. PICK i \in 1..Len(t.rows[d]) : Matches(t.rows[d], i, "order", y)
          BY <4>0
        <4>2. Matches(s.rows[d], i, "order", y) \/ y = o
          BY <1>5, <4>1
        <4>3. QED
          BY <1>6, <2>3, <4>2
      <3>2. ASSUME y \in Paid(s) PROVE y \in Paid(t)
        <4>0. PICK d \in Customers : \E k \in 1..Len(s.rows[d]) : Matches(s.rows[d], k, "order", y)
          BY <1>6, <3>2
        <4>1. PICK i \in 1..Len(s.rows[d]) : Matches(s.rows[d], i, "order", y)
          BY <4>0
        <4>2. Matches(t.rows[d], i, "order", y)
          BY <1>5, <4>1
        <4>3. QED
          BY <1>7, <2>3, <4>2
      <3>3. o \in Paid(t)
        BY <1>7, <2>2, <2>3
      <3>4. QED
        BY <3>1, <3>2, <3>3
    <2>5. QED
      BY <2>1, <2>4
  <1>9. o \notin Paid(s) /\ Attached(s.work, o) \subseteq Paid(s) /\ s.work.order[o].unfinished = {}
    <2>1. /\ s.stack[n].order \notin Paid(s)
          /\ s.work.order[s.stack[n].order].unfinished = {}
          /\ Attached(s.work, s.stack[n].order) \subseteq s.stack[n].todo \cup Paid(s)
      BY <1>a, <1>2
    <2>2. QED
      BY <2>1
  <1>10. Once(t)
    <2> SUFFICES ASSUME NEW y \in Orders, NEW d \in Customers, NEW e \in Customers,
                        NEW i \in 1..Len(t.rows[d]), NEW j \in 1..Len(t.rows[e]),
                        Matches(t.rows[d], i, "order", y), Matches(t.rows[e], j, "order", y)
                 PROVE  d = e /\ i = j
      BY DEF Once
    <2>1. \A f \in Customers : \A k : Matches(s.rows[f], k, "order", y) => y \in Paid(s)
      BY <1>6 DEF Matches
    <2>2. CASE Matches(s.rows[d], i, "order", y) /\ Matches(s.rows[e], j, "order", y)
      BY <1>1, <2>2 DEF Once, Matches
    <2>3. CASE ~ (Matches(s.rows[d], i, "order", y) /\ Matches(s.rows[e], j, "order", y))
      <3>1. y = o
        BY <1>5, <2>3
      <3>2. ~ Matches(s.rows[d], i, "order", y) /\ ~ Matches(s.rows[e], j, "order", y)
        BY <1>9, <2>1, <3>1
      <3>3. d = c /\ i = Len(s.rows[c]) + 1
        BY <1>5, <3>2
      <3>4. e = c /\ j = Len(s.rows[c]) + 1
        BY <1>5, <3>2
      <3>5. QED
        BY <3>3, <3>4
    <2>4. QED
      BY <2>2, <2>3
  <1>11. \A y \in Orders : Alike(t.snap.order[y], t.work.order[y])
    BY <1>1, <1>3 DEF Alike
  <1>12. OnStack(s) \subseteq OnStack(t) \cup {o}
    <2>0. OnStack(s) = {s.stack[i].order : i \in 1..n}
      BY ONLY Len(s.stack) = n DEF OnStack
    <2> SUFFICES ASSUME NEW i \in 1..n, s.stack[i].order # o PROVE s.stack[i].order \in OnStack(t)
      BY <2>0
    <2>1. i \in 1..(n - 1)
      BY <1>2
    <2>2. t.stack[i] = s.stack[i] /\ Len(t.stack) = n - 1
      BY <2>1
    <2>3. QED
      BY ONLY <2>1, <2>2 DEF OnStack
  <1>13. ASSUME t.pc = "shipping"
         PROVE  /\ n - 1 \in 1..(n - 1) /\ n - 1 \in 1..n /\ n = (n - 1) + 1
                /\ s.work.order[o].attachedTo = s.stack[n - 1].order
                /\ s.stack[n - 1].order \in OnStack(t)
    <2>1. n # 1
      BY <1>13
    <2>2. n - 1 \in 1..(n - 1) /\ n - 1 \in 1..n /\ n = (n - 1) + 1
      BY <2>1
    <2>3. s.work.order[s.stack[n].order].attachedTo = s.stack[n - 1].order
      BY <1>b, <1>2, <2>2
    <2>4. QED
      BY <2>2, <2>3 DEF OnStack
  <1>14. PaidOK(t)
    <2> SUFFICES ASSUME NEW y \in Paid(t)
                 PROVE  /\ t.work.order[y].unfinished = {} /\ t.work.order[y].status = "shipped"
                        /\ Attached(t.work, y) \subseteq Paid(t)
                        /\ t.pc = "shipping" =>
                              t.work.order[y].attachedTo \in Paid(t) \cup OnStack(t)
      BY DEF PaidOK
    <2>1. y \in Orders
      BY DEF Paid
    <2>2. CASE y = o
      BY <1>3, <1>4, <1>8, <1>9, <1>13, <2>1, <2>2
    <2>3. CASE y # o
      <3>1. /\ y \in Paid(s) /\ s.work.order[y].unfinished = {}
            /\ s.work.order[y].status = "shipped" /\ Attached(s.work, y) \subseteq Paid(s)
            /\ s.work.order[y].attachedTo \in Paid(s) \cup OnStack(s)
        BY <1>1, <1>8, <2>3 DEF PaidOK
      <3>2. QED
        BY <1>3, <1>4, <1>8, <1>12, <2>1, <2>3, <3>1
    <2>4. QED
      BY <2>2, <2>3
  <1>15. ASSUME NEW i \in 1..(n - 1)
         PROVE  /\ i \in 1..n /\ i # n
                /\ s.stack[i].order # o /\ o \notin s.stack[i].todo
                /\ s.stack[i].order \in Orders
    <2>1. i \in 1..n /\ i # n
      BY <1>2
    <2>2. s.stack[i].order # s.stack[n].order
      BY <1>a, <1>2, <2>1
    <2>3. o \notin s.stack[i].todo
      <3> SUFFICES ASSUME o \in s.stack[i].todo PROVE FALSE
        OBVIOUS
      <3>1. s.work.order[o].attachedTo = s.stack[i].order
        BY <1>a, <2>1 DEF Attached
      <3>2. n # 1
        OBVIOUS
      <3>3. /\ n - 1 \in 1..n /\ n = (n - 1) + 1
        BY <3>2
      <3>4. /\ s.work.order[s.stack[n].order].attachedTo = s.stack[n - 1].order
            /\ s.stack[n].order \notin s.stack[n - 1].todo
        BY <1>b, <1>2, <3>3
      <3>5. i = n - 1
        BY <1>a, <2>1, <3>1, <3>3, <3>4
      <3>6. QED
        BY <3>4, <3>5
    <2>4. s.stack[i].order \in Orders
      BY <2>1
    <2>5. QED
      BY <2>1, <2>2, <2>3, <2>4
  <1>16. CallsOK(t)
    <2>1. ASSUME NEW i \in 1..(n - 1)
          PROVE  /\ t.stack[i].order \notin Paid(t)
                 /\ t.work.order[t.stack[i].order].unfinished = {}
                 /\ t.stack[i].todo \subseteq Attached(t.work, t.stack[i].order) \ Paid(t)
                 /\ \A j \in 1..(n - 1) : t.stack[i].order = t.stack[j].order => i = j
      <3>1. /\ s.stack[i].order \notin Paid(s)
            /\ s.work.order[s.stack[i].order].unfinished = {}
            /\ s.stack[i].todo \subseteq Attached(s.work, s.stack[i].order) \ Paid(s)
            /\ \A j \in 1..n : s.stack[i].order = s.stack[j].order => i = j
        BY <1>a, <1>15
      <3>2. QED
        <4>1. t.stack[i] = s.stack[i] /\ s.stack[i].order \in Orders /\ i \in 1..n
          BY <1>15
        <4>2. \A j \in 1..(n - 1) : t.stack[j] = s.stack[j] /\ j \in 1..n
          BY <1>15
        <4>3. \A j \in 1..(n - 1) : t.stack[i].order = t.stack[j].order => i = j
          BY <3>1, <4>1, <4>2
        <4>4. QED
          BY <1>3, <1>4, <1>8, <1>15, <3>1, <4>1, <4>3
    <2>2. ASSUME NEW i \in 1..(n - 1), NEW j \in 1..n, j = i + 1
          PROVE  /\ s.stack[j].order \notin s.stack[i].todo
                 /\ s.work.order[s.stack[j].order].attachedTo = s.stack[i].order
                 /\ Attached(s.work, s.stack[i].order)
                       \subseteq s.stack[i].todo \cup Paid(s) \cup {s.stack[j].order}
      BY <1>b, <1>15, <2>2
    <2>3. ASSUME NEW i \in 1..(n - 1), i = n - 1
          PROVE  Attached(t.work, t.stack[i].order) \subseteq t.stack[i].todo \cup Paid(t)
      <3>1. n = i + 1
        BY <2>3
      <3>2. QED
        <4>1. t.stack[i] = s.stack[i] /\ s.stack[i].order \in Orders /\ n \in 1..n
          BY <1>15
        <4>2. Attached(s.work, s.stack[i].order) \subseteq s.stack[i].todo \cup Paid(s) \cup {o}
          BY <2>2, <3>1, <4>1
        <4>3. QED
          BY <1>4, <1>8, <4>1, <4>2
    <2>4. ASSUME NEW i \in 1..(n - 1), NEW j \in 1..(n - 1), j = i + 1
          PROVE  /\ t.stack[j].order \notin t.stack[i].todo
                 /\ t.work.order[t.stack[j].order].attachedTo = t.stack[i].order
                 /\ Attached(t.work, t.stack[i].order)
                       \subseteq t.stack[i].todo \cup Paid(t) \cup {t.stack[j].order}
      <3>1. /\ t.stack[i] = s.stack[i] /\ t.stack[j] = s.stack[j]
            /\ s.stack[i].order \in Orders /\ s.stack[j].order \in Orders /\ j \in 1..n
        BY <1>15
      <3>2. QED
        BY <1>3, <1>4, <1>8, <2>2, <2>4, <3>1
    <2>5. Len(t.stack) = n - 1
      OBVIOUS
    <2>6. QED
      BY ONLY <2>1, <2>3, <2>4, <2>5 DEF CallsOK
  <1>17. QED
    BY <1>10, <1>11, <1>14, <1>16 DEF ShipOK

\* A shipment goes on to the next attached order.
LEMMA ShipAttachedMoney ==
    ASSUME MInv, IInv', NEW w \in Workers, NEW x \in Orders, ship_attached(w, x)
    PROVE  MInv'
  <1> DEFINE s == session[w]
             n == Len(s.stack)
             top == [s.stack[n] EXCEPT !.todo = @ \ {x}]
             stack == [s.stack EXCEPT ![n] = top]
             t == [s EXCEPT !.stack = stack]
             frame == [order |-> x, todo |-> Attached(s.work, x)]
             e == Enter(t, x)
  <1>1. /\ SessionOK(s) /\ ShipOK(s) /\ PayOK(s) /\ s # Idle
        /\ s.pc = "shipping" /\ x \in Top(s).todo /\ x \notin OnStack(s)
        /\ s.work.order[x].unfinished = {}
    BY DEF MInv, IInv, OpenSessionsOK, ship_attached
  <1>2. /\ s.stack \in Seq(Frame) /\ n \in Nat \ {0} /\ s.stack[n] \in Frame /\ n \in 1..n
        /\ s.stack[n].todo \subseteq Shippable(s) /\ x \in s.stack[n].todo
    <2>1. /\ s.stack \in Seq(Frame) /\ n \in Nat \ {0} /\ Top(s) = s.stack[n] /\ Top(s) \in Frame
          /\ Top(s).todo \subseteq Shippable(s)
      BY <1>1, TopOK
    <2>2. QED
      BY <1>1, <2>1
  <1>3. top \in Frame /\ top.order = s.stack[n].order /\ top.todo = s.stack[n].todo \ {x}
    BY <1>2 DEF Frame
  <1>4. session' = [session EXCEPT ![w] = e] /\ UNCHANGED <<db, ledger>>
    <2>1. [s EXCEPT !.stack[n].todo = @ \ {x}] = t
      BY <1>1 DEF SessionOK, Session
    <2>2. QED
      BY <2>1 DEF ship_attached
  <1> HIDE DEF top
  <1>5. /\ stack \in Seq(Frame) /\ Len(stack) = n
        /\ \A i \in 1..n : stack[i] = IF i = n THEN top ELSE s.stack[i]
    <2>1. stack \in Seq(Frame) /\ Len(stack) = n
      BY <1>2, <1>3, ExceptSeq
    <2>2. QED
      BY <1>2, <2>1
  <1> HIDE DEF stack
  <1>6. /\ t.snap = s.snap /\ t.work = s.work /\ t.rows = s.rows /\ t.stack = stack
        /\ e.pc = "shipping" /\ e.snap = s.snap /\ e.work = s.work /\ e.rows = s.rows
        /\ e.stack = Append(stack, frame)
    BY <1>1 DEF SessionOK, Session, Enter
  <1>7. frame.order = x /\ frame.todo = Attached(s.work, x)
    OBVIOUS
  <1>8. frame \in Frame
    <2>1. Attached(s.work, x) \subseteq Orders
      BY DEF Attached, ExistingOrders
    <2>2. QED
      BY <2>1 DEF Frame
  <1> HIDE DEF t, e, frame
  <1>9. /\ Len(e.stack) = n + 1 /\ e.stack[n + 1] = frame
        /\ \A i \in 1..n : e.stack[i] = stack[i]
    <2>1. /\ Len(Append(stack, frame)) = Len(stack) + 1
          /\ Append(stack, frame)[Len(stack) + 1] = frame
          /\ \A i \in 1..Len(stack) : Append(stack, frame)[i] = stack[i]
      BY <1>5, <1>8, AppendProperties
    <2>2. QED
      BY <1>5, <1>6, <2>1
  <1>10. \A i \in 1..n : /\ e.stack[i].order = s.stack[i].order
                         /\ e.stack[i].todo = IF i = n THEN s.stack[n].todo \ {x}
                                              ELSE s.stack[i].todo
    BY <1>3, <1>5, <1>9
  <1> DEFINE m == n
  <1>11. m = Len(s.stack) /\ m \in Nat \ {0}
    BY <1>2
  <1> HIDE DEF m, s
  <1>12. ShipOK(e)
    BY <1>1, <1>2, <1>6, <1>7, <1>9, <1>10, <1>11, EnterCalls DEF m
  <1>13. PayOK(e)
    BY <1>1, <1>6 DEF PayOK, Released, Quiet, BooksPayments, Kinds, Turns, Single
  <1>14. QED
    BY <1>4, <1>12, <1>13, SessionMoney

\* The innermost order of a shipment is charged.
LEMMA PayMoney ==
    ASSUME MInv, IInv', NEW w \in Workers, NEW total \in Totals, pay(w, total)
    PROVE  MInv'
  <1> DEFINE s == session[w]
             n == Len(s.stack)
             o == Top(s).order
             order == s.work.order[o]
             c == order.user
             row == [amount |-> -total, balance |-> s.work.balance[c] + (-total),
                     kind |-> "order", of |-> o]
             paid == [order EXCEPT !.status = "shipped", !.total = total]
             charged == Transaction(s, order.user, -total, "order", o)
             shipped == WriteOrder(charged, o, paid)
             stack == SubSeq(s.stack, 1, Len(s.stack) - 1)
             pc == IF Len(s.stack) = 1 THEN "ready" ELSE "shipping"
             t == [shipped EXCEPT !.stack = SubSeq(@, 1, Len(@) - 1), !.pc = pc]
  <1>1. /\ SessionOK(s) /\ s \in Session /\ s.pc = "shipping" /\ s # Idle
        /\ ShipOK(s) /\ PayOK(s) /\ Top(s).todo = {}
    BY DEF MInv, IInv, OpenSessionsOK, SessionOK, pay
  <1>2. /\ o \in Orders /\ order \in OrderRow
        /\ s.stack \in Seq(Frame) /\ n \in Nat \ {0} /\ Top(s) = s.stack[n]
        /\ \A i \in 1..n : s.stack[i].order \in Orders
    <2>1. /\ s.stack \in Seq(Frame) /\ n \in Nat \ {0} /\ Top(s) = s.stack[n]
          /\ Top(s).order \in Shippable(s)
      BY <1>1, TopOK
    <2>2. \A i \in 1..n : s.stack[i].order \in Orders
      BY <1>1 DEF SessionOK, StackOK, Shippable
    <2>3. QED
      BY <2>1, <2>2 DEF Shippable
  <1>3. /\ c \in Customers /\ paid \in OrderRow /\ row.kind = "order" /\ row.of = o
        /\ paid.status = "shipped" /\ paid.attachedTo = order.attachedTo
        /\ paid.unfinished = order.unfinished
    BY <1>2 DEF OrderRow, OrderStatus
  <1>4. /\ row \in TransactionRow
        /\ s.work \in Database /\ s.rows \in [Customers -> Seq(TransactionRow)]
        /\ s.work.order \in OrderTable
    <2>1. /\ s.work \in Database /\ s.rows \in [Customers -> Seq(TransactionRow)]
          /\ s.work.order \in OrderTable
      BY <1>1 DEF Session, Database, OrderTable
    <2>2. s.work.balance[c] \in Int /\ -total \in Int
      <3>1. total \in Nat
        BY AccountsAssumption
      <3>2. s.work.balance[c] \in Int
        BY <1>3, <2>1 DEF Database
      <3>3. QED
        BY <3>1, <3>2
    <2>3. row \in TransactionRow
      <3>1. o \in Orders
        BY <1>2
      <3>2. QED
        BY ONLY <2>2, <3>1 DEF TransactionRow
    <2>4. QED
      BY <2>1, <2>3
  <1>5. session' = [session EXCEPT ![w] = t] /\ UNCHANGED <<db, ledger>>
    BY DEF pay
  <1>6. order = s.work.order[o] /\ o = s.stack[n].order /\ s.stack[n].todo = {} /\ n = Len(s.stack)
    BY <1>1, <1>2
  <1> HIDE DEF o, c, row, paid, order
  <1>7. /\ t.snap = s.snap
        /\ t.work.order = [s.work.order EXCEPT ![o] = paid]
        /\ t.work.payment = s.work.payment
        /\ t.rows = [s.rows EXCEPT ![c] = Append(s.rows[c], row)]
        /\ t.stack = stack
        /\ t.pc = IF n = 1 THEN "ready" ELSE "shipping"
    BY <1>1, <1>4 DEF Transaction, WriteOrder, Session, Database, row, c
  <1>8. /\ Len(t.stack) = n - 1
        /\ \A i \in 1..(n - 1) : t.stack[i] = s.stack[i]
    <2>1. /\ Len(stack) = Len(s.stack) - 1
          /\ \A i \in 1..(Len(s.stack) - 1) : stack[i] = s.stack[i]
      BY <1>2, SubSeqProperties
    <2> HIDE DEF stack, t
    <2>2. QED
      BY <1>7, <2>1
  <1> HIDE DEF t, n, s
  <1>9. ShipOK(t)
    <2>1. /\ o \in Orders /\ c \in Customers /\ n \in Nat \ {0}
          /\ ShipOK(s) /\ s.pc = "shipping" /\ s.work.order[o] \in OrderRow
          /\ paid.attachedTo = s.work.order[o].attachedTo
          /\ paid.unfinished = s.work.order[o].unfinished
          /\ Len(s.stack) = n /\ s.stack[n].order = o /\ s.stack[n].todo = {}
      BY <1>1, <1>2, <1>3, <1>6
    <2>2. /\ row.kind = "order" /\ row.of = o /\ row \in TransactionRow
          /\ paid \in OrderRow /\ paid.status = "shipped"
          /\ s.rows \in [Customers -> Seq(TransactionRow)] /\ s.work.order \in OrderTable
      BY <1>3, <1>4
    <2>3. \A i \in 1..n : s.stack[i].order \in Orders
      BY <1>2
    <2> HIDE DEF stack
    <2>4. Paying(s, t, o, n, c, row, paid)
      BY ONLY <1>7, <1>8, <2>1, <2>2, <2>3 DEF Paying
    <2>5. QED
      BY ONLY <2>1, <2>4, PayCalls
  <1>10. Quiet(t) /\ Quiet(s)
    <2>1. Quiet(s)
      BY <1>1 DEF PayOK
    <2>2. ASSUME NEW d \in Customers, NEW i \in 1..Len(t.rows[d])
          PROVE  t.rows[d][i].kind \in {"order", "manual"}
      <3>1. CASE d = c
        <4> DEFINE old == s.rows[c]
        <4>1. old \in Seq(TransactionRow) /\ t.rows[d] = Append(old, row)
          BY <1>3, <1>4, <1>7, <3>1
        <4>2. \A j \in 1..Len(old) : old[j].kind \in {"order", "manual"}
          BY <1>3, <2>1 DEF Quiet, Kinds
        <4> HIDE DEF old
        <4>3. /\ Len(old) \in Nat /\ Len(Append(old, row)) = Len(old) + 1
              /\ Append(old, row)[Len(old) + 1] = row
              /\ \A k \in 1..Len(old) : Append(old, row)[k] = old[k]
          BY <1>4, <4>1, AppendProperties
        <4>4. i \in 1..Len(old) \/ i = Len(old) + 1
          BY <4>1, <4>3
        <4>5. QED
          BY <1>3, <4>1, <4>2, <4>3, <4>4
      <3>2. CASE d # c
        <4>1. t.rows[d] = s.rows[d]
          BY <1>4, <1>7, <3>2
        <4>2. QED
          BY <2>1, <4>1 DEF Quiet, Kinds
      <3>3. QED
        BY <3>1, <3>2
    <2>3. QED
      BY <1>7, <2>1, <2>2 DEF Quiet, Kinds
  <1>11. PayOK(t)
    BY <1>10 DEF PayOK, Released, Quiet, BooksPayments
  <1>12. QED
    BY <1>5, <1>9, <1>11, SessionMoney

-----------------------------------------------------------------------------
\* Commits.

\* One row more is one more to count.
LEMMA CountOneMore ==
    ASSUME NEW kind, NEW of, IsFiniteSet(RowsOf(kind, of)), OneMore(kind, of)
    PROVE  /\ IsFiniteSet(RowsOf(kind, of)') /\ Booked(kind, of) \in Nat
           /\ Booked(kind, of)' = Booked(kind, of) + 1
  <1> DEFINE S == RowsOf(kind, of)
             T == RowsOf(kind, of)'
  <1>1. PICK r : r \notin S /\ T = S \cup {r}
    BY DEF OneMore
  <1>2. IsFiniteSet(S) /\ Booked(kind, of) = Cardinality(S) /\ Booked(kind, of)' = Cardinality(T)
    BY DEF Booked
  <1> HIDE DEF S, T
  <1>3. IsFiniteSet(T) /\ Cardinality(T) = Cardinality(S) + 1 /\ Cardinality(S) \in Nat
    BY <1>1, <1>2, FS_AddElement, FS_CardinalityType
  <1>4. QED
    BY <1>2, <1>3 DEF S, T

\* A commit adds the row of every order that the request has charged.
LEMMA OrderRows ==
    ASSUME MInv, NEW w \in Workers, Commit(w), NEW o \in Orders
    PROVE  IF o \in Paid(session[w]) THEN OneMore("order", o)
           ELSE RowsOf("order", o)' = RowsOf("order", o)
  <1> DEFINE rows == session[w].rows
  <1>1. TypeOK /\ Once(session[w])
    BY DEF MInv, IInv, ShipOK, Commit
  <1>2. o \in Paid(session[w]) <=>
            \E c \in Customers : \E i \in 1..Len(rows[c]) : Matches(rows[c], i, "order", o)
    BY DEF Paid, ChargedIn, Matches
  <1>3. CASE o \in Paid(session[w])
    <2>1. PICK c \in Customers : \E i \in 1..Len(rows[c]) : Matches(rows[c], i, "order", o)
      BY <1>2, <1>3
    <2>2. PICK i \in 1..Len(rows[c]) : Matches(rows[c], i, "order", o)
      BY <2>1
    <2>3. \A d \in Customers : \A j \in 1..Len(rows[d]) :
              Matches(rows[d], j, "order", o) => d = c /\ j = i
      BY <1>1, <2>2 DEF Once
    <2>4. OneMore("order", o)
      <3>1. OneRow(rows, "order", o)
        BY <2>2, <2>3 DEF OneRow
      <3>2. QED
        BY <1>1, <3>1, RowsOneMore
    <2>5. QED
      BY <1>3, <2>4
  <1>4. CASE o \notin Paid(session[w])
    <2>1. RowsOf("order", o)' = RowsOf("order", o)
      BY <1>1, <1>2, <1>4, RowsStill
    <2>2. QED
      BY <1>4, <2>1
  <1>5. QED
    BY <1>3, <1>4

\* Alone, a request writes the status it has computed.
LEMMA SerialStatus ==
    ASSUME MInv, Serial, NEW w \in Workers, Commit(w), NEW p \in Payments
    PROVE  /\ Approved(session[w].snap.payment[p]) <=> Approved(db.payment[p])
           /\ Approved(session[w].work.payment[p]) <=> Approved(db'.payment[p])
  <1> DEFINE s == session[w]
             old == db.payment[p]
             new == s.work.payment[p]
  <1>1. s.snap = db
    BY DEF MInv, IInv, SerialOK, Commit
  <1>2. db'.payment[p] = MergePayment(old, new, old)
    BY <1>1 DEF Commit, Merge
  <1> HIDE DEF s, old, new
  <1>3. MergePayment(old, new, old).status = new.status
    <2>1. CASE new = old
      BY <2>1 DEF MergePayment
    <2>2. CASE new # old /\ Absent \in {old, new}
      BY <2>2 DEF MergePayment
    <2>3. CASE new # old /\ Absent \notin {old, new}
      <3>1. MergePayment(old, new, old).status = Column(old.status, new.status, old.status)
        BY <2>3 DEF MergePayment
      <3>2. QED
        BY <3>1 DEF Column
    <2>4. QED
      BY <2>1, <2>2, <2>3
  <1>4. QED
    BY <1>1, <1>2, <1>3 DEF Approved, s, old, new

\* Alone, a request books what it changes of a payment's approval.
LEMMA PaymentRows ==
    ASSUME MInv, Serial, Buttons, NEW w \in Workers, Commit(w), NEW p \in Payments
    PROVE  \/ /\ Approved(db.payment[p]) <=> Approved(db'.payment[p])
              /\ RowsOf("payment", p)' = RowsOf("payment", p)
              /\ RowsOf("revert", p)' = RowsOf("revert", p)
           \/ /\ ~ Approved(db.payment[p]) /\ Approved(db'.payment[p])
              /\ OneMore("payment", p)
              /\ RowsOf("revert", p)' = RowsOf("revert", p)
           \/ /\ Approved(db.payment[p]) /\ ~ Approved(db'.payment[p])
              /\ RowsOf("payment", p)' = RowsOf("payment", p)
              /\ OneMore("revert", p)
  <1> DEFINE rows == session[w].rows
  <1>1. /\ TypeOK /\ BooksPayments(session[w])
        /\ \A q \in Payments :
              /\ Approved(session[w].snap.payment[q]) <=> Approved(db.payment[q])
              /\ Approved(session[w].work.payment[q]) <=> Approved(db'.payment[q])
    BY SerialStatus DEF MInv, IInv, PayOK, Commit
  <1>2. ASSUME NEW kind, \A c \in Customers : \A i \in 1..Len(rows[c]) : ~ Matches(rows[c], i, kind, p)
        PROVE  RowsOf(kind, p)' = RowsOf(kind, p)
    BY <1>1, <1>2, RowsStill
  <1>3. CASE Quiet(session[w])
    <2>1. \A c \in Customers : \A i \in 1..Len(rows[c]) :
              ~ Matches(rows[c], i, "payment", p) /\ ~ Matches(rows[c], i, "revert", p)
      BY <1>3 DEF Quiet, Kinds, Matches
    <2>2. QED
      BY <1>1, <1>2, <1>3, <2>1 DEF Quiet
  <1>4. ASSUME NEW kind \in {"payment", "revert"}, NEW q \in Payments, Single(session[w], kind, q)
        PROVE  /\ \A other : other # kind \/ q # p =>
                      RowsOf(other, p)' = RowsOf(other, p)
               /\ q = p => OneMore(kind, p)
    <2>1. PICK c \in Customers : /\ Len(rows[c]) = 1 /\ Matches(rows[c], 1, kind, q)
                                 /\ \A d \in Customers \ {c} : rows[d] = <<>>
      BY <1>4 DEF Single
    <2>2. \A d \in Customers : \A i \in 1..Len(rows[d]) : d = c /\ i = 1
      <3> SUFFICES ASSUME NEW d \in Customers, NEW i \in 1..Len(rows[d])
                   PROVE  d = c /\ i = 1
        OBVIOUS
      <3>1. d = c
        <4> SUFFICES ASSUME d # c PROVE FALSE
          OBVIOUS
        <4>1. rows[d] = <<>>
          BY <2>1
        <4>2. QED
          BY <4>1
      <3>2. Len(rows[d]) = 1
        BY <2>1, <3>1
      <3> HIDE DEF rows
      <3>3. i \in 1..1
        BY <3>2
      <3>4. QED
        BY <3>1, <3>3
    <2>3. ASSUME NEW other, other # kind \/ q # p
          PROVE  RowsOf(other, p)' = RowsOf(other, p)
      <3>1. \A d \in Customers : \A i \in 1..Len(rows[d]) : ~ Matches(rows[d], i, other, p)
        BY <2>1, <2>2, <2>3 DEF Matches
      <3>2. QED
        BY <1>2, <3>1
    <2>4. ASSUME q = p
          PROVE  OneMore(kind, p)
      <3>1. OneRow(rows, kind, p)
        <4>1. PICK k \in 1..Len(rows[c]) : k = 1 /\ Matches(rows[c], k, kind, p)
          BY <2>1, <2>4
        <4>2. \A d \in Customers : \A j \in 1..Len(rows[d]) : d = c /\ j = k
          BY <2>2, <4>1
        <4>3. \A d \in Customers : \A j \in 1..Len(rows[d]) :
                  Matches(rows[d], j, kind, p) => d = c /\ j = k
          BY <4>2
        <4>4. QED
          BY <4>1, <4>3 DEF OneRow
      <3>2. QED
        BY <1>1, <3>1, RowsOneMore
    <2>5. QED
      BY <2>3, <2>4
  <1>5. ASSUME NEW q \in Payments, Turns(session[w], q, TRUE), Single(session[w], "payment", q)
        PROVE  /\ RowsOf("revert", p)' = RowsOf("revert", p)
               /\ IF q = p THEN /\ ~ Approved(db.payment[p]) /\ Approved(db'.payment[p])
                                /\ OneMore("payment", p)
                  ELSE /\ RowsOf("payment", p)' = RowsOf("payment", p)
                       /\ Approved(db.payment[p]) <=> Approved(db'.payment[p])
    BY <1>1, <1>4, <1>5 DEF Turns
  <1>6. ASSUME NEW q \in Payments, Turns(session[w], q, FALSE), Single(session[w], "revert", q)
        PROVE  /\ RowsOf("payment", p)' = RowsOf("payment", p)
               /\ IF q = p THEN /\ Approved(db.payment[p]) /\ ~ Approved(db'.payment[p])
                                /\ OneMore("revert", p)
                  ELSE /\ RowsOf("revert", p)' = RowsOf("revert", p)
                       /\ Approved(db.payment[p]) <=> Approved(db'.payment[p])
    BY <1>1, <1>4, <1>6 DEF Turns
  <1>7. QED
    BY <1>1, <1>3, <1>5, <1>6 DEF BooksPayments

\* So the rows stay counted.
LEMMA CommitMoney ==
    ASSUME MInv, IInv', NEW w \in Workers, Commit(w)
    PROVE  MInv'
  <1>1. ASSUME NEW o \in Orders
        PROVE  IsFiniteSet(RowsOf("order", o)')
    <2>1. IsFiniteSet(RowsOf("order", o))
      BY DEF MInv, Counted
    <2>2. QED
      BY <2>1, OrderRows, CountOneMore
  <1>2. ASSUME Serial, Buttons, NEW p \in Payments
        PROVE  /\ IsFiniteSet(RowsOf("payment", p)') /\ IsFiniteSet(RowsOf("revert", p)')
               /\ Booked("payment", p)' = Booked("revert", p)'
                                            + (IF Approved(db'.payment[p]) THEN 1 ELSE 0)
    <2>1. /\ IsFiniteSet(RowsOf("payment", p)) /\ IsFiniteSet(RowsOf("revert", p))
          /\ Booked("payment", p) = Booked("revert", p)
                                      + (IF Approved(db.payment[p]) THEN 1 ELSE 0)
      BY <1>2 DEF MInv, Counted
    <2>2. Booked("payment", p) \in Nat /\ Booked("revert", p) \in Nat
      BY <2>1, FS_CardinalityType DEF Booked
    <2>3. ASSUME NEW kind, RowsOf(kind, p)' = RowsOf(kind, p)
          PROVE  Booked(kind, p)' = Booked(kind, p)
      BY <2>3 DEF Booked
    <2>4. CASE /\ Approved(db.payment[p]) <=> Approved(db'.payment[p])
               /\ RowsOf("payment", p)' = RowsOf("payment", p)
               /\ RowsOf("revert", p)' = RowsOf("revert", p)
      BY <2>1, <2>3, <2>4
    <2>5. CASE /\ ~ Approved(db.payment[p]) /\ Approved(db'.payment[p])
               /\ OneMore("payment", p)
               /\ RowsOf("revert", p)' = RowsOf("revert", p)
      <3>1. IsFiniteSet(RowsOf("payment", p)') /\ Booked("payment", p)' = Booked("payment", p) + 1
        BY <2>1, <2>5, CountOneMore
      <3>2. Booked("revert", p)' = Booked("revert", p) /\ IsFiniteSet(RowsOf("revert", p)')
        BY <2>1, <2>3, <2>5
      <3>3. QED
        BY <2>1, <2>2, <2>5, <3>1, <3>2
    <2>6. CASE /\ Approved(db.payment[p]) /\ ~ Approved(db'.payment[p])
               /\ RowsOf("payment", p)' = RowsOf("payment", p)
               /\ OneMore("revert", p)
      <3>1. IsFiniteSet(RowsOf("revert", p)') /\ Booked("revert", p)' = Booked("revert", p) + 1
        BY <2>1, <2>6, CountOneMore
      <3>2. Booked("payment", p)' = Booked("payment", p) /\ IsFiniteSet(RowsOf("payment", p)')
        BY <2>1, <2>3, <2>6
      <3>3. QED
        BY <2>1, <2>2, <2>6, <3>1, <3>2
    <2>7. QED
      BY <1>2, <2>4, <2>5, <2>6, PaymentRows
  <1>3. Counted'
    BY <1>1, <1>2 DEF Counted, Serial, Buttons
  <1>4. ASSUME NEW v \in Workers, session'[v] # Idle
        PROVE  ShipOK(session'[v]) /\ PayOK(session'[v])
    <2>1. session'[v] = session[v]
      BY <1>4 DEF Commit, MInv, IInv, TypeOK
    <2>2. QED
      BY <1>4, <2>1 DEF MInv
  <1>5. (\A v \in Workers : session[v] # Idle => ShipOK(session[v]) /\ PayOK(session[v]))'
    BY <1>4
  <1>6. QED
    BY <1>3, <1>5 DEF MInv

\* Every step keeps the rows counted.
LEMMA MoneyStep == MInv /\ [Next]_vars => MInv'
  <1> SUFFICES ASSUME MInv, [Next]_vars PROVE MInv'
    OBVIOUS
  <1>1. IInv'
    BY NextOK DEF MInv
  <1>2. ASSUME NEW w \in Workers, Shipping(w) \/ Rollback(w)
        PROVE  MInv'
    <2>1. ASSUME NEW x \in Orders, ship_attached_fails(w, x)
          PROVE  MInv'
      BY <1>1, <2>1, SessionMoney DEF ship_attached_fails
    <2>2. ASSUME Rollback(w)
          PROVE  MInv'
      BY <1>1, <2>2, SessionMoney DEF Rollback
    <2>3. QED
      BY <1>1, <1>2, <2>1, <2>2, ShipAttachedMoney, PayMoney DEF Shipping
  <1>3. CASE UNCHANGED vars
    <2>1. \A kind, of : RowsOf(kind, of)' = RowsOf(kind, of)
      BY <1>3, RowsOfIn DEF vars
    <2>2. Counted'
      BY <1>3, <2>1 DEF vars, MInv, Counted, Booked, Serial, Buttons
    <2>3. (\A v \in Workers : session[v] # Idle => ShipOK(session[v]) /\ PayOK(session[v]))'
      BY <1>3 DEF vars, MInv
    <2>4. QED
      BY <1>1, <2>2, <2>3 DEF MInv
  <1>4. QED
    BY <1>1, <1>2, <1>3, PaymentRequestMoney, TransactionRequestMoney, OrderRequestMoney,
       OrderProductRequestMoney, CommitMoney DEF Next

\* The invariant about payments, approvals and shipments holds throughout.
LEMMA MoneyInvariant == Spec => []MInv
  <1>1. Init => MInv
    <2> SUFFICES ASSUME Init PROVE MInv
      OBVIOUS
    <2>1. IInv
      BY InitOK
    <2>2. ASSUME NEW kind, NEW of
          PROVE  RowsOf(kind, of) = {} /\ IsFiniteSet(RowsOf(kind, of)) /\ Booked(kind, of) = 0
      <3>1. \A c \in Customers : ledger[c] = <<>> /\ Len(ledger[c]) = 0
        BY DEF Init
      <3>2. \A r \in Customers \X (1..MaxRows) : r[1] \in Customers /\ r[2] \in 1..MaxRows
        OBVIOUS
      <3>3. \A r \in Customers \X (1..MaxRows) : ~ (r[2] <= Len(ledger[r[1]]))
        BY <3>1, <3>2, AccountsAssumption
      <3>4. RowsOf(kind, of) = {}
        BY <3>3 DEF RowsOf
      <3>5. QED
        BY <3>4, FS_EmptySet DEF Booked
    <2>3. \A p \in Payments : ~ Approved(db.payment[p])
      BY DEF Init, Approved, Absent
    <2>4. Counted
      BY <2>2, <2>3 DEF Counted
    <2>5. QED
      BY <2>1, <2>4 DEF MInv, Init
  <1>2. QED
    BY <1>1, MoneyStep, PTL DEF Spec

-----------------------------------------------------------------------------
\* The theorems.

\* The rows of an order grow by one or not at all, and only by a commit of a
\* request that has charged the order.
LEMMA OrderCount ==
    ASSUME MInv, [Next]_vars, NEW o \in Orders
    PROVE  /\ Booked("order", o) \in Nat
           /\ \/ Booked("order", o)' = Booked("order", o)
              \/ /\ Booked("order", o)' = Booked("order", o) + 1
                 /\ \E w \in Workers : Commit(w) /\ o \in Paid(session[w])
  <1>1. IsFiniteSet(RowsOf("order", o))
    BY DEF MInv, Counted
  <1>2. Booked("order", o) \in Nat
    BY <1>1, FS_CardinalityType DEF Booked
  <1>3. ASSUME RowsOf("order", o)' = RowsOf("order", o)
        PROVE  Booked("order", o)' = Booked("order", o)
    BY <1>3 DEF Booked
  <1>4. CASE UNCHANGED <<db, ledger>>
    <2>1. RowsOf("order", o)' = RowsOf("order", o)
      BY <1>4, RowsOfIn
    <2>2. QED
      BY <1>2, <1>3, <2>1
  <1>5. ASSUME NEW w \in Workers, Commit(w)
        PROVE  \/ Booked("order", o)' = Booked("order", o)
               \/ Booked("order", o)' = Booked("order", o) + 1 /\ o \in Paid(session[w])
    BY <1>1, <1>3, <1>5, OrderRows, CountOneMore
  <1>6. CASE UNCHANGED vars
    BY <1>4, <1>6 DEF vars
  <1>7. QED
    BY <1>2, <1>4, <1>5, <1>6, OnlyCommitWrites DEF Next

\* However many requests run at the same time, no commit adds more than one row
\* of an order: Order.set_status charges every order it ships once, in whatever
\* way the orders are attached to each other.
THEOREM ShipmentsChargeOnce == Spec => ShipmentChargesOnce
  <1>1. MInv /\ [Next]_vars => [\A o \in Orders : Booked("order", o)' <= Booked("order", o) + 1]_vars
    <2> SUFFICES ASSUME MInv, [Next]_vars, NEW o \in Orders
                 PROVE  Booked("order", o)' <= Booked("order", o) + 1
      OBVIOUS
    <2> DEFINE old == Booked("order", o)
               new == Booked("order", o)'
    <2>1. old \in Nat /\ (new = old \/ new = old + 1)
      BY OrderCount
    <2> HIDE DEF old, new
    <2>2. new <= old + 1
      BY <2>1
    <2>3. QED
      BY <2>2 DEF old, new
  <1>2. QED
    BY <1>1, MoneyInvariant, PTL DEF Spec, ShipmentChargesOnce

\* Alone, a request writes the order that it has computed.
LEMMA SerialOrder ==
    ASSUME MInv, Serial, NEW w \in Workers, Commit(w), NEW o \in Orders
    PROVE  db'.order[o].status = session[w].work.order[o].status
  <1> DEFINE old == db.order[o]
             new == session[w].work.order[o]
  <1>1. db'.order[o] = MergeOrder(old, new, old)
    BY DEF MInv, IInv, SerialOK, Commit, Merge
  <1> HIDE DEF old, new
  <1>2. MergeOrder(old, new, old).status = new.status
    <2>1. CASE new = old
      BY <2>1 DEF MergeOrder
    <2>2. CASE new # old /\ (old \in NoRow \/ new \in NoRow)
      BY <2>2 DEF MergeOrder
    <2>3. CASE new # old /\ old \notin NoRow /\ new \notin NoRow
      <3>1. MergeOrder(old, new, old).status = Column(old.status, new.status, old.status)
        BY <2>3 DEF MergeOrder
      <3>2. QED
        BY <3>1 DEF Column
    <2>4. QED
      BY <2>1, <2>2, <2>3
  <1>3. QED
    BY <1>1, <1>2 DEF new

\* When requests are served one at a time, an order is charged only when it is
\* finished, only as it becomes shipped, and only together with all orders that
\* are attached to it, whatever is attached to those.
THEOREM SerialShipmentIsWhole ==
    ASSUME \A v, w \in Workers : v = w
    PROVE  Spec => ShipmentIsWhole
  <1> DEFINE Whole(o) == /\ db.order[o].unfinished = {}
                         /\ db'.order[o].status = "shipped"
                         /\ \A x \in Attached(db, o) : Charged(x)
  <1>1. MInv /\ [Next]_vars => [\A o \in Orders : Charged(o) => Whole(o)]_vars
    <2> SUFFICES ASSUME MInv, [Next]_vars, NEW o \in Orders, Charged(o)
                 PROVE  Whole(o)
      OBVIOUS
    <2>1. PICK w \in Workers : Commit(w) /\ o \in Paid(session[w])
      <3> DEFINE old == Booked("order", o)
                 new == Booked("order", o)'
      <3>1. new > old
        BY DEF Charged
      <3>2. /\ old \in Nat
            /\ new = old \/ \E w \in Workers : Commit(w) /\ o \in Paid(session[w])
        BY OrderCount
      <3> HIDE DEF old, new
      <3>3. new # old
        BY <3>1, <3>2
      <3>4. QED
        BY <3>2, <3>3
    <2> DEFINE s == session[w]
    <2>2. /\ s.snap = db /\ PaidOK(s) /\ \A x \in Orders : Alike(db.order[x], s.work.order[x])
      <3>1. s # Idle /\ ShipOK(s) /\ s.snap = db
        BY <2>1 DEF MInv, IInv, SerialOK, Serial, Commit
      <3>2. Paid(s) # {}
        BY <2>1
      <3>3. QED
        BY <3>1, <3>2 DEF ShipOK
    <2>3. /\ s.work.order[o].unfinished = {} /\ s.work.order[o].status = "shipped"
          /\ Attached(s.work, o) \subseteq Paid(s)
      BY <2>1, <2>2 DEF PaidOK
    <2>4. Alike(db.order[o], s.work.order[o]) /\ s.work.order[o] \notin NoRow
      BY <2>2, <2>3 DEF NoRow, Absent, Deleted
    <2>5. db.order[o].unfinished = {}
      BY <2>3, <2>4 DEF Alike
    <2>6. db'.order[o].status = "shipped"
      BY <2>1, <2>3, SerialOrder DEF Serial
    <2>7. ASSUME NEW x \in Attached(db, o)
          PROVE  Charged(x)
      <3>1. x \in Orders /\ db.order[x] \notin NoRow /\ db.order[x].attachedTo = o
        BY DEF Attached, ExistingOrders
      <3>2. x \in Attached(s.work, o)
        BY <2>2, <3>1 DEF Alike, Attached, ExistingOrders
      <3>3. OneMore("order", x) /\ IsFiniteSet(RowsOf("order", x))
        BY <2>1, <2>3, <3>1, <3>2, OrderRows DEF MInv, Counted
      <3>4. Booked("order", x) \in Nat /\ Booked("order", x)' = Booked("order", x) + 1
        BY <3>3, CountOneMore
      <3> DEFINE old == Booked("order", x)
                 new == Booked("order", x)'
      <3>5. old \in Nat /\ new = old + 1
        BY <3>4
      <3> HIDE DEF old, new
      <3>6. new > old
        BY <3>5
      <3>7. QED
        BY <3>6 DEF Charged, old, new
    <2>8. QED
      BY <2>5, <2>6, <2>7
  <1>2. QED
    BY <1>1, MoneyInvariant, PTL DEF Spec, ShipmentIsWhole

\* When requests are served one at a time, an approval leaves none of the
\* payment's orders waiting for the payment.
THEOREM SerialApprovalReleases ==
    ASSUME \A v, w \in Workers : v = w
    PROVE  Spec => ApprovalReleasesOrders
  <1> DEFINE Turned(p) == /\ Exists(p) /\ db.payment[p].status # "approved"
                          /\ db'.payment[p].status = "approved"
  <1>1. MInv /\ [Next]_vars =>
            [\A p \in Payments : Turned(p) =>
                \A o \in db'.payment[p].orders : db'.order[o].status # "pending"]_vars
    <2> SUFFICES ASSUME MInv, [Next]_vars, NEW p \in Payments, Turned(p),
                        NEW o \in db'.payment[p].orders
                 PROVE  db'.order[o].status # "pending"
      OBVIOUS
    <2>1. PICK w \in Workers : Commit(w)
      <3>1. db' # db
        OBVIOUS
      <3>2. QED
        BY <3>1, OnlyCommitWrites DEF Next, vars
    <2> DEFINE s == session[w]
               old == db.payment[p]
               new == s.work.payment[p]
    <2>2. s # Idle /\ s.snap = db /\ Released(s) /\ s \in Session /\ TypeOK
      BY <2>1 DEF MInv, IInv, SerialOK, Serial, Commit, PayOK, OpenSessionsOK, SessionOK
    <2>3. Approved(new) /\ ~ Approved(old) /\ new # old /\ old # Absent
      BY <2>1, SerialStatus DEF Approved, Serial, Exists
    <2>4. old \in PaymentRow /\ new \in PaymentRow
      <3>1. old \in PaymentRow \cup {Absent} /\ new \in PaymentRow \cup {Absent}
        BY <2>2 DEF TypeOK, Session, Database
      <3>2. new # Absent
        BY <2>3 DEF Approved, Absent
      <3>3. QED
        BY <2>3, <3>1, <3>2
    <2>5. db'.payment[p] = MergePayment(old, new, old)
      BY <2>1, <2>2 DEF Commit, Merge
    <2> HIDE DEF old
    <2>6. MergePayment(old, new, old).orders = Links(old.orders, new.orders, old.orders)
      <3> HIDE DEF new
      <3>1. Absent \notin {old, new}
        BY <2>3, <2>4, RowTypes DEF PaymentRow, Absent, Approved
      <3>2. QED
        BY <2>3, <3>1 DEF MergePayment
    <2>7. Links(old.orders, new.orders, old.orders) = new.orders
      BY DEF Links
    <2>8. o \in new.orders /\ o \in Orders
      BY <2>4, <2>5, <2>6, <2>7 DEF PaymentRow
    <2>9. s.work.order[o].status # "pending"
      BY <2>2, <2>3, <2>8 DEF Released, old
    <2>10. QED
      BY <2>1, <2>8, <2>9, SerialOrder DEF Serial
  <1>2. QED
    BY <1>1, MoneyInvariant, PTL DEF Spec, ApprovalReleasesOrders

\* When requests are served one at a time and the administrators only approve
\* and reject, the money of a payment is on the account exactly while the
\* payment is approved.
THEOREM SerialApprovedIsCredited ==
    ASSUME \A v, w \in Workers : v = w,
           AdminPaymentStatuses \subseteq {"approved", "rejected"}
    PROVE  Spec => []ApprovedIsCredited
  <1>1. MInv => ApprovedIsCredited
    <2> SUFFICES ASSUME MInv, NEW p \in Payments
                 PROVE  Booked("payment", p) - Booked("revert", p)
                            = (IF Approved(db.payment[p]) THEN 1 ELSE 0)
      BY DEF ApprovedIsCredited, Approved
    <2>1. /\ IsFiniteSet(RowsOf("revert", p))
          /\ Booked("payment", p) = Booked("revert", p)
                                      + (IF Approved(db.payment[p]) THEN 1 ELSE 0)
      BY DEF MInv, Counted, Serial, Buttons
    <2>2. Booked("revert", p) \in Nat
      BY <2>1, FS_CardinalityType DEF Booked
    <2>3. QED
      BY <2>1, <2>2
  <1>2. QED
    BY <1>1, MoneyInvariant, PTL
=============================================================================
