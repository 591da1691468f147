---------------------------- MODULE ProfitAndLoss ----------------------------
(***************************************************************************)
(* The P&L.  One purchase reaches the books in several forms: an invoice,  *)
(* a statement of the franchisor that lists it again, the bank's debit     *)
(* that pays it; wages are both the bank's payroll debits and what         *)
(* PushOperations reports.  A report reads the rows of its period, drops   *)
(* those that say again what another row says, reads the labor source, and *)
(* adds up.  Reports of any period are asked for; a task of the schedule   *)
(* asks for that of a month, which another task stores as a snapshot.      *)
(*                                                                         *)
(* Rows, their vendors and amounts are constant; books is the documents    *)
(* that are in, calc the reports under way.                                *)
(***************************************************************************)
EXTENDS Integers, FiniteSetsExt, Functions

CONSTANTS
  Row,        \* expense rows
  Doc,        \* documents
  Month,      \* calendar months
  Calc,       \* workers, and their executions of PnLCalculator.compute
  DocOf,      \* the document of each row
  Form,       \* "bank" for a line of a bank statement, else "paper"
  Words,      \* the words of a vendor's name that identify it
  Listed,     \* the franchisor's invoice numbers that a row's document names
  PreAuth,    \* bank lines described as the franchisor's pre-authorized debit
  Category, Amount, Tax,
  MonthOf,
  StaffCash, InterestPaid,  \* rows whose vendor says so
  PushTotal,  \* labor of a month, as PushOperations reports it
  Rent,       \* prorated monthly rent of the location's settings
  Revenue,    \* net revenue of each month
  AccountOf,  \* what each row is a record of, and
  Charges,    \* the charges it states: the facts that matching has to find out
  Happens,    \* which of "books", "switch", "error" and "worker" happen, each once,
  MaxEvents   \* and how many of them

\* A row belongs to a document; the pre-authorized debits bear the franchisor's name.
ASSUME LedgerAssumption ==
  /\ IsFiniteSet(Row) /\ DocOf \in [Row -> Doc]
  /\ \A e \in PreAuth \cap Row : "tahinis" \in Words[e]

VARIABLES
  books,   \* documents, with all of their rows
  connected,  \* whether the integration with PushOperations is active
  calc,    \* what each execution of compute has read
  months,  \* for each month: whether the beat sent the monthly task, the message of that
           \* task, those of the snapshot it asks for, and the snapshots stored
  events,
  counted, \* the rows a report of each period counts: a view of the books
  again    \* history: months of which a task was delivered again that had done its work

vars == <<books, connected, calc, months, events, counted, again>>
view == <<counted, again>>

\* What a report is asked of: a month, or all of them
Period == {{x} : x \in Month} \cup {Month}

-----------------------------------------------------------------------------
(* The rows a report counts *)

BankRows    == {e \in Row : Form[e] = "bank"}
RoyaltyRows == {e \in Row : Category[e] = "royalty"}
Sum(E, F(_)) == MapThenSumSet(F, E)

Franchisor == {e \in Row \ BankRows : "franchising" \in Words[e]}
\* Documents of one invoice, and those that list several, or none
Atomic  == {e \in Franchisor : Cardinality(Listed[e]) = 1}
Rollup  == Franchisor \ Atomic
Settles == {e \in BankRows : "tahinis" \in Words[e]}

\* mutant: the debits go, invoice or not
DropSettlementsAlways(E) == E \ (BankRows \cap PreAuth)
\* The weekly debits, once an invoice of the franchisor is there
DropSettlements(E) ==
  IF \E e \in E \ BankRows : {"tahinis", "franchising"} \subseteq Words[e]
  THEN E \ (BankRows \cap PreAuth) ELSE E

\* mutant: statements are kept beside the invoices they list
DropRollupsNever(E) == IF E \cap Atomic # {} THEN E \ Settles ELSE E
\* Statements, batches and debits, once there is an invoice of its own
DropRollups(E) == IF E \cap Atomic # {} THEN E \ (Rollup \cup Settles) ELSE E

\* Bank lines of royalties, each with an invoice of the same amount that it uses up.
\* Which lines of an amount go depends on the order of an unordered query.
PaidByAmount(E) ==
  LET lines(a)    == {e \in E \cap RoyaltyRows \cap BankRows : Amount[e] = a}
      invoices(a) == {e \in (E \cap RoyaltyRows) \ BankRows : Amount[e] = a}
      used(a)     == Min({Cardinality(lines(a)), Cardinality(invoices(a))})
  IN UNION {CHOOSE S \in SUBSET lines(a) : Cardinality(S) = used(a) :
              a \in {Amount[e] : e \in E \cap RoyaltyRows}}
\* mutant: the invoices go and the lines stay
DropInvoiceByAmount(E) ==
  E \ {e \in (E \cap RoyaltyRows) \ BankRows :
         \E b \in E \cap RoyaltyRows \cap BankRows : Amount[e] = Amount[b]}
DropPaidByAmount(E) == E \ PaidByAmount(E)

\* An invoice and a bank line whose vendors share all the words of one, or two
SameVendor ==
  {p \in (Row \ BankRows) \X BankRows :
     LET shared == Words[p[1]] \cap Words[p[2]] IN
     shared # {} /\ (shared \in {Words[p[1]], Words[p[2]]} \/ Cardinality(shared) >= 2)}

\* Invoices of a vendor the bank has paid
DropPaid(E) == E \ {e \in E : \E b \in E : <<e, b>> \in SameVendor}

Counted(E) == DropPaid(DropPaidByAmount(DropRollups(DropSettlements(E))))

-----------------------------------------------------------------------------
(* The lines of the P&L, of counted rows C *)

Net(e)   == Amount[e] - Tax[e]
Cogs     == {"food"}
NonPnl   == {"personal"}
Of(C, cats) == {e \in C : Category[e] \in cats}

\* The Payroll lines: what PushOperations says and cash, or the debits
Payroll(C, push) ==
  IF push THEN Of(C, {"payroll"}) \cap StaffCash ELSE Of(C, {"payroll"})
Labor(C, push, p) ==
  Sum(Payroll(C, push), Net) + IF push THEN Sum(p, LAMBDA x : PushTotal[x]) ELSE 0

ProratedRent(C, p) == IF Of(C, {"rent"}) = {} THEN Rent * Cardinality(p) ELSE 0

OpexRows(C) == {e \in C : Category[e] \notin Cogs \cup NonPnl \cup {"payroll"}}
Interest(C) == Sum(OpexRows(C) \cap InterestPaid, LAMBDA e : Amount[e])

Opex(C, p) == Sum(OpexRows(C), Net) + ProratedRent(C, p) - Interest(C)

Ebitda(C, push, p) ==
  Sum(p, LAMBDA x : Revenue[x]) - Sum(Of(C, Cogs), Net) - Labor(C, push, p) - Opex(C, p)
NetProfit(C, push, p) == Ebitda(C, push, p) - Interest(C)

\* mutant: the breakdown shows the debits that PushOperations has replaced
BreakdownDebits(C, push, p) ==
  [c \in ({Category[e] : e \in Row} \cup {"payroll", "rent"}) \ NonPnl |->
     Sum(Of(C, {c}), Net) + IF c = "rent" THEN ProratedRent(C, p) ELSE 0]
\* The expense breakdown shown beside them
Breakdown(C, push, p) ==
  [c \in ({Category[e] : e \in Row} \cup {"payroll", "rent"}) \ NonPnl |->
     CASE c = "payroll" -> Labor(C, push, p)
       [] c = "rent"    -> Sum(Of(C, {"rent"}), Net) + ProratedRent(C, p)
       [] OTHER         -> Sum(Of(C, {c}), Net)]

-----------------------------------------------------------------------------
(* What an account is counted from *)

Accounts  == {AccountOf[e] : e \in Row}
Records   == [a \in Accounts |-> {e \in Row : AccountOf[e] = a}]
Papers(a) == Records[a] \ BankRows
Lines(a)  == Records[a] \cap BankRows

\* A vendor that the bank's lines name as its invoices do
Vendor(a) ==
  /\ Records[a] \cap (Franchisor \cup Settles \cup PreAuth \cup RoyaltyRows) = {}
  /\ Papers(a) \X Lines(a) \subseteq SameVendor

\* The franchisor: all of its invoices and statements, and the weekly debits
FranchisorAccount(a) ==
  /\ \A e \in Papers(a) : {"tahinis", "franchising"} \subseteq Words[e]
  /\ Lines(a) \subseteq PreAuth \cap Settles
  /\ Franchisor \cup Settles \cup (BankRows \cap PreAuth) \subseteq Records[a]
  /\ \A e \in Lines(a) \cap RoyaltyRows, f \in RoyaltyRows \ Records[a] : Amount[e] # Amount[f]

\* One charge of royalties, of an amount of its own: an invoice, its debit, or both
RoyaltyCharge(a) ==
  /\ Records[a] \subseteq RoyaltyRows \ (Franchisor \cup Settles \cup PreAuth)
  /\ Cardinality(Papers(a)) <= 1 /\ Cardinality(Lines(a)) <= 1
  /\ \A e \in Records[a], f \in RoyaltyRows : Amount[e] = Amount[f] <=> f \in Records[a]

\* The accounts that the rules can tell from each other by names and amounts.  An unmatched
\* line of royalties, which may be a charge of its own, is kept beside its vendor's invoices.
Told(a) ==
  /\ Vendor(a) \/ FranchisorAccount(a) \/ RoyaltyCharge(a)
  /\ \A e \in Papers(a), b \in BankRows : <<e, b>> \in SameVendor => b \in Lines(a)

Account == {a \in Accounts : Told(a)}
Source  == {"none", "bank", "statement", "invoice"}

\* The bank wins, but for the franchisor and where invoices and debits match by amount.
InvoiceWins(a) == Records[a] \cap (Franchisor \cup RoyaltyRows) # {}
Rank == [a \in Account |->
  IF InvoiceWins(a)
  THEN [none |-> 0, bank |-> 1, statement |-> 2, invoice |-> 3]
  ELSE [none |-> 0, statement |-> 1, invoice |-> 1, bank |-> 2]]

Kind(e) ==
  IF e \in BankRows THEN "bank" ELSE IF e \in Rollup THEN "statement" ELSE "invoice"
SourceOf(C) == [a \in Account |->
  LET kinds == {Kind(e) : e \in C \cap Records[a]} IN
    CASE kinds = {} -> "none"
      [] Cardinality(kinds) = 1 -> CHOOSE k \in kinds : TRUE
      [] OTHER -> "several"]

-----------------------------------------------------------------------------
Live == {e \in Row : books[DocOf[e]] = "live"}
View(E) == [p \in Period |-> Counted({e \in E : MonthOf[e] \in p})]

TypeOK ==
  /\ books \in [Doc -> {"none", "live", "gone"}]
  /\ connected \in BOOLEAN
  /\ calc \in [Calc -> [pc : {"idle", "dispatch", "dispatched", "asked", "read", "done", "acking"},
                        period : {{}} \cup Period, rows : SUBSET Row, push : BOOLEAN]]
  /\ months \in [Month -> [sent : BOOLEAN, task : 0..1, queued : Nat, stored : 0..2]]
  /\ events \subseteq Happens
  /\ counted \in [Period -> SUBSET Row]

Idle == [pc |-> "idle", period |-> {}, rows |-> {}, push |-> FALSE]

Init ==
  /\ books \in [Doc -> {"none", "live"}]
  /\ connected = FALSE
  /\ calc = [r \in Calc |-> Idle]
  /\ months = [x \in Month |-> [sent |-> FALSE, task |-> 0, queued |-> 0, stored |-> 0]]
  /\ events = {} /\ again = {}
  /\ counted = View(Live)

\* What happens to the books and to the process: each at most once
Event(kind) ==
  /\ kind \in Happens \ events /\ Cardinality(events) < MaxEvents
  /\ events' = events \cup {kind}

The(r) == CHOOSE x \in Month : calc[r].period = {x}

-----------------------------------------------------------------------------
(* The books, and the integration *)

\* A document is processed: its rows are committed together.
Book(d) ==
  /\ books[d] = "none" /\ Event("books")
  /\ books' = [books EXCEPT ![d] = "live"]
  /\ counted' = View(Live')
  /\ UNCHANGED <<connected, calc, months, again>>

\* It is deleted, or found to be a duplicate.
Remove(d) ==
  /\ books[d] = "live" /\ Event("books")
  /\ books' = [books EXCEPT ![d] = "gone"]
  /\ counted' = View(Live')
  /\ UNCHANGED <<connected, calc, months, again>>

\* The integration is connected or disconnected.
Switch ==
  /\ Event("switch")
  /\ connected' = ~connected
  /\ UNCHANGED <<books, calc, months, view>>

-----------------------------------------------------------------------------
(* A report, one query after another *)

\* _load_expenses
ReadExpenses(r) ==
  /\ calc[r].pc = "asked"
  /\ calc' = [calc EXCEPT ![r].pc = "read", ![r].rows = counted[calc[r].period]]
  /\ UNCHANGED <<books, connected, months, events, view>>

\* _load_push_labor
ReadLabor(r) ==
  /\ calc[r].pc = "read"
  /\ calc' = [calc EXCEPT ![r].pc = "done", ![r].push = connected]
  /\ UNCHANGED <<books, connected, months, events, view>>

-----------------------------------------------------------------------------
(* The monthly snapshot *)

\* After the end of a month, the beat sends the monthly task.
Beat(x) ==
  /\ ~months[x].sent /\ \A y \in Month : y < x => months[y].sent
  /\ months' = [months EXCEPT ![x].sent = TRUE, ![x].task = 1]
  /\ UNCHANGED <<books, connected, calc, events, view>>

\* monthly_pnl_all_tenants
DeliverTask(r, x) ==
  /\ calc[r].pc = "idle" /\ months[x].task > 0
  /\ calc' = [calc EXCEPT ![r] = [Idle EXCEPT !.pc = "dispatch", !.period = {x}]]
  /\ months' = [months EXCEPT ![x].task = 0]
  /\ UNCHANGED <<books, connected, events, view>>

\* mutant: a message for each of two locations, whose tasks both compute all of them
DispatchEach(r) ==
  /\ calc[r].pc = "dispatch"
  /\ months' = [months EXCEPT ![The(r)].queued = @ + 2]
  /\ calc' = [calc EXCEPT ![r].pc = "dispatched"]
  /\ UNCHANGED <<books, connected, events, view>>
\* It sends a message for the snapshot.
Dispatch(r) ==
  /\ calc[r].pc = "dispatch"
  /\ months' = [months EXCEPT ![The(r)].queued = @ + 1]
  /\ calc' = [calc EXCEPT ![r].pc = "dispatched"]
  /\ UNCHANGED <<books, connected, events, view>>

\* compute_pnl_snapshot
Deliver(r, x) ==
  /\ calc[r].pc = "idle" /\ months[x].queued > 0
  /\ calc' = [calc EXCEPT ![r] = [Idle EXCEPT !.pc = "asked", !.period = {x}]]
  /\ months' = [months EXCEPT ![x].queued = @ - 1]
  /\ UNCHANGED <<books, connected, events, view>>

\* upsert_snapshot: the location of the row is null, equals no other, and never conflicts
Store(r) ==
  /\ calc[r].pc = "done"
  /\ months' = [months EXCEPT ![The(r)].stored = Min({@ + 1, 2})]
  /\ calc' = [calc EXCEPT ![r].pc = "acking"]
  /\ UNCHANGED <<books, connected, events, view>>

Ack(r) ==
  /\ calc[r].pc \in {"dispatched", "acking"}
  /\ calc' = [calc EXCEPT ![r] = Idle]
  /\ UNCHANGED <<books, connected, months, events, view>>

\* An error: neither task is retried.
Fail(r) ==
  /\ calc[r].pc \in {"dispatch", "asked", "read", "done"} /\ Event("error")
  /\ calc' = [calc EXCEPT ![r] = Idle]
  /\ UNCHANGED <<books, connected, months, view>>

\* The worker is lost before it has acknowledged: the message it holds is there again.
WorkerLost(r) ==
  /\ calc[r].pc # "idle" /\ Event("worker")
  /\ months' = IF calc[r].pc \in {"dispatch", "dispatched"}
                THEN [months EXCEPT ![The(r)].task = 1]
                ELSE [months EXCEPT ![The(r)].queued = @ + 1]
  /\ calc' = [calc EXCEPT ![r] = Idle]
  /\ again' = IF calc[r].pc \in {"dispatched", "acking"} THEN again \cup {The(r)} ELSE again
  /\ UNCHANGED <<books, connected, counted>>

-----------------------------------------------------------------------------
CalcStep(r) ==
  \/ Dispatch(r) \/ ReadExpenses(r) \/ ReadLabor(r) \/ Store(r) \/ Ack(r)
  \/ \E x \in Month : DeliverTask(r, x) \/ Deliver(r, x)

Next ==
  \/ \E d \in Doc : Book(d) \/ Remove(d)
  \/ Switch
  \/ \E x \in Month : Beat(x)
  \/ \E r \in Calc : CalcStep(r) \/ Fail(r) \/ WorkerLost(r)

Spec == Init /\ [][Next]_vars

-----------------------------------------------------------------------------
(* Safety *)

\* What the code has to go by: bank line b pays invoice e
PaidBy(e, b) ==
  /\ e \in Row \ BankRows /\ b \in BankRows
  /\ \/ {"tahinis", "franchising"} \subseteq Words[e] /\ b \in PreAuth
     \/ e \in Atomic /\ b \in Settles
     \/ <<e, b>> \in SameVendor
     \/ /\ {e, b} \subseteq RoyaltyRows /\ Amount[e] = Amount[b]
        /\ \A c \in RoyaltyRows \cap BankRows : Amount[c] = Amount[e] => c = b

\* Two records of one charge are an invoice and its debit, or a statement and what it lists.
Matchable ==
  \A e, f \in Row : e # f /\ Charges[e] \cap Charges[f] # {} =>
    \/ PaidBy(e, f) \/ PaidBy(f, e)
    \/ {e, f} \subseteq Franchisor /\ {e, f} \cap Rollup # {}

\* calculator.py:573-764: no report counts a charge twice, whatever forms of it have
\* arrived, unless two statements of the franchisor list it and no invoice does.
CountedOnce ==
  \A p \in Period : \A e, f \in counted[p] :
      e # f /\ Charges[e] \cap Charges[f] # {} => {e, f} \subseteq Rollup

\* Row f says what row e says, and better: an invoice says it better than the debit of its
\* franchisor or of its amount and than a statement, the bank better than any other invoice.
Replaces(f, e) ==
  \/ f \in Row \ BankRows /\ e \in BankRows
     /\ \/ {"tahinis", "franchising"} \subseteq Words[f] /\ e \in PreAuth
        \/ {e, f} \subseteq RoyaltyRows /\ Amount[e] = Amount[f]
  \/ f \in Atomic /\ e \in Rollup \cup Settles
  \/ <<e, f>> \in SameVendor

\* calculator.py:586-589, 651-654, 680-682: no rule zeroes or understates a cost of which
\* there is one record only.  What a report leaves out has a row of the period in its
\* place, and that row is counted, or has given way in its turn to one that is.
NothingVanishes ==
  \A p \in Period : LET live == {e \in Live : MonthOf[e] \in p} IN
    \A e \in live \ counted[p] : \E f \in live :
      Replaces(f, e) /\ (f \in counted[p] \/ \E g \in counted[p] : Replaces(g, f))

\* The breakdown of a report adds up to what the report subtracts from its revenue, also
\* when the integration is switched between its queries.
BreakdownTies ==
  \A r \in Calc : LET c == calc[r] IN c.pc = "done" =>
    FoldFunction(+, 0, Breakdown(c.rows, c.push, c.period))
      = Sum(c.period, LAMBDA x : Revenue[x]) - NetProfit(c.rows, c.push, c.period)

\* A month has one snapshot, unless one of its two messages was delivered again when its
\* task had been carried out: the monthly task then asks for the month a second time, and a
\* snapshot is stored beside the first.
SnapshotOnce == \A x \in Month : months[x].stored > 1 => x \in again

-----------------------------------------------------------------------------
(* Refinement: an account that the rules can tell is counted from one kind *)
(* of document, the best there is. *)

Costs == INSTANCE CostSource WITH
  records <- [a \in Account |-> Cardinality({e \in Records[a] : books[DocOf[e]] = "live"})],
  source  <- SourceOf(counted[Month])

\* calculator.py:459-503: over all times, an account that the rules can tell is never
\* counted from two kinds at once, and another document never turns it to a worse kind.
OneSource == Costs!Spec
=============================================================================
