---------------------------- MODULE BankStatement -----------------------------
(***************************************************************************)
(* A bank statement on its way into the books: the lines of the money that *)
(* left become expenses, the deposits become rows of bank_deposits, and    *)
(* what a delivery platform kept becomes a commission.  A statement comes  *)
(* as a CSV, read as it is, or as a PDF, whose pages a model reads one by  *)
(* one; a page it cannot read is skipped.                                  *)
(*                                                                         *)
(* The tables hold committed rows; a run keeps what it has written and not *)
(* committed.  From update_extracted_data to its commit a run holds the    *)
(* row of its document, and with it keeps other runs of it out.            *)
(***************************************************************************)
EXTENDS Naturals, FiniteSetsExt, Functions

CONSTANTS
  Doc,        \* statements, two of which may be one month uploaded twice
  Run,        \* deliveries of process_document; one that is over is used again
  Req,        \* requests
  Csv,        \* the statements that are CSV files
  Line,       \* lines of money out
  Charge,     \* vendor, amount and date of each line
  LinesOf,    \* the lines of each statement
  NoExpense,  \* charges that are noise, a transfer or the payment of a card,
  Rent,       \* those of them that are the rent all the same,
  Vehicle,    \* and those booked as an owner's draw, overridden from the start
  Unknown,    \* charges no keyword matches
  Inflow,     \* deposits
  Day,        \* date of each deposit
  InflowsOf,  \* the deposits of each statement
  Platform,   \* the deposits a delivery platform has paid
  MaxGap,     \* bound on the changes of the sales of a platform
  Ops,        \* what happens in this instance
  Faults,     \* which of "ocr", "deposits", "broker", "db" and "worker" may fail
  MaxEvents   \* bound on the faults, requests and changes of sales together

Charges == Range(Charge)

ASSUME StatementAssumption ==
  /\ Doc # {} /\ Csv \subseteq Doc
  /\ Charge \in [Line -> Charges]
  /\ LinesOf \in [Doc -> SUBSET Line]
  /\ NoExpense \subseteq Charges /\ Vehicle \subseteq NoExpense /\ Rent \subseteq NoExpense \ Vehicle
  /\ Unknown \subseteq Charges \ NoExpense
  /\ Day \in [Inflow -> Nat]
  /\ InflowsOf \in [Doc -> SUBSET Inflow]
  /\ Platform \subseteq Inflow
  /\ MaxGap \in Nat /\ MaxEvents \in Nat
  /\ Ops \subseteq {"reprocess", "delete", "override", "sales"}

VARIABLES
  docs,    \* status, and history: the lines and deposits of the reading it shows
  exps,    \* expenses of each statement: how many rows of a charge, overridden?
  comms,   \* commissions of each statement: how many rows of each amount
  deps,    \* bank_deposits: how many rows of a deposit each statement has stored
  runs, reqs,
  gap,     \* what the platform's sales exceed its payout by
  events,  \* requests, faults and changes of sales so far
  raced,   \* history: deposits two runs have replaced at the same time
  lost     \* history: deposits deleted by the run of a statement without them

vars == <<docs, exps, comms, deps, runs, reqs, gap, events, raced, lost>>
tables == <<docs, exps, comms, deps>>

-----------------------------------------------------------------------------
Gap   == 0..MaxGap
Count == 0..2
NoRow == [n |-> 0, user |-> FALSE]

DocRow == [status : {"none", "pending", "ocr_processing", "extracted", "error", "gone"},
           read : SUBSET Line, paid : SUBSET Inflow]
RunRow == [pc : {"free", "queued", "started", "lines", "deposits", "commit"},
           doc : Doc, read : SUBSET Line, todo : SUBSET Line,
           new : SUBSET Charges, kept : SUBSET Charges,
           paid : SUBSET Inflow, sees : SUBSET (Doc \X Inflow), cleared : BOOLEAN,
           comm : Gap]
ReqRow == [pc : {"idle", "reprocess", "delete"}, doc : Doc, sees : SUBSET Charges,
           comms : SUBSET Gap]

TypeOK ==
  /\ docs \in [Doc -> DocRow]
  /\ exps \in [Doc -> [Charges -> [n : Count, user : BOOLEAN]]]
  /\ comms \in [Doc -> [Gap -> Count]]
  /\ deps \in [Doc -> [Inflow -> Count]]
  /\ runs \in [Run -> RunRow] /\ reqs \in [Req -> ReqRow]
  /\ gap \in Gap /\ events \in 0..MaxEvents
  /\ raced \subseteq Inflow /\ lost \subseteq Inflow

Fresh(pc, d) == [pc |-> pc, doc |-> d, read |-> {}, todo |-> {}, new |-> {}, kept |-> {},
                 paid |-> {}, sees |-> {}, cleared |-> FALSE, comm |-> 0]
AnyDoc == CHOOSE d \in Doc : TRUE
NoReq  == [pc |-> "idle", doc |-> AnyDoc, sees |-> {}, comms |-> {}]

Init ==
  /\ docs = [d \in Doc |-> [status |-> "none", read |-> {}, paid |-> {}]]
  /\ exps = [d \in Doc |-> [c \in Charges |-> NoRow]]
  /\ comms = [d \in Doc |-> [g \in Gap |-> 0]]
  /\ deps = [d \in Doc |-> [i \in Inflow |-> 0]]
  /\ runs = [r \in Run |-> Fresh("free", AnyDoc)]
  /\ reqs = [q \in Req |-> NoReq]
  /\ gap = 0 /\ events = 0 /\ raced = {} /\ lost = {}

-----------------------------------------------------------------------------
Event       == events < MaxEvents /\ events' = events + 1
Fault(kind) == kind \in Faults /\ Event

Holds(r) == runs[r].pc \in {"lines", "deposits", "commit"}

\* mutant: two runs of a document do not wait for each other
DocFreeUnlocked(d) == TRUE
\* No run holds the row of the document.
DocFree(d) == \A r \in Run : ~(Holds(r) /\ runs[r].doc = d)

Shown(d, status) == [docs EXCEPT ![d] = [status |-> status, read |-> {}, paid |-> {}]]

Stored(d) == docs[d].status \notin {"none", "gone"}

\* The first message of an upload, or that of a reprocess
Publish(d) ==
  \E r \in Run : runs[r].pc = "free" /\ runs' = [runs EXCEPT ![r] = Fresh("queued", d)]
Set(r, row) == runs' = [runs EXCEPT ![r] = row]
End(r) == Set(r, Fresh("free", AnyDoc))

Upload(d) ==
  /\ docs[d].status = "none"
  /\ docs' = Shown(d, "pending")
  /\ Publish(d)
  /\ UNCHANGED <<exps, comms, deps, reqs, gap, events, raced, lost>>

-----------------------------------------------------------------------------
(* process_document on a statement *)

\* The status is committed; a document that is gone ends the task.
Start(r) ==
  LET d == runs[r].doc IN
  /\ runs[r].pc = "queued"
  /\ IF Stored(d)
     THEN /\ DocFree(d)
          /\ docs' = Shown(d, "ocr_processing")
          /\ Set(r, Fresh("started", d))
     ELSE End(r) /\ UNCHANGED docs
  /\ UNCHANGED <<exps, comms, deps, reqs, gap, events, raced, lost>>

\* What the model may make of the pages, or, where it can read none, of the text: it
\* leaves out lines, and says nothing when it does.
ByModel(d) == SUBSET LinesOf[d]
\* What parse_statement_csv, or the model, may make of a file
Readings(d) == IF d \in Csv THEN {LinesOf[d]} ELSE ByModel(d)

\* The lines of a reading that are expenses
Expenses(L) == {l \in L : Charge[l] \in NoExpense => Charge[l] \in Vehicle \cup Rent}
Payments(d) == IF d \in Csv THEN {InflowsOf[d]} ELSE SUBSET InflowsOf[d]

\* The text is there, and update_extracted_data takes the row of the document.
Read(r) ==
  LET d == runs[r].doc IN
  /\ runs[r].pc = "started"
  /\ IF Stored(d)
     THEN /\ DocFree(d)
          /\ \E L \in Readings(d), P \in Payments(d) :
               Set(r, [Fresh("lines", d) EXCEPT !.read = Expenses(L), !.todo = Expenses(L),
                                                !.paid = P])
     ELSE End(r)
  /\ UNCHANGED <<tables, reqs, gap, events, raced, lost>>

\* mutant: the row of any statement will do
BookedAnywhere(r, c) == (\E d \in Doc : exps[d][c].n > 0) \/ c \in runs[r].new
\* bank_line_exists: the statement has a row of the same vendor, amount and date.
Booked(r, c) == exps[runs[r].doc][c].n > 0 \/ c \in runs[r].new

\* prior_user_override: the category a user gave the same charge of another statement
Inherits(r, c) == \E d \in Doc \ {runs[r].doc} : exps[d][c].n > 0 /\ exps[d][c].user

\* The next line of the file
NextLine(r) == CHOOSE l \in runs[r].todo : TRUE

\* One line, to the message for its category or to the row
BookLine(r) ==
  LET c == Charge[NextLine(r)] IN
  /\ runs[r].pc = "lines" /\ runs[r].todo # {}
  /\ LET new == IF Booked(r, c) THEN {} ELSE {c} IN
     Set(r, [runs[r] EXCEPT !.todo = @ \ {NextLine(r)}, !.new = @ \cup new,
               !.kept = IF c \in Vehicle \/ Inherits(r, c) THEN @ \cup new ELSE @])
  /\ UNCHANGED <<tables, reqs, gap, events, raced, lost>>

LinesEnd(r) ==
  /\ runs[r].pc = "lines" /\ runs[r].todo = {}
  /\ Set(r, [runs[r] EXCEPT !.pc = "deposits"])
  /\ UNCHANGED <<tables, reqs, gap, events, raced, lost>>

\* _book_delivery_commissions: what the platform's sales exceed its payout by, if the
\* statement has no row of that amount
Commission(r) ==
  IF runs[r].paid \cap Platform # {} /\ comms[runs[r].doc][gap] = 0 THEN gap ELSE 0

\* Deposit i is dated between the first and the last of P.
Spans(P, i) == \E a, b \in P : Day[a] <= Day[i] /\ Day[i] <= Day[b]

\* mutant: a statement replaces the deposits of its own document only
ReplacedOwn(r) ==
  {k \in Doc \X Inflow : deps[k[1]][k[2]] > 0 /\ k[1] = runs[r].doc}
\* The rows the two DELETEs of _persist_bank_deposits see
Replaced(r) ==
  {k \in Doc \X Inflow : /\ deps[k[1]][k[2]] > 0
                         /\ k[1] = runs[r].doc \/ Spans(runs[r].paid, k[2])}

\* The rows to delete are looked up, and the commission (a CSV does so before, a PDF
\* after the deposits, with nothing between that the other reads).
Deposits(r) ==
  /\ runs[r].pc = "deposits"
  /\ Set(r, [runs[r] EXCEPT !.pc = "commit", !.sees = Replaced(r), !.cleared = TRUE,
                            !.comm = Commission(r)])
  /\ raced' = raced \cup {i \in Inflow : \E s \in Run \ {r} :
                  runs[s].cleared /\ Spans(runs[r].paid, i) /\ Spans(runs[s].paid, i)}
  /\ UNCHANGED <<tables, reqs, gap, events, lost>>

\* The rows of a run, as its commit adds them to those of its statement
WithLines(r) ==
  [exps EXCEPT ![runs[r].doc] =
     [c \in Charges |-> IF c \in runs[r].new
                        THEN [n |-> Min({@[c].n + 1, 2}), user |-> c \in runs[r].kept]
                        ELSE @[c]]]

Gone(r) == {i \in Inflow : \E k \in runs[r].sees : k[2] = i}

\* mutant: the rows are deleted after the new ones are inserted
MoneyClearedLast(r) ==
  [d \in Doc |-> [i \in Inflow |->
     IF <<d, i>> \in runs[r].sees THEN 0
     ELSE Min({deps[d][i] + (IF d = runs[r].doc /\ i \in runs[r].paid THEN 1 ELSE 0), 2})]]
\* bank_deposits without the rows that were looked up, and with the new ones
Money(r) ==
  [d \in Doc |-> [i \in Inflow |->
     Min({(IF <<d, i>> \in runs[r].sees THEN 0 ELSE deps[d][i])
          + (IF d = runs[r].doc /\ i \in runs[r].paid THEN 1 ELSE 0), 2})]]

\* The rows that were looked up are deleted - one that another run has deleted and
\* committed meanwhile is passed over - the new ones are inserted, and all is committed.
Commit(r) ==
  LET d == runs[r].doc IN
  /\ runs[r].pc = "commit"
  /\ docs' = [docs EXCEPT ![d] = [status |-> "extracted", read |-> runs[r].read,
                                  paid |-> runs[r].paid]]
  /\ exps' = WithLines(r)
  /\ comms' = IF runs[r].comm = 0 THEN comms
              ELSE [comms EXCEPT ![d][runs[r].comm] = Min({@ + 1, 2})]
  /\ deps' = Money(r)
  /\ runs' = [s \in Run |-> IF s = r THEN Fresh("free", AnyDoc)
                            ELSE [runs[s] EXCEPT !.sees = @ \ runs[r].sees]]
  /\ lost' = lost \cup (Gone(r) \ runs[r].paid)
  /\ UNCHANGED <<reqs, gap, events, raced>>

\* The model fails on the deposits of a PDF: the statement is committed without them.
DepositsFail(r) ==
  /\ runs[r].pc = "deposits" /\ runs[r].doc \notin Csv
  /\ Fault("deposits")
  /\ Set(r, [runs[r] EXCEPT !.pc = "commit", !.paid = {}])
  /\ UNCHANGED <<tables, reqs, gap, raced, lost>>

\* The broker refuses the message of a line, or the text cannot be had: the handler
\* of the error commits its status, and with it the lines written so far.
Fails(r) ==
  LET d == runs[r].doc IN
  /\ \/ /\ runs[r].pc = "lines" /\ runs[r].todo # {} /\ Fault("broker")
        /\ LET c == Charge[NextLine(r)] IN
             /\ c \in Unknown /\ ~Booked(r, c) /\ ~Inherits(r, c)
             /\ exps' = [WithLines(r) EXCEPT ![d][c] = [n |-> 1, user |-> FALSE]]
     \/ runs[r].pc = "started" /\ Fault("ocr") /\ DocFree(d) /\ UNCHANGED exps
  /\ docs' = IF Stored(d) THEN Shown(d, "error") ELSE docs
  /\ End(r)
  /\ UNCHANGED <<comms, deps, reqs, gap, raced, lost>>

\* A statement fails in the database: the handler fails as well, and nothing is kept.
Aborts(r) ==
  /\ Holds(r) /\ Fault("db") /\ End(r)
  /\ UNCHANGED <<tables, reqs, gap, raced, lost>>

\* The worker is lost: what it has not committed is gone, and the message comes again.
WorkerLost(r) ==
  /\ (Holds(r) \/ runs[r].pc = "started") /\ Fault("worker")
  /\ Set(r, Fresh("queued", runs[r].doc))
  /\ UNCHANGED <<tables, reqs, gap, raced, lost>>

-----------------------------------------------------------------------------
(* Requests *)

\* The rows a request is deleting
Locked(d) == UNION {reqs[q].sees : q \in {q \in Req : reqs[q].pc # "idle" /\ reqs[q].doc = d}}

\* mutant: a reprocess deletes the overridden rows with the others
DeletesOverridden(kind, d) == {c \in Charges : exps[d][c].n > 0}
\* delete_by_document, of a reprocess and of the deletion of the document
Deletes(kind, d) ==
  {c \in Charges : exps[d][c].n > 0 /\ (kind = "delete" \/ ~exps[d][c].user)}

\* The DELETE of the expenses, and then the update, or the deletion, of the document;
\* a commission is overridden from the start.
Begin(q, kind, d) ==
  /\ kind \in Ops \cap {"reprocess", "delete"}
  /\ reqs[q].pc = "idle" /\ Stored(d)
  /\ Deletes(kind, d) \cap Locked(d) = {}
  /\ reqs' = [reqs EXCEPT ![q] =
       [pc |-> kind, doc |-> d, sees |-> Deletes(kind, d),
        comms |-> IF kind = "delete" THEN {g \in Gap : comms[d][g] > 0} ELSE {}]]
  /\ Event
  /\ UNCHANGED <<tables, runs, gap, raced, lost>>

Finish(q) ==
  LET d == reqs[q].doc IN
  /\ reqs[q].pc # "idle"
  /\ DocFree(d)
  /\ exps' = [exps EXCEPT ![d] =
       [c \in Charges |-> IF c \in reqs[q].sees THEN NoRow ELSE @[c]]]
  /\ comms' = [comms EXCEPT ![d] = [g \in Gap |-> IF g \in reqs[q].comms THEN 0 ELSE @[g]]]
  /\ reqs' = [reqs EXCEPT ![q] = NoReq]
  /\ IF reqs[q].pc = "reprocess"
     THEN /\ docs' = IF Stored(d) THEN Shown(d, "pending") ELSE docs
          /\ Publish(d)
     ELSE docs' = Shown(d, "gone") /\ UNCHANGED runs
  /\ UNCHANGED <<deps, gap, events, raced, lost>>

\* override_category of a line
Override(d, c) ==
  /\ "override" \in Ops
  /\ exps[d][c].n > 0 /\ ~exps[d][c].user /\ c \notin Locked(d)
  /\ exps' = [exps EXCEPT ![d][c].user = TRUE]
  /\ Event
  /\ UNCHANGED <<docs, comms, deps, runs, reqs, gap, raced, lost>>

\* The orders of the platform change with a Toast sync.
SalesChange ==
  /\ "sales" \in Ops /\ gap < MaxGap
  /\ gap' = gap + 1
  /\ Event
  /\ UNCHANGED <<tables, runs, reqs, raced, lost>>

-----------------------------------------------------------------------------
RunStep(r) ==
  \/ Start(r) \/ Read(r) \/ BookLine(r) \/ LinesEnd(r) \/ Deposits(r) \/ Commit(r)

Next ==
  \/ \E r \in Run : RunStep(r) \/ DepositsFail(r) \/ Fails(r) \/ Aborts(r) \/ WorkerLost(r)
  \/ \E d \in Doc : Upload(d) \/ (\E c \in Charges : Override(d, c))
  \/ \E q \in Req : Finish(q) \/ \E d \in Doc : Begin(q, "reprocess", d) \/ Begin(q, "delete", d)
  \/ SalesChange

Spec == Init /\ [][Next]_vars

-----------------------------------------------------------------------------
(* Safety *)

\* Whatever is delivered again, reprocessed or deleted at once, a statement has one
\* row of a charge, and one commission of an amount.
LineBookedOnce ==
  \A d \in Doc : /\ \A c \in Charges : exps[d][c].n <= 1
                 /\ \A g \in Gap : comms[d][g] <= 1

\* A statement that is shown as extracted has a row of every line that was read.  A
\* request that deletes rows of it in the middle of a run is followed by another run.
ExtractedIsComplete ==
  \A d \in Doc : docs[d].status = "extracted" =>
    \A l \in docs[d].read : exps[d][Charge[l]].n > 0

\* ocr_process.py:776: a month that is uploaded again "replaces its money-in rows
\* rather than doubling revenue" - unless the runs of two uploads replace the same
\* days at the same time.
DepositCountedOnce ==
  \A i \in Inflow \ raced, d, e \in Doc :
    deps[d][i] <= 1 /\ (deps[d][i] > 0 /\ deps[e][i] > 0 => d = e)

\* A deposit of a statement that is stored stays stored, under that statement or
\* another, until the run of a statement that covers its day has not read it.
DepositStays ==
  \A d \in Doc : docs[d].status = "extracted" =>
    \A i \in docs[d].paid \ lost : \E e \in Doc : deps[e][i] > 0

\* The row of a charge that a user has overridden leaves the books with its document
\* only, and so does what was overridden from the start.
OverrideStays ==
  [][\A d \in Doc, c \in Charges :
       exps[d][c].n > 0 /\ exps[d][c].user =>
         \/ exps'[d][c].n > 0 /\ exps'[d][c].user
         \/ docs'[d].status = "gone"]_vars
=============================================================================
