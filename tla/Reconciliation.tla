---------------------------- MODULE Reconciliation ----------------------------
(***************************************************************************)
(* Reconciliation runs.  A run reads the expenses, flags what it finds in  *)
(* them, reads the bank side, flags what does not agree, copies the HST of *)
(* invoices to the bank lines that paid them, and completes.  Every query  *)
(* sees what is committed when it runs, and an expense that a flag names   *)
(* must still be there when the flag is inserted.                          *)
(*                                                                         *)
(* exps is where each expense is; what the expenses are is constant, and a *)
(* document stays when its expenses are deleted.                           *)
(***************************************************************************)
EXTENDS Naturals, FiniteSetsExt

CONSTANTS
  Exp,        \* expenses (ids are never used twice)
  Run,        \* reconciliation_runs
  Kind,       \* "line" (of a bank statement), "invoice", "payroll" or "royalty"
  NoExp,      \* what a flag names that is about no expense
  DocOf,      \* the document of each expense
  Itemized,   \* statements whose lines are stored as line items; those of a CSV are not
  Vendor,
  Franchise,  \* expenses whose vendor is the franchisor
  Atomic,     \* expenses whose document names one invoice of the franchisor
  Amount,     \* amounts that agree within the tolerance are one amount
  Outlier,    \* expenses far from what their vendor charges,
  MinSamples, \* once it has charged so often
  DayOf,      \* the day each expense was booked
  SaleDay,    \* days with sales
  Uncategorized,  \* expenses without a category
  Taxed,      \* invoices with HST
  PushTotal,  \* what PushOperations says the labor of the period cost
  Ops,        \* what happens: "book", "delete", "resolve"
  Faults,     \* which of "api", "error", "db" and "worker" may fail
  MaxEvents   \* bound on changes of the books and faults together

ASSUME ReconciliationAssumption ==
  /\ Kind \in [Exp -> {"line", "invoice", "payroll", "royalty"}]
  /\ IsFiniteSet(Exp) /\ IsFiniteSet(SaleDay)
  /\ NoExp \notin Exp /\ SaleDay \cap (Exp \cup {NoExp}) = {}
  /\ Amount \in [Exp -> Nat] /\ MinSamples \in Nat
  /\ \A e, f \in Exp : DocOf[e] = DocOf[f] => (Kind[e] = "line" <=> Kind[f] = "line")
  /\ Uncategorized \subseteq Exp /\ Taxed \subseteq Exp
  /\ PushTotal \in Nat /\ MaxEvents \in Nat
  /\ Ops \subseteq {"book", "delete", "resolve"}

VARIABLES
  exps,     \* expenses: not booked yet, in the books, or removed
  hst,      \* bank lines that have been given the HST of an invoice
  runs,     \* reconciliation_runs, and the delivery that executes each of them
  flags,    \* reconciliation_flags: how many of each finding of each run
  settled,  \* the findings of each run that a user has resolved
  events,
  ever, steady,  \* history: what has been wrong at a time, and at every time, of a run
  broken,   \* history: runs whose session the database has broken
  again     \* history: runs delivered again after they had ended

vars == <<exps, hst, runs, flags, settled, events, ever, steady, broken, again>>
history == <<ever, steady, broken, again>>

-----------------------------------------------------------------------------
(* What is wrong with the expenses E, of the documents whose rows are D *)

InBooks == {e \in Exp : exps[e] = "live"}
Arrived == {e \in Exp : exps[e] # "none"}

Lines(E) == {e \in E : Kind[e] = "line"}
Same(e, f) == Vendor[e] = Vendor[f] /\ Amount[e] = Amount[f]
Total(E) == MapThenSumSet(LAMBDA e : Amount[e], E)

AboutExpense == {"duplicate_expense", "uncategorized_expense", "suspicious_amount",
                 "unverified", "duplicate_bank_draw"}
AboutPeriod  == {"franchise_spend_bank_variance", "push_labor_bank_variance"}
Finding == AboutExpense \X Exp \cup AboutPeriod \X {NoExp} \cup {"unmatched_sale"} \X SaleDay
Is(type, S) == {type} \X S
Whether(type, wrong) == IF wrong THEN {<<type, NoExp>>} ELSE {}

Suspicious(E) ==
  {e \in E \cap Outlier : Cardinality({f \in E : Vendor[f] = Vendor[e]}) >= MinSamples}

\* More than one of a document, those without a category, and those of an odd amount
WrongInBooks(E) ==
  Is("duplicate_expense", {e \in E : \E f \in E \ {e} : DocOf[e] = DocOf[f]})
    \cup Is("uncategorized_expense", E \cap Uncategorized)
    \cup Is("suspicious_amount", Suspicious(E))

\* The amounts that the line items of statements have
Debits(D) == {Amount[l] : l \in {l \in Lines(D) : DocOf[l] \in Itemized}}

\* Once there is a statement: those of these kinds that no debit has paid
Unverified(E, D, kinds) ==
  Is("unverified", {e \in E : Lines(D) # {} /\ Kind[e] \in kinds /\ Amount[e] \notin Debits(D)})

\* Days with sales on which nothing was booked
UnmatchedSales(E) == Is("unmatched_sale", SaleDay \ {DayOf[e] : e \in E})

FranchisePaper(E) == (E \cap Franchise) \ Lines(E)

\* The invoices of the franchisor, P, do not add up to what the bank has paid it.
FranchiseVariance(P, E) ==
  LET invoiced == Total(P \cap Atomic)
      paid     == Total(Franchise \cap Lines(E))
  IN Whether("franchise_spend_bank_variance", invoiced > 0 /\ paid > 0 /\ invoiced # paid)

\* The first line of each charge the bank has drawn more than once
DoubleDraws(E) ==
  Is("duplicate_bank_draw",
     {CHOOSE f \in Lines(E) : Same(e, f) :
        e \in {e \in Lines(E) : \E f \in Lines(E) \ {e} : Same(e, f)}})

\* The payroll of the period is not what PushOperations says.
LaborVariance(E, D) ==
  LET payroll == Total({e \in E : Kind[e] = "payroll"}) IN
  Whether("push_labor_bank_variance", Lines(D) # {} /\ payroll > 0 /\ payroll # PushTotal)

\* What the last queries show, after those of the expenses E, the documents D, and the
\* invoices P of the franchisor
WrongAtBank(E, D, P) ==
  FranchiseVariance(P, InBooks) \cup LaborVariance(InBooks, D) \cup UnmatchedSales(E)
    \cup DoubleDraws(InBooks) \cup Unverified(E, D, {"invoice"})

\* What is wrong at one time
Wrong(E, D) ==
  WrongInBooks(E) \cup Unverified(E, D, {"invoice", "payroll", "royalty"})
    \cup FranchiseVariance(FranchisePaper(E), E) \cup LaborVariance(E, D)
    \cup UnmatchedSales(E) \cup DoubleDraws(E)

-----------------------------------------------------------------------------
RunRow == [status : {"none", "pending", "running", "complete", "failed"}, raised : Nat,
           pc : {"idle", "trigger", "queued", "started", "read", "flagged", "bank",
                 "verified", "paper", "lines", "done", "acking"},
           read : SUBSET Exp, docs : SUBSET Exp, paper : SUBSET Exp,
           found : SUBSET Finding, new : SUBSET Finding]

TypeOK ==
  /\ exps \in [Exp -> {"none", "live", "gone"}]
  /\ hst \subseteq Exp
  /\ runs \in [Run -> RunRow]
  /\ flags \in [Run -> [Finding -> 0..2]]
  /\ settled \in [Run -> SUBSET Finding]
  /\ events \in 0..MaxEvents

NewRun == [status |-> "none", raised |-> 0, pc |-> "idle", read |-> {}, docs |-> {},
           paper |-> {}, found |-> {}, new |-> {}]

Init ==
  /\ exps \in [Exp -> {"none", "live"}]
  /\ hst = {} /\ events = 0 /\ broken = {} /\ again = {}
  /\ runs = [r \in Run |-> NewRun]
  /\ flags = [r \in Run |-> [f \in Finding |-> 0]]
  /\ settled = [r \in Run |-> {}]
  /\ ever = [r \in Run |-> {}] /\ steady = [r \in Run |-> {}]

Event       == events < MaxEvents /\ events' = events + 1
Fault(kind) == kind \in Faults /\ Event

Executing(r) == runs[r].pc \notin {"idle", "trigger", "queued", "acking"}

\* A delivery that ends, having read and written nothing it has not committed
At(r, pc, status) ==
  [runs EXCEPT ![r] = [NewRun EXCEPT !.pc = pc, !.status = status, !.raised = runs[r].raised]]

-----------------------------------------------------------------------------
(* The run *)

\* trigger_reconciliation and the weekly task: the row is committed ...
Trigger(r) ==
  /\ runs[r].status = "none"
  /\ runs' = At(r, "trigger", "pending")
  /\ UNCHANGED <<exps, hst, flags, settled, events, history>>

\* ... and the message sent, unless the process is lost between the two.
Publish(r) ==
  /\ runs[r].pc = "trigger"
  /\ runs' = At(r, "queued", "pending")
  /\ UNCHANGED <<exps, hst, flags, settled, events, history>>
TriggerLost(r) ==
  /\ runs[r].pc = "trigger" /\ Fault("api")
  /\ runs' = At(r, "idle", "pending")
  /\ UNCHANGED <<exps, hst, flags, settled, history>>

Begin(r, status) ==
  /\ runs[r].pc = "queued"
  /\ runs' = At(r, "started", status)
  /\ ever' = [ever EXCEPT ![r] = @ \cup Wrong(InBooks, Arrived)]
  /\ steady' = [steady EXCEPT ![r] = Wrong(InBooks, Arrived)]
  /\ again' = IF runs[r].status \in {"complete", "failed"} THEN again \cup {r} ELSE again
  /\ UNCHANGED <<exps, hst, flags, settled, events, broken>>
\* mutant: only a pending run is started
StartPending(r) == runs[r].status = "pending" /\ Begin(r, "running")
\* start_run
Start(r) == Begin(r, "running")

\* _load_expenses; then the flags of what they show, each of an expense that is there
ReadBooks(r) ==
  /\ runs[r].pc = "started"
  /\ runs' = [runs EXCEPT ![r].pc = "read", ![r].read = InBooks,
                          ![r].found = WrongInBooks(InBooks)]
  /\ UNCHANGED <<exps, hst, flags, settled, events, history>>

\* mutant: a flag names an expense without a foreign key
InsertableAnyway(F) == TRUE
Insertable(F) == \A f \in F : f[2] \in Exp => f[2] \in InBooks

\* create_flag for what has been found
Insert(r, from, to) ==
  /\ runs[r].pc = from
  /\ Insertable(runs[r].found)
  /\ runs' = [runs EXCEPT ![r].pc = to, ![r].new = @ \cup runs[r].found, ![r].found = {}]
  /\ UNCHANGED <<exps, hst, flags, settled, events, history>>
FlagBooks(r) == Insert(r, "read", "flagged")

\* _load_bank_debit_amounts, and the payrolls and royalties that are not among them
ReadBank(r) ==
  /\ runs[r].pc = "flagged"
  /\ runs' = [runs EXCEPT ![r].pc = "bank", ![r].docs = Arrived,
                 ![r].found = Unverified(runs[r].read, Arrived, {"payroll", "royalty"})]
  /\ UNCHANGED <<exps, hst, flags, settled, events, history>>
FlagBank(r) == Insert(r, "bank", "verified")

\* _load_franchise_totals: the invoices, in a query before that of the bank lines
ReadPaper(r) ==
  /\ runs[r].pc = "verified"
  /\ runs' = [runs EXCEPT ![r].pc = "paper", ![r].paper = FranchisePaper(InBooks)]
  /\ UNCHANGED <<exps, hst, flags, settled, events, history>>

\* The bank lines, and the flags of what disagrees
ReadLines(r) ==
  /\ runs[r].pc = "paper"
  /\ runs' = [runs EXCEPT ![r].pc = "lines",
                 ![r].found = WrongAtBank(runs[r].read, runs[r].docs, runs[r].paper)]
  /\ UNCHANGED <<exps, hst, flags, settled, events, history>>
FlagLines(r) == Insert(r, "lines", "done")

\* mutant: a run that has flags gets no more
WithNewOnce(r) ==
  [flags EXCEPT ![r] =
     [f \in Finding |-> IF \A g \in Finding : @[g] = 0
                        THEN IF f \in runs[r].new THEN 1 ELSE 0 ELSE @[f]]]
\* The flags a run has inserted, as a commit stores them
WithNew(r) ==
  [flags EXCEPT ![r] =
     [f \in Finding |-> Min({@[f] + (IF f \in runs[r].new THEN 1 ELSE 0), 2})]]

\* propagate_hst_to_bank_expenses: the lines a document with HST has the amount of
Propagated == {e \in Lines(InBooks) : \E i \in Arrived \cap Taxed : Amount[i] = Amount[e]}

\* mutant: the counter starts again at the bank side
RaisedAtBank(r) == Cardinality(runs[r].new \ WrongInBooks(runs[r].read))
Raised(r) == Cardinality(runs[r].new)

\* complete_run
Complete(r) ==
  /\ runs[r].pc = "done"
  /\ flags' = WithNew(r)
  /\ hst' = hst \cup Propagated
  /\ runs' = [At(r, "acking", "complete") EXCEPT ![r].raised = Raised(r)]
  /\ UNCHANGED <<exps, settled, events, history>>

Ack(r) ==
  /\ runs[r].pc = "acking"
  /\ runs' = At(r, "idle", runs[r].status)
  /\ UNCHANGED <<exps, hst, flags, settled, events, history>>

\* An error of the program: fail_run commits the flags so far with the status.
Fail(r) ==
  /\ Executing(r) /\ Fault("error")
  /\ flags' = WithNew(r)
  /\ runs' = At(r, "acking", "failed")
  /\ UNCHANGED <<exps, hst, settled, history>>

\* A flag of an expense that is gone, or a failure of the database: fail_run fails in
\* the broken session, nothing is stored, and the run stays as it was.
Break(r) ==
  /\ \/ runs[r].pc \in {"read", "bank", "lines"} /\ ~Insertable(runs[r].found) /\ UNCHANGED events
     \/ Executing(r) /\ Fault("db")
  /\ runs' = At(r, "idle", "running")
  /\ broken' = broken \cup {r}
  /\ UNCHANGED <<exps, hst, flags, settled, ever, steady, again>>

\* mutant: the message is acknowledged when it is taken
WorkerLostEarlyAck(r) ==
  /\ Executing(r) \/ runs[r].pc = "acking"
  /\ Fault("worker")
  /\ runs' = At(r, "idle", runs[r].status)
  /\ UNCHANGED <<exps, hst, flags, settled, history>>
\* The worker is lost, at worst between the last commit and the acknowledgement.
WorkerLost(r) ==
  /\ Executing(r) \/ runs[r].pc = "acking"
  /\ Fault("worker")
  /\ runs' = At(r, "queued", runs[r].status)
  /\ UNCHANGED <<exps, hst, flags, settled, history>>

-----------------------------------------------------------------------------
(* The books, and the user *)

\* After a change of the books: what has become wrong, and what is still wrong
Change ==
  LET now == Wrong(InBooks', Arrived') IN
  /\ ever' = [r \in Run |-> IF Executing(r) THEN ever[r] \cup now ELSE ever[r]]
  /\ steady' = [r \in Run |-> IF Executing(r) THEN steady[r] \cap now ELSE steady[r]]

\* A document is booked, with all of its rows.
Book(d) ==
  LET new == {e \in Exp : DocOf[e] = d /\ exps[e] = "none"} IN
  /\ "book" \in Ops /\ new # {} /\ Event
  /\ exps' = [e \in Exp |-> IF e \in new THEN "live" ELSE exps[e]]
  /\ Change
  /\ UNCHANGED <<hst, runs, flags, settled, broken, again>>

\* An expense is deleted, which waits for the flags of it that are not committed.
Delete(e) ==
  /\ "delete" \in Ops /\ exps[e] = "live" /\ Event
  /\ \A r \in Run, f \in Finding : f \in runs[r].new => f[2] # e
  /\ exps' = [exps EXCEPT ![e] = "gone"]
  /\ hst' = hst \ {e}
  /\ Change
  /\ UNCHANGED <<runs, flags, settled, broken, again>>

\* resolve_flag
Resolve(r, f) ==
  /\ "resolve" \in Ops /\ Event
  /\ flags[r][f] > 0 /\ f \notin settled[r]
  /\ settled' = [settled EXCEPT ![r] = @ \cup {f}]
  /\ UNCHANGED <<exps, hst, runs, flags, history>>

-----------------------------------------------------------------------------
RunStep(r) ==
  \/ Publish(r) \/ Start(r) \/ ReadBooks(r) \/ FlagBooks(r) \/ ReadBank(r) \/ FlagBank(r)
  \/ ReadPaper(r) \/ ReadLines(r) \/ FlagLines(r) \/ Complete(r) \/ Ack(r) \/ Break(r)

Next ==
  \/ \E r \in Run : \/ RunStep(r) \/ Trigger(r) \/ TriggerLost(r) \/ Fail(r) \/ WorkerLost(r)
                    \/ \E f \in Finding : Resolve(r, f)
  \/ \E e \in Exp : Book(DocOf[e]) \/ Delete(e)

Spec == Init /\ [][Next]_vars

\* The worker executes what is queued, and a request goes on.
Fairness == \A r \in Run : WF_vars(RunStep(r))
FairSpec == Spec /\ Fairness

-----------------------------------------------------------------------------
(* Safety *)

\* But for the variance of the franchisor, which compares what two queries have seen
Flagged(r) == {f \in Finding : flags[r][f] > 0}
Coherent   == {f \in Finding : f[1] # "franchise_spend_bank_variance"}

\* engine.py:72-470: the reads of a run are not one snapshot, and still a flag of a run
\* was true at some time of the run.
FlagsWereTrue == \A r \in Run : Flagged(r) \cap Coherent \subseteq ever[r]

\* A completed run has flagged everything that was wrong from its start to its end.
NothingMissed ==
  \A r \in Run : runs[r].pc = "acking" /\ runs[r].status = "complete"
    => steady[r] \cap Coherent \subseteq Flagged(r)

\* The rows of a run
Stored(r) == {x \in Finding \X (1..2) : x[2] <= flags[r][x[1]]}

\* A completed run has stored as many flags as it says, unless it was delivered again
\* after it had ended: then it has stored more.
RaisedIsStored ==
  \A r \in Run : runs[r].status = "complete" =>
    IF r \in again THEN runs[r].raised <= Cardinality(Stored(r))
    ELSE runs[r].raised = Cardinality(Stored(r))

\* A run that is shown as running is being executed, or will be, unless its session broke.
RunningIsExecuted ==
  \A r \in Run : runs[r].status = "running" => runs[r].pc # "idle" \/ r \in broken

-----------------------------------------------------------------------------
(* Liveness, under FairSpec *)

\* A run whose message was sent ends, through lost workers, unless its session breaks.
RunEnds ==
  \A r \in Run :
    runs[r].pc = "queued" ~> (runs[r].status \in {"complete", "failed"} \/ r \in broken)
=============================================================================
