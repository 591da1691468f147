---------------------------- MODULE Categorization ----------------------------
(***************************************************************************)
(* The category of an expense: booked by an OCR task, a request or a line  *)
(* of a bank statement, suggested by a categorize_expense task (a keyword  *)
(* of the vendor, or the language model), and overridden by a user.        *)
(*                                                                         *)
(* The task and the override request read the row, work on what they read, *)
(* and flush: SQLAlchemy updates the columns whose new value differs from  *)
(* the one read, and no other.  exps holds the rows, those a statement has *)
(* written and not committed marked "open"; a step ends at a commit, at a  *)
(* call to the broker, or between a read and a write.                      *)
(***************************************************************************)
EXTENDS Naturals

CONSTANTS
  Exp,        \* Expense rows (ids are never used twice)
  Msg,        \* messages on the ai queue; a consumed one is used again
  Req,        \* requests, and OCR tasks that have an expense to send
  Category,   \* EXPENSE_CATEGORIES
  NonPnl,     \* NON_PNL_CATEGORIES
  Misc,       \* "Miscellaneous"
  NoCat,      \* NULL
  NoExp,      \* no expense
  Keyword,    \* keyword_category of each expense, NoCat where no keyword matches
  Answers,    \* what the model may answer
  Ops,        \* what happens in this instance
  Faults,     \* which of "ai", "worker", "request" and "statement" may fail
  MaxFaults   \* bound on the number of faults other than "ai"

ASSUME CategorizationAssumption ==
  /\ NonPnl \subseteq Category
  /\ Misc \in Category \ NonPnl
  /\ NoCat \notin Category
  /\ NoExp \notin Exp
  /\ Keyword \in [Exp -> (Category \ NonPnl) \cup {NoCat}]
  /\ MaxFaults \in Nat
  /\ Ops \subseteq {"book", "bank", "override", "recategorize", "remove"}

VARIABLES
  exps,    \* the expenses table
  msgs,    \* the messages and the deliveries that run them
  reqs,    \* requests between two steps
  faults,  \* faults so far
  chosen   \* history: the category a user last set on each expense

vars == <<exps, msgs, reqs, faults, chosen>>

-----------------------------------------------------------------------------
MaybeCategory == Category \cup {NoCat}

\* The columns of a row that this module is about
Columns == [category : MaybeCategory, suggested : MaybeCategory, ai : BOOLEAN,
            overridden : BOOLEAN]
ExpRow  == [row : {"none", "open", "live", "gone"}, cols : Columns]
MsgRow  == [pc : {"free", "queued", "asked"}, exp : Exp \cup {NoExp}, seen : Columns]
ReqRow  == [pc : {"idle", "publish", "override"}, rows : SUBSET Exp,
            exp : Exp \cup {NoExp}, seen : Columns]

TypeOK ==
  /\ exps \in [Exp -> ExpRow]
  /\ msgs \in [Msg -> MsgRow]
  /\ reqs \in [Req -> ReqRow]
  /\ faults \in 0..MaxFaults
  /\ chosen \in [Exp -> MaybeCategory]

Blank      == [category |-> NoCat, suggested |-> NoCat, ai |-> FALSE, overridden |-> FALSE]
ByRule(c)  == [Blank EXCEPT !.category = c]
ByUser(c)  == [Blank EXCEPT !.category = c, !.overridden = TRUE]
ByModel(c) == [category |-> c, suggested |-> c, ai |-> TRUE, overridden |-> FALSE]

Row(row, cols)   == [row |-> row, cols |-> cols]
FreeMsg          == [pc |-> "free", exp |-> NoExp, seen |-> Blank]
Queued(e)        == [FreeMsg EXCEPT !.pc = "queued", !.exp = e]
Idle             == [pc |-> "idle", rows |-> {}, exp |-> NoExp, seen |-> Blank]
Publishing(S)    == [Idle EXCEPT !.pc = "publish", !.rows = S]
Overriding(e, s) == [Idle EXCEPT !.pc = "override", !.exp = e, !.seen = s]

Init ==
  /\ exps = [e \in Exp |-> Row("none", Blank)]
  /\ msgs = [m \in Msg |-> FreeMsg]
  /\ reqs = [r \in Req |-> Idle]
  /\ faults = 0
  /\ chosen = [e \in Exp |-> NoCat]

-----------------------------------------------------------------------------
Fault(kind) == kind \in Faults /\ faults < MaxFaults /\ faults' = faults + 1

Live(e) == exps[e].row = "live"

\* The flush of an object: the columns that differ from what was read
Flushed(seen, new, stored) ==
  [category   |-> IF new.category = seen.category THEN stored.category ELSE new.category,
   suggested  |-> IF new.suggested = seen.suggested THEN stored.suggested ELSE new.suggested,
   ai         |-> IF new.ai = seen.ai THEN stored.ai ELSE new.ai,
   overridden |-> IF new.overridden = seen.overridden THEN stored.overridden
                                                      ELSE new.overridden]

\* categorize_expense.apply_async
Publish(e) ==
  \E m \in Msg : msgs[m].pc = "free" /\ msgs' = [msgs EXCEPT ![m] = Queued(e)]

-----------------------------------------------------------------------------
(* Booking *)

\* An OCR task or a manual expense without a category: the row is committed, and
\* then the message is sent.
Book(r, e) ==
  /\ "book" \in Ops
  /\ reqs[r].pc = "idle" /\ exps[e].row = "none"
  /\ exps' = [exps EXCEPT ![e] = Row("live", Blank)]
  /\ reqs' = [reqs EXCEPT ![r] = Publishing({e})]
  /\ UNCHANGED <<msgs, faults, chosen>>

\* A manual expense with a category
BookCategorized(e, c) ==
  /\ "book" \in Ops
  /\ exps[e].row = "none"
  /\ exps' = [exps EXCEPT ![e] = Row("live", ByUser(c))]
  /\ chosen' = [chosen EXCEPT ![e] = c]
  /\ UNCHANGED <<msgs, reqs, faults>>

\* _extract_bank_statement_expenses: a line with a category a user gave the same
\* charge before (prior_user_override) or with the vehicle's; the rent and the
\* payroll; a line with a keyword; any other, whose message is sent at once.
BankLineByUser(e, c) ==
  /\ exps' = [exps EXCEPT ![e] = Row("open", ByUser(c))]
  /\ chosen' = [chosen EXCEPT ![e] = c]
  /\ UNCHANGED msgs
BankLineByRule(e) ==
  /\ Keyword[e] # NoCat
  /\ \E cols \in {ByRule(Keyword[e]), ByModel(Keyword[e])} :
       exps' = [exps EXCEPT ![e] = Row("open", cols)]
  /\ UNCHANGED <<msgs, chosen>>
BankLineUnknown(e) ==
  /\ Keyword[e] = NoCat
  /\ exps' = [exps EXCEPT ![e] = Row("open", Blank)]
  /\ Publish(e)
  /\ UNCHANGED chosen

BankLine(e) ==
  /\ "bank" \in Ops
  /\ exps[e].row = "none"
  /\ (\E c \in Category : BankLineByUser(e, c)) \/ BankLineByRule(e) \/ BankLineUnknown(e)
  /\ UNCHANGED <<reqs, faults>>

Open == {e \in Exp : exps[e].row = "open"}

\* The statement is committed, or its task dies and its lines are rolled back.
BankEnd(row) ==
  /\ Open # {}
  /\ exps' = [e \in Exp |-> IF e \in Open THEN [exps[e] EXCEPT !.row = row] ELSE exps[e]]
BankCommit == BankEnd("live") /\ UNCHANGED <<msgs, reqs, faults, chosen>>
BankAbort  == BankEnd("gone") /\ Fault("statement") /\ UNCHANGED <<msgs, reqs, chosen>>

-----------------------------------------------------------------------------
(* Requests *)

\* trigger_recategorize for one expense, trigger_recategorize_all for every one
\* without a category
Recategorize(r, S) ==
  /\ "recategorize" \in Ops
  /\ reqs[r].pc = "idle"
  /\ reqs' = [reqs EXCEPT ![r] = Publishing(S)]
  /\ UNCHANGED <<exps, msgs, faults, chosen>>
RecategorizeOne(r, e) == Live(e) /\ Recategorize(r, {e})
RecategorizeAll(r) ==
  Recategorize(r, {e \in Exp : Live(e) /\ exps[e].cols.category = NoCat})

PublishNext(r, e) ==
  /\ reqs[r].pc = "publish" /\ e \in reqs[r].rows
  /\ Publish(e)
  /\ reqs' = [reqs EXCEPT ![r].rows = @ \ {e}]
  /\ UNCHANGED <<exps, faults, chosen>>
PublishEnd(r) ==
  /\ reqs[r].pc = "publish" /\ reqs[r].rows = {}
  /\ reqs' = [reqs EXCEPT ![r] = Idle]
  /\ UNCHANGED <<exps, msgs, faults, chosen>>

\* The process dies, or the broker refuses a message.
RequestLost(r) ==
  /\ reqs[r].pc # "idle"
  /\ Fault("request")
  /\ reqs' = [reqs EXCEPT ![r] = Idle]
  /\ UNCHANGED <<exps, msgs, chosen>>

\* override_category, to its first read and from there to its commit
OverrideBegin(r, e) ==
  /\ "override" \in Ops
  /\ reqs[r].pc = "idle" /\ Live(e)
  /\ reqs' = [reqs EXCEPT ![r] = Overriding(e, exps[e].cols)]
  /\ UNCHANGED <<exps, msgs, faults, chosen>>
OverrideEnd(r, c) ==
  LET e   == reqs[r].exp
      new == [reqs[r].seen EXCEPT !.category = c, !.overridden = TRUE]
  IN
  /\ reqs[r].pc = "override"
  /\ IF Live(e)
     THEN /\ exps' = [exps EXCEPT ![e].cols = Flushed(reqs[r].seen, new, exps[e].cols)]
          /\ chosen' = [chosen EXCEPT ![e] = c]
     ELSE UNCHANGED <<exps, chosen>>
  /\ reqs' = [reqs EXCEPT ![r] = Idle]
  /\ UNCHANGED <<msgs, faults>>

\* delete_expense, delete_in_range, and the deletion of a document
Remove(e) ==
  /\ "remove" \in Ops
  /\ Live(e)
  /\ exps' = [exps EXCEPT ![e].row = "gone"]
  /\ UNCHANGED <<msgs, reqs, faults, chosen>>

-----------------------------------------------------------------------------
(* categorize_expense *)

\* The expense is read; one that is not there ends the task.
TaskRead(m) ==
  /\ msgs[m].pc = "queued"
  /\ msgs' = [msgs EXCEPT ![m] =
       IF Live(msgs[m].exp) THEN [@ EXCEPT !.pc = "asked", !.seen = exps[msgs[m].exp].cols]
                            ELSE FreeMsg]
  /\ UNCHANGED <<exps, reqs, faults, chosen>>

\* _parse_response
Parsed(answer) == IF answer \in Category THEN answer ELSE Misc

\* mutant: the model is asked first, the keyword is the fallback
ResultsModelFirst(e) ==
  {Parsed(a) : a \in Answers} \cup {IF Keyword[e] # NoCat THEN Keyword[e] ELSE Misc}
\* CategorizationService.categorize
Results(e) ==
  IF Keyword[e] # NoCat THEN {Keyword[e]}
  ELSE {Parsed(a) : a \in Answers} \cup (IF "ai" \in Faults THEN {Misc} ELSE {})

\* mutant: the override of the user is not looked at
SuggestOverOverride(seen, c) == [seen EXCEPT !.suggested = c, !.ai = TRUE, !.category = c]
\* apply_ai_categorization, on the object that was read
Suggest(seen, c) ==
  [seen EXCEPT !.suggested = c, !.ai = TRUE,
               !.category = IF seen.overridden THEN @ ELSE c]

\* The suggestion is flushed and committed; the flush of a row that is gone fails.
TaskApply(m) ==
  LET e == msgs[m].exp IN
  /\ msgs[m].pc = "asked"
  /\ \E c \in Results(e) :
       exps' = IF Live(e)
               THEN [exps EXCEPT ![e].cols =
                       Flushed(msgs[m].seen, Suggest(msgs[m].seen, c), @)]
               ELSE exps
  /\ msgs' = [msgs EXCEPT ![m] = FreeMsg]
  /\ UNCHANGED <<reqs, faults, chosen>>

\* mutant: the message is acknowledged when it is taken
WorkerLostEarlyAck(m) ==
  /\ msgs[m].pc = "asked"
  /\ Fault("worker")
  /\ msgs' = [msgs EXCEPT ![m] = FreeMsg]
  /\ UNCHANGED <<exps, reqs, chosen>>

\* task_acks_late: the message is delivered again.
WorkerLost(m) ==
  /\ msgs[m].pc = "asked"
  /\ Fault("worker")
  /\ msgs' = [msgs EXCEPT ![m] = Queued(msgs[m].exp)]
  /\ UNCHANGED <<exps, reqs, chosen>>

-----------------------------------------------------------------------------
TaskStep(m) == TaskRead(m) \/ TaskApply(m)

RequestContinues(r) ==
  \/ PublishEnd(r)
  \/ \E e \in Exp : PublishNext(r, e)
  \/ \E c \in Category : OverrideEnd(r, c)

Next ==
  \/ \E e \in Exp : BankLine(e) \/ Remove(e) \/ (\E c \in Category : BookCategorized(e, c))
  \/ BankCommit \/ BankAbort
  \/ \E r \in Req : \/ RequestContinues(r) \/ RecategorizeAll(r) \/ RequestLost(r)
                    \/ \E e \in Exp : Book(r, e) \/ RecategorizeOne(r, e) \/ OverrideBegin(r, e)
  \/ \E m \in Msg : TaskStep(m) \/ WorkerLost(m)

Spec == Init /\ [][Next]_vars

\* Workers run the messages; requests and statements that began go on.
Fairness ==
  /\ \A m \in Msg : WF_vars(TaskStep(m))
  /\ \A r \in Req : WF_vars(RequestContinues(r))
  /\ WF_vars(BankCommit)

FairSpec == Spec /\ Fairness

-----------------------------------------------------------------------------
(* Safety *)

\* A row the model has categorized and no user has overridden shows the category
\* that was suggested, however many runs of it overlap: the flush of a run writes
\* both columns or neither.
SuggestionApplied ==
  \A e \in Exp :
    exps[e].cols.ai /\ ~exps[e].cols.overridden
      => exps[e].cols.category = exps[e].cols.suggested

\* A run that read the row after the override of a user leaves its category alone.
LaterRunsKeepOverride ==
  [][\A e \in Exp :
       exps[e].cols.overridden /\ exps'[e].cols.category # exps[e].cols.category =>
         \/ \E m \in Msg : msgs[m].exp = e /\ msgs[m].pc = "asked" /\ ~msgs[m].seen.overridden
         \/ \E r \in Req, c \in Category : reqs[r].exp = e /\ OverrideEnd(r, c)]_vars

-----------------------------------------------------------------------------
(* The inductive invariant of the safety proofs *)

\* What the columns of a row of e, stored or read, say of each other while no user
\* has overridden it
Sound(e, cols) ==
  ~cols.overridden =>
    /\ IF cols.ai THEN cols.category = cols.suggested
       ELSE cols.suggested = NoCat /\ cols.category \in {NoCat, Keyword[e]}
    /\ Keyword[e] # NoCat => cols.category \in {NoCat, Keyword[e]}

\* What was read of e is a committed row, and the stored one is no older: no
\* handler takes an override, a suggestion or a category back.
SeenStands(e, seen) ==
  /\ e \in Exp /\ exps[e].row \in {"live", "gone"}
  /\ Sound(e, seen)
  /\ seen.overridden => exps[e].cols.overridden
  /\ seen.ai => exps[e].cols.ai
  /\ seen.category # NoCat => exps[e].cols.category # NoCat

RowsSound ==
  \A e \in Exp : /\ Sound(e, exps[e].cols)
                 /\ exps[e].row = "none" => exps[e].cols = Blank

MsgsStand ==
  \A m \in Msg : /\ msgs[m].pc # "free" => msgs[m].exp \in Exp
                 /\ msgs[m].pc = "asked" => SeenStands(msgs[m].exp, msgs[m].seen)

ReqsStand == \A r \in Req : reqs[r].pc = "override" => SeenStands(reqs[r].exp, reqs[r].seen)

\* What the overlapping flushes of tasks and overrides preserve of a row and of
\* what each of them has read of it; behind SuggestionApplied
ColumnsInv == TypeOK /\ RowsSound /\ MsgsStand /\ ReqsStand

-----------------------------------------------------------------------------
(* Liveness, under FairSpec *)

\* Once the message of a stored expense is published the expense gets a category,
\* through failures of the model and lost workers, unless it is removed.
MessageCategorizes ==
  \A e \in Exp :
    (Live(e) /\ \E m \in Msg : msgs[m].exp = e)
      ~> (~Live(e) \/ exps[e].cols.category # NoCat)

-----------------------------------------------------------------------------
(* What the repository says and the code does not do *)

\* expense_repo.py:250-251: "Only a real user override (user_overridden=True) is
\* protected from being clobbered."
OverrideStands ==
  \A e \in Exp : Live(e) /\ exps[e].cols.overridden => exps[e].cols.category = chosen[e]

=============================================================================
