------------------------- MODULE CategorizationProofs -------------------------
(***************************************************************************)
(* Proofs about Categorization for any expenses, messages, requests and    *)
(* categories, any keywords and any answers of the model.                  *)
(***************************************************************************)
EXTENDS Categorization, TLAPS

-----------------------------------------------------------------------------
(* Columns *)

\* Every answer becomes a category the books know, the keyword's if there is one.
LEMMA ResultsKnown ==
  ASSUME NEW e \in Exp, NEW c \in Results(e)
  PROVE  c \in Category /\ c # NoCat /\ (Keyword[e] # NoCat => c = Keyword[e])
BY CategorizationAssumption DEF Results, Parsed

\* The columns a booking starts with
LEMMA NewColumns ==
  /\ Blank \in Columns
  /\ \A c \in Category : ByRule(c) \in Columns /\ ByUser(c) \in Columns /\ ByModel(c) \in Columns
  /\ \A e \in Exp : Sound(e, Blank)
  /\ \A e \in Exp, c \in Category : Sound(e, ByUser(c))
  /\ \A e \in Exp : Sound(e, ByRule(Keyword[e])) /\ Sound(e, ByModel(Keyword[e]))
BY CategorizationAssumption
   DEF Blank, ByRule, ByUser, ByModel, Columns, MaybeCategory, Sound

\* A flush stores columns again.
LEMMA FlushedTypes ==
  ASSUME NEW seen \in Columns, NEW new \in Columns, NEW stored \in Columns
  PROVE  Flushed(seen, new, stored) \in Columns
BY DEF Flushed, Columns

\* The flush of a suggestion on a row that others have flushed since it was read:
\* the columns agree, and nothing is taken back.
LEMMA SuggestFlush ==
  ASSUME NEW e \in Exp, NEW seen \in Columns, NEW stored \in Columns, NEW c \in Results(e),
         Sound(e, seen), Sound(e, stored),
         seen.overridden => stored.overridden,
         seen.ai => stored.ai,
         seen.category # NoCat => stored.category # NoCat
  PROVE  LET x == Flushed(seen, Suggest(seen, c), stored) IN
           /\ x \in Columns
           /\ Sound(e, x)
           /\ stored.overridden => x.overridden
           /\ stored.ai => x.ai
           /\ stored.category # NoCat => x.category # NoCat
           /\ seen.overridden => x.category = stored.category
<1> DEFINE new == Suggest(seen, c)
           x   == Flushed(seen, new, stored)
<1>1. c \in Category /\ c # NoCat /\ (Keyword[e] # NoCat => c = Keyword[e])
  BY ResultsKnown
<1>2. /\ new \in Columns
      /\ new.suggested = c /\ new.ai = TRUE /\ new.overridden = seen.overridden
      /\ new.category = IF seen.overridden THEN seen.category ELSE c
  BY <1>1 DEF Suggest, Columns, MaybeCategory
<1>3. x \in Columns
  BY <1>2, FlushedTypes
<1>4. /\ x.category = IF seen.overridden \/ c = seen.category THEN stored.category ELSE c
      /\ x.suggested = IF c = seen.suggested THEN stored.suggested ELSE c
      /\ x.ai = IF seen.ai THEN stored.ai ELSE TRUE
      /\ x.overridden = stored.overridden
  BY <1>2 DEF Flushed, Columns
<1>5. Sound(e, x)
  <2> SUFFICES ASSUME ~stored.overridden
               PROVE  /\ x.ai
                      /\ x.category = x.suggested
                      /\ Keyword[e] # NoCat => x.category \in {NoCat, Keyword[e]}
    BY <1>4 DEF Sound
  <2>1. x.ai
    BY <1>4
  <2>2. CASE seen.ai
    BY <1>1, <1>4, <2>1, <2>2 DEF Sound
  <2>3. CASE ~seen.ai
    BY <1>1, <1>4, <2>1, <2>3 DEF Sound
  <2> QED  BY <2>2, <2>3
<1> QED  BY <1>1, <1>3, <1>4, <1>5

\* The flush of an override: the row is the user's from then on.
LEMMA OverrideFlush ==
  ASSUME NEW e \in Exp, NEW seen \in Columns, NEW stored \in Columns, NEW c \in Category,
         seen.overridden => stored.overridden
  PROVE  LET new == [seen EXCEPT !.category = c, !.overridden = TRUE]
             x   == Flushed(seen, new, stored) IN
           /\ x \in Columns
           /\ x.overridden
           /\ Sound(e, x)
           /\ stored.ai => x.ai
           /\ stored.category # NoCat => x.category # NoCat
<1> DEFINE new == [seen EXCEPT !.category = c, !.overridden = TRUE]
           x   == Flushed(seen, new, stored)
<1>1. /\ new \in Columns
      /\ new.category = c /\ new.overridden = TRUE /\ new.ai = seen.ai
  BY DEF Columns, MaybeCategory
<1>2. x \in Columns
  BY <1>1, FlushedTypes
<1>3. /\ x.category = IF c = seen.category THEN stored.category ELSE c
      /\ x.ai = stored.ai
      /\ x.overridden
  BY <1>1 DEF Flushed, Columns
<1>4. c # NoCat
  BY CategorizationAssumption
<1> QED  BY <1>2, <1>3, <1>4 DEF Sound

-----------------------------------------------------------------------------
(* The table of expenses *)

\* What every step does to one row: it is sound, and a row once committed stays
\* and takes nothing back.
RowKept(e) ==
  /\ exps'[e] \in ExpRow
  /\ Sound(e, exps'[e].cols)
  /\ exps'[e].row = "none" => exps'[e].cols = Blank
  /\ exps[e].row \in {"live", "gone"} =>
       /\ exps'[e].row \in {"live", "gone"}
       /\ exps[e].cols.overridden => exps'[e].cols.overridden
       /\ exps[e].cols.ai => exps'[e].cols.ai
       /\ exps[e].cols.category # NoCat => exps'[e].cols.category # NoCat

\* A row that does not change is kept.
LEMMA SameRow ==
  ASSUME ColumnsInv, NEW e \in Exp, exps'[e] = exps[e]
  PROVE  RowKept(e)
BY DEF RowKept, ColumnsInv, TypeOK, RowsSound

\* So is a new one whose columns are sound ...
LEMMA NewRow ==
  ASSUME ColumnsInv, NEW e \in Exp, NEW f \in Exp, exps[f].row = "none",
         NEW row \in {"open", "live"}, NEW cols \in Columns, Sound(f, cols),
         exps' = [exps EXCEPT ![f] = Row(row, cols)]
  PROVE  RowKept(e)
<1>1. exps \in [Exp -> ExpRow]
  BY DEF ColumnsInv, TypeOK
<1>2. CASE e = f
  <2>1. exps'[e] = Row(row, cols)
    BY <1>1, <1>2
  <2>2. Row(row, cols) \in ExpRow /\ Row(row, cols).row = row /\ Row(row, cols).cols = cols
    BY DEF Row, ExpRow
  <2> QED  BY <1>2, <2>1, <2>2 DEF RowKept
<1>3. CASE e # f
  BY <1>1, <1>3, SameRow
<1> QED  BY <1>2, <1>3

\* ... and one that is removed or committed
LEMMA RowMoved ==
  ASSUME ColumnsInv, NEW e \in Exp, NEW row \in {"live", "gone"}, exps[e].row # "none",
         exps'[e] = [exps[e] EXCEPT !.row = row]
  PROVE  RowKept(e)
<1>1. exps[e] \in ExpRow
  BY DEF ColumnsInv, TypeOK
<1>2. exps'[e] \in ExpRow /\ exps'[e].row = row /\ exps'[e].cols = exps[e].cols
  BY <1>1 DEF ExpRow
<1> QED  BY <1>2 DEF RowKept, ColumnsInv, RowsSound

\* Every step of a request, a statement or a run keeps every row.
LEMMA RowsKept ==
  ASSUME ColumnsInv, Next, NEW e \in Exp
  PROVE  RowKept(e)
<1> USE DEF Live
<1>0. exps \in [Exp -> ExpRow]
  BY DEF ColumnsInv, TypeOK
<1>1. ASSUME NEW f \in Exp, BankLine(f) PROVE RowKept(e)
  <2>1. exps[f].row = "none"
    BY <1>1 DEF BankLine
  <2>2. ASSUME NEW c \in Category, BankLineByUser(f, c) PROVE RowKept(e)
    BY <2>1, <2>2, NewColumns, NewRow DEF BankLineByUser
  <2>3. ASSUME BankLineByRule(f) PROVE RowKept(e)
    <3>1. Keyword[f] \in Category
      BY <2>3, CategorizationAssumption DEF BankLineByRule
    <3>2. PICK cols \in {ByRule(Keyword[f]), ByModel(Keyword[f])} :
            exps' = [exps EXCEPT ![f] = Row("open", cols)]
      BY <2>3 DEF BankLineByRule
    <3>3. cols \in Columns /\ Sound(f, cols)
      BY <3>1, NewColumns
    <3> QED  BY <2>1, <3>2, <3>3, NewRow
  <2>4. ASSUME BankLineUnknown(f) PROVE RowKept(e)
    BY <2>1, <2>4, NewColumns, NewRow DEF BankLineUnknown
  <2> QED  BY <1>1, <2>2, <2>3, <2>4 DEF BankLine
<1>2. ASSUME NEW f \in Exp, Remove(f) PROVE RowKept(e)
  <2>1. exps' = [exps EXCEPT ![f].row = "gone"] /\ exps[f].row = "live"
    BY <1>2 DEF Remove
  <2>2. CASE e = f
    <3>1. exps'[e] = [exps[e] EXCEPT !.row = "gone"] /\ exps[e].row # "none"
      BY <1>0, <2>1, <2>2
    <3> QED  BY <3>1, RowMoved
  <2>3. CASE e # f
    BY <1>0, <2>1, <2>3, SameRow
  <2> QED  BY <2>2, <2>3
<1>3. ASSUME NEW f \in Exp, NEW c \in Category, BookCategorized(f, c) PROVE RowKept(e)
  BY <1>3, NewColumns, NewRow DEF BookCategorized
<1>4. ASSUME BankCommit \/ BankAbort PROVE RowKept(e)
  <2>1. PICK row \in {"live", "gone"} :
          exps' = [x \in Exp |-> IF x \in Open THEN [exps[x] EXCEPT !.row = row] ELSE exps[x]]
    BY <1>4 DEF BankCommit, BankAbort, BankEnd
  <2>2. CASE e \in Open
    <3>1. exps'[e] = [exps[e] EXCEPT !.row = row] /\ exps[e].row # "none"
      BY <2>1, <2>2 DEF Open
    <3> QED  BY <3>1, RowMoved
  <2>3. CASE e \notin Open
    BY <2>1, <2>3, SameRow
  <2> QED  BY <2>2, <2>3
<1>5. ASSUME NEW r \in Req, NEW f \in Exp, Book(r, f) PROVE RowKept(e)
  BY <1>5, NewColumns, NewRow DEF Book
<1>6. ASSUME NEW r \in Req, NEW c \in Category, OverrideEnd(r, c) PROVE RowKept(e)
  <2> DEFINE f    == reqs[r].exp
             seen == reqs[r].seen
             x    == Flushed(seen, [seen EXCEPT !.category = c, !.overridden = TRUE],
                             exps[f].cols)
  <2>1. CASE e = f /\ Live(f)
    <3>1. /\ seen \in Columns /\ exps[e] \in ExpRow /\ exps[e].cols \in Columns
          /\ seen.overridden => exps[e].cols.overridden
      BY <1>6, <2>1 DEF OverrideEnd, ColumnsInv, TypeOK, ReqRow, ExpRow, ReqsStand, SeenStands
    <3>2. exps'[e] = [exps[e] EXCEPT !.cols = x]
      BY <1>0, <1>6, <2>1 DEF OverrideEnd
    <3>3. /\ x \in Columns /\ x.overridden /\ Sound(e, x)
          /\ exps[e].cols.ai => x.ai
          /\ exps[e].cols.category # NoCat => x.category # NoCat
      BY <2>1, <3>1, OverrideFlush
    <3>4. exps'[e] \in ExpRow /\ exps'[e].row = "live" /\ exps'[e].cols = x
      BY <2>1, <3>1, <3>2, <3>3 DEF ExpRow
    <3> HIDE DEF x
    <3> QED  BY <3>3, <3>4 DEF RowKept
  <2>2. CASE ~(e = f /\ Live(f))
    <3>1. exps'[e] = exps[e]
      BY <1>0, <1>6, <2>2 DEF OverrideEnd
    <3> QED  BY <3>1, SameRow
  <2> QED  BY <2>1, <2>2
<1>7. ASSUME NEW m \in Msg, TaskApply(m) PROVE RowKept(e)
  <2> DEFINE f    == msgs[m].exp
             seen == msgs[m].seen
  <2>1. CASE e = f /\ Live(f)
    <3>1. /\ seen \in Columns /\ exps[e] \in ExpRow /\ exps[e].cols \in Columns
          /\ SeenStands(e, seen) /\ Sound(e, exps[e].cols)
      BY <1>7, <2>1 DEF TaskApply, ColumnsInv, TypeOK, MsgRow, ExpRow, MsgsStand, RowsSound
    <3>2. PICK c \in Results(e) :
            exps'[e] = [exps[e] EXCEPT !.cols = Flushed(seen, Suggest(seen, c), exps[e].cols)]
      BY <1>0, <1>7, <2>1 DEF TaskApply
    <3> DEFINE x == Flushed(seen, Suggest(seen, c), exps[e].cols)
    <3>3. /\ x \in Columns /\ Sound(e, x)
          /\ exps[e].cols.overridden => x.overridden
          /\ exps[e].cols.ai => x.ai
          /\ exps[e].cols.category # NoCat => x.category # NoCat
      BY <3>1, SuggestFlush DEF SeenStands
    <3>4. exps'[e] \in ExpRow /\ exps'[e].row = "live" /\ exps'[e].cols = x
      BY <2>1, <3>1, <3>2, <3>3 DEF ExpRow
    <3> HIDE DEF x
    <3> QED  BY <3>3, <3>4 DEF RowKept
  <2>2. CASE ~(e = f /\ Live(f))
    <3>1. exps'[e] = exps[e]
      BY <1>0, <1>7, <2>2 DEF TaskApply
    <3> QED  BY <3>1, SameRow
  <2> QED  BY <2>1, <2>2
<1>8. ASSUME UNCHANGED exps PROVE RowKept(e)
  BY <1>8, SameRow
<1> QED  BY <1>1, <1>2, <1>3, <1>4, <1>5, <1>6, <1>7, <1>8
            DEF Next, TaskStep, RequestContinues, Recategorize, RecategorizeOne,
                RecategorizeAll, RequestLost, OverrideBegin, PublishNext, PublishEnd, TaskRead,
                WorkerLost

-----------------------------------------------------------------------------
(* What tasks and requests have read *)

\* SeenStands after a step
SeenNext(e, seen) ==
  /\ e \in Exp /\ exps'[e].row \in {"live", "gone"}
  /\ Sound(e, seen)
  /\ seen.overridden => exps'[e].cols.overridden
  /\ seen.ai => exps'[e].cols.ai
  /\ seen.category # NoCat => exps'[e].cols.category # NoCat

\* What was read stands while rows are kept.
LEMMA SeenKept ==
  ASSUME NEW e, NEW seen, SeenStands(e, seen), RowKept(e)
  PROVE  SeenNext(e, seen)
BY DEF SeenStands, SeenNext, RowKept

\* What is read of a committed row stands.
LEMMA SeenNow ==
  ASSUME ColumnsInv, NEW e \in Exp, Live(e)
  PROVE  SeenStands(e, exps[e].cols)
BY DEF ColumnsInv, RowsSound, SeenStands, Live

\* A message is what it was, about an expense that the step sends it for, or about
\* one it reads.
MsgKept(m) ==
  \/ msgs'[m] = msgs[m]
  \/ msgs'[m] = FreeMsg
  \/ \E e \in Exp : msgs'[m] = Queued(e)
  \/ /\ msgs[m].pc = "queued" /\ Live(msgs[m].exp)
     /\ msgs'[m] = [msgs[m] EXCEPT !.pc = "asked", !.seen = exps[msgs[m].exp].cols]

LEMMA PublishKeeps ==
  ASSUME ColumnsInv, NEW e \in Exp, Publish(e), NEW m \in Msg
  PROVE  msgs' \in [Msg -> MsgRow] /\ MsgKept(m)
<1>1. Queued(e) \in MsgRow
  BY NewColumns DEF Queued, FreeMsg, MsgRow
<1> QED  BY <1>1 DEF Publish, MsgKept, ColumnsInv, TypeOK

LEMMA MsgsKept ==
  ASSUME ColumnsInv, Next, NEW m \in Msg
  PROVE  msgs' \in [Msg -> MsgRow] /\ MsgKept(m)
<1>0. msgs \in [Msg -> MsgRow] /\ exps \in [Exp -> ExpRow]
  BY DEF ColumnsInv, TypeOK
<1>f. FreeMsg \in MsgRow
  BY NewColumns DEF FreeMsg, MsgRow
<1>q. ASSUME NEW e \in Exp PROVE Queued(e) \in MsgRow
  BY NewColumns DEF Queued, FreeMsg, MsgRow
<1>1. ASSUME NEW e \in Exp, Publish(e) PROVE msgs' \in [Msg -> MsgRow] /\ MsgKept(m)
  BY <1>1, PublishKeeps
<1>2. ASSUME NEW n \in Msg, TaskRead(n) PROVE msgs' \in [Msg -> MsgRow] /\ MsgKept(m)
  <2>1. msgs[n].pc = "queued" /\ msgs[n].exp \in Exp
    BY <1>2 DEF TaskRead, ColumnsInv, MsgsStand
  <2> DEFINE x == [msgs[n] EXCEPT !.pc = "asked", !.seen = exps[msgs[n].exp].cols]
  <2>2. x \in MsgRow
    BY <1>0, <2>1 DEF MsgRow, ExpRow
  <2>3. msgs' = [msgs EXCEPT ![n] = IF Live(msgs[n].exp) THEN x ELSE FreeMsg]
    BY <1>0, <1>2 DEF TaskRead
  <2>4. msgs' \in [Msg -> MsgRow]
    BY <1>0, <1>f, <2>2, <2>3
  <2>5. MsgKept(m)
    BY <1>0, <2>1, <2>3 DEF MsgKept
  <2> QED  BY <2>4, <2>5
<1>3. ASSUME NEW n \in Msg, TaskApply(n) PROVE msgs' \in [Msg -> MsgRow] /\ MsgKept(m)
  BY <1>0, <1>f, <1>3 DEF TaskApply, MsgKept
<1>4. ASSUME NEW n \in Msg, WorkerLost(n) PROVE msgs' \in [Msg -> MsgRow] /\ MsgKept(m)
  <2>1. msgs[n].exp \in Exp /\ msgs' = [msgs EXCEPT ![n] = Queued(msgs[n].exp)]
    BY <1>4 DEF WorkerLost, ColumnsInv, MsgsStand
  <2> QED  BY <1>0, <1>q, <2>1 DEF MsgKept
<1>5. ASSUME UNCHANGED msgs PROVE msgs' \in [Msg -> MsgRow] /\ MsgKept(m)
  BY <1>0, <1>5 DEF MsgKept
<1> QED  BY <1>1, <1>2, <1>3, <1>4, <1>5
            DEF Next, TaskStep, RequestContinues, Recategorize, RecategorizeOne,
                RecategorizeAll, RequestLost, OverrideBegin, OverrideEnd, PublishNext,
                PublishEnd, Book, BookCategorized, BankLine, BankLineByUser, BankLineByRule,
                BankLineUnknown, BankCommit, BankAbort, Remove

\* A request is what it was, idle, sending messages, or has read a row.
ReqKept(r) ==
  \/ reqs'[r] = reqs[r]
  \/ reqs'[r].pc # "override"
  \/ \E e \in Exp : Live(e) /\ reqs'[r] = Overriding(e, exps[e].cols)

LEMMA ReqsKept ==
  ASSUME ColumnsInv, Next, NEW r \in Req
  PROVE  reqs' \in [Req -> ReqRow] /\ ReqKept(r)
<1>0. reqs \in [Req -> ReqRow] /\ exps \in [Exp -> ExpRow]
  BY DEF ColumnsInv, TypeOK
<1>i. Idle \in ReqRow /\ Idle.pc = "idle"
  BY NewColumns DEF Idle, ReqRow
<1>p. ASSUME NEW S \in SUBSET Exp PROVE Publishing(S) \in ReqRow /\ Publishing(S).pc = "publish"
  BY NewColumns DEF Publishing, Idle, ReqRow
<1>1. ASSUME NEW q \in Req, NEW S \in SUBSET Exp, reqs' = [reqs EXCEPT ![q] = Publishing(S)]
      PROVE  reqs' \in [Req -> ReqRow] /\ ReqKept(r)
  BY <1>0, <1>p, <1>1 DEF ReqKept
<1>2. ASSUME NEW q \in Req, reqs' = [reqs EXCEPT ![q] = Idle]
      PROVE  reqs' \in [Req -> ReqRow] /\ ReqKept(r)
  BY <1>0, <1>i, <1>2 DEF ReqKept
<1>3. ASSUME NEW q \in Req, NEW e \in Exp, PublishNext(q, e)
      PROVE  reqs' \in [Req -> ReqRow] /\ ReqKept(r)
  <2>1. reqs' = [reqs EXCEPT ![q].rows = @ \ {e}] /\ reqs[q].pc = "publish"
    BY <1>3 DEF PublishNext
  <2>2. reqs' \in [Req -> ReqRow]
    BY <1>0, <2>1 DEF ReqRow
  <2> QED  BY <1>0, <2>1, <2>2 DEF ReqKept
<1>4. ASSUME NEW q \in Req, NEW e \in Exp, OverrideBegin(q, e)
      PROVE  reqs' \in [Req -> ReqRow] /\ ReqKept(r)
  <2>1. reqs' = [reqs EXCEPT ![q] = Overriding(e, exps[e].cols)] /\ Live(e)
    BY <1>4 DEF OverrideBegin
  <2>2. Overriding(e, exps[e].cols) \in ReqRow
    BY <1>0 DEF Overriding, Idle, ReqRow, ExpRow
  <2> QED  BY <1>0, <2>1, <2>2 DEF ReqKept
<1>5. ASSUME UNCHANGED reqs PROVE reqs' \in [Req -> ReqRow] /\ ReqKept(r)
  BY <1>0, <1>5 DEF ReqKept
<1>6. ASSUME NEW q \in Req, NEW e \in Exp, Book(q, e) \/ RecategorizeOne(q, e)
      PROVE  reqs' \in [Req -> ReqRow] /\ ReqKept(r)
  BY <1>1, <1>6 DEF Book, RecategorizeOne, Recategorize
<1>7. ASSUME NEW q \in Req, RecategorizeAll(q) PROVE reqs' \in [Req -> ReqRow] /\ ReqKept(r)
  BY <1>1, <1>7 DEF RecategorizeAll, Recategorize
<1> QED  BY <1>2, <1>3, <1>4, <1>5, <1>6, <1>7
            DEF Next, TaskStep, RequestContinues, RequestLost, OverrideEnd, PublishEnd,
                BookCategorized, BankLine, BankCommit, BankAbort, Remove, TaskRead, TaskApply,
                WorkerLost

-----------------------------------------------------------------------------
(* The theorems *)

LEMMA InitColumns ==
  ASSUME Init
  PROVE  ColumnsInv
<1>1. /\ exps \in [Exp -> ExpRow]
      /\ \A e \in Exp : exps[e].row = "none" /\ exps[e].cols = Blank
  BY NewColumns DEF Init, Row, ExpRow
<1>2. msgs \in [Msg -> MsgRow] /\ \A m \in Msg : msgs[m].pc = "free"
  BY NewColumns DEF Init, FreeMsg, MsgRow
<1>3. reqs \in [Req -> ReqRow] /\ \A r \in Req : reqs[r].pc = "idle"
  BY NewColumns DEF Init, Idle, ReqRow
<1>4. faults \in 0..MaxFaults /\ chosen \in [Exp -> MaybeCategory]
  BY CategorizationAssumption DEF Init, MaybeCategory
<1> QED  BY <1>1, <1>2, <1>3, <1>4, NewColumns
            DEF ColumnsInv, TypeOK, RowsSound, MsgsStand, ReqsStand

\* Every step of a task, a request or a statement preserves the invariant.
LEMMA ColumnsStep ==
  ASSUME ColumnsInv, [Next]_vars
  PROVE  ColumnsInv'
<1>1. CASE Next
  <2>1. exps' \in [Exp -> ExpRow]
    <3>1. \A e \in Exp : exps'[e] \in ExpRow
      BY <1>1, RowsKept DEF RowKept
    <3>2. exps' = [e \in Exp |-> exps'[e]]
      BY <1>1 DEF ColumnsInv, TypeOK, Next, TaskStep, RequestContinues, RequestLost,
         OverrideBegin, OverrideEnd, PublishNext, PublishEnd, BookCategorized, Book, BankLine,
         BankLineByUser, BankLineByRule, BankLineUnknown, BankCommit, BankAbort, BankEnd,
         Remove, Recategorize, RecategorizeOne, RecategorizeAll, TaskRead, TaskApply, WorkerLost
    <3> QED  BY <3>1, <3>2
  <2>2. RowsSound'
    BY <1>1, RowsKept DEF RowsSound, RowKept
  <2>3. MsgsStand'
    <3> SUFFICES ASSUME NEW m \in Msg
                 PROVE  /\ msgs'[m].pc # "free" => msgs'[m].exp \in Exp
                        /\ msgs'[m].pc = "asked" => SeenNext(msgs'[m].exp, msgs'[m].seen)
      BY DEF MsgsStand, SeenStands, SeenNext, Sound
    <3>1. MsgKept(m) /\ msgs[m] \in MsgRow
      BY <1>1, MsgsKept DEF ColumnsInv, TypeOK
    <3>2. CASE msgs'[m] = msgs[m]
      BY <1>1, <3>2, RowsKept, SeenKept DEF ColumnsInv, MsgsStand, SeenStands
    <3>3. CASE msgs'[m] = FreeMsg
      BY <3>3 DEF FreeMsg
    <3>4. CASE \E e \in Exp : msgs'[m] = Queued(e)
      BY <3>4 DEF Queued, FreeMsg
    <3>5. CASE /\ msgs[m].pc = "queued" /\ Live(msgs[m].exp)
               /\ msgs'[m] = [msgs[m] EXCEPT !.pc = "asked", !.seen = exps[msgs[m].exp].cols]
      <4> DEFINE e == msgs[m].exp
      <4>1. e \in Exp /\ msgs'[m].exp = e /\ msgs'[m].seen = exps[e].cols
        BY <3>1, <3>5 DEF ColumnsInv, MsgsStand, MsgRow
      <4>2. SeenStands(e, exps[e].cols) /\ RowKept(e)
        BY <1>1, <3>5, <4>1, SeenNow, RowsKept
      <4> QED  BY <4>1, <4>2, SeenKept
    <3> QED  BY <3>1, <3>2, <3>3, <3>4, <3>5 DEF MsgKept
  <2>4. ReqsStand'
    <3> SUFFICES ASSUME NEW r \in Req, reqs'[r].pc = "override"
                 PROVE  SeenNext(reqs'[r].exp, reqs'[r].seen)
      BY DEF ReqsStand, SeenStands, SeenNext, Sound
    <3>1. ReqKept(r) /\ reqs[r] \in ReqRow
      BY <1>1, ReqsKept DEF ColumnsInv, TypeOK
    <3>2. CASE reqs'[r] = reqs[r]
      BY <1>1, <3>2, RowsKept, SeenKept DEF ColumnsInv, ReqsStand, SeenStands
    <3>3. CASE \E e \in Exp : Live(e) /\ reqs'[r] = Overriding(e, exps[e].cols)
      <4>1. PICK e \in Exp : Live(e) /\ reqs'[r] = Overriding(e, exps[e].cols)
        BY <3>3
      <4>2. reqs'[r].exp = e /\ reqs'[r].seen = exps[e].cols
        BY <4>1 DEF Overriding, Idle
      <4>3. SeenStands(e, exps[e].cols) /\ RowKept(e)
        BY <1>1, <4>1, SeenNow, RowsKept
      <4> QED  BY <4>2, <4>3, SeenKept
    <3> QED  BY <3>1, <3>2, <3>3 DEF ReqKept
  <2>5. msgs' \in [Msg -> MsgRow]
    <3>1. CASE Msg = {}
      BY <1>1, <3>1 DEF ColumnsInv, TypeOK, Next, TaskStep, RequestContinues, RequestLost,
         OverrideBegin, OverrideEnd, PublishNext, PublishEnd, Publish, BookCategorized, Book,
         BankLine, BankLineByUser, BankLineByRule, BankLineUnknown, BankCommit, BankAbort,
         Remove, Recategorize, RecategorizeOne, RecategorizeAll
    <3>2. CASE Msg # {}
      BY <1>1, <3>2, MsgsKept
    <3> QED  BY <3>1, <3>2
  <2>6. reqs' \in [Req -> ReqRow]
    <3>1. CASE Req = {}
      BY <1>1, <3>1 DEF ColumnsInv, TypeOK, Next, TaskStep, BookCategorized,
         BankLine, BankCommit, BankAbort, Remove, TaskRead, TaskApply, WorkerLost
    <3>2. CASE Req # {}
      BY <1>1, <3>2, ReqsKept
    <3> QED  BY <3>1, <3>2
  <2>7. faults' \in 0..MaxFaults
    <3>1. UNCHANGED faults \/ (faults < MaxFaults /\ faults' = faults + 1)
      BY <1>1 DEF Next, TaskStep, RequestContinues, RequestLost, Fault,
         OverrideBegin, OverrideEnd, PublishNext, PublishEnd, BookCategorized, Book, BankLine,
         BankCommit, BankAbort, Remove, Recategorize, RecategorizeOne, RecategorizeAll,
         TaskRead, TaskApply, WorkerLost
    <3> QED  BY <3>1, CategorizationAssumption DEF ColumnsInv, TypeOK
  <2>8. chosen' \in [Exp -> MaybeCategory]
    <3>1. UNCHANGED chosen \/ \E e \in Exp, c \in Category : chosen' = [chosen EXCEPT ![e] = c]
      BY <1>1 DEF Next, TaskStep, RequestContinues, RequestLost, ColumnsInv, ReqsStand,
         SeenStands, OverrideBegin, OverrideEnd, PublishNext, PublishEnd, BookCategorized, Book,
         BankLine, BankLineByUser, BankLineByRule, BankLineUnknown, BankCommit, BankAbort,
         Remove, Recategorize, RecategorizeOne, RecategorizeAll, TaskRead, TaskApply, WorkerLost
    <3> QED  BY <3>1 DEF ColumnsInv, TypeOK, MaybeCategory
  <2> QED  BY <2>1, <2>2, <2>3, <2>4, <2>5, <2>6, <2>7, <2>8 DEF ColumnsInv, TypeOK
<1>2. CASE UNCHANGED vars
  BY <1>2 DEF vars, ColumnsInv, TypeOK, RowsSound, MsgsStand, ReqsStand, SeenStands
<1> QED  BY <1>1, <1>2

\* The inductive invariant holds in every instance: any number of expenses,
\* overlapping runs, overrides and faults, any keywords and answers.
THEOREM ColumnsHold == Spec => []ColumnsInv
<1>1. Init => ColumnsInv
  BY InitColumns
<1>2. ColumnsInv /\ [Next]_vars => ColumnsInv'
  BY ColumnsStep
<1> QED  BY <1>1, <1>2, PTL DEF Spec

\* Type correctness: whatever the model answers, only a known category is stored.
THEOREM ColumnsTyped == Spec => []TypeOK
<1>1. ColumnsInv => TypeOK
  BY DEF ColumnsInv
<1> QED  BY <1>1, ColumnsHold, PTL

\* A row that a model run has categorized and no user has overridden shows the
\* category suggested for it, however many runs and requests overlap.
THEOREM Applied == Spec => []SuggestionApplied
<1>1. ColumnsInv => SuggestionApplied
  BY DEF ColumnsInv, RowsSound, Sound, SuggestionApplied
<1> QED  BY <1>1, ColumnsHold, PTL

\* What LaterRunsKeepOverride says of one row
OverrideKept(e) ==
  exps[e].cols.overridden /\ exps'[e].cols.category # exps[e].cols.category =>
    \/ \E m \in Msg : msgs[m].exp = e /\ msgs[m].pc = "asked" /\ ~msgs[m].seen.overridden
    \/ \E r \in Req, c \in Category : reqs[r].exp = e /\ OverrideEnd(r, c)

\* A new row was not overridden before it was made.
LEMMA NewRowNotOverridden ==
  ASSUME ColumnsInv, NEW e \in Exp, NEW f \in Exp, exps[f].row = "none", NEW x,
         exps' = [exps EXCEPT ![f] = x]
  PROVE  OverrideKept(e)
<1>1. exps[f].cols = Blank
  BY DEF ColumnsInv, RowsSound
<1> QED  BY <1>1 DEF OverrideKept, Blank, ColumnsInv, TypeOK

LEMMA OverrideStep ==
  ASSUME ColumnsInv, Next, NEW e \in Exp
  PROVE  OverrideKept(e)
<1>0. exps \in [Exp -> ExpRow]
  BY DEF ColumnsInv, TypeOK
<1>1. ASSUME NEW f \in Exp, BankLine(f) PROVE OverrideKept(e)
  BY <1>1, NewRowNotOverridden
     DEF BankLine, BankLineByUser, BankLineByRule, BankLineUnknown
<1>2. ASSUME NEW f \in Exp, Remove(f) PROVE OverrideKept(e)
  BY <1>0, <1>2 DEF Remove, OverrideKept, ExpRow
<1>3. ASSUME NEW f \in Exp, NEW c \in Category, BookCategorized(f, c) PROVE OverrideKept(e)
  BY <1>3, NewRowNotOverridden DEF BookCategorized
<1>4. ASSUME BankCommit \/ BankAbort PROVE OverrideKept(e)
  BY <1>0, <1>4 DEF BankCommit, BankAbort, BankEnd, OverrideKept, ExpRow
<1>5. ASSUME NEW r \in Req, NEW f \in Exp, Book(r, f) PROVE OverrideKept(e)
  BY <1>5, NewRowNotOverridden DEF Book
<1>6. ASSUME NEW r \in Req, NEW c \in Category, OverrideEnd(r, c) PROVE OverrideKept(e)
  <2>1. CASE reqs[r].exp = e
    BY <1>6, <2>1 DEF OverrideKept
  <2>2. CASE reqs[r].exp # e
    <3>1. exps'[e] = exps[e]
      BY <1>0, <1>6, <2>2 DEF OverrideEnd
    <3> QED  BY <3>1 DEF OverrideKept
  <2> QED  BY <2>1, <2>2
<1>7. ASSUME NEW m \in Msg, TaskApply(m) PROVE OverrideKept(e)
  <2> DEFINE seen == msgs[m].seen
  <2>1. CASE msgs[m].exp = e /\ ~seen.overridden
    BY <1>7, <2>1 DEF TaskApply, OverrideKept
  <2>2. CASE msgs[m].exp = e /\ Live(e) /\ seen.overridden
    <3>1. /\ seen \in Columns /\ exps[e] \in ExpRow /\ exps[e].cols \in Columns
          /\ SeenStands(e, seen) /\ Sound(e, exps[e].cols)
      BY <1>7, <2>2
         DEF TaskApply, ColumnsInv, TypeOK, MsgRow, ExpRow, MsgsStand, RowsSound
    <3>2. PICK c \in Results(e) :
            exps'[e] = [exps[e] EXCEPT !.cols = Flushed(seen, Suggest(seen, c), exps[e].cols)]
      BY <1>0, <1>7, <2>2 DEF TaskApply
    <3> DEFINE x == Flushed(seen, Suggest(seen, c), exps[e].cols)
    <3>3. seen.overridden => x.category = exps[e].cols.category
      BY <3>1, SuggestFlush DEF SeenStands
    <3>4. exps'[e].cols = x
      BY <3>1, <3>2 DEF ExpRow
    <3> QED  BY <2>2, <3>3, <3>4 DEF OverrideKept
  <2>3. CASE ~(msgs[m].exp = e /\ Live(e))
    <3>1. exps'[e] = exps[e]
      BY <1>0, <1>7, <2>3 DEF TaskApply
    <3> QED  BY <3>1 DEF OverrideKept
  <2> QED  BY <2>1, <2>2, <2>3
<1>8. ASSUME UNCHANGED exps PROVE OverrideKept(e)
  BY <1>8 DEF OverrideKept
<1> QED  BY <1>1, <1>2, <1>3, <1>4, <1>5, <1>6, <1>7, <1>8
            DEF Next, TaskStep, RequestContinues, Recategorize, RecategorizeOne,
                RecategorizeAll, RequestLost, OverrideBegin, PublishNext, PublishEnd, TaskRead,
                WorkerLost

\* Only a run that read the row before the user's override can change a category
\* the user gave: every later run leaves it alone.
THEOREM LaterRuns == Spec => LaterRunsKeepOverride
<1>1. ColumnsInv /\ [Next]_vars => [\A e \in Exp : OverrideKept(e)]_vars
  BY OverrideStep
<1> QED  BY <1>1, ColumnsHold, PTL DEF Spec, LaterRunsKeepOverride, OverrideKept
=============================================================================
