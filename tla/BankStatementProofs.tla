------------------------- MODULE BankStatementProofs --------------------------
(***************************************************************************)
(* Proofs about BankStatement for any statements, lines, deposits,         *)
(* deliveries and requests.                                                *)
(***************************************************************************)
EXTENDS BankStatement, TLAPS

\* The Min of a sum and the bound on counted rows
LEMMA Capped ==
  ASSUME NEW n \in Nat
  PROVE  /\ Min({n, 2}) \in Count
         /\ n <= 2 => Min({n, 2}) = n
         /\ n > 0 => Min({n, 2}) > 0
<1>1. PICK m \in {n, 2} : \A y \in {n, 2} : m <= y
  <2>1. CASE n <= 2  BY <2>1
  <2>2. CASE n > 2   BY <2>2
  <2> QED  BY <2>1, <2>2
<1>2. Min({n, 2}) \in {n, 2} /\ \A y \in {n, 2} : Min({n, 2}) <= y
  BY <1>1 DEF Min
<1> QED  BY <1>2 DEF Count

LEMMA Constants ==
  /\ AnyDoc \in Doc
  /\ \A l \in Line : Charge[l] \in Charges
  /\ 0 \in Gap /\ Gap \subseteq Nat
BY StatementAssumption DEF AnyDoc, Gap, Charges, Range

LEMMA FreshTypes ==
  ASSUME NEW d \in Doc,
         NEW pc \in {"free", "queued", "started", "lines", "deposits", "commit"}
  PROVE  Fresh(pc, d) \in RunRow
BY Constants DEF Fresh, RunRow

\* Rows of runs in which some fields change
LEMMA RowTypes ==
  ASSUME NEW row \in RunRow
  PROVE  /\ \A pc \in {"lines", "deposits", "commit"} : [row EXCEPT !.pc = pc] \in RunRow
         /\ \A L \in SUBSET Line, P \in SUBSET Inflow :
              [row EXCEPT !.read = L, !.todo = L, !.paid = P] \in RunRow
         /\ \A L \in SUBSET Line, new \in SUBSET Charges, kept \in SUBSET Charges :
              [row EXCEPT !.todo = L, !.new = new, !.kept = kept] \in RunRow
         /\ \A sees \in SUBSET (Doc \X Inflow), g \in Gap :
              [row EXCEPT !.pc = "commit", !.sees = sees, !.cleared = TRUE, !.comm = g] \in RunRow
         /\ [row EXCEPT !.pc = "commit", !.paid = {}] \in RunRow
         /\ \A sees \in SUBSET (Doc \X Inflow) : [row EXCEPT !.sees = sees] \in RunRow
<1> DEFINE Pc == {"free", "queued", "started", "lines", "deposits", "commit"}
<1>1. RunRow = [pc : Pc, doc : Doc, read : SUBSET Line, todo : SUBSET Line,
                new : SUBSET Charges, kept : SUBSET Charges, paid : SUBSET Inflow,
                sees : SUBSET (Doc \X Inflow), cleared : BOOLEAN, comm : Gap]
  BY DEF RunRow
<1>2. "lines" \in Pc /\ "deposits" \in Pc /\ "commit" \in Pc
  OBVIOUS
<1> HIDE DEF Pc
<1> QED  BY <1>1, <1>2

\* The expenses after one row of a statement has changed
ExpRow == [n : Count, user : BOOLEAN]
LEMMA OneRow ==
  ASSUME NEW f \in [Doc -> [Charges -> ExpRow]], NEW d \in Doc, NEW c \in Charges,
         NEW row \in ExpRow
  PROVE  LET g == [f EXCEPT ![d][c] = row] IN
         /\ g \in [Doc -> [Charges -> ExpRow]]
         /\ \A e \in Doc, b \in Charges :
              g[e][b] = IF e = d /\ b = c THEN row ELSE f[e][b]
<1> HIDE DEF ExpRow
<1>1. [f[d] EXCEPT ![c] = row] \in [Charges -> ExpRow]
  OBVIOUS
<1> QED  BY <1>1

LEMMA ShownTypes ==
  ASSUME docs \in [Doc -> DocRow], NEW d \in Doc,
         NEW status \in {"none", "pending", "ocr_processing", "extracted", "error", "gone"}
  PROVE  Shown(d, status) \in [Doc -> DocRow]
BY DEF Shown, DocRow

\* What a step of a run that keeps its document does to its row
LEMMA RunSet ==
  ASSUME runs \in [Run -> RunRow], NEW r \in Run, NEW row \in RunRow, Set(r, row)
  PROVE  runs' \in [Run -> RunRow]
BY DEF Set

LEMMA PublishTypes ==
  ASSUME runs \in [Run -> RunRow], NEW d \in Doc, Publish(d)
  PROVE  runs' \in [Run -> RunRow]
BY FreshTypes DEF Publish

LEMMA EndTypes ==
  ASSUME runs \in [Run -> RunRow], NEW r \in Run, End(r)
  PROVE  runs' \in [Run -> RunRow]
BY FreshTypes, Constants DEF End, Set

LEMMA ReadingsAreLines ==
  ASSUME NEW d \in Doc
  PROVE  /\ \A L \in Readings(d) : Expenses(L) \in SUBSET Line
         /\ \A P \in Payments(d) : P \in SUBSET Inflow
BY StatementAssumption DEF Readings, ByModel, Payments, Expenses

LEMMA NextLineTypes ==
  ASSUME runs \in [Run -> RunRow], NEW r \in Run, runs[r].todo # {}
  PROVE  NextLine(r) \in runs[r].todo /\ NextLine(r) \in Line /\ Charge[NextLine(r)] \in Charges
<1>1. NextLine(r) \in runs[r].todo
  BY DEF NextLine
<1> QED  BY <1>1, Constants DEF RunRow

\* The rows of the statements after those of a run are committed
LEMMA WithLinesRows ==
  ASSUME exps \in [Doc -> [Charges -> [n : Count, user : BOOLEAN]]],
         runs \in [Run -> RunRow], NEW r \in Run
  PROVE  /\ WithLines(r) \in [Doc -> [Charges -> [n : Count, user : BOOLEAN]]]
         /\ \A d \in Doc, c \in Charges :
              LET row == WithLines(r)[d][c] IN
              IF d = runs[r].doc /\ c \in runs[r].new
              THEN /\ row.n = Min({exps[d][c].n + 1, 2})
                   /\ row.user = (c \in runs[r].kept)
              ELSE row = exps[d][c]
<1> DEFINE at == runs[r].doc
           new(c) == IF c \in runs[r].new
                     THEN [n |-> Min({exps[at][c].n + 1, 2}), user |-> c \in runs[r].kept]
                     ELSE exps[at][c]
<1>1. at \in Doc
  BY DEF RunRow
<1>2. WithLines(r) = [exps EXCEPT ![at] = [c \in Charges |-> new(c)]]
  BY <1>1 DEF WithLines
<1>3. ASSUME NEW c \in Charges
      PROVE  new(c) \in [n : Count, user : BOOLEAN]
  BY <1>1, Capped DEF Count
<1> HIDE DEF new
<1>4. WithLines(r) \in [Doc -> [Charges -> [n : Count, user : BOOLEAN]]]
  BY <1>1, <1>2, <1>3
<1>5. \A d \in Doc, c \in Charges :
        WithLines(r)[d][c] = IF d = at THEN new(c) ELSE exps[d][c]
  BY <1>1, <1>2
<1>6. \A c \in Charges : c \in runs[r].new =>
        new(c).n = Min({exps[at][c].n + 1, 2}) /\ new(c).user = (c \in runs[r].kept)
  BY DEF new
<1>7. \A c \in Charges : c \notin runs[r].new => new(c) = exps[at][c]
  BY DEF new
<1> QED  BY <1>4, <1>5, <1>6, <1>7

\* bank_deposits after a commit
LEMMA MoneyTypes ==
  ASSUME deps \in [Doc -> [Inflow -> Count]], NEW r \in Run
  PROVE  Money(r) \in [Doc -> [Inflow -> Count]]
<1>1. ASSUME NEW d \in Doc, NEW i \in Inflow
      PROVE  Min({(IF <<d, i>> \in runs[r].sees THEN 0 ELSE deps[d][i])
                  + (IF d = runs[r].doc /\ i \in runs[r].paid THEN 1 ELSE 0), 2}) \in Count
  <2>1. deps[d][i] \in Nat
    BY DEF Count
  <2> QED  BY <2>1, Capped
<1> QED  BY <1>1 DEF Money

-----------------------------------------------------------------------------
(* Types *)

LEMMA InitTypes ==
  ASSUME Init
  PROVE  TypeOK
<1>1. docs \in [Doc -> DocRow]
  BY DEF Init, DocRow
<1>2. exps \in [Doc -> [Charges -> [n : Count, user : BOOLEAN]]]
  BY DEF Init, NoRow, Count
<1>3. comms \in [Doc -> [Gap -> Count]] /\ deps \in [Doc -> [Inflow -> Count]]
  BY DEF Init, Count
<1>4. runs \in [Run -> RunRow]
  BY FreshTypes, Constants DEF Init
<1>5. reqs \in [Req -> ReqRow]
  BY Constants DEF Init, NoReq, ReqRow
<1>6. gap \in Gap /\ events \in 0..MaxEvents /\ raced \subseteq Inflow /\ lost \subseteq Inflow
  BY Constants, StatementAssumption DEF Init
<1> QED
  BY <1>1, <1>2, <1>3, <1>4, <1>5, <1>6 DEF TypeOK

LEMMA NextTypes ==
  ASSUME TypeOK, [Next]_vars
  PROVE  TypeOK'
<1> USE DEF TypeOK
<1>e. ASSUME Event  PROVE events' \in 0..MaxEvents
  BY <1>e, StatementAssumption DEF Event
<1>1. ASSUME NEW d \in Doc, Upload(d)  PROVE TypeOK'
  BY <1>1, ShownTypes, PublishTypes DEF Upload
<1>2. ASSUME NEW r \in Run, Start(r)  PROVE TypeOK'
  <2>1. runs[r].doc \in Doc
    BY DEF RunRow
  <2>2. docs' \in [Doc -> DocRow]
    BY <1>2, <2>1, ShownTypes DEF Start
  <2>3. runs' \in [Run -> RunRow]
    BY <1>2, <2>1, RunSet, FreshTypes, EndTypes DEF Start
  <2> QED  BY <1>2, <2>2, <2>3 DEF Start
<1>3. ASSUME NEW r \in Run, Read(r)  PROVE TypeOK'
  <2> DEFINE d == runs[r].doc
  <2>1. d \in Doc
    BY DEF RunRow
  <2>2. ASSUME NEW L \in Readings(d), NEW P \in Payments(d)
        PROVE  [Fresh("lines", d) EXCEPT !.read = Expenses(L), !.todo = Expenses(L), !.paid = P]
                 \in RunRow
    <3>1. Fresh("lines", d) \in RunRow /\ Expenses(L) \in SUBSET Line /\ P \in SUBSET Inflow
      BY <2>1, FreshTypes, ReadingsAreLines
    <3> QED  BY <3>1, RowTypes
  <2>3. runs' \in [Run -> RunRow]
    BY <1>3, <2>1, <2>2, RunSet, EndTypes DEF Read
  <2> QED  BY <1>3, <2>3 DEF Read, tables
<1>4. ASSUME NEW r \in Run, BookLine(r)  PROVE TypeOK'
  <2> DEFINE c == Charge[NextLine(r)]
             new == IF Booked(r, c) THEN {} ELSE {c}
             row == [runs[r] EXCEPT !.todo = @ \ {NextLine(r)}, !.new = @ \cup new,
                       !.kept = IF c \in Vehicle \/ Inherits(r, c) THEN @ \cup new ELSE @]
  <2>1. c \in Charges /\ new \subseteq Charges
    BY <1>4, NextLineTypes DEF BookLine
  <2> HIDE DEF c, new
  <2>2. row \in RunRow
    <3>1. runs[r].todo \ {NextLine(r)} \in SUBSET Line
            /\ runs[r].new \cup new \in SUBSET Charges /\ runs[r].kept \cup new \in SUBSET Charges
            /\ runs[r].kept \in SUBSET Charges
      BY <2>1 DEF RunRow
    <3> QED  BY <3>1, RowTypes
  <2>3. Set(r, row)
    BY <1>4 DEF BookLine, c, new
  <2> QED  BY <1>4, <2>2, <2>3, RunSet DEF BookLine, tables
<1>5. ASSUME NEW r \in Run, LinesEnd(r)  PROVE TypeOK'
  <2>1. [runs[r] EXCEPT !.pc = "deposits"] \in RunRow
    BY RowTypes
  <2> QED  BY <1>5, <2>1, RunSet DEF LinesEnd, tables
<1>6. ASSUME NEW r \in Run, Deposits(r)  PROVE TypeOK'
  <2>1. Replaced(r) \in SUBSET (Doc \X Inflow) /\ Commission(r) \in Gap
    BY Constants DEF Replaced, Commission
  <2>2. [runs[r] EXCEPT !.pc = "commit", !.sees = Replaced(r), !.cleared = TRUE,
                        !.comm = Commission(r)] \in RunRow
    BY <2>1, RowTypes
  <2> QED  BY <1>6, <2>2, RunSet DEF Deposits, tables
<1>7. ASSUME NEW r \in Run, Commit(r)  PROVE TypeOK'
  <2> DEFINE d == runs[r].doc
  <2>1. d \in Doc /\ runs[r].read \subseteq Line /\ runs[r].paid \subseteq Inflow
          /\ runs[r].comm \in Gap
    BY DEF RunRow
  <2>2. docs' \in [Doc -> DocRow]
    BY <1>7, <2>1 DEF Commit, DocRow
  <2>3. exps' \in [Doc -> [Charges -> [n : Count, user : BOOLEAN]]]
    BY <1>7, WithLinesRows DEF Commit
  <2>4. comms' \in [Doc -> [Gap -> Count]]
    <3>1. comms[d][runs[r].comm] + 1 \in Nat
      <4>1. comms[d][runs[r].comm] \in Count
        BY <2>1
      <4> QED  BY <4>1 DEF Count
    <3>2. Min({comms[d][runs[r].comm] + 1, 2}) \in Count
      BY <3>1, Capped
    <3> QED  BY <1>7, <2>1, <3>2 DEF Commit
  <2>5. deps' \in [Doc -> [Inflow -> Count]]
    BY <1>7, MoneyTypes DEF Commit
  <2>6. runs' \in [Run -> RunRow]
    <3>1. \A s \in Run : [runs[s] EXCEPT !.sees = @ \ runs[r].sees] \in RunRow
      <4>1. \A s \in Run : runs[s].sees \ runs[r].sees \in SUBSET (Doc \X Inflow)
        BY DEF RunRow
      <4> QED  BY <4>1, RowTypes
    <3> QED  BY <1>7, <3>1, FreshTypes, Constants DEF Commit
  <2>7. lost' \subseteq Inflow
    BY <1>7 DEF Commit, Gone
  <2> QED  BY <1>7, <2>2, <2>3, <2>4, <2>5, <2>6, <2>7 DEF Commit
<1>8. ASSUME NEW r \in Run, DepositsFail(r)  PROVE TypeOK'
  <2>1. [runs[r] EXCEPT !.pc = "commit", !.paid = {}] \in RunRow
    BY RowTypes
  <2> QED  BY <1>8, <1>e, <2>1, RunSet DEF DepositsFail, Fault, tables
<1>9. ASSUME NEW r \in Run, Fails(r)  PROVE TypeOK'
  <2> DEFINE d == runs[r].doc
  <2>1. d \in Doc
    BY DEF RunRow
  <2>2. docs' \in [Doc -> DocRow]
    BY <1>9, <2>1, ShownTypes DEF Fails
  <2>3. exps' \in [Doc -> [Charges -> [n : Count, user : BOOLEAN]]]
    <3>1. WithLines(r) \in [Doc -> [Charges -> ExpRow]]
      BY WithLinesRows DEF ExpRow
    <3>2. CASE UNCHANGED exps
      BY <3>2
    <3>3. CASE exps' # exps
      <4> DEFINE c == Charge[NextLine(r)]
                 row == [n |-> 1, user |-> FALSE]
      <4>1. c \in Charges /\ exps' = [WithLines(r) EXCEPT ![d][c] = row]
        BY <1>9, <3>3, NextLineTypes DEF Fails
      <4>2. row \in ExpRow
        BY DEF ExpRow, Count
      <4> HIDE DEF c, row
      <4> QED  BY <2>1, <3>1, <4>1, <4>2, OneRow DEF ExpRow
    <3> QED  BY <3>2, <3>3
  <2>4. events' \in 0..MaxEvents
    BY <1>9, <1>e DEF Fails, Fault
  <2> QED  BY <1>9, <2>2, <2>3, <2>4, EndTypes DEF Fails
<1>10. ASSUME NEW r \in Run, Aborts(r)  PROVE TypeOK'
  BY <1>10, <1>e, EndTypes DEF Aborts, Fault, tables
<1>11. ASSUME NEW r \in Run, WorkerLost(r)  PROVE TypeOK'
  <2>1. Fresh("queued", runs[r].doc) \in RunRow
    BY FreshTypes DEF RunRow
  <2> QED  BY <1>11, <1>e, <2>1, RunSet DEF WorkerLost, Fault, tables
<1>12. ASSUME NEW q \in Req, NEW kind \in {"reprocess", "delete"}, NEW d \in Doc,
              Begin(q, kind, d)
       PROVE  TypeOK'
  <2>1. [pc |-> kind, doc |-> d, sees |-> Deletes(kind, d),
         comms |-> IF kind = "delete" THEN {g \in Gap : comms[d][g] > 0} ELSE {}] \in ReqRow
    BY DEF Deletes, ReqRow
  <2> QED  BY <1>12, <1>e, <2>1 DEF Begin, tables
<1>13. ASSUME NEW q \in Req, Finish(q)  PROVE TypeOK'
  <2> DEFINE d == reqs[q].doc
  <2>1. d \in Doc
    BY DEF ReqRow
  <2>2. docs' \in [Doc -> DocRow]
    BY <1>13, <2>1, ShownTypes DEF Finish
  <2>3. exps' \in [Doc -> [Charges -> [n : Count, user : BOOLEAN]]]
    BY <1>13, <2>1 DEF Finish, NoRow, Count
  <2>4. comms' \in [Doc -> [Gap -> Count]]
    BY <1>13, <2>1 DEF Finish, Count
  <2>5. runs' \in [Run -> RunRow]
    BY <1>13, <2>1, PublishTypes DEF Finish
  <2>6. reqs' \in [Req -> ReqRow]
    BY <1>13, Constants DEF Finish, NoReq, ReqRow
  <2> QED  BY <1>13, <2>2, <2>3, <2>4, <2>5, <2>6 DEF Finish
<1>14. ASSUME NEW d \in Doc, NEW c \in Charges, Override(d, c)  PROVE TypeOK'
  <2>1. exps' \in [Doc -> [Charges -> [n : Count, user : BOOLEAN]]]
    <3> DEFINE row == [exps[d][c] EXCEPT !.user = TRUE]
    <3>1. exps \in [Doc -> [Charges -> ExpRow]] /\ row \in ExpRow
      <4>1. exps \in [Doc -> [Charges -> ExpRow]]
        BY DEF ExpRow
      <4>2. exps[d][c] \in ExpRow
        BY <4>1
      <4> QED  BY <4>1, <4>2 DEF ExpRow
    <3>2. exps' = [exps EXCEPT ![d][c] = row]
      BY <1>14 DEF Override
    <3> HIDE DEF row
    <3> QED  BY <3>1, <3>2, OneRow DEF ExpRow
  <2> QED  BY <1>14, <1>e, <2>1 DEF Override
<1>15. ASSUME SalesChange  PROVE TypeOK'
  <2>1. gap' \in Gap
    BY <1>15, StatementAssumption DEF SalesChange, Gap
  <2> QED  BY <1>15, <1>e, <2>1 DEF SalesChange, tables
<1>16. ASSUME UNCHANGED vars  PROVE TypeOK'
  BY <1>16 DEF vars
<1> QED
  BY <1>1, <1>2, <1>3, <1>4, <1>5, <1>6, <1>7, <1>8, <1>9, <1>10, <1>11, <1>12, <1>13,
     <1>14, <1>15, <1>16 DEF Next, RunStep

\* The values that the tables, the deliveries and the requests take
THEOREM StatementTypes == Spec => []TypeOK
<1>1. Init => TypeOK
  BY InitTypes
<1>2. TypeOK /\ [Next]_vars => TypeOK'
  BY NextTypes
<1> QED  BY <1>1, <1>2, PTL DEF Spec

-----------------------------------------------------------------------------
(* One row of a charge *)

\* The lock of its row keeps two runs out of a document.
OneHolder ==
  \A r, s \in Run : Holds(r) /\ Holds(s) /\ runs[r].doc = runs[s].doc => r = s

\* What a run has inserted and not committed, the tables do not have.
NewAbsent ==
  \A r \in Run : Holds(r) => \A c \in runs[r].new : exps[runs[r].doc][c].n = 0
CommissionAbsent ==
  \A r \in Run : runs[r].comm # 0 =>
    runs[r].pc = "commit" /\ comms[runs[r].doc][runs[r].comm] = 0

\* Every line a run has read is to be booked, is inserted, or was there.
ReadBooked ==
  \A r \in Run : Holds(r) => \A l \in runs[r].read :
    l \in runs[r].todo \/ Charge[l] \in runs[r].new \/ exps[runs[r].doc][Charge[l]].n > 0
LinesOver == \A r \in Run : runs[r].pc \in {"deposits", "commit"} => runs[r].todo = {}

\* The rows a request deletes are there, each for one request, and a reprocess leaves
\* the overridden ones.
SeesThere ==
  \A q \in Req : reqs[q].pc # "idle" => \A c \in reqs[q].sees :
    /\ exps[reqs[q].doc][c].n > 0
    /\ reqs[q].pc = "reprocess" => ~exps[reqs[q].doc][c].user
SeesApart ==
  \A p, q \in Req :
    p # q /\ reqs[p].pc # "idle" /\ reqs[q].pc # "idle" /\ reqs[p].doc = reqs[q].doc
      => reqs[p].sees \cap reqs[q].sees = {}

BookInv ==
  /\ TypeOK /\ OneHolder /\ NewAbsent /\ CommissionAbsent /\ ReadBooked /\ LinesOver
  /\ SeesThere /\ SeesApart /\ LineBookedOnce /\ ExtractedIsComplete

\* A row of runs that BookInv allows for r, with the expenses and commissions there are
Allowed(r, row) ==
  /\ row.pc \in {"lines", "deposits", "commit"} =>
       /\ row.doc = runs[r].doc
       /\ Holds(r) \/ DocFree(row.doc)
       /\ \A c \in row.new : exps[row.doc][c].n = 0
       /\ \A l \in row.read :
            l \in row.todo \/ Charge[l] \in row.new \/ exps[row.doc][Charge[l]].n > 0
  /\ row.pc \in {"deposits", "commit"} => row.todo = {}
  /\ row.comm # 0 => row.pc = "commit" /\ comms[row.doc][row.comm] = 0

\* A step of a run that changes no table but its document keeps the invariant.
LEMMA RunAlone ==
  ASSUME BookInv, TypeOK', NEW r \in Run, NEW row \in RunRow, Set(r, row), Allowed(r, row),
         UNCHANGED <<exps, comms, reqs>>, ExtractedIsComplete'
  PROVE  BookInv'
<1>1. \A s \in Run : runs'[s] = IF s = r THEN row ELSE runs[s]
  BY DEF Set, BookInv, TypeOK
<1>2. OneHolder'
  BY <1>1 DEF BookInv, OneHolder, Holds, Allowed, DocFree
<1>3. NewAbsent'
  BY <1>1 DEF BookInv, NewAbsent, Holds, Allowed
<1>4. CommissionAbsent'
  BY <1>1 DEF BookInv, CommissionAbsent, Allowed
<1>5. ReadBooked'
  BY <1>1 DEF BookInv, ReadBooked, Holds, Allowed
<1>6. LinesOver'
  BY <1>1 DEF BookInv, LinesOver, Allowed
<1>7. SeesThere' /\ SeesApart' /\ LineBookedOnce'
  BY DEF BookInv, SeesThere, SeesApart, LineBookedOnce
<1> QED  BY <1>2, <1>3, <1>4, <1>5, <1>6, <1>7 DEF BookInv

\* A row that holds no document is always allowed.
LEMMA FreshAllowed ==
  ASSUME NEW r \in Run, NEW d \in Doc, NEW pc \in {"free", "queued", "started"}
  PROVE  Allowed(r, Fresh(pc, d))
BY DEF Allowed, Fresh

\* A document that is shown in another way than as extracted
LEMMA ShownComplete ==
  ASSUME BookInv, NEW d \in Doc,
         NEW status \in {"none", "pending", "ocr_processing", "error", "gone"},
         docs' = Shown(d, status), UNCHANGED exps
  PROVE  ExtractedIsComplete'
BY DEF BookInv, TypeOK, ExtractedIsComplete, Shown

LEMMA DocsComplete ==
  ASSUME BookInv, UNCHANGED <<docs, exps>>
  PROVE  ExtractedIsComplete'
BY DEF BookInv, ExtractedIsComplete

\* A message is taken by a delivery that holds nothing.
LEMMA PublishBooks ==
  ASSUME BookInv, TypeOK', NEW d \in Doc, Publish(d), UNCHANGED <<exps, comms, reqs>>,
         ExtractedIsComplete'
  PROVE  BookInv'
<1>1. PICK r \in Run : Set(r, Fresh("queued", d))
  BY DEF Publish, Set
<1> QED  BY <1>1, RunAlone, FreshAllowed, FreshTypes

LEMMA EndBooks ==
  ASSUME BookInv, TypeOK', NEW r \in Run, End(r), UNCHANGED <<exps, comms, reqs>>,
         ExtractedIsComplete'
  PROVE  BookInv'
BY RunAlone, FreshAllowed, FreshTypes, Constants DEF End

\* A run that is over leaves new rows of its document, each where there was none.
LEMMA AddedBooks ==
  ASSUME BookInv, TypeOK', NEW r \in Run, Holds(r), ExtractedIsComplete', UNCHANGED reqs,
         \A e \in Doc, c \in Charges :
           \/ exps'[e][c] = exps[e][c]
           \/ e = runs[r].doc /\ exps[e][c].n = 0 /\ exps'[e][c].n = 1,
         \A e \in Doc, g \in Gap :
           \/ comms'[e][g] = comms[e][g]
           \/ e = runs[r].doc /\ comms[e][g] = 0 /\ comms'[e][g] = 1,
         \A s \in Run \ {r} :
           /\ runs'[s].pc = runs[s].pc /\ runs'[s].doc = runs[s].doc
           /\ runs'[s].read = runs[s].read /\ runs'[s].todo = runs[s].todo
           /\ runs'[s].new = runs[s].new /\ runs'[s].comm = runs[s].comm,
         runs'[r].pc = "free", runs'[r].comm = 0
  PROVE  BookInv'
<1>t. TypeOK
  BY DEF BookInv
<1>1. \A s \in Run : Holds(s)' => s # r /\ Holds(s)
  BY DEF Holds
<1>2. \A s \in Run : Holds(s)' => runs[s].doc # runs[r].doc
  BY <1>1 DEF BookInv, OneHolder
<1>d. \A s \in Run : runs[s].doc \in Doc /\ runs[s].new \subseteq Charges /\ runs[s].comm \in Gap
                     /\ runs[s].read \subseteq Line
  BY <1>t DEF TypeOK, RunRow
<1>3. OneHolder'
  BY <1>1 DEF BookInv, OneHolder
<1>4. NewAbsent'
  BY <1>1, <1>2, <1>d DEF BookInv, NewAbsent
<1>5. CommissionAbsent'
  <2> SUFFICES ASSUME NEW s \in Run, runs'[s].comm # 0
               PROVE  runs'[s].pc = "commit" /\ comms'[runs'[s].doc][runs'[s].comm] = 0
    BY DEF CommissionAbsent
  <2>1. s # r /\ runs[s].pc = "commit" /\ comms[runs[s].doc][runs[s].comm] = 0
    BY DEF BookInv, CommissionAbsent
  <2>2. runs[s].doc # runs[r].doc
    BY <2>1, <1>2 DEF Holds
  <2> QED  BY <2>1, <2>2, <1>d
<1>6. ReadBooked'
  <2> SUFFICES ASSUME NEW s \in Run, Holds(s)', NEW l \in runs'[s].read
               PROVE  l \in runs'[s].todo \/ Charge[l] \in runs'[s].new
                        \/ exps'[runs'[s].doc][Charge[l]].n > 0
    BY DEF ReadBooked
  <2>1. s # r /\ Holds(s) /\ l \in runs[s].read /\ runs[s].doc # runs[r].doc
    BY <1>1, <1>2
  <2>2. l \in runs[s].todo \/ Charge[l] \in runs[s].new \/ exps[runs[s].doc][Charge[l]].n > 0
    BY <2>1 DEF BookInv, ReadBooked
  <2>3. Charge[l] \in Charges
    BY <2>1, <1>d, Constants
  <2> QED  BY <2>1, <2>2, <2>3, <1>d
<1>7. LinesOver'
  BY DEF BookInv, LinesOver
<1>8. SeesThere'
  <2>1. \A q \in Req : reqs[q].doc \in Doc /\ reqs[q].sees \subseteq Charges
    BY <1>t DEF TypeOK, ReqRow
  <2> QED  BY <2>1 DEF BookInv, SeesThere
<1>9. SeesApart'
  BY DEF BookInv, SeesApart
<1>10. LineBookedOnce'
  BY DEF BookInv, LineBookedOnce
<1> QED  BY <1>3, <1>4, <1>5, <1>6, <1>7, <1>8, <1>9, <1>10 DEF BookInv

LEMMA InitBooks ==
  ASSUME Init
  PROVE  BookInv
<1>1. TypeOK
  BY InitTypes
<1>2. \A r \in Run : runs[r].pc = "free" /\ runs[r].comm = 0
  BY DEF Init, Fresh
<1>3. \A q \in Req : reqs[q].pc = "idle"
  BY DEF Init, NoReq
<1>4. OneHolder /\ NewAbsent /\ CommissionAbsent /\ ReadBooked /\ LinesOver
  BY <1>2 DEF OneHolder, NewAbsent, CommissionAbsent, ReadBooked, LinesOver, Holds
<1>5. SeesThere /\ SeesApart
  BY <1>3 DEF SeesThere, SeesApart
<1>6. LineBookedOnce /\ ExtractedIsComplete
  BY DEF Init, NoRow, LineBookedOnce, ExtractedIsComplete
<1> QED  BY <1>1, <1>4, <1>5, <1>6 DEF BookInv

\* Steps of a run up to its commit
LEMMA RunBooks ==
  ASSUME BookInv, TypeOK', NEW r \in Run,
         \/ Start(r) \/ Read(r) \/ BookLine(r) \/ LinesEnd(r) \/ Deposits(r)
         \/ DepositsFail(r) \/ Aborts(r) \/ WorkerLost(r)
  PROVE  BookInv'
<1> DEFINE d == runs[r].doc
<1>t. TypeOK /\ runs[r] \in RunRow /\ d \in Doc
  BY DEF BookInv, TypeOK, RunRow
<1>1. CASE Start(r)
  <2>1. UNCHANGED <<exps, comms, reqs>>
    BY <1>1 DEF Start
  <2>2. CASE Stored(d)
    <3>1. ExtractedIsComplete'
      BY <1>1, <1>t, <2>1, <2>2, ShownComplete DEF Start
    <3> QED  BY <1>1, <1>t, <2>1, <2>2, <3>1, RunAlone, FreshAllowed, FreshTypes DEF Start
  <2>3. CASE ~Stored(d)
    BY <1>1, <2>1, <2>3, EndBooks, DocsComplete DEF Start
  <2> QED  BY <2>2, <2>3
<1>2. CASE Read(r)
  <2>1. UNCHANGED <<docs, exps, comms, reqs>>
    BY <1>2 DEF Read, tables
  <2>2. CASE Stored(d)
    <3>1. PICK L \in Readings(d), P \in Payments(d) :
            Set(r, [Fresh("lines", d) EXCEPT !.read = Expenses(L), !.todo = Expenses(L),
                                             !.paid = P])
      BY <1>2, <2>2 DEF Read
    <3> DEFINE row == [Fresh("lines", d) EXCEPT !.read = Expenses(L), !.todo = Expenses(L),
                                                !.paid = P]
    <3>2. row \in RunRow
      <4>1. Fresh("lines", d) \in RunRow /\ Expenses(L) \in SUBSET Line /\ P \in SUBSET Inflow
        BY <1>t, FreshTypes, ReadingsAreLines
      <4> QED  BY <4>1, RowTypes
    <3>3. Allowed(r, row)
      BY <1>2, <2>2 DEF Allowed, Fresh, Read
    <3> HIDE DEF row
    <3> QED  BY <2>1, <3>1, <3>2, <3>3, RunAlone, DocsComplete DEF row
  <2>3. CASE ~Stored(d)
    BY <1>2, <2>1, <2>3, EndBooks, DocsComplete DEF Read
  <2> QED  BY <2>2, <2>3
<1>3. CASE BookLine(r)
  <2> DEFINE l == NextLine(r)
             c == Charge[l]
             new == IF Booked(r, c) THEN {} ELSE {c}
             kept == IF c \in Vehicle \/ Inherits(r, c) THEN runs[r].kept \cup new
                     ELSE runs[r].kept
             row == [runs[r] EXCEPT !.todo = @ \ {l}, !.new = @ \cup new,
                       !.kept = IF c \in Vehicle \/ Inherits(r, c) THEN @ \cup new ELSE @]
  <2>1. runs[r].pc = "lines" /\ Holds(r) /\ Set(r, row) /\ UNCHANGED <<docs, exps, comms, reqs>>
    BY <1>3 DEF BookLine, Holds, tables
  <2>2. c \in Charges /\ new \subseteq Charges /\ l \in runs[r].todo
    BY <1>3, <1>t, NextLineTypes DEF BookLine, TypeOK
  <2>3. ~Booked(r, c) => exps[d][c].n = 0
    <3>1. exps[d][c].n \in Count
      BY <1>t, <2>2 DEF TypeOK
    <3> QED  BY <3>1 DEF Booked, Count
  <2>4. Booked(r, c) => exps[d][c].n > 0 \/ c \in runs[r].new
    BY DEF Booked
  <2>5. /\ row.pc = "lines" /\ row.doc = d /\ row.todo = runs[r].todo \ {l}
        /\ row.new = runs[r].new \cup new /\ row.comm = runs[r].comm
        /\ row.read = runs[r].read /\ row \in RunRow
    <3> HIDE DEF l, c, new
    <3>1. runs[r].todo \ {l} \in SUBSET Line
            /\ runs[r].new \cup new \in SUBSET Charges /\ runs[r].kept \cup new \in SUBSET Charges
            /\ runs[r].kept \in SUBSET Charges
      BY <1>t, <2>2 DEF RunRow
    <3>2. row \in RunRow
      BY <1>t, <3>1, RowTypes
    <3>3. /\ row.pc = "lines" /\ row.doc = d /\ row.todo = runs[r].todo \ {l}
          /\ row.new = runs[r].new \cup new /\ row.comm = runs[r].comm
          /\ row.read = runs[r].read
      BY <1>t, <2>1 DEF RunRow
    <3> QED  BY <3>2, <3>3
  <2>6. Allowed(r, row)
    <3>1. \A b \in row.new : exps[d][b].n = 0
      BY <2>1, <2>3, <2>5 DEF BookInv, NewAbsent
    <3>2. \A k \in row.read : k \in row.todo \/ Charge[k] \in row.new \/ exps[d][Charge[k]].n > 0
      <4> SUFFICES ASSUME NEW k \in runs[r].read
                   PROVE  k \in row.todo \/ Charge[k] \in row.new \/ exps[d][Charge[k]].n > 0
        BY <2>5
      <4>1. k \in runs[r].todo \/ Charge[k] \in runs[r].new \/ exps[d][Charge[k]].n > 0
        BY <2>1 DEF BookInv, ReadBooked
      <4>2. CASE k = l
        BY <2>4, <2>5, <4>2
      <4>3. CASE k # l
        BY <2>5, <4>1, <4>3
      <4> QED  BY <4>2, <4>3
    <3>3. row.comm = 0
      BY <2>1, <2>5 DEF BookInv, CommissionAbsent
    <3> HIDE DEF row
    <3> QED  BY <2>1, <2>5, <3>1, <3>2, <3>3 DEF Allowed
  <2> HIDE DEF row
  <2> QED  BY <2>1, <2>5, <2>6, RunAlone, DocsComplete
<1>4. CASE LinesEnd(r)
  <2> DEFINE row == [runs[r] EXCEPT !.pc = "deposits"]
  <2>1. Holds(r) /\ Set(r, row) /\ runs[r].todo = {} /\ runs[r].comm = 0
          /\ UNCHANGED <<docs, exps, comms, reqs>>
    BY <1>4 DEF LinesEnd, Holds, tables, BookInv, CommissionAbsent
  <2>2. row \in RunRow
    BY <1>t, RowTypes
  <2>3. /\ row.doc = d /\ row.todo = {} /\ row.new = runs[r].new
        /\ row.read = runs[r].read /\ row.comm = 0
    BY <1>t, <2>1 DEF RunRow
  <2> HIDE DEF row
  <2>4. Allowed(r, row)
    BY <2>1, <2>3 DEF Allowed, BookInv, NewAbsent, ReadBooked, LinesOver
  <2> QED  BY <2>1, <2>2, <2>4, RunAlone, DocsComplete
<1>5. CASE Deposits(r)
  <2> DEFINE row == [runs[r] EXCEPT !.pc = "commit", !.sees = Replaced(r), !.cleared = TRUE,
                                    !.comm = Commission(r)]
  <2>1. Holds(r) /\ Set(r, row) /\ runs[r].todo = {} /\ UNCHANGED <<docs, exps, comms, reqs>>
    BY <1>5 DEF Deposits, Holds, tables, BookInv, LinesOver
  <2>2. Replaced(r) \in SUBSET (Doc \X Inflow) /\ Commission(r) \in Gap
          /\ (Commission(r) # 0 => comms[d][Commission(r)] = 0)
    BY <1>t, Constants DEF Replaced, Commission, TypeOK
  <2>3. row \in RunRow
    BY <1>t, <2>2, RowTypes
  <2>4. Allowed(r, row)
    BY <1>t, <2>1, <2>2 DEF Allowed, BookInv, NewAbsent, ReadBooked, RunRow
  <2> HIDE DEF row
  <2> QED  BY <2>1, <2>3, <2>4, RunAlone, DocsComplete
<1>6. CASE DepositsFail(r)
  <2> DEFINE row == [runs[r] EXCEPT !.pc = "commit", !.paid = {}]
  <2>1. Holds(r) /\ Set(r, row) /\ runs[r].todo = {} /\ runs[r].comm = 0
          /\ UNCHANGED <<docs, exps, comms, reqs>>
    BY <1>6 DEF DepositsFail, Holds, tables, BookInv, LinesOver, CommissionAbsent
  <2>2. row \in RunRow
    BY <1>t, RowTypes
  <2>3. /\ row.doc = d /\ row.todo = {} /\ row.new = runs[r].new
        /\ row.read = runs[r].read /\ row.comm = 0
    BY <1>t, <2>1 DEF RunRow
  <2> HIDE DEF row
  <2>4. Allowed(r, row)
    BY <2>1, <2>3 DEF Allowed, BookInv, NewAbsent, ReadBooked, LinesOver
  <2> QED  BY <2>1, <2>2, <2>4, RunAlone, DocsComplete
<1>7. CASE Aborts(r)
  BY <1>7, EndBooks, DocsComplete DEF Aborts, tables
<1>8. CASE WorkerLost(r)
  BY <1>8, <1>t, RunAlone, FreshAllowed, FreshTypes, DocsComplete DEF WorkerLost, tables
<1> QED  BY <1>1, <1>2, <1>3, <1>4, <1>5, <1>6, <1>7, <1>8

\* The commit of a run: what it inserted was not there.
LEMMA CommitBooks ==
  ASSUME BookInv, TypeOK', NEW r \in Run, Commit(r)
  PROVE  BookInv'
<1> DEFINE d == runs[r].doc
           g == runs[r].comm
<1>t. /\ TypeOK /\ d \in Doc /\ g \in Gap /\ runs[r].read \subseteq Line
      /\ exps \in [Doc -> [Charges -> [n : Count, user : BOOLEAN]]] /\ runs \in [Run -> RunRow]
  BY DEF BookInv, TypeOK, RunRow
<1>1. Holds(r) /\ runs[r].todo = {} /\ \A c \in runs[r].new : exps[d][c].n = 0
  BY DEF Commit, Holds, BookInv, LinesOver, NewAbsent
<1>2. ASSUME NEW e \in Doc, NEW c \in Charges
      PROVE  IF e = d /\ c \in runs[r].new THEN exps[e][c].n = 0 /\ exps'[e][c].n = 1
             ELSE exps'[e][c] = exps[e][c]
  <2>1. Min({0 + 1, 2}) = 1
    BY Capped
  <2>2. exps' = WithLines(r)
    BY DEF Commit
  <2>3. CASE e = d /\ c \in runs[r].new
    <3>1. exps[e][c].n = 0
      BY <1>1, <2>3
    <3>2. WithLines(r)[e][c].n = Min({exps[e][c].n + 1, 2})
      BY <1>t, <2>3, WithLinesRows
    <3> QED  BY <2>1, <2>2, <2>3, <3>1, <3>2
  <2>4. CASE ~(e = d /\ c \in runs[r].new)
    BY <1>t, <2>2, <2>4, WithLinesRows
  <2> QED  BY <2>3, <2>4
<1>3. ASSUME NEW e \in Doc, NEW h \in Gap
      PROVE  \/ comms'[e][h] = comms[e][h]
             \/ e = d /\ comms[e][h] = 0 /\ comms'[e][h] = 1
  <2>1. CASE g = 0
    BY <2>1 DEF Commit
  <2>2. CASE g # 0
    <3>1. comms[d][g] = 0
      BY <2>2 DEF BookInv, CommissionAbsent
    <3>2. comms' = [comms EXCEPT ![d][g] = Min({comms[d][g] + 1, 2})]
      BY <2>2 DEF Commit
    <3>3. Min({comms[d][g] + 1, 2}) = 1
      BY <3>1, Capped
    <3>4. comms' = [comms EXCEPT ![d][g] = 1] /\ comms \in [Doc -> [Gap -> Count]]
      BY <1>t, <3>2, <3>3 DEF TypeOK
    <3> HIDE DEF g, d
    <3> QED  BY <1>t, <3>1, <3>4
  <2> QED  BY <2>1, <2>2
<1>4. ASSUME NEW s \in Run \ {r}
      PROVE  /\ runs'[s].pc = runs[s].pc /\ runs'[s].doc = runs[s].doc
             /\ runs'[s].read = runs[s].read /\ runs'[s].todo = runs[s].todo
             /\ runs'[s].new = runs[s].new /\ runs'[s].comm = runs[s].comm
  <2>1. runs'[s] = [runs[s] EXCEPT !.sees = @ \ runs[r].sees]
    BY DEF Commit
  <2> QED  BY <1>t, <2>1 DEF RunRow
<1>5. runs'[r].pc = "free" /\ runs'[r].comm = 0
  BY DEF Commit, Fresh
<1>6. ExtractedIsComplete'
  <2> SUFFICES ASSUME NEW e \in Doc, docs'[e].status = "extracted", NEW l \in docs'[e].read
               PROVE  exps'[e][Charge[l]].n > 0
    BY DEF ExtractedIsComplete
  <2>1. CASE e = d
    <3>1. docs'[e].read = runs[r].read
      BY <1>t, <2>1 DEF Commit, TypeOK
    <3>2. Charge[l] \in runs[r].new \/ exps[d][Charge[l]].n > 0
      BY <1>1, <3>1 DEF BookInv, ReadBooked
    <3>3. Charge[l] \in Charges
      BY <1>t, <3>1, Constants
    <3>4. CASE Charge[l] \in runs[r].new
      <4>1. exps'[d][Charge[l]].n = 1
        BY <1>2, <1>t, <3>3, <3>4
      <4> QED  BY <2>1, <4>1
    <3>5. CASE Charge[l] \notin runs[r].new
      <4>1. exps'[d][Charge[l]] = exps[d][Charge[l]]
        BY <1>2, <1>t, <3>3, <3>5
      <4> QED  BY <2>1, <3>2, <3>5, <4>1
    <3> QED  BY <3>4, <3>5
  <2>2. CASE e # d
    <3>1. docs'[e] = docs[e]
      BY <1>t, <2>2 DEF Commit, TypeOK
    <3>2. docs[e].read \subseteq Line
      BY <1>t DEF TypeOK, DocRow
    <3>3. Charge[l] \in Charges /\ exps[e][Charge[l]].n > 0
      BY <3>1, <3>2, Constants DEF BookInv, ExtractedIsComplete
    <3>4. exps'[e][Charge[l]] = exps[e][Charge[l]]
      BY <1>2, <2>2, <3>3
    <3> QED  BY <3>3, <3>4
  <2> QED  BY <2>1, <2>2
<1> QED
  <2>1. UNCHANGED reqs
    BY DEF Commit
  <2> HIDE DEF d, g
  <2>2. \A e \in Doc, c \in Charges :
          exps'[e][c] = exps[e][c] \/ (e = runs[r].doc /\ exps[e][c].n = 0 /\ exps'[e][c].n = 1)
    BY <1>2 DEF d
  <2>3. \A e \in Doc, h \in Gap :
          comms'[e][h] = comms[e][h] \/ (e = runs[r].doc /\ comms[e][h] = 0 /\ comms'[e][h] = 1)
    BY <1>3 DEF d
  <2> QED  BY <1>1, <1>4, <1>5, <1>6, <2>1, <2>2, <2>3, AddedBooks

\* What a run that fails leaves: the lines it has inserted, in a document that is not
\* shown as extracted
LEMMA FailBooks ==
  ASSUME BookInv, TypeOK', NEW r \in Run, Fails(r)
  PROVE  BookInv'
<1> DEFINE d == runs[r].doc
           c == Charge[NextLine(r)]
<1>t. /\ TypeOK /\ d \in Doc /\ runs[r].comm \in Gap
      /\ exps \in [Doc -> [Charges -> [n : Count, user : BOOLEAN]]] /\ runs \in [Run -> RunRow]
  BY DEF BookInv, TypeOK, RunRow
<1>1. docs' = (IF Stored(d) THEN Shown(d, "error") ELSE docs) /\ UNCHANGED <<comms, reqs>>
        /\ End(r)
  BY DEF Fails
<1>2. CASE UNCHANGED exps
  <2>1. ExtractedIsComplete'
    BY <1>1, <1>2, <1>t, ShownComplete, DocsComplete
  <2> QED  BY <1>1, <1>2, <2>1, EndBooks
<1>3. CASE exps' # exps
  <2>1. /\ runs[r].pc = "lines" /\ Holds(r) /\ runs[r].todo # {} /\ ~Booked(r, c)
        /\ exps' = [WithLines(r) EXCEPT ![d][c] = [n |-> 1, user |-> FALSE]]
    BY <1>3 DEF Fails, Holds
  <2>2. c \in Charges
    BY <1>t, <2>1, NextLineTypes
  <2>3. exps[d][c].n = 0
    <3>1. exps[d][c].n \in Count
      BY <1>t, <2>2
    <3> QED  BY <2>1, <3>1 DEF Booked, Count
  <2>4. \A b \in runs[r].new : exps[d][b].n = 0
    BY <2>1 DEF BookInv, NewAbsent
  <2>5. ASSUME NEW e \in Doc, NEW b \in Charges
        PROVE  \/ exps'[e][b] = exps[e][b]
               \/ e = d /\ exps[e][b].n = 0 /\ exps'[e][b].n = 1
    <3>1. WithLines(r) \in [Doc -> [Charges -> ExpRow]] /\ [n |-> 1, user |-> FALSE] \in ExpRow
      BY <1>t, WithLinesRows DEF ExpRow, Count
    <3>2. exps'[e][b] = IF e = d /\ b = c THEN [n |-> 1, user |-> FALSE] ELSE WithLines(r)[e][b]
      <4> HIDE DEF c, d
      <4> QED  BY <1>t, <2>1, <2>2, <3>1, OneRow
    <3>3. CASE e = d /\ b = c
      BY <2>3, <3>2, <3>3
    <3>4. CASE ~(e = d /\ b = c)
      <4>1. exps'[e][b] = WithLines(r)[e][b]
        BY <3>2, <3>4
      <4>2. CASE e = d /\ b \in runs[r].new
        <5>1. exps[e][b].n = 0 /\ Min({0 + 1, 2}) = 1
          BY <2>4, <4>2, Capped
        <5>2. WithLines(r)[e][b].n = Min({exps[e][b].n + 1, 2})
          BY <1>t, <4>2, WithLinesRows
        <5> QED  BY <4>1, <4>2, <5>1, <5>2
      <4>3. CASE ~(e = d /\ b \in runs[r].new)
        BY <1>t, <4>1, <4>3, WithLinesRows
      <4> QED  BY <4>2, <4>3
    <3> QED  BY <3>3, <3>4
  <2>6. \A s \in Run : runs'[s] = IF s = r THEN Fresh("free", AnyDoc) ELSE runs[s]
    BY <1>t, <1>1 DEF End, Set
  <2>7. ExtractedIsComplete'
    <3> SUFFICES ASSUME NEW e \in Doc, docs'[e].status = "extracted", NEW l \in docs'[e].read
                 PROVE  exps'[e][Charge[l]].n > 0
      BY DEF ExtractedIsComplete
    <3>1. docs'[e] = docs[e]
      BY <1>1, <1>t DEF TypeOK, Shown
    <3>2. Charge[l] \in Charges /\ exps[e][Charge[l]].n > 0
      <4>1. docs[e].read \subseteq Line
        BY <1>t DEF TypeOK, DocRow
      <4> QED  BY <3>1, <4>1, Constants DEF BookInv, ExtractedIsComplete
    <3>3. exps'[e][Charge[l]] = exps[e][Charge[l]] \/ exps'[e][Charge[l]].n = 1
      BY <2>5, <3>2
    <3> QED  BY <3>2, <3>3
  <2>8. runs'[r].pc = "free" /\ runs'[r].comm = 0
    BY <2>6 DEF Fresh
  <2>9. \A e \in Doc, b \in Charges :
          exps'[e][b] = exps[e][b] \/ (e = runs[r].doc /\ exps[e][b].n = 0 /\ exps'[e][b].n = 1)
    BY <2>5
  <2>10. UNCHANGED <<comms, reqs>>
    BY <1>1
  <2> HIDE DEF c, d
  <2> QED  BY <2>1, <2>6, <2>7, <2>8, <2>9, <2>10, AddedBooks
<1> QED  BY <1>2, <1>3

\* Requests, and the sales of the platforms
LEMMA BeginBooks ==
  ASSUME BookInv, TypeOK', NEW q \in Req, NEW kind \in {"reprocess", "delete"}, NEW d \in Doc,
         Begin(q, kind, d)
  PROVE  BookInv'
<1>t. TypeOK /\ reqs \in [Req -> ReqRow]
  BY DEF BookInv, TypeOK
<1> DEFINE row == [pc |-> kind, doc |-> d, sees |-> Deletes(kind, d),
                   comms |-> IF kind = "delete" THEN {g \in Gap : comms[d][g] > 0} ELSE {}]
<1>1. UNCHANGED <<docs, exps, comms, runs>> /\ reqs' = [reqs EXCEPT ![q] = row]
  BY DEF Begin, tables
<1>2. /\ \A p \in Req \ {q} : reqs'[p] = reqs[p]
      /\ reqs'[q].pc = kind /\ reqs'[q].doc = d /\ reqs'[q].sees = Deletes(kind, d)
  <2>1. row.pc = kind /\ row.doc = d /\ row.sees = Deletes(kind, d)
    OBVIOUS
  <2> HIDE DEF row
  <2> QED  BY <1>t, <1>1, <2>1
<1>3. SeesThere'
  <2> SUFFICES ASSUME NEW p \in Req, reqs'[p].pc # "idle", NEW c \in reqs'[p].sees
               PROVE  /\ exps[reqs'[p].doc][c].n > 0
                      /\ reqs'[p].pc = "reprocess" => ~exps[reqs'[p].doc][c].user
    BY <1>1 DEF SeesThere
  <2>1. CASE p = q
    BY <1>2, <2>1 DEF Deletes
  <2>2. CASE p # q
    BY <1>2, <2>2 DEF BookInv, SeesThere
  <2> QED  BY <2>1, <2>2
<1>4. SeesApart'
  <2>1. Deletes(kind, d) \cap Locked(d) = {}
    BY DEF Begin
  <2>2. \A p \in Req : reqs[p].pc # "idle" /\ reqs[p].doc = d => reqs[p].sees \subseteq Locked(d)
    BY DEF Locked
  <2> QED  BY <1>2, <2>1, <2>2 DEF BookInv, SeesApart
<1>5. OneHolder' /\ NewAbsent' /\ CommissionAbsent' /\ ReadBooked' /\ LinesOver'
        /\ LineBookedOnce' /\ ExtractedIsComplete'
  BY <1>1 DEF BookInv, OneHolder, NewAbsent, CommissionAbsent, ReadBooked, LinesOver, Holds,
              LineBookedOnce, ExtractedIsComplete
<1> QED  BY <1>3, <1>4, <1>5 DEF BookInv

LEMMA OverrideBooks ==
  ASSUME BookInv, TypeOK', NEW d \in Doc, NEW c \in Charges, Override(d, c)
  PROVE  BookInv'
<1>t. /\ TypeOK /\ exps \in [Doc -> [Charges -> [n : Count, user : BOOLEAN]]]
      /\ \A r \in Run : runs[r].doc \in Doc /\ runs[r].new \subseteq Charges
                        /\ runs[r].read \subseteq Line
      /\ \A q \in Req : reqs[q].doc \in Doc /\ reqs[q].sees \subseteq Charges
      /\ \A e \in Doc : docs[e].read \subseteq Line
  BY DEF BookInv, TypeOK, RunRow, ReqRow, DocRow
<1>1. UNCHANGED <<docs, comms, runs, reqs>> /\ c \notin Locked(d)
  BY DEF Override
<1>2. \A e \in Doc, b \in Charges :
        /\ exps'[e][b].n = exps[e][b].n
        /\ ~(e = d /\ b = c) => exps'[e][b] = exps[e][b]
  BY <1>t DEF Override
<1>3. SeesThere'
  <2>1. \A q \in Req : reqs[q].pc # "idle" /\ reqs[q].doc = d => c \notin reqs[q].sees
    BY <1>1 DEF Locked
  <2> QED  BY <1>t, <1>1, <1>2, <2>1 DEF BookInv, SeesThere
<1>4. NewAbsent'
  BY <1>t, <1>1, <1>2 DEF BookInv, NewAbsent, Holds
<1>5. ReadBooked'
  BY <1>t, <1>1, <1>2, Constants DEF BookInv, ReadBooked, Holds
<1>6. LineBookedOnce' /\ ExtractedIsComplete'
  BY <1>t, <1>1, <1>2, Constants DEF BookInv, LineBookedOnce, ExtractedIsComplete
<1>7. OneHolder' /\ CommissionAbsent' /\ LinesOver' /\ SeesApart'
  BY <1>1 DEF BookInv, OneHolder, CommissionAbsent, LinesOver, SeesApart, Holds
<1> QED  BY <1>3, <1>4, <1>5, <1>6, <1>7 DEF BookInv

\* A request that is over: no run holds its document, and no other request deletes
\* the same rows.
LEMMA FinishBooks ==
  ASSUME BookInv, TypeOK', NEW q \in Req, Finish(q)
  PROVE  BookInv'
<1> DEFINE d == reqs[q].doc
<1>t. /\ TypeOK /\ d \in Doc /\ reqs \in [Req -> ReqRow]
      /\ exps \in [Doc -> [Charges -> [n : Count, user : BOOLEAN]]]
      /\ \A r \in Run : runs[r].doc \in Doc /\ runs[r].new \subseteq Charges
                        /\ runs[r].read \subseteq Line /\ runs[r].comm \in Gap
      /\ \A p \in Req : reqs[p].doc \in Doc /\ reqs[p].sees \subseteq Charges
      /\ \A e \in Doc : docs[e].read \subseteq Line
  BY DEF BookInv, TypeOK, RunRow, ReqRow, DocRow
<1>1. ASSUME NEW e \in Doc, NEW c \in Charges
      PROVE  exps'[e][c] = IF e = d /\ c \in reqs[q].sees THEN NoRow ELSE exps[e][c]
  BY <1>t DEF Finish
<1>2. ASSUME NEW e \in Doc, NEW g \in Gap
      PROVE  comms'[e][g] = comms[e][g] \/ (e = d /\ comms'[e][g] = 0)
  <2>1. /\ comms' = [comms EXCEPT ![d] = [h \in Gap |-> IF h \in reqs[q].comms THEN 0 ELSE @[h]]]
        /\ comms \in [Doc -> [Gap -> Count]]
    BY <1>t DEF Finish, TypeOK
  <2>2. CASE e = d
    BY <1>t, <2>1, <2>2
  <2>3. CASE e # d
    <3> HIDE DEF d
    <3> QED  BY <1>t, <2>1, <2>3
  <2> QED  BY <2>2, <2>3
<1>3. /\ \A r \in Run : Holds(r) => runs[r].doc # d
      /\ \A p \in Req : reqs'[p] = IF p = q THEN NoReq ELSE reqs[p]
  BY <1>t DEF Finish, DocFree
<1>4. ASSUME NEW r \in Run
      PROVE  \/ runs'[r] = runs[r]
             \/ runs'[r] = Fresh("queued", d)
  BY DEF Finish, Publish, BookInv, TypeOK
<1>5. ASSUME NEW r \in Run, Holds(r)'
      PROVE  Holds(r) /\ runs'[r] = runs[r] /\ runs[r].doc \in Doc \ {d}
  BY <1>3, <1>4, <1>5, <1>t DEF Holds, Fresh
<1>6. OneHolder'
  BY <1>5 DEF BookInv, OneHolder
<1>7. NewAbsent'
  BY <1>1, <1>5, <1>t DEF BookInv, NewAbsent
<1>8. CommissionAbsent'
  <2> SUFFICES ASSUME NEW r \in Run, runs'[r].comm # 0
               PROVE  runs'[r].pc = "commit" /\ comms'[runs'[r].doc][runs'[r].comm] = 0
    BY DEF CommissionAbsent
  <2>1. runs'[r] = runs[r]
    BY <1>4 DEF Fresh
  <2>2. runs[r].pc = "commit" /\ comms[runs[r].doc][runs[r].comm] = 0
    BY <2>1 DEF BookInv, CommissionAbsent
  <2> QED  BY <1>2, <1>t, <2>1, <2>2
<1>9. ReadBooked'
  BY <1>1, <1>5, <1>t, Constants DEF BookInv, ReadBooked
<1>10. LinesOver'
  BY <1>4 DEF BookInv, LinesOver, Fresh
<1>11. SeesThere'
  <2> SUFFICES ASSUME NEW p \in Req, reqs'[p].pc # "idle", NEW c \in reqs'[p].sees
               PROVE  /\ exps'[reqs'[p].doc][c].n > 0
                      /\ reqs'[p].pc = "reprocess" => ~exps'[reqs'[p].doc][c].user
    BY DEF SeesThere
  <2>1. p # q /\ reqs'[p] = reqs[p]
    BY <1>3 DEF NoReq
  <2>2. ~(reqs[p].doc = d /\ c \in reqs[q].sees)
    BY <2>1 DEF BookInv, SeesApart, Finish
  <2>3. exps'[reqs[p].doc][c] = exps[reqs[p].doc][c]
    BY <1>1, <1>t, <2>1, <2>2
  <2> QED  BY <2>1, <2>3 DEF BookInv, SeesThere
<1>12. SeesApart'
  BY <1>3 DEF BookInv, SeesApart, NoReq
<1>13. LineBookedOnce'
  BY <1>1, <1>2 DEF BookInv, LineBookedOnce, NoRow
<1>14. ExtractedIsComplete'
  <2> SUFFICES ASSUME NEW e \in Doc, docs'[e].status = "extracted", NEW l \in docs'[e].read
               PROVE  exps'[e][Charge[l]].n > 0
    BY DEF ExtractedIsComplete
  <2>1. docs'[e] = docs[e] /\ e # d
    BY <1>t DEF Finish, Shown, Stored, BookInv, TypeOK
  <2>2. Charge[l] \in Charges /\ exps[e][Charge[l]].n > 0
    BY <1>t, <2>1, Constants DEF BookInv, ExtractedIsComplete
  <2> QED  BY <1>1, <2>1, <2>2
<1> QED  BY <1>6, <1>7, <1>8, <1>9, <1>10, <1>11, <1>12, <1>13, <1>14 DEF BookInv

LEMMA NextBooks ==
  ASSUME BookInv, [Next]_vars
  PROVE  BookInv'
<1>t. TypeOK'
  BY NextTypes DEF BookInv
<1>1. ASSUME NEW r \in Run, RunStep(r) \/ DepositsFail(r) \/ Fails(r) \/ Aborts(r) \/ WorkerLost(r)
      PROVE  BookInv'
  BY <1>t, <1>1, RunBooks, CommitBooks, FailBooks DEF RunStep
<1>2. ASSUME NEW d \in Doc, Upload(d)  PROVE BookInv'
  BY <1>t, <1>2, PublishBooks, ShownComplete DEF Upload
<1>3. ASSUME NEW d \in Doc, NEW c \in Charges, Override(d, c)  PROVE BookInv'
  BY <1>t, <1>3, OverrideBooks
<1>4. ASSUME NEW q \in Req, Finish(q)  PROVE BookInv'
  BY <1>t, <1>4, FinishBooks
<1>5. ASSUME NEW q \in Req, NEW d \in Doc, Begin(q, "reprocess", d) \/ Begin(q, "delete", d)
      PROVE  BookInv'
  BY <1>t, <1>5, BeginBooks
<1>6. ASSUME SalesChange \/ UNCHANGED vars
      PROVE  BookInv'
  <2>1. UNCHANGED <<docs, exps, comms, runs, reqs>>
    BY <1>6 DEF SalesChange, tables, vars
  <2> QED
    BY <1>t, <2>1 DEF BookInv, OneHolder, NewAbsent, CommissionAbsent, ReadBooked, LinesOver,
      SeesThere, SeesApart, Holds, LineBookedOnce, ExtractedIsComplete
<1> QED  BY <1>1, <1>2, <1>3, <1>4, <1>5, <1>6 DEF Next

LEMMA BookInvHolds == Spec => []BookInv
<1>1. Init => BookInv
  BY InitBooks
<1>2. BookInv /\ [Next]_vars => BookInv'
  BY NextBooks
<1> QED  BY <1>1, <1>2, PTL DEF Spec

\* Whatever is delivered again, reprocessed or deleted at once, a statement has one row
\* of a charge and one commission of an amount: bank_line_exists looks under the lock
\* of the document.
THEOREM BookedOnce == Spec => []LineBookedOnce
<1>1. BookInv => LineBookedOnce
  BY DEF BookInv
<1> QED  BY <1>1, BookInvHolds, PTL

\* A statement that is shown as extracted has a row of every line that was read: the
\* commit that shows it is that of the rows.
THEOREM Complete == Spec => []ExtractedIsComplete
<1>1. BookInv => ExtractedIsComplete
  BY DEF BookInv
<1> QED  BY <1>1, BookInvHolds, PTL

\* What one step may do to a row that is overridden
KeepsRow(d, c) ==
  exps[d][c].n > 0 /\ exps[d][c].user =>
    \/ exps'[d][c].n > 0 /\ exps'[d][c].user
    \/ docs'[d].status = "gone"

LEMMA NextKeepsRow ==
  ASSUME BookInv, [Next]_vars, NEW d \in Doc, NEW c \in Charges
  PROVE  KeepsRow(d, c)
<1>t. /\ TypeOK /\ exps \in [Doc -> [Charges -> [n : Count, user : BOOLEAN]]]
      /\ runs \in [Run -> RunRow] /\ docs \in [Doc -> DocRow]
      /\ \A q \in Req : reqs[q].doc \in Doc /\ reqs[q].pc \in {"idle", "reprocess", "delete"}
  BY DEF BookInv, TypeOK, ReqRow
<1> SUFFICES ASSUME exps[d][c].n > 0, exps[d][c].user
             PROVE  \/ exps'[d][c].n > 0 /\ exps'[d][c].user
                    \/ docs'[d].status = "gone"
  BY DEF KeepsRow
<1>1. ASSUME UNCHANGED exps  PROVE exps'[d][c].n > 0 /\ exps'[d][c].user
  BY <1>1
<1>2. ASSUME NEW r \in Run, Holds(r)  PROVE WithLines(r)[d][c] = exps[d][c]
  <2>1. ~(d = runs[r].doc /\ c \in runs[r].new)
    BY <1>2 DEF BookInv, NewAbsent
  <2> QED  BY <1>t, <2>1, WithLinesRows
<1>3. ASSUME NEW r \in Run, Commit(r)  PROVE exps'[d][c].n > 0 /\ exps'[d][c].user
  BY <1>2, <1>3 DEF Commit, Holds
<1>4. ASSUME NEW r \in Run, Fails(r)  PROVE exps'[d][c].n > 0 /\ exps'[d][c].user
  <2> DEFINE b == Charge[NextLine(r)]
  <2>1. CASE exps' # exps
    <3>1. /\ Holds(r) /\ runs[r].todo # {} /\ ~Booked(r, b)
          /\ exps' = [WithLines(r) EXCEPT ![runs[r].doc][b] = [n |-> 1, user |-> FALSE]]
      BY <1>4, <2>1 DEF Fails, Holds
    <3>2. ~(d = runs[r].doc /\ c = b)
      BY <3>1 DEF Booked
    <3>3. b \in Charges /\ runs[r].doc \in Doc
      BY <1>t, <3>1, NextLineTypes DEF RunRow
    <3>4. WithLines(r) \in [Doc -> [Charges -> ExpRow]] /\ [n |-> 1, user |-> FALSE] \in ExpRow
      BY <1>t, WithLinesRows DEF ExpRow, Count
    <3> HIDE DEF b
    <3>5. exps'[d][c] = WithLines(r)[d][c]
      BY <3>1, <3>2, <3>3, <3>4, OneRow
    <3> QED  BY <1>2, <3>1, <3>5
  <2> QED  BY <1>1, <2>1
<1>5. ASSUME NEW q \in Req, Finish(q)
      PROVE  \/ exps'[d][c].n > 0 /\ exps'[d][c].user
             \/ docs'[d].status = "gone"
  <2>1. exps'[d][c] = IF d = reqs[q].doc /\ c \in reqs[q].sees THEN NoRow ELSE exps[d][c]
    BY <1>t, <1>5 DEF Finish
  <2>2. CASE d = reqs[q].doc /\ c \in reqs[q].sees
    <3>1. reqs[q].pc = "delete"
      BY <1>t, <1>5, <2>2 DEF Finish, BookInv, SeesThere
    <3>2. docs' = Shown(d, "gone")
      BY <1>5, <2>2, <3>1 DEF Finish
    <3> QED  BY <1>t, <3>2 DEF Shown
  <2>3. CASE ~(d = reqs[q].doc /\ c \in reqs[q].sees)
    BY <2>1, <2>3
  <2> QED  BY <2>2, <2>3
<1>6. ASSUME NEW e \in Doc, NEW b \in Charges, Override(e, b)
      PROVE  exps'[d][c].n > 0 /\ exps'[d][c].user
  BY <1>t, <1>6 DEF Override
<1>7. ASSUME NEW r \in Run,
             \/ Start(r) \/ Read(r) \/ BookLine(r) \/ LinesEnd(r) \/ Deposits(r)
             \/ DepositsFail(r) \/ Aborts(r) \/ WorkerLost(r)
      PROVE  UNCHANGED exps
  BY <1>7 DEF Start, Read, BookLine, LinesEnd, Deposits, DepositsFail, Aborts, WorkerLost, tables
<1>8. ASSUME NEW e \in Doc, NEW q \in Req, Begin(q, "reprocess", e) \/ Begin(q, "delete", e)
      PROVE  UNCHANGED exps
  BY <1>8 DEF Begin, tables
<1>9. ASSUME NEW e \in Doc, Upload(e)  PROVE UNCHANGED exps
  BY <1>9 DEF Upload
<1>10. ASSUME SalesChange \/ UNCHANGED vars  PROVE UNCHANGED exps
  BY <1>10 DEF SalesChange, tables, vars
<1> QED
  BY <1>1, <1>3, <1>4, <1>5, <1>6, <1>7, <1>8, <1>9, <1>10 DEF Next, RunStep

\* The row of a charge that a user has overridden leaves the books with its document
\* only: what a reprocess deletes is chosen under the lock of the rows, and a run
\* writes only where there is no row.
THEOREM Overridden == Spec => OverrideStays
<1>1. ASSUME BookInv, [Next]_vars
      PROVE  \A d \in Doc, c \in Charges : KeepsRow(d, c)
  BY <1>1, NextKeepsRow
<1>2. ASSUME \A d \in Doc, c \in Charges : KeepsRow(d, c)
      PROVE  \A d \in Doc, c \in Charges :
               exps[d][c].n > 0 /\ exps[d][c].user =>
                 \/ exps'[d][c].n > 0 /\ exps'[d][c].user
                 \/ docs'[d].status = "gone"
  BY <1>2 DEF KeepsRow
<1> QED  BY <1>1, <1>2, BookInvHolds, PTL DEF Spec, OverrideStays

-----------------------------------------------------------------------------
(* Deposits *)

\* A run that stores deposits has looked up what it replaces.
LookedUp ==
  \A r \in Run : /\ runs[r].cleared => runs[r].pc = "commit"
                 /\ runs[r].pc = "commit" /\ runs[r].paid # {} => runs[r].cleared

\* What two runs have looked up of the same days is raced.
Races ==
  \A r, s \in Run, i \in Inflow :
    /\ r # s /\ runs[r].cleared /\ runs[s].cleared
    /\ Spans(runs[r].paid, i) /\ Spans(runs[s].paid, i)
    => i \in raced

\* A run replaces every row of the deposits it is about to store.
SeesAll ==
  \A r \in Run, d \in Doc, i \in Inflow :
    runs[r].cleared /\ i \in runs[r].paid \ raced /\ deps[d][i] > 0 => <<d, i>> \in runs[r].sees

MoneyInv ==
  /\ TypeOK /\ LookedUp /\ Races /\ SeesAll /\ DepositCountedOnce /\ DepositStays

LEMMA SpansOwn ==
  \A P \in SUBSET Inflow : \A i \in P : Spans(P, i)
BY StatementAssumption DEF Spans

\* The rows of deposits after a commit
LEMMA MoneyRows ==
  ASSUME TypeOK, NEW r \in Run, NEW d \in Doc, NEW i \in Inflow
  PROVE  /\ i \in runs[r].paid /\ d = runs[r].doc => Money(r)[d][i] > 0
         /\ <<d, i>> \in runs[r].sees /\ d = runs[r].doc /\ i \in runs[r].paid => Money(r)[d][i] = 1
         /\ deps[d][i] = 0 /\ d = runs[r].doc /\ i \in runs[r].paid => Money(r)[d][i] = 1
         /\ ~(d = runs[r].doc /\ i \in runs[r].paid) =>
              Money(r)[d][i] = IF <<d, i>> \in runs[r].sees THEN 0 ELSE deps[d][i]
<1> DEFINE kept == IF <<d, i>> \in runs[r].sees THEN 0 ELSE deps[d][i]
           new  == IF d = runs[r].doc /\ i \in runs[r].paid THEN 1 ELSE 0
<1>1. deps[d][i] \in 0..2
  BY DEF TypeOK, Count
<1>2. kept \in 0..2 /\ new \in 0..1 /\ kept + new \in Nat
  BY <1>1
<1>3. Money(r)[d][i] = Min({kept + new, 2})
  BY DEF Money
<1>4. /\ kept + new <= 2 => Min({kept + new, 2}) = kept + new
      /\ kept + new > 0 => Min({kept + new, 2}) > 0
  BY <1>2, Capped
<1>5. CASE d = runs[r].doc /\ i \in runs[r].paid
  <2>1. new = 1 /\ (<<d, i>> \in runs[r].sees \/ deps[d][i] = 0 => kept = 0)
    BY <1>5
  <2> HIDE DEF kept, new
  <2> QED  BY <1>2, <1>3, <1>4, <1>5, <2>1
<1>6. CASE ~(d = runs[r].doc /\ i \in runs[r].paid)
  <2>1. new = 0
    BY <1>6
  <2>2. Money(r)[d][i] = kept
    <3> HIDE DEF kept, new
    <3> QED  BY <1>2, <1>3, <1>4, <2>1
  <2> QED  BY <1>6, <2>2
<1> QED  BY <1>5, <1>6

LEMMA InitMoney == Init => MoneyInv
<1> SUFFICES ASSUME Init PROVE MoneyInv
  OBVIOUS
<1>1. TypeOK
  BY InitTypes
<1>2. \A r \in Run : runs[r].pc = "free" /\ ~runs[r].cleared
  BY DEF Init, Fresh
<1>3. \A d \in Doc, i \in Inflow : deps[d][i] = 0
  BY DEF Init
<1>4. \A d \in Doc : docs[d].status = "none"
  BY DEF Init
<1> QED
  BY <1>1, <1>2, <1>3, <1>4 DEF MoneyInv, LookedUp, Races, SeesAll, DepositCountedOnce, DepositStays

\* A step that neither looks deposits up nor commits them
LEMMA OtherMoney ==
  ASSUME MoneyInv, TypeOK', UNCHANGED <<deps, raced, lost>>,
         \A d \in Doc : docs'[d].status = "extracted" => docs'[d] = docs[d],
         \A r \in Run : \/ runs'[r] = runs[r]
                        \/ ~runs'[r].cleared /\ (runs'[r].pc = "commit" => runs'[r].paid = {})
  PROVE  MoneyInv'
<1>1. DepositStays'
  BY DEF MoneyInv, DepositStays
<1>2. DepositCountedOnce' /\ LookedUp'
  BY DEF MoneyInv, DepositCountedOnce, LookedUp
<1>3. \A r \in Run : runs'[r].cleared => runs'[r] = runs[r]
  OBVIOUS
<1>4. Races'
  BY <1>3 DEF MoneyInv, Races
<1>5. SeesAll'
  BY <1>3 DEF MoneyInv, SeesAll
<1> QED  BY <1>1, <1>2, <1>4, <1>5 DEF MoneyInv

\* ... of one run
LEMMA RunMoney ==
  ASSUME MoneyInv, TypeOK', UNCHANGED <<deps, raced, lost>>,
         \A d \in Doc : docs'[d].status = "extracted" => docs'[d] = docs[d],
         NEW r \in Run, NEW row \in RunRow, Set(r, row), ~row.cleared,
         row.pc = "commit" => row.paid = {}
  PROVE  MoneyInv'
<1>1. \A s \in Run : IF s = r THEN runs'[s] = row ELSE runs'[s] = runs[s]
  BY DEF Set, MoneyInv, TypeOK
<1> QED  BY <1>1, OtherMoney

LEMMA FreshMoney ==
  ASSUME NEW d \in Doc, NEW pc \in {"free", "queued", "started", "lines", "deposits"}
  PROVE  Fresh(pc, d) \in RunRow /\ ~Fresh(pc, d).cleared /\ Fresh(pc, d).pc # "commit"
BY FreshTypes DEF Fresh

LEMMA ShownMoney ==
  ASSUME docs \in [Doc -> DocRow], NEW d \in Doc, NEW status, status # "extracted",
         docs' = Shown(d, status)
  PROVE  \A e \in Doc : docs'[e].status = "extracted" => docs'[e] = docs[e]
BY DEF Shown

LEMMA DepositsMoney ==
  ASSUME MoneyInv, TypeOK', NEW r \in Run, Deposits(r)
  PROVE  MoneyInv'
<1>t. TypeOK /\ UNCHANGED <<docs, deps, lost>> /\ raced \subseteq raced'
  BY DEF MoneyInv, Deposits, tables
<1> DEFINE row == [runs[r] EXCEPT !.pc = "commit", !.sees = Replaced(r), !.cleared = TRUE,
                                  !.comm = Commission(r)]
<1>0. runs[r] \in RunRow /\ runs' = [runs EXCEPT ![r] = row]
  BY <1>t DEF Deposits, Set, TypeOK
<1>1. row.pc = "commit" /\ row.sees = Replaced(r) /\ row.cleared /\ row.paid = runs[r].paid
  BY <1>0 DEF RunRow
<1> HIDE DEF row
<1>2. runs'[r] = row /\ \A s \in Run \ {r} : runs'[s] = runs[s]
  BY <1>t, <1>0 DEF TypeOK
<1>3. DepositStays' /\ DepositCountedOnce'
  BY <1>t DEF MoneyInv, DepositStays, DepositCountedOnce
<1>4. LookedUp'
  BY <1>1, <1>2 DEF MoneyInv, LookedUp
<1>5. Races'
  <2> SUFFICES ASSUME NEW s \in Run, NEW u \in Run, NEW i \in Inflow, s # u,
                      runs'[s].cleared, runs'[u].cleared,
                      Spans(runs'[s].paid, i), Spans(runs'[u].paid, i)
               PROVE  i \in raced'
    BY DEF Races
  <2>0. \A x \in Run \ {r} : runs[x].cleared /\ Spans(runs[r].paid, i) /\ Spans(runs[x].paid, i)
                             => i \in raced'
    BY DEF Deposits
  <2>1. CASE s = r
    BY <1>1, <1>2, <2>0, <2>1
  <2>2. CASE u = r
    BY <1>1, <1>2, <2>0, <2>2
  <2>3. CASE s # r /\ u # r
    BY <1>t, <1>2, <2>3 DEF MoneyInv, Races
  <2> QED  BY <2>1, <2>2, <2>3
<1>6. SeesAll'
  <2> SUFFICES ASSUME NEW s \in Run, NEW d \in Doc, NEW i \in Inflow, runs'[s].cleared,
                      i \in runs'[s].paid \ raced', deps[d][i] > 0
               PROVE  <<d, i>> \in runs'[s].sees
    BY <1>t DEF SeesAll
  <2>1. CASE s = r
    <3>1. runs[r].paid \in SUBSET Inflow /\ i \in runs[r].paid
      BY <1>0, <1>1, <1>2, <2>1 DEF RunRow
    <3>2. Spans(runs[r].paid, i)
      BY <3>1, SpansOwn
    <3> QED  BY <1>1, <1>2, <2>1, <3>2 DEF Replaced
  <2>2. CASE s # r
    BY <1>t, <1>2, <2>2 DEF MoneyInv, SeesAll
  <2> QED  BY <2>1, <2>2
<1> QED  BY <1>3, <1>4, <1>5, <1>6 DEF MoneyInv

LEMMA CommitMoney ==
  ASSUME MoneyInv, TypeOK', NEW r \in Run, Commit(r)
  PROVE  MoneyInv'
<1>t. TypeOK /\ runs[r] \in RunRow /\ runs[r].pc = "commit" /\ deps' = Money(r) /\ raced' = raced
  BY DEF MoneyInv, Commit, TypeOK
<1> DEFINE d == runs[r].doc
           paid == runs[r].paid
<1>0. d \in Doc /\ paid \subseteq Inflow /\ (paid # {} => runs[r].cleared)
      /\ \A e \in Doc, i \in Inflow : deps[e][i] \in 0..2
  <2>1. d \in Doc /\ paid \subseteq Inflow
    BY <1>t DEF RunRow
  <2>2. paid # {} => runs[r].cleared
    BY <1>t DEF MoneyInv, LookedUp
  <2>3. \A e \in Doc, i \in Inflow : deps[e][i] \in 0..2
    BY <1>t DEF TypeOK, Count
  <2> QED  BY <2>1, <2>2, <2>3
<1>1. /\ runs'[r] = Fresh("free", AnyDoc) /\ ~runs'[r].cleared /\ runs'[r].pc = "free"
      /\ \A s \in Run \ {r} : /\ runs'[s].cleared = runs[s].cleared /\ runs'[s].pc = runs[s].pc
                              /\ runs'[s].paid = runs[s].paid
                              /\ runs'[s].sees = runs[s].sees \ runs[r].sees
  <2>1. runs' = [s \in Run |-> IF s = r THEN Fresh("free", AnyDoc)
                              ELSE [runs[s] EXCEPT !.sees = @ \ runs[r].sees]]
    BY DEF Commit
  <2>2. \A s \in Run : runs[s] \in RunRow
    BY <1>t DEF TypeOK
  <2>3. Fresh("free", AnyDoc).pc = "free" /\ ~Fresh("free", AnyDoc).cleared
    BY DEF Fresh
  <2>4. runs'[r] = Fresh("free", AnyDoc)
    BY <2>1
  <2>5. ASSUME NEW s \in Run \ {r}
        PROVE  /\ runs'[s].cleared = runs[s].cleared /\ runs'[s].pc = runs[s].pc
               /\ runs'[s].paid = runs[s].paid /\ runs'[s].sees = runs[s].sees \ runs[r].sees
    BY <2>1, <2>2 DEF RunRow
  <2> QED  BY <2>3, <2>4, <2>5
<1>2. lost' = lost \cup (Gone(r) \ paid)
  BY DEF Commit
<1>3. docs'[d].paid = paid /\ \A e \in Doc \ {d} : docs'[e] = docs[e]
  BY <1>0, <1>t DEF Commit, TypeOK
<1>4. LookedUp'
  BY <1>1 DEF MoneyInv, LookedUp
<1>5. Races'
  BY <1>1, <1>t DEF MoneyInv, Races
<1>6. SeesAll'
  <2> SUFFICES ASSUME NEW s \in Run, NEW e \in Doc, NEW i \in Inflow, runs'[s].cleared,
                      i \in runs'[s].paid \ raced, deps'[e][i] > 0
               PROVE  <<e, i>> \in runs'[s].sees
    BY <1>t DEF SeesAll
  <2>1. s # r /\ runs[s].cleared /\ i \in runs[s].paid /\ runs'[s].sees = runs[s].sees \ runs[r].sees
    BY <1>1
  <2>2. i \notin paid
    <3> SUFFICES ASSUME i \in paid PROVE FALSE
      OBVIOUS
    <3>1. runs[s].paid \in SUBSET Inflow /\ paid \in SUBSET Inflow /\ runs[r].cleared
      BY <1>t, <1>0 DEF TypeOK, RunRow
    <3>2. Spans(runs[s].paid, i) /\ Spans(paid, i)
      BY <2>1, <3>1, SpansOwn
    <3> QED  BY <2>1, <3>1, <3>2 DEF MoneyInv, Races
  <2>3. Money(r)[e][i] = IF <<e, i>> \in runs[r].sees THEN 0 ELSE deps[e][i]
    BY <1>t, <2>2, MoneyRows
  <2>4. <<e, i>> \notin runs[r].sees /\ deps[e][i] > 0
    BY <1>t, <2>3
  <2>5. <<e, i>> \in runs[s].sees
    BY <2>1, <2>4 DEF MoneyInv, SeesAll
  <2> QED  BY <2>1, <2>4, <2>5
<1>7. DepositCountedOnce'
  <2> SUFFICES ASSUME NEW i \in Inflow \ raced, NEW e \in Doc, NEW f \in Doc
               PROVE  deps'[e][i] <= 1 /\ (deps'[e][i] > 0 /\ deps'[f][i] > 0 => e = f)
    BY <1>t DEF DepositCountedOnce
  <2>1. deps[e][i] <= 1 /\ (deps[e][i] > 0 /\ deps[f][i] > 0 => e = f)
    BY DEF MoneyInv, DepositCountedOnce
  <2>2. CASE i \in paid
    <3>1. \A x \in Doc : deps[x][i] > 0 => <<x, i>> \in runs[r].sees
      BY <1>0, <2>2 DEF MoneyInv, SeesAll
    <3>2. ASSUME NEW x \in Doc  PROVE Money(r)[x][i] = IF x = d THEN 1 ELSE 0
      <4>1. deps[x][i] = 0 \/ <<x, i>> \in runs[r].sees
        BY <1>0, <3>1
      <4>2. CASE x = d
        BY <1>t, <2>2, <4>1, <4>2, MoneyRows
      <4>3. CASE x # d
        BY <1>t, <4>1, <4>3, MoneyRows
      <4> QED  BY <4>2, <4>3
    <3> QED  BY <1>t, <3>2
  <2>3. CASE i \notin paid
    <3>1. \A x \in Doc : Money(r)[x][i] = IF <<x, i>> \in runs[r].sees THEN 0 ELSE deps[x][i]
      BY <1>t, <2>3, MoneyRows
    <3>2. /\ deps'[e][i] = 0 \/ deps'[e][i] = deps[e][i]
          /\ deps'[f][i] = 0 \/ deps'[f][i] = deps[f][i]
      BY <1>t, <3>1
    <3> QED  BY <2>1, <3>2
  <2> QED  BY <2>2, <2>3
<1>8. DepositStays'
  <2> SUFFICES ASSUME NEW e \in Doc, docs'[e].status = "extracted",
                      NEW i \in docs'[e].paid \ lost'
               PROVE  \E x \in Doc : deps'[x][i] > 0
    BY DEF DepositStays
  <2>0. i \in Inflow
    BY DEF TypeOK, DocRow
  <2>1. CASE i \in paid
    <3>1. Money(r)[d][i] > 0
      BY <1>t, <1>0, <2>0, <2>1, MoneyRows
    <3> QED  BY <1>t, <1>0, <3>1
  <2>2. CASE i \notin paid
    <3>1. e # d /\ docs'[e] = docs[e] /\ i \notin lost /\ i \notin Gone(r)
      BY <1>2, <1>3, <2>2
    <3>2. PICK x \in Doc : deps[x][i] > 0
      BY <3>1 DEF MoneyInv, DepositStays
    <3>3. <<x, i>> \notin runs[r].sees
      BY <2>0, <3>1 DEF Gone
    <3>4. Money(r)[x][i] = deps[x][i]
      BY <1>t, <2>0, <2>2, <3>3, MoneyRows
    <3> QED  BY <1>t, <3>2, <3>4
  <2> QED  BY <2>1, <2>2
<1> QED  BY <1>4, <1>5, <1>6, <1>7, <1>8 DEF MoneyInv

LEMMA NextMoney ==
  ASSUME MoneyInv, [Next]_vars
  PROVE  MoneyInv'
<1>t. TypeOK /\ TypeOK' /\ docs \in [Doc -> DocRow] /\ runs \in [Run -> RunRow]
      /\ (\A r \in Run : runs[r].doc \in Doc) /\ (\A q \in Req : reqs[q].doc \in Doc)
      /\ AnyDoc \in Doc
  BY NextTypes, Constants DEF MoneyInv, TypeOK, RunRow, ReqRow
<1>f. ASSUME NEW r \in Run, runs[r].pc # "commit"  PROVE ~runs[r].cleared
  BY <1>f DEF MoneyInv, LookedUp
<1>e. ASSUME NEW r \in Run, End(r), UNCHANGED <<deps, raced, lost>>,
             \A d \in Doc : docs'[d].status = "extracted" => docs'[d] = docs[d]
      PROVE  MoneyInv'
  BY <1>t, <1>e, FreshMoney, RunMoney DEF End
<1>p. ASSUME NEW d \in Doc, Publish(d), UNCHANGED <<deps, raced, lost>>,
             \A e \in Doc : docs'[e].status = "extracted" => docs'[e] = docs[e]
      PROVE  MoneyInv'
  <2>1. PICK r \in Run : Set(r, Fresh("queued", d))
    BY <1>p DEF Publish, Set
  <2> QED  BY <1>t, <1>p, <2>1, FreshMoney, RunMoney
<1>1. ASSUME NEW r \in Run, Start(r)  PROVE MoneyInv'
  <2>1. /\ UNCHANGED <<deps, raced, lost>>
        /\ \A d \in Doc : docs'[d].status = "extracted" => docs'[d] = docs[d]
    BY <1>t, <1>1, ShownMoney DEF Start
  <2>2. End(r) \/ Set(r, Fresh("started", runs[r].doc))
    BY <1>1 DEF Start
  <2> QED  BY <1>t, <1>e, <2>1, <2>2, FreshMoney, RunMoney
<1>2. ASSUME NEW r \in Run, Read(r)  PROVE MoneyInv'
  <2>1. UNCHANGED <<docs, deps, raced, lost>>
    BY <1>2 DEF Read, tables
  <2>2. CASE End(r)
    BY <1>e, <2>1, <2>2
  <2>3. CASE ~End(r)
    <3>1. PICK L \in Readings(runs[r].doc), P \in Payments(runs[r].doc) :
            Set(r, [Fresh("lines", runs[r].doc) EXCEPT !.read = Expenses(L), !.todo = Expenses(L), !.paid = P])
      BY <1>2, <2>3 DEF Read
    <3> DEFINE row == [Fresh("lines", runs[r].doc) EXCEPT !.read = Expenses(L), !.todo = Expenses(L), !.paid = P]
    <3>2. row \in RunRow
      <4>1. Fresh("lines", runs[r].doc) \in RunRow /\ Expenses(L) \in SUBSET Line /\ P \in SUBSET Inflow
        BY <1>t, FreshTypes, ReadingsAreLines
      <4> QED  BY <4>1, RowTypes
    <3>3. ~row.cleared /\ row.pc # "commit"
      BY DEF Fresh
    <3> HIDE DEF row
    <3> QED  BY <1>t, <2>1, <3>1, <3>2, <3>3, RunMoney DEF row
  <2> QED  BY <2>2, <2>3
<1>3. ASSUME NEW r \in Run, BookLine(r) \/ LinesEnd(r) \/ DepositsFail(r)  PROVE MoneyInv'
  <2>1. UNCHANGED <<docs, deps, raced, lost>> /\ runs[r] \in RunRow
    BY <1>t, <1>3 DEF BookLine, LinesEnd, DepositsFail, tables
  <2>2. ~runs[r].cleared
    BY <1>f, <1>3 DEF BookLine, LinesEnd, DepositsFail
  <2>3. \A s \in Run \ {r} : runs'[s] = runs[s]
    BY <1>t, <1>3 DEF BookLine, LinesEnd, DepositsFail, Set
  <2>4. runs'[r].cleared = runs[r].cleared /\ (runs'[r].pc = "commit" => runs'[r].paid = {})
    <3>1. CASE BookLine(r)
      <4>1. runs[r].pc = "lines" /\ runs'[r].pc = runs[r].pc /\ runs'[r].cleared = runs[r].cleared
        BY <1>t, <2>1, <3>1 DEF BookLine, Set, RunRow
      <4> QED  BY <4>1
    <3>2. CASE LinesEnd(r)
      BY <1>t, <2>1, <3>2 DEF LinesEnd, Set, RunRow
    <3>3. CASE DepositsFail(r)
      BY <1>t, <2>1, <3>3 DEF DepositsFail, Set, RunRow
    <3> QED  BY <1>3, <3>1, <3>2, <3>3
  <2> QED  BY <1>t, <2>1, <2>2, <2>3, <2>4, OtherMoney
<1>4. ASSUME NEW r \in Run, Deposits(r) \/ Commit(r)  PROVE MoneyInv'
  BY <1>t, <1>4, DepositsMoney, CommitMoney
<1>5. ASSUME NEW r \in Run, Fails(r)  PROVE MoneyInv'
  <2>1. /\ UNCHANGED <<deps, raced, lost>> /\ End(r)
        /\ \A d \in Doc : docs'[d].status = "extracted" => docs'[d] = docs[d]
    BY <1>t, <1>5, ShownMoney DEF Fails
  <2> QED  BY <1>e, <2>1
<1>6. ASSUME NEW r \in Run, Aborts(r)  PROVE MoneyInv'
  BY <1>e, <1>6 DEF Aborts, tables
<1>7. ASSUME NEW r \in Run, WorkerLost(r)  PROVE MoneyInv'
  <2>1. UNCHANGED <<docs, deps, raced, lost>> /\ Set(r, Fresh("queued", runs[r].doc))
    BY <1>7 DEF WorkerLost, tables
  <2> QED  BY <1>t, <2>1, FreshMoney, RunMoney
<1>8. ASSUME NEW d \in Doc, Upload(d)  PROVE MoneyInv'
  <2>1. \A e \in Doc : docs'[e].status = "extracted" => docs'[e] = docs[e]
    BY <1>t, <1>8, ShownMoney DEF Upload
  <2> QED  BY <1>8, <1>p, <2>1 DEF Upload
<1>9. ASSUME NEW q \in Req, Finish(q)  PROVE MoneyInv'
  <2>1. /\ UNCHANGED <<deps, raced, lost>>
        /\ \A d \in Doc : docs'[d].status = "extracted" => docs'[d] = docs[d]
    BY <1>t, <1>9, ShownMoney DEF Finish
  <2>2. Publish(reqs[q].doc) \/ UNCHANGED runs
    BY <1>9 DEF Finish
  <2> QED  BY <1>t, <1>p, <2>1, <2>2, OtherMoney
<1>10. ASSUME UNCHANGED <<docs, deps, runs, raced, lost>>  PROVE MoneyInv'
  BY <1>t, <1>10, OtherMoney
<1> QED
  BY <1>1, <1>2, <1>3, <1>4, <1>5, <1>6, <1>7, <1>8, <1>9, <1>10
  DEF Next, RunStep, Begin, Override, SalesChange, tables, vars

LEMMA MoneyInvHolds == Spec => []MoneyInv
<1>1. Init => MoneyInv
  BY InitMoney
<1>2. MoneyInv /\ [Next]_vars => MoneyInv'
  BY NextMoney
<1> QED  BY <1>1, <1>2, PTL DEF Spec

\* _persist_bank_deposits: a deposit is counted once, however often its month is uploaded
\* and read again, unless two runs replaced its day at the same time.
THEOREM MoneyCountedOnce == Spec => []DepositCountedOnce
<1>1. MoneyInv => DepositCountedOnce
  BY DEF MoneyInv
<1> QED  BY <1>1, MoneyInvHolds, PTL

\* A deposit of a statement that is shown as extracted is stored, until the run of a
\* statement that covers its day has not read it.
THEOREM MoneyStays == Spec => []DepositStays
<1>1. MoneyInv => DepositStays
  BY DEF MoneyInv
<1> QED  BY <1>1, MoneyInvHolds, PTL

=============================================================================
