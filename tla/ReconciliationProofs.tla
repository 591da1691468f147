------------------------- MODULE ReconciliationProofs -------------------------
(***************************************************************************)
(* Proofs about Reconciliation for any expenses and runs.                  *)
(***************************************************************************)
EXTENDS Reconciliation, FiniteSetTheorems, TLAPS

Types ==
  /\ TypeOK
  /\ ever \in [Run -> SUBSET Finding] /\ steady \in [Run -> SUBSET Finding]

BooksTypes == {"duplicate_expense", "uncategorized_expense", "suspicious_amount"}
AfterRead  == {"read", "flagged", "bank", "verified", "paper", "lines", "done"}
AfterBank  == {"bank", "verified", "paper", "lines", "done"}

\* A finding that was true, or that names an expense that is gone and so is never stored
WasTrue(f, r) == f \in ever[r] \/ (f[2] \in Exp /\ exps[f[2]] = "gone")

\* What a run has read is no longer in the books only where it is gone.
Seen(r) == runs[r].read \subseteq Arrived /\ runs[r].docs \subseteq Arrived

\* What a run has found, and what it has read and will find, was true at a time.
Sound(r) ==
  /\ Executing(r) => Wrong(InBooks, Arrived) \subseteq ever[r]
  /\ \A f \in runs[r].found \cap Coherent : WasTrue(f, r)
  /\ runs[r].new \cap Coherent \subseteq ever[r]
  /\ runs[r].pc \in AfterRead => UnmatchedSales(runs[r].read) \subseteq ever[r]
  /\ runs[r].pc \in AfterBank =>
       \A f \in Unverified(runs[r].read, runs[r].docs, {"invoice"}) : WasTrue(f, r)

\* What is wrong all the time is in what a run has found, or in what it has read.
Full(r) ==
  /\ Executing(r) => steady[r] \subseteq Wrong(InBooks, Arrived)
  /\ runs[r].pc \in AfterRead => \A f \in steady[r] :
       /\ f[1] = "unverified" => f[2] \in runs[r].read
       /\ f[1] = "unmatched_sale" => f \in UnmatchedSales(runs[r].read)
       /\ f[1] \in BooksTypes =>
            IF runs[r].pc = "read" THEN f \in runs[r].found ELSE f \in runs[r].new
  /\ runs[r].pc \in AfterBank => \A f \in steady[r] :
       /\ f[1] = "push_labor_bank_variance" => Lines(runs[r].docs) # {}
       /\ f[1] = "unverified" =>
            IF Kind[f[2]] = "invoice"
            THEN f \in Unverified(runs[r].read, runs[r].docs, {"invoice"})
            ELSE IF runs[r].pc = "bank" THEN f \in runs[r].found ELSE f \in runs[r].new
  /\ runs[r].pc = "lines" => steady[r] \cap Coherent \subseteq runs[r].found \cup runs[r].new
  /\ runs[r].pc = "done"  => steady[r] \cap Coherent \subseteq runs[r].new

\* What a run shows
Shows(r) ==
  /\ Flagged(r) \cap Coherent \subseteq ever[r]
  /\ runs[r].pc = "acking" /\ runs[r].status = "complete"
       => steady[r] \cap Coherent \subseteq Flagged(r)
  /\ runs[r].pc = "acking" => runs[r].status \in {"complete", "failed"}
  /\ runs[r].status = "running" => runs[r].pc # "idle" \/ r \in broken

RunInv(r) == Seen(r) /\ Sound(r) /\ Full(r) /\ Shows(r)
ReconInv  == Types /\ \A r \in Run : RunInv(r)

-----------------------------------------------------------------------------
(* Findings *)

LEMMA MinTwo ==
  ASSUME NEW n \in 0..2, NEW b \in 0..1
  PROVE  Min({n + b, 2}) \in 0..2 /\ (Min({n + b, 2}) > 0 <=> n > 0 \/ b = 1)
<1>1. PICK m \in {n + b, 2} : \A y \in {n + b, 2} : m <= y
  <2>1. CASE n + b <= 2  BY <2>1
  <2>2. CASE n + b > 2   BY <2>2
  <2> QED  BY <2>1, <2>2
<1>2. Min({n + b, 2}) \in {n + b, 2} /\ \A y \in {n + b, 2} : Min({n + b, 2}) <= y
  BY <1>1 DEF Min
<1> QED  BY <1>2

LEMMA FindingFinite ==
  IsFiniteSet(Finding) /\ \A F \in SUBSET Finding : Cardinality(F) \in Nat
<1>1. IsFiniteSet(AboutExpense) /\ IsFiniteSet(AboutPeriod)
  <2>1. IsFiniteSet({"duplicate_expense"}) /\ IsFiniteSet({"uncategorized_expense"})
        /\ IsFiniteSet({"suspicious_amount"}) /\ IsFiniteSet({"unverified"})
        /\ IsFiniteSet({"duplicate_bank_draw"})
    BY FS_Singleton
  <2>2. IsFiniteSet({"duplicate_expense"} \cup {"uncategorized_expense"})
    BY <2>1, FS_Union
  <2>3. IsFiniteSet({"duplicate_expense"} \cup {"uncategorized_expense"} \cup {"suspicious_amount"})
    BY <2>1, <2>2, FS_Union
  <2>4. IsFiniteSet({"unverified"} \cup {"duplicate_bank_draw"})
    BY <2>1, FS_Union
  <2>5. IsFiniteSet({"duplicate_expense"} \cup {"uncategorized_expense"} \cup {"suspicious_amount"}
                      \cup ({"unverified"} \cup {"duplicate_bank_draw"}))
    BY <2>3, <2>4, FS_Union
  <2>6. AboutExpense = {"duplicate_expense"} \cup {"uncategorized_expense"}
          \cup {"suspicious_amount"} \cup ({"unverified"} \cup {"duplicate_bank_draw"})
    BY DEF AboutExpense
  <2>7. IsFiniteSet({"franchise_spend_bank_variance"}) /\ IsFiniteSet({"push_labor_bank_variance"})
    BY FS_Singleton
  <2>8. IsFiniteSet({"franchise_spend_bank_variance"} \cup {"push_labor_bank_variance"})
    BY <2>7, FS_Union
  <2>9. AboutPeriod = {"franchise_spend_bank_variance"} \cup {"push_labor_bank_variance"}
    BY DEF AboutPeriod
  <2> QED  BY <2>5, <2>6, <2>8, <2>9
<1>2. IsFiniteSet({NoExp}) /\ IsFiniteSet({"unmatched_sale"})
  BY FS_Singleton
<1>3. /\ IsFiniteSet(AboutExpense \X Exp) /\ IsFiniteSet(AboutPeriod \X {NoExp})
      /\ IsFiniteSet({"unmatched_sale"} \X SaleDay)
  BY <1>1, <1>2, FS_Product, ReconciliationAssumption
<1>4. IsFiniteSet(Finding)
  BY <1>3, FS_Union DEF Finding
<1> QED  BY <1>4, FS_Subset, FS_CardinalityType

\* Findings by their types
LEMMA BooksFindings ==
  ASSUME NEW E \in SUBSET Exp, NEW f \in WrongInBooks(E)
  PROVE  f = <<f[1], f[2]>> /\ f[1] \in BooksTypes /\ f[2] \in E /\ f \in Finding
<1>1. Suspicious(E) \subseteq E
  BY DEF Suspicious
<1> QED  BY <1>1 DEF WrongInBooks, Is, BooksTypes, Finding, AboutExpense

LEMMA UnverifiedFindings ==
  ASSUME NEW E \in SUBSET Exp, NEW D, NEW kinds
  PROVE  /\ \A f \in Unverified(E, D, kinds) :
              f[1] = "unverified" /\ f[2] \in E /\ f = <<"unverified", f[2]>> /\ f \in Finding
         /\ \A e : <<"unverified", e>> \in Unverified(E, D, kinds) <=>
              e \in E /\ Lines(D) # {} /\ Kind[e] \in kinds /\ Amount[e] \notin Debits(D)
BY DEF Unverified, Is, Finding, AboutExpense

LEMMA OtherFindings ==
  ASSUME NEW E \in SUBSET Exp, NEW P, NEW D
  PROVE  /\ \A f \in FranchiseVariance(P, E) :
              f[1] = "franchise_spend_bank_variance" /\ f \in Finding
         /\ \A f \in LaborVariance(E, D) : f = <<"push_labor_bank_variance", NoExp>> /\ f \in Finding
         /\ \A f \in UnmatchedSales(E) : f[1] = "unmatched_sale" /\ f[2] \in SaleDay /\ f \in Finding
         /\ \A f \in DoubleDraws(E) : f[1] = "duplicate_bank_draw" /\ f \in Finding
<1>1. \A f \in FranchiseVariance(P, E) : f = <<"franchise_spend_bank_variance", NoExp>>
  BY DEF FranchiseVariance, Whether
<1>2. \A f \in LaborVariance(E, D) : f = <<"push_labor_bank_variance", NoExp>>
  BY DEF LaborVariance, Whether
<1>3. \A f \in UnmatchedSales(E) : f[1] = "unmatched_sale" /\ f[2] \in SaleDay /\ f = <<f[1], f[2]>>
  BY DEF UnmatchedSales, Is
<1>4. \A f \in DoubleDraws(E) : f[1] = "duplicate_bank_draw" /\ f[2] \in Exp /\ f = <<f[1], f[2]>>
  <2>1. \A e \in Lines(E) : (CHOOSE f \in Lines(E) : Same(e, f)) \in Lines(E)
    BY DEF Same
  <2>2. Lines(E) \subseteq Exp
    BY DEF Lines
  <2> QED  BY <2>1, <2>2 DEF DoubleDraws, Is
<1> QED  BY <1>1, <1>2, <1>3, <1>4 DEF Finding, AboutPeriod, AboutExpense

\* What is wrong, and the query that finds it
LEMMA WrongByType ==
  ASSUME NEW E \in SUBSET Exp, NEW D, NEW f \in Wrong(E, D)
  PROVE  /\ f \in Finding
         /\ f[1] \in BooksTypes => f \in WrongInBooks(E)
         /\ f[1] = "unverified" =>
              f \in Unverified(E, D, {"invoice", "payroll", "royalty"}) /\ f[2] \in E
         /\ f[1] = "push_labor_bank_variance" => f \in LaborVariance(E, D)
         /\ f[1] = "unmatched_sale" => f \in UnmatchedSales(E)
         /\ f[1] = "duplicate_bank_draw" => f \in DoubleDraws(E)
         /\ f[1] \in BooksTypes \cup {"unverified", "push_labor_bank_variance", "unmatched_sale",
                                      "duplicate_bank_draw", "franchise_spend_bank_variance"}
<1>1. \/ f \in WrongInBooks(E) \/ f \in Unverified(E, D, {"invoice", "payroll", "royalty"})
      \/ f \in FranchiseVariance(FranchisePaper(E), E) \/ f \in LaborVariance(E, D)
      \/ f \in UnmatchedSales(E) \/ f \in DoubleDraws(E)
  BY DEF Wrong
<1>2. CASE f \in WrongInBooks(E)
  BY <1>2, BooksFindings DEF BooksTypes
<1>3. CASE f \in Unverified(E, D, {"invoice", "payroll", "royalty"})
  BY <1>3, UnverifiedFindings DEF BooksTypes
<1>4. CASE f \in FranchiseVariance(FranchisePaper(E), E)
  BY <1>4, OtherFindings DEF BooksTypes
<1>5. CASE f \in LaborVariance(E, D)
  BY <1>5, OtherFindings DEF BooksTypes
<1>6. CASE f \in UnmatchedSales(E)
  BY <1>6, OtherFindings DEF BooksTypes
<1>7. CASE f \in DoubleDraws(E)
  BY <1>7, OtherFindings DEF BooksTypes
<1> QED  BY <1>1, <1>2, <1>3, <1>4, <1>5, <1>6, <1>7

LEMMA Books == InBooks \subseteq Arrived /\ Arrived \subseteq Exp
BY DEF InBooks, Arrived

-----------------------------------------------------------------------------
(* A step of one run *)

LEMMA InitHolds == Init => ReconInv
<1> SUFFICES ASSUME Init PROVE ReconInv
  OBVIOUS
<1>1. NewRun \in RunRow
  BY DEF NewRun, RunRow
<1>2. Types
  <2>1. flags \in [Run -> [Finding -> 0..2]]
    BY DEF Init
  <2>2. exps \in [Exp -> {"none", "live", "gone"}] /\ events \in 0..MaxEvents
    BY ReconciliationAssumption DEF Init
  <2> QED  BY <1>1, <2>1, <2>2 DEF Init, Types, TypeOK
<1>3. ASSUME NEW r \in Run  PROVE RunInv(r)
  <2>1. runs[r] = NewRun
    BY DEF Init
  <2>2. /\ runs[r].pc = "idle" /\ runs[r].status = "none" /\ runs[r].read = {} /\ runs[r].docs = {}
        /\ runs[r].found = {} /\ runs[r].new = {}
    BY <2>1 DEF NewRun
  <2>3. Flagged(r) = {}
    BY DEF Init, Flagged
  <2> QED  BY <2>2, <2>3
           DEF RunInv, Seen, Sound, Full, Shows, Executing, AfterRead, AfterBank
<1> QED  BY <1>2, <1>3 DEF ReconInv

\* The row of a run changes, and only that run's part of the histories does
LEMMA RunMoves ==
  ASSUME ReconInv, NEW r \in Run, NEW row \in RunRow, runs' = [runs EXCEPT ![r] = row],
         UNCHANGED <<exps, settled>>, hst' \subseteq Exp, events' \in 0..MaxEvents,
         flags' \in [Run -> [Finding -> 0..2]],
         ever' \in [Run -> SUBSET Finding], steady' \in [Run -> SUBSET Finding],
         \A q \in Run \ {r} : flags'[q] = flags[q] /\ ever'[q] = ever[q] /\ steady'[q] = steady[q],
         broken \subseteq broken',
         RunInv(r)'
  PROVE  ReconInv'
<1>1. Types'
  BY DEF ReconInv, Types, TypeOK
<1>2. \A q \in Run \ {r} : runs'[q] = runs[q]
  BY DEF ReconInv, Types, TypeOK
<1>3. InBooks' = InBooks /\ Arrived' = Arrived
  BY DEF InBooks, Arrived
<1>4. ASSUME NEW q \in Run, q # r  PROVE RunInv(q)'
  <2>1. /\ runs'[q] = runs[q] /\ flags'[q] = flags[q] /\ ever'[q] = ever[q] /\ steady'[q] = steady[q]
    BY <1>2, <1>4
  <2>2. RunInv(q)
    BY DEF ReconInv
  <2>3. Executing(q)' = Executing(q) /\ Flagged(q)' = Flagged(q)
    BY <2>1 DEF Executing, Flagged
  <2>4. \A f : WasTrue(f, q)' <=> WasTrue(f, q)
    BY <2>1 DEF WasTrue
  <2>5. Wrong(InBooks, Arrived)' = Wrong(InBooks, Arrived)
    BY <1>3
  <2>6. Seen(q)'
    BY <1>3, <2>1, <2>2 DEF RunInv, Seen
  <2>7. Sound(q)'
    <3>1. Executing(q)' => Wrong(InBooks, Arrived)' \subseteq ever'[q]
      BY <2>1, <2>2, <2>3, <2>5 DEF RunInv, Sound
    <3>2. /\ \A f \in runs'[q].found \cap Coherent : WasTrue(f, q)'
          /\ runs'[q].new \cap Coherent \subseteq ever'[q]
          /\ runs'[q].pc \in AfterRead => UnmatchedSales(runs'[q].read) \subseteq ever'[q]
          /\ runs'[q].pc \in AfterBank =>
               \A f \in Unverified(runs'[q].read, runs'[q].docs, {"invoice"}) : WasTrue(f, q)'
      BY <2>1, <2>2, <2>4 DEF RunInv, Sound
    <3> QED  BY <3>1, <3>2 DEF Sound
  <2>8. Full(q)'
    BY <2>1, <2>2, <2>3, <2>5 DEF RunInv, Full
  <2>9. Shows(q)'
    BY <2>1, <2>2, <2>3 DEF RunInv, Shows
  <2> QED  BY <2>6, <2>7, <2>8, <2>9 DEF RunInv
<1> QED  BY <1>1, <1>4 DEF ReconInv

\* What the flags of a run are once it has committed
LEMMA Commits ==
  ASSUME Types, NEW r \in Run, flags' = WithNew(r)
  PROVE  /\ flags' \in [Run -> [Finding -> 0..2]]
         /\ \A q \in Run \ {r} : flags'[q] = flags[q]
         /\ Flagged(r)' = Flagged(r) \cup runs[r].new
<1> DEFINE sum(f) == Min({flags[r][f] + (IF f \in runs[r].new THEN 1 ELSE 0), 2})
<1>1. flags \in [Run -> [Finding -> 0..2]] /\ runs[r].new \subseteq Finding
  BY DEF Types, TypeOK, RunRow
<1>2. \A f \in Finding : sum(f) \in 0..2 /\ (sum(f) > 0 <=> flags[r][f] > 0 \/ f \in runs[r].new)
  <2> TAKE f \in Finding
  <2>1. flags[r][f] \in 0..2
    BY <1>1
  <2>2. CASE f \in runs[r].new
    BY <2>1, <2>2, MinTwo
  <2>3. CASE f \notin runs[r].new
    BY <2>1, <2>3, MinTwo
  <2> QED  BY <2>2, <2>3
<1>3. flags' = [flags EXCEPT ![r] = [f \in Finding |-> sum(f)]]
  BY DEF WithNew
<1> HIDE DEF sum
<1> QED  BY <1>1, <1>2, <1>3 DEF Flagged

\* A delivery that is no longer executed, or not yet, and has stored its flags or not
LEMMA Leaves ==
  ASSUME ReconInv, NEW r \in Run,
         NEW pc \in {"idle", "trigger", "queued", "acking"},
         NEW status \in {"none", "pending", "running", "complete", "failed"},
         NEW raised \in Nat,
         runs' = [runs EXCEPT ![r] =
                    [NewRun EXCEPT !.pc = pc, !.status = status, !.raised = raised]],
         flags' = flags \/ flags' = WithNew(r),
         UNCHANGED <<exps, settled, ever, steady>>, hst' \subseteq Exp, events' \in 0..MaxEvents,
         broken \subseteq broken',
         pc = "acking" => status \in {"complete", "failed"},
         pc = "acking" /\ status = "complete" => steady[r] \cap Coherent \subseteq Flagged(r)',
         status = "running" => pc # "idle" \/ r \in broken'
  PROVE  ReconInv'
<1>t. Types /\ RunInv(r)
  BY DEF ReconInv
<1>0. PICK row : row = [NewRun EXCEPT !.pc = pc, !.status = status, !.raised = raised]
  OBVIOUS
<1>1. /\ row \in RunRow /\ row.pc = pc /\ row.status = status
      /\ row.read = {} /\ row.docs = {} /\ row.found = {} /\ row.new = {}
  BY <1>0 DEF NewRun, RunRow
<1>2. runs' = [runs EXCEPT ![r] = row]
  BY <1>0
<1>3. runs'[r] = row
  BY <1>t, <1>2 DEF Types, TypeOK
<1>4. /\ flags' \in [Run -> [Finding -> 0..2]]
      /\ \A q \in Run \ {r} : flags'[q] = flags[q]
      /\ Flagged(r)' \subseteq Flagged(r) \cup runs[r].new
  <2>1. CASE flags' = flags
    BY <1>t, <2>1 DEF Types, TypeOK, Flagged
  <2>2. CASE flags' = WithNew(r)
    BY <1>t, <2>2, Commits
  <2> QED  BY <2>1, <2>2
<1>5. Flagged(r)' \cap Coherent \subseteq ever[r]
  BY <1>t, <1>4 DEF RunInv, Sound, Shows
<1>6. ~Executing(r)' /\ row.pc \notin AfterRead /\ row.pc \notin AfterBank
      /\ row.pc \notin {"lines", "done"}
  BY <1>1, <1>3 DEF Executing, AfterRead, AfterBank
<1>7. RunInv(r)'
  <2>1. Seen(r)' /\ Sound(r)' /\ Full(r)'
    BY <1>1, <1>3, <1>6 DEF Seen, Sound, Full
  <2>2. Shows(r)'
    BY <1>1, <1>3, <1>5 DEF Shows
  <2> QED  BY <2>1, <2>2 DEF RunInv
<1>8. ever' \in [Run -> SUBSET Finding] /\ steady' \in [Run -> SUBSET Finding]
  BY <1>t DEF Types
<1> QED  BY <1>1, <1>2, <1>4, <1>7, <1>8, RunMoves

\* A step of a run that is executed and goes on
LEMMA GoesOn ==
  ASSUME ReconInv, NEW r \in Run, NEW row \in RunRow, runs' = [runs EXCEPT ![r] = row],
         UNCHANGED <<exps, hst, flags, settled, events, history>>,
         Executing(r), row.status = runs[r].status,
         row.pc \in AfterRead,
         (Seen(r) /\ Sound(r) /\ Full(r))'
  PROVE  ReconInv'
<1>t. Types /\ RunInv(r) /\ UNCHANGED <<ever, steady, broken>>
  BY DEF ReconInv, history
<1>1. runs'[r] = row /\ row.pc \notin {"acking", "idle"} /\ Flagged(r)' = Flagged(r)
  BY <1>t DEF Types, TypeOK, AfterRead, Flagged
<1>2. Shows(r)'
  BY <1>t, <1>1 DEF RunInv, Shows
<1>3. RunInv(r)'
  BY <1>2 DEF RunInv
<1>4. /\ hst' \subseteq Exp /\ events' \in 0..MaxEvents /\ flags' \in [Run -> [Finding -> 0..2]]
      /\ ever' \in [Run -> SUBSET Finding] /\ steady' \in [Run -> SUBSET Finding]
  BY <1>t DEF Types, TypeOK
<1> QED  BY <1>t, <1>3, <1>4, RunMoves

\* What is fixed while a run reads: the books
LEMMA Fixed ==
  ASSUME UNCHANGED exps
  PROVE  InBooks' = InBooks /\ Arrived' = Arrived
BY DEF InBooks, Arrived

LEMMA ReadBooksStep ==
  ASSUME ReconInv, NEW r \in Run, ReadBooks(r)
  PROVE  ReconInv'
<1>t. Types /\ RunInv(r) /\ Executing(r) /\ UNCHANGED <<exps, ever, steady>>
  BY DEF ReconInv, ReadBooks, Executing, history
<1> DEFINE row == [runs[r] EXCEPT !.pc = "read", !.read = InBooks, !.found = WrongInBooks(InBooks)]
<1>0. InBooks \subseteq Exp /\ WrongInBooks(InBooks) \subseteq Finding
  BY Books, BooksFindings
<1>1. /\ row \in RunRow /\ row.pc = "read" /\ row.status = runs[r].status
      /\ row.read = InBooks /\ row.docs = runs[r].docs /\ row.found = WrongInBooks(InBooks)
      /\ row.new = runs[r].new
  BY <1>t, <1>0 DEF Types, TypeOK, RunRow
<1>2. runs' = [runs EXCEPT ![r] = row]
  BY DEF ReadBooks
<1> HIDE DEF row
<1>3. runs'[r] = row
  BY <1>t, <1>2 DEF Types, TypeOK
<1>f. InBooks' = InBooks /\ Arrived' = Arrived /\ Executing(r)'
  BY <1>t, <1>1, <1>3, Fixed DEF Executing
<1>4. Wrong(InBooks, Arrived) \subseteq ever[r] /\ steady[r] \subseteq Wrong(InBooks, Arrived)
  BY <1>t DEF RunInv, Sound, Full
<1>5. Seen(r)'
  BY <1>t, <1>1, <1>3, <1>f, Books DEF RunInv, Seen
<1>6. Sound(r)'
  <2>1. row.found \subseteq ever[r] /\ UnmatchedSales(row.read) \subseteq ever[r]
    BY <1>1, <1>4 DEF Wrong
  <2>2. row.pc \notin AfterBank
    BY <1>1 DEF AfterBank
  <2> QED  BY <1>t, <1>1, <1>3, <1>4, <1>f, <2>1, <2>2 DEF RunInv, Sound, WasTrue
<1>7. Full(r)'
  <2>1. ASSUME NEW f \in steady[r]
        PROVE  /\ f[1] = "unverified" => f[2] \in row.read
               /\ f[1] = "unmatched_sale" => f \in UnmatchedSales(row.read)
               /\ f[1] \in BooksTypes => f \in row.found
    <3>1. f \in Wrong(InBooks, Arrived)
      BY <1>4
    <3> QED  BY <1>0, <1>1, <3>1, WrongByType
  <2>2. row.pc \notin AfterBank /\ row.pc # "lines" /\ row.pc # "done" /\ row.pc = "read"
    BY <1>1 DEF AfterBank
  <2> QED  BY <1>t, <1>3, <1>4, <1>f, <2>1, <2>2 DEF Full
<1>8. row.pc \in AfterRead /\ UNCHANGED <<exps, hst, flags, settled, events, history>>
  BY <1>1 DEF AfterRead, ReadBooks
<1> QED  BY <1>t, <1>1, <1>2, <1>5, <1>6, <1>7, <1>8, GoesOn

LEMMA ReadBankStep ==
  ASSUME ReconInv, NEW r \in Run, ReadBank(r)
  PROVE  ReconInv'
<1>t. Types /\ RunInv(r) /\ Executing(r) /\ UNCHANGED <<exps, ever, steady>> /\ runs[r].pc = "flagged"
  BY DEF ReconInv, ReadBank, Executing, history
<1> DEFINE unpaid == Unverified(runs[r].read, Arrived, {"payroll", "royalty"})
           row == [runs[r] EXCEPT !.pc = "bank", !.docs = Arrived, !.found = unpaid]
<1>0. runs[r] \in RunRow /\ runs[r].read \in SUBSET Exp /\ runs[r].read \subseteq Arrived
  BY <1>t DEF Types, TypeOK, RunRow, RunInv, Seen
<1>1. /\ row \in RunRow /\ row.pc = "bank" /\ row.status = runs[r].status
      /\ row.read = runs[r].read /\ row.docs = Arrived /\ row.found = unpaid
      /\ row.new = runs[r].new
  <2>1. unpaid \subseteq Finding
    BY <1>0, UnverifiedFindings
  <2> HIDE DEF unpaid
  <2> QED  BY <1>0, <2>1, Books DEF RunRow
<1>2. runs' = [runs EXCEPT ![r] = row]
  BY DEF ReadBank
<1> HIDE DEF row
<1>3. runs'[r] = row
  BY <1>t, <1>2 DEF Types, TypeOK
<1>f. InBooks' = InBooks /\ Arrived' = Arrived /\ Executing(r)'
  BY <1>t, <1>1, <1>3, Fixed DEF Executing
<1>4. Wrong(InBooks, Arrived) \subseteq ever[r] /\ steady[r] \subseteq Wrong(InBooks, Arrived)
  BY <1>t DEF RunInv, Sound, Full
<1>5. Seen(r)'
  BY <1>0, <1>1, <1>3, <1>f DEF Seen
\* An expense that was read is unverified now, or it is gone.
<1>9. ASSUME NEW kinds \in SUBSET {"invoice", "payroll", "royalty"},
             NEW f \in Unverified(runs[r].read, Arrived, kinds)
      PROVE  WasTrue(f, r)
  <2>1. /\ f = <<"unverified", f[2]>> /\ f[2] \in runs[r].read /\ Lines(Arrived) # {}
        /\ Kind[f[2]] \in kinds /\ Amount[f[2]] \notin Debits(Arrived)
    BY <1>0, UnverifiedFindings
  <2>2. CASE f[2] \in InBooks
    <3>2. InBooks \in SUBSET Exp /\ Kind[f[2]] \in {"invoice", "payroll", "royalty"}
      BY <2>1, Books
    <3>1. <<"unverified", f[2]>> \in Unverified(InBooks, Arrived, {"invoice", "payroll", "royalty"})
      BY <2>1, <2>2, <3>2, UnverifiedFindings
    <3> QED  BY <1>4, <2>1, <3>1 DEF Wrong, WasTrue
  <2>3. CASE f[2] \notin InBooks
    BY <1>t, <1>0, <2>1, <2>3 DEF InBooks, Arrived, Types, TypeOK, WasTrue
  <2> QED  BY <2>2, <2>3
<1>6. Sound(r)'
  <2>1. \A f \in row.found : WasTrue(f, r)
    BY <1>1, <1>9
  <2>2. \A f \in Unverified(row.read, row.docs, {"invoice"}) : WasTrue(f, r)
    BY <1>1, <1>9
  <2>3. \A f : WasTrue(f, r)' <=> WasTrue(f, r)
    BY <1>t DEF WasTrue
  <2>4. UnmatchedSales(row.read) \subseteq ever[r] /\ row.new \cap Coherent \subseteq ever[r]
    BY <1>t, <1>1 DEF RunInv, Sound, AfterRead
  <2> QED  BY <1>t, <1>3, <1>4, <1>f, <2>1, <2>2, <2>3, <2>4 DEF Sound
<1>7. Full(r)'
  <2>1. ASSUME NEW f \in steady[r]
        PROVE  /\ f[1] = "unverified" => f[2] \in row.read
               /\ f[1] = "unmatched_sale" => f \in UnmatchedSales(row.read)
               /\ f[1] \in BooksTypes => f \in row.new
    BY <1>t, <1>1 DEF RunInv, Full, AfterRead
  <2>2. ASSUME NEW f \in steady[r]
        PROVE  /\ f[1] = "push_labor_bank_variance" => Lines(row.docs) # {}
               /\ f[1] = "unverified" =>
                    IF Kind[f[2]] = "invoice"
                    THEN f \in Unverified(row.read, row.docs, {"invoice"}) ELSE f \in row.found
    <3>1. f \in Wrong(InBooks, Arrived)
      BY <1>4
    <3>2. f[1] = "push_labor_bank_variance" => Lines(Arrived) # {}
      BY <3>1, Books, WrongByType DEF LaborVariance, Whether
    <3>3. ASSUME f[1] = "unverified"
          PROVE  IF Kind[f[2]] = "invoice"
                 THEN f \in Unverified(row.read, row.docs, {"invoice"}) ELSE f \in row.found
      <4>1. f \in Unverified(InBooks, Arrived, {"invoice", "payroll", "royalty"})
        BY <3>1, <3>3, Books, WrongByType
      <4>2. /\ f = <<"unverified", f[2]>> /\ Lines(Arrived) # {}
            /\ Kind[f[2]] \in {"invoice", "payroll", "royalty"} /\ Amount[f[2]] \notin Debits(Arrived)
        BY <4>1, Books, UnverifiedFindings
      <4>3. f[2] \in runs[r].read
        BY <1>1, <2>1, <3>3
      <4>4. CASE Kind[f[2]] = "invoice"
        BY <1>0, <1>1, <4>2, <4>3, <4>4, UnverifiedFindings
      <4>5. CASE Kind[f[2]] # "invoice"
        BY <1>0, <1>1, <4>2, <4>3, <4>5, UnverifiedFindings
      <4> QED  BY <4>4, <4>5
    <3> QED  BY <1>1, <3>2, <3>3
  <2> QED  BY <1>t, <1>1, <1>3, <1>4, <1>f, <2>1, <2>2 DEF Full
<1>8. row.pc \in AfterRead /\ UNCHANGED <<exps, hst, flags, settled, events, history>>
  BY <1>1 DEF AfterRead, ReadBank
<1> QED  BY <1>t, <1>1, <1>2, <1>5, <1>6, <1>7, <1>8, GoesOn

LEMMA ReadPaperStep ==
  ASSUME ReconInv, NEW r \in Run, ReadPaper(r)
  PROVE  ReconInv'
<1>t. Types /\ RunInv(r) /\ Executing(r) /\ UNCHANGED <<exps, ever, steady>> /\ runs[r].pc = "verified"
  BY DEF ReconInv, ReadPaper, Executing, history
<1> DEFINE row == [runs[r] EXCEPT !.pc = "paper", !.paper = FranchisePaper(InBooks)]
<1>1. /\ row \in RunRow /\ row.pc = "paper" /\ row.status = runs[r].status
      /\ row.read = runs[r].read /\ row.docs = runs[r].docs /\ row.found = runs[r].found
      /\ row.new = runs[r].new
  <2>1. FranchisePaper(InBooks) \subseteq Exp
    BY Books DEF FranchisePaper
  <2> QED  BY <1>t, <2>1 DEF Types, TypeOK, RunRow
<1>2. runs' = [runs EXCEPT ![r] = row]
  BY DEF ReadPaper
<1> HIDE DEF row
<1>3. runs'[r] = row
  BY <1>t, <1>2 DEF Types, TypeOK
<1>f. InBooks' = InBooks /\ Arrived' = Arrived /\ Executing(r)'
  BY <1>t, <1>1, <1>3, Fixed DEF Executing
<1>g. \A f : WasTrue(f, r)' <=> WasTrue(f, r)
  BY <1>t DEF WasTrue
<1>5. Seen(r)'
  BY <1>t, <1>1, <1>3, <1>f DEF RunInv, Seen
<1>6. Sound(r)'
  <2>1. /\ \A f \in row.found \cap Coherent : WasTrue(f, r)
        /\ row.new \cap Coherent \subseteq ever[r]
        /\ UnmatchedSales(row.read) \subseteq ever[r]
        /\ \A f \in Unverified(row.read, row.docs, {"invoice"}) : WasTrue(f, r)
        /\ Wrong(InBooks, Arrived) \subseteq ever[r]
    BY <1>t, <1>1 DEF RunInv, Sound, AfterRead, AfterBank
  <2> QED  BY <1>t, <1>3, <1>f, <1>g, <2>1 DEF Sound
<1>7. Full(r)'
  BY <1>t, <1>1, <1>3, <1>f DEF RunInv, Full, AfterRead, AfterBank
<1>8. row.pc \in AfterRead /\ UNCHANGED <<exps, hst, flags, settled, events, history>>
  BY <1>1 DEF AfterRead, ReadPaper
<1> QED  BY <1>t, <1>1, <1>2, <1>5, <1>6, <1>7, <1>8, GoesOn

LEMMA ReadLinesStep ==
  ASSUME ReconInv, NEW r \in Run, ReadLines(r)
  PROVE  ReconInv'
<1>t. Types /\ RunInv(r) /\ Executing(r) /\ UNCHANGED <<exps, ever, steady>> /\ runs[r].pc = "paper"
  BY DEF ReconInv, ReadLines, Executing, history
<1> DEFINE shown == WrongAtBank(runs[r].read, runs[r].docs, runs[r].paper)
           row == [runs[r] EXCEPT !.pc = "lines", !.found = shown]
<1>0. runs[r] \in RunRow /\ runs[r].read \in SUBSET Exp /\ InBooks \in SUBSET Exp
      /\ runs[r].docs \subseteq Arrived
  BY <1>t, Books DEF Types, TypeOK, RunRow, RunInv, Seen
<1>h. shown = FranchiseVariance(runs[r].paper, InBooks) \cup LaborVariance(InBooks, runs[r].docs)
                \cup UnmatchedSales(runs[r].read) \cup DoubleDraws(InBooks)
                \cup Unverified(runs[r].read, runs[r].docs, {"invoice"})
  BY DEF WrongAtBank
<1>k. shown \subseteq Finding
  <2>1. FranchiseVariance(runs[r].paper, InBooks) \subseteq Finding
        /\ LaborVariance(InBooks, runs[r].docs) \subseteq Finding
        /\ DoubleDraws(InBooks) \subseteq Finding
    BY <1>0, OtherFindings
  <2>2. UnmatchedSales(runs[r].read) \subseteq Finding
    BY <1>0, OtherFindings
  <2>3. Unverified(runs[r].read, runs[r].docs, {"invoice"}) \subseteq Finding
    BY <1>0, UnverifiedFindings
  <2> QED  BY <1>h, <2>1, <2>2, <2>3
<1> HIDE DEF shown
<1>1. /\ row \in RunRow /\ row.pc = "lines" /\ row.status = runs[r].status
      /\ row.read = runs[r].read /\ row.docs = runs[r].docs /\ row.found = shown
      /\ row.new = runs[r].new
  BY <1>0, <1>k DEF RunRow
<1>2. runs' = [runs EXCEPT ![r] = row]
  BY DEF ReadLines, shown
<1> HIDE DEF row
<1>3. runs'[r] = row
  BY <1>t, <1>2 DEF Types, TypeOK
<1>f. InBooks' = InBooks /\ Arrived' = Arrived /\ Executing(r)'
  BY <1>t, <1>1, <1>3, Fixed DEF Executing
<1>g. \A f : WasTrue(f, r)' <=> WasTrue(f, r)
  BY <1>t DEF WasTrue
<1>4. Wrong(InBooks, Arrived) \subseteq ever[r] /\ steady[r] \subseteq Wrong(InBooks, Arrived)
  BY <1>t DEF RunInv, Sound, Full
<1>5. Seen(r)'
  BY <1>t, <1>1, <1>3, <1>f DEF RunInv, Seen
<1>9. /\ row.new \cap Coherent \subseteq ever[r]
      /\ UnmatchedSales(row.read) \subseteq ever[r]
      /\ \A f \in Unverified(row.read, row.docs, {"invoice"}) : WasTrue(f, r)
  BY <1>t, <1>1 DEF RunInv, Sound, AfterRead, AfterBank
<1>6. Sound(r)'
  <2>1. ASSUME NEW f \in shown \cap Coherent  PROVE WasTrue(f, r)
    <3>1. CASE f \in FranchiseVariance(runs[r].paper, InBooks)
      BY <1>0, <3>1, OtherFindings DEF Coherent
    <3>2. CASE f \in LaborVariance(InBooks, runs[r].docs)
      <4>1. f \in LaborVariance(InBooks, Arrived)
        BY <1>0, <3>2 DEF LaborVariance, Whether, Lines
      <4> QED  BY <1>4, <4>1 DEF Wrong, WasTrue
    <3>3. CASE f \in DoubleDraws(InBooks)
      BY <1>4, <3>3 DEF Wrong, WasTrue
    <3>4. CASE f \in UnmatchedSales(runs[r].read)
                 \/ f \in Unverified(runs[r].read, runs[r].docs, {"invoice"})
      BY <1>1, <1>9, <3>4 DEF WasTrue
    <3> QED  BY <1>h, <3>1, <3>2, <3>3, <3>4
  <2> QED  BY <1>t, <1>1, <1>3, <1>4, <1>f, <1>g, <1>9, <2>1 DEF Sound
<1>7. Full(r)'
  <2>1. ASSUME NEW f \in steady[r]
        PROVE  /\ f[1] = "unverified" => f[2] \in row.read
               /\ f[1] = "unmatched_sale" => f \in UnmatchedSales(row.read)
               /\ f[1] \in BooksTypes => f \in row.new
               /\ f[1] = "push_labor_bank_variance" => Lines(row.docs) # {}
               /\ f[1] = "unverified" =>
                    IF Kind[f[2]] = "invoice"
                    THEN f \in Unverified(row.read, row.docs, {"invoice"}) ELSE f \in row.new
    BY <1>t, <1>1 DEF RunInv, Full, AfterRead, AfterBank
  <2>2. ASSUME NEW f \in steady[r] \cap Coherent  PROVE f \in shown \cup row.new
    <3>1. f \in Wrong(InBooks, Arrived)
      BY <1>4
    <3>2. CASE f[1] \in BooksTypes \cup {"unverified"}
      BY <1>1, <1>h, <2>1, <3>2
    <3>3. CASE f[1] = "push_labor_bank_variance"
      <4>1. f \in LaborVariance(InBooks, Arrived) /\ Lines(runs[r].docs) # {}
        BY <1>0, <1>1, <2>1, <3>1, <3>3, WrongByType
      <4>2. f \in LaborVariance(InBooks, runs[r].docs)
        BY <4>1 DEF LaborVariance, Whether
      <4> QED  BY <1>h, <4>2
    <3>4. CASE f[1] = "unmatched_sale"
      BY <1>1, <1>h, <2>1, <3>4
    <3>5. CASE f[1] = "duplicate_bank_draw"
      BY <1>0, <1>h, <3>1, <3>5, WrongByType
    <3>6. f[1] # "franchise_spend_bank_variance"
      BY DEF Coherent
    <3> QED  BY <1>0, <3>1, <3>2, <3>3, <3>4, <3>5, <3>6, WrongByType
  <2>3. row.pc # "read" /\ row.pc # "bank" /\ row.pc # "done"
    BY <1>1
  <2> QED  BY <1>t, <1>1, <1>3, <1>4, <1>f, <2>1, <2>2, <2>3 DEF Full
<1>8. row.pc \in AfterRead /\ UNCHANGED <<exps, hst, flags, settled, events, history>>
  BY <1>1 DEF AfterRead, ReadLines
<1> QED  BY <1>t, <1>1, <1>2, <1>5, <1>6, <1>7, <1>8, GoesOn

\* What is inserted names no expense that is gone.
LEMMA InsertStep ==
  ASSUME ReconInv, NEW r \in Run, FlagBooks(r) \/ FlagBank(r) \/ FlagLines(r)
  PROVE  ReconInv'
<1>t. Types /\ RunInv(r) /\ UNCHANGED <<exps, ever, steady>>
  BY DEF ReconInv, FlagBooks, FlagBank, FlagLines, Insert, history
<1>i. PICK to \in {"flagged", "verified", "done"} :
        /\ Insert(r, runs[r].pc, to)
        /\ runs[r].pc = CASE to = "flagged" -> "read" [] to = "verified" -> "bank" [] to = "done" -> "lines"
  <2>1. FlagBooks(r) => Insert(r, runs[r].pc, "flagged") /\ runs[r].pc = "read"
    BY DEF FlagBooks, Insert
  <2>2. FlagBank(r) => Insert(r, runs[r].pc, "verified") /\ runs[r].pc = "bank"
    BY DEF FlagBank, Insert
  <2>3. FlagLines(r) => Insert(r, runs[r].pc, "done") /\ runs[r].pc = "lines"
    BY DEF FlagLines, Insert
  <2> QED  BY <2>1, <2>2, <2>3
<1>j. \/ to = "flagged" /\ runs[r].pc = "read"
      \/ to = "verified" /\ runs[r].pc = "bank"
      \/ to = "done" /\ runs[r].pc = "lines"
  BY <1>i
<1> DEFINE row == [runs[r] EXCEPT !.pc = to, !.new = @ \cup runs[r].found, !.found = {}]
<1>0. runs[r] \in RunRow
  BY <1>t DEF Types, TypeOK
<1>1. /\ row \in RunRow /\ row.pc = to /\ row.status = runs[r].status
      /\ row.read = runs[r].read /\ row.docs = runs[r].docs /\ row.found = {}
      /\ row.new = runs[r].new \cup runs[r].found
  BY <1>0 DEF RunRow
<1>2. runs' = [runs EXCEPT ![r] = row]
  BY <1>i DEF Insert
<1> HIDE DEF row
<1>3. runs'[r] = row
  BY <1>t, <1>2 DEF Types, TypeOK
<1>f. InBooks' = InBooks /\ Arrived' = Arrived /\ Executing(r)' /\ Executing(r)
  BY <1>t, <1>1, <1>3, <1>j, Fixed DEF Executing
<1>g. \A f : WasTrue(f, r)' <=> WasTrue(f, r)
  BY <1>t DEF WasTrue
<1>5. Seen(r)'
  BY <1>t, <1>1, <1>3, <1>f DEF RunInv, Seen
<1>6. Sound(r)'
  <2>1. runs[r].found \cap Coherent \subseteq ever[r]
    <3> SUFFICES ASSUME NEW f \in runs[r].found \cap Coherent  PROVE f \in ever[r]
      OBVIOUS
    <3>1. WasTrue(f, r)
      BY <1>t DEF RunInv, Sound
    <3>2. f[2] \in Exp => exps[f[2]] = "live"
      BY <1>i DEF Insert, Insertable, InBooks
    <3> QED  BY <3>1, <3>2 DEF WasTrue
  <2>2. row.new \cap Coherent \subseteq ever[r]
    BY <1>t, <1>1, <2>1 DEF RunInv, Sound
  <2>3. UnmatchedSales(row.read) \subseteq ever[r] /\ Wrong(InBooks, Arrived) \subseteq ever[r]
    BY <1>t, <1>1, <1>f, <1>j DEF RunInv, Sound, AfterRead
  <2>4. row.pc \in AfterBank =>
          \A f \in Unverified(row.read, row.docs, {"invoice"}) : WasTrue(f, r)
    BY <1>t, <1>1, <1>j DEF RunInv, Sound, AfterBank
  <2> QED  BY <1>t, <1>1, <1>3, <1>f, <1>g, <2>2, <2>3, <2>4 DEF Sound
<1>7. Full(r)'
  <2>1. CASE to = "flagged"
    BY <1>t, <1>1, <1>3, <1>f, <1>j, <2>1 DEF RunInv, Full, AfterRead, AfterBank
  <2>2. CASE to = "verified"
    BY <1>t, <1>1, <1>3, <1>f, <1>j, <2>2 DEF RunInv, Full, AfterRead, AfterBank
  <2>3. CASE to = "done"
    BY <1>t, <1>1, <1>3, <1>f, <1>j, <2>3 DEF RunInv, Full, AfterRead, AfterBank
  <2> QED  BY <2>1, <2>2, <2>3
<1>8. row.pc \in AfterRead /\ UNCHANGED <<exps, hst, flags, settled, events, history>>
  BY <1>1, <1>i, <1>j DEF AfterRead, Insert
<1> QED  BY <1>1, <1>2, <1>f, <1>5, <1>6, <1>7, <1>8, GoesOn

\* A delivery is taken: the books at that time are what has been wrong from its start.
LEMMA StartStep ==
  ASSUME ReconInv, NEW r \in Run, Start(r)
  PROVE  ReconInv'
<1>t. Types /\ RunInv(r) /\ UNCHANGED <<exps, hst, flags, settled, events, broken>>
  BY DEF ReconInv, Start, Begin
<1>0. PICK row : row = [NewRun EXCEPT !.pc = "started", !.status = "running", !.raised = runs[r].raised]
  OBVIOUS
<1>1. /\ row \in RunRow /\ row.pc = "started" /\ row.status = "running"
      /\ row.read = {} /\ row.docs = {} /\ row.found = {} /\ row.new = {}
  <2>1. runs[r].raised \in Nat
    BY <1>t DEF Types, TypeOK, RunRow
  <2> QED  BY <1>0, <2>1 DEF NewRun, RunRow
<1>2. runs' = [runs EXCEPT ![r] = row]
  BY <1>0 DEF Start, Begin, At
<1>3. runs'[r] = row
  BY <1>t, <1>2 DEF Types, TypeOK
<1>f. InBooks' = InBooks /\ Arrived' = Arrived /\ Flagged(r)' = Flagged(r)
  BY <1>t, Fixed DEF Flagged
<1>w. Wrong(InBooks, Arrived) \subseteq Finding
  BY Books, WrongByType
<1>4. /\ ever' \in [Run -> SUBSET Finding] /\ steady' \in [Run -> SUBSET Finding]
      /\ \A q \in Run \ {r} : ever'[q] = ever[q] /\ steady'[q] = steady[q]
      /\ ever'[r] = ever[r] \cup Wrong(InBooks, Arrived) /\ steady'[r] = Wrong(InBooks, Arrived)
  BY <1>t, <1>w DEF Start, Begin, Types
<1>5. /\ row.pc \notin AfterRead /\ row.pc \notin AfterBank
      /\ row.pc \notin {"lines", "done", "acking", "idle"}
  BY <1>1 DEF AfterRead, AfterBank
<1>6. RunInv(r)'
  <2>1. Seen(r)' /\ Full(r)'
    BY <1>1, <1>3, <1>4, <1>5, <1>f DEF Seen, Full
  <2>2. Sound(r)'
    BY <1>1, <1>3, <1>4, <1>5, <1>f DEF Sound
  <2>3. Shows(r)'
    BY <1>t, <1>1, <1>3, <1>4, <1>5, <1>f DEF RunInv, Shows
  <2> QED  BY <2>1, <2>2, <2>3 DEF RunInv
<1>7. flags' \in [Run -> [Finding -> 0..2]] /\ hst' \subseteq Exp /\ events' \in 0..MaxEvents
  BY <1>t DEF Types, TypeOK
<1> QED  BY <1>t, <1>1, <1>2, <1>4, <1>6, <1>7, RunMoves

LEMMA EventTyped ==
  ASSUME Types, UNCHANGED events \/ Event
  PROVE  events' \in 0..MaxEvents
BY ReconciliationAssumption DEF Types, TypeOK, Event

\* The steps that leave a delivery waiting, or over
LEMMA LeaveSteps ==
  ASSUME ReconInv, NEW r \in Run,
         \/ Trigger(r) \/ Publish(r) \/ TriggerLost(r) \/ Ack(r)
         \/ Fail(r) \/ Break(r) \/ WorkerLost(r)
  PROVE  ReconInv'
<1>t. Types /\ RunInv(r) /\ runs[r].raised \in Nat /\ hst \subseteq Exp
      /\ runs[r].status \in {"none", "pending", "running", "complete", "failed"}
  BY DEF ReconInv, Types, TypeOK, RunRow
<1>e. events' \in 0..MaxEvents
  <2>1. UNCHANGED events \/ Event
    BY DEF Trigger, Publish, TriggerLost, Ack, Fail, Break, WorkerLost, Fault
  <2> QED  BY <1>t, <2>1, EventTyped
<1>1. CASE Trigger(r)
  <2>1. /\ runs' = At(r, "trigger", "pending")
        /\ UNCHANGED <<exps, settled, ever, steady, hst, flags, broken>>
    BY <1>1 DEF Trigger, history
  <2> QED  BY <1>t, <1>e, <2>1, Leaves DEF At
<1>2. CASE Publish(r)
  <2>1. /\ runs' = At(r, "queued", "pending")
        /\ UNCHANGED <<exps, settled, ever, steady, hst, flags, broken>>
    BY <1>2 DEF Publish, history
  <2> QED  BY <1>t, <1>e, <2>1, Leaves DEF At
<1>3. CASE TriggerLost(r)
  <2>1. /\ runs' = At(r, "idle", "pending")
        /\ UNCHANGED <<exps, settled, ever, steady, hst, flags, broken>>
    BY <1>3 DEF TriggerLost, history
  <2> QED  BY <1>t, <1>e, <2>1, Leaves DEF At
<1>4. CASE Ack(r)
  <2>1. /\ runs' = At(r, "idle", runs[r].status) /\ runs[r].status # "running"
        /\ UNCHANGED <<exps, settled, ever, steady, hst, flags, broken>>
    BY <1>t, <1>4 DEF Ack, history, RunInv, Shows
  <2> QED  BY <1>t, <1>e, <2>1, Leaves DEF At
<1>5. CASE Fail(r)
  <2>1. /\ runs' = At(r, "acking", "failed") /\ flags' = WithNew(r)
        /\ UNCHANGED <<exps, settled, ever, steady, hst, broken>>
    BY <1>5 DEF Fail, history
  <2> QED  BY <1>t, <1>e, <2>1, Leaves DEF At
<1>6. CASE Break(r)
  <2>1. /\ runs' = At(r, "idle", "running") /\ r \in broken' /\ broken \subseteq broken'
        /\ UNCHANGED <<exps, settled, ever, steady, hst, flags>>
    BY <1>6 DEF Break
  <2> QED  BY <1>t, <1>e, <2>1, Leaves DEF At
<1>7. CASE WorkerLost(r)
  <2>1. /\ runs' = At(r, "queued", runs[r].status)
        /\ UNCHANGED <<exps, settled, ever, steady, hst, flags, broken>>
    BY <1>7 DEF WorkerLost, history
  <2> QED  BY <1>t, <1>e, <2>1, Leaves DEF At
<1> QED  BY <1>1, <1>2, <1>3, <1>4, <1>5, <1>6, <1>7

LEMMA CompleteStep ==
  ASSUME ReconInv, NEW r \in Run, Complete(r)
  PROVE  ReconInv'
<1>t. Types /\ RunInv(r) /\ UNCHANGED <<exps, settled, events, ever, steady, broken>>
      /\ flags' = WithNew(r) /\ runs[r].pc = "done"
  BY DEF ReconInv, Complete, history
<1>1. Raised(r) \in Nat /\ events' \in 0..MaxEvents /\ hst' \subseteq Exp
  <2>1. runs[r].new \in SUBSET Finding
    BY <1>t DEF Types, TypeOK, RunRow
  <2>2. Propagated \subseteq Exp
    BY Books DEF Propagated, Lines
  <2> QED  BY <1>t, <2>1, <2>2, FindingFinite DEF Raised, Types, TypeOK, Complete
<1>2. steady[r] \cap Coherent \subseteq Flagged(r)'
  BY <1>t, Commits DEF RunInv, Full
<1>3. runs' = [runs EXCEPT ![r] =
                 [NewRun EXCEPT !.pc = "acking", !.status = "complete", !.raised = Raised(r)]]
  <2>1. runs' = [At(r, "acking", "complete") EXCEPT ![r].raised = Raised(r)]
    BY DEF Complete
  <2>2. runs \in [Run -> RunRow]
    BY <1>t DEF Types, TypeOK
  <2> HIDE DEF Raised
  <2> QED  BY <2>1, <2>2 DEF At, NewRun
<1> QED  BY <1>t, <1>1, <1>2, <1>3, Leaves

-----------------------------------------------------------------------------
(* The books, and the user *)

\* Expenses arrive, or go for good.
LEMMA BooksChange ==
  ASSUME ReconInv, Change, UNCHANGED <<runs, flags, settled, broken>>,
         exps' \in [Exp -> {"none", "live", "gone"}],
         \A e \in Exp : /\ exps[e] # "none" => exps'[e] # "none"
                        /\ exps[e] = "gone" => exps'[e] = "gone",
         hst' \subseteq Exp, events' \in 0..MaxEvents
  PROVE  ReconInv'
<1> DEFINE now == Wrong(InBooks', Arrived')
<1>1. now \subseteq Finding
  <2>1. InBooks' \subseteq Exp
    BY DEF InBooks
  <2> QED  BY <2>1, WrongByType
<1>2. /\ ever' = [r \in Run |-> IF Executing(r) THEN ever[r] \cup now ELSE ever[r]]
      /\ steady' = [r \in Run |-> IF Executing(r) THEN steady[r] \cap now ELSE steady[r]]
  BY DEF Change
<1>n. now = Wrong(InBooks, Arrived)'
  OBVIOUS
<1> HIDE DEF now
<1>3. Types'
  <2>1. TypeOK'
    BY DEF ReconInv, Types, TypeOK
  <2>2. ever' \in [Run -> SUBSET Finding] /\ steady' \in [Run -> SUBSET Finding]
    BY <1>1, <1>2 DEF ReconInv, Types
  <2> QED  BY <2>1, <2>2 DEF Types
<1>4. ASSUME NEW r \in Run  PROVE RunInv(r)'
  <2>1. RunInv(r) /\ runs' = runs /\ Flagged(r)' = Flagged(r) /\ Executing(r)' = Executing(r)
    BY DEF ReconInv, Flagged, Executing
  <2>2. /\ ever[r] \subseteq ever'[r] /\ steady'[r] \subseteq steady[r]
        /\ Executing(r) => now \subseteq ever'[r] /\ steady'[r] \subseteq now
        /\ ~Executing(r) => ever'[r] = ever[r] /\ steady'[r] = steady[r]
    BY <1>2
  <2>3. \A f : WasTrue(f, r) => WasTrue(f, r)'
    BY <2>2 DEF WasTrue
  <2>4. Arrived \subseteq Arrived'
    BY DEF Arrived
  <2>5. Seen(r)'
    BY <2>1, <2>4 DEF RunInv, Seen
  <2>6. Sound(r)'
    <3>1. Executing(r)' => Wrong(InBooks, Arrived)' \subseteq ever'[r]
      BY <1>n, <2>1, <2>2
    <3>2. /\ \A f \in runs'[r].found \cap Coherent : WasTrue(f, r)'
          /\ runs'[r].new \cap Coherent \subseteq ever'[r]
          /\ runs'[r].pc \in AfterRead => UnmatchedSales(runs'[r].read) \subseteq ever'[r]
          /\ runs'[r].pc \in AfterBank =>
               \A f \in Unverified(runs'[r].read, runs'[r].docs, {"invoice"}) : WasTrue(f, r)'
      BY <2>1, <2>2, <2>3 DEF RunInv, Sound
    <3> QED  BY <3>1, <3>2 DEF Sound
  <2>7. Full(r)'
    <3>1. Executing(r)' => steady'[r] \subseteq Wrong(InBooks, Arrived)'
      BY <1>n, <2>1, <2>2
    <3> QED  BY <2>1, <2>2, <3>1 DEF RunInv, Full
  <2>8. Shows(r)'
    <3>1. runs[r].pc = "acking" => ~Executing(r)
      BY DEF Executing
    <3> QED  BY <2>1, <2>2, <3>1 DEF RunInv, Shows
  <2> QED  BY <2>5, <2>6, <2>7, <2>8 DEF RunInv
<1> QED  BY <1>3, <1>4 DEF ReconInv

LEMMA BookStep ==
  ASSUME ReconInv, NEW d, Book(d)
  PROVE  ReconInv'
<1>t. Types
  BY DEF ReconInv
<1> DEFINE new == {e \in Exp : DocOf[e] = d /\ exps[e] = "none"}
<1>1. /\ exps' = [e \in Exp |-> IF e \in new THEN "live" ELSE exps[e]]
      /\ Change /\ UNCHANGED <<runs, flags, settled, broken, hst>> /\ Event
  BY DEF Book
<1>2. exps' \in [Exp -> {"none", "live", "gone"}]
  BY <1>t, <1>1 DEF Types, TypeOK
<1>3. \A e \in Exp : /\ exps[e] # "none" => exps'[e] # "none"
                     /\ exps[e] = "gone" => exps'[e] = "gone"
  BY <1>1
<1>4. events' \in 0..MaxEvents /\ hst' \subseteq Exp
  BY <1>t, <1>1, EventTyped DEF Types, TypeOK
<1> QED  BY <1>1, <1>2, <1>3, <1>4, BooksChange

LEMMA DeleteStep ==
  ASSUME ReconInv, NEW e \in Exp, Delete(e)
  PROVE  ReconInv'
<1>t. Types
  BY DEF ReconInv
<1>1. /\ exps' = [exps EXCEPT ![e] = "gone"] /\ hst' \subseteq hst /\ exps[e] = "live"
      /\ Change /\ UNCHANGED <<runs, flags, settled, broken>> /\ Event
  BY DEF Delete
<1>2. exps' \in [Exp -> {"none", "live", "gone"}]
  BY <1>t, <1>1 DEF Types, TypeOK
<1>3. \A x \in Exp : /\ exps[x] # "none" => exps'[x] # "none"
                     /\ exps[x] = "gone" => exps'[x] = "gone"
  BY <1>t, <1>1 DEF Types, TypeOK
<1>4. events' \in 0..MaxEvents /\ hst' \subseteq Exp
  BY <1>t, <1>1, EventTyped DEF Types, TypeOK
<1> QED  BY <1>1, <1>2, <1>3, <1>4, BooksChange

\* A flag is resolved, or nothing happens: no run and no book changes.
LEMMA ResolveStep ==
  ASSUME ReconInv, UNCHANGED <<exps, hst, runs, flags, ever, steady, broken>>,
         settled' \in [Run -> SUBSET Finding], events' \in 0..MaxEvents
  PROVE  ReconInv'
<1>1. Types'
  BY DEF ReconInv, Types, TypeOK
<1>2. ASSUME NEW r \in Run  PROVE RunInv(r)'
  <2>1. RunInv(r) /\ Flagged(r)' = Flagged(r) /\ Executing(r)' = Executing(r)
        /\ InBooks' = InBooks /\ Arrived' = Arrived
    BY DEF ReconInv, Flagged, Executing, InBooks, Arrived
  <2>2. \A f : WasTrue(f, r)' <=> WasTrue(f, r)
    BY DEF WasTrue
  <2>3. Seen(r)'
    BY <2>1 DEF RunInv, Seen
  <2>4. Sound(r)'
    BY <2>1, <2>2 DEF RunInv, Sound
  <2>5. Full(r)'
    BY <2>1 DEF RunInv, Full
  <2>6. Shows(r)'
    BY <2>1 DEF RunInv, Shows
  <2> QED  BY <2>3, <2>4, <2>5, <2>6 DEF RunInv
<1> QED  BY <1>1, <1>2 DEF ReconInv

-----------------------------------------------------------------------------
LEMMA NextKeeps == ReconInv /\ [Next]_vars => ReconInv'
<1> SUFFICES ASSUME ReconInv, [Next]_vars PROVE ReconInv'
  OBVIOUS
<1>1. ASSUME NEW r \in Run, RunStep(r) PROVE ReconInv'
  BY <1>1, LeaveSteps, StartStep, ReadBooksStep, InsertStep, ReadBankStep, ReadPaperStep,
     ReadLinesStep, CompleteStep DEF RunStep
<1>2. ASSUME NEW r \in Run, Trigger(r) \/ TriggerLost(r) \/ Fail(r) \/ WorkerLost(r) PROVE ReconInv'
  BY <1>2, LeaveSteps
<1>3. ASSUME NEW r \in Run, NEW f \in Finding, Resolve(r, f) PROVE ReconInv'
  <2>1. events' \in 0..MaxEvents
    BY <1>3, EventTyped DEF ReconInv, Resolve
  <2>2. settled' \in [Run -> SUBSET Finding]
    BY <1>3 DEF Resolve, ReconInv, Types, TypeOK
  <2> QED  BY <1>3, <2>1, <2>2, ResolveStep DEF Resolve, history
<1>4. ASSUME NEW e \in Exp, Book(DocOf[e]) \/ Delete(e) PROVE ReconInv'
  BY <1>4, BookStep, DeleteStep
<1>5. CASE UNCHANGED vars
  <2>1. events' \in 0..MaxEvents /\ settled' \in [Run -> SUBSET Finding]
    BY <1>5 DEF vars, ReconInv, Types, TypeOK
  <2> QED  BY <1>5, <2>1, ResolveStep DEF vars
<1> QED  BY <1>1, <1>2, <1>3, <1>4, <1>5 DEF Next

LEMMA ReconInvHolds == Spec => []ReconInv
BY InitHolds, NextKeeps, PTL DEF Spec

\* The tables keep their types, and the findings of a run are findings.
THEOREM Typed == Spec => []TypeOK
<1>1. ReconInv => TypeOK
  BY DEF ReconInv, Types
<1> QED  BY ReconInvHolds, <1>1, PTL

\* engine.py:72-470: whatever is booked, deleted and lost between the queries of a run, a
\* flag it has stored was true at some time of the run.
THEOREM FlagsTrue == Spec => []FlagsWereTrue
<1>1. ReconInv => FlagsWereTrue
  BY DEF ReconInv, RunInv, Shows, FlagsWereTrue
<1> QED  BY ReconInvHolds, <1>1, PTL

\* What is wrong from the start of a run to its end is flagged when it completes.
THEOREM MissesNothing == Spec => []NothingMissed
<1>1. ReconInv => NothingMissed
  BY DEF ReconInv, RunInv, Shows, NothingMissed
<1> QED  BY ReconInvHolds, <1>1, PTL

\* start_run, complete_run, fail_run: a run shown as running has a delivery, unless the
\* database broke its session.
THEOREM RunningHasDelivery == Spec => []RunningIsExecuted
<1>1. ReconInv => RunningIsExecuted
  BY DEF ReconInv, RunInv, Shows, RunningIsExecuted
<1> QED  BY ReconInvHolds, <1>1, PTL

-----------------------------------------------------------------------------
(* What a run says it has raised, and what is stored of it *)

\* A run that is executed is shown as running; until it has ended for the first time
\* nothing of it is stored, and once it has, what it says it has raised.
Told(r) ==
  /\ Executing(r) => runs[r].status = "running"
  /\ runs[r].pc = "trigger" => runs[r].status = "pending"
  /\ r \notin again /\ runs[r].status \notin {"complete", "failed"} =>
       \A f \in Finding : flags[r][f] = 0
  /\ runs[r].status = "complete" =>
       IF r \in again THEN runs[r].raised <= Cardinality(Stored(r))
       ELSE runs[r].raised = Cardinality(Stored(r))

ToldInv == \A r \in Run : Told(r)

\* A commit stores one row for every flag that is new.
LEMMA CommitStores ==
  ASSUME Types, NEW r \in Run, flags' = WithNew(r)
  PROVE  /\ Cardinality(Stored(r)') \in Nat
         /\ Cardinality(runs[r].new) <= Cardinality(Stored(r)')
         /\ (\A f \in Finding : flags[r][f] = 0)
              => Cardinality(runs[r].new) = Cardinality(Stored(r)')
<1> DEFINE new == runs[r].new
           rows == new \X {1}
<1>1. new \in SUBSET Finding /\ flags \in [Run -> [Finding -> 0..2]]
  BY DEF Types, TypeOK, RunRow
<1>2. IsFiniteSet(Finding) /\ IsFiniteSet(new)
  BY <1>1, FindingFinite, FS_Subset
<1>3. IsFiniteSet(rows) /\ Cardinality(rows) = Cardinality(new) /\ Cardinality(new) \in Nat
  <2>1. IsFiniteSet({1}) /\ Cardinality({1}) = 1
    BY FS_Singleton
  <2>2. IsFiniteSet(rows) /\ Cardinality(rows) = Cardinality(new) * Cardinality({1})
    BY <1>2, <2>1, FS_Product
  <2>3. Cardinality(new) \in Nat
    BY <1>2, FS_CardinalityType
  <2> QED  BY <2>1, <2>2, <2>3
<1>4. \A f \in Finding : flags'[r][f] = Min({flags[r][f] + (IF f \in new THEN 1 ELSE 0), 2})
  BY <1>1 DEF WithNew
<1>5. \A f \in Finding : flags'[r][f] \in 0..2 /\ (f \in new => flags'[r][f] > 0)
  <2> TAKE f \in Finding
  <2>1. flags[r][f] \in 0..2
    BY <1>1
  <2>2. CASE f \in new
    BY <1>4, <2>1, <2>2, MinTwo
  <2>3. CASE f \notin new
    BY <1>4, <2>1, <2>3, MinTwo
  <2> QED  BY <2>2, <2>3
<1>6. IsFiniteSet(Stored(r)')
  <2>1. IsFiniteSet(1..2)
    <3>1. IsFiniteSet({1}) /\ IsFiniteSet({2}) /\ 1..2 = {1} \cup {2}
      BY FS_Singleton
    <3> QED  BY <3>1, FS_Union
  <2>2. IsFiniteSet(Finding \X (1..2))
    BY <1>2, <2>1, FS_Product
  <2>3. Stored(r)' \subseteq Finding \X (1..2)
    BY DEF Stored
  <2> QED  BY <2>2, <2>3, FS_Subset
<1>7. rows \subseteq Stored(r)'
  BY <1>1, <1>5 DEF Stored
<1>8. ASSUME \A f \in Finding : flags[r][f] = 0  PROVE Stored(r)' \subseteq rows
  <2> SUFFICES ASSUME NEW f \in Finding, NEW n \in 1..2, n <= flags'[r][f]
               PROVE  f \in new /\ n = 1
    BY DEF Stored
  <2>1. Min({0 + 0, 2}) = 0
    <3>1. Min({0 + 0, 2}) \in 0..2 /\ (Min({0 + 0, 2}) > 0 <=> 0 > 0 \/ 0 = 1)
      BY MinTwo
    <3> QED  BY <3>1
  <2>2. Min({0 + 1, 2}) = 1
    <3>1. (0 + 1) \in {0 + 1, 2} /\ \A y \in {0 + 1, 2} : 0 + 1 <= y
      OBVIOUS
    <3>2. Min({0 + 1, 2}) \in {0 + 1, 2} /\ \A y \in {0 + 1, 2} : Min({0 + 1, 2}) <= y
      BY <3>1 DEF Min
    <3> QED  BY <3>2
  <2>3. f \in new
    <3> SUFFICES ASSUME f \notin new PROVE FALSE
      OBVIOUS
    <3>1. flags'[r][f] = 0
      BY <1>4, <1>8, <2>1
    <3> QED  BY <3>1
  <2>4. flags'[r][f] = 1
    BY <1>4, <1>8, <2>2, <2>3
  <2> QED  BY <2>3, <2>4
<1>9. Cardinality(Stored(r)') \in Nat /\ Cardinality(new) <= Cardinality(Stored(r)')
  BY <1>3, <1>6, <1>7, FS_CardinalityType, FS_Subset
<1>10. ASSUME \A f \in Finding : flags[r][f] = 0  PROVE Cardinality(new) = Cardinality(Stored(r)')
  <2>1. Stored(r)' = rows
    BY <1>7, <1>8, <1>10
  <2> QED  BY <1>3, <2>1
<1> QED  BY <1>9, <1>10

\* A run whose record and flags stay, and which is not started again
LEMMA ToldStays ==
  ASSUME NEW q \in Run, Told(q), runs'[q] = runs[q], flags'[q] = flags[q],
         q \in again' <=> q \in again
  PROVE  Told(q)'
<1>1. Stored(q)' = Stored(q) /\ Executing(q)' = Executing(q)
  BY DEF Stored, Executing
<1> QED  BY <1>1 DEF Told

\* A run that changes what it holds, and neither its record nor its flags
LEMMA ToldAlong ==
  ASSUME NEW q \in Run, Told(q), flags'[q] = flags[q], q \in again' <=> q \in again,
         runs'[q].status = runs[q].status, runs'[q].raised = runs[q].raised,
         Executing(q), runs'[q].pc # "trigger"
  PROVE  Told(q)'
<1>1. Stored(q)' = Stored(q)
  BY DEF Stored
<1> QED  BY <1>1 DEF Told

LEMMA ToldStep ==
  ASSUME ReconInv, ToldInv, [Next]_vars
  PROVE  ToldInv'
<1>t. Types /\ runs \in [Run -> RunRow] /\ flags \in [Run -> [Finding -> 0..2]]
  BY DEF ReconInv, Types, TypeOK
<1>r. \A r \in Run : runs[r] \in RunRow /\ Told(r)
  BY <1>t DEF ToldInv
<1>a. \A r \in Run : \A pc, status :
        /\ At(r, pc, status)[r].pc = pc /\ At(r, pc, status)[r].status = status
        /\ At(r, pc, status)[r].raised = runs[r].raised
        /\ \A q \in Run \ {r} : At(r, pc, status)[q] = runs[q]
  BY <1>t DEF At, NewRun
<1>1. ASSUME NEW r \in Run, Trigger(r) \/ Publish(r) \/ TriggerLost(r) \/ Ack(r) \/ WorkerLost(r)
             \/ Break(r)
      PROVE  ToldInv'
  <2>1. UNCHANGED <<flags, again>>
    BY <1>1 DEF Trigger, Publish, TriggerLost, Ack, WorkerLost, Break, history
  <2>2. /\ \A q \in Run \ {r} : runs'[q] = runs[q]
        /\ runs'[r].raised = runs[r].raised /\ runs'[r].pc \in {"trigger", "queued", "idle"}
        /\ runs'[r].pc = "trigger" => runs'[r].status = "pending"
        /\ \/ runs'[r].status = runs[r].status
           \/ /\ runs'[r].status \in {"pending", "running"}
              /\ runs[r].status \notin {"complete", "failed"} \/ r \in again
    <3>1. CASE Trigger(r)
      BY <1>a, <3>1 DEF Trigger
    <3>2. CASE Publish(r) \/ TriggerLost(r)
      <4>1. runs[r].pc = "trigger" /\ runs[r].status = "pending"
        BY <1>r, <3>2 DEF Publish, TriggerLost, Told
      <4> QED  BY <1>a, <3>2, <4>1 DEF Publish, TriggerLost
    <3>3. CASE Ack(r) \/ WorkerLost(r)
      BY <1>a, <3>3 DEF Ack, WorkerLost
    <3>4. CASE Break(r)
      <4>1. Executing(r)
        BY <3>4 DEF Break, Executing
      <4>2. runs[r].status = "running"
        BY <1>r, <4>1 DEF Told
      <4> QED  BY <1>a, <3>4, <4>2 DEF Break
    <3> QED  BY <1>1, <3>1, <3>2, <3>3, <3>4
  <2>3. Told(r)'
    <3>1. Stored(r)' = Stored(r) /\ ~Executing(r)'
      BY <2>1, <2>2 DEF Stored, Executing
    <3> QED  BY <1>r, <2>1, <2>2, <3>1 DEF Told
  <2> QED  BY <1>r, <2>1, <2>2, <2>3, ToldStays DEF ToldInv
<1>2. ASSUME NEW r \in Run, Start(r)  PROVE ToldInv'
  <2>1. /\ runs' = At(r, "started", "running") /\ UNCHANGED flags
        /\ again' = IF runs[r].status \in {"complete", "failed"} THEN again \cup {r} ELSE again
    BY <1>2 DEF Start, Begin
  <2>2. Told(r)'
    BY <1>a, <1>r, <2>1 DEF Told
  <2> QED  BY <1>a, <1>r, <2>1, <2>2, ToldStays DEF ToldInv
<1>3. ASSUME NEW r \in Run,
             ReadBooks(r) \/ FlagBooks(r) \/ ReadBank(r) \/ FlagBank(r) \/ ReadPaper(r)
               \/ ReadLines(r) \/ FlagLines(r)
      PROVE  ToldInv'
  <2>1. UNCHANGED <<flags, again>>
    BY <1>3 DEF ReadBooks, FlagBooks, ReadBank, FlagBank, ReadPaper, ReadLines, FlagLines, Insert,
                history
  <2>2. /\ \A q \in Run \ {r} : runs'[q] = runs[q]
        /\ runs'[r].status = runs[r].status /\ runs'[r].raised = runs[r].raised
        /\ Executing(r) /\ runs'[r].pc # "trigger"
    BY <1>3, <1>t DEF ReadBooks, FlagBooks, ReadBank, FlagBank, ReadPaper, ReadLines, FlagLines,
                      Insert, Executing, RunRow
  <2> QED  BY <1>r, <2>1, <2>2, ToldStays, ToldAlong DEF ToldInv
<1>4. ASSUME NEW r \in Run, Complete(r)  PROVE ToldInv'
  <2>1. /\ flags' = WithNew(r) /\ again' = again
        /\ runs' = [At(r, "acking", "complete") EXCEPT ![r].raised = Cardinality(runs[r].new)]
        /\ runs[r].pc = "done"
    BY <1>4 DEF Complete, history, Raised
  <2>2. /\ \A q \in Run \ {r} : runs'[q] = runs[q]
        /\ runs'[r].pc = "acking" /\ runs'[r].raised = Cardinality(runs[r].new)
    BY <1>t, <2>1 DEF At, NewRun
  <2>3. r \notin again => \A f \in Finding : flags[r][f] = 0
    BY <1>r, <2>1 DEF Told, Executing
  <2>4. Told(r)'
    <3>1. runs'[r].status = "complete" /\ ~Executing(r)'
      BY <1>t, <2>1, <2>2 DEF At, NewRun, Executing
    <3> QED  BY <1>t, <2>1, <2>2, <2>3, <3>1, CommitStores DEF Told
  <2>5. \A q \in Run \ {r} : flags'[q] = flags[q]
    BY <1>t, <2>1, Commits
  <2> QED  BY <1>r, <2>1, <2>2, <2>4, <2>5, ToldStays DEF ToldInv
<1>5. ASSUME NEW r \in Run, Fail(r)  PROVE ToldInv'
  <2>1. /\ flags' = WithNew(r) /\ again' = again /\ runs' = At(r, "acking", "failed")
    BY <1>5 DEF Fail, history
  <2>2. Told(r)'
    <3>1. runs'[r].status = "failed" /\ runs'[r].pc = "acking"
      BY <1>a, <2>1
    <3> QED  BY <3>1 DEF Told, Executing
  <2>3. \A q \in Run \ {r} : flags'[q] = flags[q]
    BY <1>t, <2>1, Commits
  <2> QED  BY <1>a, <1>r, <2>1, <2>2, <2>3, ToldStays DEF ToldInv
<1>6. ASSUME UNCHANGED <<runs, flags, again>>  PROVE ToldInv'
  BY <1>r, <1>6, ToldStays DEF ToldInv
<1>7. ASSUME NEW r \in Run, NEW f \in Finding, Resolve(r, f)  PROVE ToldInv'
  BY <1>6, <1>7 DEF Resolve, history
<1>8. ASSUME NEW e \in Exp, Book(DocOf[e]) \/ Delete(e)  PROVE ToldInv'
  BY <1>6, <1>8 DEF Book, Delete
<1>9. CASE UNCHANGED vars
  BY <1>6, <1>9 DEF vars
<1> QED  BY <1>1, <1>2, <1>3, <1>4, <1>5, <1>7, <1>8, <1>9 DEF Next, RunStep

\* complete_run: what a run says it has raised is stored, once for each flag, whatever faults
\* and redeliveries came before; a run delivered again after its end has stored no fewer.
THEOREM RaisedStored == Spec => []RaisedIsStored
<1>1. Init => ToldInv
  <2> SUFFICES ASSUME Init, NEW r \in Run PROVE Told(r)
    BY DEF ToldInv
  <2>1. runs[r] = NewRun /\ \A f \in Finding : flags[r][f] = 0
    BY DEF Init
  <2> QED  BY <2>1 DEF Told, NewRun, Executing
<1>2. ReconInv /\ ToldInv /\ [Next]_vars => ToldInv'
  BY ToldStep
<1>3. ToldInv => RaisedIsStored
  BY DEF ToldInv, Told, RaisedIsStored
<1> QED  BY <1>1, <1>2, <1>3, ReconInvHolds, PTL DEF Spec
=============================================================================
