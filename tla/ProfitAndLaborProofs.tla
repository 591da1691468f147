------------------------- MODULE ProfitAndLaborProofs -------------------------
(***************************************************************************)
(* Proofs about ProfitAndLoss for any rows, documents, months and workers; *)
(* and, below them, about PushLabor.                                       *)
(***************************************************************************)
EXTENDS ProfitAndLoss, PushLabor, FiniteSetTheorems, TLAPS

LEMMA MinOfTwo ==
  ASSUME NEW a \in Nat, NEW b \in Nat, a <= b
  PROVE  Min({a, b}) = a
<1>1. \A y \in {a, b} : a <= y
  OBVIOUS
<1>2. Min({a, b}) \in {a, b} /\ \A y \in {a, b} : Min({a, b}) <= y
  BY <1>1 DEF Min
<1> QED  BY <1>2

-----------------------------------------------------------------------------
(* What a report counts *)

\* Each rule drops rows and adds none.
LEMMA Drops ==
  ASSUME NEW E
  PROVE  /\ DropSettlements(E) \subseteq E /\ DropRollups(E) \subseteq E
         /\ DropPaidByAmount(E) \subseteq E /\ DropPaid(E) \subseteq E
BY DEF DropSettlements, DropRollups, DropPaidByAmount, DropPaid

\* What is counted has got through all four rules.
LEMMA Survives ==
  ASSUME NEW E, NEW e \in Counted(E)
  PROVE  LET first  == DropSettlements(E)
             second == DropRollups(first)
             third  == DropPaidByAmount(second)
         IN e \in E /\ e \in first /\ e \in second /\ e \in third /\ e \in DropPaid(third)
BY Drops DEF Counted

\* The only royalty line of its amount goes where an invoice of that amount is there.
LEMMA OnlyLine ==
  ASSUME NEW E \in SUBSET Row, NEW e \in E, NEW b \in E, {e, b} \subseteq RoyaltyRows,
         e \notin BankRows, b \in BankRows, Amount[e] = Amount[b],
         \A c \in RoyaltyRows \cap BankRows : Amount[c] = Amount[e] => c = b
  PROVE  b \notin DropPaidByAmount(E)
<1> DEFINE a == Amount[e]
           lines == {c \in E \cap RoyaltyRows \cap BankRows : Amount[c] = a}
           invoices == {c \in (E \cap RoyaltyRows) \ BankRows : Amount[c] = a}
           used == Min({Cardinality(lines), Cardinality(invoices)})
           S == CHOOSE S \in SUBSET lines : Cardinality(S) = used
<1>1. lines = {b}
  OBVIOUS
<1>2. Cardinality(lines) = 1
  BY <1>1, FS_Singleton
<1>3. IsFiniteSet(invoices) /\ invoices # {}
  BY LedgerAssumption, FS_Subset DEF RoyaltyRows
<1>4. Cardinality(invoices) \in Nat \ {0}
  BY <1>3, FS_CardinalityType, FS_EmptySet
<1>5. used = 1
  <2> HIDE DEF lines, invoices
  <2>1. \A n \in Nat \ {0} : Min({1, n}) = 1
    BY MinOfTwo
  <2> QED  BY <1>2, <1>4, <2>1
<1>6. lines \in SUBSET lines /\ Cardinality(lines) = used
  BY <1>2, <1>5
<1>7. S \in SUBSET lines /\ Cardinality(S) = 1
  BY <1>5, <1>6
<1>8. S # {}
  <2> HIDE DEF S
  <2> QED  BY <1>7, FS_EmptySet
<1>9. b \in S
  BY <1>1, <1>7, <1>8
<1>10. S \in {CHOOSE T \in SUBSET {c \in E \cap RoyaltyRows \cap BankRows : Amount[c] = x} :
                Cardinality(T) =
                  Min({Cardinality({c \in E \cap RoyaltyRows \cap BankRows : Amount[c] = x}),
                       Cardinality({c \in (E \cap RoyaltyRows) \ BankRows : Amount[c] = x})}) :
              x \in {Amount[c] : c \in E \cap RoyaltyRows}}
  OBVIOUS
<1>11. b \in PaidByAmount(E)
  BY <1>9, <1>10 DEF PaidByAmount
<1> QED  BY <1>11 DEF DropPaidByAmount

\* An invoice and the line that pays it are not both counted.
LEMMA PaidOnce ==
  ASSUME NEW E \in SUBSET Row, NEW e \in Counted(E), NEW b \in Counted(E), PaidBy(e, b)
  PROVE  FALSE
<1> DEFINE first  == DropSettlements(E)
           second == DropRollups(first)
           third  == DropPaidByAmount(second)
<1>1. e \in Row /\ e \notin BankRows /\ b \in BankRows
  BY DEF PaidBy
<1>2. /\ e \in E /\ e \in first /\ e \in second /\ e \in third /\ e \in DropPaid(third)
      /\ b \in E /\ b \in first /\ b \in second /\ b \in third
  BY Survives
<1>3. second \in SUBSET Row
  BY Drops
<1> HIDE DEF third
<1>4. CASE {"tahinis", "franchising"} \subseteq Words[e] /\ b \in PreAuth
  BY <1>1, <1>2, <1>4 DEF DropSettlements
<1> HIDE DEF first
<1>5. CASE e \in Atomic /\ b \in Settles
  BY <1>2, <1>5 DEF DropRollups
<1>6. CASE <<e, b>> \in SameVendor
  BY <1>2, <1>6 DEF DropPaid
<1> HIDE DEF second
<1>7. CASE /\ {e, b} \subseteq RoyaltyRows /\ Amount[e] = Amount[b]
           /\ \A c \in RoyaltyRows \cap BankRows : Amount[c] = Amount[e] => c = b
  BY <1>1, <1>2, <1>3, <1>7, OnlyLine DEF third
<1> QED  BY <1>4, <1>5, <1>6, <1>7 DEF PaidBy

\* Nor are a statement of the franchisor and an invoice of its own.
LEMMA ListedOnce ==
  ASSUME NEW E \in SUBSET Row, NEW e \in Counted(E), NEW f \in Counted(E),
         {e, f} \subseteq Franchisor, {e, f} \cap Rollup # {}
  PROVE  {e, f} \subseteq Rollup
<1> DEFINE first == DropSettlements(E)
<1>1. e \in first /\ f \in first /\ e \in DropRollups(first) /\ f \in DropRollups(first)
  BY Survives
<1> HIDE DEF first
<1> QED  BY <1>1 DEF DropRollups, Rollup

LEMMA CountedRows ==
  ASSUME NEW E \in SUBSET Row
  PROVE  View(E) \in [Period -> SUBSET Row]
<1>1. \A p \in Period : Counted({e \in E : MonthOf[e] \in p}) \in SUBSET Row
  BY Survives
<1> QED  BY <1>1 DEF View

-----------------------------------------------------------------------------
\* What a report counts is a view of the books there are.
BooksInv == books \in [Doc -> {"none", "live", "gone"}] /\ counted = View(Live)

LEMMA BooksInit == Init => BooksInv
BY DEF Init, BooksInv

LEMMA BooksStep == BooksInv /\ [Next]_vars => BooksInv'
<1> SUFFICES ASSUME BooksInv, [Next]_vars PROVE BooksInv'
  OBVIOUS
<1>1. ASSUME NEW d \in Doc, Book(d) \/ Remove(d) PROVE BooksInv'
  BY <1>1 DEF BooksInv, Book, Remove
<1>2. CASE UNCHANGED <<books, counted>>
  BY <1>2 DEF BooksInv, Live, View
<1> QED
  BY <1>1, <1>2
  DEF Next, vars, view, Switch, Beat, DeliverTask, Dispatch, CalcStep, ReadExpenses,
      ReadLabor, Store, Ack, Deliver, Fail, WorkerLost

\* No report of any period counts a charge twice, whatever documents have come and gone,
\* where the code has something to tell two records of a charge by.
THEOREM NotTwice ==
  ASSUME Matchable PROVE Spec => []CountedOnce
<1>1. ASSUME NEW E \in SUBSET Row, NEW e \in Counted(E), NEW f \in Counted(E),
             e # f, Charges[e] \cap Charges[f] # {}
      PROVE  {e, f} \subseteq Rollup
  <2>1. e \in Row /\ f \in Row
    BY Survives
  <2>2. ~PaidBy(e, f) /\ ~PaidBy(f, e)
    BY PaidOnce
  <2>3. {e, f} \subseteq Franchisor /\ {e, f} \cap Rollup # {}
    BY <1>1, <2>1, <2>2 DEF Matchable
  <2> QED  BY <2>3, ListedOnce
<1>2. BooksInv => CountedOnce
  <2> SUFFICES ASSUME BooksInv, NEW p \in Period, NEW e \in counted[p], NEW f \in counted[p],
                      e # f, Charges[e] \cap Charges[f] # {}
               PROVE  {e, f} \subseteq Rollup
    BY DEF CountedOnce
  <2> DEFINE E == {x \in Live : MonthOf[x] \in p}
  <2>1. counted[p] = Counted(E)
    BY DEF BooksInv, View
  <2>2. E \in SUBSET Row
    BY DEF Live
  <2> HIDE DEF E
  <2> QED  BY <1>1, <2>1, <2>2
<1> QED  BY <1>2, BooksInit, BooksStep, PTL DEF Spec

\* A finite set has subsets of every size up to its own.
LEMMA SubsetOfSize ==
  ASSUME NEW S, IsFiniteSet(S), NEW k \in Nat, k <= Cardinality(S)
  PROVE  \E T \in SUBSET S : Cardinality(T) = k
<1>1. Cardinality(S) \in Nat /\ ExistsBijection(1..Cardinality(S), S)
  BY FS_CardinalityType
<1>2. PICK f : f \in Bijection(1..Cardinality(S), S)
  BY <1>1 DEF ExistsBijection
<1>3. /\ f \in [1..Cardinality(S) -> S]
      /\ \A i, j \in 1..Cardinality(S) : f[i] = f[j] => i = j
  BY <1>2 DEF Bijection, Injection, IsInjective
<1> DEFINE T == {f[i] : i \in 1..k}
           g == [i \in 1..k |-> f[i]]
<1>4. 1..k \subseteq 1..Cardinality(S)
  BY <1>1
<1>5. T \in SUBSET S
  BY <1>3, <1>4
<1>6. g \in Bijection(1..k, T)
  <2>1. g \in [1..k -> T] /\ \A t \in T : \E i \in 1..k : g[i] = t
    OBVIOUS
  <2>2. \A i, j \in 1..k : g[i] = g[j] => i = j
    BY <1>3, <1>4
  <2>3. DOMAIN g = 1..k
    OBVIOUS
  <2> HIDE DEF g, T
  <2> QED  BY <2>1, <2>2, <2>3 DEF Bijection, Injection, Surjection, IsInjective
<1>7. Cardinality(T) = k
  <2>1. ExistsBijection(1..k, T)
    BY <1>6 DEF ExistsBijection
  <2> HIDE DEF T
  <2> QED  BY <2>1, FS_CountingElements
<1> QED  BY <1>5, <1>7

\* A line that goes by its amount is one of royalties, and an invoice has that amount.
LEMMA AmountMatched ==
  ASSUME NEW E \in SUBSET Row, NEW e \in PaidByAmount(E)
  PROVE  /\ e \in E \cap RoyaltyRows \cap BankRows
         /\ \E f \in (E \cap RoyaltyRows) \ BankRows : Amount[f] = Amount[e]
<1> DEFINE lines(a)    == {c \in E \cap RoyaltyRows \cap BankRows : Amount[c] = a}
           invoices(a) == {c \in (E \cap RoyaltyRows) \ BankRows : Amount[c] = a}
           used(a)     == Min({Cardinality(lines(a)), Cardinality(invoices(a))})
           chosen(a)   == CHOOSE T \in SUBSET lines(a) : Cardinality(T) = used(a)
<1>1. PICK a \in {Amount[c] : c \in E \cap RoyaltyRows} : e \in chosen(a)
  BY DEF PaidByAmount
<1>2. IsFiniteSet(lines(a)) /\ IsFiniteSet(invoices(a))
  BY LedgerAssumption, FS_Subset DEF RoyaltyRows
<1>3. used(a) \in Nat /\ used(a) <= Cardinality(lines(a)) /\ used(a) <= Cardinality(invoices(a))
  <2>1. Cardinality(lines(a)) \in Nat /\ Cardinality(invoices(a)) \in Nat
    BY <1>2, FS_CardinalityType
  <2> HIDE DEF lines, invoices
  <2>2. \A m, n \in Nat : Min({m, n}) \in Nat /\ Min({m, n}) <= m /\ Min({m, n}) <= n
    <3> SUFFICES ASSUME NEW m \in Nat, NEW n \in Nat
                 PROVE  Min({m, n}) \in Nat /\ Min({m, n}) <= m /\ Min({m, n}) <= n
      OBVIOUS
    <3>1. {m, n} = {n, m}
      OBVIOUS
    <3>2. CASE m <= n
      BY <3>2, MinOfTwo
    <3>3. CASE n < m
      BY <3>1, <3>3, MinOfTwo
    <3> QED  BY <3>2, <3>3
  <2> QED  BY <2>1, <2>2
<1>4. chosen(a) \in SUBSET lines(a) /\ Cardinality(chosen(a)) = used(a)
  <2> HIDE DEF lines, used
  <2> QED  BY <1>2, <1>3, SubsetOfSize
<1>5. e \in lines(a)
  <2> HIDE DEF lines, chosen
  <2> QED  BY <1>1, <1>4
<1>6. invoices(a) # {}
  <2>1. IsFiniteSet(chosen(a)) /\ chosen(a) # {}
    <3> HIDE DEF lines, chosen
    <3> QED  BY <1>1, <1>2, <1>4, FS_Subset
  <2>2. Cardinality(chosen(a)) # 0
    <3> HIDE DEF chosen
    <3> QED  BY <2>1, FS_EmptySet
  <2>3. invoices(a) = {} => Cardinality(invoices(a)) = 0
    <3> HIDE DEF invoices
    <3> QED  BY FS_EmptySet
  <2> HIDE DEF invoices, used, chosen
  <2> QED  BY <1>3, <1>4, <2>2, <2>3
<1> QED  BY <1>5, <1>6

\* What a report leaves out has a row in its place, in one step or in two.
LEMMA GivesWay ==
  ASSUME NEW E \in SUBSET Row, NEW e \in E \ Counted(E)
  PROVE  \E f \in E : /\ Replaces(f, e)
                      /\ f \in Counted(E) \/ \E g \in Counted(E) : Replaces(g, f)
<1> DEFINE first  == DropSettlements(E)
           second == DropRollups(first)
           third  == DropPaidByAmount(second)
<1>1. /\ first \subseteq E /\ second \subseteq first /\ third \subseteq second
      /\ Counted(E) = DropPaid(third)
  BY Drops DEF Counted
<1>2. ASSUME NEW f \in third
      PROVE  f \in Counted(E) \/ \E g \in Counted(E) : Replaces(g, f)
  <2> HIDE DEF third
  <2>1. ASSUME NEW b \in third, b \in BankRows
        PROVE  b \in Counted(E)
    BY <1>1, <2>1 DEF DropPaid, SameVendor
  <2>2. ASSUME f \notin Counted(E)
        PROVE  \E b \in third : <<f, b>> \in SameVendor
    BY <1>1, <2>2 DEF DropPaid
  <2>3. \A b : <<f, b>> \in SameVendor => b \in BankRows
    BY DEF SameVendor
  <2> QED  BY <2>1, <2>2, <2>3 DEF Replaces
<1>3. \A f \in second \ BankRows : f \in third
  <2> HIDE DEF second
  <2>1. second \in SUBSET Row
    BY <1>1
  <2> QED  BY <2>1, AmountMatched DEF DropPaidByAmount
<1> HIDE DEF third
<1>4. ASSUME NEW g \in first \cap Atomic, e \in Rollup \cup Settles
      PROVE  \E f \in E : /\ Replaces(f, e)
                          /\ f \in Counted(E) \/ \E h \in Counted(E) : Replaces(h, f)
  <2>1. g \in second \ BankRows
    BY DEF DropRollups, Atomic, Rollup, Franchisor, Settles
  <2>2. Replaces(g, e)
    BY <1>4 DEF Replaces
  <2> QED  BY <1>1, <1>2, <1>3, <2>1, <2>2
<1>5. CASE e \notin first
  <2>1. PICK f \in E \ BankRows : {"tahinis", "franchising"} \subseteq Words[f]
    BY <1>5 DEF DropSettlements
  <2>2. e \in BankRows /\ e \in PreAuth /\ f \in first
    BY <1>5, <2>1 DEF DropSettlements
  <2>3. Replaces(f, e)
    BY <2>1, <2>2 DEF Replaces
  <2>4. CASE f \in second
    BY <1>1, <1>2, <1>3, <2>1, <2>3, <2>4
  <2>5. CASE f \notin second
    <3>1. PICK g : g \in first \cap Atomic
      BY <2>2, <2>5 DEF DropRollups
    <3>2. e \in Settles
      BY <2>2, LedgerAssumption DEF Settles, BankRows
    <3> QED  BY <1>4, <3>1, <3>2
  <2> QED  BY <2>4, <2>5
<1>6. CASE e \in first /\ e \notin second
  <2>1. e \in Rollup \cup Settles /\ \E g : g \in first \cap Atomic
    BY <1>6 DEF DropRollups
  <2> QED  BY <1>4, <2>1
<1> HIDE DEF first
<1>7. CASE e \in second /\ e \notin third
  <2>1. second \in SUBSET Row /\ e \in PaidByAmount(second)
    BY <1>1, <1>7 DEF third, DropPaidByAmount
  <2> HIDE DEF second
  <2>2. e \in RoyaltyRows \cap BankRows
    BY <2>1, AmountMatched
  <2>3. PICK f \in (second \cap RoyaltyRows) \ BankRows : Amount[f] = Amount[e]
    BY <2>1, AmountMatched
  <2>4. Replaces(f, e)
    BY <2>1, <2>2, <2>3 DEF Replaces
  <2> QED  BY <1>1, <1>2, <1>3, <2>3, <2>4
<1>8. CASE e \in third
  <2>1. PICK b \in third : <<e, b>> \in SameVendor
    BY <1>1, <1>8 DEF DropPaid
  <2>2. b \in Counted(E) /\ Replaces(b, e)
    BY <1>1, <2>1 DEF DropPaid, SameVendor, Replaces
  <2> QED  BY <1>1, <2>1, <2>2
<1> QED  BY <1>5, <1>6, <1>7, <1>8

\* No report leaves a cost out for which no other row of its period stands.
THEOREM NothingLost == Spec => []NothingVanishes
<1>1. BooksInv => NothingVanishes
  <2> SUFFICES ASSUME BooksInv, NEW p \in Period,
                      NEW e \in {x \in Live : MonthOf[x] \in p} \ counted[p]
               PROVE  \E f \in {x \in Live : MonthOf[x] \in p} :
                        /\ Replaces(f, e)
                        /\ f \in counted[p] \/ \E g \in counted[p] : Replaces(g, f)
    BY DEF NothingVanishes
  <2> DEFINE E == {x \in Live : MonthOf[x] \in p}
  <2>1. counted[p] = Counted(E)
    BY DEF BooksInv, View
  <2>2. E \in SUBSET Row
    BY DEF Live
  <2>3. e \in E \ Counted(E)
    BY <2>1
  <2> HIDE DEF E
  <2>4. \E f \in E : Replaces(f, e) /\ (f \in counted[p] \/ \E g \in counted[p] : Replaces(g, f))
    BY <2>1, <2>2, <2>3, GivesWay
  <2> QED  BY <2>4 DEF E
<1> QED  BY <1>1, BooksInit, BooksStep, PTL DEF Spec

-----------------------------------------------------------------------------
(* What an account is counted from *)

\* The kind that a has of rows L, and the better one where there are several
Best(a, L) ==
  IF L = {} THEN "none"
  ELSE IF ~InvoiceWins(a) THEN IF L \cap BankRows # {} THEN "bank" ELSE "invoice"
  ELSE IF \E e \in L : Kind(e) = "invoice" THEN "invoice"
  ELSE IF L \ BankRows # {} THEN "statement" ELSE "bank"

\* All rows of an account that a report counts are of kind k, and there is one.
OfKind(a, C, k) == (\A e \in C \cap Records[a] : Kind(e) = k) /\ C \cap Records[a] # {}

LEMMA Kinds ==
  ASSUME NEW e \in Row
  PROVE  /\ e \in BankRows => Kind(e) = "bank"
         /\ e \notin BankRows /\ e \in Rollup => Kind(e) = "statement"
         /\ e \notin BankRows /\ e \notin Rollup => Kind(e) = "invoice"
         /\ e \in Atomic => e \notin BankRows /\ e \notin Rollup
         /\ e \in Franchisor => e \in Atomic \/ e \in Rollup
BY DEF Kind, Rollup, Atomic, Franchisor

\* A row that the first two rules keep, and that is no line of royalties with an invoice of
\* its amount, is counted unless it is an invoice with a line of its vendor.
LEMMA Kept3 ==
  ASSUME NEW E \in SUBSET Row, NEW e \in DropRollups(DropSettlements(E)),
         e \in BankRows \cap RoyaltyRows =>
           ~\E f \in (E \cap RoyaltyRows) \ BankRows : Amount[f] = Amount[e]
  PROVE  /\ e \in DropPaidByAmount(DropRollups(DropSettlements(E)))
         /\ \/ e \in Counted(E)
            \/ /\ e \notin BankRows
               /\ \E b \in DropPaidByAmount(DropRollups(DropSettlements(E))) :
                    <<e, b>> \in SameVendor /\ b \in BankRows
<1> DEFINE second == DropRollups(DropSettlements(E))
           third  == DropPaidByAmount(second)
<1>1. second \subseteq E /\ Counted(E) = DropPaid(third)
  BY Drops DEF Counted
<1> HIDE DEF second
<1>2. e \in third
  BY <1>1, AmountMatched DEF DropPaidByAmount, second
<1> HIDE DEF third
<1>3. \A b : <<e, b>> \in SameVendor => e \notin BankRows /\ b \in BankRows
  BY DEF SameVendor
<1>4. e \in Counted(E) \/ \E b \in third : <<e, b>> \in SameVendor
  BY <1>1, <1>2 DEF DropPaid
<1> QED  BY <1>2, <1>3, <1>4 DEF second, third

\* What is counted has no line of its vendor beside it.
LEMMA NoLine ==
  ASSUME NEW E \in SUBSET Row, NEW e \in Counted(E)
  PROVE  \A b \in DropPaidByAmount(DropRollups(DropSettlements(E))) : <<e, b>> \notin SameVendor
BY DEF Counted, DropPaid

\* The rows of accounts
LEMMA AccountRows ==
  ASSUME NEW a \in Account
  PROVE  Records[a] \in SUBSET Row /\ Told(a) /\ a \in Accounts
BY DEF Account, Records, Accounts

LEMMA VendorSource ==
  ASSUME NEW E \in SUBSET Row, NEW a \in Account, Vendor(a), E \cap Records[a] # {}
  PROVE  OfKind(a, Counted(E), Best(a, E \cap Records[a]))
<1> DEFINE L == E \cap Records[a]
           second == DropRollups(DropSettlements(E))
           third  == DropPaidByAmount(second)
           C == Counted(E)
<1>1. /\ Records[a] \in SUBSET Row /\ Told(a) /\ ~InvoiceWins(a)
      /\ \A e \in Records[a] : e \notin Franchisor \cup Settles \cup PreAuth \cup RoyaltyRows
  BY AccountRows DEF Vendor, InvoiceWins
<1>2. \A e \in L : e \in second
  BY <1>1 DEF DropRollups, DropSettlements, Rollup
<1>3. second \subseteq E /\ third \subseteq E /\ C \subseteq E
  BY Drops DEF Counted
<1> HIDE DEF second
<1>4. \A e \in L : e \in third /\ (e \in BankRows => e \in C)
  BY <1>1, <1>2, Kept3 DEF second
<1>5. CASE L \cap BankRows # {}
  <2>1. PICK b \in L : b \in BankRows
    BY <1>5
  <2>2. b \in C /\ b \in third
    BY <1>4, <2>1
  <2>3. \A e \in L \ BankRows : <<e, b>> \in SameVendor
    BY <1>1, <2>1 DEF Vendor, Papers, Lines
  <2>4. \A e \in C \cap Records[a] : e \in BankRows
    BY <1>3, <2>2, <2>3, NoLine DEF second
  <2>5. Best(a, L) = "bank"
    BY <1>1, <1>5 DEF Best
  <2> QED  BY <1>1, <1>3, <2>2, <2>1, <2>4, <2>5, Kinds DEF OfKind
<1>6. CASE L \cap BankRows = {}
  <2>1. \A e \in L : e \in C
    <3> SUFFICES ASSUME NEW e \in L, e \notin C PROVE FALSE
      OBVIOUS
    <3>1. PICK b \in third : <<e, b>> \in SameVendor /\ b \in BankRows
      BY <1>1, <1>2, Kept3 DEF second
    <3>2. b \in Lines(a)
      BY <1>1, <1>6, <3>1 DEF Told, Papers
    <3> QED  BY <1>3, <1>6, <3>1, <3>2 DEF Lines
  <2>2. \A e \in C \cap Records[a] : Kind(e) = "invoice"
    BY <1>1, <1>3, <1>6, Kinds DEF Rollup
  <2>3. Best(a, L) = "invoice"
    BY <1>1, <1>6 DEF Best
  <2> QED  BY <2>1, <2>2, <2>3 DEF OfKind
<1> QED  BY <1>5, <1>6

LEMMA FranchisorSource ==
  ASSUME NEW E \in SUBSET Row, NEW a \in Account, FranchisorAccount(a), E \cap Records[a] # {}
  PROVE  OfKind(a, Counted(E), Best(a, E \cap Records[a]))
<1> DEFINE L == E \cap Records[a]
           first  == DropSettlements(E)
           second == DropRollups(first)
           third  == DropPaidByAmount(second)
           C == Counted(E)
<1>1. /\ Records[a] \in SUBSET Row /\ Told(a)
      /\ \A e \in Records[a] \ BankRows : {"tahinis", "franchising"} \subseteq Words[e]
      /\ \A e \in Records[a] \cap BankRows : e \in PreAuth \cap Settles
      /\ Franchisor \subseteq Records[a]
  BY AccountRows DEF FranchisorAccount, Papers, Lines
<1>2. /\ first \subseteq E /\ second \subseteq first /\ third \subseteq second /\ C \subseteq third
  BY Drops DEF Counted
<1>3. \A e \in Records[a] \ BankRows : e \in Franchisor
  BY <1>1 DEF Franchisor
<1>4. CASE L \ BankRows # {}
  <2>1. first = E \ (BankRows \cap PreAuth)
    BY <1>1, <1>4 DEF DropSettlements
  <2>2. \A e \in first \cap Records[a] : e \notin BankRows
    BY <1>1, <2>1
  <2>3. \A e \in L \ BankRows : e \in first
    BY <2>1
  <2> HIDE DEF first
  <2>4. \A e \in second \cap Records[a] : e \in C
    <3> SUFFICES ASSUME NEW e \in second \cap Records[a], e \notin C PROVE FALSE
      OBVIOUS
    <3>1. e \notin BankRows
      BY <1>2, <2>2
    <3>2. PICK b \in third : <<e, b>> \in SameVendor /\ b \in BankRows
      <4> HIDE DEF second, third, C
      <4> QED  BY <3>1, Kept3 DEF first, second, third, C
    <3>3. b \in Lines(a)
      BY <1>1, <3>1, <3>2 DEF Told, Papers
    <3> QED  BY <1>2, <2>2, <3>2, <3>3 DEF Lines
  <2>5. CASE first \cap Atomic # {}
    <3>1. second = first \ (Rollup \cup Settles)
      BY <2>5 DEF DropRollups
    <3>2. PICK g \in first : g \in Atomic
      BY <2>5
    <3>3. g \in Records[a] /\ g \in second
      BY <1>1, <3>1, <3>2 DEF Atomic, Rollup, Franchisor, Settles
    <3>4. \A e \in second \cap Records[a] : Kind(e) = "invoice"
      BY <1>1, <1>2, <2>2, <3>1, Kinds
    <3>5. InvoiceWins(a)
      BY <1>1, <3>2 DEF InvoiceWins, Atomic
    <3>6. Best(a, L) = "invoice"
      BY <1>2, <3>3, <3>4, <3>5 DEF Best
    <3> HIDE DEF second, third, C
    <3> QED  BY <1>2, <2>4, <3>3, <3>4, <3>6 DEF OfKind, C
  <2>6. CASE first \cap Atomic = {}
    <3>1. second = first
      BY <2>6 DEF DropRollups
    <3>2. PICK f \in L : f \notin BankRows
      BY <1>4
    <3>3. f \in second /\ f \in Franchisor
      BY <1>3, <2>3, <3>1, <3>2
    <3>4. \A e \in L \ BankRows : Kind(e) = "statement"
      BY <1>1, <1>3, <2>3, <2>6, Kinds
    <3>5. \A e \in L : Kind(e) # "invoice"
      BY <1>1, <3>4, Kinds
    <3>6. InvoiceWins(a)
      BY <1>1, <3>3 DEF InvoiceWins
    <3>7. Best(a, L) = "statement"
      BY <1>4, <3>5, <3>6 DEF Best
    <3>8. \A e \in C \cap Records[a] : e \in L \ BankRows
      BY <1>2, <2>2
    <3> HIDE DEF second, third, C
    <3> QED  BY <2>4, <3>2, <3>3, <3>4, <3>7, <3>8 DEF OfKind, C
  <2> QED  BY <2>5, <2>6
<1>5. CASE L \ BankRows = {}
  <2>1. \A e \in E \ BankRows : e \notin Franchisor
    BY <1>1, <1>5
  <2>2. first = E
    BY <2>1 DEF DropSettlements, Franchisor
  <2>3. second = E
    BY <2>1, <2>2 DEF DropRollups, Atomic, Franchisor
  <2>4. \A e \in L : e \in C
    <3> SUFFICES ASSUME NEW e \in L PROVE e \in C
      OBVIOUS
    <3>1. e \in BankRows
      BY <1>5
    <3>2. ASSUME e \in RoyaltyRows, NEW f \in (E \cap RoyaltyRows) \ BankRows
          PROVE  Amount[f] # Amount[e]
      <4>1. f \notin Records[a]
        BY <1>5
      <4> QED  BY <3>1, <3>2, <4>1 DEF FranchisorAccount, Lines
    <3>3. e \in second
      BY <2>3
    <3> HIDE DEF second, first, C
    <3> QED  BY <3>1, <3>2, <3>3, Kept3 DEF second, first, C
  <2>5. \A e \in C \cap Records[a] : Kind(e) = "bank"
    BY <1>1, <1>2, <1>5, Kinds
  <2>6. Best(a, L) = "bank"
    BY <1>1, <1>5, Kinds DEF Best
  <2> QED  BY <2>4, <2>5, <2>6 DEF OfKind
<1> QED  BY <1>4, <1>5

LEMMA AtMostOne ==
  ASSUME NEW S, IsFiniteSet(S), Cardinality(S) <= 1, NEW x \in S, NEW y \in S
  PROVE  x = y
<1>1. Cardinality(S) \in Nat /\ S # {}
  BY FS_CardinalityType
<1>2. Cardinality(S) # 0
  BY <1>1, FS_EmptySet
<1>3. Cardinality(S) = 1
  BY <1>1, <1>2
<1> QED  BY <1>3, FS_Singleton

LEMMA RoyaltySource ==
  ASSUME NEW E \in SUBSET Row, NEW a \in Account, RoyaltyCharge(a), E \cap Records[a] # {}
  PROVE  OfKind(a, Counted(E), Best(a, E \cap Records[a]))
<1> DEFINE L == E \cap Records[a]
           second == DropRollups(DropSettlements(E))
           third  == DropPaidByAmount(second)
           C == Counted(E)
<1>1. /\ Records[a] \in SUBSET Row /\ Told(a)
      /\ \A e \in Records[a] : e \in RoyaltyRows /\ e \notin Franchisor \cup Settles \cup PreAuth
  BY AccountRows DEF RoyaltyCharge
<1>2. InvoiceWins(a)
  BY <1>1 DEF InvoiceWins
<1>3. \A e \in L : e \in second
  BY <1>1 DEF DropRollups, DropSettlements, Rollup
<1>4. second \subseteq E /\ third \subseteq second /\ C \subseteq third
  BY Drops DEF Counted
<1>5. \A x, y \in Lines(a) : x = y
  <2>1. IsFiniteSet(Lines(a))
    BY <1>1, LedgerAssumption, FS_Subset DEF Lines
  <2> QED  BY <2>1, AtMostOne DEF RoyaltyCharge
<1>6. \A e \in L, f \in E \cap RoyaltyRows : Amount[f] = Amount[e] <=> f \in L
  BY <1>1 DEF RoyaltyCharge
<1> HIDE DEF second
<1>7. CASE L \ BankRows # {}
  <2>1. PICK f \in L : f \notin BankRows
    BY <1>7
  <2>2. \A b \in L : b \in BankRows => b \notin third
    <3> SUFFICES ASSUME NEW b \in L, b \in BankRows PROVE b \notin third
      OBVIOUS
    <3>1. {f, b} \subseteq RoyaltyRows /\ f \in second /\ b \in second
      BY <1>1, <1>3
    <3>2. Amount[f] = Amount[b]
      BY <1>6, <3>1
    <3>3. \A c \in RoyaltyRows \cap BankRows : Amount[c] = Amount[f] => c = b
      <4> SUFFICES ASSUME NEW c \in RoyaltyRows \cap BankRows, Amount[c] = Amount[f] PROVE c = b
        OBVIOUS
      <4>1. c \in Records[a]
        BY DEF RoyaltyCharge
      <4> QED  BY <1>5, <4>1 DEF Lines
    <3>4. second \in SUBSET Row
      BY <1>4
    <3> QED  BY <2>1, <3>1, <3>2, <3>3, <3>4, OnlyLine
  <2>3. f \in C
    <3> SUFFICES ASSUME f \notin C PROVE FALSE
      OBVIOUS
    <3>1. PICK b \in third : <<f, b>> \in SameVendor /\ b \in BankRows
      BY <1>3, <2>1, Kept3 DEF second
    <3>2. b \in Lines(a)
      BY <1>1, <2>1, <3>1 DEF Told, Papers
    <3> QED  BY <1>4, <2>2, <3>1, <3>2 DEF Lines
  <2>4. \A e \in L \ BankRows : Kind(e) = "invoice"
    BY <1>1, Kinds DEF Rollup
  <2>5. \A e \in C \cap Records[a] : e \in L \ BankRows
    BY <1>4, <2>2
  <2>6. Best(a, L) = "invoice"
    BY <1>2, <2>1, <2>4 DEF Best
  <2> QED  BY <2>1, <2>3, <2>4, <2>5, <2>6 DEF OfKind
<1>8. CASE L \ BankRows = {}
  <2>1. \A e \in L : e \in C
    BY <1>3, <1>6, <1>8, Kept3 DEF second
  <2>2. \A e \in C \cap Records[a] : Kind(e) = "bank"
    BY <1>1, <1>4, <1>8, Kinds
  <2>3. Best(a, L) = "bank"
    BY <1>1, <1>2, <1>8, Kinds DEF Best
  <2> QED  BY <2>1, <2>2, <2>3 DEF OfKind
<1> QED  BY <1>7, <1>8

\* An account that the rules can tell is counted from the best kind there is.
LEMMA SourceIsBest ==
  ASSUME NEW E \in SUBSET Row, NEW a \in Account
  PROVE  SourceOf(Counted(E))[a] = Best(a, E \cap Records[a])
<1> DEFINE L == E \cap Records[a]
           kinds == {Kind(e) : e \in Counted(E) \cap Records[a]}
<1>1. SourceOf(Counted(E))[a] =
        CASE kinds = {} -> "none"
          [] Cardinality(kinds) = 1 -> CHOOSE k \in kinds : TRUE
          [] OTHER -> "several"
  BY DEF SourceOf
<1>2. CASE L = {}
  <2>1. kinds = {}
    BY <1>2, Survives
  <2>2. Best(a, L) = "none"
    BY <1>2 DEF Best
  <2>3. Cardinality(kinds) = 0
    BY <2>1, FS_EmptySet
  <2> HIDE DEF kinds
  <2> QED  BY <1>1, <2>1, <2>2, <2>3
<1>3. CASE L # {}
  <2>1. OfKind(a, Counted(E), Best(a, L))
    BY <1>3, AccountRows, VendorSource, FranchisorSource, RoyaltySource DEF Told
  <2>2. kinds = {Best(a, L)}
    BY <2>1 DEF OfKind
  <2> HIDE DEF kinds
  <2>3. Cardinality(kinds) = 1 /\ kinds # {} /\ (CHOOSE k \in kinds : TRUE) = Best(a, L)
    BY <2>2, FS_Singleton
  <2> QED  BY <1>1, <2>3
<1> QED  BY <1>2, <1>3

\* More rows make the kind no worse.
LEMMA BestGrows ==
  ASSUME NEW a \in Account, NEW L, NEW M \in SUBSET Row, L \subseteq M
  PROVE  Rank[a][Best(a, L)] <= Rank[a][Best(a, M)]
<1>1. \A e \in M : Kind(e) = "invoice" => e \notin BankRows
  BY Kinds
<1>2. CASE InvoiceWins(a)
  <2>1. Rank[a] = [none |-> 0, bank |-> 1, statement |-> 2, invoice |-> 3]
    BY <1>2 DEF Rank
  <2>2. /\ Rank[a]["none"] = 0 /\ Rank[a]["bank"] = 1
        /\ Rank[a]["statement"] = 2 /\ Rank[a]["invoice"] = 3
    BY <2>1
  <2> QED  BY <1>1, <1>2, <2>2 DEF Best
<1>3. CASE ~InvoiceWins(a)
  <2>1. Rank[a] = [none |-> 0, statement |-> 1, invoice |-> 1, bank |-> 2]
    BY <1>3 DEF Rank
  <2>2. Rank[a]["none"] = 0 /\ Rank[a]["bank"] = 2 /\ Rank[a]["invoice"] = 1
    BY <2>1
  <2> QED  BY <1>3, <2>2 DEF Best
<1> QED  BY <1>2, <1>3

\* The abstract variables
RecordsOf == [a \in Account |-> Cardinality({e \in Records[a] : books[DocOf[e]] = "live"})]
CountedAs == SourceOf(counted[Month])

\* Rows of an account that a report of all months reads
Seen(a) == {e \in Live : MonthOf[e] \in Month} \cap Records[a]

LEMMA CountedAsBest ==
  ASSUME BooksInv, NEW a \in Account
  PROVE  CountedAs[a] = Best(a, Seen(a))
<1> DEFINE E == {e \in Live : MonthOf[e] \in Month}
<1>1. Month \in Period
  BY DEF Period
<1>2. counted[Month] = Counted(E) /\ E \in SUBSET Row
  BY <1>1 DEF BooksInv, View, Live
<1> HIDE DEF E
<1>3. SourceOf(counted[Month])[a] = Best(a, E \cap Records[a])
  BY <1>2, SourceIsBest
<1> QED  BY <1>3 DEF CountedAs, Seen, E

LEMMA AbstractTypes ==
  ASSUME BooksInv
  PROVE  RecordsOf \in [Account -> Nat] /\ CountedAs \in [Account -> Source]
<1>1. ASSUME NEW a \in Account
      PROVE  Cardinality({e \in Records[a] : books[DocOf[e]] = "live"}) \in Nat
  <2>1. IsFiniteSet({e \in Records[a] : books[DocOf[e]] = "live"})
    BY AccountRows, LedgerAssumption, FS_Subset
  <2> QED  BY <2>1, FS_CardinalityType
<1>2. \A a \in Account : CountedAs[a] \in Source
  BY CountedAsBest DEF Best, Source
<1>3. CountedAs = [a \in Account |-> CountedAs[a]]
  BY DEF CountedAs, SourceOf
<1> QED  BY <1>1, <1>2, <1>3 DEF RecordsOf

\* What holds of them before a step, and after it
Abstract ==
  /\ RecordsOf \in [Account -> Nat] /\ CountedAs \in [Account -> Source]
  /\ \A a \in Account : CountedAs[a] = Best(a, Seen(a))

LEMMA AbstractHolds == BooksInv => Abstract
BY AbstractTypes, CountedAsBest DEF Abstract

LEMMA AbstractNext == BooksInv' => Abstract'
BY AbstractHolds, PTL

\* The rows of an account that are live
LiveOf(a) == {e \in Records[a] : books[DocOf[e]] = "live"}

\* Of an account whose rows grow: it is as it was, or has more rows and no worse a kind.
LEMMA AccountGrows ==
  ASSUME NEW a \in Account, NEW L, NEW M \in SUBSET Records[a], L \subseteq M
  PROVE  \/ L = M
         \/ /\ Cardinality(M) > Cardinality(L)
            /\ Rank[a][Best(a, {e \in L : MonthOf[e] \in Month})]
                 <= Rank[a][Best(a, {e \in M : MonthOf[e] \in Month})]
<1>1. M \in SUBSET Row /\ IsFiniteSet(M)
  BY AccountRows, LedgerAssumption, FS_Subset
<1>2. L # M => Cardinality(L) < Cardinality(M)
  BY <1>1, FS_Subset, FS_CardinalityType
<1>3. Rank[a][Best(a, {e \in L : MonthOf[e] \in Month})]
        <= Rank[a][Best(a, {e \in M : MonthOf[e] \in Month})]
  <2>1. /\ {e \in L : MonthOf[e] \in Month} \subseteq {e \in M : MonthOf[e] \in Month}
        /\ {e \in M : MonthOf[e] \in Month} \in SUBSET Row
    BY <1>1
  <2> QED  BY <2>1, BestGrows
<1> QED  BY <1>1, <1>2, <1>3, FS_Subset, FS_CardinalityType

LEMMA SeenLive == \A a \in Account : Seen(a) = {e \in LiveOf(a) : MonthOf[e] \in Month}
BY AccountRows DEF Seen, LiveOf, Live

\* A document is booked, or removed.
LEMMA SourceStep ==
  ASSUME BooksInv, BooksInv', NEW d \in Doc, Book(d) \/ Remove(d)
  PROVE  Costs!Next
<1>1. /\ RecordsOf' \in [Account -> Nat] /\ CountedAs' \in [Account -> Source]
      /\ RecordsOf \in [Account -> Nat]
  BY AbstractHolds, AbstractNext DEF Abstract
<1>2. \A a \in Account : CountedAs'[a] = Best(a, Seen(a)')
  BY AbstractNext DEF Abstract
<1>3. \A a \in Account : CountedAs[a] = Best(a, Seen(a))
  BY CountedAsBest
<1>4. \A a \in Account : Seen(a)' = {e \in LiveOf(a)' : MonthOf[e] \in Month}
  BY AccountRows DEF Seen, LiveOf, Live
<1>5. \A a \in Account : /\ RecordsOf[a] = Cardinality(LiveOf(a))
                         /\ RecordsOf'[a] = Cardinality(LiveOf(a)')
  BY DEF RecordsOf, LiveOf
<1>6. CASE Book(d)
  <2>1. \A a \in Account : LiveOf(a) \subseteq LiveOf(a)' /\ LiveOf(a)' \in SUBSET Records[a]
    BY <1>6 DEF Book, LiveOf, BooksInv
  <2>2. ASSUME NEW a \in Account
        PROVE  \/ RecordsOf'[a] = RecordsOf[a] /\ CountedAs'[a] = CountedAs[a]
               \/ /\ RecordsOf'[a] > RecordsOf[a]
                  /\ Rank[a][CountedAs'[a]] >= Rank[a][CountedAs[a]]
    <3>1. CASE LiveOf(a)' = LiveOf(a)
      BY <1>2, <1>3, <1>4, <1>5, <3>1, SeenLive
    <3>2. CASE LiveOf(a)' # LiveOf(a)
      BY <1>2, <1>3, <1>4, <1>5, <2>1, <3>2, SeenLive, AccountGrows
    <3> QED  BY <3>1, <3>2
  <2>3. Costs!Arrive
    BY <1>1, <2>2 DEF Costs!Arrive, Costs!Kept, RecordsOf, CountedAs
  <2> QED  BY <2>3 DEF Costs!Next
<1>7. CASE Remove(d)
  <2>1. \A a \in Account : LiveOf(a)' \subseteq LiveOf(a) /\ LiveOf(a) \in SUBSET Records[a]
    BY <1>7 DEF Remove, LiveOf, BooksInv
  <2>2. ASSUME NEW a \in Account
        PROVE  \/ RecordsOf'[a] = RecordsOf[a] /\ CountedAs'[a] = CountedAs[a]
               \/ /\ RecordsOf'[a] < RecordsOf[a]
                  /\ Rank[a][CountedAs'[a]] <= Rank[a][CountedAs[a]]
    <3>1. CASE LiveOf(a)' = LiveOf(a)
      BY <1>2, <1>3, <1>4, <1>5, <3>1, SeenLive
    <3>2. CASE LiveOf(a)' # LiveOf(a)
      BY <1>2, <1>3, <1>4, <1>5, <2>1, <3>2, SeenLive, AccountGrows
    <3> QED  BY <3>1, <3>2
  <2>3. Costs!Withdraw
    BY <1>1, <2>2 DEF Costs!Withdraw, Costs!Kept, RecordsOf, CountedAs
  <2> QED  BY <2>3 DEF Costs!Next
<1> QED  BY <1>6, <1>7

\* Every account that the rules can tell is counted from one kind of document, the best
\* there is: the report implements the abstract choice.
THEOREM SourceRefines == Spec => OneSource
<1>1. Init => Costs!Init
  <2> SUFFICES ASSUME Init PROVE Costs!Init
    OBVIOUS
  <2>1. RecordsOf \in [Account -> Nat] /\ CountedAs \in [Account -> Source]
    BY BooksInit, AbstractTypes
  <2> QED  BY <2>1 DEF Costs!Init, RecordsOf, CountedAs
<1>2. BooksInv /\ BooksInv' /\ [Next]_vars => [Costs!Next]_<<RecordsOf, CountedAs>>
  <2> SUFFICES ASSUME BooksInv, BooksInv', [Next]_vars
               PROVE  Costs!Next \/ UNCHANGED <<RecordsOf, CountedAs>>
    OBVIOUS
  <2>1. CASE UNCHANGED <<books, counted>>
    BY <2>1 DEF RecordsOf, CountedAs
  <2>2. ASSUME NEW d \in Doc, Book(d) \/ Remove(d) PROVE Costs!Next
    BY <2>2, SourceStep
  <2> QED
    BY <2>1, <2>2
    DEF Next, vars, view, Switch, Beat, DeliverTask, Dispatch, CalcStep, ReadExpenses,
        ReadLabor, Store, Ack, Deliver, Fail, WorkerLost
<1> QED
  BY <1>1, <1>2, BooksInit, BooksStep, PTL
  DEF Spec, OneSource, Costs!Spec, RecordsOf, CountedAs

-----------------------------------------------------------------------------
(* The monthly snapshot *)

Execution == [pc : {"idle", "dispatch", "dispatched", "asked", "read", "done", "acking"},
              period : {{}} \cup Period, rows : SUBSET Row, push : BOOLEAN]
Message   == [sent : BOOLEAN, task : 0..1, queued : Nat, stored : 0..2]

MonthTypes ==
  /\ calc \in [Calc -> Execution] /\ months \in [Month -> Message]
  /\ connected \in BOOLEAN /\ events \subseteq Happens /\ again \subseteq Month

On(x) == {r \in Calc : calc[r].period = {x}}

\* What is under way is about one month.
OneMonth ==
  \A r \in Calc : IF calc[r].pc = "idle" THEN calc[r].period = {}
                                         ELSE \E x \in Month : r \in On(x)

\* The executions of either task that have not done its work yet
Holds(r) == calc[r].pc \in {"dispatch", "asked", "read", "done"}
Held(x)  == {r \in On(x) : Holds(r)}

\* What the month has of messages and snapshots
Tokens(x) == months[x].task + months[x].queued + months[x].stored

\* A month is in one place: not sent yet, a message, an execution, or its snapshot.
OneMessage(x) ==
  /\ \A r, s \in Held(x) : r = s
  /\ Held(x) # {} => Tokens(x) = 0
  /\ Tokens(x) <= 1
  /\ ~months[x].sent => Tokens(x) = 0 /\ Held(x) = {}

MonthInv == MonthTypes /\ OneMonth /\ \A x \in Month \ again : OneMessage(x)

LEMMA TheMonth ==
  ASSUME NEW x \in Month, NEW r \in On(x)
  PROVE  The(r) = x
<1>1. \A y : {x} = {y} => x = y
  OBVIOUS
<1> QED  BY <1>1 DEF The, On

LEMMA IdleExecution == Idle \in Execution /\ Idle.pc = "idle" /\ Idle.period = {}
BY DEF Idle, Execution

\* One execution goes on to something else.
LEMMA CalcSet ==
  ASSUME MonthTypes, NEW r \in Calc, NEW row \in Execution, calc' = [calc EXCEPT ![r] = row]
  PROVE  /\ calc' \in [Calc -> Execution] /\ calc'[r] = row
         /\ \A s \in Calc \ {r} : calc'[s] = calc[s]
         /\ \A y : On(y)' = IF row.period = {y} THEN On(y) \cup {r} ELSE On(y) \ {r}
BY DEF MonthTypes, On

\* One execution ends.
LEMMA CalcEnds ==
  ASSUME MonthTypes, NEW r \in Calc, calc' = [calc EXCEPT ![r] = Idle]
  PROVE  /\ calc' \in [Calc -> Execution] /\ calc'[r] = Idle
         /\ \A s \in Calc \ {r} : calc'[s] = calc[s]
         /\ \A y : On(y)' = On(y) \ {r}
<1>1. /\ calc' \in [Calc -> Execution] /\ calc'[r] = Idle
      /\ \A s \in Calc \ {r} : calc'[s] = calc[s]
      /\ \A y : On(y)' = IF Idle.period = {y} THEN On(y) \cup {r} ELSE On(y) \ {r}
  BY IdleExecution, CalcSet
<1>2. \A y : Idle.period # {y}
  BY IdleExecution
<1> QED  BY <1>1, <1>2, Zenon

\* A month of which no more is held than before, and that has no more messages and
\* snapshots, or that has one more when one less is held.
LEMMA SameMessage ==
  ASSUME NEW y \in Month, months' \in [Month -> Message], MonthTypes, OneMessage(y),
         months'[y].sent = months[y].sent,
         \/ Held(y)' \subseteq Held(y) /\ Tokens(y)' = Tokens(y)
         \/ \E r \in Held(y) : Held(y)' = Held(y) \ {r} /\ Tokens(y)' = Tokens(y) + 1
  PROVE  OneMessage(y)'
<1>1. Tokens(y) \in Nat /\ Tokens(y)' \in Nat
  BY DEF MonthTypes, Message, Tokens
<1>2. CASE Held(y)' \subseteq Held(y) /\ Tokens(y)' = Tokens(y)
  <2>1. Held(y)' # {} => Held(y) # {}
    BY <1>2
  <2>2. \A r, s \in Held(y)' : r = s
    BY <1>2 DEF OneMessage
  <2> QED  BY <1>2, <2>1, <2>2 DEF OneMessage
<1>3. ASSUME NEW r \in Held(y), Held(y)' = Held(y) \ {r}, Tokens(y)' = Tokens(y) + 1
      PROVE  OneMessage(y)'
  <2>1. Held(y)' = {} /\ Tokens(y) = 0 /\ months[y].sent
    BY <1>3 DEF OneMessage
  <2>2. Held(y)' = {} /\ Tokens(y)' = 1 /\ months'[y].sent
    BY <1>3, <2>1
  <2> QED  BY <2>2 DEF OneMessage
<1> QED  BY <1>2, <1>3

LEMMA MonthInit == Init => MonthInv
<1> SUFFICES ASSUME Init PROVE MonthInv
  OBVIOUS
<1>1. MonthTypes
  <2>1. [sent |-> FALSE, task |-> 0, queued |-> 0, stored |-> 0] \in Message
    BY DEF Message
  <2> QED  BY <2>1, IdleExecution DEF Init, MonthTypes
<1>2. \A x : On(x) = {}
  BY IdleExecution DEF Init, On
<1>3. OneMonth
  BY IdleExecution DEF Init, OneMonth
<1>4. \A x \in Month : Tokens(x) = 0 /\ Held(x) = {}
  BY <1>2 DEF Init, Tokens, Held
<1> QED  BY <1>1, <1>3, <1>4 DEF MonthInv, OneMessage

\* An execution reads.
LEMMA ReadSteps ==
  ASSUME MonthInv, counted \in [Period -> SUBSET Row], NEW r \in Calc,
         ReadExpenses(r) \/ ReadLabor(r)
  PROVE  MonthInv'
<1> DEFINE row == IF calc[r].pc = "asked"
                  THEN [calc[r] EXCEPT !.pc = "read", !.rows = counted[calc[r].period]]
                  ELSE [calc[r] EXCEPT !.pc = "done", !.push = connected]
<1>t. MonthTypes /\ OneMonth
  BY DEF MonthInv
<1>1. calc[r] \in Execution /\ calc[r].pc \in {"asked", "read"}
  BY <1>t DEF MonthTypes, ReadExpenses, ReadLabor
<1>2. PICK x \in Month : r \in On(x)
  BY <1>t, <1>1 DEF OneMonth
<1>3. calc[r].period = {x} /\ calc[r].period \in Period
  BY <1>2 DEF On, Period
<1>4. /\ row \in Execution /\ row.period = {x} /\ row.pc \in {"read", "done"}
  BY <1>t, <1>1, <1>3 DEF MonthTypes, Execution
<1>5. calc' = [calc EXCEPT ![r] = row] /\ UNCHANGED <<months, connected, events, again>>
  BY <1>1, <1>t DEF ReadExpenses, ReadLabor, view, MonthTypes
<1> HIDE DEF row
<1>6. /\ calc' \in [Calc -> Execution] /\ calc'[r] = row
      /\ \A s \in Calc \ {r} : calc'[s] = calc[s]
      /\ \A y : On(y)' = IF row.period = {y} THEN On(y) \cup {r} ELSE On(y) \ {r}
  BY <1>t, <1>4, <1>5, CalcSet
<1>7. \A y : On(y)' = On(y)
  BY <1>2, <1>3, <1>4, <1>6 DEF On
<1>8. MonthTypes'
  BY <1>t, <1>5, <1>6 DEF MonthTypes
<1>9. OneMonth'
  BY <1>t, <1>2, <1>4, <1>6, <1>7 DEF OneMonth, On
<1>10. \A y \in Month : Held(y)' = Held(y)
  BY <1>1, <1>4, <1>6, <1>7 DEF Held, Holds, On
<1>11. ASSUME NEW y \in Month \ again  PROVE OneMessage(y)'
  <2>1. OneMessage(y) /\ Tokens(y)' = Tokens(y) /\ months'[y].sent = months[y].sent
    BY <1>5 DEF MonthInv, Tokens
  <2> QED  BY <1>t, <1>8, <1>10, <2>1, SameMessage DEF MonthTypes
<1> QED  BY <1>5, <1>8, <1>9, <1>11 DEF MonthInv

\* An execution ends.
LEMMA EndSteps ==
  ASSUME MonthInv, NEW r \in Calc, Ack(r) \/ Fail(r)
  PROVE  MonthInv'
<1>t. MonthTypes /\ OneMonth
  BY DEF MonthInv
<1>1. /\ calc' = [calc EXCEPT ![r] = Idle] /\ UNCHANGED <<months, connected, again>>
      /\ events' \subseteq Happens
  BY <1>t DEF Ack, Fail, view, Event, MonthTypes
<1>2. /\ calc' \in [Calc -> Execution] /\ calc'[r] = Idle
      /\ \A s \in Calc \ {r} : calc'[s] = calc[s]
      /\ \A y : On(y)' = On(y) \ {r}
  BY <1>t, <1>1, CalcEnds
<1>3. MonthTypes'
  BY <1>t, <1>1, <1>2 DEF MonthTypes
<1>4. OneMonth'
  BY <1>t, <1>2, IdleExecution DEF OneMonth, On
<1>5. \A y \in Month : Held(y)' \subseteq Held(y)
  BY <1>2 DEF Held, Holds, On
<1>6. ASSUME NEW y \in Month \ again  PROVE OneMessage(y)'
  <2>1. OneMessage(y) /\ Tokens(y)' = Tokens(y) /\ months'[y].sent = months[y].sent
    BY <1>1 DEF MonthInv, Tokens
  <2> QED  BY <1>t, <1>3, <1>5, <2>1, SameMessage DEF MonthTypes
<1> QED  BY <1>1, <1>3, <1>4, <1>6 DEF MonthInv

\* The months of the others are untouched by what becomes of x.
LEMMA OtherMonths ==
  ASSUME MonthInv, NEW x \in Month, NEW r \in Calc, MonthTypes',
         On(x) \subseteq On(x)' \cup {r}, On(x)' \subseteq On(x) \cup {r},
         \A y \in Month \ {x} : On(y)' = On(y) /\ months'[y] = months[y],
         \A s \in Calc \ {r} : calc'[s] = calc[s],
         r \in On(x) \/ r \in On(x)'
  PROVE  \A y \in Month \ (again \cup {x}) : OneMessage(y)'
<1> SUFFICES ASSUME NEW y \in Month \ (again \cup {x}) PROVE OneMessage(y)'
  OBVIOUS
<1>1. OneMessage(y) /\ MonthTypes
  BY DEF MonthInv
<1>2. On(y)' = On(y) /\ months'[y] = months[y]
  OBVIOUS
<1>3. r \notin On(y)
  <2>1. {x} # {y}
    OBVIOUS
  <2> QED  BY <1>2, <2>1 DEF On
<1>4. Held(y)' = Held(y)
  BY <1>2, <1>3 DEF Held, Holds, On
<1>5. Tokens(y)' = Tokens(y) /\ months'[y].sent = months[y].sent
  BY <1>2 DEF Tokens
<1> QED  BY <1>1, <1>4, <1>5, SameMessage DEF MonthTypes

LEMMA SentMessage ==
  ASSUME NEW m \in Message
  PROVE  LET n == [m EXCEPT !.sent = TRUE, !.task = 1]
         IN n \in Message /\ n.sent /\ n.task = 1 /\ n.queued = m.queued /\ n.stored = m.stored
<1> DEFINE k == [m EXCEPT !.sent = TRUE]
<1>1. k \in Message /\ k.sent /\ k.stored = m.stored /\ k.queued = m.queued
  BY DEF Message
<1> HIDE DEF k
<1>2. [k EXCEPT !.task = 1] \in Message
  BY <1>1 DEF Message
<1>3. /\ [k EXCEPT !.task = 1].task = 1 /\ [k EXCEPT !.task = 1].sent
      /\ [k EXCEPT !.task = 1].stored = m.stored /\ [k EXCEPT !.task = 1].queued = m.queued
  BY <1>1 DEF Message
<1>4. [m EXCEPT !.sent = TRUE, !.task = 1] = [k EXCEPT !.task = 1]
  BY DEF k, Message
<1> QED  BY <1>2, <1>3, <1>4

LEMMA BeatStep ==
  ASSUME MonthInv, NEW x \in Month, Beat(x)
  PROVE  MonthInv'
<1>t. MonthTypes /\ OneMonth
  BY DEF MonthInv
<1>1. UNCHANGED <<calc, connected, events, again>> /\ ~months[x].sent
  BY DEF Beat, view
<1>2. /\ months' \in [Month -> Message]
      /\ months'[x].sent /\ months'[x].task = 1
      /\ months'[x].queued = months[x].queued /\ months'[x].stored = months[x].stored
      /\ \A y \in Month \ {x} : months'[y] = months[y]
  <2>1. /\ months[x] \in Message
        /\ months' = [months EXCEPT ![x] = [months[x] EXCEPT !.sent = TRUE, !.task = 1]]
    BY <1>t DEF Beat, MonthTypes
  <2> QED  BY <1>t, <2>1, SentMessage DEF MonthTypes
<1>3. MonthTypes' /\ OneMonth' /\ \A y : On(y)' = On(y) /\ Held(y)' = Held(y)
  BY <1>t, <1>1, <1>2 DEF MonthTypes, OneMonth, On, Held, Holds
<1>4. ASSUME NEW y \in Month \ again  PROVE OneMessage(y)'
  <2>1. OneMessage(y)
    BY DEF MonthInv
  <2>2. CASE y = x
    <3>1. Tokens(x) = 0 /\ Held(x) = {}
      BY <1>1, <2>1, <2>2 DEF OneMessage
    <3>2. /\ months[x].task \in 0..1 /\ months[x].queued \in Nat /\ months[x].stored \in 0..2
          /\ months'[x].task = 1
      BY <1>t, <1>2 DEF MonthTypes, Message
    <3>3. Tokens(x)' = 1
      BY <1>2, <3>1, <3>2 DEF Tokens
    <3>4. Held(x)' = {} /\ months'[x].sent
      BY <1>2, <1>3, <3>1
    <3> QED  BY <2>2, <3>3, <3>4 DEF OneMessage
  <2>3. CASE y # x
    <3>1. Tokens(y)' = Tokens(y) /\ months'[y].sent = months[y].sent
      BY <1>2, <2>3 DEF Tokens
    <3> QED  BY <1>t, <1>2, <1>3, <2>1, <3>1, SameMessage
  <2> QED  BY <2>2, <2>3
<1> QED  BY <1>1, <1>3, <1>4 DEF MonthInv

\* A worker takes a message of either task.
LEMMA TakeSteps ==
  ASSUME MonthInv, NEW r \in Calc, NEW x \in Month, DeliverTask(r, x) \/ Deliver(r, x)
  PROVE  MonthInv'
<1> DEFINE row == [Idle EXCEPT !.pc = calc'[r].pc, !.period = {x}]
<1>t. MonthTypes /\ OneMonth
  BY DEF MonthInv
<1>1. /\ calc' = [calc EXCEPT ![r] = row] /\ UNCHANGED <<connected, events, again>>
      /\ calc[r].pc = "idle" /\ calc'[r].pc \in {"dispatch", "asked"}
  BY <1>t DEF Deliver, DeliverTask, view, MonthTypes, Idle
<1>2. row \in Execution /\ row.pc \in {"dispatch", "asked"} /\ row.period = {x}
  BY <1>1 DEF Idle, Execution, Period
<1> HIDE DEF row
<1>3. /\ calc' \in [Calc -> Execution] /\ calc'[r] = row
      /\ \A s \in Calc \ {r} : calc'[s] = calc[s]
      /\ \A y : On(y)' = IF row.period = {y} THEN On(y) \cup {r} ELSE On(y) \ {r}
  BY <1>t, <1>1, <1>2, CalcSet
<1>4. \A y \in Month : On(y)' = IF y = x THEN On(y) \cup {r} ELSE On(y)
  <2>1. \A y : r \notin On(y)
    BY <1>t, <1>1 DEF OneMonth, On
  <2> QED  BY <1>2, <1>3, <2>1
<1>5. /\ months' \in [Month -> Message]
      /\ months'[x].sent = months[x].sent /\ \A y \in Month \ {x} : months'[y] = months[y]
      /\ Tokens(x)' = Tokens(x) - 1 /\ Tokens(x) > 0
  <2>1. CASE DeliverTask(r, x)
    BY <1>t, <2>1 DEF DeliverTask, MonthTypes, Message, Tokens
  <2>2. CASE Deliver(r, x)
    BY <1>t, <2>2 DEF Deliver, MonthTypes, Message, Tokens
  <2> QED  BY <2>1, <2>2
<1>6. MonthTypes' /\ OneMonth'
  BY <1>t, <1>1, <1>2, <1>3, <1>5 DEF MonthTypes, OneMonth, On
<1>7. ASSUME x \in Month \ again  PROVE OneMessage(x)'
  <2>1. OneMessage(x) /\ Tokens(x) \in Nat
    BY <1>t, <1>7 DEF MonthInv, MonthTypes, Message, Tokens
  <2>2. Held(x) = {} /\ Tokens(x) = 1 /\ months[x].sent
    BY <1>5, <2>1 DEF OneMessage
  <2>3. Held(x)' \subseteq {r}
    BY <1>3, <1>4, <2>2 DEF Held, Holds, On
  <2>4. Tokens(x)' = 0 /\ months'[x].sent
    BY <1>5, <2>2
  <2> QED  BY <2>3, <2>4 DEF OneMessage
<1>8. \A y \in Month \ (again \cup {x}) : OneMessage(y)'
  BY <1>3, <1>4, <1>5, <1>6, OtherMonths
<1> QED  BY <1>1, <1>6, <1>7, <1>8 DEF MonthInv

\* A snapshot more, of which two are counted
LEMMA MinPlus ==
  ASSUME NEW n \in 0..2
  PROVE  Min({n + 1, 2}) \in 0..2 /\ (n = 0 => Min({n + 1, 2}) = 1)
<1>1. \A a, b \in Nat : Min({a, b}) = IF a <= b THEN a ELSE b
  <2> SUFFICES ASSUME NEW a \in Nat, NEW b \in Nat
               PROVE  Min({a, b}) = IF a <= b THEN a ELSE b
    OBVIOUS
  <2>1. {a, b} = {b, a}
    OBVIOUS
  <2>2. CASE a <= b
    BY <2>2, MinOfTwo
  <2>3. CASE b < a
    BY <2>1, <2>3, MinOfTwo
  <2> QED  BY <2>2, <2>3
<1>2. n + 1 \in Nat /\ 2 \in Nat
  OBVIOUS
<1>3. Min({n + 1, 2}) = IF n + 1 <= 2 THEN n + 1 ELSE 2
  BY <1>1, <1>2
<1> QED  BY <1>3

\* A task does its work: the monthly one sends a message, the other stores the snapshot.
LEMMA WorkSteps ==
  ASSUME MonthInv, NEW r \in Calc, Dispatch(r) \/ Store(r)
  PROVE  MonthInv'
<1> DEFINE row == [calc[r] EXCEPT !.pc = IF @ = "dispatch" THEN "dispatched" ELSE "acking"]
<1>t. MonthTypes /\ OneMonth
  BY DEF MonthInv
<1>1. PICK x \in Month : r \in On(x)
  BY <1>t DEF Store, Dispatch, OneMonth
<1>2. /\ calc' = [calc EXCEPT ![r] = row] /\ UNCHANGED <<connected, events, again>>
      /\ calc[r] \in Execution /\ calc[r].pc \in {"dispatch", "done"} /\ calc[r].period = {x}
  BY <1>t, <1>1 DEF Store, Dispatch, view, MonthTypes, On
<1>3. row \in Execution /\ row.pc \in {"dispatched", "acking"} /\ row.period = {x}
  BY <1>2 DEF Execution
<1> HIDE DEF row
<1>4. /\ calc' \in [Calc -> Execution] /\ calc'[r] = row
      /\ \A s \in Calc \ {r} : calc'[s] = calc[s]
      /\ \A y : On(y)' = IF row.period = {y} THEN On(y) \cup {r} ELSE On(y) \ {r}
  BY <1>t, <1>2, <1>3, CalcSet
<1>5. \A y : On(y)' = On(y)
  BY <1>1, <1>2, <1>3, <1>4 DEF On
<1>6. /\ months' \in [Month -> Message]
      /\ months'[x].sent = months[x].sent /\ \A y \in Month \ {x} : months'[y] = months[y]
      /\ Tokens(x) = 0 => Tokens(x)' = 1
  <2>1. /\ months[x].task \in 0..1 /\ months[x].queued \in Nat /\ months[x].stored \in 0..2
        /\ months[x] \in Message
    BY <1>t DEF MonthTypes, Message
  <2>2. CASE Dispatch(r)
    <3>1. months' = [months EXCEPT ![x].queued = @ + 1]
      BY <1>1, <2>2, TheMonth DEF Dispatch
    <3>2. /\ months' \in [Month -> Message]
          /\ months'[x].sent = months[x].sent /\ \A y \in Month \ {x} : months'[y] = months[y]
          /\ months'[x].queued = months[x].queued + 1
          /\ months'[x].task = months[x].task /\ months'[x].stored = months[x].stored
      BY <1>t, <2>1, <3>1 DEF MonthTypes, Message
    <3> QED  BY <2>1, <3>2 DEF Tokens
  <2>3. CASE Store(r)
    <3>1. months' = [months EXCEPT ![x].stored = Min({@ + 1, 2})]
      BY <1>1, <2>3, TheMonth DEF Store
    <3>2. Min({months[x].stored + 1, 2}) \in 0..2
      BY <2>1, MinPlus
    <3>3. /\ months' \in [Month -> Message]
          /\ months'[x].sent = months[x].sent /\ \A y \in Month \ {x} : months'[y] = months[y]
          /\ months'[x].stored = Min({months[x].stored + 1, 2})
          /\ months'[x].task = months[x].task /\ months'[x].queued = months[x].queued
      BY <1>t, <2>1, <3>1, <3>2 DEF MonthTypes, Message
    <3>4. months[x].stored = 0 => months'[x].stored = 1
      BY <3>3, MinPlus
    <3> QED  BY <2>1, <3>3, <3>4 DEF Tokens
  <2> QED  BY <2>2, <2>3
<1>7. MonthTypes' /\ OneMonth'
  BY <1>t, <1>1, <1>2, <1>3, <1>4, <1>5, <1>6 DEF MonthTypes, OneMonth, On
<1>8. ASSUME x \in Month \ again  PROVE OneMessage(x)'
  <2>1. OneMessage(x) /\ r \in Held(x)
    BY <1>1, <1>2, <1>8 DEF MonthInv, Held, Holds
  <2>2. Tokens(x) = 0
    BY <2>1 DEF OneMessage
  <2>3. Held(x)' = Held(x) \ {r}
    BY <1>3, <1>4, <1>5 DEF Held, Holds, On
  <2>4. Tokens(x)' = Tokens(x) + 1
    BY <1>6, <2>2
  <2> QED  BY <1>t, <1>6, <2>1, <2>3, <2>4, SameMessage
<1>9. \A y \in Month \ (again \cup {x}) : OneMessage(y)'
  BY <1>1, <1>4, <1>5, <1>6, <1>7, OtherMonths
<1> QED  BY <1>2, <1>7, <1>8, <1>9 DEF MonthInv

\* A message whose worker is lost is there again; its task had not done its work yet, or
\* the month counts as one delivered again.
LEMMA LostStep ==
  ASSUME MonthInv, NEW r \in Calc, WorkerLost(r)
  PROVE  MonthInv'
<1>t. MonthTypes /\ OneMonth
  BY DEF MonthInv
<1>1. PICK x \in Month : r \in On(x)
  BY <1>t DEF WorkerLost, OneMonth
<1>2. /\ calc' = [calc EXCEPT ![r] = Idle] /\ UNCHANGED connected
      /\ events' \subseteq Happens
      /\ again' = IF calc[r].pc \in {"dispatched", "acking"} THEN again \cup {x} ELSE again
      /\ months' = IF calc[r].pc \in {"dispatch", "dispatched"}
                   THEN [months EXCEPT ![x].task = 1]
                   ELSE [months EXCEPT ![x].queued = @ + 1]
  BY <1>t, <1>1, TheMonth DEF WorkerLost, Event, MonthTypes
<1>3. /\ calc' \in [Calc -> Execution] /\ calc'[r] = Idle
      /\ \A s \in Calc \ {r} : calc'[s] = calc[s]
      /\ \A y : On(y)' = On(y) \ {r}
  BY <1>t, <1>2, CalcEnds
<1>4. /\ months[x].task \in 0..1 /\ months[x].queued \in Nat /\ months[x].stored \in 0..2
      /\ months[x] \in Message
  BY <1>t DEF MonthTypes, Message
<1>5. /\ months' \in [Month -> Message]
      /\ months'[x].sent = months[x].sent /\ \A y \in Month \ {x} : months'[y] = months[y]
      /\ Tokens(x) = 0 => Tokens(x)' = 1
  <2>1. CASE calc[r].pc \in {"dispatch", "dispatched"}
    <3>1. /\ months' \in [Month -> Message]
          /\ months'[x].sent = months[x].sent /\ \A y \in Month \ {x} : months'[y] = months[y]
          /\ months'[x].task = 1
          /\ months'[x].queued = months[x].queued /\ months'[x].stored = months[x].stored
      BY <1>t, <1>2, <1>4, <2>1 DEF MonthTypes, Message
    <3> QED  BY <1>4, <3>1 DEF Tokens
  <2>2. CASE calc[r].pc \notin {"dispatch", "dispatched"}
    <3>1. /\ months' \in [Month -> Message]
          /\ months'[x].sent = months[x].sent /\ \A y \in Month \ {x} : months'[y] = months[y]
          /\ months'[x].queued = months[x].queued + 1
          /\ months'[x].task = months[x].task /\ months'[x].stored = months[x].stored
      BY <1>t, <1>2, <1>4, <2>2 DEF MonthTypes, Message
    <3> QED  BY <1>4, <3>1 DEF Tokens
  <2> QED  BY <2>1, <2>2
<1>6. MonthTypes' /\ OneMonth'
  BY <1>t, <1>1, <1>2, <1>3, <1>5, IdleExecution DEF MonthTypes, OneMonth, On
<1>7. ASSUME x \in Month \ again'  PROVE OneMessage(x)'
  <2>1. calc[r].pc \in {"dispatch", "asked", "read", "done"} /\ x \notin again
    <3>1. calc[r].pc \notin {"dispatched", "acking"} /\ x \notin again
      BY <1>2, <1>7
    <3>2. calc[r].pc # "idle" /\ calc[r] \in Execution
      BY <1>t DEF WorkerLost, MonthTypes
    <3> QED  BY <3>1, <3>2 DEF Execution
  <2>2. OneMessage(x) /\ r \in Held(x)
    BY <1>1, <2>1 DEF MonthInv, Held, Holds
  <2>3. Tokens(x) = 0
    BY <2>2 DEF OneMessage
  <2>4. Held(x)' = Held(x) \ {r}
    BY <1>3 DEF Held, Holds, On
  <2>5. Tokens(x)' = Tokens(x) + 1
    BY <1>5, <2>3
  <2> QED  BY <1>t, <1>5, <2>2, <2>4, <2>5, SameMessage
<1>8. \A y \in Month \ {x} : On(y)' = On(y) /\ months'[y] = months[y]
  <2>1. \A y \in Month \ {x} : {x} # {y}
    OBVIOUS
  <2>2. \A y \in Month \ {x} : r \notin On(y)
    BY <1>1, <2>1 DEF On
  <2> QED  BY <1>3, <1>5, <2>2
<1>9. \A y \in Month \ (again \cup {x}) : OneMessage(y)'
  BY <1>1, <1>3, <1>5, <1>6, <1>8, OtherMonths
<1> QED  BY <1>2, <1>6, <1>7, <1>9 DEF MonthInv

LEMMA MonthStep == BooksInv /\ MonthInv /\ [Next]_vars => MonthInv'
<1> SUFFICES ASSUME BooksInv, MonthInv, [Next]_vars PROVE MonthInv'
  OBVIOUS
<1>1. counted \in [Period -> SUBSET Row]
  BY CountedRows DEF BooksInv, Live
<1>2. ASSUME UNCHANGED <<calc, months, again>>, connected' \in BOOLEAN, events' \subseteq Happens
      PROVE  MonthInv'
  BY <1>2 DEF MonthInv, MonthTypes, OneMonth, OneMessage, On, Held, Holds, Tokens
<1>3. CASE UNCHANGED vars
  BY <1>2, <1>3 DEF MonthInv, MonthTypes, vars, view
<1>4. CASE Switch \/ \E d \in Doc : Book(d) \/ Remove(d)
  BY <1>2, <1>4 DEF MonthInv, MonthTypes, Switch, Book, Remove, Event, view
<1>5. ASSUME NEW x \in Month, Beat(x) PROVE MonthInv'
  BY <1>5, BeatStep
<1>6. ASSUME NEW r \in Calc, CalcStep(r) \/ Fail(r) \/ WorkerLost(r) PROVE MonthInv'
  BY <1>1, <1>6, ReadSteps, WorkSteps, EndSteps, TakeSteps, LostStep DEF CalcStep
<1> QED  BY <1>3, <1>4, <1>5, <1>6 DEF Next

\* The monthly tasks store one snapshot of a month, however many workers there are and
\* whatever fails, but where a worker is lost after its task, the one that asks for the
\* snapshot or the one that stores it, has done its work and before it is acknowledged.
THEOREM OneSnapshot == Spec => []SnapshotOnce
<1>1. MonthInv => SnapshotOnce
  BY DEF MonthInv, OneMessage, SnapshotOnce, MonthTypes, Message, Tokens
<1> QED  BY <1>1, BooksInit, BooksStep, MonthInit, MonthStep, PTL DEF Spec

\* The variables keep their types.
THEOREM LedgerTypes == Spec => []TypeOK
<1>1. BooksInv /\ MonthInv => TypeOK
  <2>1. BooksInv => counted \in [Period -> SUBSET Row]
    BY CountedRows DEF BooksInv, Live
  <2> QED  BY <2>1 DEF BooksInv, MonthInv, MonthTypes, Execution, Message, TypeOK
<1> QED  BY <1>1, BooksInit, BooksStep, MonthInit, MonthStep, PTL DEF Spec

-----------------------------------------------------------------------------
(***************************************************************************)
(* Proofs about PushLabor for any days, rows and processes.                *)
(***************************************************************************)

USE LaborAssumption

\* The tables, but for the bound on edits, which is a sum over all rows
NatRows == [Day -> [LaborRow -> Nat]]

SyncRow == [pc : {"fetch", "upsert", "commit"}, historical : BOOLEAN, start : Day,
            next : 1..(LastDay + 1), end : Day, fetched : NatRows, written : NatRows,
            began : NatRows]

LaborTypes ==
  /\ today \in Day /\ push \in NatRows /\ stored \in NatRows
  /\ removed \subseteq Day \X LaborRow
  /\ config \in [active : BOOLEAN, complete : BOOLEAN]
  /\ sync \in [Proc -> {NoSync} \cup SyncRow]
  /\ known \in NatRows /\ overtaken \subseteq Day \X LaborRow

Busy == {p \in Proc : sync[p] # NoSync}

\* A sync has days before it until it commits.
InRange ==
  \A p \in Busy : IF sync[p].pc = "commit" THEN sync[p].next > sync[p].end
                                           ELSE sync[p].next <= sync[p].end

\* Push has what anyone knows of it, or newer.
PushIsNewest ==
  \A d \in Day, r \in LaborRow :
    /\ known[d][r] <= push[d][r]
    /\ \A p \in Busy : sync[p].began[d][r] <= push[d][r]

\* A sync has rows in hand of its chunk only.
InHand ==
  \A p \in Busy, d \in Day, r \in LaborRow :
    sync[p].fetched[d][r] > 0 => sync[p].pc = "upsert" /\ d \in Chunk(p)

\* What a sync has gone through is as new as it was when the sync began, but for rows
\* removed at Push.
Current ==
  \A p \in Busy, d \in Day, r \in LaborRow :
    <<d, r>> \notin removed =>
      /\ sync[p].start <= d /\ d < sync[p].next => sync[p].began[d][r] <= sync[p].written[d][r]
      /\ sync[p].pc = "upsert" /\ d \in Chunk(p) => sync[p].began[d][r] <= sync[p].fetched[d][r]

\* What a sync is about to store is as new as what is known, or overtaken.
NotOld(n, d, r) == n > 0 => n >= known[d][r] \/ <<d, r>> \in overtaken
Waiting ==
  \A p \in Busy, d \in Day, r \in LaborRow :
    NotOld(sync[p].fetched[d][r], d, r) /\ NotOld(sync[p].written[d][r], d, r)

\* The lock of a row has one holder.
Apart ==
  \A p, q \in Busy, d \in Day, r \in LaborRow :
    sync[p].written[d][r] > 0 /\ sync[q].written[d][r] > 0 => p = q

LaborInv ==
  /\ LaborTypes /\ InRange /\ PushIsNewest /\ InHand /\ Current /\ Waiting /\ Apart
  /\ RowsAreKnown

-----------------------------------------------------------------------------
LEMMA MinMax ==
  ASSUME NEW a \in Int, NEW b \in Int
  PROVE  /\ Min({a, b}) = IF a <= b THEN a ELSE b
         /\ Max({a, b}) = IF a <= b THEN b ELSE a
<1>1. PICK m \in {a, b} : \A y \in {a, b} : m <= y
  <2>1. CASE a <= b  BY <2>1
  <2>2. CASE b < a   BY <2>2
  <2> QED  BY <2>1, <2>2
<1>2. Min({a, b}) \in {a, b} /\ \A y \in {a, b} : Min({a, b}) <= y
  BY <1>1 DEF Min
<1>3. PICK n \in {a, b} : \A y \in {a, b} : n >= y
  <2>1. CASE a <= b  BY <2>1
  <2>2. CASE b < a   BY <2>2
  <2> QED  BY <2>1, <2>2
<1>4. Max({a, b}) \in {a, b} /\ \A y \in {a, b} : Max({a, b}) >= y
  BY <1>3 DEF Max
<1> QED  BY <1>2, <1>4

LEMMA MaxOf == \A a, b \in Nat : Max({a, b}) = IF a <= b THEN b ELSE a
BY MinMax

LEMMA Days ==
  Day \subseteq Nat /\ 1 \in Day /\ NoRows \in NatRows
BY DEF Day, NoRows, NatRows

LEMMA NotIdle == \A row \in SyncRow : row # NoSync
<1>1. NoSync.pc = "idle"
  BY DEF NoSync
<1> QED  BY <1>1 DEF SyncRow

LEMMA SyncOf ==
  ASSUME LaborTypes, NEW p \in Busy
  PROVE  sync[p] \in SyncRow
BY DEF LaborTypes, Busy

\* A process that does something else
LEMMA SyncSet ==
  ASSUME LaborTypes, NEW p \in Proc, NEW row \in {NoSync} \cup SyncRow,
         sync' = [sync EXCEPT ![p] = row]
  PROVE  /\ sync' \in [Proc -> {NoSync} \cup SyncRow]
         /\ sync'[p] = row /\ \A q \in Proc \ {p} : sync'[q] = sync[q]
         /\ Busy' = IF row = NoSync THEN Busy \ {p} ELSE Busy \cup {p}
BY DEF LaborTypes, Busy

\* A chunk lies between the next day and the last.
LEMMA Chunks ==
  ASSUME LaborTypes, NEW p \in Busy, sync[p].next <= sync[p].end
  PROVE  /\ ChunkEnd(p) \in Day /\ ChunkEnd(p) <= sync[p].end
         /\ sync[p].next <= ChunkEnd(p)
         /\ ChunkEnd(p) + 1 \in 1..(LastDay + 1)
<1>1. sync[p].next \in Nat \ {0} /\ sync[p].end \in Day /\ sync[p].end \in Nat
  BY SyncOf DEF SyncRow, Day
<1>2. sync[p].next + ChunkDays - 1 \in Int /\ sync[p].next + ChunkDays - 1 >= sync[p].next
  BY <1>1
<1>3. ChunkEnd(p) = IF sync[p].next + ChunkDays - 1 <= sync[p].end
                    THEN sync[p].next + ChunkDays - 1 ELSE sync[p].end
  BY <1>1, <1>2, MinMax DEF ChunkEnd
<1> QED  BY <1>1, <1>2, <1>3 DEF Day

LEMMA LaborStarts ==
  LaborInit => LaborInv
<1> SUFFICES ASSUME LaborInit PROVE LaborInv
  OBVIOUS
<1>1. Busy = {}
  BY DEF LaborInit, Busy
<1>2. LaborTypes
  BY Days DEF LaborInit, LaborTypes
<1>3. \A d \in Day, r \in LaborRow : known[d][r] = 0 /\ stored[d][r] = 0 /\ push[d][r] = 0
  BY DEF LaborInit, NoRows
<1> QED
  BY <1>1, <1>2, <1>3
  DEF LaborInv, InRange, PushIsNewest, InHand, Current, Waiting, Apart, RowsAreKnown

-----------------------------------------------------------------------------
(* Push, and the account *)

LEMMA OutsideSteps ==
  ASSUME LaborInv,
         \/ Midnight \/ SwitchAccount \/ UNCHANGED laborVars
         \/ \E d \in Day, r \in LaborRow : Edit(d, r) \/ RemoveRow(d, r)
  PROVE  LaborInv'
<1>t. LaborTypes
  BY DEF LaborInv
<1>s. UNCHANGED <<sync, stored, known, overtaken>> /\ removed \subseteq removed'
  BY DEF Midnight, SwitchAccount, laborVars, Edit, RemoveRow
<1>1. /\ push' \in NatRows
      /\ \A d \in Day, r \in LaborRow : push[d][r] <= push'[d][r]
  <2>1. CASE UNCHANGED push
    BY <1>t, <2>1 DEF LaborTypes, NatRows
  <2>2. ASSUME NEW d \in Day, NEW r \in LaborRow, Edit(d, r)
        PROVE  /\ push' \in NatRows
               /\ \A e \in Day, x \in LaborRow : push[e][x] <= push'[e][x]
    <3>1. push' = [push EXCEPT ![d][r] = @ + 1] /\ push \in [Day -> [LaborRow -> Nat]]
      BY <1>t, <2>2 DEF Edit, LaborTypes, NatRows
    <3>2. [push[d] EXCEPT ![r] = @ + 1] \in [LaborRow -> Nat]
      BY <3>1
    <3>3. push' \in NatRows
      BY <3>1, <3>2 DEF NatRows
    <3>4. \A e \in Day, x \in LaborRow : push[e][x] <= push'[e][x]
      BY <3>1
    <3> QED  BY <3>3, <3>4
  <2> QED  BY <2>1, <2>2 DEF Midnight, SwitchAccount, laborVars, RemoveRow
<1>2. today' \in Day
  <2>1. today' = today \/ (today < LastDay /\ today' = today + 1)
    <3>1. CASE Midnight  BY <3>1 DEF Midnight
    <3>2. CASE ~Midnight  BY <3>2 DEF SwitchAccount, laborVars, Edit, RemoveRow
    <3> QED  BY <3>1, <3>2
  <2> QED  BY <1>t, <2>1 DEF LaborTypes, Day
<1>3. config' \in [active : BOOLEAN, complete : BOOLEAN]
  BY <1>t DEF LaborTypes, Midnight, SwitchAccount, laborVars, Edit, RemoveRow
<1>4. removed' \subseteq Day \X LaborRow
  <2>1. removed' = removed \/ \E d \in Day, r \in LaborRow : removed' = removed \cup {<<d, r>>}
    BY DEF Midnight, SwitchAccount, laborVars, Edit, RemoveRow
  <2> QED  BY <1>t, <2>1 DEF LaborTypes
<1>5. LaborTypes'
  BY <1>t, <1>s, <1>1, <1>2, <1>3, <1>4 DEF LaborTypes
<1>6. Busy' = Busy /\ \A p \in Proc : Chunk(p)' = Chunk(p)
  BY <1>s DEF Busy, Chunk, ChunkEnd
<1>p. Busy \subseteq Proc
  BY DEF Busy
<1>7. InRange' /\ Apart' /\ RowsAreKnown'
  BY <1>s, <1>6 DEF LaborInv, InRange, Apart, RowsAreKnown
<1>10. InHand'
  BY <1>s, <1>6, <1>p DEF LaborInv, InHand
<1>11. Waiting'
  BY <1>s, <1>6 DEF LaborInv, Waiting, NotOld
<1>8. Current'
  <2> SUFFICES ASSUME NEW q \in Busy, NEW d \in Day, NEW r \in LaborRow, <<d, r>> \notin removed
               PROVE  /\ sync[q].start <= d /\ d < sync[q].next
                           => sync[q].began[d][r] <= sync[q].written[d][r]
                      /\ sync[q].pc = "upsert" /\ d \in Chunk(q)
                           => sync[q].began[d][r] <= sync[q].fetched[d][r]
    BY <1>s, <1>6, <1>p DEF Current
  <2> QED  BY DEF LaborInv, Current
<1>9. PushIsNewest'
  <2>1. ASSUME NEW d \in Day, NEW r \in LaborRow  PROVE known[d][r] <= push'[d][r]
    BY <1>t, <1>1 DEF LaborInv, PushIsNewest, LaborTypes, NatRows
  <2>2. ASSUME NEW p \in Busy, NEW d \in Day, NEW r \in LaborRow
        PROVE  sync[p].began[d][r] <= push'[d][r]
    <3>1. sync[p].began \in NatRows
      BY <1>t, SyncOf DEF SyncRow
    <3> QED  BY <1>t, <1>1, <3>1 DEF LaborInv, PushIsNewest, LaborTypes, NatRows
  <2> QED  BY <1>s, <1>6, <2>1, <2>2 DEF PushIsNewest
<1> QED  BY <1>5, <1>7, <1>8, <1>9, <1>10, <1>11 DEF LaborInv

-----------------------------------------------------------------------------
(* Syncs *)

\* The row of a sync that has nothing in hand and has written nothing
LEMMA StartStep ==
  ASSUME LaborInv, NEW p \in Proc, NEW kind \in SyncKind, Start(p, kind)
  PROVE  LaborInv'
<1>t. LaborTypes
  BY DEF LaborInv
<1> DEFINE row == [pc |-> "fetch", historical |-> kind = "historical", start |-> First(kind),
                   next |-> First(kind), end |-> today, fetched |-> NoRows,
                   written |-> NoRows, began |-> push]
<1>1. First(kind) \in Day /\ First(kind) <= today
  BY <1>t DEF First, LaborTypes, Day
<1>2. row \in SyncRow
  <2>1. First(kind) \in 1..(LastDay + 1)
    BY <1>1 DEF Day
  <2> QED  BY <1>t, <1>1, <2>1, Days DEF SyncRow, LaborTypes
<1>3. sync' = [sync EXCEPT ![p] = row]
  BY DEF Start, Begin
<1>4. /\ row.pc = "fetch" /\ row.end = today
      /\ row.next = First(kind) /\ row.start = First(kind)
      /\ row.fetched = NoRows /\ row.written = NoRows /\ row.began = push
  OBVIOUS
<1>5. \A d \in Day, r \in LaborRow : NoRows[d][r] = 0
  BY DEF NoRows
<1>u. UNCHANGED <<today, push, removed, stored, config, known, overtaken>>
  BY DEF Start
<1>f. p \notin Busy
  BY DEF Start, Free, Busy
<1> HIDE DEF row
<1>6. /\ sync' \in [Proc -> {NoSync} \cup SyncRow]
      /\ sync'[p] = row /\ \A q \in Busy : sync'[q] = sync[q]
      /\ Busy' = Busy \cup {p}
  BY <1>t, <1>2, <1>3, <1>f, SyncSet, NotIdle DEF Busy
<1>7. \A q \in Busy : Chunk(q)' = Chunk(q)
  BY <1>6 DEF Chunk, ChunkEnd
<1>8. LaborTypes'
  BY <1>t, <1>6, <1>u DEF LaborTypes
<1>9. InRange'
  BY <1>1, <1>4, <1>6 DEF LaborInv, InRange
<1>10. PushIsNewest'
  <2>1. \A d \in Day, r \in LaborRow : push[d][r] <= push[d][r]
    BY <1>t DEF LaborTypes, NatRows
  <2> QED  BY <1>4, <1>6, <1>u, <2>1 DEF LaborInv, PushIsNewest
<1>11. InHand'
  <2>1. ASSUME NEW q \in Busy', NEW d \in Day, NEW r \in LaborRow, sync'[q].fetched[d][r] > 0
        PROVE  sync'[q].pc = "upsert" /\ d \in Chunk(q)'
    BY <1>4, <1>5, <1>6, <1>7, <2>1 DEF LaborInv, InHand
  <2> QED  BY <2>1 DEF InHand
<1>12. Current'
  <2>1. ASSUME NEW d \in Day  PROVE ~(First(kind) <= d /\ d < First(kind))
    BY <1>1 DEF Day
  <2> SUFFICES ASSUME NEW q \in Busy', NEW d \in Day, NEW r \in LaborRow,
                      <<d, r>> \notin removed
               PROVE  /\ sync'[q].start <= d /\ d < sync'[q].next
                           => sync'[q].began[d][r] <= sync'[q].written[d][r]
                      /\ sync'[q].pc = "upsert" /\ d \in Chunk(q)'
                           => sync'[q].began[d][r] <= sync'[q].fetched[d][r]
    BY <1>u DEF Current
  <2>2. CASE q = p
    BY <1>4, <1>6, <2>1, <2>2
  <2>3. CASE q # p
    <3>1. q \in Busy /\ sync'[q] = sync[q] /\ Chunk(q)' = Chunk(q)
      BY <1>6, <1>7, <2>3
    <3> QED  BY <3>1 DEF LaborInv, Current
  <2> QED  BY <2>2, <2>3
<1>13. Waiting'
  <2>1. \A d \in Day, r \in LaborRow : NotOld(0, d, r)'
    BY DEF NotOld
  <2> SUFFICES ASSUME NEW q \in Busy', NEW d \in Day, NEW r \in LaborRow
               PROVE  NotOld(sync'[q].fetched[d][r], d, r) /\ NotOld(sync'[q].written[d][r], d, r)
    BY <1>u DEF Waiting, NotOld
  <2>2. CASE q = p
    BY <1>4, <1>5, <1>6, <1>u, <2>1, <2>2 DEF NotOld
  <2>3. CASE q # p
    BY <1>6, <2>3 DEF LaborInv, Waiting
  <2> QED  BY <2>2, <2>3
<1>14. Apart'
  BY <1>4, <1>5, <1>6 DEF LaborInv, Apart
<1>15. RowsAreKnown'
  BY <1>u DEF LaborInv, RowsAreKnown
<1> QED  BY <1>8, <1>9, <1>10, <1>11, <1>12, <1>13, <1>14, <1>15 DEF LaborInv

LEMMA FailStep ==
  ASSUME LaborInv, NEW p \in Proc, LoseSync(p)
  PROVE  LaborInv'
<1>t. LaborTypes
  BY DEF LaborInv
<1>u. UNCHANGED <<today, push, removed, stored, config, known, overtaken>>
  BY DEF LoseSync
<1>1. /\ sync' \in [Proc -> {NoSync} \cup SyncRow]
      /\ Busy' \subseteq Busy /\ \A q \in Busy' : sync'[q] = sync[q]
  <2>1. sync' = [sync EXCEPT ![p] = NoSync] /\ NoSync \in {NoSync} \cup SyncRow
    BY DEF LoseSync, End
  <2> QED  BY <1>t, <2>1, SyncSet DEF Busy
<1>2. \A q \in Busy' : Chunk(q)' = Chunk(q)
  BY <1>1 DEF Chunk, ChunkEnd
<1>3. LaborTypes'
  BY <1>t, <1>1, <1>u DEF LaborTypes
<1>4. InRange' /\ PushIsNewest' /\ Apart' /\ RowsAreKnown'
  BY <1>1, <1>u DEF LaborInv, InRange, PushIsNewest, Apart, RowsAreKnown
<1>5. InHand' /\ Current'
  BY <1>1, <1>2, <1>u DEF LaborInv, InHand, Current
<1>6. Waiting'
  BY <1>1, <1>u DEF LaborInv, Waiting, NotOld
<1> QED  BY <1>3, <1>4, <1>5, <1>6 DEF LaborInv

\* A step of a sync that goes on: what holds of the others stays, and it remains to
\* see to the sync itself.
LEMMA GoesOn ==
  ASSUME LaborInv, NEW p \in Busy, NEW row \in SyncRow, sync' = [sync EXCEPT ![p] = row],
         UNCHANGED <<today, push, removed, stored, config, known, overtaken>>,
         row.began = sync[p].began,
         IF row.pc = "commit" THEN row.next > row.end ELSE row.next <= row.end,
         \A d \in Day, r \in LaborRow :
           /\ row.fetched[d][r] > 0 => row.pc = "upsert" /\ d \in Chunk(p)'
           /\ <<d, r>> \notin removed =>
                /\ row.start <= d /\ d < row.next => row.began[d][r] <= row.written[d][r]
                /\ row.pc = "upsert" /\ d \in Chunk(p)' => row.began[d][r] <= row.fetched[d][r]
           /\ NotOld(row.fetched[d][r], d, r) /\ NotOld(row.written[d][r], d, r)
           /\ \A q \in Busy \ {p} : row.written[d][r] > 0 => ~(sync[q].written[d][r] > 0)
  PROVE  LaborInv'
<1>t. LaborTypes
  BY DEF LaborInv
<1>1. /\ sync' \in [Proc -> {NoSync} \cup SyncRow]
      /\ sync'[p] = row /\ \A q \in Busy \ {p} : sync'[q] = sync[q]
      /\ Busy' = Busy
  <2>1. p \in Proc /\ row # NoSync
    BY NotIdle DEF Busy
  <2>2. /\ sync' \in [Proc -> {NoSync} \cup SyncRow]
        /\ sync'[p] = row /\ \A q \in Proc \ {p} : sync'[q] = sync[q]
        /\ Busy' = IF row = NoSync THEN Busy \ {p} ELSE Busy \cup {p}
    BY <1>t, <2>1, SyncSet
  <2> QED  BY <2>1, <2>2 DEF Busy
<1>2. \A q \in Busy \ {p} : Chunk(q)' = Chunk(q)
  BY <1>1 DEF Chunk, ChunkEnd
<1>3. LaborTypes'
  BY <1>t, <1>1 DEF LaborTypes
<1>4. InRange'
  BY <1>1 DEF LaborInv, InRange
<1>5. PushIsNewest'
  BY <1>1 DEF LaborInv, PushIsNewest
<1>6. InHand'
  <2> SUFFICES ASSUME NEW q \in Busy, NEW d \in Day, NEW r \in LaborRow,
                      sync'[q].fetched[d][r] > 0
               PROVE  sync'[q].pc = "upsert" /\ d \in Chunk(q)'
    BY <1>1 DEF InHand
  <2>1. CASE q = p
    BY <1>1, <2>1
  <2>2. CASE q # p
    BY <1>1, <1>2, <2>2 DEF LaborInv, InHand
  <2> QED  BY <2>1, <2>2
<1>7. Current'
  <2> SUFFICES ASSUME NEW q \in Busy, NEW d \in Day, NEW r \in LaborRow, <<d, r>> \notin removed
               PROVE  /\ sync'[q].start <= d /\ d < sync'[q].next
                           => sync'[q].began[d][r] <= sync'[q].written[d][r]
                      /\ sync'[q].pc = "upsert" /\ d \in Chunk(q)'
                           => sync'[q].began[d][r] <= sync'[q].fetched[d][r]
    BY <1>1 DEF Current
  <2>1. CASE q = p
    BY <1>1, <2>1
  <2>2. CASE q # p
    <3>1. sync'[q] = sync[q] /\ Chunk(q)' = Chunk(q)
      BY <1>1, <1>2, <2>2
    <3> QED  BY <3>1 DEF LaborInv, Current
  <2> QED  BY <2>1, <2>2
<1>8. Waiting'
  <2> SUFFICES ASSUME NEW q \in Busy, NEW d \in Day, NEW r \in LaborRow
               PROVE  NotOld(sync'[q].fetched[d][r], d, r) /\ NotOld(sync'[q].written[d][r], d, r)
    BY <1>1 DEF Waiting, NotOld
  <2>1. CASE q = p
    BY <1>1, <2>1
  <2>2. CASE q # p
    BY <1>1, <2>2 DEF LaborInv, Waiting
  <2> QED  BY <2>1, <2>2
<1>9. Apart'
  <2> SUFFICES ASSUME NEW a \in Busy, NEW b \in Busy, NEW d \in Day, NEW r \in LaborRow, a # b,
                      sync'[a].written[d][r] > 0, sync'[b].written[d][r] > 0
               PROVE  FALSE
    BY <1>1 DEF Apart
  <2>1. CASE a = p
    BY <1>1, <2>1
  <2>2. CASE b = p
    BY <1>1, <2>2
  <2>3. CASE a # p /\ b # p
    BY <1>1, <2>3 DEF LaborInv, Apart
  <2> QED  BY <2>1, <2>2, <2>3
<1>10. RowsAreKnown'
  BY DEF LaborInv, RowsAreKnown
<1> QED  BY <1>3, <1>4, <1>5, <1>6, <1>7, <1>8, <1>9, <1>10 DEF LaborInv

LEMMA FetchStep ==
  ASSUME LaborInv, NEW p \in Proc, Fetch(p)
  PROVE  LaborInv'
<1>t. LaborTypes /\ p \in Busy
  BY DEF LaborInv, Fetch, Busy, NoSync
<1> DEFINE got == [d \in Day |-> [r \in LaborRow |->
                    IF d \in Chunk(p) /\ <<d, r>> \notin removed THEN push[d][r] ELSE 0]]
           row == [sync[p] EXCEPT !.pc = "upsert", !.fetched = got]
<1>u. /\ sync' = [sync EXCEPT ![p] = row]
      /\ UNCHANGED <<today, push, removed, stored, config, known, overtaken>>
  BY DEF Fetch
<1>1. sync[p] \in SyncRow /\ sync[p].pc = "fetch"
  BY <1>t, SyncOf DEF Fetch
<1>2. got \in NatRows
  <2>1. \A d \in Day, r \in LaborRow : push[d][r] \in Nat
    BY <1>t DEF LaborTypes, NatRows
  <2> QED  BY <2>1 DEF NatRows
<1>3. \A d \in Day, r \in LaborRow :
        got[d][r] = IF d \in Chunk(p) /\ <<d, r>> \notin removed THEN push[d][r] ELSE 0
  OBVIOUS
<1> HIDE DEF got
<1>4. /\ row \in SyncRow /\ row.pc = "upsert" /\ row.fetched = got /\ row.next = sync[p].next
      /\ row.start = sync[p].start /\ row.end = sync[p].end /\ row.written = sync[p].written
      /\ row.began = sync[p].began
  BY <1>1, <1>2 DEF SyncRow
<1> HIDE DEF row
<1>5. Chunk(p)' = Chunk(p)
  BY <1>u, <1>t, <1>4 DEF Chunk, ChunkEnd, LaborTypes, Busy
<1>6. row.next <= row.end
  BY <1>t, <1>1, <1>4 DEF LaborInv, InRange
<1>7. ASSUME NEW d \in Day, NEW r \in LaborRow
      PROVE  /\ row.fetched[d][r] > 0 => d \in Chunk(p)
             /\ <<d, r>> \notin removed /\ d \in Chunk(p)
                  => row.began[d][r] <= row.fetched[d][r]
             /\ NotOld(row.fetched[d][r], d, r)
  <2>1. push[d][r] \in Nat /\ known[d][r] <= push[d][r] /\ sync[p].began[d][r] <= push[d][r]
    BY <1>t DEF LaborInv, LaborTypes, NatRows, PushIsNewest
  <2> QED  BY <1>3, <1>4, <2>1 DEF NotOld
<1>8. ASSUME NEW d \in Day, NEW r \in LaborRow
      PROVE  /\ <<d, r>> \notin removed /\ row.start <= d /\ d < row.next
                  => row.began[d][r] <= row.written[d][r]
             /\ NotOld(row.written[d][r], d, r)
             /\ \A q \in Busy \ {p} : row.written[d][r] > 0 => ~(sync[q].written[d][r] > 0)
  BY <1>t, <1>4 DEF LaborInv, Current, Waiting, Apart
<1>9. \A d \in Day, r \in LaborRow :
           /\ row.fetched[d][r] > 0 => row.pc = "upsert" /\ d \in Chunk(p)'
           /\ <<d, r>> \notin removed =>
                /\ row.start <= d /\ d < row.next => row.began[d][r] <= row.written[d][r]
                /\ row.pc = "upsert" /\ d \in Chunk(p)' => row.began[d][r] <= row.fetched[d][r]
           /\ NotOld(row.fetched[d][r], d, r) /\ NotOld(row.written[d][r], d, r)
           /\ \A q \in Busy \ {p} : row.written[d][r] > 0 => ~(sync[q].written[d][r] > 0)
  BY <1>4, <1>5, <1>7, <1>8
<1> QED  BY <1>t, <1>u, <1>4, <1>6, <1>9, GoesOn

LEMMA UpsertStep ==
  ASSUME LaborInv, NEW p \in Proc, Upsert(p)
  PROVE  LaborInv'
<1>t. LaborTypes /\ p \in Busy
  <2>1. sync[p].pc = "upsert" /\ NoSync.pc = "idle"
    BY DEF Upsert, NoSync
  <2> QED  BY <2>1 DEF LaborInv, Busy
<1> DEFINE sum == [d \in Day |-> [r \in LaborRow |->
                     Max({sync[p].written[d][r], sync[p].fetched[d][r]})]]
           row == [sync[p] EXCEPT !.pc = IF ChunkEnd(p) < sync[p].end
                                         THEN "fetch" ELSE "commit",
                                  !.next = ChunkEnd(p) + 1, !.written = sum, !.fetched = NoRows]
<1>u. /\ sync' = [sync EXCEPT ![p] = row]
      /\ UNCHANGED <<today, push, removed, stored, config, known, overtaken>>
      /\ ~Waits(p)
  BY DEF Upsert
<1>1. sync[p] \in SyncRow /\ sync[p].pc = "upsert" /\ sync[p].next <= sync[p].end
  BY <1>t, SyncOf DEF Upsert, LaborInv, InRange
<1>2. /\ ChunkEnd(p) \in Day /\ ChunkEnd(p) <= sync[p].end /\ sync[p].next <= ChunkEnd(p)
      /\ ChunkEnd(p) + 1 \in 1..(LastDay + 1)
  BY <1>t, <1>1, Chunks
<1>3. \A d \in Day, r \in LaborRow :
        /\ sync[p].written[d][r] \in Nat /\ sync[p].fetched[d][r] \in Nat
        /\ sum[d][r] = IF sync[p].written[d][r] <= sync[p].fetched[d][r]
                       THEN sync[p].fetched[d][r] ELSE sync[p].written[d][r]
  <2> TAKE d \in Day, r \in LaborRow
  <2>1. sync[p].written[d][r] \in Nat /\ sync[p].fetched[d][r] \in Nat
    BY <1>1 DEF SyncRow, NatRows
  <2>2. sum[d][r] = Max({sync[p].written[d][r], sync[p].fetched[d][r]})
    OBVIOUS
  <2> HIDE DEF sum
  <2>3. Max({sync[p].written[d][r], sync[p].fetched[d][r]}) =
          IF sync[p].written[d][r] <= sync[p].fetched[d][r]
          THEN sync[p].fetched[d][r] ELSE sync[p].written[d][r]
    BY <2>1, MaxOf, Zenon
  <2> QED  BY <2>1, <2>2, <2>3
<1>4. sum \in NatRows
  BY <1>3 DEF NatRows
<1> HIDE DEF sum
<1>5. /\ row \in SyncRow /\ row.fetched = NoRows /\ row.next = ChunkEnd(p) + 1
      /\ row.pc = (IF ChunkEnd(p) < sync[p].end THEN "fetch" ELSE "commit")
      /\ row.start = sync[p].start /\ row.end = sync[p].end /\ row.written = sum
      /\ row.began = sync[p].began
  BY <1>1, <1>2, <1>4, Days DEF SyncRow
<1> HIDE DEF row
<1>6. IF row.pc = "commit" THEN row.next > row.end ELSE row.next <= row.end
  <2>1. ChunkEnd(p) \in Nat /\ sync[p].end \in Nat
    BY <1>1, <1>2, Days DEF SyncRow
  <2> QED  BY ONLY <1>2, <1>5, <2>1
<1>7. \A d \in Day, r \in LaborRow : NoRows[d][r] = 0
  BY DEF NoRows
<1>8. ASSUME NEW d \in Day, NEW r \in LaborRow
      PROVE  /\ ~(row.fetched[d][r] > 0) /\ row.pc # "upsert"
             /\ NotOld(row.fetched[d][r], d, r) /\ NotOld(row.written[d][r], d, r)
  <2>1. row.fetched[d][r] = 0 /\ row.written[d][r] = sum[d][r] /\ row.pc # "upsert"
    BY <1>5, <1>7
  <2>2. NotOld(sync[p].fetched[d][r], d, r) /\ NotOld(sync[p].written[d][r], d, r)
    BY <1>t DEF LaborInv, Waiting
  <2>3. sum[d][r] = sync[p].fetched[d][r] \/ sum[d][r] = sync[p].written[d][r]
    BY <1>3
  <2>4. NotOld(0, d, r)
    BY DEF NotOld
  <2> QED  BY <2>1, <2>2, <2>3, <2>4
<1>9. ASSUME NEW d \in Day, NEW r \in LaborRow, <<d, r>> \notin removed,
             row.start <= d, d < row.next
      PROVE  row.began[d][r] <= row.written[d][r]
  <2>1. /\ sync[p].start <= d /\ d < sync[p].next => sync[p].began[d][r] <= sync[p].written[d][r]
        /\ d \in Chunk(p) => sync[p].began[d][r] <= sync[p].fetched[d][r]
    BY <1>t, <1>1, <1>9 DEF LaborInv, Current
  <2>2. d < sync[p].next \/ d \in Chunk(p)
    <3>1. d \in Nat /\ sync[p].next \in Nat /\ ChunkEnd(p) \in Nat /\ d < ChunkEnd(p) + 1
      <4>1. d \in Nat /\ ChunkEnd(p) \in Nat
        BY <1>2, Days
      <4>2. sync[p].next \in Nat
        BY <1>1 DEF SyncRow
      <4> QED  BY <1>5, <1>9, <4>1, <4>2
    <3> QED  BY <3>1 DEF Chunk
  <2>3. sync[p].began[d][r] \in Nat
    BY <1>1 DEF SyncRow, NatRows
  <2> QED  BY <1>3, <1>5, <1>9, <2>1, <2>2, <2>3
<1>10. ASSUME NEW d \in Day, NEW r \in LaborRow, NEW q \in Busy \ {p}, row.written[d][r] > 0,
              sync[q].written[d][r] > 0
       PROVE  FALSE
  <2>1. CASE sync[p].written[d][r] > 0
    BY <1>t, <1>10, <2>1 DEF LaborInv, Apart
  <2>2. CASE ~(sync[p].written[d][r] > 0)
    <3>1. sync[p].fetched[d][r] > 0
      BY <1>3, <1>5, <1>10, <2>2
    <3>2. d \in Chunk(p)
      BY <1>t, <3>1 DEF LaborInv, InHand
    <3> QED  BY <1>u, <1>10, <3>1, <3>2 DEF Waits, Busy
  <2> QED  BY <2>1, <2>2
<1>11. \A d \in Day, r \in LaborRow :
           /\ row.fetched[d][r] > 0 => row.pc = "upsert" /\ d \in Chunk(p)'
           /\ <<d, r>> \notin removed =>
                /\ row.start <= d /\ d < row.next => row.began[d][r] <= row.written[d][r]
                /\ row.pc = "upsert" /\ d \in Chunk(p)' => row.began[d][r] <= row.fetched[d][r]
           /\ NotOld(row.fetched[d][r], d, r) /\ NotOld(row.written[d][r], d, r)
           /\ \A q \in Busy \ {p} : row.written[d][r] > 0 => ~(sync[q].written[d][r] > 0)
  BY <1>8, <1>9, <1>10
<1> QED  BY <1>t, <1>u, <1>5, <1>6, <1>11, GoesOn

\* A commit stores what is as new as what was known before, and when it began.
LEMMA CommitStep ==
  ASSUME LaborInv, NEW p \in Proc, Commit(p)
  PROVE  LaborInv'
<1>t. LaborTypes /\ p \in Busy
  <2>1. sync[p].pc = "commit" /\ NoSync.pc = "idle"
    BY DEF Commit, NoSync
  <2> QED  BY <2>1 DEF LaborInv, Busy
<1>1. sync[p] \in SyncRow /\ sync[p].pc = "commit" /\ sync[p].next > sync[p].end
  BY <1>t, SyncOf DEF Commit, LaborInv, InRange
<1>u. /\ sync' = [sync EXCEPT ![p] = NoSync] /\ NoSync \in {NoSync} \cup SyncRow
      /\ UNCHANGED <<today, push, removed>>
  BY DEF Commit, End
<1>2. /\ sync' \in [Proc -> {NoSync} \cup SyncRow]
      /\ Busy' = Busy \ {p} /\ \A q \in Busy' : sync'[q] = sync[q]
  BY <1>t, <1>u, SyncSet DEF Busy
<1>3. \A q \in Busy' : Chunk(q)' = Chunk(q)
  BY <1>2 DEF Chunk, ChunkEnd
<1>4. \A d \in Day, r \in LaborRow :
        /\ sync[p].written[d][r] \in Nat /\ sync[p].began[d][r] \in Nat
        /\ known[d][r] \in Nat /\ stored[d][r] \in Nat /\ push[d][r] \in Nat
  BY <1>t, <1>1 DEF SyncRow, LaborTypes, NatRows
<1>5. stored' \in NatRows /\ \A d \in Day, r \in LaborRow :
        stored'[d][r] = IF sync[p].written[d][r] > 0 THEN sync[p].written[d][r] ELSE stored[d][r]
  BY <1>4 DEF Commit, NatRows
<1> DEFINE InWindow(d, r) == d \in sync[p].start..sync[p].end /\ <<d, r>> \notin removed
           latest(d, r) == IF InWindow(d, r)
                           THEN IF known[d][r] <= sync[p].began[d][r]
                                THEN sync[p].began[d][r] ELSE known[d][r]
                           ELSE known[d][r]
<1>6. known' \in NatRows /\ \A d \in Day, r \in LaborRow : known'[d][r] = latest(d, r)
  <2>1. \A d \in Day, r \in LaborRow :
          Max({known[d][r], sync[p].began[d][r]}) =
            IF known[d][r] <= sync[p].began[d][r] THEN sync[p].began[d][r] ELSE known[d][r]
    BY <1>4, MaxOf, Zenon
  <2>2. \A d \in Day, r \in LaborRow : latest(d, r) \in Nat
    BY <1>4
  <2>3. known' = [d \in Day |-> [r \in LaborRow |-> latest(d, r)]]
    BY <2>1 DEF Commit
  <2> HIDE DEF latest
  <2> QED  BY <2>2, <2>3 DEF NatRows
<1>7. overtaken \subseteq overtaken' /\ overtaken' \subseteq Day \X LaborRow
  <2>1. sync[p].start..sync[p].end \subseteq Day
    BY <1>1 DEF SyncRow, Day
  <2> QED  BY <1>t, <2>1 DEF Commit, LaborTypes
<1>8. \A d \in Day, r \in LaborRow, q \in Busy :
        q # p /\ d \in sync[p].start..sync[p].end
              /\ 0 < sync[q].fetched[d][r] /\ sync[q].fetched[d][r] < sync[p].written[d][r]
          => <<d, r>> \in overtaken'
  BY DEF Commit, Overtakes, Busy
\* Of its days, the sync has written what is as new as when it began.
<1>9. ASSUME NEW d \in Day, NEW r \in LaborRow, InWindow(d, r)
      PROVE  sync[p].began[d][r] <= sync[p].written[d][r]
  <2>1. sync[p].start <= d /\ d < sync[p].next
    BY <1>1, <1>9, Days DEF SyncRow
  <2> QED  BY <1>t, <1>9, <2>1 DEF LaborInv, Current
<1>10. LaborTypes'
  <2>1. config' \in [active : BOOLEAN, complete : BOOLEAN]
    BY <1>t, <1>1 DEF Commit, LaborTypes, SyncRow
  <2> QED  BY <1>t, <1>u, <1>2, <1>5, <1>6, <1>7, <2>1 DEF LaborTypes
<1>11. InRange' /\ InHand' /\ Apart'
  <2>1. InRange'
    BY <1>2 DEF LaborInv, InRange
  <2>2. InHand'
    BY <1>2, <1>3 DEF LaborInv, InHand
  <2>3. Apart'
    BY <1>2 DEF LaborInv, Apart
  <2> QED  BY <2>1, <2>2, <2>3
<1>12. Current'
  BY <1>2, <1>3, <1>u DEF LaborInv, Current
<1>13. PushIsNewest'
  <2>1. ASSUME NEW d \in Day, NEW r \in LaborRow  PROVE known'[d][r] <= push[d][r]
    BY <1>t, <1>4, <1>6 DEF LaborInv, PushIsNewest
  <2> QED  BY <1>2, <1>u, <2>1 DEF LaborInv, PushIsNewest
<1>14. Waiting'
  <2> SUFFICES ASSUME NEW q \in Busy', NEW d \in Day, NEW r \in LaborRow
               PROVE  /\ sync[q].fetched[d][r] > 0 =>
                           sync[q].fetched[d][r] >= known'[d][r] \/ <<d, r>> \in overtaken'
                      /\ sync[q].written[d][r] > 0 =>
                           sync[q].written[d][r] >= known'[d][r] \/ <<d, r>> \in overtaken'
    BY <1>2 DEF Waiting, NotOld
  <2>1. q \in Busy /\ q # p
    BY <1>2
  <2>2. sync[q].fetched[d][r] \in Nat /\ sync[q].written[d][r] \in Nat
    BY <1>t, <2>1, SyncOf DEF SyncRow, NatRows
  <2>3. NotOld(sync[q].fetched[d][r], d, r) /\ NotOld(sync[q].written[d][r], d, r)
    BY <2>1 DEF LaborInv, Waiting
  <2>4. CASE known'[d][r] = known[d][r]
    BY <1>7, <2>3, <2>4 DEF NotOld
  <2>5. CASE known'[d][r] # known[d][r]
    <3>1. /\ InWindow(d, r) /\ known'[d][r] = sync[p].began[d][r]
          /\ sync[p].began[d][r] > known[d][r]
      BY <1>4, <1>6, <2>5
    <3>2. sync[p].began[d][r] <= sync[p].written[d][r]
      BY <1>9, <3>1
    <3>3. sync[p].written[d][r] > 0
      BY <1>4, <3>1, <3>2
    <3>4. ~(sync[q].written[d][r] > 0)
      BY <1>t, <2>1, <3>3 DEF LaborInv, Apart
    <3>5. sync[q].fetched[d][r] > 0 /\ sync[q].fetched[d][r] < known'[d][r]
            => <<d, r>> \in overtaken'
      BY <1>4, <1>8, <2>1, <2>2, <3>1, <3>2
    <3> QED  BY <1>4, <2>2, <3>1, <3>4, <3>5
  <2> QED  BY <2>4, <2>5
<1>15. RowsAreKnown'
  <2> SUFFICES ASSUME NEW d \in Day, NEW r \in LaborRow
               PROVE  <<d, r>> \in overtaken' \/ stored'[d][r] >= known'[d][r]
    BY DEF RowsAreKnown
  <2>1. <<d, r>> \in overtaken \/ stored[d][r] >= known[d][r]
    BY DEF LaborInv, RowsAreKnown
  <2>2. NotOld(sync[p].written[d][r], d, r)
    BY <1>t DEF LaborInv, Waiting
  <2>3. <<d, r>> \in overtaken \/ stored'[d][r] >= known[d][r]
    BY <1>5, <2>1, <2>2 DEF NotOld
  <2>4. CASE InWindow(d, r)
    <3>1. sync[p].began[d][r] <= sync[p].written[d][r]
      BY <1>9, <2>4
    <3>2. stored'[d][r] >= sync[p].began[d][r]
      BY <1>4, <1>5, <3>1
    <3> QED  BY <1>4, <1>6, <1>7, <2>3, <3>2
  <2>5. CASE ~InWindow(d, r)
    BY <1>6, <1>7, <2>3, <2>5
  <2> QED  BY <2>4, <2>5
<1> QED  BY <1>10, <1>11, <1>12, <1>13, <1>14, <1>15 DEF LaborInv

-----------------------------------------------------------------------------
LEMMA NextKeeps ==
  LaborInv /\ [LaborNext]_laborVars => LaborInv'
<1> SUFFICES ASSUME LaborInv, [LaborNext]_laborVars PROVE LaborInv'
  OBVIOUS
<1>1. ASSUME NEW p \in Proc, Step(p) PROVE LaborInv'
  BY <1>1, FetchStep, UpsertStep, CommitStep DEF Step
<1>2. ASSUME NEW p \in Proc, LoseSync(p) PROVE LaborInv'
  BY <1>2, FailStep
<1>3. ASSUME NEW p \in Proc, NEW kind \in SyncKind, Start(p, kind) PROVE LaborInv'
  BY <1>3, StartStep
<1>4. CASE \/ Midnight \/ SwitchAccount \/ UNCHANGED laborVars
           \/ \E d \in Day, r \in LaborRow : Edit(d, r) \/ RemoveRow(d, r)
  BY <1>4, OutsideSteps
<1> QED  BY <1>1, <1>2, <1>3, <1>4 DEF LaborNext

LEMMA LaborInvHolds ==
  LaborSpec => []LaborInv
BY LaborStarts, NextKeeps, PTL DEF LaborSpec

\* upsert_shift: however syncs of one account overlap, fail and lose their process, a row
\* is here as new as it was at Push when the last sync of its day to commit began, unless
\* a slower sync overwrote it.
THEOREM KnownRows ==
  LaborSpec => []RowsAreKnown
<1>1. LaborInv => RowsAreKnown
  BY DEF LaborInv
<1> QED  BY LaborInvHolds, <1>1, PTL

\* upsert_shift is one statement, and the locks it takes are held to the commit: no two
\* syncs have both written a row that is not committed.
THEOREM OneWriter ==
  LaborSpec => []Apart
<1>1. LaborInv => Apart
  BY DEF LaborInv
<1> QED  BY LaborInvHolds, <1>1, PTL

===============================================================================
