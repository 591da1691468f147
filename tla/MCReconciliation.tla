--------------------------- MODULE MCReconciliation ---------------------------
(***************************************************************************)
(* A small instance of Reconciliation for TLC: a PDF statement that draws  *)
(* a charge of the franchisor twice, its invoice with HST, the CSV of a    *)
(* card that paid an invoice of food, and a payroll.  Which of the         *)
(* statements and of the invoices are in the books when a run is triggered *)
(* is not fixed.                                                           *)
(* Quiet is a stuttering step where no run is under way.                   *)
(***************************************************************************)
EXTENDS Reconciliation

MCKind   == [line |-> "line", twin |-> "line", card |-> "line", bill |-> "royalty", food |-> "invoice",
             pay |-> "payroll"]
MCDocOf  == [line |-> "jan", twin |-> "jan", card |-> "feb", bill |-> "bill", food |-> "food", pay |-> "push"]
MCVendor == [line |-> "tahinis", twin |-> "tahinis", card |-> "alex", bill |-> "franchising",
             food |-> "alex", pay |-> "push"]
MCAmount == [line |-> 1, twin |-> 1, card |-> 2, bill |-> 1, food |-> 2, pay |-> 3]
MCDayOf  == [line |-> "mon", twin |-> "mon", card |-> "tue", bill |-> "tue", food |-> "tue", pay |-> "tue"]

Quiet == (\A r \in Run : runs[r].pc = "idle") /\ UNCHANGED vars

MCInit == Init /\ exps["pay"] = "live" /\ exps["twin"] = exps["line"]
MCSpec == MCInit /\ [][Next \/ Quiet]_vars /\ Fairness
=============================================================================
