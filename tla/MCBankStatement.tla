--------------------------- MODULE MCBankStatement ----------------------------
(***************************************************************************)
(* Small instances of BankStatement for TLC: a CSV and a PDF of the same   *)
(* month, with the lines of a vehicle and of the rent, an unknown one and  *)
(* a transfer, and two deposits, one of them from a delivery platform.     *)
(* OutOfIds is a stuttering step where no delivery is left to give out.    *)
(***************************************************************************)
EXTENDS BankStatement, TLC

CONSTANTS a, b

MCCharge    == [l \in {"car", "shop", "trsf", "rent"} |-> l]
MCLinesOf   == [d \in Doc |-> IF d = a THEN {"car", "shop", "trsf", "rent"} ELSE {"shop", "trsf"}]
MCDay       == [i \in {"uber", "loan"} |-> 1]
MCInflowsOf == [d \in Doc |-> IF d = a THEN {"uber", "loan"} ELSE {"uber"}]

OutOfIds ==
  /\ \/ \A r \in Run : runs[r].pc # "free"
     \/ \A d \in Doc : docs[d].status # "none"
  /\ UNCHANGED vars

MCSpec == Init /\ [][Next \/ OutOfIds]_vars

Symmetry == Permutations(Run) \cup Permutations(Req)
=============================================================================
