--------------------------- MODULE MCProfitAndLoss ---------------------------
(***************************************************************************)
(* A small instance of ProfitAndLoss for TLC.  In the first month: an      *)
(* invoice of a food vendor, one of the franchisor, a statement and a      *)
(* batch that list it with another, one of royalties for music; in the     *)
(* second, one of royalties for a jingle.  The statement of the second     *)
(* month has the debits of all of them, another for the jingle that has    *)
(* no invoice, rent, wages, cash for staff, interest and something         *)
(* personal.                                                               *)
(***************************************************************************)
EXTENDS ProfitAndLoss

MCRow == {"food", "week", "weekly", "batch", "song", "jingle",
          "foodpaid", "weekpaid", "songpaid", "jinglepaid", "jinglemore",
          "rent", "wages", "cash", "loan", "own"}

MCPaper == {"food", "week", "weekly", "batch", "song", "jingle"}
MCForm  == [e \in MCRow |-> IF e \in MCPaper THEN "paper" ELSE "bank"]
MCDocOf == [e \in MCRow |-> IF e \in MCPaper THEN e ELSE "bank"]
MCDoc   == MCPaper \cup {"bank"}
MCMonthOf == [e \in MCRow |-> IF e \in MCPaper \ {"jingle"} THEN 1 ELSE 2]

MCWords == [e \in MCRow |->
  CASE e \in {"food", "foodpaid"} -> {"alex", "food"}
    [] e \in {"week", "weekly", "batch"}    -> {"tahinis", "franchising"}
    [] e = "weekpaid" -> {"tahinis"}
    [] e = "song"     -> {"music", "rights"}
    [] e = "jingle"   -> {"jingle", "rights"}
    [] e \in {"jinglepaid", "jinglemore"} -> {"jingle"}
    [] OTHER          -> {e}]
MCListed == [e \in MCRow |->
  CASE e = "week" -> {"w1"} [] e = "weekly" -> {"w1", "w2"} [] OTHER -> {}]

MCCategory == [e \in MCRow |->
  CASE e \in {"food", "foodpaid"} -> "food"
    [] e \in {"wages", "cash"} -> "payroll"
    [] e = "rent" -> "rent"
    [] e = "loan" -> "services"
    [] e = "own"  -> "personal"
    [] OTHER      -> "royalty"]
MCAmount == [e \in MCRow |->
  CASE e \in {"food", "foodpaid"} -> 10
    [] e \in {"jingle", "jinglepaid"} -> 7 [] e = "jinglemore" -> 8
    [] e \in {"week", "weekpaid"} -> 5 [] e = "weekly" -> 9 [] e = "batch" -> 11
    [] e \in {"song", "songpaid"} -> 3 [] e = "wages" -> 20 [] OTHER -> 2]
MCTax == [e \in MCRow |-> IF e \in {"week", "weekly", "batch", "song"} THEN 1 ELSE 0]

MCPushTotal == <<18, 19>>
MCRevenue   == <<50, 60>>

MCAccountOf == [e \in MCRow |->
  CASE e \in {"food", "foodpaid"} -> "alex"
    [] e \in {"week", "weekly", "batch", "weekpaid"} -> "franchisor"
    [] e \in {"song", "songpaid"} -> "music"
    [] e \in {"jingle", "jinglepaid", "jinglemore"} -> "jingle"
    [] OTHER -> "house"]
MCCharges == [e \in MCRow |->
  CASE e \in {"food", "foodpaid"} -> {"food"}
    [] e \in {"week", "weekpaid"}  -> {"w1"}
    [] e = "weekly" -> {"w1", "w2"} [] e = "batch" -> {"w1", "w2", "w3"}
    [] e \in {"song", "songpaid"} -> {"song"}
    [] e \in {"jingle", "jinglepaid"} -> {"jingle"}
    [] OTHER -> {e}]

ASSUME RecordsMatch == Matchable

\* One account of each shape that the rules can tell, and one that they cannot
ASSUME AccountsTold ==
  {"alex", "franchisor", "music", "house"} \subseteq Account /\ "jingle" \notin Account

Quiet == (\A r \in Calc : calc[r].pc = "idle") /\ UNCHANGED vars

MCSpec == Init /\ [][Next \/ Quiet]_vars
=============================================================================
