--------------------------- MODULE MCCategorization ---------------------------
(***************************************************************************)
(* Small instances of Categorization for TLC: "Food" is a category a       *)
(* keyword can match, "Draw" a manual-only one, "junk" an answer that is   *)
(* no category.  Messages and requests are numbers, the least idle one is  *)
(* used.  OutOfIds is a stuttering step where the system is idle or the    *)
(* instance has no id left to give out.                                    *)
(***************************************************************************)
EXTENDS Categorization, TLC

CONSTANTS a, b

MCCategory == {"Food", "Misc", "Draw"}
MCNonPnl   == {"Draw"}
MCNone     == [e \in Exp |-> NoCat]
MCKeyword  == (a :> "Food") @@ [e \in Exp |-> NoCat]
MCListed   == {"Food", "junk"}

OutOfIds ==
  /\ \/ \A e \in Exp : exps[e].row # "none"
     \/ \A m \in Msg : msgs[m].pc # "free"
  /\ UNCHANGED vars

MCSpec     == Init /\ [][Next \/ OutOfIds]_vars
MCFairSpec == MCSpec /\ Fairness

InOrder ==
  /\ \A m \in Msg : msgs[m].pc = "free" /\ msgs'[m].pc # "free" =>
       \A n \in 1..(m - 1) : msgs[n].pc # "free"
  /\ \A r \in Req : reqs[r].pc = "idle" /\ reqs'[r].pc # "idle" =>
       \A q \in 1..(r - 1) : reqs[q].pc # "idle"

\* One expense, with a keyword or without: the runs for two have nothing in common
OneExpense == \A e, f \in Exp : exps'[e].row # "none" /\ exps'[f].row # "none" => e = f

\* Two requests at once where nothing has failed and one message is under way
FewAtOnce ==
  (\A r \in Req : reqs'[r].pc # "idle") => faults' = 0 /\ \A m \in Msg : m > 1 => msgs'[m].pc = "free"
=============================================================================
