------------------------- MODULE MCDocumentPipeline -------------------------
(***************************************************************************)
(* Small instances of DocumentPipeline for TLC.  Ids are numbers, given    *)
(* out in order.  Idle is a stuttering step where the system has nothing   *)
(* left to do, or the instance has no id left to give out: a deadlock TLC  *)
(* reports is a wait that nothing ends.                                    *)
(***************************************************************************)
EXTENDS DocumentPipeline, TLC

CONSTANTS d1, d2, d3

\* d1 and d2 are the same file, d3 is of a type that books no expense
MCSamePair == {<<d1, d2>>, <<d2, d1>>}
MCNone     == {}
MCOne      == {d3}

OutOfIds ==
  \/ \A e \in Exp : exps[e].row # "none"
  \/ \A t \in Task : tasks[t].pc # "free"

Idle ==
  /\ \/ OutOfIds
     \/ /\ \A r \in Req : reqs[r].pc = "idle"
        /\ \A t \in Task : tasks[t].pc \in {"free", "acked", "aborted"}
  /\ UNCHANGED vars

MCSpec     == Init /\ [][Next \/ Idle]_vars
MCFairSpec == MCSpec /\ Fairness

\* Rows and messages get the least id that is unused, a request the least idle handler
InOrder ==
  /\ \A e \in Exp : exps'[e].row # "none" => \A f \in 1..(e - 1) : exps'[f].row # "none"
  /\ \A t \in Task : tasks'[t].pc # "free" => \A u \in 1..(t - 1) : tasks'[u].pc # "free"
  /\ \A r \in Req : reqs[r].pc = "idle" /\ reqs'[r].pc # "idle" =>
       \A q \in 1..(r - 1) : reqs[q].pc # "idle"

Seen == {d \in Doc : docs'[d].status # "none" \/ \E r \in Req : d \in reqs'[r].targets}

\* One complication at a time: a second document, uploaded by two requests at once, which may
\* die; a worker that is lost; or what users do to the rows of one message
OneThing ==
  LET two    == Cardinality(Seen) > 1
      lost   == losses' > 0
      edited == removed' # {} \/ \E e \in Exp : exps'[e].manual \/ exps'[e].overridden
      open   == {r \in Req : reqs'[r].pc # "idle"}
      ends(pcs) == \E r \in Req : reqs'[r].pc \in pcs IN
  /\ Seen = {} \/ d1 \in Seen
  /\ ~(two /\ lost) /\ ~(two /\ edited) /\ ~(lost /\ edited)
  /\ IF two
     THEN /\ Cardinality(Seen) = 2
          /\ ~ends({"reprocess_commit", "delete_commit", "delete_all_commit"})
          /\ \A t \in Task : ~OcrFail(t)
     ELSE Cardinality(open) <= 1 /\ \A r \in Req : ~ApiCrash(r)
  /\ IF edited
     THEN /\ \A t \in Task : t > 1 => tasks'[t].pc = "free"
          /\ \A t \in Task : ~OcrFail(t)
          /\ ~ends({"delete_commit"})
     ELSE ~ends({"delete_all_commit"})
=============================================================================
