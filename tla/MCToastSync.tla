----------------------------- MODULE MCToastSync -----------------------------
(***************************************************************************)
(* A small instance of ToastSync for TLC.  A window and a chunk are a tick *)
(* long, so that a sync walks through several of them.  Ids are numbers,   *)
(* the least unused one is taken.  OutOfIds is a stuttering step where the *)
(* instance has no job or message left to give.                            *)
(***************************************************************************)
EXTENDS ToastSync, TLC

OutOfIds ==
  /\ (\A j \in Job : ~Unused(j)) \/ (\A m \in Msg : msgs[m].pc # "free")
  /\ UNCHANGED vars

MCSpec     == Init /\ [][Next \/ OutOfIds]_vars
MCFairSpec == MCSpec /\ Fairness

InOrder ==
  /\ \A m \in Msg : msgs[m].pc = "free" /\ msgs'[m].pc # "free" =>
       \A n \in 1..(m - 1) : msgs[n].pc # "free"
  /\ \A j \in Job : Unused(j) /\ ~Unused(j)' => \A i \in 1..(j - 1) : ~Unused(i)

\* An import, a fault and what people do come with few other things at a time.  Two
\* tasks run at once while a chunk of the first import waits to be stored, so that a
\* slow run and a quick one meet.
FewAtOnce ==
  LET importing == \/ \E m \in Msg : msgs'[m].job # NoJob /\ jobs'[msgs'[m].job].type = "historical"
                   \/ \E r \in Req : reqs'[r].pc # "idle"
      aged      == \E j \in Job : jobs'[j].old /\ jobs'[j].status \in Active
      left      == config'.connected /\ ~config'.active
      fault     == faults' > 0
      idle      == \A d \in Disp : disps'[d].pc = "idle"
      busy      == Cardinality({m \in Msg : msgs'[m].pc # "free"})
      running   == {m \in Msg : msgs'[m].pc \in RunPc}
      first     == ~config'.complete /\ ~fault /\ ~left
      early     == /\ first /\ idle /\ busy <= 1 /\ now' = Today
                   /\ \A m \in running : msgs'[m].pc \in {"config", "fetch", "store"}
      racing    == /\ first /\ now' = Today + 1 /\ \A r \in Req : reqs'[r].pc = "idle"
                   /\ \E m \in running : msgs'[m].pc = "store" /\ jobs'[msgs'[m].job].type = "historical"
  IN
  /\ ~(importing /\ aged) /\ ~(left /\ aged) /\ ~(left /\ fault)
  /\ importing /\ (fault \/ left) => idle /\ \A m \in Msg : msgs'[m].job \in {NoJob, 1}
  /\ busy <= IF importing THEN 2 ELSE 1
  /\ importing /\ busy = 2 => idle
  /\ now' > now => ~fault
  /\ importing => IF Cardinality(running) = 2 THEN racing ELSE early \/ now' = Today + 1

=============================================================================
