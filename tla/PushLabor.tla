------------------------------ MODULE PushLabor ------------------------------
(***************************************************************************)
(* The labor of PushOperations, kept up to date.  Push has one row for an  *)
(* employee, a position and a day, and managers correct rows days later.   *)
(* A sync fetches a range of days, a chunk of them at a time, inserts each *)
(* row or updates the one with its key, and commits once, at its end.      *)
(* Every day, and whenever a manager asks, a sync covers the last days;    *)
(* every quarter of an hour one covers today; an import covers everything. *)
(* Nothing keeps syncs apart but the locks of the rows they write.         *)
(***************************************************************************)
EXTENDS Naturals, FiniteSetsExt

CONSTANTS
  Proc,        \* processes: workers and request handlers
  LastDay,     \* days are 1 .. LastDay, the first the one imports begin with
  LaborRow,    \* the rows of a day: an employee in a position
  MaxEdits,    \* how often a row is written at Push
  Lookback,    \* days before today that the daily sync covers
  ChunkDays,   \* days of a request to Push
  MaxOccurred  \* how much happens beside the syncs of the schedule: see Occurs

ASSUME LaborAssumption ==
  /\ LastDay \in Nat \ {0} /\ MaxEdits \in Nat /\ Lookback \in Nat /\ ChunkDays \in Nat \ {0}
  /\ MaxOccurred \in Nat

VARIABLES
  today,
  push,      \* the version of each row of each day at Push, 0 where there is none
  removed,   \* rows that were deleted at Push
  stored,    \* the version of each row here, 0 where there is none
  config,    \* the account: whether it is active, and whether everything is imported
  sync,      \* what each process does
  occurred,
  known,     \* history: versions at Push when the last sync of the day to commit began
  overtaken  \* history: rows committed between another sync's older fetch and its commit

laborVars == <<today, push, removed, stored, config, sync, occurred, known, overtaken>>

Day     == 1..LastDay
Version == 0..MaxEdits
Rows    == [Day -> [LaborRow -> Version]]
NoRows  == [d \in Day |-> [r \in LaborRow |-> 0]]

SyncKind == {"realtime", "incremental", "manual", "historical"}

NoSync == [pc |-> "idle"]

\* What happens beside the syncs of the schedule, MaxEvents times
Occurs == occurred < MaxOccurred /\ occurred' = occurred + 1

LaborTypeOK ==
  /\ today \in Day /\ push \in Rows /\ removed \subseteq Day \X LaborRow /\ stored \in Rows
  /\ config \in [active : BOOLEAN, complete : BOOLEAN]
  /\ \A p \in Proc :
       \/ sync[p] = NoSync
       \/ /\ sync[p].pc \in {"fetch", "upsert", "commit"} /\ sync[p].historical \in BOOLEAN
          /\ sync[p].next \in 1..(LastDay + 1) /\ sync[p].end \in Day
          /\ sync[p].fetched \in Rows /\ sync[p].written \in Rows
  /\ known \in Rows

LaborInit ==
  /\ today = 1 /\ push = NoRows /\ removed = {} /\ stored = NoRows
  /\ config = [active |-> TRUE, complete |-> FALSE]
  /\ sync = [p \in Proc |-> NoSync]
  /\ occurred = 0
  /\ known = NoRows /\ overtaken = {}

-----------------------------------------------------------------------------
(* Push, and the account *)

Midnight ==
  /\ today < LastDay
  /\ today' = today + 1
  /\ UNCHANGED <<push, removed, stored, config, sync, occurred, known, overtaken>>

Written == MapThenSumSet(LAMBDA x : push[x[1]][x[2]], Day \X LaborRow)

\* A shift ends, or a manager corrects one
Edit(d, r) ==
  /\ d <= today /\ Written < MaxEdits /\ <<d, r>> \notin removed
  /\ push' = [push EXCEPT ![d][r] = @ + 1]
  /\ UNCHANGED <<today, removed, stored, config, sync, occurred, known, overtaken>>

RemoveRow(d, r) ==
  /\ Occurs
  /\ push[d][r] > 0 /\ <<d, r>> \notin removed
  /\ removed' = removed \cup {<<d, r>>}
  /\ UNCHANGED <<today, push, stored, config, sync, known, overtaken>>

\* An operator switches the account off, or on again
SwitchAccount ==
  /\ IF config.active THEN Occurs ELSE UNCHANGED occurred
  /\ config' = [config EXCEPT !.active = ~@]
  /\ UNCHANGED <<today, push, removed, stored, sync, known, overtaken>>

-----------------------------------------------------------------------------
(* Syncs *)

\* mutant: the window is one day short
FirstLate(kind) ==
  CASE kind = "realtime"   -> today
    [] kind = "historical" -> 1
    [] OTHER               -> IF today > Lookback THEN today - Lookback + 1 ELSE 1

\* The first day that a sync covers, up to today
First(kind) ==
  CASE kind = "realtime"   -> today
    [] kind = "historical" -> 1
    [] OTHER               -> IF today > Lookback THEN today - Lookback ELSE 1

\* A sync, its range fixed when it begins
Begin(p, kind) ==
  sync' = [sync EXCEPT ![p] = [pc |-> "fetch", historical |-> kind = "historical",
             start |-> First(kind), next |-> First(kind), end |-> today, fetched |-> NoRows,
             written |-> NoRows, began |-> push]]

\* Processes are alike: the first idle one
Free(p) == sync[p] = NoSync /\ p = CHOOSE q \in Proc : sync[q] = NoSync

\* A worker takes a message of the schedule, an operator asks for an import, or a
\* manager for a sync, which the request handler runs itself.  Messages of the schedule
\* come again and again, so that one delivered twice, late or while another sync runs
\* is nothing new.
Start(p, kind) ==
  /\ Free(p) /\ config.active
  /\ IF kind \in {"realtime", "incremental"} THEN UNCHANGED occurred ELSE Occurs
  /\ Begin(p, kind)
  /\ UNCHANGED <<today, push, removed, stored, config, known, overtaken>>

ChunkEnd(p) == Min({sync[p].next + ChunkDays - 1, sync[p].end})
Chunk(p)    == sync[p].next..ChunkEnd(p)

\* The rows that Push has of the chunk
Fetch(p) ==
  /\ sync[p].pc = "fetch"
  /\ sync' = [sync EXCEPT ![p].pc = "upsert", ![p].fetched = [d \in Day |-> [r \in LaborRow |->
          IF d \in Chunk(p) /\ <<d, r>> \notin removed THEN push[d][r] ELSE 0]]]
  /\ UNCHANGED <<today, push, removed, stored, config, occurred, known, overtaken>>

\* A row that another sync has written waits for that one's end
Waits(p) ==
  \E q \in Proc \ {p} : sync[q] # NoSync /\
    \E d \in Chunk(p), r \in LaborRow : sync[p].fetched[d][r] > 0 /\ sync[q].written[d][r] > 0

\* mutant: the next chunk begins one day too late
UpsertSkips(p) ==
  /\ sync[p].pc = "upsert" /\ ~Waits(p)
  /\ sync' = [sync EXCEPT ![p].pc = IF ChunkEnd(p) + 1 < sync[p].end THEN "fetch" ELSE "commit",
                          ![p].next = Min({ChunkEnd(p) + 2, LastDay + 1}),
                          ![p].written = [d \in Day |-> [r \in LaborRow |->
                             Max({@[d][r], sync[p].fetched[d][r]})]],
                          ![p].fetched = NoRows]
  /\ UNCHANGED <<today, push, removed, stored, config, occurred, known, overtaken>>

\* The rows are inserted, or update those of their keys, all in one statement; none
\* is ever deleted.
Upsert(p) ==
  /\ sync[p].pc = "upsert" /\ ~Waits(p)
  /\ sync' = [sync EXCEPT ![p].pc = IF ChunkEnd(p) < sync[p].end THEN "fetch" ELSE "commit",
                          ![p].next = ChunkEnd(p) + 1,
                          ![p].written = [d \in Day |-> [r \in LaborRow |->
                             Max({@[d][r], sync[p].fetched[d][r]})]],
                          ![p].fetched = NoRows]
  /\ UNCHANGED <<today, push, removed, stored, config, occurred, known, overtaken>>

End(p) == sync' = [sync EXCEPT ![p] = NoSync]

\* Sync q has fetched the row before p commits it, and has yet to write it
Overtakes(p, q, d, r) ==
  sync[q] # NoSync /\ 0 < sync[q].fetched[d][r] /\ sync[q].fetched[d][r] < sync[p].written[d][r]

\* Everything is committed at once; the rows are there until a sync updates them
Commit(p) ==
  LET range == sync[p].start..sync[p].end IN
  /\ sync[p].pc = "commit"
  /\ stored' = [d \in Day |-> [r \in LaborRow |->
       IF sync[p].written[d][r] > 0 THEN sync[p].written[d][r] ELSE stored[d][r]]]
  /\ config' = [config EXCEPT !.complete = @ \/ sync[p].historical]
  /\ End(p)
  /\ known' = [d \in Day |-> [r \in LaborRow |->
       IF d \in range /\ <<d, r>> \notin removed
         THEN Max({known[d][r], sync[p].began[d][r]}) ELSE known[d][r]]]
  /\ overtaken' = overtaken \cup
       {x \in range \X LaborRow : \E q \in Proc \ {p} : Overtakes(p, q, x[1], x[2])}
  /\ UNCHANGED <<today, push, removed, occurred>>

\* Push refuses a request, the database a statement, or the process is lost: nothing is
\* committed, not even the job that says so, and nothing is retried
LoseSync(p) ==
  /\ Occurs
  /\ sync[p] # NoSync
  /\ End(p)
  /\ UNCHANGED <<today, push, removed, stored, config, known, overtaken>>

-----------------------------------------------------------------------------
Step(p) == Fetch(p) \/ Upsert(p) \/ Commit(p)

LaborNext ==
  \/ Midnight \/ SwitchAccount
  \/ \E d \in Day, r \in LaborRow : Edit(d, r) \/ RemoveRow(d, r)
  \/ \E p \in Proc :
       \/ Step(p) \/ LoseSync(p)
       \/ \E kind \in SyncKind : Start(p, kind)

\* The beat never stops, and neither do the processes: what others start does not keep
\* the daily sync from its turn for ever
Fairness ==
  /\ \A p \in Proc : WF_laborVars(Step(p))
  /\ SF_laborVars(\E p \in Proc : Start(p, "incremental"))

LaborSpec == LaborInit /\ [][LaborNext]_laborVars /\ Fairness

-----------------------------------------------------------------------------
\* A row is here as new as it was when the last sync of its day to commit began,
\* however syncs overlap, fail and lose their process in the middle of their chunks,
\* but for those that a slow sync overwrote with what it had fetched before a quick one.
RowsAreKnown ==
  \A d \in Day, r \in LaborRow :
    <<d, r>> \in overtaken \/ stored[d][r] >= known[d][r]

\* A correction made at Push while its day is among those of the daily sync gets here.
LaborArrives ==
  \A d \in Day, r \in LaborRow, v \in 1..MaxEdits :
    push[d][r] = v ~> \/ stored[d][r] >= v \/ <<d, r>> \in removed
                      \/ ~config.active \/ d + Lookback < today
=============================================================================
