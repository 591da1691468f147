---------------------------- MODULE GoogleProofs ----------------------------
(***************************************************************************)
(* Proofs about AdCampaigns for any days, windows, platforms,              *)
(* recommendations and processes; and, below them, about Reviews.          *)
(***************************************************************************)
EXTENDS AdCampaigns, Reviews, WellFoundedInduction, TLAPS

SyncRow == [pc : {"campaigns", "metrics", "synced"}, account : Nat, start : Day,
            next : Nat \ {0}, end : Day, moves : BOOLEAN, todo : SUBSET Platform,
            seen : SUBSET Platform]

Outcomes == Rec \X {"success", "failed"}
RunRow == [pc : {"generate", "execute"}, account : Nat, day : Day, own : SUBSET Rec,
           todo : SUBSET Rec, done : SUBSET Outcomes]

Types ==
  /\ today \in Day /\ from \in {NoDay} \cup Day
  /\ account \in [active : BOOLEAN, id : Nat, last : {NoDay} \cup Day]
  /\ metrics \in [Platform -> [Day -> {NoDay} \cup Day]]
  /\ proc \in [Proc -> {Idle} \cup SyncRow \cup RunRow]
  /\ recs \in [Rec -> [day : {NoDay} \cup Day,
                       status : {"none", "pending", "executed", "skipped"}]]
  /\ calls \in [Rec -> Nat]

-----------------------------------------------------------------------------
(* The days behind PastIsFull *)

\* The day is stored in full, or its fetch failed.
Kept(f, d) == Full(f, d) \/ <<f, d>> \in swallowed

\* No row is of a day to come.
NotAhead == \A f \in Platform, d \in Day : metrics[f][d] <= today

\* A sync has what it has gone through.
Progress(p) ==
  Syncs(p) =>
    /\ proc[p].start <= proc[p].next /\ proc[p].start <= proc[p].end /\ proc[p].end <= today
    /\ IF proc[p].pc = "synced" THEN proc[p].end < proc[p].next ELSE proc[p].next <= proc[p].end
    /\ \A f \in Platform, d \in Day :
         /\ proc[p].start <= d /\ d < proc[p].end
         /\ \/ d < proc[p].next
            \/ proc[p].pc = "metrics" /\ f \notin proc[p].todo /\ d <= ChunkEnd(p)
         => Kept(f, d)

\* A sync of the account there is does not begin after the last sync, which has moved on
\* since; one of an account that is gone has a lower number.
Anchored(p) ==
  proc[p] # Idle =>
    /\ proc[p].account <= account.id
    /\ Syncs(p) /\ proc[p].moves /\ proc[p].account = account.id /\ account.last # NoDay
         => proc[p].start <= account.last

DaysInv ==
  /\ Types /\ NotAhead /\ account.last <= today
  /\ from # NoDay => account.last # NoDay
  /\ \A p \in Proc : Progress(p) /\ Anchored(p)
  /\ PastIsFull

-----------------------------------------------------------------------------
LEMMA MinOf ==
  ASSUME NEW a \in Int, NEW b \in Int
  PROVE  Min({a, b}) = IF a <= b THEN a ELSE b
<1>1. PICK m \in {a, b} : \A y \in {a, b} : m <= y
  <2>1. CASE a <= b  BY <2>1
  <2>2. CASE b < a   BY <2>2
  <2> QED  BY <2>1, <2>2
<1>2. Min({a, b}) \in {a, b} /\ \A y \in {a, b} : Min({a, b}) <= y
  BY <1>1 DEF Min
<1> QED  BY <1>2

LEMMA Least ==
  ASSUME NEW S \in SUBSET Nat, S # {}
  PROVE  Min(S) \in S
<1> DEFINE less == {ss \in Nat \X Nat : ss[1] < ss[2]}
<1>1. IsWellFoundedOn(less, Nat)
  BY NatLessThanWellFounded, Zenon DEF OpToRel
<1> HIDE DEF less
<1>2. PICK m \in S : \A y \in S : ~(<<y, m>> \in less)
  BY <1>1, WFMin
<1>3. ASSUME NEW y \in S  PROVE m <= y
  <2>1. y \in Nat /\ m \in Nat
    OBVIOUS
  <2>2. <<y, m>> \in Nat \X Nat => (<<y, m>> \in less <=> y < m)
    BY DEF less
  <2> QED  BY <1>2, <2>1, <2>2
<1> QED  BY <1>3 DEF Min

LEMMA Days == Day \subseteq Nat \ {0} /\ 1 \in Day /\ NoDay \notin Day /\ NoDay = 0
BY PlatformAssumption DEF Day, NoDay

LEMMA Numbers ==
  ASSUME Types
  PROVE  /\ today \in Nat \ {0} /\ account.last \in Nat /\ from \in Nat
         /\ \A d \in Day : d \in Nat \ {0}
         /\ \A p \in Proc : proc[p] \in SyncRow =>
              proc[p].start \in Nat /\ proc[p].next \in Nat \ {0} /\ proc[p].end \in Nat
<1>1. \A d \in Day : d \in Nat \ {0}
  BY Days
<1>2. today \in Day /\ account.last \in {NoDay} \cup Day /\ from \in {NoDay} \cup Day
  BY DEF Types
<1>3. \A p \in Proc : proc[p] \in SyncRow =>
         proc[p].start \in Day /\ proc[p].next \in Nat \ {0} /\ proc[p].end \in Day
  BY DEF SyncRow
<1> QED  BY <1>1, <1>2, <1>3 DEF NoDay

LEMMA Kinds ==
  ASSUME Types, NEW p \in Proc
  PROVE  /\ Syncs(p) <=> proc[p] \in SyncRow
         /\ Optimizes(p) <=> proc[p] \in RunRow
         /\ proc[p] = Idle <=> ~Syncs(p) /\ ~Optimizes(p)
         /\ ~(Syncs(p) /\ Optimizes(p))
<1>1. Idle.pc = "idle"
  BY DEF Idle
<1>2. proc[p] \in {Idle} \cup SyncRow \cup RunRow
  BY DEF Types
<1> QED  BY <1>1, <1>2 DEF Syncs, Optimizes, SyncRow, RunRow

\* A process that does something else
LEMMA ProcSet ==
  ASSUME Types, NEW p \in Proc, NEW row \in {Idle} \cup SyncRow \cup RunRow,
         proc' = [proc EXCEPT ![p] = row]
  PROVE  /\ proc' \in [Proc -> {Idle} \cup SyncRow \cup RunRow]
         /\ proc'[p] = row /\ \A q \in Proc \ {p} : proc'[q] = proc[q]
BY DEF Types

LEMMA Chunks ==
  ASSUME Types, NEW p \in Proc, Syncs(p)
  PROVE  /\ ChunkEnd(p) \in Int /\ ChunkEnd(p) <= proc[p].end
         /\ proc[p].next <= proc[p].end => proc[p].next <= ChunkEnd(p)
<1>1. proc[p].next \in Nat \ {0} /\ proc[p].end \in Nat
  BY Kinds, Days DEF SyncRow
<1>2. proc[p].next + ChunkDays - 1 \in Int /\ proc[p].next + ChunkDays - 1 >= proc[p].next
  BY <1>1, PlatformAssumption
<1>3. ChunkEnd(p) = IF proc[p].next + ChunkDays - 1 <= proc[p].end
                    THEN proc[p].next + ChunkDays - 1 ELSE proc[p].end
  BY <1>1, <1>2, MinOf DEF ChunkEnd
<1> QED  BY <1>1, <1>2, <1>3

\* The window of a day has the days from it on that are over.
LEMMA Reaches ==
  ASSUME Types, NEW first \in Nat \ {0}, NEW d \in Day, first <= d, d < today
  PROVE  d \in Window(first)
<1> DEFINE wide == {n \in Presets : n >= today - first}
<1>1. today \in Nat /\ today <= LastDay /\ d \in Nat
  BY Days, PlatformAssumption DEF Types, Day
<1>2. wide # {} /\ wide \in SUBSET Nat
  <2>1. PICK n \in Presets : LastDay <= n + 1
    BY PlatformAssumption
  <2>2. n \in Nat /\ LastDay \in Nat
    BY PlatformAssumption
  <2>3. n >= today - first
    BY <1>1, <2>1, <2>2
  <2> QED  BY <2>3, PlatformAssumption
<1>3. Min(wide) \in wide
  BY <1>2, Least
<1>4. Min(wide) \in Nat /\ Min(wide) # 0 /\ d + Min(wide) >= today
  BY <1>1, <1>2, <1>3
<1>5. Window(first) = {e \in Day : e < today /\ e + Min(wide) >= today}
  BY <1>2, <1>4 DEF Window
<1> QED  BY <1>4, <1>5

-----------------------------------------------------------------------------
(* What the steps of a sync do *)

LEMMA FirstDay == DaysInv => First \in Day /\ First <= today
<1> SUFFICES ASSUME DaysInv PROVE First \in Day /\ First <= today
  OBVIOUS
<1>1. /\ today \in Day /\ account.last \in {NoDay} \cup Day /\ account.last <= today
      /\ today \in Nat \ {0} /\ today <= LastDay
  BY Days, PlatformAssumption DEF DaysInv, Types, Day
<1>2. today > FirstDays => today - FirstDays \in Day /\ today - FirstDays <= today
  BY <1>1, PlatformAssumption DEF Day
<1> QED  BY <1>1, <1>2, Days DEF First

\* A sync of the days first to last begins.
Begins(p, row) ==
  /\ row \in SyncRow /\ row.pc = "campaigns" /\ row.next = row.start
  /\ row.start <= row.end /\ row.end <= today /\ row.account = account.id
  /\ proc' = [proc EXCEPT ![p] = row]
  /\ UNCHANGED <<today, account, metrics, recs, history>>

LEMMA StartEffect ==
  ASSUME DaysInv, NEW p \in Proc, StartSync(p) \/ Backfill(p)
  PROVE  /\ proc[p] = Idle
         /\ \E row \in SyncRow : Begins(p, row) /\ (row.moves => row.start = First)
<1> DEFINE row(d, e, m) == [pc |-> "campaigns", account |-> account.id, start |-> d,
                            next |-> d, end |-> e, moves |-> m, todo |-> Platform, seen |-> {}]
<1>t. Types
  BY DEF DaysInv
<1>1. ASSUME NEW d \in Day, NEW e \in Day, NEW m \in BOOLEAN  PROVE row(d, e, m) \in SyncRow
  BY <1>t, Days DEF Types, SyncRow
<1>2. today \in Day
  BY <1>t DEF Types
<1>3. CASE StartSync(p)
  <2>1. row(First, today, TRUE) \in SyncRow /\ First <= today
    BY <1>1, <1>2, FirstDay
  <2>2. Begins(p, row(First, today, TRUE))
    BY <1>2, <1>3, <2>1, Days DEF StartSync, Sync, Begins
  <2> QED  BY <1>3, <2>1, <2>2 DEF StartSync, Free
<1>4. CASE Backfill(p)
  <2>1. PICK d \in 1..today : \E e \in d..today : Sync(p, d, e, FALSE)
    BY <1>4 DEF Backfill
  <2>2. PICK e \in d..today : Sync(p, d, e, FALSE)
    BY <2>1
  <2>3. d \in Day /\ e \in Day /\ d <= e /\ e <= today
    BY <1>2, PlatformAssumption DEF Day
  <2>4. row(d, e, FALSE) \in SyncRow
    BY <1>1, <2>3
  <2>5. Begins(p, row(d, e, FALSE))
    BY <1>4, <2>2, <2>3, <2>4 DEF Backfill, Sync, Begins, history
  <2> QED  BY <1>4, <2>4, <2>5 DEF Backfill, Free
<1> QED  BY <1>3, <1>4

\* A sync goes on: what it is for stays.
GoesOn(p, row) ==
  /\ row \in SyncRow /\ proc' = [proc EXCEPT ![p] = row]
  /\ row.account = proc[p].account /\ row.start = proc[p].start /\ row.end = proc[p].end
  /\ row.moves = proc[p].moves
  /\ UNCHANGED <<today, account, from, skipped, recs, actions, calls, raced, unread, lost>>

LEMMA CampaignsEffect ==
  ASSUME Types, NEW p \in Proc, NEW f \in Platform, NEW fails \in BOOLEAN,
         Campaigns(p, f, fails)
  PROVE  /\ proc[p] \in SyncRow /\ proc[p].pc = "campaigns"
         /\ UNCHANGED <<metrics, swallowed>>
         /\ \E row \in SyncRow : /\ GoesOn(p, row) /\ row.next = proc[p].next
                                 /\ row.pc \in {"campaigns", "metrics"}
                                 /\ row.pc = "metrics" => row.todo = Platform
<1>1. proc[p] \in SyncRow /\ proc[p].pc = "campaigns" /\ Syncs(p)
  BY Kinds DEF Campaigns, Syncs
<1> DEFINE row == [proc[p] EXCEPT !.todo = IF @ = {f} THEN Platform ELSE @ \ {f},
                                  !.pc = IF proc[p].todo = {f} THEN "metrics" ELSE @,
                                  !.seen = Fetched(p, f, fails)]
<1>2. Fetched(p, f, fails) \in SUBSET Platform
  BY <1>1 DEF Fetched, SyncRow
<1>3. /\ row \in SyncRow /\ row.pc \in {"campaigns", "metrics"}
      /\ row.pc = "metrics" => row.todo = Platform
      /\ row.account = proc[p].account /\ row.start = proc[p].start /\ row.end = proc[p].end
      /\ row.moves = proc[p].moves /\ row.next = proc[p].next
  BY <1>1, <1>2 DEF SyncRow
<1>4. proc' = [proc EXCEPT ![p] = row]
  BY DEF Campaigns, Types
<1>5. GoesOn(p, row)
  BY <1>3, <1>4 DEF Campaigns, GoesOn, history
<1> QED  BY <1>1, <1>3, <1>5 DEF Campaigns, history

\* The next platform's metrics, stored or not
LEMMA MetricsEffect ==
  ASSUME Types, NEW p \in Proc, NEW f \in Platform, Metrics(p, f) \/ MetricsFail(p, f)
  PROVE  /\ proc[p] \in SyncRow /\ proc[p].pc = "metrics" /\ f \in proc[p].todo
         /\ \E row \in SyncRow : /\ GoesOn(p, row) /\ row.next = proc[p].next
                                 /\ row.pc = "metrics" /\ row.todo = proc[p].todo \ {f}
<1>1. proc[p] \in SyncRow /\ proc[p].pc = "metrics" /\ Syncs(p) /\ f \in proc[p].todo
  BY Kinds DEF Metrics, MetricsFail, Syncs
<1> DEFINE row == [proc[p] EXCEPT !.todo = @ \ {f}]
<1>2. /\ row \in SyncRow /\ row.pc = "metrics" /\ row.todo = proc[p].todo \ {f}
      /\ row.account = proc[p].account /\ row.start = proc[p].start /\ row.end = proc[p].end
      /\ row.moves = proc[p].moves /\ row.next = proc[p].next
  BY <1>1 DEF SyncRow
<1>3. proc' = [proc EXCEPT ![p] = row]
  BY DEF Metrics, MetricsFail, Types
<1>4. GoesOn(p, row)
  BY <1>2, <1>3 DEF Metrics, MetricsFail, GoesOn, history
<1> QED  BY <1>1, <1>2, <1>4

LEMMA NextChunkEffect ==
  ASSUME Types, NEW p \in Proc, NextChunk(p),
         proc[p].next <= proc[p].end
  PROVE  /\ proc[p] \in SyncRow /\ proc[p].pc = "metrics" /\ proc[p].todo = {}
         /\ UNCHANGED <<metrics, swallowed>>
         /\ \E row \in SyncRow :
              /\ GoesOn(p, row) /\ row.next = ChunkEnd(p) + 1
              /\ row.pc = IF ChunkEnd(p) < proc[p].end THEN "campaigns" ELSE "synced"
<1>1. proc[p] \in SyncRow /\ proc[p].pc = "metrics" /\ Syncs(p) /\ proc[p].todo = {}
  BY Kinds DEF NextChunk, Syncs
<1> DEFINE pc == IF ChunkEnd(p) < proc[p].end THEN "campaigns" ELSE "synced"
           row == [proc[p] EXCEPT !.pc = pc, !.todo = Platform, !.seen = {},
                                  !.next = ChunkEnd(p) + 1]
<1>2. ChunkEnd(p) + 1 \in Nat \ {0}
  BY <1>1, Chunks DEF SyncRow
<1>3. /\ row \in SyncRow /\ row.next = ChunkEnd(p) + 1 /\ row.pc = pc
      /\ row.account = proc[p].account /\ row.start = proc[p].start /\ row.end = proc[p].end
      /\ row.moves = proc[p].moves
  BY <1>1, <1>2 DEF SyncRow
<1>4. proc' = [proc EXCEPT ![p] = row]
  BY DEF NextChunk, Types
<1>5. GoesOn(p, row)
  BY <1>3, <1>4 DEF NextChunk, GoesOn, history
<1> QED  BY <1>1, <1>3, <1>5 DEF NextChunk, history

-----------------------------------------------------------------------------
(* What the steps of the optimizer do *)

LEMMA StartRunEffect ==
  ASSUME Types, NEW p \in Proc, StartRun(p)
  PROVE  /\ proc[p] = Idle
         /\ \E row \in RunRow : /\ proc' = [proc EXCEPT ![p] = row]
                                /\ row.account = account.id
                                /\ row.own = {} /\ row.todo = {} /\ row.done = {}
<1> DEFINE row == [pc |-> "generate", account |-> account.id, day |-> today,
                   own |-> {}, todo |-> {}, done |-> {}]
<1>1. row \in RunRow
  BY DEF RunRow, Types
<1> QED  BY <1>1 DEF StartRun, Free

LEMMA GenerateEffect ==
  ASSUME Types, NEW p \in Proc, NEW new \in SUBSET Rec, Generate(p, new)
  PROVE  /\ proc[p] \in RunRow /\ proc[p].pc = "generate"
         /\ \E row \in RunRow :
              /\ proc' = [proc EXCEPT ![p] = row] /\ row.account = proc[p].account
              /\ row.pc = "execute" /\ row.own = new /\ row.done = proc[p].done
              /\ row.todo = new \cup {r \in Rec : /\ recs[r].day = proc[p].day
                                                  /\ recs[r].status = "pending"}
<1>1. proc[p] \in RunRow /\ proc[p].pc = "generate"
  BY Kinds DEF Generate, Optimizes
<1> DEFINE todo == new \cup {r \in Rec : recs[r].day = proc[p].day /\ recs[r].status = "pending"}
           row == [proc[p] EXCEPT !.pc = "execute", !.own = new, !.todo = todo]
<1>2. /\ row \in RunRow /\ row.account = proc[p].account /\ row.own = new /\ row.todo = todo
      /\ row.done = proc[p].done /\ row.pc = "execute"
  BY <1>1 DEF RunRow
<1>3. proc' = [proc EXCEPT ![p] = row]
  BY DEF Generate, Types
<1> QED  BY <1>1, <1>2, <1>3

\* The call for r ends, one way or another.
Tried(p, r) == Call(p, r) \/ CallMisread(p, r) \/ \E made \in BOOLEAN : CallFails(p, r, made)

LEMMA TriedIsCalled ==
  ASSUME Types, NEW p \in Proc, NEW r \in Rec, Tried(p, r)
  PROVE  /\ \E o \in {"success", "failed"} : Called(p, r, o)
         /\ \/ calls' = calls /\ unread' = unread
            \/ calls' = AtGoogle(r) /\ unread' = unread /\ Called(p, r, "success")
            \/ calls' = AtGoogle(r) /\ unread' = unread \cup {r} /\ Called(p, r, "failed")
<1>1. CASE Call(p, r)
  BY <1>1 DEF Call
<1>2. CASE CallMisread(p, r)
  BY <1>2 DEF CallMisread
<1>3. ASSUME NEW made \in BOOLEAN, CallFails(p, r, made)
      PROVE  /\ Called(p, r, "failed")
             /\ \/ calls' = calls /\ unread' = unread
                \/ calls' = AtGoogle(r) /\ unread' = unread \cup {r}
  BY <1>3 DEF CallFails
<1> QED  BY <1>1, <1>2, <1>3 DEF Tried

LEMMA CallEffect ==
  ASSUME Types, NEW p \in Proc, NEW r \in Rec, NEW o \in {"success", "failed"}, Called(p, r, o)
  PROVE  /\ proc[p] \in RunRow /\ r \in proc[p].todo
         /\ \E row \in RunRow :
              /\ proc' = [proc EXCEPT ![p] = row] /\ row.account = proc[p].account
              /\ row.pc = proc[p].pc
              /\ row.own = proc[p].own /\ row.todo = proc[p].todo \ {r}
              /\ row.done = proc[p].done \cup {<<r, o>>}
<1>1. proc[p] \in RunRow /\ r \in proc[p].todo
  BY Kinds DEF Called, Optimizes
<1> DEFINE row == [proc[p] EXCEPT !.todo = @ \ {r}, !.done = @ \cup {<<r, o>>}]
<1>2. <<r, o>> \in Outcomes
  BY DEF Outcomes
<1>3. /\ row \in RunRow /\ row.account = proc[p].account /\ row.own = proc[p].own
      /\ row.todo = proc[p].todo \ {r} /\ row.done = proc[p].done \cup {<<r, o>>}
      /\ row.pc = proc[p].pc
  BY <1>1, <1>2 DEF RunRow
<1>4. proc' = [proc EXCEPT ![p] = row]
  BY DEF Called, Types
<1> QED  BY <1>1, <1>3, <1>4

\* The commit of a run
LEMMA RecordEffect ==
  ASSUME Types, NEW p \in Proc, Record(p), proc[p] \in RunRow
  PROVE  /\ proc' = [proc EXCEPT ![p] = Idle]
         /\ recs' \in [Rec -> [day : {NoDay} \cup Day,
                               status : {"none", "pending", "executed", "skipped"}]]
<1>1. \A r \in Rec : Status(p, r) \in {"pending", "executed", "skipped"}
  BY DEF Status
<1>2. proc[p].day \in Day
  BY DEF RunRow
<1> QED  BY <1>1, <1>2 DEF Record, Types

-----------------------------------------------------------------------------
(* The days stay kept *)

\* The rows of process p, and what is more and more: days, and days that are kept
LEMMA OthersGoOn ==
  ASSUME DaysInv, NEW p, \A q \in Proc \ {p} : proc'[q] = proc[q],
         today' \in Day, today <= today',
         \A f \in Platform, d \in Day : Kept(f, d) => Kept(f, d)'
  PROVE  \A q \in Proc \ {p} : Progress(q)'
<1> SUFFICES ASSUME NEW q \in Proc \ {p} PROVE Progress(q)'
  OBVIOUS
<1>1. proc'[q] = proc[q] /\ Syncs(q)' = Syncs(q) /\ ChunkEnd(q)' = ChunkEnd(q)
  BY DEF Syncs, ChunkEnd
<1>2. CASE ~Syncs(q)
  BY <1>1, <1>2 DEF Progress
<1>3. CASE Syncs(q)
  <2>1. Types /\ Progress(q) /\ proc[q] \in SyncRow
    BY <1>3, Kinds DEF DaysInv
  <2>2. proc[q].end \in Nat /\ today \in Nat /\ today' \in Nat /\ proc[q].end <= today
    BY <1>3, <2>1, Numbers DEF Progress
  <2>3. proc[q].end <= today'
    BY <2>2
  <2> QED  BY <1>1, <1>3, <2>1, <2>3 DEF Progress
<1> QED  BY <1>2, <1>3

\* The account stays, and with it what a sync that goes on is for
LEMMA OthersAnchored ==
  ASSUME DaysInv, NEW p, \A q \in Proc \ {p} : proc'[q] = proc[q], account' = account
  PROVE  \A q \in Proc \ {p} : Anchored(q)'
BY DEF DaysInv, Anchored, Syncs

\* Nothing happens to the days: a process ends, or runs the optimizer.
LEMMA NoDaysChange ==
  ASSUME DaysInv, NEW p \in Proc, NEW row \in {Idle} \cup RunRow,
         proc' = [proc EXCEPT ![p] = row], row # Idle => row.account <= account.id,
         UNCHANGED <<today, account, metrics, from, swallowed, skipped>>,
         recs' \in [Rec -> [day : {NoDay} \cup Day,
                            status : {"none", "pending", "executed", "skipped"}]],
         calls' \in [Rec -> Nat]
  PROVE  DaysInv'
<1>t. Types /\ today \in Day /\ today <= today
  BY Days DEF DaysInv, Types
<1>1. /\ proc' \in [Proc -> {Idle} \cup SyncRow \cup RunRow]
      /\ proc'[p] = row /\ \A q \in Proc \ {p} : proc'[q] = proc[q]
  BY <1>t, ProcSet
<1>2. Types'
  BY <1>t, <1>1 DEF Types
<1>3. \A q \in Proc \ {p} : Progress(q)' /\ Anchored(q)'
  BY <1>t, <1>1, OthersGoOn, OthersAnchored DEF Kept, Full
<1>4. ~Syncs(p)'
  <2>1. Idle.pc = "idle"
    BY DEF Idle
  <2> QED  BY <1>1, <2>1 DEF Syncs, RunRow
<1>5. Progress(p)' /\ Anchored(p)'
  BY <1>1, <1>4 DEF Progress, Anchored
<1> QED  BY <1>2, <1>3, <1>5 DEF DaysInv, NotAhead, PastIsFull, Full

LEMMA RunsKeepDays ==
  ASSUME DaysInv, NEW p \in Proc,
         \/ StartRun(p) \/ Refuse(p) \/ Break(p)
         \/ \E new \in SUBSET Rec : Generate(p, new)
         \/ \E r \in Rec : Tried(p, r)
  PROVE  DaysInv'
<1>t. Types /\ account.id \in Nat
  BY DEF DaysInv, Types
<1>a. proc[p] # Idle => proc[p].account <= account.id
  BY DEF DaysInv, Anchored
<1>i. Idle.pc = "idle"
  BY DEF Idle
<1>1. CASE StartRun(p)
  <2>1. PICK row \in RunRow : proc' = [proc EXCEPT ![p] = row] /\ row.account = account.id
    BY <1>t, <1>1, StartRunEffect
  <2>2. UNCHANGED <<today, account, metrics, recs, history>>
    BY <1>1 DEF StartRun
  <2>3. row.account <= account.id
    BY <1>t, <2>1
  <2> QED  BY <1>t, <2>1, <2>2, <2>3, NoDaysChange DEF history, Types
<1>2. CASE Refuse(p)
  <2>1. proc[p] \in RunRow
    BY <1>t, <1>2, Kinds DEF Refuse, Optimizes
  <2>2. UNCHANGED <<today, account, metrics, history>> /\ Record(p)
    BY <1>2 DEF Refuse
  <2> QED  BY <1>t, <2>1, <2>2, RecordEffect, NoDaysChange DEF history, Types
<1>3. CASE Break(p)
  BY <1>t, <1>3, NoDaysChange DEF Break, Types
<1>4. ASSUME NEW new \in SUBSET Rec, Generate(p, new)  PROVE DaysInv'
  <2>1. PICK row \in RunRow : proc' = [proc EXCEPT ![p] = row] /\ row.account = proc[p].account
    BY <1>t, <1>4, GenerateEffect
  <2>2. proc[p] # Idle
    BY <1>4, <1>i DEF Generate
  <2> QED  BY <1>t, <1>a, <1>4, <2>1, <2>2, NoDaysChange DEF Generate, Types
<1>5. ASSUME NEW r \in Rec, Tried(p, r)  PROVE DaysInv'
  <2>0. PICK o \in {"success", "failed"} : Called(p, r, o)
    BY <1>t, <1>5, TriedIsCalled
  <2>1. PICK row \in RunRow : proc' = [proc EXCEPT ![p] = row] /\ row.account = proc[p].account
    BY <1>t, <2>0, CallEffect
  <2>2. proc[p] # Idle
    BY <2>0, <1>i DEF Called
  <2>3. calls' \in [Rec -> Nat]
    BY <1>t, <1>5, TriedIsCalled DEF AtGoogle, Types
  <2>4. UNCHANGED <<today, account, metrics, recs, from, swallowed, skipped>>
    BY <2>0 DEF Called
  <2> QED  BY <1>t, <1>a, <2>1, <2>2, <2>3, <2>4, NoDaysChange DEF Types
<1> QED  BY <1>1, <1>2, <1>3, <1>4, <1>5

\* The last sync moves to now: the days it is moved over are kept, or known as skipped.
LEMMA LastMoves ==
  ASSUME DaysInv, NEW p \in Proc, Same(p),
         proc' = [proc EXCEPT ![p] = Idle], account' = Moved,
         UNCHANGED <<today, metrics, swallowed>>,
         from' \in {NoDay} \cup Day, skipped \subseteq skipped',
         recs' \in [Rec -> [day : {NoDay} \cup Day,
                            status : {"none", "pending", "executed", "skipped"}]],
         calls' \in [Rec -> Nat],
         \A f \in Platform, d \in Day :
           from' # NoDay /\ from' <= d /\ d < today => Kept(f, d) \/ d \in skipped'
  PROVE  DaysInv'
<1>t. Types /\ today \in Day /\ today \in Nat \ {0} /\ today <= today /\ NoDay = 0
  BY Days DEF DaysInv, Types
<1>1. /\ proc' \in [Proc -> {Idle} \cup SyncRow \cup RunRow]
      /\ proc'[p] = Idle /\ \A q \in Proc \ {p} : proc'[q] = proc[q]
  BY <1>t, ProcSet
<1>2. /\ account' \in [active : BOOLEAN, id : Nat, last : {NoDay} \cup Day]
      /\ account'.last = today /\ account'.id = account.id
  BY <1>t DEF Moved, Types
<1>3. Types'
  BY <1>t, <1>1, <1>2 DEF Types
<1>4. \A q \in Proc \ {p} : Progress(q)'
  BY <1>t, <1>1, OthersGoOn DEF Kept, Full
<1>5. ASSUME NEW q \in Proc \ {p}  PROVE Anchored(q)'
  <2>1. Syncs(q) => proc[q].start <= today
    <3> SUFFICES ASSUME Syncs(q) PROVE proc[q].start <= today
      OBVIOUS
    <3>1. proc[q] \in SyncRow
      BY <1>t, Kinds
    <3>2. proc[q].start <= proc[q].end /\ proc[q].end <= today
      BY DEF DaysInv, Progress
    <3>3. proc[q].start \in Nat /\ proc[q].end \in Nat /\ today \in Nat
      BY <1>t, <3>1, Numbers
    <3> QED  BY <3>2, <3>3
  <2> QED  BY <1>1, <1>2, <2>1 DEF DaysInv, Anchored, Syncs
<1>6. ~Syncs(p)' /\ Progress(p)' /\ Anchored(p)'
  BY <1>1 DEF Syncs, Idle, Progress, Anchored
<1>7. PastIsFull'
  BY <1>2 DEF PastIsFull, Full, Kept
<1> QED  BY <1>t, <1>2, <1>3, <1>4, <1>5, <1>6, <1>7 DEF DaysInv, NotAhead

LEMMA FinishRunKeepsDays ==
  ASSUME DaysInv, NEW p \in Proc, FinishRun(p)
  PROVE  DaysInv'
<1>t. Types
  BY DEF DaysInv
<1>1. proc[p] \in RunRow /\ Record(p)
  BY <1>t, Kinds DEF FinishRun, Optimizes
<1>2. /\ proc' = [proc EXCEPT ![p] = Idle]
      /\ recs' \in [Rec -> [day : {NoDay} \cup Day,
                            status : {"none", "pending", "executed", "skipped"}]]
  BY <1>t, <1>1, RecordEffect
<1>3. UNCHANGED <<today, metrics, calls, from, swallowed>> /\ calls' \in [Rec -> Nat]
  BY <1>t DEF FinishRun, Types
<1>4. CASE ~Same(p)
  BY <1>2, <1>3, <1>4, NoDaysChange DEF FinishRun
<1>5. CASE Same(p)
  <2>1. account' = Moved /\ skipped' = skipped \cup {d \in Day : account.last <= d /\ d < today}
    BY <1>5 DEF FinishRun
  <2>2. ASSUME NEW f \in Platform, NEW d \in Day, from # NoDay, from <= d, d < today
        PROVE  Kept(f, d) \/ d \in skipped'
    <3>1. account.last \in Nat /\ d \in Nat
      BY <1>t, Numbers
    <3>2. CASE account.last <= d
      BY <2>1, <2>2, <3>2
    <3>3. CASE d < account.last
      BY <2>1, <2>2, <3>3 DEF DaysInv, PastIsFull, Kept
    <3> QED  BY <3>1, <3>2, <3>3
  <2>3. from' \in {NoDay} \cup Day /\ skipped \subseteq skipped'
    BY <1>t, <1>3, <2>1 DEF Types
  <2>4. \A f \in Platform, d \in Day :
          from' # NoDay /\ from' <= d /\ d < today => Kept(f, d) \/ d \in skipped'
    BY <1>3, <2>2
  <2> QED  BY <1>2, <1>3, <1>5, <2>1, <2>3, <2>4, LastMoves
<1> QED  BY <1>4, <1>5

\* A sync that goes on, with more days kept
LEMMA SyncGoesOn ==
  ASSUME DaysInv, NEW p \in Proc, NEW row \in SyncRow, GoesOn(p, row), proc[p] \in SyncRow,
         metrics' \in [Platform -> [Day -> {NoDay} \cup Day]], NotAhead',
         \A f \in Platform, d \in Day : Kept(f, d) => Kept(f, d)',
         Progress(p)'
  PROVE  DaysInv'
<1>t. Types /\ today \in Day /\ today <= today /\ Syncs(p)
  BY Numbers, Kinds DEF DaysInv, Types
<1>1. /\ proc' = [proc EXCEPT ![p] = row]
      /\ UNCHANGED <<today, account, from, skipped, recs, calls>>
  BY DEF GoesOn
<1>2. /\ proc' \in [Proc -> {Idle} \cup SyncRow \cup RunRow]
      /\ proc'[p] = row /\ \A q \in Proc \ {p} : proc'[q] = proc[q]
  BY <1>t, <1>1, ProcSet
<1>3. Types'
  BY <1>t, <1>1, <1>2 DEF Types
<1>4. \A q \in Proc \ {p} : Progress(q)' /\ Anchored(q)'
  BY <1>t, <1>1, <1>2, OthersGoOn, OthersAnchored
<1>5. Anchored(p)'
  <2>1. /\ row.account = proc[p].account /\ row.start = proc[p].start
        /\ row.moves = proc[p].moves /\ account' = account /\ proc[p] # Idle
    BY <1>t, <1>1, Kinds DEF GoesOn
  <2> QED  BY <1>t, <1>2, <2>1 DEF DaysInv, Anchored
<1>6. PastIsFull'
  BY <1>1 DEF DaysInv, PastIsFull, Kept
<1> QED  BY <1>1, <1>3, <1>4, <1>5, <1>6 DEF DaysInv

LEMMA CampaignsKeepsDays ==
  ASSUME DaysInv, NEW p \in Proc, NEW f \in Platform, NEW fails \in BOOLEAN,
         Campaigns(p, f, fails)
  PROVE  DaysInv'
<1>t. Types
  BY DEF DaysInv
<1>1. /\ proc[p] \in SyncRow /\ proc[p].pc = "campaigns" /\ Syncs(p)
      /\ UNCHANGED <<metrics, swallowed>>
  BY <1>t, CampaignsEffect, Kinds
<1>2. PICK row \in SyncRow : /\ GoesOn(p, row) /\ row.next = proc[p].next
                             /\ row.pc \in {"campaigns", "metrics"}
                             /\ row.pc = "metrics" => row.todo = Platform
  BY <1>t, CampaignsEffect
<1>3. proc'[p] = row /\ today' = today
  BY <1>t, <1>2, ProcSet DEF GoesOn
<1>4. \A g \in Platform, d \in Day : Kept(g, d)' = Kept(g, d)
  BY <1>1 DEF Kept, Full
<1>5. Progress(p)'
  BY <1>1, <1>2, <1>3, <1>4 DEF DaysInv, Progress, GoesOn
<1>6. NotAhead' /\ metrics' \in [Platform -> [Day -> {NoDay} \cup Day]]
  BY <1>t, <1>1, <1>3 DEF DaysInv, NotAhead, Types
<1> QED  BY <1>1, <1>2, <1>4, <1>5, <1>6, SyncGoesOn

LEMMA NextChunkKeepsDays ==
  ASSUME DaysInv, NEW p \in Proc, NextChunk(p)
  PROVE  DaysInv'
<1>t. Types
  BY DEF DaysInv
<1>1. proc[p] \in SyncRow /\ proc[p].pc = "metrics" /\ Syncs(p) /\ proc[p].todo = {}
  BY <1>t, Kinds DEF NextChunk, Syncs
<1>2. proc[p].next <= proc[p].end /\ proc[p].start <= proc[p].next
  BY <1>1 DEF DaysInv, Progress
<1>3. PICK row \in SyncRow :
        /\ GoesOn(p, row) /\ row.next = ChunkEnd(p) + 1
        /\ row.pc = IF ChunkEnd(p) < proc[p].end THEN "campaigns" ELSE "synced"
  BY <1>t, <1>2, NextChunkEffect
<1>4. proc'[p] = row /\ today' = today /\ UNCHANGED <<metrics, swallowed>>
  BY <1>t, <1>3, ProcSet DEF GoesOn, NextChunk, history
<1>5. \A g \in Platform, d \in Day : Kept(g, d)' = Kept(g, d)
  BY <1>4 DEF Kept, Full
<1>6. /\ ChunkEnd(p) \in Int /\ ChunkEnd(p) <= proc[p].end /\ proc[p].next <= ChunkEnd(p)
      /\ proc[p].start \in Nat /\ proc[p].next \in Nat /\ proc[p].end \in Nat
  BY <1>t, <1>1, <1>2, Chunks, Numbers
<1>7. Progress(p)'
  <2>1. row.start = proc[p].start /\ row.end = proc[p].end
    BY <1>3 DEF GoesOn
  <2>2. row.start <= row.next /\ row.start <= row.end /\ row.end <= today'
    BY <1>1, <1>2, <1>3, <1>4, <1>6, <2>1 DEF DaysInv, Progress
  <2>3. IF row.pc = "synced" THEN row.end < row.next ELSE row.next <= row.end
    BY <1>3, <1>6, <2>1
  <2>4. ASSUME NEW f \in Platform, NEW d \in Day, row.start <= d, d < row.end, d < row.next
        PROVE  Kept(f, d)'
    <3>1. d \in Nat /\ d <= ChunkEnd(p)
      BY <1>t, <1>3, <1>6, <2>4, Numbers
    <3> QED  BY <1>1, <1>5, <2>1, <2>4, <3>1 DEF DaysInv, Progress
  <2>5. row.pc # "metrics"
    BY <1>3
  <2> QED  BY <1>4, <2>2, <2>3, <2>4, <2>5 DEF Progress
<1>8. NotAhead' /\ metrics' \in [Platform -> [Day -> {NoDay} \cup Day]]
  BY <1>t, <1>4 DEF DaysInv, NotAhead, Types
<1> QED  BY <1>1, <1>3, <1>5, <1>7, <1>8, SyncGoesOn

\* A platform's metrics: the days of the chunk that are over are kept.
LEMMA MetricsStep ==
  ASSUME DaysInv, NEW p \in Proc, NEW f \in Platform, Metrics(p, f) \/ MetricsFail(p, f),
         metrics' \in [Platform -> [Day -> {NoDay} \cup Day]], NotAhead',
         \A g \in Platform, d \in Day : Kept(g, d) => Kept(g, d)',
         \A d \in Day : proc[p].next <= d /\ d <= ChunkEnd(p) /\ d < today => Kept(f, d)'
  PROVE  DaysInv'
<1>t. Types
  BY DEF DaysInv
<1>1. proc[p] \in SyncRow /\ proc[p].pc = "metrics" /\ Syncs(p) /\ f \in proc[p].todo
  BY <1>t, MetricsEffect, Kinds
<1>2. PICK row \in SyncRow : /\ GoesOn(p, row) /\ row.next = proc[p].next
                             /\ row.pc = "metrics" /\ row.todo = proc[p].todo \ {f}
  BY <1>t, MetricsEffect
<1>3. proc'[p] = row /\ today' = today
  BY <1>t, <1>2, ProcSet DEF GoesOn
<1>4. row.start = proc[p].start /\ row.end = proc[p].end
  BY <1>2 DEF GoesOn
<1>5. ChunkEnd(p)' = ChunkEnd(p)
  BY <1>2, <1>3, <1>4 DEF ChunkEnd
<1>6. /\ proc[p].start <= proc[p].next /\ proc[p].start <= proc[p].end /\ proc[p].end <= today
      /\ proc[p].next <= proc[p].end
  BY <1>1 DEF DaysInv, Progress
<1>7. ASSUME NEW g \in Platform, NEW d \in Day, row.start <= d, d < row.end,
             d < row.next \/ (g \notin row.todo /\ d <= ChunkEnd(p))
      PROVE  Kept(g, d)'
  <2>1. proc[p].next \in Nat /\ proc[p].end \in Nat /\ today \in Nat /\ d \in Nat
    BY <1>t, <1>1, Numbers
  <2>2. CASE d < row.next
    BY <1>1, <1>2, <1>4, <1>7, <2>2 DEF DaysInv, Progress
  <2>3. CASE ~(d < row.next) /\ g # f
    BY <1>1, <1>2, <1>4, <1>7, <2>3 DEF DaysInv, Progress
  <2>4. CASE ~(d < row.next) /\ g = f
    <3>1. proc[p].next <= d /\ d < today
      BY <1>2, <1>4, <1>6, <1>7, <2>1, <2>4
    <3> QED  BY <1>7, <2>4, <3>1
  <2> QED  BY <2>2, <2>3, <2>4
<1>8. Progress(p)'
  BY <1>2, <1>3, <1>4, <1>5, <1>6, <1>7 DEF Progress
<1> QED  BY <1>1, <1>2, <1>8, SyncGoesOn

LEMMA MetricsKeepsDays ==
  ASSUME DaysInv, NEW p \in Proc, NEW f \in Platform, Metrics(p, f) \/ MetricsFail(p, f)
  PROVE  DaysInv'
<1>t. Types /\ metrics \in [Platform -> [Day -> {NoDay} \cup Day]] /\ today \in Day
  BY DEF DaysInv, Types
<1>n. today \in Nat /\ \A g \in Platform, d \in Day : metrics[g][d] \in Nat /\ d \in Nat
  BY <1>t, Numbers DEF NoDay
<1>1. CASE Metrics(p, f)
  <2> DEFINE new == RowsOf(f, proc[p].next, ChunkEnd(p))
  <2>1. /\ metrics' = Written(f, new) /\ UNCHANGED <<today, swallowed>>
        /\ proc[p] \in SyncRow
    BY <1>t, <1>1, Kinds DEF Metrics, history, Syncs
  <2> HIDE DEF new
  <2>2. \A g \in Platform, d \in Day :
          metrics'[g][d] = IF g = f /\ d \in new THEN today ELSE metrics[g][d]
    BY <1>t, <2>1 DEF Written
  <2>3. metrics' \in [Platform -> [Day -> {NoDay} \cup Day]]
    <3>1. [d \in Day |-> IF d \in new THEN today ELSE metrics[f][d]] \in [Day -> {NoDay} \cup Day]
      BY <1>t
    <3>2. metrics' = [metrics EXCEPT ![f] =
                        [d \in Day |-> IF d \in new THEN today ELSE metrics[f][d]]]
      BY <1>t, <2>1 DEF Written
    <3> QED  BY <1>t, <3>1, <3>2
  <2>4. NotAhead'
    BY <1>n, <2>1, <2>2 DEF DaysInv, NotAhead
  <2>5. ASSUME NEW g \in Platform, NEW d \in Day, Kept(g, d)  PROVE Kept(g, d)'
    <3>1. metrics[g][d] <= today
      BY DEF DaysInv, NotAhead
    <3> QED  BY <1>n, <2>1, <2>2, <2>5, <3>1 DEF Kept, Full
  <2>6. ASSUME NEW d \in Day, proc[p].next <= d, d <= ChunkEnd(p), d < today
        PROVE  Kept(f, d)'
    <3>1. proc[p].next \in Nat \ {0}
      BY <1>t, <2>1, Numbers
    <3>2. d \in new
      BY <1>t, <2>6, <3>1, Reaches DEF new, RowsOf
    <3> QED  BY <1>n, <2>2, <2>6, <3>2 DEF Kept, Full
  <2> QED  BY <1>1, <2>3, <2>4, <2>5, <2>6, MetricsStep
<1>2. CASE MetricsFail(p, f)
  <2>1. /\ UNCHANGED <<today, metrics>>
        /\ swallowed' = swallowed \cup ({f} \X (proc[p].next..ChunkEnd(p)))
        /\ proc[p] \in SyncRow /\ Syncs(p)
    BY <1>t, <1>2, Kinds DEF MetricsFail, history, Syncs
  <2>2. NotAhead'
    BY <2>1 DEF DaysInv, NotAhead
  <2>3. \A g \in Platform, d \in Day : Kept(g, d) => Kept(g, d)'
    BY <2>1 DEF Kept, Full
  <2>4. ASSUME NEW d \in Day, proc[p].next <= d, d <= ChunkEnd(p)
        PROVE  Kept(f, d)'
    <3>1. d \in Nat /\ proc[p].next \in Nat /\ ChunkEnd(p) \in Int
      BY <1>t, <2>1, Numbers, Chunks
    <3>2. d \in proc[p].next..ChunkEnd(p)
      BY <2>4, <3>1
    <3> QED  BY <2>1, <3>2 DEF Kept
  <2> QED  BY <1>t, <1>2, <2>1, <2>2, <2>3, <2>4, MetricsStep
<1> QED  BY <1>1, <1>2

LEMMA FinishSyncKeepsDays ==
  ASSUME DaysInv, NEW p \in Proc, FinishSync(p)
  PROVE  DaysInv'
<1>t. Types
  BY DEF DaysInv
<1>1. proc[p] \in SyncRow /\ Syncs(p) /\ proc[p].pc = "synced" /\ proc[p] # Idle
  BY <1>t, Kinds DEF FinishSync, Syncs
<1>2. /\ proc' = [proc EXCEPT ![p] = Idle]
      /\ UNCHANGED <<today, metrics, recs, calls, swallowed>>
  BY DEF FinishSync
<1>3. recs' \in [Rec -> [day : {NoDay} \cup Day,
                         status : {"none", "pending", "executed", "skipped"}]]
      /\ calls' \in [Rec -> Nat]
  BY <1>t, <1>2 DEF Types
<1>4. CASE ~(proc[p].moves /\ Same(p))
  BY <1>2, <1>3, <1>4, NoDaysChange DEF FinishSync
<1>5. CASE proc[p].moves /\ Same(p)
  <2>1. /\ account' = Moved /\ from' = IF from = NoDay THEN proc[p].start ELSE from
        /\ skipped' = skipped \cup {d \in Day : proc[p].end <= d /\ d < today}
    BY <1>5 DEF FinishSync
  <2>2. /\ account.last # NoDay => proc[p].start <= account.last
        /\ from # NoDay => account.last # NoDay
    BY <1>1, <1>5 DEF DaysInv, Anchored, Same
  <2>n. /\ proc[p].start \in Nat /\ proc[p].next \in Nat /\ proc[p].end \in Nat
        /\ account.last \in Nat /\ from \in Nat /\ today \in Nat /\ proc[p].start \in Day
    BY <1>t, <1>1, Numbers DEF SyncRow
  <2>3. ASSUME NEW f \in Platform, NEW d \in Day, proc[p].start <= d, d < today
        PROVE  Kept(f, d) \/ d \in skipped'
    <3>1. d \in Nat /\ proc[p].end < proc[p].next
      BY <1>t, <1>1, Numbers DEF DaysInv, Progress
    <3>2. CASE proc[p].end <= d
      BY <2>1, <2>3, <3>2
    <3>3. CASE d < proc[p].end
      BY <1>1, <2>n, <2>3, <3>1, <3>3 DEF DaysInv, Progress
    <3> QED  BY <2>n, <3>1, <3>2, <3>3
  <2>4. ASSUME NEW f \in Platform, NEW d \in Day, from' # NoDay, from' <= d, d < today
        PROVE  Kept(f, d) \/ d \in skipped'
    <3>1. d \in Nat
      BY <1>t, Numbers
    <3>2. CASE proc[p].start <= d
      BY <2>3, <2>4, <3>2
    <3>3. CASE d < proc[p].start
      <4>1. from # NoDay /\ from <= d
        BY <2>1, <2>n, <2>4, <3>1, <3>3
      <4>2. d < account.last
        BY <2>2, <2>n, <3>1, <3>3, <4>1
      <4> QED  BY <2>1, <4>1, <4>2 DEF DaysInv, PastIsFull, Kept
    <3> QED  BY <2>n, <3>1, <3>2, <3>3
  <2>5. from' \in {NoDay} \cup Day /\ skipped \subseteq skipped'
    BY <1>t, <2>1, <2>n DEF Types
  <2> QED  BY <1>2, <1>3, <1>5, <2>1, <2>4, <2>5, LastMoves
<1> QED  BY <1>4, <1>5

LEMMA StartKeepsDays ==
  ASSUME DaysInv, NEW p \in Proc, StartSync(p) \/ Backfill(p)
  PROVE  DaysInv'
<1>t. Types /\ today \in Day /\ today <= today /\ account.id \in Nat
  BY Numbers DEF DaysInv, Types
<1>1. PICK row \in SyncRow : Begins(p, row) /\ (row.moves => row.start = First)
  BY StartEffect
<1>2. /\ row.pc = "campaigns" /\ row.next = row.start /\ row.start <= row.end
      /\ row.end <= today /\ row.account = account.id /\ proc' = [proc EXCEPT ![p] = row]
      /\ UNCHANGED <<today, account, metrics, recs, calls, from, swallowed, skipped>>
  BY <1>1 DEF Begins, history
<1>3. /\ proc' \in [Proc -> {Idle} \cup SyncRow \cup RunRow]
      /\ proc'[p] = row /\ \A q \in Proc \ {p} : proc'[q] = proc[q]
  BY <1>t, <1>2, ProcSet
<1>4. Types'
  BY <1>t, <1>2, <1>3 DEF Types
<1>5. \A q \in Proc \ {p} : Progress(q)' /\ Anchored(q)'
  BY <1>t, <1>2, <1>3, OthersGoOn, OthersAnchored DEF Kept, Full
<1>6. row.start \in Nat /\ row.start <= row.start /\ \A d \in Day : d \in Nat
  BY <1>t, Numbers DEF SyncRow
<1>7. Progress(p)'
  BY <1>2, <1>3, <1>6 DEF Progress
<1>8. Anchored(p)'
  <2>1. account.last # NoDay => First = account.last
    BY DEF First
  <2>2. account.id <= account.id /\ account.last <= account.last
    BY <1>t, Numbers
  <2> QED  BY <1>1, <1>2, <1>3, <2>1, <2>2 DEF Anchored
<1> QED  BY <1>2, <1>4, <1>5, <1>7, <1>8 DEF DaysInv, NotAhead, PastIsFull, Full

LEMMA CalendarKeepsDays ==
  ASSUME DaysInv, Midnight \/ Disconnect \/ Connect \/ UNCHANGED vars
  PROVE  DaysInv'
<1>t. Types
  BY DEF DaysInv
<1>1. UNCHANGED <<proc, metrics, recs, calls, swallowed, skipped>>
  BY DEF Midnight, Disconnect, Connect, vars, history
<1>2. today' \in Day /\ today <= today'
  <2>1. today' = today \/ (today < LastDay /\ today' = today + 1)
    BY DEF Midnight, Disconnect, Connect, vars
  <2>2. today \in Day /\ today \in Nat /\ LastDay \in Nat /\ today <= LastDay
    BY <1>t, PlatformAssumption, Numbers DEF Types, Day
  <2> QED  BY <2>1, <2>2 DEF Day
<1>3. /\ account' \in [active : BOOLEAN, id : Nat, last : {NoDay} \cup Day]
      /\ from' \in {NoDay} \cup Day
      /\ \/ UNCHANGED from /\ account'.id = account.id /\ account'.last = account.last
         \/ from' = NoDay /\ account'.id = account.id + 1 /\ account'.last = NoDay
  <2>1. CASE Disconnect
    BY <1>t, <2>1 DEF Disconnect, Deleted, Types
  <2>2. CASE Connect
    BY <1>t, <2>2 DEF Connect, Connected, Types, history
  <2>3. CASE Midnight \/ UNCHANGED vars
    BY <1>t, <2>3 DEF Midnight, vars, Types, history
  <2> QED  BY <2>1, <2>2, <2>3
<1>4. Types'
  BY <1>t, <1>1, <1>2, <1>3 DEF Types
<1>5. \A f \in Platform, d \in Day : Kept(f, d)' = Kept(f, d)
  BY <1>1 DEF Kept, Full
<1>6. ASSUME NEW p \in Proc  PROVE Progress(p)'
  <2>1. Syncs(p)' = Syncs(p) /\ ChunkEnd(p)' = ChunkEnd(p) /\ Progress(p)
    BY <1>1 DEF Syncs, ChunkEnd, DaysInv
  <2>2. Syncs(p) => proc[p].end <= today'
    <3>1. Syncs(p) => proc[p].end \in Nat /\ today \in Nat /\ today' \in Nat
      BY <1>t, <1>2, Kinds, Numbers
    <3> QED  BY <1>2, <2>1, <3>1 DEF Progress
  <2> QED  BY <1>1, <1>5, <2>1, <2>2 DEF Progress
<1>7. ASSUME NEW p \in Proc  PROVE Anchored(p)'
  <2>1. proc[p] # Idle => proc[p].account <= account.id /\ proc[p].account \in Nat
    <3>1. proc[p] # Idle => proc[p] \in SyncRow \cup RunRow
      BY <1>t DEF Types
    <3> QED  BY <3>1 DEF DaysInv, Anchored, SyncRow, RunRow
  <2>2. account.id \in Nat
    BY <1>t DEF Types
  <2> QED  BY <1>1, <1>3, <2>1, <2>2 DEF DaysInv, Anchored, Syncs
<1>8. NotAhead' /\ account'.last <= today'
  <2>1. \A f \in Platform, d \in Day : metrics[f][d] \in Nat
    BY <1>t, Numbers DEF Types, NoDay
  <2>2. today \in Nat /\ today' \in Nat /\ account.last \in Nat /\ NoDay = 0
    BY <1>t, <1>2, Numbers DEF NoDay
  <2>3. \A f \in Platform, d \in Day : metrics[f][d] <= today'
    BY <1>2, <2>1, <2>2 DEF DaysInv, NotAhead
  <2>4. account'.last <= today'
    BY <1>2, <1>3, <2>2 DEF DaysInv
  <2> QED  BY <1>1, <2>3, <2>4 DEF NotAhead
<1>9. PastIsFull' /\ (from' # NoDay => account'.last # NoDay)
  BY <1>1, <1>3 DEF DaysInv, PastIsFull, Full
<1> QED  BY <1>4, <1>6, <1>7, <1>8, <1>9 DEF DaysInv

LEMMA DaysInit == Init => DaysInv
<1> SUFFICES ASSUME Init PROVE DaysInv
  OBVIOUS
<1>1. Types
  BY Days DEF Init, Types, Unsaid
<1>2. today \in Nat /\ 0 <= today /\ NoDay = 0 /\ account.last = NoDay /\ from = NoDay
  BY Days DEF Init
<1>3. \A p \in Proc : ~Syncs(p) /\ proc[p] = Idle
  BY DEF Init, Syncs, Idle
<1>4. NotAhead
  BY <1>2 DEF Init, NotAhead
<1> QED  BY <1>1, <1>2, <1>3, <1>4 DEF DaysInv, Progress, Anchored, PastIsFull

LEMMA DaysStep == DaysInv /\ [Next]_vars => DaysInv'
<1> SUFFICES ASSUME DaysInv, [Next]_vars PROVE DaysInv'
  OBVIOUS
<1>1. CASE Midnight \/ Disconnect \/ Connect \/ UNCHANGED vars
  BY <1>1, CalendarKeepsDays
<1>2. ASSUME NEW p \in Proc, StartSync(p) \/ Backfill(p)  PROVE DaysInv'
  BY <1>2, StartKeepsDays
<1>3. ASSUME NEW p \in Proc, SyncStep(p)  PROVE DaysInv'
  BY <1>3, NextChunkKeepsDays, FinishSyncKeepsDays, CampaignsKeepsDays, MetricsKeepsDays
  DEF SyncStep
<1>4. ASSUME NEW p \in Proc, NEW f \in Platform, Campaigns(p, f, TRUE) \/ MetricsFail(p, f)
      PROVE  DaysInv'
  BY <1>4, CampaignsKeepsDays, MetricsKeepsDays
<1>5. ASSUME NEW p \in Proc,
             \/ StartRun(p) \/ RunStep(p) \/ Refuse(p) \/ Break(p)
             \/ \E r \in Rec : Tried(p, r)
      PROVE  DaysInv'
  BY <1>5, RunsKeepDays, FinishRunKeepsDays DEF RunStep, Tried
<1> QED  BY <1>1, <1>2, <1>3, <1>4, <1>5 DEF Next, Tried

\* Every day from the first sync of the account up to its last sync has its row stored
\* when the day was over, but for failed fetches and days the last sync was moved over:
\* with any number of syncs and runs of the optimizer at once, chunks of any size, and
\* any windows, the widest of which goes back to the first day.
THEOREM PastFull == Spec => []PastIsFull
<1>1. DaysInv => PastIsFull
  BY DEF DaysInv
<1> QED  BY <1>1, DaysInit, DaysStep, PTL DEF Spec

-----------------------------------------------------------------------------
(* What is carried out at Google *)

\* A run has its own recommendations on its list, takes up each once, and none before it
\* has made its list.
Listing(p) ==
  Optimizes(p) =>
    /\ proc[p].own \subseteq Listed(p)
    /\ \A r \in proc[p].todo, o \in {"success", "failed"} : <<r, o>> \notin proc[p].done
    /\ proc[p].pc = "generate" => proc[p].todo = {} /\ proc[p].done = {}

\* Two runs share only what they raced for.
Apart ==
  \A p, q \in Proc, r \in Rec : p # q /\ r \in Listed(p) /\ r \in Listed(q) => r \in raced

\* The run says of r that it was changed, or got no answer that it could read.
Changed(p, r) == Optimizes(p) /\ r \in Uncommitted(p)

\* What is on a list has been changed at most once, and only if that run says so.
Counted ==
  \A p \in Proc, r \in Rec \ (raced \cup lost) :
    r \in Listed(p) => calls[r] <= 1 /\ (calls[r] > 0 => Changed(p, r))

\* What has been changed was so once, and is no longer pending or will not be.
Settled ==
  \A r \in Rec \ (raced \cup lost) :
    calls[r] > 0 => /\ calls[r] = 1
                    /\ recs[r].status \in {"executed", "skipped"} \/ \E p \in Proc : Changed(p, r)

\* What has been changed is on record, or on its way to it.
Noted(r) == <<r, "success">> \in actions \/ (<<r, "failed">> \in actions /\ r \in unread)
OnPaper ==
  \A r \in Rec : calls[r] > 0 => Noted(r) \/ r \in lost \/ \E p \in Proc : Changed(p, r)

CallsInv ==
  /\ \A p \in Proc : Listing(p)
  /\ Apart /\ Counted /\ Settled /\ OnPaper

-----------------------------------------------------------------------------
\* The lists of a run are a function of what it does.
LEMMA RunStays ==
  ASSUME NEW q, proc'[q] = proc[q], unread \subseteq unread'
  PROVE  /\ Optimizes(q)' = Optimizes(q) /\ Listed(q)' = Listed(q) /\ Listing(q)' = Listing(q)
         /\ \A r : Changed(q, r) => Changed(q, r)'
BY DEF Optimizes, Listed, Listing, Changed, Uncommitted

LEMMA NoRunNoList ==
  ASSUME NEW q, ~Optimizes(q)
  PROVE  Listed(q) = {} /\ Listing(q) /\ \A r : ~Changed(q, r)
BY DEF Listed, Listing, Changed

\* Steps of the syncs and of the calendar
LEMMA NotARun ==
  ASSUME CallsInv, UNCHANGED <<recs, actions, calls, raced, unread, lost>>,
         \A q \in Proc : \/ proc'[q] = proc[q]
                         \/ ~Optimizes(q) /\ ~Optimizes(q)'
  PROVE  CallsInv'
<1>1. ASSUME NEW q \in Proc
      PROVE  /\ Listed(q)' = Listed(q) /\ Listing(q)'
             /\ \A r : Changed(q, r) => Changed(q, r)'
  <2>1. CASE proc'[q] = proc[q]
    BY <2>1, RunStays DEF CallsInv
  <2>2. CASE ~Optimizes(q) /\ ~Optimizes(q)'
    BY <2>2 DEF Listed, Listing, Changed
  <2> QED  BY <2>1, <2>2
<1>2. Apart' /\ Counted' /\ Settled' /\ OnPaper'
  BY <1>1 DEF CallsInv, Apart, Counted, Settled, OnPaper, Noted
<1> QED  BY <1>1, <1>2 DEF CallsInv

LEMMA ListOf ==
  ASSUME NEW p \in Proc, Types, proc[p] \in RunRow
  PROVE  /\ Optimizes(p)
         /\ \A r \in Rec : r \in Listed(p) <=> \/ r \in proc[p].todo
                                               \/ <<r, "success">> \in proc[p].done
                                               \/ <<r, "failed">> \in proc[p].done
         /\ \A r \in Rec : Changed(p, r) => r \in Listed(p)
<1>1. Optimizes(p)
  BY Kinds
<1>2. Listed(p) = proc[p].todo \cup {a[1] : a \in proc[p].done}
  BY <1>1 DEF Listed
<1>3. ASSUME NEW r \in Rec
      PROVE  r \in {a[1] : a \in proc[p].done} <=> \/ <<r, "success">> \in proc[p].done
                                                   \/ <<r, "failed">> \in proc[p].done
  <2>1. \A a \in proc[p].done : a = <<a[1], "success">> \/ a = <<a[1], "failed">>
    BY DEF RunRow, Outcomes
  <2>2. <<r, "success">>[1] = r /\ <<r, "failed">>[1] = r
    OBVIOUS
  <2> QED  BY <2>1, <2>2
<1> QED  BY <1>1, <1>2, <1>3 DEF Changed, Uncommitted

LEMMA StartRunCalls ==
  ASSUME Types, Types', CallsInv, NEW p \in Proc, StartRun(p)
  PROVE  CallsInv'
<1>1. PICK row \in RunRow : /\ proc' = [proc EXCEPT ![p] = row]
                            /\ row.own = {} /\ row.todo = {} /\ row.done = {}
  BY StartRunEffect
<1>2. /\ proc'[p] = row /\ \A q \in Proc \ {p} : proc'[q] = proc[q]
      /\ UNCHANGED <<recs, actions, calls, raced, unread, lost>>
  BY <1>1, ProcSet DEF StartRun, history
<1>3. ~Optimizes(p)
  BY StartRunEffect, Kinds
<1>4. Listed(p)' = {} /\ Listing(p)'
  <2>1. Listed(p)' = {}
    BY <1>1, <1>2 DEF Listed
  <2> QED  BY <1>1, <1>2, <2>1 DEF Listing
<1>5. \A r : ~Changed(p, r)
  BY <1>3, NoRunNoList
<1>6. ASSUME NEW q \in Proc \ {p}
      PROVE  /\ Listed(q)' = Listed(q) /\ Listing(q)'
             /\ \A r : Changed(q, r) => Changed(q, r)'
  BY <1>2, RunStays DEF CallsInv
<1>7. Apart' /\ Counted' /\ Settled' /\ OnPaper'
  BY <1>2, <1>4, <1>5, <1>6 DEF CallsInv, Apart, Counted, Settled, OnPaper, Noted
<1> QED  BY <1>4, <1>6, <1>7 DEF CallsInv

LEMMA GenerateCalls ==
  ASSUME Types, Types', CallsInv, NEW p \in Proc, NEW new \in SUBSET Rec, Generate(p, new)
  PROVE  CallsInv'
<1>1. /\ proc[p] \in RunRow /\ proc[p].pc = "generate" /\ Optimizes(p)
      /\ proc[p].todo = {} /\ proc[p].done = {}
  BY GenerateEffect, Kinds DEF CallsInv, Listing
<1>2. PICK row \in RunRow :
        /\ proc' = [proc EXCEPT ![p] = row] /\ row.pc = "execute"
        /\ row.own = new /\ row.done = {}
        /\ row.todo = new \cup {r \in Rec : /\ recs[r].day = proc[p].day
                                            /\ recs[r].status = "pending"}
  BY <1>1, GenerateEffect
<1>3. proc'[p] = row /\ \A q \in Proc \ {p} : proc'[q] = proc[q]
  BY <1>2, ProcSet
<1>4. /\ UNCHANGED <<recs, actions, calls, unread, lost>>
      /\ raced' = raced \cup {r \in row.todo : \E q \in Proc \ {p} : r \in Listed(q)}
      /\ \A r \in new : calls[r] = 0
  BY <1>3 DEF Generate, Unused
<1>5. Optimizes(p)'
  BY <1>2, <1>3 DEF Optimizes
<1>6. Listed(p)' = row.todo /\ Listed(p) = {}
  BY <1>1, <1>2, <1>3, <1>5 DEF Listed
<1>7. Listing(p)' /\ \A r : ~Changed(p, r)
  BY <1>1, <1>2, <1>3, <1>6 DEF Listing, Changed, Uncommitted
<1>8. \A q \in Proc \ {p} : /\ Listed(q)' = Listed(q) /\ Listing(q)'
                            /\ \A r : Changed(q, r) => Changed(q, r)'
  BY <1>3, <1>4, RunStays DEF CallsInv
<1>9. Apart'
  BY <1>4, <1>6, <1>8 DEF CallsInv, Apart
<1>10. Settled'
  BY <1>4, <1>7, <1>8 DEF CallsInv, Settled
<1>11. Counted'
  <2> SUFFICES ASSUME NEW r \in row.todo, r \notin raced', r \notin lost, r \in Rec
               PROVE  calls[r] = 0
    BY <1>4, <1>6, <1>7, <1>8 DEF CallsInv, Counted
  <2>1. CASE r \in new
    BY <1>4, <2>1
  <2>2. CASE r \notin new
    <3>1. recs[r].status = "pending"
      BY <1>2, <2>2
    <3>2. ASSUME NEW q \in Proc, Changed(q, r)  PROVE FALSE
      <4>1. q # p
        BY <1>7, <3>2
      <4>2. proc[q] \in RunRow /\ r \in Listed(q)
        BY <3>2, Kinds, ListOf DEF Changed
      <4> QED  BY <1>4, <4>1, <4>2
    <3>3. calls[r] \in Nat /\ ~(calls[r] > 0)
      BY <1>4, <3>1, <3>2 DEF CallsInv, Settled, Types
    <3> QED  BY <3>3
  <2> QED  BY <2>1, <2>2
<1>12. OnPaper'
  BY <1>4, <1>7, <1>8 DEF CallsInv, OnPaper, Noted
<1> QED  BY <1>7, <1>8, <1>9, <1>10, <1>11, <1>12 DEF CallsInv

\* A recommendation is taken up: it is carried out, or is not, or nobody can tell.
LEMMA CallCalls ==
  ASSUME Types, Types', CallsInv, NEW p \in Proc, NEW r \in Rec, Tried(p, r)
  PROVE  CallsInv'
<1>0. PICK o \in {"success", "failed"} :
        /\ Called(p, r, o)
        /\ \/ calls' = calls /\ unread' = unread
           \/ /\ calls' = AtGoogle(r)
              /\ \/ unread' = unread /\ o = "success"
                 \/ unread' = unread \cup {r} /\ o = "failed"
  BY TriedIsCalled
<1>1. proc[p] \in RunRow /\ r \in proc[p].todo /\ Optimizes(p) /\ r \in Listed(p)
  <2>1. proc[p] \in RunRow /\ r \in proc[p].todo
    BY <1>0, CallEffect
  <2> QED  BY <2>1, ListOf
<1>2. PICK row \in RunRow :
        /\ proc' = [proc EXCEPT ![p] = row] /\ row.pc = proc[p].pc
        /\ row.own = proc[p].own /\ row.todo = proc[p].todo \ {r}
        /\ row.done = proc[p].done \cup {<<r, o>>}
  BY <1>0, CallEffect
<1>3. /\ proc'[p] = row /\ \A q \in Proc \ {p} : proc'[q] = proc[q]
      /\ UNCHANGED <<recs, actions, raced, lost>> /\ unread \subseteq unread'
  BY <1>0, <1>2, ProcSet DEF Called
<1>4. Optimizes(p)' /\ proc[p].pc = "execute"
  BY <1>0, <1>1, <1>2, <1>3 DEF Optimizes, Called
<1>5. \A x \in Rec : x \in Listed(p)' <=> x \in Listed(p)
  <2>1. Listed(p)' = row.todo \cup {a[1] : a \in row.done}
    BY <1>3, <1>4 DEF Listed
  <2>2. Listed(p) = proc[p].todo \cup {a[1] : a \in proc[p].done}
    BY <1>1 DEF Listed
  <2>3. \A x : x \in {a[1] : a \in row.done} <=> x \in {a[1] : a \in proc[p].done} \/ x = r
    <3>1. <<r, o>>[1] = r
      OBVIOUS
    <3> QED  BY <1>2, <3>1
  <2> QED  BY <1>1, <1>2, <2>1, <2>2, <2>3
<1>6. /\ \A x \in proc[p].todo, y \in {"success", "failed"} : <<x, y>> \notin proc[p].done
      /\ proc[p].own \subseteq Listed(p)
  BY <1>1 DEF CallsInv, Listing
<1>7. \A x \in Rec : Changed(p, x) => Changed(p, x)'
  BY <1>1, <1>2, <1>3, <1>4 DEF Changed, Uncommitted
<1>8. Listing(p)'
  <2>1. row.own \subseteq Rec /\ row.own \subseteq Listed(p)'
    BY <1>1, <1>2, <1>5, <1>6 DEF RunRow
  <2>2. ASSUME NEW x \in row.todo, NEW y \in {"success", "failed"}
        PROVE  <<x, y>> \notin row.done
    <3>1. x # r /\ x \in proc[p].todo /\ <<x, y>> \notin proc[p].done
      BY <1>2, <1>6
    <3> QED  BY <1>2, <3>1
  <2> QED  BY <1>2, <1>3, <1>4, <2>1, <2>2 DEF Listing
<1>9. ASSUME NEW q \in Proc \ {p}
      PROVE  /\ Listed(q)' = Listed(q) /\ Listing(q)'
             /\ \A x : Changed(q, x) => Changed(q, x)'
  BY <1>3, RunStays DEF CallsInv
<1>10. Apart'
  BY <1>3, <1>5, <1>9 DEF CallsInv, Apart
<1>11. /\ calls \in [Rec -> Nat] /\ calls' \in [Rec -> Nat]
       /\ \A x \in Rec \ {r} : calls'[x] = calls[x]
       /\ calls'[r] = calls[r] \/ (calls'[r] = calls[r] + 1 /\ Changed(p, r)')
  <2>1. calls \in [Rec -> Nat] /\ calls' \in [Rec -> Nat]
    BY DEF Types
  <2>2. CASE calls' = calls
    BY <2>1, <2>2
  <2>3. CASE calls' = AtGoogle(r)
    <3>1. calls' = [calls EXCEPT ![r] = calls[r] + 1]
      BY <2>3 DEF AtGoogle
    <3>2. calls' # calls
      BY <2>1, <3>1
    <3>3. \/ o = "success"
          \/ o = "failed" /\ r \in unread'
      BY <1>0, <3>2
    <3>4. Changed(p, r)'
      BY <1>2, <1>3, <1>4, <3>3 DEF Changed, Uncommitted
    <3> QED  BY <2>1, <3>1, <3>4
  <2> QED  BY <1>0, <2>2, <2>3
<1>12. r \notin raced \cup lost => calls[r] = 0
  BY <1>1, <1>6, <1>11 DEF CallsInv, Counted, Changed, Uncommitted
<1>13. Counted'
  <2> SUFFICES ASSUME NEW q \in Proc, NEW x \in Rec \ (raced \cup lost), x \in Listed(q)'
               PROVE  calls'[x] <= 1 /\ (calls'[x] > 0 => Changed(q, x)')
    BY <1>3 DEF Counted
  <2>1. CASE q = p /\ x = r
    BY <1>11, <1>12, <2>1
  <2>2. CASE q = p /\ x # r
    BY <1>5, <1>7, <1>11, <2>2 DEF CallsInv, Counted
  <2>3. CASE q # p
    <3>1. x # r
      BY <1>1, <1>9, <2>3 DEF CallsInv, Apart
    <3> QED  BY <1>9, <1>11, <2>3, <3>1 DEF CallsInv, Counted
  <2> QED  BY <2>1, <2>2, <2>3
<1>14. Settled'
  <2> SUFFICES ASSUME NEW x \in Rec \ (raced \cup lost), calls'[x] > 0
               PROVE  /\ calls'[x] = 1
                      /\ \/ recs[x].status \in {"executed", "skipped"}
                         \/ \E q \in Proc : Changed(q, x)'
    BY <1>3 DEF Settled
  <2>1. CASE x = r
    BY <1>11, <1>12, <2>1
  <2>2. CASE x # r
    <3>1. /\ calls[x] = 1
          /\ recs[x].status \in {"executed", "skipped"} \/ \E q \in Proc : Changed(q, x)
      BY <1>11, <2>2 DEF CallsInv, Settled
    <3>2. \A q \in Proc : Changed(q, x) => Changed(q, x)'
      BY <1>7, <1>9
    <3> QED  BY <1>11, <2>2, <3>1, <3>2
  <2> QED  BY <2>1, <2>2
<1>15. OnPaper'
  <2> SUFFICES ASSUME NEW x \in Rec, calls'[x] > 0, \A q \in Proc : ~Changed(q, x)'
               PROVE  Noted(x)' \/ x \in lost'
    BY DEF OnPaper
  <2>1. calls[x] > 0
    BY <1>11
  <2>2. \A q \in Proc : ~Changed(q, x)
    BY <1>7, <1>9
  <2>3. Noted(x) \/ x \in lost
    BY <2>1, <2>2 DEF CallsInv, OnPaper
  <2> QED  BY <1>3, <2>3 DEF Noted
<1> QED  BY <1>8, <1>9, <1>10, <1>13, <1>14, <1>15 DEF CallsInv

\* A run commits and ends
LEMMA RecordCalls ==
  ASSUME Types, Types', CallsInv, NEW p \in Proc, Record(p), proc[p] \in RunRow,
         UNCHANGED <<calls, raced, unread, lost>>
  PROVE  CallsInv'
<1>1. proc'[p] = Idle /\ \A q \in Proc \ {p} : proc'[q] = proc[q]
  BY RecordEffect, ProcSet
<1>2. ~Optimizes(p)'
  BY <1>1 DEF Optimizes, Idle
<1>3. Listed(p)' = {} /\ Listing(p)'
  BY <1>2 DEF Listed, Listing
<1>4. ASSUME NEW q \in Proc \ {p}
      PROVE  /\ Listed(q)' = Listed(q) /\ Listing(q)'
             /\ \A x : Changed(q, x) => Changed(q, x)'
  BY <1>1, RunStays DEF CallsInv
<1>5. Apart' /\ Counted'
  BY <1>3, <1>4 DEF CallsInv, Apart, Counted
<1>6. actions' = actions \cup proc[p].done
  BY DEF Record
<1>7. OnPaper'
  <2>1. \A x \in Rec : Changed(p, x) => Noted(x)'
    BY <1>6 DEF Changed, Uncommitted, Noted
  <2>2. \A x \in Rec : Noted(x) => Noted(x)'
    BY <1>6 DEF Noted
  <2> QED  BY <1>4, <2>1, <2>2 DEF CallsInv, OnPaper
<1>8. ASSUME NEW x \in Rec
      PROVE  /\ Changed(p, x) => recs'[x].status \in {"executed", "skipped"}
             /\ x \notin Listed(p) => recs'[x] = recs[x]
  <2>1. recs'[x] = IF x \in proc[p].own THEN [day |-> proc[p].day, status |-> Status(p, x)]
                   ELSE IF Status(p, x) # "pending" THEN [recs[x] EXCEPT !.status = Status(p, x)]
                   ELSE recs[x]
    BY DEF Record
  <2>2. recs[x] \in [day : {NoDay} \cup Day,
                     status : {"none", "pending", "executed", "skipped"}]
    BY DEF Types
  <2>3. CASE Changed(p, x)
    <3>1. Status(p, x) \in {"executed", "skipped"}
      BY <2>3 DEF Status, Changed, Uncommitted
    <3>2. x \in Listed(p)
      BY <2>3, ListOf
    <3> QED  BY <2>1, <2>2, <3>1, <3>2
  <2>4. CASE ~Changed(p, x) /\ x \notin Listed(p)
    <3>1. x \notin proc[p].own /\ Status(p, x) = "pending"
      BY <2>4, ListOf DEF Status, CallsInv, Listing
    <3> QED  BY <2>1, <2>4, <3>1
  <2> QED  BY <2>3, <2>4
<1>9. Settled'
  <2> SUFFICES ASSUME NEW x \in Rec \ (raced \cup lost), calls[x] > 0
               PROVE  /\ calls[x] = 1
                      /\ \/ recs'[x].status \in {"executed", "skipped"}
                         \/ \E q \in Proc : Changed(q, x)'
    BY DEF Settled
  <2>1. /\ calls[x] = 1
        /\ recs[x].status \in {"executed", "skipped"} \/ \E q \in Proc : Changed(q, x)
    BY DEF CallsInv, Settled
  <2>2. CASE x \in Listed(p)
    BY <1>8, <2>1, <2>2 DEF CallsInv, Counted
  <2>3. CASE x \notin Listed(p)
    <3>1. ~Changed(p, x)
      BY <2>3, ListOf
    <3> QED  BY <1>4, <1>8, <2>1, <2>3, <3>1
  <2> QED  BY <2>1, <2>2, <2>3
<1> QED  BY <1>3, <1>4, <1>5, <1>7, <1>9 DEF CallsInv

\* A run breaks down: what it has carried out goes unrecorded.
LEMMA BreakCalls ==
  ASSUME Types, Types', CallsInv, NEW p \in Proc, Break(p)
  PROVE  CallsInv'
<1>1. /\ proc'[p] = Idle /\ \A q \in Proc \ {p} : proc'[q] = proc[q]
      /\ UNCHANGED <<recs, actions, calls, raced, unread>>
  BY DEF Break, Types
<1>2. ~Optimizes(p)'
  BY <1>1 DEF Optimizes, Idle
<1>3. Listed(p)' = {} /\ Listing(p)'
  BY <1>2 DEF Listed, Listing
<1>4. ASSUME NEW q \in Proc \ {p}
      PROVE  /\ Listed(q)' = Listed(q) /\ Listing(q)'
             /\ \A x : Changed(q, x) => Changed(q, x)'
  BY <1>1, RunStays DEF CallsInv
<1>5. lost \subseteq lost' /\ \A x \in Rec : Changed(p, x) => x \in lost'
  BY DEF Break, Changed
<1>6. Apart' /\ Counted'
  BY <1>1, <1>3, <1>4, <1>5 DEF CallsInv, Apart, Counted
<1>7. OnPaper'
  BY <1>1, <1>4, <1>5 DEF CallsInv, OnPaper, Noted
<1>8. Settled'
  BY <1>1, <1>4, <1>5 DEF CallsInv, Settled
<1> QED  BY <1>3, <1>4, <1>6, <1>7, <1>8 DEF CallsInv

LEMMA CallsInit == Init => CallsInv
<1> SUFFICES ASSUME Init PROVE CallsInv
  OBVIOUS
<1>1. \A p \in Proc : ~Optimizes(p)
  BY DEF Init, Optimizes, Idle
<1>2. \A p \in Proc : Listed(p) = {} /\ Listing(p)
  BY <1>1, NoRunNoList
<1>3. \A r \in Rec : calls[r] = 0
  BY DEF Init
<1> QED  BY <1>2, <1>3 DEF CallsInv, Apart, Counted, Settled, OnPaper

LEMMA CallsStep == DaysInv /\ CallsInv /\ [Next]_vars => CallsInv'
<1> SUFFICES ASSUME DaysInv, CallsInv, [Next]_vars PROVE CallsInv'
  OBVIOUS
<1>t. Types /\ Types'
  BY DaysStep DEF DaysInv
<1>1. CASE Midnight \/ Disconnect \/ Connect \/ UNCHANGED vars
  <2>1. UNCHANGED <<proc, recs, actions, calls, raced, unread, lost>>
    BY <1>1 DEF Midnight, Disconnect, Connect, vars, history
  <2> QED  BY <2>1, NotARun
<1>2. ASSUME NEW p \in Proc, StartSync(p) \/ Backfill(p) \/ SyncStep(p)
               \/ \E f \in Platform : Campaigns(p, f, TRUE) \/ MetricsFail(p, f)
      PROVE  CallsInv'
  <2>1. /\ UNCHANGED <<recs, actions, calls, raced, unread, lost>>
        /\ \A q \in Proc \ {p} : proc'[q] = proc[q]
        /\ proc'[p] \in {Idle} \cup SyncRow /\ (proc[p] = Idle \/ Syncs(p))
    <3>1. CASE StartSync(p) \/ Backfill(p)
      <4>1. PICK row \in SyncRow : Begins(p, row)
        BY <3>1, StartEffect
      <4>2. UNCHANGED <<recs, calls, raced, unread, lost>> /\ proc' = [proc EXCEPT ![p] = row]
        BY <4>1 DEF Begins, history
      <4> QED  BY <1>t, <3>1, <4>2, ProcSet, StartEffect DEF StartSync, Backfill
    <3>2. ASSUME NEW f \in Platform, NEW fails \in BOOLEAN, Campaigns(p, f, fails)
          PROVE  /\ UNCHANGED <<recs, actions, calls, raced, unread, lost>>
                 /\ \A q \in Proc \ {p} : proc'[q] = proc[q]
                 /\ proc'[p] \in {Idle} \cup SyncRow /\ Syncs(p)
      BY <1>t, <3>2, CampaignsEffect, ProcSet, Kinds DEF GoesOn
    <3>3. ASSUME NEW f \in Platform, Metrics(p, f) \/ MetricsFail(p, f)
          PROVE  /\ UNCHANGED <<recs, actions, calls, raced, unread, lost>>
                 /\ \A q \in Proc \ {p} : proc'[q] = proc[q]
                 /\ proc'[p] \in {Idle} \cup SyncRow /\ Syncs(p)
      BY <1>t, <3>3, MetricsEffect, ProcSet, Kinds DEF GoesOn
    <3>4. CASE NextChunk(p)
      <4>1. Syncs(p) /\ proc[p].pc # "synced"
        BY <3>4 DEF NextChunk, Syncs
      <4>2. proc[p].next <= proc[p].end
        BY <4>1 DEF DaysInv, Progress
      <4> QED  BY <1>t, <3>4, <4>1, <4>2, NextChunkEffect, ProcSet DEF GoesOn
    <3>5. CASE FinishSync(p)
      BY <1>t, <3>5 DEF FinishSync, Syncs, Types
    <3> QED  BY <1>2, <3>1, <3>2, <3>3, <3>4, <3>5 DEF SyncStep
  <2>2. ~Optimizes(p)
    BY <1>t, <2>1, Kinds
  <2>3. ~Optimizes(p)'
    BY <2>1 DEF Optimizes, Idle, SyncRow
  <2> QED  BY <2>1, <2>2, <2>3, NotARun
<1>3. ASSUME NEW p \in Proc, StartRun(p)  PROVE CallsInv'
  BY <1>t, <1>3, StartRunCalls
<1>4. ASSUME NEW p \in Proc, RunStep(p) \/ \E r \in Rec : Tried(p, r)  PROVE CallsInv'
  <2>1. CASE FinishRun(p)
    BY <1>t, <2>1, Kinds, RecordCalls DEF FinishRun, Optimizes
  <2> QED  BY <1>t, <1>4, <2>1, GenerateCalls, CallCalls DEF RunStep, Tried
<1>5. ASSUME NEW p \in Proc, Refuse(p)  PROVE CallsInv'
  BY <1>t, <1>5, Kinds, RecordCalls DEF Refuse, Optimizes, history
<1>6. ASSUME NEW p \in Proc, Break(p)  PROVE CallsInv'
  BY <1>t, <1>6, BreakCalls
<1> QED  BY <1>1, <1>2, <1>3, <1>4, <1>5, <1>6 DEF Next, Tried

\* What was changed at Google is on record as a success, and at least as a failure where
\* the answer was not read, or will be when the run ends, unless the run broke down before
\* its commit.
THEOREM Recorded == Spec => []ChangeIsRecorded
<1>1. DaysInv /\ CallsInv => ChangeIsRecorded
  BY DEF CallsInv, OnPaper, Noted, Changed, Uncommitted, ChangeIsRecorded, OnRecord
<1> QED  BY <1>1, DaysInit, DaysStep, CallsInit, CallsStep, PTL DEF Spec

\* No recommendation is carried out twice at Google, but by two runs at once and after
\* a run that broke down.
THEOREM OnceAtGoogle == Spec => []CalledOnce
<1>1. ASSUME DaysInv, CallsInv  PROVE CalledOnce
  <2> SUFFICES ASSUME NEW r \in Rec \ (raced \cup lost) PROVE calls[r] <= 1
    BY DEF CalledOnce
  <2>1. calls[r] \in Nat /\ (calls[r] > 0 => calls[r] = 1)
    BY <1>1 DEF DaysInv, Types, CallsInv, Settled
  <2> QED  BY <2>1
<1> QED  BY <1>1, DaysInit, DaysStep, CallsInit, CallsStep, PTL DEF Spec

-----------------------------------------------------------------------------
(***************************************************************************)
(* Proofs about Reviews for any configurations, locations, reviews and     *)
(* processes.                                                              *)
(***************************************************************************)

USE ReviewsAssumption

\* Configurations stand where the account was connected, or where the listing is.
Places == {FirstLocation, Home}

ConfigRow == [loc : Places \cup {Nowhere}, active : BOOLEAN, pinned : BOOLEAN]

\* What a process does: nothing, a sync, or a refresh that a sync may follow
Working ==
  [pc : {"business"}, config : Config, loc : Places, todo : SUBSET Review, got : SUBSET Review]
    \cup [pc : {"places", "next"}, config : Config, loc : Places, todo : SUBSET Review,
          got : SUBSET Review, now : BOOLEAN]

ReviewTypes ==
  /\ placed \in BOOLEAN /\ google \subseteq Review
  /\ configs \in [Config -> ConfigRow]
  /\ rows \in [Row -> Location \cup {Nowhere}]
  /\ snapshots \subseteq Location
  /\ job \in [Handler -> {NoJob} \cup Working]
  /\ pin \in {"never", "pinned", "given up"} /\ stranded \subseteq Location

\* A configuration that stands nowhere is none.
Standing == \A c \in Config : configs[c].loc = Nowhere => configs[c] = Absent

RefreshInv == ReviewTypes /\ Standing /\ RowsFollowConfig /\ PinStays

-----------------------------------------------------------------------------
LEMMA ReviewConstants ==
  Places \subseteq Location /\ Nowhere \notin Places /\ FirstConfig \in Config
BY DEF Places

LEMMA RowsOfConfigs ==
  /\ Absent \in ConfigRow /\ Absent.loc = Nowhere /\ ~Absent.active /\ ~Absent.pinned
  /\ \A l \in Places : New(l) \in ConfigRow /\ New(l).loc = l /\ ~New(l).pinned
BY DEF Absent, New, ConfigRow

LEMMA RefreshInit ==
  ReviewsInit => RefreshInv
<1> SUFFICES ASSUME ReviewsInit PROVE RefreshInv
  OBVIOUS
<1> USE ReviewConstants, RowsOfConfigs
<1>1. FirstLocation \in Places
  BY DEF Places
<1>2. ReviewTypes
  BY <1>1 DEF ReviewsInit, ReviewTypes, NoJob
<1>3. Standing
  BY <1>1 DEF ReviewsInit, Standing
<1>4. RowsFollowConfig
  <2>1. \A l \in Location : ~Counts(l)
    BY DEF ReviewsInit, Counts
  <2> QED  BY <2>1 DEF ReviewsInit, RowsFollowConfig
<1>5. PinStays
  BY DEF ReviewsInit, PinStays
<1> QED  BY <1>2, <1>3, <1>4, <1>5 DEF RefreshInv

LEMMA Busy ==
  ASSUME ReviewTypes, NEW p \in Handler, job[p].pc # "idle"
  PROVE  job[p] \in Working
<1>1. NoJob.pc = "idle"
  BY DEF NoJob
<1> QED  BY <1>1 DEF ReviewTypes

\* The target of an answer of Places, and what an answer does to the rows
LEMMA Answers ==
  ASSUME ReviewTypes, NEW p \in Handler, job[p].pc = "places"
  PROVE  /\ job[p] \in Working /\ job[p].config \in Config /\ job[p].loc \in Places
         /\ Target(p) \in Places
         /\ Moves(p) => Target(p) = Home /\ job[p].loc = FirstLocation /\ FirstLocation # Home
         /\ ~Moves(p) => Target(p) = job[p].loc
<1>1. job[p] \in Working
  BY Busy
<1>2. job[p].config \in Config /\ job[p].loc \in Places
  BY <1>1 DEF Working
<1> QED  BY <1>1, <1>2 DEF Target, Moves, Places

LEMMA UpsertRows ==
  ASSUME NEW old \in [Row -> Location \cup {Nowhere}],
         NEW source, NEW rs, NEW l \in Location
  PROVE  /\ Upsert(old, source, rs, l) \in [Row -> Location \cup {Nowhere}]
         /\ \A k \in Row : \/ Upsert(old, source, rs, l)[k] = old[k]
                           \/ Upsert(old, source, rs, l)[k] = l
BY DEF Upsert

\* After what a process does next
LEMMA Afterwards ==
  ASSUME ReviewTypes, NEW p \in Handler, job[p].pc = "places", NEW l \in Places
  PROVE  After(p, l) \in [Handler -> {NoJob} \cup Working]
<1>1. job[p] \in [pc : {"places", "next"}, config : Config, loc : Places, todo : SUBSET Review,
                   got : SUBSET Review, now : BOOLEAN]
  BY Answers DEF Working
<1>2. [job[p] EXCEPT !.pc = "next", !.loc = l] \in Working
  BY <1>1 DEF Working
<1> QED  BY <1>2 DEF After, ReviewTypes

LEMMA BeginsSync ==
  ASSUME ReviewTypes, NEW p \in Handler, NEW c \in Config,
         configs[c].loc \in Places
  PROVE  Begin(p, c) \in [Handler -> {NoJob} \cup Working]
BY DEF Begin, ReviewTypes, Working

-----------------------------------------------------------------------------
(* The steps that change no configuration *)

\* What a process does may change alone.
LEMMA ProcessOnly ==
  ASSUME RefreshInv,
         UNCHANGED <<placed, configs, google, rows, snapshots, reviewsHistory>>,
         job' \in [Handler -> {NoJob} \cup Working]
  PROVE  RefreshInv'
BY DEF RefreshInv, ReviewTypes, Standing, RowsFollowConfig, PinStays, Counts, At, reviewsHistory

LEMMA IdleAgain ==
  ASSUME ReviewTypes, NEW p \in Handler
  PROVE  [job EXCEPT ![p] = NoJob] \in [Handler -> {NoJob} \cup Working]
BY DEF ReviewTypes

LEMMA QuietSteps ==
  ASSUME RefreshInv, NEW p \in Handler,
         \/ \E r \in Review : Page(p, r)
         \/ \E c \in Config : StartReviews(p, c) \/ \E now \in BOOLEAN : StartRefresh(p, c, now)
         \/ RefusePlaces(p) \/ GoOn(p) \/ FailRefresh(p) \/ Interrupt(p)
  PROVE  RefreshInv'
<1>t. ReviewTypes /\ Standing
  BY DEF RefreshInv
<1>1. ASSUME NEW r \in Review, Page(p, r)  PROVE RefreshInv'
  <2>1. job[p] \in Working /\ job[p].pc = "business"
    BY <1>t, <1>1, Busy DEF Page
  <2>2. [job[p] EXCEPT !.todo = @ \ {r}, !.got = @ \cup {r}] \in Working
    BY <2>1 DEF Working
  <2>3. job' \in [Handler -> {NoJob} \cup Working]
    BY <1>t, <1>1, <2>2 DEF Page, ReviewTypes
  <2> QED  BY <1>1, <2>3, ProcessOnly DEF Page
<1>s. ASSUME NEW c \in Config, configs[c].active  PROVE configs[c].loc \in Places
  BY <1>t, <1>s, RowsOfConfigs DEF ReviewTypes, Standing, ConfigRow
<1>2. ASSUME NEW c \in Config, StartReviews(p, c)  PROVE RefreshInv'
  <2>1. job' \in [Handler -> {NoJob} \cup Working]
    BY <1>t, <1>s, <1>2, BeginsSync DEF StartReviews
  <2> QED  BY <1>2, <2>1, ProcessOnly DEF StartReviews
<1>3. ASSUME NEW c \in Config, NEW now \in BOOLEAN, StartRefresh(p, c, now)  PROVE RefreshInv'
  <2>1. ASSUME NEW some \in SUBSET google
        PROVE  [pc |-> "places", config |-> c, loc |-> configs[c].loc, todo |-> {},
                got |-> some, now |-> now] \in Working
    BY <1>t, <1>s, <1>3 DEF StartRefresh, ReviewTypes, Working
  <2>2. job' \in [Handler -> {NoJob} \cup Working]
    BY <1>t, <1>3, <2>1 DEF StartRefresh, ReviewTypes
  <2> QED  BY <1>3, <2>2, ProcessOnly DEF StartRefresh
<1>4. CASE RefusePlaces(p)
  <2>1. job' \in [Handler -> {NoJob} \cup Working]
    BY <1>t, <1>4, Answers, Afterwards DEF RefusePlaces
  <2> QED  BY <1>4, <2>1, ProcessOnly DEF RefusePlaces
<1>5. CASE GoOn(p)
  <2> DEFINE ready == {c \in At(job[p].loc) : configs[c].active /\ configs[c].pinned}
  <2>1. CASE ready = {}
    <3>1. job' \in [Handler -> {NoJob} \cup Working]
      BY <1>t, <1>5, <2>1, IdleAgain DEF GoOn
    <3> QED  BY <1>5, <3>1, ProcessOnly DEF GoOn
  <2>2. CASE ready # {}
    <3>1. PICK c \in ready : job' = Begin(p, c)
      BY <1>5, <2>2 DEF GoOn
    <3>2. c \in Config /\ configs[c].loc \in Places
      BY <1>s DEF At
    <3>3. job' \in [Handler -> {NoJob} \cup Working]
      BY <1>t, <3>1, <3>2, BeginsSync
    <3> QED  BY <1>5, <3>3, ProcessOnly DEF GoOn
  <2> QED  BY <2>1, <2>2
<1>6. CASE FailRefresh(p) \/ Interrupt(p)
  BY <1>t, <1>6, IdleAgain, ProcessOnly DEF FailRefresh, Interrupt
<1> QED  BY <1>1, <1>2, <1>3, <1>4, <1>5, <1>6

-----------------------------------------------------------------------------
(* The steps that write rows: what stood somewhere still does *)

\* Rows and snapshots at other locations are as before.
LEMMA WrittenAt ==
  ASSUME RefreshInv, NEW l \in Places,
         UNCHANGED <<placed, configs, google, pin>>,
         job' \in [Handler -> {NoJob} \cup Working],
         rows' \in [Row -> Location \cup {Nowhere}],
         \A k \in Row : rows'[k] = rows[k] \/ rows'[k] = l,
         snapshots' \subseteq snapshots \cup {l},
         Strands(l)
  PROVE  RefreshInv'
<1>1. ReviewTypes' /\ Standing' /\ PinStays'
  BY ReviewConstants DEF RefreshInv, ReviewTypes, Standing, PinStays, Strands
<1>2. ASSUME NEW m \in Location, m \notin stranded', m \in snapshots' \/ Counts(m)'
      PROVE  At(m)' # {}
  <2>1. At(m)' = At(m)
    BY DEF At
  <2>2. CASE m = l
    BY <1>2, <2>1, <2>2 DEF Strands
  <2>3. CASE m # l
    <3>1. m \in snapshots \/ Counts(m)
      BY <1>2, <2>3 DEF Counts
    <3>2. m \notin stranded
      BY <1>2 DEF Strands
    <3> QED  BY <2>1, <3>1, <3>2 DEF RefreshInv, RowsFollowConfig
  <2> QED  BY <2>2, <2>3
<1>3. RowsFollowConfig'
  BY <1>2 DEF RowsFollowConfig
<1> QED  BY <1>1, <1>3 DEF RefreshInv

LEMMA SyncSteps ==
  ASSUME RefreshInv, NEW p \in Handler, FinishReviews(p) \/ RefusePage(p)
  PROVE  RefreshInv'
<1>t. ReviewTypes
  BY DEF RefreshInv
<1> DEFINE l == job[p].loc
<1>1. job[p] \in Working
  BY <1>t, Busy DEF FinishReviews, RefusePage
<1>2. l \in Places /\ l \in Location
  BY <1>1, ReviewConstants DEF Working
<1>3. /\ rows' \in [Row -> Location \cup {Nowhere}]
      /\ \A k \in Row : rows'[k] = rows[k] \/ rows'[k] = l
  <2>1. rows' = Upsert(rows, "business", job[p].got, l)
    BY DEF FinishReviews, RefusePage
  <2>2. rows \in [Row -> Location \cup {Nowhere}]
    BY <1>t DEF ReviewTypes
  <2> HIDE DEF l
  <2> QED  BY <1>2, <2>1, <2>2, UpsertRows
<1>4. snapshots' \subseteq snapshots \cup {l}
  BY DEF FinishReviews, RefusePage, Saved
<1>5. job' \in [Handler -> {NoJob} \cup Working]
  BY <1>t, IdleAgain DEF FinishReviews, RefusePage
<1>6. Strands(l) /\ UNCHANGED <<placed, configs, google, pin>>
  BY DEF FinishReviews, RefusePage
<1> HIDE DEF l
<1> QED  BY <1>2, <1>3, <1>4, <1>5, <1>6, WrittenAt

\* A refresh that finds its configuration where it was
LEMMA RefreshInPlace ==
  ASSUME RefreshInv, NEW p \in Handler, FinishRefresh(p), ~Moves(p)
  PROVE  RefreshInv'
<1>t. ReviewTypes
  BY DEF RefreshInv
<1> DEFINE l == Target(p)
<1>1. job[p].pc = "places" /\ l \in Places /\ l \in Location /\ l = job[p].loc
  BY <1>t, Answers, ReviewConstants DEF FinishRefresh
<1>2. rows' = Upsert(rows, "places", job[p].got, l)
  BY DEF FinishRefresh, Refreshed
<1>3. /\ rows' \in [Row -> Location \cup {Nowhere}]
      /\ \A k \in Row : rows'[k] = rows[k] \/ rows'[k] = l
  <2>1. rows \in [Row -> Location \cup {Nowhere}]
    BY <1>t DEF ReviewTypes
  <2> HIDE DEF l
  <2> QED  BY <1>1, <1>2, <2>1, UpsertRows
<1>4. snapshots' \subseteq snapshots \cup {l}
  BY DEF FinishRefresh, Saved
<1>5. job' \in [Handler -> {NoJob} \cup Working]
  BY <1>t, <1>1, Afterwards DEF FinishRefresh
<1>6. Strands(l) /\ UNCHANGED <<placed, configs, google, pin>>
  BY DEF FinishRefresh
<1> HIDE DEF l
<1> QED  BY <1>1, <1>3, <1>4, <1>5, <1>6, WrittenAt

\* A refresh that moves its configuration to the location of the listing.  Every row and
\* snapshot of the location it has read goes there, and the configuration stands there
\* in the end, wherever another refresh has moved it meanwhile.
LEMMA RefreshMoves ==
  ASSUME RefreshInv, NEW p \in Handler, FinishRefresh(p), Moves(p)
  PROVE  RefreshInv'
<1>t. ReviewTypes /\ Standing /\ RowsFollowConfig /\ PinStays
  BY DEF RefreshInv
<1> DEFINE c == job[p].config
           moved == Move(job[p].loc, Home)
<1>1. /\ job[p].pc = "places" /\ c \in Config /\ configs[c] # Absent
      /\ Target(p) = Home /\ job[p].loc = FirstLocation /\ FirstLocation # Home
  BY <1>t, Answers DEF FinishRefresh
<1>h. Home \in Places /\ Home \in Location /\ FirstLocation \in Location
  BY DEF Places
<1>2. configs' = Repoint(c, Home)
  BY <1>1 DEF FinishRefresh
<1>3. /\ configs'[c] = [configs[c] EXCEPT !.loc = Home]
      /\ \A d \in Config \ {c} :
           configs'[d] = IF configs[d].loc = Home THEN Absent ELSE configs[d]
  BY <1>1, <1>2 DEF Repoint
<1>4. [configs[c] EXCEPT !.loc = Home] \in ConfigRow
  <2>1. configs[c] \in ConfigRow
    BY <1>t, <1>1 DEF ReviewTypes
  <2>2. \A row \in ConfigRow : [row EXCEPT !.loc = Home] \in ConfigRow
    BY <1>h DEF ConfigRow
  <2> QED  BY <2>1, <2>2
<1>5. configs' \in [Config -> ConfigRow]
  BY <1>t, <1>2, <1>4, RowsOfConfigs DEF Repoint, ReviewTypes
<1>6. configs'[c].loc = Home /\ configs'[c].pinned = configs[c].pinned
  <2>1. configs[c] \in ConfigRow
    BY <1>t, <1>1 DEF ReviewTypes
  <2>2. [configs[c] EXCEPT !.loc = Home].loc = Home
        /\ [configs[c] EXCEPT !.loc = Home].pinned = configs[c].pinned
    BY <2>1 DEF ConfigRow
  <2> QED  BY <1>3, <2>2
<1>7. /\ moved \in [Row -> Location \cup {Nowhere}]
      /\ \A k \in Row : moved[k] # FirstLocation
      /\ \A k \in Row : moved[k] = rows[k] \/ moved[k] = Home
  BY <1>t, <1>1, <1>h DEF ReviewTypes, Move
<1>8. rows' = Upsert(moved, "places", job[p].got, Home)
  BY <1>1 DEF FinishRefresh, Refreshed
<1>9. /\ rows' \in [Row -> Location \cup {Nowhere}]
      /\ \A k \in Row : rows'[k] = Home \/ (rows'[k] = rows[k] /\ rows'[k] # FirstLocation)
  <2> HIDE DEF moved
  <2> QED  BY <1>1, <1>7, <1>8, <1>h, UpsertRows
<1>10. snapshots' = (snapshots \ {FirstLocation}) \cup {Home}
  BY <1>1 DEF FinishRefresh, Saved
<1>11. ReviewTypes'
  <2>1. job' \in [Handler -> {NoJob} \cup Working]
    BY <1>t, <1>1, <1>h, Afterwards DEF FinishRefresh
  <2>2. pin' \in {"never", "pinned", "given up"} /\ UNCHANGED <<placed, google, stranded>>
    BY <1>t DEF FinishRefresh, ReviewTypes
  <2> QED  BY <1>t, <1>5, <1>9, <1>10, <1>h, <2>1, <2>2 DEF ReviewTypes
<1>12. Standing'
  BY <1>t, <1>3, <1>6, <1>h, RowsOfConfigs DEF Standing
<1>13. RowsFollowConfig'
  <2> SUFFICES ASSUME NEW m \in Location, m \notin stranded', m \in snapshots' \/ Counts(m)'
               PROVE  At(m)' # {}
    BY DEF RowsFollowConfig
  <2>1. CASE m = Home
    BY <1>1, <1>6, <2>1 DEF At
  <2>2. CASE m # Home
    <3>1. m # FirstLocation /\ (m \in snapshots \/ Counts(m))
      BY <1>9, <1>10, <2>2 DEF Counts
    <3>2. m \notin stranded
      BY DEF FinishRefresh
    <3>3. PICK d \in Config : configs[d].loc = m
      BY <1>t, <3>1, <3>2 DEF RowsFollowConfig, At
    <3>4. m \in Places
      BY <1>t, <3>3 DEF ReviewTypes, ConfigRow
    <3> QED  BY <2>2, <3>1, <3>4 DEF Places
  <2> QED  BY <2>1, <2>2
<1>14. PinStays'
  <2> SUFFICES ASSUME pin' = "pinned"  PROVE \E d \in Config : configs'[d].pinned
    BY DEF PinStays
  <2>1. pin = "pinned" /\ \A d \in At(Home) \ {c} : ~configs[d].pinned
    BY <1>1 DEF FinishRefresh
  <2>2. PICK d \in Config : configs[d].pinned
    BY <1>t, <2>1 DEF PinStays
  <2>3. CASE d = c
    BY <1>6, <2>2, <2>3
  <2>4. CASE d # c
    BY <1>3, <2>1, <2>2, <2>4 DEF At
  <2> QED  BY <2>3, <2>4
<1> QED  BY <1>11, <1>12, <1>13, <1>14 DEF RefreshInv

-----------------------------------------------------------------------------
(* The owner, and Google *)

LEMMA Outside ==
  ASSUME RefreshInv, EnterPlace \/ \E r \in Review : Publish(r)
  PROVE  RefreshInv'
BY DEF RefreshInv, ReviewTypes, Standing, RowsFollowConfig, PinStays, Counts, At, reviewsHistory,
       EnterPlace, Publish

\* A configuration that keeps its place keeps the rows of its location company.
LEMMA SamePlaces ==
  ASSUME RefreshInv, NEW c \in Config, NEW row \in ConfigRow,
         row.loc = configs[c].loc, row.loc # Nowhere,
         configs' = [configs EXCEPT ![c] = row],
         UNCHANGED <<placed, google, rows, snapshots, job, stranded>>,
         pin' \in {"never", "pinned", "given up"}
  PROVE  ReviewTypes' /\ Standing' /\ RowsFollowConfig'
<1>1. ReviewTypes'
  BY DEF RefreshInv, ReviewTypes
<1>2. \A d \in Config : configs'[d].loc = configs[d].loc /\ (d # c => configs'[d] = configs[d])
  BY DEF RefreshInv, ReviewTypes
<1>3. Standing'
  BY <1>2 DEF RefreshInv, Standing
<1>4. RowsFollowConfig'
  <2>1. \A l \in Location : At(l)' = At(l) /\ (Counts(l)' <=> Counts(l))
    BY <1>2 DEF At, Counts
  <2> QED  BY <2>1 DEF RefreshInv, RowsFollowConfig
<1> QED  BY <1>1, <1>3, <1>4

LEMMA ConnectStep ==
  ASSUME RefreshInv, NEW c \in Config, ConnectListing(c)
  PROVE  RefreshInv'
<1>t. ReviewTypes /\ Standing /\ RowsFollowConfig /\ PinStays
  BY DEF RefreshInv
<1> DEFINE l == IF placed THEN Home ELSE FirstLocation
<1>1. l \in Places /\ l # Nowhere
  BY DEF Places
<1>2. New(l) \in ConfigRow /\ New(l).loc = l /\ ~New(l).pinned
  BY <1>1, RowsOfConfigs
<1>3. configs' = [configs EXCEPT ![c] = New(l)]
  BY DEF ConnectListing
<1>4. pin' \in {"never", "pinned", "given up"}
  BY <1>t DEF ConnectListing, ReviewTypes
<1>u. UNCHANGED <<placed, google, rows, snapshots, job, stranded>>
  BY DEF ConnectListing
<1>c. c \in At(l) \/ configs[c] = Absent
  BY DEF ConnectListing
<1>p. pin' = IF configs[c].pinned THEN "given up" ELSE pin
  BY DEF ConnectListing
<1> HIDE DEF l
<1>5. PinStays'
  <2> SUFFICES ASSUME pin' = "pinned"  PROVE \E d \in Config : configs'[d].pinned
    BY DEF PinStays
  <2>1. pin = "pinned" /\ ~configs[c].pinned
    BY <1>p
  <2>2. PICK d \in Config : configs[d].pinned
    BY <1>t, <2>1 DEF PinStays
  <2> QED  BY <1>t, <1>3, <2>1, <2>2 DEF ReviewTypes
<1>6. CASE c \in At(l)
  BY <1>1, <1>2, <1>3, <1>4, <1>5, <1>6, <1>u, SamePlaces DEF RefreshInv, At
<1>7. CASE configs[c] = Absent
  <2>1. configs[c].loc = Nowhere
    BY <1>7, RowsOfConfigs
  <2>2. \A d \in Config : configs'[d] = IF d = c THEN New(l) ELSE configs[d]
    BY <1>t, <1>3 DEF ReviewTypes
  <2>3. ReviewTypes'
    BY <1>t, <1>2, <1>3, <1>4, <1>u DEF ReviewTypes
  <2>4. Standing'
    BY <1>t, <1>1, <1>2, <2>2 DEF Standing
  <2>5. \A m \in Location : At(m) \subseteq At(m)'
    BY <2>1, <2>2 DEF At
  <2>6. RowsFollowConfig'
    BY <1>t, <1>u, <2>5 DEF RowsFollowConfig, Counts
  <2> QED  BY <1>5, <2>3, <2>4, <2>6 DEF RefreshInv
<1> QED  BY <1>c, <1>6, <1>7

LEMMA OwnerSteps ==
  ASSUME RefreshInv, NEW c \in Config, DisconnectListing(c) \/ Pin(c)
  PROVE  RefreshInv'
<1>t. ReviewTypes /\ Standing /\ RowsFollowConfig /\ PinStays
  BY DEF RefreshInv
<1>s. configs[c] # Absent => configs[c].loc # Nowhere
  BY <1>t DEF Standing
<1>1. CASE DisconnectListing(c)
  <2> DEFINE row == [configs[c] EXCEPT !.active = FALSE]
  <2>1. row \in ConfigRow /\ row.loc = configs[c].loc /\ row.pinned = configs[c].pinned
    BY <1>t DEF ReviewTypes, ConfigRow
  <2>2. row.loc # Nowhere
    BY <1>1, <1>s, <2>1, RowsOfConfigs DEF DisconnectListing
  <2>3. configs' = [configs EXCEPT ![c] = row]
    BY <1>t, <1>1 DEF DisconnectListing, Deactivated, ReviewTypes
  <2>4. UNCHANGED <<placed, google, rows, snapshots, job, pin, stranded>>
    BY <1>1 DEF DisconnectListing, reviewsHistory
  <2> HIDE DEF row
  <2>5. \A d \in Config : configs'[d].pinned = configs[d].pinned
    BY <1>t, <2>1, <2>3 DEF ReviewTypes
  <2>6. PinStays'
    BY <1>t, <2>4, <2>5 DEF PinStays
  <2>7. pin' \in {"never", "pinned", "given up"}
    BY <1>t, <2>4 DEF ReviewTypes
  <2> QED  BY <2>1, <2>2, <2>3, <2>4, <2>6, <2>7, SamePlaces DEF RefreshInv
<1>2. CASE Pin(c)
  <2> DEFINE row == [configs[c] EXCEPT !.pinned = TRUE]
  <2>1. row \in ConfigRow /\ row.loc = configs[c].loc /\ row.pinned
    BY <1>t DEF ReviewTypes, ConfigRow
  <2>2. row.loc # Nowhere
    BY <1>2, <1>s, <2>1 DEF Pin
  <2>3. configs' = [configs EXCEPT ![c] = row]
    BY <1>t, <1>2 DEF Pin, Pinned, ReviewTypes
  <2>4. UNCHANGED <<placed, google, rows, snapshots, job, stranded>> /\ pin' = "pinned"
    BY <1>2 DEF Pin
  <2> HIDE DEF row
  <2>5. PinStays'
    BY <1>t, <2>1, <2>3 DEF PinStays, ReviewTypes
  <2> QED  BY <2>1, <2>2, <2>3, <2>4, <2>5, SamePlaces DEF RefreshInv
<1> QED  BY <1>1, <1>2

-----------------------------------------------------------------------------
LEMMA RefreshStep ==
  ASSUME RefreshInv, [ReviewsNext]_reviewsVars
  PROVE  RefreshInv'
<1>1. CASE UNCHANGED reviewsVars
  BY <1>1 DEF RefreshInv, ReviewTypes, Standing, RowsFollowConfig, PinStays, Counts,
              At, reviewsHistory, reviewsVars
<1>2. CASE EnterPlace \/ \E r \in Review : Publish(r)
  BY <1>2, Outside
<1>3. ASSUME NEW c \in Config, ConnectListing(c) \/ DisconnectListing(c) \/ Pin(c)  PROVE RefreshInv'
  BY <1>3, ConnectStep, OwnerSteps
<1>4. ASSUME NEW p \in Handler,
             \/ \E r \in Review : Page(p, r)
             \/ \E c \in Config :
                  StartReviews(p, c) \/ \E now \in BOOLEAN : StartRefresh(p, c, now)
             \/ RefusePlaces(p) \/ GoOn(p) \/ FailRefresh(p) \/ Interrupt(p)
      PROVE  RefreshInv'
  BY <1>4, QuietSteps
<1>5. ASSUME NEW p \in Handler, FinishReviews(p) \/ RefusePage(p)  PROVE RefreshInv'
  BY <1>5, SyncSteps
<1>6. ASSUME NEW p \in Handler, FinishRefresh(p)  PROVE RefreshInv'
  BY <1>6, RefreshInPlace, RefreshMoves
<1> QED  BY <1>1, <1>2, <1>3, <1>4, <1>5, <1>6 DEF ReviewsNext, Step

\* The invariant of configurations, their rows and their pins
LEMMA RefreshInvHolds ==
  ReviewsSpec => []RefreshInv
BY RefreshInit, RefreshStep, PTL DEF ReviewsSpec

\* The variables keep their types.
THEOREM ReviewsTyped ==
  ReviewsSpec => []ReviewsTypeOK
<1>1. ReviewTypes => ReviewsTypeOK
  <2> SUFFICES ASSUME ReviewTypes PROVE ReviewsTypeOK
    OBVIOUS
  <2>1. configs \in [Config -> [loc : Location \cup {Nowhere}, active : BOOLEAN,
                                pinned : BOOLEAN]]
    BY ReviewConstants DEF ReviewTypes, ConfigRow
  <2>2. ASSUME NEW p \in Handler  PROVE job[p].pc \in {"idle", "business", "places", "next"}
    <3>1. CASE job[p].pc # "idle"
      BY <3>1, Busy DEF Working
    <3> QED  BY <3>1
  <2> QED  BY <2>1, <2>2 DEF ReviewTypes, ReviewsTypeOK
<1>2. RefreshInv => ReviewTypes
  BY DEF RefreshInv
<1> QED  BY <1>1, <1>2, RefreshInvHolds, PTL

\* Reviews and snapshots stand where a configuration does, through any number of moves
\* and connections, but where a sync wrote after its configuration had left.
THEOREM Followed ==
  ReviewsSpec => []RowsFollowConfig
<1>1. RefreshInv => RowsFollowConfig
  BY DEF RefreshInv
<1> QED  BY <1>1, RefreshInvHolds, PTL

\* A pinned account is lost only to a new consent or to a configuration that moves over it.
THEOREM Pinning ==
  ReviewsSpec => []PinStays
<1>1. RefreshInv => PinStays
  BY DEF RefreshInv
<1> QED  BY <1>1, RefreshInvHolds, PTL
=============================================================================
