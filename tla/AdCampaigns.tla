----------------------------- MODULE AdCampaigns -----------------------------
(***************************************************************************)
(* Advertising.  Every morning a sync copies the campaigns and the daily   *)
(* metrics of the advertising platforms from Pipeboard, from the day of    *)
(* the last sync on; an hour later the optimizer turns them into           *)
(* recommendations and carries these out at Google.  A manager may ask for *)
(* a sync of other days, or for a run of the optimizer, at any time.       *)
(*                                                                         *)
(* Both move the time of the last sync.  What a sync has stored is         *)
(* committed row by row; what the optimizer has done at Google is          *)
(* recorded, and committed, only at its end.                               *)
(*                                                                         *)
(* There is one campaign on each platform, and it is broken down by days.  *)
(***************************************************************************)
EXTENDS Naturals, FiniteSetsExt

CONSTANTS
  Proc,        \* workers and request handlers
  Platform, Google,
  LastDay,     \* days are 1 .. LastDay
  FirstDays,   \* how far back the first sync of an account goes
  ChunkDays,   \* days of one request
  Presets,     \* windows, in days back, that Pipeboard knows: 0 is today
  Rec,         \* recommendations
  MaxEvents    \* how much happens beside the schedule: see Happens

\* The widest window goes back to the first day: Pipeboard has no rows of older days.
ASSUME PlatformAssumption ==
  /\ Google \in Platform
  /\ LastDay \in Nat \ {0} /\ FirstDays \in Nat /\ ChunkDays \in Nat \ {0}
  /\ Presets \subseteq Nat /\ \E n \in Presets : LastDay <= n + 1

VARIABLES
  today,
  account,  \* the account of Pipeboard, and the day of its last sync
  enabled,  \* whether the stored campaign of Google is enabled
  metrics,  \* the day on which the row of a day was written
  proc,     \* what each process does
  recs,     \* committed recommendations
  actions,  \* committed outcomes of those carried out
  events,
  calls,    \* history: how often each recommendation was carried out at Google
  from,     \* history: first day of the account's first sync
  swallowed,\* history: days of a platform whose fetch failed in a sync that went on
  skipped,  \* history: days that were over before the last sync, as the optimizer or a
            \* sync that ended on a later day has it
  raced,    \* history: recommendations that two runs at once had on their lists
  unread,   \* history: recommendations carried out by a call whose answer was not read
  lost      \* history: recommendations carried out in a run that did not commit

history == <<calls, from, swallowed, skipped, raced, unread, lost>>
vars == <<today, account, enabled, metrics, proc, recs, actions, events, history>>

Day   == 1..LastDay
NoDay == 0
Idle  == [pc |-> "idle"]
Unsaid == [day |-> NoDay, status |-> "none"]

Happens == events < MaxEvents /\ events' = events + 1

\* A tool of Pipeboard is called: no answer, an error, or one that cannot be read
Unanswered == Happens

Syncs(p)     == proc[p].pc \in {"campaigns", "metrics", "synced"}
Optimizes(p) == proc[p].pc \in {"generate", "execute"}

TypeOK ==
  /\ today \in Day /\ enabled \in BOOLEAN
  /\ account \in [active : BOOLEAN, id : 1..(MaxEvents + 1), last : {NoDay} \cup Day]
  /\ metrics \in [Platform -> [Day -> {NoDay} \cup Day]]
  /\ \A p \in Proc : proc[p] = Idle \/ Syncs(p) \/ Optimizes(p)
  /\ recs \in [Rec -> [day : {NoDay} \cup Day,
                       status : {"none", "pending", "executed", "skipped"}]]
  /\ actions \subseteq Rec \X {"success", "failed"}
  /\ calls \in [Rec -> Nat]

Init ==
  /\ today = 1
  /\ account = [active |-> TRUE, id |-> 1, last |-> NoDay]
  /\ enabled = FALSE
  /\ metrics = [f \in Platform |-> [d \in Day |-> NoDay]]
  /\ proc = [p \in Proc |-> Idle]
  /\ recs = [r \in Rec |-> Unsaid] /\ actions = {}
  /\ events = 0
  /\ calls = [r \in Rec |-> 0] /\ from = NoDay /\ swallowed = {} /\ skipped = {}
  /\ raced = {} /\ unread = {} /\ lost = {}

Free(p) == proc[p] = Idle /\ p = CHOOSE q \in Proc : proc[q] = Idle

-----------------------------------------------------------------------------
(* Days, and the account *)

Midnight ==
  /\ today < LastDay
  /\ today' = today + 1
  /\ UNCHANGED <<account, enabled, metrics, proc, recs, actions, events, history>>

\* delete_pipeboard_account: the row goes with the day of its last sync
Deleted == [active |-> FALSE, id |-> account.id + 1, last |-> NoDay]

\* upsert_pipeboard_account
Connected == [account EXCEPT !.active = TRUE]

\* update_pipeboard_account: the last sync is now
Moved == [account EXCEPT !.last = today]

\* Disconnecting deletes the account; another one begins anew
Disconnect ==
  /\ Happens
  /\ account.active
  /\ account' = Deleted
  /\ from' = NoDay
  /\ UNCHANGED <<today, enabled, metrics, proc, recs, actions, calls, swallowed, skipped,
                 raced, unread, lost>>

Connect ==
  /\ ~account.active
  /\ account' = Connected
  /\ UNCHANGED <<today, enabled, metrics, proc, recs, actions, events, history>>

-----------------------------------------------------------------------------
(* A sync *)

Sync(p, first, last, moves) ==
  proc' = [proc EXCEPT ![p] = [pc |-> "campaigns", account |-> account.id, start |-> first,
                               next |-> first, end |-> last, moves |-> moves,
                               todo |-> Platform, seen |-> {}]]

\* mutant: the day of the last sync is taken for complete
FirstLate == IF account.last # NoDay THEN Min({account.last + 1, today})
             ELSE IF today > FirstDays THEN today - FirstDays ELSE 1

\* The schedule: from the day of the last sync, or some days back
First == IF account.last # NoDay THEN account.last
         ELSE IF today > FirstDays THEN today - FirstDays ELSE 1

StartSync(p) ==
  /\ Free(p) /\ account.active
  /\ Sync(p, First, today, TRUE)
  /\ UNCHANGED <<today, account, enabled, metrics, recs, actions, events, history>>

\* A manager asks for other days
Backfill(p) ==
  /\ Happens
  /\ Free(p) /\ account.active
  /\ \E d \in 1..today : \E e \in d..today : Sync(p, d, e, FALSE)
  /\ UNCHANGED <<today, account, enabled, metrics, recs, actions, history>>

ChunkEnd(p) == Min({proc[p].next + ChunkDays - 1, proc[p].end})

\* upsert_campaign puts what it is given over all that is known of a campaign.
Campaign(f, status) == IF f = Google THEN status = "ENABLED" ELSE enabled

\* The platforms whose campaigns the chunk knows, after the next
Fetched(p, f, fails) == IF fails THEN proc[p].seen ELSE proc[p].seen \cup {f}

\* The next platform's campaigns; a failure is logged, and the sync goes on
Campaigns(p, f, fails) ==
  /\ proc[p].pc = "campaigns" /\ f \in proc[p].todo
  /\ IF fails THEN Unanswered ELSE UNCHANGED events
  /\ proc' = [proc EXCEPT ![p].todo = IF @ = {f} THEN Platform ELSE @ \ {f},
                          ![p].pc = IF proc[p].todo = {f} THEN "metrics" ELSE @,
                          ![p].seen = Fetched(p, f, fails)]
  /\ enabled' = IF fails THEN enabled ELSE Campaign(f, "ENABLED")
  /\ UNCHANGED <<today, account, metrics, recs, actions, history>>

\* The days of the smallest window that goes back far enough, or of the widest
Window(d) ==
  LET wide == {n \in Presets : n >= today - d}
      span == IF wide = {} THEN Max(Presets) ELSE Min(wide)
  IN IF span = 0 THEN {today} ELSE {e \in Day : e < today /\ e + span >= today}

\* mutant: what was stored before stays
RowsOld(f, first, last) ==
  {d \in Window(first) : first <= d /\ d <= last /\ metrics[f][d] = NoDay}

\* The days of a chunk that Pipeboard returns a row for
RowsOf(f, first, last) == {d \in Window(first) : first <= d /\ d <= last}

\* upsert_daily_metric: the row of a day is replaced
Written(f, days) == [metrics EXCEPT ![f] = [d \in Day |-> IF d \in days THEN today ELSE @[d]]]

\* The next platform's metrics are stored; for a campaign that has not been seen in
\* this sync a stub, not enabled, takes the place of what is known of it
Metrics(p, f) ==
  LET new == RowsOf(f, proc[p].next, ChunkEnd(p)) IN
  /\ proc[p].pc = "metrics" /\ f \in proc[p].todo
  /\ metrics' = Written(f, new)
  /\ enabled' = IF f \notin proc[p].seen /\ new # {} THEN Campaign(f, "UNKNOWN") ELSE enabled
  /\ proc' = [proc EXCEPT ![p].todo = @ \ {f}]
  /\ UNCHANGED <<today, account, recs, actions, events, history>>

\* A failure is logged, and the sync goes on
MetricsFail(p, f) ==
  /\ Unanswered
  /\ proc[p].pc = "metrics" /\ f \in proc[p].todo
  /\ proc' = [proc EXCEPT ![p].todo = @ \ {f}]
  /\ swallowed' = swallowed \cup ({f} \X (proc[p].next..ChunkEnd(p)))
  /\ UNCHANGED <<today, account, enabled, metrics, recs, actions, calls, from, skipped,
                 raced, unread, lost>>

NextChunk(p) ==
  /\ proc[p].pc = "metrics" /\ proc[p].todo = {}
  /\ proc' = [proc EXCEPT ![p].pc = IF ChunkEnd(p) < proc[p].end THEN "campaigns" ELSE "synced",
                          ![p].todo = Platform, ![p].seen = {}, ![p].next = ChunkEnd(p) + 1]
  /\ UNCHANGED <<today, account, enabled, metrics, recs, actions, events, history>>

\* The account is still the one that the process began with
Same(p) == account.active /\ account.id = proc[p].account

\* A sync of the schedule moves the account's last sync to now, whenever it began
FinishSync(p) ==
  /\ proc[p].pc = "synced"
  /\ proc' = [proc EXCEPT ![p] = Idle]
  /\ IF proc[p].moves /\ Same(p)
     THEN /\ account' = Moved
          /\ from' = IF from = NoDay THEN proc[p].start ELSE from
          /\ skipped' = skipped \cup {d \in Day : proc[p].end <= d /\ d < today}
     ELSE UNCHANGED <<account, from, skipped>>
  /\ UNCHANGED <<today, enabled, metrics, recs, actions, events, calls, swallowed, raced,
                 unread, lost>>

-----------------------------------------------------------------------------
(* The optimizer *)

Unused(r) == recs[r] = Unsaid /\ calls[r] = 0 /\ \A p \in Proc : Optimizes(p) => r \notin proc[p].own

\* The schedule, or a manager, runs the optimizer
StartRun(p) ==
  /\ Free(p) /\ account.active
  /\ proc' = [proc EXCEPT ![p] = [pc |-> "generate", account |-> account.id, day |-> today,
                                 own |-> {}, todo |-> {}, done |-> {}]]
  /\ UNCHANGED <<today, account, enabled, metrics, recs, actions, events, history>>

\* The recommendations on the list of run p
Listed(p) == IF Optimizes(p) THEN proc[p].todo \cup {a[1] : a \in proc[p].done} ELSE {}

\* The stored metrics of an enabled campaign make a recommendation, or do not, whatever
\* there is of today already; then all of today's that are pending are taken up
Generate(p, new) ==
  /\ proc[p].pc = "generate"
  /\ Cardinality(new) <= 1
  /\ \A r \in new : Unused(r) /\ enabled /\ \E d \in Day : metrics[Google][d] # NoDay
  /\ proc' = [proc EXCEPT ![p].pc = "execute", ![p].own = new,
       ![p].todo = new \cup {r \in Rec : recs[r].day = proc[p].day /\ recs[r].status = "pending"}]
  /\ raced' = raced \cup {r \in proc'[p].todo : \E q \in Proc \ {p} : r \in Listed(q)}
  /\ UNCHANGED <<today, account, enabled, metrics, recs, actions, events,
                 calls, from, swallowed, skipped, unread, lost>>

\* The tool that recommendation r asks for, called at Google
AtGoogle(r) == [calls EXCEPT ![r] = @ + 1]

\* The call for r has ended
Called(p, r, outcome) ==
  /\ proc[p].pc = "execute" /\ r \in proc[p].todo
  /\ proc' = [proc EXCEPT ![p].todo = @ \ {r}, ![p].done = @ \cup {<<r, outcome>>}]
  /\ UNCHANGED <<today, account, enabled, metrics, recs, actions,
                 from, swallowed, skipped, raced, lost>>

\* Recommendation r is carried out
Call(p, r) ==
  /\ Called(p, r, "success")
  /\ calls' = AtGoogle(r)
  /\ UNCHANGED <<events, unread>>

\* No answer, an error, or an answer that cannot be read: Google may have made the change
CallFails(p, r, made) ==
  /\ Unanswered
  /\ Called(p, r, "failed")
  /\ IF made THEN calls' = AtGoogle(r) /\ unread' = unread \cup {r}
     ELSE UNCHANGED <<calls, unread>>

\* An empty answer, or an error of the protocol, has no result and passes for a success
CallMisread(p, r) ==
  /\ Unanswered
  /\ Called(p, r, "success")
  /\ UNCHANGED <<calls, unread>>

Status(p, r) ==
  IF <<r, "success">> \in proc[p].done THEN "executed"
  ELSE IF <<r, "failed">> \in proc[p].done THEN "skipped" ELSE "pending"

\* mutant: the status of the recommendation is not written
RecordActions(p) ==
  /\ recs' = [r \in Rec |-> IF r \in proc[p].own
                            THEN [day |-> proc[p].day, status |-> "pending"] ELSE recs[r]]
  /\ actions' = actions \cup proc[p].done
  /\ proc' = [proc EXCEPT ![p] = Idle]

\* mutant: only the recommendations of the run itself are put on record
RecordOwn(p) ==
  /\ recs' = [r \in Rec |-> IF r \in proc[p].own
                            THEN [day |-> proc[p].day, status |-> Status(p, r)] ELSE recs[r]]
  /\ actions' = actions \cup {a \in proc[p].done : a[1] \in proc[p].own}
  /\ proc' = [proc EXCEPT ![p] = Idle]

\* The recommendations and actions of the run, committed
Record(p) ==
  /\ recs' = [r \in Rec |->
       IF r \in proc[p].own THEN [day |-> proc[p].day, status |-> Status(p, r)]
       ELSE IF Status(p, r) # "pending" THEN [recs[r] EXCEPT !.status = Status(p, r)]
       ELSE recs[r]]
  /\ actions' = actions \cup proc[p].done
  /\ proc' = [proc EXCEPT ![p] = Idle]

\* Everything is committed together with the time of the last sync, which is now
FinishRun(p) ==
  /\ proc[p].pc = "execute" /\ proc[p].todo = {}
  /\ Record(p)
  /\ IF Same(p)
     THEN /\ account' = Moved
          /\ skipped' = skipped \cup {d \in Day : account.last <= d /\ d < today}
     ELSE UNCHANGED <<account, skipped>>
  /\ UNCHANGED <<today, enabled, metrics, events, calls, from, swallowed, raced, unread, lost>>

\* Google's accounts cannot be listed: the recommendations are kept for another run
Refuse(p) ==
  /\ Unanswered
  /\ proc[p].pc = "execute" /\ proc[p].done = {}
  /\ Record(p)
  /\ UNCHANGED <<today, account, enabled, metrics, history>>

\* What the run of p has changed at Google and not yet committed
Uncommitted(p) ==
  {r \in Rec : <<r, "success">> \in proc[p].done \/ (<<r, "failed">> \in proc[p].done /\ r \in unread)}

\* The database refuses a statement, or the process is lost: what a sync has stored stays,
\* what a run has recorded goes
Break(p) ==
  /\ Happens
  /\ proc[p] # Idle
  /\ proc' = [proc EXCEPT ![p] = Idle]
  /\ lost' = IF Optimizes(p) THEN lost \cup Uncommitted(p) ELSE lost
  /\ UNCHANGED <<today, account, enabled, metrics, recs, actions, calls, from, swallowed,
                 skipped, raced, unread>>

-----------------------------------------------------------------------------
SyncStep(p) ==
  \/ NextChunk(p) \/ FinishSync(p)
  \/ \E f \in Platform : Campaigns(p, f, FALSE) \/ Metrics(p, f)

RunStep(p) ==
  \/ FinishRun(p)
  \/ \E r \in Rec : Call(p, r)
  \/ \E new \in SUBSET Rec : Generate(p, new)

Next ==
  \/ Midnight \/ Disconnect \/ Connect
  \/ \E p \in Proc :
       \/ StartSync(p) \/ Backfill(p) \/ SyncStep(p)
       \/ StartRun(p) \/ RunStep(p) \/ Refuse(p) \/ Break(p)
       \/ \E f \in Platform : Campaigns(p, f, TRUE) \/ MetricsFail(p, f)
       \/ \E r \in Rec : CallMisread(p, r) \/ \E made \in BOOLEAN : CallFails(p, r, made)

\* The beat never stops, and neither do the processes; runs and requests do not keep a
\* sync from its turn for ever
Fairness ==
  /\ \A p \in Proc : WF_vars(SyncStep(p)) /\ WF_vars(RunStep(p))
  /\ SF_vars(\E p \in Proc : StartSync(p))

Spec == Init /\ [][Next]_vars /\ Fairness

-----------------------------------------------------------------------------
\* The row of day d was written when the day was over
Full(f, d) == metrics[f][d] > d

\* Every day before that of the last sync is stored with all its spend, from the first
\* sync of the account on: the half day that a sync sees is fetched again by the next.
\* Not so days whose fetch failed (logged and dropped), and days that the optimizer, or
\* the late end of a sync, moved the last sync over.
PastIsFull ==
  \A f \in Platform, d \in Day :
    from # NoDay /\ from <= d /\ d < account.last
      => Full(f, d) \/ <<f, d>> \in swallowed \/ d \in skipped

\* The outcome of r is on record, or will be when the run ends
OnRecord(r, outcome) ==
  \/ <<r, outcome>> \in actions
  \/ \E p \in Proc : Optimizes(p) /\ <<r, outcome>> \in proc[p].done

\* What was changed at Google is on record as a success, and at least as a failure where
\* the answer was not read, unless the run broke down before its commit.
ChangeIsRecorded ==
  \A r \in Rec : calls[r] > 0 =>
    \/ OnRecord(r, "success")
    \/ r \in unread /\ OnRecord(r, "failed")
    \/ r \in lost

\* No recommendation is carried out twice, over runs of the schedule and of managers that
\* follow each other, whether its call was answered or not, but for two runs at once and
\* runs that broke down.
CalledOnce == \A r \in Rec \ (raced \cup lost) : calls[r] <= 1

\* A day that is over gets stored in full, with the same exceptions, unless the account is
\* disconnected.
MetricsArrive ==
  \A f \in Platform, d \in Day :
    (from # NoDay /\ from <= d /\ d < today)
      ~> (Full(f, d) \/ <<f, d>> \in swallowed \/ d \in skipped \/ ~account.active)
=============================================================================
