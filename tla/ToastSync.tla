------------------------------ MODULE ToastSync ------------------------------
(***************************************************************************)
(* Keeping the orders of one Toast location up to date: the owner connects *)
(* it, a historical import walks from historical_import_from to the        *)
(* present in chunks, one message each, and a dispatcher that beat starts  *)
(* every minute sends incremental syncs that walk from last_synced_at to   *)
(* the present in windows.                                                 *)
(*                                                                         *)
(* Times are ticks of a clock.  The version of an order is the time it was *)
(* last modified: Toast returns the orders modified in a range, as they    *)
(* are at the call.  A step ends at a commit, at a call to Toast or to the *)
(* broker, or between a read and a write another task can come between.    *)
(* Employees, time entries and the details of an order are left out.       *)
(***************************************************************************)
EXTENDS Integers, FiniteSets

CONSTANTS
  Order,        \* orders of the location, by Toast guid
  Job,          \* rows of toast_sync_jobs; a finished one nobody refers to is used again
  Msg,          \* messages on the sync queue; an acknowledged one is used again
  Req,          \* API requests that can run at the same time
  Disp,         \* dispatcher tasks that can run at the same time
  NoJob,        \* no job
  WorkerSlots,  \* worker processes (--concurrency)
  From,         \* historical_import_from
  Today,        \* the time at which the instance starts
  MaxNow,       \* bound on the clock
  Window,       \* the longest range of an incremental sync (29 days)
  Chunk,        \* the length of a historical chunk (CHUNK_DAYS)
  Day,          \* how far back a location without a cursor starts
  Imported,     \* whether the location is connected and imported at the start: {TRUE}, {FALSE} or both
  Ops,          \* what people and time do in this instance
  Faults,       \* which of "api", "broker", "db", "order" and "crash" may happen
  MaxFaults     \* bound on the number of faults

ASSUME ToastAssumption ==
  /\ Today \in Nat /\ MaxNow \in Nat /\ Today <= MaxNow
  /\ From \in 0..MaxNow
  /\ Window \in Nat \ {0} /\ Chunk \in Nat \ {0} /\ Day \in 1..Today
  /\ Imported \subseteq BOOLEAN
  /\ NoJob \notin Job
  /\ WorkerSlots \in Nat /\ MaxFaults \in Nat
  /\ Ops \subseteq {"dispatch", "connect", "manual", "disconnect", "age"}

VARIABLES
  now,       \* the clock
  modified,  \* when each order was last modified in Toast, NoTime before it exists
  stored,    \* the version of each order in toast_orders
  config,    \* the location's row of toast_sync_configs
  jobs,      \* toast_sync_jobs
  msgs,      \* the messages and the deliveries that run them
  reqs,      \* API requests between a commit and a call to the broker
  disps,     \* dispatcher tasks
  faults,    \* faults so far
  base,      \* history: the cursor stands for what has changed after this time
  excused    \* history: orders a fetch has skipped or an older version has replaced,
             \* imports whose end could not be stored

vars == <<now, modified, stored, config, jobs, msgs, reqs, disps, faults, base, excused>>

-----------------------------------------------------------------------------
NoTime == -1
Time   == 0..MaxNow
Active   == {"pending", "running"}
Finished == {"complete", "failed"}

RunPc == {"config", "fetch", "store", "final", "finish", "chain", "ack"}

Versions  == [Order -> Time \cup {NoTime}]
ConfigRow == [connected : BOOLEAN, active : BOOLEAN, last : Time \cup {NoTime},
              complete : BOOLEAN]
JobRow    == [status : Active \cup Finished \cup {"none"},
              type : {"incremental", "historical"}, old : BOOLEAN]
MsgRow    == [pc : RunPc \cup {"free", "queued"}, job : Job \cup {NoJob},
              cursor : Time \cup {NoTime}, from : Time, to : Time, upto : Time,
              low : Time,  \* history: what has changed after this time and up to from is stored
              batch : Versions]
ReqRow    == [pc : {"idle", "import", "enqueue"}, job : Job \cup {NoJob}]
DispRow   == [pc : {"idle", "check", "create", "enqueue"}, job : Job \cup {NoJob}]

TypeOK ==
  /\ now \in Time
  /\ modified \in Versions
  /\ stored \in Versions
  /\ config \in ConfigRow
  /\ jobs \in [Job -> JobRow]
  /\ msgs \in [Msg -> MsgRow]
  /\ reqs \in [Req -> ReqRow]
  /\ disps \in [Disp -> DispRow]
  /\ faults \in 0..MaxFaults
  /\ base \in Time
  /\ excused \subseteq Order \cup Job

NoOrders == [o \in Order |-> NoTime]
FreeMsg  == [pc |-> "free", job |-> NoJob, cursor |-> NoTime,
             from |-> 0, to |-> 0, upto |-> 0, low |-> 0, batch |-> NoOrders]
Queued(j, c) == [FreeMsg EXCEPT !.pc = "queued", !.job = j, !.cursor = c]
Idle     == [pc |-> "idle", job |-> NoJob]

Init ==
  /\ now = Today
  /\ modified \in [Order -> (0..Today) \cup {NoTime}]
  /\ \E imported \in Imported :
       /\ stored = IF imported THEN modified ELSE NoOrders
       /\ config = [connected |-> imported, active |-> imported, complete |-> imported,
                    last |-> IF imported THEN Today ELSE NoTime]
  /\ jobs = [j \in Job |-> [status |-> "none", type |-> "incremental", old |-> FALSE]]
  /\ msgs = [m \in Msg |-> FreeMsg]
  /\ reqs = [r \in Req |-> Idle]
  /\ disps = [d \in Disp |-> Idle]
  /\ faults = 0
  /\ base = From
  /\ excused = {}

-----------------------------------------------------------------------------
Fault(kind) == kind \in Faults /\ faults < MaxFaults /\ faults' = faults + 1

SetPc(m, pc)     == msgs' = [msgs EXCEPT ![m].pc = pc]
SetStatus(j, st) == jobs' = [jobs EXCEPT ![j].status = st]

\* create_sync_job: a pending row
Unused(j) ==
  /\ jobs[j].status \in Finished \cup {"none"}
  /\ \A m \in Msg : msgs[m].job # j
  /\ \A r \in Req : reqs[r].job # j
  /\ \A d \in Disp : disps[d].job # j
Create(j, type) ==
  /\ Unused(j)
  /\ jobs' = [jobs EXCEPT ![j] = [status |-> "pending", type |-> type, old |-> FALSE]]

\* apply_async: the message of a job, with the cursor of a historical chunk
Publish(j, cursor) ==
  \E m \in Msg : msgs[m].pc = "free" /\ msgs' = [msgs EXCEPT ![m] = Queued(j, cursor)]

-----------------------------------------------------------------------------
(* Toast and time *)

\* A tick of the clock, in which some orders are made or change.
Tick(S) ==
  /\ now < MaxNow
  /\ now' = now + 1
  /\ modified' = [o \in Order |-> IF o \in S THEN now + 1 ELSE modified[o]]
  /\ excused' = excused \ S
  /\ UNCHANGED <<stored, config, jobs, msgs, reqs, disps, faults, base>>

\* More than 60 minutes have passed since the job was created.
Age(j) ==
  /\ "age" \in Ops
  /\ jobs[j].status \in Active /\ ~jobs[j].old
  /\ jobs' = [jobs EXCEPT ![j].old = TRUE]
  /\ UNCHANGED <<now, modified, stored, config, msgs, reqs, disps, faults, base, excused>>

-----------------------------------------------------------------------------
(* The API *)

\* connect: the credentials and the configuration are committed.
Connect(r) ==
  /\ "connect" \in Ops
  /\ reqs[r].pc = "idle"
  /\ config' = [config EXCEPT !.connected = TRUE, !.active = TRUE]
  /\ reqs' = IF config.complete THEN reqs ELSE [reqs EXCEPT ![r].pc = "import"]
  /\ UNCHANGED <<now, modified, stored, jobs, msgs, disps, faults, base, excused>>

\* connect: the first time, a historical job is committed.
ConnectImport(r, j) ==
  /\ reqs[r].pc = "import"
  /\ Create(j, "historical")
  /\ reqs' = [reqs EXCEPT ![r] = [pc |-> "enqueue", job |-> j]]
  /\ UNCHANGED <<now, modified, stored, config, msgs, disps, faults, base, excused>>

\* trigger_manual_sync: the job is committed, whatever else is under way.
ManualSync(r, j, type) ==
  /\ "manual" \in Ops
  /\ reqs[r].pc = "idle"
  /\ config.active
  /\ Create(j, type)
  /\ reqs' = [reqs EXCEPT ![r] = [pc |-> "enqueue", job |-> j]]
  /\ UNCHANGED <<now, modified, stored, config, msgs, disps, faults, base, excused>>

\* Both: the message is published, or the broker refuses it and the request
\* ends with its job pending (an error response for the manual sync).
Enqueue(r) ==
  /\ reqs[r].pc = "enqueue"
  /\ \/ Publish(reqs[r].job, NoTime) /\ UNCHANGED faults
     \/ Fault("broker") /\ UNCHANGED msgs
  /\ reqs' = [reqs EXCEPT ![r] = Idle]
  /\ UNCHANGED <<now, modified, stored, config, jobs, disps, base, excused>>

Disconnect ==
  /\ "disconnect" \in Ops
  /\ config.active
  /\ config' = [config EXCEPT !.active = FALSE]
  /\ UNCHANGED <<now, modified, stored, jobs, msgs, reqs, disps, faults, base, excused>>

\* The process dies between a commit and the next step.
ApiCrash(r) ==
  /\ reqs[r].pc # "idle"
  /\ Fault("crash")
  /\ reqs' = [reqs EXCEPT ![r] = Idle]
  /\ UNCHANGED <<now, modified, stored, config, jobs, msgs, disps, base, excused>>

-----------------------------------------------------------------------------
(* The dispatcher *)

Incremental(j) == jobs[j].type = "incremental" /\ jobs[j].status \in Active

\* mutant: the sweep forgets the running jobs
SweptPending == {j \in Job : Incremental(j) /\ jobs[j].status = "pending" /\ jobs[j].old}
\* The stale incremental jobs of the sweep
Swept == {j \in Job : Incremental(j) /\ jobs[j].old}

\* The jobs that keep the dispatcher from creating another
Backlog == {j \in Job : Incremental(j)}

DispatchSweep(d) ==
  /\ "dispatch" \in Ops
  /\ disps[d].pc = "idle"
  /\ jobs' = [j \in Job |-> IF j \in Swept THEN [jobs[j] EXCEPT !.status = "failed"]
                                           ELSE jobs[j]]
  /\ disps' = [disps EXCEPT ![d].pc = "check"]
  /\ UNCHANGED <<now, modified, stored, config, msgs, reqs, faults, base, excused>>

DispatchCheck(d) ==
  /\ disps[d].pc = "check"
  /\ disps' = [disps EXCEPT ![d].pc = IF config.active /\ Backlog = {} THEN "create"
                                                                      ELSE "idle"]
  /\ UNCHANGED <<now, modified, stored, config, jobs, msgs, reqs, faults, base, excused>>

DispatchCreate(d, j) ==
  /\ disps[d].pc = "create"
  /\ Create(j, "incremental")
  /\ disps' = [disps EXCEPT ![d] = [pc |-> "enqueue", job |-> j]]
  /\ UNCHANGED <<now, modified, stored, config, msgs, reqs, faults, base, excused>>

DispatchEnqueue(d) ==
  /\ disps[d].pc = "enqueue"
  /\ \/ Publish(disps[d].job, NoTime) /\ UNCHANGED faults
     \/ Fault("broker") /\ UNCHANGED msgs
  /\ disps' = [disps EXCEPT ![d] = Idle]
  /\ UNCHANGED <<now, modified, stored, config, jobs, reqs, base, excused>>

\* The worker of the dispatcher dies; the task starts again at the sweep.
DispatchLost(d) ==
  /\ disps[d].pc # "idle"
  /\ Fault("crash")
  /\ disps' = [disps EXCEPT ![d] = Idle]
  /\ UNCHANGED <<now, modified, stored, config, jobs, msgs, reqs, base, excused>>

-----------------------------------------------------------------------------
(* A sync task *)

IsIncremental(m) == jobs[msgs[m].job].type = "incremental"

\* "running" is committed, except by the later chunks of an import.
TaskStart(m) ==
  /\ msgs[m].pc = "queued"
  /\ Cardinality({n \in Msg : msgs[n].pc \in RunPc}) < WorkerSlots
  /\ IF IsIncremental(m) \/ msgs[m].cursor = NoTime
     THEN SetStatus(msgs[m].job, "running") ELSE UNCHANGED jobs
  /\ SetPc(m, "config")
  /\ UNCHANGED <<now, modified, stored, config, reqs, disps, faults, base, excused>>

\* An exception: "failed" is committed and the message acknowledged.
TaskFail(m) ==
  /\ SetStatus(msgs[m].job, "failed")
  /\ SetPc(m, "ack")
  /\ UNCHANGED <<now, modified, config, reqs, disps, base>>

\* The end of the range of a run up to upto that starts at from
RangeEnd(from, length, upto) == IF from + length < upto THEN from + length ELSE upto

\* get_sync_config, and the first range of the run
ReadConfig(m) ==
  LET start == IF From > now THEN now - Day ELSE From
      from  == CASE IsIncremental(m) -> IF config.last = NoTime THEN now - Day ELSE config.last
                 [] OTHER            -> IF msgs[m].cursor = NoTime THEN start
                                                                   ELSE msgs[m].cursor
      pc    == IF from < now THEN "fetch" ELSE IF IsIncremental(m) THEN "finish" ELSE "final"
      low   == IF ~IsIncremental(m) THEN From ELSE IF config.last = NoTime THEN from ELSE base
  IN
  /\ msgs[m].pc = "config"
  /\ config.active
  /\ msgs' = [msgs EXCEPT ![m] =
       [@ EXCEPT !.pc = pc, !.from = from, !.upto = now, !.low = low,
                 !.to = RangeEnd(from, IF IsIncremental(m) THEN Window ELSE Chunk, now)]]
  /\ UNCHANGED <<now, modified, stored, config, jobs, reqs, disps, faults, base, excused>>

ReadConfigInactive(m) ==
  /\ msgs[m].pc = "config"
  /\ ~config.active
  /\ TaskFail(m)
  /\ UNCHANGED <<stored, faults, excused>>

\* get_orders: the orders modified in the range.  An order that cannot be fetched
\* by its guid is skipped.
InRange(m) == {o \in Order : modified[o] \in msgs[m].from..msgs[m].to}
Fetch(m, skipped) ==
  /\ msgs[m].pc = "fetch"
  /\ skipped \subseteq InRange(m)
  /\ IF skipped = {} THEN UNCHANGED faults ELSE Fault("order")
  /\ excused' = excused \cup skipped
  /\ msgs' = [msgs EXCEPT ![m].pc = "store",
                          ![m].batch = [o \in Order |-> IF o \in InRange(m) \ skipped
                                                        THEN modified[o] ELSE NoTime]]
  /\ UNCHANGED <<now, modified, stored, config, jobs, reqs, disps, base>>

FetchFails(m) ==
  /\ msgs[m].pc = "fetch"
  /\ Fault("api")
  /\ TaskFail(m)
  /\ UNCHANGED <<stored, excused>>

\* upsert_order: ON CONFLICT DO UPDATE, whatever the version of the row
UpsertOrder(row, version) == version

Upsert(batch) ==
  /\ stored' = [o \in Order |-> IF batch[o] = NoTime THEN stored[o]
                                ELSE UpsertOrder(stored[o], batch[o])]
  /\ excused' = excused \cup {o \in Order : batch[o] # NoTime /\ batch[o] < stored[o]}

\* What the cursor stands for once the run of m has moved it: what it stood for
\* before and what the run has covered, if these meet
Low(m) == IF msgs[m].low \in base..config.last THEN base ELSE msgs[m].low

\* run_incremental_sync: the orders of a window and the cursor are committed.
StoreWindow(m) ==
  /\ msgs[m].pc = "store" /\ IsIncremental(m)
  /\ Upsert(msgs[m].batch)
  /\ config' = [config EXCEPT !.last = msgs[m].to]
  /\ base' = Low(m)
  /\ IF msgs[m].to < msgs[m].upto
     THEN msgs' = [msgs EXCEPT ![m] =
            [@ EXCEPT !.pc = "fetch", !.from = msgs[m].to, !.batch = NoOrders,
                      !.to = RangeEnd(msgs[m].to, Window, msgs[m].upto)]]
     ELSE msgs' = [msgs EXCEPT ![m].pc = "finish", ![m].batch = NoOrders]
  /\ UNCHANGED <<now, modified, jobs, reqs, disps, faults>>

\* run_historical_chunk: the orders of a chunk are committed.
StoreChunk(m) ==
  /\ msgs[m].pc = "store" /\ ~IsIncremental(m)
  /\ Upsert(msgs[m].batch)
  /\ msgs' = [msgs EXCEPT ![m].pc = IF msgs[m].to >= msgs[m].upto THEN "final" ELSE "chain",
                          ![m].batch = NoOrders]
  /\ UNCHANGED <<now, modified, config, jobs, reqs, disps, faults, base>>

\* The employees cannot be fetched: the orders are committed with "failed".
StoreFails(m) ==
  /\ msgs[m].pc = "store" /\ (IsIncremental(m) \/ msgs[m].cursor = NoTime)
  /\ Fault("api")
  /\ Upsert(msgs[m].batch)
  /\ TaskFail(m)

\* The database fails: the handler of the exception fails as well, the job stays
\* "running" and its message is acknowledged.
DatabaseFails(m) ==
  /\ msgs[m].pc = "store"
  /\ Fault("db")
  /\ excused' = IF IsIncremental(m) THEN excused ELSE excused \cup {msgs[m].job}
  /\ SetPc(m, "ack")
  /\ UNCHANGED <<now, modified, stored, config, jobs, reqs, disps, base>>

\* The import has reached the present.
Final(m) ==
  /\ msgs[m].pc = "final"
  /\ config' = [config EXCEPT !.complete = TRUE, !.last = msgs[m].upto]
  /\ base' = Low(m)
  /\ SetPc(m, "finish")
  /\ UNCHANGED <<now, modified, stored, jobs, reqs, disps, faults, excused>>

\* mutant: the next chunk starts where this one could have ended
ChainFromPresent(m) ==
  /\ msgs[m].pc = "chain"
  /\ \E n \in Msg :
       /\ msgs[n].pc = "free"
       /\ msgs' = [msgs EXCEPT ![m].pc = "ack", ![n] = Queued(msgs[m].job, msgs[m].upto)]
  /\ UNCHANGED <<now, modified, stored, config, jobs, reqs, disps, faults, base, excused>>

\* The next chunk is a message of its own.
Chain(m) ==
  /\ msgs[m].pc = "chain"
  /\ \E n \in Msg :
       /\ msgs[n].pc = "free"
       /\ msgs' = [msgs EXCEPT ![m].pc = "ack", ![n] = Queued(msgs[m].job, msgs[m].to)]
  /\ UNCHANGED <<now, modified, stored, config, jobs, reqs, disps, faults, base, excused>>

ChainFails(m) ==
  /\ msgs[m].pc = "chain"
  /\ Fault("broker")
  /\ TaskFail(m)
  /\ UNCHANGED <<stored, excused>>

Finish(m) ==
  /\ msgs[m].pc = "finish"
  /\ SetStatus(msgs[m].job, "complete")
  /\ SetPc(m, "ack")
  /\ UNCHANGED <<now, modified, stored, config, reqs, disps, faults, base, excused>>

Ack(m) ==
  /\ msgs[m].pc = "ack"
  /\ msgs' = [msgs EXCEPT ![m] = FreeMsg]
  /\ UNCHANGED <<now, modified, stored, config, jobs, reqs, disps, faults, base, excused>>

\* mutant: the message is acknowledged when it is taken
WorkerLostEarlyAck(m) ==
  /\ msgs[m].pc \in RunPc
  /\ Fault("crash")
  /\ msgs' = [msgs EXCEPT ![m] = FreeMsg]
  /\ UNCHANGED <<now, modified, stored, config, jobs, reqs, disps, base, excused>>

\* task_acks_late: the worker dies and the message is delivered again.
WorkerLost(m) ==
  /\ msgs[m].pc \in RunPc
  /\ Fault("crash")
  /\ msgs' = [msgs EXCEPT ![m] = Queued(msgs[m].job, msgs[m].cursor)]
  /\ UNCHANGED <<now, modified, stored, config, jobs, reqs, disps, base, excused>>

-----------------------------------------------------------------------------
RequestStep(r) ==
  \/ Enqueue(r)
  \/ \E j \in Job : ConnectImport(r, j)

DispatchStep(d) ==
  \/ DispatchSweep(d) \/ DispatchCheck(d) \/ DispatchEnqueue(d)
  \/ \E j \in Job : DispatchCreate(d, j)

TaskStep(m) ==
  \/ TaskStart(m) \/ ReadConfig(m) \/ ReadConfigInactive(m) \/ Fetch(m, {})
  \/ StoreWindow(m) \/ StoreChunk(m) \/ Final(m) \/ Chain(m) \/ Finish(m) \/ Ack(m)

TaskFault(m) ==
  \/ \E skipped \in SUBSET InRange(m) \ {{}} : Fetch(m, skipped)
  \/ FetchFails(m) \/ StoreFails(m) \/ DatabaseFails(m) \/ ChainFails(m) \/ WorkerLost(m)

Next ==
  \/ \E S \in SUBSET Order : Tick(S)
  \/ \E j \in Job : Age(j)
  \/ Disconnect
  \/ \E r \in Req : \/ RequestStep(r) \/ Connect(r) \/ ApiCrash(r)
                    \/ \E j \in Job, type \in {"incremental", "historical"} :
                         ManualSync(r, j, type)
  \/ \E d \in Disp : DispatchStep(d) \/ DispatchLost(d)
  \/ \E m \in Msg : TaskStep(m) \/ TaskFault(m)

Spec == Init /\ [][Next]_vars

\* Beat starts the dispatcher every minute, API processes finish what they began,
\* hours pass, and workers run what they take.  Fairness is strong for the tasks,
\* which wait for a worker: the queue gives its messages out in order.  Nothing
\* makes a component fail or a person act.
Fairness ==
  /\ \A m \in Msg : SF_vars(TaskStep(m))
  /\ \A d \in Disp : WF_vars(DispatchStep(d))
  /\ \A r \in Req : WF_vars(RequestStep(r))
  /\ \A j \in Job : WF_vars(Age(j))

FairSpec == Spec /\ Fairness

-----------------------------------------------------------------------------
(* Safety *)

\* The cursor stands for what it says: every order modified after base and up to
\* last_synced_at is stored as it is, through interrupted runs, chunks in several
\* messages, runs that overtake each other, and orders that change meanwhile.  An order
\* the cursor has passed is never asked for again: so one whose fetch by guid has failed
\* is lost, and one that a slower run has overwritten with an older version.
CursorCovers ==
  config.last # NoTime =>
    \A o \in Order \ excused :
      base < modified[o] /\ modified[o] <= config.last => stored[o] = modified[o]

-----------------------------------------------------------------------------
(* Liveness, under FairSpec *)

\* Once the import has ended, an order gets stored as it is when the clock has stopped,
\* unless the location is disconnected or a fetch skips the order: no other fault, orphaned
\* job or lost message stops the dispatcher for good.
ChangesArrive ==
  \A o \in Order :
    (config.active /\ config.complete) ~> (stored[o] = modified[o] \/ ~config.active \/ o \in excused)

\* An import that has started ends, complete or failed, through lost workers and a
\* broker that refuses a chunk, if the database takes its end.
ImportEnds ==
  \A j \in Job :
    (jobs[j].type = "historical" /\ jobs[j].status = "running")
      ~> (jobs[j].status \in Finished \/ j \in excused)

=============================================================================
