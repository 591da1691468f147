--------------------------- MODULE ToastSyncProofs ---------------------------
(***************************************************************************)
(* Proofs about ToastSync for any orders, jobs, messages and workers, and  *)
(* any lengths of windows and chunks.                                      *)
(***************************************************************************)
EXTENDS ToastSync, TLAPS

\* What has changed in Toast after a and up to b is stored as it is.
Covers(st, md, ex, a, b) ==
  \A o \in Order \ ex : a < md[o] /\ md[o] <= b => st[o] = md[o]

\* What was stored as it is still is, where nothing has changed since t.
Kept(st, md, ex, st2, md2, ex2, t) ==
  \A o \in Order : o \notin ex2 /\ md2[o] <= t =>
    o \notin ex /\ md2[o] = md[o] /\ (st[o] = md[o] => st2[o] = md2[o])

\* A run works on the past, with versions that may be old but not new.
Timely(row, md, t) ==
  /\ row.from <= t /\ row.to <= row.upto /\ row.upto <= t /\ row.cursor <= t
  /\ \A o \in Order : row.batch[o] <= md[o]

\* What a run has covered.  An import passes from chunk to chunk in its messages what it
\* has covered since From.
Sound(row, type, st, md, ex) ==
  /\ row.cursor # NoTime => Covers(st, md, ex, From, row.cursor)
  /\ row.pc \in {"fetch", "store"} =>
       /\ Covers(st, md, ex, row.low, row.from)
       /\ type # "incremental" => row.low = From
  /\ row.pc = "store" =>
       \A o \in Order \ ex : row.from <= md[o] /\ md[o] <= row.to => row.batch[o] = md[o]
  /\ row.pc = "chain" => Covers(st, md, ex, From, row.to)
  /\ row.pc = "final" => Covers(st, md, ex, row.low, row.upto)

Type(m) == jobs[msgs[m].job].type

Rows ==
  /\ msgs \in [Msg -> MsgRow]
  /\ \A m \in Msg : msgs[m].pc # "free" => msgs[m].job \in Job
  /\ \A m \in Msg : Timely(msgs[m], modified, now)
  /\ \A m \in Msg : Sound(msgs[m], Type(m), stored, modified, excused)

Clock ==
  /\ now \in Time /\ Today <= now
  /\ modified \in Versions
  /\ \A o \in Order : modified[o] <= now

Starters ==
  /\ reqs \in [Req -> ReqRow] /\ disps \in [Disp -> DispRow]
  /\ \A r \in Req : reqs[r].pc = "enqueue" => reqs[r].job \in Job
  /\ \A d \in Disp : disps[d].pc = "enqueue" => disps[d].job \in Job

Cursor ==
  /\ config \in ConfigRow /\ config.last <= now
  /\ base \in Time
  /\ CursorCovers

Books ==
  /\ stored \in Versions
  /\ jobs \in [Job -> JobRow]
  /\ faults \in 0..MaxFaults
  /\ excused \subseteq Order \cup Job

SyncInv == Rows /\ Clock /\ Starters /\ Cursor /\ Books

-----------------------------------------------------------------------------
(* What is covered *)

LEMMA CoversKept ==
  ASSUME NEW st, NEW md, NEW ex, NEW st2, NEW md2, NEW ex2,
         md \in Versions, md2 \in Versions,
         NEW t \in Int, NEW a \in Int, NEW b \in Int, b <= t,
         Kept(st, md, ex, st2, md2, ex2, t), Covers(st, md, ex, a, b)
  PROVE  Covers(st2, md2, ex2, a, b)
BY DEF Kept, Covers, Versions, Time, NoTime

LEMMA SoundKept ==
  ASSUME NEW st, NEW md, NEW ex, NEW st2, NEW md2, NEW ex2,
         md \in Versions, md2 \in Versions,
         NEW t \in Int, NEW row \in MsgRow, NEW type, NEW type2,
         row.pc \in {"fetch", "store"} => type2 = type,
         Kept(st, md, ex, st2, md2, ex2, t),
         Timely(row, md, t), Sound(row, type, st, md, ex)
  PROVE  Sound(row, type2, st2, md2, ex2)
<1>1. /\ row.from \in Int /\ row.to \in Int /\ row.upto \in Int /\ row.low \in Int
      /\ row.cursor \in Int /\ From \in Int
      /\ row.from <= t /\ row.to <= t /\ row.upto <= t /\ row.cursor <= t
  BY ToastAssumption DEF MsgRow, Time, NoTime, Timely
<1>2. row.cursor # NoTime => Covers(st2, md2, ex2, From, row.cursor)
  BY <1>1, CoversKept DEF Sound
<1>3. row.pc \in {"fetch", "store"} =>
        /\ Covers(st2, md2, ex2, row.low, row.from)
        /\ type2 # "incremental" => row.low = From
  BY <1>1, CoversKept DEF Sound
<1>4. row.pc = "store" =>
        \A o \in Order \ ex2 : row.from <= md2[o] /\ md2[o] <= row.to => row.batch[o] = md2[o]
  <2>1. \A o \in Order : md2[o] \in Int  BY DEF Versions, Time, NoTime
  <2> QED  BY <1>1, <2>1 DEF Sound, Kept
<1>5. row.pc = "chain" => Covers(st2, md2, ex2, From, row.to)
  BY <1>1, CoversKept DEF Sound
<1>6. row.pc = "final" => Covers(st2, md2, ex2, row.low, row.upto)
  BY <1>1, CoversKept DEF Sound
<1> QED  BY <1>2, <1>3, <1>4, <1>5, <1>6 DEF Sound

LEMMA KeptSame ==
  ASSUME NEW st, NEW md, NEW ex, NEW ex2, NEW t, ex \cap Order \subseteq ex2
  PROVE  Kept(st, md, ex, st, md, ex2, t)
BY DEF Kept

\* An upsert keeps what was stored as it is, or excuses it.
LEMMA UpsertKeeps ==
  ASSUME Clock, Books, NEW batch \in Versions, NEW t,
         \A o \in Order : batch[o] <= modified[o],
         Upsert(batch)
  PROVE  /\ Kept(stored, modified, excused, stored', modified, excused', t)
         /\ stored' \in Versions /\ excused' \subseteq Order \cup Job
         /\ \A o \in Order \ excused' : modified[o] # NoTime /\ batch[o] = modified[o]
              => stored'[o] = modified[o]
<1>1. /\ stored' \in Versions /\ excused' \subseteq Order \cup Job
      /\ excused \subseteq excused'
  BY DEF Clock, Books, Upsert, UpsertOrder, Versions
<1>2. ASSUME NEW o \in Order, o \notin excused', stored[o] = modified[o]
      PROVE  stored'[o] = modified[o]
  <2>1. batch[o] = NoTime \/ ~(batch[o] < stored[o])
    BY <1>2 DEF Upsert
  <2>2. batch[o] \in Int /\ modified[o] \in Int
    BY DEF Clock, Books, Versions, Time, NoTime
  <2>3. CASE batch[o] = NoTime
    BY <1>2, <2>3 DEF Upsert
  <2>4. CASE batch[o] # NoTime
    <3>1. batch[o] = modified[o]  BY <1>2, <2>1, <2>2, <2>4
    <3> QED  BY <2>4, <3>1 DEF Upsert, UpsertOrder
  <2> QED  BY <2>3, <2>4
<1>3. Kept(stored, modified, excused, stored', modified, excused', t)
  BY <1>1, <1>2 DEF Kept
<1>4. \A o \in Order \ excused' : modified[o] # NoTime /\ batch[o] = modified[o]
        => stored'[o] = modified[o]
  BY DEF Upsert, UpsertOrder
<1> QED  BY <1>1, <1>3, <1>4

LEMMA Joined ==
  ASSUME NEW st, NEW md \in Versions, NEW ex, NEW a \in Int, NEW b \in Int, NEW c \in Int,
         Covers(st, md, ex, a, b), Covers(st, md, ex, b, c)
  PROVE  Covers(st, md, ex, a, c)
BY DEF Covers, Versions, Time, NoTime

LEMMA TypedSync == SyncInv => TypeOK
BY DEF SyncInv, Rows, Clock, Starters, Cursor, Books, TypeOK

LEMMA BeforeNow ==
  ASSUME Clock, NEW x \in Time \cup {NoTime}
  PROVE  x \in Int /\ now \in Int /\ now - Day \in Time
BY ToastAssumption DEF Clock, Time, NoTime

-----------------------------------------------------------------------------
(* Steps *)

\* One message changes, or is published.
LEMMA OneRow ==
  ASSUME Rows, Clock, NEW m \in Msg, NEW row \in MsgRow,
         msgs' = [msgs EXCEPT ![m] = row],
         row.pc # "free" => row.job \in Job,
         \A n \in Msg \ {m} : msgs[n].pc # "free" =>
           jobs'[msgs[n].job].type = jobs[msgs[n].job].type,
         Timely(row, modified, now),
         Kept(stored, modified, excused, stored', modified, excused', now),
         Sound(row, jobs'[row.job].type, stored', modified, excused'),
         UNCHANGED <<now, modified>>
  PROVE  Rows'
<1>1. msgs' \in [Msg -> MsgRow]
  BY DEF Rows
<1>2. ASSUME NEW n \in Msg, n # m
      PROVE  /\ msgs'[n] = msgs[n] /\ msgs[n] \in MsgRow
             /\ Timely(msgs[n], modified, now)
             /\ Sound(msgs[n], jobs'[msgs[n].job].type, stored', modified, excused')
  <2>1. msgs'[n] = msgs[n] /\ msgs[n] \in MsgRow  BY <1>2 DEF Rows
  <2>2. Timely(msgs[n], modified, now) /\ Sound(msgs[n], jobs[msgs[n].job].type, stored, modified, excused)
    BY DEF Rows, Type
  <2>3. msgs[n].pc \in {"fetch", "store"} => jobs'[msgs[n].job].type = jobs[msgs[n].job].type
    BY <1>2
  <2>4. modified \in Versions /\ now \in Int
    BY BeforeNow DEF Clock, Time
  <2>5. Sound(msgs[n], jobs'[msgs[n].job].type, stored', modified, excused')
    BY <2>1, <2>2, <2>3, <2>4, SoundKept
  <2> QED  BY <2>1, <2>2, <2>5
<1>3. msgs'[m] = row
  BY DEF Rows
<1>4. \A n \in Msg : msgs'[n].pc # "free" => msgs'[n].job \in Job
  BY <1>2, <1>3 DEF Rows
<1>5. \A n \in Msg : Timely(msgs'[n], modified', now')
  BY <1>2, <1>3
<1>6. \A n \in Msg : Sound(msgs'[n], Type(n)', stored', modified', excused')
  BY <1>2, <1>3 DEF Type
<1> QED  BY <1>1, <1>4, <1>5, <1>6 DEF Rows

\* No message changes.
LEMMA SameRows ==
  ASSUME Rows, Clock, UNCHANGED <<now, modified, stored, msgs>>,
         excused \cap Order \subseteq excused',
         \A n \in Msg : msgs[n].pc # "free" =>
           jobs'[msgs[n].job].type = jobs[msgs[n].job].type
  PROVE  Rows'
<1>1. ASSUME NEW n \in Msg
      PROVE  Sound(msgs[n], jobs'[msgs[n].job].type, stored, modified, excused')
  <2>1. Kept(stored, modified, excused, stored, modified, excused', now)
    BY KeptSame
  <2>2. msgs[n] \in MsgRow /\ modified \in Versions /\ now \in Int
    BY BeforeNow DEF Rows, Clock, Time
  <2>3. Timely(msgs[n], modified, now) /\ Sound(msgs[n], jobs[msgs[n].job].type, stored, modified, excused)
    BY DEF Rows, Type
  <2>4. msgs[n].pc \in {"fetch", "store"} => jobs'[msgs[n].job].type = jobs[msgs[n].job].type
    OBVIOUS
  <2> QED  BY <2>1, <2>2, <2>3, <2>4, SoundKept
<1> QED  BY <1>1 DEF Rows, Type

LEMMA SameCursor ==
  ASSUME Cursor, Clock, UNCHANGED <<now, modified, base>>,
         config' \in ConfigRow, config'.last = config.last,
         Kept(stored, modified, excused, stored', modified, excused', now)
  PROVE  Cursor'
<1>1. config.last \in Time \cup {NoTime} /\ base \in Int
  BY DEF Cursor, ConfigRow, Time
<1>2. now \in Int /\ config.last \in Int /\ modified \in Versions
  BY <1>1, BeforeNow DEF Clock
<1>3. config.last # NoTime => Covers(stored, modified, excused, base, config.last)
  BY DEF Cursor, CursorCovers, Covers
<1>4. config.last # NoTime => Covers(stored', modified, excused', base, config.last)
  BY <1>1, <1>2, <1>3, CoversKept DEF Cursor
<1>5. CursorCovers'
  BY <1>4 DEF CursorCovers, Covers
<1> QED  BY <1>5 DEF Cursor

LEMMA StatusKeepsType ==
  ASSUME Books, NEW j \in Job, NEW st \in Active \cup Finished, SetStatus(j, st)
  PROVE  jobs' \in [Job -> JobRow] /\ \A i \in Job : jobs'[i].type = jobs[i].type
<1>1. jobs \in [Job -> JobRow] /\ jobs' = [jobs EXCEPT ![j].status = st]
  BY DEF Books, SetStatus
<1>2. \A i \in Job : jobs'[i] = IF i = j THEN [jobs[i] EXCEPT !.status = st] ELSE jobs[i]
  BY <1>1
<1>3. \A i \in Job : jobs[i] \in JobRow
  BY <1>1
<1>4. \A i \in Job : jobs'[i] \in JobRow /\ jobs'[i].type = jobs[i].type
  BY <1>2, <1>3 DEF JobRow
<1>5. jobs' = [i \in Job |-> jobs'[i]]
  BY <1>1
<1> QED  BY <1>4, <1>5

LEMMA CreateKeepsType ==
  ASSUME Books, Rows, NEW j \in Job, NEW type \in {"incremental", "historical"}, Create(j, type)
  PROVE  /\ jobs' \in [Job -> JobRow]
         /\ \A n \in Msg : msgs[n].pc # "free" => jobs'[msgs[n].job].type = jobs[msgs[n].job].type
<1>1. jobs \in [Job -> JobRow]  BY DEF Books
<1>2. jobs' = [jobs EXCEPT ![j] = [status |-> "pending", type |-> type, old |-> FALSE]]
  BY DEF Create
<1>3. [status |-> "pending", type |-> type, old |-> FALSE] \in JobRow
  BY DEF JobRow, Active
<1>4. \A n \in Msg : msgs[n].job # j  BY DEF Create, Unused
<1>5. \A n \in Msg : msgs[n].pc # "free" => msgs[n].job \in Job  BY DEF Rows
<1> QED  BY <1>1, <1>2, <1>3, <1>4, <1>5

\* A message only goes on to a step that does not rest on what its run has covered.
LEMMA PcChanges ==
  ASSUME Rows, Clock, NEW m \in Msg, msgs[m].pc # "free",
         NEW pc \in {"config", "finish", "ack"}, SetPc(m, pc),
         UNCHANGED <<now, modified>>,
         \A i \in Job : jobs'[i].type = jobs[i].type,
         Kept(stored, modified, excused, stored', modified, excused', now)
  PROVE  Rows'
<1> DEFINE row == [msgs[m] EXCEPT !.pc = pc]
<1>1. msgs[m] \in MsgRow /\ msgs[m].job \in Job /\ Timely(msgs[m], modified, now)
  BY DEF Rows
<1>2. row \in MsgRow /\ row.job = msgs[m].job /\ row.pc = pc /\ row.cursor = msgs[m].cursor
      /\ row.from = msgs[m].from /\ row.to = msgs[m].to /\ row.upto = msgs[m].upto
      /\ row.batch = msgs[m].batch
  BY <1>1 DEF MsgRow, RunPc
<1>3. Sound(msgs[m], Type(m), stored, modified, excused)
  BY DEF Rows
<1>4. /\ now \in Int /\ modified \in Versions /\ msgs[m].cursor \in Int /\ From \in Int
      /\ msgs[m].cursor <= now
  BY <1>1, BeforeNow, ToastAssumption DEF Clock, Time, MsgRow, Timely, NoTime
<1>5. row.cursor # NoTime => Covers(stored', modified, excused', From, row.cursor)
  BY <1>2, <1>3, <1>4, CoversKept DEF Sound
<1>6. Sound(row, jobs'[row.job].type, stored', modified, excused')
  BY <1>2, <1>5 DEF Sound
<1>7. Timely(row, modified, now)
  BY <1>1, <1>2 DEF Timely
<1>8. msgs' = [msgs EXCEPT ![m] = row]
  BY DEF SetPc
<1>9. \A n \in Msg \ {m} : msgs[n].pc # "free" => jobs'[msgs[n].job].type = jobs[msgs[n].job].type
  BY DEF Rows
<1> HIDE DEF row
<1> QED  BY <1>1, <1>2, <1>6, <1>7, <1>8, <1>9, OneRow

LEMMA FreeTyped ==
  /\ FreeMsg \in MsgRow /\ FreeMsg.pc = "free" /\ FreeMsg.cursor = NoTime
  /\ FreeMsg.from = 0 /\ FreeMsg.to = 0 /\ FreeMsg.upto = 0 /\ FreeMsg.batch = NoOrders
<1>1. NoOrders \in Versions  BY DEF NoOrders, Versions
<1> QED  BY <1>1, ToastAssumption DEF FreeMsg, MsgRow, Time

\* A message without a cursor, or with one up to which its import has covered, is published
\* or delivered again.
LEMMA Queues ==
  ASSUME Rows, Clock, NEW m \in Msg, NEW j \in Job, NEW c \in Time \cup {NoTime}, c <= now,
         c # NoTime => Covers(stored, modified, excused, From, c),
         msgs' = [msgs EXCEPT ![m] = Queued(j, c)],
         UNCHANGED <<now, modified, stored, excused>>,
         \A n \in Msg \ {m} : msgs[n].pc # "free" =>
           jobs'[msgs[n].job].type = jobs[msgs[n].job].type
  PROVE  Rows'
<1> DEFINE row == Queued(j, c)
<1>1. /\ row \in MsgRow /\ row.job = j /\ row.pc = "queued" /\ row.cursor = c
      /\ row.from = 0 /\ row.to = 0 /\ row.upto = 0 /\ row.batch = NoOrders
  <2>1. FreeMsg \in MsgRow /\ FreeMsg.from = 0 /\ FreeMsg.to = 0 /\ FreeMsg.upto = 0
        /\ FreeMsg.batch = NoOrders
    BY FreeTyped
  <2> QED  BY <2>1 DEF Queued, MsgRow
<1>2. now \in Nat /\ \A o \in Order : modified[o] \in Time \cup {NoTime}
  BY DEF Clock, Versions, Time
<1>3. Timely(row, modified, now)
  BY <1>1, <1>2 DEF Timely, NoOrders, Time, NoTime
<1>4. Sound(row, jobs'[row.job].type, stored', modified, excused')
  BY <1>1 DEF Sound
<1>5. Kept(stored, modified, excused, stored', modified, excused', now)
  BY KeptSame
<1> HIDE DEF row
<1>6. msgs' = [msgs EXCEPT ![m] = row]
  BY DEF row
<1> QED  BY <1>1, <1>3, <1>4, <1>5, <1>6, OneRow

LEMMA Frees ==
  ASSUME Rows, Clock, NEW m \in Msg, msgs' = [msgs EXCEPT ![m] = FreeMsg],
         UNCHANGED <<now, modified, stored, excused, jobs>>
  PROVE  Rows'
<1>2. now \in Nat /\ \A o \in Order : modified[o] \in Time \cup {NoTime}
  BY DEF Clock, Versions, Time
<1>3. Timely(FreeMsg, modified, now)
  BY FreeTyped, <1>2 DEF Timely, NoOrders, Time, NoTime
<1>4. Sound(FreeMsg, jobs'[FreeMsg.job].type, stored', modified, excused')
  BY FreeTyped DEF Sound
<1>5. Kept(stored, modified, excused, stored', modified, excused', now)
  BY KeptSame
<1> QED  BY FreeTyped, <1>3, <1>4, <1>5, OneRow

-----------------------------------------------------------------------------
(* Toast, time, the API and the dispatcher *)

LEMMA TickSafe ==
  ASSUME SyncInv, NEW S \in SUBSET Order, Tick(S)
  PROVE  SyncInv'
<1>1. /\ now \in Time /\ now + 1 \in Time /\ now' = now + 1 /\ Today <= now /\ Today \in Int
      /\ now \in Int
  BY ToastAssumption DEF SyncInv, Clock, Tick, Time
<1>2. /\ modified \in Versions /\ modified' \in Versions
      /\ \A o \in Order : modified[o] \in Int /\ modified[o] <= now
      /\ \A o \in Order : modified'[o] = IF o \in S THEN now + 1 ELSE modified[o]
  BY <1>1 DEF SyncInv, Clock, Tick, Versions, Time, NoTime
<1>3. Kept(stored, modified, excused, stored', modified', excused', now)
  BY <1>1, <1>2 DEF Tick, Kept
<1>4. Clock'
  BY <1>1, <1>2 DEF Clock
<1>5. ASSUME NEW n \in Msg
      PROVE  /\ Timely(msgs[n], modified', now')
             /\ Sound(msgs[n], Type(n), stored', modified', excused')
  <2>1. msgs[n] \in MsgRow /\ Timely(msgs[n], modified, now)
        /\ Sound(msgs[n], Type(n), stored, modified, excused)
    BY DEF SyncInv, Rows
  <2>2. Sound(msgs[n], Type(n), stored', modified', excused')
    BY <1>1, <1>2, <1>3, <2>1, SoundKept
  <2>3. /\ msgs[n].from \in Int /\ msgs[n].to \in Int /\ msgs[n].upto \in Int
        /\ msgs[n].cursor \in Int /\ \A o \in Order : msgs[n].batch[o] \in Int
    BY <2>1 DEF MsgRow, Versions, Time, NoTime
  <2>4. Timely(msgs[n], modified', now')
    BY <1>1, <1>2, <2>1, <2>3 DEF Timely
  <2> QED  BY <2>2, <2>4
<1>6. Rows'
  BY <1>5 DEF SyncInv, Rows, Tick, Type
<1>7. Cursor'
  <2>1. config.last \in Time \cup {NoTime} /\ base \in Int /\ config.last <= now
    BY DEF SyncInv, Cursor, ConfigRow, Time
  <2>2. config.last \in Int
    BY <2>1 DEF Time, NoTime
  <2>3. config.last # NoTime => Covers(stored', modified', excused', base, config.last)
    <3>1. config.last # NoTime => Covers(stored, modified, excused, base, config.last)
      BY DEF SyncInv, Cursor, CursorCovers, Covers
    <3> QED  BY <1>1, <1>2, <1>3, <2>1, <2>2, <3>1, CoversKept
  <2>4. CursorCovers'
    <3>1. config' = config /\ base' = base  BY DEF Tick
    <3> QED  BY <2>3, <3>1 DEF CursorCovers, Covers
  <2> QED  BY <1>1, <2>1, <2>2, <2>4 DEF SyncInv, Cursor, Tick
<1> QED  BY <1>4, <1>6, <1>7 DEF SyncInv, Starters, Books, Tick

\* The location, its orders and the messages are as they were.
LEMMA JobsOnly ==
  ASSUME SyncInv, UNCHANGED <<now, modified, stored, msgs, base, excused>>,
         config' \in ConfigRow, config'.last = config.last,
         jobs' \in [Job -> JobRow], faults' \in 0..MaxFaults, Starters',
         \A n \in Msg : msgs[n].pc # "free" =>
           jobs'[msgs[n].job].type = jobs[msgs[n].job].type
  PROVE  SyncInv'
<1>1. Rows'
  BY SameRows DEF SyncInv
<1>2. Kept(stored, modified, excused, stored', modified, excused', now)
  BY KeptSame
<1>3. Cursor'
  BY <1>2, SameCursor DEF SyncInv
<1>4. Clock' /\ Books'
  BY DEF SyncInv, Clock, Books
<1> QED  BY <1>1, <1>3, <1>4 DEF SyncInv

LEMMA FaultTyped ==
  ASSUME SyncInv, NEW kind, Fault(kind)
  PROVE  faults' \in 0..MaxFaults
BY ToastAssumption DEF SyncInv, Books, Fault

LEMMA PublishSafe ==
  ASSUME SyncInv, NEW j \in Job, Publish(j, NoTime), Starters',
         UNCHANGED <<now, modified, stored, config, jobs, faults, base, excused>>
  PROVE  SyncInv'
<1>1. PICK m \in Msg : msgs' = [msgs EXCEPT ![m] = Queued(j, NoTime)]
  BY DEF Publish
<1>2. NoTime <= now /\ NoTime \in Time \cup {NoTime}
  BY DEF SyncInv, Clock, Time, NoTime
<1>3. Rows'
  BY <1>1, <1>2, Queues DEF SyncInv
<1>4. Clock' /\ Cursor' /\ Books'
  BY DEF SyncInv, Clock, Cursor, CursorCovers, Books
<1> QED  BY <1>3, <1>4 DEF SyncInv

LEMMA RequestSafe ==
  ASSUME SyncInv, NEW r \in Req,
         \/ RequestStep(r) \/ Connect(r) \/ ApiCrash(r)
         \/ \E j \in Job, type \in {"incremental", "historical"} : ManualSync(r, j, type)
  PROVE  SyncInv'
<1>1. /\ reqs \in [Req -> ReqRow] /\ config \in ConfigRow /\ jobs \in [Job -> JobRow]
      /\ \A q \in Req : reqs[q].pc = "enqueue" => reqs[q].job \in Job
  BY DEF SyncInv, Starters, Cursor, Books
<1>2. CASE Connect(r)
  <2>1. config' \in ConfigRow /\ config'.last = config.last
    BY <1>1, <1>2 DEF Connect, ConfigRow
  <2>2. Starters'
    BY <1>1, <1>2 DEF Connect, SyncInv, Starters, ReqRow
  <2> QED  BY <1>2, <2>1, <2>2, JobsOnly DEF Connect, SyncInv, Books
<1>3. ASSUME NEW j \in Job, ConnectImport(r, j)
      PROVE  SyncInv'
  <2>1. Starters'
    BY <1>1, <1>3 DEF ConnectImport, SyncInv, Starters, ReqRow
  <2>2. Create(j, "historical")
    BY <1>3 DEF ConnectImport
  <2>3. /\ jobs' \in [Job -> JobRow]
        /\ \A n \in Msg : msgs[n].pc # "free" => jobs'[msgs[n].job].type = jobs[msgs[n].job].type
    BY <2>2, CreateKeepsType DEF SyncInv
  <2> QED  BY <1>1, <1>3, <2>1, <2>3, JobsOnly DEF ConnectImport, SyncInv, Books
<1>4. ASSUME NEW j \in Job, NEW type \in {"incremental", "historical"}, ManualSync(r, j, type)
      PROVE  SyncInv'
  <2>1. Starters'
    BY <1>1, <1>4 DEF ManualSync, SyncInv, Starters, ReqRow
  <2>2. Create(j, type)
    BY <1>4 DEF ManualSync
  <2>3. /\ jobs' \in [Job -> JobRow]
        /\ \A n \in Msg : msgs[n].pc # "free" => jobs'[msgs[n].job].type = jobs[msgs[n].job].type
    BY <2>2, CreateKeepsType DEF SyncInv
  <2> QED  BY <1>1, <1>4, <2>1, <2>3, JobsOnly DEF ManualSync, SyncInv, Books
<1>5. CASE Enqueue(r)
  <2>1. reqs[r].job \in Job
    BY <1>1, <1>5 DEF Enqueue
  <2>2. Starters'
    BY <1>1, <1>5 DEF Enqueue, SyncInv, Starters, ReqRow, Idle
  <2>3. CASE Publish(reqs[r].job, NoTime) /\ UNCHANGED faults
    BY <1>5, <2>1, <2>2, <2>3, PublishSafe DEF Enqueue
  <2>4. CASE Fault("broker") /\ UNCHANGED msgs
    BY <1>1, <1>5, <2>2, <2>4, FaultTyped, JobsOnly DEF Enqueue
  <2> QED  BY <1>5, <2>3, <2>4 DEF Enqueue
<1>6. CASE ApiCrash(r)
  <2>1. Starters'
    BY <1>1, <1>6 DEF ApiCrash, SyncInv, Starters, ReqRow, Idle
  <2> QED  BY <1>1, <1>6, <2>1, FaultTyped, JobsOnly DEF ApiCrash
<1> QED  BY <1>2, <1>3, <1>4, <1>5, <1>6 DEF RequestStep

LEMMA DispatchSafe ==
  ASSUME SyncInv, NEW d \in Disp, DispatchStep(d) \/ DispatchLost(d)
  PROVE  SyncInv'
<1>1. /\ disps \in [Disp -> DispRow] /\ config \in ConfigRow /\ jobs \in [Job -> JobRow]
      /\ \A e \in Disp : disps[e].pc = "enqueue" => disps[e].job \in Job
      /\ \A n \in Msg : msgs[n].pc # "free" => msgs[n].job \in Job
      /\ faults \in 0..MaxFaults
  BY DEF SyncInv, Starters, Cursor, Books, Rows
<1>2. CASE DispatchSweep(d)
  <2>1. Starters'
    BY <1>1, <1>2 DEF DispatchSweep, SyncInv, Starters, DispRow
  <2>2. \A i \in Job : jobs[i] \in JobRow
    BY <1>1
  <2>3. \A i \in Job : jobs'[i] \in JobRow /\ jobs'[i].type = jobs[i].type
    BY <1>2, <2>2 DEF DispatchSweep, JobRow, Finished
  <2>4. jobs' \in [Job -> JobRow]
    BY <1>2, <2>3 DEF DispatchSweep
  <2> QED  BY <1>1, <1>2, <2>1, <2>3, <2>4, JobsOnly DEF DispatchSweep
<1>3. CASE DispatchCheck(d)
  <2>1. Starters'
    BY <1>1, <1>3 DEF DispatchCheck, SyncInv, Starters, DispRow
  <2> QED  BY <1>1, <1>3, <2>1, JobsOnly DEF DispatchCheck
<1>4. ASSUME NEW j \in Job, DispatchCreate(d, j)
      PROVE  SyncInv'
  <2>1. Starters'
    BY <1>1, <1>4 DEF DispatchCreate, SyncInv, Starters, DispRow
  <2>2. Create(j, "incremental")
    BY <1>4 DEF DispatchCreate
  <2>3. /\ jobs' \in [Job -> JobRow]
        /\ \A n \in Msg : msgs[n].pc # "free" => jobs'[msgs[n].job].type = jobs[msgs[n].job].type
    BY <2>2, CreateKeepsType DEF SyncInv
  <2> QED  BY <1>1, <1>4, <2>1, <2>3, JobsOnly DEF DispatchCreate
<1>5. CASE DispatchEnqueue(d)
  <2>1. disps[d].job \in Job
    BY <1>1, <1>5 DEF DispatchEnqueue
  <2>2. Starters'
    BY <1>1, <1>5 DEF DispatchEnqueue, SyncInv, Starters, DispRow, Idle
  <2>3. CASE Publish(disps[d].job, NoTime) /\ UNCHANGED faults
    BY <1>5, <2>1, <2>2, <2>3, PublishSafe DEF DispatchEnqueue
  <2>4. CASE Fault("broker") /\ UNCHANGED msgs
    BY <1>1, <1>5, <2>2, <2>4, FaultTyped, JobsOnly DEF DispatchEnqueue
  <2> QED  BY <1>5, <2>3, <2>4 DEF DispatchEnqueue
<1>6. CASE DispatchLost(d)
  <2>1. Starters'
    BY <1>1, <1>6 DEF DispatchLost, SyncInv, Starters, DispRow, Idle
  <2> QED  BY <1>1, <1>6, <2>1, FaultTyped, JobsOnly DEF DispatchLost
<1> QED  BY <1>2, <1>3, <1>4, <1>5, <1>6 DEF DispatchStep

LEMMA AgeSafe ==
  ASSUME SyncInv, NEW j \in Job, Age(j)
  PROVE  SyncInv'
<1>1. /\ config \in ConfigRow /\ jobs \in [Job -> JobRow] /\ faults \in 0..MaxFaults
      /\ \A n \in Msg : msgs[n].pc # "free" => msgs[n].job \in Job
  BY DEF SyncInv, Cursor, Books, Rows
<1>2. Starters'
  BY DEF Age, SyncInv, Starters
<1>3. jobs' \in [Job -> JobRow] /\ \A i \in Job : jobs'[i].type = jobs[i].type
  BY <1>1 DEF Age, JobRow
<1> QED  BY <1>1, <1>2, <1>3, JobsOnly DEF Age

LEMMA DisconnectSafe ==
  ASSUME SyncInv, Disconnect
  PROVE  SyncInv'
<1>1. config \in ConfigRow /\ jobs \in [Job -> JobRow] /\ faults \in 0..MaxFaults
  BY DEF SyncInv, Cursor, Books
<1>2. Starters'
  BY DEF Disconnect, SyncInv, Starters
<1>3. config' \in ConfigRow /\ config'.last = config.last
  BY <1>1 DEF Disconnect, ConfigRow
<1> QED  BY <1>1, <1>2, <1>3, JobsOnly DEF Disconnect

-----------------------------------------------------------------------------
(* Tasks *)

LEMMA TaskFacts ==
  ASSUME SyncInv, NEW m \in Msg, msgs[m].pc # "free"
  PROVE  /\ msgs[m] \in MsgRow /\ msgs[m].job \in Job
         /\ Timely(msgs[m], modified, now)
         /\ Sound(msgs[m], Type(m), stored, modified, excused)
         /\ now \in Nat /\ now \in Time /\ Today <= now /\ modified \in Versions
         /\ \A o \in Order : modified[o] \in Int /\ modified[o] <= now
         /\ jobs \in [Job -> JobRow] /\ Type(m) \in {"incremental", "historical"}
         /\ config \in ConfigRow /\ faults \in 0..MaxFaults
<1>1. jobs \in [Job -> JobRow] /\ msgs[m].job \in Job
  BY DEF SyncInv, Rows, Books
<1>2. Type(m) \in {"incremental", "historical"}
  BY <1>1 DEF Type, JobRow
<1>3. now \in Nat /\ \A o \in Order : modified[o] \in Int
  BY DEF SyncInv, Clock, Time, Versions, NoTime
<1> QED  BY <1>1, <1>2, <1>3 DEF SyncInv, Rows, Clock, Cursor, Books

LEMMA PcOnlySafe ==
  ASSUME SyncInv, NEW m \in Msg, msgs[m].pc # "free",
         NEW pc \in {"config", "finish", "ack"}, SetPc(m, pc),
         UNCHANGED <<now, modified, stored, reqs, disps, base>>,
         excused \subseteq excused', excused' \subseteq Order \cup Job,
         jobs' \in [Job -> JobRow], \A i \in Job : jobs'[i].type = jobs[i].type,
         config' \in ConfigRow, config'.last = config.last, faults' \in 0..MaxFaults
  PROVE  SyncInv'
<1>1. Kept(stored, modified, excused, stored', modified, excused', now)
  BY KeptSame
<1>2. Rows'
  BY <1>1, PcChanges DEF SyncInv
<1>3. Cursor'
  BY <1>1, SameCursor DEF SyncInv
<1>4. Clock' /\ Starters' /\ Books'
  BY DEF SyncInv, Clock, Starters, Books
<1> QED  BY <1>2, <1>3, <1>4 DEF SyncInv

LEMMA TaskStartSafe ==
  ASSUME SyncInv, NEW m \in Msg, TaskStart(m)
  PROVE  SyncInv'
<1>1. msgs[m].pc # "free" /\ SetPc(m, "config")
  BY DEF TaskStart
<1>2. jobs' \in [Job -> JobRow] /\ \A i \in Job : jobs'[i].type = jobs[i].type
  BY <1>1, TaskFacts, StatusKeepsType DEF TaskStart, SyncInv, Active
<1> QED  BY <1>1, <1>2, TaskFacts, PcOnlySafe DEF TaskStart, SyncInv, Books

LEMMA FinishSafe ==
  ASSUME SyncInv, NEW m \in Msg, Finish(m)
  PROVE  SyncInv'
<1>1. msgs[m].pc # "free" /\ SetPc(m, "ack")
  BY DEF Finish
<1>2. jobs' \in [Job -> JobRow] /\ \A i \in Job : jobs'[i].type = jobs[i].type
  BY <1>1, TaskFacts, StatusKeepsType DEF Finish, SyncInv, Finished
<1> QED  BY <1>1, <1>2, TaskFacts, PcOnlySafe DEF Finish, SyncInv, Books

LEMMA FailSafe ==
  ASSUME SyncInv, NEW m \in Msg, ReadConfigInactive(m) \/ FetchFails(m) \/ ChainFails(m)
  PROVE  SyncInv'
<1>1. msgs[m].pc # "free" /\ TaskFail(m) /\ stored' = stored /\ excused' = excused
  BY DEF ReadConfigInactive, FetchFails, ChainFails
<1>2. faults' \in 0..MaxFaults
  BY FaultTyped DEF ReadConfigInactive, FetchFails, ChainFails, SyncInv, Books
<1>3. jobs' \in [Job -> JobRow] /\ \A i \in Job : jobs'[i].type = jobs[i].type
  BY <1>1, TaskFacts, StatusKeepsType DEF TaskFail, SyncInv, Finished
<1> QED  BY <1>1, <1>2, <1>3, TaskFacts, PcOnlySafe DEF TaskFail, SyncInv, Books

LEMMA DatabaseFailsSafe ==
  ASSUME SyncInv, NEW m \in Msg, DatabaseFails(m)
  PROVE  SyncInv'
<1>1. msgs[m].pc # "free" /\ SetPc(m, "ack") /\ faults' \in 0..MaxFaults
  BY FaultTyped DEF DatabaseFails
<1>2. excused \subseteq excused' /\ excused' \subseteq Order \cup Job
  BY <1>1, TaskFacts DEF DatabaseFails, SyncInv, Books
<1> QED  BY <1>1, <1>2, TaskFacts, PcOnlySafe DEF DatabaseFails

LEMMA StoreFailsSafe ==
  ASSUME SyncInv, NEW m \in Msg, StoreFails(m)
  PROVE  SyncInv'
<1>1. /\ msgs[m].pc # "free" /\ SetPc(m, "ack") /\ faults' \in 0..MaxFaults
      /\ Upsert(msgs[m].batch)
  BY FaultTyped DEF StoreFails, TaskFail
<1>2. msgs[m].batch \in Versions /\ \A o \in Order : msgs[m].batch[o] <= modified[o]
  BY <1>1, TaskFacts DEF MsgRow, Timely
<1>3. /\ Kept(stored, modified, excused, stored', modified, excused', now)
      /\ stored' \in Versions /\ excused' \subseteq Order \cup Job
  BY <1>1, <1>2, UpsertKeeps DEF SyncInv
<1>4. jobs' \in [Job -> JobRow] /\ \A i \in Job : jobs'[i].type = jobs[i].type
  BY <1>1, TaskFacts, StatusKeepsType DEF StoreFails, TaskFail, SyncInv, Finished
<1>5. Rows'
  BY <1>1, <1>3, <1>4, PcChanges DEF StoreFails, TaskFail, SyncInv
<1>6. Cursor'
  BY <1>1, <1>3, TaskFacts, SameCursor DEF StoreFails, TaskFail, SyncInv
<1>7. Clock' /\ Starters' /\ Books'
  BY <1>1, <1>3, <1>4 DEF StoreFails, TaskFail, SyncInv, Clock, Starters, Books
<1> QED  BY <1>5, <1>6, <1>7 DEF SyncInv

LEMMA WorkerLostSafe ==
  ASSUME SyncInv, NEW m \in Msg, WorkerLost(m)
  PROVE  SyncInv'
<1>1. msgs[m].pc # "free" /\ faults' \in 0..MaxFaults
  BY FaultTyped DEF WorkerLost, RunPc
<1>2. /\ msgs[m].job \in Job /\ msgs[m].cursor \in Time \cup {NoTime} /\ msgs[m].cursor <= now
      /\ msgs[m].cursor # NoTime => Covers(stored, modified, excused, From, msgs[m].cursor)
  BY <1>1, TaskFacts DEF MsgRow, Timely, Sound
<1>3. Rows'
  BY <1>1, <1>2, Queues DEF WorkerLost, SyncInv
<1>4. Clock' /\ Starters' /\ Cursor' /\ Books'
  BY <1>1 DEF WorkerLost, SyncInv, Clock, Starters, Cursor, CursorCovers, Books
<1> QED  BY <1>3, <1>4 DEF SyncInv

LEMMA AckSafe ==
  ASSUME SyncInv, NEW m \in Msg, Ack(m)
  PROVE  SyncInv'
<1>1. Rows'
  BY Frees DEF Ack, SyncInv
<1>2. Clock' /\ Starters' /\ Cursor' /\ Books'
  BY DEF Ack, SyncInv, Clock, Starters, Cursor, CursorCovers, Books
<1> QED  BY <1>1, <1>2 DEF SyncInv

LEMMA RangeEndTyped ==
  ASSUME NEW from \in Time, NEW upto \in Time, from <= upto, NEW length \in Nat
  PROVE  RangeEnd(from, length, upto) \in Time /\ RangeEnd(from, length, upto) <= upto
BY ToastAssumption DEF RangeEnd, Time

LEMMA ReadConfigSafe ==
  ASSUME SyncInv, NEW m \in Msg, ReadConfig(m)
  PROVE  SyncInv'
<1> DEFINE start  == IF From > now THEN now - Day ELSE From
           from   == CASE IsIncremental(m) -> IF config.last = NoTime THEN now - Day ELSE config.last
                       [] OTHER            -> IF msgs[m].cursor = NoTime THEN start
                                                                         ELSE msgs[m].cursor
           pc     == IF from < now THEN "fetch" ELSE IF IsIncremental(m) THEN "finish" ELSE "final"
           low    == IF ~IsIncremental(m) THEN From ELSE IF config.last = NoTime THEN from ELSE base
           length == IF IsIncremental(m) THEN Window ELSE Chunk
           to     == RangeEnd(from, length, now)
           row    == [msgs[m] EXCEPT !.pc = pc, !.from = from, !.upto = now, !.low = low, !.to = to]
<1>1. /\ msgs[m].pc = "config" /\ msgs[m] \in MsgRow /\ msgs[m].job \in Job
      /\ Timely(msgs[m], modified, now) /\ now \in Time /\ now \in Nat /\ config \in ConfigRow
      /\ Sound(msgs[m], Type(m), stored, modified, excused)
      /\ modified \in Versions /\ config.last <= now /\ base \in Time
      /\ IsIncremental(m) <=> Type(m) = "incremental"
  BY TaskFacts DEF ReadConfig, SyncInv, Cursor, IsIncremental, Type
<1>2. now - Day \in Time /\ now - Day < now /\ From \in Time
  BY <1>1, BeforeNow, ToastAssumption DEF SyncInv, Time
<1>3. /\ IsIncremental(m) /\ config.last = NoTime => from = now - Day /\ low = from
      /\ IsIncremental(m) /\ config.last # NoTime => from = config.last /\ low = base
      /\ ~IsIncremental(m) => low = From
      /\ ~IsIncremental(m) /\ msgs[m].cursor = NoTime => from = start
      /\ ~IsIncremental(m) /\ msgs[m].cursor # NoTime => from = msgs[m].cursor
      /\ pc \in {"fetch", "finish", "final"} /\ (pc = "final" => ~(from < now))
  <2>1. IsIncremental(m) \in BOOLEAN
    BY DEF IsIncremental
  <2>2. IsIncremental(m) =>
          /\ config.last = NoTime => from = now - Day /\ low = from
          /\ config.last # NoTime => from = config.last /\ low = base
    BY <2>1
  <2>3. ~IsIncremental(m) =>
          /\ low = From
          /\ msgs[m].cursor = NoTime => from = start
          /\ msgs[m].cursor # NoTime => from = msgs[m].cursor
    <3> HIDE DEF start
    <3>1. ~IsIncremental(m) => low = From
      <4> HIDE DEF from
      <4> QED  BY <2>1
    <3>2. ~IsIncremental(m) /\ msgs[m].cursor = NoTime => from = start
      BY <2>1
    <3>3. ~IsIncremental(m) /\ msgs[m].cursor # NoTime => from = msgs[m].cursor
      BY <2>1
    <3> QED  BY <3>1, <3>2, <3>3
  <2>4. pc \in {"fetch", "finish", "final"} /\ (pc = "final" => ~(from < now))
    <3> HIDE DEF from
    <3> QED  BY <2>1
  <2> QED  BY <2>2, <2>3, <2>4
<1>4. from \in Time /\ from <= now
  <2>1. config.last \in Time \cup {NoTime} /\ msgs[m].cursor \in Time \cup {NoTime}
        /\ msgs[m].cursor <= now
    BY <1>1 DEF ConfigRow, MsgRow, Timely
  <2>2. start \in Time /\ start <= now
    BY <1>1, <1>2 DEF Time
  <2>3. now - Day <= now
    BY <1>1, <1>2 DEF Time
  <2> HIDE DEF from, low, start, pc
  <2> QED  BY <1>1, <1>2, <1>3, <2>1, <2>2, <2>3
<1>5. low \in Time
  <2> HIDE DEF from, low, start, pc
  <2> QED  BY <1>1, <1>2, <1>3, <1>4
<1>6. to \in Time /\ to <= now
  <2>1. length \in Nat  BY ToastAssumption
  <2> HIDE DEF from, low, length, pc
  <2> QED  BY <1>1, <1>4, <2>1, RangeEndTyped
<1>7. msgs' = [msgs EXCEPT ![m] = row]
  BY DEF ReadConfig
<1>8. /\ row \in MsgRow /\ row.pc = pc /\ row.from = from /\ row.to = to /\ row.upto = now
      /\ row.low = low /\ row.job = msgs[m].job /\ row.cursor = msgs[m].cursor
      /\ row.batch = msgs[m].batch
  <2>1. pc \in RunPc \cup {"free", "queued"}  BY <1>3 DEF RunPc
  <2> HIDE DEF pc, from, low, to, length
  <2> QED  BY <1>1, <1>4, <1>5, <1>6, <2>1 DEF MsgRow
<1>9. Timely(row, modified, now)
  BY <1>1, <1>4, <1>6, <1>8 DEF Timely
\* The cursor of the location, or of the chunk, says what is stored.
<1>10. Covers(stored, modified, excused, low, from)
  <2> HIDE DEF from, low, pc
  <2>1. CASE ~IsIncremental(m) /\ msgs[m].cursor # NoTime
    BY <1>1, <1>3, <2>1 DEF Sound
  <2>2. CASE ~IsIncremental(m) /\ msgs[m].cursor = NoTime
    <3>1. from <= From /\ low = From
      BY <1>1, <1>2, <1>3, <2>2 DEF Time
    <3> QED  BY <1>1, <1>2, <1>4, <3>1 DEF Covers, Versions, Time, NoTime
  <2>3. CASE IsIncremental(m) /\ config.last = NoTime
    <3>1. low = from  BY <1>3, <2>3
    <3> QED  BY <1>1, <1>4, <3>1 DEF Covers, Versions, Time, NoTime
  <2>4. CASE IsIncremental(m) /\ config.last # NoTime
    BY <1>3, <2>4 DEF SyncInv, Cursor, CursorCovers, Covers
  <2> QED  BY <2>1, <2>2, <2>3, <2>4
<1>11. Sound(row, Type(m), stored, modified, excused)
  <2> HIDE DEF pc, from, low, to, length, row
  <2>1. pc = "final" => from = now
    BY <1>1, <1>3, <1>4 DEF Time
  <2>2. pc \in {"fetch", "finish", "final"} /\ (~IsIncremental(m) => low = From)
    BY <1>3
  <2>3. row.cursor # NoTime => Covers(stored, modified, excused, From, row.cursor)
    BY <1>1, <1>8 DEF Sound
  <2> QED  BY <1>1, <1>8, <1>10, <2>1, <2>2, <2>3 DEF Sound
<1>12. Rows'
  <2>1. jobs' = jobs /\ UNCHANGED <<now, modified, stored, excused>>
    BY DEF ReadConfig
  <2>2. Kept(stored, modified, excused, stored', modified, excused', now)
    BY <2>1, KeptSame
  <2>3. Sound(row, jobs'[row.job].type, stored', modified, excused')
    BY <1>8, <1>11, <2>1 DEF Type
  <2> HIDE DEF row
  <2> QED  BY <1>1, <1>7, <1>8, <1>9, <2>1, <2>2, <2>3, OneRow DEF SyncInv
<1>13. Clock' /\ Starters' /\ Cursor' /\ Books'
  BY DEF ReadConfig, SyncInv, Clock, Starters, Cursor, CursorCovers, Books
<1> QED  BY <1>12, <1>13 DEF SyncInv

LEMMA FetchSafe ==
  ASSUME SyncInv, NEW m \in Msg, NEW skipped, Fetch(m, skipped)
  PROVE  SyncInv'
<1> DEFINE batch == [o \in Order |-> IF o \in InRange(m) \ skipped THEN modified[o] ELSE NoTime]
           row   == [msgs[m] EXCEPT !.pc = "store", !.batch = batch]
<1>1. /\ msgs[m].pc = "fetch" /\ msgs[m] \in MsgRow /\ msgs[m].job \in Job
      /\ Timely(msgs[m], modified, now)
      /\ Sound(msgs[m], Type(m), stored, modified, excused)
      /\ modified \in Versions /\ now \in Int /\ \A o \in Order : modified[o] \in Int
  BY TaskFacts DEF Fetch
<1>2. /\ excused' = excused \cup skipped /\ skipped \subseteq InRange(m)
      /\ UNCHANGED <<now, modified, stored, config, jobs, reqs, disps, base>>
      /\ faults' \in 0..MaxFaults
  BY FaultTyped DEF Fetch, SyncInv, Books
<1>3. batch \in Versions /\ \A o \in Order : batch[o] <= modified[o]
  BY <1>1 DEF Versions, Time, NoTime
<1>4. msgs' = [msgs EXCEPT ![m] = row]
  BY DEF Fetch
<1>5. /\ row \in MsgRow /\ row.pc = "store" /\ row.from = msgs[m].from /\ row.to = msgs[m].to
      /\ row.upto = msgs[m].upto /\ row.low = msgs[m].low /\ row.job = msgs[m].job
      /\ row.cursor = msgs[m].cursor /\ row.batch = batch
  <2> HIDE DEF batch
  <2> QED  BY <1>1, <1>3 DEF MsgRow, RunPc
<1>6. Timely(row, modified, now)
  BY <1>1, <1>3, <1>5 DEF Timely
<1>7. Kept(stored, modified, excused, stored', modified, excused', now)
  BY <1>2, KeptSame
<1>8. Sound(msgs[m], Type(m), stored, modified, excused')
  BY <1>1, <1>2, <1>7, SoundKept
<1>9. \A o \in Order \ excused' :
        row.from <= modified[o] /\ modified[o] <= row.to => row.batch[o] = modified[o]
  <2>1. msgs[m].from \in Int /\ msgs[m].to \in Int
    BY <1>1 DEF MsgRow, Time
  <2> HIDE DEF row
  <2> QED  BY <1>1, <1>2, <1>5, <2>1 DEF InRange
<1>10. Sound(row, Type(m), stored, modified, excused')
  <2> HIDE DEF row
  <2> QED  BY <1>1, <1>5, <1>8, <1>9 DEF Sound
<1>11. Rows'
  <2>1. Sound(row, jobs'[row.job].type, stored', modified, excused')
    BY <1>2, <1>5, <1>10 DEF Type
  <2> HIDE DEF row
  <2> QED  BY <1>1, <1>2, <1>4, <1>5, <1>6, <1>7, <2>1, OneRow DEF SyncInv
<1>12. Cursor'
  BY <1>2, <1>7, TaskFacts, SameCursor DEF SyncInv, Cursor
<1>13. Clock' /\ Starters'
  BY <1>2 DEF SyncInv, Clock, Starters
<1>14. Books'
  BY <1>2 DEF SyncInv, Books, InRange
<1> QED  BY <1>11, <1>12, <1>13, <1>14 DEF SyncInv

\* Once its batch is stored, a run has covered its range too.
LEMMA Stores ==
  ASSUME SyncInv, NEW m \in Msg, msgs[m].pc = "store", Upsert(msgs[m].batch),
         UNCHANGED <<now, modified>>
  PROVE  /\ Kept(stored, modified, excused, stored', modified, excused', now)
         /\ stored' \in Versions /\ excused' \subseteq Order \cup Job
         /\ Covers(stored', modified, excused', msgs[m].low, msgs[m].to)
<1>1. /\ msgs[m] \in MsgRow /\ Timely(msgs[m], modified, now)
      /\ Sound(msgs[m], Type(m), stored, modified, excused)
      /\ modified \in Versions /\ now \in Int /\ \A o \in Order : modified[o] \in Int
  BY TaskFacts
<1>2. /\ msgs[m].batch \in Versions /\ \A o \in Order : msgs[m].batch[o] <= modified[o]
      /\ msgs[m].low \in Time /\ msgs[m].from \in Time /\ msgs[m].to \in Time
      /\ msgs[m].from <= now
  BY <1>1 DEF MsgRow, Timely
<1>3. /\ Kept(stored, modified, excused, stored', modified, excused', now)
      /\ stored' \in Versions /\ excused' \subseteq Order \cup Job
      /\ \A o \in Order \ excused' : modified[o] # NoTime /\ msgs[m].batch[o] = modified[o]
           => stored'[o] = modified[o]
  BY <1>2, UpsertKeeps DEF SyncInv
<1>4. msgs[m].low \in Int /\ msgs[m].from \in Int /\ msgs[m].to \in Int /\ msgs[m].from >= 0
  BY <1>2 DEF Time
<1>5. Covers(stored', modified, excused', msgs[m].low, msgs[m].from)
  <2>1. Covers(stored, modified, excused, msgs[m].low, msgs[m].from)
    BY <1>1 DEF Sound
  <2> QED  BY <1>1, <1>2, <1>3, <1>4, <2>1, CoversKept
<1>6. ASSUME NEW o \in Order \ excused', msgs[m].from <= modified[o], modified[o] <= msgs[m].to
      PROVE  stored'[o] = modified[o]
  <2>1. excused \subseteq excused'
    BY DEF Upsert
  <2>2. msgs[m].batch[o] = modified[o]
    BY <1>1, <1>6, <2>1 DEF Sound
  <2>3. modified[o] # NoTime
    BY <1>1, <1>4, <1>6 DEF NoTime
  <2> QED  BY <1>3, <2>2, <2>3
<1>7. Covers(stored', modified, excused', msgs[m].low, msgs[m].to)
  BY <1>1, <1>4, <1>5, <1>6 DEF Covers
<1> QED  BY <1>3, <1>7

\* The cursor moves to the end of what a run has covered.
LEMMA CursorMoves ==
  ASSUME SyncInv, NEW m \in Msg, NEW st, NEW ex, NEW x \in Time, x <= now,
         msgs[m] \in MsgRow,
         Kept(stored, modified, excused, st, modified, ex, now),
         Covers(st, modified, ex, msgs[m].low, x)
  PROVE  Low(m) \in Time /\ Covers(st, modified, ex, Low(m), x)
<1>1. /\ base \in Time /\ msgs[m].low \in Time /\ config.last \in Time \cup {NoTime}
      /\ modified \in Versions /\ now \in Int /\ config.last <= now
  BY BeforeNow DEF SyncInv, Clock, Cursor, ConfigRow, MsgRow, Time
<1>2. base \in Int /\ msgs[m].low \in Int /\ x \in Int /\ config.last \in Int /\ base >= 0
  BY <1>1 DEF Time, NoTime
<1>3. CASE msgs[m].low \in base..config.last
  <2>1. config.last # NoTime /\ msgs[m].low <= config.last
    BY <1>2, <1>3 DEF NoTime
  <2>2. Covers(stored, modified, excused, base, msgs[m].low)
    BY <1>1, <1>2, <2>1 DEF SyncInv, Cursor, CursorCovers, Covers, Versions, Time, NoTime
  <2>3. Covers(st, modified, ex, base, msgs[m].low)
    BY <1>1, <1>2, <2>1, <2>2, CoversKept
  <2>4. Covers(st, modified, ex, base, x)
    BY <1>1, <1>2, <2>3, Joined
  <2> QED  BY <1>1, <1>3, <2>4 DEF Low
<1>4. CASE msgs[m].low \notin base..config.last
  BY <1>1, <1>4 DEF Low
<1> QED  BY <1>3, <1>4

LEMMA StoreWindowSafe ==
  ASSUME SyncInv, NEW m \in Msg, StoreWindow(m)
  PROVE  SyncInv'
<1> DEFINE last == RangeEnd(msgs[m].to, Window, msgs[m].upto)
           on   == [msgs[m] EXCEPT !.pc = "fetch", !.from = msgs[m].to, !.batch = NoOrders,
                                   !.to = last]
           end  == [msgs[m] EXCEPT !.pc = "finish", !.batch = NoOrders]
<1>1. /\ msgs[m].pc = "store" /\ msgs[m] \in MsgRow /\ msgs[m].job \in Job
      /\ Timely(msgs[m], modified, now) /\ Type(m) = "incremental"
      /\ Sound(msgs[m], Type(m), stored, modified, excused)
      /\ modified \in Versions /\ now \in Int /\ config \in ConfigRow
      /\ \A o \in Order : modified[o] \in Int
  BY TaskFacts DEF StoreWindow, IsIncremental, Type
<1>2. /\ Upsert(msgs[m].batch) /\ config' = [config EXCEPT !.last = msgs[m].to] /\ base' = Low(m)
      /\ UNCHANGED <<now, modified, jobs, reqs, disps, faults>>
  BY DEF StoreWindow
<1>3. /\ Kept(stored, modified, excused, stored', modified, excused', now)
      /\ stored' \in Versions /\ excused' \subseteq Order \cup Job
      /\ Covers(stored', modified, excused', msgs[m].low, msgs[m].to)
  BY <1>1, <1>2, Stores
<1>4. /\ msgs[m].to \in Time /\ msgs[m].upto \in Time /\ msgs[m].low \in Time
      /\ msgs[m].to <= msgs[m].upto /\ msgs[m].upto <= now
      /\ msgs[m].to <= now /\ msgs[m].from <= now /\ msgs[m].cursor <= now
      /\ msgs[m].cursor \in Time \cup {NoTime} /\ msgs[m].from \in Time
  <2>1. msgs[m].to \in Int /\ msgs[m].upto \in Int
    BY <1>1 DEF MsgRow, Time
  <2> QED  BY <1>1, <2>1 DEF MsgRow, Timely
<1>5. Cursor'
  <2>1. Low(m) \in Time /\ Covers(stored', modified, excused', Low(m), msgs[m].to)
    BY <1>1, <1>3, <1>4, CursorMoves
  <2>2. config' \in ConfigRow /\ config'.last = msgs[m].to
    BY <1>1, <1>2, <1>4 DEF ConfigRow
  <2>3. CursorCovers'
    BY <1>2, <2>1, <2>2 DEF CursorCovers, Covers
  <2> QED  BY <1>2, <1>4, <2>1, <2>2, <2>3 DEF Cursor
<1>6. NoOrders \in Versions /\ \A o \in Order : NoOrders[o] <= modified[o]
  <2>1. \A o \in Order : modified[o] \in Time \cup {NoTime}
    BY <1>1 DEF Versions
  <2> QED  BY <2>1 DEF NoOrders, Versions, Time, NoTime
<1>7. Sound(msgs[m], Type(m), stored', modified, excused')
  BY <1>1, <1>3, SoundKept
<1>8. CASE msgs[m].to < msgs[m].upto
  <2>1. msgs' = [msgs EXCEPT ![m] = on]
    BY <1>8 DEF StoreWindow
  <2>2. last \in Time /\ last <= msgs[m].upto
    BY <1>4, RangeEndTyped, ToastAssumption
  <2>3. /\ on \in MsgRow /\ on.pc = "fetch" /\ on.from = msgs[m].to /\ on.to = last
        /\ on.upto = msgs[m].upto /\ on.low = msgs[m].low /\ on.job = msgs[m].job
        /\ on.cursor = msgs[m].cursor /\ on.batch = NoOrders
    <3> HIDE DEF last
    <3> QED  BY <1>1, <1>4, <1>6, <2>2 DEF MsgRow, RunPc
  <2> HIDE DEF on
  <2>4. Timely(on, modified, now)
    BY <1>4, <1>6, <2>2, <2>3 DEF Timely
  <2>5. Sound(on, Type(m), stored', modified, excused')
    BY <1>1, <1>3, <1>7, <2>3 DEF Sound
  <2>6. Rows'
    BY <1>1, <1>2, <1>3, <2>1, <2>3, <2>4, <2>5, OneRow DEF SyncInv, Type
  <2> QED  BY <1>2, <1>3, <1>5, <2>6 DEF SyncInv, Clock, Starters, Books
<1>9. CASE ~(msgs[m].to < msgs[m].upto)
  <2>1. msgs' = [msgs EXCEPT ![m] = end]
    BY <1>9 DEF StoreWindow
  <2>2. /\ end \in MsgRow /\ end.pc = "finish" /\ end.from = msgs[m].from /\ end.to = msgs[m].to
        /\ end.upto = msgs[m].upto /\ end.job = msgs[m].job
        /\ end.cursor = msgs[m].cursor /\ end.batch = NoOrders
    BY <1>1, <1>6 DEF MsgRow, RunPc
  <2> HIDE DEF end
  <2>3. Timely(end, modified, now)
    BY <1>4, <1>6, <2>2 DEF Timely
  <2>4. Sound(end, Type(m), stored', modified, excused')
    BY <1>7, <2>2 DEF Sound
  <2>5. Rows'
    BY <1>1, <1>2, <1>3, <2>1, <2>2, <2>3, <2>4, OneRow DEF SyncInv, Type
  <2> QED  BY <1>2, <1>3, <1>5, <2>5 DEF SyncInv, Clock, Starters, Books
<1> QED  BY <1>8, <1>9

LEMMA StoreChunkSafe ==
  ASSUME SyncInv, NEW m \in Msg, StoreChunk(m)
  PROVE  SyncInv'
<1> DEFINE pc  == IF msgs[m].to >= msgs[m].upto THEN "final" ELSE "chain"
           row == [msgs[m] EXCEPT !.pc = pc, !.batch = NoOrders]
<1>1. /\ msgs[m].pc = "store" /\ msgs[m] \in MsgRow /\ msgs[m].job \in Job
      /\ Timely(msgs[m], modified, now) /\ Type(m) # "incremental"
      /\ Sound(msgs[m], Type(m), stored, modified, excused)
      /\ modified \in Versions /\ now \in Int /\ config \in ConfigRow
      /\ \A o \in Order : modified[o] \in Int
  BY TaskFacts DEF StoreChunk, IsIncremental, Type
<1>2. /\ Upsert(msgs[m].batch) /\ msgs' = [msgs EXCEPT ![m] = row]
      /\ UNCHANGED <<now, modified, config, jobs, reqs, disps, faults, base>>
  BY DEF StoreChunk
<1>3. /\ Kept(stored, modified, excused, stored', modified, excused', now)
      /\ stored' \in Versions /\ excused' \subseteq Order \cup Job
      /\ Covers(stored', modified, excused', msgs[m].low, msgs[m].to)
  BY <1>1, <1>2, Stores
<1>4. NoOrders \in Versions /\ \A o \in Order : NoOrders[o] <= modified[o]
  <2>1. \A o \in Order : modified[o] \in Time \cup {NoTime}
    BY <1>1 DEF Versions
  <2> QED  BY <2>1 DEF NoOrders, Versions, Time, NoTime
<1>5. /\ row \in MsgRow /\ row.pc = pc /\ row.from = msgs[m].from /\ row.to = msgs[m].to
      /\ row.upto = msgs[m].upto /\ row.low = msgs[m].low /\ row.job = msgs[m].job
      /\ row.cursor = msgs[m].cursor /\ row.batch = NoOrders
  BY <1>1, <1>4 DEF MsgRow, RunPc
<1>6. pc \in {"final", "chain"} /\ (pc = "final" => msgs[m].to = msgs[m].upto)
  <2>1. msgs[m].to \in Int /\ msgs[m].upto \in Int /\ msgs[m].to <= msgs[m].upto
    BY <1>1 DEF MsgRow, Time, Timely
  <2> QED  BY <2>1
<1> HIDE DEF row, pc
<1>7. Timely(row, modified, now)
  BY <1>1, <1>4, <1>5 DEF Timely
<1>8. Sound(row, Type(m), stored', modified, excused')
  <2>1. Sound(msgs[m], Type(m), stored', modified, excused')
    BY <1>1, <1>3, SoundKept
  <2>2. msgs[m].low = From
    BY <1>1 DEF Sound
  <2> QED  BY <1>3, <1>5, <1>6, <2>1, <2>2 DEF Sound
<1>9. Rows'
  BY <1>1, <1>2, <1>3, <1>5, <1>6, <1>7, <1>8, OneRow DEF SyncInv, Type
<1>10. Cursor'
  BY <1>1, <1>2, <1>3, SameCursor DEF SyncInv
<1> QED  BY <1>2, <1>3, <1>9, <1>10 DEF SyncInv, Clock, Starters, Books

LEMMA FinalSafe ==
  ASSUME SyncInv, NEW m \in Msg, Final(m)
  PROVE  SyncInv'
<1>1. /\ msgs[m].pc = "final" /\ msgs[m] \in MsgRow
      /\ Timely(msgs[m], modified, now)
      /\ Sound(msgs[m], Type(m), stored, modified, excused)
      /\ config \in ConfigRow
  BY TaskFacts DEF Final
<1>2. /\ config' = [config EXCEPT !.complete = TRUE, !.last = msgs[m].upto] /\ base' = Low(m)
      /\ SetPc(m, "finish")
      /\ UNCHANGED <<now, modified, stored, jobs, reqs, disps, faults, excused>>
  BY DEF Final
<1>3. Kept(stored, modified, excused, stored', modified, excused', now)
  BY <1>2, KeptSame
<1>4. msgs[m].upto \in Time /\ msgs[m].upto <= now
  BY <1>1 DEF MsgRow, Timely
<1>5. Covers(stored, modified, excused, msgs[m].low, msgs[m].upto)
  BY <1>1 DEF Sound
<1>6. Cursor'
  <2>1. Kept(stored, modified, excused, stored, modified, excused, now)
    BY KeptSame
  <2>2. Low(m) \in Time /\ Covers(stored, modified, excused, Low(m), msgs[m].upto)
    BY <1>1, <1>4, <1>5, <2>1, CursorMoves
  <2>3. config' \in ConfigRow /\ config'.last = msgs[m].upto
    BY <1>1, <1>2, <1>4 DEF ConfigRow
  <2>4. CursorCovers'
    BY <1>2, <2>2, <2>3 DEF CursorCovers, Covers
  <2> QED  BY <1>2, <1>4, <2>2, <2>3, <2>4 DEF Cursor
<1>7. Rows'
  BY <1>1, <1>2, <1>3, PcChanges DEF SyncInv
<1> QED  BY <1>2, <1>6, <1>7 DEF SyncInv, Clock, Starters, Books

LEMMA ChainSafe ==
  ASSUME SyncInv, NEW m \in Msg, Chain(m)
  PROVE  SyncInv'
<1>1. /\ msgs[m].pc = "chain" /\ msgs[m] \in MsgRow /\ msgs[m].job \in Job
      /\ Timely(msgs[m], modified, now)
      /\ Sound(msgs[m], Type(m), stored, modified, excused)
      /\ msgs \in [Msg -> MsgRow]
      /\ now \in Nat /\ modified \in Versions
  BY TaskFacts DEF Chain, SyncInv, Rows
<1> DEFINE done == [msgs[m] EXCEPT !.pc = "ack"]
           next == Queued(msgs[m].job, msgs[m].to)
<1>2. PICK n \in Msg :
        msgs[n].pc = "free" /\ msgs' = [msgs EXCEPT ![m].pc = "ack", ![n] = next]
  BY DEF Chain
<1>3. n # m /\ msgs' = [msgs EXCEPT ![m] = done, ![n] = next]
  BY <1>1, <1>2
<1>4. UNCHANGED <<now, modified, stored, config, jobs, reqs, disps, faults, base, excused>>
  BY DEF Chain
<1>5. /\ done \in MsgRow /\ done.job = msgs[m].job /\ done.pc = "ack" /\ done.cursor = msgs[m].cursor
      /\ done.from = msgs[m].from /\ done.to = msgs[m].to /\ done.upto = msgs[m].upto
      /\ done.batch = msgs[m].batch
  BY <1>1 DEF MsgRow, RunPc
<1>6. Timely(done, modified, now) /\ Sound(done, Type(m), stored, modified, excused)
  <2> HIDE DEF done
  <2> QED  BY <1>1, <1>5 DEF Timely, Sound
<1>7. /\ msgs[m].to \in Time /\ msgs[m].to <= now
      /\ Covers(stored, modified, excused, From, msgs[m].to)
  <2>1. msgs[m].to \in Time /\ msgs[m].upto \in Time
    BY <1>1 DEF MsgRow
  <2>2. msgs[m].to \in Int /\ msgs[m].upto \in Int
    BY <2>1 DEF Time
  <2> QED  BY <1>1, <2>1, <2>2 DEF Timely, Sound
<1>8. /\ next \in MsgRow /\ next.job = msgs[m].job /\ next.pc = "queued"
      /\ next.cursor = msgs[m].to /\ next.from = 0 /\ next.to = 0 /\ next.upto = 0
      /\ next.batch = NoOrders
  BY <1>1, <1>7, FreeTyped DEF Queued, MsgRow
<1> HIDE DEF done, next
<1>9. \A o \in Order : NoOrders[o] <= modified[o]
  <2>1. \A o \in Order : modified[o] \in Time \cup {NoTime}
    BY <1>1 DEF Versions
  <2> QED  BY <2>1 DEF NoOrders, Time, NoTime
<1>10. Timely(next, modified, now) /\ Sound(next, Type(m), stored, modified, excused)
  BY <1>1, <1>7, <1>8, <1>9 DEF Timely, Sound
<1>11. /\ msgs' \in [Msg -> MsgRow] /\ msgs'[m] = done /\ msgs'[n] = next
       /\ \A k \in Msg \ {m, n} : msgs'[k] = msgs[k]
  BY <1>1, <1>3, <1>5, <1>8
<1>12. Rows'
  <2>1. \A k \in Msg : msgs'[k].pc # "free" => msgs'[k].job \in Job
    BY <1>1, <1>5, <1>8, <1>11 DEF SyncInv, Rows
  <2>2. \A k \in Msg : Timely(msgs'[k], modified', now')
    BY <1>4, <1>6, <1>10, <1>11 DEF SyncInv, Rows
  <2>3. \A k \in Msg : Sound(msgs'[k], jobs[msgs'[k].job].type, stored, modified, excused)
    BY <1>5, <1>6, <1>8, <1>10, <1>11 DEF SyncInv, Rows, Type
  <2> QED  BY <1>4, <1>11, <2>1, <2>2, <2>3 DEF Rows, Type
<1> QED  BY <1>4, <1>12 DEF SyncInv, Clock, Starters, Cursor, CursorCovers, Books

-----------------------------------------------------------------------------
(* The invariant *)

LEMMA SyncInit == Init => SyncInv
<1> SUFFICES ASSUME Init PROVE SyncInv  OBVIOUS
<1>1. /\ now = Today /\ Today \in Time /\ Today \in Nat /\ From \in Time
  BY ToastAssumption DEF Init, Time
<1>2. Clock
  <2>1. modified \in Versions
    BY <1>1, ToastAssumption DEF Init, Versions, Time
  <2>2. \A o \in Order : modified[o] <= now
    BY <1>1 DEF Init, NoTime
  <2> QED  BY <1>1, <2>1, <2>2 DEF Clock
<1>3. PICK imported \in Imported :
        /\ stored = IF imported THEN modified ELSE NoOrders
        /\ config = [connected |-> imported, active |-> imported, complete |-> imported,
                     last |-> IF imported THEN Today ELSE NoTime]
  BY DEF Init
<1>4. NoOrders \in Versions
  BY DEF NoOrders, Versions
<1>5. Books
  BY <1>2, <1>3, <1>4, ToastAssumption DEF Init, Books, Clock, JobRow
<1>6. Cursor
  <2>1. config \in ConfigRow /\ config.last <= now
    BY <1>1, <1>3, ToastAssumption DEF ConfigRow, NoTime
  <2>2. config.last # NoTime => stored = modified
    BY <1>3
  <2>3. CursorCovers
    BY <2>2 DEF CursorCovers
  <2> QED  BY <1>1, <2>1, <2>3 DEF Init, Cursor
<1>7. Starters
  BY DEF Init, Starters, ReqRow, DispRow, Idle
<1>8. Rows
  <2>1. Timely(FreeMsg, modified, now)
    <3>1. \A o \in Order : modified[o] \in Time \cup {NoTime}
      BY <1>2 DEF Clock, Versions
    <3> QED  BY <1>1, <3>1, FreeTyped DEF Timely, NoOrders, Time, NoTime
  <2>2. Sound(FreeMsg, jobs[FreeMsg.job].type, stored, modified, excused)
    BY FreeTyped DEF Sound
  <2>3. \A m \in Msg : msgs[m] = FreeMsg
    BY DEF Init
  <2>4. msgs \in [Msg -> MsgRow]
    BY FreeTyped DEF Init
  <2> QED  BY <2>1, <2>2, <2>3, <2>4, FreeTyped DEF Rows, Type
<1> QED  BY <1>2, <1>5, <1>6, <1>7, <1>8 DEF SyncInv

LEMMA SyncNext == SyncInv /\ [Next]_vars => SyncInv'
<1> SUFFICES ASSUME SyncInv, [Next]_vars PROVE SyncInv'  OBVIOUS
<1>1. CASE \E S \in SUBSET Order : Tick(S)
  BY <1>1, TickSafe
<1>2. CASE (\E j \in Job : Age(j)) \/ Disconnect
  <2>1. CASE \E j \in Job : Age(j)
    BY <2>1, AgeSafe
  <2>2. CASE Disconnect
    BY <2>2, DisconnectSafe
  <2> QED  BY <1>2, <2>1, <2>2
<1>3. ASSUME NEW r \in Req,
             RequestStep(r) \/ Connect(r) \/ ApiCrash(r)
               \/ \E j \in Job, type \in {"incremental", "historical"} : ManualSync(r, j, type)
      PROVE  SyncInv'
  BY <1>3, RequestSafe
<1>4. ASSUME NEW d \in Disp, DispatchStep(d) \/ DispatchLost(d)
      PROVE  SyncInv'
  BY <1>4, DispatchSafe
<1>5. ASSUME NEW m \in Msg, TaskStep(m)
      PROVE  SyncInv'
  BY <1>5, TaskStartSafe, ReadConfigSafe, FailSafe, FetchSafe, StoreWindowSafe, StoreChunkSafe,
     FinalSafe, ChainSafe, FinishSafe, AckSafe DEF TaskStep
<1>6. ASSUME NEW m \in Msg, TaskFault(m)
      PROVE  SyncInv'
  BY <1>6, FetchSafe, FailSafe, StoreFailsSafe, DatabaseFailsSafe, WorkerLostSafe DEF TaskFault
<1>7. CASE UNCHANGED vars
  BY <1>7 DEF vars, SyncInv, Rows, Clock, Starters, Cursor, CursorCovers, Books, Type
<1> QED  BY <1>1, <1>2, <1>3, <1>4, <1>5, <1>6, <1>7 DEF Next

LEMMA Synced == Spec => []SyncInv
BY SyncInit, SyncNext, PTL DEF Spec

\* Every variable keeps its type: the ranges, cursors and versions of the runs stay on the
\* clock.
THEOREM Typed == Spec => []TypeOK
BY Synced, TypedSync, PTL

\* update_last_synced: the cursor never passes an order that is not stored as it is, however
\* the runs of a location interleave, fail and are delivered again, but an order whose fetch
\* was skipped and one that a slower run put back to an older version.
THEOREM Covered == Spec => []CursorCovers
<1>1. SyncInv => CursorCovers
  BY DEF SyncInv, Cursor
<1> QED  BY <1>1, Synced, PTL

=============================================================================
