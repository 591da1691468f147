--------------------------- MODULE MailboxSyncProofs ---------------------------
(***************************************************************************)
(* Proofs about MailboxSync for any mailbox, attachments and keywords, any *)
(* number of jobs, workers and failures.                                   *)
(***************************************************************************)
EXTENDS MailboxSync, TLAPS

-----------------------------------------------------------------------------
(* What steps leave alone *)

\* The sync of a worker moves to a well-typed row.
LEMMA RowTypes ==
  ASSUME TypeOK, NEW w \in Worker, sync[w] # Idle
  PROVE  sync[w] \in SyncRow
BY DEF TypeOK

LEMMA SyncingRow ==
  ASSUME TypeOK, NEW w \in Worker, Syncing(w)
  PROVE  sync[w] \in SyncRow /\ sync[w] # Idle
BY DEF TypeOK, Syncing, Idle

LEMMA Naturals ==
  ASSUME TypeOK
  PROVE  /\ Message \subseteq Nat /\ Cursor \subseteq Nat
         /\ inbox \in Nat /\ inbox + 1 \in Cursor /\ config.cursor \in Cursor
         /\ \A m \in Message : m > 0
BY MailboxAssumption DEF TypeOK, Cursor, None

LEMMA MadeIsOne ==
  ASSUME NEW w \in Worker, NEW f \in File
  PROVE  Made(w, f) \in {0, 1}
BY DEF Made

\* What happens beside the syncs
Beside ==
  \/ Arrive \/ Purge \/ Disconnect \/ Connect
  \/ \E m \in Message : Remove(m)
  \/ \E j \in Job : Dispatch(j) \/ Request(j) \/ Unsent(j)

LEMMA BesideTypes ==
  ASSUME TypeOK, Beside
  PROVE  /\ TypeOK' /\ UNCHANGED <<sync, rows, docs, passed, dropped, abandoned, raced>>
         /\ config'.cursor = config.cursor
         /\ broker \subseteq broker'
<1>n. MaxEvents \in Nat /\ events \in Nat
  BY MailboxAssumption DEF TypeOK
<1>1. CASE Arrive
  BY <1>1 DEF Arrive, TypeOK
<1>2. CASE Purge
  BY <1>n, <1>2 DEF Purge, Happens, TypeOK
<1>3. CASE Disconnect
  <2>1. config' \in [active : BOOLEAN, cursor : Cursor] /\ config'.cursor = config.cursor
    BY <1>3 DEF Disconnect, TypeOK
  <2> QED  BY <1>n, <1>3, <2>1 DEF Disconnect, Happens, TypeOK
<1>4. CASE Connect
  BY <1>4 DEF Connect, TypeOK
<1>5. ASSUME NEW m \in Message, Remove(m)
      PROVE  /\ TypeOK' /\ UNCHANGED <<sync, rows, docs, passed, dropped, abandoned, raced>>
             /\ config'.cursor = config.cursor /\ broker \subseteq broker'
  BY <1>n, <1>5 DEF Remove, Happens, TypeOK
<1>6. ASSUME NEW j \in Job, NEW h \in BOOLEAN, NEW sent \in BOOLEAN, Create(j, h, sent),
             events' \in 0..MaxEvents
      PROVE  /\ TypeOK' /\ UNCHANGED <<sync, rows, docs, passed, dropped, abandoned, raced>>
             /\ config'.cursor = config.cursor /\ broker \subseteq broker'
  <2>1. /\ broker' \subseteq Job \X BOOLEAN /\ broker \subseteq broker'
    BY <1>6 DEF Create, TypeOK
  <2> QED  BY <1>6, <2>1 DEF Create, TypeOK
<1>7. ASSUME NEW j \in Job, Dispatch(j) \/ Request(j) \/ Unsent(j)
      PROVE  \E h \in BOOLEAN, sent \in BOOLEAN : Create(j, h, sent) /\ events' \in 0..MaxEvents
  <2>1. CASE Dispatch(j)
    BY <2>1 DEF Dispatch, TypeOK
  <2>4. ASSUME Happens PROVE events' \in 0..MaxEvents
    BY <1>n, <2>4 DEF Happens
  <2>2. CASE Request(j)
    <3>1. PICK h \in {FALSE, provider = "gmail"} : Create(j, h, TRUE)
      BY <2>2 DEF Request
    <3>2. Happens /\ h \in BOOLEAN
      BY <2>2 DEF Request
    <3> QED  BY <2>4, <3>1, <3>2
  <2>3. CASE Unsent(j)
    BY <2>3, <2>4 DEF Unsent
  <2> QED  BY <1>7, <2>1, <2>2, <2>3
<1> QED  BY <1>1, <1>2, <1>3, <1>4, <1>5, <1>6, <1>7 DEF Beside

-----------------------------------------------------------------------------
(* What the steps of a sync do *)

\* A sync takes up a job that has a message and no other sync.
LEMMA StartEffect ==
  ASSUME TypeOK, NEW w \in Worker, Start(w)
  PROVE  /\ UNCHANGED <<provider, financial, inbox, gone, purged, config, broker, rows, processed,
                        docs, events, passed, dropped, abandoned, raced>>
         /\ job' \in [Job -> {"none", "pending", "running", "complete", "failed"}]
         /\ sync[w] = Idle
         /\ sync'[w] \in SyncRow /\ <<sync'[w].job, sync'[w].historical>> \in broker
         /\ sync'[w].pc = "list" /\ sync'[w].stored = {} /\ sync'[w].done = {}
         /\ sync'[w].made = {}
         /\ \A v \in Worker : sync[v] # Idle => sync[v].job # sync'[w].job
         /\ sync' \in [Worker -> {Idle} \cup SyncRow]
         /\ \A v \in Worker \ {w} : sync'[v] = sync[v]
<1>1. PICK b \in broker : /\ \A v \in Worker : sync[v] # Idle => sync[v].job # b[1]
                          /\ sync' = [sync EXCEPT ![w] = Fresh(b[1], b[2])]
                          /\ job' = [job EXCEPT ![b[1]] = "running"]
  BY DEF Start
<1>2. b[1] \in Job /\ b[2] \in BOOLEAN /\ b = <<b[1], b[2]>>
  BY DEF TypeOK
<1>3. Fresh(b[1], b[2]) \in SyncRow
  BY <1>2 DEF Fresh, SyncRow, Cursor, None
<1>4. /\ Fresh(b[1], b[2]).job = b[1] /\ Fresh(b[1], b[2]).historical = b[2]
      /\ Fresh(b[1], b[2]).pc = "list" /\ Fresh(b[1], b[2]).stored = {}
      /\ Fresh(b[1], b[2]).done = {} /\ Fresh(b[1], b[2]).made = {}
  BY DEF Fresh
<1> QED  BY <1>1, <1>2, <1>3, <1>4 DEF Start, SyncUnchanged, TypeOK

\* A step of a sync other than its ends: it changes what the sync holds, and adds to the histories.
Moves(w) ==
  \/ List(w) \/ Scan(w) \/ Profile(w) \/ Insert(w)
  \/ \E m \in Message : Skip(w, m) \/ Take(w, m)
  \/ \E failed \in SUBSET File : Ingest(w, failed)

Keeps(w) ==
  /\ UNCHANGED <<provider, financial, inbox, gone, purged, config, job, broker, rows, processed, docs,
                 abandoned>>
  /\ Syncing(w) /\ Syncing(w)'
  /\ sync'[w] \in SyncRow
  /\ sync'[w].job = sync[w].job /\ sync'[w].historical = sync[w].historical
  /\ sync' \in [Worker -> {Idle} \cup SyncRow]
  /\ \A v \in Worker \ {w} : sync'[v] = sync[v]
  /\ passed \subseteq passed' /\ dropped \subseteq dropped' /\ raced \subseteq raced'
  /\ TypeOK'

LEMMA ListEffect ==
  ASSUME TypeOK, NEW w \in Worker, List(w)
  PROVE  /\ Keeps(w) /\ UNCHANGED <<passed, dropped, raced>>
         /\ sync'[w].pc = "each" /\ sync'[w].todo = Since
         /\ sync'[w].cursor \in {inbox + 1, None}
         /\ sync'[w].stored = sync[w].stored /\ sync'[w].done = sync[w].done
         /\ sync'[w].made = sync[w].made
<1>1. sync[w].pc = "list" /\ sync[w] \in SyncRow
  BY DEF List, TypeOK, Idle
<1>2. PICK cursor \in {inbox + 1, None} :
        sync' = [sync EXCEPT ![w].pc = "each", ![w].todo = Since, ![w].cursor = cursor]
  BY DEF List
<1>3. Since \subseteq Message /\ cursor \in Cursor
  BY Naturals DEF Since, Cursor
<1>4. sync'[w] = [sync[w] EXCEPT !.pc = "each", !.todo = Since, !.cursor = cursor]
      /\ \A v \in Worker \ {w} : sync'[v] = sync[v]
  BY <1>2 DEF TypeOK
<1>5. sync'[w] \in SyncRow
  BY <1>1, <1>3, <1>4 DEF SyncRow
<1>6. sync' \in [Worker -> {Idle} \cup SyncRow]
  BY <1>2, <1>4, <1>5 DEF TypeOK
<1>7. UNCHANGED <<provider, financial, inbox, gone, purged, config, job, broker, rows, processed, docs,
                  events, passed, dropped, abandoned, raced>>
  BY DEF List, SyncUnchanged
<1>9. \A v \in Worker : sync'[v].pc \in {"insert", "attachments"} => sync'[v].at \in Message
  BY <1>1, <1>4 DEF TypeOK, SyncRow
<1>8. TypeOK'
  BY <1>6, <1>7, <1>9 DEF TypeOK
<1> QED  BY <1>1, <1>4, <1>5, <1>6, <1>7, <1>8 DEF Keeps, Syncing, SyncRow

LEMMA ScanEffect ==
  ASSUME TypeOK, NEW w \in Worker, Scan(w)
  PROVE  /\ Keeps(w) /\ UNCHANGED <<passed, dropped, raced>>
         /\ sync'[w].pc = "profile"
         /\ sync'[w].stored = sync[w].stored /\ sync'[w].done = sync[w].done
         /\ sync'[w].made = sync[w].made
<1>1. sync[w].pc = "list" /\ sync[w] \in SyncRow
  BY DEF Scan, TypeOK, Idle
<1> DEFINE todo == Newest(Present \cap financial)
<1>3. todo \subseteq Message
  BY DEF Newest, Present
<1>2. sync' = [sync EXCEPT ![w].pc = "profile", ![w].scan = TRUE, ![w].todo = todo]
  BY DEF Scan
<1> HIDE DEF todo
<1>4. sync'[w] = [sync[w] EXCEPT !.pc = "profile", !.scan = TRUE, !.todo = todo]
      /\ \A v \in Worker \ {w} : sync'[v] = sync[v]
  BY <1>2 DEF TypeOK
<1>5. sync'[w] \in SyncRow
  BY <1>1, <1>3, <1>4 DEF SyncRow
<1>6. sync' \in [Worker -> {Idle} \cup SyncRow]
  BY <1>2, <1>4, <1>5 DEF TypeOK
<1>7. UNCHANGED <<provider, financial, inbox, gone, purged, config, job, broker, rows, processed, docs,
                  events, passed, dropped, abandoned, raced>>
  BY DEF Scan, SyncUnchanged
<1>9. \A v \in Worker : sync'[v].pc \in {"insert", "attachments"} => sync'[v].at \in Message
  BY <1>1, <1>4 DEF TypeOK, SyncRow
<1>8. TypeOK'
  BY <1>6, <1>7, <1>9 DEF TypeOK
<1> QED  BY <1>1, <1>4, <1>5, <1>6, <1>7, <1>8 DEF Keeps, Syncing, SyncRow

LEMMA ProfileEffect ==
  ASSUME TypeOK, NEW w \in Worker, Profile(w)
  PROVE  /\ Keeps(w) /\ UNCHANGED <<dropped, raced>>
         /\ passed' = passed \cup ({m \in Message : m <= inbox} \ sync[w].todo)
         /\ sync'[w].pc = "each" /\ sync'[w].cursor = inbox + 1 /\ sync'[w].todo = sync[w].todo
         /\ sync'[w].stored = sync[w].stored /\ sync'[w].done = sync[w].done
         /\ sync'[w].made = sync[w].made
<1>1. sync[w].pc = "profile" /\ sync[w] \in SyncRow
  BY DEF Profile, TypeOK, Idle
<1>2. sync' = [sync EXCEPT ![w].pc = "each", ![w].cursor = inbox + 1]
  BY DEF Profile
<1>4. sync'[w] = [sync[w] EXCEPT !.pc = "each", !.cursor = inbox + 1]
      /\ \A v \in Worker \ {w} : sync'[v] = sync[v]
  BY <1>2 DEF TypeOK
<1>5. sync'[w] \in SyncRow
  BY <1>1, <1>4, Naturals DEF SyncRow
<1>6. sync' \in [Worker -> {Idle} \cup SyncRow]
  BY <1>2, <1>4, <1>5 DEF TypeOK
<1>7. /\ UNCHANGED <<provider, financial, inbox, gone, purged, config, job, broker, rows, processed, docs,
                     events, dropped, abandoned, raced>>
      /\ passed' = passed \cup ({m \in Message : m <= inbox} \ sync[w].todo)
  BY DEF Profile, SyncUnchanged
<1>9. \A v \in Worker : sync'[v].pc \in {"insert", "attachments"} => sync'[v].at \in Message
  BY <1>1, <1>4 DEF TypeOK, SyncRow
<1>8. TypeOK'
  BY <1>6, <1>7, <1>9 DEF TypeOK
<1> QED  BY <1>1, <1>4, <1>5, <1>6, <1>7, <1>8 DEF Keeps, Syncing, SyncRow

LEMMA SkipEffect ==
  ASSUME TypeOK, NEW w \in Worker, NEW m \in Message, Skip(w, m)
  PROVE  /\ Keeps(w) /\ UNCHANGED <<dropped, raced>>
         /\ m \in rows \cup sync[w].stored \cup passed'
         /\ sync[w].pc = "each" /\ sync'[w].pc = "each"
         /\ sync'[w].cursor = sync[w].cursor /\ sync'[w].todo = sync[w].todo \ {m}
         /\ sync'[w].stored = sync[w].stored /\ sync'[w].done = sync[w].done
         /\ sync'[w].made = sync[w].made
<1>1. sync[w].pc = "each" /\ sync[w] \in SyncRow
  BY DEF Skip, TypeOK, Idle
<1>2. sync' = [sync EXCEPT ![w].todo = @ \ {m}]
  BY DEF Skip
<1>4. sync'[w] = [sync[w] EXCEPT !.todo = @ \ {m}]
      /\ \A v \in Worker \ {w} : sync'[v] = sync[v]
  BY <1>2 DEF TypeOK
<1>5. sync'[w] \in SyncRow
  BY <1>1, <1>4 DEF SyncRow
<1>6. sync' \in [Worker -> {Idle} \cup SyncRow]
  BY <1>2, <1>4, <1>5 DEF TypeOK
<1>7. /\ UNCHANGED <<provider, financial, inbox, gone, purged, config, job, broker, rows, processed, docs,
                     events, dropped, abandoned, raced>>
      /\ (passed' = passed /\ m \in rows \cup sync[w].stored) \/ passed' = passed \cup {m}
  BY DEF Skip, SyncUnchanged, Exists
<1>9. \A v \in Worker : sync'[v].pc \in {"insert", "attachments"} => sync'[v].at \in Message
  BY <1>1, <1>4 DEF TypeOK, SyncRow
<1>8. TypeOK'
  BY <1>6, <1>7, <1>9 DEF TypeOK
<1> QED  BY <1>1, <1>4, <1>5, <1>6, <1>7, <1>8 DEF Keeps, Syncing, SyncRow

LEMMA TakeEffect ==
  ASSUME TypeOK, NEW w \in Worker, NEW m \in Message, Take(w, m)
  PROVE  /\ Keeps(w) /\ UNCHANGED <<passed, dropped, raced>>
         /\ sync[w].pc = "each" /\ sync'[w].pc = "insert" /\ sync'[w].at = m
         /\ sync'[w].cursor = sync[w].cursor /\ sync'[w].todo = sync[w].todo \ {m}
         /\ sync'[w].stored = sync[w].stored /\ sync'[w].done = sync[w].done
         /\ sync'[w].made = sync[w].made
<1>1. sync[w].pc = "each" /\ sync[w] \in SyncRow
  BY DEF Take, TypeOK, Idle
<1>2. sync' = [sync EXCEPT ![w].pc = "insert", ![w].at = m, ![w].todo = @ \ {m}]
  BY DEF Take
<1>4. sync'[w] = [sync[w] EXCEPT !.pc = "insert", !.at = m, !.todo = @ \ {m}]
      /\ \A v \in Worker \ {w} : sync'[v] = sync[v]
  BY <1>2 DEF TypeOK
<1>5. sync'[w] \in SyncRow
  BY <1>1, <1>4 DEF SyncRow
<1>6. sync' \in [Worker -> {Idle} \cup SyncRow]
  BY <1>2, <1>4, <1>5 DEF TypeOK
<1>7. UNCHANGED <<provider, financial, inbox, gone, purged, config, job, broker, rows, processed, docs,
                  events, passed, dropped, abandoned, raced>>
  BY DEF Take, SyncUnchanged
<1>9. \A v \in Worker : sync'[v].pc \in {"insert", "attachments"} => sync'[v].at \in Message
  <2>1. sync'[w].at = m
    BY <1>1, <1>4 DEF SyncRow
  <2> QED  BY <1>4, <2>1 DEF TypeOK
<1>8. TypeOK'
  BY <1>6, <1>7, <1>9 DEF TypeOK
<1> QED  BY <1>1, <1>4, <1>5, <1>6, <1>7, <1>8 DEF Keeps, Syncing, SyncRow

LEMMA InsertEffect ==
  ASSUME TypeOK, NEW w \in Worker, Insert(w)
  PROVE  /\ Keeps(w) /\ UNCHANGED <<passed, dropped, raced>>
         /\ sync[w].pc = "insert" /\ sync'[w].pc = "attachments" /\ sync'[w].at = sync[w].at
         /\ sync[w].at \in Message
         /\ \A v \in Others(w) : sync[w].at \notin sync[v].stored
         /\ sync'[w].cursor = sync[w].cursor /\ sync'[w].todo = sync[w].todo
         /\ sync'[w].stored = IF sync[w].at \in rows THEN sync[w].stored
                              ELSE sync[w].stored \cup {sync[w].at}
         /\ sync'[w].done = sync[w].done /\ sync'[w].made = sync[w].made
<1>1. sync[w].pc = "insert" /\ sync[w] \in SyncRow /\ sync[w].at \in Message
  BY DEF Insert, TypeOK, Idle
<1> DEFINE stored == IF sync[w].at \in rows THEN sync[w].stored
                     ELSE sync[w].stored \cup {sync[w].at}
<1>2. sync' = [sync EXCEPT ![w].pc = "attachments", ![w].stored = stored]
  BY DEF Insert
<1>3. stored \subseteq Message
  BY <1>1 DEF SyncRow
<1> HIDE DEF stored
<1>4. sync'[w] = [sync[w] EXCEPT !.pc = "attachments", !.stored = stored]
      /\ \A v \in Worker \ {w} : sync'[v] = sync[v]
  BY <1>2 DEF TypeOK
<1>5. sync'[w] \in SyncRow
  BY <1>1, <1>3, <1>4 DEF SyncRow
<1>6. sync' \in [Worker -> {Idle} \cup SyncRow]
  BY <1>2, <1>4, <1>5 DEF TypeOK
<1>7. UNCHANGED <<provider, financial, inbox, gone, purged, config, job, broker, rows, processed, docs,
                  events, passed, dropped, abandoned, raced>>
      /\ \A v \in Others(w) : sync[w].at \notin sync[v].stored
  BY DEF Insert, SyncUnchanged
<1>9. \A v \in Worker : sync'[v].pc \in {"insert", "attachments"} => sync'[v].at \in Message
  <2>1. sync'[w].at = sync[w].at
    BY <1>1, <1>4 DEF SyncRow
  <2> QED  BY <1>1, <1>4, <2>1 DEF TypeOK
<1>8. TypeOK'
  BY <1>6, <1>7, <1>9 DEF TypeOK
<1> QED  BY <1>1, <1>4, <1>5, <1>6, <1>7, <1>8 DEF Keeps, Syncing, SyncRow, stored

\* The attachments of a message: each that can be read has a document now, or made one.
LEMMA IngestEffect ==
  ASSUME TypeOK, NEW w \in Worker, NEW failed, Ingest(w, failed)
  PROVE  /\ Keeps(w) /\ UNCHANGED passed
         /\ sync[w].pc = "attachments" /\ sync'[w].pc = "each" /\ sync[w].at \in Message
         /\ sync'[w].cursor = sync[w].cursor /\ sync'[w].todo = sync[w].todo
         /\ sync'[w].stored = sync[w].stored /\ sync'[w].done = sync[w].done \cup {sync[w].at}
         /\ \E new \in SUBSET File :
              /\ sync'[w].made = sync[w].made \cup ({sync[w].at} \X new)
              /\ \A f \in new : Visible(w, f) = 0
              /\ \A f \in new \ raced' : \A v \in Others(w), m \in Message :
                   <<m, f>> \in sync[v].made => m = sync[w].at /\ m \notin rows
              /\ \A f \in Parts(sync[w].at) :
                   f \in new \/ Visible(w, f) # 0 \/ <<sync[w].at, f>> \in dropped'
<1>1. sync[w].pc = "attachments" /\ sync[w] \in SyncRow /\ sync[w].at \in Message
  <2>1. sync[w].pc = "attachments"
    BY DEF Ingest
  <2> QED  BY <2>1 DEF TypeOK, Idle
<1> DEFINE files  == Parts(sync[w].at)
           broken == failed \cup {f \in files : Visible(w, f) > 1}
           new    == {f \in files \ broken : Visible(w, f) = 0}
           met    == {f \in new : \E v \in Others(w), m \in Message :
                        <<m, f>> \in sync[v].made /\ (m # sync[w].at \/ m \in rows)}
<1>2. /\ sync' = [sync EXCEPT ![w].pc = "each", ![w].made = @ \cup ({sync[w].at} \X new),
                               ![w].done = @ \cup {sync[w].at}]
      /\ dropped' = dropped \cup ({sync[w].at} \X broken)
      /\ raced' = raced \cup met
      /\ failed \subseteq files /\ Rejects(failed)
  BY DEF Ingest
<1>3. files \subseteq File /\ new \subseteq File /\ broken \subseteq File /\ met \subseteq new
  BY <1>1, <1>2, MailboxAssumption DEF Parts
<1>a. \A f \in new : Visible(w, f) = 0
  OBVIOUS
<1>b. \A f \in new \ raced' : \A v \in Others(w), m \in Message :
        <<m, f>> \in sync[v].made => m = sync[w].at /\ m \notin rows
  BY <1>2
<1>c. \A f \in files : f \in new \/ Visible(w, f) # 0 \/ <<sync[w].at, f>> \in dropped'
  <2>1. \A f \in broken : <<sync[w].at, f>> \in dropped'
    BY <1>2
  <2> QED  BY <2>1
<1> HIDE DEF new, met, broken
<1>4. sync'[w] = [sync[w] EXCEPT !.pc = "each", !.made = @ \cup ({sync[w].at} \X new),
                                 !.done = @ \cup {sync[w].at}]
      /\ \A v \in Worker \ {w} : sync'[v] = sync[v]
  BY <1>2 DEF TypeOK
<1>5. sync'[w] \in SyncRow
  <2> DEFINE made == sync[w].made \cup ({sync[w].at} \X new)
             done == sync[w].done \cup {sync[w].at}
  <2>1. made \subseteq Message \X File /\ done \subseteq Message
    BY <1>1, <1>3 DEF SyncRow
  <2>2. sync'[w] = [sync[w] EXCEPT !.pc = "each", !.made = made, !.done = done]
    BY <1>4
  <2> HIDE DEF made, done
  <2> QED  BY <1>1, <2>1, <2>2 DEF SyncRow
<1>6. sync' \in [Worker -> {Idle} \cup SyncRow]
  BY <1>2, <1>4, <1>5 DEF TypeOK
<1>7. UNCHANGED <<provider, financial, inbox, gone, purged, config, job, broker, rows, processed, docs,
                  passed, abandoned>>
  BY DEF Ingest, SyncUnchanged
<1>9. events' \in 0..MaxEvents
  BY <1>2, MailboxAssumption DEF Rejects, Happens, TypeOK
<1>d. dropped' \subseteq Message \X File /\ raced' \subseteq File
  BY <1>1, <1>2, <1>3 DEF TypeOK
<1>e. \A v \in Worker : sync'[v].pc \in {"insert", "attachments"} => sync'[v].at \in Message
  BY <1>1, <1>4 DEF TypeOK, SyncRow
<1>8. TypeOK'
  BY <1>6, <1>7, <1>9, <1>d, <1>e DEF TypeOK
<1>f. Keeps(w)
  BY <1>1, <1>2, <1>4, <1>5, <1>6, <1>7, <1>8 DEF Keeps, Syncing, SyncRow
<1>g. /\ sync'[w].pc = "each" /\ sync'[w].cursor = sync[w].cursor /\ sync'[w].todo = sync[w].todo
      /\ sync'[w].stored = sync[w].stored /\ sync'[w].done = sync[w].done \cup {sync[w].at}
      /\ sync'[w].made = sync[w].made \cup ({sync[w].at} \X new)
  BY <1>1, <1>4 DEF SyncRow
<1> QED  BY <1>1, <1>3, <1>7, <1>a, <1>b, <1>c, <1>f, <1>g

\* A sync that ends: what it held is committed, or lost.
Leaves(w) ==
  /\ ~Syncing(w)' /\ \A v \in Worker \ {w} : sync'[v] = sync[v]
  /\ UNCHANGED <<passed, dropped, raced>>
  /\ \/ UNCHANGED <<config, rows, docs, abandoned>>
     \/ /\ Syncing(w) /\ Commit(w)
        /\ abandoned' = abandoned \cup (sync[w].stored \ sync[w].done)
        /\ \/ config' = config
           \/ sync[w].pc = "each" /\ sync[w].todo = {} /\ config' = Moved(w)
     \/ /\ Syncing(w) /\ Commit(w)
        /\ sync[w].pc = "each" /\ sync[w].todo = {} /\ config' = Moved(w)
        /\ UNCHANGED abandoned

LEMMA CommitTypes ==
  ASSUME TypeOK, NEW w \in Worker, Syncing(w), Commit(w)
  PROVE  rows' \subseteq Message /\ processed' \subseteq Message /\ docs' \in [File -> Nat]
<1>1. sync[w] \in SyncRow
  BY SyncingRow
<1>2. \A f \in File : docs[f] + Made(w, f) \in Nat
  BY MadeIsOne DEF TypeOK
<1> QED  BY <1>1, <1>2 DEF Commit, TypeOK, SyncRow

LEMMA EndTypes ==
  ASSUME TypeOK, NEW w \in Worker, sync[w] # Idle,
         NEW status \in {"running", "complete", "failed"}, End(w, status)
  PROVE  /\ job' \in [Job -> {"none", "pending", "running", "complete", "failed"}]
         /\ broker' \subseteq Job \X BOOLEAN
         /\ broker' = broker \ {<<sync[w].job, sync[w].historical>>}
         /\ sync' \in [Worker -> {Idle} \cup SyncRow]
         /\ sync'[w] = Idle /\ ~Syncing(w)'
         /\ \A v \in Worker \ {w} : sync'[v] = sync[v]
         /\ \A v \in Worker : sync'[v].pc \in {"insert", "attachments"} => sync'[v].at \in Message
<1>1. sync' = [sync EXCEPT ![w] = Idle]
  BY DEF End
<1>2. sync' \in [Worker -> {Idle} \cup SyncRow] /\ sync'[w] = Idle
      /\ \A v \in Worker \ {w} : sync'[v] = sync[v]
  BY <1>1 DEF TypeOK
<1>3. Idle.pc = "idle"
  BY DEF Idle
<1>4. sync[w] \in SyncRow
  BY RowTypes
<1>5. job' \in [Job -> {"none", "pending", "running", "complete", "failed"}]
  BY <1>4 DEF End, TypeOK, SyncRow
<1>6. \A v \in Worker : sync'[v].pc \in {"insert", "attachments"} => sync'[v].at \in Message
  BY <1>2, <1>3 DEF TypeOK
<1> QED  BY <1>2, <1>3, <1>5, <1>6 DEF End, Syncing, TypeOK

LEMMA FinishEffect ==
  ASSUME TypeOK, NEW w \in Worker, Finish(w)
  PROVE  /\ Leaves(w) /\ TypeOK' /\ broker' = broker
         /\ sync'[w].job = sync[w].job /\ sync'[w].historical = sync[w].historical
         /\ sync[w] # Idle
<1>1. /\ sync[w].pc = "each" /\ sync[w].todo = {} /\ config' = Moved(w) /\ Commit(w)
      /\ sync' = [sync EXCEPT ![w].pc = "done"]
  BY DEF Finish
<1>2. sync[w] \in SyncRow /\ sync[w] # Idle
  BY <1>1 DEF TypeOK, Idle
<1>3. sync'[w] = [sync[w] EXCEPT !.pc = "done"] /\ \A v \in Worker \ {w} : sync'[v] = sync[v]
  BY <1>1 DEF TypeOK
<1>4. sync'[w] \in SyncRow /\ sync'[w].pc = "done"
      /\ sync'[w].job = sync[w].job /\ sync'[w].historical = sync[w].historical
  BY <1>2, <1>3 DEF SyncRow
<1>5. sync' \in [Worker -> {Idle} \cup SyncRow]
  BY <1>1, <1>3, <1>4 DEF TypeOK
<1>6. config' \in [active : BOOLEAN, cursor : Cursor]
  BY <1>1, <1>2 DEF Moved, TypeOK, SyncRow
<1>7. Syncing(w) /\ ~Syncing(w)'
  BY <1>1, <1>4 DEF Syncing
<1>8. UNCHANGED <<provider, financial, inbox, gone, purged, job, broker, events, passed, dropped,
                  abandoned, raced>>
  BY DEF Finish, SyncUnchanged
<1>9. \A v \in Worker : sync'[v].pc \in {"insert", "attachments"} => sync'[v].at \in Message
  BY <1>3, <1>4 DEF TypeOK
<1>10. TypeOK'
  BY <1>1, <1>5, <1>6, <1>7, <1>8, <1>9, CommitTypes DEF TypeOK
<1> QED  BY <1>1, <1>2, <1>3, <1>4, <1>7, <1>8, <1>10 DEF Leaves

\* The other ends: Complete, Fail, Deadlock and Break, which end the task, and WorkerLost
LEMMA EndEffect ==
  ASSUME TypeOK, NEW w \in Worker, Complete(w) \/ Fail(w) \/ Deadlock(w) \/ Break(w)
  PROVE  /\ Leaves(w) /\ TypeOK' /\ sync[w] # Idle /\ sync'[w] = Idle
         /\ broker' = broker \ {<<sync[w].job, sync[w].historical>>}
<1>1. /\ sync[w] # Idle
      /\ Complete(w) \/ Syncing(w)
      /\ \E status \in {"running", "complete", "failed"} : End(w, status)
  <2>1. sync[w].pc # "idle"
    BY DEF Complete, Fail, GmailRefuses, OutlookRefuses, Deadlock, Break, Syncing
  <2>2. Complete(w) \/ Syncing(w)
    BY DEF Fail, GmailRefuses, OutlookRefuses, Deadlock, Break, Syncing
  <2>3. \E status \in {"running", "complete", "failed"} : End(w, status)
    BY DEF Complete, Fail, Deadlock, Break
  <2> QED  BY <2>1, <2>2, <2>3 DEF Idle
<1>2. events' \in 0..MaxEvents
  BY MailboxAssumption DEF Complete, Fail, Deadlock, Break, Happens, TypeOK
<1>3. UNCHANGED <<provider, financial, inbox, gone, purged, config, passed, dropped, raced>>
  BY DEF Complete, Fail, Deadlock, Break, SyncUnchanged
<1>4. \/ UNCHANGED <<rows, processed, docs, abandoned>>
      \/ /\ Syncing(w) /\ Commit(w)
         /\ abandoned' = abandoned \cup (sync[w].stored \ sync[w].done)
  BY <1>1 DEF Complete, Fail, Deadlock, Break
<1>5. rows' \subseteq Message /\ processed' \subseteq Message /\ docs' \in [File -> Nat]
  BY <1>4, CommitTypes DEF TypeOK
<1>6. abandoned' \subseteq Message
  <2>1. sync[w] \in SyncRow
    BY <1>1, RowTypes
  <2> QED  BY <1>4, <2>1 DEF TypeOK, SyncRow
<1>7. TypeOK'
  BY <1>1, <1>2, <1>3, <1>5, <1>6, EndTypes DEF TypeOK
<1> QED  BY <1>1, <1>3, <1>4, <1>7, EndTypes DEF Leaves

LEMMA LostEffect ==
  ASSUME TypeOK, NEW w \in Worker, WorkerLost(w)
  PROVE  Leaves(w) /\ TypeOK' /\ sync'[w] = Idle /\ broker' = broker
<1>1. sync' = [sync EXCEPT ![w] = Idle]
  BY DEF WorkerLost
<1>2. sync' \in [Worker -> {Idle} \cup SyncRow] /\ sync'[w] = Idle
      /\ \A v \in Worker \ {w} : sync'[v] = sync[v]
  BY <1>1 DEF TypeOK
<1>3. ~Syncing(w)' /\ sync'[w].pc = "idle"
  BY <1>2 DEF Idle, Syncing
<1>4. \A v \in Worker : sync'[v].pc \in {"insert", "attachments"} => sync'[v].at \in Message
  BY <1>2, <1>3 DEF TypeOK
<1>5. events' \in 0..MaxEvents
  BY MailboxAssumption DEF WorkerLost, Happens, TypeOK
<1>6. UNCHANGED <<provider, financial, inbox, gone, purged, config, job, broker, rows, processed, docs,
                  passed, dropped, abandoned, raced>>
  BY DEF WorkerLost, SyncUnchanged
<1> QED  BY <1>2, <1>3, <1>4, <1>5, <1>6 DEF Leaves, TypeOK

-----------------------------------------------------------------------------
(* The invariant *)

\* A step of one sync, and what the others are told of it
LEMMA SyncSteps ==
  ASSUME TypeOK, Next
  PROVE  \/ Beside
         \/ \E w \in Worker : Start(w) \/ Moves(w) \/ Finish(w) \/ WorkerLost(w)
                              \/ Complete(w) \/ Fail(w) \/ Deadlock(w) \/ Break(w)
<1>1. ASSUME NEW w \in Worker, Step(w)
      PROVE  Start(w) \/ Moves(w) \/ Finish(w) \/ Complete(w) \/ Deadlock(w)
  <2>1. {} \in SUBSET File
    OBVIOUS
  <2> QED  BY <1>1, <2>1 DEF Step, Moves
<1> QED  BY <1>1 DEF Next, Beside, Moves

LEMMA MovesKeep ==
  ASSUME TypeOK, NEW w \in Worker, Moves(w)
  PROVE  Keeps(w)
BY ListEffect, ScanEffect, ProfileEffect, SkipEffect, TakeEffect, InsertEffect, IngestEffect DEF Moves

\* A job's message stays until its sync ends.
LEMMA OneSyncStep ==
  ASSUME MailInv, Next
  PROVE  TypeOK' /\ OneSyncPerJob'
<1>0. TypeOK /\ OneSyncPerJob
  BY DEF MailInv
<1>1. CASE Beside
  BY <1>0, <1>1, BesideTypes DEF OneSyncPerJob
<1>2. ASSUME NEW w \in Worker, Start(w) PROVE TypeOK' /\ OneSyncPerJob'
  <2>1. TypeOK'
    <3>1. /\ sync'[w].pc = "list" /\ \A v \in Worker \ {w} : sync'[v] = sync[v]
          /\ sync' \in [Worker -> {Idle} \cup SyncRow]
          /\ job' \in [Job -> {"none", "pending", "running", "complete", "failed"}]
      BY <1>0, <1>2, StartEffect
    <3>2. \A v \in Worker : sync'[v].pc \in {"insert", "attachments"} => sync'[v].at \in Message
      BY <1>0, <3>1 DEF TypeOK
    <3>3. UNCHANGED <<provider, financial, inbox, gone, purged, config, broker, rows, processed,
                      docs, events, passed, dropped, abandoned, raced>>
      BY <1>0, <1>2, StartEffect
    <3> QED  BY <1>0, <3>1, <3>2, <3>3 DEF TypeOK
  <2>2. OneSyncPerJob'
    <3>1. /\ broker' = broker /\ <<sync'[w].job, sync'[w].historical>> \in broker
          /\ \A v \in Worker \ {w} : sync'[v] = sync[v]
          /\ \A v \in Worker : sync[v] # Idle => sync[v].job # sync'[w].job
      BY <1>0, <1>2, StartEffect
    <3> QED  BY <1>0, <3>1 DEF OneSyncPerJob
  <2> QED  BY <2>1, <2>2
<1>3. ASSUME NEW w \in Worker, Moves(w) PROVE TypeOK' /\ OneSyncPerJob'
  <2>1. Keeps(w)
    BY <1>0, <1>3, MovesKeep
  <2>2. sync[w] # Idle
    BY <2>1 DEF Keeps, Syncing, Idle
  <2> QED  BY <1>0, <2>1, <2>2 DEF Keeps, OneSyncPerJob
<1>4. ASSUME NEW w \in Worker, Finish(w) PROVE TypeOK' /\ OneSyncPerJob'
  BY <1>0, <1>4, FinishEffect DEF Leaves, OneSyncPerJob
<1>5. ASSUME NEW w \in Worker, WorkerLost(w) PROVE TypeOK' /\ OneSyncPerJob'
  BY <1>0, <1>5, LostEffect DEF Leaves, OneSyncPerJob
<1>6. ASSUME NEW w \in Worker, Complete(w) \/ Fail(w) \/ Deadlock(w) \/ Break(w)
      PROVE  TypeOK' /\ OneSyncPerJob'
  <2>1. /\ TypeOK' /\ sync[w] # Idle /\ sync'[w] = Idle
        /\ broker' = broker \ {<<sync[w].job, sync[w].historical>>}
        /\ \A v \in Worker \ {w} : sync'[v] = sync[v]
    BY <1>0, <1>6, EndEffect DEF Leaves
  <2>2. ASSUME NEW v \in Worker, sync'[v] # Idle
        PROVE  /\ <<sync'[v].job, sync'[v].historical>> \in broker'
               /\ \A u \in Worker \ {v} : sync'[u] # Idle => sync'[u].job # sync'[v].job
    <3>1. v # w /\ sync'[v] = sync[v] /\ sync[v].job # sync[w].job
      BY <1>0, <2>1, <2>2 DEF OneSyncPerJob
    <3>2. <<sync[v].job, sync[v].historical>> # <<sync[w].job, sync[w].historical>>
      BY <3>1
    <3> QED  BY <1>0, <2>1, <2>2, <3>1, <3>2 DEF OneSyncPerJob
  <2> QED  BY <2>1, <2>2 DEF OneSyncPerJob
<1> QED  BY <1>0, <1>1, <1>2, <1>3, <1>4, <1>5, <1>6, SyncSteps

\* The cursor a sync carries covers what it has listed.
LEMMA CoversStep ==
  ASSUME MailInv, Next
  PROVE  ListCovers' /\ CursorCovers'
<1>0. TypeOK /\ ListCovers /\ CursorCovers
  BY DEF MailInv
<1>n. /\ Message \subseteq Nat /\ inbox \in Nat /\ config.cursor \in Nat
      /\ \A m \in Message : m > 0
  BY <1>0, Naturals
<1>1. CASE Beside
  <2>1. UNCHANGED <<sync, rows, passed>> /\ config'.cursor = config.cursor
    BY <1>0, <1>1, BesideTypes
  <2> QED  BY <1>0, <2>1 DEF ListCovers, CursorCovers
<1>2. ASSUME NEW w \in Worker, Start(w) PROVE ListCovers' /\ CursorCovers'
  <2>1. /\ UNCHANGED <<config, rows, passed>> /\ sync'[w].pc = "list"
        /\ \A v \in Worker \ {w} : sync'[v] = sync[v]
    BY <1>0, <1>2, StartEffect
  <2> QED  BY <1>0, <2>1 DEF ListCovers, CursorCovers
<1>3. ASSUME NEW w \in Worker, Moves(w),
             sync'[w].pc \in {"each", "insert", "attachments"} =>
               \A m \in Message : m < sync'[w].cursor =>
                 \/ m \in rows \cup passed' \cup sync'[w].stored \cup sync'[w].todo
                 \/ sync'[w].pc = "insert" /\ m = sync'[w].at
      PROVE  ListCovers' /\ CursorCovers'
  <2>1. Keeps(w)
    BY <1>0, <1>3, MovesKeep
  <2>2. UNCHANGED <<rows, config>> /\ passed \subseteq passed'
        /\ \A v \in Worker \ {w} : sync'[v] = sync[v]
    BY <2>1 DEF Keeps
  <2> QED  BY <1>0, <1>3, <2>2 DEF ListCovers, CursorCovers
<1>4. ASSUME NEW w \in Worker, List(w) PROVE ListCovers' /\ CursorCovers'
  <2>1. /\ sync'[w].todo = Since /\ sync'[w].cursor \in {inbox + 1, None} /\ passed' = passed
    BY <1>0, <1>4, ListEffect
  <2>2. ASSUME NEW m \in Message, m < sync'[w].cursor
        PROVE  m \in rows \cup passed' \cup sync'[w].todo
    <3>1. m <= inbox
      BY <1>n, <2>1, <2>2 DEF None
    <3>2. CASE m < config.cursor
      BY <1>0, <2>1, <3>2 DEF CursorCovers
    <3>3. CASE config.cursor <= m
      BY <2>1, <3>1, <3>3 DEF Since
    <3> QED  BY <1>n, <3>2, <3>3
  <2> QED  BY <1>3, <1>4, <2>2 DEF Moves
<1>5. ASSUME NEW w \in Worker, Scan(w) PROVE ListCovers' /\ CursorCovers'
  BY <1>0, <1>3, <1>5, ScanEffect DEF Moves
<1>6. ASSUME NEW w \in Worker, Profile(w) PROVE ListCovers' /\ CursorCovers'
  <2>1. /\ passed' = passed \cup ({m \in Message : m <= inbox} \ sync[w].todo)
        /\ sync'[w].cursor = inbox + 1 /\ sync'[w].todo = sync[w].todo
    BY <1>0, <1>6, ProfileEffect
  <2>2. ASSUME NEW m \in Message, m < inbox + 1
        PROVE  m \in passed' \cup sync'[w].todo
    BY <1>n, <2>1, <2>2
  <2> QED  BY <1>3, <1>6, <2>1, <2>2 DEF Moves
<1>7. ASSUME NEW w \in Worker, NEW m \in Message, Skip(w, m) PROVE ListCovers' /\ CursorCovers'
  <2>1. /\ Keeps(w) /\ m \in rows \cup sync[w].stored \cup passed'
        /\ sync[w].pc = "each" /\ sync'[w].pc = "each"
        /\ sync'[w].cursor = sync[w].cursor /\ sync'[w].todo = sync[w].todo \ {m}
        /\ sync'[w].stored = sync[w].stored
    BY <1>0, <1>7, SkipEffect
  <2>2. passed \subseteq passed'
    BY <2>1 DEF Keeps
  <2>3. ASSUME NEW n \in Message, n < sync'[w].cursor
        PROVE  n \in rows \cup passed' \cup sync'[w].stored \cup sync'[w].todo
    BY <1>0, <2>1, <2>2, <2>3 DEF ListCovers
  <2> QED  BY <1>3, <1>7, <2>3 DEF Moves
<1>8. ASSUME NEW w \in Worker, NEW m \in Message, Take(w, m) PROVE ListCovers' /\ CursorCovers'
  <2>1. /\ passed' = passed
        /\ sync[w].pc = "each" /\ sync'[w].pc = "insert" /\ sync'[w].at = m
        /\ sync'[w].cursor = sync[w].cursor /\ sync'[w].todo = sync[w].todo \ {m}
        /\ sync'[w].stored = sync[w].stored
    BY <1>0, <1>8, TakeEffect
  <2>2. ASSUME NEW n \in Message, n < sync'[w].cursor
        PROVE  \/ n \in rows \cup passed' \cup sync'[w].stored \cup sync'[w].todo
               \/ n = sync'[w].at
    BY <1>0, <2>1, <2>2 DEF ListCovers
  <2> QED  BY <1>3, <1>8, <2>1, <2>2 DEF Moves
<1>9. ASSUME NEW w \in Worker, Insert(w) PROVE ListCovers' /\ CursorCovers'
  <2>1. /\ passed' = passed
        /\ sync[w].pc = "insert"
        /\ sync'[w].cursor = sync[w].cursor /\ sync'[w].todo = sync[w].todo
        /\ sync'[w].stored = IF sync[w].at \in rows THEN sync[w].stored
                             ELSE sync[w].stored \cup {sync[w].at}
    BY <1>0, <1>9, InsertEffect
  <2>2. ASSUME NEW n \in Message, n < sync'[w].cursor
        PROVE  n \in rows \cup passed' \cup sync'[w].stored \cup sync'[w].todo
    BY <1>0, <2>1, <2>2 DEF ListCovers
  <2> QED  BY <1>3, <1>9, <2>2 DEF Moves
<1>10. ASSUME NEW w \in Worker, NEW failed \in SUBSET File, Ingest(w, failed)
       PROVE  ListCovers' /\ CursorCovers'
  <2>1. /\ passed' = passed
        /\ sync[w].pc = "attachments"
        /\ sync'[w].cursor = sync[w].cursor /\ sync'[w].todo = sync[w].todo
        /\ sync'[w].stored = sync[w].stored
    BY <1>0, <1>10, IngestEffect
  <2>2. ASSUME NEW n \in Message, n < sync'[w].cursor
        PROVE  n \in rows \cup passed' \cup sync'[w].stored \cup sync'[w].todo
    BY <1>0, <2>1, <2>2 DEF ListCovers
  <2> QED  BY <1>3, <1>10, <2>2 DEF Moves
<1>11. ASSUME NEW w \in Worker, Leaves(w) PROVE ListCovers' /\ CursorCovers'
  <2>1. passed' = passed /\ rows \subseteq rows' /\ ~Syncing(w)'
        /\ \A v \in Worker \ {w} : sync'[v] = sync[v]
    BY <1>11 DEF Leaves, Commit
  <2>2. ListCovers'
    BY <1>0, <2>1 DEF ListCovers, Syncing
  <2>3. CASE config' = config
    BY <1>0, <2>1, <2>2, <2>3 DEF CursorCovers
  <2>4. CASE Commit(w) /\ sync[w].pc = "each" /\ sync[w].todo = {} /\ config' = Moved(w)
    <3>1. config'.cursor = config.cursor \/ config'.cursor = sync[w].cursor
      BY <1>0, <2>4 DEF Moved, TypeOK
    <3>2. rows' = rows \cup sync[w].stored
      BY <2>4 DEF Commit
    <3>3. \A m \in Message : m < sync[w].cursor => m \in rows' \cup passed'
      BY <1>0, <2>1, <2>4, <3>2 DEF ListCovers
    <3> QED  BY <1>0, <2>1, <2>2, <3>1, <3>3 DEF CursorCovers
  <2> QED  BY <1>11, <2>2, <2>3, <2>4 DEF Leaves
<1> QED  BY <1>0, <1>1, <1>2, <1>4, <1>5, <1>6, <1>7, <1>8, <1>9, <1>10, <1>11, SyncSteps,
            FinishEffect, EndEffect, LostEffect DEF Moves

\* The rows and documents in hand stay one sync's.
LEMMA HandsStep ==
  ASSUME MailInv, Next
  PROVE  RowsAreOnes' /\ StoredIsDone' /\ MadeOnce'
<1>0. TypeOK /\ RowsAreOnes /\ StoredIsDone /\ MadeOnce
  BY DEF MailInv
<1>w. ASSUME NEW w \in Worker, Syncing(w)
      PROVE  \A v \in Worker \ {w} : Syncing(v) => v \in Others(w) /\ w \in Others(v)
  BY <1>w DEF Others
<1>1. CASE Beside
  <2>1. UNCHANGED <<sync, rows, docs, dropped, raced>>
    BY <1>0, <1>1, BesideTypes
  <2> QED  BY <1>0, <2>1 DEF RowsAreOnes, StoredIsDone, MadeOnce, Syncing, Others, Made
<1>2. ASSUME NEW w \in Worker, Start(w) PROVE RowsAreOnes' /\ StoredIsDone' /\ MadeOnce'
  <2>1. /\ UNCHANGED <<rows, docs, dropped, raced>> /\ sync'[w].pc = "list"
        /\ sync'[w].stored = {} /\ sync'[w].done = {} /\ sync'[w].made = {}
        /\ \A v \in Worker \ {w} : sync'[v] = sync[v]
    BY <1>0, <1>2, StartEffect
  <2>2. \A v \in Worker \ {w} : (Syncing(v)' <=> Syncing(v)) /\ Others(v)' \subseteq Others(v) \cup {w}
    BY <2>1 DEF Syncing, Others
  <2>3. \A v \in Worker : Others(v)' \subseteq Worker \ {v}
    BY DEF Others
  <2>4. RowsAreOnes'
    <3>1. ASSUME NEW u \in Worker, Syncing(u)', NEW v \in Others(u)'
          PROVE  sync'[v].stored \cap sync'[u].stored = {}
      BY <1>0, <2>1, <2>2, <2>3, <3>1 DEF RowsAreOnes
    <3>2. ASSUME NEW u \in Worker, Syncing(u)'
          PROVE  /\ sync'[u].pc = "attachments" => sync'[u].at \in rows \cup sync'[u].stored
                 /\ \A p \in sync'[u].made : p[1] \in rows \cup sync'[u].stored
      BY <1>0, <2>1, <2>2, <3>2 DEF RowsAreOnes
    <3> QED  BY <2>1, <3>1, <3>2 DEF RowsAreOnes
  <2>5. \A f : Made(w, f)' = 0 /\ \A v \in Worker \ {w} : Made(v, f)' = Made(v, f)
    BY <2>1 DEF Made
  <2>6. StoredIsDone'
    BY <1>0, <2>1, <2>2, <2>5 DEF StoredIsDone, Parts
  <2>7. MadeOnce'
    <3>1. ASSUME NEW f \in File \ raced, NEW u \in Worker, Syncing(u)', Made(u, f)' = 1
          PROVE  docs[f] = 0 /\ \A v \in Others(u)' : Made(v, f)' = 0
      <4>1. u # w /\ Syncing(u) /\ Made(u, f) = 1
        BY <2>2, <2>5, <3>1
      <4>2. docs[f] = 0 /\ \A v \in Others(u) : Made(v, f) = 0
        BY <1>0, <3>1, <4>1 DEF MadeOnce
      <4> QED  BY <2>2, <2>3, <2>5, <4>1, <4>2
    <3> QED  BY <2>1, <3>1 DEF MadeOnce
  <2> QED  BY <2>4, <2>6, <2>7
<1>3. ASSUME NEW w \in Worker, Keeps(w),
             sync'[w].stored = sync[w].stored, sync'[w].done = sync[w].done,
             sync'[w].made = sync[w].made,
             sync[w].pc # "attachments", sync'[w].pc # "attachments"
      PROVE  RowsAreOnes' /\ StoredIsDone' /\ MadeOnce'
  <2>1. /\ UNCHANGED <<rows, docs>> /\ dropped \subseteq dropped' /\ raced \subseteq raced'
        /\ Syncing(w) /\ Syncing(w)' /\ \A v \in Worker \ {w} : sync'[v] = sync[v]
    BY <1>3 DEF Keeps
  <2>2. \A v \in Worker : (Syncing(v)' <=> Syncing(v)) /\ Others(v)' = Others(v)
    BY <2>1 DEF Syncing, Others
  <2>3. \A v \in Worker : /\ sync'[v].stored = sync[v].stored /\ sync'[v].done = sync[v].done
                          /\ sync'[v].made = sync[v].made
                          /\ sync'[v].pc = "attachments" => sync'[v] = sync[v]
                          /\ sync[v].pc = "attachments" => sync'[v] = sync[v]
    BY <1>3, <2>1
  <2>4. RowsAreOnes'
    BY <1>0, <2>1, <2>2, <2>3 DEF RowsAreOnes, Others
  <2>5. \A v \in Worker : \A f : Made(v, f)' = Made(v, f)
    BY <2>3 DEF Made
  <2>6. StoredIsDone'
    BY <1>0, <2>1, <2>2, <2>3, <2>5 DEF StoredIsDone, Parts
  <2>7. MadeOnce'
    BY <1>0, <2>1, <2>2, <2>5 DEF MadeOnce, Others
  <2> QED  BY <2>4, <2>6, <2>7
<1>4. ASSUME NEW w \in Worker, Insert(w) PROVE RowsAreOnes' /\ StoredIsDone' /\ MadeOnce'
  <2>1. /\ UNCHANGED <<rows, docs>> /\ dropped' = dropped /\ raced' = raced
        /\ Syncing(w) /\ Syncing(w)' /\ \A v \in Worker \ {w} : sync'[v] = sync[v]
        /\ sync[w].pc = "insert" /\ sync'[w].pc = "attachments" /\ sync'[w].at = sync[w].at
        /\ \A v \in Others(w) : sync[w].at \notin sync[v].stored
        /\ sync'[w].stored = IF sync[w].at \in rows THEN sync[w].stored
                              ELSE sync[w].stored \cup {sync[w].at}
        /\ sync'[w].done = sync[w].done /\ sync'[w].made = sync[w].made
    BY <1>0, <1>4, InsertEffect DEF Keeps
  <2>2. \A v \in Worker : (Syncing(v)' <=> Syncing(v)) /\ Others(v)' = Others(v)
    BY <2>1 DEF Syncing, Others
  <2>4. RowsAreOnes'
    <3>1. ASSUME NEW u \in Worker, Syncing(u)', NEW v \in Others(u)'
          PROVE  sync'[v].stored \cap sync'[u].stored = {}
      <4>1. Syncing(u) /\ v \in Others(u) /\ u \in Others(v) /\ v \in Worker /\ u # v
        BY <2>2, <3>1 DEF Others
      <4>2. sync[v].stored \cap sync[u].stored = {}
        BY <1>0, <4>1 DEF RowsAreOnes
      <4> QED  BY <2>1, <4>1, <4>2
    <3>2. ASSUME NEW u \in Worker, Syncing(u)'
          PROVE  /\ sync'[u].pc = "attachments" => sync'[u].at \in rows \cup sync'[u].stored
                 /\ \A p \in sync'[u].made : p[1] \in rows \cup sync'[u].stored
      BY <1>0, <2>1, <2>2, <3>2 DEF RowsAreOnes
    <3> QED  BY <2>1, <3>1, <3>2 DEF RowsAreOnes
  <2>5. \A v \in Worker : \A f : Made(v, f)' = Made(v, f)
    BY <2>1 DEF Made
  <2>6. StoredIsDone'
    BY <1>0, <2>1, <2>2, <2>5 DEF StoredIsDone, Parts
  <2>7. MadeOnce'
    BY <1>0, <2>1, <2>2, <2>5 DEF MadeOnce, Others
  <2> QED  BY <2>4, <2>6, <2>7
<1>5. ASSUME NEW w \in Worker, NEW failed, Ingest(w, failed)
      PROVE  RowsAreOnes' /\ StoredIsDone' /\ MadeOnce'
  <2> DEFINE at == sync[w].at
  <2>1. PICK new \in SUBSET File :
              /\ sync'[w].made = sync[w].made \cup ({at} \X new)
              /\ \A f \in new : Visible(w, f) = 0
              /\ \A f \in new \ raced' : \A v \in Others(w), m \in Message :
                   <<m, f>> \in sync[v].made => m = at /\ m \notin rows
              /\ \A f \in Parts(at) :
                   f \in new \/ Visible(w, f) # 0 \/ <<at, f>> \in dropped'
    BY <1>0, <1>5, IngestEffect
  <2>2. /\ UNCHANGED <<rows, docs>> /\ dropped \subseteq dropped' /\ raced \subseteq raced'
        /\ Syncing(w) /\ Syncing(w)' /\ \A v \in Worker \ {w} : sync'[v] = sync[v]
        /\ sync[w].pc = "attachments" /\ sync'[w].pc = "each" /\ at \in Message
        /\ sync'[w].stored = sync[w].stored /\ sync'[w].done = sync[w].done \cup {at}
    BY <1>0, <1>5, IngestEffect DEF Keeps
  <2>3. \A v \in Worker : (Syncing(v)' <=> Syncing(v)) /\ Others(v)' = Others(v)
    BY <2>2 DEF Syncing, Others
  <2>a. at \in rows \cup sync[w].stored
    BY <1>0, <2>2 DEF RowsAreOnes
  <2>m. /\ \A f \in File : Made(w, f)' = IF f \in new THEN 1 ELSE Made(w, f)
        /\ \A f \in File, v \in Worker \ {w} : Made(v, f)' = Made(v, f)
    BY <2>1, <2>2 DEF Made
  <2> HIDE DEF at
  <2>4. RowsAreOnes'
    <3>1. \A v \in Worker : sync'[v].stored = sync[v].stored
      BY <2>2
    <3>2. \A p \in sync'[w].made : p[1] \in rows \cup sync[w].stored
      BY <1>0, <2>1, <2>2, <2>a DEF RowsAreOnes
    <3>3. ASSUME NEW v \in Worker \ {w}, Syncing(v)
          PROVE  /\ sync'[v].pc = "attachments" => sync'[v].at \in rows \cup sync'[v].stored
                 /\ \A p \in sync'[v].made : p[1] \in rows \cup sync'[v].stored
      BY <1>0, <2>2, <3>3 DEF RowsAreOnes
    <3>4. ASSUME NEW u \in Worker, Syncing(u), NEW v \in Others(u)
          PROVE  sync'[v].stored \cap sync'[u].stored = {}
      BY <1>0, <3>1, <3>4 DEF RowsAreOnes, Others
    <3> QED  BY <2>2, <2>3, <3>1, <3>2, <3>3, <3>4 DEF RowsAreOnes
  <2>5. StoredIsDone'
    <3>1. ASSUME NEW f \in Parts(at)
          PROVE  docs[f] > 0 \/ Made(w, f)' = 1 \/ <<at, f>> \in dropped'
      <4>1. f \in File
        BY <2>2, <3>1, MailboxAssumption DEF Parts
      <4>2. docs[f] \in Nat /\ Made(w, f) \in {0, 1}
        BY <1>0, <4>1, MadeIsOne DEF TypeOK
      <4> QED  BY <2>1, <2>m, <3>1, <4>1, <4>2 DEF Visible
    <3>2. ASSUME NEW m \in sync[w].done, NEW f \in Parts(m)
          PROVE  docs[f] > 0 \/ Made(w, f)' = 1 \/ <<m, f>> \in dropped'
      <4>1. f \in File
        <5>1. sync[w] \in SyncRow
          BY <1>0, <2>2, SyncingRow
        <5> QED  BY <3>2, <5>1, MailboxAssumption DEF Parts, SyncRow
      <4> QED  BY <1>0, <2>2, <2>m, <3>2, <4>1 DEF StoredIsDone
    <3>3. sync'[w].stored \subseteq sync'[w].done
      BY <1>0, <2>2 DEF StoredIsDone, at
    <3>4. ASSUME NEW v \in Worker \ {w}, Syncing(v)
          PROVE  /\ sync'[v].stored \subseteq
                      sync'[v].done \cup (IF sync'[v].pc = "attachments" THEN {sync'[v].at} ELSE {})
                 /\ \A m \in sync'[v].done : \A f \in Parts(m) :
                      docs[f] > 0 \/ Made(v, f)' = 1 \/ <<m, f>> \in dropped'
      <4>1. \A f : Made(v, f)' = Made(v, f)
        BY <2>2 DEF Made
      <4> QED  BY <1>0, <2>2, <3>4, <4>1 DEF StoredIsDone
    <3>5. \A m \in sync'[w].done : \A f \in Parts(m) :
            docs[f] > 0 \/ Made(w, f)' = 1 \/ <<m, f>> \in dropped'
      BY <2>2, <3>1, <3>2
    <3> QED  BY <2>2, <2>3, <3>3, <3>4, <3>5 DEF StoredIsDone, Parts
  <2>6. MadeOnce'
    <3>1. ASSUME NEW f \in File \ raced', NEW u \in Worker, Syncing(u), Made(u, f)' = 1,
                 NEW v \in Others(u)
          PROVE  docs[f] = 0 /\ Made(v, f)' = 0
      <4>0. /\ f \notin raced /\ v \in Worker /\ v # u /\ Syncing(v) /\ u \in Others(v)
            /\ docs[f] \in Nat /\ Made(w, f) \in {0, 1} /\ Made(v, f) \in {0, 1}
        BY <1>0, <2>2, <3>1, MadeIsOne DEF Others, TypeOK
      <4>1. ASSUME f \in new, NEW x \in Others(w) PROVE docs[f] = 0 /\ Made(x, f) = 0
        <5>1. docs[f] = 0 /\ Made(w, f) = 0
          BY <2>1, <4>0, <4>1 DEF Visible
        <5>2. ASSUME NEW m \in Message, <<m, f>> \in sync[x].made PROVE FALSE
          <6>1. m = at /\ m \notin rows
            BY <2>1, <3>1, <4>1, <5>2
          <6>2. x \in Worker /\ Syncing(x)
            BY <4>1 DEF Others
          <6>3. m \in sync[x].stored
            BY <1>0, <5>2, <6>1, <6>2 DEF RowsAreOnes
          <6>4. m \in sync[w].stored
            BY <2>a, <6>1
          <6> QED  BY <1>0, <2>2, <4>1, <6>3, <6>4 DEF RowsAreOnes
        <5> QED  BY <5>1, <5>2 DEF Made
      <4>2. CASE f \notin new
        BY <1>0, <2>m, <3>1, <4>0, <4>2 DEF MadeOnce
      <4>3. CASE f \in new /\ u = w
        BY <2>m, <3>1, <4>0, <4>1, <4>3
      <4>4. CASE f \in new /\ u # w
        <5>1. u \in Others(w)
          BY <3>1, <4>4 DEF Others
        <5> QED  BY <2>m, <3>1, <4>1, <4>4, <5>1
      <4> QED  BY <4>2, <4>3, <4>4
    <3>2. ASSUME NEW f \in File \ raced', NEW u \in Worker, Syncing(u), Made(u, f)' = 1
          PROVE  docs[f] = 0
      <4>1. CASE f \in new
        BY <1>0, <2>1, <4>1, MadeIsOne DEF Visible, TypeOK
      <4>2. CASE f \notin new
        BY <1>0, <2>2, <2>m, <3>2, <4>2 DEF MadeOnce
      <4> QED  BY <4>1, <4>2
    <3> QED  BY <2>2, <2>3, <3>1, <3>2 DEF MadeOnce
  <2> QED  BY <2>4, <2>5, <2>6
<1>6. ASSUME NEW w \in Worker, Leaves(w)
      PROVE  RowsAreOnes' /\ StoredIsDone' /\ MadeOnce'
  <2>1. /\ dropped' = dropped /\ raced' = raced
        /\ ~Syncing(w)' /\ \A v \in Worker \ {w} : sync'[v] = sync[v]
        /\ \/ UNCHANGED <<rows, docs>>
           \/ Syncing(w) /\ Commit(w)
    BY <1>6 DEF Leaves
  <2>2. \A v \in Worker : Syncing(v)' => v # w /\ Syncing(v) /\ sync'[v] = sync[v]
                                           /\ Others(v)' \subseteq Others(v) \ {w}
    BY <2>1 DEF Syncing, Others
  <2>3. rows \subseteq rows'
    BY <2>1 DEF Commit
  <2>4. \A f \in File, v \in Worker \ {w} : Made(v, f)' = Made(v, f)
    BY <2>1 DEF Made
  <2>5. RowsAreOnes'
    BY <1>0, <2>1, <2>2, <2>3 DEF RowsAreOnes, Others
  <2>6. ASSUME NEW f \in File PROVE docs[f] > 0 => docs'[f] > 0
    BY <1>0, <2>1, MadeIsOne DEF Commit, TypeOK
  <2>7. StoredIsDone'
    <3>1. ASSUME NEW v \in Worker \ {w}, Syncing(v), NEW m \in sync[v].done, NEW f \in Parts(m)
          PROVE  docs'[f] > 0 \/ Made(v, f)' = 1 \/ <<m, f>> \in dropped'
      <4>1. f \in File
        <5>1. sync[v] \in SyncRow
          BY <1>0, <3>1, SyncingRow
        <5> QED  BY <3>1, <5>1, MailboxAssumption DEF Parts, SyncRow
      <4> QED  BY <1>0, <2>1, <2>4, <2>6, <3>1, <4>1 DEF StoredIsDone
    <3> QED  BY <1>0, <2>2, <3>1 DEF StoredIsDone, Parts
  <2>8. MadeOnce'
    <3>1. ASSUME NEW f \in File \ raced, NEW v \in Worker \ {w}, Syncing(v), Made(v, f) = 1
          PROVE  docs'[f] = 0
      <4>1. docs[f] = 0
        BY <1>0, <3>1 DEF MadeOnce
      <4>2. CASE Syncing(w) /\ Commit(w)
        <5>1. w \in Others(v)
          BY <4>2 DEF Others
        <5>2. Made(w, f) = 0
          BY <1>0, <3>1, <5>1 DEF MadeOnce
        <5> QED  BY <4>1, <4>2, <5>2 DEF Commit
      <4> QED  BY <2>1, <4>1, <4>2
    <3>2. \A v \in Worker : Others(v)' \subseteq Worker
      BY DEF Others
    <3> QED  BY <1>0, <2>1, <2>2, <2>4, <3>1, <3>2 DEF MadeOnce
  <2> QED  BY <2>5, <2>7, <2>8
<1>7. ASSUME NEW w \in Worker, Moves(w) PROVE RowsAreOnes' /\ StoredIsDone' /\ MadeOnce'
  <2>1. CASE List(w)
    <3>1. sync[w].pc = "list"
      BY <2>1 DEF List
    <3> QED  BY <1>0, <1>3, <2>1, <3>1, ListEffect
  <2>2. CASE Scan(w)
    <3>1. sync[w].pc = "list"
      BY <2>2 DEF Scan
    <3> QED  BY <1>0, <1>3, <2>2, <3>1, ScanEffect
  <2>3. CASE Profile(w)
    <3>1. sync[w].pc = "profile"
      BY <2>3 DEF Profile
    <3> QED  BY <1>0, <1>3, <2>3, <3>1, ProfileEffect
  <2>4. ASSUME NEW m \in Message, Skip(w, m) PROVE RowsAreOnes' /\ StoredIsDone' /\ MadeOnce'
    BY <1>0, <1>3, <2>4, SkipEffect
  <2>5. ASSUME NEW m \in Message, Take(w, m) PROVE RowsAreOnes' /\ StoredIsDone' /\ MadeOnce'
    BY <1>0, <1>3, <2>5, TakeEffect
  <2> QED  BY <1>4, <1>5, <1>7, <2>1, <2>2, <2>3, <2>4, <2>5 DEF Moves
<1> QED  BY <1>0, <1>1, <1>2, <1>6, <1>7, SyncSteps, FinishEffect, EndEffect, LostEffect

\* A commit brings the documents of its rows, and each file's only one.
LEMMA BooksStep ==
  ASSUME MailInv, Next
  PROVE  RowHasDocuments' /\ FileBookedOnce'
<1>0. TypeOK /\ StoredIsDone /\ MadeOnce /\ RowHasDocuments /\ FileBookedOnce
  BY DEF MailInv
<1>1. ASSUME UNCHANGED <<rows, docs, abandoned>>, dropped \subseteq dropped', raced \subseteq raced'
      PROVE  RowHasDocuments' /\ FileBookedOnce'
  BY <1>0, <1>1 DEF RowHasDocuments, FileBookedOnce, Parts
<1>2. CASE Beside
  BY <1>0, <1>1, <1>2, BesideTypes
<1>3. ASSUME NEW w \in Worker, Start(w) PROVE RowHasDocuments' /\ FileBookedOnce'
  BY <1>0, <1>1, <1>3, StartEffect
<1>4. ASSUME NEW w \in Worker, Moves(w) PROVE RowHasDocuments' /\ FileBookedOnce'
  BY <1>0, <1>1, <1>4, MovesKeep DEF Keeps
<1>5. ASSUME NEW w \in Worker, Leaves(w) PROVE RowHasDocuments' /\ FileBookedOnce'
  <2>1. CASE UNCHANGED <<rows, docs, abandoned>>
    BY <1>1, <1>5, <2>1 DEF Leaves
  <2>2. CASE /\ Syncing(w) /\ Commit(w) /\ abandoned \subseteq abandoned'
             /\ sync[w].stored \subseteq sync[w].done \cup abandoned'
    <3>1. /\ rows' = rows \cup sync[w].stored /\ dropped' = dropped /\ raced' = raced
          /\ \A f \in File : docs'[f] = docs[f] + Made(w, f)
          /\ \A f \in File : docs[f] \in Nat /\ Made(w, f) \in {0, 1}
      BY <1>0, <1>5, <2>2, MadeIsOne DEF Commit, Leaves, TypeOK
    <3>2. ASSUME NEW m \in rows' \ abandoned', NEW f \in Parts(m)
          PROVE  docs'[f] > 0 \/ <<m, f>> \in dropped'
      <4>1. m \in Message /\ f \in File
        <5>1. sync[w] \in SyncRow
          BY <1>0, <2>2, SyncingRow
        <5>2. m \in Message
          BY <1>0, <3>1, <3>2, <5>1 DEF TypeOK, SyncRow
        <5> QED  BY <3>2, <5>2, MailboxAssumption DEF Parts
      <4>2. CASE m \in rows
        BY <1>0, <2>2, <3>1, <3>2, <4>1, <4>2 DEF RowHasDocuments
      <4>3. CASE m \notin rows
        <5>1. m \in sync[w].done
          BY <2>2, <3>1, <3>2, <4>3
        <5>2. docs[f] > 0 \/ Made(w, f) = 1 \/ <<m, f>> \in dropped
          BY <1>0, <2>2, <3>2, <5>1 DEF StoredIsDone
        <5> QED  BY <3>1, <4>1, <5>2
      <4> QED  BY <4>2, <4>3
    <3>3. ASSUME NEW f \in File \ raced' PROVE docs'[f] <= 1
      BY <1>0, <2>2, <3>1, <3>3 DEF MadeOnce, FileBookedOnce
    <3> QED  BY <3>2, <3>3 DEF RowHasDocuments, FileBookedOnce, Parts
  <2>3. ASSUME Syncing(w), sync[w].pc = "each" PROVE sync[w].stored \subseteq sync[w].done
    BY <1>0, <2>3 DEF StoredIsDone
  <2> QED  BY <1>5, <2>1, <2>2, <2>3 DEF Leaves
<1> QED  BY <1>0, <1>2, <1>3, <1>4, <1>5, SyncSteps, FinishEffect, EndEffect, LostEffect

LEMMA MailStep ==
  ASSUME MailInv, [Next]_vars
  PROVE  MailInv'
<1>1. CASE Next
  BY <1>1, OneSyncStep, CoversStep, HandsStep, BooksStep DEF MailInv
<1>2. CASE UNCHANGED vars
  <2>1. TypeOK' /\ OneSyncPerJob' /\ ListCovers' /\ RowHasDocuments' /\ FileBookedOnce' /\ CursorCovers'
    BY <1>2 DEF vars, MailInv, TypeOK, OneSyncPerJob, ListCovers, RowHasDocuments, FileBookedOnce,
                CursorCovers, Parts
  <2>2. RowsAreOnes' /\ StoredIsDone' /\ MadeOnce'
    BY <1>2 DEF vars, MailInv, RowsAreOnes, StoredIsDone, MadeOnce, Syncing, Others, Made, Parts
  <2> QED  BY <2>1, <2>2 DEF MailInv
<1> QED  BY <1>1, <1>2

LEMMA MailInit ==
  ASSUME Init
  PROVE  MailInv
<1>1. \A w \in Worker : sync[w] = Idle /\ sync[w].pc = "idle"
  BY DEF Init, Idle
<1>2. TypeOK
  <2>1. /\ sync \in [Worker -> {Idle} \cup SyncRow] /\ 0 \in 0..MaxEvents
        /\ config \in [active : BOOLEAN, cursor : Cursor]
    BY MailboxAssumption DEF Init, Cursor
  <2> QED  BY <1>1, <2>1 DEF Init, TypeOK
<1>3. OneSyncPerJob /\ ListCovers /\ RowsAreOnes /\ StoredIsDone /\ MadeOnce
  BY <1>1 DEF OneSyncPerJob, ListCovers, RowsAreOnes, StoredIsDone, MadeOnce, Syncing
<1>4. CursorCovers /\ RowHasDocuments /\ FileBookedOnce
  <2>1. config.cursor = 0 /\ rows = {} /\ \A f \in File : docs[f] = 0
    BY DEF Init, None
  <2> QED  BY <2>1, MailboxAssumption DEF CursorCovers, RowHasDocuments, FileBookedOnce
<1> QED  BY <1>2, <1>3, <1>4 DEF MailInv

\* The state of the rows, the lists and the documents in hand holds along every behaviour.
THEOREM MailHolds == Spec => []MailInv
<1> QED  BY MailInit, MailStep, PTL DEF Spec

\* Type correctness of the mailbox, its jobs and what each sync holds.
THEOREM MailTypes == Spec => []TypeOK
<1>1. MailInv => TypeOK
  BY DEF MailInv
<1> QED  BY <1>1, MailHolds, PTL

\* The cursor passes no message that has no row and was not passed over knowingly.
THEOREM Covered == Spec => []CursorCovers
<1>1. MailInv => CursorCovers
  BY DEF MailInv
<1> QED  BY <1>1, MailHolds, PTL

\* A committed row hides no message whose attachments have no document.
THEOREM Documented == Spec => []RowHasDocuments
<1>1. MailInv => RowHasDocuments
  BY DEF MailInv
<1> QED  BY <1>1, MailHolds, PTL

\* A file is booked once whatever number of syncs read the mailbox at once.
THEOREM BookedOnce == Spec => []FileBookedOnce
<1>1. MailInv => FileBookedOnce
  BY DEF MailInv
<1> QED  BY <1>1, MailHolds, PTL
=============================================================================
