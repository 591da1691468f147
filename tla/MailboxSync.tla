----------------------------- MODULE MailboxSync -----------------------------
(***************************************************************************)
(* Reading a connected mailbox.  Every six hours, and whenever a manager   *)
(* asks, a job is created and its message sent; a worker that takes it     *)
(* lists what is new since the mailbox's cursor, stores a row for every    *)
(* message, makes documents of its attachments, moves the cursor, and      *)
(* commits all of that at once.  Nothing keeps two syncs of one mailbox    *)
(* apart: they meet at the unique index of the rows.                       *)
(*                                                                         *)
(* Messages are numbered as they arrive, so a cursor is the number of the  *)
(* next message.                                                           *)
(***************************************************************************)
EXTENDS Naturals, FiniteSetsExt, Functions

CONSTANTS
  Job, Worker,
  Message,      \* 1 .. n
  File,         \* contents of attachments
  Attached,     \* the supported attachments of each message
  Ignored,      \* files whose names say that they are no financial documents
  Finds,        \* sets of messages, one of which a full scan's keywords find
  ScanLimit,    \* how many messages a full scan lists at most
  MaxEvents     \* how much happens beside syncs: see Happens

ASSUME MailboxAssumption ==
  /\ Message \subseteq Nat \ {0}
  /\ Attached \in [Message -> SUBSET File]
  /\ Finds \subseteq SUBSET Message
  /\ ScanLimit \in Nat /\ MaxEvents \in Nat

VARIABLES
  provider,  \* "gmail" or "outlook"
  financial, \* messages that the keywords find
  inbox,     \* how many messages have arrived
  gone,      \* messages the user has removed from the mailbox
  purged,    \* history before this is no longer kept by the provider
  config,    \* the connected account: whether it is active, and its cursor
  job,       \* status of each job
  broker,    \* jobs whose message waits or is worked on: <<job, historical>>
  sync,      \* what each worker does
  rows,      \* messages with a committed row, and
  processed, \* those of them marked as processed
  docs,      \* how many committed documents not flagged as duplicates each file has
  events,
  passed,    \* history: messages a full scan left out, or that were gone
  dropped,   \* history: attachments whose document failed, as <<message, file>>
  abandoned, \* history: rows committed when their attachments could not be listed
  raced      \* history: files two uncommitted syncs made documents of

vars == <<provider, financial, inbox, gone, purged, config, job, broker, sync, rows, processed, docs,
          events, passed, dropped, abandoned, raced>>

Idle == [pc |-> "idle"]

None   == 0   \* no cursor; another one is the number of the next message to arrive
Cursor == {None, 1} \cup {m + 1 : m \in Message}

\* What a sync has listed, and has done and not committed
Fresh(j, h) ==
  [pc |-> "list", job |-> j, historical |-> h, scan |-> FALSE, todo |-> {},
   cursor |-> None, at |-> None,
   stored |-> {}, done |-> {}, made |-> {}]

Syncing(w) == sync[w].pc \in {"list", "profile", "each", "insert", "attachments"}
Others(w)  == {v \in Worker \ {w} : Syncing(v)}

\* What happens beside the syncs, MaxEvents times
Happens == events < MaxEvents /\ events' = events + 1

\* The attachments of a message that a sync looks at
Parts(m) == Attached[m] \ Ignored

SyncRow ==
  [pc : {"list", "profile", "each", "insert", "attachments", "done"},
   job : Job, historical : BOOLEAN, scan : BOOLEAN, todo : SUBSET Message,
   cursor : Cursor, at : {None} \cup Message,
   stored : SUBSET Message, done : SUBSET Message, made : SUBSET (Message \X File)]

TypeOK ==
  /\ provider \in {"gmail", "outlook"} /\ financial \in Finds
  /\ inbox \in {0} \cup Message /\ gone \subseteq Message /\ purged \in {0} \cup Message
  /\ config \in [active : BOOLEAN, cursor : Cursor]
  /\ job \in [Job -> {"none", "pending", "running", "complete", "failed"}]
  /\ broker \subseteq Job \X BOOLEAN
  /\ sync \in [Worker -> {Idle} \cup SyncRow]
  /\ \A w \in Worker : sync[w].pc \in {"insert", "attachments"} => sync[w].at \in Message
  /\ rows \subseteq Message /\ processed \subseteq Message
  /\ docs \in [File -> Nat]
  /\ events \in 0..MaxEvents
  /\ passed \subseteq Message /\ dropped \subseteq Message \X File
  /\ abandoned \subseteq Message /\ raced \subseteq File

Init ==
  /\ provider \in {"gmail", "outlook"}
  /\ financial \in Finds
  /\ inbox \in {0} \cup Message /\ gone = {} /\ purged = 0
  /\ config = [active |-> TRUE, cursor |-> None]
  /\ job = [j \in Job |-> "none"]
  /\ broker = {}
  /\ sync = [w \in Worker |-> Idle]
  /\ rows = {} /\ processed = {}
  /\ docs = [f \in File |-> 0]
  /\ events = 0
  /\ passed = {} /\ dropped = {} /\ abandoned = {} /\ raced = {}

-----------------------------------------------------------------------------
(* The mailbox, and the account *)

Arrive ==
  /\ inbox + 1 \in Message
  /\ inbox' = inbox + 1
  /\ UNCHANGED <<provider, financial, gone, purged, config, job, broker, sync, rows, processed, docs,
                 events, passed, dropped, abandoned, raced>>

\* The user removes a message
Remove(m) ==
  /\ Happens
  /\ m <= inbox /\ m \notin gone
  /\ gone' = gone \cup {m}
  /\ UNCHANGED <<provider, financial, inbox, purged, config, job, broker, sync, rows, processed, docs,
                 passed, dropped, abandoned, raced>>

\* The provider forgets the history of the messages so far
Purge ==
  /\ Happens
  /\ provider = "gmail" /\ purged < inbox
  /\ purged' = inbox
  /\ UNCHANGED <<provider, financial, inbox, gone, config, job, broker, sync, rows, processed, docs,
                 passed, dropped, abandoned, raced>>

\* The account is disconnected, and connected again: the cursor stays
Disconnect ==
  /\ Happens
  /\ config.active
  /\ config' = [config EXCEPT !.active = FALSE]
  /\ UNCHANGED <<provider, financial, inbox, gone, purged, job, broker, sync, rows, processed, docs,
                 passed, dropped, abandoned, raced>>

Connect ==
  /\ ~config.active
  /\ config' = [config EXCEPT !.active = TRUE]
  /\ UNCHANGED <<provider, financial, inbox, gone, purged, job, broker, sync, rows, processed, docs,
                 events, passed, dropped, abandoned, raced>>

-----------------------------------------------------------------------------
(* Jobs.  A job without a message makes room for another: nothing resumes it. *)

New(j) == LET free == Job \ {b[1] : b \in broker} IN j \in free /\ j = CHOOSE i \in free : TRUE

Create(j, historical, sent) ==
  /\ New(j)
  /\ job' = [job EXCEPT ![j] = "pending"]
  /\ broker' = IF sent THEN broker \cup {<<j, historical>>} ELSE broker
  /\ UNCHANGED <<provider, financial, inbox, gone, purged, config, sync, rows, processed, docs,
                 passed, dropped, abandoned, raced>>

\* The schedule: every active account, however many of its jobs wait
Dispatch(j) == config.active /\ Create(j, FALSE, TRUE) /\ UNCHANGED events

\* A manager asks for a sync, or the owner for an import; either also of an inactive account
Request(j) ==
  /\ Happens
  /\ \E historical \in {FALSE, provider = "gmail"} : Create(j, historical, TRUE)

\* The job is committed, and its message never sent
Unsent(j) == Happens /\ Create(j, FALSE, FALSE)

-----------------------------------------------------------------------------
(* A sync *)

SyncUnchanged == UNCHANGED <<provider, financial, inbox, gone, purged>>

\* Workers are alike: the first idle one takes a message
Start(w) ==
  /\ sync[w] = Idle /\ w = CHOOSE v \in Worker : sync[v] = Idle
  /\ \E b \in broker :
       /\ \A v \in Worker : sync[v] # Idle => sync[v].job # b[1]
       /\ sync' = [sync EXCEPT ![w] = Fresh(b[1], b[2])]
       /\ job' = [job EXCEPT ![b[1]] = "running"]
  /\ UNCHANGED <<config, broker, rows, processed, docs, events, passed, dropped, abandoned, raced>>
  /\ SyncUnchanged

\* The newest, up to the limit
Newest(S) == {m \in S : Cardinality({n \in S : n > m}) < ScanLimit}

Present == {m \in Message : m <= inbox} \ gone

\* Messages of the history since the cursor, or of the delta
\* mutant: the history starts after the next message
SinceSkips == {m \in Message : m > config.cursor /\ m <= inbox}
Since == {m \in Message : config.cursor <= m /\ m <= inbox}

Scans(w) ==
  /\ provider = "gmail"
  /\ sync[w].historical \/ config.cursor = None \/ config.cursor <= purged

List(w) ==
  /\ sync[w].pc = "list"
  /\ ~Scans(w)
  /\ \E cursor \in IF provider = "outlook" THEN {inbox + 1, None} ELSE {inbox + 1} :
       sync' = [sync EXCEPT ![w].pc = "each", ![w].todo = Since, ![w].cursor = cursor]
  /\ UNCHANGED <<config, job, broker, rows, processed, docs, events, passed, dropped, abandoned, raced>>
  /\ SyncUnchanged

\* A full scan, and then the profile for where the history is by now
Scan(w) ==
  /\ sync[w].pc = "list"
  /\ Scans(w)
  /\ sync' = [sync EXCEPT ![w].pc = "profile", ![w].scan = TRUE,
                          ![w].todo = Newest(Present \cap financial)]
  /\ UNCHANGED <<config, job, broker, rows, processed, docs, events, passed, dropped, abandoned, raced>>
  /\ SyncUnchanged

Profile(w) ==
  /\ sync[w].pc = "profile"
  /\ sync' = [sync EXCEPT ![w].pc = "each", ![w].cursor = inbox + 1]
  /\ passed' = passed \cup ({m \in Message : m <= inbox} \ sync[w].todo)
  /\ UNCHANGED <<config, job, broker, rows, processed, docs, events, dropped, abandoned, raced>>
  /\ SyncUnchanged

\* The next message: a history is in order of arrival, a scan lists the newest first
Following(w) == IF sync[w].scan THEN Max(sync[w].todo) ELSE Min(sync[w].todo)

Exists(w, m) == m \in rows \cup sync[w].stored

\* A message that has a row, that is gone, or without attachments for Outlook
Skip(w, m) ==
  /\ sync[w].pc = "each" /\ sync[w].todo # {} /\ m = Following(w)
  /\ IF Exists(w, m) THEN UNCHANGED passed
     ELSE /\ m \in gone \/ (provider = "outlook" /\ Attached[m] = {})
          /\ passed' = passed \cup {m}
  /\ sync' = [sync EXCEPT ![w].todo = @ \ {m}]
  /\ UNCHANGED <<config, job, broker, rows, processed, docs, events, dropped, abandoned, raced>>
  /\ SyncUnchanged

\* A message without a row: Gmail's is fetched now, and only then gets one
Take(w, m) ==
  /\ sync[w].pc = "each" /\ sync[w].todo # {} /\ m = Following(w)
  /\ ~Exists(w, m) /\ m \notin gone
  /\ provider = "outlook" => Attached[m] # {}
  /\ sync' = [sync EXCEPT ![w].pc = "insert", ![w].at = m, ![w].todo = @ \ {m}]
  /\ UNCHANGED <<config, job, broker, rows, processed, docs, events, passed, dropped, abandoned, raced>>
  /\ SyncUnchanged

\* mutant: nothing waits for another insert
InsertAtOnce(w) ==
  /\ sync[w].pc = "insert"
  /\ sync' = [sync EXCEPT ![w].pc = "attachments", ![w].stored = @ \cup {sync[w].at}]
  /\ UNCHANGED <<config, job, broker, rows, processed, docs, events, passed, dropped, abandoned, raced>>
  /\ SyncUnchanged

\* mutant: the row is committed by itself
InsertCommitted(w) ==
  /\ sync[w].pc = "insert"
  /\ \A v \in Others(w) : sync[w].at \notin sync[v].stored
  /\ rows' = rows \cup {sync[w].at}
  /\ sync' = [sync EXCEPT ![w].pc = "attachments"]
  /\ UNCHANGED <<config, job, broker, processed, docs, events, passed, dropped, abandoned, raced>>
  /\ SyncUnchanged

\* The unique index lets an insert wait for the end of another sync's.  One that
\* finds the row taken goes on with that row.
Insert(w) ==
  /\ sync[w].pc = "insert"
  /\ \A v \in Others(w) : sync[w].at \notin sync[v].stored
  /\ sync' = [sync EXCEPT ![w].pc = "attachments",
                          ![w].stored = IF sync[w].at \in rows THEN @ ELSE @ \cup {sync[w].at}]
  /\ UNCHANGED <<config, job, broker, rows, processed, docs, events, passed, dropped, abandoned, raced>>
  /\ SyncUnchanged

Made(w, f) == IF \E m \in Message : <<m, f>> \in sync[w].made THEN 1 ELSE 0

\* Documents of file f that sync w can see
Visible(w, f) == docs[f] + Made(w, f)

\* An attachment cannot be fetched, or is refused for its size, its type or a virus
Rejects(failed) == IF failed = {} THEN UNCHANGED events ELSE Happens

\* Documents of the attachments: the first of a file is the original, the others
\* are flagged.  An attachment that fails is logged and left out, and the look for
\* an original fails when there are two.
Ingest(w, failed) ==
  LET files  == Parts(sync[w].at)
      broken == failed \cup {f \in files : Visible(w, f) > 1}
      new    == {f \in files \ broken : Visible(w, f) = 0}
  IN
  /\ sync[w].pc = "attachments"
  /\ failed \subseteq files
  /\ Rejects(failed)
  /\ sync' = [sync EXCEPT ![w].pc = "each", ![w].made = @ \cup ({sync[w].at} \X new),
                          ![w].done = @ \cup {sync[w].at}]
  /\ dropped' = dropped \cup ({sync[w].at} \X broken)
  /\ raced' = raced \cup {f \in new : \E v \in Others(w), m \in Message :
                 <<m, f>> \in sync[v].made /\ (m # sync[w].at \/ m \in rows)}
  /\ UNCHANGED <<config, job, broker, rows, processed, docs, passed, abandoned>>
  /\ SyncUnchanged

\* The transaction of sync w, committed
Commit(w) ==
  /\ rows' = rows \cup sync[w].stored
  /\ processed' = processed \cup sync[w].done
  /\ docs' = [f \in File |-> docs[f] + Made(w, f)]

\* mutant: the cursor is where the mailbox is by now
FinishAhead(w) ==
  /\ sync[w].pc = "each" /\ sync[w].todo = {}
  /\ config' = [config EXCEPT !.cursor = inbox + 1]
  /\ Commit(w)
  /\ sync' = [sync EXCEPT ![w].pc = "done"]
  /\ UNCHANGED <<job, broker, events, passed, dropped, abandoned, raced>>
  /\ SyncUnchanged

\* update_cursor: to where the listing has ended, if it says so
Moved(w) == [config EXCEPT !.cursor = IF sync[w].cursor = None THEN @ ELSE sync[w].cursor]

\* The cursor moves, also backwards, and everything is committed
Finish(w) ==
  /\ sync[w].pc = "each" /\ sync[w].todo = {}
  /\ config' = Moved(w)
  /\ Commit(w)
  /\ sync' = [sync EXCEPT ![w].pc = "done"]
  /\ UNCHANGED <<job, broker, events, passed, dropped, abandoned, raced>>
  /\ SyncUnchanged

\* The task ends, with its job in the given state
End(w, status) ==
  /\ sync' = [sync EXCEPT ![w] = Idle]
  /\ job' = [job EXCEPT ![sync[w].job] = status]
  /\ broker' = broker \ {<<sync[w].job, sync[w].historical>>}

Complete(w) ==
  /\ sync[w].pc = "done"
  /\ End(w, "complete")
  /\ UNCHANGED <<config, rows, processed, docs, events, passed, dropped, abandoned, raced>>
  /\ SyncUnchanged

\* The provider refuses, with a renewed token too: Gmail a listing or a message,
\* Outlook a listing or the list of attachments of a message
GmailRefuses(w) ==
  /\ provider = "gmail"
  /\ sync[w].pc \in {"list", "profile"} \/ (sync[w].pc = "each" /\ sync[w].todo # {})
OutlookRefuses(w) == provider = "outlook" /\ sync[w].pc \in {"list", "attachments"}

\* Failing the job commits what the sync had done.
Fail(w) ==
  /\ Happens
  /\ GmailRefuses(w) \/ OutlookRefuses(w)
  /\ Commit(w)
  /\ abandoned' = abandoned \cup (sync[w].stored \ sync[w].done)
  /\ End(w, "failed")
  /\ UNCHANGED <<config, passed, dropped, raced>>
  /\ SyncUnchanged

\* Two syncs each wait for the other's row: the database ends one of them, and as its
\* job cannot be failed in the same session, it stays running
Deadlock(w) ==
  /\ \E v \in Others(w) :
       /\ sync[w].pc = "insert" /\ sync[w].at \in sync[v].stored
       /\ sync[v].pc = "insert" /\ sync[v].at \in sync[w].stored
  /\ End(w, "running")
  /\ UNCHANGED <<config, rows, processed, docs, events, passed, dropped, abandoned, raced>>
  /\ SyncUnchanged

\* So it does after any other database error
Break(w) ==
  /\ Happens
  /\ Syncing(w)
  /\ End(w, "running")
  /\ UNCHANGED <<config, rows, processed, docs, passed, dropped, abandoned, raced>>
  /\ SyncUnchanged

\* A worker is lost, and its message delivered again
WorkerLost(w) ==
  /\ Happens
  /\ sync[w] # Idle
  /\ sync' = [sync EXCEPT ![w] = Idle]
  /\ UNCHANGED <<config, job, broker, rows, processed, docs, passed, dropped, abandoned, raced>>
  /\ SyncUnchanged

-----------------------------------------------------------------------------
Step(w) ==
  \/ Start(w) \/ List(w) \/ Scan(w) \/ Profile(w) \/ Insert(w) \/ Ingest(w, {})
  \/ Finish(w) \/ Complete(w) \/ Deadlock(w)
  \/ \E m \in Message : Skip(w, m) \/ Take(w, m)

Next ==
  \/ Arrive \/ Purge \/ Disconnect \/ Connect
  \/ \E m \in Message : Remove(m)
  \/ \E j \in Job : Dispatch(j) \/ Request(j) \/ Unsent(j)
  \/ \E w \in Worker :
       \/ Step(w) \/ Fail(w) \/ Break(w) \/ WorkerLost(w)
       \/ \E failed \in (SUBSET File) \ {{}} : Ingest(w, failed)

\* The beat never stops, and neither do workers; an insert that waits for a row is next
\* when the row is free
Fairness ==
  /\ WF_vars(\E j \in Job : Dispatch(j))
  /\ \A w \in Worker : WF_vars(Step(w)) /\ SF_vars(Insert(w))

Spec == Init /\ [][Next]_vars /\ Fairness

-----------------------------------------------------------------------------
\* The cursor passes no message without a row, however two syncs, errors and lost
\* workers interleave, but for those a full scan leaves out (keywords, its limit,
\* arrivals between its list and the profile) and those gone or without attachments.
CursorCovers == \A m \in Message : m < config.cursor => m \in rows \cup passed

\* Every message with a row has documents of all its attachments: a row hides the
\* message from later syncs.  Not so attachments that failed (logged and dropped),
\* and rows abandoned by an Outlook sync that could not list them.
RowHasDocuments ==
  \A m \in rows \ abandoned : \A f \in Parts(m) :
    docs[f] > 0 \/ <<m, f>> \in dropped

\* A file is one document that is not flagged as a duplicate, whatever messages it
\* came with and how often a message was delivered or listed, but for two syncs that
\* met it in two messages at once, or in one whose row a third had left without it.
FileBookedOnce == \A f \in File \ raced : docs[f] <= 1

-----------------------------------------------------------------------------
(* The inductive invariant of the safety proofs *)

\* A job has one sync at a time, and the sync its message.
OneSyncPerJob ==
  \A w \in Worker : sync[w] # Idle =>
    /\ <<sync[w].job, sync[w].historical>> \in broker
    /\ \A v \in Worker \ {w} : sync[v] # Idle => sync[v].job # sync[w].job

\* A sync that ends now leaves the cursor where it may be: what lies before it has a
\* row, or is passed over, or is still on the sync's list.
ListCovers ==
  \A w \in Worker : sync[w].pc \in {"each", "insert", "attachments"} =>
    \A m \in Message : m < sync[w].cursor =>
      \/ m \in rows \cup passed \cup sync[w].stored \cup sync[w].todo
      \/ sync[w].pc = "insert" /\ m = sync[w].at

\* An uncommitted row is one sync's alone, the unique index sees to that; the message a
\* sync works on, and those it made documents of, have its row or a committed one.
RowsAreOnes ==
  \A w \in Worker : Syncing(w) =>
    /\ \A v \in Others(w) : sync[v].stored \cap sync[w].stored = {}
    /\ sync[w].pc = "attachments" => sync[w].at \in rows \cup sync[w].stored
    /\ \A p \in sync[w].made : p[1] \in rows \cup sync[w].stored

\* What a sync has stored, it has made documents of, or is about to.
StoredIsDone ==
  \A w \in Worker : Syncing(w) =>
    /\ sync[w].stored \subseteq
         sync[w].done \cup (IF sync[w].pc = "attachments" THEN {sync[w].at} ELSE {})
    /\ \A m \in sync[w].done : \A f \in Parts(m) :
         docs[f] > 0 \/ Made(w, f) = 1 \/ <<m, f>> \in dropped

\* A sync makes a document of a file that has none, and no other sync has one in hand.
MadeOnce ==
  \A f \in File \ raced : \A w \in Worker : Syncing(w) /\ Made(w, f) = 1 =>
    docs[f] = 0 /\ \A v \in Others(w) : Made(v, f) = 0

MailInv ==
  /\ TypeOK /\ OneSyncPerJob /\ ListCovers /\ RowsAreOnes /\ StoredIsDone /\ MadeOnce
  /\ CursorCovers /\ RowHasDocuments /\ FileBookedOnce

-----------------------------------------------------------------------------
(* Liveness *)

\* A message in a connected mailbox gets a row, or is one of those passed over
MailArrives ==
  \A m \in Message : m <= inbox ~> (m \in rows \cup passed \/ ~config.active)
=============================================================================
