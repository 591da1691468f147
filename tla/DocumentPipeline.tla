--------------------------- MODULE DocumentPipeline ---------------------------
(***************************************************************************)
(* The life of an uploaded invoice or receipt: the upload request, the OCR *)
(* task the broker delivers to a worker, the Expense row the task books,   *)
(* and the requests that reprocess, delete or edit what is already there.  *)
(*                                                                         *)
(* Every handler and every task runs in READ COMMITTED transactions of its *)
(* own.  docs and exps hold the committed rows; what a transaction has     *)
(* written and not committed is kept with its owner, a request (reqs) or a *)
(* task delivery (tasks), and so are the row locks it holds: a request     *)
(* locks the Expense rows of its DELETE, a task locks its Document row     *)
(* from update_extracted_data to its commit.  A step of the model ends at  *)
(* a commit, at a call to the broker, or between two reads and writes that *)
(* another transaction can come between.                                   *)
(*                                                                         *)
(* The documents of this module are not bank statements and name no        *)
(* PushOperations payment: those take paths of their own in the task.      *)
(***************************************************************************)
EXTENDS Naturals, FiniteSets

CONSTANTS
  Doc,            \* documents, one per upload (ids are never used twice)
  Exp,            \* Expense rows (ids are never used twice)
  Task,           \* messages on the ocr queue
  Req,            \* request handlers that can run at the same time
  SameBytes,      \* pairs of documents with one SHA-256 checksum
  SameInvoice,    \* pairs find_content_duplicate takes for one invoice
  NonExpense,     \* documents classified as a type that books no expense
  Ops,            \* the requests the clients of this instance send
  WorkerSlots,    \* worker processes (--concurrency)
  MaxWorkerLoss,  \* bound on lost workers
  Faults,         \* which of "broker", "api" and "ocr" may fail
  NoDoc, NoExp    \* the NULL references

AllOps == {"upload", "manual", "reprocess", "delete", "delete_all", "edit"}

ASSUME PipelineAssumption ==
  /\ SameBytes \subseteq Doc \X Doc
  /\ SameInvoice \subseteq Doc \X Doc
  /\ \A c, d \in Doc : <<c, d>> \in SameInvoice => <<d, c>> \in SameInvoice
  /\ NonExpense \subseteq Doc
  /\ NoDoc \notin Doc
  /\ NoExp \notin Exp
  /\ WorkerSlots \in Nat
  /\ MaxWorkerLoss \in Nat
  /\ Ops \subseteq AllOps

VARIABLES
  docs,     \* the documents table
  exps,     \* the expenses table
  tasks,    \* the ocr messages and the deliveries that run them
  reqs,     \* the requests being handled
  aiQueue,  \* expenses a categorize_expense message has been published for
  losses,   \* workers lost so far
  removed,  \* history: documents a user removed an expense row of
  raced     \* history: pairs of documents that were each found to have no duplicate before the
            \* other was committed

vars == <<docs, exps, tasks, reqs, aiQueue, losses, removed, raced>>

-----------------------------------------------------------------------------
Status == {"none", "pending", "ocr_processing", "extracted", "error", "gone"}

\* A task between these steps has its Document row locked.
LockPc == {"skip", "check", "flag", "lookup", "insert", "reuse", "backfill"}
RunPc  == LockPc \cup {"ocr", "dispatch"}
TaskPc == RunPc \cup {"free", "queued", "acked", "aborted"}
ReqPc  == {"idle", "upload_commit", "ai_enqueue",
           "reprocess_commit", "reprocess_enqueue", "delete_commit", "delete_all_commit"}

\* What an OCR run makes of the file: no total, the total alone, or the vendor,
\* the date and the total, which find_content_duplicate needs all three.
Reading == {"none", "total", "all"}

DocRow  == [status : Status, isDuplicate : BOOLEAN, duplicateOf : Doc \cup {NoDoc},
            extracted : BOOLEAN]
ExpRow  == [row : {"none", "live", "gone"}, doc : Doc \cup {NoDoc}, overridden : BOOLEAN,
            hasAmount : BOOLEAN, manual : BOOLEAN]
TaskRow == [pc : TaskPc, doc : Doc \cup {NoDoc}, read : Reading, dup : Doc \cup {NoDoc},
            exp : Exp \cup {NoExp}]
ReqRow  == [pc : ReqPc, targets : SUBSET Doc, rows : SUBSET Exp, dup : Doc \cup {NoDoc},
            exp : Exp \cup {NoExp}, manual : BOOLEAN]

TypeOK ==
  /\ docs \in [Doc -> DocRow]
  /\ exps \in [Exp -> ExpRow]
  /\ tasks \in [Task -> TaskRow]
  /\ reqs \in [Req -> ReqRow]
  /\ aiQueue \subseteq Exp
  /\ losses \in 0..MaxWorkerLoss
  /\ removed \subseteq Doc /\ raced \subseteq SameInvoice

FreeTask == [pc |-> "free", doc |-> NoDoc, read |-> "none", dup |-> NoDoc, exp |-> NoExp]
IdleReq  == [pc |-> "idle", targets |-> {}, rows |-> {}, dup |-> NoDoc, exp |-> NoExp,
             manual |-> FALSE]

Queued(d)               == [FreeTask EXCEPT !.pc = "queued", !.doc = d]
Uploading(d, c, manual) == [IdleReq EXCEPT !.pc = "upload_commit", !.targets = {d},
                                           !.dup = c, !.manual = manual]
Enqueueing(e)           == [IdleReq EXCEPT !.pc = "ai_enqueue", !.exp = e]
Deleting(pc, D, rows)   == [IdleReq EXCEPT !.pc = pc, !.targets = D, !.rows = rows]

Init ==
  /\ docs = [d \in Doc |-> [status |-> "none", isDuplicate |-> FALSE,
                            duplicateOf |-> NoDoc, extracted |-> FALSE]]
  /\ exps = [e \in Exp |-> [row |-> "none", doc |-> NoDoc, overridden |-> FALSE,
                            hasAmount |-> FALSE, manual |-> FALSE]]
  /\ tasks = [t \in Task |-> FreeTask]
  /\ reqs = [r \in Req |-> IdleReq]
  /\ aiQueue = {}
  /\ losses = 0
  /\ removed = {} /\ raced = {}

-----------------------------------------------------------------------------
Stored(d)  == docs[d].status \notin {"none", "gone"}
RowsOf(d)  == {e \in Exp : exps[e].row = "live" /\ exps[e].doc = d}

\* Row locks of the transactions that are open
DocFree(d) == \A t \in Task : ~(tasks[t].doc = d /\ tasks[t].pc \in LockPc)
RowFree(e) == \A r \in Req : e \notin reqs[r].rows

\* document_repo.find_duplicate: the stored originals with the checksum of d
ChecksumMatches(d) == {c \in Doc : Stored(c) /\ ~docs[c].isDuplicate /\ <<d, c>> \in SameBytes}

\* mutant: the query filters on the status instead of on the extracted data
ContentMatchesByStatus(d) ==
  {c \in Doc \ {d} : docs[c].status = "extracted" /\ ~docs[c].isDuplicate
                                                 /\ <<d, c>> \in SameInvoice}

\* document_repo.find_content_duplicate
ContentMatches(d) ==
  {c \in Doc \ {d} : Stored(c) /\ ~docs[c].isDuplicate /\ docs[c].extracted
                               /\ <<d, c>> \in SameInvoice}

\* process_document.delay
Publish(d) ==
  \E t \in Task : /\ tasks[t].pc = "free"
                  /\ tasks' = [tasks EXCEPT ![t] = Queued(d)]

Return(r) == reqs' = [reqs EXCEPT ![r] = IdleReq]
Ack(t)    == tasks' = [tasks EXCEPT ![t].pc = "acked"]
\* The transaction of t fails in the database: its writes are rolled back, the
\* handler of _process_async cannot record the error, the message is dropped.
Abort(t)  == tasks' = [tasks EXCEPT ![t].pc = "aborted"] /\ UNCHANGED docs

Drop(S)   == [e \in Exp |-> IF e \in S THEN [exps[e] EXCEPT !.row = "gone"] ELSE exps[e]]

-----------------------------------------------------------------------------
(* Requests *)

\* ingest_document, called by upload_document and create_manual_expense.  The
\* OCR message is published before the caller commits; a broker that cannot be
\* reached is logged and ignored.  Two originals with one checksum make
\* find_duplicate raise: the request fails and leaves nothing.
UploadBegin(r, d, manual) ==
  /\ reqs[r].pc = "idle"
  /\ docs[d].status = "none"
  /\ \A q \in Req : d \notin reqs[q].targets
  /\ IF manual THEN "manual" \in Ops ELSE "upload" \in Ops
  /\ \/ /\ Cardinality(ChecksumMatches(d)) = 1
        /\ \E c \in ChecksumMatches(d) :
             reqs' = [reqs EXCEPT ![r] = Uploading(d, c, manual)]
        /\ UNCHANGED tasks
     \/ /\ ChecksumMatches(d) = {}
        /\ reqs' = [reqs EXCEPT ![r] = Uploading(d, NoDoc, manual)]
        /\ Publish(d) \/ ("broker" \in Faults /\ UNCHANGED tasks)
  /\ UNCHANGED <<docs, exps, aiQueue, losses, removed, raced>>

NewRow(d, overridden, hasAmount, manual) ==
  [row |-> "live", doc |-> d, overridden |-> overridden, hasAmount |-> hasAmount,
   manual |-> manual]

\* The commit of the request: the document becomes visible, and with it the
\* expense the user typed in.  The original a duplicate points at may be gone
\* by now; the foreign key then refuses the row and the request fails.
UploadCommit(r) ==
  /\ reqs[r].pc = "upload_commit"
  /\ \E d \in reqs[r].targets : LET c == reqs[r].dup IN
       IF c # NoDoc /\ ~Stored(c)
       THEN /\ docs' = [docs EXCEPT ![d].status = "gone"]
            /\ Return(r)
            /\ UNCHANGED exps
       ELSE /\ docs' = [docs EXCEPT ![d] =
                 [status |-> IF c = NoDoc THEN "pending" ELSE "error",
                  isDuplicate |-> c # NoDoc, duplicateOf |-> c, extracted |-> FALSE]]
            /\ IF reqs[r].manual
               THEN \E e \in Exp, category \in BOOLEAN :
                      /\ exps[e].row = "none"
                      /\ exps' = [exps EXCEPT ![e] = NewRow(d, category, TRUE, TRUE)]
                      /\ reqs' = [reqs EXCEPT ![r] =
                                    IF category THEN IdleReq ELSE Enqueueing(e)]
               ELSE Return(r) /\ UNCHANGED exps
  /\ UNCHANGED <<tasks, aiQueue, losses, removed, raced>>

\* create_manual_expense without a receipt
CreateManualExpense(r) ==
  /\ reqs[r].pc = "idle"
  /\ "manual" \in Ops
  /\ \E e \in Exp, category \in BOOLEAN :
       /\ exps[e].row = "none"
       /\ exps' = [exps EXCEPT ![e] = NewRow(NoDoc, category, TRUE, TRUE)]
       /\ reqs' = [reqs EXCEPT ![r] = IF category THEN IdleReq ELSE Enqueueing(e)]
  /\ UNCHANGED <<docs, tasks, aiQueue, losses, removed, raced>>

\* create_manual_expense, after its commit: categorize_expense.apply_async
EnqueueCategorize(r) ==
  /\ reqs[r].pc = "ai_enqueue"
  /\ aiQueue' = aiQueue \cup {reqs[r].exp} \/ ("broker" \in Faults /\ UNCHANGED aiQueue)
  /\ Return(r)
  /\ UNCHANGED <<docs, exps, tasks, losses, removed, raced>>

\* mutant: the DELETE of reprocess forgets user_overridden.is_(False)
ReprocessBeginAllRows(r, d) ==
  /\ reqs[r].pc = "idle"
  /\ "reprocess" \in Ops
  /\ Stored(d)
  /\ \A e \in RowsOf(d) : RowFree(e)
  /\ reqs' = [reqs EXCEPT ![r] = Deleting("reprocess_commit", {d}, RowsOf(d))]
  /\ UNCHANGED <<docs, exps, tasks, aiQueue, losses, removed, raced>>

\* reprocess_document: the DELETE of the rows the user has not overridden
ReprocessBegin(r, d) ==
  /\ reqs[r].pc = "idle"
  /\ "reprocess" \in Ops
  /\ Stored(d)
  /\ LET rows == {e \in RowsOf(d) : ~exps[e].overridden} IN
       /\ \A e \in rows : RowFree(e)
       /\ reqs' = [reqs EXCEPT ![r] = Deleting("reprocess_commit", {d}, rows)]
  /\ UNCHANGED <<docs, exps, tasks, aiQueue, losses, removed, raced>>

\* mutant: reprocess deletes the rows and leaves the status as it was
ReprocessCommitNoReset(r) ==
  /\ reqs[r].pc = "reprocess_commit"
  /\ \A d \in reqs[r].targets : DocFree(d)
  /\ exps' = Drop(reqs[r].rows)
  /\ reqs' = [reqs EXCEPT ![r].pc = "reprocess_enqueue", ![r].rows = {}]
  /\ UNCHANGED <<docs, tasks, aiQueue, losses, removed, raced>>

\* ... the status update, which waits for the lock of the row, and the commit
ReprocessCommit(r) ==
  /\ reqs[r].pc = "reprocess_commit"
  /\ \E d \in reqs[r].targets :
       /\ DocFree(d)
       /\ docs' = IF Stored(d) THEN [docs EXCEPT ![d].status = "pending"] ELSE docs
  /\ exps' = Drop(reqs[r].rows)
  /\ reqs' = [reqs EXCEPT ![r].pc = "reprocess_enqueue", ![r].rows = {}]
  /\ UNCHANGED <<tasks, aiQueue, losses, removed, raced>>

\* ... and the message, after the commit
ReprocessEnqueue(r) ==
  /\ reqs[r].pc = "reprocess_enqueue"
  /\ \/ \E d \in reqs[r].targets : Publish(d)
     \/ "broker" \in Faults /\ UNCHANGED tasks
  /\ Return(r)
  /\ UNCHANGED <<docs, exps, aiQueue, losses, removed, raced>>

\* delete_document and delete_all_documents: the DELETE of the expense rows
DeleteBegin(r, D, pc) ==
  /\ reqs[r].pc = "idle"
  /\ D # {}
  /\ LET rows == UNION {RowsOf(d) : d \in D} IN
       /\ \A e \in rows : RowFree(e)
       /\ reqs' = [reqs EXCEPT ![r] = Deleting(pc, D, rows)]
  /\ UNCHANGED <<docs, exps, tasks, aiQueue, losses, removed, raced>>

DeleteOneBegin(r, d) ==
  "delete" \in Ops /\ Stored(d) /\ DeleteBegin(r, {d}, "delete_commit")
DeleteAllBegin(r) ==
  "delete_all" \in Ops /\ DeleteBegin(r, {d \in Doc : Stored(d)}, "delete_all_commit")

\* ... and the DELETE of the documents, with the foreign keys' ON DELETE SET
\* NULL, and the commit.  delete_all deletes what is stored by then.
DeleteCommit(r) ==
  /\ reqs[r].pc \in {"delete_commit", "delete_all_commit"}
  /\ LET D == IF reqs[r].pc = "delete_commit" THEN reqs[r].targets
              ELSE {d \in Doc : Stored(d)} IN
       /\ \A d \in D : DocFree(d)
       /\ \A e \in (UNION {RowsOf(d) : d \in D}) \ reqs[r].rows : RowFree(e)
       /\ docs' = [d \in Doc |->
            IF d \in D THEN [docs[d] EXCEPT !.status = "gone"]
            ELSE IF docs[d].duplicateOf \in D THEN [docs[d] EXCEPT !.duplicateOf = NoDoc]
            ELSE docs[d]]
       /\ exps' = [e \in Exp |->
            IF e \in reqs[r].rows THEN [exps[e] EXCEPT !.row = "gone"]
            ELSE IF exps[e].doc \in D THEN [exps[e] EXCEPT !.doc = NoDoc]
            ELSE exps[e]]
  /\ Return(r)
  /\ UNCHANGED <<tasks, aiQueue, losses, removed, raced>>

\* A request that dies (a lost API process, a refused statement): the open
\* transaction is rolled back; a document it was inserting never existed.
ApiCrash(r) ==
  /\ "api" \in Faults
  /\ reqs[r].pc # "idle"
  /\ docs' = IF reqs[r].pc = "upload_commit"
             THEN [d \in Doc |-> IF d \in reqs[r].targets
                                 THEN [docs[d] EXCEPT !.status = "gone"] ELSE docs[d]]
             ELSE docs
  /\ Return(r)
  /\ UNCHANGED <<exps, tasks, aiQueue, losses, removed, raced>>

\* override_category
OverrideCategory(e) ==
  /\ "edit" \in Ops
  /\ exps[e].row = "live" /\ RowFree(e) /\ ~exps[e].overridden
  /\ exps' = [exps EXCEPT ![e].overridden = TRUE]
  /\ UNCHANGED <<docs, tasks, reqs, aiQueue, losses, removed, raced>>

\* delete_expense removes one row, purge_expenses_in_range any set of them
RemoveExpenses(S) ==
  /\ "edit" \in Ops
  /\ S # {} /\ \A e \in S : exps[e].row = "live" /\ RowFree(e)
  /\ exps' = Drop(S)
  /\ removed' = removed \cup ({exps[e].doc : e \in S} \ {NoDoc})
  /\ UNCHANGED <<docs, tasks, reqs, aiQueue, losses, raced>>

-----------------------------------------------------------------------------
(* Deliveries of process_document *)

\* A worker takes the message.  An id that is not stored ends the task; else
\* the status is committed at once and the file goes to the OCR service.
OcrStart(t) ==
  /\ tasks[t].pc = "queued"
  /\ Cardinality({u \in Task : tasks[u].pc \in RunPc}) < WorkerSlots
  /\ LET d == tasks[t].doc IN
       IF Stored(d)
       THEN /\ DocFree(d)
            /\ docs' = [docs EXCEPT ![d].status = "ocr_processing"]
            /\ tasks' = [tasks EXCEPT ![t].pc = "ocr"]
       ELSE Ack(t) /\ UNCHANGED docs
  /\ UNCHANGED <<exps, reqs, aiQueue, losses, removed, raced>>

\* The OCR service answers.  save_ocr_result and update_extracted_data write to
\* the document: the first fails if it is gone.
OcrExtract(t, read) ==
  /\ tasks[t].pc = "ocr"
  /\ LET d == tasks[t].doc IN
       IF Stored(d)
       THEN /\ DocFree(d)
            /\ tasks' = [tasks EXCEPT ![t].read = read,
                           ![t].pc = IF d \in NonExpense THEN "skip"
                                     ELSE IF read = "all" THEN "check" ELSE "lookup"]
            /\ UNCHANGED docs
       ELSE Abort(t)
  /\ UNCHANGED <<exps, reqs, aiQueue, losses, removed, raced>>

\* The document of t as the commit of t leaves it
CommitDoc(t, status) ==
  docs' = [docs EXCEPT ![tasks[t].doc].status = status,
                       ![tasks[t].doc].extracted = tasks[t].read = "all"]

\* A type that books no expense: the task ends with the extracted data stored.
OcrSkip(t) ==
  /\ tasks[t].pc = "skip"
  /\ CommitDoc(t, "extracted")
  /\ Ack(t)
  /\ UNCHANGED <<exps, reqs, aiQueue, losses, removed, raced>>

\* A delivery that has found no duplicate of its document, and has not committed
Original(t) == tasks[t].pc \in {"lookup", "insert", "reuse", "backfill"} /\ tasks[t].read = "all"

\* Pairs of d and a document of which another delivery has just found the same
Racing(d) ==
  {p \in SameInvoice : \E u \in Task :
     Original(u) /\ p \in {<<d, tasks[u].doc>>, <<tasks[u].doc, d>>}}

\* find_content_duplicate reads what other transactions have committed ...
OcrCheckDuplicate(t) ==
  /\ tasks[t].pc = "check"
  /\ LET matches == ContentMatches(tasks[t].doc) IN
       \/ /\ matches = {}
          /\ tasks' = [tasks EXCEPT ![t].pc = "lookup"]
          /\ raced' = raced \cup Racing(tasks[t].doc)
       \/ /\ \E c \in matches : tasks' = [tasks EXCEPT ![t].pc = "flag", ![t].dup = c]
          /\ UNCHANGED raced
  /\ UNCHANGED <<docs, exps, reqs, aiQueue, losses, removed>>

\* mutant: mark_duplicate leaves the status as it is
OcrFlagDuplicateKeepsStatus(t) ==
  /\ tasks[t].pc = "flag"
  /\ Stored(tasks[t].dup)
  /\ docs' = [docs EXCEPT ![tasks[t].doc].isDuplicate = TRUE, ![tasks[t].doc].extracted = TRUE,
                          ![tasks[t].doc].duplicateOf = tasks[t].dup]
  /\ Ack(t)
  /\ UNCHANGED <<exps, reqs, aiQueue, losses, removed, raced>>

\* ... and mark_duplicate points at the match, if it has not been deleted since.
OcrFlagDuplicate(t) ==
  /\ tasks[t].pc = "flag"
  /\ LET d == tasks[t].doc  c == tasks[t].dup IN
       IF Stored(c)
       THEN /\ docs' = [docs EXCEPT ![d] = [status |-> "error", isDuplicate |-> TRUE,
                                            duplicateOf |-> c, extracted |-> TRUE]]
            /\ Ack(t)
       ELSE Abort(t)
  /\ UNCHANGED <<exps, reqs, aiQueue, losses, removed, raced>>

\* mutant: the expense is created without looking for one of the document
OcrLookupNothing(t) ==
  /\ tasks[t].pc = "lookup"
  /\ tasks' = [tasks EXCEPT ![t].pc = "insert"]
  /\ UNCHANGED <<docs, exps, reqs, aiQueue, losses, removed, raced>>

\* get_by_document: no row, one row, or an exception.  The exception leaves the
\* session usable, so the handler commits the error with what was written.
OcrLookupExpense(t) ==
  /\ tasks[t].pc = "lookup"
  /\ LET rows == RowsOf(tasks[t].doc) IN
       \/ /\ rows = {}
          /\ tasks' = [tasks EXCEPT ![t].pc = "insert"]
          /\ UNCHANGED docs
       \/ /\ Cardinality(rows) = 1
          /\ \E e \in rows : tasks' = [tasks EXCEPT ![t].exp = e,
                ![t].pc = IF exps[e].hasAmount THEN "reuse" ELSE "backfill"]
          /\ UNCHANGED docs
       \/ /\ Cardinality(rows) > 1
          /\ CommitDoc(t, "error")
          /\ Ack(t)
  /\ UNCHANGED <<exps, reqs, aiQueue, losses, removed, raced>>

\* create_from_document and the commit
OcrInsertExpense(t) ==
  /\ tasks[t].pc = "insert"
  /\ \E e \in Exp :
       /\ exps[e].row = "none"
       /\ exps' = [exps EXCEPT ![e] = NewRow(tasks[t].doc, FALSE, tasks[t].read # "none", FALSE)]
       /\ tasks' = [tasks EXCEPT ![t].pc = "dispatch", ![t].exp = e]
  /\ CommitDoc(t, "extracted")
  /\ UNCHANGED <<reqs, aiQueue, losses, removed, raced>>

\* A row with an amount is left as it is.
OcrReuseExpense(t) ==
  /\ tasks[t].pc = "reuse"
  /\ CommitDoc(t, "extracted")
  /\ tasks' = [tasks EXCEPT ![t].pc = "dispatch"]
  /\ UNCHANGED <<exps, reqs, aiQueue, losses, removed, raced>>

\* update_from_ocr, once the row is not locked by a request.  A row deleted in
\* the meantime is not found, or is missed by the UPDATE, which breaks the
\* session.
OcrBackfillExpense(t) ==
  /\ tasks[t].pc = "backfill"
  /\ LET e == tasks[t].exp IN
       IF exps[e].row = "live"
       THEN /\ RowFree(e)
            /\ exps' = [exps EXCEPT ![e].hasAmount = tasks[t].read # "none"]
            /\ CommitDoc(t, "extracted")
            /\ tasks' = [tasks EXCEPT ![t].pc = "dispatch"]
       ELSE /\ (CommitDoc(t, "error") /\ Ack(t)) \/ Abort(t)
            /\ UNCHANGED exps
  /\ UNCHANGED <<reqs, aiQueue, losses, removed, raced>>

\* categorize_expense.apply_async, after the commit.  A broker that cannot be
\* reached is an exception of the task.
OcrDispatch(t) ==
  /\ tasks[t].pc = "dispatch"
  /\ \/ aiQueue' = aiQueue \cup {tasks[t].exp} /\ UNCHANGED docs
     \/ /\ "broker" \in Faults
        /\ DocFree(tasks[t].doc)
        /\ docs' = IF Stored(tasks[t].doc)
                   THEN [docs EXCEPT ![tasks[t].doc].status = "error"] ELSE docs
        /\ UNCHANGED aiQueue
  /\ Ack(t)
  /\ UNCHANGED <<exps, reqs, losses, removed, raced>>

\* The download or the OCR service raises: the error status is committed.
OcrFail(t) ==
  /\ "ocr" \in Faults
  /\ tasks[t].pc = "ocr"
  /\ DocFree(tasks[t].doc)
  /\ docs' = IF Stored(tasks[t].doc)
             THEN [docs EXCEPT ![tasks[t].doc].status = "error"] ELSE docs
  /\ Ack(t)
  /\ UNCHANGED <<exps, reqs, aiQueue, losses, removed, raced>>

\* mutant: the message is acknowledged when it is taken, not when it is done
WorkerLostEarlyAck(t) ==
  /\ tasks[t].pc \in RunPc
  /\ losses < MaxWorkerLoss
  /\ losses' = losses + 1
  /\ Ack(t)
  /\ UNCHANGED <<docs, exps, reqs, aiQueue, removed, raced>>

\* task_acks_late and task_reject_on_worker_lost: the worker dies, the open
\* transaction is rolled back, the broker delivers the message again.
WorkerLost(t) ==
  /\ tasks[t].pc \in RunPc
  /\ losses < MaxWorkerLoss
  /\ losses' = losses + 1
  /\ tasks' = [tasks EXCEPT ![t] = Queued(tasks[t].doc)]
  /\ UNCHANGED <<docs, exps, reqs, aiQueue, removed, raced>>

\* A task waits for a row of a request that waits for the document of the task:
\* PostgreSQL ends one of the two transactions.
WaitForEachOther(t, r) ==
  /\ tasks[t].pc = "backfill" /\ tasks[t].exp \in reqs[r].rows
  /\ tasks[t].doc \in reqs[r].targets
DeadlockVictim(t, r) ==
  /\ WaitForEachOther(t, r)
  /\ (Abort(t) /\ UNCHANGED reqs) \/ (Return(r) /\ UNCHANGED <<docs, tasks>>)
  /\ UNCHANGED <<exps, aiQueue, losses, removed, raced>>

-----------------------------------------------------------------------------
RequestStep(r) ==
  \/ \E d \in Doc : \/ \E manual \in BOOLEAN : UploadBegin(r, d, manual)
                    \/ ReprocessBegin(r, d)
                    \/ DeleteOneBegin(r, d)
  \/ CreateManualExpense(r) \/ DeleteAllBegin(r) \/ ApiCrash(r)

\* Once begun, a request runs to its end.
RequestContinues(r) ==
  \/ UploadCommit(r) \/ EnqueueCategorize(r)
  \/ ReprocessCommit(r) \/ ReprocessEnqueue(r) \/ DeleteCommit(r)

OcrStep(t) ==
  \/ OcrStart(t) \/ (\E read \in Reading : OcrExtract(t, read)) \/ OcrSkip(t)
  \/ OcrCheckDuplicate(t) \/ OcrFlagDuplicate(t) \/ OcrLookupExpense(t)
  \/ OcrInsertExpense(t) \/ OcrReuseExpense(t) \/ OcrBackfillExpense(t) \/ OcrDispatch(t)

UserEdit == (\E e \in Exp : OverrideCategory(e)) \/ (\E S \in SUBSET Exp : RemoveExpenses(S))

Next ==
  \/ \E r \in Req : RequestStep(r) \/ RequestContinues(r)
  \/ UserEdit
  \/ \E t \in Task : \/ OcrStep(t) \/ OcrFail(t) \/ WorkerLost(t)
                     \/ \E r \in Req : DeadlockVictim(t, r)

Spec == Init /\ [][Next]_vars

\* Workers keep taking and running messages, API processes finish what they
\* began, PostgreSQL resolves deadlocks.  Fairness is strong where a step waits
\* for a row lock: the lock is granted to its waiters in order of arrival, so a
\* client that repeats a request cannot keep it from a task for ever.  Nothing
\* makes a client send a request or a component fail.
Fairness ==
  /\ \A t \in Task : SF_vars(OcrStep(t))
  /\ \A r \in Req : SF_vars(RequestContinues(r))
  /\ \A t \in Task, r \in Req : WF_vars(DeadlockVictim(t, r))

FairSpec == Spec /\ Fairness

-----------------------------------------------------------------------------
(* Safety *)

\* However reprocess requests, redeliveries and two workers interleave, a
\* document never has two expense rows: the lock update_extracted_data takes
\* orders the get_by_document of one delivery after the commit of the other.
\* With two rows get_by_document raises and no later run of the task succeeds.
OneExpensePerDocument ==
  \A e, f \in Exp :
    exps[e].row = "live" /\ exps[f].row = "live" /\ exps[e].doc = exps[f].doc
      /\ exps[e].doc # NoDoc => e = f

\* A document shown as extracted and not flagged has its expense in the books,
\* unless a user took the row out: no interleaving of a task with a reprocess
\* leaves the document "extracted" and the purchase out of the P&L.
ExtractedIsBooked ==
  \A d \in Doc \ (NonExpense \cup removed) :
    docs[d].status = "extracted" /\ ~docs[d].isDuplicate => RowsOf(d) # {}

\* A delivery that has yet to commit what the OCR made of its document, or that
\* the database has aborted
Undecided(t) == tasks[t].pc \in LockPc \cup {"ocr", "queued", "aborted"}

\* A document in "ocr_processing" has a delivery that will move it on, or one
\* the database has aborted: a lost worker alone never strands a document.
ProcessingHasDelivery ==
  \A d \in Doc : docs[d].status = "ocr_processing" =>
    \E t \in Task : tasks[t].doc = d /\ Undecided(t)

\* Of two stored documents find_content_duplicate takes for one invoice, both
\* with their data extracted, one is flagged: the purchase counts once, unless
\* two deliveries looked for a duplicate before either had committed.
InvoiceCountedOnce ==
  \A c, d \in Doc \ NonExpense :
    <<c, d>> \in SameInvoice \ raced /\ c # d /\ Stored(c) /\ Stored(d)
      /\ docs[c].extracted /\ docs[d].extracted
      => docs[c].isDuplicate \/ docs[d].isDuplicate

\* A row the user has overridden leaves the table only with its document or by
\* the user's own hand; reprocessing, which deletes the others, keeps it.
OverriddenRowKept ==
  [][\A e \in Exp :
       exps[e].row = "live" /\ exps[e].overridden /\ exps'[e].row = "gone"
         => \/ exps[e].doc # NoDoc /\ docs'[exps[e].doc].status = "gone"
            \/ UserEdit]_vars

-----------------------------------------------------------------------------
(* The inductive invariant of the safety proofs *)

\* The expense a categorize_expense message is about to be sent for, or that
\* get_by_document found, is a row that was made.
ExpenseKnown ==
  /\ \A r \in Req : reqs[r].pc = "ai_enqueue" => reqs[r].exp \in Exp
  /\ \A t \in Task : tasks[t].pc \in {"reuse", "backfill", "dispatch"} => tasks[t].exp \in Exp

TypeInv == TypeOK /\ ExpenseKnown

\* update_extracted_data: one delivery at a time past the lock of a document,
\* which cannot be deleted under it
LocksHeld ==
  /\ \A t \in Task : tasks[t].pc \in LockPc => tasks[t].doc \in Doc /\ Stored(tasks[t].doc)
  /\ \A t, u \in Task :
       tasks[t].pc \in LockPc /\ tasks[u].pc \in LockPc /\ tasks[t].doc = tasks[u].doc => t = u

\* What a request works on: an upload alone knows its document until it commits;
\* a reprocess request has one document
TargetsKnown ==
  \A r \in Req :
    /\ \A d \in reqs[r].targets :
         IF docs[d].status = "none"
         THEN reqs[r].pc = "upload_commit" /\ \A q \in Req : d \in reqs[q].targets => q = r
         ELSE reqs[r].pc # "upload_commit"
    /\ reqs[r].pc = "reprocess_commit" => \E d \in Doc : reqs[r].targets = {d}

\* The rows a request has locked are rows of its documents, and its alone.
RowsLocked ==
  \A r \in Req : \A e \in reqs[r].rows :
    /\ exps[e].row = "live" /\ exps[e].doc \in reqs[r].targets
    /\ reqs[r].pc \in {"reprocess_commit", "delete_commit", "delete_all_commit"}
    /\ \A q \in Req : e \in reqs[q].rows => q = r

NewHasNoRows == \A d \in Doc : docs[d].status = "none" => RowsOf(d) = {}

\* What get_by_document found is still so while the delivery has the lock: no row,
\* or one that only a user can have removed
LookupStands ==
  \A t \in Task :
    /\ tasks[t].pc = "skip" => tasks[t].doc \in NonExpense
    /\ tasks[t].pc = "insert" => RowsOf(tasks[t].doc) = {}
    /\ tasks[t].pc \in {"reuse", "backfill"} =>
         /\ exps[tasks[t].exp].doc = tasks[t].doc
         /\ \/ exps[tasks[t].exp].row = "live"
            \/ exps[tasks[t].exp].row = "gone" /\ tasks[t].doc \in removed

\* The state of the books and of the locks behind OneExpensePerDocument and
\* ExtractedIsBooked, preserved by every step
BooksInv ==
  /\ TypeInv /\ LocksHeld /\ TargetsKnown /\ RowsLocked /\ NewHasNoRows /\ LookupStands
  /\ OneExpensePerDocument /\ ExtractedIsBooked

\* A document that stands for its invoice, or that a delivery is about to make so
Claims(d) ==
  /\ Stored(d) /\ ~docs[d].isDuplicate
  /\ docs[d].extracted \/ \E t \in Task : Original(t) /\ tasks[t].doc = d

\* Behind InvoiceCountedOnce: the document of a delivery past the check counts already.
OneClaim ==
  \A c, d \in Doc \ NonExpense :
    <<c, d>> \in SameInvoice \ raced /\ c # d => ~(Claims(c) /\ Claims(d))

-----------------------------------------------------------------------------
(* Liveness, under FairSpec *)

\* An expense a delivery has booked gets its categorize_expense message, even
\* if the worker dies between the commit and the call, unless the row or its
\* document goes, or a delivery for the document ends in an error.
BookedIsCategorized ==
  \A e \in Exp :
    (\E t \in Task : tasks[t].pc = "dispatch" /\ tasks[t].exp = e) ~>
      \/ e \in aiQueue
      \/ exps[e].row = "gone" \/ exps[e].doc = NoDoc
      \/ docs[exps[e].doc].status = "error"
      \/ \E t \in Task : tasks[t].doc = exps[e].doc /\ tasks[t].pc = "aborted"

-----------------------------------------------------------------------------
(* What the repository says and the code does not do *)

\* expenses.py:62-63: a receipt "gets OCR'd and AI-categorized like any other
\* upload".  A stored document waiting for OCR has a message on the way.
PendingHasMessage ==
  \A d \in Doc : docs[d].status = "pending" =>
    \/ \E t \in Task : tasks[t].doc = d /\ tasks[t].pc \notin {"acked", "aborted"}
    \/ \E r \in Req : d \in reqs[r].targets

=============================================================================
