------------------------ MODULE DocumentPipelineProofs ------------------------
(***************************************************************************)
(* Proofs about DocumentPipeline for any documents, expense rows, messages *)
(* and requests, any number of workers and any faults.                     *)
(***************************************************************************)
EXTENDS DocumentPipeline, TLAPS

-----------------------------------------------------------------------------
(* Types *)

\* The records the actions write
LEMMA Records ==
  /\ IdleReq \in ReqRow
  /\ FreeTask \in TaskRow
  /\ \A d \in Doc \cup {NoDoc} : Queued(d) \in TaskRow
  /\ \A d \in Doc, c \in Doc \cup {NoDoc}, m \in BOOLEAN : Uploading(d, c, m) \in ReqRow
  /\ \A e \in Exp : Enqueueing(e) \in ReqRow
  /\ \A pc \in ReqPc, D \in SUBSET Doc, S \in SUBSET Exp : Deleting(pc, D, S) \in ReqRow
  /\ \A d \in Doc, o, h, m \in BOOLEAN : NewRow(d, o, h, m) \in ExpRow
  /\ \A o, h, m \in BOOLEAN : NewRow(NoDoc, o, h, m) \in ExpRow
BY DEF IdleReq, FreeTask, Queued, Uploading, Enqueueing, Deleting, NewRow, ReqRow, TaskRow, ExpRow,
       ReqPc, TaskPc, RunPc, LockPc, Reading

\* A published message is a well-typed one.
LEMMA PublishTypes ==
  ASSUME TypeOK, NEW d \in Doc, Publish(d)
  PROVE  tasks' \in [Task -> TaskRow]
BY Records DEF TypeOK, Publish

\* Removing rows keeps the table well typed.
LEMMA DropTypes ==
  ASSUME TypeOK, NEW S
  PROVE  Drop(S) \in [Exp -> ExpRow]
BY DEF TypeOK, Drop, ExpRow

\* The requests keep the tables, the messages and the requests well typed.
LEMMA RequestTypes ==
  ASSUME TypeInv, NEW r \in Req, RequestStep(r) \/ RequestContinues(r)
  PROVE  TypeOK'
<1> TypeOK  BY DEF TypeInv
<1>1. ASSUME NEW d \in Doc, NEW manual \in BOOLEAN, UploadBegin(r, d, manual) PROVE TypeOK'
  <2>1. reqs' \in [Req -> ReqRow]
    <3>1. PICK c \in Doc \cup {NoDoc} : reqs' = [reqs EXCEPT ![r] = Uploading(d, c, manual)]
      BY <1>1 DEF UploadBegin, ChecksumMatches
    <3>2. Uploading(d, c, manual) \in ReqRow
      BY Records
    <3> QED  BY <3>1, <3>2 DEF TypeOK
  <2>2. tasks' \in [Task -> TaskRow]
    BY <1>1, PublishTypes DEF TypeOK, UploadBegin
  <2> QED  BY <1>1, <2>1, <2>2 DEF TypeOK, UploadBegin
<1>2. ASSUME NEW d \in Doc, ReprocessBegin(r, d) PROVE TypeOK'
  <2>1. reqs' \in [Req -> ReqRow]
    BY <1>2, Records DEF TypeOK, ReprocessBegin, ReqPc, RowsOf
  <2> QED  BY <1>2, <2>1 DEF TypeOK, ReprocessBegin
<1>3. ASSUME NEW D \in SUBSET Doc, NEW pc \in {"delete_commit", "delete_all_commit"},
             DeleteBegin(r, D, pc) PROVE TypeOK'
  <2>1. reqs' \in [Req -> ReqRow]
    BY <1>3, Records DEF TypeOK, DeleteBegin, ReqPc, RowsOf
  <2> QED  BY <1>3, <2>1 DEF TypeOK, DeleteBegin
<1>4. CASE CreateManualExpense(r)
  <2>1. exps' \in [Exp -> ExpRow]
    BY <1>4, Records DEF TypeOK, CreateManualExpense
  <2>2. reqs' \in [Req -> ReqRow]
    <3>1. PICK q \in ReqRow : reqs' = [reqs EXCEPT ![r] = q]
      BY <1>4, Records DEF CreateManualExpense
    <3> QED  BY <3>1 DEF TypeOK
  <2> QED  BY <1>4, <2>1, <2>2 DEF TypeOK, CreateManualExpense
<1>6. CASE ApiCrash(r)
  <2>1. reqs' \in [Req -> ReqRow]
    BY <1>6, Records DEF TypeOK, ApiCrash, Return
  <2>2. docs' \in [Doc -> DocRow]
    BY <1>6 DEF TypeOK, ApiCrash, DocRow, Status
  <2> QED  BY <1>6, <2>1, <2>2 DEF TypeOK, ApiCrash
<1>7. CASE UploadCommit(r)
  <2>1. reqs' \in [Req -> ReqRow]
    <3>1. PICK q \in ReqRow : reqs' = [reqs EXCEPT ![r] = q]
      BY <1>7, Records DEF UploadCommit, Return
    <3> QED  BY <3>1 DEF TypeOK
  <2>2. docs' \in [Doc -> DocRow]
    <3>1. reqs[r] \in ReqRow
      BY DEF TypeOK
    <3>2. PICK d \in Doc : \/ docs' = [docs EXCEPT ![d].status = "gone"]
                          \/ \E x \in DocRow : docs' = [docs EXCEPT ![d] = x]
      BY <1>7, <3>1 DEF UploadCommit, ReqRow, DocRow, Status
    <3> QED  BY <3>2 DEF TypeOK, DocRow, Status
  <2>3. exps' \in [Exp -> ExpRow]
    <3> PICK d \in Doc : d \in reqs[r].targets
         /\ \/ UNCHANGED exps
            \/ \E e \in Exp, category \in BOOLEAN :
                 exps' = [exps EXCEPT ![e] = NewRow(d, category, TRUE, TRUE)]
      BY <1>7 DEF UploadCommit, TypeOK, ReqRow
    <3> QED  BY Records DEF TypeOK
  <2> QED  BY <1>7, <2>1, <2>2, <2>3 DEF TypeOK, UploadCommit
<1>8. CASE EnqueueCategorize(r)
  <2>1. reqs[r].pc = "ai_enqueue" /\ UNCHANGED <<docs, exps, tasks, losses, removed, raced>>
        /\ reqs' = [reqs EXCEPT ![r] = IdleReq]
    BY <1>8 DEF EnqueueCategorize, Return
  <2>2. reqs[r].exp \in Exp
    BY <2>1 DEF TypeInv, ExpenseKnown
  <2>3. aiQueue' \subseteq Exp
    BY <1>8, <2>2 DEF EnqueueCategorize, TypeOK
  <2> QED  BY <2>1, <2>3, Records DEF TypeOK
<1>9. CASE ReprocessCommit(r)
  <2>1. reqs' \in [Req -> ReqRow]
    <3>1. [reqs[r] EXCEPT !.pc = "reprocess_enqueue", !.rows = {}] \in ReqRow
      BY DEF TypeOK, ReqRow, ReqPc
    <3> QED  BY <1>9, <3>1 DEF TypeOK, ReprocessCommit
  <2>2. docs' \in [Doc -> DocRow]
    <3>1. PICK d : docs' = [docs EXCEPT ![d].status = "pending"] \/ docs' = docs
      BY <1>9 DEF ReprocessCommit
    <3> QED  BY <3>1 DEF TypeOK, DocRow, Status
  <2> QED  BY <1>9, <2>1, <2>2, DropTypes DEF TypeOK, ReprocessCommit
<1>10. CASE ReprocessEnqueue(r)
  <2>1. tasks' \in [Task -> TaskRow]
    BY <1>10, PublishTypes DEF TypeOK, ReqRow, ReprocessEnqueue
  <2> QED  BY <1>10, <2>1, Records DEF TypeOK, ReprocessEnqueue, Return
<1>11. CASE DeleteCommit(r)
  <2>1. docs' \in [Doc -> DocRow]
    BY <1>11 DEF TypeOK, DeleteCommit, DocRow, Status
  <2>2. exps' \in [Exp -> ExpRow]
    BY <1>11 DEF TypeOK, DeleteCommit, ExpRow
  <2> QED  BY <1>11, <2>1, <2>2, Records DEF TypeOK, DeleteCommit, Return
<1> QED  BY <1>1, <1>2, <1>3, <1>4, <1>6, <1>7, <1>8, <1>9, <1>10, <1>11
            DEF RequestStep, RequestContinues, DeleteOneBegin, DeleteAllBegin

\* The steps of a delivery keep the types.
LEMMA OcrTypes ==
  ASSUME TypeInv, NEW t \in Task,
         OcrStep(t) \/ OcrFail(t) \/ WorkerLost(t) \/ \E r \in Req : DeadlockVictim(t, r)
  PROVE  TypeOK'
<1>0. TypeOK
  BY DEF TypeInv
<1>d. docs \in [Doc -> DocRow]
  BY <1>0 DEF TypeOK
<1>e. exps \in [Exp -> ExpRow]
  BY <1>0 DEF TypeOK
<1>t. tasks \in [Task -> TaskRow]
  BY <1>0 DEF TypeOK
<1>r. reqs \in [Req -> ReqRow]
  BY <1>0 DEF TypeOK
<1>c. ASSUME NEW status \in Status, CommitDoc(t, status) PROVE docs' \in [Doc -> DocRow]
  <2> DEFINE extracted == tasks[t].read = "all"
  <2>1. docs' = [docs EXCEPT ![tasks[t].doc].status = status,
                             ![tasks[t].doc].extracted = extracted]
    BY <1>c DEF CommitDoc
  <2>2. extracted \in BOOLEAN
    OBVIOUS
  <2> HIDE DEF extracted
  <2> QED  BY <1>d, <2>1, <2>2 DEF DocRow
<1>1. CASE OcrStart(t)
  <2>1. docs' \in [Doc -> DocRow]
    BY <1>1, <1>d DEF OcrStart, DocRow, Status
  <2>2. tasks' \in [Task -> TaskRow]
    BY <1>1, <1>t DEF OcrStart, Ack, TaskRow, TaskPc, RunPc, LockPc
  <2> QED  BY <1>0, <1>1, <2>1, <2>2 DEF OcrStart, TypeOK
<1>2. ASSUME NEW read \in Reading, OcrExtract(t, read) PROVE TypeOK'
  <2>1. docs' \in [Doc -> DocRow]
    BY <1>2, <1>d, <1>t DEF OcrExtract, Abort, DocRow, Status
  <2>2. tasks' \in [Task -> TaskRow]
    BY <1>2, <1>t DEF OcrExtract, Abort, TaskRow, TaskPc, RunPc, LockPc
  <2> QED  BY <1>0, <1>2, <2>1, <2>2 DEF OcrExtract, TypeOK
<1>3. CASE OcrSkip(t)
  <2>1. docs' \in [Doc -> DocRow]
    BY <1>3, <1>c, <1>d DEF OcrSkip, Status
  <2>2. tasks' \in [Task -> TaskRow]
    BY <1>3, <1>t DEF OcrSkip, Ack, TaskRow, TaskPc, RunPc, LockPc
  <2> QED  BY <1>0, <1>3, <2>1, <2>2 DEF OcrSkip, TypeOK
<1>4. CASE OcrCheckDuplicate(t)
  <2>1. tasks' \in [Task -> TaskRow]
    <3>1. \/ tasks' = [tasks EXCEPT ![t].pc = "lookup"]
          \/ \E c \in Doc : tasks' = [tasks EXCEPT ![t].pc = "flag", ![t].dup = c]
      BY <1>4 DEF OcrCheckDuplicate, ContentMatches
    <3> QED  BY <3>1, <1>t DEF TaskRow, TaskPc, RunPc, LockPc
  <2>2. raced' \subseteq SameInvoice
    BY <1>0, <1>4 DEF OcrCheckDuplicate, Racing, TypeOK
  <2> QED  BY <1>0, <1>4, <2>1, <2>2 DEF OcrCheckDuplicate, TypeOK
<1>5. CASE OcrFlagDuplicate(t)
  <2>1. docs' \in [Doc -> DocRow]
    <3>1. [status |-> "error", isDuplicate |-> TRUE, duplicateOf |-> tasks[t].dup,
           extracted |-> TRUE] \in DocRow
      BY <1>t DEF TaskRow, DocRow, Status
    <3> QED  BY <1>5, <1>d, <3>1 DEF OcrFlagDuplicate, Abort
  <2>2. tasks' \in [Task -> TaskRow]
    BY <1>5, <1>t DEF OcrFlagDuplicate, Ack, Abort, TaskRow, TaskPc, RunPc, LockPc
  <2> QED  BY <1>0, <1>5, <2>1, <2>2 DEF OcrFlagDuplicate, TypeOK
<1>6. CASE OcrLookupExpense(t)
  <2>1. docs' \in [Doc -> DocRow]
    BY <1>6, <1>c, <1>d DEF OcrLookupExpense, Status
  <2>2. tasks' \in [Task -> TaskRow]
    <3>1. \/ \E pc \in {"insert", "acked"} : tasks' = [tasks EXCEPT ![t].pc = pc]
          \/ \E e \in Exp, pc \in {"reuse", "backfill"} :
               tasks' = [tasks EXCEPT ![t].exp = e, ![t].pc = pc]
      BY <1>6 DEF OcrLookupExpense, Ack, RowsOf
    <3>2. {"insert", "acked", "reuse", "backfill"} \subseteq TaskPc
      BY DEF TaskPc, RunPc, LockPc
    <3>3. ASSUME NEW pc \in TaskPc, tasks' = [tasks EXCEPT ![t].pc = pc]
          PROVE  tasks' \in [Task -> TaskRow]
      BY <3>3, <1>t DEF TaskRow
    <3>4. ASSUME NEW e \in Exp, NEW pc \in TaskPc,
                 tasks' = [tasks EXCEPT ![t].exp = e, ![t].pc = pc]
          PROVE  tasks' \in [Task -> TaskRow]
      BY <3>4, <1>t DEF TaskRow
    <3> QED  BY <3>1, <3>2, <3>3, <3>4
  <2> QED  BY <1>0, <1>6, <2>1, <2>2 DEF OcrLookupExpense, TypeOK
<1>7. CASE OcrInsertExpense(t)
  <2>3. exps' \in [Exp -> ExpRow]
    <3>1. NewRow(tasks[t].doc, FALSE, tasks[t].read # "none", FALSE) \in ExpRow
      BY <1>t DEF TaskRow, NewRow, ExpRow
    <3> QED  BY <1>7, <1>e, <3>1 DEF OcrInsertExpense
  <2>1. docs' \in [Doc -> DocRow]
    BY <1>7, <1>c, <1>d DEF OcrInsertExpense, Status
  <2>2. tasks' \in [Task -> TaskRow]
    <3>1. PICK e \in Exp : tasks' = [tasks EXCEPT ![t].pc = "dispatch", ![t].exp = e]
      BY <1>7 DEF OcrInsertExpense
    <3>2. "dispatch" \in TaskPc
      BY DEF TaskPc, RunPc
    <3> QED  BY <3>1, <3>2, <1>t DEF TaskRow
  <2> QED  BY <1>0, <1>7, <2>1, <2>2, <2>3 DEF OcrInsertExpense, TypeOK
<1>8. CASE OcrReuseExpense(t)
  <2>1. docs' \in [Doc -> DocRow]
    BY <1>8, <1>c, <1>d DEF OcrReuseExpense, Status
  <2>2. tasks' \in [Task -> TaskRow]
    BY <1>8, <1>t DEF OcrReuseExpense, TaskRow, TaskPc, RunPc, LockPc
  <2> QED  BY <1>0, <1>8, <2>1, <2>2 DEF OcrReuseExpense, TypeOK
<1>9. CASE OcrBackfillExpense(t)
  <2>3. exps' \in [Exp -> ExpRow]
    <3>1. \/ exps' = exps
          \/ \E e \in Exp \cup {NoExp}, h \in BOOLEAN : exps' = [exps EXCEPT ![e].hasAmount = h]
      BY <1>9, <1>t DEF OcrBackfillExpense, TaskRow
    <3> QED  BY <3>1, <1>e DEF ExpRow
  <2>1. docs' \in [Doc -> DocRow]
    BY <1>9, <1>c, <1>d DEF OcrBackfillExpense, Abort, Status
  <2>2. tasks' \in [Task -> TaskRow]
    BY <1>9, <1>t DEF OcrBackfillExpense, Ack, Abort, TaskRow, TaskPc, RunPc, LockPc
  <2> QED  BY <1>0, <1>9, <2>1, <2>2, <2>3 DEF OcrBackfillExpense, TypeOK
<1>10. CASE OcrDispatch(t)
  <2>3. aiQueue' \subseteq Exp
    BY <1>10, <1>0 DEF OcrDispatch, TypeInv, ExpenseKnown, TypeOK
  <2>1. docs' \in [Doc -> DocRow]
    BY <1>10, <1>d DEF OcrDispatch, DocRow, Status
  <2>2. tasks' \in [Task -> TaskRow]
    BY <1>10, <1>t DEF OcrDispatch, Ack, TaskRow, TaskPc, RunPc, LockPc
  <2> QED  BY <1>0, <1>10, <2>1, <2>2, <2>3 DEF OcrDispatch, TypeOK
<1>11. CASE OcrFail(t)
  <2>1. docs' \in [Doc -> DocRow]
    BY <1>11, <1>d DEF OcrFail, DocRow, Status
  <2>2. tasks' \in [Task -> TaskRow]
    BY <1>11, <1>t DEF OcrFail, Ack, TaskRow, TaskPc, RunPc, LockPc
  <2> QED  BY <1>0, <1>11, <2>1, <2>2 DEF OcrFail, TypeOK
<1>12. CASE WorkerLost(t)
  <2>1. losses' \in 0..MaxWorkerLoss
    BY <1>12, <1>0, PipelineAssumption DEF WorkerLost, TypeOK
  <2>2. Queued(tasks[t].doc) \in TaskRow
    BY <1>t, Records DEF TaskRow
  <2>3. tasks' \in [Task -> TaskRow]
    BY <1>12, <1>t, <2>2 DEF WorkerLost
  <2> QED  BY <1>0, <1>12, <2>1, <2>3 DEF WorkerLost, TypeOK
<1>13. ASSUME NEW r \in Req, DeadlockVictim(t, r) PROVE TypeOK'
  <2>1. reqs' \in [Req -> ReqRow]
    BY <1>13, <1>r, Records DEF DeadlockVictim, Return
  <2>2. docs' = docs
    BY <1>13 DEF DeadlockVictim, Abort
  <2>3. tasks' \in [Task -> TaskRow]
    BY <1>13, <1>t DEF DeadlockVictim, Abort, TaskRow, TaskPc
  <2> QED  BY <1>0, <1>13, <2>1, <2>2, <2>3 DEF DeadlockVictim, TypeOK
<1> QED  BY <1>1, <1>2, <1>3, <1>4, <1>5, <1>6, <1>7, <1>8, <1>9, <1>10, <1>11, <1>12, <1>13
            DEF OcrStep

\* So do the users, one statement at a time.
LEMMA EditTypes ==
  ASSUME TypeOK, UserEdit
  PROVE  TypeOK'
<1>1. ASSUME NEW e \in Exp, OverrideCategory(e) PROVE TypeOK'
  BY <1>1 DEF OverrideCategory, TypeOK, ExpRow
<1>2. ASSUME NEW S \in SUBSET Exp, RemoveExpenses(S) PROVE TypeOK'
  <2>1. removed' \subseteq Doc
    BY <1>2 DEF RemoveExpenses, TypeOK, ExpRow
  <2> QED  BY <1>2, <2>1, DropTypes DEF RemoveExpenses, TypeOK
<1> QED  BY <1>1, <1>2 DEF UserEdit

-----------------------------------------------------------------------------
(* What the larger actions change, row by row *)

\* The messages that change leave the hands of the deliveries.
TasksQuiet ==
  \A u \in Task : tasks'[u] = tasks[u] \/ tasks'[u].pc \in {"queued", "acked", "aborted"}

\* A published message takes a free slot; no delivery moves.
LEMMA PublishEffect ==
  ASSUME TypeOK, NEW d \in Doc, Publish(d)
  PROVE  TasksQuiet
<1>1. tasks \in [Task -> TaskRow]
  BY DEF TypeOK
<1>2. Queued(d).pc = "queued"
  BY DEF Queued, FreeTask
<1> QED  BY <1>1, <1>2 DEF Publish, TasksQuiet

\* An upload begins with a document no other request has.
LEMMA UploadBeginEffect ==
  ASSUME TypeOK, NEW r \in Req, NEW d \in Doc, NEW manual \in BOOLEAN, UploadBegin(r, d, manual)
  PROVE  /\ UNCHANGED <<docs, exps, removed>> /\ TasksQuiet
         /\ docs[d].status = "none" /\ \A q \in Req : d \notin reqs[q].targets
         /\ reqs'[r].pc = "upload_commit" /\ reqs'[r].targets = {d} /\ reqs'[r].rows = {}
         /\ \A q \in Req \ {r} : reqs'[q] = reqs[q]
<1>1. reqs \in [Req -> ReqRow]
  BY DEF TypeOK
<1>2. PICK c : reqs' = [reqs EXCEPT ![r] = Uploading(d, c, manual)]
  BY DEF UploadBegin
<1>3. /\ Uploading(d, c, manual).pc = "upload_commit"
      /\ Uploading(d, c, manual).targets = {d} /\ Uploading(d, c, manual).rows = {}
  BY DEF Uploading, IdleReq
<1>4. /\ UNCHANGED <<docs, exps, removed>>
      /\ docs[d].status = "none" /\ \A q \in Req : d \notin reqs[q].targets
  BY DEF UploadBegin
<1>5. Publish(d) \/ tasks' = tasks
  BY DEF UploadBegin
<1>6. TasksQuiet
  BY <1>5, PublishEffect DEF TasksQuiet
<1> QED  BY <1>1, <1>2, <1>3, <1>4, <1>6

\* The commit of an upload stores its document, and with it at most one row of it.
LEMMA UploadCommitEffect ==
  ASSUME TypeOK, TargetsKnown, NEW r \in Req, UploadCommit(r)
  PROVE  /\ UNCHANGED <<tasks, removed>>
         /\ reqs'[r].targets = {} /\ reqs'[r].rows = {}
         /\ reqs'[r].pc = "idle" \/ (reqs'[r].pc = "ai_enqueue" /\ reqs'[r].exp \in Exp)
         /\ \A q \in Req \ {r} : reqs'[q] = reqs[q]
         /\ \E d \in Doc :
              /\ docs[d].status = "none" /\ d \in reqs[r].targets
              /\ docs'[d].status \in {"pending", "error", "gone"}
              /\ \A c \in Doc \ {d} : docs'[c] = docs[c]
              /\ \/ exps' = exps
                 \/ \E e \in Exp : /\ exps[e].row = "none"
                                   /\ exps'[e].row = "live" /\ exps'[e].doc = d
                                   /\ \A f \in Exp \ {e} : exps'[f] = exps[f]
<1>1. docs \in [Doc -> DocRow] /\ exps \in [Exp -> ExpRow] /\ reqs \in [Req -> ReqRow]
  BY DEF TypeOK
<1>2. reqs[r].pc = "upload_commit" /\ reqs[r].targets \subseteq Doc
  BY <1>1 DEF UploadCommit, ReqRow
<1>3. PICK d \in reqs[r].targets :
        \/ docs' = [docs EXCEPT ![d].status = "gone"] /\ Return(r) /\ exps' = exps
        \/ /\ \E status \in {"pending", "error"} : \E dup, c :
                docs' = [docs EXCEPT ![d] = [status |-> status, isDuplicate |-> dup,
                                             duplicateOf |-> c, extracted |-> FALSE]]
           /\ \/ Return(r) /\ exps' = exps
              \/ \E e \in Exp, category \in BOOLEAN :
                   /\ exps[e].row = "none"
                   /\ exps' = [exps EXCEPT ![e] = NewRow(d, category, TRUE, TRUE)]
                   /\ reqs' = [reqs EXCEPT ![r] = IF category THEN IdleReq ELSE Enqueueing(e)]
  BY DEF UploadCommit
<1>4. d \in Doc /\ docs[d].status = "none"
  BY <1>2 DEF TargetsKnown
<1>5. /\ docs'[d].status \in {"pending", "error", "gone"}
      /\ \A c \in Doc \ {d} : docs'[c] = docs[c]
  <2>1. CASE docs' = [docs EXCEPT ![d].status = "gone"]
    BY <1>1, <1>4, <2>1 DEF DocRow
  <2>2. ASSUME NEW status \in {"pending", "error"}, NEW dup, NEW c,
               docs' = [docs EXCEPT ![d] = [status |-> status, isDuplicate |-> dup,
                                            duplicateOf |-> c, extracted |-> FALSE]]
        PROVE  /\ docs'[d].status \in {"pending", "error", "gone"}
               /\ \A f \in Doc \ {d} : docs'[f] = docs[f]
    BY <1>1, <1>4, <2>2
  <2> QED  BY <1>3, <2>1, <2>2
<1>6. \/ exps' = exps
      \/ \E e \in Exp : /\ exps[e].row = "none"
                        /\ exps'[e].row = "live" /\ exps'[e].doc = d
                        /\ \A f \in Exp \ {e} : exps'[f] = exps[f]
  <2>1. \A category \in BOOLEAN : /\ NewRow(d, category, TRUE, TRUE).row = "live"
                                  /\ NewRow(d, category, TRUE, TRUE).doc = d
    BY DEF NewRow
  <2>2. CASE exps' = exps
    BY <2>2
  <2>3. ASSUME NEW e \in Exp, NEW category \in BOOLEAN, exps[e].row = "none",
               exps' = [exps EXCEPT ![e] = NewRow(d, category, TRUE, TRUE)]
        PROVE  \E f \in Exp : /\ exps[f].row = "none"
                              /\ exps'[f].row = "live" /\ exps'[f].doc = d
                              /\ \A g \in Exp \ {f} : exps'[g] = exps[g]
    BY <1>1, <2>1, <2>3
  <2> QED  BY <1>3, <2>2, <2>3
<1>7. \/ reqs' = [reqs EXCEPT ![r] = IdleReq]
      \/ \E e \in Exp : reqs' = [reqs EXCEPT ![r] = Enqueueing(e)]
  BY <1>3 DEF Return
<1>8. /\ reqs'[r].targets = {} /\ reqs'[r].rows = {}
      /\ reqs'[r].pc = "idle" \/ (reqs'[r].pc = "ai_enqueue" /\ reqs'[r].exp \in Exp)
      /\ \A q \in Req \ {r} : reqs'[q] = reqs[q]
  <2>1. IdleReq.targets = {} /\ IdleReq.rows = {} /\ IdleReq.pc = "idle"
    BY DEF IdleReq
  <2>2. \A e \in Exp : /\ Enqueueing(e).targets = {} /\ Enqueueing(e).rows = {}
                      /\ Enqueueing(e).pc = "ai_enqueue" /\ Enqueueing(e).exp = e
    BY DEF Enqueueing, IdleReq
  <2>3. CASE reqs' = [reqs EXCEPT ![r] = IdleReq]
    BY <1>1, <2>1, <2>3
  <2>4. ASSUME NEW e \in Exp, reqs' = [reqs EXCEPT ![r] = Enqueueing(e)]
        PROVE  /\ reqs'[r].targets = {} /\ reqs'[r].rows = {}
               /\ reqs'[r].pc = "ai_enqueue" /\ reqs'[r].exp \in Exp
               /\ \A q \in Req \ {r} : reqs'[q] = reqs[q]
    <3>1. reqs'[r] = Enqueueing(e) /\ \A q \in Req \ {r} : reqs'[q] = reqs[q]
      BY <1>1, <2>4
    <3> QED  BY <2>2, <3>1
  <2> QED  BY <1>7, <2>2, <2>3, <2>4
<1>9. UNCHANGED <<tasks, removed>>
  BY DEF UploadCommit
<1> QED  BY <1>3, <1>4, <1>5, <1>6, <1>8, <1>9

\* The message of a reprocess request ends the request.
LEMMA EnqueueEffect ==
  ASSUME TypeOK, NEW r \in Req, ReprocessEnqueue(r)
  PROVE  /\ UNCHANGED <<docs, exps, removed>> /\ TasksQuiet
         /\ reqs'[r].pc = "idle" /\ reqs'[r].targets = {} /\ reqs'[r].rows = {}
         /\ \A q \in Req \ {r} : reqs'[q] = reqs[q]
<1>1. reqs \in [Req -> ReqRow]
  BY DEF TypeOK
<1>2. tasks' = tasks \/ \E d \in reqs[r].targets : Publish(d)
  BY DEF ReprocessEnqueue
<1>3. reqs[r].targets \subseteq Doc
  BY <1>1 DEF ReqRow
<1>4. TasksQuiet
  BY <1>2, <1>3, PublishEffect DEF TasksQuiet
<1> QED  BY <1>1, <1>4 DEF ReprocessEnqueue, Return, IdleReq

\* The commit of a delete request: the documents go, their rows go or lose them.
LEMMA DeleteCommitEffect ==
  ASSUME TypeOK, NEW r \in Req, DeleteCommit(r)
  PROVE  /\ UNCHANGED <<tasks, removed>>
         /\ reqs'[r].pc = "idle" /\ reqs'[r].targets = {} /\ reqs'[r].rows = {}
         /\ \A q \in Req \ {r} : reqs'[q] = reqs[q]
         /\ reqs[r].pc \in {"delete_commit", "delete_all_commit"}
         /\ \E D \in SUBSET Doc :
              /\ \A d \in D : DocFree(d) /\ docs'[d].status = "gone"
              /\ reqs[r].pc = "delete_commit" => D = reqs[r].targets
              /\ reqs[r].pc = "delete_all_commit" => \A d \in Doc : Stored(d) <=> d \in D
              /\ \A d \in Doc \ D : /\ docs'[d].status = docs[d].status
                                    /\ docs'[d].isDuplicate = docs[d].isDuplicate
              /\ \A e \in Exp :
                   IF e \in reqs[r].rows THEN exps'[e].row = "gone" /\ exps'[e].doc = exps[e].doc
                   ELSE IF exps[e].doc \in D
                        THEN /\ exps'[e].row = exps[e].row /\ exps'[e].doc = NoDoc
                             /\ exps[e].row = "live" => RowFree(e)
                        ELSE exps'[e] = exps[e]
<1>1. docs \in [Doc -> DocRow] /\ exps \in [Exp -> ExpRow] /\ reqs \in [Req -> ReqRow]
  BY DEF TypeOK
<1>2. reqs[r].targets \subseteq Doc
  BY <1>1 DEF ReqRow
<1> DEFINE D == IF reqs[r].pc = "delete_commit" THEN reqs[r].targets ELSE {d \in Doc : Stored(d)}
<1>3. /\ reqs[r].pc \in {"delete_commit", "delete_all_commit"}
      /\ \A d \in D : DocFree(d)
      /\ \A e \in (UNION {RowsOf(d) : d \in D}) \ reqs[r].rows : RowFree(e)
      /\ docs' = [d \in Doc |->
            IF d \in D THEN [docs[d] EXCEPT !.status = "gone"]
            ELSE IF docs[d].duplicateOf \in D THEN [docs[d] EXCEPT !.duplicateOf = NoDoc]
            ELSE docs[d]]
      /\ exps' = [e \in Exp |->
            IF e \in reqs[r].rows THEN [exps[e] EXCEPT !.row = "gone"]
            ELSE IF exps[e].doc \in D THEN [exps[e] EXCEPT !.doc = NoDoc]
            ELSE exps[e]]
      /\ UNCHANGED <<tasks, removed>>
  BY DEF DeleteCommit
<1>4. D \in SUBSET Doc
  BY <1>2
<1>5. /\ reqs[r].pc = "delete_commit" => D = reqs[r].targets
      /\ reqs[r].pc = "delete_all_commit" => \A d \in Doc : Stored(d) <=> d \in D
  OBVIOUS
<1>9. \A d \in D : \A e \in RowsOf(d) : e \in reqs[r].rows \/ RowFree(e)
  <2>1. ASSUME NEW d \in D, NEW e \in RowsOf(d), e \notin reqs[r].rows PROVE RowFree(e)
    <3>1. e \in (UNION {RowsOf(f) : f \in D}) \ reqs[r].rows
      BY <2>1
    <3> QED  BY <1>3, <3>1
  <2> QED  BY <2>1
<1> HIDE DEF D
<1>6. /\ \A d \in D : docs'[d].status = "gone"
      /\ \A d \in Doc \ D : /\ docs'[d].status = docs[d].status
                            /\ docs'[d].isDuplicate = docs[d].isDuplicate
  BY <1>1, <1>3, <1>4 DEF DocRow
<1>7. ASSUME NEW e \in Exp
      PROVE  IF e \in reqs[r].rows THEN exps'[e].row = "gone" /\ exps'[e].doc = exps[e].doc
             ELSE IF exps[e].doc \in D
                  THEN /\ exps'[e].row = exps[e].row /\ exps'[e].doc = NoDoc
                       /\ exps[e].row = "live" => RowFree(e)
                  ELSE exps'[e] = exps[e]
  <2>1. exps'[e] = IF e \in reqs[r].rows THEN [exps[e] EXCEPT !.row = "gone"]
                   ELSE IF exps[e].doc \in D THEN [exps[e] EXCEPT !.doc = NoDoc] ELSE exps[e]
    BY <1>3
  <2>2. exps[e] \in ExpRow
    BY <1>1
  <2>3. ASSUME e \notin reqs[r].rows, exps[e].doc \in D, exps[e].row = "live" PROVE RowFree(e)
    <3>1. e \in RowsOf(exps[e].doc)
      BY <2>3 DEF RowsOf
    <3> QED  BY <2>3, <3>1, <1>9
  <2> QED  BY <2>1, <2>2, <2>3 DEF ExpRow
<1>8. /\ reqs'[r].pc = "idle" /\ reqs'[r].targets = {} /\ reqs'[r].rows = {}
      /\ \A q \in Req \ {r} : reqs'[q] = reqs[q]
  BY <1>1 DEF DeleteCommit, Return, IdleReq
<1> QED  BY <1>3, <1>4, <1>5, <1>6, <1>7, <1>8

\* get_by_document finds no row, or finds one and remembers it.
LEMMA LookupEffect ==
  ASSUME TypeOK, NEW t \in Task, OcrLookupExpense(t)
  PROVE  /\ tasks[t].pc = "lookup" /\ tasks'[t].doc = tasks[t].doc
         /\ \A u \in Task \ {t} : tasks'[u] = tasks[u]
         /\ UNCHANGED <<exps, reqs, removed>>
         /\ \/ tasks'[t].pc = "insert" /\ RowsOf(tasks[t].doc) = {} /\ docs' = docs
            \/ /\ tasks'[t].pc \in {"reuse", "backfill"} /\ docs' = docs
               /\ tasks'[t].exp \in RowsOf(tasks[t].doc)
            \/ tasks'[t].pc = "acked" /\ CommitDoc(t, "error")
<1>1. tasks \in [Task -> TaskRow]
  BY DEF TypeOK
<1>2. tasks[t].pc = "lookup" /\ UNCHANGED <<exps, reqs, removed>>
  BY DEF OcrLookupExpense
<1>3. \/ /\ RowsOf(tasks[t].doc) = {} /\ docs' = docs
         /\ tasks' = [tasks EXCEPT ![t].pc = "insert"]
      \/ \E e \in RowsOf(tasks[t].doc), pc \in {"reuse", "backfill"} :
           docs' = docs /\ tasks' = [tasks EXCEPT ![t].exp = e, ![t].pc = pc]
      \/ CommitDoc(t, "error") /\ tasks' = [tasks EXCEPT ![t].pc = "acked"]
  BY DEF OcrLookupExpense, Ack
<1>4. CASE RowsOf(tasks[t].doc) = {} /\ docs' = docs /\ tasks' = [tasks EXCEPT ![t].pc = "insert"]
  BY <1>1, <1>2, <1>4 DEF TaskRow
<1>5. ASSUME NEW e \in RowsOf(tasks[t].doc), NEW pc \in {"reuse", "backfill"}, docs' = docs,
             tasks' = [tasks EXCEPT ![t].exp = e, ![t].pc = pc]
      PROVE  /\ tasks'[t].doc = tasks[t].doc /\ tasks'[t].pc = pc /\ tasks'[t].exp = e
             /\ \A u \in Task \ {t} : tasks'[u] = tasks[u]
  BY <1>1, <1>5 DEF TaskRow
<1>6. CASE CommitDoc(t, "error") /\ tasks' = [tasks EXCEPT ![t].pc = "acked"]
  BY <1>1, <1>2, <1>6 DEF TaskRow
<1> QED  BY <1>2, <1>3, <1>4, <1>5, <1>6

\* find_content_duplicate decides where the delivery goes.
LEMMA CheckEffect ==
  ASSUME TypeOK, NEW t \in Task, OcrCheckDuplicate(t)
  PROVE  /\ tasks[t].pc = "check" /\ tasks'[t].doc = tasks[t].doc
         /\ tasks'[t].pc \in {"lookup", "flag"}
         /\ \A u \in Task \ {t} : tasks'[u] = tasks[u]
         /\ UNCHANGED <<docs, exps, reqs, removed>>
<1>1. tasks \in [Task -> TaskRow]
  BY DEF TypeOK
<1>2. tasks[t].pc = "check" /\ UNCHANGED <<docs, exps, reqs, removed>>
  BY DEF OcrCheckDuplicate
<1>3. \/ tasks' = [tasks EXCEPT ![t].pc = "lookup"]
      \/ \E c \in Doc : tasks' = [tasks EXCEPT ![t].pc = "flag", ![t].dup = c]
  BY DEF OcrCheckDuplicate, ContentMatches
<1>4. CASE tasks' = [tasks EXCEPT ![t].pc = "lookup"]
  BY <1>1, <1>2, <1>4 DEF TaskRow
<1>5. ASSUME NEW c \in Doc, tasks' = [tasks EXCEPT ![t].pc = "flag", ![t].dup = c]
      PROVE  /\ tasks'[t].doc = tasks[t].doc /\ tasks'[t].pc = "flag"
             /\ \A u \in Task \ {t} : tasks'[u] = tasks[u]
  BY <1>1, <1>5 DEF TaskRow
<1> QED  BY <1>2, <1>3, <1>4, <1>5

\* update_from_ocr moves no row to another document.
LEMMA BackfillEffect ==
  ASSUME TypeOK, NEW t \in Task, tasks[t].exp \in Exp, OcrBackfillExpense(t)
  PROVE  /\ tasks[t].pc = "backfill" /\ tasks'[t].doc = tasks[t].doc /\ tasks'[t].exp = tasks[t].exp
         /\ \A u \in Task \ {t} : tasks'[u] = tasks[u]
         /\ UNCHANGED <<reqs, removed>>
         /\ \A e \in Exp : exps'[e].row = exps[e].row /\ exps'[e].doc = exps[e].doc
         /\ \/ /\ tasks'[t].pc = "dispatch" /\ exps[tasks[t].exp].row = "live"
               /\ CommitDoc(t, "extracted")
            \/ tasks'[t].pc = "acked" /\ CommitDoc(t, "error")
            \/ tasks'[t].pc = "aborted" /\ docs' = docs
<1>1. tasks \in [Task -> TaskRow] /\ exps \in [Exp -> ExpRow]
  BY DEF TypeOK
<1>2. tasks[t].pc = "backfill" /\ UNCHANGED <<reqs, removed>>
  BY DEF OcrBackfillExpense
<1>3. exps' = exps \/ \E h : exps' = [exps EXCEPT ![tasks[t].exp].hasAmount = h]
  BY DEF OcrBackfillExpense
<1>4. \A e \in Exp : exps'[e].row = exps[e].row /\ exps'[e].doc = exps[e].doc
  <2>1. ASSUME NEW h, exps' = [exps EXCEPT ![tasks[t].exp].hasAmount = h]
        PROVE  \A e \in Exp : exps'[e].row = exps[e].row /\ exps'[e].doc = exps[e].doc
    BY <1>1, <2>1 DEF ExpRow
  <2> QED  BY <1>3, <2>1
<1>5. \/ /\ exps[tasks[t].exp].row = "live" /\ CommitDoc(t, "extracted")
         /\ tasks' = [tasks EXCEPT ![t].pc = "dispatch"]
      \/ CommitDoc(t, "error") /\ tasks' = [tasks EXCEPT ![t].pc = "acked"]
      \/ docs' = docs /\ tasks' = [tasks EXCEPT ![t].pc = "aborted"]
  BY DEF OcrBackfillExpense, Ack, Abort
<1> QED  BY <1>1, <1>2, <1>4, <1>5 DEF TaskRow

\* The rows a user removes are rows no request has locked.
LEMMA RemoveEffect ==
  ASSUME TypeOK, NEW S \in SUBSET Exp, RemoveExpenses(S)
  PROVE  /\ UNCHANGED <<docs, tasks, reqs>>
         /\ \A e \in S : /\ exps[e].row = "live" /\ RowFree(e)
                         /\ exps'[e].row = "gone" /\ exps'[e].doc = exps[e].doc
                         /\ exps[e].doc \in removed' \cup {NoDoc}
         /\ \A e \in Exp \ S : exps'[e] = exps[e]
         /\ removed \subseteq removed'
<1>1. exps \in [Exp -> ExpRow]
  BY DEF TypeOK
<1>2. /\ UNCHANGED <<docs, tasks, reqs>> /\ exps' = Drop(S)
      /\ \A e \in S : exps[e].row = "live" /\ RowFree(e)
  BY DEF RemoveExpenses
<1>3. \A e \in S : exps'[e].row = "gone" /\ exps'[e].doc = exps[e].doc
  BY <1>1, <1>2 DEF Drop, ExpRow
<1>4. \A e \in Exp \ S : exps'[e] = exps[e]
  BY <1>1, <1>2 DEF Drop
<1>5. removed \subseteq removed' /\ \A e \in S : exps[e].doc \in removed' \cup {NoDoc}
  BY DEF RemoveExpenses
<1> QED  BY <1>2, <1>3, <1>4, <1>5

\* The commit of a delivery changes its document alone.
LEMMA CommitEffect ==
  ASSUME TypeOK, NEW t \in Task, tasks[t].doc \in Doc, NEW status, CommitDoc(t, status)
  PROVE  /\ docs'[tasks[t].doc].status = status
         /\ docs'[tasks[t].doc].isDuplicate = docs[tasks[t].doc].isDuplicate
         /\ \A d \in Doc \ {tasks[t].doc} : docs'[d] = docs[d]
<1>1. docs \in [Doc -> DocRow]
  BY DEF TypeOK
<1>2. PICK x : docs' = [docs EXCEPT ![tasks[t].doc].status = status,
                                    ![tasks[t].doc].extracted = x]
  BY DEF CommitDoc
<1> QED  BY <1>1, <1>2 DEF DocRow

\* The requests that change end.
ReqsQuiet ==
  \A q \in Req : \/ reqs'[q] = reqs[q]
                 \/ reqs'[q].pc = "idle" /\ reqs'[q].targets = {} /\ reqs'[q].rows = {}

\* The victim of a deadlock is out of the way: the delivery or the request.
LEMMA DeadlockEffect ==
  ASSUME TypeOK, NEW t \in Task, NEW r \in Req, DeadlockVictim(t, r)
  PROVE  UNCHANGED <<docs, exps, removed>> /\ TasksQuiet /\ ReqsQuiet
<1>1. tasks \in [Task -> TaskRow] /\ reqs \in [Req -> ReqRow]
  BY DEF TypeOK
<1>2. UNCHANGED <<docs, exps, removed>>
  BY DEF DeadlockVictim, Abort
<1>3. CASE Abort(t) /\ UNCHANGED reqs
  BY <1>1, <1>2, <1>3 DEF Abort, TasksQuiet, ReqsQuiet, TaskRow
<1>4. CASE Return(r) /\ UNCHANGED tasks
  BY <1>1, <1>2, <1>4 DEF Return, IdleReq, TasksQuiet, ReqsQuiet, ReqRow
<1> QED  BY <1>3, <1>4 DEF DeadlockVictim

\* An expense without a receipt is a new row of no document.
LEMMA CreateEffect ==
  ASSUME TypeOK, NEW r \in Req, CreateManualExpense(r)
  PROVE  /\ UNCHANGED <<docs, tasks, removed>>
         /\ reqs[r].pc = "idle"
         /\ reqs'[r].targets = {} /\ reqs'[r].rows = {}
         /\ reqs'[r].pc = "idle" \/ (reqs'[r].pc = "ai_enqueue" /\ reqs'[r].exp \in Exp)
         /\ \A q \in Req \ {r} : reqs'[q] = reqs[q]
         /\ \E e \in Exp : /\ exps[e].row = "none"
                           /\ exps'[e].row = "live" /\ exps'[e].doc = NoDoc
                           /\ \A f \in Exp \ {e} : exps'[f] = exps[f]
<1>1. exps \in [Exp -> ExpRow] /\ reqs \in [Req -> ReqRow]
  BY DEF TypeOK
<1>2. PICK e \in Exp, category \in BOOLEAN :
        /\ exps[e].row = "none"
        /\ exps' = [exps EXCEPT ![e] = NewRow(NoDoc, category, TRUE, TRUE)]
        /\ reqs' = [reqs EXCEPT ![r] = IF category THEN IdleReq ELSE Enqueueing(e)]
  BY DEF CreateManualExpense
<1>3. /\ NewRow(NoDoc, category, TRUE, TRUE).row = "live"
      /\ NewRow(NoDoc, category, TRUE, TRUE).doc = NoDoc
  BY DEF NewRow
<1>4. exps'[e].row = "live" /\ exps'[e].doc = NoDoc /\ \A f \in Exp \ {e} : exps'[f] = exps[f]
  BY <1>1, <1>2, <1>3
<1>5. /\ IdleReq.targets = {} /\ IdleReq.rows = {} /\ IdleReq.pc = "idle"
      /\ Enqueueing(e).targets = {} /\ Enqueueing(e).rows = {}
      /\ Enqueueing(e).pc = "ai_enqueue" /\ Enqueueing(e).exp = e
  BY DEF Enqueueing, IdleReq
<1>6. /\ reqs'[r].targets = {} /\ reqs'[r].rows = {}
      /\ reqs'[r].pc = "idle" \/ (reqs'[r].pc = "ai_enqueue" /\ reqs'[r].exp \in Exp)
      /\ \A q \in Req \ {r} : reqs'[q] = reqs[q]
  BY <1>1, <1>2, <1>5
<1>7. UNCHANGED <<docs, tasks, removed>> /\ reqs[r].pc = "idle"
  BY DEF CreateManualExpense
<1> QED  BY <1>2, <1>4, <1>6, <1>7

\* The commit of a reprocess request drops the rows it locked.
LEMMA ReprocessEffect ==
  ASSUME TypeOK, NEW r \in Req, ReprocessCommit(r)
  PROVE  /\ UNCHANGED <<tasks, removed>>
         /\ reqs'[r].targets = reqs[r].targets /\ reqs'[r].rows = {}
         /\ reqs[r].pc = "reprocess_commit" /\ reqs'[r].pc = "reprocess_enqueue"
         /\ \A q \in Req \ {r} : reqs'[q] = reqs[q]
         /\ \A e \in Exp : /\ exps'[e].doc = exps[e].doc
                           /\ exps'[e].row = IF e \in reqs[r].rows THEN "gone" ELSE exps[e].row
         /\ \E d \in reqs[r].targets :
              /\ DocFree(d)
              /\ docs'[d].status = IF Stored(d) THEN "pending" ELSE docs[d].status
              /\ \A c \in Doc \ {d} : docs'[c] = docs[c]
<1>1. docs \in [Doc -> DocRow] /\ exps \in [Exp -> ExpRow] /\ reqs \in [Req -> ReqRow]
  BY DEF TypeOK
<1>2. /\ UNCHANGED <<tasks, removed>> /\ reqs[r].pc = "reprocess_commit"
      /\ reqs' = [reqs EXCEPT ![r].pc = "reprocess_enqueue", ![r].rows = {}]
      /\ exps' = Drop(reqs[r].rows)
  BY DEF ReprocessCommit
<1>3. /\ reqs'[r].targets = reqs[r].targets /\ reqs'[r].rows = {}
      /\ reqs'[r].pc = "reprocess_enqueue"
      /\ \A q \in Req \ {r} : reqs'[q] = reqs[q]
  BY <1>1, <1>2 DEF ReqRow
<1>4. \A e \in Exp : /\ exps'[e].doc = exps[e].doc
                    /\ exps'[e].row = IF e \in reqs[r].rows THEN "gone" ELSE exps[e].row
  BY <1>1, <1>2 DEF Drop, ExpRow
<1>5. reqs[r].targets \subseteq Doc
  BY <1>1 DEF ReqRow
<1>6. PICK d \in reqs[r].targets :
        /\ DocFree(d)
        /\ docs' = IF Stored(d) THEN [docs EXCEPT ![d].status = "pending"] ELSE docs
  BY DEF ReprocessCommit
<1>7. /\ docs'[d].status = IF Stored(d) THEN "pending" ELSE docs[d].status
      /\ \A c \in Doc \ {d} : docs'[c] = docs[c]
  <2>1. CASE Stored(d)
    BY <1>1, <1>5, <1>6, <2>1 DEF DocRow
  <2>2. CASE ~Stored(d)
    BY <1>6, <2>2
  <2> QED  BY <2>1, <2>2
<1> QED  BY <1>2, <1>3, <1>4, <1>6, <1>7

\* A delivery books a new row for its document.
LEMMA InsertEffect ==
  ASSUME TypeOK, NEW t \in Task, OcrInsertExpense(t)
  PROVE  /\ UNCHANGED <<reqs, removed>>
         /\ tasks[t].pc = "insert" /\ tasks'[t].pc = "dispatch" /\ tasks'[t].doc = tasks[t].doc
         /\ \A u \in Task \ {t} : tasks'[u] = tasks[u]
         /\ CommitDoc(t, "extracted")
         /\ \E e \in Exp : /\ exps[e].row = "none" /\ tasks'[t].exp = e
                           /\ exps'[e].row = "live" /\ exps'[e].doc = tasks[t].doc
                           /\ \A f \in Exp \ {e} : exps'[f] = exps[f]
<1>1. tasks \in [Task -> TaskRow] /\ exps \in [Exp -> ExpRow]
  BY DEF TypeOK
<1>2. /\ UNCHANGED <<reqs, removed>> /\ tasks[t].pc = "insert" /\ CommitDoc(t, "extracted")
  BY DEF OcrInsertExpense
<1>3. PICK e \in Exp :
        /\ exps[e].row = "none"
        /\ \E h : exps' = [exps EXCEPT ![e] = NewRow(tasks[t].doc, FALSE, h, FALSE)]
        /\ tasks' = [tasks EXCEPT ![t].pc = "dispatch", ![t].exp = e]
  BY DEF OcrInsertExpense
<1>4. /\ exps'[e].row = "live" /\ exps'[e].doc = tasks[t].doc
      /\ \A f \in Exp \ {e} : exps'[f] = exps[f]
  <2>1. PICK h : exps' = [exps EXCEPT ![e] = NewRow(tasks[t].doc, FALSE, h, FALSE)]
    BY <1>3
  <2> QED  BY <1>1, <2>1 DEF NewRow
<1>5. /\ tasks'[t].pc = "dispatch" /\ tasks'[t].doc = tasks[t].doc /\ tasks'[t].exp = e
      /\ \A u \in Task \ {t} : tasks'[u] = tasks[u]
  BY <1>1, <1>3 DEF TaskRow
<1> QED  BY <1>2, <1>3, <1>4, <1>5

-----------------------------------------------------------------------------
(* The books *)

\* The expense of a message is a row that was made.
LEMMA KnownStep ==
  ASSUME BooksInv, Next
  PROVE  ExpenseKnown'
<1>0. tasks \in [Task -> TaskRow] /\ reqs \in [Req -> ReqRow]
  BY DEF BooksInv, TypeInv, TypeOK
<1>t. TypeOK /\ ExpenseKnown /\ TargetsKnown /\ NoDoc \notin Doc
  BY PipelineAssumption DEF BooksInv, TypeInv
<1>u. ExpenseKnown
  BY DEF BooksInv, TypeInv
<1>1. ASSUME NEW r \in Req, NEW d \in Doc, NEW manual \in BOOLEAN, UploadBegin(r, d, manual)
       PROVE ExpenseKnown'
  BY <1>t, <1>u, <1>1, UploadBeginEffect
    DEF ExpenseKnown, RowsOf, TasksQuiet
<1>2. ASSUME NEW r \in Req, UploadCommit(r) PROVE ExpenseKnown'
  BY <1>t, <1>u, <1>2, UploadCommitEffect
    DEF ExpenseKnown, RowsOf
<1>3. ASSUME NEW r \in Req, CreateManualExpense(r) PROVE ExpenseKnown'
  BY <1>0, <1>u, <1>3 DEF CreateManualExpense, IdleReq, Enqueueing, NewRow, ExpenseKnown,
       RowsOf, TaskRow, ReqRow
<1>4. ASSUME NEW r \in Req, EnqueueCategorize(r) PROVE ExpenseKnown'
  BY <1>0, <1>u, <1>4 DEF EnqueueCategorize, Return, IdleReq, ExpenseKnown, RowsOf, TaskRow, ReqRow
<1>5. ASSUME NEW r \in Req, NEW d \in Doc, ReprocessBegin(r, d) PROVE ExpenseKnown'
  BY <1>0, <1>u, <1>5 DEF ReprocessBegin, Deleting, IdleReq, ExpenseKnown, RowsOf, TaskRow, ReqRow
<1>6. ASSUME NEW r \in Req, ReprocessCommit(r) PROVE ExpenseKnown'
  BY <1>0, <1>u, <1>6 DEF ReprocessCommit, Drop, ExpenseKnown, RowsOf, TaskRow, ReqRow
<1>7. ASSUME NEW r \in Req, ReprocessEnqueue(r) PROVE ExpenseKnown'
  BY <1>0, <1>u, <1>7 DEF ReprocessEnqueue, Publish, Queued, FreeTask, Return, IdleReq,
       ExpenseKnown, RowsOf, TaskRow, ReqRow
<1>8. ASSUME NEW r \in Req, NEW d \in Doc, DeleteOneBegin(r, d) PROVE ExpenseKnown'
  BY <1>0, <1>u, <1>8 DEF DeleteOneBegin, DeleteBegin, Deleting, IdleReq, ExpenseKnown, RowsOf,
       TaskRow, ReqRow
<1>9. ASSUME NEW r \in Req, DeleteAllBegin(r) PROVE ExpenseKnown'
  BY <1>0, <1>u, <1>9 DEF DeleteAllBegin, DeleteBegin, Deleting, IdleReq, ExpenseKnown, RowsOf,
       TaskRow, ReqRow
<1>10. ASSUME NEW r \in Req, DeleteCommit(r) PROVE ExpenseKnown'
  BY <1>0, <1>u, <1>10 DEF DeleteCommit, Return, IdleReq, ExpenseKnown, RowsOf, TaskRow, ReqRow
<1>11. ASSUME NEW r \in Req, ApiCrash(r) PROVE ExpenseKnown'
  BY <1>0, <1>u, <1>11 DEF ApiCrash, Return, IdleReq, ExpenseKnown, RowsOf, TaskRow, ReqRow
<1>12. ASSUME NEW t \in Task, OcrStart(t) PROVE ExpenseKnown'
  BY <1>0, <1>u, <1>12 DEF OcrStart, Ack, ExpenseKnown, RowsOf, TaskRow, ReqRow
<1>13. ASSUME NEW t \in Task, NEW read \in Reading, OcrExtract(t, read) PROVE ExpenseKnown'
  BY <1>0, <1>u, <1>13 DEF OcrExtract, Abort, ExpenseKnown, RowsOf, TaskRow, ReqRow
<1>14. ASSUME NEW t \in Task, OcrSkip(t) PROVE ExpenseKnown'
  BY <1>0, <1>u, <1>14 DEF OcrSkip, CommitDoc, Ack, ExpenseKnown, RowsOf, TaskRow, ReqRow
<1>15. ASSUME NEW t \in Task, OcrCheckDuplicate(t) PROVE ExpenseKnown'
  BY <1>t, <1>u, <1>15, CheckEffect
    DEF ExpenseKnown, RowsOf
<1>16. ASSUME NEW t \in Task, OcrFlagDuplicate(t) PROVE ExpenseKnown'
  BY <1>0, <1>u, <1>16 DEF OcrFlagDuplicate, Ack, Abort, ExpenseKnown, RowsOf, TaskRow, ReqRow
<1>17. ASSUME NEW t \in Task, OcrLookupExpense(t) PROVE ExpenseKnown'
  BY <1>t, <1>u, <1>17, LookupEffect, CommitEffect
    DEF ExpenseKnown, RowsOf
<1>18. ASSUME NEW t \in Task, OcrInsertExpense(t) PROVE ExpenseKnown'
  BY <1>0, <1>u, <1>18 DEF OcrInsertExpense, CommitDoc, NewRow, ExpenseKnown, RowsOf, TaskRow,
       ReqRow
<1>19. ASSUME NEW t \in Task, OcrReuseExpense(t) PROVE ExpenseKnown'
  BY <1>0, <1>u, <1>19 DEF OcrReuseExpense, CommitDoc, ExpenseKnown, RowsOf, TaskRow, ReqRow
<1>20. ASSUME NEW t \in Task, OcrBackfillExpense(t) PROVE ExpenseKnown'
  BY <1>0, <1>u, <1>20 DEF OcrBackfillExpense, CommitDoc, Ack, Abort, ExpenseKnown, RowsOf,
       TaskRow, ReqRow
<1>21. ASSUME NEW t \in Task, OcrDispatch(t) PROVE ExpenseKnown'
  BY <1>0, <1>u, <1>21 DEF OcrDispatch, Ack, ExpenseKnown, RowsOf, TaskRow, ReqRow
<1>22. ASSUME NEW t \in Task, OcrFail(t) PROVE ExpenseKnown'
  BY <1>0, <1>u, <1>22 DEF OcrFail, Ack, ExpenseKnown, RowsOf, TaskRow, ReqRow
<1>23. ASSUME NEW t \in Task, WorkerLost(t) PROVE ExpenseKnown'
  BY <1>0, <1>u, <1>23 DEF WorkerLost, Queued, FreeTask, ExpenseKnown, RowsOf, TaskRow, ReqRow
<1>24. ASSUME NEW t \in Task, NEW r \in Req, DeadlockVictim(t, r) PROVE ExpenseKnown'
  BY <1>t, <1>u, <1>24, DeadlockEffect
    DEF ExpenseKnown, RowsOf, TasksQuiet, ReqsQuiet
<1>25. ASSUME UNCHANGED <<tasks, reqs>> PROVE ExpenseKnown'
  BY <1>u, <1>25 DEF ExpenseKnown, RowsOf
<1> QED  BY <1>1, <1>2, <1>3, <1>4, <1>5, <1>6, <1>7, <1>8, <1>9, <1>10, <1>11, <1>12, <1>13,
     <1>14, <1>15, <1>16, <1>17, <1>18, <1>19, <1>20, <1>21, <1>22, <1>23, <1>24, <1>25
            DEF Next, RequestStep, RequestContinues, OcrStep, UserEdit, OverrideCategory,
                 RemoveExpenses

\* A delivery takes the lock of its document when no other has it, and keeps the document.
LEMMA LocksStep ==
  ASSUME BooksInv, Next
  PROVE  LocksHeld'
<1>0. docs \in [Doc -> DocRow] /\ tasks \in [Task -> TaskRow]
  BY DEF BooksInv, TypeInv, TypeOK
<1>t. TypeOK /\ ExpenseKnown /\ TargetsKnown /\ NoDoc \notin Doc
  BY PipelineAssumption DEF BooksInv, TypeInv
<1>u. LocksHeld /\ TargetsKnown
  BY DEF BooksInv, TypeInv
<1>1. ASSUME NEW r \in Req, NEW d \in Doc, NEW manual \in BOOLEAN, UploadBegin(r, d, manual)
       PROVE LocksHeld'
  BY <1>t, <1>u, <1>1, UploadBeginEffect
    DEF LocksHeld, LockPc, DocFree, Stored, TargetsKnown, TasksQuiet
<1>2. ASSUME NEW r \in Req, UploadCommit(r) PROVE LocksHeld'
  BY <1>t, <1>u, <1>2, UploadCommitEffect
    DEF LocksHeld, LockPc, DocFree, Stored, TargetsKnown
<1>3. ASSUME NEW r \in Req, ReprocessCommit(r) PROVE LocksHeld'
  BY <1>0, <1>u, <1>3 DEF ReprocessCommit, Drop, LocksHeld, LockPc, DocFree, Stored,
       TargetsKnown, DocRow, TaskRow
<1>4. ASSUME NEW r \in Req, ReprocessEnqueue(r) PROVE LocksHeld'
  BY <1>t, <1>u, <1>4, EnqueueEffect
    DEF LocksHeld, LockPc, DocFree, Stored, TargetsKnown, TasksQuiet
<1>5. ASSUME NEW r \in Req, DeleteCommit(r) PROVE LocksHeld'
  BY <1>0, <1>u, <1>5 DEF DeleteCommit, Return, IdleReq, LocksHeld, LockPc, DocFree, Stored,
       TargetsKnown, DocRow, TaskRow
<1>6. ASSUME NEW r \in Req, ApiCrash(r) PROVE LocksHeld'
  BY <1>0, <1>u, <1>6 DEF ApiCrash, Return, IdleReq, LocksHeld, LockPc, DocFree, Stored,
       TargetsKnown, DocRow, TaskRow
<1>7. ASSUME NEW t \in Task, OcrStart(t) PROVE LocksHeld'
  BY <1>0, <1>u, <1>7 DEF OcrStart, Ack, LocksHeld, LockPc, DocFree, Stored, TargetsKnown,
       DocRow, TaskRow
<1>8. ASSUME NEW t \in Task, NEW read \in Reading, OcrExtract(t, read) PROVE LocksHeld'
  BY <1>0, <1>u, <1>8 DEF OcrExtract, Abort, LocksHeld, LockPc, DocFree, Stored, TargetsKnown,
       DocRow, TaskRow
<1>9. ASSUME NEW t \in Task, OcrSkip(t) PROVE LocksHeld'
  BY <1>0, <1>u, <1>9 DEF OcrSkip, CommitDoc, Ack, LocksHeld, LockPc, DocFree, Stored,
       TargetsKnown, DocRow, TaskRow
<1>10. ASSUME NEW t \in Task, OcrCheckDuplicate(t) PROVE LocksHeld'
  BY <1>t, <1>u, <1>10, CheckEffect
    DEF LocksHeld, LockPc, DocFree, Stored, TargetsKnown
<1>11. ASSUME NEW t \in Task, OcrFlagDuplicate(t) PROVE LocksHeld'
  BY <1>0, <1>u, <1>11 DEF OcrFlagDuplicate, Ack, Abort, LocksHeld, LockPc, DocFree, Stored,
       TargetsKnown, DocRow, TaskRow
<1>12. ASSUME NEW t \in Task, OcrLookupExpense(t) PROVE LocksHeld'
  BY <1>t, <1>u, <1>12, LookupEffect, CommitEffect
    DEF LocksHeld, LockPc, DocFree, Stored, TargetsKnown
<1>13. ASSUME NEW t \in Task, OcrInsertExpense(t) PROVE LocksHeld'
  BY <1>0, <1>u, <1>13 DEF OcrInsertExpense, CommitDoc, NewRow, LocksHeld, LockPc, DocFree,
       Stored, TargetsKnown, DocRow, TaskRow
<1>14. ASSUME NEW t \in Task, OcrReuseExpense(t) PROVE LocksHeld'
  BY <1>0, <1>u, <1>14 DEF OcrReuseExpense, CommitDoc, LocksHeld, LockPc, DocFree, Stored,
       TargetsKnown, DocRow, TaskRow
<1>15. ASSUME NEW t \in Task, OcrBackfillExpense(t) PROVE LocksHeld'
  <2>1. tasks[t].exp \in Exp
    BY <1>t, <1>15 DEF OcrBackfillExpense, ExpenseKnown
  <2>2. tasks[t].pc = "backfill" /\ tasks[t].doc \in Doc
    BY <1>u, <1>15 DEF OcrBackfillExpense, LocksHeld, LockPc
  <2>3. /\ \A u \in Task \ {t} : tasks'[u] = tasks[u]
        /\ \A e \in Exp : exps'[e].row = exps[e].row /\ exps'[e].doc = exps[e].doc
        /\ tasks'[t].pc \in {"dispatch", "acked", "aborted"} /\ removed' = removed
    BY <1>t, <1>15, <2>1, BackfillEffect
  <2>4. /\ \A d \in Doc \ {tasks[t].doc} : docs'[d] = docs[d]
        /\ docs'[tasks[t].doc].status \in {"extracted", "error"} \/ docs' = docs
    BY <1>t, <1>15, <2>1, <2>2, BackfillEffect, CommitEffect
  <2> QED  BY <1>0, <1>u, <2>2, <2>3, <2>4 DEF LocksHeld, LockPc, DocFree, Stored, TargetsKnown
<1>16. ASSUME NEW t \in Task, OcrDispatch(t) PROVE LocksHeld'
  BY <1>0, <1>u, <1>16 DEF OcrDispatch, Ack, LocksHeld, LockPc, DocFree, Stored, TargetsKnown,
       DocRow, TaskRow
<1>17. ASSUME NEW t \in Task, OcrFail(t) PROVE LocksHeld'
  BY <1>0, <1>u, <1>17 DEF OcrFail, Ack, LocksHeld, LockPc, DocFree, Stored, TargetsKnown,
       DocRow, TaskRow
<1>18. ASSUME NEW t \in Task, WorkerLost(t) PROVE LocksHeld'
  BY <1>0, <1>u, <1>18 DEF WorkerLost, Queued, FreeTask, LocksHeld, LockPc, DocFree, Stored,
       TargetsKnown, DocRow, TaskRow
<1>19. ASSUME NEW t \in Task, NEW r \in Req, DeadlockVictim(t, r) PROVE LocksHeld'
  BY <1>0, <1>u, <1>19 DEF DeadlockVictim, Abort, Return, IdleReq, LocksHeld, LockPc, DocFree,
       Stored, TargetsKnown, DocRow, TaskRow
<1>20. ASSUME UNCHANGED <<docs, tasks>> PROVE LocksHeld'
  BY <1>u, <1>20 DEF LocksHeld, LockPc, DocFree, Stored, TargetsKnown
<1> QED  BY <1>1, <1>2, <1>3, <1>4, <1>5, <1>6, <1>7, <1>8, <1>9, <1>10, <1>11, <1>12, <1>13,
     <1>14, <1>15, <1>16, <1>17, <1>18, <1>19, <1>20
            DEF Next, RequestStep, RequestContinues, OcrStep, UserEdit, CreateManualExpense,
                 EnqueueCategorize, ReprocessBegin, DeleteOneBegin, DeleteAllBegin,
                 OverrideCategory, RemoveExpenses, DeleteBegin

\* An upload alone knows its document until it commits.
LEMMA TargetsStep ==
  ASSUME BooksInv, Next
  PROVE  TargetsKnown'
<1>0. docs \in [Doc -> DocRow] /\ reqs \in [Req -> ReqRow]
  BY DEF BooksInv, TypeInv, TypeOK
<1>t. TypeOK /\ ExpenseKnown /\ TargetsKnown /\ NoDoc \notin Doc
  BY PipelineAssumption DEF BooksInv, TypeInv
<1>u. TargetsKnown /\ LocksHeld
  BY DEF BooksInv, TypeInv
<1>1. ASSUME NEW r \in Req, NEW d \in Doc, NEW manual \in BOOLEAN, UploadBegin(r, d, manual)
       PROVE TargetsKnown'
  BY <1>t, <1>u, <1>1, UploadBeginEffect
    DEF TargetsKnown, Stored, LocksHeld, LockPc, TasksQuiet
<1>2. ASSUME NEW r \in Req, UploadCommit(r) PROVE TargetsKnown'
  <2>1. PICK d \in Doc :
          /\ docs[d].status = "none" /\ d \in reqs[r].targets
          /\ docs'[d].status \in {"pending", "error", "gone"}
          /\ \A c \in Doc \ {d} : docs'[c] = docs[c]
          /\ \/ exps' = exps
             \/ \E e \in Exp : /\ exps[e].row = "none"
                               /\ exps'[e].row = "live" /\ exps'[e].doc = d
                               /\ \A f \in Exp \ {e} : exps'[f] = exps[f]
    BY <1>t, <1>2, UploadCommitEffect
  <2>2. /\ reqs'[r].targets = {} /\ reqs'[r].rows = {}
        /\ reqs'[r].pc \in {"idle", "ai_enqueue"}
        /\ \A q \in Req \ {r} : reqs'[q] = reqs[q]
        /\ UNCHANGED <<tasks, removed>>
    BY <1>t, <1>2, UploadCommitEffect
  <2>3. ASSUME NEW q \in Req, q # r, NEW x \in reqs[q].targets
        PROVE  x \in Doc /\ x # d /\ docs'[x] = docs[x]
    BY <1>0, <1>u, <2>1, <2>3 DEF TargetsKnown, ReqRow
  <2> QED  BY <1>u, <2>2, <2>3 DEF TargetsKnown
<1>3. ASSUME NEW r \in Req, CreateManualExpense(r) PROVE TargetsKnown'
  BY <1>0, <1>u, <1>3 DEF CreateManualExpense, IdleReq, Enqueueing, NewRow, TargetsKnown,
       Stored, LocksHeld, LockPc, DocRow, ReqRow
<1>4. ASSUME NEW r \in Req, EnqueueCategorize(r) PROVE TargetsKnown'
  BY <1>0, <1>u, <1>4 DEF EnqueueCategorize, Return, IdleReq, TargetsKnown, Stored, LocksHeld,
       LockPc, DocRow, ReqRow
<1>5. ASSUME NEW r \in Req, NEW d \in Doc, ReprocessBegin(r, d) PROVE TargetsKnown'
  BY <1>0, <1>u, <1>5 DEF ReprocessBegin, Deleting, IdleReq, TargetsKnown, Stored, LocksHeld,
       LockPc, DocRow, ReqRow
<1>6. ASSUME NEW r \in Req, ReprocessCommit(r) PROVE TargetsKnown'
  BY <1>0, <1>u, <1>6 DEF ReprocessCommit, Drop, TargetsKnown, Stored, LocksHeld, LockPc,
       DocRow, ReqRow
<1>7. ASSUME NEW r \in Req, ReprocessEnqueue(r) PROVE TargetsKnown'
  BY <1>0, <1>u, <1>7 DEF ReprocessEnqueue, Publish, Queued, FreeTask, Return, IdleReq,
       TargetsKnown, Stored, LocksHeld, LockPc, DocRow, ReqRow
<1>8. ASSUME NEW r \in Req, NEW d \in Doc, DeleteOneBegin(r, d) PROVE TargetsKnown'
  BY <1>0, <1>u, <1>8 DEF DeleteOneBegin, DeleteBegin, Deleting, IdleReq, TargetsKnown, Stored,
       LocksHeld, LockPc, DocRow, ReqRow
<1>9. ASSUME NEW r \in Req, DeleteAllBegin(r) PROVE TargetsKnown'
  BY <1>0, <1>u, <1>9 DEF DeleteAllBegin, DeleteBegin, Deleting, IdleReq, TargetsKnown, Stored,
       LocksHeld, LockPc, DocRow, ReqRow
<1>10. ASSUME NEW r \in Req, DeleteCommit(r) PROVE TargetsKnown'
  BY <1>0, <1>u, <1>10 DEF DeleteCommit, Return, IdleReq, TargetsKnown, Stored, LocksHeld,
       LockPc, DocRow, ReqRow
<1>11. ASSUME NEW r \in Req, ApiCrash(r) PROVE TargetsKnown'
  BY <1>0, <1>u, <1>11 DEF ApiCrash, Return, IdleReq, TargetsKnown, Stored, LocksHeld, LockPc,
       DocRow, ReqRow
<1>12. ASSUME NEW t \in Task, OcrStart(t) PROVE TargetsKnown'
  BY <1>0, <1>u, <1>12 DEF OcrStart, Ack, TargetsKnown, Stored, LocksHeld, LockPc, DocRow, ReqRow
<1>13. ASSUME NEW t \in Task, NEW read \in Reading, OcrExtract(t, read) PROVE TargetsKnown'
  BY <1>0, <1>u, <1>13 DEF OcrExtract, Abort, TargetsKnown, Stored, LocksHeld, LockPc, DocRow,
       ReqRow
<1>14. ASSUME NEW t \in Task, OcrSkip(t) PROVE TargetsKnown'
  BY <1>0, <1>u, <1>14 DEF OcrSkip, CommitDoc, Ack, TargetsKnown, Stored, LocksHeld, LockPc,
       DocRow, ReqRow
<1>15. ASSUME NEW t \in Task, OcrFlagDuplicate(t) PROVE TargetsKnown'
  BY <1>0, <1>u, <1>15 DEF OcrFlagDuplicate, Ack, Abort, TargetsKnown, Stored, LocksHeld,
       LockPc, DocRow, ReqRow
<1>16. ASSUME NEW t \in Task, OcrLookupExpense(t) PROVE TargetsKnown'
  BY <1>0, <1>u, <1>16 DEF OcrLookupExpense, CommitDoc, Ack, TargetsKnown, Stored, LocksHeld,
       LockPc, DocRow, ReqRow
<1>17. ASSUME NEW t \in Task, OcrInsertExpense(t) PROVE TargetsKnown'
  BY <1>0, <1>u, <1>17 DEF OcrInsertExpense, CommitDoc, NewRow, TargetsKnown, Stored, LocksHeld,
       LockPc, DocRow, ReqRow
<1>18. ASSUME NEW t \in Task, OcrReuseExpense(t) PROVE TargetsKnown'
  BY <1>0, <1>u, <1>18 DEF OcrReuseExpense, CommitDoc, TargetsKnown, Stored, LocksHeld, LockPc,
       DocRow, ReqRow
<1>19. ASSUME NEW t \in Task, OcrBackfillExpense(t) PROVE TargetsKnown'
  BY <1>0, <1>u, <1>19 DEF OcrBackfillExpense, CommitDoc, Ack, Abort, TargetsKnown, Stored,
       LocksHeld, LockPc, DocRow, ReqRow
<1>20. ASSUME NEW t \in Task, OcrDispatch(t) PROVE TargetsKnown'
  BY <1>0, <1>u, <1>20 DEF OcrDispatch, Ack, TargetsKnown, Stored, LocksHeld, LockPc, DocRow, ReqRow
<1>21. ASSUME NEW t \in Task, OcrFail(t) PROVE TargetsKnown'
  BY <1>0, <1>u, <1>21 DEF OcrFail, Ack, TargetsKnown, Stored, LocksHeld, LockPc, DocRow, ReqRow
<1>22. ASSUME NEW t \in Task, NEW r \in Req, DeadlockVictim(t, r) PROVE TargetsKnown'
  BY <1>0, <1>u, <1>22 DEF DeadlockVictim, Abort, Return, IdleReq, TargetsKnown, Stored,
       LocksHeld, LockPc, DocRow, ReqRow
<1>23. ASSUME UNCHANGED <<docs, reqs>> PROVE TargetsKnown'
  BY <1>u, <1>23 DEF TargetsKnown, Stored, LocksHeld, LockPc
<1> QED  BY <1>1, <1>2, <1>3, <1>4, <1>5, <1>6, <1>7, <1>8, <1>9, <1>10, <1>11, <1>12, <1>13,
     <1>14, <1>15, <1>16, <1>17, <1>18, <1>19, <1>20, <1>21, <1>22, <1>23
            DEF Next, RequestStep, RequestContinues, OcrStep, UserEdit, OverrideCategory,
                 RemoveExpenses, OcrCheckDuplicate, WorkerLost

\* A request alone has the rows it locked.
LEMMA RowsStep ==
  ASSUME BooksInv, Next
  PROVE  RowsLocked'
<1>0. exps \in [Exp -> ExpRow] /\ reqs \in [Req -> ReqRow]
  BY DEF BooksInv, TypeInv, TypeOK
<1>t. TypeOK /\ ExpenseKnown /\ TargetsKnown /\ NoDoc \notin Doc
  BY PipelineAssumption DEF BooksInv, TypeInv
<1>u. RowsLocked /\ TargetsKnown
  BY DEF BooksInv, TypeInv
<1>1. ASSUME NEW r \in Req, NEW d \in Doc, NEW manual \in BOOLEAN, UploadBegin(r, d, manual)
       PROVE RowsLocked'
  BY <1>t, <1>u, <1>1, UploadBeginEffect
    DEF RowsLocked, RowFree, RowsOf, TargetsKnown, TasksQuiet
<1>2. ASSUME NEW r \in Req, UploadCommit(r) PROVE RowsLocked'
  <2>1. PICK d \in Doc :
          /\ docs[d].status = "none" /\ d \in reqs[r].targets
          /\ docs'[d].status \in {"pending", "error", "gone"}
          /\ \A c \in Doc \ {d} : docs'[c] = docs[c]
          /\ \/ exps' = exps
             \/ \E e \in Exp : /\ exps[e].row = "none"
                               /\ exps'[e].row = "live" /\ exps'[e].doc = d
                               /\ \A f \in Exp \ {e} : exps'[f] = exps[f]
    BY <1>t, <1>2, UploadCommitEffect
  <2>2. /\ reqs'[r].targets = {} /\ reqs'[r].rows = {}
        /\ reqs'[r].pc \in {"idle", "ai_enqueue"}
        /\ \A q \in Req \ {r} : reqs'[q] = reqs[q]
        /\ UNCHANGED <<tasks, removed>>
    BY <1>t, <1>2, UploadCommitEffect
  <2>3. \A e \in Exp : exps[e].row = "live" => exps'[e] = exps[e]
    BY <2>1
  <2>4. ASSUME NEW q \in Req, NEW e \in reqs'[q].rows
        PROVE  q # r /\ reqs'[q] = reqs[q] /\ e \in reqs[q].rows /\ e \in Exp /\ exps'[e] = exps[e]
    <3>1. q # r /\ reqs'[q] = reqs[q] /\ e \in reqs[q].rows
      BY <2>2, <2>4
    <3>2. e \in Exp
      BY <1>0, <3>1 DEF ReqRow
    <3> QED  BY <1>u, <2>3, <3>1, <3>2 DEF RowsLocked
  <2> QED  BY <1>u, <2>4 DEF RowsLocked
<1>3. ASSUME NEW r \in Req, CreateManualExpense(r) PROVE RowsLocked'
  BY <1>0, <1>u, <1>3 DEF CreateManualExpense, IdleReq, Enqueueing, NewRow, RowsLocked, RowFree,
       RowsOf, TargetsKnown, ExpRow, ReqRow
<1>4. ASSUME NEW r \in Req, EnqueueCategorize(r) PROVE RowsLocked'
  BY <1>0, <1>u, <1>4 DEF EnqueueCategorize, Return, IdleReq, RowsLocked, RowFree, RowsOf,
       TargetsKnown, ExpRow, ReqRow
<1>5. ASSUME NEW r \in Req, NEW d \in Doc, ReprocessBegin(r, d) PROVE RowsLocked'
  BY <1>0, <1>u, <1>5 DEF ReprocessBegin, Deleting, IdleReq, RowsLocked, RowFree, RowsOf,
       TargetsKnown, ExpRow, ReqRow
<1>6. ASSUME NEW r \in Req, ReprocessCommit(r) PROVE RowsLocked'
  BY <1>0, <1>u, <1>6 DEF ReprocessCommit, Drop, RowsLocked, RowFree, RowsOf, TargetsKnown,
       ExpRow, ReqRow
<1>7. ASSUME NEW r \in Req, ReprocessEnqueue(r) PROVE RowsLocked'
  BY <1>t, <1>u, <1>7, EnqueueEffect
    DEF RowsLocked, RowFree, RowsOf, TargetsKnown, TasksQuiet
<1>8. ASSUME NEW r \in Req, NEW d \in Doc, DeleteOneBegin(r, d) PROVE RowsLocked'
  BY <1>0, <1>u, <1>8 DEF DeleteOneBegin, DeleteBegin, Deleting, IdleReq, RowsLocked, RowFree,
       RowsOf, TargetsKnown, ExpRow, ReqRow
<1>9. ASSUME NEW r \in Req, DeleteAllBegin(r) PROVE RowsLocked'
  BY <1>0, <1>u, <1>9 DEF DeleteAllBegin, DeleteBegin, Deleting, IdleReq, RowsLocked, RowFree,
       RowsOf, TargetsKnown, ExpRow, ReqRow
<1>10. ASSUME NEW r \in Req, DeleteCommit(r) PROVE RowsLocked'
  <2>1. PICK D \in SUBSET Doc :
          /\ \A d \in D : DocFree(d) /\ docs'[d].status = "gone"
          /\ reqs[r].pc = "delete_commit" => D = reqs[r].targets
          /\ reqs[r].pc = "delete_all_commit" => \A d \in Doc : Stored(d) <=> d \in D
          /\ \A d \in Doc \ D : docs'[d].status = docs[d].status
          /\ \A e \in Exp :
               IF e \in reqs[r].rows THEN exps'[e].row = "gone" /\ exps'[e].doc = exps[e].doc
               ELSE IF exps[e].doc \in D
                    THEN /\ exps'[e].row = exps[e].row /\ exps'[e].doc = NoDoc
                         /\ exps[e].row = "live" => RowFree(e)
                    ELSE exps'[e] = exps[e]
    BY <1>t, <1>10, DeleteCommitEffect
  <2>2. /\ reqs'[r].pc = "idle" /\ reqs'[r].targets = {} /\ reqs'[r].rows = {}
        /\ \A q \in Req \ {r} : reqs'[q] = reqs[q]
        /\ reqs[r].pc \in {"delete_commit", "delete_all_commit"}
        /\ UNCHANGED <<tasks, removed>>
    BY <1>t, <1>10, DeleteCommitEffect
  <2>3. ASSUME NEW q \in Req, q # r, NEW e \in reqs[q].rows
        PROVE  e \in Exp /\ exps'[e] = exps[e]
    <3>1. e \in Exp
      BY <1>0 DEF ReqRow
    <3>2. exps[e].row = "live" /\ e \notin reqs[r].rows /\ ~RowFree(e)
      BY <1>u, <2>3 DEF RowsLocked, RowFree
    <3> QED  BY <2>1, <3>1, <3>2
  <2> QED  BY <1>u, <2>2, <2>3 DEF RowsLocked
<1>11. ASSUME NEW r \in Req, ApiCrash(r) PROVE RowsLocked'
  BY <1>0, <1>u, <1>11 DEF ApiCrash, Return, IdleReq, RowsLocked, RowFree, RowsOf, TargetsKnown,
       ExpRow, ReqRow
<1>12. ASSUME NEW e \in Exp, OverrideCategory(e) PROVE RowsLocked'
  BY <1>0, <1>u, <1>12 DEF OverrideCategory, RowsLocked, RowFree, RowsOf, TargetsKnown, ExpRow,
       ReqRow
<1>13. ASSUME NEW S \in SUBSET Exp, RemoveExpenses(S) PROVE RowsLocked'
  BY <1>0, <1>u, <1>13 DEF RemoveExpenses, Drop, RowsLocked, RowFree, RowsOf, TargetsKnown,
       ExpRow, ReqRow
<1>14. ASSUME NEW t \in Task, OcrInsertExpense(t) PROVE RowsLocked'
  BY <1>0, <1>u, <1>14 DEF OcrInsertExpense, CommitDoc, NewRow, RowsLocked, RowFree, RowsOf,
       TargetsKnown, ExpRow, ReqRow
<1>15. ASSUME NEW t \in Task, OcrBackfillExpense(t) PROVE RowsLocked'
  BY <1>0, <1>u, <1>15 DEF OcrBackfillExpense, CommitDoc, Ack, Abort, RowsLocked, RowFree,
       RowsOf, TargetsKnown, ExpRow, ReqRow
<1>16. ASSUME NEW t \in Task, NEW r \in Req, DeadlockVictim(t, r) PROVE RowsLocked'
  BY <1>0, <1>u, <1>16 DEF DeadlockVictim, Abort, Return, IdleReq, RowsLocked, RowFree, RowsOf,
       TargetsKnown, ExpRow, ReqRow
<1>17. ASSUME UNCHANGED <<exps, reqs>> PROVE RowsLocked'
  BY <1>u, <1>17 DEF RowsLocked, RowFree, RowsOf, TargetsKnown
<1> QED  BY <1>1, <1>2, <1>3, <1>4, <1>5, <1>6, <1>7, <1>8, <1>9, <1>10, <1>11, <1>12, <1>13,
     <1>14, <1>15, <1>16, <1>17
            DEF Next, RequestStep, RequestContinues, OcrStep, UserEdit, OcrStart, OcrExtract,
                 OcrSkip, OcrCheckDuplicate, OcrFlagDuplicate, OcrLookupExpense,
                 OcrReuseExpense, OcrDispatch, OcrFail, WorkerLost, Abort

\* A document that is not stored yet has no rows.
LEMMA NewRowsStep ==
  ASSUME BooksInv, Next
  PROVE  NewHasNoRows'
<1>0. docs \in [Doc -> DocRow] /\ exps \in [Exp -> ExpRow]
  BY DEF BooksInv, TypeInv, TypeOK
<1>t. TypeOK /\ ExpenseKnown /\ TargetsKnown /\ NoDoc \notin Doc
  BY PipelineAssumption DEF BooksInv, TypeInv
<1>u. NewHasNoRows /\ TargetsKnown /\ LocksHeld
  BY DEF BooksInv, TypeInv
<1>1. ASSUME NEW r \in Req, UploadCommit(r) PROVE NewHasNoRows'
  BY <1>t, <1>u, <1>1, UploadCommitEffect
    DEF NewHasNoRows, TargetsKnown, LocksHeld, LockPc, Stored, RowsOf
<1>2. ASSUME NEW r \in Req, CreateManualExpense(r) PROVE NewHasNoRows'
  <2>1. PICK e \in Exp : /\ exps[e].row = "none"
                          /\ exps'[e].row = "live" /\ exps'[e].doc = NoDoc
                          /\ \A f \in Exp \ {e} : exps'[f] = exps[f]
    BY <1>t, <1>2, CreateEffect
  <2>2. UNCHANGED <<docs, tasks, removed>>
    BY <1>t, <1>2, CreateEffect
  <2>3. \A d \in Doc : RowsOf(d)' \subseteq RowsOf(d)
    BY <1>t, <2>1 DEF RowsOf
  <2> QED  BY <1>u, <2>2, <2>3 DEF NewHasNoRows
<1>3. ASSUME NEW r \in Req, ReprocessCommit(r) PROVE NewHasNoRows'
  BY <1>0, <1>u, <1>3 DEF ReprocessCommit, Drop, NewHasNoRows, TargetsKnown, LocksHeld, LockPc,
       Stored, RowsOf, DocRow, ExpRow
<1>4. ASSUME NEW r \in Req, DeleteCommit(r) PROVE NewHasNoRows'
  <2>1. PICK D \in SUBSET Doc :
          /\ \A d \in D : DocFree(d) /\ docs'[d].status = "gone"
          /\ reqs[r].pc = "delete_commit" => D = reqs[r].targets
          /\ reqs[r].pc = "delete_all_commit" => \A d \in Doc : Stored(d) <=> d \in D
          /\ \A d \in Doc \ D : docs'[d].status = docs[d].status
          /\ \A e \in Exp :
               IF e \in reqs[r].rows THEN exps'[e].row = "gone" /\ exps'[e].doc = exps[e].doc
               ELSE IF exps[e].doc \in D
                    THEN /\ exps'[e].row = exps[e].row /\ exps'[e].doc = NoDoc
                         /\ exps[e].row = "live" => RowFree(e)
                    ELSE exps'[e] = exps[e]
    BY <1>t, <1>4, DeleteCommitEffect
  <2>2. /\ reqs'[r].pc = "idle" /\ reqs'[r].targets = {} /\ reqs'[r].rows = {}
        /\ \A q \in Req \ {r} : reqs'[q] = reqs[q]
        /\ reqs[r].pc \in {"delete_commit", "delete_all_commit"}
        /\ UNCHANGED <<tasks, removed>>
    BY <1>t, <1>4, DeleteCommitEffect
  <2>3. ASSUME NEW d \in Doc, docs'[d].status = "none"
        PROVE  docs[d].status = "none" /\ RowsOf(d)' \subseteq RowsOf(d)
    <3>1. docs[d].status = "none"
      BY <2>1, <2>3
    <3>2. ASSUME NEW e \in RowsOf(d)' PROVE e \in RowsOf(d)
      BY <1>t, <2>1, <3>2 DEF RowsOf
    <3> QED  BY <3>1, <3>2
  <2> QED  BY <1>u, <2>3 DEF NewHasNoRows
<1>5. ASSUME NEW r \in Req, ApiCrash(r) PROVE NewHasNoRows'
  BY <1>0, <1>u, <1>5 DEF ApiCrash, Return, IdleReq, NewHasNoRows, TargetsKnown, LocksHeld,
       LockPc, Stored, RowsOf, DocRow, ExpRow
<1>6. ASSUME NEW e \in Exp, OverrideCategory(e) PROVE NewHasNoRows'
  BY <1>0, <1>u, <1>6 DEF OverrideCategory, NewHasNoRows, TargetsKnown, LocksHeld, LockPc,
       Stored, RowsOf, DocRow, ExpRow
<1>7. ASSUME NEW S \in SUBSET Exp, RemoveExpenses(S) PROVE NewHasNoRows'
  BY <1>0, <1>u, <1>7 DEF RemoveExpenses, Drop, NewHasNoRows, TargetsKnown, LocksHeld, LockPc,
       Stored, RowsOf, DocRow, ExpRow
<1>8. ASSUME NEW t \in Task, OcrStart(t) PROVE NewHasNoRows'
  BY <1>0, <1>u, <1>8 DEF OcrStart, Ack, NewHasNoRows, TargetsKnown, LocksHeld, LockPc, Stored,
       RowsOf, DocRow, ExpRow
<1>9. ASSUME NEW t \in Task, NEW read \in Reading, OcrExtract(t, read) PROVE NewHasNoRows'
  BY <1>0, <1>u, <1>9 DEF OcrExtract, Abort, NewHasNoRows, TargetsKnown, LocksHeld, LockPc,
       Stored, RowsOf, DocRow, ExpRow
<1>10. ASSUME NEW t \in Task, OcrSkip(t) PROVE NewHasNoRows'
  BY <1>0, <1>u, <1>10 DEF OcrSkip, CommitDoc, Ack, NewHasNoRows, TargetsKnown, LocksHeld,
       LockPc, Stored, RowsOf, DocRow, ExpRow
<1>11. ASSUME NEW t \in Task, OcrFlagDuplicate(t) PROVE NewHasNoRows'
  <2>1. exps' = exps /\ \A d \in Doc : docs'[d].status = "none" => docs[d].status = "none"
    BY <1>0, <1>u, <1>11 DEF OcrFlagDuplicate, Ack, Abort, LocksHeld, LockPc, Stored
  <2> QED  BY <1>u, <2>1 DEF NewHasNoRows, RowsOf
<1>12. ASSUME NEW t \in Task, OcrLookupExpense(t) PROVE NewHasNoRows'
  BY <1>0, <1>u, <1>12 DEF OcrLookupExpense, CommitDoc, Ack, NewHasNoRows, TargetsKnown,
       LocksHeld, LockPc, Stored, RowsOf, DocRow, ExpRow
<1>13. ASSUME NEW t \in Task, OcrInsertExpense(t) PROVE NewHasNoRows'
  BY <1>0, <1>u, <1>13 DEF OcrInsertExpense, CommitDoc, NewRow, NewHasNoRows, TargetsKnown,
       LocksHeld, LockPc, Stored, RowsOf, DocRow, ExpRow
<1>14. ASSUME NEW t \in Task, OcrReuseExpense(t) PROVE NewHasNoRows'
  BY <1>0, <1>u, <1>14 DEF OcrReuseExpense, CommitDoc, NewHasNoRows, TargetsKnown, LocksHeld,
       LockPc, Stored, RowsOf, DocRow, ExpRow
<1>15. ASSUME NEW t \in Task, OcrBackfillExpense(t) PROVE NewHasNoRows'
  <2>1. tasks[t].exp \in Exp
    BY <1>t, <1>15 DEF OcrBackfillExpense, ExpenseKnown
  <2>2. tasks[t].pc = "backfill" /\ tasks[t].doc \in Doc
    BY <1>u, <1>15 DEF OcrBackfillExpense, LocksHeld, LockPc
  <2>3. /\ \A u \in Task \ {t} : tasks'[u] = tasks[u]
        /\ \A e \in Exp : exps'[e].row = exps[e].row /\ exps'[e].doc = exps[e].doc
        /\ tasks'[t].pc \in {"dispatch", "acked", "aborted"} /\ removed' = removed
    BY <1>t, <1>15, <2>1, BackfillEffect
  <2>4. /\ \A d \in Doc \ {tasks[t].doc} : docs'[d] = docs[d]
        /\ docs'[tasks[t].doc].status \in {"extracted", "error"} \/ docs' = docs
    BY <1>t, <1>15, <2>1, <2>2, BackfillEffect, CommitEffect
  <2> QED  BY <1>0, <1>u, <2>2, <2>3, <2>4 DEF NewHasNoRows, TargetsKnown, LocksHeld, LockPc,
       Stored, RowsOf
<1>16. ASSUME NEW t \in Task, OcrDispatch(t) PROVE NewHasNoRows'
  BY <1>0, <1>u, <1>16 DEF OcrDispatch, Ack, NewHasNoRows, TargetsKnown, LocksHeld, LockPc,
       Stored, RowsOf, DocRow, ExpRow
<1>17. ASSUME NEW t \in Task, OcrFail(t) PROVE NewHasNoRows'
  BY <1>0, <1>u, <1>17 DEF OcrFail, Ack, NewHasNoRows, TargetsKnown, LocksHeld, LockPc, Stored,
       RowsOf, DocRow, ExpRow
<1>18. ASSUME NEW t \in Task, NEW r \in Req, DeadlockVictim(t, r) PROVE NewHasNoRows'
  BY <1>0, <1>u, <1>18 DEF DeadlockVictim, Abort, Return, IdleReq, NewHasNoRows, TargetsKnown,
       LocksHeld, LockPc, Stored, RowsOf, DocRow, ExpRow
<1>19. ASSUME UNCHANGED <<docs, exps>> PROVE NewHasNoRows'
  BY <1>u, <1>19 DEF NewHasNoRows, TargetsKnown, LocksHeld, LockPc, Stored, RowsOf
<1> QED  BY <1>1, <1>2, <1>3, <1>4, <1>5, <1>6, <1>7, <1>8, <1>9, <1>10, <1>11, <1>12, <1>13,
     <1>14, <1>15, <1>16, <1>17, <1>18, <1>19
            DEF Next, RequestStep, RequestContinues, OcrStep, UserEdit, UploadBegin,
                 EnqueueCategorize, ReprocessBegin, ReprocessEnqueue, DeleteOneBegin,
                 DeleteAllBegin, OcrCheckDuplicate, WorkerLost, DeleteBegin

\* What a delivery found stands while it has the lock.
LEMMA LookupStep ==
  ASSUME BooksInv, Next
  PROVE  LookupStands'
<1>0. tasks \in [Task -> TaskRow] /\ exps \in [Exp -> ExpRow]
  BY DEF BooksInv, TypeInv, TypeOK
<1>t. TypeOK /\ ExpenseKnown /\ TargetsKnown /\ NoDoc \notin Doc
  BY PipelineAssumption DEF BooksInv, TypeInv
<1>u. LookupStands /\ LocksHeld /\ RowsLocked /\ TargetsKnown
  BY DEF BooksInv, TypeInv
<1>1. ASSUME NEW r \in Req, NEW d \in Doc, NEW manual \in BOOLEAN, UploadBegin(r, d, manual)
       PROVE LookupStands'
  BY <1>t, <1>u, <1>1, UploadBeginEffect
    DEF LookupStands, LocksHeld, LockPc, RowsLocked, TargetsKnown, Stored, RowsOf, DocFree,
         TasksQuiet
<1>2. ASSUME NEW r \in Req, UploadCommit(r) PROVE LookupStands'
  <2>1. PICK d \in Doc :
          /\ docs[d].status = "none" /\ d \in reqs[r].targets
          /\ docs'[d].status \in {"pending", "error", "gone"}
          /\ \A c \in Doc \ {d} : docs'[c] = docs[c]
          /\ \/ exps' = exps
             \/ \E e \in Exp : /\ exps[e].row = "none"
                               /\ exps'[e].row = "live" /\ exps'[e].doc = d
                               /\ \A f \in Exp \ {e} : exps'[f] = exps[f]
    BY <1>t, <1>2, UploadCommitEffect
  <2>2. /\ reqs'[r].targets = {} /\ reqs'[r].rows = {}
        /\ reqs'[r].pc \in {"idle", "ai_enqueue"}
        /\ \A q \in Req \ {r} : reqs'[q] = reqs[q]
        /\ UNCHANGED <<tasks, removed>>
    BY <1>t, <1>2, UploadCommitEffect
  <2>3. \A c \in Doc \ {d} : RowsOf(c)' \subseteq RowsOf(c)
    BY <2>1 DEF RowsOf
  <2>8. ASSUME NEW u \in Task, tasks[u].pc = "insert"
        PROVE  RowsOf(tasks[u].doc)' = {}
    <3>1. tasks[u].doc \in Doc \ {d}
      BY <1>u, <2>1, <2>8 DEF LocksHeld, LockPc, Stored
    <3> QED  BY <1>u, <2>2, <2>3, <2>8, <3>1 DEF LookupStands
  <2>9. ASSUME NEW u \in Task, tasks[u].pc \in {"reuse", "backfill"}
        PROVE  /\ exps'[tasks[u].exp].doc = tasks[u].doc
               /\ \/ exps'[tasks[u].exp].row = "live"
                  \/ exps'[tasks[u].exp].row = "gone" /\ tasks[u].doc \in removed'
    <3>1. tasks[u].exp \in Exp
      BY <1>t, <2>9 DEF ExpenseKnown
    <3> QED  BY <1>u, <2>1, <2>2, <2>9, <3>1 DEF LookupStands
  <2> QED  BY <1>u, <2>2, <2>8, <2>9 DEF LookupStands
<1>3. ASSUME NEW r \in Req, CreateManualExpense(r) PROVE LookupStands'
  <2>1. PICK e \in Exp : /\ exps[e].row = "none"
                          /\ exps'[e].row = "live" /\ exps'[e].doc = NoDoc
                          /\ \A f \in Exp \ {e} : exps'[f] = exps[f]
    BY <1>t, <1>3, CreateEffect
  <2>2. UNCHANGED <<docs, tasks, removed>>
    BY <1>t, <1>3, CreateEffect
  <2>3. \A d \in Doc : RowsOf(d)' \subseteq RowsOf(d)
    BY <1>t, <2>1 DEF RowsOf
  <2>8. ASSUME NEW u \in Task, tasks[u].pc = "insert"
        PROVE  RowsOf(tasks[u].doc)' = {}
    <3>1. tasks[u].doc \in Doc
      BY <1>u, <2>8 DEF LocksHeld, LockPc
    <3> QED  BY <1>u, <2>2, <2>3, <2>8, <3>1 DEF LookupStands
  <2>9. ASSUME NEW u \in Task, tasks[u].pc \in {"reuse", "backfill"}
        PROVE  /\ exps'[tasks[u].exp].doc = tasks[u].doc
               /\ \/ exps'[tasks[u].exp].row = "live"
                  \/ exps'[tasks[u].exp].row = "gone" /\ tasks[u].doc \in removed'
    <3>1. tasks[u].exp \in Exp
      BY <1>t, <2>9 DEF ExpenseKnown
    <3> QED  BY <1>u, <2>1, <2>2, <2>9, <3>1 DEF LookupStands
  <2> QED  BY <1>u, <2>2, <2>8, <2>9 DEF LookupStands
<1>4. ASSUME NEW r \in Req, ReprocessCommit(r) PROVE LookupStands'
  <2>1. /\ \A e \in Exp : /\ exps'[e].doc = exps[e].doc
                          /\ exps'[e].row = IF e \in reqs[r].rows THEN "gone" ELSE exps[e].row
        /\ \E d \in reqs[r].targets : DocFree(d)
        /\ reqs[r].pc = "reprocess_commit"
    BY <1>t, <1>4, ReprocessEffect
  <2>2. UNCHANGED <<tasks, removed>>
    BY <1>t, <1>4, ReprocessEffect
  <2>3. \A c \in Doc : RowsOf(c)' \subseteq RowsOf(c)
    BY <2>1 DEF RowsOf
  <2>4. \A d \in reqs[r].targets : DocFree(d)
    BY <1>u, <2>1 DEF TargetsKnown
  <2>8. ASSUME NEW u \in Task, tasks[u].pc = "insert"
        PROVE  RowsOf(tasks[u].doc)' = {}
    <3>1. tasks[u].doc \in Doc
      BY <1>u, <2>8 DEF LocksHeld, LockPc
    <3> QED  BY <1>u, <2>2, <2>3, <2>8, <3>1 DEF LookupStands
  <2>9. ASSUME NEW u \in Task, tasks[u].pc \in {"reuse", "backfill"}
        PROVE  /\ exps'[tasks[u].exp].doc = tasks[u].doc
               /\ \/ exps'[tasks[u].exp].row = "live"
                  \/ exps'[tasks[u].exp].row = "gone" /\ tasks[u].doc \in removed'
    <3>1. tasks[u].exp \in Exp
      BY <1>t, <2>9 DEF ExpenseKnown
    <3>2. tasks[u].doc \in Doc /\ Stored(tasks[u].doc) /\ ~DocFree(tasks[u].doc)
      BY <1>u, <2>9 DEF LocksHeld, LockPc, DocFree
    <3>3. exps[tasks[u].exp].doc = tasks[u].doc
      BY <1>u, <2>9 DEF LookupStands
    <3>4. tasks[u].exp \notin reqs[r].rows
      BY <1>u, <2>4, <3>2, <3>3 DEF RowsLocked
    <3> QED  BY <1>u, <2>1, <2>2, <2>9, <3>1, <3>4 DEF LookupStands
  <2> QED  BY <1>u, <2>2, <2>8, <2>9 DEF LookupStands
<1>5. ASSUME NEW r \in Req, ReprocessEnqueue(r) PROVE LookupStands'
  BY <1>t, <1>u, <1>5, EnqueueEffect
    DEF LookupStands, LocksHeld, LockPc, RowsLocked, TargetsKnown, Stored, RowsOf, DocFree,
         TasksQuiet
<1>6. ASSUME NEW r \in Req, DeleteCommit(r) PROVE LookupStands'
  <2>1. PICK D \in SUBSET Doc :
          /\ \A d \in D : DocFree(d) /\ docs'[d].status = "gone"
          /\ reqs[r].pc = "delete_commit" => D = reqs[r].targets
          /\ reqs[r].pc = "delete_all_commit" => \A d \in Doc : Stored(d) <=> d \in D
          /\ \A d \in Doc \ D : docs'[d].status = docs[d].status
          /\ \A e \in Exp :
               IF e \in reqs[r].rows THEN exps'[e].row = "gone" /\ exps'[e].doc = exps[e].doc
               ELSE IF exps[e].doc \in D
                    THEN /\ exps'[e].row = exps[e].row /\ exps'[e].doc = NoDoc
                         /\ exps[e].row = "live" => RowFree(e)
                    ELSE exps'[e] = exps[e]
    BY <1>t, <1>6, DeleteCommitEffect
  <2>2. /\ reqs'[r].pc = "idle" /\ reqs'[r].targets = {} /\ reqs'[r].rows = {}
        /\ \A q \in Req \ {r} : reqs'[q] = reqs[q]
        /\ reqs[r].pc \in {"delete_commit", "delete_all_commit"}
        /\ UNCHANGED <<tasks, removed>>
    BY <1>t, <1>6, DeleteCommitEffect
  <2>3. \A c \in Doc : RowsOf(c)' \subseteq RowsOf(c)
    BY <1>t, <2>1 DEF RowsOf
  <2>8. ASSUME NEW u \in Task, tasks[u].pc = "insert"
        PROVE  RowsOf(tasks[u].doc)' = {}
    <3>1. tasks[u].doc \in Doc
      BY <1>u, <2>8 DEF LocksHeld, LockPc
    <3> QED  BY <1>u, <2>2, <2>3, <2>8, <3>1 DEF LookupStands
  <2>9. ASSUME NEW u \in Task, tasks[u].pc \in {"reuse", "backfill"}
        PROVE  /\ exps'[tasks[u].exp].doc = tasks[u].doc
               /\ \/ exps'[tasks[u].exp].row = "live"
                  \/ exps'[tasks[u].exp].row = "gone" /\ tasks[u].doc \in removed'
    <3>1. tasks[u].exp \in Exp
      BY <1>t, <2>9 DEF ExpenseKnown
    <3>2. tasks[u].doc \in Doc /\ Stored(tasks[u].doc) /\ ~DocFree(tasks[u].doc)
      BY <1>u, <2>9 DEF LocksHeld, LockPc, DocFree
    <3>3. exps[tasks[u].exp].doc = tasks[u].doc
      BY <1>u, <2>9 DEF LookupStands
    <3>4. tasks[u].doc \notin D
      BY <2>1, <3>2
    <3>5. tasks[u].exp \notin reqs[r].rows
      <4>1. CASE reqs[r].pc = "delete_commit"
        BY <1>u, <2>1, <3>3, <3>4, <4>1 DEF RowsLocked
      <4>2. CASE reqs[r].pc = "delete_all_commit"
        BY <2>1, <3>2, <3>4, <4>2
      <4> QED  BY <2>2, <4>1, <4>2
    <3>6. exps'[tasks[u].exp] = exps[tasks[u].exp]
      BY <2>1, <3>1, <3>3, <3>4, <3>5
    <3> QED  BY <1>u, <2>2, <2>9, <3>6 DEF LookupStands
  <2> QED  BY <1>u, <2>2, <2>8, <2>9 DEF LookupStands
<1>7. ASSUME NEW e \in Exp, OverrideCategory(e) PROVE LookupStands'
  BY <1>0, <1>u, <1>7 DEF OverrideCategory, LookupStands, LocksHeld, LockPc, RowsLocked,
       TargetsKnown, Stored, RowsOf, DocFree, TaskRow, ExpRow
<1>8. ASSUME NEW S \in SUBSET Exp, RemoveExpenses(S) PROVE LookupStands'
  <2>1. /\ \A e \in S : /\ exps'[e].row = "gone" /\ exps'[e].doc = exps[e].doc
                      /\ exps[e].doc \in removed' \cup {NoDoc}
        /\ \A e \in Exp \ S : exps'[e] = exps[e]
        /\ removed \subseteq removed'
    BY <1>t, <1>8, RemoveEffect
  <2>2. UNCHANGED tasks
    BY <1>t, <1>8, RemoveEffect
  <2>3. \A c \in Doc : RowsOf(c)' \subseteq RowsOf(c)
    BY <2>1 DEF RowsOf
  <2>8. ASSUME NEW u \in Task, tasks[u].pc = "insert"
        PROVE  RowsOf(tasks[u].doc)' = {}
    <3>1. tasks[u].doc \in Doc
      BY <1>u, <2>8 DEF LocksHeld, LockPc
    <3> QED  BY <1>u, <2>2, <2>3, <2>8, <3>1 DEF LookupStands
  <2>9. ASSUME NEW u \in Task, tasks[u].pc \in {"reuse", "backfill"}
        PROVE  /\ exps'[tasks[u].exp].doc = tasks[u].doc
               /\ \/ exps'[tasks[u].exp].row = "live"
                  \/ exps'[tasks[u].exp].row = "gone" /\ tasks[u].doc \in removed'
    <3>1. tasks[u].exp \in Exp
      BY <1>t, <2>9 DEF ExpenseKnown
    <3>2. tasks[u].doc \in Doc
      BY <1>u, <2>9 DEF LocksHeld, LockPc
    <3>3. CASE tasks[u].exp \in S
      BY <1>t, <1>u, <2>1, <2>9, <3>2, <3>3 DEF LookupStands
    <3>4. CASE tasks[u].exp \notin S
      BY <1>u, <2>1, <2>9, <3>1, <3>4 DEF LookupStands
    <3> QED  BY <3>3, <3>4
  <2> QED  BY <1>u, <2>2, <2>8, <2>9 DEF LookupStands
<1>9. ASSUME NEW t \in Task, OcrStart(t) PROVE LookupStands'
  BY <1>0, <1>u, <1>9 DEF OcrStart, Ack, LookupStands, LocksHeld, LockPc, RowsLocked,
       TargetsKnown, Stored, RowsOf, DocFree, TaskRow, ExpRow
<1>10. ASSUME NEW t \in Task, NEW read \in Reading, OcrExtract(t, read) PROVE LookupStands'
  BY <1>0, <1>u, <1>10 DEF OcrExtract, Abort, LookupStands, LocksHeld, LockPc, RowsLocked,
       TargetsKnown, Stored, RowsOf, DocFree, TaskRow, ExpRow
<1>11. ASSUME NEW t \in Task, OcrSkip(t) PROVE LookupStands'
  BY <1>0, <1>u, <1>11 DEF OcrSkip, CommitDoc, Ack, LookupStands, LocksHeld, LockPc, RowsLocked,
       TargetsKnown, Stored, RowsOf, DocFree, TaskRow, ExpRow
<1>12. ASSUME NEW t \in Task, OcrCheckDuplicate(t) PROVE LookupStands'
  BY <1>t, <1>u, <1>12, CheckEffect
    DEF LookupStands, LocksHeld, LockPc, RowsLocked, TargetsKnown, Stored, RowsOf, DocFree
<1>13. ASSUME NEW t \in Task, OcrFlagDuplicate(t) PROVE LookupStands'
  BY <1>0, <1>u, <1>13 DEF OcrFlagDuplicate, Ack, Abort, LookupStands, LocksHeld, LockPc,
       RowsLocked, TargetsKnown, Stored, RowsOf, DocFree, TaskRow, ExpRow
<1>14. ASSUME NEW t \in Task, OcrLookupExpense(t) PROVE LookupStands'
  BY <1>t, <1>u, <1>14, LookupEffect, CommitEffect
    DEF LookupStands, LocksHeld, LockPc, RowsLocked, TargetsKnown, Stored, RowsOf, DocFree
<1>15. ASSUME NEW t \in Task, OcrInsertExpense(t) PROVE LookupStands'
  <2>1. PICK e \in Exp : /\ exps[e].row = "none" /\ exps'[e].doc = tasks[t].doc
                          /\ \A f \in Exp \ {e} : exps'[f] = exps[f]
    BY <1>t, <1>15, InsertEffect
  <2>2. /\ tasks[t].pc = "insert" /\ tasks'[t].pc = "dispatch" /\ removed' = removed
        /\ \A u \in Task \ {t} : tasks'[u] = tasks[u]
    BY <1>t, <1>15, InsertEffect
  <2>3. ASSUME NEW u \in Task \ {t}, tasks[u].pc = "insert"
        PROVE  RowsOf(tasks[u].doc)' = {}
    <3>1. tasks[u].doc # tasks[t].doc
      BY <1>u, <2>2, <2>3 DEF LocksHeld, LockPc
    <3> QED  BY <1>u, <2>1, <2>2, <2>3, <3>1 DEF LookupStands, RowsOf
  <2>4. ASSUME NEW u \in Task \ {t}, tasks[u].pc \in {"reuse", "backfill"}
        PROVE  exps'[tasks[u].exp] = exps[tasks[u].exp]
    <3>1. tasks[u].exp \in Exp
      BY <1>t, <2>4 DEF ExpenseKnown
    <3> QED  BY <1>u, <2>1, <2>4, <3>1 DEF LookupStands
  <2> QED  BY <1>u, <2>2, <2>3, <2>4 DEF LookupStands
<1>16. ASSUME NEW t \in Task, OcrReuseExpense(t) PROVE LookupStands'
  BY <1>0, <1>u, <1>16 DEF OcrReuseExpense, CommitDoc, LookupStands, LocksHeld, LockPc,
       RowsLocked, TargetsKnown, Stored, RowsOf, DocFree, TaskRow, ExpRow
<1>17. ASSUME NEW t \in Task, OcrBackfillExpense(t) PROVE LookupStands'
  <2>1. tasks[t].exp \in Exp
    BY <1>t, <1>17 DEF OcrBackfillExpense, ExpenseKnown
  <2>2. /\ \A u \in Task \ {t} : tasks'[u] = tasks[u]
        /\ \A e \in Exp : exps'[e].row = exps[e].row /\ exps'[e].doc = exps[e].doc
        /\ tasks'[t].pc \in {"dispatch", "acked", "aborted"} /\ removed' = removed
    BY <1>t, <1>17, <2>1, BackfillEffect
  <2>3. \A d : RowsOf(d)' = RowsOf(d)
    BY <2>2 DEF RowsOf
  <2>4. ASSUME NEW u \in Task, tasks'[u].pc \in {"skip", "insert", "reuse", "backfill"}
        PROVE  /\ tasks'[u] = tasks[u]
               /\ (tasks[u].pc \in {"reuse", "backfill"} => tasks[u].exp \in Exp)
    BY <1>t, <2>2, <2>4 DEF ExpenseKnown
  <2> QED  BY <1>u, <2>2, <2>3, <2>4 DEF LookupStands
<1>18. ASSUME NEW t \in Task, OcrDispatch(t) PROVE LookupStands'
  BY <1>0, <1>u, <1>18 DEF OcrDispatch, Ack, LookupStands, LocksHeld, LockPc, RowsLocked,
       TargetsKnown, Stored, RowsOf, DocFree, TaskRow, ExpRow
<1>19. ASSUME NEW t \in Task, OcrFail(t) PROVE LookupStands'
  BY <1>0, <1>u, <1>19 DEF OcrFail, Ack, LookupStands, LocksHeld, LockPc, RowsLocked,
       TargetsKnown, Stored, RowsOf, DocFree, TaskRow, ExpRow
<1>20. ASSUME NEW t \in Task, WorkerLost(t) PROVE LookupStands'
  BY <1>0, <1>u, <1>20 DEF WorkerLost, Queued, FreeTask, LookupStands, LocksHeld, LockPc,
       RowsLocked, TargetsKnown, Stored, RowsOf, DocFree, TaskRow, ExpRow
<1>21. ASSUME NEW t \in Task, NEW r \in Req, DeadlockVictim(t, r) PROVE LookupStands'
  BY <1>0, <1>u, <1>21 DEF DeadlockVictim, Abort, Return, IdleReq, LookupStands, LocksHeld,
       LockPc, RowsLocked, TargetsKnown, Stored, RowsOf, DocFree, TaskRow, ExpRow
<1>22. ASSUME UNCHANGED <<tasks, exps, removed>> PROVE LookupStands'
  BY <1>u, <1>22 DEF LookupStands, LocksHeld, LockPc, RowsLocked, TargetsKnown, Stored, RowsOf,
       DocFree
<1> QED  BY <1>1, <1>2, <1>3, <1>4, <1>5, <1>6, <1>7, <1>8, <1>9, <1>10, <1>11, <1>12, <1>13,
     <1>14, <1>15, <1>16, <1>17, <1>18, <1>19, <1>20, <1>21, <1>22
            DEF Next, RequestStep, RequestContinues, OcrStep, UserEdit, EnqueueCategorize,
                 ReprocessBegin, DeleteOneBegin, DeleteAllBegin, ApiCrash, DeleteBegin

\* A row is booked for a document that has none.
LEMMA OneRowStep ==
  ASSUME BooksInv, Next
  PROVE  OneExpensePerDocument'
<1>0. exps \in [Exp -> ExpRow]
  BY DEF BooksInv, TypeInv, TypeOK
<1>t. TypeOK /\ ExpenseKnown /\ TargetsKnown /\ NoDoc \notin Doc
  BY PipelineAssumption DEF BooksInv, TypeInv
<1>u. OneExpensePerDocument /\ NewHasNoRows /\ LookupStands /\ TargetsKnown
  BY DEF BooksInv, TypeInv
<1>1. ASSUME NEW r \in Req, UploadCommit(r) PROVE OneExpensePerDocument'
  BY <1>t, <1>u, <1>1, UploadCommitEffect
    DEF OneExpensePerDocument, NewHasNoRows, LookupStands, TargetsKnown, RowsOf
<1>2. ASSUME NEW r \in Req, CreateManualExpense(r) PROVE OneExpensePerDocument'
  BY <1>0, <1>u, <1>2 DEF CreateManualExpense, IdleReq, Enqueueing, NewRow,
       OneExpensePerDocument, NewHasNoRows, LookupStands, TargetsKnown, RowsOf, ExpRow
<1>3. ASSUME NEW r \in Req, ReprocessCommit(r) PROVE OneExpensePerDocument'
  BY <1>0, <1>u, <1>3 DEF ReprocessCommit, Drop, OneExpensePerDocument, NewHasNoRows,
       LookupStands, TargetsKnown, RowsOf, ExpRow
<1>4. ASSUME NEW r \in Req, DeleteCommit(r) PROVE OneExpensePerDocument'
  BY <1>0, <1>u, <1>4 DEF DeleteCommit, Return, IdleReq, OneExpensePerDocument, NewHasNoRows,
       LookupStands, TargetsKnown, RowsOf, ExpRow
<1>5. ASSUME NEW e \in Exp, OverrideCategory(e) PROVE OneExpensePerDocument'
  BY <1>0, <1>u, <1>5 DEF OverrideCategory, OneExpensePerDocument, NewHasNoRows, LookupStands,
       TargetsKnown, RowsOf, ExpRow
<1>6. ASSUME NEW S \in SUBSET Exp, RemoveExpenses(S) PROVE OneExpensePerDocument'
  BY <1>0, <1>u, <1>6 DEF RemoveExpenses, Drop, OneExpensePerDocument, NewHasNoRows,
       LookupStands, TargetsKnown, RowsOf, ExpRow
<1>7. ASSUME NEW t \in Task, OcrInsertExpense(t) PROVE OneExpensePerDocument'
  BY <1>0, <1>u, <1>7 DEF OcrInsertExpense, CommitDoc, NewRow, OneExpensePerDocument,
       NewHasNoRows, LookupStands, TargetsKnown, RowsOf, ExpRow
<1>8. ASSUME NEW t \in Task, OcrBackfillExpense(t) PROVE OneExpensePerDocument'
  <2>1. tasks[t].exp \in Exp
    BY <1>t, <1>8 DEF OcrBackfillExpense, ExpenseKnown
  <2> QED  BY <1>t, <1>u, <1>8, <2>1, BackfillEffect DEF OneExpensePerDocument
<1>9. ASSUME UNCHANGED <<exps>> PROVE OneExpensePerDocument'
  BY <1>u, <1>9 DEF OneExpensePerDocument, NewHasNoRows, LookupStands, TargetsKnown, RowsOf
<1> QED  BY <1>1, <1>2, <1>3, <1>4, <1>5, <1>6, <1>7, <1>8, <1>9
            DEF Next, RequestStep, RequestContinues, OcrStep, UserEdit, UploadBegin,
                 EnqueueCategorize, ReprocessBegin, ReprocessEnqueue, DeleteOneBegin,
                 DeleteAllBegin, ApiCrash, OcrStart, OcrExtract, OcrSkip, OcrCheckDuplicate,
                 OcrFlagDuplicate, OcrLookupExpense, OcrReuseExpense, OcrDispatch, OcrFail,
                 WorkerLost, DeadlockVictim, DeleteBegin, Abort

\* A row goes with the status of its document or by the hand of a user.
LEMMA BookedStep ==
  ASSUME BooksInv, Next
  PROVE  ExtractedIsBooked'
<1>0. docs \in [Doc -> DocRow] /\ exps \in [Exp -> ExpRow]
  BY DEF BooksInv, TypeInv, TypeOK
<1>t. TypeOK /\ ExpenseKnown /\ TargetsKnown /\ NoDoc \notin Doc
  BY PipelineAssumption DEF BooksInv, TypeInv
<1>u. ExtractedIsBooked /\ LookupStands /\ RowsLocked /\ TargetsKnown /\ LocksHeld
  BY DEF BooksInv, TypeInv
<1>1. ASSUME NEW r \in Req, UploadCommit(r) PROVE ExtractedIsBooked'
  BY <1>t, <1>u, <1>1, UploadCommitEffect
    DEF ExtractedIsBooked, LookupStands, RowsLocked, TargetsKnown, LocksHeld, LockPc, Stored,
         RowsOf, DocFree
<1>2. ASSUME NEW r \in Req, CreateManualExpense(r) PROVE ExtractedIsBooked'
  BY <1>0, <1>u, <1>2 DEF CreateManualExpense, IdleReq, Enqueueing, NewRow, ExtractedIsBooked,
       LookupStands, RowsLocked, TargetsKnown, LocksHeld, LockPc, Stored, RowsOf, DocFree,
       DocRow, ExpRow
<1>3. ASSUME NEW r \in Req, ReprocessCommit(r) PROVE ExtractedIsBooked'
  BY <1>0, <1>u, <1>3 DEF ReprocessCommit, Drop, ExtractedIsBooked, LookupStands, RowsLocked,
       TargetsKnown, LocksHeld, LockPc, Stored, RowsOf, DocFree, DocRow, ExpRow
<1>4. ASSUME NEW r \in Req, DeleteCommit(r) PROVE ExtractedIsBooked'
  BY <1>t, <1>u, <1>4, DeleteCommitEffect
    DEF ExtractedIsBooked, LookupStands, RowsLocked, TargetsKnown, LocksHeld, LockPc, Stored,
         RowsOf, DocFree
<1>5. ASSUME NEW r \in Req, ApiCrash(r) PROVE ExtractedIsBooked'
  BY <1>0, <1>u, <1>5 DEF ApiCrash, Return, IdleReq, ExtractedIsBooked, LookupStands,
       RowsLocked, TargetsKnown, LocksHeld, LockPc, Stored, RowsOf, DocFree, DocRow, ExpRow
<1>6. ASSUME NEW e \in Exp, OverrideCategory(e) PROVE ExtractedIsBooked'
  BY <1>0, <1>u, <1>6 DEF OverrideCategory, ExtractedIsBooked, LookupStands, RowsLocked,
       TargetsKnown, LocksHeld, LockPc, Stored, RowsOf, DocFree, DocRow, ExpRow
<1>7. ASSUME NEW S \in SUBSET Exp, RemoveExpenses(S) PROVE ExtractedIsBooked'
  <2>1. /\ \A e \in S : exps[e].doc \in removed' \cup {NoDoc}
        /\ \A e \in Exp \ S : exps'[e] = exps[e]
        /\ removed \subseteq removed' /\ docs' = docs
    BY <1>t, <1>7, RemoveEffect
  <2>2. ASSUME NEW d \in Doc \ (NonExpense \cup removed'), docs'[d].status = "extracted",
               ~docs'[d].isDuplicate
        PROVE  RowsOf(d)' # {}
    <3>1. PICK e \in Exp : e \in RowsOf(d)
      BY <1>u, <2>1, <2>2 DEF ExtractedIsBooked, RowsOf
    <3>2. e \notin S
      BY <1>t, <2>1, <2>2, <3>1 DEF RowsOf
    <3>3. e \in RowsOf(d)'
      BY <2>1, <3>1, <3>2 DEF RowsOf
    <3> QED  BY <3>3
  <2> QED  BY <2>2 DEF ExtractedIsBooked
<1>8. ASSUME NEW t \in Task, OcrStart(t) PROVE ExtractedIsBooked'
  BY <1>0, <1>u, <1>8 DEF OcrStart, Ack, ExtractedIsBooked, LookupStands, RowsLocked,
       TargetsKnown, LocksHeld, LockPc, Stored, RowsOf, DocFree, DocRow, ExpRow
<1>9. ASSUME NEW t \in Task, NEW read \in Reading, OcrExtract(t, read) PROVE ExtractedIsBooked'
  BY <1>0, <1>u, <1>9 DEF OcrExtract, Abort, ExtractedIsBooked, LookupStands, RowsLocked,
       TargetsKnown, LocksHeld, LockPc, Stored, RowsOf, DocFree, DocRow, ExpRow
<1>10. ASSUME NEW t \in Task, OcrSkip(t) PROVE ExtractedIsBooked'
  BY <1>0, <1>u, <1>10 DEF OcrSkip, CommitDoc, Ack, ExtractedIsBooked, LookupStands, RowsLocked,
       TargetsKnown, LocksHeld, LockPc, Stored, RowsOf, DocFree, DocRow, ExpRow
<1>11. ASSUME NEW t \in Task, OcrFlagDuplicate(t) PROVE ExtractedIsBooked'
  BY <1>0, <1>u, <1>11 DEF OcrFlagDuplicate, Ack, Abort, ExtractedIsBooked, LookupStands,
       RowsLocked, TargetsKnown, LocksHeld, LockPc, Stored, RowsOf, DocFree, DocRow, ExpRow
<1>12. ASSUME NEW t \in Task, OcrLookupExpense(t) PROVE ExtractedIsBooked'
  BY <1>0, <1>u, <1>12 DEF OcrLookupExpense, CommitDoc, Ack, ExtractedIsBooked, LookupStands,
       RowsLocked, TargetsKnown, LocksHeld, LockPc, Stored, RowsOf, DocFree, DocRow, ExpRow
<1>13. ASSUME NEW t \in Task, OcrInsertExpense(t) PROVE ExtractedIsBooked'
  BY <1>0, <1>u, <1>13 DEF OcrInsertExpense, CommitDoc, NewRow, ExtractedIsBooked, LookupStands,
       RowsLocked, TargetsKnown, LocksHeld, LockPc, Stored, RowsOf, DocFree, DocRow, ExpRow
<1>14. ASSUME NEW t \in Task, OcrReuseExpense(t) PROVE ExtractedIsBooked'
  <2>1. /\ tasks[t].pc = "reuse" /\ CommitDoc(t, "extracted") /\ UNCHANGED <<exps, removed>>
        /\ tasks[t].exp \in Exp /\ tasks[t].doc \in Doc
    BY <1>t, <1>u, <1>14 DEF OcrReuseExpense, ExpenseKnown, LocksHeld, LockPc
  <2>2. ASSUME NEW d \in Doc \ (NonExpense \cup removed'), docs'[d].status = "extracted",
               ~docs'[d].isDuplicate
        PROVE  RowsOf(d)' # {}
    <3>1. CASE d = tasks[t].doc
      BY <1>u, <2>1, <2>2, <3>1 DEF LookupStands, RowsOf
    <3>2. CASE d # tasks[t].doc
      <4>1. docs'[d] = docs[d]
        BY <1>t, <2>1, <3>2, CommitEffect
      <4> QED  BY <1>u, <2>1, <2>2, <4>1 DEF ExtractedIsBooked, RowsOf
    <3> QED  BY <3>1, <3>2
  <2> QED  BY <2>2 DEF ExtractedIsBooked
<1>15. ASSUME NEW t \in Task, OcrBackfillExpense(t) PROVE ExtractedIsBooked'
  <2>1. tasks[t].exp \in Exp
    BY <1>t, <1>15 DEF OcrBackfillExpense, ExpenseKnown
  <2>2. tasks[t].pc = "backfill" /\ tasks[t].doc \in Doc
    BY <1>u, <1>15 DEF OcrBackfillExpense, LocksHeld, LockPc
  <2>3. /\ \A e \in Exp : exps'[e].row = exps[e].row /\ exps'[e].doc = exps[e].doc
        /\ removed' = removed
    BY <1>t, <1>15, <2>1, BackfillEffect
  <2>4. \A d : RowsOf(d)' = RowsOf(d)
    BY <2>3 DEF RowsOf
  <2>5. /\ \A d \in Doc \ {tasks[t].doc} : docs'[d] = docs[d]
        /\ \/ docs' = docs
           \/ docs'[tasks[t].doc].status = "error"
           \/ exps[tasks[t].exp].row = "live"
    BY <1>t, <1>15, <2>1, <2>2, BackfillEffect, CommitEffect
  <2>6. ASSUME NEW d \in Doc \ (NonExpense \cup removed'), docs'[d].status = "extracted",
               ~docs'[d].isDuplicate
        PROVE  RowsOf(d)' # {}
    <3>1. CASE docs'[d] = docs[d]
      BY <1>u, <2>3, <2>4, <2>6, <3>1 DEF ExtractedIsBooked
    <3>2. CASE d = tasks[t].doc /\ exps[tasks[t].exp].row = "live"
      BY <1>u, <2>1, <2>2, <2>4, <3>2 DEF LookupStands, RowsOf
    <3> QED  BY <2>5, <2>6, <3>1, <3>2
  <2> QED  BY <2>6 DEF ExtractedIsBooked
<1>16. ASSUME NEW t \in Task, OcrDispatch(t) PROVE ExtractedIsBooked'
  BY <1>0, <1>u, <1>16 DEF OcrDispatch, Ack, ExtractedIsBooked, LookupStands, RowsLocked,
       TargetsKnown, LocksHeld, LockPc, Stored, RowsOf, DocFree, DocRow, ExpRow
<1>17. ASSUME NEW t \in Task, OcrFail(t) PROVE ExtractedIsBooked'
  BY <1>0, <1>u, <1>17 DEF OcrFail, Ack, ExtractedIsBooked, LookupStands, RowsLocked,
       TargetsKnown, LocksHeld, LockPc, Stored, RowsOf, DocFree, DocRow, ExpRow
<1>18. ASSUME NEW t \in Task, NEW r \in Req, DeadlockVictim(t, r) PROVE ExtractedIsBooked'
  BY <1>0, <1>u, <1>18 DEF DeadlockVictim, Abort, Return, IdleReq, ExtractedIsBooked,
       LookupStands, RowsLocked, TargetsKnown, LocksHeld, LockPc, Stored, RowsOf, DocFree,
       DocRow, ExpRow
<1>19. ASSUME UNCHANGED <<docs, exps, removed>> PROVE ExtractedIsBooked'
  BY <1>u, <1>19 DEF ExtractedIsBooked, LookupStands, RowsLocked, TargetsKnown, LocksHeld,
       LockPc, Stored, RowsOf, DocFree
<1> QED  BY <1>1, <1>2, <1>3, <1>4, <1>5, <1>6, <1>7, <1>8, <1>9, <1>10, <1>11, <1>12, <1>13,
     <1>14, <1>15, <1>16, <1>17, <1>18, <1>19
            DEF Next, RequestStep, RequestContinues, OcrStep, UserEdit, UploadBegin,
                 EnqueueCategorize, ReprocessBegin, ReprocessEnqueue, DeleteOneBegin,
                 DeleteAllBegin, OcrCheckDuplicate, WorkerLost, DeleteBegin

-----------------------------------------------------------------------------
(* The theorems *)

\* Nothing is stored and no message is on its way at the start.
LEMMA InitBooks ==
  ASSUME Init
  PROVE  BooksInv
<1>1. docs \in [Doc -> DocRow] /\ \A d \in Doc : docs[d].status = "none"
  BY DEF Init, DocRow, Status
<1>2. exps \in [Exp -> ExpRow] /\ \A e \in Exp : exps[e].row = "none"
  BY DEF Init, ExpRow
<1>3. tasks \in [Task -> TaskRow] /\ \A t \in Task : tasks[t].pc = "free"
  BY DEF Init, FreeTask, TaskRow, TaskPc, Reading
<1>4. /\ reqs \in [Req -> ReqRow]
      /\ \A r \in Req : reqs[r].pc = "idle" /\ reqs[r].targets = {} /\ reqs[r].rows = {}
  BY DEF Init, IdleReq, ReqRow, ReqPc
<1>5. TypeOK
  <2>1. aiQueue = {} /\ losses = 0 /\ removed = {} /\ raced = {}
    BY DEF Init
  <2>2. losses \in 0..MaxWorkerLoss
    BY <2>1, PipelineAssumption
  <2> QED  BY <1>1, <1>2, <1>3, <1>4, <2>1, <2>2 DEF TypeOK
<1>6. ExpenseKnown /\ LocksHeld /\ TargetsKnown /\ RowsLocked /\ LookupStands
  BY <1>3, <1>4 DEF ExpenseKnown, LocksHeld, LockPc, TargetsKnown, RowsLocked, LookupStands
<1>7. NewHasNoRows /\ OneExpensePerDocument /\ ExtractedIsBooked
  BY <1>1, <1>2 DEF NewHasNoRows, RowsOf, OneExpensePerDocument, ExtractedIsBooked
<1> QED  BY <1>5, <1>6, <1>7 DEF BooksInv, TypeInv

\* Every step of a request, a user or a delivery keeps the books.
LEMMA BooksStep ==
  ASSUME BooksInv, [Next]_vars
  PROVE  BooksInv'
<1>1. CASE Next
  <2>1. TypeOK'
    <3>1. TypeInv
      BY DEF BooksInv
    <3>2. ASSUME NEW r \in Req, RequestStep(r) \/ RequestContinues(r) PROVE TypeOK'
      BY <3>1, <3>2, RequestTypes
    <3>3. ASSUME NEW t \in Task, \/ OcrStep(t) \/ OcrFail(t) \/ WorkerLost(t)
                                 \/ \E r \in Req : DeadlockVictim(t, r)
          PROVE  TypeOK'
      BY <3>1, <3>3, OcrTypes
    <3>4. ASSUME UserEdit PROVE TypeOK'
      BY <3>1, <3>4, EditTypes DEF TypeInv
    <3> QED  BY <1>1, <3>2, <3>3, <3>4 DEF Next
  <2> QED  BY <1>1, <2>1, KnownStep, LocksStep, TargetsStep, RowsStep, NewRowsStep,
              LookupStep, OneRowStep, BookedStep DEF BooksInv, TypeInv
<1>2. CASE UNCHANGED vars
  <2>1. UNCHANGED <<docs, exps, tasks, reqs, aiQueue, losses, removed, raced>>
    BY <1>2 DEF vars
  <2>2. TypeOK' /\ ExpenseKnown' /\ LocksHeld' /\ TargetsKnown' /\ RowsLocked'
    BY <2>1 DEF BooksInv, TypeInv, TypeOK, ExpenseKnown, LocksHeld, Stored, TargetsKnown, RowsLocked
  <2>3. NewHasNoRows' /\ LookupStands' /\ OneExpensePerDocument' /\ ExtractedIsBooked'
    BY <2>1 DEF BooksInv, NewHasNoRows, LookupStands, OneExpensePerDocument, ExtractedIsBooked,
                RowsOf
  <2> QED  BY <2>2, <2>3 DEF BooksInv, TypeInv
<1> QED  BY <1>1, <1>2

\* The inductive invariant holds in every state of every instance: any number of
\* documents, requests, messages, workers and faults.
THEOREM BooksHold == Spec => []BooksInv
<1>1. Init => BooksInv
  BY InitBooks
<1>2. BooksInv /\ [Next]_vars => BooksInv'
  BY BooksStep
<1> QED  BY <1>1, <1>2, PTL DEF Spec

\* Type correctness: no step stores a status, a lock or a reference outside the
\* tables of the program.
THEOREM TypesHold == Spec => []TypeOK
<1>1. BooksInv => TypeOK
  BY DEF BooksInv, TypeInv
<1> QED  BY <1>1, BooksHold, PTL

\* A document never has two expense rows, so get_by_document never raises,
\* whatever reprocess requests, redeliveries and workers there are.
THEOREM OneExpense == Spec => []OneExpensePerDocument
<1>1. BooksInv => OneExpensePerDocument
  BY DEF BooksInv
<1> QED  BY <1>1, BooksHold, PTL

\* An extracted document that is not flagged has its expense in the books, unless
\* a user took it out: reprocess, delete and OCR together lose no purchase.
THEOREM Booked == Spec => []ExtractedIsBooked
<1>1. BooksInv => ExtractedIsBooked
  BY DEF BooksInv
<1> QED  BY <1>1, BooksHold, PTL

-----------------------------------------------------------------------------
(* One document stands for an invoice *)

\* A delivery that is past the check was past it before.
OldOriginals == \A u \in Task : Original(u)' => Original(u) /\ tasks'[u].doc = tasks[u].doc

\* The row of d claims no more than it did.
OldRow(d) ==
  Stored(d)' => /\ Stored(d)
                /\ docs[d].isDuplicate => docs'[d].isDuplicate
                /\ docs'[d].extracted => docs[d].extracted

LEMMA ClaimKept ==
  ASSUME OldOriginals, NEW d \in Doc, OldRow(d), Claims(d)'
  PROVE  Claims(d)
BY DEF OldOriginals, OldRow, Claims

LEMMA QuietOriginals ==
  ASSUME TasksQuiet
  PROVE  OldOriginals
BY DEF TasksQuiet, OldOriginals, Original

LEMMA SameRows ==
  ASSUME UNCHANGED docs, NEW d \in Doc
  PROVE  OldRow(d)
BY DEF OldRow, Stored

\* What a delivery commits, it claimed since the check.
LEMMA CommitClaims ==
  ASSUME BooksInv, NEW t \in Task, tasks[t].pc \in {"skip", "lookup", "insert", "reuse", "backfill"},
         NEW status, CommitDoc(t, status), OldOriginals,
         NEW d \in Doc \ NonExpense, Claims(d)'
  PROVE  Claims(d)
<1>1. docs \in [Doc -> DocRow] /\ tasks \in [Task -> TaskRow]
  BY DEF BooksInv, TypeInv, TypeOK
<1>2. tasks[t].doc \in Doc /\ Stored(tasks[t].doc)
  BY DEF BooksInv, LocksHeld, LockPc
<1> DEFINE all == tasks[t].read = "all"
<1>3. docs' = [docs EXCEPT ![tasks[t].doc].status = status, ![tasks[t].doc].extracted = all]
  BY DEF CommitDoc
<1>4. CASE d # tasks[t].doc
  <2>1. docs'[d] = docs[d]
    BY <1>1, <1>2, <1>3, <1>4
  <2> QED  BY <2>1, ClaimKept DEF OldRow, Stored
<1>5. CASE d = tasks[t].doc
  <2>1. docs'[d].isDuplicate = docs[d].isDuplicate /\ docs'[d].extracted = all
    BY <1>1, <1>3, <1>5 DEF DocRow
  <2>2. ~docs[d].isDuplicate
    BY <2>1 DEF Claims
  <2>3. \E u \in Task : Original(u) /\ tasks[u].doc = d
    <3>1. CASE docs'[d].extracted
      <4>1. tasks[t].pc # "skip"
        BY <1>5 DEF BooksInv, LookupStands
      <4> QED  BY <1>5, <2>1, <3>1, <4>1 DEF Original
    <3>2. CASE ~docs'[d].extracted
      BY <3>2 DEF Claims, OldOriginals
    <3> QED  BY <3>1, <3>2
  <2> QED  BY <1>2, <1>5, <2>2, <2>3 DEF Claims
<1> QED  BY <1>4, <1>5

\* No request makes a claim: an upload's document has yet to be read.
LEMMA RequestClaims ==
  ASSUME BooksInv, NEW r \in Req, RequestStep(r) \/ RequestContinues(r),
         NEW d \in Doc \ NonExpense, Claims(d)'
  PROVE  Claims(d)
<1>0. TypeOK /\ TargetsKnown /\ docs \in [Doc -> DocRow] /\ reqs \in [Req -> ReqRow]
  BY DEF BooksInv, TypeInv, TypeOK
<1>q. ASSUME UNCHANGED <<docs, tasks>> PROVE Claims(d)
  BY <1>q DEF Claims, Stored, Original
<1>1. ASSUME NEW x \in Doc, NEW manual \in BOOLEAN, UploadBegin(r, x, manual) PROVE Claims(d)
  BY <1>0, <1>1, UploadBeginEffect, QuietOriginals, SameRows, ClaimKept
<1>2. ASSUME NEW x \in Doc, ReprocessBegin(r, x) PROVE Claims(d)
  BY <1>2, <1>q DEF ReprocessBegin
<1>3. ASSUME NEW D, NEW pc, DeleteBegin(r, D, pc) PROVE Claims(d)
  BY <1>3, <1>q DEF DeleteBegin
<1>4. CASE CreateManualExpense(r)
  BY <1>4, <1>q DEF CreateManualExpense
<1>5. CASE EnqueueCategorize(r)
  BY <1>5, <1>q DEF EnqueueCategorize
<1>6. CASE ReprocessEnqueue(r)
  BY <1>0, <1>6, EnqueueEffect, QuietOriginals, SameRows, ClaimKept
<1>7. CASE ApiCrash(r)
  <2>1. tasks' = tasks /\ \A c \in Doc : docs'[c] = docs[c] \/ docs'[c].status = "gone"
    BY <1>0, <1>7 DEF ApiCrash, DocRow
  <2> QED  BY <2>1 DEF Claims, Stored, Original
<1>8. CASE UploadCommit(r)
  <2>1. tasks' = tasks
    BY <1>0, <1>8, UploadCommitEffect
  <2>2. PICK x \in reqs[r].targets :
          \/ docs' = [docs EXCEPT ![x].status = "gone"]
          \/ \E status \in {"pending", "error"} : \E dup, c : docs' = [docs EXCEPT ![x] =
               [status |-> status, isDuplicate |-> dup, duplicateOf |-> c, extracted |-> FALSE]]
    BY <1>8 DEF UploadCommit
  <2>3. x \in Doc /\ docs[x].status = "none"
    BY <1>0, <1>8 DEF TargetsKnown, ReqRow, UploadCommit
  <2>4. CASE d # x
    <3>1. docs'[d] = docs[d]
      BY <1>0, <2>2, <2>3, <2>4
    <3> QED  BY <2>1, <3>1 DEF Claims, Stored, Original
  <2>5. CASE d = x
    <3>1. docs'[d].status = "gone" \/ ~docs'[d].extracted
      BY <1>0, <2>2, <2>3, <2>5 DEF DocRow
    <3>2. \A t \in Task : ~(Original(t) /\ tasks[t].doc = d)
      BY <2>3, <2>5 DEF BooksInv, LocksHeld, LockPc, Stored, Original
    <3> QED  BY <2>1, <3>1, <3>2 DEF Claims, Stored, Original
  <2> QED  BY <2>4, <2>5
<1>9. CASE ReprocessCommit(r)
  <2>1. tasks' = tasks
    BY <1>9 DEF ReprocessCommit
  <2>2. PICK x \in reqs[r].targets :
          docs' = IF Stored(x) THEN [docs EXCEPT ![x].status = "pending"] ELSE docs
    BY <1>9 DEF ReprocessCommit
  <2>3. x \in Doc
    BY <1>0 DEF ReqRow
  <2>4. OldRow(d)
    BY <1>0, <2>2, <2>3 DEF OldRow, Stored, DocRow
  <2> QED  BY <2>1, <2>4, ClaimKept DEF OldOriginals, Original
<1>10. CASE DeleteCommit(r)
  <2>1. tasks' = tasks
    BY <1>10 DEF DeleteCommit
  <2>2. \A c \in Doc : \/ docs'[c].status = "gone"
                       \/ docs'[c] = docs[c] \/ docs'[c] = [docs[c] EXCEPT !.duplicateOf = NoDoc]
    BY <1>0, <1>10 DEF DeleteCommit, DocRow
  <2>3. docs[d] \in DocRow
    BY <1>0
  <2>4. OldRow(d)
    BY <2>2, <2>3 DEF OldRow, Stored, DocRow
  <2> QED  BY <2>1, <2>4, ClaimKept DEF OldOriginals, Original
<1> QED  BY <1>1, <1>2, <1>3, <1>4, <1>5, <1>6, <1>7, <1>8, <1>9, <1>10
            DEF RequestStep, RequestContinues, DeleteOneBegin, DeleteAllBegin

\* A delivery makes its claim when find_content_duplicate returns nothing.
LEMMA DeliveryClaims ==
  ASSUME BooksInv, NEW t \in Task,
         OcrStep(t) \/ OcrFail(t) \/ WorkerLost(t) \/ (\E r \in Req : DeadlockVictim(t, r)),
         ~OcrCheckDuplicate(t),
         NEW d \in Doc \ NonExpense, Claims(d)'
  PROVE  Claims(d)
<1>0. TypeOK /\ docs \in [Doc -> DocRow] /\ tasks \in [Task -> TaskRow]
  BY DEF BooksInv, TypeInv, TypeOK
<1>1. CASE OcrStart(t)
  <2>1. OldOriginals
    BY <1>0, <1>1 DEF OcrStart, Ack, OldOriginals, Original, TaskRow
  <2>2. OldRow(d)
    BY <1>0, <1>1 DEF OcrStart, OldRow, Stored, DocRow
  <2> QED  BY <2>1, <2>2, ClaimKept
<1>2. ASSUME NEW read \in Reading, OcrExtract(t, read) PROVE Claims(d)
  <2>1. docs' = docs
    BY <1>2 DEF OcrExtract, Abort
  <2>2. \A u \in Task \ {t} : tasks'[u] = tasks[u]
    BY <1>0, <1>2 DEF OcrExtract, Abort
  <2>3. ~Original(t)'
    BY <1>0, <1>2 DEF OcrExtract, Abort, Original, TaskRow
  <2> QED  BY <2>1, <2>2, <2>3, SameRows, ClaimKept DEF OldOriginals, Original
<1>3. CASE OcrSkip(t)
  <2>1. OldOriginals
    BY <1>0, <1>3 DEF OcrSkip, Ack, OldOriginals, Original, TaskRow
  <2> QED  BY <1>3, <2>1, CommitClaims DEF OcrSkip
<1>4. CASE OcrFlagDuplicate(t)
  <2>1. OldOriginals
    BY <1>0, <1>4 DEF OcrFlagDuplicate, Ack, Abort, OldOriginals, Original, TaskRow
  <2>2. \/ docs' = docs
        \/ docs' = [docs EXCEPT ![tasks[t].doc] =
                      [status |-> "error", isDuplicate |-> TRUE,
                       duplicateOf |-> tasks[t].dup, extracted |-> TRUE]]
    BY <1>4 DEF OcrFlagDuplicate, Abort
  <2>3. docs'[d] = docs[d] \/ docs'[d].isDuplicate
    BY <1>0, <2>2
  <2> QED  BY <2>1, <2>3, ClaimKept DEF OldRow, Stored, Claims
<1>5. CASE OcrLookupExpense(t)
  <2>1. OldOriginals
    <3>1. \A u \in Task \ {t} : tasks'[u] = tasks[u]
      BY <1>0, <1>5, LookupEffect
    <3>2. tasks'[t].read = tasks[t].read /\ tasks'[t].doc = tasks[t].doc
      BY <1>0, <1>5 DEF OcrLookupExpense, Ack, TaskRow
    <3>3. tasks[t].pc = "lookup"
      BY <1>5 DEF OcrLookupExpense
    <3> QED  BY <3>1, <3>2, <3>3 DEF OldOriginals, Original
  <2>2. docs' = docs \/ CommitDoc(t, "error")
    BY <1>5 DEF OcrLookupExpense
  <2> QED  BY <1>5, <2>1, <2>2, SameRows, ClaimKept, CommitClaims DEF OcrLookupExpense
<1>6. CASE OcrInsertExpense(t)
  <2>1. OldOriginals
    <3>1. \E e : tasks' = [tasks EXCEPT ![t].pc = "dispatch", ![t].exp = e]
      BY <1>6 DEF OcrInsertExpense
    <3> QED  BY <1>0, <3>1 DEF OldOriginals, Original, TaskRow
  <2> QED  BY <1>6, <2>1, CommitClaims DEF OcrInsertExpense
<1>7. CASE OcrReuseExpense(t)
  <2>1. OldOriginals
    BY <1>0, <1>7 DEF OcrReuseExpense, OldOriginals, Original, TaskRow
  <2> QED  BY <1>7, <2>1, CommitClaims DEF OcrReuseExpense
<1>8. CASE OcrBackfillExpense(t)
  <2>1. /\ tasks[t].pc = "backfill"
        /\ \/ tasks' = [tasks EXCEPT ![t].pc = "dispatch"] /\ CommitDoc(t, "extracted")
           \/ tasks' = [tasks EXCEPT ![t].pc = "acked"] /\ CommitDoc(t, "error")
           \/ tasks' = [tasks EXCEPT ![t].pc = "aborted"] /\ docs' = docs
    BY <1>8 DEF OcrBackfillExpense, Ack, Abort
  <2>2. OldOriginals
    BY <1>0, <2>1 DEF OldOriginals, Original, TaskRow
  <2> QED  BY <2>1, <2>2, SameRows, ClaimKept, CommitClaims
<1>9. CASE OcrDispatch(t) \/ OcrFail(t)
  <2>1. /\ tasks' = [tasks EXCEPT ![t].pc = "acked"]
        /\ docs' = docs \/ docs' = [docs EXCEPT ![tasks[t].doc].status = "error"]
        /\ docs' # docs => Stored(tasks[t].doc)
    BY <1>9 DEF OcrDispatch, OcrFail, Ack
  <2>2. OldOriginals
    BY <1>0, <2>1 DEF OldOriginals, Original, TaskRow
  <2>3. OldRow(d)
    BY <1>0, <2>1 DEF OldRow, Stored, DocRow
  <2> QED  BY <2>2, <2>3, ClaimKept
<1>10. CASE WorkerLost(t)
  <2>1. tasks' = [tasks EXCEPT ![t] = Queued(tasks[t].doc)] /\ docs' = docs
    BY <1>10 DEF WorkerLost
  <2>2. OldOriginals
    BY <1>0, <2>1 DEF OldOriginals, Original, Queued, FreeTask
  <2> QED  BY <2>1, <2>2, SameRows, ClaimKept
<1>11. ASSUME NEW r \in Req, DeadlockVictim(t, r) PROVE Claims(d)
  BY <1>0, <1>11, DeadlockEffect, QuietOriginals, SameRows, ClaimKept
<1> QED  BY <1>1, <1>2, <1>3, <1>4, <1>5, <1>6, <1>7, <1>8, <1>9, <1>10, <1>11 DEF OcrStep

\* The check lets a document claim its invoice only against documents whose deliveries are
\* past the check as well, and these pairs are the ones that race.
LEMMA CheckClaims ==
  ASSUME BooksInv, OneClaim, NEW t \in Task, OcrCheckDuplicate(t)
  PROVE  OneClaim'
<1>0. TypeOK /\ tasks \in [Task -> TaskRow]
  BY DEF BooksInv, TypeInv, TypeOK
<1>1. /\ tasks[t].pc = "check" /\ tasks'[t].doc = tasks[t].doc /\ UNCHANGED docs
      /\ \A u \in Task \ {t} : tasks'[u] = tasks[u]
  BY <1>0, CheckEffect
<1>2. raced \subseteq raced'
  BY DEF OcrCheckDuplicate
<1> DEFINE new == tasks[t].doc
<1>3. ASSUME NEW d \in Doc, d # new, Claims(d)' PROVE Claims(d)
  BY <1>1, <1>3 DEF Claims, Stored, Original
<1>4. CASE ContentMatches(new) # {}
  <2>1. ~Original(t)'
    <3>1. \E c : tasks' = [tasks EXCEPT ![t].pc = "flag", ![t].dup = c]
      BY <1>4 DEF OcrCheckDuplicate
    <3> QED  BY <1>0, <3>1 DEF Original, TaskRow
  <2>2. ASSUME NEW d \in Doc, Claims(d)' PROVE Claims(d)
    BY <1>1, <2>1, <2>2 DEF Claims, Stored, Original
  <2> QED  BY <1>2, <2>2 DEF OneClaim
<1>5. CASE ContentMatches(new) = {}
  <2>1. raced' = raced \cup Racing(new)
    BY <1>5 DEF OcrCheckDuplicate
  <2>2. ASSUME NEW c \in Doc, c # new, Claims(c), <<new, c>> \in SameInvoice,
               <<c, new>> \in SameInvoice
        PROVE  <<new, c>> \in raced' /\ <<c, new>> \in raced'
    <3>1. ~docs[c].extracted
      BY <1>5, <2>2 DEF ContentMatches, Claims
    <3>2. PICK u \in Task : Original(u) /\ tasks[u].doc = c
      BY <2>2, <3>1 DEF Claims
    <3> QED  BY <2>1, <2>2, <3>2 DEF Racing
  <2>3. ASSUME NEW c \in Doc \ NonExpense, NEW d \in Doc \ NonExpense,
               <<c, d>> \in SameInvoice \ raced', c # d, Claims(c)', Claims(d)'
        PROVE  FALSE
    <3>1. <<d, c>> \in SameInvoice
      BY <2>3, PipelineAssumption
    <3>2. CASE c = new
      BY <1>3, <2>2, <2>3, <3>1, <3>2
    <3>3. CASE d = new
      BY <1>3, <2>2, <2>3, <3>1, <3>3
    <3>4. CASE c # new /\ d # new
      BY <1>2, <1>3, <2>3, <3>4 DEF OneClaim
    <3> QED  BY <3>2, <3>3, <3>4
  <2> QED  BY <2>3 DEF OneClaim
<1> QED  BY <1>4, <1>5

LEMMA ClaimStep ==
  ASSUME BooksInv, OneClaim, [Next]_vars
  PROVE  OneClaim'
<1>1. CASE \E t \in Task : OcrCheckDuplicate(t)
  BY <1>1, CheckClaims
<1>2. ASSUME raced' = raced, \A d \in Doc \ NonExpense : Claims(d)' => Claims(d) PROVE OneClaim'
  BY <1>2 DEF OneClaim
<1>3. ASSUME NEW r \in Req, RequestStep(r) \/ RequestContinues(r) PROVE OneClaim'
  <2>1. raced' = raced
    BY <1>3 DEF RequestStep, RequestContinues, UploadBegin, ReprocessBegin, DeleteOneBegin,
         DeleteBegin, CreateManualExpense, DeleteAllBegin, ApiCrash, UploadCommit,
         EnqueueCategorize, ReprocessCommit, ReprocessEnqueue, DeleteCommit
  <2> QED  BY <1>2, <1>3, <2>1, RequestClaims
<1>4. CASE UserEdit
  <2>1. UNCHANGED <<docs, tasks, raced>>
    BY <1>4 DEF UserEdit, OverrideCategory, RemoveExpenses
  <2> QED  BY <1>2, <2>1 DEF Claims, Stored, Original
<1>5. ASSUME NEW t \in Task, ~OcrCheckDuplicate(t),
             OcrStep(t) \/ OcrFail(t) \/ WorkerLost(t) \/ (\E r \in Req : DeadlockVictim(t, r))
      PROVE  OneClaim'
  <2>1. raced' = raced
    BY <1>5 DEF OcrStep, OcrStart, OcrExtract, OcrSkip, OcrFlagDuplicate, OcrLookupExpense,
         OcrInsertExpense, OcrReuseExpense, OcrBackfillExpense, OcrDispatch, OcrFail, WorkerLost,
         DeadlockVictim
  <2> QED  BY <1>2, <1>5, <2>1, DeliveryClaims
<1>6. CASE UNCHANGED vars
  BY <1>2, <1>6 DEF vars, Claims, Stored, Original
<1> QED  BY <1>1, <1>3, <1>4, <1>5, <1>6 DEF Next

\* A purchase counts once: of two documents of one invoice one is flagged, with any number of
\* workers, unless the two deliveries both looked before either had committed.
THEOREM CountedOnce == Spec => []InvoiceCountedOnce
<1>1. Init => OneClaim
  BY DEF Init, OneClaim, Claims, Stored
<1>2. BooksInv /\ OneClaim /\ [Next]_vars => OneClaim'
  BY ClaimStep
<1>3. OneClaim => InvoiceCountedOnce
  BY DEF OneClaim, Claims, InvoiceCountedOnce
<1> QED  BY <1>1, <1>2, <1>3, BooksHold, PTL DEF Spec

-----------------------------------------------------------------------------
(* No document is left in "ocr_processing" *)

\* What a step must do for ProcessingHasDelivery: bring no document to
\* "ocr_processing", and end a delivery only with another status of its document.
LEMMA Carried ==
  ASSUME ProcessingHasDelivery,
         \A d \in Doc : docs'[d].status = "ocr_processing" => docs[d].status = "ocr_processing",
         \A u \in Task : Undecided(u) =>
           /\ tasks'[u].doc = tasks[u].doc
           /\ Undecided(u)' \/ docs'[tasks[u].doc].status # "ocr_processing"
  PROVE  ProcessingHasDelivery'
<1> SUFFICES ASSUME NEW d \in Doc, docs'[d].status = "ocr_processing"
             PROVE  \E u \in Task : tasks'[u].doc = d /\ Undecided(u)'
  BY DEF ProcessingHasDelivery
<1>1. PICK u \in Task : tasks[u].doc = d /\ Undecided(u)
  BY DEF ProcessingHasDelivery
<1> QED  BY <1>1

\* The same of the one delivery that moves
LEMMA CarriedByOne ==
  ASSUME ProcessingHasDelivery, NEW t \in Task,
         \A u \in Task \ {t} : tasks'[u] = tasks[u],
         tasks'[t].doc = tasks[t].doc,
         \A d \in Doc : docs'[d].status = "ocr_processing" => docs[d].status = "ocr_processing",
         Undecided(t)' \/ docs'[tasks[t].doc].status # "ocr_processing"
  PROVE  ProcessingHasDelivery'
<1>1. ASSUME NEW u \in Task, Undecided(u)
      PROVE  /\ tasks'[u].doc = tasks[u].doc
             /\ Undecided(u)' \/ docs'[tasks[u].doc].status # "ocr_processing"
  <2>1. CASE u = t
    BY <2>1
  <2>2. CASE u # t
    BY <1>1, <2>2 DEF Undecided
  <2> QED  BY <2>1, <2>2
<1> QED  BY <1>1, Carried

\* A message is published on a free slot, which is no delivery.
LEMMA PublishKeeps ==
  ASSUME TypeOK, NEW d \in Doc, Publish(d)
  PROVE  \A u \in Task : Undecided(u) => tasks'[u] = tasks[u]
BY DEF TypeOK, Publish, Undecided, LockPc

\* The commit of a delivery writes to its document alone.
LEMMA CommitKeeps ==
  ASSUME TypeOK, NEW t \in Task, tasks[t].doc \in Doc, NEW status \in Status \ {"ocr_processing"},
         CommitDoc(t, status)
  PROVE  /\ \A d \in Doc : docs'[d].status = "ocr_processing" => docs[d].status = "ocr_processing"
         /\ docs'[tasks[t].doc].status # "ocr_processing"
<1> DEFINE extracted == tasks[t].read = "all"
<1>1. docs' = [docs EXCEPT ![tasks[t].doc].status = status,
                           ![tasks[t].doc].extracted = extracted]
  BY DEF CommitDoc
<1> HIDE DEF extracted
<1>2. docs \in [Doc -> DocRow]
  BY DEF TypeOK
<1>3. docs'[tasks[t].doc].status = status /\ \A d \in Doc \ {tasks[t].doc} : docs'[d] = docs[d]
  BY <1>1, <1>2 DEF DocRow
<1> QED  BY <1>3

\* The requests and the users bring no document to "ocr_processing" and leave
\* every delivery as it is.
LEMMA RequestsKeepDeliveries ==
  ASSUME BooksInv, ProcessingHasDelivery,
         UserEdit \/ \E r \in Req : RequestStep(r) \/ RequestContinues(r)
  PROVE  ProcessingHasDelivery'
<1>t. TypeOK /\ TargetsKnown /\ docs \in [Doc -> DocRow] /\ reqs \in [Req -> ReqRow]
  BY DEF BooksInv, TypeInv, TypeOK
<1> DEFINE
  Keeps == /\ \A d \in Doc : docs'[d].status = "ocr_processing" => docs[d].status = "ocr_processing"
           /\ \A u \in Task : Undecided(u) => tasks'[u] = tasks[u]
<1>1. ASSUME NEW r \in Req, NEW d \in Doc, NEW manual \in BOOLEAN, UploadBegin(r, d, manual)
      PROVE  Keeps
  <2>1. docs' = docs /\ (Publish(d) \/ tasks' = tasks)
    BY <1>1 DEF UploadBegin
  <2> QED  BY <1>t, <2>1, PublishKeeps
<1>2. ASSUME NEW r \in Req, ReprocessEnqueue(r) PROVE Keeps
  <2>1. docs' = docs /\ (tasks' = tasks \/ \E d \in reqs[r].targets : Publish(d))
    BY <1>2 DEF ReprocessEnqueue
  <2>2. reqs[r].targets \subseteq Doc
    BY <1>t DEF ReqRow
  <2> QED  BY <1>t, <2>1, <2>2, PublishKeeps
<1>3. ASSUME NEW r \in Req, UploadCommit(r) PROVE Keeps
  <2>1. PICK d \in Doc : /\ docs'[d].status \in {"pending", "error", "gone"}
                         /\ \A c \in Doc \ {d} : docs'[c] = docs[c]
                         /\ tasks' = tasks
    BY <1>t, <1>3, UploadCommitEffect
  <2>2. \A c \in Doc : docs'[c] = docs[c] \/ docs'[c].status \in {"pending", "error", "gone"}
    BY <2>1
  <2> QED  BY <2>1, <2>2
<1>4. ASSUME NEW r \in Req, ReprocessCommit(r) PROVE Keeps
  BY <1>t, <1>4 DEF ReprocessCommit, DocRow
<1>5. ASSUME NEW r \in Req, DeleteCommit(r) PROVE Keeps
  <2>1. PICK D \in SUBSET Doc : /\ \A d \in D : docs'[d].status = "gone"
                                /\ \A d \in Doc \ D : docs'[d].status = docs[d].status
    BY <1>t, <1>5, DeleteCommitEffect
  <2>2. \A d \in Doc : docs'[d].status \in {"gone", docs[d].status}
    BY <2>1
  <2>3. tasks' = tasks
    BY <1>5 DEF DeleteCommit
  <2> QED  BY <2>2, <2>3
<1>6. ASSUME NEW r \in Req, ApiCrash(r) PROVE Keeps
  BY <1>t, <1>6 DEF ApiCrash, DocRow
<1>7. ASSUME UNCHANGED <<docs, tasks>> PROVE Keeps
  BY <1>7
<1>8. Keeps
  BY <1>1, <1>2, <1>3, <1>4, <1>5, <1>6, <1>7
     DEF UserEdit, OverrideCategory, RemoveExpenses, RequestStep, RequestContinues, ReprocessBegin,
         DeleteOneBegin, DeleteAllBegin, DeleteBegin, CreateManualExpense, EnqueueCategorize
<1>9. \A u \in Task : Undecided(u) => tasks'[u].doc = tasks[u].doc /\ Undecided(u)'
  BY <1>8 DEF Undecided
<1> QED  BY <1>8, <1>9, Carried

\* OcrStart alone brings a document to "ocr_processing", and its delivery with it.
LEMMA DeliveryStep ==
  ASSUME BooksInv, ProcessingHasDelivery, Next
  PROVE  ProcessingHasDelivery'
<1>0. TypeOK /\ docs \in [Doc -> DocRow] /\ tasks \in [Task -> TaskRow]
  BY DEF BooksInv, TypeInv, TypeOK
<1>k. ExpenseKnown /\ LocksHeld
  BY DEF BooksInv, TypeInv
<1>1. ASSUME NEW t \in Task, OcrStart(t) PROVE ProcessingHasDelivery'
  <2>1. CASE Stored(tasks[t].doc)
    <3>1. /\ docs' = [docs EXCEPT ![tasks[t].doc].status = "ocr_processing"]
          /\ tasks' = [tasks EXCEPT ![t].pc = "ocr"]
      BY <1>1, <2>1 DEF OcrStart
    <3>2. /\ tasks'[t].doc = tasks[t].doc /\ tasks'[t].pc = "ocr"
          /\ \A u \in Task \ {t} : tasks'[u] = tasks[u]
      BY <1>0, <3>1 DEF TaskRow
    <3>3. \A d \in Doc \ {tasks[t].doc} : docs'[d] = docs[d]
      BY <1>0, <3>1
    <3>4. \A u \in Task : Undecided(u) => tasks'[u].doc = tasks[u].doc /\ Undecided(u)'
      BY <3>2 DEF Undecided
    <3>5. ASSUME NEW d \in Doc, docs'[d].status = "ocr_processing"
          PROVE  \E u \in Task : tasks'[u].doc = d /\ Undecided(u)'
      <4>1. CASE d = tasks[t].doc
        BY <3>2, <4>1 DEF Undecided
      <4>2. CASE d # tasks[t].doc
        BY <3>3, <3>4, <3>5, <4>2 DEF ProcessingHasDelivery
      <4> QED  BY <4>1, <4>2
    <3> QED  BY <3>5 DEF ProcessingHasDelivery
  <2>2. CASE ~Stored(tasks[t].doc)
    <3>1. docs' = docs /\ tasks' = [tasks EXCEPT ![t].pc = "acked"]
      BY <1>1, <2>2 DEF OcrStart, Ack
    <3>2. /\ tasks'[t].doc = tasks[t].doc
          /\ \A u \in Task \ {t} : tasks'[u] = tasks[u]
      BY <1>0, <3>1 DEF TaskRow
    <3>3. docs[tasks[t].doc].status # "ocr_processing"
      BY <2>2 DEF Stored
    <3> QED  BY <3>1, <3>2, <3>3, CarriedByOne
  <2> QED  BY <2>1, <2>2
<1>2. ASSUME NEW t \in Task, NEW read \in Reading, OcrExtract(t, read)
      PROVE  ProcessingHasDelivery'
  <2>1. /\ tasks'[t].doc = tasks[t].doc /\ tasks'[t].pc \in LockPc \cup {"aborted"}
        /\ \A u \in Task \ {t} : tasks'[u] = tasks[u]
        /\ docs' = docs
    BY <1>0, <1>2 DEF OcrExtract, Abort, TaskRow, LockPc
  <2> QED  BY <2>1, CarriedByOne DEF Undecided
<1>3. ASSUME NEW t \in Task, NEW status \in {"extracted", "error"},
             tasks[t].pc \in LockPc, CommitDoc(t, status), NEW pc \in {"acked", "dispatch"},
             tasks' = [tasks EXCEPT ![t].pc = pc]
      PROVE  ProcessingHasDelivery'
  <2>1. /\ \A d \in Doc : docs'[d].status = "ocr_processing" => docs[d].status = "ocr_processing"
        /\ docs'[tasks[t].doc].status # "ocr_processing"
    BY <1>0, <1>k, <1>3, CommitKeeps DEF LocksHeld, Status
  <2>2. tasks'[t].doc = tasks[t].doc /\ \A u \in Task \ {t} : tasks'[u] = tasks[u]
    BY <1>0, <1>3 DEF TaskRow
  <2> QED  BY <2>1, <2>2, CarriedByOne
<1>4. ASSUME NEW t \in Task, OcrSkip(t) PROVE ProcessingHasDelivery'
  BY <1>3, <1>4 DEF OcrSkip, Ack, LockPc
<1>5. ASSUME NEW t \in Task, OcrCheckDuplicate(t) PROVE ProcessingHasDelivery'
  BY <1>0, <1>5, CheckEffect, CarriedByOne DEF Undecided, LockPc
<1>6. ASSUME NEW t \in Task, OcrFlagDuplicate(t) PROVE ProcessingHasDelivery'
  <2>1. /\ tasks'[t].doc = tasks[t].doc
        /\ \A u \in Task \ {t} : tasks'[u] = tasks[u]
    BY <1>0, <1>6 DEF OcrFlagDuplicate, Ack, Abort, TaskRow
  <2>2. tasks[t].doc \in Doc
    BY <1>k, <1>6 DEF OcrFlagDuplicate, LocksHeld, LockPc
  <2>3. CASE Stored(tasks[t].dup)
    <3>1. PICK x : x.status = "error" /\ docs' = [docs EXCEPT ![tasks[t].doc] = x]
      BY <1>6, <2>3 DEF OcrFlagDuplicate
    <3>2. docs'[tasks[t].doc].status = "error" /\ \A d \in Doc \ {tasks[t].doc} : docs'[d] = docs[d]
      BY <1>0, <2>2, <3>1
    <3> QED  BY <2>1, <3>2, CarriedByOne
  <2>4. CASE ~Stored(tasks[t].dup)
    <3>1. docs' = docs /\ tasks'[t].pc = "aborted"
      BY <1>0, <1>6, <2>4 DEF OcrFlagDuplicate, Abort, TaskRow
    <3> QED  BY <2>1, <3>1, CarriedByOne DEF Undecided
  <2> QED  BY <2>3, <2>4
<1>7. ASSUME NEW t \in Task, OcrLookupExpense(t) PROVE ProcessingHasDelivery'
  <2>1. /\ tasks[t].pc = "lookup" /\ tasks'[t].doc = tasks[t].doc
        /\ \A u \in Task \ {t} : tasks'[u] = tasks[u]
        /\ \/ tasks'[t].pc \in {"insert", "reuse", "backfill"} /\ docs' = docs
           \/ tasks'[t].pc = "acked" /\ CommitDoc(t, "error")
    BY <1>0, <1>7, LookupEffect
  <2>2. CASE docs' = docs /\ tasks'[t].pc \in {"insert", "reuse", "backfill"}
    BY <2>1, <2>2, CarriedByOne DEF Undecided, LockPc
  <2>3. CASE CommitDoc(t, "error")
    <3>1. tasks[t].doc \in Doc
      BY <1>k, <2>1 DEF LocksHeld, LockPc
    <3>2. /\ \A d \in Doc : docs'[d].status = "ocr_processing" => docs[d].status = "ocr_processing"
          /\ docs'[tasks[t].doc].status # "ocr_processing"
      BY <1>0, <2>3, <3>1, CommitKeeps DEF Status
    <3> QED  BY <2>1, <3>2, CarriedByOne
  <2> QED  BY <2>1, <2>2, <2>3
<1>8. ASSUME NEW t \in Task, OcrInsertExpense(t) PROVE ProcessingHasDelivery'
  <2>1. PICK e \in Exp : tasks' = [tasks EXCEPT ![t].pc = "dispatch", ![t].exp = e]
    BY <1>8 DEF OcrInsertExpense
  <2>2. tasks'[t].doc = tasks[t].doc /\ \A u \in Task \ {t} : tasks'[u] = tasks[u]
    BY <1>0, <2>1 DEF TaskRow
  <2>3. CommitDoc(t, "extracted") /\ tasks[t].doc \in Doc
    BY <1>k, <1>8 DEF OcrInsertExpense, LocksHeld, LockPc
  <2>4. /\ \A d \in Doc : docs'[d].status = "ocr_processing" => docs[d].status = "ocr_processing"
        /\ docs'[tasks[t].doc].status # "ocr_processing"
    BY <1>0, <2>3, CommitKeeps DEF Status
  <2> QED  BY <2>2, <2>4, CarriedByOne
<1>9. ASSUME NEW t \in Task, OcrReuseExpense(t) PROVE ProcessingHasDelivery'
  BY <1>3, <1>9 DEF OcrReuseExpense, LockPc
<1>10. ASSUME NEW t \in Task, OcrBackfillExpense(t) PROVE ProcessingHasDelivery'
  <2>1. tasks[t].exp \in Exp /\ tasks[t].doc \in Doc
    BY <1>k, <1>10 DEF OcrBackfillExpense, ExpenseKnown, LocksHeld, LockPc
  <2>2. /\ tasks'[t].doc = tasks[t].doc /\ \A u \in Task \ {t} : tasks'[u] = tasks[u]
        /\ \/ \E status \in {"extracted", "error"} : CommitDoc(t, status)
           \/ tasks'[t].pc = "aborted" /\ docs' = docs
    BY <1>0, <1>10, <2>1, BackfillEffect
  <2>3. CASE \E status \in {"extracted", "error"} : CommitDoc(t, status)
    <3>1. /\ \A d \in Doc : docs'[d].status = "ocr_processing" => docs[d].status = "ocr_processing"
          /\ docs'[tasks[t].doc].status # "ocr_processing"
      BY <1>0, <2>1, <2>3, CommitKeeps DEF Status
    <3> QED  BY <2>2, <3>1, CarriedByOne
  <2>4. CASE tasks'[t].pc = "aborted" /\ docs' = docs
    BY <2>2, <2>4, CarriedByOne DEF Undecided
  <2> QED  BY <2>2, <2>3, <2>4
<1>11. ASSUME NEW t \in Task, OcrDispatch(t) PROVE ProcessingHasDelivery'
  <2>1. /\ tasks[t].pc = "dispatch" /\ tasks'[t].doc = tasks[t].doc
        /\ \A u \in Task \ {t} : tasks'[u] = tasks[u]
    BY <1>0, <1>11 DEF OcrDispatch, Ack, TaskRow
  <2>2. \A d \in Doc : docs'[d].status = "ocr_processing" => docs[d].status = "ocr_processing"
    BY <1>0, <1>11 DEF OcrDispatch, DocRow
  <2>3. \A u \in Task : Undecided(u) => u # t
    BY <2>1 DEF Undecided, LockPc
  <2>4. \A u \in Task : Undecided(u) => tasks'[u].doc = tasks[u].doc /\ Undecided(u)'
    BY <2>1, <2>3 DEF Undecided
  <2> QED  BY <2>2, <2>4, Carried
<1>12. ASSUME NEW t \in Task, OcrFail(t) PROVE ProcessingHasDelivery'
  <2>1. /\ tasks'[t].doc = tasks[t].doc
        /\ \A u \in Task \ {t} : tasks'[u] = tasks[u]
    BY <1>0, <1>12 DEF OcrFail, Ack, TaskRow
  <2>2. \A d \in Doc : docs'[d].status = "ocr_processing" => docs[d].status = "ocr_processing"
    BY <1>0, <1>12 DEF OcrFail, DocRow
  <2>3. tasks[t].doc \in Doc => docs'[tasks[t].doc].status # "ocr_processing"
    BY <1>0, <1>12 DEF OcrFail, Stored, DocRow
  <2>4. ASSUME NEW d \in Doc, docs'[d].status = "ocr_processing"
        PROVE  \E u \in Task : tasks'[u].doc = d /\ Undecided(u)'
    <3>1. PICK u \in Task : tasks[u].doc = d /\ Undecided(u)
      BY <2>2, <2>4 DEF ProcessingHasDelivery
    <3>2. u # t
      BY <2>3, <2>4, <3>1
    <3> QED  BY <2>1, <3>1, <3>2 DEF Undecided
  <2> QED  BY <2>4 DEF ProcessingHasDelivery
<1>13. ASSUME NEW t \in Task, WorkerLost(t) PROVE ProcessingHasDelivery'
  <2>1. tasks' = [tasks EXCEPT ![t] = Queued(tasks[t].doc)] /\ docs' = docs
    BY <1>13 DEF WorkerLost
  <2>2. Queued(tasks[t].doc).pc = "queued" /\ Queued(tasks[t].doc).doc = tasks[t].doc
    BY DEF Queued, FreeTask
  <2>3. /\ tasks'[t].doc = tasks[t].doc /\ tasks'[t].pc = "queued"
        /\ \A u \in Task \ {t} : tasks'[u] = tasks[u]
    BY <1>0, <2>1, <2>2
  <2> QED  BY <2>1, <2>3, CarriedByOne DEF Undecided
<1>14. ASSUME NEW t \in Task, NEW r \in Req, DeadlockVictim(t, r) PROVE ProcessingHasDelivery'
  <2>1. \/ /\ tasks'[t].doc = tasks[t].doc /\ tasks'[t].pc = "aborted"
           /\ \A u \in Task \ {t} : tasks'[u] = tasks[u]
           /\ docs' = docs
        \/ UNCHANGED <<docs, tasks>>
    BY <1>0, <1>14 DEF DeadlockVictim, Abort, TaskRow
  <2>2. CASE UNCHANGED <<docs, tasks>>
    BY <2>2 DEF ProcessingHasDelivery, Undecided
  <2> QED  BY <2>1, <2>2, CarriedByOne DEF Undecided
<1> QED  BY <1>1, <1>2, <1>4, <1>5, <1>6, <1>7, <1>8, <1>9, <1>10, <1>11, <1>12, <1>13, <1>14,
            RequestsKeepDeliveries DEF Next, OcrStep

\* No document stays in "ocr_processing" without a delivery to move it on or one
\* the database has aborted, however workers are lost and requests interleave.
THEOREM Delivered == Spec => []ProcessingHasDelivery
<1>1. Init => ProcessingHasDelivery
  BY DEF Init, ProcessingHasDelivery
<1>2. BooksInv /\ ProcessingHasDelivery /\ [Next]_vars => ProcessingHasDelivery'
  BY DeliveryStep DEF vars, ProcessingHasDelivery, Undecided
<1> QED  BY <1>1, <1>2, BooksHold, PTL DEF Spec

-----------------------------------------------------------------------------
(* The rows the user has overridden *)

\* Of the rows a reprocess request is about to delete none is overridden: the
\* rows it has locked cannot be edited before it commits.
AutomaticLocked ==
  \A r \in Req : reqs[r].pc = "reprocess_commit" => \A e \in reqs[r].rows : ~exps[e].overridden

\* What a step must do for AutomaticLocked: override no row that is locked, and
\* lock none that is overridden.
LEMMA StillAutomatic ==
  ASSUME AutomaticLocked, NEW r \in Req,
         \A q \in Req \ {r} : reqs'[q] = reqs[q],
         \A q \in Req : \A e \in reqs[q].rows : exps'[e].overridden = exps[e].overridden,
         reqs'[r].pc = "reprocess_commit" => \A e \in reqs'[r].rows : ~exps'[e].overridden
  PROVE  AutomaticLocked'
BY DEF AutomaticLocked

\* A step that ends a request, or that changes none, and leaves the locked rows
\* as they are.
LEMMA QuietAutomatic ==
  ASSUME AutomaticLocked, ReqsQuiet,
         \A q \in Req : \A e \in reqs[q].rows : exps'[e].overridden = exps[e].overridden
  PROVE  AutomaticLocked'
BY DEF AutomaticLocked, ReqsQuiet

\* Every step keeps the overridden rows out of the DELETE of a reprocess request.
LEMMA AutomaticStep ==
  ASSUME BooksInv, AutomaticLocked, [Next]_vars
  PROVE  AutomaticLocked'
<1>0. /\ TypeOK /\ TargetsKnown
      /\ exps \in [Exp -> ExpRow] /\ reqs \in [Req -> ReqRow]
  BY DEF BooksInv, TypeInv, TypeOK
<1>k. \A r \in Req : \A e \in reqs[r].rows : e \in Exp /\ exps[e].row = "live"
  BY <1>0 DEF BooksInv, RowsLocked, ReqRow
<1>e. ExpenseKnown
  BY DEF BooksInv, TypeInv
<1>1. ASSUME NEW r \in Req, NEW d \in Doc, NEW manual \in BOOLEAN, UploadBegin(r, d, manual)
      PROVE  AutomaticLocked'
  <2>1. exps' = exps /\ reqs'[r].pc = "upload_commit" /\ \A q \in Req \ {r} : reqs'[q] = reqs[q]
    BY <1>0, <1>1, UploadBeginEffect
  <2> QED  BY <2>1, StillAutomatic
<1>2. ASSUME NEW r \in Req, UploadCommit(r) PROVE AutomaticLocked'
  <2>1. /\ reqs'[r].pc # "reprocess_commit" /\ \A q \in Req \ {r} : reqs'[q] = reqs[q]
        /\ \/ exps' = exps
           \/ \E e \in Exp : exps[e].row = "none" /\ \A f \in Exp \ {e} : exps'[f] = exps[f]
    BY <1>0, <1>2, UploadCommitEffect
  <2>2. \A q \in Req : \A e \in reqs[q].rows : exps'[e] = exps[e]
    BY <1>k, <2>1
  <2> QED  BY <2>1, <2>2, StillAutomatic
<1>3. ASSUME NEW r \in Req, CreateManualExpense(r) PROVE AutomaticLocked'
  <2>1. /\ reqs'[r].pc # "reprocess_commit" /\ \A q \in Req \ {r} : reqs'[q] = reqs[q]
        /\ \E e \in Exp : exps[e].row = "none" /\ \A f \in Exp \ {e} : exps'[f] = exps[f]
    BY <1>0, <1>3, CreateEffect
  <2>2. \A q \in Req : \A e \in reqs[q].rows : exps'[e] = exps[e]
    BY <1>k, <2>1
  <2> QED  BY <2>1, <2>2, StillAutomatic
<1>4. ASSUME NEW r \in Req, EnqueueCategorize(r) PROVE AutomaticLocked'
  <2>1. exps' = exps /\ ReqsQuiet
    BY <1>0, <1>4 DEF EnqueueCategorize, Return, IdleReq, ReqsQuiet
  <2> QED  BY <2>1, QuietAutomatic
<1>5. ASSUME NEW r \in Req, NEW d \in Doc, ReprocessBegin(r, d) PROVE AutomaticLocked'
  <2> DEFINE rows == {e \in RowsOf(d) : ~exps[e].overridden}
  <2>1. reqs' = [reqs EXCEPT ![r] = Deleting("reprocess_commit", {d}, rows)] /\ exps' = exps
    BY <1>5 DEF ReprocessBegin
  <2>2. Deleting("reprocess_commit", {d}, rows).rows = rows
    BY DEF Deleting, IdleReq
  <2>3. \A e \in rows : ~exps[e].overridden
    OBVIOUS
  <2> HIDE DEF rows
  <2>4. reqs'[r].rows = rows /\ \A q \in Req \ {r} : reqs'[q] = reqs[q]
    BY <1>0, <2>1, <2>2
  <2> QED  BY <2>1, <2>3, <2>4, StillAutomatic
<1>6. ASSUME NEW r \in Req, ReprocessCommit(r) PROVE AutomaticLocked'
  <2>1. /\ reqs'[r].pc = "reprocess_enqueue" /\ \A q \in Req \ {r} : reqs'[q] = reqs[q]
    BY <1>0, <1>6, ReprocessEffect
  <2>2. \A e \in Exp : exps'[e].overridden = exps[e].overridden
    BY <1>0, <1>6 DEF ReprocessCommit, Drop, ExpRow
  <2> QED  BY <1>k, <2>1, <2>2, StillAutomatic
<1>7. ASSUME NEW r \in Req, ReprocessEnqueue(r) PROVE AutomaticLocked'
  <2>1. exps' = exps /\ reqs'[r].pc = "idle" /\ \A q \in Req \ {r} : reqs'[q] = reqs[q]
    BY <1>0, <1>7, EnqueueEffect
  <2> QED  BY <2>1, StillAutomatic
<1>8. ASSUME NEW r \in Req, NEW D \in SUBSET Doc, NEW pc \in {"delete_commit", "delete_all_commit"},
             DeleteBegin(r, D, pc)
      PROVE  AutomaticLocked'
  <2>1. PICK rows : reqs' = [reqs EXCEPT ![r] = Deleting(pc, D, rows)]
    BY <1>8 DEF DeleteBegin
  <2>2. Deleting(pc, D, rows).pc = pc
    BY DEF Deleting, IdleReq
  <2>3. exps' = exps /\ reqs'[r].pc # "reprocess_commit" /\ \A q \in Req \ {r} : reqs'[q] = reqs[q]
    BY <1>0, <1>8, <2>1, <2>2 DEF DeleteBegin
  <2> QED  BY <2>3, StillAutomatic
<1>9. ASSUME NEW r \in Req, DeleteCommit(r) PROVE AutomaticLocked'
  <2>1. reqs'[r].pc = "idle" /\ \A q \in Req \ {r} : reqs'[q] = reqs[q]
    BY <1>0, <1>9, DeleteCommitEffect
  <2>2. \A e \in Exp : exps'[e].overridden = exps[e].overridden
    BY <1>0, <1>9 DEF DeleteCommit, ExpRow
  <2> QED  BY <1>k, <2>1, <2>2, StillAutomatic
<1>10. ASSUME NEW r \in Req, ApiCrash(r) PROVE AutomaticLocked'
  <2>1. exps' = exps /\ ReqsQuiet
    BY <1>0, <1>10 DEF ApiCrash, Return, IdleReq, ReqsQuiet
  <2> QED  BY <2>1, QuietAutomatic
<1>11. ASSUME NEW e \in Exp, OverrideCategory(e) PROVE AutomaticLocked'
  <2>1. /\ reqs' = reqs /\ \A q \in Req : e \notin reqs[q].rows
        /\ exps' = [exps EXCEPT ![e].overridden = TRUE]
    BY <1>11 DEF OverrideCategory, RowFree
  <2>2. \A q \in Req : \A f \in reqs[q].rows : exps'[f] = exps[f]
    BY <1>0, <1>k, <2>1
  <2> QED  BY <2>1, <2>2, QuietAutomatic DEF ReqsQuiet
<1>12. ASSUME NEW S \in SUBSET Exp, RemoveExpenses(S) PROVE AutomaticLocked'
  <2>1. reqs' = reqs /\ \A e \in Exp : exps'[e].overridden = exps[e].overridden
    BY <1>0, <1>12 DEF RemoveExpenses, Drop, ExpRow
  <2> QED  BY <1>k, <2>1, QuietAutomatic DEF ReqsQuiet
<1>13. ASSUME NEW t \in Task, OcrInsertExpense(t) PROVE AutomaticLocked'
  <2>1. /\ reqs' = reqs
        /\ \E e \in Exp : exps[e].row = "none" /\ \A f \in Exp \ {e} : exps'[f] = exps[f]
    BY <1>0, <1>13, InsertEffect
  <2>2. \A q \in Req : \A e \in reqs[q].rows : exps'[e] = exps[e]
    BY <1>k, <2>1
  <2> QED  BY <2>1, <2>2, QuietAutomatic DEF ReqsQuiet
<1>14. ASSUME NEW t \in Task, OcrBackfillExpense(t) PROVE AutomaticLocked'
  <2>1. /\ reqs' = reqs
        /\ exps' = exps \/ \E h : exps' = [exps EXCEPT ![tasks[t].exp].hasAmount = h]
    BY <1>14 DEF OcrBackfillExpense
  <2>2. \A e \in Exp : exps'[e].overridden = exps[e].overridden
    <3>1. ASSUME NEW h, exps' = [exps EXCEPT ![tasks[t].exp].hasAmount = h]
          PROVE  \A e \in Exp : exps'[e].overridden = exps[e].overridden
      BY <1>0, <3>1 DEF ExpRow
    <3> QED  BY <2>1, <3>1
  <2> QED  BY <1>k, <2>1, <2>2, QuietAutomatic DEF ReqsQuiet
<1>15. ASSUME NEW t \in Task, NEW r \in Req, DeadlockVictim(t, r) PROVE AutomaticLocked'
  <2>1. exps' = exps /\ ReqsQuiet
    BY <1>0, <1>15, DeadlockEffect
  <2> QED  BY <2>1, QuietAutomatic
<1>16. ASSUME UNCHANGED <<exps, reqs>> PROVE AutomaticLocked'
  BY <1>16 DEF AutomaticLocked
<1> QED  BY <1>1, <1>2, <1>3, <1>4, <1>5, <1>6, <1>7, <1>8, <1>9, <1>10, <1>11, <1>12, <1>13,
     <1>14, <1>15, <1>16
            DEF Next, vars, RequestStep, RequestContinues, OcrStep, UserEdit, DeleteOneBegin,
                 DeleteAllBegin, OcrStart, OcrExtract, OcrSkip, OcrCheckDuplicate,
                 OcrFlagDuplicate, OcrLookupExpense, OcrReuseExpense, OcrDispatch, OcrFail,
                 WorkerLost

\* A row that goes is one a user removed, one that was not overridden, or one of
\* a document that goes with it.
LEMMA OverriddenStep ==
  ASSUME BooksInv, AutomaticLocked, [Next]_vars, NEW e \in Exp,
         exps[e].row = "live", exps[e].overridden, exps'[e].row = "gone"
  PROVE  (exps[e].doc # NoDoc /\ docs'[exps[e].doc].status = "gone") \/ UserEdit
<1>0. /\ TypeOK /\ TargetsKnown /\ ExpenseKnown /\ RowsLocked /\ NoDoc \notin Doc
      /\ exps \in [Exp -> ExpRow] /\ reqs \in [Req -> ReqRow] /\ docs \in [Doc -> DocRow]
  BY PipelineAssumption DEF BooksInv, TypeInv, TypeOK
<1>1. ASSUME NEW r \in Req, UploadCommit(r) PROVE FALSE
  <2>1. \/ exps' = exps
        \/ \E f \in Exp : /\ exps[f].row = "none" /\ exps'[f].row = "live"
                          /\ \A g \in Exp \ {f} : exps'[g] = exps[g]
    BY <1>0, <1>1, UploadCommitEffect
  <2> QED  BY <2>1
<1>2. ASSUME NEW r \in Req, CreateManualExpense(r) PROVE FALSE
  <2>1. \E f \in Exp : /\ exps[f].row = "none" /\ exps'[f].row = "live"
                       /\ \A g \in Exp \ {f} : exps'[g] = exps[g]
    BY <1>0, <1>2, CreateEffect
  <2> QED  BY <2>1
<1>3. ASSUME NEW r \in Req, ReprocessCommit(r) PROVE FALSE
  <2>1. reqs[r].pc = "reprocess_commit" /\ e \in reqs[r].rows
    BY <1>0, <1>3, ReprocessEffect
  <2> QED  BY <2>1 DEF AutomaticLocked
<1>4. ASSUME NEW r \in Req, DeleteCommit(r)
      PROVE  exps[e].doc # NoDoc /\ docs'[exps[e].doc].status = "gone"
  <2>1. reqs[r].pc \in {"delete_commit", "delete_all_commit"}
    BY <1>4 DEF DeleteCommit
  <2>2. PICK D \in SUBSET Doc :
              /\ \A d \in D : DocFree(d) /\ docs'[d].status = "gone"
              /\ reqs[r].pc = "delete_commit" => D = reqs[r].targets
              /\ reqs[r].pc = "delete_all_commit" => \A d \in Doc : Stored(d) <=> d \in D
              /\ \A d \in Doc \ D : /\ docs'[d].status = docs[d].status
                                    /\ docs'[d].isDuplicate = docs[d].isDuplicate
              /\ \A f \in Exp :
                   IF f \in reqs[r].rows THEN exps'[f].row = "gone" /\ exps'[f].doc = exps[f].doc
                   ELSE IF exps[f].doc \in D
                        THEN /\ exps'[f].row = exps[f].row /\ exps'[f].doc = NoDoc
                             /\ exps[f].row = "live" => RowFree(f)
                        ELSE exps'[f] = exps[f]
    BY <1>0, <1>4, DeleteCommitEffect
  <2>3. e \in reqs[r].rows
    BY <2>2
  <2>4. exps[e].doc \in reqs[r].targets /\ reqs[r].targets \subseteq Doc
    BY <1>0, <2>3 DEF RowsLocked, ReqRow
  <2>5. docs[exps[e].doc].status # "none"
    BY <1>0, <2>1, <2>4 DEF TargetsKnown
  <2>6. docs'[exps[e].doc].status = "gone"
    <3>1. CASE exps[e].doc \in D
      BY <2>2, <3>1
    <3>2. CASE exps[e].doc \notin D
      BY <2>1, <2>2, <2>4, <2>5, <3>2 DEF Stored
    <3> QED  BY <3>1, <3>2
  <2> QED  BY <1>0, <2>4, <2>6
<1>5. ASSUME NEW t \in Task, OcrInsertExpense(t) PROVE FALSE
  <2>1. \E f \in Exp : /\ exps[f].row = "none" /\ exps'[f].row = "live"
                       /\ \A g \in Exp \ {f} : exps'[g] = exps[g]
    BY <1>0, <1>5, InsertEffect
  <2> QED  BY <2>1
<1>6. ASSUME NEW t \in Task, OcrBackfillExpense(t) PROVE FALSE
  <2>1. tasks[t].exp \in Exp
    BY <1>0, <1>6 DEF OcrBackfillExpense, ExpenseKnown
  <2> QED  BY <1>0, <1>6, <2>1, BackfillEffect
<1>7. ASSUME exps' = exps PROVE FALSE
  BY <1>7
<1> QED  BY <1>1, <1>2, <1>3, <1>4, <1>5, <1>6, <1>7
            DEF Next, vars, RequestStep, RequestContinues, OcrStep, UploadBegin,
                 EnqueueCategorize, ReprocessBegin, ReprocessEnqueue, DeleteOneBegin,
                 DeleteAllBegin, ApiCrash, OcrStart, OcrExtract, OcrSkip, OcrCheckDuplicate,
                 OcrFlagDuplicate, OcrLookupExpense, OcrReuseExpense, OcrDispatch, OcrFail,
                 WorkerLost, DeadlockVictim, DeleteBegin, Abort

\* A row the user has overridden leaves the table with its document or by the
\* user's own hand: no reprocess request, however it interleaves, deletes it.
THEOREM Kept == Spec => OverriddenRowKept
<1>1. Init => AutomaticLocked
  BY DEF Init, IdleReq, AutomaticLocked
<1>2. BooksInv /\ AutomaticLocked /\ [Next]_vars => AutomaticLocked'
  BY AutomaticStep
<1>3. ASSUME BooksInv, AutomaticLocked, [Next]_vars
      PROVE  \A e \in Exp :
               exps[e].row = "live" /\ exps[e].overridden /\ exps'[e].row = "gone"
                 => \/ exps[e].doc # NoDoc /\ docs'[exps[e].doc].status = "gone"
                    \/ UserEdit
  BY <1>3, OverriddenStep
<1> QED  BY <1>1, <1>2, <1>3, BooksHold, PTL DEF Spec, OverriddenRowKept
=============================================================================
