------------------------ MODULE DatasetExportProofs -------------------------
(***************************************************************************)
(* Proofs about DatasetExport, for any images, requests, jobs, workers and *)
(* bounds: typing, and what is left of image_count when registrations      *)
(* lose updates.                                                           *)
(***************************************************************************)
EXTENDS DatasetExport, ExportersProofs

-----------------------------------------------------------------------------
(* TypeOK is not inductive: what a worker has read must be a sequence, and *)
(* the row it has loaded a row.                                            *)

JobRow == [status : {"absent", "queued", "completed", "cancelled"}, total : Nat]
Statuses == Seq({"kept", "rejected"})

RowInv ==
    /\ RowTypeOK
    /\ \A i \in Image : Len(log[i]) <= Len(Detections[i])

Entry ==
    {[image |-> i, file |-> FileOf[i], size |-> SizeOf[i], anns |-> anns] :
        i \in Image, anns \in Seq(LabelledBox)}

WorkerInv ==
    /\ WorkerTypeOK
    /\ read \in [Worker -> Seq(Entry)]
    /\ seen \in [Worker -> JobRow]
    /\ \A w \in Worker : pc[w] \in {"idle", "select"} => read[w] = <<>>

rowVars == <<dataset, images, log, jobs>>
reqVars == <<reg, req, format, cancel>>
taskVars == <<queue, failed, pc, held, todo, read, seen>>

TypeInv == RowInv /\ ApiTypeOK /\ WorkerInv

LEMMA RowStutter == RowInv /\ UNCHANGED rowVars => RowInv'
  BY DEF RowInv, RowTypeOK, rowVars

LEMMA ApiStutter == ApiTypeOK /\ UNCHANGED reqVars => ApiTypeOK'
  BY DEF ApiTypeOK, reqVars

LEMMA WorkerStutter == WorkerInv /\ UNCHANGED taskVars => WorkerInv'
  BY DEF WorkerInv, WorkerTypeOK, taskVars

LEMMA BatchFinite ==
    ASSUME NEW q \in Request
    PROVE  /\ Batch[q] \subseteq Image /\ Batch[q] # {}
           /\ IsFiniteSet(Batch[q]) /\ Cardinality(Batch[q]) \in Nat
           /\ Cardinality(Batch[q]) > 0
<1>1. Batch[q] \subseteq Image /\ Batch[q] # {} /\ IsFiniteSet(Image)
  BY DataAssumption
<1>2. IsFiniteSet(Batch[q])
  BY <1>1, FS_Subset
<1>3. Cardinality(Batch[q]) \in Nat
  BY <1>2, FS_CardinalityType
<1>4. Cardinality(Batch[q]) # 0
  BY <1>1, <1>2, FS_EmptySet
<1> QED
  BY <1>1, <1>2, <1>3, <1>4

-----------------------------------------------------------------------------
LEMMA InitTyped == Init => TypeInv
<1> SUFFICES ASSUME Init PROVE TypeInv
  OBVIOUS
<1>1. RowInv
  <2>1. \A i \in Image : log[i] = <<>> /\ Len(Detections[i]) \in Nat
    BY DataAssumption, LenProperties DEF Init
  <2>2. log \in [Image -> Statuses]
    BY EmptySeq DEF Init, Statuses
  <2> QED
    BY <2>1, <2>2, EmptySeq DEF Init, RowInv, RowTypeOK, NoRow, Statuses
<1>2. ApiTypeOK
  BY DEF Init, ApiTypeOK
<1>3. WorkerInv
  <2>1. read \in [Worker -> Seq(Entry)]
    BY EmptySeq DEF Init
  <2>2. \A w \in Worker : DOMAIN read[w] = {}
    BY DEF Init
  <2> QED
    BY <2>1, <2>2 DEF Init, WorkerInv, WorkerTypeOK, JobRow, NoRow
<1> QED
  BY <1>1, <1>2, <1>3 DEF TypeInv

-----------------------------------------------------------------------------
(* The tables.                                                             *)

LEMMA RowStep ==
    ASSUME TypeInv, Next
    PROVE  RowInv'
<1>1. CASE \E q \in Request : CommitRegister(q)
  <2>1. PICK q \in Request : CommitRegister(q)
    BY <1>1
  <2>2. reg[q].count \in Nat
    BY DEF TypeInv, ApiTypeOK
  <2>3. reg[q].count + Cardinality(Batch[q]) \in Nat
    BY <2>2, BatchFinite
  <2>4. dataset' \in [exists : BOOLEAN, count : Nat, status : {"created", "ready"}]
    BY <2>1, <2>3 DEF CommitRegister, TypeInv, RowInv, RowTypeOK
  <2>5. images' \subseteq Image
    BY <2>1, BatchFinite DEF CommitRegister, TypeInv, RowInv, RowTypeOK
  <2> QED
    BY <2>1, <2>4, <2>5 DEF CommitRegister, TypeInv, RowInv, RowTypeOK
<1>2. CASE \E i \in Image : Annotate(i)
  <2>1. PICK i \in Image : Annotate(i)
    BY <1>2
  <2>2. PICK status \in {"kept", "rejected"} : log' = [log EXCEPT ![i] = Append(@, status)]
    BY <2>1 DEF Annotate
  <2>3. log \in [Image -> Statuses] /\ \A k \in Image : Len(log[k]) <= Len(Detections[k])
    BY DEF TypeInv, RowInv, RowTypeOK, Statuses
  <2>4. log[i] \in Statuses /\ Len(log[i]) \in Nat
    BY <2>3, LenProperties DEF Statuses
  <2>5. Append(log[i], status) \in Statuses /\ Len(Append(log[i], status)) = Len(log[i]) + 1
    BY <2>4, AppendProperties DEF Statuses
  <2>6. Len(Detections[i]) \in Nat /\ Len(log[i]) < Len(Detections[i])
    BY <2>1, DataAssumption, LenProperties DEF Annotate
  <2>7. log' \in [Image -> Statuses] /\ \A k \in Image : Len(log'[k]) <= Len(Detections[k])
    BY <2>2, <2>3, <2>4, <2>5, <2>6
  <2> QED
    BY <2>1, <2>7 DEF Annotate, TypeInv, RowInv, RowTypeOK, Statuses
<1>3. CASE \E i \in Image : Decide(i)
  <2>1. PICK i \in Image : Decide(i)
    BY <1>3
  <2>2. PICK v \in DOMAIN log[i], status \in {"kept", "rejected"} :
            log' = [log EXCEPT ![i][v] = status]
    BY <2>1 DEF Decide
  <2>3. log \in [Image -> Statuses] /\ \A k \in Image : Len(log[k]) <= Len(Detections[k])
    BY DEF TypeInv, RowInv, RowTypeOK, Statuses
  <2>4. log[i] \in Statuses /\ v \in 1 .. Len(log[i])
    BY <2>2, <2>3, LenProperties DEF Statuses
  <2>5. [log[i] EXCEPT ![v] = status] \in Statuses
        /\ Len([log[i] EXCEPT ![v] = status]) = Len(log[i])
    BY <2>4, ExceptSeq DEF Statuses
  <2>6. log' \in [Image -> Statuses] /\ \A k \in Image : Len(log'[k]) <= Len(Detections[k])
    BY <2>2, <2>3, <2>5
  <2> QED
    BY <2>1, <2>6 DEF Decide, TypeInv, RowInv, RowTypeOK, Statuses
<1>4. CASE DeleteDataset
  <2>1. log' = [i \in Image |-> <<>>] /\ jobs' = [j \in Job |-> NoRow] /\ images' = {}
        /\ dataset' = [dataset EXCEPT !.exists = FALSE]
    BY <1>4 DEF DeleteDataset
  <2>2. \A i \in Image : log'[i] = <<>> /\ Len(Detections[i]) \in Nat
    BY <2>1, DataAssumption, LenProperties
  <2>3. log' \in [Image -> Seq({"kept", "rejected"})]
    BY <2>1, EmptySeq
  <2>4. dataset' \in [exists : BOOLEAN, count : Nat, status : {"created", "ready"}]
    BY <2>1 DEF TypeInv, RowInv, RowTypeOK
  <2>5. jobs' \in [Job -> [status : {"absent", "queued", "completed", "cancelled"},
                          total : Nat]]
    BY <2>1 DEF NoRow
  <2>6. \A i \in Image : Len(log'[i]) <= Len(Detections[i])
    BY <2>2, EmptySeq
  <2> QED
    BY <2>1, <2>3, <2>4, <2>5, <2>6 DEF RowInv, RowTypeOK
<1>5. CASE \E j \in Job : CommitExportJob(j)
  <2>1. PICK j \in Job : CommitExportJob(j)
    BY <1>5
  <2>2. PICK pending \in 0 .. Cardinality({i \in images : log[i] = <<>>}) :
            jobs' = [jobs EXCEPT ![j] = [status |-> "queued", total |-> pending]]
    BY <2>1 DEF CommitExportJob
  <2>3. pending \in Nat
    BY <2>2
  <2> QED
    BY <2>1, <2>2, <2>3 DEF CommitExportJob, TypeInv, RowInv, RowTypeOK
<1>6. CASE \E j \in Job : CommitCancel(j)
  BY <1>6 DEF CommitCancel, TypeInv, RowInv, RowTypeOK
<1>7. CASE \E w \in Worker : CommitExport(w)
  <2>1. PICK w \in Worker : CommitExport(w)
    BY <1>7
  <2>2. held[w] \in Job /\ seen[w] \in JobRow /\ Len(read[w]) \in Nat
    BY <2>1, LenProperties DEF CommitExport, TypeInv, WorkerInv, WorkerTypeOK
  <2>3. \/ jobs' = jobs
        \/ \E row \in JobRow : jobs' = [jobs EXCEPT ![held[w]] = row]
    <3>1. jobs[held[w]] \in JobRow
      BY <2>2 DEF TypeInv, RowInv, RowTypeOK, JobRow
    <3> DEFINE row == [status |-> Written(jobs[held[w]].status, seen[w].status, "completed"),
                       total |-> Written(jobs[held[w]].total, seen[w].total, Len(read[w]))]
    <3>2. row \in JobRow
      <4>1. row.status \in {"queued", "absent", "completed", "cancelled"}
        BY <2>2, <3>1 DEF JobRow, Written
      <4>2. row.total \in Nat
        BY <2>2, <3>1 DEF JobRow, Written
      <4> QED
        BY <4>1, <4>2 DEF JobRow
    <3> HIDE DEF row
    <3>3. jobs' = jobs \/ jobs' = [jobs EXCEPT ![held[w]] = row]
      BY <2>1 DEF CommitExport, row
    <3> QED
      BY <3>2, <3>3
  <2>4. jobs' \in [Job -> JobRow]
    BY <2>2, <2>3 DEF TypeInv, RowInv, RowTypeOK, JobRow
  <2> QED
    BY <2>1, <2>4 DEF CommitExport, TypeInv, RowInv, RowTypeOK, JobRow
<1>8. CASE \/ \E q \in Request : LoadForRegister(q) \/ RegisterFails(q)
           \/ \E j \in Job : Dispatch(j) \/ LoadForCancel(j)
           \/ \E w \in Worker :
                \/ Receive(w) \/ Ack(w) \/ SelectImages(w) \/ ReadLatest(w) \/ StoreFile(w)
                \/ ExportRaises(w) \/ LoadJob(w) \/ Crash(w) \/ VisibilityTimeout(w)
  <2>1. UNCHANGED rowVars
    BY <1>8 DEF LoadForRegister, RegisterFails, Dispatch, LoadForCancel, Receive, Ack,
                SelectImages, ReadLatest, StoreFile, ExportRaises, LoadJob, Crash,
                VisibilityTimeout, rowVars
  <2> QED
    BY <2>1, RowStutter DEF TypeInv
<1> QED
  BY <1>1, <1>2, <1>3, <1>4, <1>5, <1>6, <1>7, <1>8 DEF Next, Client, WorkerStep

-----------------------------------------------------------------------------
(* The requests.                                                           *)

LEMMA ApiStep ==
    ASSUME TypeInv, Next
    PROVE  ApiTypeOK'
<1> USE DEF TypeInv, ApiTypeOK
<1>1. CASE \E q \in Request : LoadForRegister(q)
  BY <1>1 DEF LoadForRegister, RowInv, RowTypeOK
<1>2. CASE \E q \in Request : CommitRegister(q) \/ RegisterFails(q)
  BY <1>2 DEF CommitRegister, RegisterFails
<1>3. CASE \E j \in Job : CommitExportJob(j)
  BY <1>3 DEF CommitExportJob
<1>4. CASE \E j \in Job : Dispatch(j)
  BY <1>4 DEF Dispatch
<1>5. CASE \E j \in Job : LoadForCancel(j) \/ CommitCancel(j)
  BY <1>5 DEF LoadForCancel, CommitCancel
<1>6. CASE \/ DeleteDataset
           \/ \E i \in Image : Annotate(i) \/ Decide(i)
           \/ \E w \in Worker : WorkerStep(w) \/ Crash(w) \/ VisibilityTimeout(w)
  <2>1. UNCHANGED reqVars
    BY <1>6 DEF DeleteDataset, Annotate, Decide, WorkerStep, Receive, Ack, SelectImages,
                ReadLatest, StoreFile, ExportRaises, LoadJob, CommitExport, Crash,
                VisibilityTimeout, apiVars, reqVars
  <2> QED
    BY <2>1, ApiStutter
<1> QED
  BY <1>1, <1>2, <1>3, <1>4, <1>5, <1>6 DEF Next, Client

-----------------------------------------------------------------------------
(* The workers.                                                            *)

(* What the invariant says of one worker.                                  *)
Shape(p, h, t, r, s) ==
    /\ p \in {"idle", "select", "read", "load", "commit", "ack"}
    /\ h \in Job \cup {NoJob}
    /\ t \in SUBSET Image
    /\ r \in Seq(Entry)
    /\ s \in JobRow
    /\ p # "idle" => h \in Job
    /\ p = "commit" => s.status # "absent"
    /\ p \in {"idle", "select"} => r = <<>>
    /\ \A k \in DOMAIN r : r[k].image \notin t

Becomes(w, p, h, t, r, s) ==
    /\ pc' = [pc EXCEPT ![w] = p]
    /\ held' = [held EXCEPT ![w] = h]
    /\ todo' = [todo EXCEPT ![w] = t]
    /\ read' = [read EXCEPT ![w] = r]
    /\ seen' = [seen EXCEPT ![w] = s]

LEMMA OneWorker ==
    ASSUME WorkerInv, NEW w \in Worker, queue' \in [Job -> Nat], failed' \subseteq Job,
           NEW p, NEW h, NEW t, NEW r, NEW s,
           Shape(p, h, t, r, s), Becomes(w, p, h, t, r, s)
    PROVE  WorkerInv'
<1>1. /\ pc' \in [Worker -> {"idle", "select", "read", "load", "commit", "ack"}]
      /\ held' \in [Worker -> Job \cup {NoJob}]
      /\ todo' \in [Worker -> SUBSET Image]
      /\ read' \in [Worker -> Seq(Entry)]
      /\ seen' \in [Worker -> JobRow]
  BY DEF WorkerInv, WorkerTypeOK, Becomes, Shape
<1>2. ASSUME NEW v \in Worker
      PROVE  /\ pc'[v] # "idle" => held'[v] \in Job
             /\ pc'[v] = "commit" => seen'[v].status # "absent"
             /\ pc'[v] \in {"idle", "select"} => read'[v] = <<>>
             /\ \A k \in DOMAIN read'[v] : read'[v][k].image \notin todo'[v]
  <2>1. CASE v = w
    BY <2>1 DEF WorkerInv, WorkerTypeOK, Becomes, Shape
  <2>2. CASE v # w
    BY <2>2 DEF WorkerInv, WorkerTypeOK, Becomes
  <2> QED
    BY <2>1, <2>2
<1> QED
  BY <1>1, <1>2 DEF WorkerInv, WorkerTypeOK

LEMMA WorkerKnows ==
    ASSUME WorkerInv, NEW w \in Worker
    PROVE  /\ Shape(pc[w], held[w], todo[w], read[w], seen[w])
           /\ pc = [pc EXCEPT ![w] = pc[w]] /\ held = [held EXCEPT ![w] = held[w]]
           /\ todo = [todo EXCEPT ![w] = todo[w]] /\ read = [read EXCEPT ![w] = read[w]]
           /\ seen = [seen EXCEPT ![w] = seen[w]]
  BY DEF WorkerInv, WorkerTypeOK, Shape

(* What an export takes from an image is a sequence of detections.         *)
LEMMA TakenTyped ==
    ASSUME TypeInv, NEW i \in Image
    PROVE  Annotations(i, log[i]) \in Seq(LabelledBox)
<1>1. Detections[i] \in Seq(Seq(LabelledBox))
  BY DataAssumption
<1>2. log[i] \in Statuses /\ Len(log[i]) <= Len(Detections[i])
  BY DEF TypeInv, RowInv, RowTypeOK, Statuses
<1>3. CASE log[i] = <<>> \/ Last(log[i]) = "rejected"
  BY <1>3, EmptySeq DEF Annotations
<1>4. CASE ~(log[i] = <<>> \/ Last(log[i]) = "rejected")
  <2>1. Len(log[i]) \in Nat /\ Len(log[i]) # 0 /\ Len(Detections[i]) \in Nat
    BY <1>1, <1>2, <1>4, EmptySeq, LenProperties DEF Statuses
  <2>2. Len(log[i]) \in 1 .. Len(Detections[i])
    BY <1>2, <2>1
  <2>3. Detections[i][Len(log[i])] \in Seq(LabelledBox)
    BY <1>1, <2>2, ElementOfSeq
  <2> QED
    BY <1>4, <2>3 DEF Annotations
<1> QED
  BY <1>3, <1>4

LEMMA ReadGrows ==
    ASSUME NEW i \in Image, NEW anns \in Seq(LabelledBox), NEW earlier \in Seq(Entry),
           NEW left, i \in left,
           \A k \in DOMAIN earlier : earlier[k].image \notin left,
           NEW entry, entry = [image |-> i, file |-> FileOf[i], size |-> SizeOf[i],
                               anns |-> anns]
    PROVE  /\ Append(earlier, entry) \in Seq(Entry)
           /\ \A k \in DOMAIN Append(earlier, entry) :
                Append(earlier, entry)[k].image \notin left \ {i}
<1>1. entry \in Entry /\ entry.image = i
  BY DEF Entry
<1>2. Append(earlier, entry) \in Seq(Entry)
  BY <1>1, AppendProperties
<1>3. ASSUME NEW k \in DOMAIN Append(earlier, entry)
      PROVE  Append(earlier, entry)[k].image \notin left \ {i}
  <2>1. k \in 1 .. Len(earlier) + 1 /\ Len(earlier) \in Nat
    BY <1>1, <1>3, AppendProperties, LenProperties
  <2>2. CASE k \in 1 .. Len(earlier)
    BY <2>1, <2>2, <1>1, AppendProperties, LenProperties
  <2>3. CASE k = Len(earlier) + 1
    BY <2>3, <1>1, AppendProperties
  <2> QED
    BY <2>1, <2>2, <2>3
<1> QED
  BY <1>2, <1>3

LEMMA Working ==
    ASSUME TypeInv, NEW w \in Worker, WorkerStep(w) \/ Crash(w) \/ VisibilityTimeout(w)
    PROVE  WorkerInv'
<1>1. WorkerInv /\ queue \in [Job -> Nat] /\ failed \subseteq Job
  BY DEF TypeInv, WorkerInv, WorkerTypeOK
<1> DEFINE p == pc[w]  h == held[w]  t == todo[w]  r == read[w]  s == seen[w]
<1>0. /\ Shape(p, h, t, r, s)
      /\ pc = [pc EXCEPT ![w] = p] /\ held = [held EXCEPT ![w] = h]
      /\ todo = [todo EXCEPT ![w] = t] /\ read = [read EXCEPT ![w] = r]
      /\ seen = [seen EXCEPT ![w] = s]
  BY <1>1, WorkerKnows
<1>2. CASE Receive(w)
  <2>1. PICK j \in Job : /\ queue[j] > 0 /\ queue' = [queue EXCEPT ![j] = @ - 1]
                         /\ held' = [held EXCEPT ![w] = j]
    BY <1>2 DEF Receive
  <2>2. queue' \in [Job -> Nat] /\ failed' = failed
    <3>1. queue[j] - 1 \in Nat
      BY <1>1, <2>1
    <3> QED
      BY <1>1, <1>2, <2>1, <3>1 DEF Receive
  <2>3. Becomes(w, "select", j, t, r, s)
    BY <1>0, <1>2, <2>1 DEF Receive, Becomes
  <2>4. Shape("select", j, t, r, s)
    BY <1>0, <1>2 DEF Receive, Shape
  <2> QED
    BY <1>1, <2>2, <2>3, <2>4, OneWorker
<1>3. CASE Ack(w) \/ Crash(w) \/ VisibilityTimeout(w)
  <2>1. queue' \in [Job -> Nat] /\ failed' = failed
    BY <1>0, <1>1, <1>3 DEF Ack, Crash, VisibilityTimeout, brokerVars, Shape
  <2>2. CASE Release(w)
    <3>1. Becomes(w, "idle", NoJob, {}, <<>>, NoRow)
      BY <2>2 DEF Release, Becomes
    <3>2. Shape("idle", NoJob, {}, <<>>, NoRow)
      BY EmptySeq DEF Shape, NoRow, JobRow
    <3> QED
      BY <1>1, <2>1, <3>1, <3>2, OneWorker
  <2>3. CASE UNCHANGED workerVars
    <3>1. Becomes(w, p, h, t, r, s)
      BY <1>0, <2>3 DEF workerVars, Becomes
    <3> QED
      BY <1>0, <1>1, <2>1, <3>1, OneWorker
  <2> QED
    BY <1>3, <2>2, <2>3 DEF Ack, Crash, VisibilityTimeout
<1>4. CASE SelectImages(w)
  <2>1. Shape("read", h, images, r, s)
    BY <1>0, <1>4, EmptySeq DEF SelectImages, Shape, TypeInv, RowInv, RowTypeOK
  <2>2. Becomes(w, "read", h, images, r, s)
    BY <1>0, <1>4 DEF SelectImages, Becomes
  <2>3. queue' = queue /\ failed' = failed
    BY <1>4 DEF SelectImages, brokerVars
  <2> QED
    BY <1>1, <2>1, <2>2, <2>3, OneWorker
<1>5. CASE ReadLatest(w)
  <2>1. PICK i \in t :
            /\ todo' = [todo EXCEPT ![w] = @ \ {i}]
            /\ read' = [read EXCEPT ![w] =
                    Append(@, [image |-> i, file |-> FileOf[i], size |-> SizeOf[i],
                               anns |-> Annotations(i, log[i])])]
    BY <1>5 DEF ReadLatest
  <2> DEFINE entry == [image |-> i, file |-> FileOf[i], size |-> SizeOf[i],
                       anns |-> Annotations(i, log[i])]
  <2>2. i \in Image /\ Annotations(i, log[i]) \in Seq(LabelledBox)
    BY <1>0, <2>1, TakenTyped DEF Shape
  <2>3. /\ Append(r, entry) \in Seq(Entry)
        /\ \A k \in DOMAIN Append(r, entry) : Append(r, entry)[k].image \notin t \ {i}
    <3>1. r \in Seq(Entry) /\ \A k \in DOMAIN r : r[k].image \notin t
      BY <1>0 DEF Shape
    <3> HIDE DEF r, t
    <3> QED
      BY <2>1, <2>2, <3>1, ReadGrows
  <2>4. /\ todo' = [todo EXCEPT ![w] = t \ {i}]
        /\ read' = [read EXCEPT ![w] = Append(r, entry)]
    BY <1>1, <2>1 DEF WorkerInv, WorkerTypeOK
  <2> HIDE DEF entry
  <2>5. p = "read" /\ pc' = pc /\ held' = held /\ seen' = seen
        /\ queue' = queue /\ failed' = failed
    BY <1>5 DEF ReadLatest, brokerVars
  <2>6. Becomes(w, p, h, t \ {i}, Append(r, entry), s)
    BY <1>0, <2>4, <2>5 DEF Becomes
  <2>7. Shape(p, h, t \ {i}, Append(r, entry), s)
    BY <1>0, <2>3, <2>5 DEF Shape
  <2> QED
    BY <1>1, <2>5, <2>6, <2>7, OneWorker
<1>6. CASE StoreFile(w) \/ ExportRaises(w)
  <2>1. PICK q \in {"load", "ack"} : Becomes(w, q, h, t, r, s)
    <3>1. CASE StoreFile(w)
      BY <1>0, <3>1 DEF StoreFile, Becomes
    <3>2. CASE ExportRaises(w)
      BY <1>0, <3>2 DEF ExportRaises, Becomes
    <3> QED
      BY <1>6, <3>1, <3>2
  <2>2. Shape(q, h, t, r, s) /\ h \in Job
    BY <1>0, <1>6 DEF Shape, StoreFile, ExportRaises
  <2>3. queue' = queue /\ failed' \subseteq Job
    BY <1>1, <1>6, <2>2 DEF StoreFile, ExportRaises
  <2> QED
    BY <1>1, <2>1, <2>2, <2>3, OneWorker
<1>7. CASE LoadJob(w)
  <2>1. h \in Job /\ jobs[h] \in JobRow
    BY <1>0, <1>7 DEF LoadJob, Shape, TypeInv, RowInv, RowTypeOK, JobRow
  <2> DEFINE q == IF jobs[h].status = "absent" THEN "ack" ELSE "commit"
  <2>2. Becomes(w, q, h, t, r, jobs[h])
    BY <1>0, <1>7 DEF LoadJob, Becomes
  <2>3. Shape(q, h, t, r, jobs[h])
    BY <1>0, <2>1 DEF Shape
  <2>4. queue' = queue /\ failed' = failed
    BY <1>7 DEF LoadJob, brokerVars
  <2> QED
    BY <1>1, <2>2, <2>3, <2>4, OneWorker
<1>8. CASE CommitExport(w)
  <2>1. queue' = queue /\ failed' = failed
    BY <1>8 DEF CommitExport, brokerVars
  <2>2. Becomes(w, "ack", h, t, r, s)
    BY <1>0, <1>8 DEF CommitExport, Becomes
  <2>3. Shape("ack", h, t, r, s)
    BY <1>0, <1>8 DEF CommitExport, Shape
  <2> QED
    BY <1>1, <2>1, <2>2, <2>3, OneWorker
<1> QED
  BY <1>2, <1>3, <1>4, <1>5, <1>6, <1>7, <1>8 DEF WorkerStep

LEMMA WorkerTyped ==
    ASSUME TypeInv, Next
    PROVE  WorkerInv'
<1>1. WorkerInv
  BY DEF TypeInv
<1>2. CASE \E j \in Job : Dispatch(j)
  BY <1>1, <1>2 DEF Dispatch, workerVars, WorkerInv, WorkerTypeOK
<1>3. CASE \/ \E q \in Request : LoadForRegister(q) \/ CommitRegister(q) \/ RegisterFails(q)
           \/ \E j \in Job : CommitExportJob(j) \/ LoadForCancel(j) \/ CommitCancel(j)
           \/ DeleteDataset
           \/ \E i \in Image : Annotate(i) \/ Decide(i)
  <2>1. UNCHANGED taskVars
    BY <1>3 DEF LoadForRegister, CommitRegister, RegisterFails, CommitExportJob, LoadForCancel,
                CommitCancel, DeleteDataset, Annotate, Decide, brokerVars, workerVars, taskVars
  <2> QED
    BY <1>1, <2>1, WorkerStutter
<1>4. CASE \E w \in Worker : WorkerStep(w) \/ Crash(w) \/ VisibilityTimeout(w)
  BY <1>4, Working
<1> QED
  BY <1>2, <1>3, <1>4 DEF Next, Client

LEMMA Typed == Spec => []TypeInv
<1>1. ASSUME TypeInv, UNCHANGED vars
      PROVE  TypeInv'
  <2>1. UNCHANGED rowVars /\ UNCHANGED reqVars /\ UNCHANGED taskVars
    BY <1>1 DEF vars, apiVars, brokerVars, workerVars, rowVars, reqVars, taskVars
  <2> QED
    BY <1>1, <2>1, RowStutter, ApiStutter, WorkerStutter DEF TypeInv
<1>2. TypeInv /\ [Next]_vars => TypeInv'
  BY <1>1, RowStep, ApiStep, WorkerTyped DEF TypeInv
<1> QED
  BY InitTyped, <1>2, PTL DEF Spec

(* The rows, the requests and the workers keep their shape, no image is    *)
(* annotated beyond its detections or read twice by a task, and a task     *)
(* completes only a job it has loaded, for any clients, workers and        *)
(* bounds (register_images, create_export, cancel_job, export_dataset).    *)
THEOREM TypeCorrect == Spec => []TypeOK
<1>1. TypeInv => TypeOK
  BY DEF TypeInv, RowInv, WorkerInv, TypeOK
<1> QED
  BY <1>1, Typed, PTL

-----------------------------------------------------------------------------
(* CountIsPlausible is not inductive: a registration in flight must have   *)
(* loaded no more than there are images, and its own must be new.          *)

CountInv ==
    dataset.exists =>
        /\ \A q \in Request :
            /\ reg[q].at # "done" => Batch[q] \cap images = {}
            /\ reg[q].at = "loaded" => reg[q].count <= Cardinality(images)
        /\ dataset.count <= Cardinality(images)
        /\ images = {} <=> dataset.count = 0
        /\ images = {} <=> dataset.status = "created"

LEMMA ImagesFinite ==
    ASSUME TypeInv
    PROVE  IsFiniteSet(images) /\ Cardinality(images) \in Nat
<1>1. images \subseteq Image
  BY DEF TypeInv, RowInv, RowTypeOK
<1>2. IsFiniteSet(images)
  BY <1>1, FS_Subset, DataAssumption
<1> QED
  BY <1>2, FS_CardinalityType

LEMMA CountInit == Init => CountInv
  BY FS_EmptySet DEF Init, CountInv

LEMMA CountStep ==
    ASSUME TypeInv, CountInv, [Next]_vars
    PROVE  CountInv'
<1>1. CASE \E q \in Request : LoadForRegister(q)
  <2>1. PICK q \in Request : LoadForRegister(q)
    BY <1>1
  <2>2. reg \in [Request -> [at : {"none", "loaded", "done", "error"}, count : Nat]]
    BY DEF TypeInv, ApiTypeOK
  <2>3. reg' = [reg EXCEPT ![q] = [at |-> "loaded", count |-> dataset.count]]
        /\ reg[q].at = "none" /\ dataset' = dataset /\ images' = images
    BY <2>1 DEF LoadForRegister
  <2> QED
    BY <2>2, <2>3 DEF CountInv
<1>2. CASE \E q \in Request : CommitRegister(q)
  <2>1. PICK q \in Request : CommitRegister(q)
    BY <1>2
  <2>2. reg \in [Request -> [at : {"none", "loaded", "done", "error"}, count : Nat]]
        /\ dataset \in [exists : BOOLEAN, count : Nat, status : {"created", "ready"}]
    BY DEF TypeInv, ApiTypeOK, RowInv, RowTypeOK
  <2>3. /\ reg[q].at = "loaded" /\ dataset.exists
        /\ images' = images \cup Batch[q]
        /\ dataset' = [dataset EXCEPT !.count = reg[q].count + Cardinality(Batch[q]),
                                      !.status = "ready"]
        /\ reg' = [reg EXCEPT ![q].at = "done"]
    BY <2>1 DEF CommitRegister
  <2> DEFINE here == Cardinality(images)  new == Cardinality(Batch[q])
             all == Cardinality(images')
  <2>4. images \cap Batch[q] = {} /\ reg[q].count <= here /\ reg[q].count \in Nat
    BY <2>2, <2>3 DEF CountInv
  <2>5. here \in Nat /\ new \in Nat /\ new > 0 /\ all = here + new
    <3>1. /\ IsFiniteSet(images) /\ here \in Nat
          /\ IsFiniteSet(Batch[q]) /\ new \in Nat /\ new > 0
      BY ImagesFinite, BatchFinite
    <3>2. Cardinality(images \cup Batch[q]) = here + new - Cardinality(images \cap Batch[q])
      BY <3>1, FS_Union
    <3>3. Cardinality(images \cap Batch[q]) = 0
      BY <2>4, FS_EmptySet
    <3> QED
      BY <2>3, <3>1, <3>2, <3>3
  <2>6. /\ dataset'.count = reg[q].count + new
        /\ dataset'.status = "ready"
        /\ images' # {}
    BY <2>2, <2>3, BatchFinite
  <2>7. ASSUME NEW r \in Request
        PROVE  /\ reg'[r].at # "done" => Batch[r] \cap images' = {}
               /\ reg'[r].at = "loaded" => reg'[r].count <= all
    <3>1. CASE r = q
      BY <2>2, <2>3, <3>1
    <3>2. CASE r # q
      <4>1. reg'[r] = reg[r] /\ Batch[r] \cap Batch[q] = {} /\ reg[r].count \in Nat
        BY <2>2, <2>3, <3>2, DataAssumption
      <4>2. reg[r].at # "done" => Batch[r] \cap images' = {}
        BY <2>3, <4>1 DEF CountInv
      <4>3. reg[r].at = "loaded" => reg[r].count <= here
        BY <2>3 DEF CountInv
      <4> HIDE DEF here, new, all
      <4> QED
        BY <2>5, <4>1, <4>2, <4>3
    <3> QED
      BY <3>1, <3>2
  <2> HIDE DEF here, new, all
  <2>8. dataset'.count <= all /\ dataset'.count # 0
    BY <2>4, <2>5, <2>6
  <2> QED
    BY <2>6, <2>7, <2>8 DEF CountInv, all
<1>3. CASE \E q \in Request : RegisterFails(q)
  BY <1>3 DEF RegisterFails, CountInv
<1>4. CASE DeleteDataset
  <2>1. ~dataset'.exists
    BY <1>4 DEF DeleteDataset, TypeInv, RowInv, RowTypeOK
  <2> QED
    BY <2>1 DEF CountInv
<1>5. CASE \/ \E j \in Job : CommitExportJob(j) \/ Dispatch(j) \/ LoadForCancel(j) \/ CommitCancel(j)
           \/ \E i \in Image : Annotate(i) \/ Decide(i)
           \/ \E w \in Worker : WorkerStep(w) \/ Crash(w) \/ VisibilityTimeout(w)
           \/ UNCHANGED vars
  <2>1. UNCHANGED <<dataset, images, reg>>
    BY <1>5 DEF CommitExportJob, Dispatch, LoadForCancel, CommitCancel, Annotate, Decide,
                WorkerStep, Receive, Ack, SelectImages, ReadLatest, StoreFile, ExportRaises,
                LoadJob, CommitExport, Crash, VisibilityTimeout, apiVars, vars
  <2> QED
    BY <2>1 DEF CountInv
<1> QED
  BY <1>1, <1>2, <1>3, <1>4, <1>5 DEF Next, Client

(* image_count never exceeds the number of images, and is 0, the dataset   *)
(* CREATED, exactly while there is none: registrations that lose each      *)
(* other's counts err on one side only, for any requests and batches       *)
(* (dataset_service.py:60-61).                                             *)
THEOREM CountStaysPlausible == Spec => []CountIsPlausible
<1>1. CountInv => CountIsPlausible
  BY DEF CountInv, CountIsPlausible
<1> QED
  BY <1>1, Typed, CountInit, CountStep, PTL DEF Spec

-----------------------------------------------------------------------------
(* From a request to its file: a job that nobody has asked for has no      *)
(* message, no task and no file; a task at its last statements and a       *)
(* COMPLETED job have a file; a deleted dataset has no jobs.               *)

Doing(w, j) == pc[w] # "idle" /\ held[w] = j

RequestOf(j) ==
    /\ jobs[j].status = "completed" => j \in DOMAIN files
    /\ req[j] = "none" =>
        queue[j] = 0 /\ j \notin DOMAIN files /\ \A w \in Worker : ~Doing(w, j)
    /\ req[j] # "none" => format[j] \in Format
    /\ ~dataset.exists => jobs[j].status = "absent"

RequestInv ==
    /\ asked = [j \in Job |-> asked[j]]
    /\ DOMAIN files \subseteq Job
    /\ \A w \in Worker : pc[w] \in {"load", "commit"} => held[w] \in DOMAIN files
    /\ \A j \in Job : RequestOf(j)

requestVars == <<dataset, jobs, req, format, asked, queue, files, pc, held>>

LEMMA RequestInit == Init => RequestInv
  BY DEF Init, RequestInv, RequestOf, Doing, NoRow

LEMMA RequestStutter == RequestInv /\ UNCHANGED requestVars => RequestInv'
  BY DEF RequestInv, RequestOf, Doing, requestVars

(* What stays is given for the steps of clients, writers and workers.      *)
LEMMA RequestKept ==
    ASSUME RequestInv, UNCHANGED <<asked, files, pc, held, queue, req, format>>,
           \A j \in Job : jobs'[j].status = "completed" => jobs[j].status = "completed",
           ~dataset.exists => ~dataset'.exists,
           ~dataset'.exists => \A j \in Job : jobs'[j].status = "absent"
    PROVE  RequestInv'
  BY DEF RequestInv, RequestOf, Doing

LEMMA ClientRequests ==
    ASSUME TypeInv, RequestInv, Client
    PROVE  RequestInv'
<1>0. /\ jobs \in [Job -> JobRow]
      /\ dataset \in [exists : BOOLEAN, count : Nat, status : {"created", "ready"}]
      /\ req \in [Job -> {"none", "committed", "dispatched"}]
      /\ format \in [Job -> Format \cup {"none"}] /\ queue \in [Job -> Nat]
  BY DEF TypeInv, RowInv, RowTypeOK, ApiTypeOK, JobRow, WorkerInv, WorkerTypeOK
<1>1. CASE \E q \in Request : LoadForRegister(q) \/ RegisterFails(q)
  BY <1>1, RequestStutter DEF LoadForRegister, RegisterFails, brokerVars, workerVars, requestVars
<1>2. CASE \E q \in Request : CommitRegister(q)
  <2>1. /\ UNCHANGED <<asked, files, pc, held, queue, req, format, jobs>>
        /\ dataset.exists /\ dataset'.exists
    BY <1>0, <1>2 DEF CommitRegister, brokerVars, workerVars
  <2> QED
    BY <2>1, RequestKept
<1>3. CASE DeleteDataset
  <2>1. /\ UNCHANGED <<asked, files, pc, held, queue, req, format>>
        /\ ~dataset'.exists
        /\ \A j \in Job : jobs'[j].status = "absent"
    BY <1>0, <1>3 DEF DeleteDataset, apiVars, brokerVars, workerVars, NoRow
  <2> QED
    BY <2>1, RequestKept
<1>4. ASSUME NEW j \in Job, CommitExportJob(j)
      PROVE  RequestInv'
  <2>1. PICK pending \in 0 .. Cardinality({i \in images : log[i] = <<>>}) :
            jobs' = [jobs EXCEPT ![j] = [status |-> "queued", total |-> pending]]
    BY <1>4 DEF CommitExportJob
  <2>2. PICK f \in Format : format' = [format EXCEPT ![j] = f]
    BY <1>4 DEF CommitExportJob
  <2>3. /\ req[j] = "none" /\ dataset.exists /\ dataset' = dataset
        /\ req' = [req EXCEPT ![j] = "committed"]
        /\ asked' = [asked EXCEPT ![j] = [i \in images |-> Len(log[i])]]
        /\ UNCHANGED <<queue, files, pc, held>>
    BY <1>4 DEF CommitExportJob, brokerVars, workerVars
  <2>4. asked' = [k \in Job |-> asked'[k]]
    BY <2>3 DEF RequestInv
  <2>5. ASSUME NEW k \in Job
        PROVE  RequestOf(k)'
    <3>1. CASE k = j
      BY <1>0, <2>1, <2>2, <2>3, <3>1 DEF RequestInv, RequestOf, Doing
    <3>2. CASE k # j
      BY <1>0, <2>1, <2>2, <2>3, <3>2 DEF RequestInv, RequestOf, Doing
    <3> QED
      BY <3>1, <3>2
  <2> QED
    BY <2>3, <2>4, <2>5 DEF RequestInv
<1>5. ASSUME NEW j \in Job, Dispatch(j)
      PROVE  RequestInv'
  <2>1. /\ req[j] = "committed" /\ req' = [req EXCEPT ![j] = "dispatched"]
        /\ queue' = [queue EXCEPT ![j] = @ + 1]
        /\ UNCHANGED <<dataset, jobs, asked, format, files, pc, held>>
    BY <1>5 DEF Dispatch, workerVars
  <2>2. ASSUME NEW k \in Job
        PROVE  RequestOf(k)'
    BY <1>0, <2>1 DEF RequestInv, RequestOf, Doing
  <2> QED
    BY <2>1, <2>2 DEF RequestInv
<1>6. CASE \E j \in Job : LoadForCancel(j)
  BY <1>6, RequestStutter DEF LoadForCancel, brokerVars, workerVars, requestVars
<1>7. ASSUME NEW j \in Job, CommitCancel(j)
      PROVE  RequestInv'
  <2>1. /\ UNCHANGED <<asked, files, pc, held, queue, req, format, dataset>>
        /\ \A k \in Job : /\ jobs'[k].status = "completed" => jobs[k].status = "completed"
                          /\ jobs[k].status = "absent" => jobs'[k].status = "absent"
    BY <1>0, <1>7 DEF CommitCancel, brokerVars, workerVars
  <2> QED
    BY <2>1, RequestKept DEF RequestInv, RequestOf
<1> QED
  BY <1>1, <1>2, <1>3, <1>4, <1>5, <1>6, <1>7 DEF Client

LEMMA WorkerRequests ==
    ASSUME TypeInv, RequestInv, NEW w \in Worker,
           WorkerStep(w) \/ Crash(w) \/ VisibilityTimeout(w)
    PROVE  RequestInv'
<1>0. /\ jobs \in [Job -> JobRow] /\ queue \in [Job -> Nat]
      /\ req \in [Job -> {"none", "committed", "dispatched"}]
      /\ pc \in [Worker -> {"idle", "select", "read", "load", "commit", "ack"}]
      /\ held \in [Worker -> Job \cup {NoJob}]
      /\ pc[w] # "idle" => held[w] \in Job /\ req[held[w]] # "none"
  BY DEF TypeInv, RowInv, RowTypeOK, ApiTypeOK, JobRow, WorkerInv, WorkerTypeOK,
         RequestInv, RequestOf, Doing
<1> USE DEF RequestInv, RequestOf, Doing
<1>1. CASE Receive(w)
  <2>1. PICK j \in Job : /\ queue[j] > 0 /\ queue' = [queue EXCEPT ![j] = @ - 1]
                         /\ held' = [held EXCEPT ![w] = j]
    BY <1>1 DEF Receive
  <2>2. /\ pc' = [pc EXCEPT ![w] = "select"]
        /\ UNCHANGED <<dataset, jobs, req, format, asked, files>>
    BY <1>1 DEF Receive, apiVars
  <2>3. req[j] # "none"
    BY <2>1
  <2>4. ASSUME NEW k \in Job
        PROVE  RequestOf(k)'
    <3>1. req[k] = "none" => k # j /\ queue'[k] = 0
      BY <1>0, <2>1, <2>3
    <3>2. req[k] = "none" => \A v \in Worker : ~Doing(v, k)'
      BY <1>0, <2>1, <2>2, <3>1
    <3> QED
      BY <2>2, <3>1, <3>2
  <2> QED
    BY <1>0, <2>1, <2>2, <2>4
<1>2. CASE Ack(w) \/ Crash(w)
  <2>1. /\ pc' = [pc EXCEPT ![w] = "idle"] /\ held' = [held EXCEPT ![w] = NoJob]
        /\ UNCHANGED <<dataset, jobs, req, format, asked, files>>
        /\ pc[w] # "idle"
        /\ queue' = queue \/ queue' = [queue EXCEPT ![held[w]] = @ + 1]
    BY <1>2 DEF Ack, Crash, Release, apiVars, brokerVars
  <2> QED
    BY <1>0, <2>1
<1>3. CASE VisibilityTimeout(w)
  <2>1. /\ UNCHANGED <<dataset, jobs, req, format, asked, files, pc, held>>
        /\ pc[w] # "idle" /\ queue' = [queue EXCEPT ![held[w]] = @ + 1]
    BY <1>3 DEF VisibilityTimeout, apiVars, workerVars
  <2> QED
    BY <1>0, <2>1
<1>4. CASE SelectImages(w) \/ ReadLatest(w) \/ ExportRaises(w)
  <2>1. /\ \E p \in {"read", "ack"} : pc' = [pc EXCEPT ![w] = p]
        /\ UNCHANGED <<dataset, jobs, req, format, asked, files, held, queue>>
        /\ pc[w] # "idle"
    BY <1>0, <1>4 DEF SelectImages, ReadLatest, ExportRaises, apiVars, brokerVars
  <2> QED
    BY <1>0, <2>1
<1>5. CASE StoreFile(w)
  <2>1. /\ pc' = [pc EXCEPT ![w] = "load"]
        /\ UNCHANGED <<dataset, jobs, req, format, asked, held, queue>>
        /\ pc[w] # "idle" /\ DOMAIN files' = DOMAIN files \cup {held[w]}
    BY <1>5 DEF StoreFile, apiVars
  <2>2. DOMAIN files' \subseteq Job
    BY <1>0, <2>1
  <2>3. \A v \in Worker : pc'[v] \in {"load", "commit"} => held'[v] \in DOMAIN files'
    BY <1>0, <2>1
  <2>4. \A k \in Job : RequestOf(k)'
    BY <1>0, <2>1
  <2> QED
    BY <2>1, <2>2, <2>3, <2>4
<1>6. CASE LoadJob(w)
  <2>1. /\ \E p \in {"commit", "ack"} : pc' = [pc EXCEPT ![w] = p]
        /\ UNCHANGED <<dataset, jobs, req, format, asked, files, held, queue>>
        /\ pc[w] = "load"
    BY <1>6 DEF LoadJob, apiVars, brokerVars
  <2> QED
    BY <1>0, <2>1
<1>7. CASE CommitExport(w)
  <2>1. /\ pc' = [pc EXCEPT ![w] = "ack"]
        /\ UNCHANGED <<dataset, req, format, asked, files, held, queue>>
        /\ pc[w] = "commit"
    BY <1>7 DEF CommitExport, apiVars, brokerVars
  <2>2. held[w] \in Job /\ held[w] \in DOMAIN files
    BY <1>0, <2>1
  <2>3. \A k \in Job : /\ k # held[w] => jobs'[k] = jobs[k]
                       /\ jobs[k].status = "absent" => jobs'[k] = jobs[k]
    BY <1>0, <1>7, <2>2 DEF CommitExport
  <2> QED
    BY <1>0, <2>1, <2>2, <2>3
<1> QED
  BY <1>1, <1>2, <1>3, <1>4, <1>5, <1>6, <1>7 DEF WorkerStep

LEMMA RequestStep ==
    ASSUME TypeInv, RequestInv, [Next]_vars
    PROVE  RequestInv'
<1>1. CASE (\E i \in Image : Annotate(i) \/ Decide(i)) \/ UNCHANGED vars
  <2>1. UNCHANGED requestVars
    BY <1>1 DEF Annotate, Decide, vars, apiVars, brokerVars, workerVars, requestVars
  <2> QED
    BY <2>1, RequestStutter
<1> QED
  BY <1>1, ClientRequests, WorkerRequests DEF Next

-----------------------------------------------------------------------------
(* TotalMatchesFile is not inductive: one task at a time must be at a job, *)
(* with no message left, and what the task has loaded must still be there  *)
(* when it commits, so that the comparison with the loaded total writes    *)
(* the number of images where it differs.                                  *)

OneTask(w) ==
    /\ queue[held[w]] = 0 /\ req[held[w]] = "dispatched"
    /\ pc[w] \in {"load", "commit"} => Len(files[held[w]].exported) = Len(read[w])
    /\ pc[w] = "commit" =>
        jobs[held[w]].status = "absent" \/ seen[w].total = jobs[held[w]].total
    /\ jobs[held[w]].status = "completed" => pc[w] = "ack"

OneMessage(j) ==
    /\ queue[j] <= 1
    /\ queue[j] > 0 => req[j] = "dispatched" /\ jobs[j].status # "completed"
    /\ jobs[j].status = "completed" =>
        req[j] = "dispatched" /\ jobs[j].total = Len(files[j].exported)

Single ==
    /\ \A j \in Job : OneMessage(j)
    /\ \A w \in Worker : pc[w] # "idle" => OneTask(w)
    /\ \A v, w \in Worker : pc[w] # "idle" /\ Doing(v, held[w]) => v = w

SingleInv == redeliveries \in Nat /\ (redeliveries = 0 => Single)

singleVars == <<jobs, req, queue, files, pc, held, read, seen, redeliveries>>

LEMMA SingleInit == Init => SingleInv
  BY DEF Init, SingleInv, Single, OneMessage, OneTask, Doing, NoRow

LEMMA SingleStutter == SingleInv /\ UNCHANGED singleVars => SingleInv'
  BY DEF SingleInv, Single, OneMessage, OneTask, Doing, singleVars

LEMMA Typing ==
    ASSUME TypeInv
    PROVE  /\ jobs \in [Job -> JobRow] /\ queue \in [Job -> Nat]
           /\ req \in [Job -> {"none", "committed", "dispatched"}]
           /\ format \in [Job -> Format \cup {"none"}]
           /\ pc \in [Worker -> {"idle", "select", "read", "load", "commit", "ack"}]
           /\ held \in [Worker -> Job \cup {NoJob}]
           /\ todo \in [Worker -> SUBSET Image]
           /\ read \in [Worker -> Seq(Entry)]
           /\ seen \in [Worker -> JobRow]
           /\ \A w \in Worker : pc[w] # "idle" => held[w] \in Job
           /\ \A w \in Worker : pc[w] \in {"idle", "select"} => read[w] = <<>>
  BY DEF TypeInv, RowInv, RowTypeOK, ApiTypeOK, JobRow, WorkerInv, WorkerTypeOK

LEMMA ClientSingle ==
    ASSUME TypeInv, RequestInv, SingleInv, Client
    PROVE  SingleInv'
<1>0. UNCHANGED <<files, pc, held, read, seen, redeliveries>>
  BY DEF Client, LoadForRegister, CommitRegister, RegisterFails, CommitExportJob, Dispatch,
         LoadForCancel, CommitCancel, DeleteDataset, apiVars, brokerVars, workerVars, faultVars
<1> USE DEF SingleInv, Single
<1>1. CASE \E q \in Request : LoadForRegister(q) \/ RegisterFails(q) \/ CommitRegister(q)
  BY <1>0, <1>1, SingleStutter
     DEF LoadForRegister, RegisterFails, CommitRegister, brokerVars, singleVars
<1>2. CASE DeleteDataset
  <2>1. UNCHANGED <<queue, req>> /\ \A j \in Job : jobs'[j].status = "absent"
    BY <1>2 DEF DeleteDataset, apiVars, brokerVars, NoRow
  <2> QED
    BY <1>0, <2>1, Typing DEF OneMessage, OneTask, Doing
<1>3. ASSUME NEW j \in Job, CommitExportJob(j)
      PROVE  SingleInv'
  <2>1. /\ req[j] = "none" /\ req' = [req EXCEPT ![j] = "committed"] /\ queue' = queue
        /\ \A k \in Job : k # j => jobs'[k] = jobs[k]
        /\ jobs'[j].status = "queued"
    BY <1>3, Typing DEF CommitExportJob, brokerVars
  <2>2. queue[j] = 0 /\ \A w \in Worker : ~Doing(w, j)
    BY <2>1 DEF RequestInv, RequestOf
  <2>3. \A w \in Worker : pc[w] # "idle" => held[w] \in Job \ {j}
    BY <2>2, Typing DEF Doing
  <2>4. Single => \A w \in Worker : pc[w] # "idle" => OneTask(w)'
    BY <1>0, <2>1, <2>3, Typing DEF OneTask
  <2>5. Single => \A k \in Job : OneMessage(k)'
    BY <1>0, <2>1, <2>2, Typing DEF OneMessage
  <2> QED
    BY <1>0, <2>4, <2>5 DEF Doing
<1>4. ASSUME NEW j \in Job, Dispatch(j)
      PROVE  SingleInv'
  <2>1. /\ req[j] = "committed" /\ req' = [req EXCEPT ![j] = "dispatched"]
        /\ queue' = [queue EXCEPT ![j] = @ + 1] /\ jobs' = jobs
    BY <1>4 DEF Dispatch
  <2>2. Single => \A k \in Job : OneMessage(k)'
    BY <1>0, <2>1, Typing DEF OneMessage
  <2>3. Single => \A w \in Worker : pc[w] # "idle" => OneTask(w)'
    <3>1. Single => \A w \in Worker : pc[w] # "idle" => held[w] \in Job \ {j}
      BY <2>1, Typing DEF OneTask
    <3> QED
      BY <1>0, <2>1, <3>1, Typing DEF OneTask
  <2> QED
    BY <1>0, <2>2, <2>3 DEF Doing
<1>5. CASE \E j \in Job : LoadForCancel(j)
  BY <1>0, <1>5, SingleStutter DEF LoadForCancel, brokerVars, singleVars
<1>6. ASSUME NEW j \in Job, CommitCancel(j)
      PROVE  SingleInv'
  <2>1. /\ UNCHANGED <<req, queue>>
        /\ \A k \in Job : /\ jobs'[k].total = jobs[k].total
                          /\ jobs'[k].status = "completed" => jobs[k].status = "completed"
                          /\ jobs[k].status = "absent" => jobs'[k].status = "absent"
    BY <1>6, Typing DEF CommitCancel, brokerVars, JobRow
  <2>2. Single => \A k \in Job : OneMessage(k)'
    BY <1>0, <2>1, Typing DEF OneMessage
  <2>3. Single => \A w \in Worker : pc[w] # "idle" => OneTask(w)'
    BY <1>0, <2>1, Typing DEF OneTask
  <2> QED
    BY <1>0, <2>2, <2>3 DEF Doing
<1> QED
  BY <1>1, <1>2, <1>3, <1>4, <1>5, <1>6 DEF Client

(* A step of one worker, by what it does to the task and to its job.       *)
LEMMA OneStep ==
    ASSUME TypeInv, Single, NEW w \in Worker, pc[w] # "idle",
           UNCHANGED <<req, queue, held, read>>,
           NEW p, p # "idle", pc' = [pc EXCEPT ![w] = p],
           \A v \in Worker : v # w => seen'[v] = seen[v],
           \A j \in Job : j # held[w] => jobs'[j] = jobs[j] /\ files'[j] = files[j],
           OneTask(w)', OneMessage(held[w])'
    PROVE  Single'
<1>1. ASSUME NEW v \in Worker, v # w, pc[v] # "idle"
      PROVE  OneTask(v)'
  <2>1. held[v] \in Job /\ held[v] # held[w] /\ pc'[v] = pc[v]
    BY <1>1, Typing DEF Single, Doing
  <2> QED
    BY <1>1, <2>1 DEF Single, OneTask
<1>2. \A j \in Job : OneMessage(j)'
  BY DEF Single, OneMessage
<1>3. \A v \in Worker : pc'[v] # "idle" => pc[v] # "idle"
  BY Typing
<1>4. \A v, u \in Worker : pc'[u] # "idle" /\ Doing(v, held[u])' => v = u
  BY <1>3 DEF Single, Doing
<1> QED
  BY <1>1, <1>2, <1>3, <1>4 DEF Single

LEMMA WorkerSingle ==
    ASSUME TypeInv, RequestInv, SingleInv, NEW w \in Worker,
           WorkerStep(w) \/ Crash(w) \/ VisibilityTimeout(w)
    PROVE  SingleInv'
<1>1. CASE Crash(w) \/ VisibilityTimeout(w)
  BY <1>1 DEF Crash, VisibilityTimeout, SingleInv
<1> SUFFICES ASSUME WorkerStep(w), Single
             PROVE  Single'
  BY <1>1 DEF WorkerStep, Receive, Ack, SelectImages, ReadLatest, StoreFile, ExportRaises,
              LoadJob, CommitExport, faultVars, SingleInv
<1>2. pc[w] # "idle" => held[w] \in Job /\ OneTask(w) /\ OneMessage(held[w])
  BY Typing DEF Single
<1>3. CASE Receive(w)
  <2>1. PICK j \in Job : /\ queue[j] > 0 /\ queue' = [queue EXCEPT ![j] = @ - 1]
                         /\ held' = [held EXCEPT ![w] = j]
    BY <1>3 DEF Receive
  <2>2. /\ pc[w] = "idle" /\ pc' = [pc EXCEPT ![w] = "select"]
        /\ UNCHANGED <<jobs, req, files, read, seen>>
    BY <1>3 DEF Receive, apiVars
  <2>3. queue[j] = 1 /\ req[j] = "dispatched" /\ jobs[j].status # "completed"
    BY <2>1, Typing DEF Single, OneMessage
  <2>4. \A v \in Worker : pc[v] # "idle" => held[v] # j
    BY <2>3 DEF Single, OneTask
  <2>5. \A k \in Job : OneMessage(k)'
    BY <2>1, <2>2, <2>3, Typing DEF Single, OneMessage
  <2>6. ASSUME NEW v \in Worker, pc'[v] # "idle"
        PROVE  OneTask(v)'
    <3>1. CASE v = w
      BY <2>1, <2>2, <2>3, <3>1, Typing DEF OneTask
    <3>2. CASE v # w
      <4>1. pc'[v] = pc[v] /\ held'[v] = held[v] /\ held[v] \in Job \ {j}
        BY <2>1, <2>2, <2>4, <2>6, <3>2, Typing
      <4> QED
        BY <2>1, <2>2, <2>6, <4>1, Typing DEF Single, OneTask
    <3> QED
      BY <3>1, <3>2
  <2>7. \A v, u \in Worker : pc'[u] # "idle" /\ Doing(v, held[u])' => v = u
    BY <2>1, <2>2, <2>4, Typing DEF Single, Doing
  <2> QED
    BY <2>5, <2>6, <2>7 DEF Single
<1>4. CASE Ack(w)
  <2>1. /\ pc' = [pc EXCEPT ![w] = "idle"] /\ held' = [held EXCEPT ![w] = NoJob]
        /\ UNCHANGED <<jobs, req, files, queue>>
        /\ \A v \in Worker : v # w => read'[v] = read[v] /\ seen'[v] = seen[v]
    BY <1>4, Typing DEF Ack, Release, brokerVars, apiVars
  <2>2. ASSUME NEW v \in Worker, pc'[v] # "idle"
        PROVE  v # w /\ pc'[v] = pc[v] /\ held'[v] = held[v]
    BY <2>1, <2>2, Typing
  <2>3. \A v \in Worker : pc'[v] # "idle" => OneTask(v)'
    BY <2>1, <2>2 DEF Single, OneTask
  <2>4. \A k \in Job : OneMessage(k)'
    BY <2>1 DEF Single, OneMessage
  <2>5. \A v, u \in Worker : pc'[u] # "idle" /\ Doing(v, held[u])' => v = u
    BY <2>2 DEF Single, Doing
  <2> QED
    BY <2>3, <2>4, <2>5 DEF Single
<1>5. CASE SelectImages(w)
  <2>1. /\ pc[w] = "select" /\ pc' = [pc EXCEPT ![w] = "read"]
        /\ UNCHANGED <<jobs, req, files, queue, held, read, seen>>
    BY <1>5 DEF SelectImages, apiVars, brokerVars
  <2>2. OneTask(w)' /\ OneMessage(held[w])'
    BY <1>2, <2>1, Typing DEF OneTask, OneMessage
  <2> QED
    BY <2>1, <2>2, OneStep
<1>6. CASE ReadLatest(w)
  <2>1. /\ pc[w] = "read" /\ UNCHANGED <<jobs, req, files, queue, held, seen, pc>>
        /\ \A v \in Worker : v # w => read'[v] = read[v]
    BY <1>6, Typing DEF ReadLatest, apiVars, brokerVars
  <2>2. \A v \in Worker : pc'[v] # "idle" => OneTask(v)'
    BY <2>1 DEF Single, OneTask
  <2> QED
    BY <2>1, <2>2 DEF Single, OneMessage, Doing
<1>7. CASE StoreFile(w)
  <2> DEFINE j == held[w]
  <2>1. /\ pc[w] = "read" /\ pc' = [pc EXCEPT ![w] = "load"]
        /\ UNCHANGED <<jobs, req, queue, held, read, seen>>
        /\ files' = [k \in DOMAIN files \cup {j} |->
                        IF k = j
                        THEN [exported |-> [n \in DOMAIN read[w] |-> read[w][n].image],
                              body |-> Export(format[k], read[w], ClassNames(read[w]))]
                        ELSE files[k]]
    BY <1>7 DEF StoreFile, apiVars
  <2>2. files'[j].exported = [n \in DOMAIN read[w] |-> read[w][n].image]
    BY <2>1
  <2>3. Len(files'[j].exported) = Len(read[w])
    <3>1. DOMAIN read[w] = 1 .. Len(read[w]) /\ Len(read[w]) \in Nat
      BY Typing, LenProperties
    <3> QED
      BY <2>2, <3>1
  <2>4. jobs[j].status # "completed"
    BY <1>2, <2>1 DEF OneTask
  <2>5. OneTask(w)' /\ OneMessage(j)'
    BY <1>2, <2>1, <2>3, <2>4, Typing DEF OneTask, OneMessage
  <2>6. \A k \in DOMAIN files : k # j => files'[k] = files[k]
    BY <2>1
  <2>7. \A k \in Job \ {j} : OneMessage(k)'
    BY <2>1, <2>6 DEF Single, OneMessage, RequestInv, RequestOf
  <2>8. ASSUME NEW v \in Worker, v # w, pc[v] # "idle"
        PROVE  OneTask(v)'
    <3>1. held[v] \in Job /\ held[v] # j /\ pc'[v] = pc[v]
      BY <2>1, <2>8, Typing DEF Single, Doing
    <3> QED
      BY <2>1, <2>6, <2>8, <3>1 DEF Single, OneTask, RequestInv
  <2>9. \A v \in Worker : pc'[v] # "idle" => pc[v] # "idle"
    BY <2>1, Typing
  <2>10. \A v, u \in Worker : pc'[u] # "idle" /\ Doing(v, held[u])' => v = u
    BY <2>1, <2>9 DEF Single, Doing
  <2>11. \A k \in Job : OneMessage(k)'
    <3>1. CASE j \in Job
      BY <2>1, <2>5, <2>7
    <3> QED
      BY <1>2, <2>1, <3>1
  <2>12. \A v \in Worker : pc'[v] # "idle" => OneTask(v)'
    BY <2>5, <2>8, <2>9
  <2> QED
    BY <2>10, <2>11, <2>12 DEF Single
<1>8. CASE ExportRaises(w)
  <2>1. /\ pc[w] = "read" /\ pc' = [pc EXCEPT ![w] = "ack"]
        /\ UNCHANGED <<jobs, req, files, queue, held, read, seen>>
    BY <1>8 DEF ExportRaises, apiVars
  <2>2. OneTask(w)' /\ OneMessage(held[w])'
    BY <1>2, <2>1, Typing DEF OneTask, OneMessage
  <2> QED
    BY <2>1, <2>2, OneStep
<1>9. CASE LoadJob(w)
  <2> DEFINE p == IF jobs[held[w]].status = "absent" THEN "ack" ELSE "commit"
  <2>1. /\ pc[w] = "load" /\ pc' = [pc EXCEPT ![w] = p]
        /\ seen' = [seen EXCEPT ![w] = jobs[held[w]]]
        /\ UNCHANGED <<jobs, req, files, queue, held, read>>
    BY <1>9 DEF LoadJob, apiVars, brokerVars
  <2>2. OneTask(w)' /\ OneMessage(held[w])'
    BY <1>2, <2>1, Typing DEF OneTask, OneMessage
  <2>3. \A v \in Worker : v # w => seen'[v] = seen[v]
    BY <2>1, Typing
  <2> QED
    BY <2>1, <2>2, <2>3, OneStep
<1>10. CASE CommitExport(w)
  <2> DEFINE j == held[w]
  <2>1. /\ pc[w] = "commit" /\ pc' = [pc EXCEPT ![w] = "ack"]
        /\ UNCHANGED <<req, files, queue, held, read, seen>>
        /\ jobs' = IF jobs[j].status = "absent" THEN jobs
                   ELSE [jobs EXCEPT ![j] =
                        [status |-> Written(@.status, seen[w].status, "completed"),
                         total |-> Written(@.total, seen[w].total, Len(read[w]))]]
    BY <1>10 DEF CommitExport, apiVars, brokerVars
  <2>2. j \in Job /\ OneTask(w) /\ OneMessage(j)
    BY <1>2, <2>1
  <2>3. \A k \in Job : k # j => jobs'[k] = jobs[k]
    BY <2>1, Typing
  <2>4. CASE jobs[j].status = "absent"
    <3>1. OneTask(w)' /\ OneMessage(j)'
      BY <2>1, <2>2, <2>4, Typing DEF OneTask, OneMessage
    <3> QED
      BY <2>1, <2>3, <3>1, OneStep
  <2>5. CASE jobs[j].status # "absent"
    <3>1. jobs'[j].total = Written(jobs[j].total, seen[w].total, Len(read[w]))
      BY <2>1, <2>2, <2>5, Typing
    <3>2. jobs'[j].total = Len(files[j].exported)
      BY <2>1, <2>2, <2>5, <3>1 DEF OneTask, Written
    <3>3. queue[j] = 0 /\ req[j] = "dispatched"
      BY <2>1, <2>2 DEF OneTask
    <3>4. OneTask(w)' /\ OneMessage(j)'
      BY <2>1, <3>2, <3>3, Typing DEF OneTask, OneMessage
    <3> QED
      BY <2>1, <2>3, <3>4, OneStep
  <2> QED
    BY <2>4, <2>5
<1> QED
  BY <1>3, <1>4, <1>5, <1>6, <1>7, <1>8, <1>9, <1>10 DEF WorkerStep

LEMMA SingleStep ==
    ASSUME TypeInv, RequestInv, SingleInv, [Next]_vars
    PROVE  SingleInv'
<1>1. CASE (\E i \in Image : Annotate(i) \/ Decide(i)) \/ UNCHANGED vars
  <2>1. UNCHANGED singleVars
    BY <1>1 DEF Annotate, Decide, vars, apiVars, brokerVars, workerVars, faultVars, singleVars
  <2> QED
    BY <2>1, SingleStutter
<1> QED
  BY <1>1, ClientSingle, WorkerSingle DEF Next

LEMMA RequestsHold == Spec => [](TypeInv /\ RequestInv)
  BY Typed, RequestInit, RequestStep, PTL DEF Spec

(* As long as no message is delivered twice, the total of a COMPLETED      *)
(* export is the number of images of its file, whatever clients cancel and *)
(* although the commit writes only what differs from the row the task      *)
(* loaded, for any number of jobs and workers (tasks.py:202-206).          *)
THEOREM TotalIsOfTheFile == Spec => []TotalMatchesFile
<1>1. SingleInv => TotalMatchesFile
  BY DEF SingleInv, Single, OneMessage, TotalMatchesFile
<1> QED
  BY <1>1, RequestsHold, SingleInit, SingleStep, PTL DEF Spec

-----------------------------------------------------------------------------
(* What an export shows of the images.  While the dataset is there, the    *)
(* images of a request stay, and keep the versions they had; every task    *)
(* has read or will read them; and what it has read of an image is what    *)
(* the image shows, or one of the versions since the request where the     *)
(* image has been touched.                                                 *)

Known(j, i) == IF i \in DOMAIN asked[j] THEN asked[j][i] ELSE 0

Since(j, i) ==
    {<<>>} \cup {Detections[i][v] : v \in Max({1, Known(j, i)}) .. Len(log[i])}

Faithful(j, i, anns) ==
    IF i \in touched[j] THEN anns \in Since(j, i) ELSE anns = Shown(i, log[i])

Fresh(j, r) == \A k \in DOMAIN r : Faithful(j, r[k].image, r[k].anns)

Covers(j, left, r) == DOMAIN asked[j] \subseteq left \cup {r[k].image : k \in DOMAIN r}

Once(r) == \A k, l \in DOMAIN r : r[k].image = r[l].image => k = l

AskedInv ==
    dataset.exists =>
        \A j \in Job : \A i \in DOMAIN asked[j] :
            i \in images /\ asked[j][i] \in Nat /\ asked[j][i] <= Len(log[i])

ReadInv ==
    \A w \in Worker :
        /\ Once(read[w])
        /\ dataset.exists /\ pc[w] = "read" =>
            Covers(held[w], todo[w], read[w]) /\ Fresh(held[w], read[w])

Stored(j, r) ==
    files[j] = [exported |-> [k \in DOMAIN r |-> r[k].image],
                body |-> Export(format[j], r, ClassNames(r))]

ShowsRead(j, r) ==
    /\ r \in Seq(Entry)
    /\ Once(r)
    /\ ~Raises(format[j], r)
    /\ Stored(j, r)
    /\ dataset.exists => Covers(j, {}, r) /\ Fresh(j, r)

FileInv == \A j \in DOMAIN files : \E r : ShowsRead(j, r)

LEMMA MaxOfTwo ==
    ASSUME NEW n \in Nat
    PROVE  Max({1, n}) = IF n > 1 THEN n ELSE 1
<1> DEFINE m == IF n > 1 THEN n ELSE 1
<1>1. m \in {1, n} /\ \A y \in {1, n} : m >= y
  OBVIOUS
<1>2. \A x \in {1, n} : (\A y \in {1, n} : x >= y) => x = m
  OBVIOUS
<1> QED
  BY <1>1, <1>2 DEF Max

LEMMA LogTyped ==
    ASSUME TypeInv, NEW i \in Image
    PROVE  /\ log[i] \in Statuses /\ Len(log[i]) \in Nat
           /\ DOMAIN log[i] = 1 .. Len(log[i])
           /\ \A v \in 1 .. Len(log[i]) : log[i][v] \in {"kept", "rejected"}
<1>1. log[i] \in Statuses
  BY DEF TypeInv, RowInv, RowTypeOK, Statuses
<1> QED
  BY <1>1, LenProperties, ElementOfSeq DEF Statuses

(* What an image shows is one of its versions since any request.           *)
LEMMA ShownIsRecent ==
    ASSUME TypeInv, NEW j, NEW i \in Image, Known(j, i) \in Nat, Known(j, i) <= Len(log[i])
    PROVE  Shown(i, log[i]) \in Since(j, i)
<1> DEFINE n == Len(log[i])
<1>1. n \in Nat
  BY LogTyped
<1>2. CASE log[i] # <<>> /\ log[i][n] = "kept"
  <2>1. n # 0
    BY <1>2, LogTyped, EmptySeq DEF Statuses
  <2>2. n \in Max({1, Known(j, i)}) .. n
    BY <1>1, <2>1, MaxOfTwo
  <2> QED
    BY <1>2, <2>2 DEF Shown, Since
<1>3. CASE ~(log[i] # <<>> /\ log[i][n] = "kept")
  BY <1>3 DEF Shown, Since
<1> QED
  BY <1>2, <1>3

(* An export takes from an image what the image shows.                     *)
LEMMA TakesWhatIsShown ==
    ASSUME TypeInv, NEW i \in Image
    PROVE  Annotations(i, log[i]) = Shown(i, log[i])
<1> DEFINE n == Len(log[i])
<1>1. log[i] # <<>> => log[i][n] \in {"kept", "rejected"}
  <2> HAVE log[i] # <<>>
  <2>1. n \in 1 .. n
    BY LogTyped, EmptySeq DEF Statuses
  <2> QED
    BY <2>1, LogTyped
<1> QED
  BY <1>1 DEF Annotations, Shown, Last

LEMMA KnownIsOld ==
    ASSUME TypeInv, AskedInv, dataset.exists, NEW j \in Job, NEW i \in Image
    PROVE  Known(j, i) \in Nat /\ Known(j, i) <= Len(log[i])
  BY LogTyped DEF AskedInv, Known

(* A write or a decision on one image.                                     *)
Changes(i) ==
    /\ \E s \in Statuses : Len(s) >= Len(log[i]) /\ log' = [log EXCEPT ![i] = s]
    /\ Touch(i)

LEMMA WritersChange ==
    ASSUME TypeInv, NEW i \in Image, Annotate(i) \/ Decide(i)
    PROVE  Changes(i)
<1>1. log \in [Image -> Statuses] /\ log[i] \in Statuses /\ Len(log[i]) \in Nat
  BY LogTyped DEF TypeInv, RowInv, RowTypeOK, Statuses
<1>2. CASE Annotate(i)
  <2>1. PICK status \in {"kept", "rejected"} : log' = [log EXCEPT ![i] = Append(@, status)]
    BY <1>2 DEF Annotate
  <2>2. /\ Append(log[i], status) \in Statuses
        /\ Len(Append(log[i], status)) = Len(log[i]) + 1
    BY <1>1, AppendProperties DEF Statuses
  <2>3. log' = [log EXCEPT ![i] = Append(log[i], status)]
    BY <1>1, <2>1
  <2>4. Len(Append(log[i], status)) >= Len(log[i])
    BY <1>1, <2>2
  <2> QED
    BY <1>2, <2>2, <2>3, <2>4 DEF Annotate, Changes
<1>3. CASE Decide(i)
  <2>1. PICK v \in DOMAIN log[i], status \in {"kept", "rejected"} :
            log' = [log EXCEPT ![i][v] = status]
    BY <1>3 DEF Decide
  <2> DEFINE s == [log[i] EXCEPT ![v] = status]
  <2>2. s \in Statuses /\ Len(s) = Len(log[i])
    <3>1. v \in 1 .. Len(log[i])
      BY <1>1, <2>1, LogTyped
    <3> QED
      BY <1>1, <3>1, ExceptSeq DEF Statuses
  <2>3. log' = [log EXCEPT ![i] = s]
    BY <1>1, <2>1
  <2>4. Len(s) >= Len(log[i])
    BY <1>1, <2>2
  <2>5. Touch(i)
    BY <1>3 DEF Decide
  <2> HIDE DEF s
  <2> QED
    BY <2>2, <2>3, <2>4, <2>5 DEF Changes
<1> QED
  BY <1>2, <1>3

(* What was faithful to a request stays faithful when an image changes.    *)
LEMMA FaithfulKept ==
    ASSUME TypeInv, TypeInv', AskedInv, dataset.exists, NEW i \in Image, Changes(i),
           NEW j \in Job, req[j] # "none", asked' = asked,
           NEW h \in Image, NEW anns, Faithful(j, h, anns)
    PROVE  Faithful(j, h, anns)'
<1>1. PICK s \in Statuses : Len(s) >= Len(log[i]) /\ log' = [log EXCEPT ![i] = s]
  BY DEF Changes
<1>2. touched'[j] = touched[j] \cup {i}
  BY DEF Changes, Touch
<1>3. Known(j, h)' = Known(j, h) /\ Known(j, h) \in Nat /\ Known(j, h) <= Len(log[h])
  BY KnownIsOld DEF Known
<1>4. CASE h # i
  <2>1. log'[h] = log[h] /\ (h \in touched'[j] <=> h \in touched[j])
    BY <1>1, <1>2, <1>4 DEF TypeInv, RowInv, RowTypeOK
  <2> QED
    BY <1>3, <2>1 DEF Faithful, Since
<1>5. CASE h = i
  <2>1. anns \in Since(j, h)
    BY <1>3, ShownIsRecent DEF Faithful
  <2>2. Len(log'[h]) >= Len(log[h]) /\ Len(log'[h]) \in Nat /\ Len(log[h]) \in Nat
    BY <1>1, <1>5, LogTyped, LenProperties DEF TypeInv, RowInv, RowTypeOK, Statuses
  <2>3. Max({1, Known(j, h)}) \in Nat
    BY <1>3, MaxOfTwo
  <2> DEFINE m == Max({1, Known(j, h)})
  <2> HIDE DEF m
  <2>4. m .. Len(log[h]) \subseteq m .. Len(log'[h])
    BY <2>2, <2>3 DEF m
  <2>5. anns \in Since(j, h)'
    BY <1>3, <2>1, <2>4 DEF Since, m
  <2> QED
    BY <1>2, <1>5, <2>5 DEF Faithful
<1> QED
  BY <1>4, <1>5

LEMMA FreshKept ==
    ASSUME TypeInv, TypeInv', AskedInv, dataset.exists, NEW i \in Image, Changes(i),
           NEW j \in Job, req[j] # "none", asked' = asked,
           NEW r, \A k \in DOMAIN r : r[k].image \in Image, Fresh(j, r)
    PROVE  Fresh(j, r)'
<1> SUFFICES ASSUME NEW k \in DOMAIN r
             PROVE  Faithful(j, r[k].image, r[k].anns)'
  BY DEF Fresh
<1>1. Faithful(j, r[k].image, r[k].anns)
  BY DEF Fresh
<1> DEFINE h == r[k].image  anns == r[k].anns
<1>2. h \in Image /\ Faithful(j, h, anns)
  BY <1>1
<1> HIDE DEF h, anns
<1>3. Faithful(j, h, anns)'
  BY <1>2, FaithfulKept
<1> QED
  BY <1>3 DEF h, anns

LEMMA FreshUntouched ==
    ASSUME NEW j \in Job, NEW r, Fresh(j, r), asked'[j] = asked[j], UNCHANGED <<log, touched>>
    PROVE  Fresh(j, r)'
  BY DEF Fresh, Faithful, Known, Since

LEMMA EntriesHaveImages ==
    ASSUME NEW r \in Seq(Entry)
    PROVE  /\ \A k \in DOMAIN r : r[k].image \in Image
           /\ Len(r) \in Nat /\ DOMAIN r = 1 .. Len(r)
<1>1. Len(r) \in Nat /\ DOMAIN r = 1 .. Len(r)
  BY LenProperties
<1>2. \A k \in DOMAIN r : r[k] \in Entry
  BY <1>1, ElementOfSeq
<1> QED
  BY <1>1, <1>2 DEF Entry

-----------------------------------------------------------------------------
LEMMA AskedStep ==
    ASSUME TypeInv, RequestInv, AskedInv, [Next]_vars
    PROVE  AskedInv'
<1>0. /\ dataset \in [exists : BOOLEAN, count : Nat, status : {"created", "ready"}]
      /\ images \subseteq Image /\ log \in [Image -> Statuses]
  BY DEF TypeInv, RowInv, RowTypeOK, Statuses
<1>1. ASSUME NEW i \in Image, Annotate(i) \/ Decide(i)
      PROVE  AskedInv'
  <2>1. UNCHANGED <<dataset, images, asked>>
    BY <1>1 DEF Annotate, Decide, apiVars
  <2>2. PICK s \in Statuses : Len(s) >= Len(log[i]) /\ log' = [log EXCEPT ![i] = s]
    BY <1>1, WritersChange DEF Changes
  <2>3. Len(s) \in Nat /\ \A h \in Image : Len(log[h]) \in Nat
    BY LogTyped, LenProperties DEF Statuses
  <2>4. \A h \in Image : Len(log'[h]) >= Len(log[h]) /\ Len(log'[h]) \in Nat
    BY <1>0, <2>2, <2>3
  <2>5. ASSUME dataset.exists, NEW j \in Job, NEW h \in DOMAIN asked[j]
        PROVE  asked[j][h] <= Len(log'[h])
    BY <1>0, <2>3, <2>4, <2>5 DEF AskedInv
  <2> QED
    BY <2>1, <2>5 DEF AskedInv
<1>2. CASE DeleteDataset
  BY <1>0, <1>2 DEF DeleteDataset, AskedInv
<1>3. CASE \E q \in Request : CommitRegister(q)
  BY <1>3 DEF CommitRegister, AskedInv
<1>4. ASSUME NEW j \in Job, CommitExportJob(j)
      PROVE  AskedInv'
  <2>1. /\ dataset.exists /\ UNCHANGED <<dataset, images, log>>
        /\ asked' = [asked EXCEPT ![j] = [i \in images |-> Len(log[i])]]
    BY <1>4 DEF CommitExportJob
  <2>2. /\ asked'[j] = [i \in images |-> Len(log[i])]
        /\ \A k \in Job : k # j => asked'[k] = asked[k]
    BY <2>1 DEF RequestInv
  <2>3. \A i \in images : Len(log[i]) \in Nat
    BY <1>0, LogTyped
  <2>4. ASSUME NEW k \in Job, NEW i \in DOMAIN asked'[k]
        PROVE  i \in images /\ asked'[k][i] \in Nat /\ asked'[k][i] <= Len(log[i])
    <3>1. CASE k = j
      BY <2>2, <2>3, <3>1
    <3>2. CASE k # j
      BY <2>1, <2>2, <3>2 DEF AskedInv
    <3> QED
      BY <3>1, <3>2
  <2> QED
    BY <2>1, <2>4 DEF AskedInv
<1>5. CASE \/ \E q \in Request : LoadForRegister(q) \/ RegisterFails(q)
           \/ \E j \in Job : Dispatch(j) \/ LoadForCancel(j) \/ CommitCancel(j)
           \/ \E w \in Worker : WorkerStep(w) \/ Crash(w) \/ VisibilityTimeout(w)
           \/ UNCHANGED vars
  <2>1. UNCHANGED <<dataset, images, log, asked>>
    BY <1>5 DEF LoadForRegister, RegisterFails, Dispatch, LoadForCancel, CommitCancel,
                WorkerStep, Receive, Ack, SelectImages, ReadLatest, StoreFile, ExportRaises,
                LoadJob, CommitExport, Crash, VisibilityTimeout, apiVars, vars
  <2> QED
    BY <2>1 DEF AskedInv
<1> QED
  BY <1>1, <1>2, <1>3, <1>4, <1>5 DEF Next, Client

-----------------------------------------------------------------------------
ReadOf(w) ==
    /\ Once(read[w])
    /\ dataset.exists /\ pc[w] = "read" =>
        Covers(held[w], todo[w], read[w]) /\ Fresh(held[w], read[w])

LEMMA FreshRead ==
    ASSUME NEW w \in Worker, NEW j, NEW r, Fresh(j, r)', j = held'[w], r = read'[w]
    PROVE  Fresh(held[w], read[w])'
<1> SUFFICES ASSUME NEW k \in DOMAIN r
             PROVE  Faithful(held[w], read[w][k].image, read[w][k].anns)'
  BY DEF Fresh
<1>1. Faithful(j, r[k].image, r[k].anns)'
  BY DEF Fresh
<1> QED
  BY <1>1 DEF Faithful, Known, Since

(* What stays of one worker when its images do not change.                 *)
LEMMA ReadKept ==
    ASSUME TypeInv, NEW w \in Worker, ReadOf(w), read'[w] = read[w],
           dataset'.exists /\ pc'[w] = "read" =>
                /\ dataset.exists /\ pc[w] = "read"
                /\ held'[w] = held[w] /\ todo'[w] = todo[w]
                /\ asked'[held[w]] = asked[held[w]] /\ UNCHANGED <<log, touched>>
    PROVE  ReadOf(w)'
<1>1. CASE dataset'.exists /\ pc'[w] = "read"
  <2>1. PICK j, r : j \in Job /\ j = held[w] /\ r = read[w]
    BY <1>1, Typing
  <2>2. Fresh(j, r)'
    BY <1>1, <2>1, FreshUntouched DEF ReadOf
  <2>3. held'[w] = j /\ read'[w] = r
    BY <1>1, <2>1
  <2>4. Fresh(held[w], read[w])'
    BY <2>2, <2>3, FreshRead
  <2>5. Covers(held[w], todo[w], read[w])'
    BY <1>1 DEF ReadOf, Covers
  <2> QED
    BY <2>4, <2>5 DEF ReadOf, Once
<1>2. CASE ~(dataset'.exists /\ pc'[w] = "read")
  BY <1>2 DEF ReadOf, Once
<1> QED
  BY <1>1, <1>2

LEMMA OthersRead ==
    ASSUME TypeInv, TypeInv', RequestInv, AskedInv, ReadInv, NEW w \in Worker,
           Client \/ (\E i \in Image : Annotate(i) \/ Decide(i))
    PROVE  ReadOf(w)'
<1>0. UNCHANGED <<pc, held, todo, read>> /\ ReadOf(w)
  BY DEF Client, LoadForRegister, CommitRegister, RegisterFails, CommitExportJob, Dispatch,
         LoadForCancel, CommitCancel, DeleteDataset, Annotate, Decide, workerVars,
         ReadInv, ReadOf
<1>1. ASSUME NEW i \in Image, Annotate(i) \/ Decide(i), dataset.exists, pc[w] = "read"
      PROVE  ReadOf(w)'
  <2>1. Changes(i) /\ UNCHANGED <<dataset, asked>>
    BY <1>1, WritersChange DEF Annotate, Decide, apiVars
  <2>2. PICK j \in Job, r \in Seq(Entry) : j = held[w] /\ r = read[w]
    BY <1>1, Typing
  <2>3. req[j] # "none"
    BY <1>1, <2>2 DEF RequestInv, RequestOf, Doing
  <2>4. Fresh(j, r) /\ \A k \in DOMAIN r : r[k].image \in Image
    BY <1>0, <1>1, <2>2, EntriesHaveImages DEF ReadOf
  <2>5. Fresh(j, r)'
    BY <1>1, <2>1, <2>3, <2>4, FreshKept
  <2>6. held'[w] = j /\ read'[w] = r
    BY <1>0, <2>2
  <2>7. Fresh(held[w], read[w])'
    BY <2>5, <2>6, FreshRead
  <2>8. Covers(held[w], todo[w], read[w])'
    BY <1>0, <1>1, <2>1 DEF ReadOf, Covers
  <2> QED
    BY <1>0, <2>7, <2>8 DEF ReadOf, Once
<1>2. ASSUME NEW i \in Image, Annotate(i) \/ Decide(i), ~(dataset.exists /\ pc[w] = "read")
      PROVE  ReadOf(w)'
  BY <1>0, <1>2 DEF Annotate, Decide, ReadOf, Once
<1>3. CASE DeleteDataset
  BY <1>0, <1>3 DEF DeleteDataset, ReadOf, Once, TypeInv, RowInv, RowTypeOK
<1>4. CASE \E q \in Request : CommitRegister(q)
  BY <1>0, <1>4, ReadKept DEF CommitRegister
<1>5. ASSUME NEW j \in Job, CommitExportJob(j)
      PROVE  ReadOf(w)'
  <2>1. /\ req[j] = "none" /\ UNCHANGED <<dataset, log, touched>>
        /\ asked' = [asked EXCEPT ![j] = [i \in images |-> Len(log[i])]]
    BY <1>5 DEF CommitExportJob
  <2>2. pc[w] = "read" => held[w] # j /\ held[w] \in Job
    BY <2>1, Typing DEF RequestInv, RequestOf, Doing
  <2>3. pc[w] = "read" => asked'[held[w]] = asked[held[w]]
    BY <2>1, <2>2 DEF RequestInv
  <2> QED
    BY <1>0, <2>1, <2>3, ReadKept
<1>6. CASE \/ \E q \in Request : LoadForRegister(q) \/ RegisterFails(q)
           \/ \E j \in Job : Dispatch(j) \/ LoadForCancel(j) \/ CommitCancel(j)
  <2>1. UNCHANGED <<dataset, log, touched, asked>>
    BY <1>6 DEF LoadForRegister, RegisterFails, Dispatch, LoadForCancel, CommitCancel
  <2> QED
    BY <1>0, <2>1, ReadKept
<1> QED
  BY <1>1, <1>2, <1>3, <1>4, <1>5, <1>6 DEF Client

LEMMA Appending ==
    ASSUME NEW r \in Seq(Entry), NEW e \in Entry
    PROVE  /\ DOMAIN Append(r, e) = DOMAIN r \cup {Len(r) + 1}
           /\ Len(r) + 1 \notin DOMAIN r
           /\ \A k \in DOMAIN r : Append(r, e)[k] = r[k]
           /\ Append(r, e)[Len(r) + 1] = e
<1>1. Len(r) \in Nat /\ DOMAIN r = 1 .. Len(r)
  BY LenProperties
<1>2. /\ Append(r, e) \in Seq(Entry) /\ Len(Append(r, e)) = Len(r) + 1
      /\ \A k \in 1 .. Len(r) : Append(r, e)[k] = r[k]
      /\ Append(r, e)[Len(r) + 1] = e
  BY AppendProperties
<1>3. DOMAIN Append(r, e) = 1 .. Len(r) + 1
  BY <1>2, LenProperties
<1> QED
  BY <1>1, <1>2, <1>3

(* One more image is read.                                                 *)
LEMMA OneMoreRead ==
    ASSUME NEW j \in Job, NEW r \in Seq(Entry), NEW e \in Entry, NEW left,
           Once(r), \A k \in DOMAIN r : r[k].image # e.image
    PROVE  /\ Once(Append(r, e))
           /\ Covers(j, left, r) => Covers(j, left \ {e.image}, Append(r, e))
           /\ Fresh(j, r) /\ Faithful(j, e.image, e.anns) => Fresh(j, Append(r, e))
<1> DEFINE s == Append(r, e)  n == Len(r) + 1
<1>1. /\ DOMAIN s = DOMAIN r \cup {n} /\ n \notin DOMAIN r
      /\ \A k \in DOMAIN r : s[k] = r[k]
      /\ s[n] = e
  BY Appending
<1> HIDE DEF s, n
<1>2. Once(s)
  BY <1>1 DEF Once
<1>3. Covers(j, left, r) => Covers(j, left \ {e.image}, s)
  BY <1>1 DEF Covers
<1>4. Fresh(j, r) /\ Faithful(j, e.image, e.anns) => Fresh(j, s)
  <2> SUFFICES ASSUME Fresh(j, r), Faithful(j, e.image, e.anns), NEW k \in DOMAIN s
               PROVE  Faithful(j, s[k].image, s[k].anns)
    BY DEF Fresh
  <2>1. CASE k \in DOMAIN r
    BY <1>1, <2>1 DEF Fresh
  <2>2. CASE k = n
    BY <1>1, <2>2
  <2> QED
    BY <1>1, <2>1, <2>2
<1> QED
  BY <1>2, <1>3, <1>4 DEF s

LEMMA TaskReads ==
    ASSUME TypeInv, RequestInv, AskedInv, ReadInv, NEW w \in Worker, ReadLatest(w)
    PROVE  ReadOf(w)'
<1>1. PICK i \in todo[w] :
        /\ todo' = [todo EXCEPT ![w] = @ \ {i}]
        /\ read' = [read EXCEPT ![w] =
                Append(@, [image |-> i, file |-> FileOf[i], size |-> SizeOf[i],
                           anns |-> Annotations(i, log[i])])]
  BY DEF ReadLatest
<1>2. pc[w] = "read" /\ UNCHANGED <<dataset, log, touched, asked, pc, held>>
  BY DEF ReadLatest, apiVars
<1>3. i \in Image /\ log[i] \in Statuses
  BY <1>1, Typing, LogTyped
<1>4. PICK e : e = [image |-> i, file |-> FileOf[i], size |-> SizeOf[i],
                    anns |-> Annotations(i, log[i])]
  OBVIOUS
<1>5. e \in Entry /\ e.image = i /\ e.anns = Shown(i, log[i])
  BY <1>3, <1>4, TakenTyped, TakesWhatIsShown DEF Entry
<1>6. PICK j \in Job, r \in Seq(Entry) :
        /\ j = held[w] /\ r = read[w]
        /\ Once(r) /\ \A k \in DOMAIN r : r[k].image # e.image
  <2>1. \A k \in DOMAIN read[w] : read[w][k].image \notin todo[w]
    BY DEF TypeInv, WorkerInv, WorkerTypeOK
  <2> QED
    BY <1>1, <1>2, <1>5, <2>1, Typing DEF ReadInv
<1> PICK left : left = todo[w]
  OBVIOUS
<1>7. read'[w] = Append(r, e) /\ held'[w] = j /\ todo'[w] = left \ {e.image}
  BY <1>1, <1>2, <1>4, <1>5, <1>6, Typing
<1>8. Once(Append(r, e))
  BY <1>5, <1>6, OneMoreRead
<1>9. ASSUME dataset.exists
      PROVE  Covers(j, left \ {e.image}, Append(r, e)) /\ Fresh(j, Append(r, e))
  <2>1. Covers(j, left, r) /\ Fresh(j, r)
    BY <1>2, <1>6, <1>9 DEF ReadInv
  <2>2. Shown(i, log[i]) \in Since(j, i)
    BY <1>3, <1>9, KnownIsOld, ShownIsRecent
  <2>3. Faithful(j, e.image, e.anns)
    BY <1>5, <2>2 DEF Faithful
  <2> QED
    BY <1>5, <1>6, <2>1, <2>3, OneMoreRead
<1>10. ASSUME dataset.exists
       PROVE  Covers(held[w], todo[w], read[w])' /\ Fresh(held[w], read[w])'
  <2> DEFINE s == Append(r, e)
  <2> HIDE DEF s
  <2>1. Fresh(j, s) /\ read'[w] = s
    BY <1>7, <1>9, <1>10 DEF s
  <2>2. PICK t : t = s
    OBVIOUS
  <2>3. Fresh(j, t)'
    BY <1>2, <2>1, <2>2, FreshUntouched
  <2>4. Fresh(held[w], read[w])'
    BY <1>7, <2>1, <2>2, <2>3, FreshRead
  <2>5. Covers(held[w], todo[w], read[w])'
    BY <1>2, <1>7, <1>9, <1>10 DEF Covers
  <2> QED
    BY <2>4, <2>5
<1> QED
  BY <1>2, <1>7, <1>8, <1>10 DEF ReadOf

LEMMA WorkersRead ==
    ASSUME TypeInv, RequestInv, AskedInv, ReadInv, NEW w \in Worker,
           WorkerStep(w) \/ Crash(w) \/ VisibilityTimeout(w), NEW v \in Worker
    PROVE  ReadOf(v)'
<1>0. ReadOf(v) /\ UNCHANGED <<dataset, log, touched, asked>>
  BY DEF WorkerStep, Receive, Ack, SelectImages, ReadLatest, StoreFile, ExportRaises,
         LoadJob, CommitExport, Crash, VisibilityTimeout, apiVars, ReadInv, ReadOf
<1>1. CASE v # w
  <2>1. pc'[v] = pc[v] /\ held'[v] = held[v] /\ todo'[v] = todo[v] /\ read'[v] = read[v]
    BY <1>1, Typing DEF WorkerStep, Receive, Ack, SelectImages, ReadLatest, StoreFile,
        ExportRaises, LoadJob, CommitExport, Crash, VisibilityTimeout, Release, workerVars
  <2> QED
    BY <1>0, <2>1, ReadKept
<1>2. CASE v = w /\ ReadLatest(w)
  BY <1>2, TaskReads
<1>3. CASE v = w /\ VisibilityTimeout(w)
  BY <1>0, <1>3, ReadKept DEF VisibilityTimeout, workerVars
<1>4. CASE v = w /\ (Ack(w) \/ Crash(w))
  <2>1. read'[w] = <<>> /\ pc'[w] = "idle"
    BY <1>4, Typing DEF Ack, Crash, Release
  <2> QED
    BY <1>4, <2>1 DEF ReadOf, Once
<1>5. CASE v = w /\ SelectImages(w)
  <2>1. /\ pc[w] = "select" /\ todo' = [todo EXCEPT ![w] = images]
        /\ UNCHANGED <<images, held, read>>
    BY <1>5 DEF SelectImages
  <2>2. read'[w] = <<>> /\ todo'[w] = images /\ held'[w] \in Job
    BY <2>1, Typing
  <2>3. dataset.exists => DOMAIN asked[held[w]] \subseteq images
    BY <2>1, Typing DEF AskedInv
  <2> QED
    BY <1>0, <1>5, <2>1, <2>2, <2>3 DEF ReadOf, Once, Covers, Fresh
<1>6. CASE v = w /\ (Receive(w) \/ StoreFile(w) \/ ExportRaises(w) \/ LoadJob(w) \/ CommitExport(w))
  <2>1. pc'[w] # "read" /\ read'[w] = read[w]
    BY <1>6, Typing DEF Receive, StoreFile, ExportRaises, LoadJob, CommitExport
  <2> QED
    BY <1>0, <1>6, <2>1, ReadKept
<1> QED
  BY <1>1, <1>2, <1>3, <1>4, <1>5, <1>6 DEF WorkerStep

LEMMA ReadStep ==
    ASSUME TypeInv, TypeInv', RequestInv, AskedInv, ReadInv, [Next]_vars
    PROVE  ReadInv'
<1>1. CASE UNCHANGED vars
  <2>1. /\ UNCHANGED <<dataset, log, touched, asked, pc, held, todo, read>>
        /\ \A w \in Worker : ReadOf(w)
    BY <1>1 DEF vars, apiVars, workerVars, ReadInv, ReadOf
  <2>2. \A w \in Worker : ReadOf(w)'
    BY <2>1, ReadKept
  <2> QED
    BY <2>2 DEF ReadOf, ReadInv
<1>2. CASE Next
  <2>1. \A w \in Worker : ReadOf(w)'
    BY <1>2, OthersRead, WorkersRead DEF Next
  <2> QED
    BY <2>1 DEF ReadOf, ReadInv
<1> QED
  BY <1>1, <1>2

-----------------------------------------------------------------------------
LEMMA FileKept ==
    ASSUME NEW j \in Job, NEW r, ShowsRead(j, r),
           files'[j] = files[j], format'[j] = format[j],
           dataset'.exists =>
                dataset.exists /\ asked'[j] = asked[j] /\ (Fresh(j, r) => Fresh(j, r)')
    PROVE  ShowsRead(j, r)'
<1>1. Stored(j, r)'
  BY DEF ShowsRead, Stored
<1>2. dataset'.exists => Covers(j, {}, r)' /\ Fresh(j, r)'
  BY DEF ShowsRead, Covers
<1> QED
  BY <1>1, <1>2 DEF ShowsRead

LEMMA FileStored ==
    ASSUME TypeInv, RequestInv, ReadInv, FileInv, NEW w \in Worker, StoreFile(w)
    PROVE  FileInv'
<1>1. /\ pc[w] = "read" /\ todo[w] = {} /\ ~Raises(format[held[w]], read[w])
      /\ UNCHANGED <<dataset, log, touched, asked, format, held, read>>
      /\ files' = [j \in DOMAIN files \cup {held[w]} |->
            IF j = held[w]
            THEN [exported |-> [k \in DOMAIN read[w] |-> read[w][k].image],
                  body |-> Export(format[j], read[w], ClassNames(read[w]))]
            ELSE files[j]]
  BY DEF StoreFile, apiVars
<1>2. PICK j \in Job, r \in Seq(Entry) : j = held[w] /\ r = read[w] /\ Once(r)
  BY <1>1, Typing DEF ReadInv
<1>3. ShowsRead(j, r)'
  <2>1. Stored(j, r)'
    BY <1>1, <1>2 DEF Stored
  <2>2. ASSUME dataset.exists
        PROVE  Covers(j, {}, r)' /\ Fresh(j, r)'
    <3>1. Covers(j, {}, r) /\ Fresh(j, r)
      BY <1>1, <1>2, <2>2 DEF ReadInv
    <3>2. Fresh(j, r)'
      BY <1>1, <3>1, FreshUntouched
    <3> QED
      BY <1>1, <3>1, <3>2 DEF Covers
  <2> QED
    BY <1>1, <1>2, <2>1, <2>2 DEF ShowsRead
<1>4. ASSUME NEW i \in DOMAIN files, i # j
      PROVE  \E s : ShowsRead(i, s)'
  <2>1. PICK s : ShowsRead(i, s)
    BY DEF FileInv
  <2>2. files'[i] = files[i] /\ i \in Job
    BY <1>1, <1>2, <1>4 DEF RequestInv
  <2>3. Fresh(i, s) => Fresh(i, s)'
    BY <1>1, <2>2, FreshUntouched
  <2>4. ShowsRead(i, s)'
    BY <1>1, <2>1, <2>2, <2>3, FileKept
  <2> QED
    BY <2>4
<1>5. DOMAIN files' = DOMAIN files \cup {j}
  BY <1>1, <1>2
<1> QED
  BY <1>3, <1>4, <1>5 DEF FileInv

LEMMA FileStep ==
    ASSUME TypeInv, TypeInv', RequestInv, AskedInv, ReadInv, FileInv, [Next]_vars
    PROVE  FileInv'
<1>1. CASE \E w \in Worker : StoreFile(w)
  BY <1>1, FileStored
<1>2. ASSUME files' = files,
             \A j \in DOMAIN files :
                /\ format'[j] = format[j]
                /\ dataset'.exists => dataset.exists /\ asked'[j] = asked[j],
             \A j \in DOMAIN files : \A r \in Seq(Entry) :
                dataset'.exists /\ Fresh(j, r) => Fresh(j, r)'
      PROVE  FileInv'
  <2> SUFFICES ASSUME NEW j \in DOMAIN files
               PROVE  \E r : ShowsRead(j, r)'
    BY <1>2 DEF FileInv
  <2>1. PICK r : ShowsRead(j, r)
    BY DEF FileInv
  <2>2. r \in Seq(Entry) /\ j \in Job
    BY <2>1 DEF ShowsRead, RequestInv
  <2>3. ShowsRead(j, r)'
    BY <1>2, <2>1, <2>2, FileKept
  <2> QED
    BY <2>3
<1>3. DOMAIN files \subseteq Job /\ \A j \in DOMAIN files : req[j] # "none"
  BY DEF RequestInv, RequestOf
<1>4. ASSUME NEW i \in Image, Annotate(i) \/ Decide(i)
      PROVE  FileInv'
  <2>1. Changes(i) /\ UNCHANGED <<dataset, asked, files, format>>
    BY <1>4, WritersChange DEF Annotate, Decide, apiVars, brokerVars
  <2>2. ASSUME NEW j \in DOMAIN files, NEW r \in Seq(Entry), dataset.exists, Fresh(j, r)
        PROVE  Fresh(j, r)'
    BY <1>3, <2>1, <2>2, EntriesHaveImages, FreshKept
  <2> QED
    BY <1>2, <2>1, <2>2
<1>5. CASE DeleteDataset
  <2>1. files' = files /\ format' = format /\ ~dataset'.exists
    BY <1>5 DEF DeleteDataset, brokerVars, apiVars, TypeInv, RowInv, RowTypeOK
  <2> QED
    BY <1>2, <2>1
<1>6. ASSUME NEW j \in Job, CommitExportJob(j)
      PROVE  FileInv'
  <2>1. /\ req[j] = "none" /\ UNCHANGED <<dataset, log, touched, files>>
        /\ asked' = [asked EXCEPT ![j] = [i \in images |-> Len(log[i])]]
        /\ \E f \in Format : format' = [format EXCEPT ![j] = f]
    BY <1>6 DEF CommitExportJob, brokerVars
  <2>2. \A k \in DOMAIN files : k # j /\ format'[k] = format[k] /\ asked'[k] = asked[k]
    BY <1>3, <2>1, Typing DEF RequestInv
  <2>3. \A k \in DOMAIN files : \A r \in Seq(Entry) : Fresh(k, r) => Fresh(k, r)'
    BY <1>3, <2>1, <2>2, FreshUntouched
  <2> QED
    BY <1>2, <2>1, <2>2, <2>3
<1>7. CASE \/ \E q \in Request : LoadForRegister(q) \/ CommitRegister(q) \/ RegisterFails(q)
           \/ \E j \in Job : Dispatch(j) \/ LoadForCancel(j) \/ CommitCancel(j)
           \/ \E w \in Worker :
                \/ Receive(w) \/ Ack(w) \/ SelectImages(w) \/ ReadLatest(w) \/ ExportRaises(w)
                \/ LoadJob(w) \/ CommitExport(w) \/ Crash(w) \/ VisibilityTimeout(w)
           \/ UNCHANGED vars
  <2>1. /\ UNCHANGED <<log, touched, asked, files, format>>
        /\ dataset'.exists => dataset.exists
    BY <1>7 DEF LoadForRegister, CommitRegister, RegisterFails, Dispatch, LoadForCancel,
            CommitCancel, Receive, Ack, SelectImages, ReadLatest, ExportRaises, LoadJob,
            CommitExport, Crash, VisibilityTimeout, apiVars, brokerVars, vars
  <2>2. \A j \in DOMAIN files : \A r \in Seq(Entry) : Fresh(j, r) => Fresh(j, r)'
    BY <1>3, <2>1, FreshUntouched
  <2> QED
    BY <1>2, <2>1, <2>2
<1> QED
  BY <1>1, <1>4, <1>5, <1>6, <1>7 DEF Next, Client, WorkerStep

-----------------------------------------------------------------------------
(* Reading the files back.                                                 *)

LEMMA EntriesList ==
    ASSUME NEW r \in Seq(Entry)
    PROVE  /\ Listing(r)
           /\ Named(r, ClassNames(r))
           /\ \A k \in DOMAIN r :
                /\ r[k].file = FileOf[r[k].image]
                /\ r[k].size = SizeOf[r[k].image] /\ r[k].size \in Nat \X Nat
<1>1. Len(r) \in Nat /\ DOMAIN r = 1 .. Len(r) /\ \A k \in DOMAIN r : r[k] \in Entry
  BY LenProperties, ElementOfSeq
<1>2. Listing(r)
  BY <1>1 DEF Listing, Entry
<1>3. Named(r, ClassNames(r))
  BY <1>2, LabelsName DEF ClassNames
<1>4. ASSUME NEW k \in DOMAIN r
      PROVE  /\ r[k].file = FileOf[r[k].image]
             /\ r[k].size = SizeOf[r[k].image] /\ r[k].size \in Nat \X Nat
  <2>1. r[k].image \in Image /\ r[k].file = FileOf[r[k].image] /\ r[k].size = SizeOf[r[k].image]
    BY <1>1 DEF Entry
  <2> QED
    BY <2>1, DataAssumption
<1> QED
  BY <1>2, <1>3, <1>4

(* What stands in the way of reading the k-th image of an archive.         *)
IsHidden(j, k) ==
    Hidden(format[j], [m \in DOMAIN files[j].exported |-> FileOf[files[j].exported[m]]], k)

LEMMA FileDecodes ==
    ASSUME RequestInv, NEW j \in Job, NEW r, ShowsRead(j, r), j \in DOMAIN files
    PROVE  /\ files[j].exported = [k \in DOMAIN r |-> r[k].image]
           /\ \A k \in DOMAIN r : IsHidden(j, k) \/ FileShows(j, k, r[k].anns)
<1>1. /\ r \in Seq(Entry) /\ ~Raises(format[j], r)
      /\ files[j].exported = [k \in DOMAIN r |-> r[k].image]
      /\ files[j].body = Export(format[j], r, ClassNames(r))
  BY DEF ShowsRead, Stored
<1>2. format[j] \in Formats
  BY DataAssumption DEF RequestInv, RequestOf
<1> DEFINE f == format[j]
           names == ClassNames(r)
<1>3. [m \in DOMAIN files[j].exported |-> FileOf[files[j].exported[m]]] =
        [m \in DOMAIN r |-> r[m].file]
  <2>1. \A m \in DOMAIN r : r[m].file = FileOf[r[m].image]
    BY <1>1, EntriesList
  <2> QED
    BY <1>1, <2>1
<1>4. ASSUME NEW k \in DOMAIN r, ~IsHidden(j, k)
      PROVE  FileShows(j, k, r[k].anns)
  <2> DEFINE image == [file |-> r[k].file, size |-> r[k].size]
             body == Export(f, r, names)
  <2>1. Listing(r) /\ Named(r, names) /\ r[k].size \in Nat \X Nat
    BY <1>1, EntriesList
  <2>2. ~Hidden(f, [m \in DOMAIN r |-> r[m].file], k)
    BY <1>3, <1>4 DEF IsHidden
  <2> HIDE DEF f, names
  <2>3. ReadsAs(f, r[k].size, Decoded(f, body, r[k], k), r[k].anns)
    BY <1>1, <1>2, <2>1, <2>2, FormatsReadBack DEF f
  <2>4. image.file = r[k].file /\ image.size = r[k].size
    OBVIOUS
  <2>5. Decoded(f, body, image, k) = Decoded(f, body, r[k], k)
    <3> HIDE DEF image, body
    <3> QED
      BY <1>2, <2>4, DecodedByFile DEF f
  <2>6. /\ files[j].exported[k] = r[k].image /\ files[j].body = body
        /\ FileOf[r[k].image] = r[k].file /\ SizeOf[r[k].image] = r[k].size
    BY <1>1, EntriesList DEF f, names
  <2> HIDE DEF body
  <2> QED
    BY <2>3, <2>5, <2>6 DEF FileShows, f
<1> QED
  BY <1>1, <1>4

DataInv == AskedInv /\ ReadInv /\ FileInv

LEMMA DataInit == Init => DataInv
  BY DEF Init, DataInv, AskedInv, ReadInv, FileInv, Once

LEMMA DataHolds == Spec => [](TypeInv /\ RequestInv /\ DataInv)
<1>1. TypeInv /\ RequestInv /\ DataInv /\ TypeInv' /\ [Next]_vars => DataInv'
  BY AskedStep, ReadStep, FileStep DEF DataInv
<1> QED
  BY <1>1, RequestsHold, DataInit, PTL DEF Spec

(* A COMPLETED export has its file; the file has every image that was      *)
(* there when the export was asked for, none twice.  Read in any of the    *)
(* five formats, the archives by name, it shows of each image, within the  *)
(* precision of the format, what the image shows, or, where the image has  *)
(* been touched since, nothing or a version no older than that moment's;   *)
(* except where a later image of an archive has the same stem.  However    *)
(* many clients register, annotate, decide and delete meanwhile, and       *)
(* however many workers store their files over each other's                *)
(* (tasks.py:154-206).                                                     *)
THEOREM ExportsShowTheRequest == Spec => []ExportShowsRequest
<1>1. TypeInv /\ RequestInv /\ DataInv => ExportShowsRequest
  <2> DEFINE Possible(j, i) == IF i \in touched[j] THEN Since(j, i) ELSE {Shown(i, log[i])}
  <2> SUFFICES ASSUME TypeInv, RequestInv, DataInv,
                      NEW j \in Job, jobs[j].status = "completed"
               PROVE  /\ j \in DOMAIN files
                      /\ DOMAIN asked[j] \subseteq ToSet(files[j].exported)
                      /\ IsInjective(files[j].exported)
                      /\ \A k \in DOMAIN files[j].exported :
                            \/ IsHidden(j, k)
                            \/ \E anns \in Possible(j, files[j].exported[k]) :
                                    FileShows(j, k, anns)
    BY DEF ExportShowsRequest, IsHidden, Since, Known
  <2>1. j \in DOMAIN files /\ dataset.exists
    BY DEF RequestInv, RequestOf, TypeInv, RowInv, RowTypeOK
  <2>2. PICK r : ShowsRead(j, r)
    BY <2>1 DEF DataInv, FileInv
  <2>3. /\ files[j].exported = [k \in DOMAIN r |-> r[k].image]
        /\ \A k \in DOMAIN r : IsHidden(j, k) \/ FileShows(j, k, r[k].anns)
    BY <2>1, <2>2, FileDecodes
  <2>4. Once(r) /\ Covers(j, {}, r) /\ Fresh(j, r)
    BY <2>1, <2>2 DEF ShowsRead
  <2>5. DOMAIN asked[j] \subseteq ToSet(files[j].exported)
    BY <2>3, <2>4 DEF Covers, ToSet
  <2>6. IsInjective(files[j].exported)
    BY <2>3, <2>4 DEF Once, IsInjective
  <2>7. ASSUME NEW k \in DOMAIN files[j].exported, ~IsHidden(j, k)
        PROVE  \E anns \in Possible(j, files[j].exported[k]) : FileShows(j, k, anns)
    <3>1. k \in DOMAIN r /\ files[j].exported[k] = r[k].image
      BY <2>3
    <3>2. r[k].anns \in Possible(j, r[k].image)
      BY <2>4, <3>1 DEF Fresh, Faithful
    <3> HIDE DEF Possible
    <3> QED
      BY <2>3, <2>7, <3>1, <3>2
  <2> QED
    BY <2>1, <2>5, <2>6, <2>7
<1> QED
  BY <1>1, DataHolds, PTL

(* In every COCO file stored, whatever was exported, ids number the        *)
(* annotations 1, 2, ..., and each image_id and category_id names one      *)
(* image and one category (coco.py:13-54).                                 *)
THEOREM CocoFilesAreKeyed == Spec => []CocoIsKeyed
<1>1. TypeInv /\ RequestInv /\ DataInv => CocoIsKeyed
  <2> SUFFICES ASSUME RequestInv, DataInv, NEW j \in DOMAIN files, format[j] = "coco"
               PROVE  LET body == files[j].body
                          anns == body.annotations
                      IN  \A p \in DOMAIN anns :
                            /\ anns[p].id = p
                            /\ \E k \in DOMAIN body.images : anns[p].image_id = body.images[k].id
                            /\ Cardinality({c \in body.categories :
                                                c.id = anns[p].category_id}) = 1
    BY DEF CocoIsKeyed
  <2>1. PICK r : ShowsRead(j, r)
    BY DEF DataInv, FileInv
  <2>2. r \in Seq(Entry) /\ files[j].body = Coco(r, ClassNames(r))
    BY <2>1 DEF ShowsRead, Stored, Export
  <2>3. Listing(r) /\ Named(r, ClassNames(r))
    BY <2>2, EntriesList
  <2> QED
    BY <2>2, <2>3, CocoKeys
<1> QED
  BY <1>1, DataHolds, PTL

-----------------------------------------------------------------------------
(* No export is left behind.                                               *)

StrandedInv == SeenIsQueued /\ NoExportIsStranded

(* A row is QUEUED since its request committed it: nothing but that commit *)
(* makes it so.                                                            *)
LEMMA WhoQueues ==
    ASSUME TypeInv, [Next]_vars, NEW j \in Job, jobs'[j].status = "queued"
    PROVE  jobs[j].status = "queued" \/ CommitExportJob(j)
<1> USE Typing
<1>1. CASE \E w \in Worker : CommitExport(w)
  <2>1. PICK w \in Worker : CommitExport(w)
    BY <1>1
  <2>2. jobs'[j] = jobs[j] \/ jobs'[j].status = Written(jobs[j].status, seen[w].status, "completed")
    BY <2>1 DEF CommitExport
  <2> QED
    BY <2>2 DEF Written
<1>2. CASE DeleteDataset
  BY <1>2 DEF DeleteDataset, NoRow
<1>3. ASSUME NEW k \in Job, CommitExportJob(k), k # j
      PROVE  jobs[j].status = "queued"
  BY <1>3 DEF CommitExportJob
<1>4. ASSUME NEW k \in Job, CommitCancel(k)
      PROVE  jobs[j].status = "queued"
  <2>1. jobs'[j] = jobs[j] \/ jobs'[j].status = "cancelled"
    BY <1>4 DEF CommitCancel, JobRow
  <2> QED
    BY <2>1
<1>5. ASSUME NEW w \in Worker, WorkerStep(w) \/ Crash(w) \/ VisibilityTimeout(w),
             ~CommitExport(w)
      PROVE  UNCHANGED jobs
  BY <1>5 DEF WorkerStep, Receive, Ack, SelectImages, ReadLatest, StoreFile, ExportRaises,
     LoadJob, Crash, VisibilityTimeout
<1>6. ASSUME Client, ~DeleteDataset, \A k \in Job : ~CommitExportJob(k) /\ ~CommitCancel(k)
      PROVE  UNCHANGED jobs
  BY <1>6 DEF Client, LoadForRegister, CommitRegister, RegisterFails, Dispatch, LoadForCancel
<1>7. CASE (\E i \in Image : Annotate(i) \/ Decide(i)) \/ UNCHANGED vars
  BY <1>7 DEF Annotate, Decide, vars
<1> QED
  BY <1>1, <1>2, <1>3, <1>4, <1>5, <1>6, <1>7 DEF Next

(* What a task loaded is what its row is, as long as that is QUEUED.       *)
LEMMA SeenQueuedStep ==
    ASSUME TypeInv, TypeInv', RequestInv, SeenIsQueued, [Next]_vars
    PROVE  SeenIsQueued'
<1> SUFFICES ASSUME NEW w \in Worker, pc'[w] = "commit", jobs'[held'[w]].status = "queued"
             PROVE  seen'[w].status = "queued"
  BY DEF SeenIsQueued
<1> USE Typing
<1>1. CASE LoadJob(w)
  BY <1>1 DEF LoadJob
<1>2. CASE ~LoadJob(w)
  <2>1. pc[w] = "commit" /\ held'[w] = held[w] /\ seen'[w] = seen[w]
    <3>1. ASSUME NEW v \in Worker, WorkerStep(v) \/ Crash(v) \/ VisibilityTimeout(v)
          PROVE  pc[w] = "commit" /\ held'[w] = held[w] /\ seen'[w] = seen[w]
      BY <1>2, <3>1 DEF WorkerStep, Receive, Ack, SelectImages, ReadLatest, StoreFile,
         ExportRaises, LoadJob, CommitExport, Crash, VisibilityTimeout, Release, workerVars
    <3>2. CASE Client \/ (\E i \in Image : Annotate(i) \/ Decide(i)) \/ UNCHANGED vars
      BY <3>2 DEF Client, LoadForRegister, CommitRegister, RegisterFails, CommitExportJob,
         Dispatch, LoadForCancel, CommitCancel, DeleteDataset, Annotate, Decide, vars,
         workerVars
    <3> QED
      BY <3>1, <3>2 DEF Next
  <2>2. held[w] \in Job /\ Doing(w, held[w])
    BY <2>1 DEF Doing
  <2>3. ~CommitExportJob(held[w])
    BY <2>2 DEF CommitExportJob, RequestInv, RequestOf
  <2> QED
    BY <2>1, <2>2, <2>3, WhoQueues DEF SeenIsQueued
<1> QED
  BY <1>1, <1>2

(* A waiting message leaves the queue only into the hands of a worker.     *)
LEMMA WaitingKept ==
    ASSUME TypeInv, [Next]_vars, NEW j \in Job, queue[j] > 0
    PROVE  queue'[j] > 0 \/ \E w \in Worker : AtWork(w, j)'
<1> USE Typing
<1>1. ASSUME NEW w \in Worker, Receive(w)
      PROVE  queue'[j] > 0 \/ AtWork(w, j)'
  <2>1. PICK k \in Job : /\ queue' = [queue EXCEPT ![k] = @ - 1]
                        /\ held' = [held EXCEPT ![w] = k]
    BY <1>1 DEF Receive
  <2>2. pc' = [pc EXCEPT ![w] = "select"]
    BY <1>1 DEF Receive
  <2>3. CASE k = j
    BY <2>1, <2>2, <2>3 DEF AtWork
  <2>4. CASE k # j
    BY <2>1, <2>4
  <2> QED
    BY <2>3, <2>4
<1>2. ASSUME NEW w \in Worker, Crash(w) \/ VisibilityTimeout(w)
      PROVE  queue'[j] > 0
  <2>1. held[w] \in Job /\ queue' = [queue EXCEPT ![held[w]] = @ + 1]
    BY <1>2 DEF Crash, VisibilityTimeout
  <2> QED
    BY <2>1
<1>3. ASSUME NEW w \in Worker, WorkerStep(w), ~Receive(w)
      PROVE  UNCHANGED queue
  BY <1>3 DEF WorkerStep, Ack, SelectImages, ReadLatest, StoreFile, ExportRaises,
     LoadJob, CommitExport, brokerVars
<1>4. ASSUME NEW k \in Job, Dispatch(k)
      PROVE  queue'[j] > 0
  BY <1>4 DEF Dispatch
<1>5. ASSUME Client, \A k \in Job : ~Dispatch(k)
      PROVE  UNCHANGED queue
  BY <1>5 DEF Client, LoadForRegister, CommitRegister, RegisterFails, CommitExportJob,
     LoadForCancel, CommitCancel, DeleteDataset, brokerVars
<1>6. CASE (\E i \in Image : Annotate(i) \/ Decide(i)) \/ UNCHANGED vars
  BY <1>6 DEF Annotate, Decide, vars, brokerVars
<1> QED
  BY <1>1, <1>2, <1>3, <1>4, <1>5, <1>6 DEF Next

(* A worker stays at an export until it completes it, fails, hands it back *)
(* or finds its row gone.                                                  *)
LEMMA WorkKept ==
    ASSUME TypeInv, SeenIsQueued, [Next]_vars,
           NEW j \in Job, jobs[j].status = "queued", jobs'[j].status = "queued",
           NEW w \in Worker, AtWork(w, j)
    PROVE  AtWork(w, j)' \/ queue'[j] > 0 \/ j \in failed'
<1> USE Typing DEF AtWork
<1>1. CASE Crash(w) \/ VisibilityTimeout(w)
  BY <1>1 DEF Crash, VisibilityTimeout
<1>2. CASE ExportRaises(w)
  BY <1>2 DEF ExportRaises
<1>3. ~CommitExport(w)
  <2> SUFFICES ASSUME CommitExport(w) PROVE FALSE
    OBVIOUS
  <2>1. seen[w].status = "queued"
    BY DEF CommitExport, SeenIsQueued
  <2>2. jobs'[j].status = "completed"
    BY <2>1 DEF CommitExport, Written
  <2> QED
    BY <2>2
<1>4. CASE LoadJob(w)
  BY <1>4 DEF LoadJob
<1>5. CASE SelectImages(w) \/ ReadLatest(w) \/ StoreFile(w)
  BY <1>5 DEF SelectImages, ReadLatest, StoreFile
<1>6. ~Receive(w) /\ ~Ack(w)
  BY DEF Receive, Ack
<1>7. ASSUME NEW v \in Worker, v # w, WorkerStep(v) \/ Crash(v) \/ VisibilityTimeout(v)
      PROVE  AtWork(w, j)'
  BY <1>7 DEF WorkerStep, Receive, Ack, SelectImages, ReadLatest, StoreFile,
     ExportRaises, LoadJob, CommitExport, Crash, VisibilityTimeout, Release, workerVars
<1>8. CASE Client \/ (\E i \in Image : Annotate(i) \/ Decide(i)) \/ UNCHANGED vars
  BY <1>8 DEF Client, LoadForRegister, CommitRegister, RegisterFails, CommitExportJob,
     Dispatch, LoadForCancel, CommitCancel, DeleteDataset, Annotate, Decide, vars,
     workerVars
<1> QED
  BY <1>1, <1>2, <1>3, <1>4, <1>5, <1>6, <1>7, <1>8 DEF Next, WorkerStep

(* What a dispatched export has of its own stays: its request, and that a  *)
(* task of it raised.                                                      *)
LEMMA RequestAdvances ==
    ASSUME TypeInv, [Next]_vars, NEW j \in Job
    PROVE  /\ failed \subseteq failed'
           /\ req'[j] = "dispatched" => req[j] = "dispatched" \/ queue'[j] > 0
<1> USE Typing
<1>1. ASSUME NEW w \in Worker, WorkerStep(w) \/ Crash(w) \/ VisibilityTimeout(w)
      PROVE  failed \subseteq failed' /\ UNCHANGED req
  BY <1>1 DEF WorkerStep, Receive, Ack, SelectImages, ReadLatest, StoreFile,
     ExportRaises, LoadJob, CommitExport, Crash, VisibilityTimeout, brokerVars, apiVars
<1>2. ASSUME NEW k \in Job, Dispatch(k)
      PROVE  UNCHANGED failed /\ (req'[j] = "dispatched" => req[j] = "dispatched" \/ queue'[j] > 0)
  BY <1>2 DEF Dispatch
<1>3. ASSUME NEW k \in Job, CommitExportJob(k)
      PROVE  UNCHANGED failed /\ (req'[j] = "dispatched" => req[j] = "dispatched")
  BY <1>3 DEF CommitExportJob, brokerVars
<1>4. ASSUME Client, \A k \in Job : ~Dispatch(k) /\ ~CommitExportJob(k)
      PROVE  UNCHANGED <<req, failed>>
  BY <1>4 DEF Client, LoadForRegister, CommitRegister, RegisterFails,
     LoadForCancel, CommitCancel, DeleteDataset, brokerVars, apiVars
<1>5. CASE (\E i \in Image : Annotate(i) \/ Decide(i)) \/ UNCHANGED vars
  BY <1>5 DEF Annotate, Decide, vars, brokerVars, apiVars
<1> QED
  BY <1>1, <1>2, <1>3, <1>4, <1>5 DEF Next

(* No export that was dispatched is left behind, with any number of        *)
(* workers, crashes and overlapping deliveries: QUEUED, it waits, or is    *)
(* worked at, or its task raised (celery_app.py:25-27, tasks.py:195-206).  *)
THEOREM NoExportIsLeftBehind == Spec => []NoExportIsStranded
<1>1. Init => StrandedInv
  BY DEF Init, StrandedInv, SeenIsQueued, NoExportIsStranded
<1>2. TypeInv /\ TypeInv' /\ RequestInv /\ StrandedInv /\ [Next]_vars => StrandedInv'
  <2> SUFFICES ASSUME TypeInv, TypeInv', RequestInv, SeenIsQueued, NoExportIsStranded,
                      [Next]_vars
               PROVE  SeenIsQueued' /\ NoExportIsStranded'
    BY DEF StrandedInv
  <2>1. SeenIsQueued'
    BY SeenQueuedStep
  <2>2. ASSUME NEW j \in Job, req'[j] = "dispatched", jobs'[j].status = "queued"
        PROVE  queue'[j] > 0 \/ j \in failed' \/ \E w \in Worker : AtWork(w, j)'
    <3>1. CASE req[j] # "dispatched"
      BY <2>2, <3>1, RequestAdvances
    <3>2. CASE req[j] = "dispatched"
      <4>1. jobs[j].status = "queued"
        BY <2>2, <3>2, WhoQueues DEF CommitExportJob
      <4> QED
        BY <2>2, <3>2, <4>1, WaitingKept, WorkKept, RequestAdvances DEF NoExportIsStranded
    <3> QED
      BY <3>1, <3>2
  <2> QED
    BY <2>1, <2>2 DEF NoExportIsStranded
<1>3. StrandedInv => NoExportIsStranded
  BY DEF StrandedInv
<1> QED
  BY <1>1, <1>2, <1>3, RequestsHold, PTL DEF Spec

=============================================================================
