----------------------- MODULE FeedbackHandoff_proofs -----------------------
(***************************************************************************)
(* The handoff properties of FeedbackHandoff, for every set of threads,    *)
(* feedback sets, samples, annotations and datasets and any number of      *)
(* crashes.                                                                *)
(*                                                                         *)
(* The argument: whoever exports stores a copy of the OPEN set, so every   *)
(* import that is posted has version 2 and Catalyst knows one key for a    *)
(* set. A sender holds the lock from its guards to its receipt, so no      *)
(* other receipt of its set can appear in between. Until a plain export is *)
(* called, the sender's copy is what is stored.                            *)
(*                                                                         *)
(* Most steps move one thread and leave the stored rows alone; what such a *)
(* step must show of the thread is Ready, and WorkerMoves does the rest.   *)
(***************************************************************************)
EXTENDS FeedbackHandoff, TLAPS

(* All of Inductive but what speaks of annotations and threads' types.     *)
Handoffs ==
  /\ SetsWellFormed
  /\ OneKeyPerSet
  /\ WorkersHold
  /\ SendersHold
  /\ ReceiptsAreOwn
  /\ OnePreparationPerSet
  /\ HandoffConfirmed
  /\ ReceiptsAgree
  /\ Alone
  /\ RetryMatches

(* What the thread w may become, beside the rows that are stored.          *)
Ready(w, r) ==
  /\ r \in WorkerRecord
  /\ r.step # "idle" => /\ r.set \in Sets /\ set[r.set] # None
                        /\ w \in Exporters => plain'
                        /\ w \in Senders => receipt[r.set] = None /\ r.dataset \in Datasets
  /\ r.step \in {"publish", "store"} => r.copy \in FeedbackSet /\ Open(r.copy)
  /\ r.step = "store" => r.artifact \in Artifact
  /\ r.step \in Sending => r.copy \in FeedbackSet /\ Prepared(r.copy)
  /\ r.step = "save" => [set |-> r.set, version |-> r.copy.version,
                         dataset |-> r.dataset, artifact |-> r.copy.artifact] \in preparations
  /\ ~plain' /\ w \in Senders /\ r.step \in {"publish", "store"} \cup Sending =>
       set[r.set] = r.copy

(* What w may do to the lock while it becomes r.                           *)
Locks(w, r) ==
  \/ lock' = lock /\ worker[w].step # "idle" /\ r.step # "idle"
  \/ lock' = lock /\ w \in Exporters
  \/ lock' = (IF lock = w THEN None ELSE lock) /\ r.step = "idle"
  \/ lock' = w /\ lock = None /\ w \in Senders /\ r.step # "idle"

-----------------------------------------------------------------------------
(* Open, exported and handed-off sets exclude each other.                  *)
LEMMA Stages ==
  ASSUME NEW s \in FeedbackSet
  PROVE  /\ Open(s) => s.artifact = None /\ s.handoff = "PREPARED" /\ s.version = 1
         /\ Prepared(s) => s.artifact # None /\ s.handoff = "PREPARED" /\ s.version = 2
         /\ HandedOff(s) => s.artifact # None /\ s.handoff = "HANDLED_OFF"
BY DEF Open, Prepared, HandedOff

(* A thread that is done.                                                  *)
LEMMA LeaveReady ==
  ASSUME NEW w \in Workers, Leave(w)
  PROVE  worker' = [worker EXCEPT ![w] = Idle] /\ Ready(w, Idle) /\ Locks(w, Idle)
BY DEF Leave, Ready, Locks, Idle, WorkerRecord, WorkerSteps, Sending

(* The rows of handoffs do not depend on annotations.                      *)
LEMMA HandoffsStay ==
  ASSUME Inductive, UNCHANGED <<set, receipt, worker, lock, catalyst, confirmed, plain>>
  PROVE  Handoffs'
<1>1. UNCHANGED <<set, receipt, worker, lock, requests, preparations, confirmed, plain>>
  BY DEF catalyst
<1>2. SetsWellFormed' /\ OneKeyPerSet' /\ ReceiptsAreOwn' /\ OnePreparationPerSet'
  BY <1>1 DEF Inductive, SetsWellFormed, OneKeyPerSet, ReceiptsAreOwn, OnePreparationPerSet
<1>3. WorkersHold' /\ SendersHold'
  BY <1>1 DEF Inductive, WorkersHold, SendersHold, ImportOf
<1>4. HandoffConfirmed' /\ ReceiptsAgree' /\ Alone' /\ RetryMatches'
  BY <1>1 DEF Inductive, HandoffConfirmed, ReceiptsAgree, Alone, RetryMatches
<1>5. QED
  BY <1>2, <1>3, <1>4 DEF Handoffs

(* One thread moves; posted imports may be added.                          *)
LEMMA WorkerMoves ==
  ASSUME Inductive, NEW w \in Workers, NEW r,
         worker' = [worker EXCEPT ![w] = r], Ready(w, r), Locks(w, r),
         UNCHANGED <<resources, annotator, preparations, confirmed, crashes>>,
         plain' \in BOOLEAN, plain => plain',
         requests' \subseteq Import,
         \A q \in requests' : /\ q.version = 2
                              /\ ~plain' => /\ set[q.set] # None
                                            /\ set[q.set].artifact = q.artifact
  PROVE  Inductive'
<1>1. /\ worker' \in [Workers -> WorkerRecord]
      /\ worker'[w] = r
      /\ \A v \in Workers : v # w => worker'[v] = worker[v]
  BY DEF Ready, Inductive, TypeOK
<1>2. UNCHANGED <<annotation, set, receipt>>
  BY DEF resources
<1>3. lock \in Senders \cup {None} /\ None \notin Senders /\ Senders \subseteq Workers
  BY NoneAssumption DEF Inductive, TypeOK, Workers
<1>4. lock' \in Senders \cup {None}
  BY <1>3 DEF Locks
<1>5. TypeOK'
  BY <1>1, <1>2, <1>4 DEF Inductive, TypeOK
<1>6. SetsWellFormed' /\ OneKeyPerSet' /\ ReceiptsAreOwn' /\ OnePreparationPerSet'
  BY <1>2 DEF Inductive, SetsWellFormed, OneKeyPerSet, ReceiptsAreOwn, OnePreparationPerSet
<1>7. AnnotatorsHold' /\ HandoffConfirmed' /\ ReceiptsAgree'
  BY <1>2 DEF Inductive, AnnotatorsHold, HandoffConfirmed, ReceiptsAgree
<1>8. WorkersHold'
  <2> SUFFICES ASSUME NEW v \in Workers
               PROVE  LET copy == worker'[v].copy IN
                        /\ worker'[v].step # "idle" =>
                             worker'[v].set \in Sets /\ set[worker'[v].set] # None
                        /\ worker'[v].step \in {"publish", "store"} =>
                             copy \in FeedbackSet /\ Open(copy)
                        /\ worker'[v].step = "store" => worker'[v].artifact \in Artifact
                        /\ worker'[v].step \in Sending => copy \in FeedbackSet /\ Prepared(copy)
                        /\ worker'[v].step = "save" =>
                             [set |-> worker'[v].set, version |-> copy.version,
                              dataset |-> worker'[v].dataset, artifact |-> copy.artifact]
                             \in preparations
    BY <1>2 DEF WorkersHold, ImportOf, Open, Prepared
  <2>1. CASE v = w
    BY <2>1, <1>1 DEF Ready
  <2>2. CASE v # w
    BY <2>2, <1>1 DEF Inductive, WorkersHold, ImportOf
  <2>3. QED
    BY <2>1, <2>2
<1>9. SendersHold'
  <2> SUFFICES ASSUME NEW s \in Senders
               PROVE  /\ worker'[s].step # "idle" <=> lock' = s
                      /\ worker'[s].step # "idle" => /\ receipt[worker'[s].set] = None
                                                     /\ worker'[s].dataset \in Datasets
    BY <1>2 DEF SendersHold
  <2>1. s \in Workers /\ s \notin Exporters
    BY <1>3, ThreadsAssumption
  <2>2. CASE s = w
    BY <2>1, <2>2, <1>1, <1>3 DEF Ready, Locks, Inductive, SendersHold
  <2>3. CASE s # w
    <3>1. worker'[s] = worker[s]
      BY <2>1, <2>3, <1>1
    <3>2. lock' = s <=> lock = s
      BY <2>1, <2>3, <1>3 DEF Locks
    <3>3. QED
      BY <3>1, <3>2 DEF Inductive, SendersHold
  <2>4. QED
    BY <2>2, <2>3
<1>10. Alone'
  <2> SUFFICES ASSUME ~plain'
               PROVE  /\ \A x \in Exporters : worker'[x].step = "idle"
                      /\ \A s \in Senders :
                           worker'[s].step \in {"publish", "store"} \cup Sending =>
                             set[worker'[s].set] = worker'[s].copy
                      /\ \A q \in requests' \cup preparations : set[q.set] # None
    BY <1>2 DEF Alone
  <2>1. \A x \in Exporters : worker'[x].step = "idle"
    BY <1>1 DEF Ready, Inductive, Alone, Workers
  <2>2. ASSUME NEW s \in Senders, worker'[s].step \in {"publish", "store"} \cup Sending
        PROVE  set[worker'[s].set] = worker'[s].copy
    BY <2>2, <1>1, <1>3 DEF Ready, Inductive, Alone
  <2>3. \A q \in requests' \cup preparations : set[q.set] # None
    BY DEF Inductive, Alone
  <2>4. QED
    BY <2>1, <2>2, <2>3
<1>11. RetryMatches'
  BY <1>2 DEF Inductive, RetryMatches
<1>12. QED
  BY <1>5, <1>6, <1>7, <1>8, <1>9, <1>10, <1>11 DEF Inductive

(* The same, when nothing is posted and no export route is called.         *)
LEMMA WorkerStep ==
  ASSUME Inductive, NEW w \in Workers, NEW r,
         worker' = [worker EXCEPT ![w] = r], Ready(w, r), Locks(w, r),
         UNCHANGED <<resources, annotator, catalyst, confirmed, plain, crashes>>
  PROVE  Inductive'
<1>1. UNCHANGED <<requests, preparations>>
  BY DEF catalyst
<1>2. plain' \in BOOLEAN /\ requests' \subseteq Import
  BY <1>1 DEF Inductive, TypeOK
<1>3. \A q \in requests' : /\ q.version = 2
                           /\ ~plain' => /\ set[q.set] # None
                                         /\ set[q.set].artifact = q.artifact
  BY <1>1 DEF Inductive, OneKeyPerSet, Alone, RetryMatches
<1>4. QED
  BY <1>1, <1>2, <1>3, WorkerMoves

(* An end of a thread that stores and posts nothing.                       *)
LEMMA LeaveStep ==
  ASSUME Inductive, NEW w \in Workers, Leave(w),
         UNCHANGED <<resources, annotator, catalyst, confirmed, plain, crashes>>
  PROVE  Inductive'
BY LeaveReady, WorkerStep

-----------------------------------------------------------------------------
(* The steps of annotate_sample.                                           *)

(* The thread takes a request.                                             *)
LEMMA AnnotateStep ==
  ASSUME Inductive, NEW a \in Annotators, Annotate(a)
  PROVE  Inductive'
<1>1. PICK s \in Samples, r \in Reviewers, n \in Notes :
        annotator' = [annotator EXCEPT ![a] =
          [step |-> "find", sample |-> s, reviewer |-> r, note |-> n, id |-> None]]
  BY DEF Annotate
<1>2. UNCHANGED <<resources, worker, lock, catalyst, confirmed, plain, crashes>>
  BY DEF Annotate
<1>3. Handoffs'
  BY <1>2, HandoffsStay DEF resources
<1>4. TypeOK'
  BY <1>1, <1>2 DEF Inductive, TypeOK, AnnotatorRecord, resources, catalyst
<1>5. AnnotatorsHold'
  BY <1>1 DEF Inductive, TypeOK, AnnotatorsHold
<1>6. QED
  BY <1>3, <1>4, <1>5 DEF Inductive, Handoffs

(* It finds a row, or takes a new id.                                      *)
LEMMA FindStep ==
  ASSUME Inductive, NEW a \in Annotators, Find(a)
  PROVE  Inductive'
<1>1. PICK i \in AnnIds :
        annotator' = [annotator EXCEPT ![a].step = "save", ![a].id = i]
  BY DEF Find, Saved
<1>2. /\ UNCHANGED <<resources, worker, lock, catalyst, confirmed, plain, crashes>>
      /\ annotator[a].step = "find"
  BY DEF Find
<1>3. Handoffs'
  BY <1>2, HandoffsStay DEF resources
<1>4. annotator' = [annotator EXCEPT ![a] = [annotator[a] EXCEPT !.step = "save", !.id = i]]
  BY <1>1
<1>5. [annotator[a] EXCEPT !.step = "save", !.id = i] \in AnnotatorRecord
  BY DEF Inductive, TypeOK, AnnotatorRecord
<1>6. TypeOK'
  BY <1>4, <1>5, <1>2 DEF Inductive, TypeOK, resources, catalyst
<1>7. AnnotatorsHold'
  BY <1>4, <1>5, <1>2 DEF Inductive, TypeOK, AnnotatorsHold, AnnotatorRecord
<1>8. QED
  BY <1>3, <1>6, <1>7 DEF Inductive, Handoffs

(* It saves the row.                                                       *)
LEMMA SaveAnnotationStep ==
  ASSUME Inductive, NEW a \in Annotators, SaveAnnotation(a)
  PROVE  Inductive'
<1> DEFINE row == [sample |-> annotator[a].sample, reviewer |-> annotator[a].reviewer,
                   note |-> annotator[a].note]
<1>1. /\ annotation' = [annotation EXCEPT ![annotator[a].id] = row]
      /\ annotator' = [annotator EXCEPT ![a] = Free]
      /\ annotator[a].step = "save"
      /\ UNCHANGED <<set, receipt, worker, lock, catalyst, confirmed, plain, crashes>>
  BY DEF SaveAnnotation
<1>2. row \in Annotation
  BY <1>1 DEF Inductive, AnnotatorsHold, Annotation
<1>3. Handoffs'
  BY <1>1, HandoffsStay
<1>4. TypeOK'
  BY <1>1, <1>2 DEF Inductive, TypeOK, Free, AnnotatorRecord, catalyst
<1>5. AnnotatorsHold'
  BY <1>1 DEF Inductive, TypeOK, AnnotatorsHold, Free
<1>6. QED
  BY <1>3, <1>4, <1>5 DEF Inductive, Handoffs

-----------------------------------------------------------------------------
(* The steps of an export.                                                 *)

(* An export route takes a request: from here on plain is TRUE.            *)
LEMMA ExportStep ==
  ASSUME Inductive, NEW x \in Exporters, Export(x)
  PROVE  Inductive'
<1>1. PICK f \in {f \in Sets : set[f] # None} :
        worker' = [worker EXCEPT ![x].step = "read", ![x].set = f]
  BY DEF Export
<1> DEFINE r == [worker[x] EXCEPT !.step = "read", !.set = f]
<1>2. /\ worker' = [worker EXCEPT ![x] = r]
      /\ plain' = TRUE
      /\ UNCHANGED <<resources, annotator, lock, catalyst, confirmed, crashes>>
  BY <1>1 DEF Export
<1>3. x \in Workers /\ x \notin Senders
  BY ThreadsAssumption DEF Workers
<1>4. r \in WorkerRecord /\ r.step = "read" /\ r.set = f
  BY <1>3 DEF Inductive, TypeOK, WorkerRecord, WorkerSteps
<1>5. Ready(x, r)
  BY <1>2, <1>3, <1>4 DEF Ready, Sending
<1>6. Locks(x, r)
  BY <1>2 DEF Locks
<1>7. UNCHANGED <<requests, preparations>> /\ requests' \subseteq Import
  BY <1>2 DEF catalyst, Inductive, TypeOK
<1>8. \A q \in requests' : q.version = 2
  BY <1>7 DEF Inductive, OneKeyPerSet
<1>9. QED
  BY <1>2, <1>3, <1>5, <1>6, <1>7, <1>8, WorkerMoves

(* The set is read. A sender that finds it exported goes on to the POST:   *)
(* it is not handed off, or its receipt would be there.                    *)
LEMMA ReadSetStep ==
  ASSUME Inductive, NEW w \in Workers, ReadSet(w)
  PROVE  Inductive'
<1> DEFINE copy == set[worker[w].set]
<1>1. /\ worker[w] \in WorkerRecord /\ worker[w].step = "read"
      /\ worker[w].set \in Sets /\ copy # None
      /\ UNCHANGED <<resources, annotator, catalyst, confirmed, plain, crashes>>
  BY DEF ReadSet, At, Inductive, TypeOK, WorkersHold
<1>2. copy \in FeedbackSet /\ (Open(copy) \/ Prepared(copy) \/ HandedOff(copy))
  BY <1>1 DEF Inductive, TypeOK, SetsWellFormed
<1>3. /\ w \in Exporters => plain
      /\ w \in Senders => receipt[worker[w].set] = None /\ worker[w].dataset \in Datasets
  BY <1>1 DEF Inductive, Alone, SendersHold
<1>4. CASE ~Exported(copy)
  <2> DEFINE r == [worker[w] EXCEPT !.step = "publish", !.copy = copy]
  <2>1. worker' = [worker EXCEPT ![w] = r] /\ lock' = lock
    BY <1>4 DEF ReadSet
  <2>2. r \in WorkerRecord /\ r.step = "publish" /\ r.copy = copy
        /\ r.set = worker[w].set /\ r.dataset = worker[w].dataset
    BY <1>1, <1>2 DEF WorkerRecord, WorkerSteps
  <2>3. Open(copy)
    BY <1>2, <1>4, Stages DEF Exported
  <2>4. Ready(w, r)
    BY <1>1, <1>2, <1>3, <2>2, <2>3 DEF Ready, Sending
  <2>5. Locks(w, r)
    BY <1>1, <2>1, <2>2 DEF Locks
  <2>6. QED
    BY <1>1, <2>1, <2>4, <2>5, WorkerStep
<1>5. CASE Exported(copy) /\ w \in Senders
  <2> DEFINE r == [worker[w] EXCEPT !.step = "post", !.copy = copy]
  <2>1. worker' = [worker EXCEPT ![w] = r] /\ lock' = lock
    BY <1>5 DEF ReadSet
  <2>2. r \in WorkerRecord /\ r.step = "post" /\ r.copy = copy
        /\ r.set = worker[w].set /\ r.dataset = worker[w].dataset
    BY <1>1, <1>2 DEF WorkerRecord, WorkerSteps
  <2>3. Prepared(copy)
    <3>1. copy.handoff # "HANDLED_OFF"
      BY <1>1, <1>3, <1>5 DEF Inductive, HandoffConfirmed
    <3>2. ~Open(copy)
      BY <1>2, <1>5, Stages DEF Exported
    <3>3. QED
      BY <1>2, <3>1, <3>2, Stages
  <2>4. Ready(w, r)
    BY <1>1, <1>2, <1>3, <2>2, <2>3 DEF Ready, Sending
  <2>5. Locks(w, r)
    BY <1>1, <2>1, <2>2 DEF Locks
  <2>6. QED
    BY <1>1, <2>1, <2>4, <2>5, WorkerStep
<1>6. CASE Exported(copy) /\ w \notin Senders
  BY <1>1, <1>6, LeaveStep DEF ReadSet
<1>7. QED
  BY <1>4, <1>5, <1>6

(* The rows are published, or not.                                         *)
LEMMA PublishRowsStep ==
  ASSUME Inductive, NEW w \in Workers, PublishRows(w)
  PROVE  Inductive'
<1>1. /\ worker[w] \in WorkerRecord /\ worker[w].step = "publish"
      /\ worker[w].set \in Sets /\ set[worker[w].set] # None
      /\ worker[w].copy \in FeedbackSet /\ Open(worker[w].copy)
      /\ UNCHANGED <<resources, annotator, catalyst, confirmed, plain, crashes>>
  BY DEF PublishRows, At, Inductive, TypeOK, WorkersHold
<1>2. /\ w \in Exporters => plain
      /\ w \in Senders => receipt[worker[w].set] = None /\ worker[w].dataset \in Datasets
      /\ ~plain /\ w \in Senders => set[worker[w].set] = worker[w].copy
  BY <1>1 DEF Inductive, Alone, SendersHold
<1>3. ASSUME NEW rows \in Candidates(worker[w].copy), lock' = lock,
             worker' = [worker EXCEPT ![w].step = "store", ![w].artifact = rows]
      PROVE  Inductive'
  <2> DEFINE r == [worker[w] EXCEPT !.step = "store", !.artifact = rows]
  <2>1. worker' = [worker EXCEPT ![w] = r]
    BY <1>3
  <2>2. rows \in Artifact
    <3>1. rows \in [worker[w].copy.selected -> Notes \cup {None}]
      BY <1>3 DEF Candidates
    <3>2. worker[w].copy.selected \in SUBSET Samples
      BY <1>1 DEF FeedbackSet
    <3>3. QED
      BY <3>1, <3>2 DEF Artifact
  <2>3. r \in WorkerRecord /\ r.step = "store" /\ r.copy = worker[w].copy
        /\ r.set = worker[w].set /\ r.dataset = worker[w].dataset /\ r.artifact = rows
    BY <1>1, <2>2 DEF WorkerRecord, WorkerSteps
  <2>4. Ready(w, r)
    BY <1>1, <1>2, <2>2, <2>3 DEF Ready, Sending
  <2>5. Locks(w, r)
    BY <1>1, <1>3, <2>3 DEF Locks
  <2>6. QED
    BY <1>1, <2>1, <2>4, <2>5, WorkerStep
<1>4. CASE Leave(w)
  BY <1>1, <1>4, LeaveStep
<1>5. QED
  BY <1>3, <1>4 DEF PublishRows

(* What is stored about other sets than f does not change, and f has no    *)
(* import and was not handed off, or plain exports are made: a step that   *)
(* stores an open or exported set f keeps what speaks of Catalyst.         *)
LEMMA RowStored ==
  ASSUME Inductive, NEW f \in Sets, NEW s \in FeedbackSet, Open(s) \/ Prepared(s),
         set' = [set EXCEPT ![f] = s],
         UNCHANGED <<receipt, catalyst, confirmed, plain>>,
         ~plain => \A q \in requests \cup preparations : q.set # f
  PROVE  /\ SetsWellFormed' /\ OneKeyPerSet' /\ ReceiptsAreOwn'
         /\ OnePreparationPerSet' /\ HandoffConfirmed' /\ ReceiptsAgree' /\ RetryMatches'
         /\ ~plain => \A q \in requests \cup preparations : set'[q.set] # None
<1>1. UNCHANGED <<requests, preparations, receipt, confirmed, plain>>
  BY DEF catalyst
<1>2. set' \in [Sets -> FeedbackSet \cup {None}] /\ set'[f] = s
      /\ \A g \in Sets : g # f => set'[g] = set[g]
  BY DEF Inductive, TypeOK
<1>3. requests \cup preparations \subseteq Import
  BY DEF Inductive, TypeOK
<1>4. SetsWellFormed'
  BY <1>2 DEF Inductive, SetsWellFormed, Open, Prepared, HandedOff
<1>5. OneKeyPerSet' /\ ReceiptsAreOwn' /\ OnePreparationPerSet' /\ ReceiptsAgree'
  BY <1>1 DEF Inductive, OneKeyPerSet, ReceiptsAreOwn, OnePreparationPerSet, ReceiptsAgree
<1>6. HandoffConfirmed'
  BY <1>1, <1>2, Stages DEF Inductive, HandoffConfirmed
<1>7. ~plain => \A q \in requests \cup preparations : set'[q.set] = set[q.set]
  BY <1>2, <1>3 DEF Import
<1>8. RetryMatches' /\ (~plain => \A q \in requests \cup preparations : set'[q.set] # None)
  BY <1>1, <1>7 DEF Inductive, RetryMatches, Alone
<1>9. QED
  BY <1>4, <1>5, <1>6, <1>8

(* The export is stored over whatever the row holds.                       *)
LEMMA StoreExportStep ==
  ASSUME Inductive, NEW w \in Workers, StoreExport(w)
  PROVE  Inductive'
<1> DEFINE f == worker[w].set
           s == ExportedCopy(w)
<1>1. /\ worker \in [Workers -> WorkerRecord] /\ worker[w].step = "store"
      /\ f \in Sets /\ set[f] # None
      /\ worker[w].copy \in FeedbackSet /\ Open(worker[w].copy) /\ worker[w].artifact \in Artifact
      /\ UNCHANGED <<annotation, receipt, annotator, catalyst, confirmed, plain, crashes>>
      /\ UNCHANGED <<requests, preparations>>
      /\ set' = [set EXCEPT ![f] = s]
  BY DEF StoreExport, catalyst, At, Inductive, TypeOK, WorkersHold
<1>2. s \in FeedbackSet /\ Prepared(s)
  <2> DEFINE copy == worker[w].copy
             a == worker[w].artifact
  <2>1. /\ copy \in FeedbackSet /\ copy.version = 1 /\ copy.handoff = "PREPARED"
        /\ a \in Artifact /\ a # None
    BY <1>1, NoneAssumption DEF Open
  <2>2. s = [copy EXCEPT !.state = "EXPORTED", !.artifact = a, !.version = 2]
    BY <2>1 DEF ExportedCopy, NextVersion
  <2> HIDE DEF copy, a, s
  <2>3. s \in FeedbackSet
    <3> DEFINE c == [copy EXCEPT !.state = "EXPORTED", !.artifact = a]
    <3>1. c \in FeedbackSet
      BY <2>1 DEF FeedbackSet
    <3>2. s = [c EXCEPT !.version = 2]
      BY <2>1, <2>2
    <3> HIDE DEF c
    <3>3. QED
      BY <3>1, <3>2 DEF FeedbackSet
  <2>4. s.version = 2 /\ s.artifact = a /\ s.handoff = "PREPARED"
    BY <2>1, <2>2 DEF FeedbackSet
  <2>5. QED
    BY <2>1, <2>3, <2>4 DEF Prepared
<1>3. /\ set' \in [Sets -> FeedbackSet \cup {None}] /\ set'[f] = s /\ s # None
      /\ \A g \in Sets : g # f => set'[g] = set[g]
  BY <1>1, <1>2, NoneAssumption DEF Inductive, TypeOK
<1>4. /\ Senders \subseteq Workers /\ Workers = Exporters \cup Senders
      /\ Senders \cap Exporters = {}
      /\ lock \in Senders \cup {None} /\ None \notin Workers
  BY ThreadsAssumption, NoneAssumption DEF Workers, Inductive, TypeOK
<1>5. /\ w \in Exporters => plain
      /\ w \in Senders => receipt[f] = None /\ worker[w].dataset \in Datasets /\ lock = w
      /\ ~plain /\ w \in Senders => set[f] = worker[w].copy
  BY <1>1 DEF Inductive, Alone, SendersHold
<1>6. ~plain => \A q \in requests \cup preparations : q.set # f
  <2> SUFFICES ASSUME ~plain, NEW q \in requests \cup preparations, q.set = f PROVE FALSE
    OBVIOUS
  <2>1. set[f].artifact = None
    BY <1>1, <1>4, <1>5 DEF Open
  <2>2. q.artifact \in Artifact
    BY DEF Inductive, TypeOK, Import
  <2>3. QED
    BY <2>1, <2>2, NoneAssumption DEF Inductive, RetryMatches
<1>7. /\ SetsWellFormed' /\ OneKeyPerSet' /\ ReceiptsAreOwn'
      /\ OnePreparationPerSet' /\ HandoffConfirmed' /\ ReceiptsAgree' /\ RetryMatches'
      /\ ~plain => \A q \in requests \cup preparations : set'[q.set] # None
  BY <1>1, <1>2, <1>6, RowStored
<1> DEFINE r == IF w \in Senders THEN [worker[w] EXCEPT !.step = "post", !.copy = s] ELSE Idle
<1>8. worker' = [worker EXCEPT ![w] = r] /\ lock' = lock
  <2>1. CASE w \in Senders
    BY <2>1 DEF StoreExport
  <2>2. CASE w \notin Senders
    BY <2>2, <1>4 DEF StoreExport, Leave
  <2>3. QED
    BY <2>1, <2>2
<1>9. /\ r \in WorkerRecord
      /\ w \in Senders => /\ r.step = "post" /\ r.copy = s /\ r.set = f
                          /\ r.dataset = worker[w].dataset
      /\ w \notin Senders => r.step = "idle"
  BY <1>1, <1>2 DEF Idle, WorkerRecord, WorkerSteps
<1>10. /\ worker' \in [Workers -> WorkerRecord] /\ worker'[w] = r
       /\ \A v \in Workers : v # w => worker'[v] = worker[v]
  BY <1>1, <1>8, <1>9
<1>11. TypeOK'
  BY <1>1, <1>3, <1>8, <1>10 DEF Inductive, TypeOK, catalyst
<1>12. AnnotatorsHold'
  BY <1>1 DEF Inductive, AnnotatorsHold
<1>13. WorkersHold'
  <2> SUFFICES ASSUME NEW v \in Workers
               PROVE  LET copy == worker'[v].copy IN
                        /\ worker'[v].step # "idle" =>
                             worker'[v].set \in Sets /\ set'[worker'[v].set] # None
                        /\ worker'[v].step \in {"publish", "store"} =>
                             copy \in FeedbackSet /\ Open(copy)
                        /\ worker'[v].step = "store" => worker'[v].artifact \in Artifact
                        /\ worker'[v].step \in Sending => copy \in FeedbackSet /\ Prepared(copy)
                        /\ worker'[v].step = "save" =>
                             [set |-> worker'[v].set, version |-> copy.version,
                              dataset |-> worker'[v].dataset, artifact |-> copy.artifact]
                             \in preparations
    BY <1>1 DEF WorkersHold, ImportOf, Open, Prepared, catalyst
  <2>1. CASE v = w
    BY <2>1, <1>1, <1>2, <1>3, <1>9, <1>10 DEF Sending
  <2>2. CASE v # w
    BY <2>2, <1>3, <1>10 DEF Inductive, WorkersHold, ImportOf
  <2>3. QED
    BY <2>1, <2>2
<1>14. SendersHold'
  BY <1>1, <1>4, <1>5, <1>8, <1>9, <1>10 DEF Inductive, SendersHold
<1>15. Alone'
  <2> SUFFICES ASSUME ~plain
               PROVE  /\ \A x \in Exporters : worker'[x].step = "idle"
                      /\ \A t \in Senders :
                           worker'[t].step \in {"publish", "store"} \cup Sending =>
                             set'[worker'[t].set] = worker'[t].copy
                      /\ \A q \in requests \cup preparations : set'[q.set] # None
    BY <1>1 DEF Alone
  <2>1. w \in Senders
    BY <1>4, <1>5
  <2>2. \A x \in Exporters : worker'[x].step = "idle"
    BY <2>1, <1>4, <1>10 DEF Inductive, Alone
  <2>3. \A t \in Senders : t # w => worker'[t].step = "idle"
    BY <2>1, <1>4, <1>5, <1>10 DEF Inductive, SendersHold
  <2>4. worker'[w].copy = s /\ worker'[w].set = f
    BY <2>1, <1>9, <1>10
  <2>5. QED
    BY <2>2, <2>3, <2>4, <1>3, <1>7 DEF Sending
<1>16. QED
  BY <1>7, <1>11, <1>12, <1>13, <1>14, <1>15 DEF Inductive

(* A set is created where none was, so no import names it.                 *)
LEMMA CreateSetStep ==
  ASSUME Inductive, NEW f \in Sets, CreateSet(f)
  PROVE  Inductive'
<1>1. PICK selected \in Selections :
        \E chosen \in SUBSET {i \in Saved : annotation[i].sample \in selected} :
          set' = [set EXCEPT ![f] = NewSet(selected, chosen)]
  BY DEF CreateSet
<1>2. PICK chosen \in SUBSET AnnIds : set' = [set EXCEPT ![f] = NewSet(selected, chosen)]
  BY <1>1 DEF Saved
<1> DEFINE s == NewSet(selected, chosen)
<1>3. /\ set[f] = None
      /\ UNCHANGED <<annotation, receipt, annotator, worker, lock, catalyst, confirmed, plain, crashes>>
  BY DEF CreateSet
<1>4. s \in FeedbackSet /\ Open(s) /\ s # None
  BY SelectionsAssumption, NoneAssumption DEF NewSet, FeedbackSet, Open
<1>5. ~plain => \A q \in requests \cup preparations : q.set # f
  BY <1>3 DEF Inductive, Alone
<1>6. /\ SetsWellFormed' /\ OneKeyPerSet' /\ ReceiptsAreOwn'
      /\ OnePreparationPerSet' /\ HandoffConfirmed' /\ ReceiptsAgree' /\ RetryMatches'
      /\ ~plain => \A q \in requests \cup preparations : set'[q.set] # None
  BY <1>2, <1>3, <1>4, <1>5, RowStored
<1>7. /\ set' \in [Sets -> FeedbackSet \cup {None}] /\ set'[f] # None
      /\ \A g \in Sets : g # f => set'[g] = set[g]
  BY <1>2, <1>4 DEF Inductive, TypeOK
<1>8. TypeOK'
  BY <1>3, <1>7 DEF Inductive, TypeOK, catalyst
<1>9. AnnotatorsHold' /\ SendersHold'
  BY <1>3 DEF Inductive, AnnotatorsHold, SendersHold
<1>10. WorkersHold'
  BY <1>3, <1>7 DEF Inductive, WorkersHold, ImportOf, catalyst
<1>11. Alone'
  <2>1. \A t \in Senders : worker[t].step \in {"publish", "store"} \cup Sending =>
                             worker[t].set \in Sets /\ set[worker[t].set] # None
    BY DEF Inductive, WorkersHold, Workers, Sending
  <2>2. QED
    BY <1>3, <1>6, <1>7, <2>1 DEF Inductive, Alone, catalyst
<1>12. QED
  BY <1>6, <1>8, <1>9, <1>10, <1>11 DEF Inductive

-----------------------------------------------------------------------------
(* The steps of send_feedback and of Catalyst.                             *)

(* A send passes the guards, or a receipt is replayed.                     *)
LEMMA SendStep ==
  ASSUME Inductive, NEW s \in Senders, Send(s)
  PROVE  Inductive'
<1>1. PICK f \in {f \in Sets : set[f] # None}, d \in Datasets :
        \/ /\ receipt[f] = None
           /\ set[f].handoff = "PREPARED"
           /\ lock' = s
           /\ worker' = [worker EXCEPT ![s].step = "read", ![s].set = f, ![s].dataset = d]
           /\ UNCHANGED confirmed
        \/ /\ receipt[f] # None
           /\ set[f].handoff = "HANDLED_OFF"
           /\ receipt[f].dataset = d
           /\ confirmed' = confirmed \cup {receipt[f]}
           /\ UNCHANGED <<lock, worker>>
  BY DEF Send
<1>2. /\ worker[s].step = "idle" /\ lock = None
      /\ UNCHANGED <<resources, annotator, catalyst, plain, crashes>>
      /\ s \in Workers /\ worker[s] \in WorkerRecord /\ s \notin Exporters
  BY ThreadsAssumption DEF Send, At, Inductive, TypeOK, Workers
<1>3. CASE /\ receipt[f] = None /\ lock' = s /\ UNCHANGED confirmed
           /\ worker' = [worker EXCEPT ![s].step = "read", ![s].set = f, ![s].dataset = d]
  <2> DEFINE r == [worker[s] EXCEPT !.step = "read", !.set = f, !.dataset = d]
  <2>1. worker' = [worker EXCEPT ![s] = r]
    BY <1>3
  <2>2. r \in WorkerRecord /\ r.step = "read" /\ r.set = f /\ r.dataset = d
    BY <1>2 DEF WorkerRecord, WorkerSteps
  <2>3. Ready(s, r) /\ Locks(s, r)
    BY <1>2, <1>3, <2>2 DEF Ready, Locks, Sending
  <2>4. QED
    BY <1>2, <1>3, <2>1, <2>3, WorkerStep
<1>4. CASE /\ receipt[f] # None /\ confirmed' = confirmed \cup {receipt[f]}
           /\ UNCHANGED <<lock, worker>>
  <2>1. UNCHANGED <<annotation, set, receipt, annotator, worker, lock, requests,
                    preparations, plain, crashes>>
    BY <1>2, <1>4 DEF resources, catalyst
  <2>2. receipt[f] \in Receipt /\ receipt[f].set = f
    BY <1>4 DEF Inductive, TypeOK, ReceiptsAreOwn
  <2>3. TypeOK' /\ ReceiptsAgree'
    BY <1>4, <2>1, <2>2 DEF Inductive, TypeOK, ReceiptsAgree
  <2>4. AnnotatorsHold' /\ WorkersHold' /\ SendersHold'
    BY <2>1 DEF Inductive, AnnotatorsHold, WorkersHold, SendersHold, ImportOf
  <2>5. SetsWellFormed' /\ OneKeyPerSet' /\ ReceiptsAreOwn' /\ OnePreparationPerSet'
    BY <2>1 DEF Inductive, SetsWellFormed, OneKeyPerSet, ReceiptsAreOwn, OnePreparationPerSet
  <2>6. HandoffConfirmed' /\ Alone' /\ RetryMatches'
    BY <2>1 DEF Inductive, HandoffConfirmed, Alone, RetryMatches
  <2>7. QED
    BY <2>3, <2>4, <2>5, <2>6 DEF Inductive
<1>5. QED
  BY <1>1, <1>3, <1>4

(* What a sender past its export knows.                                    *)
LEMMA SenderKnows ==
  ASSUME Inductive, NEW s \in Senders, worker[s].step \in Sending
  PROVE  /\ s \in Workers /\ worker[s] \in WorkerRecord
         /\ worker[s].set \in Sets /\ set[worker[s].set] # None
         /\ worker[s].copy \in FeedbackSet /\ Prepared(worker[s].copy)
         /\ receipt[worker[s].set] = None /\ worker[s].dataset \in Datasets
         /\ lock = s
         /\ ~plain => set[worker[s].set] = worker[s].copy
         /\ ImportOf(s) \in Import /\ ImportOf(s).version = 2
         /\ ImportOf(s).set = worker[s].set
         /\ ImportOf(s).artifact = worker[s].copy.artifact
<1>1. s \in Workers /\ worker[s] \in WorkerRecord /\ worker[s].step # "idle"
  BY DEF Inductive, TypeOK, Workers, Sending
<1>2. /\ worker[s].set \in Sets /\ set[worker[s].set] # None
      /\ worker[s].copy \in FeedbackSet /\ Prepared(worker[s].copy)
  BY <1>1 DEF Inductive, WorkersHold
<1>3. receipt[worker[s].set] = None /\ worker[s].dataset \in Datasets /\ lock = s
  BY <1>1 DEF Inductive, SendersHold
<1>4. ~plain => set[worker[s].set] = worker[s].copy
  BY DEF Inductive, Alone
<1>5. worker[s].copy.version = 2 /\ worker[s].copy.artifact \in Artifact
  BY <1>2 DEF Prepared, FeedbackSet
<1>6. ImportOf(s) \in Import /\ ImportOf(s).version = 2
      /\ ImportOf(s).set = worker[s].set /\ ImportOf(s).artifact = worker[s].copy.artifact
  BY <1>2, <1>3, <1>5 DEF ImportOf, Import
<1>7. QED
  BY <1>1, <1>2, <1>3, <1>4, <1>6

(* The import is posted under the set's one key, or nothing is.            *)
LEMMA PostStep ==
  ASSUME Inductive, NEW s \in Senders, Post(s)
  PROVE  Inductive'
<1>1. /\ worker[s].step = "post"
      /\ UNCHANGED <<resources, annotator, preparations, confirmed, plain, crashes>>
  BY DEF Post, At
<1> USE SenderKnows, <1>1 DEF Sending
<1>2. CASE Goto(s, "await") /\ requests' = requests \cup {ImportOf(s)} /\ UNCHANGED lock
  <2> DEFINE r == [worker[s] EXCEPT !.step = "await"]
  <2>1. worker' = [worker EXCEPT ![s] = r]
    BY <1>2 DEF Goto
  <2>2. /\ r \in WorkerRecord /\ r.step = "await" /\ r.set = worker[s].set
        /\ r.dataset = worker[s].dataset /\ r.copy = worker[s].copy
    BY DEF WorkerRecord, WorkerSteps
  <2>3. s \notin Exporters
    BY ThreadsAssumption
  <2>4. Ready(s, r) /\ Locks(s, r)
    BY <1>2, <2>2, <2>3 DEF Ready, Locks
  <2>5. requests' \subseteq Import /\ plain' \in BOOLEAN
    BY <1>2 DEF Inductive, TypeOK
  <2>6. \A q \in requests : /\ q.version = 2
                            /\ ~plain => /\ set[q.set] # None
                                         /\ set[q.set].artifact = q.artifact
    BY DEF Inductive, OneKeyPerSet, Alone, RetryMatches
  <2>7. \A q \in requests' : /\ q.version = 2
                             /\ ~plain' => /\ set[q.set] # None
                                           /\ set[q.set].artifact = q.artifact
    BY <1>2, <2>6
  <2>8. QED
    BY <2>1, <2>4, <2>5, <2>7, WorkerMoves
<1>3. CASE Leave(s) /\ UNCHANGED requests
  <2>1. UNCHANGED <<resources, annotator, catalyst, confirmed, plain, crashes>>
    BY <1>3 DEF catalyst
  <2>2. QED
    BY <1>3, <2>1, LeaveStep
<1>4. QED
  BY <1>2, <1>3 DEF Post

(* Catalyst accepts: by OneKeyPerSet it has no preparation of the set yet. *)
LEMMA AcceptStep ==
  ASSUME Inductive, NEW q \in requests, Accept(q)
  PROVE  Inductive'
<1>1. /\ \A p \in preparations : p.set # q.set \/ p.version # q.version
      /\ preparations' = preparations \cup {q}
      /\ UNCHANGED <<annotation, set, receipt, annotator, worker, lock, requests,
                     confirmed, plain, crashes>>
  BY DEF Accept, resources
<1>2. TypeOK' /\ AnnotatorsHold' /\ SetsWellFormed' /\ SendersHold' /\ ReceiptsAreOwn'
  BY <1>1 DEF Inductive, TypeOK, AnnotatorsHold, SetsWellFormed, SendersHold, ReceiptsAreOwn
<1>3. OneKeyPerSet' /\ OnePreparationPerSet'
  BY <1>1 DEF Inductive, OneKeyPerSet, OnePreparationPerSet
<1>4. WorkersHold'
  BY <1>1 DEF Inductive, WorkersHold, ImportOf
<1>5. HandoffConfirmed' /\ ReceiptsAgree' /\ Alone' /\ RetryMatches'
  BY <1>1 DEF Inductive, HandoffConfirmed, ReceiptsAgree, Alone, RetryMatches
<1>6. QED
  BY <1>2, <1>3, <1>4, <1>5 DEF Inductive

(* The acknowledgement is read.                                            *)
LEMMA ReceiveStep ==
  ASSUME Inductive, NEW s \in Senders, Receive(s)
  PROVE  Inductive'
<1>1. /\ worker[s].step = "await" /\ ImportOf(s) \in preparations /\ Goto(s, "save")
      /\ UNCHANGED <<resources, annotator, lock, catalyst, confirmed, plain, crashes>>
  BY DEF Receive, At, Acknowledged
<1> USE SenderKnows, <1>1 DEF Sending
<1> DEFINE r == [worker[s] EXCEPT !.step = "save"]
<1>2. worker' = [worker EXCEPT ![s] = r]
  BY DEF Goto
<1>3. /\ r \in WorkerRecord /\ r.step = "save" /\ r.set = worker[s].set
      /\ r.dataset = worker[s].dataset /\ r.copy = worker[s].copy
  BY DEF WorkerRecord, WorkerSteps
<1>4. s \notin Exporters
  BY ThreadsAssumption
<1>5. Ready(s, r) /\ Locks(s, r)
  BY <1>3, <1>4 DEF Ready, Locks, ImportOf
<1>6. QED
  BY <1>2, <1>5, WorkerStep

(* No acknowledgement: the send ends.                                      *)
LEMMA GiveUpStep ==
  ASSUME Inductive, NEW s \in Senders, GiveUp(s)
  PROVE  Inductive'
BY LeaveStep DEF GiveUp, Workers

(* The set is handed off, with its receipt, and the client is told.        *)
LEMMA SaveHandoffStep ==
  ASSUME Inductive, NEW s \in Senders, SaveHandoff(s)
  PROVE  Inductive'
<1> DEFINE f    == worker[s].set
           copy == worker[s].copy
           new  == [set |-> f, version |-> copy.version, dataset |-> worker[s].dataset]
           done == [copy EXCEPT !.handoff = "HANDLED_OFF", !.version = NextVersion(copy)]
<1>1. /\ worker[s].step = "save" /\ Leave(s)
      /\ set' = [set EXCEPT ![f] = done]
      /\ receipt' = [receipt EXCEPT ![f] = new]
      /\ confirmed' = confirmed \cup {new}
      /\ UNCHANGED <<annotation, annotator, requests, preparations, plain, crashes>>
  BY DEF SaveHandoff, At, catalyst
<1>2. /\ s \in Workers /\ f \in Sets /\ set[f] # None /\ lock = s
      /\ copy \in FeedbackSet /\ Prepared(copy)
      /\ receipt[f] = None /\ worker[s].dataset \in Datasets
      /\ ~plain => set[f] = copy
      /\ ImportOf(s) \in preparations
  BY <1>1, SenderKnows DEF Sending, Inductive, WorkersHold
<1>3. copy.version = 2 /\ copy.handoff = "PREPARED" /\ copy.artifact # None
  BY <1>2 DEF Prepared
<1>4. done \in FeedbackSet /\ HandedOff(done) /\ done.artifact = copy.artifact
  <2>1. done = [copy EXCEPT !.handoff = "HANDLED_OFF", !.version = 3]
    BY <1>3 DEF NextVersion
  <2>2. done \in FeedbackSet
    <3> DEFINE c == [copy EXCEPT !.handoff = "HANDLED_OFF"]
    <3> HIDE DEF copy, done
    <3>1. c \in FeedbackSet
      BY <1>2 DEF FeedbackSet
    <3>2. done = [c EXCEPT !.version = 3]
      BY <1>2, <2>1
    <3> HIDE DEF c
    <3>3. QED
      BY <3>1, <3>2 DEF FeedbackSet
  <2>3. done.version = 3 /\ done.artifact = copy.artifact /\ done.handoff = "HANDLED_OFF"
    BY <1>2, <2>1 DEF FeedbackSet
  <2>4. QED
    BY <1>3, <2>2, <2>3 DEF HandedOff
<1>5. new \in Receipt /\ new # None /\ done # None
  BY <1>2, <1>3, <1>4, NoneAssumption DEF Receipt
<1>6. /\ worker' = [worker EXCEPT ![s] = Idle] /\ lock' = None
      /\ Idle \in WorkerRecord /\ Idle.step = "idle"
  BY <1>1, <1>2 DEF Leave, Idle, WorkerRecord, WorkerSteps
<1> HIDE DEF f, copy, new, done
<1>7. /\ set' \in [Sets -> FeedbackSet \cup {None}] /\ set'[f] = done
      /\ \A g \in Sets : g # f => set'[g] = set[g]
      /\ receipt' \in [Sets -> Receipt \cup {None}] /\ receipt'[f] = new
      /\ \A g \in Sets : g # f => receipt'[g] = receipt[g]
      /\ worker' \in [Workers -> WorkerRecord] /\ worker'[s] = Idle
      /\ \A v \in Workers : v # s => worker'[v] = worker[v]
  BY <1>1, <1>2, <1>4, <1>5, <1>6 DEF Inductive, TypeOK
<1>8. TypeOK'
  BY <1>1, <1>5, <1>6, <1>7 DEF Inductive, TypeOK
<1>9. SetsWellFormed'
  BY <1>4, <1>7 DEF Inductive, SetsWellFormed, Open, Prepared, HandedOff
<1>10. OneKeyPerSet' /\ OnePreparationPerSet' /\ AnnotatorsHold'
  BY <1>1 DEF Inductive, OneKeyPerSet, OnePreparationPerSet, AnnotatorsHold
<1>11. ReceiptsAreOwn'
  BY <1>7 DEF Inductive, ReceiptsAreOwn, new
<1>12. WorkersHold'
  <2> SUFFICES ASSUME NEW v \in Workers, v # s
               PROVE  LET c == worker'[v].copy IN
                        /\ worker'[v].step # "idle" =>
                             worker'[v].set \in Sets /\ set'[worker'[v].set] # None
                        /\ worker'[v].step \in {"publish", "store"} =>
                             c \in FeedbackSet /\ Open(c)
                        /\ worker'[v].step = "store" => worker'[v].artifact \in Artifact
                        /\ worker'[v].step \in Sending => c \in FeedbackSet /\ Prepared(c)
                        /\ worker'[v].step = "save" =>
                             [set |-> worker'[v].set, version |-> c.version,
                              dataset |-> worker'[v].dataset, artifact |-> c.artifact]
                             \in preparations
    BY <1>1, <1>6, <1>7 DEF WorkersHold, ImportOf, Open, Prepared, Sending
  <2>1. QED
    BY <1>5, <1>7 DEF Inductive, WorkersHold, ImportOf
<1>13. SendersHold'
  <2> SUFFICES ASSUME NEW t \in Senders
               PROVE  worker'[t].step = "idle" /\ t # None
    BY <1>6 DEF SendersHold
  <2>1. QED
    BY <1>2, <1>6, <1>7, NoneAssumption DEF Inductive, SendersHold, Workers
<1>14. HandoffConfirmed'
  <2> SUFFICES ASSUME NEW g \in Sets, set'[g] # None, set'[g].handoff = "HANDLED_OFF"
               PROVE  /\ receipt'[g] # None
                      /\ [set |-> g, version |-> receipt'[g].version,
                          dataset |-> receipt'[g].dataset,
                          artifact |-> set'[g].artifact] \in preparations
    BY <1>1 DEF HandoffConfirmed
  <2>1. CASE g = f
    BY <2>1, <1>2, <1>4, <1>5, <1>7 DEF ImportOf, f, copy, new
  <2>2. CASE g # f
    BY <2>2, <1>7 DEF Inductive, HandoffConfirmed
  <2>3. QED
    BY <2>1, <2>2
<1>15. ReceiptsAgree'
  <2>1. \A a \in confirmed : a \in Receipt /\ receipt[a.set] = a
    BY DEF Inductive, TypeOK, ReceiptsAgree
  <2>2. \A a \in confirmed : a.set \in Sets /\ a.set # f
    BY <2>1, <1>2, NoneAssumption DEF Receipt
  <2>3. new.set = f
    BY DEF new
  <2>4. QED
    BY <1>1, <1>7, <2>1, <2>2, <2>3 DEF ReceiptsAgree
<1>16. ~plain => \A q \in requests \cup preparations :
                   set[q.set] # None /\ set[q.set].artifact = q.artifact /\ q.set \in Sets
  BY DEF Inductive, TypeOK, Alone, RetryMatches, Import
<1>17. ~plain => \A q \in requests \cup preparations :
                   set'[q.set] # None /\ set'[q.set].artifact = q.artifact
  BY <1>2, <1>4, <1>5, <1>7, <1>16
<1>18. Alone' /\ RetryMatches'
  <2>1. \A t \in Senders : worker'[t].step = "idle"
    BY <1>2, <1>6, <1>7 DEF Inductive, SendersHold, Workers
  <2>2. ~plain => \A x \in Exporters : worker'[x].step = "idle"
    BY <1>6, <1>7 DEF Inductive, Alone, Workers
  <2>3. QED
    BY <1>1, <1>17, <2>1, <2>2 DEF Alone, RetryMatches, Sending
<1>19. QED
  BY <1>8, <1>9, <1>10, <1>11, <1>12, <1>13, <1>14, <1>15, <1>18 DEF Inductive

(* The process dies: threads and lock are gone, rows and imports stay.     *)
LEMMA CrashStep ==
  ASSUME Inductive, Crash
  PROVE  Inductive'
<1>1. /\ annotator' = [a \in Annotators |-> Free]
      /\ worker' = [w \in Workers |-> Idle]
      /\ lock' = None
      /\ crashes' \in 0..MaxCrashes
      /\ UNCHANGED <<annotation, set, receipt, requests, preparations, confirmed, plain>>
  BY CrashAssumption DEF Crash, resources, catalyst, Inductive, TypeOK
<1>2. TypeOK'
  BY <1>1 DEF Inductive, TypeOK, Free, Idle, AnnotatorRecord, WorkerRecord, WorkerSteps
<1>3. AnnotatorsHold' /\ WorkersHold'
  BY <1>1 DEF AnnotatorsHold, WorkersHold, Free, Idle, Sending
<1>4. SendersHold'
  BY <1>1, NoneAssumption DEF SendersHold, Idle, Workers
<1>5. SetsWellFormed' /\ OneKeyPerSet' /\ ReceiptsAreOwn' /\ OnePreparationPerSet'
  BY <1>1 DEF Inductive, SetsWellFormed, OneKeyPerSet, ReceiptsAreOwn, OnePreparationPerSet
<1>6. HandoffConfirmed' /\ ReceiptsAgree' /\ RetryMatches'
  BY <1>1 DEF Inductive, HandoffConfirmed, ReceiptsAgree, RetryMatches
<1>7. Alone'
  BY <1>1 DEF Inductive, Alone, Idle, Workers, Sending
<1>8. QED
  BY <1>2, <1>3, <1>4, <1>5, <1>6, <1>7 DEF Inductive

-----------------------------------------------------------------------------
(* Nothing is stored at first.                                             *)
LEMMA InitHolds == Init => Inductive
<1> SUFFICES ASSUME Init PROVE Inductive
  OBVIOUS
<1>1. TypeOK
  <2>1. Free \in AnnotatorRecord /\ Idle \in WorkerRecord
    BY DEF Free, Idle, AnnotatorRecord, WorkerRecord, WorkerSteps
  <2>2. /\ annotation \in [AnnIds -> Annotation \cup {None}]
        /\ set \in [Sets -> FeedbackSet \cup {None}]
        /\ receipt \in [Sets -> Receipt \cup {None}]
    BY DEF Init
  <2>3. annotator \in [Annotators -> AnnotatorRecord] /\ worker \in [Workers -> WorkerRecord]
    BY <2>1 DEF Init
  <2>4. /\ lock \in Senders \cup {None} /\ plain \in BOOLEAN
        /\ requests \subseteq Import /\ preparations \subseteq Import /\ confirmed \subseteq Receipt
    BY DEF Init
  <2>5. crashes \in 0..MaxCrashes
    BY CrashAssumption DEF Init
  <2>6. QED
    BY <2>2, <2>3, <2>4, <2>5 DEF TypeOK
<1>2. AnnotatorsHold /\ WorkersHold /\ SetsWellFormed /\ OneKeyPerSet /\ ReceiptsAreOwn
  BY DEF Init, Free, Idle, Sending, AnnotatorsHold, WorkersHold, SetsWellFormed,
         OneKeyPerSet, ReceiptsAreOwn
<1>3. SendersHold
  BY NoneAssumption DEF Init, Idle, SendersHold, Workers
<1>4. OnePreparationPerSet /\ HandoffConfirmed /\ ReceiptsAgree /\ Alone /\ RetryMatches
  BY DEF Init, Idle, Workers, Sending, OnePreparationPerSet, HandoffConfirmed, ReceiptsAgree,
         Alone, RetryMatches
<1>5. QED
  BY <1>1, <1>2, <1>3, <1>4 DEF Inductive

(* Every step keeps the invariant.                                         *)
LEMMA NextHolds == Inductive /\ [Next]_vars => Inductive'
<1> SUFFICES ASSUME Inductive, [Next]_vars PROVE Inductive'
  OBVIOUS
<1>1. CASE UNCHANGED vars
  <2>1. UNCHANGED <<annotation, set, receipt, annotator, worker, lock, requests, preparations,
                    confirmed, plain, crashes>>
    BY <1>1 DEF vars
  <2>2. Handoffs'
    BY <2>1, HandoffsStay DEF catalyst
  <2>3. TypeOK' /\ AnnotatorsHold'
    BY <2>1 DEF Inductive, TypeOK, AnnotatorsHold
  <2>4. QED
    BY <2>2, <2>3 DEF Inductive, Handoffs
<1>2. ASSUME NEW a \in Annotators, Annotate(a) \/ Find(a) \/ SaveAnnotation(a)
      PROVE  Inductive'
  BY <1>2, AnnotateStep, FindStep, SaveAnnotationStep
<1>3. ASSUME NEW f \in Sets, CreateSet(f)
      PROVE  Inductive'
  BY <1>3, CreateSetStep
<1>4. ASSUME NEW x \in Exporters, Export(x)
      PROVE  Inductive'
  BY <1>4, ExportStep
<1>5. ASSUME NEW w \in Workers, ReadSet(w) \/ PublishRows(w) \/ StoreExport(w)
      PROVE  Inductive'
  BY <1>5, ReadSetStep, PublishRowsStep, StoreExportStep
<1>6. ASSUME NEW s \in Senders,
             Send(s) \/ Post(s) \/ Receive(s) \/ GiveUp(s) \/ SaveHandoff(s)
      PROVE  Inductive'
  BY <1>6, SendStep, PostStep, ReceiveStep, GiveUpStep, SaveHandoffStep
<1>7. ASSUME NEW q \in requests, Accept(q)
      PROVE  Inductive'
  BY <1>7, AcceptStep
<1>8. CASE Crash
  BY <1>8, CrashStep
<1>9. QED
  BY <1>1, <1>2, <1>3, <1>4, <1>5, <1>6, <1>7, <1>8 DEF Next

-----------------------------------------------------------------------------
(* The invariant of the handoff holds in every reachable state.            *)
THEOREM InductiveInvariant == Spec => []Inductive
BY InitHolds, NextHolds, PTL DEF Spec

(* Retries after a lost answer, a crash, a late import or a racing export  *)
(* never make Catalyst prepare a set twice.                                *)
THEOREM PreparedOnce == Spec => []OnePreparationPerSet
<1>1. Inductive => OnePreparationPerSet
  BY DEF Inductive
<1>2. QED
  BY <1>1, InductiveInvariant, PTL

(* A HANDLED_OFF set has its receipt, and Catalyst's preparation of it.    *)
THEOREM HandoffIsConfirmed == Spec => []HandoffConfirmed
<1>1. Inductive => HandoffConfirmed
  BY DEF Inductive
<1>2. QED
  BY <1>1, InductiveInvariant, PTL

(* The first answer and every replay of a handoff are the stored receipt.  *)
THEOREM ReceiptsAlwaysAgree == Spec => []ReceiptsAgree
<1>1. Inductive => ReceiptsAgree
  BY DEF Inductive
<1>2. QED
  BY <1>1, InductiveInvariant, PTL

(* Until a plain export, a retry names the artifact that was posted.       *)
THEOREM RetriesMatch == Spec => []RetryMatches
<1>1. Inductive => RetryMatches
  BY DEF Inductive
<1>2. QED
  BY <1>1, InductiveInvariant, PTL

(* Until a plain export, exports are immutable and handoffs are final.     *)
THEOREM ExportsAreFinal == Spec => FinalAlone
<1> DEFINE Final == ~plain' => \A f \in Sets : set[f] # None =>
                      /\ set[f].artifact # None => set'[f].artifact = set[f].artifact
                      /\ set[f].handoff = "HANDLED_OFF" => set'[f] = set[f]
<1>1. Inductive /\ [Next]_vars => [Final]_vars
  <2> SUFFICES ASSUME Inductive, Next, ~plain' PROVE
                 \A f \in Sets : set[f] # None =>
                   /\ set[f].artifact # None => set'[f].artifact = set[f].artifact
                   /\ set[f].handoff = "HANDLED_OFF" => set'[f] = set[f]
    OBVIOUS
  <2>1. ASSUME NEW g \in Sets, CreateSet(g)
        PROVE  \A f \in Sets : set[f] # None => set'[f] = set[f]
    BY <2>1 DEF CreateSet, Inductive, TypeOK
  <2>2. ASSUME NEW w \in Workers, StoreExport(w)
        PROVE  \A f \in Sets : set'[f] = set[f] \/ Open(set[f])
    <3>1. ~plain /\ worker[w].step = "store" /\ worker[w].set \in Sets /\ Open(worker[w].copy)
      BY <2>2 DEF StoreExport, At, Inductive, WorkersHold
    <3>2. set[worker[w].set] = worker[w].copy
      BY <3>1 DEF Inductive, Alone, Workers
    <3>3. QED
      BY <2>2, <3>1, <3>2 DEF StoreExport, Inductive, TypeOK
  <2>3. ASSUME NEW s \in Senders, SaveHandoff(s)
        PROVE  \A f \in Sets : \/ set'[f] = set[f]
                               \/ Prepared(set[f]) /\ set'[f].artifact = set[f].artifact
    <3>1. ~plain /\ worker[s].step \in Sending
      BY <2>3 DEF SaveHandoff, At, Sending
    <3>2. /\ set[worker[s].set] = worker[s].copy /\ Prepared(worker[s].copy)
          /\ worker[s].copy \in FeedbackSet /\ worker[s].set \in Sets
      BY <3>1, SenderKnows
    <3>3. set' = [set EXCEPT ![worker[s].set] =
                    [worker[s].copy EXCEPT !.handoff = "HANDLED_OFF",
                                           !.version = NextVersion(worker[s].copy)]]
      BY <2>3 DEF SaveHandoff
    <3>4. set'[worker[s].set].artifact = worker[s].copy.artifact
      BY <3>2, <3>3 DEF Inductive, TypeOK, FeedbackSet
    <3>5. \A f \in Sets : f # worker[s].set => set'[f] = set[f]
      BY <3>3 DEF Inductive, TypeOK
    <3>6. QED
      BY <3>2, <3>4, <3>5
  <2>4. \/ UNCHANGED set
        \/ \E g \in Sets : CreateSet(g)
        \/ \E w \in Workers : StoreExport(w)
        \/ \E s \in Senders : SaveHandoff(s)
    BY DEF Next, Annotate, Find, SaveAnnotation, Export, ReadSet, PublishRows, Send, Post,
           Receive, GiveUp, Accept, Crash, resources
  <2>5. QED
    BY <2>1, <2>2, <2>3, <2>4 DEF Open, Prepared
<1>2. QED
  BY <1>1, InductiveInvariant, PTL DEF Spec, FinalAlone
=============================================================================
