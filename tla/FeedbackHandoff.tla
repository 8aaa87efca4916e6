-------------------------- MODULE FeedbackHandoff --------------------------
(***************************************************************************)
(* Human feedback on one run and its way to Catalyst: annotate_sample,     *)
(* create_feedback_set, export_feedback_set (EchoService) and              *)
(* send_feedback (LifecycleActions), with Catalyst as an external service  *)
(* that imports each Idempotency-Key once.                                 *)
(*                                                                         *)
(* send_feedback holds the lifecycle's lock from its first read to its     *)
(* last write. The two export routes and annotate_sample hold none: they   *)
(* read a document, and write a changed copy of it in a later transaction. *)
(*                                                                         *)
(* Samples are immutable, and a run's annotations are never deleted. An    *)
(* artifact is content-addressed: it is the candidate rows themselves, one *)
(* per selected sample, told apart by the annotation they carry. The       *)
(* versions of annotations and the idempotency ledger of                   *)
(* create_feedback_set are left out, and so is candidate_count, which      *)
(* counts the list as sent (service.py:1133) though sampleIndexes may      *)
(* repeat and the rows do not.                                             *)
(***************************************************************************)
EXTENDS Naturals

CONSTANTS Annotators,  \* the threads that serve POST .../annotations
          Exporters,   \* the threads that serve POST and GET .../export
          Senders,     \* the threads that serve POST .../send-to-catalyst
          Sets,        \* FeedbackSets
          Samples,     \* the sample indexes of the run
          Selections,  \* the sets of sampleIndexes a client may send
          Reviewers,
          Notes,       \* contents of an annotation
          AnnIds,      \* the ids uuid4 can return for annotations
          Datasets,    \* the datasetId of a send (an absent one is a value too)
          None,        \* no annotation, no artifact, no receipt, no thread
          MaxCrashes   \* bounds the crashes of the process

ASSUME ThreadsAssumption == /\ Annotators \cap (Exporters \cup Senders) = {}
                            /\ Exporters \cap Senders = {}
ASSUME SelectionsAssumption == Selections \subseteq (SUBSET Samples) \ {{}}
ASSUME CrashAssumption == MaxCrashes \in Nat

VARIABLES annotation,    \* the "annotation" rows
          set,           \* the "feedback_set" rows
          receipt,       \* the "feedback_handoff" rows
          annotator,     \* the threads in annotate_sample
          worker,        \* the threads in export_feedback_set or send_feedback
          lock,          \* the thread that holds the lifecycle's lock
          requests,      \* the imports posted to Catalyst
          preparations,  \* the imports Catalyst has accepted
          confirmed,     \* history: what send_feedback told its clients
          plain,         \* history: an export route has been called
          crashes        \* how often the process died

resources == <<annotation, set, receipt>>
catalyst  == <<requests, preparations>>
vars      == <<annotation, set, receipt, annotator, worker, lock, requests, preparations,
               confirmed, plain, crashes>>

Workers  == Exporters \cup Senders
Free     == [step |-> "idle", sample |-> None, reviewer |-> None, note |-> None, id |-> None]
Idle     == [step |-> "idle", set |-> None, dataset |-> None, copy |-> None, artifact |-> None]
NewSet(selected, chosen) ==
  [state |-> "OPEN", handoff |-> "PREPARED", version |-> 1, selected |-> selected,
   chosen |-> chosen, artifact |-> None]

Annotation  == [sample : Samples, reviewer : Reviewers, note : Notes]
Artifact    == UNION {[S -> Notes \cup {None}] : S \in SUBSET Samples}
FeedbackSet == [state : {"OPEN", "EXPORTED"}, handoff : {"PREPARED", "HANDLED_OFF"},
                version : 1..3, selected : SUBSET Samples,
                chosen : SUBSET AnnIds, artifact : Artifact \cup {None}]
Import      == [set : Sets, version : 1..3, dataset : Datasets, artifact : Artifact]
Receipt     == [set : Sets, version : 1..3, dataset : Datasets]

AnnotatorRecord == [step : {"idle", "find", "save"}, sample : Samples \cup {None},
                    reviewer : Reviewers \cup {None}, note : Notes \cup {None},
                    id : AnnIds \cup {None}]
WorkerSteps     == {"idle", "read", "publish", "store", "post", "await", "save"}
WorkerRecord    == [step : WorkerSteps, set : Sets \cup {None}, dataset : Datasets \cup {None},
                    copy : FeedbackSet \cup {None}, artifact : Artifact \cup {None}]

(* None is no value of another kind.                                       *)
ASSUME NoneAssumption == /\ None \notin Workers
                         /\ None \notin Annotation /\ None \notin FeedbackSet
                         /\ None \notin Artifact /\ None \notin Receipt


TypeOK ==
  /\ annotation \in [AnnIds -> Annotation \cup {None}]
  /\ set \in [Sets -> FeedbackSet \cup {None}]
  /\ receipt \in [Sets -> Receipt \cup {None}]
  /\ annotator \in [Annotators -> AnnotatorRecord]
  /\ worker \in [Workers -> WorkerRecord]
  /\ lock \in Senders \cup {None}
  /\ requests \subseteq Import
  /\ preparations \subseteq Import
  /\ confirmed \subseteq Receipt
  /\ plain \in BOOLEAN
  /\ crashes \in 0..MaxCrashes

Init ==
  /\ annotation = [i \in AnnIds |-> None]
  /\ set = [f \in Sets |-> None]
  /\ receipt = [f \in Sets |-> None]
  /\ annotator = [a \in Annotators |-> Free]
  /\ worker = [w \in Workers |-> Idle]
  /\ lock = None
  /\ requests = {}
  /\ preparations = {}
  /\ confirmed = {}
  /\ plain = FALSE
  /\ crashes = 0

Saved == {i \in AnnIds : annotation[i] # None}
At(w, step) == worker[w].step = step
Goto(w, step) == worker' = [worker EXCEPT ![w].step = step]

(* The thread is done. A sender gives the lifecycle's lock back.           *)
Leave(w) == /\ worker' = [worker EXCEPT ![w] = Idle]
            /\ lock' = IF lock = w THEN None ELSE lock

-----------------------------------------------------------------------------
(* annotate_sample.                                                        *)

Annotate(a) ==
  /\ annotator[a].step = "idle"
  /\ \E s \in Samples, r \in Reviewers, n \in Notes :
       annotator' = [annotator EXCEPT ![a] =
         [step |-> "find", sample |-> s, reviewer |-> r, note |-> n, id |-> None]]
  /\ UNCHANGED <<resources, worker, lock, catalyst, confirmed, plain, crashes>>

(* _find_annotation: some row of this sample and reviewer, or a new id.    *)
Find(a) ==
  /\ annotator[a].step = "find"
  /\ LET same  == {i \in Saved : /\ annotation[i].sample = annotator[a].sample
                                 /\ annotation[i].reviewer = annotator[a].reviewer}
         fresh == {i \in AnnIds \ Saved : \A b \in Annotators : annotator[b].id # i}
     IN  \E i \in IF same # {} THEN same ELSE fresh :
           annotator' = [annotator EXCEPT ![a].step = "save", ![a].id = i]
  /\ UNCHANGED <<resources, worker, lock, catalyst, confirmed, plain, crashes>>

SaveAnnotation(a) ==
  /\ annotator[a].step = "save"
  /\ annotation' = [annotation EXCEPT ![annotator[a].id] =
                      [sample |-> annotator[a].sample, reviewer |-> annotator[a].reviewer,
                       note |-> annotator[a].note]]
  /\ annotator' = [annotator EXCEPT ![a] = Free]
  /\ UNCHANGED <<set, receipt, worker, lock, catalyst, confirmed, plain, crashes>>

-----------------------------------------------------------------------------
(* Faulty variants of definitions below, used by no specification: each is *)
(* put in the place of the definition it is named after to see that a      *)
(* property notices.                                                       *)

(* Exports again what is exported already.                                 *)
ExportedNever(copy) == FALSE

(* Takes a conflict of the key for an acknowledgement.                     *)
AcknowledgedByKey(q) == \E p \in preparations : p.set = q.set /\ p.version = q.version

(* Replays a receipt to a send with another dataset.                       *)
SendNoConflict(s) ==
  /\ worker[s].step = "idle"
  /\ lock = None
  /\ \E f \in {f \in Sets : set[f] # None}, d \in Datasets :
       \/ /\ receipt[f] = None
          /\ lock' = s
          /\ worker' = [worker EXCEPT ![s].step = "read", ![s].set = f, ![s].dataset = d]
          /\ UNCHANGED confirmed
       \/ /\ receipt[f] # None
          /\ confirmed' = confirmed \cup {[receipt[f] EXCEPT !.dataset = d]}
          /\ UNCHANGED <<lock, worker>>
  /\ UNCHANGED <<resources, annotator, catalyst, plain, crashes>>

(* Looks neither at the state of the set nor for a receipt.                *)
SendAgain(s) ==
  /\ worker[s].step = "idle"
  /\ lock = None
  /\ \E f \in {f \in Sets : set[f] # None}, d \in Datasets :
       /\ lock' = s
       /\ worker' = [worker EXCEPT ![s].step = "read", ![s].set = f, ![s].dataset = d]
  /\ UNCHANGED <<resources, annotator, catalyst, confirmed, plain, crashes>>

-----------------------------------------------------------------------------
(* create_feedback_set: the selection is explicit; annotation ids must     *)
(* belong to selected samples.                                             *)
CreateSet(f) ==
  /\ set[f] = None
  /\ \E selected \in Selections :
       \E chosen \in SUBSET {i \in Saved : annotation[i].sample \in selected} :
         set' = [set EXCEPT ![f] = NewSet(selected, chosen)]
  /\ UNCHANGED <<annotation, receipt, annotator, worker, lock, catalyst, confirmed, plain, crashes>>

-----------------------------------------------------------------------------
(* export_feedback_set, on its own or inside send_feedback.                *)

Export(x) ==
  /\ At(x, "idle")
  /\ \E f \in {f \in Sets : set[f] # None} :
       worker' = [worker EXCEPT ![x].step = "read", ![x].set = f]
  /\ plain' = TRUE
  /\ UNCHANGED <<resources, annotator, lock, catalyst, confirmed, crashes>>

(* get_feedback_set; an exported set is returned as it is.                 *)
Exported(copy) == copy.artifact # None

ReadSet(w) ==
  /\ At(w, "read")
  /\ LET copy == set[worker[w].set] IN
       IF ~Exported(copy)
       THEN /\ worker' = [worker EXCEPT ![w].step = "publish", ![w].copy = copy]
            /\ UNCHANGED lock
       ELSE IF w \in Senders
            THEN /\ worker' = [worker EXCEPT ![w].step = "post", ![w].copy = copy]
                 /\ UNCHANGED lock
            ELSE Leave(w)
  /\ UNCHANGED <<resources, annotator, catalyst, confirmed, plain, crashes>>

(* A row joins its sample to the correction and preference of one          *)
(* annotation, its note, or to none; the rest of it is the sample's own.   *)
CandidateRow(i) == IF i = None THEN None ELSE annotation[i].note

(* The rows an annotation map may give: of several annotations of a sample *)
(* the last one listed wins, and the order of the list is not defined.     *)
Candidates(copy) ==
  LET listed(s) == {i \in Saved : /\ annotation[i].sample = s
                                  /\ copy.chosen = {} \/ i \in copy.chosen}
      used(s)   == IF listed(s) = {} THEN {None} ELSE listed(s)
  IN  {rows \in [copy.selected -> Notes \cup {None}] :
         \A s \in copy.selected : \E i \in used(s) : rows[s] = CandidateRow(i)}

(* list_annotations, the rows, publish_bytes; publishing may fail.         *)
PublishRows(w) ==
  /\ At(w, "publish")
  /\ \/ /\ \E rows \in Candidates(worker[w].copy) :
             worker' = [worker EXCEPT ![w].step = "store", ![w].artifact = rows]
        /\ UNCHANGED lock
     \/ Leave(w)
  /\ UNCHANGED <<resources, annotator, catalyst, confirmed, plain, crashes>>

(* The copy read before, changed, replaces whatever the row holds now.     *)
NextVersion(copy) == copy.version + 1
ExportedCopy(w) ==
  LET copy == worker[w].copy IN
    [copy EXCEPT !.state = "EXPORTED", !.artifact = worker[w].artifact,
                 !.version = NextVersion(copy)]

StoreExport(w) ==
  /\ At(w, "store")
  /\ set' = [set EXCEPT ![worker[w].set] = ExportedCopy(w)]
  /\ IF w \in Senders
     THEN /\ worker' = [worker EXCEPT ![w].step = "post", ![w].copy = ExportedCopy(w)]
          /\ UNCHANGED lock
     ELSE Leave(w)
  /\ UNCHANGED <<annotation, receipt, annotator, catalyst, confirmed, plain, crashes>>

-----------------------------------------------------------------------------
(* send_feedback.                                                          *)

(* Under the lock, the set and its receipt are read; receipts are written  *)
(* under the lock only, so the two reads are one step. A receipt of a      *)
(* HANDLED_OFF set is replayed to a send with its dataset, and is a 409 to *)
(* any other. A receipt of a PREPARED set, a HANDLED_OFF set without one,  *)
(* and a missing Catalyst URL refuse the send and change nothing.          *)
Send(s) ==
  /\ At(s, "idle")
  /\ lock = None
  /\ \E f \in {f \in Sets : set[f] # None}, d \in Datasets :
       \/ /\ receipt[f] = None
          /\ set[f].handoff = "PREPARED"
          /\ lock' = s
          /\ worker' = [worker EXCEPT ![s].step = "read", ![s].set = f, ![s].dataset = d]
          /\ UNCHANGED confirmed
       \/ /\ receipt[f] # None
          /\ set[f].handoff = "HANDLED_OFF"
          /\ receipt[f].dataset = d
          /\ confirmed' = confirmed \cup {receipt[f]}
          /\ UNCHANGED <<lock, worker>>
  /\ UNCHANGED <<resources, annotator, catalyst, plain, crashes>>

(* POST /feedback-imports under the key echo-feedback:{set}:{version}, or  *)
(* no POST: too many provenance references, or no connection.              *)
ImportOf(s) == [set |-> worker[s].set, version |-> worker[s].copy.version,
                dataset |-> worker[s].dataset, artifact |-> worker[s].copy.artifact]
Post(s) ==
  /\ At(s, "post")
  /\ \/ /\ requests' = requests \cup {ImportOf(s)}
        /\ Goto(s, "await")
        /\ UNCHANGED lock
     \/ /\ Leave(s)
        /\ UNCHANGED requests
  /\ UNCHANGED <<resources, annotator, preparations, confirmed, plain, crashes>>

(* Catalyst accepts a posted import, at any time, even after Echo gave up  *)
(* on it; the first body under a key is the one it imports.                *)
Accept(q) ==
  /\ \A p \in preparations : p.set # q.set \/ p.version # q.version
  /\ preparations' = preparations \cup {q}
  /\ UNCHANGED <<resources, annotator, worker, lock, requests, confirmed, plain, crashes>>

(* A 201 with a preparation identity: the key was imported with this body. *)
Acknowledged(q) == q \in preparations

Receive(s) ==
  /\ At(s, "await")
  /\ Acknowledged(ImportOf(s))
  /\ Goto(s, "save")
  /\ UNCHANGED <<resources, annotator, lock, catalyst, confirmed, plain, crashes>>

(* No answer, another status, or a malformed receipt: 502, retryable.      *)
GiveUp(s) ==
  /\ At(s, "await")
  /\ Leave(s)
  /\ UNCHANGED <<resources, annotator, catalyst, confirmed, plain, crashes>>

(* save_feedback_handoff, one transaction, and the answer.                 *)
SaveHandoff(s) ==
  /\ At(s, "save")
  /\ LET w == worker[s]
         new == [set |-> w.set, version |-> w.copy.version, dataset |-> w.dataset] IN
       /\ set' = [set EXCEPT ![w.set] = [w.copy EXCEPT !.handoff = "HANDLED_OFF",
                                                       !.version = NextVersion(w.copy)]]
       /\ receipt' = [receipt EXCEPT ![w.set] = new]
       /\ confirmed' = confirmed \cup {new}
  /\ Leave(s)
  /\ UNCHANGED <<annotation, annotator, catalyst, plain, crashes>>

(* The process dies and starts again. Posted imports are on their way.     *)
Crash ==
  /\ crashes < MaxCrashes
  /\ crashes' = crashes + 1
  /\ annotator' = [a \in Annotators |-> Free]
  /\ worker' = [w \in Workers |-> Idle]
  /\ lock' = None
  /\ UNCHANGED <<resources, catalyst, confirmed, plain>>

Next == \/ \E a \in Annotators : Annotate(a) \/ Find(a) \/ SaveAnnotation(a)
        \/ \E f \in Sets : CreateSet(f)
        \/ \E x \in Exporters : Export(x)
        \/ \E w \in Workers : ReadSet(w) \/ PublishRows(w) \/ StoreExport(w)
        \/ \E s \in Senders : Send(s) \/ Post(s) \/ Receive(s) \/ GiveUp(s) \/ SaveHandoff(s)
        \/ \E q \in requests : Accept(q)
        \/ Crash

Spec == Init /\ [][Next]_vars

-----------------------------------------------------------------------------
(* Safety, with any number of exports, sends and crashes at once.          *)

(* Catalyst prepares a set at most once: retries after a lost answer, a    *)
(* crash, a late import or a racing export all use one key.                *)
OnePreparationPerSet ==
  \A p, q \in preparations : p.set = q.set => p = q

(* HANDLED_OFF is never claimed without Catalyst: the receipt is there,    *)
(* and Catalyst prepared exactly the artifact and dataset on record.       *)
HandoffConfirmed ==
  \A f \in Sets : set[f] # None /\ set[f].handoff = "HANDLED_OFF" =>
    /\ receipt[f] # None
    /\ [set |-> f, version |-> receipt[f].version, dataset |-> receipt[f].dataset,
        artifact |-> set[f].artifact] \in preparations

(* All clients that were told of a handoff of one set were told the same,  *)
(* and what they were told is what is stored: the first and every replay,  *)
(* across crashes.                                                         *)
ReceiptsAgree == \A a \in confirmed : receipt[a.set] = a

(* What holds until a plain export is requested: send_feedback's own       *)
(* export runs under the lock.                                             *)

(* An export is immutable, as service.py:1014 says ("later annotations     *)
(* need a new FeedbackSet"), and a handed-off set is final.                *)
FinalAlone ==
  [][~plain' => \A f \in Sets : set[f] # None =>
       /\ set[f].artifact # None => set'[f].artifact = set[f].artifact
       /\ set[f].handoff = "HANDLED_OFF" => set'[f] = set[f]]_vars

(* What Catalyst has prepared or will prepare is what the set would send   *)
(* again: a retry with the same dataset gets the preparation of the lost   *)
(* answer instead of a conflict of the key ("Retry the same FeedbackSet"). *)
RetryMatches ==
  ~plain => \A q \in requests \cup preparations : set[q.set].artifact = q.artifact

-----------------------------------------------------------------------------
(* The inductive invariant behind them: an import of a set has version 2,  *)
(* whoever sends it, so there is one Idempotency-Key for it.               *)

Open(s)      == s.version = 1 /\ s.artifact = None /\ s.handoff = "PREPARED"
Prepared(s)  == s.version = 2 /\ s.artifact # None /\ s.handoff = "PREPARED"
HandedOff(s) == s.version = 3 /\ s.artifact # None /\ s.handoff = "HANDLED_OFF"

SetsWellFormed == \A f \in Sets : set[f] # None =>
                    Open(set[f]) \/ Prepared(set[f]) \/ HandedOff(set[f])

OneKeyPerSet == \A q \in requests \cup preparations : q.version = 2

(* What a thread in annotate_sample is about to write.                     *)
AnnotatorsHold ==
  \A a \in Annotators : annotator[a].step # "idle" =>
    /\ annotator[a].sample \in Samples
    /\ annotator[a].reviewer \in Reviewers
    /\ annotator[a].note \in Notes
    /\ annotator[a].step = "save" => annotator[a].id \in AnnIds

(* The copy a worker has is of an open set until it stores the export, and *)
(* of an exported one that is not handed off after that.                   *)
Sending == {"post", "await", "save"}
WorkersHold ==
  \A w \in Workers :
    LET copy == worker[w].copy IN
      /\ worker[w].step # "idle" => worker[w].set \in Sets /\ set[worker[w].set] # None
      /\ worker[w].step \in {"publish", "store"} => copy \in FeedbackSet /\ Open(copy)
      /\ worker[w].step = "store" => worker[w].artifact \in Artifact
      /\ worker[w].step \in Sending => copy \in FeedbackSet /\ Prepared(copy)
      /\ worker[w].step = "save" => ImportOf(w) \in preparations

(* One sender at a time is past its guards, and no receipt appears for the *)
(* set it sends but its own.                                               *)
SendersHold ==
  \A s \in Senders :
    /\ worker[s].step # "idle" <=> lock = s
    /\ worker[s].step # "idle" => /\ receipt[worker[s].set] = None
                                  /\ worker[s].dataset \in Datasets

ReceiptsAreOwn == \A f \in Sets : receipt[f] # None => receipt[f].set = f

(* Until a plain export, the copy of the sender is what is stored.         *)
Alone ==
  ~plain =>
    /\ \A x \in Exporters : worker[x].step = "idle"
    /\ \A s \in Senders : worker[s].step \in {"publish", "store"} \cup Sending =>
                            set[worker[s].set] = worker[s].copy
    /\ \A q \in requests \cup preparations : set[q.set] # None

Inductive ==
  /\ TypeOK
  /\ SetsWellFormed
  /\ OneKeyPerSet
  /\ AnnotatorsHold
  /\ WorkersHold
  /\ SendersHold
  /\ ReceiptsAreOwn
  /\ OnePreparationPerSet
  /\ HandoffConfirmed
  /\ ReceiptsAgree
  /\ Alone
  /\ RetryMatches

-----------------------------------------------------------------------------
(* What the documents say of requests that overlap; the code does not.     *)

(* contracts/product/v1/README.md:47 "handoffStatus is PREPARED until an   *)
(* external consumer (Catalyst) confirms the export, then HANDLED_OFF".    *)
HandoffIsFinal ==
  [][\A f \in Sets : set[f] # None /\ set[f].handoff = "HANDLED_OFF" =>
       set'[f] = set[f]]_vars

(* contracts/product/v1/README.md:45 "HumanAnnotation: idempotent per      *)
(* (runId, sampleIndex, reviewer)": one row for each.                      *)
OneAnnotationPerReviewer ==
  \A i, j \in Saved : /\ annotation[i].sample = annotation[j].sample
                      /\ annotation[i].reviewer = annotation[j].reviewer => i = j
=============================================================================
