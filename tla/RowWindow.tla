----------------------------- MODULE RowWindow -----------------------------
(***************************************************************************)
(* Lists that are a window on a table. EchoStore._list_documents applies   *)
(* LIMIT and OFFSET to all rows of a kind, in the order of their random    *)
(* ids; list_samples and list_annotations drop the rows of other runs from *)
(* what is left. get_sample, annotate_sample, create_feedback_set and      *)
(* export_feedback_set all look through such a window, so the rows of      *)
(* other runs decide what they see.                                        *)
(*                                                                         *)
(* annotate_sample looks for an annotation and saves one under two takings *)
(* of the store's lock, and others run in between. The other handlers are  *)
(* one step each: what they do to each other is in TwoStepCreate and       *)
(* FeedbackHandoff. The rows are those of one scope; each scope has its    *)
(* own windows. An id is a number for its place in the order of ids.       *)
(***************************************************************************)
EXTENDS Naturals, FiniteSets, FiniteSetsExt

CONSTANTS Runs,
          Size,              \* rows of a run's snapshot
          Reviewers,
          SampleIds, AnnotationIds,
          SetIds, Keys,
          Annotators,        \* threads that serve annotate_sample
          Pagers,            \* clients that page through a run's samples
          None,              \* no export yet, no annotation, key, edit or paging
          SampleWindow,      \* 10000
          AnnotationWindow,  \* 1000
          PageSize,          \* the limit a client pages with, 200 by default
          MaxVersion         \* bounds the updates of an annotation

ASSUME IdAssumption == SampleIds \subseteq Nat /\ AnnotationIds \subseteq Nat
ASSUME BoundAssumption ==
  {Size, SampleWindow, AnnotationWindow, PageSize, MaxVersion} \subseteq Nat \ {0}
ASSUME NoneAssumption == None \notin AnnotationIds \cup Keys

VARIABLES sample, annotation, feedbackSet,  \* the rows of three kinds
          ledger,      \* receipts of create-feedback-set
          edit,        \* what a thread in annotate_sample has found
          overlapped,  \* history: the subjects two calls annotated at once
          pager        \* the clients that page

vars == <<sample, annotation, feedbackSet, ledger, edit, overlapped, pager>>

Indexes     == 1..Size
Sample      == [id : SampleIds, run : Runs, index : Indexes]
Annotation  == [id : AnnotationIds, run : Runs, index : Indexes, reviewer : Reviewers,
                version : 1..MaxVersion]
Subjects    == [run : Runs, index : Indexes, reviewer : Reviewers]
Edit        == [subject : Subjects, found : AnnotationIds \cup {None}, version : 1..MaxVersion]
Command     == [run : Runs, indexes : SUBSET Indexes, annotations : SUBSET AnnotationIds]
Candidate   == [index : Indexes, annotation : AnnotationIds \cup {None}]
FeedbackSet == [id : SetIds, body : Command, export : {None} \cup SUBSET Candidate]
Paging      == [run : Runs, offset : Nat, due : SUBSET SampleIds, seen : SUBSET SampleIds]

TypeOK ==
  /\ sample \subseteq Sample
  /\ annotation \subseteq Annotation
  /\ feedbackSet \subseteq FeedbackSet
  /\ ledger \subseteq [key : Keys, body : Command, id : SetIds]
  /\ edit \in [Annotators -> Edit \cup {None}]
  /\ overlapped \subseteq Subjects
  /\ pager \in [Pagers -> Paging \cup {None}]

Init ==
  /\ sample = {} /\ annotation = {} /\ feedbackSet = {} /\ ledger = {}
  /\ edit = [t \in Annotators |-> None]
  /\ overlapped = {}
  /\ pager = [p \in Pagers |-> None]

(* How many rows the order of ids puts before r.                           *)
Before(rows, r) == Cardinality({s \in rows : s.id < r.id})

-----------------------------------------------------------------------------
(* Faulty variants of definitions below, used by no specification: each is *)
(* put in the place of the definition it is named after to see that a      *)
(* property notices.                                                       *)

(* BETWEEN offset AND offset + limit of rows numbered from one.            *)
WindowShort(rows, limit, offset) ==
  {r \in rows : offset < Before(rows, r) + 1 /\ Before(rows, r) + 1 < offset + limit}

(* Finds an annotation until it is updated.                                *)
FindAnnotationUnrevised(run, i, reviewer) ==
  {a \in annotation : /\ a.run = run /\ a.index = i /\ a.reviewer = reviewer
                      /\ a.version = 1}

(* Leaves out the filter by the annotations that were selected.            *)
ChosenAny(body, i) ==
  {a \in annotation : a.run = body.run /\ a.index = i}

(* Exports what the samples page of the client shows.                      *)
ExportFirstPage(f) ==
  /\ f.export = None
  /\ feedbackSet' = (feedbackSet \ {f}) \cup
       {[f EXCEPT !.export = {[index |-> s.index, annotation |-> None] : s \in
           {r \in sample : /\ r.run = f.body.run /\ r.index \in f.body.indexes
                           /\ Before(sample, r) < PageSize}}]}
  /\ UNCHANGED <<sample, annotation, ledger, edit, overlapped, pager>>

-----------------------------------------------------------------------------
(* What the lists return.                                                  *)

(* SELECT ... WHERE kind = ? LIMIT limit OFFSET offset. Each of the        *)
(* table's indexes hands the rows out in the order of their ids.           *)
Window(rows, limit, offset) ==
  {r \in rows : offset <= Before(rows, r) /\ Before(rows, r) < offset + limit}

ListSamples(run, limit, offset) == {s \in Window(sample, limit, offset) : s.run = run}
ListAnnotations(run) == {a \in Window(annotation, AnnotationWindow, 0) : a.run = run}

GetSample(run, i) == \E s \in ListSamples(run, SampleWindow, 0) : s.index = i

FindAnnotation(run, i, reviewer) ==
  {a \in ListAnnotations(run) : a.index = i /\ a.reviewer = reviewer}

(* The 422 answers of create_feedback_set.                                 *)
Refused(body) ==
  \/ \E i \in body.indexes : ~GetSample(body.run, i)
  \/ \E id \in body.annotations :
       \A a \in ListAnnotations(body.run) : ~(a.id = id /\ a.index \in body.indexes)

(* The annotations the export may put beside sample i.                     *)
Chosen(body, i) ==
  {a \in ListAnnotations(body.run) :
     a.index = i /\ (body.annotations = {} \/ a.id \in body.annotations)}

-----------------------------------------------------------------------------
(* The handlers.                                                           *)

(* The samples of save_outcome: one per row, under random ids.             *)
PersistSamples(run) ==
  /\ \A s \in sample : s.run # run
  /\ \E id \in [Indexes -> SampleIds \ {s.id : s \in sample}] :
       /\ \A i, j \in Indexes : id[i] = id[j] => i = j
       /\ sample' = sample \cup {[id |-> id[i], run |-> run, index |-> i] : i \in Indexes}
  /\ UNCHANGED <<annotation, feedbackSet, ledger, edit, overlapped, pager>>

(* annotate_sample up to the save: the sample is there, and the reviewer   *)
(* has annotated it before or not.                                         *)
Subject(a) == [run |-> a.run, index |-> a.index, reviewer |-> a.reviewer]
Editing(subject) == {t \in Annotators : edit[t] # None /\ edit[t].subject = subject}

Find(t, run, i, reviewer) ==
  LET found   == FindAnnotation(run, i, reviewer)
      first   == CHOOSE a \in found : \A b \in found : a.id <= b.id
      subject == [run |-> run, index |-> i, reviewer |-> reviewer]
  IN  /\ edit[t] = None
      /\ GetSample(run, i)
      /\ \/ /\ found = {}
            /\ edit' = [edit EXCEPT ![t] = [subject |-> subject, found |-> None, version |-> 1]]
         \/ /\ found # {}
            /\ first.version < MaxVersion
            /\ edit' = [edit EXCEPT ![t] = [subject |-> subject, found |-> first.id,
                                            version |-> first.version + 1]]
      /\ overlapped' = IF Editing(subject) = {} THEN overlapped
                       ELSE overlapped \cup {subject}
      /\ UNCHANGED <<sample, annotation, feedbackSet, ledger, pager>>

(* Its save: INSERT OR REPLACE, under the id it found or a random one.     *)
SaveAnnotation(t) ==
  /\ edit[t] # None
  /\ LET e == edit[t] IN
     \E id \in IF e.found = None THEN AnnotationIds \ {a.id : a \in annotation} ELSE {e.found} :
       annotation' = {a \in annotation : a.id # id} \cup
         {[id |-> id, run |-> e.subject.run, index |-> e.subject.index,
           reviewer |-> e.subject.reviewer, version |-> e.version]}
  /\ edit' = [edit EXCEPT ![t] = None]
  /\ UNCHANGED <<sample, feedbackSet, ledger, overlapped, pager>>

(* ... or the save raises, or the process dies before it.                  *)
Abandon(t) ==
  /\ edit[t] # None
  /\ edit' = [edit EXCEPT ![t] = None]
  /\ UNCHANGED <<sample, annotation, feedbackSet, ledger, overlapped, pager>>

(* create_feedback_set, past the 422s, with a key or without; a replay or  *)
(* a conflict stores nothing.                                              *)
CreateSet(key, body) ==
  /\ ~Refused(body)
  /\ \A e \in ledger : e.key # key
  /\ \E id \in SetIds \ {f.id : f \in feedbackSet} :
       /\ feedbackSet' = feedbackSet \cup
            {[id |-> id, body |-> body, export |-> None]}
       /\ ledger' = IF key = None THEN ledger
                    ELSE ledger \cup {[key |-> key, body |-> body, id |-> id]}
  /\ UNCHANGED <<sample, annotation, edit, overlapped, pager>>

(* export_feedback_set: samples it does not see are left out; of several   *)
(* annotations of a sample the last one stays in the dict.                 *)
Export(f) ==
  /\ f.export = None
  /\ LET Beside(i) == LET ids == {a.id : a \in Chosen(f.body, i)}
                      IN  IF ids = {} THEN None ELSE Max(ids)
         rows == {[index |-> i, annotation |-> Beside(i)] :
                    i \in {j \in f.body.indexes : GetSample(f.body.run, j)}}
     IN  feedbackSet' = (feedbackSet \ {f}) \cup {[f EXCEPT !.export = rows]}
  /\ UNCHANGED <<sample, annotation, ledger, edit, overlapped, pager>>

(* GET samples, with the offset moved by the limit.                        *)
StartPaging(p, run) ==
  /\ pager' = [pager EXCEPT ![p] =
                  [run |-> run, offset |-> 0, seen |-> {},
                   due |-> {s.id : s \in {r \in sample : r.run = run}}]]
  /\ UNCHANGED <<sample, annotation, feedbackSet, ledger, edit, overlapped>>

NextPage(p) ==
  /\ pager[p] # None
  /\ pager[p].offset < Cardinality(sample)
  /\ pager' = [pager EXCEPT ![p].offset = @ + PageSize, ![p].seen = @ \cup
                 {s.id : s \in ListSamples(pager[p].run, PageSize, pager[p].offset)}]
  /\ UNCHANGED <<sample, annotation, feedbackSet, ledger, edit, overlapped>>

Next ==
  \/ \E run \in Runs : PersistSamples(run)
  \/ \E t \in Annotators, run \in Runs, i \in Indexes, reviewer \in Reviewers :
       Find(t, run, i, reviewer)
  \/ \E t \in Annotators : SaveAnnotation(t) \/ Abandon(t)
  \/ \E key \in Keys \cup {None}, body \in Command : body.indexes # {} /\ CreateSet(key, body)
  \/ \E f \in feedbackSet : Export(f)
  \/ \E p \in Pagers : NextPage(p) \/ \E run \in Runs : StartPaging(p, run)

Spec == Init /\ [][Next]_vars

-----------------------------------------------------------------------------
(* What holds whatever the windows hide.                                   *)

(* Held-out samples are never exported: a candidate is a selected sample   *)
(* of the set's own run, beside an annotation of that very sample, and one *)
(* of the annotations selected, when some were.                            *)
ExportIsSelected ==
  \A f \in feedbackSet : f.export # None =>
    \A c \in f.export :
      /\ c.index \in f.body.indexes
      /\ \E s \in sample : s.run = f.body.run /\ s.index = c.index
      /\ c.annotation # None =>
           /\ f.body.annotations # {} => c.annotation \in f.body.annotations
           /\ \E a \in annotation : /\ a.id = c.annotation
                                    /\ a.run = f.body.run /\ a.index = c.index

(* A client that pages past the last row has seen every sample the run had *)
(* when it started, although pages may be empty, and runs that finish      *)
(* meanwhile move the rows.                                                *)
PagingMissesNothing ==
  \A p \in Pagers : pager[p] # None /\ pager[p].offset >= Cardinality(sample) =>
                    pager[p].due \subseteq pager[p].seen

-----------------------------------------------------------------------------
(* What holds while the rows of a kind fit into its window.                *)

SamplesFit     == Cardinality(sample) <= SampleWindow
AnnotationsFit == Cardinality(annotation) <= AnnotationWindow

(* contracts/product/v1/README.md:45 "idempotent per (runId, sampleIndex,  *)
(* reviewer)": while the annotations fit into their window, a reviewer has *)
(* one annotation of a sample, unless two calls for it overlapped, both of *)
(* which may have found none (annotate_sample, service.py:824-852).        *)
OneAnnotationPerReviewer ==
  \A a, b \in annotation : Subject(a) = Subject(b) /\ Subject(a) \notin overlapped => a = b

OneAnnotationWhileTheyFit == AnnotationsFit => OneAnnotationPerReviewer

(* README.md:82 "a request replays the current state of the same Product   *)
(* resource": the checks before the lookup still let the request through.  *)
ReplaysPass == \A e \in ledger : ~Refused(e.body)

ReplaysPassWhileTheyFit == SamplesFit /\ AnnotationsFit => ReplaysPass

(* Each selected sample is exported, beside an annotation when one was     *)
(* selected for it: service.py:1129 "training candidates that will be      *)
(* produced on export" counts them all.                                    *)
ExportIsComplete ==
  \A f \in feedbackSet : f.export # None =>
    /\ \A i \in f.body.indexes : \E c \in f.export : c.index = i
    /\ \A c \in f.export :
         (\E a \in annotation : a.index = c.index /\ a.id \in f.body.annotations)
           => c.annotation # None

ExportIsCompleteWhileTheyFit == SamplesFit /\ AnnotationsFit => ExportIsComplete

-----------------------------------------------------------------------------
(* The inductive invariant behind the properties above.                    *)

(* Tables are finite and an id names one row.                              *)
RowsIdentified ==
  /\ IsFiniteSet(sample) /\ IsFiniteSet(annotation)
  /\ \A s, t \in sample : s.id = t.id => s = t
  /\ \A a, b \in annotation : a.id = b.id => a = b

(* What a command selects is there: rows are never deleted, and an update  *)
(* of an annotation leaves its id, run and sample.                         *)
Resolves(body) ==
  /\ \A i \in body.indexes : \E s \in sample : s.run = body.run /\ s.index = i
  /\ \A id \in body.annotations :
       \E a \in annotation : a.id = id /\ a.run = body.run /\ a.index \in body.indexes
SelectionsResolve ==
  /\ \A f \in feedbackSet : Resolves(f.body)
  /\ \A e \in ledger : Resolves(e.body)

(* Between its two steps annotate_sample knows a row that stays, or that   *)
(* there is none: nobody else inserts one unless two calls overlap.        *)
EditsHold ==
  \A t \in Annotators : edit[t] # None =>
    LET e == edit[t] IN
      /\ e.found # None => \E a \in annotation : a.id = e.found /\ Subject(a) = e.subject
      /\ e.found = None /\ e.subject \notin overlapped /\ AnnotationsFit =>
           \A a \in annotation : Subject(a) # e.subject
      /\ e.subject \in overlapped \/ Editing(e.subject) = {t}

(* A client has seen the samples due to it that lie before its offset. The *)
(* rows that are added move the others away from it, never towards it.     *)
SeenSoFar ==
  \A p \in Pagers : pager[p] # None =>
    /\ pager[p].due \subseteq {s.id : s \in {r \in sample : r.run = pager[p].run}}
    /\ \A s \in sample : s.id \in pager[p].due /\ Before(sample, s) < pager[p].offset
                         => s.id \in pager[p].seen

Inductive ==
  /\ TypeOK
  /\ RowsIdentified
  /\ SelectionsResolve
  /\ EditsHold
  /\ SeenSoFar
  /\ ExportIsSelected
  /\ OneAnnotationWhileTheyFit
  /\ ExportIsCompleteWhileTheyFit
=============================================================================
