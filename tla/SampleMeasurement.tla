------------------------- MODULE SampleMeasurement -------------------------
(***************************************************************************)
(* What one run measures: the rows of a JSONL snapshot on their way to an  *)
(* engine, the engine's answer, and what EchoService.create_run checks and *)
(* keeps of it.                                                            *)
(*                                                                         *)
(* The exact-match plugin is an external program: its answer may hold any  *)
(* samples, in any order, more than once, for rows it was never sent. The  *)
(* judge is Echo's own loop over the rows. An input bound to a target      *)
(* (CYRENE_REFERENCE_ACTUAL_JSONL_V1) sends the plugin only the rows that  *)
(* have both values, and gets a report that names every row.               *)
(*                                                                         *)
(* A row stays under the number of its line in the snapshot; the places it *)
(* has elsewhere are ranks of that line. Values and texts are left out: a  *)
(* row has a sampleId, and a reference and an actual value or not.         *)
(***************************************************************************)
EXTENDS Naturals, Sequences, FiniteSets

CONSTANTS Ids,        \* sampleIds
          NoId,       \* evidence without a sampleId, or with a foreign one
          Blank,      \* a line without a row
          MaxLines,   \* bounds the snapshot
          MaxSamples  \* bounds the samples of an answer

ASSUME IdsAssumption == NoId \notin Ids
ASSUME BlankAssumption == Blank \notin [id : Ids, reference : BOOLEAN, actual : BOOLEAN]
ASSUME SizesAssumption == MaxLines \in Nat /\ MaxSamples \in Nat

VARIABLES file,       \* the lines of the snapshot
          kind,       \* "target" and "text" inputs, or a "plain" POST of a run
          engine,     \* the runner the suite and the binding select
          rewritten,  \* reference answers were added: the blank lines are gone
          step,
          measured,   \* the engine's measurement
          report,     \* the target-bound report
          stored      \* the sample rows of the run, and its result

measurementVars == <<file, kind, engine, rewritten, step, measured, report, stored>>

Row      == [id : Ids, reference : BOOLEAN, actual : BOOLEAN]
Files    == UNION {[1..n -> Row \cup {Blank}] : n \in 0..MaxLines}
Evidence == [index : 1..MaxLines, id : Ids \cup {NoId}, passed : BOOLEAN]
Fraction == {s \in [num : 0..MaxSamples, den : 1..MaxSamples] : s.num <= s.den}

Lines     == {i \in DOMAIN file : file[i] # Blank}
RowIds == {file[i].id : i \in Lines}
Target    == kind = "target"

(* How many lines of S there are up to line i.                             *)
Rank(S, i) == Cardinality({j \in S : j <= i})

Passes(samples)  == {k \in DOMAIN samples : samples[k].passed}
SameScore(s, t)  == s.num * t.den = t.num * s.den
Score(samples)   == [num |-> Cardinality(Passes(samples)), den |-> Len(samples)]
Nothing == [samples |-> <<>>, records |-> 0, passed |-> 0, score |-> [num |-> 0, den |-> 1]]
NoReport == [entries |-> <<>>, total |-> 0, evaluated |-> 0, skipped |-> 0, matched |-> 0]

-----------------------------------------------------------------------------
(* Faulty variants of definitions below, used by no specification: each is *)
(* put in the place of the definition it is named after to see that a      *)
(* property notices.                                                       *)

(* Takes the number of the line.                                           *)
PositionOfLine(i) == i

(* Does not ask for an actual value.                                       *)
MissingReference(i) == IF ~file[i].reference THEN "MISSING_REFERENCE" ELSE "none"

(* Trusts the answer's count of its samples.                               *)
ConsistentUncounted(a) ==
  /\ a.samples # <<>>
  /\ a.passed = Cardinality(Passes(a.samples))
  /\ SameScore(a.score, Score(a.samples))

(* Counts the skipped rows in the denominator.                             *)
TotalsOfAllRows(m) ==
  /\ m.records = Cardinality(Lines)
  /\ m.passed = Cardinality({m.samples[k].id : k \in Passes(m.samples)})

-----------------------------------------------------------------------------
(* Why a row of a target-bound input is skipped.                           *)
Missing(i) == IF ~file[i].reference THEN "MISSING_REFERENCE"
              ELSE IF ~file[i].actual THEN "MISSING_ACTUAL" ELSE "none"
Evaluable  == {i \in Lines : Missing(i) = "none"}

(* The sampleIndex of a row in the preview, in reference answers and in    *)
(* the report's context.                                                   *)
Position(i) == Rank(Lines, i)

(* The rows the engine reads, and the line numbers it reads them at.       *)
Sent      == IF Target THEN Evaluable ELSE Lines
Number(i) == IF Target \/ rewritten THEN Rank(Sent, i) ELSE i

MeasurementInit ==
  /\ file \in Files
  /\ kind \in {"target", "text", "plain"}
  /\ engine \in {"plugin", "judge"}
  /\ rewritten = FALSE
  /\ step = "read"
  /\ measured = Nothing
  /\ report = NoReport
  /\ stored = Nothing

-----------------------------------------------------------------------------
Refuse == step' = "refused" /\ UNCHANGED <<file, kind, engine, rewritten, measured, report, stored>>
Fail   == step' = "failed" /\ UNCHANGED <<file, kind, engine, rewritten, measured, report, stored>>

(* _read_rows, and for a target-bound input that each sampleId is there    *)
(* once, that the exact-match plugin runs, and that there is a row to run. *)
Readable ==
  /\ kind # "plain" => Lines # {}
  /\ Target => /\ \A i, j \in Lines : file[i].id = file[j].id => i = j
               /\ engine = "plugin"
               /\ Evaluable # {}

(* LifecycleActions.evaluate up to create_run, or a plain create_run.      *)
Read ==
  /\ step = "read"
  /\ \/ ~Readable /\ Refuse
     \/ /\ Readable
        /\ step' = "measure"
        /\ rewritten' \in IF kind = "text" THEN BOOLEAN ELSE {FALSE}
        /\ UNCHANGED <<file, kind, engine, measured, report, stored>>

(* _measurement: the totals of an answer follow from its samples.          *)
Consistent(a) ==
  /\ a.samples # <<>>
  /\ a.records = Len(a.samples)
  /\ a.passed = Cardinality(Passes(a.samples))
  /\ SameScore(a.score, Score(a.samples))

(* What the plugin may answer with.                                        *)
Answer == [samples : UNION {[1..n -> Evidence] : n \in 0..MaxSamples},
           records : 0..MaxSamples, passed : 0..MaxSamples, score : Fraction]

(* DirectPluginEvaluationPort.evaluate. It may fail whatever it was sent.  *)
AskPlugin ==
  /\ step = "measure" /\ engine = "plugin"
  /\ \/ Fail
     \/ /\ Lines # {}
        /\ measured' \in {a \in Answer : Consistent(a)}
        /\ step' = IF Target THEN "align" ELSE "store"
        /\ UNCHANGED <<file, kind, engine, rewritten, report, stored>>

(* ExchangeJudgePort.evaluate: one call per row, in order; a row without   *)
(* the suite's fields, or a call that fails, fails the run.                *)
AskJudge ==
  /\ step = "measure" /\ engine = "judge"
  /\ \/ Fail
     \/ /\ Lines # {}
        /\ \E verdict \in [Lines -> BOOLEAN] :
             LET line(k) == CHOOSE i \in Lines : Rank(Lines, i) = k
                 samples == [k \in 1..Cardinality(Lines) |->
                   [index |-> Number(line(k)), id |-> file[line(k)].id,
                    passed |-> verdict[line(k)]]]
             IN  measured' = [samples |-> samples, records |-> Len(samples),
                              passed |-> Cardinality(Passes(samples)), score |-> Score(samples)]
        /\ step' = "store"
        /\ UNCHANGED <<file, kind, engine, rewritten, report, stored>>

(* _align_report_sample_indexes: each sample gets the place of its row     *)
(* among all rows; one that belongs to no row fails the run.               *)
Aligned(samples) ==
  [k \in DOMAIN samples |->
    [samples[k] EXCEPT !.index = Position(CHOOSE i \in Lines : file[i].id = samples[k].id)]]

Align ==
  /\ step = "align"
  /\ IF \E k \in DOMAIN measured.samples : measured.samples[k].id \notin RowIds
     THEN Fail
     ELSE /\ measured' = [measured EXCEPT !.samples = Aligned(@)]
          /\ step' = "report"
          /\ UNCHANGED <<file, kind, engine, rewritten, report, stored>>

(* _write_evaluation_report: the evidence is one sample for each row that  *)
(* was sent, and its totals are the measurement's.                         *)
Repeats(samples) == \E k, l \in DOMAIN samples : samples[k].id = samples[l].id /\ k # l
Covers(samples)  == {samples[k].id : k \in DOMAIN samples} = {file[i].id : i \in Evaluable}
Matched(samples) == {samples[k].id : k \in Passes(samples)}

TotalsAgree(m) ==
  /\ Evaluable # {}
  /\ m.records = Cardinality(Evaluable)
  /\ m.passed = Cardinality(Matched(m.samples))
  /\ SameScore(m.score, [num |-> Cardinality(Matched(m.samples)), den |-> Cardinality(Evaluable)])

Entry(i, samples) ==
  [id |-> file[i].id,
   status |-> IF i \in Evaluable THEN "EVALUATED" ELSE "SKIPPED",
   code |-> Missing(i),
   match |-> i \in Evaluable /\ file[i].id \in Matched(samples)]

ReportOf(samples) ==
  [entries |-> [i \in Lines |-> Entry(i, samples)],
   total |-> Cardinality(Lines), evaluated |-> Cardinality(Evaluable),
   skipped |-> Cardinality(Lines \ Evaluable), matched |-> Cardinality(Matched(samples))]

WriteReport ==
  /\ step = "report"
  /\ LET samples == measured.samples IN
       IF Repeats(samples) \/ ~Covers(samples) \/ ~TotalsAgree(measured)
       THEN Fail
       ELSE /\ report' = ReportOf(samples)
            /\ step' = "store"
            /\ UNCHANGED <<file, kind, engine, rewritten, measured, stored>>

(* The result, and _persist_samples: one row per sample of the measurement. *)
Store ==
  /\ step = "store"
  /\ stored' = measured
  /\ step' = "succeeded"
  /\ UNCHANGED <<file, kind, engine, rewritten, measured, report>>

MeasurementNext == Read \/ AskPlugin \/ AskJudge \/ Align \/ WriteReport \/ Store

MeasurementSpec == MeasurementInit /\ [][MeasurementNext]_measurementVars

-----------------------------------------------------------------------------
(* Properties.                                                             *)

MeasurementTypeOK ==
  /\ file \in Files
  /\ kind \in {"target", "text", "plain"}
  /\ engine \in {"plugin", "judge"}
  /\ rewritten \in BOOLEAN
  /\ step \in {"read", "measure", "align", "report", "store", "succeeded", "failed", "refused"}
  /\ \A m \in {measured, stored} :
       m \in [samples : Seq(Evidence), records : Nat, passed : Nat, score : [num : Nat, den : Nat]]

(* Whatever the runner answered, the score of a run that succeeded is the  *)
(* pass rate of the samples stored with it, of which there is at least one *)
(* (_measurement, _persist_samples): the gate can be recomputed from them. *)
ScoreHasEvidence ==
  step = "succeeded" =>
    /\ Len(stored.samples) > 0
    /\ stored.records = Len(stored.samples)
    /\ stored.passed = Cardinality(Passes(stored.samples))
    /\ SameScore(stored.score, Score(stored.samples))

(* The samples of a target-bound run are the rows that have both values,   *)
(* each once, at the index the preview shows for it, although the runner   *)
(* was sent a shorter file and may have answered in any order with any     *)
(* indexes (_align_report_sample_indexes, _write_evaluation_report).       *)
EvidenceInPlace ==
  step = "succeeded" /\ Target =>
    /\ \A k \in DOMAIN stored.samples : \E i \in Evaluable :
         /\ stored.samples[k].id = file[i].id
         /\ stored.samples[k].index = Cardinality({j \in 1..i : file[j] # Blank})
    /\ \A i \in Evaluable : Cardinality({k \in DOMAIN stored.samples :
                                           stored.samples[k].id = file[i].id}) = 1

(* The exported report accounts for every row: it is evaluated if it   *)
(* has both values and else skipped with a reason, no skipped row is in    *)
(* the denominator, and the metric counts exactly the rows it shows as     *)
(* matched, which the stored evidence passed (docs/API.md:83-92).          *)
ReportAccountsForRows ==
  step = "succeeded" /\ Target =>
    LET matches == {i \in Lines : report.entries[i].match}
    IN  /\ report.total = report.evaluated + report.skipped
        /\ report.evaluated = Len(stored.samples)
        /\ report.matched = Cardinality(matches)
        /\ matches = {i \in Lines : \E k \in Passes(stored.samples) :
                                       stored.samples[k].id = file[i].id}
        /\ \A i \in Lines : report.entries[i].status =
             IF file[i].reference /\ file[i].actual THEN "EVALUATED" ELSE "SKIPPED"
        /\ \A i \in Lines : report.entries[i].code = "none" <=> i \in Evaluable
        /\ SameScore(stored.score, [num |-> report.matched, den |-> report.evaluated])

(* A target-bound run whose plugin answered each row it was sent once, in  *)
(* any order and under any indexes, does not fail: past the answer neither *)
(* a skipped or a blank line, nor the alignment, nor the comparison of     *)
(* totals turns it away (service.py:652-672, 592-603).                     *)
AnsweredOnce(samples) ==
  /\ \A i \in Evaluable : \E k \in DOMAIN samples : samples[k].id = file[i].id
  /\ \A k \in DOMAIN samples : \E i \in Evaluable : samples[k].id = file[i].id
  /\ \A k, l \in DOMAIN samples : samples[k].id = samples[l].id => k = l

HonestAnswerAccepted ==
  step = "failed" /\ Target /\ measured # Nothing => ~AnsweredOnce(measured.samples)

-----------------------------------------------------------------------------
(* The inductive invariant behind the properties above: what each step may *)
(* rely on.                                                                *)

(* Past the first step a target-bound input is one the service accepts.    *)
TargetIsReadable ==
  Target /\ step \notin {"read", "refused"} => Readable

(* Before the engine answers there is no measurement.                      *)
NotYetMeasured == step \in {"read", "measure"} => measured = Nothing

(* Only target-bound samples are aligned and reported.                     *)
OnlyTargetsReport == step \in {"align", "report"} => Target

(* A measurement that was accepted follows from its samples.               *)
MeasuredIsConsistent ==
  step \in {"align", "report", "store", "succeeded"} => Consistent(measured)

(* Aligned samples are rows of the snapshot, at the rows' places.          *)
InPlace(e) == \E i \in Lines : e.id = file[i].id /\ e.index = Position(i)
AlignedInPlace ==
  Target /\ step \in {"report", "store", "succeeded"} =>
    \A k \in DOMAIN measured.samples : InPlace(measured.samples[k])

(* A report was written of these samples, none twice and none missing.     *)
ReportIsOfMeasured ==
  Target /\ step \in {"store", "succeeded"} =>
    /\ ~Repeats(measured.samples) /\ Covers(measured.samples) /\ TotalsAgree(measured)
    /\ report = ReportOf(measured.samples)

StoredIsMeasured == step = "succeeded" => stored = measured

MeasurementInductive ==
  /\ MeasurementTypeOK
  /\ TargetIsReadable
  /\ NotYetMeasured
  /\ OnlyTargetsReport
  /\ MeasuredIsConsistent
  /\ AlignedInPlace
  /\ ReportIsOfMeasured
  /\ StoredIsMeasured
  /\ HonestAnswerAccepted
=============================================================================
