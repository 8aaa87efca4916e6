--------------------------- MODULE Samples_proofs ---------------------------
(***************************************************************************)
(* Proofs about the samples of runs: what a run measures                   *)
(* (SampleMeasurement) and what the lists show of all runs (RowWindow),    *)
(* for snapshots, answers, windows and pages of any size.                  *)
(*                                                                         *)
(* Both systems count: a row's place is the number of rows before it.      *)
(* The first part is what both need to know of places and of finite sets.  *)
(***************************************************************************)
EXTENDS SampleMeasurement, RowWindow, FiniteSetTheorems, TLAPS

-----------------------------------------------------------------------------
(* Finite sets and places.                                                 *)

(* The values of a function on a finite set are finitely many.             *)
LEMMA ImageIsFinite ==
  ASSUME NEW S, IsFiniteSet(S), NEW f
  PROVE  IsFiniteSet({f[x] : x \in S})
<1> DEFINE T == {f[x] : x \in S}
           g == [x \in S |-> f[x]]
<1>1. g \in Surjection(S, T)
  BY DEF Surjection
<1> HIDE DEF T, g
<1>2. IsFiniteSet(T)
  BY <1>1, FS_Surjection
<1>3. QED
  BY <1>2 DEF T

(* A function that tells the elements apart has as many values.            *)
LEMMA ImageIsAsLarge ==
  ASSUME NEW S, IsFiniteSet(S), NEW f,
         \A x, y \in S : f[x] = f[y] => x = y
  PROVE  /\ IsFiniteSet({f[x] : x \in S})
         /\ Cardinality({f[x] : x \in S}) = Cardinality(S)
<1> DEFINE T == {f[x] : x \in S}
           g == [x \in S |-> f[x]]
<1>1. g \in Bijection(S, T)
  BY DEF Bijection, Injection, Surjection, IsInjective
<1>2. ExistsBijection(S, T)
  BY <1>1 DEF ExistsBijection
<1> HIDE DEF T, g
<1>3. IsFiniteSet(T) /\ Cardinality(T) = Cardinality(S)
  BY <1>2, FS_Bijection
<1>4. QED
  BY <1>3 DEF T

(* A finite set of numbers has a greatest one: the set of those above x,   *)
(* for x in the set, has a minimal value under inclusion.                  *)
LEMMA GreatestExists ==
  ASSUME NEW S \in SUBSET Nat, IsFiniteSet(S), S # {}
  PROVE  \E x \in S : \A y \in S : x >= y
<1> DEFINE Above(x) == {z \in S : z > x}
           T == {Above(x) : x \in S}
<1>1. IsWellFoundedOn(StrictSubsetOrdering(S), FiniteSubsetsOf(S))
  BY FS_StrictSubsetOrderingWellFounded
<1>2. T \subseteq FiniteSubsetsOf(S) /\ T # {}
  <2>1. T \subseteq SUBSET S /\ T # {}
    OBVIOUS
  <2>2. QED
    BY <2>1, FS_FiniteSubsetsOfFinite
<1>3. PICK t \in T : \A u \in T : <<u, t>> \notin StrictSubsetOrdering(S)
  <2> HIDE DEF T
  <2>1. QED
    BY <1>1, <1>2, WFMin
<1>4. PICK x \in S : t = Above(x)
  OBVIOUS
<1>5. ASSUME NEW y \in S, y > x PROVE FALSE
  <2>0. x \in Nat /\ y \in Nat /\ y > x /\ S \subseteq Nat
    BY <1>5
  <2>1. Above(y) \subseteq Above(x)
    <3>1. ASSUME NEW z \in S, z > y PROVE z > x
      BY <2>0, <3>1
    <3>2. QED
      BY <3>1
  <2>2. y \in Above(x) /\ y \notin Above(y)
    BY <2>0
  <2>3. Above(x) \in SUBSET S /\ Above(y) \in SUBSET S
    OBVIOUS
  <2>4. <<Above(y), Above(x)>> \in StrictSubsetOrdering(S)
    <3> HIDE DEF Above
    <3>1. QED
      BY <2>1, <2>2, <2>3 DEF StrictSubsetOrdering
  <2>5. QED
    BY <2>4, <1>3, <1>4
<1>6. QED
  <2>1. \A y \in S : x \in Nat /\ y \in Nat /\ ~(y > x)
    BY <1>5
  <2>2. QED
    BY <2>1

(* ... and a least one.                                                    *)
LEMMA LeastExists ==
  ASSUME NEW S \in SUBSET Nat, IsFiniteSet(S), S # {}
  PROVE  \E x \in S : \A y \in S : x <= y
<1> DEFINE Below(x) == {z \in S : z < x}
           T == {Below(x) : x \in S}
<1>1. IsWellFoundedOn(StrictSubsetOrdering(S), FiniteSubsetsOf(S))
  BY FS_StrictSubsetOrderingWellFounded
<1>2. T \subseteq FiniteSubsetsOf(S) /\ T # {}
  <2>1. T \subseteq SUBSET S /\ T # {}
    OBVIOUS
  <2>2. QED
    BY <2>1, FS_FiniteSubsetsOfFinite
<1>3. PICK t \in T : \A u \in T : <<u, t>> \notin StrictSubsetOrdering(S)
  <2> HIDE DEF T
  <2>1. QED
    BY <1>1, <1>2, WFMin
<1>4. PICK x \in S : t = Below(x)
  OBVIOUS
<1>5. ASSUME NEW y \in S, y < x PROVE FALSE
  <2>0. x \in Nat /\ y \in Nat /\ y < x /\ S \subseteq Nat
    BY <1>5
  <2>1. Below(y) \subseteq Below(x)
    <3>1. ASSUME NEW z \in S, z < y PROVE z < x
      BY <2>0, <3>1
    <3>2. QED
      BY <3>1
  <2>2. y \in Below(x) /\ y \notin Below(y)
    BY <2>0
  <2>3. Below(x) \in SUBSET S /\ Below(y) \in SUBSET S
    OBVIOUS
  <2>4. <<Below(y), Below(x)>> \in StrictSubsetOrdering(S)
    <3> HIDE DEF Below
    <3>1. QED
      BY <2>1, <2>2, <2>3 DEF StrictSubsetOrdering
  <2>5. QED
    BY <2>4, <1>3, <1>4
<1>6. QED
  <2>1. \A y \in S : x \in Nat /\ y \in Nat /\ ~(y < x)
    BY <1>5
  <2>2. QED
    BY <2>1

(* Max is what its name says.                                              *)
LEMMA MaxIsGreatest ==
  ASSUME NEW S \in SUBSET Nat, IsFiniteSet(S), S # {}
  PROVE  Max(S) \in S /\ \A y \in S : Max(S) >= y
BY GreatestExists DEF Max

(* The place of i among the numbers of S: between one and their number,    *)
(* and a place of its own.                                                 *)
LEMMA RankIsPlace ==
  ASSUME NEW S \in SUBSET Nat, IsFiniteSet(S)
  PROVE  /\ \A i \in S : Rank(S, i) \in 1..Cardinality(S)
         /\ \A i, j \in S : Rank(S, i) = Rank(S, j) => i = j
<1> DEFINE Upto(i) == {j \in S : j <= i}
<1>1. ASSUME NEW i \in S
      PROVE  /\ IsFiniteSet(Upto(i)) /\ Cardinality(Upto(i)) \in Nat
             /\ Cardinality(Upto(i)) <= Cardinality(S) /\ Cardinality(Upto(i)) # 0
             /\ Cardinality(S) \in Nat
  <2>1. Upto(i) \in SUBSET S /\ i \in Upto(i)
    OBVIOUS
  <2> HIDE DEF Upto
  <2>2. QED
    BY <2>1, FS_Subset, FS_CardinalityType, FS_EmptySet
<1>2. ASSUME NEW i \in S, NEW j \in S, i < j
      PROVE  Cardinality(Upto(i)) # Cardinality(Upto(j))
  <2>1. Upto(i) \in SUBSET Upto(j) /\ j \in Upto(j) /\ j \notin Upto(i)
    <3>1. i \in Nat /\ j \in Nat /\ S \subseteq Nat
      OBVIOUS
    <3>2. ASSUME NEW z \in S, z <= i PROVE z <= j
      BY <1>2, <3>1, <3>2
    <3>3. Upto(i) \in SUBSET Upto(j)
      BY <3>2
    <3>4. j \in Upto(j) /\ j \notin Upto(i)
      BY <1>2, <3>1
    <3>5. QED
      BY <3>3, <3>4
  <2>2. IsFiniteSet(Upto(j))
    BY <1>1
  <2> HIDE DEF Upto
  <2>3. QED
    BY <2>1, <2>2, FS_Subset
<1>3. \A i : Rank(S, i) = Cardinality(Upto(i))
  BY DEF Rank
<1> HIDE DEF Upto
<1>4. \A i, j \in S : i \in Nat /\ j \in Nat
  OBVIOUS
<1>5. QED
  BY <1>1, <1>2, <1>3, <1>4

(* Every place is somebody's.                                              *)
LEMMA PlaceIsTaken ==
  ASSUME NEW S \in SUBSET Nat, IsFiniteSet(S), NEW k \in 1..Cardinality(S)
  PROVE  \E i \in S : Rank(S, i) = k
<1> DEFINE n == Cardinality(S)
           f == [i \in S |-> Rank(S, i)]
<1>1. n \in Nat
  BY FS_CardinalityType
<1>2. f \in Injection(S, 1..n)
  BY RankIsPlace DEF Injection, IsInjective
<1>3. IsFiniteSet(1..n) /\ Cardinality(1..n) = n
  BY <1>1, FS_Interval
<1> HIDE DEF f
<1>4. f \in Surjection(S, 1..n)
  BY <1>2, <1>3, FS_Injection
<1>5. QED
  BY <1>4 DEF Surjection, f

-----------------------------------------------------------------------------
(* SampleMeasurement: the operators the checks are made of.                *)

(* The rows are lines of a file of at most MaxLines.                       *)
LEMMA LinesAreFinite ==
  ASSUME file \in Files
  PROVE  /\ Lines \in SUBSET Nat /\ IsFiniteSet(Lines)
         /\ Lines \subseteq 1..MaxLines /\ Cardinality(Lines) \in 0..MaxLines
         /\ IsFiniteSet(Evaluable) /\ Cardinality(Evaluable) \in Nat
         /\ \A i \in Lines : file[i] \in Row
<1>1. PICK n \in 0..MaxLines : file \in [1..n -> Row \cup {Blank}]
  BY DEF Files
<1>2. MaxLines \in Nat /\ n \in Nat /\ n <= MaxLines
  BY SizesAssumption
<1>3. Lines \in SUBSET (1..MaxLines) /\ Evaluable \in SUBSET Lines
  BY <1>1, <1>2 DEF Lines, Evaluable
<1>4. IsFiniteSet(1..MaxLines) /\ Cardinality(1..MaxLines) = MaxLines
  BY <1>2, FS_Interval
<1>5. IsFiniteSet(Lines) /\ Cardinality(Lines) \in Nat /\ Cardinality(Lines) <= MaxLines
  BY <1>3, <1>4, FS_Subset, FS_CardinalityType
<1>6. IsFiniteSet(Evaluable) /\ Cardinality(Evaluable) \in Nat
  BY <1>3, <1>5, FS_Subset, FS_CardinalityType
<1>7. QED
  BY <1>1, <1>2, <1>3, <1>5, <1>6 DEF Lines

(* The passed samples and their ids.                                       *)
LEMMA PassesAreFinite ==
  ASSUME NEW samples \in Seq(Evidence)
  PROVE  /\ DOMAIN samples = 1..Len(samples) /\ Len(samples) \in Nat
         /\ IsFiniteSet(DOMAIN samples) /\ Cardinality(DOMAIN samples) = Len(samples)
         /\ IsFiniteSet(Passes(samples)) /\ Cardinality(Passes(samples)) \in Nat
         /\ IsFiniteSet(Matched(samples)) /\ Cardinality(Matched(samples)) \in Nat
         /\ \A k \in DOMAIN samples : samples[k] \in Evidence
<1>1. DOMAIN samples = 1..Len(samples) /\ Len(samples) \in Nat
  OBVIOUS
<1>2. IsFiniteSet(DOMAIN samples) /\ Cardinality(DOMAIN samples) = Len(samples)
  BY <1>1, FS_Interval
<1>3. IsFiniteSet(Passes(samples)) /\ Cardinality(Passes(samples)) \in Nat
  <2>1. Passes(samples) \in SUBSET DOMAIN samples
    BY DEF Passes
  <2>2. QED
    BY <1>2, <2>1, FS_Subset, FS_CardinalityType
<1>4. IsFiniteSet(Matched(samples)) /\ Cardinality(Matched(samples)) \in Nat
  <2> DEFINE f == [k \in Passes(samples) |-> samples[k].id]
  <2>1. Matched(samples) = {f[k] : k \in Passes(samples)}
    BY DEF Matched
  <2> HIDE DEF f
  <2>2. IsFiniteSet({f[k] : k \in Passes(samples)})
    BY <1>3, ImageIsFinite
  <2>3. QED
    BY <2>1, <2>2, FS_CardinalityType
<1>5. QED
  BY <1>1, <1>2, <1>3, <1>4

(* Samples of which no two have one sampleId are as many as their ids, and *)
(* so are those that passed.                                               *)
LEMMA OncePerId ==
  ASSUME NEW samples \in Seq(Evidence), ~Repeats(samples)
  PROVE  /\ Cardinality({samples[k].id : k \in DOMAIN samples}) = Len(samples)
         /\ Cardinality(Matched(samples)) = Cardinality(Passes(samples))
<1> DEFINE f == [k \in DOMAIN samples |-> samples[k].id]
<1>1. Passes(samples) \subseteq DOMAIN samples
  BY DEF Passes
<1>2. /\ \A k, l \in DOMAIN samples : f[k] = f[l] => k = l
      /\ {f[k] : k \in DOMAIN samples} = {samples[k].id : k \in DOMAIN samples}
      /\ {f[k] : k \in Passes(samples)} = Matched(samples)
  BY <1>1 DEF Repeats, Matched
<1> HIDE DEF f
<1>3. Cardinality({f[k] : k \in DOMAIN samples}) = Cardinality(DOMAIN samples)
  BY <1>2, PassesAreFinite, ImageIsAsLarge
<1>4. Cardinality({f[k] : k \in Passes(samples)}) = Cardinality(Passes(samples))
  BY <1>1, <1>2, PassesAreFinite, ImageIsAsLarge
<1>5. QED
  BY <1>2, <1>3, <1>4, PassesAreFinite

(* Rows with different sampleIds are as many as their ids.                 *)
LEMMA RowsAreTheirIds ==
  ASSUME file \in Files, NEW S \in SUBSET Lines,
         \A i, j \in Lines : file[i].id = file[j].id => i = j
  PROVE  /\ IsFiniteSet(S)
         /\ Cardinality({file[i].id : i \in S}) = Cardinality(S)
<1> DEFINE f == [i \in Lines |-> file[i].id]
<1>1. IsFiniteSet(S)
  BY LinesAreFinite, FS_Subset
<1>2. /\ \A i, j \in S : f[i] = f[j] => i = j
      /\ {f[i] : i \in S} = {file[i].id : i \in S}
  OBVIOUS
<1> HIDE DEF f
<1>3. Cardinality({f[i] : i \in S}) = Cardinality(S)
  BY <1>1, <1>2, ImageIsAsLarge
<1>4. QED
  BY <1>1, <1>2, <1>3

(* The totals of a consistent measurement of the rows, once each, are      *)
(* those of the report.                                                    *)
LEMMA TotalsOfOncePerRow ==
  ASSUME file \in Files, Evaluable # {},
         \A i, j \in Lines : file[i].id = file[j].id => i = j,
         NEW m, m.samples \in Seq(Evidence), Consistent(m),
         ~Repeats(m.samples), Covers(m.samples)
  PROVE  TotalsAgree(m)
<1>1. Cardinality({file[i].id : i \in Evaluable}) = Cardinality(Evaluable)
  <2>1. Evaluable \in SUBSET Lines
    BY DEF Evaluable
  <2>2. QED
    BY <2>1, RowsAreTheirIds
<1>2. Len(m.samples) = Cardinality(Evaluable)
  BY <1>1, OncePerId DEF Covers
<1>3. Cardinality(Passes(m.samples)) = Cardinality(Matched(m.samples))
  BY OncePerId
<1>4. QED
  BY <1>2, <1>3 DEF Consistent, TotalsAgree, Score

-----------------------------------------------------------------------------
(* SampleMeasurement: the steps of a run.                                  *)

(* A measurement as the properties see it.                                 *)
Measurement == [samples : Seq(Evidence), records : Nat, passed : Nat,
                score : [num : Nat, den : Nat]]

LEMMA NothingIsMeasurement == Nothing \in Measurement
<1>1. <<>> \in Seq(Evidence)
  OBVIOUS
<1>2. QED
  BY <1>1 DEF Nothing, Measurement

LEMMA MeasurementInitInductive == MeasurementInit => MeasurementInductive
BY NothingIsMeasurement
   DEF MeasurementInit, MeasurementInductive, MeasurementTypeOK, Measurement,
       TargetIsReadable, NotYetMeasured,
       OnlyTargetsReport, MeasuredIsConsistent, AlignedInPlace, ReportIsOfMeasured,
       StoredIsMeasured, HonestAnswerAccepted

(* No step changes the snapshot, the kind of the input or the engine.      *)
LEMMA SnapshotStays ==
  ASSUME UNCHANGED <<file, kind, engine>>
  PROVE  /\ Lines' = Lines /\ Target' = Target /\ Readable' = Readable
         /\ Evaluable' = Evaluable
         /\ \A i : Position(i)' = Position(i)
         /\ \A e : InPlace(e)' = InPlace(e)
         /\ \A samples : /\ Covers(samples)' = Covers(samples)
                         /\ ReportOf(samples)' = ReportOf(samples)
         /\ \A m : TotalsAgree(m)' = TotalsAgree(m)
<1>1. Lines' = Lines /\ Target' = Target
  BY DEF Lines, Target
<1>2. \A i : Missing(i)' = Missing(i)
  BY DEF Missing
<1>3. Evaluable' = Evaluable
  BY <1>1, <1>2 DEF Evaluable
<1>4. Readable' = Readable
  BY <1>1, <1>3 DEF Readable
<1>5. \A i : Position(i)' = Position(i)
  BY <1>1 DEF Position
<1>6. \A e : InPlace(e)' = InPlace(e)
  BY <1>1, <1>5 DEF InPlace
<1>7. \A samples : Covers(samples)' = Covers(samples)
  BY <1>3 DEF Covers
<1>8. \A samples : ReportOf(samples)' = ReportOf(samples)
  BY <1>1, <1>2, <1>3 DEF ReportOf, Entry
<1>9. \A m : TotalsAgree(m)' = TotalsAgree(m)
  BY <1>3 DEF TotalsAgree
<1>10. QED
  BY <1>1, <1>3, <1>4, <1>5, <1>6, <1>7, <1>8, <1>9

(* A run that ends without an outcome promises nothing of its samples, but *)
(* that the plugin did not answer each row once.                           *)
LEMMA EndingKeeps ==
  ASSUME MeasurementInductive,
         \/ Refuse
         \/ /\ Fail /\ step \in {"measure", "align", "report"}
            /\ Target /\ step # "measure" => ~AnsweredOnce(measured.samples)
  PROVE  MeasurementInductive'
<1>1. /\ UNCHANGED <<file, kind, engine, rewritten, measured, report, stored>>
      /\ step' \in {"failed", "refused"}
      /\ step' = "failed" => /\ step \notin {"read", "refused"}
                             /\ step \in {"measure", "align", "report"}
                             /\ Target /\ step # "measure" => ~AnsweredOnce(measured.samples)
  BY DEF Fail, Refuse
<1>2. Target' = Target /\ Readable' = Readable
  BY <1>1, SnapshotStays
<1>3. AnsweredOnce(measured.samples)' = AnsweredOnce(measured.samples)
  BY <1>1, SnapshotStays DEF AnsweredOnce
<1>4. HonestAnswerAccepted'
  BY <1>1, <1>2, <1>3 DEF MeasurementInductive, NotYetMeasured, HonestAnswerAccepted
<1>5. MeasurementTypeOK' /\ TargetIsReadable'
  BY <1>1, <1>2 DEF MeasurementInductive, MeasurementTypeOK, TargetIsReadable
<1>6. /\ NotYetMeasured' /\ OnlyTargetsReport' /\ MeasuredIsConsistent' /\ AlignedInPlace'
      /\ ReportIsOfMeasured' /\ StoredIsMeasured'
  BY <1>1 DEF NotYetMeasured, OnlyTargetsReport, MeasuredIsConsistent, AlignedInPlace,
              ReportIsOfMeasured, StoredIsMeasured
<1>7. QED
  BY <1>4, <1>5, <1>6 DEF MeasurementInductive

(* An answer that has each row once is the checks' covering one.           *)
LEMMA AnsweredOnceCovers ==
  ASSUME NEW samples, AnsweredOnce(samples)
  PROVE  ~Repeats(samples) /\ Covers(samples)
BY DEF AnsweredOnce, Repeats, Covers

LEMMA ReadKeeps == MeasurementInductive /\ Read => MeasurementInductive'
<1>1. ASSUME MeasurementInductive, Read, ~Refuse PROVE MeasurementInductive'
  <2>1. /\ step = "read" /\ Readable /\ step' = "measure" /\ rewritten' \in BOOLEAN
        /\ UNCHANGED <<file, kind, engine, measured, report, stored>>
    BY <1>1 DEF Read
  <2>2. Readable'
    BY <2>1, SnapshotStays
  <2>3. QED
    BY <1>1, <2>1, <2>2
       DEF MeasurementInductive, MeasurementTypeOK, TargetIsReadable, NotYetMeasured,
           OnlyTargetsReport, MeasuredIsConsistent, AlignedInPlace, ReportIsOfMeasured,
           StoredIsMeasured, HonestAnswerAccepted
<1>2. QED
  BY <1>1, EndingKeeps

(* An engine answers: what is asked of its measurement.                    *)
LEMMA AnswerKeeps ==
  ASSUME MeasurementInductive, step = "measure", measured' \in Measurement, Consistent(measured'),
         \/ step' = "align" /\ Target
         \/ step' = "store" /\ ~Target,
         UNCHANGED <<file, kind, engine, rewritten, report, stored>>
  PROVE  MeasurementInductive'
<1>1. Target' = Target /\ Readable' = Readable
  BY SnapshotStays
<1>2. Consistent(measured)'
  BY DEF Consistent, Score, SameScore, Passes
<1>3. QED
  BY <1>1, <1>2
     DEF MeasurementInductive, MeasurementTypeOK, Measurement, TargetIsReadable,
         NotYetMeasured, OnlyTargetsReport,
         MeasuredIsConsistent, AlignedInPlace, ReportIsOfMeasured, StoredIsMeasured,
         HonestAnswerAccepted

LEMMA AskPluginKeeps == MeasurementInductive /\ AskPlugin => MeasurementInductive'
<1>1. ASSUME MeasurementInductive, AskPlugin, ~Fail PROVE MeasurementInductive'
  <2>1. PICK a \in Answer : Consistent(a) /\ measured' = a
    BY <1>1 DEF AskPlugin
  <2>2. a \in Measurement
    <3>1. PICK n \in 0..MaxSamples : a.samples \in [1..n -> Evidence]
      BY DEF Answer
    <3>2. a.samples \in Seq(Evidence)
      BY <3>1, SizesAssumption
    <3>3. a.records \in Nat /\ a.passed \in Nat /\ a.score \in [num : Nat, den : Nat]
      BY SizesAssumption DEF Answer, Fraction
    <3>4. a = [samples |-> a.samples, records |-> a.records, passed |-> a.passed,
               score |-> a.score]
      BY DEF Answer
    <3>5. QED
      BY <3>2, <3>3, <3>4 DEF Measurement
  <2>3. QED
    BY <1>1, <2>1, <2>2, AnswerKeeps DEF AskPlugin
<1>2. QED
  BY <1>1, EndingKeeps DEF AskPlugin

(* The judge's samples, one per row and in the rows' order.                *)
LEMMA AskJudgeKeeps == MeasurementInductive /\ AskJudge => MeasurementInductive'
<1>1. ASSUME MeasurementInductive, AskJudge, ~Fail PROVE MeasurementInductive'
  <2> DEFINE line(k) == CHOOSE i \in Lines : Rank(Lines, i) = k
             count   == Cardinality(Lines)
  <2>1. PICK verdict \in [Lines -> BOOLEAN] :
          LET samples == [k \in 1..count |-> [index |-> Number(line(k)), id |-> file[line(k)].id,
                                              passed |-> verdict[line(k)]]]
          IN  measured' = [samples |-> samples, records |-> Len(samples),
                           passed |-> Cardinality(Passes(samples)),
                           score |-> Score(samples)]
    BY <1>1 DEF AskJudge
  <2> DEFINE samples == [k \in 1..count |-> [index |-> Number(line(k)), id |-> file[line(k)].id,
                                              passed |-> verdict[line(k)]]]
  <2>2. file \in Files /\ Lines # {} /\ ~Target
    BY <1>1 DEF MeasurementInductive, MeasurementTypeOK, AskJudge, TargetIsReadable, Readable
  <2>3. count \in Nat /\ count # 0 /\ count <= MaxLines /\ MaxLines \in Nat
    BY <2>2, LinesAreFinite, FS_EmptySet, SizesAssumption
  <2>4. ASSUME NEW k \in 1..count PROVE samples[k] \in Evidence
    <3>1. line(k) \in Lines
      BY <2>2, LinesAreFinite, PlaceIsTaken
    <3>2. Number(line(k)) \in 1..MaxLines
      <4>1. Rank(Lines, line(k)) \in 1..count
        BY <2>2, <3>1, LinesAreFinite, RankIsPlace
      <4>2. QED
        BY <2>2, <2>3, <3>1, <4>1, LinesAreFinite DEF Number, Sent
    <3>3. file[line(k)].id \in Ids
      BY <2>2, <3>1, LinesAreFinite DEF Row
    <3>4. QED
      BY <3>1, <3>2, <3>3 DEF Evidence
  <2> HIDE DEF line, count
  <2>5. samples \in Seq(Evidence) /\ Len(samples) = count
    BY <2>3, <2>4
  <2> HIDE DEF samples
  <2>6. measured' = [samples |-> samples, records |-> Len(samples),
                     passed |-> Cardinality(Passes(samples)), score |-> Score(samples)]
    BY <2>1 DEF samples
  <2>7. Score(samples) \in [num : Nat, den : Nat] /\ Cardinality(Passes(samples)) \in Nat
    BY <2>3, <2>5, PassesAreFinite DEF Score
  <2>8. measured' \in Measurement
    BY <2>3, <2>5, <2>6, <2>7 DEF Measurement
  <2>9. Consistent(measured')
    BY <2>3, <2>5, <2>6, <2>7 DEF Consistent, SameScore
  <2>10. QED
    BY <1>1, <2>2, <2>8, <2>9, AnswerKeeps DEF AskJudge
<1>2. QED
  BY <1>1, EndingKeeps DEF AskJudge

(* Alignment changes the indexes only, to those of the samples' rows.      *)
LEMMA AlignedSamples ==
  ASSUME file \in Files, NEW samples \in Seq(Evidence),
         \A k \in DOMAIN samples : samples[k].id \in RowIds
  PROVE  /\ Aligned(samples) \in Seq(Evidence) /\ Len(Aligned(samples)) = Len(samples)
         /\ Passes(Aligned(samples)) = Passes(samples)
         /\ \A k \in DOMAIN Aligned(samples) : InPlace(Aligned(samples)[k])
<1> DEFINE row(k) == CHOOSE i \in Lines : file[i].id = samples[k].id
<1>1. DOMAIN Aligned(samples) = DOMAIN samples
  BY DEF Aligned
<1>2. ASSUME NEW k \in DOMAIN samples
      PROVE  /\ row(k) \in Lines /\ file[row(k)].id = samples[k].id
             /\ Aligned(samples)[k] = [samples[k] EXCEPT !.index = Position(row(k))]
             /\ samples[k] \in Evidence
  <2>1. \E i \in Lines : file[i].id = samples[k].id
    BY <1>2 DEF RowIds
  <2>2. Aligned(samples)[k] = [samples[k] EXCEPT !.index = Position(row(k))]
    BY DEF Aligned
  <2>3. QED
    BY <2>1, <2>2, PassesAreFinite
<1> HIDE DEF row
<1>3. ASSUME NEW k \in DOMAIN samples
      PROVE  /\ Aligned(samples)[k] \in Evidence
             /\ Aligned(samples)[k].passed = samples[k].passed
             /\ InPlace(Aligned(samples)[k])
  <2>1. Position(row(k)) \in 1..MaxLines
    <3>1. Position(row(k)) \in 1..Cardinality(Lines)
      BY <1>2, LinesAreFinite, RankIsPlace DEF Position
    <3>2. Cardinality(Lines) \in 0..MaxLines /\ MaxLines \in Nat
      BY LinesAreFinite, SizesAssumption
    <3>3. QED
      BY <3>1, <3>2
  <2>2. QED
    BY <1>2, <2>1 DEF Evidence, InPlace
<1>4. Aligned(samples) \in Seq(Evidence) /\ Len(Aligned(samples)) = Len(samples)
  <2>1. Aligned(samples) = [k \in 1..Len(samples) |-> Aligned(samples)[k]]
    BY DEF Aligned
  <2>2. \A k \in 1..Len(samples) : Aligned(samples)[k] \in Evidence
    BY <1>3
  <2>3. QED
    BY <2>1, <2>2, PassesAreFinite
<1>5. QED
  BY <1>1, <1>3, <1>4 DEF Passes

LEMMA AlignKeeps == MeasurementInductive /\ Align => MeasurementInductive'
<1>1. ASSUME MeasurementInductive, Align, ~Fail PROVE MeasurementInductive'
  <2> DEFINE samples == measured.samples
  <2>1. /\ step = "align" /\ step' = "report" /\ Target
        /\ measured' = [measured EXCEPT !.samples = Aligned(samples)]
        /\ UNCHANGED <<file, kind, engine, rewritten, report, stored>>
        /\ \A k \in DOMAIN samples : samples[k].id \in RowIds
    BY <1>1 DEF Align, MeasurementInductive, OnlyTargetsReport
  <2>2. file \in Files /\ measured \in Measurement /\ Consistent(measured)
    BY <1>1, <2>1 DEF MeasurementInductive, MeasurementTypeOK, Measurement, MeasuredIsConsistent
  <2>3. samples \in Seq(Evidence)
    BY <2>2 DEF Measurement
  <2> HIDE DEF samples
  <2>4. /\ Aligned(samples) \in Seq(Evidence) /\ Len(Aligned(samples)) = Len(samples)
        /\ Passes(Aligned(samples)) = Passes(samples)
        /\ \A k \in DOMAIN Aligned(samples) : InPlace(Aligned(samples)[k])
    BY <2>1, <2>2, <2>3, AlignedSamples
  <2>5. /\ measured' \in Measurement /\ measured'.samples = Aligned(samples)
        /\ measured'.records = measured.records /\ measured'.passed = measured.passed
        /\ measured'.score = measured.score
    BY <2>1, <2>2, <2>4 DEF Measurement
  <2>6. Consistent(measured)'
    <3>1. samples # <<>> => Aligned(samples) # <<>>
      BY <2>3, <2>4
    <3>2. Consistent(measured')
      BY <2>2, <2>4, <2>5, <3>1 DEF Consistent, Score, samples
    <3>3. QED
      BY <3>2 DEF Consistent, SameScore, Score, Passes
  <2>7. AlignedInPlace'
    BY <2>1, <2>4, <2>5, SnapshotStays DEF AlignedInPlace
  <2>8. Target' /\ Readable' = Readable
    BY <2>1, SnapshotStays
  <2>9. QED
    BY <1>1, <2>1, <2>5, <2>6, <2>7, <2>8
       DEF MeasurementInductive, MeasurementTypeOK, Measurement, TargetIsReadable,
           NotYetMeasured,
           OnlyTargetsReport, MeasuredIsConsistent, ReportIsOfMeasured, StoredIsMeasured,
           HonestAnswerAccepted
<1>2. ASSUME MeasurementInductive, Align, Fail PROVE MeasurementInductive'
  <2>1. ASSUME AnsweredOnce(measured.samples), Target
        PROVE  \A k \in DOMAIN measured.samples : measured.samples[k].id \in RowIds
    BY <2>1 DEF AnsweredOnce, Evaluable, RowIds
  <2>2. \E k \in DOMAIN measured.samples : measured.samples[k].id \notin RowIds
    BY <1>2 DEF Align, Fail
  <2>3. QED
    BY <1>2, <2>1, <2>2, EndingKeeps DEF Align
<1>3. QED
  BY <1>1, <1>2

LEMMA WriteReportKeeps == MeasurementInductive /\ WriteReport => MeasurementInductive'
<1>1. ASSUME MeasurementInductive, WriteReport, ~Fail PROVE MeasurementInductive'
  <2>1. /\ step = "report" /\ step' = "store" /\ Target
        /\ ~Repeats(measured.samples) /\ Covers(measured.samples) /\ TotalsAgree(measured)
        /\ report' = ReportOf(measured.samples)
        /\ UNCHANGED <<file, kind, engine, rewritten, measured, stored>>
    BY <1>1 DEF WriteReport, MeasurementInductive, OnlyTargetsReport
  <2>2. Target' /\ Readable' = Readable
    BY <2>1, SnapshotStays
  <2>3. Consistent(measured)'
    BY <1>1, <2>1
       DEF MeasurementInductive, MeasuredIsConsistent, Consistent, SameScore, Score, Passes
  <2>4. AlignedInPlace'
    BY <1>1, <2>1, SnapshotStays DEF MeasurementInductive, AlignedInPlace
  <2>5. ReportIsOfMeasured'
    <3>1. Repeats(measured.samples)' = Repeats(measured.samples)
      BY <2>1 DEF Repeats
    <3>2. QED
      BY <2>1, <3>1, SnapshotStays DEF ReportIsOfMeasured
  <2>6. QED
    BY <1>1, <2>1, <2>2, <2>3, <2>4, <2>5
       DEF MeasurementInductive, MeasurementTypeOK, TargetIsReadable, NotYetMeasured,
           OnlyTargetsReport,
           MeasuredIsConsistent, StoredIsMeasured, HonestAnswerAccepted
<1>2. ASSUME MeasurementInductive, WriteReport, Fail PROVE MeasurementInductive'
  <2>1. ASSUME AnsweredOnce(measured.samples) PROVE TotalsAgree(measured)
    <3>1. /\ file \in Files /\ measured.samples \in Seq(Evidence) /\ Consistent(measured)
          /\ Readable /\ Target
      BY <1>2 DEF WriteReport, MeasurementInductive, MeasurementTypeOK, OnlyTargetsReport,
                  TargetIsReadable, MeasuredIsConsistent
    <3>2. Evaluable # {} /\ \A i, j \in Lines : file[i].id = file[j].id => i = j
      BY <3>1 DEF Readable
    <3>3. QED
      BY <2>1, <3>1, <3>2, AnsweredOnceCovers, TotalsOfOncePerRow
  <2>2. Repeats(measured.samples) \/ ~Covers(measured.samples) \/ ~TotalsAgree(measured)
    BY <1>2 DEF WriteReport, Fail
  <2>3. QED
    BY <1>2, <2>1, <2>2, AnsweredOnceCovers, EndingKeeps DEF WriteReport
<1>3. QED
  BY <1>1, <1>2

LEMMA StoreKeeps == MeasurementInductive /\ Store => MeasurementInductive'
<1> SUFFICES ASSUME MeasurementInductive, Store PROVE MeasurementInductive'
  OBVIOUS
<1>1. /\ step = "store" /\ step' = "succeeded" /\ stored' = measured
      /\ UNCHANGED <<file, kind, engine, rewritten, measured, report>>
  BY DEF Store
<1>2. Target' = Target /\ Readable' = Readable
  BY <1>1, SnapshotStays
<1>3. Consistent(measured)'
  BY <1>1 DEF MeasurementInductive, MeasuredIsConsistent, Consistent, SameScore, Score, Passes
<1>4. AlignedInPlace'
  BY <1>1, SnapshotStays DEF MeasurementInductive, AlignedInPlace
<1>5. ReportIsOfMeasured'
  <2>1. Repeats(measured.samples)' = Repeats(measured.samples)
    BY <1>1 DEF Repeats
  <2>2. QED
    BY <1>1, <2>1, SnapshotStays DEF MeasurementInductive, ReportIsOfMeasured
<1>6. QED
  BY <1>1, <1>2, <1>3, <1>4, <1>5
     DEF MeasurementInductive, MeasurementTypeOK, TargetIsReadable, NotYetMeasured,
         OnlyTargetsReport,
         MeasuredIsConsistent, StoredIsMeasured, HonestAnswerAccepted

LEMMA MeasurementStutterKeeps ==
  MeasurementInductive /\ UNCHANGED measurementVars => MeasurementInductive'
<1> SUFFICES ASSUME MeasurementInductive, UNCHANGED measurementVars PROVE MeasurementInductive'
  OBVIOUS
<1>1. UNCHANGED <<file, kind, engine, rewritten, step, measured, report, stored>>
  BY DEF measurementVars
<1>2. Consistent(measured)' = Consistent(measured) /\ Repeats(measured.samples)' = Repeats(measured.samples)
  BY <1>1 DEF Consistent, SameScore, Score, Passes, Repeats
<1>3. AnsweredOnce(measured.samples)' = AnsweredOnce(measured.samples)
  BY <1>1, SnapshotStays DEF AnsweredOnce
<1>4. QED
  BY <1>1, <1>2, <1>3, SnapshotStays
     DEF MeasurementInductive, MeasurementTypeOK, TargetIsReadable, NotYetMeasured,
         OnlyTargetsReport,
         MeasuredIsConsistent, AlignedInPlace, ReportIsOfMeasured, StoredIsMeasured,
         HonestAnswerAccepted

-----------------------------------------------------------------------------
(* SampleMeasurement: the theorems.                                        *)

(* Whatever a plugin answers, every step finds what it relies on: an       *)
(* accepted measurement follows from its samples, and past alignment and   *)
(* report they are the rows of the snapshot.                               *)
THEOREM MeasurementInvariant == MeasurementSpec => []MeasurementInductive
<1>1. MeasurementInductive /\ [MeasurementNext]_measurementVars => MeasurementInductive'
  BY ReadKeeps, AskPluginKeeps, AskJudgeKeeps, AlignKeeps, WriteReportKeeps, StoreKeeps,
     MeasurementStutterKeeps DEF MeasurementNext
<1>2. QED
  BY <1>1, MeasurementInitInductive, PTL DEF MeasurementSpec

(* The score of a run that succeeded is the pass rate of the samples       *)
(* stored with it, of which there is at least one.                         *)
THEOREM GateFollowsFromSamples == MeasurementSpec => []ScoreHasEvidence
<1>1. ASSUME MeasurementInductive, step = "succeeded"
      PROVE  /\ Len(stored.samples) > 0 /\ stored.records = Len(stored.samples)
             /\ stored.passed = Cardinality(Passes(stored.samples))
             /\ SameScore(stored.score, Score(stored.samples))
  <2>1. stored \in Measurement /\ Consistent(stored)
    BY <1>1 DEF MeasurementInductive, MeasurementTypeOK, Measurement, MeasuredIsConsistent,
                StoredIsMeasured
  <2>2. stored.samples \in Seq(Evidence)
    BY <2>1 DEF Measurement
  <2>3. QED
    BY <2>1, <2>2 DEF Consistent
<1>2. MeasurementInductive => ScoreHasEvidence
  BY <1>1 DEF ScoreHasEvidence
<1>3. QED
  BY <1>2, MeasurementInvariant, PTL

(* The rows up to line i, in the words of the preview.                     *)
LEMMA PositionCountsRows ==
  ASSUME file \in Files, NEW i \in Lines
  PROVE  Position(i) = Cardinality({j \in 1..i : file[j] # Blank})
<1>1. PICK n \in 0..MaxLines : file \in [1..n -> Row \cup {Blank}]
  BY DEF Files
<1>2. i \in 1..n /\ n \in Nat /\ DOMAIN file = 1..n
  BY <1>1, SizesAssumption DEF Lines
<1>3. {j \in Lines : j <= i} = {j \in 1..i : file[j] # Blank}
  BY <1>2 DEF Lines
<1>4. QED
  BY <1>3 DEF Position, Rank

(* The samples of a target-bound run are the rows with both values, each   *)
(* once and at the index the preview shows for it.                         *)
THEOREM SamplesAreTheRows == MeasurementSpec => []EvidenceInPlace
<1>1. ASSUME MeasurementInductive, step = "succeeded", Target
      PROVE  /\ stored = measured /\ file \in Files /\ stored.samples \in Seq(Evidence)
             /\ \A i, j \in Lines : file[i].id = file[j].id => i = j
             /\ \A k \in DOMAIN stored.samples : InPlace(stored.samples[k])
             /\ ~Repeats(stored.samples) /\ Covers(stored.samples)
  BY <1>1 DEF MeasurementInductive, MeasurementTypeOK, StoredIsMeasured, TargetIsReadable,
              Readable, AlignedInPlace, ReportIsOfMeasured
<1>2. ASSUME MeasurementInductive, step = "succeeded", Target,
             NEW k \in DOMAIN stored.samples
      PROVE  \E i \in Evaluable :
               /\ stored.samples[k].id = file[i].id
               /\ stored.samples[k].index = Cardinality({j \in 1..i : file[j] # Blank})
  <2>1. PICK i \in Evaluable : stored.samples[k].id = file[i].id
    BY <1>1, <1>2 DEF Covers
  <2>2. PICK j \in Lines :
          stored.samples[k].id = file[j].id /\ stored.samples[k].index = Position(j)
    BY <1>1, <1>2 DEF InPlace
  <2>3. i = j
    BY <1>1, <1>2, <2>1, <2>2 DEF Evaluable
  <2>4. QED
    BY <1>1, <1>2, <2>1, <2>2, <2>3, PositionCountsRows
<1>3. ASSUME MeasurementInductive, step = "succeeded", Target, NEW i \in Evaluable
      PROVE  Cardinality({k \in DOMAIN stored.samples : stored.samples[k].id = file[i].id}) = 1
  <2>1. PICK k \in DOMAIN stored.samples : stored.samples[k].id = file[i].id
    BY <1>1, <1>3 DEF Covers
  <2>2. {l \in DOMAIN stored.samples : stored.samples[l].id = file[i].id} = {k}
    BY <1>1, <1>3, <2>1 DEF Repeats
  <2>3. QED
    BY <2>2, FS_Singleton
<1>4. MeasurementInductive => EvidenceInPlace
  BY <1>2, <1>3 DEF EvidenceInPlace
<1>5. QED
  BY <1>4, MeasurementInvariant, PTL

(* A plugin that answers each row it was sent once does not fail the run,  *)
(* whatever its order and its indexes: the alignment finds each row, and   *)
(* the totals of a consistent answer are those of the report.              *)
THEOREM HonestAnswersPass == MeasurementSpec => []HonestAnswerAccepted
<1>1. MeasurementInductive => HonestAnswerAccepted
  BY DEF MeasurementInductive
<1>2. QED
  BY <1>1, MeasurementInvariant, PTL

(* The report accounts for every row, skips with a reason, and its metric  *)
(* counts exactly the rows it shows as matched.                            *)
THEOREM ReportIsComplete == MeasurementSpec => []ReportAccountsForRows
<1> DEFINE matches == {i \in Lines : report.entries[i].match}
<1>1. ASSUME MeasurementInductive, step = "succeeded", Target
      PROVE  /\ stored = measured /\ file \in Files /\ stored.samples \in Seq(Evidence)
             /\ \A i, j \in Lines : file[i].id = file[j].id => i = j
             /\ Covers(stored.samples) /\ TotalsAgree(stored) /\ Consistent(stored)
             /\ report = ReportOf(stored.samples)
  BY <1>1 DEF MeasurementInductive, MeasurementTypeOK, StoredIsMeasured, TargetIsReadable,
              Readable, ReportIsOfMeasured, MeasuredIsConsistent
<1>2. ASSUME MeasurementInductive, step = "succeeded", Target, NEW i \in Lines
      PROVE  /\ report.entries[i].status = (IF i \in Evaluable THEN "EVALUATED" ELSE "SKIPPED")
             /\ report.entries[i].code = Missing(i)
             /\ report.entries[i].match <=>
                  i \in Evaluable /\ file[i].id \in Matched(stored.samples)
  <2>1. report.entries[i] = Entry(i, stored.samples)
    BY <1>1, <1>2 DEF ReportOf
  <2>2. Entry(i, stored.samples).status = (IF i \in Evaluable THEN "EVALUATED" ELSE "SKIPPED")
    BY DEF Entry
  <2>3. Entry(i, stored.samples).code = Missing(i)
    BY DEF Entry
  <2>4. Entry(i, stored.samples).match = (i \in Evaluable /\ file[i].id \in Matched(stored.samples))
    BY DEF Entry
  <2>5. QED
    BY <2>1, <2>2, <2>3, <2>4
<1>3. ASSUME MeasurementInductive, step = "succeeded", Target
      PROVE  /\ report.total = report.evaluated + report.skipped
             /\ report.evaluated = Len(stored.samples)
             /\ SameScore(stored.score, [num |-> report.matched, den |-> report.evaluated])
  <2>1. /\ report.total = Cardinality(Lines) /\ report.evaluated = Cardinality(Evaluable)
        /\ report.skipped = Cardinality(Lines \ Evaluable)
        /\ report.matched = Cardinality(Matched(stored.samples))
    BY <1>1, <1>3 DEF ReportOf
  <2>2. Cardinality(Lines \ Evaluable) = Cardinality(Lines) - Cardinality(Evaluable)
    <3>1. Lines \cap Evaluable = Evaluable
      BY DEF Evaluable
    <3>2. QED
      BY <1>1, <1>3, <3>1, LinesAreFinite, FS_Difference
  <2>3. Cardinality(Lines) \in Nat /\ Cardinality(Evaluable) \in Nat
    BY <1>1, <1>3, LinesAreFinite, SizesAssumption
  <2>4. Len(stored.samples) = Cardinality(Evaluable)
    BY <1>1, <1>3 DEF TotalsAgree, Consistent
  <2>5. QED
    BY <1>1, <1>3, <2>1, <2>2, <2>3, <2>4 DEF TotalsAgree
<1>4. ASSUME MeasurementInductive, step = "succeeded", Target
      PROVE  /\ matches = {i \in Lines : \E k \in Passes(stored.samples) :
                                           stored.samples[k].id = file[i].id}
             /\ report.matched = Cardinality(matches)
  <2>1. \A i \in Lines : report.entries[i].match <=>
          i \in Evaluable /\ file[i].id \in Matched(stored.samples)
    BY <1>2, <1>4
  <2>2. ASSUME NEW i \in Lines, file[i].id \in Matched(stored.samples) PROVE i \in Evaluable
    <3>1. PICK k \in DOMAIN stored.samples : file[i].id = stored.samples[k].id
      BY <2>2 DEF Matched, Passes
    <3>2. PICK j \in Evaluable : stored.samples[k].id = file[j].id
      BY <1>1, <1>4, <3>1 DEF Covers
    <3>3. QED
      BY <1>1, <1>4, <3>1, <3>2 DEF Evaluable
  <2>3. matches = {i \in Lines : file[i].id \in Matched(stored.samples)}
    BY <2>1, <2>2
  <2>4. {file[i].id : i \in matches} = Matched(stored.samples)
    <3>1. ASSUME NEW k \in Passes(stored.samples)
          PROVE  \E i \in Lines : file[i].id = stored.samples[k].id
      BY <1>1, <1>4, <3>1 DEF Covers, Passes, Evaluable
    <3>2. QED
      BY <2>3, <3>1 DEF Matched
  <2>5. Cardinality({file[i].id : i \in matches}) = Cardinality(matches)
    <3>1. matches \in SUBSET Lines
      OBVIOUS
    <3> HIDE DEF matches
    <3>2. QED
      BY <1>1, <1>4, <3>1, RowsAreTheirIds
  <2>6. report.matched = Cardinality(Matched(stored.samples))
    BY <1>1, <1>4 DEF ReportOf
  <2>7. matches = {i \in Lines : \E k \in Passes(stored.samples) :
                                   stored.samples[k].id = file[i].id}
    BY <2>3 DEF Matched
  <2> HIDE DEF matches
  <2>8. QED
    BY <2>4, <2>5, <2>6, <2>7
<1>5. ASSUME MeasurementInductive, step = "succeeded", Target, NEW i \in Lines
      PROVE  /\ report.entries[i].status =
                  IF file[i].reference /\ file[i].actual THEN "EVALUATED" ELSE "SKIPPED"
             /\ report.entries[i].code = "none" <=> i \in Evaluable
  <2>1. i \in Evaluable <=> file[i].reference /\ file[i].actual
    BY <1>1, <1>5, LinesAreFinite DEF Evaluable, Missing, Row
  <2>2. Missing(i) = "none" <=> i \in Evaluable
    BY DEF Evaluable
  <2>3. QED
    BY <1>2, <1>5, <2>1, <2>2
<1>6. MeasurementInductive => ReportAccountsForRows
  BY <1>3, <1>4, <1>5 DEF ReportAccountsForRows
<1>7. QED
  BY <1>6, MeasurementInvariant, PTL

-----------------------------------------------------------------------------
(* RowWindow: windows.                                                     *)

(* A row has fewer rows before it than there are.                          *)
LEMMA BeforeIsLess ==
  ASSUME NEW rows, IsFiniteSet(rows), \A r \in rows : r.id \in Nat, NEW r \in rows
  PROVE  /\ Before(rows, r) \in Nat /\ Cardinality(rows) \in Nat
         /\ Before(rows, r) < Cardinality(rows)
<1> DEFINE earlier == {s \in rows : s.id < r.id}
<1>1. earlier \in SUBSET rows /\ r \notin earlier
  OBVIOUS
<1>2. Before(rows, r) = Cardinality(earlier)
  BY DEF Before
<1> HIDE DEF earlier
<1>3. IsFiniteSet(earlier) /\ Cardinality(earlier) <= Cardinality(rows)
      /\ Cardinality(earlier) # Cardinality(rows)
  BY <1>1, FS_Subset
<1>4. QED
  BY <1>2, <1>3, FS_CardinalityType

(* New rows move a row away from the first, never towards it.              *)
LEMMA BeforeGrows ==
  ASSUME NEW rows, NEW more, IsFiniteSet(more), rows \subseteq more, NEW r
  PROVE  /\ Before(rows, r) \in Nat /\ Before(more, r) \in Nat
         /\ Before(rows, r) <= Before(more, r)
<1> DEFINE earlier(set) == {s \in set : s.id < r.id}
<1>1. earlier(rows) \in SUBSET earlier(more) /\ earlier(more) \in SUBSET more
  OBVIOUS
<1>2. Before(rows, r) = Cardinality(earlier(rows)) /\ Before(more, r) = Cardinality(earlier(more))
  BY DEF Before
<1> HIDE DEF earlier
<1>3. IsFiniteSet(earlier(more))
  BY <1>1, FS_Subset
<1>4. IsFiniteSet(earlier(rows)) /\ Cardinality(earlier(rows)) <= Cardinality(earlier(more))
  BY <1>1, <1>3, FS_Subset
<1>5. QED
  BY <1>2, <1>3, <1>4, FS_CardinalityType

(* A first window that the rows fit into shows them all.                   *)
LEMMA WindowShowsAll ==
  ASSUME NEW rows, IsFiniteSet(rows), \A r \in rows : r.id \in Nat, NEW limit \in Nat,
         Cardinality(rows) <= limit
  PROVE  Window(rows, limit, 0) = rows
<1>1. ASSUME NEW r \in rows PROVE 0 <= Before(rows, r) /\ Before(rows, r) < 0 + limit
  BY BeforeIsLess
<1>2. QED
  BY <1>1 DEF Window

(* What the lists show is there, and all of it while it fits.              *)
LEMMA ListsShowRows ==
  ASSUME TypeOK, RowsIdentified, NEW run
  PROVE  /\ ListAnnotations(run) \subseteq {a \in annotation : a.run = run}
         /\ AnnotationsFit => ListAnnotations(run) = {a \in annotation : a.run = run}
         /\ \A i : GetSample(run, i) => \E s \in sample : s.run = run /\ s.index = i
         /\ SamplesFit => \A s \in sample : s.run = run => GetSample(run, s.index)
<1>1. /\ \A s \in sample : s.id \in Nat
      /\ \A a \in annotation : a.id \in Nat
  BY IdAssumption DEF TypeOK, Sample, Annotation
<1>2. SampleWindow \in Nat /\ AnnotationWindow \in Nat
  BY BoundAssumption
<1>3. AnnotationsFit => Window(annotation, AnnotationWindow, 0) = annotation
  BY <1>1, <1>2, WindowShowsAll DEF RowsIdentified, AnnotationsFit
<1>4. SamplesFit => Window(sample, SampleWindow, 0) = sample
  BY <1>1, <1>2, WindowShowsAll DEF RowsIdentified, SamplesFit
<1>5. /\ Window(annotation, AnnotationWindow, 0) \subseteq annotation
      /\ Window(sample, SampleWindow, 0) \subseteq sample
  BY DEF Window
<1>6. QED
  BY <1>3, <1>4, <1>5 DEF ListAnnotations, GetSample, ListSamples

(* A command that is not refused selects rows that are there.              *)
LEMMA AcceptedResolves ==
  ASSUME TypeOK, RowsIdentified, NEW body \in Command, ~Refused(body)
  PROVE  Resolves(body)
<1>1. \A i \in body.indexes : GetSample(body.run, i)
  BY DEF Refused
<1>2. \A id \in body.annotations :
        \E a \in ListAnnotations(body.run) : a.id = id /\ a.index \in body.indexes
  BY DEF Refused
<1>3. QED
  BY <1>1, <1>2, ListsShowRows DEF Resolves

(* While the rows fit a command whose selection is there is not refused.   *)
LEMMA ResolvedIsAccepted ==
  ASSUME TypeOK, RowsIdentified, NEW body \in Command, Resolves(body),
         SamplesFit, AnnotationsFit
  PROVE  ~Refused(body)
<1>1. \A i \in body.indexes : GetSample(body.run, i)
  BY ListsShowRows DEF Resolves
<1>2. \A id \in body.annotations :
        \E a \in ListAnnotations(body.run) : a.id = id /\ a.index \in body.indexes
  BY ListsShowRows DEF Resolves
<1>3. QED
  BY <1>1, <1>2 DEF Refused

(* The annotation put beside a sample is one of those chosen for it.       *)
LEMMA ChosenIds ==
  ASSUME TypeOK, RowsIdentified, NEW body, NEW i
  PROVE  LET ids == {a.id : a \in Chosen(body, i)}
         IN  /\ ids \subseteq AnnotationIds
             /\ ids # {} => Max(ids) \in ids
<1> DEFINE chosen == Chosen(body, i)
           f == [a \in chosen |-> a.id]
           ids == {a.id : a \in chosen}
<1>1. chosen \in SUBSET annotation
  BY ListsShowRows DEF Chosen
<1>2. ids \subseteq AnnotationIds /\ ids \in SUBSET Nat
  <2>1. \A a \in annotation : a.id \in AnnotationIds
    BY DEF TypeOK, Annotation
  <2> HIDE DEF chosen
  <2>2. QED
    BY <1>1, <2>1, IdAssumption
<1>3. ids = {f[a] : a \in chosen}
  OBVIOUS
<1> HIDE DEF chosen, f, ids
<1>4. IsFiniteSet(chosen)
  BY <1>1, FS_Subset DEF RowsIdentified
<1>5. IsFiniteSet(ids)
  BY <1>3, <1>4, ImageIsFinite
<1>6. ids # {} => Max(ids) \in ids
  BY <1>2, <1>5, MaxIsGreatest
<1>7. QED
  BY <1>2, <1>6 DEF ids, chosen

-----------------------------------------------------------------------------
(* RowWindow: the tables only grow.                                        *)

(* Samples stay, and so do annotations up to the version of one.           *)
TablesGrow ==
  /\ sample \subseteq sample'
  /\ \A a \in annotation : \E b \in annotation' : b.id = a.id /\ b.run = a.run /\ b.index = a.index
  /\ RowsIdentified'
  /\ Cardinality(annotation) \in Nat /\ Cardinality(annotation') \in Nat
  /\ Cardinality(annotation) <= Cardinality(annotation')
  /\ Cardinality(sample) \in Nat /\ Cardinality(sample') \in Nat
  /\ Cardinality(sample) <= Cardinality(sample')

LEMMA SameTablesGrow ==
  ASSUME RowsIdentified, UNCHANGED <<sample, annotation>>
  PROVE  TablesGrow
BY FS_CardinalityType DEF TablesGrow, RowsIdentified

(* What held of a growing table's rows still does.                         *)
LEMMA GrowthKeeps ==
  ASSUME Inductive, TablesGrow
  PROVE  /\ SamplesFit' => SamplesFit
         /\ AnnotationsFit' => AnnotationsFit
         /\ \A body : Resolves(body) => Resolves(body)'
<1>1. (SamplesFit' => SamplesFit) /\ (AnnotationsFit' => AnnotationsFit)
  BY BoundAssumption DEF TablesGrow, SamplesFit, AnnotationsFit
<1>2. \A body : Resolves(body) => Resolves(body)'
  BY DEF TablesGrow, Resolves
<1>3. QED
  BY <1>1, <1>2

(* ... also of what was exported.                                          *)
LEMMA GrowthKeepsExports ==
  ASSUME Inductive, TablesGrow, feedbackSet' = feedbackSet, ledger' = ledger
  PROVE  SelectionsResolve' /\ ExportIsSelected' /\ ExportIsCompleteWhileTheyFit'
<1>1. SelectionsResolve'
  BY GrowthKeeps DEF Inductive, SelectionsResolve
<1>2. ExportIsSelected'
  <2> SUFFICES ASSUME NEW f \in feedbackSet, f.export # None, NEW c \in f.export
               PROVE  /\ c.index \in f.body.indexes
                      /\ \E s \in sample' : s.run = f.body.run /\ s.index = c.index
                      /\ c.annotation # None =>
                           /\ f.body.annotations # {} => c.annotation \in f.body.annotations
                           /\ \E a \in annotation' : /\ a.id = c.annotation
                                                     /\ a.run = f.body.run /\ a.index = c.index
    BY DEF ExportIsSelected
  <2>1. QED
    BY DEF Inductive, ExportIsSelected, TablesGrow
<1>3. ExportIsCompleteWhileTheyFit'
  <2> SUFFICES ASSUME SamplesFit', AnnotationsFit', NEW f \in feedbackSet, f.export # None
               PROVE  /\ \A i \in f.body.indexes : \E c \in f.export : c.index = i
                      /\ \A c \in f.export :
                           (\E a \in annotation' : a.index = c.index /\ a.id \in f.body.annotations)
                             => c.annotation # None
    BY DEF ExportIsCompleteWhileTheyFit, ExportIsComplete
  <2>1. /\ \A i \in f.body.indexes : \E c \in f.export : c.index = i
        /\ \A c \in f.export :
             (\E a \in annotation : a.index = c.index /\ a.id \in f.body.annotations)
               => c.annotation # None
    BY GrowthKeeps DEF Inductive, ExportIsCompleteWhileTheyFit, ExportIsComplete
  <2>2. ASSUME NEW a \in annotation', a.id \in f.body.annotations
        PROVE  \E b \in annotation : b.index = a.index /\ b.id \in f.body.annotations
    <3>1. PICK b \in annotation : b.id = a.id
      BY <2>2 DEF Inductive, SelectionsResolve, Resolves
    <3>2. PICK d \in annotation' : d.id = b.id /\ d.index = b.index
      BY DEF TablesGrow
    <3>3. d = a
      BY <3>1, <3>2 DEF TablesGrow, RowsIdentified
    <3>4. QED
      BY <2>2, <3>1, <3>2, <3>3
  <2>3. QED
    BY <2>1, <2>2
<1>4. QED
  BY <1>1, <1>2, <1>3

(* What a client has seen stays all that lies before its offset.           *)
LEMMA GrowthKeepsSeen ==
  ASSUME Inductive, TablesGrow, pager' = pager,
         \A s \in sample' \ sample : \A t \in sample : s.id # t.id
  PROVE  SeenSoFar'
<1> SUFFICES ASSUME NEW p \in Pagers, pager[p] # None
             PROVE  /\ pager[p].due \subseteq {s.id : s \in {r \in sample' : r.run = pager[p].run}}
                    /\ \A s \in sample' :
                         s.id \in pager[p].due /\ Before(sample', s) < pager[p].offset
                           => s.id \in pager[p].seen
  BY DEF SeenSoFar, Before
<1>1. pager[p].due \subseteq {s.id : s \in {r \in sample : r.run = pager[p].run}}
  BY DEF Inductive, SeenSoFar
<1>2. ASSUME NEW s \in sample', s.id \in pager[p].due, Before(sample', s) < pager[p].offset
      PROVE  s.id \in pager[p].seen
  <2>1. s \in sample
    BY <1>1, <1>2
  <2>2. /\ Before(sample, s) \in Nat /\ Before(sample', s) \in Nat
        /\ Before(sample, s) <= Before(sample', s)
    BY BeforeGrows DEF TablesGrow, RowsIdentified
  <2>3. pager[p].offset \in Nat
    BY DEF Inductive, TypeOK, Paging
  <2>4. QED
    BY <1>2, <2>1, <2>2, <2>3 DEF Inductive, SeenSoFar
<1>3. QED
  BY <1>1, <1>2 DEF TablesGrow

-----------------------------------------------------------------------------
(* RowWindow: the handlers.                                                *)

LEMMA InitInductive == Init => Inductive
<1> SUFFICES ASSUME Init PROVE Inductive
  OBVIOUS
<1>1. /\ sample = {} /\ annotation = {} /\ feedbackSet = {} /\ ledger = {}
      /\ edit = [t \in Annotators |-> None] /\ overlapped = {}
      /\ pager = [p \in Pagers |-> None]
  BY DEF Init
<1>2. TypeOK
  BY <1>1 DEF TypeOK
<1>3. RowsIdentified /\ SelectionsResolve /\ ExportIsSelected
  BY <1>1, FS_EmptySet DEF RowsIdentified, SelectionsResolve, ExportIsSelected
<1>4. SeenSoFar /\ EditsHold
  BY <1>1 DEF SeenSoFar, EditsHold
<1>5. OneAnnotationWhileTheyFit /\ ExportIsCompleteWhileTheyFit
  BY <1>1 DEF OneAnnotationWhileTheyFit, OneAnnotationPerReviewer, ExportIsCompleteWhileTheyFit,
              ExportIsComplete
<1>6. QED
  BY <1>2, <1>3, <1>4, <1>5 DEF Inductive

(* The samples of one more run.                                            *)
LEMMA PersistSamplesGrows ==
  ASSUME Inductive, NEW run \in Runs, PersistSamples(run)
  PROVE  /\ TablesGrow /\ sample' \subseteq Sample
         /\ \A s \in sample' \ sample : \A t \in sample : s.id # t.id
<1>1. PICK id \in [Indexes -> SampleIds \ {s.id : s \in sample}] :
        /\ \A i, j \in Indexes : id[i] = id[j] => i = j
        /\ sample' = sample \cup {[id |-> id[i], run |-> run, index |-> i] : i \in Indexes}
  BY DEF PersistSamples
<1> DEFINE f == [i \in Indexes |-> [id |-> id[i], run |-> run, index |-> i]]
           new == {f[i] : i \in Indexes}
<1>2. sample' = sample \cup new
  BY <1>1
<1>3. \A s \in new : \E i \in Indexes : s = [id |-> id[i], run |-> run, index |-> i]
  OBVIOUS
<1>4. IsFiniteSet(new)
  <2>1. IsFiniteSet(Indexes)
    BY BoundAssumption, FS_Interval DEF Indexes
  <2> HIDE DEF f
  <2>2. QED
    BY <2>1, ImageIsFinite
<1> HIDE DEF new, f
<1>5. IsFiniteSet(sample') /\ Cardinality(sample') \in Nat
      /\ Cardinality(sample) \in Nat /\ Cardinality(sample) <= Cardinality(sample')
  <2>1. IsFiniteSet(sample')
    BY <1>2, <1>4, FS_Union DEF Inductive, RowsIdentified
  <2>2. sample \in SUBSET sample' /\ IsFiniteSet(sample)
    BY <1>2 DEF Inductive, RowsIdentified
  <2>3. QED
    BY <2>1, <2>2, FS_Subset, FS_CardinalityType
<1>6. \A s \in new : /\ s \in Sample /\ \A t \in sample : s.id # t.id
  BY <1>1, <1>3 DEF Sample
<1>7. \A s, t \in new : s.id = t.id => s = t
  BY <1>1, <1>3
<1>8. \A s, t \in sample' : s.id = t.id => s = t
  <2>1. \A s, t \in sample : s.id = t.id => s = t
    BY DEF Inductive, RowsIdentified
  <2>2. QED
    BY <1>2, <1>6, <1>7, <2>1
<1>9. /\ annotation' = annotation /\ IsFiniteSet(annotation)
      /\ \A a, b \in annotation : a.id = b.id => a = b
  BY DEF PersistSamples, Inductive, RowsIdentified
<1>10. RowsIdentified'
  BY <1>5, <1>8, <1>9 DEF RowsIdentified
<1>11. TablesGrow
  BY <1>2, <1>5, <1>9, <1>10, FS_CardinalityType DEF TablesGrow
<1>12. sample' \subseteq Sample
  BY <1>2, <1>6 DEF Inductive, TypeOK
<1>13. QED
  BY <1>2, <1>6, <1>11, <1>12

(* What is said of annotations and of edits of them alone.                 *)
LEMMA SameAnnotations ==
  ASSUME UNCHANGED <<annotation, edit, overlapped>>
  PROVE  /\ OneAnnotationWhileTheyFit' = OneAnnotationWhileTheyFit
         /\ EditsHold' = EditsHold
BY DEF OneAnnotationWhileTheyFit, OneAnnotationPerReviewer, AnnotationsFit, EditsHold, Editing,
       Subject

LEMMA PersistSamplesKeeps ==
  ASSUME Inductive, NEW run \in Runs, PersistSamples(run)
  PROVE  Inductive'
<1>1. /\ TablesGrow /\ sample' \subseteq Sample
      /\ \A s \in sample' \ sample : \A t \in sample : s.id # t.id
      /\ UNCHANGED <<annotation, feedbackSet, ledger, edit, overlapped, pager>>
  BY PersistSamplesGrows DEF PersistSamples
<1>2. TypeOK'
  BY <1>1 DEF Inductive, TypeOK
<1>3. RowsIdentified' /\ SeenSoFar'
  BY <1>1, GrowthKeepsSeen DEF TablesGrow
<1>4. SelectionsResolve' /\ ExportIsSelected' /\ ExportIsCompleteWhileTheyFit'
  BY <1>1, GrowthKeepsExports
<1>5. OneAnnotationWhileTheyFit' /\ EditsHold'
  BY <1>1, SameAnnotations DEF Inductive
<1>6. QED
  BY <1>2, <1>3, <1>4, <1>5 DEF Inductive

(* A step that changes no row and no client keeps what is said of these.   *)
LEMMA TablesStay ==
  ASSUME Inductive, UNCHANGED <<sample, annotation, feedbackSet, ledger, pager>>, TypeOK',
         EditsHold', OneAnnotationWhileTheyFit'
  PROVE  Inductive'
<1>1. TablesGrow
  BY SameTablesGrow DEF Inductive
<1>2. RowsIdentified' /\ SeenSoFar'
  BY <1>1, GrowthKeepsSeen DEF TablesGrow
<1>3. SelectionsResolve' /\ ExportIsSelected' /\ ExportIsCompleteWhileTheyFit'
  BY <1>1, GrowthKeepsExports
<1>4. QED
  BY <1>2, <1>3 DEF Inductive

(* A row for a subject, which has none yet unless calls overlapped.        *)
LEMMA InsertAnnotationKeeps ==
  ASSUME Inductive, NEW subject \in Subjects, NEW version \in 1..MaxVersion,
         NEW id \in AnnotationIds \ {a.id : a \in annotation},
         subject \notin overlapped /\ AnnotationsFit => \A a \in annotation : Subject(a) # subject,
         annotation' = annotation \cup
           {[id |-> id, run |-> subject.run, index |-> subject.index,
             reviewer |-> subject.reviewer, version |-> version]},
         UNCHANGED <<sample, overlapped>>
  PROVE  /\ TablesGrow /\ annotation' \subseteq Annotation /\ OneAnnotationWhileTheyFit'
         /\ \A a \in annotation : \E b \in annotation' : b.id = a.id /\ Subject(b) = Subject(a)
         /\ \A b \in annotation' : Subject(b) = subject \/ b \in annotation
<1> DEFINE new == [id |-> id, run |-> subject.run, index |-> subject.index,
                   reviewer |-> subject.reviewer, version |-> version]
<1>1. /\ annotation' = annotation \cup {new} /\ new \in Annotation /\ new.id = id
      /\ Subject(new) = subject
      /\ \A a \in annotation : a.id # new.id
  BY DEF Annotation, Subjects, Subject
<1> HIDE DEF new
<1>2. /\ IsFiniteSet(annotation) /\ IsFiniteSet(sample) /\ TypeOK /\ RowsIdentified
  BY DEF Inductive, RowsIdentified
<1>3. IsFiniteSet(annotation') /\ Cardinality(annotation') = Cardinality(annotation) + 1
  BY <1>1, <1>2, FS_AddElement
<1>4. RowsIdentified'
  BY <1>1, <1>2, <1>3 DEF RowsIdentified
<1>5. TablesGrow
  BY <1>1, <1>2, <1>3, <1>4, FS_CardinalityType DEF TablesGrow
<1>6. annotation' \subseteq Annotation
  BY <1>1, <1>2 DEF TypeOK
<1>7. OneAnnotationWhileTheyFit'
  <2> SUFFICES ASSUME AnnotationsFit' PROVE OneAnnotationPerReviewer'
    BY DEF OneAnnotationWhileTheyFit
  <2>1. AnnotationsFit /\ OneAnnotationPerReviewer
    BY <1>5, GrowthKeeps DEF Inductive, OneAnnotationWhileTheyFit
  <2>2. subject \notin overlapped => \A a \in annotation : Subject(a) # subject
    BY <2>1
  <2>3. \A a, b \in annotation' :
          Subject(a) = Subject(b) /\ Subject(a) \notin overlapped => a = b
    BY <1>1, <2>1, <2>2 DEF OneAnnotationPerReviewer
  <2>4. QED
    BY <2>3 DEF OneAnnotationPerReviewer, Subject
<1>8. QED
  BY <1>1, <1>5, <1>6, <1>7

(* A row with another version takes the place of one.                      *)
LEMMA ReplaceAnnotationKeeps ==
  ASSUME Inductive, NEW first \in annotation, NEW version \in 1..MaxVersion,
         annotation' = (annotation \ {first}) \cup {[first EXCEPT !.version = version]},
         UNCHANGED <<sample, overlapped>>
  PROVE  /\ TablesGrow /\ annotation' \subseteq Annotation /\ OneAnnotationWhileTheyFit'
         /\ \A a \in annotation : \E b \in annotation' : b.id = a.id /\ Subject(b) = Subject(a)
         /\ \A b \in annotation' : Subject(b) = Subject(first) \/ b \in annotation
<1> DEFINE next == [first EXCEPT !.version = version]
<1>1. first \in Annotation /\ TypeOK /\ RowsIdentified
      /\ IsFiniteSet(annotation) /\ IsFiniteSet(sample)
  BY DEF Inductive, TypeOK, RowsIdentified
<1>2. /\ annotation' = (annotation \ {first}) \cup {next} /\ next \in Annotation
      /\ next.id = first.id /\ next.run = first.run /\ next.index = first.index
      /\ Subject(next) = Subject(first)
  BY <1>1 DEF Annotation, Subject
<1> HIDE DEF next
<1>3. next \notin annotation \ {first}
  BY <1>1, <1>2 DEF RowsIdentified
<1>4. IsFiniteSet(annotation') /\ Cardinality(annotation') = Cardinality(annotation)
  <2>1. /\ IsFiniteSet(annotation \ {first})
        /\ Cardinality(annotation \ {first}) = Cardinality(annotation) - 1
    BY <1>1, FS_RemoveElement
  <2> DEFINE rest == annotation \ {first}
  <2>2. annotation' = rest \cup {next} /\ next \notin rest /\ IsFiniteSet(rest)
    BY <1>2, <1>3, <2>1
  <2> HIDE DEF rest
  <2>3. /\ IsFiniteSet(rest \cup {next})
        /\ Cardinality(rest \cup {next}) = Cardinality(rest) + 1
    <3>1. next \notin rest /\ IsFiniteSet(rest)
      BY <2>2
    <3>2. QED
      BY <3>1, FS_AddElement
  <2>4. IsFiniteSet(annotation') /\ Cardinality(annotation') = Cardinality(rest) + 1
    BY <2>2, <2>3
  <2>5. QED
    BY <1>1, <2>1, <2>4, FS_CardinalityType DEF rest
<1>5. RowsIdentified'
  <2>1. \A a \in annotation : a.id = first.id => a = first
    BY <1>1 DEF RowsIdentified
  <2>2. \A a, b \in annotation' : a.id = b.id => a = b
    <3>1. \A a, b \in annotation : a.id = b.id => a = b
      BY <1>1 DEF RowsIdentified
    <3>2. QED
      BY <1>2, <2>1, <3>1
  <2>3. QED
    BY <1>1, <1>4, <2>2 DEF RowsIdentified
<1>6. \A a \in annotation : \E b \in annotation' :
        b.id = a.id /\ b.run = a.run /\ b.index = a.index /\ Subject(b) = Subject(a)
  BY <1>2
<1>7. TablesGrow
  BY <1>1, <1>4, <1>5, <1>6, FS_CardinalityType DEF TablesGrow
<1>8. annotation' \subseteq Annotation
  BY <1>1, <1>2 DEF TypeOK
<1>9. OneAnnotationWhileTheyFit'
  <2> SUFFICES ASSUME AnnotationsFit' PROVE OneAnnotationPerReviewer'
    BY DEF OneAnnotationWhileTheyFit
  <2>1. OneAnnotationPerReviewer
    BY <1>7, GrowthKeeps DEF Inductive, OneAnnotationWhileTheyFit
  <2>2. \A a, b \in annotation' :
          Subject(a) = Subject(b) /\ Subject(a) \notin overlapped => a = b
    BY <1>2, <2>1 DEF OneAnnotationPerReviewer
  <2>3. QED
    BY <2>2 DEF OneAnnotationPerReviewer, Subject
<1>10. QED
  BY <1>2, <1>6, <1>7, <1>8, <1>9

(* The annotation with the least id of those found is one of them.         *)
LEMMA FirstIsFound ==
  ASSUME TypeOK, RowsIdentified, NEW found \in SUBSET annotation, found # {}
  PROVE  (CHOOSE a \in found : \A b \in found : a.id <= b.id) \in found
<1> DEFINE f == [a \in found |-> a.id]
           ids == {f[a] : a \in found}
<1>1. ids \in SUBSET Nat /\ ids # {}
  <2>1. \A a \in annotation : a.id \in Nat
    BY IdAssumption DEF TypeOK, Annotation
  <2>2. QED
    BY <2>1
<1>2. \A a \in found : f[a] = a.id
  OBVIOUS
<1> HIDE DEF f
<1>3. IsFiniteSet(found)
  BY FS_Subset DEF RowsIdentified
<1>4. IsFiniteSet(ids)
  BY <1>3, ImageIsFinite
<1>5. PICK n \in ids : \A k \in ids : n <= k
  <2> HIDE DEF ids
  <2>1. QED
    BY <1>1, <1>4, LeastExists
<1>6. \E a \in found : \A b \in found : a.id <= b.id
  BY <1>2, <1>5
<1>7. QED
  BY <1>6

(* What a thread knows once it has looked.                                 *)
LEMMA FindKnows ==
  ASSUME Inductive, NEW t \in Annotators, NEW run \in Runs, NEW i \in Indexes,
         NEW reviewer \in Reviewers, Find(t, run, i, reviewer)
  PROVE  \E e \in Edit :
           /\ edit' = [edit EXCEPT ![t] = e]
           /\ e.subject = [run |-> run, index |-> i, reviewer |-> reviewer]
           /\ e.found # None => \E a \in annotation : a.id = e.found /\ Subject(a) = e.subject
           /\ e.found = None /\ AnnotationsFit => \A a \in annotation : Subject(a) # e.subject
<1> DEFINE found   == FindAnnotation(run, i, reviewer)
           first   == CHOOSE a \in found : \A b \in found : a.id <= b.id
           subject == [run |-> run, index |-> i, reviewer |-> reviewer]
<1>1. subject \in Subjects /\ TypeOK /\ RowsIdentified
  BY DEF Subjects, Inductive
<1>2. found \subseteq {a \in annotation : Subject(a) = subject}
  BY <1>1, ListsShowRows DEF FindAnnotation, Subject
<1>3. CASE found = {}
  <2> DEFINE e == [subject |-> subject, found |-> None, version |-> 1]
  <2>1. edit' = [edit EXCEPT ![t] = e] /\ e \in Edit /\ e.subject = subject
    <3>1. 1 \in 1..MaxVersion
      BY BoundAssumption
    <3>2. QED
      BY <1>1, <1>3, <3>1 DEF Find, Edit
  <2>2. AnnotationsFit => \A a \in annotation : Subject(a) # subject
    BY <1>1, <1>3, ListsShowRows DEF FindAnnotation, Subject
  <2>3. QED
    BY <2>1, <2>2
<1>4. CASE found # {}
  <2> DEFINE e == [subject |-> subject, found |-> first.id, version |-> first.version + 1]
  <2>1. edit' = [edit EXCEPT ![t] = e] /\ first.version < MaxVersion
    BY <1>4 DEF Find
  <2>2. first \in annotation /\ Subject(first) = subject
    <3>1. first \in found
      <4> HIDE DEF found
      <4>1. QED
        BY <1>1, <1>2, <1>4, FirstIsFound
    <3>2. QED
      BY <1>2, <3>1
  <2> HIDE DEF first, found, subject
  <2>3. first.id \in AnnotationIds /\ first.version \in 1..MaxVersion /\ MaxVersion \in Nat
    BY <1>1, <2>2, BoundAssumption DEF TypeOK, Annotation
  <2>4. first.version + 1 \in 1..MaxVersion
    BY <2>1, <2>3
  <2>5. e \in Edit /\ e.subject = subject /\ e.found = first.id /\ e.found # None
    BY <1>1, <2>3, <2>4, NoneAssumption DEF Edit
  <2> HIDE DEF e
  <2>6. QED
    BY <2>1, <2>2, <2>5 DEF subject
<1>5. QED
  BY <1>3, <1>4

LEMMA FindKeeps ==
  ASSUME Inductive, NEW t \in Annotators, NEW run \in Runs, NEW i \in Indexes,
         NEW reviewer \in Reviewers, Find(t, run, i, reviewer)
  PROVE  Inductive'
<1>1. PICK e \in Edit :
        /\ edit' = [edit EXCEPT ![t] = e]
        /\ e.subject = [run |-> run, index |-> i, reviewer |-> reviewer]
        /\ e.found # None => \E a \in annotation : a.id = e.found /\ Subject(a) = e.subject
        /\ e.found = None /\ AnnotationsFit => \A a \in annotation : Subject(a) # e.subject
  BY FindKnows
<1>2. /\ edit[t] = None /\ UNCHANGED <<sample, annotation, feedbackSet, ledger, pager>>
      /\ overlapped' = IF Editing(e.subject) = {} THEN overlapped
                       ELSE overlapped \cup {e.subject}
  BY <1>1 DEF Find
<1>3. TypeOK /\ TypeOK'
  BY <1>1, <1>2 DEF Inductive, TypeOK, Edit
<1>4. /\ edit'[t] = e
      /\ \A u \in Annotators : u # t => edit'[u] = edit[u]
  BY <1>1, <1>3 DEF TypeOK
<1>5. EditsHold'
  <2> SUFFICES ASSUME NEW u \in Annotators, edit'[u] # None
               PROVE  /\ edit'[u].found # None =>
                           \E a \in annotation : a.id = edit'[u].found /\ Subject(a) = edit'[u].subject
                      /\ /\ edit'[u].found = None /\ edit'[u].subject \notin overlapped'
                         /\ AnnotationsFit
                         => \A a \in annotation : Subject(a) # edit'[u].subject
                      /\ \/ edit'[u].subject \in overlapped'
                         \/ \A w \in Annotators :
                              edit'[w] # None /\ edit'[w].subject = edit'[u].subject => w = u
    BY <1>2 DEF EditsHold, Editing, Subject, AnnotationsFit
  <2>1. CASE u = t
    <3>1. CASE Editing(e.subject) = {}
      BY <1>1, <1>4, <2>1, <3>1 DEF Editing
    <3>2. CASE Editing(e.subject) # {}
      BY <1>1, <1>2, <1>4, <2>1, <3>2
    <3>3. QED
      BY <3>1, <3>2
  <2>2. CASE u # t
    <3>1. /\ edit'[u] = edit[u] /\ edit[u] # None
          /\ edit[u].found # None =>
               \E a \in annotation : a.id = edit[u].found /\ Subject(a) = edit[u].subject
          /\ edit[u].found = None /\ edit[u].subject \notin overlapped /\ AnnotationsFit =>
               \A a \in annotation : Subject(a) # edit[u].subject
          /\ edit[u].subject \in overlapped \/ Editing(edit[u].subject) = {u}
      BY <1>4, <2>2 DEF Inductive, EditsHold
    <3>2. overlapped \subseteq overlapped'
      BY <1>2
    <3>3. CASE edit[u].subject = e.subject
      <4>1. u \in Editing(e.subject)
        BY <3>1, <3>3 DEF Editing
      <4>2. edit[u].subject \in overlapped'
        BY <1>2, <3>3, <4>1
      <4>3. QED
        BY <3>1, <3>2, <4>2
    <3>4. CASE edit[u].subject # e.subject
      BY <1>4, <3>1, <3>2, <3>4 DEF Editing
    <3>5. QED
      BY <3>3, <3>4
  <2>3. QED
    BY <2>1, <2>2
<1>6. OneAnnotationWhileTheyFit'
  <2>1. overlapped \subseteq overlapped'
    BY <1>2
  <2>2. QED
    BY <1>2, <2>1 DEF Inductive, OneAnnotationWhileTheyFit, OneAnnotationPerReviewer,
                      AnnotationsFit, Subject
<1>7. QED
  BY <1>2, <1>3, <1>5, <1>6, TablesStay

LEMMA SaveAnnotationKeeps ==
  ASSUME Inductive, NEW t \in Annotators, SaveAnnotation(t)
  PROVE  Inductive'
<1> DEFINE e == edit[t]
<1>1. /\ e # None /\ edit' = [edit EXCEPT ![t] = None]
      /\ UNCHANGED <<sample, feedbackSet, ledger, overlapped, pager>>
  BY DEF SaveAnnotation
<1>2. TypeOK /\ RowsIdentified /\ e \in Edit
  BY <1>1 DEF Inductive, TypeOK
<1>3. /\ edit'[t] = None /\ \A u \in Annotators : u # t => edit'[u] = edit[u]
  BY <1>1, <1>2 DEF TypeOK
<1>4. e.subject \in Subjects /\ e.version \in 1..MaxVersion
  BY <1>2 DEF Edit
<1>5. PICK id \in (IF e.found = None THEN AnnotationIds \ {a.id : a \in annotation}
                   ELSE {e.found}) :
        annotation' = {a \in annotation : a.id # id} \cup
          {[id |-> id, run |-> e.subject.run, index |-> e.subject.index,
            reviewer |-> e.subject.reviewer, version |-> e.version]}
  BY DEF SaveAnnotation
<1>6. /\ e.found # None => \E a \in annotation : a.id = e.found /\ Subject(a) = e.subject
      /\ e.found = None /\ e.subject \notin overlapped /\ AnnotationsFit =>
           \A a \in annotation : Subject(a) # e.subject
      /\ e.subject \in overlapped \/ Editing(e.subject) = {t}
  BY <1>1 DEF Inductive, EditsHold
<1> HIDE DEF e
<1>7. /\ TablesGrow /\ annotation' \subseteq Annotation /\ OneAnnotationWhileTheyFit'
      /\ \A a \in annotation : \E b \in annotation' : b.id = a.id /\ Subject(b) = Subject(a)
      /\ \A b \in annotation' : Subject(b) = e.subject \/ b \in annotation
  <2>1. CASE e.found = None
    <3>1. id \in AnnotationIds \ {a.id : a \in annotation}
      BY <1>5, <2>1
    <3>2. {a \in annotation : a.id # id} = annotation
      BY <3>1
    <3>3. QED
      BY <1>1, <1>4, <1>5, <1>6, <2>1, <3>1, <3>2, InsertAnnotationKeeps
  <2>2. CASE e.found # None
    <3>1. PICK first \in annotation : first.id = e.found /\ Subject(first) = e.subject
      BY <1>6, <2>2
    <3>2. id = first.id /\ first \in Annotation
      BY <1>2, <1>5, <2>2, <3>1 DEF TypeOK
    <3>3. {a \in annotation : a.id # id} = annotation \ {first}
      BY <1>2, <3>2 DEF RowsIdentified
    <3>4. [id |-> id, run |-> e.subject.run, index |-> e.subject.index,
           reviewer |-> e.subject.reviewer, version |-> e.version]
            = [first EXCEPT !.version = e.version]
      BY <3>1, <3>2 DEF Annotation, Subject
    <3>5. annotation' = (annotation \ {first}) \cup {[first EXCEPT !.version = e.version]}
      BY <1>5, <3>3, <3>4
    <3>6. QED
      BY <1>1, <1>4, <3>1, <3>5, ReplaceAnnotationKeeps
  <2>3. QED
    BY <2>1, <2>2
<1>8. EditsHold'
  <2> SUFFICES ASSUME NEW u \in Annotators, edit'[u] # None
               PROVE  /\ edit'[u].found # None =>
                           \E a \in annotation' : a.id = edit'[u].found
                                                  /\ Subject(a) = edit'[u].subject
                      /\ /\ edit'[u].found = None /\ edit'[u].subject \notin overlapped
                         /\ AnnotationsFit'
                         => \A a \in annotation' : Subject(a) # edit'[u].subject
                      /\ \/ edit'[u].subject \in overlapped
                         \/ \A w \in Annotators :
                              edit'[w] # None /\ edit'[w].subject = edit'[u].subject => w = u
    BY <1>1 DEF EditsHold, Editing, Subject
  <2>1. u # t /\ edit'[u] = edit[u] /\ edit[u] # None
    BY <1>3
  <2>2. /\ edit[u].found # None =>
             \E a \in annotation : a.id = edit[u].found /\ Subject(a) = edit[u].subject
        /\ edit[u].found = None /\ edit[u].subject \notin overlapped /\ AnnotationsFit =>
             \A a \in annotation : Subject(a) # edit[u].subject
        /\ edit[u].subject \in overlapped \/ Editing(edit[u].subject) = {u}
    BY <2>1 DEF Inductive, EditsHold
  <2>3. AnnotationsFit' => AnnotationsFit
    BY <1>7, GrowthKeeps
  <2>4. edit[u].subject \notin overlapped => edit[u].subject # e.subject
    BY <1>1, <2>1, <2>2 DEF Editing, e
  <2>5. edit[u].found # None =>
          \E a \in annotation' : a.id = edit[u].found /\ Subject(a) = edit[u].subject
    BY <1>7, <2>2
  <2>6. edit[u].found = None /\ edit[u].subject \notin overlapped /\ AnnotationsFit' =>
          \A a \in annotation' : Subject(a) # edit[u].subject
    BY <1>7, <2>2, <2>3, <2>4
  <2>7. \/ edit[u].subject \in overlapped
        \/ \A w \in Annotators :
             edit'[w] # None /\ edit'[w].subject = edit[u].subject => w = u
    BY <1>3, <2>2 DEF Editing
  <2>8. QED
    BY <2>1, <2>5, <2>6, <2>7
<1>9. TypeOK'
  BY <1>1, <1>2, <1>7 DEF TypeOK
<1>10. RowsIdentified' /\ SeenSoFar'
  BY <1>1, <1>7, GrowthKeepsSeen DEF TablesGrow
<1>11. SelectionsResolve' /\ ExportIsSelected' /\ ExportIsCompleteWhileTheyFit'
  BY <1>1, <1>7, GrowthKeepsExports
<1>12. QED
  BY <1>7, <1>8, <1>9, <1>10, <1>11 DEF Inductive

LEMMA AbandonKeeps ==
  ASSUME Inductive, NEW t \in Annotators, Abandon(t)
  PROVE  Inductive'
<1>1. /\ edit' = [edit EXCEPT ![t] = None]
      /\ UNCHANGED <<sample, annotation, feedbackSet, ledger, overlapped, pager>>
  BY DEF Abandon
<1>2. TypeOK'
  BY <1>1 DEF Inductive, TypeOK
<1>3. \A u \in Annotators : edit'[u] # None => u # t /\ edit'[u] = edit[u]
  BY <1>1 DEF Inductive, TypeOK
<1>4. EditsHold'
  <2> SUFFICES ASSUME NEW u \in Annotators, edit'[u] # None
               PROVE  /\ edit'[u].found # None =>
                           \E a \in annotation : a.id = edit'[u].found
                                                 /\ Subject(a) = edit'[u].subject
                      /\ /\ edit'[u].found = None /\ edit'[u].subject \notin overlapped
                         /\ AnnotationsFit
                         => \A a \in annotation : Subject(a) # edit'[u].subject
                      /\ \/ edit'[u].subject \in overlapped
                         \/ \A w \in Annotators :
                              edit'[w] # None /\ edit'[w].subject = edit'[u].subject => w = u
    BY <1>1 DEF EditsHold, Editing, Subject, AnnotationsFit
  <2>1. edit[u] # None /\ edit'[u] = edit[u]
    BY <1>3
  <2>2. QED
    BY <1>3, <2>1 DEF Inductive, EditsHold, Editing
<1>5. OneAnnotationWhileTheyFit'
  BY <1>1 DEF Inductive, OneAnnotationWhileTheyFit, OneAnnotationPerReviewer, AnnotationsFit,
              Subject
<1>6. QED
  BY <1>1, <1>2, <1>4, <1>5, TablesStay

LEMMA CreateSetKeeps ==
  ASSUME Inductive, NEW key \in Keys \cup {None}, NEW body \in Command, CreateSet(key, body)
  PROVE  Inductive'
<1>1. PICK id \in SetIds :
        /\ feedbackSet' = feedbackSet \cup
             {[id |-> id, body |-> body, export |-> None]}
        /\ ledger' = IF key = None THEN ledger
                     ELSE ledger \cup {[key |-> key, body |-> body, id |-> id]}
  BY DEF CreateSet
<1>2. UNCHANGED <<sample, annotation, edit, overlapped, pager>> /\ ~Refused(body)
  BY DEF CreateSet
<1> DEFINE new == [id |-> id, body |-> body, export |-> None]
           receipt == [key |-> key, body |-> body, id |-> id]
<1>3. /\ feedbackSet' = feedbackSet \cup {new} /\ new \in FeedbackSet /\ new.export = None
      /\ new.body = body
      /\ receipt.body = body
      /\ \/ ledger' = ledger
         \/ /\ ledger' = ledger \cup {receipt}
            /\ receipt \in [key : Keys, body : Command, id : SetIds]
  BY <1>1 DEF FeedbackSet
<1> HIDE DEF new, receipt
<1>4. TypeOK'
  BY <1>2, <1>3 DEF Inductive, TypeOK
<1>5. \A b : Resolves(b)' = Resolves(b)
  BY <1>2 DEF Resolves
<1>6. Resolves(body)
  BY <1>2, AcceptedResolves DEF Inductive
<1>7. SelectionsResolve'
  BY <1>3, <1>5, <1>6 DEF Inductive, SelectionsResolve
<1>8. RowsIdentified' /\ SeenSoFar' /\ OneAnnotationWhileTheyFit' /\ EditsHold'
  BY <1>2, SameAnnotations DEF Inductive, RowsIdentified, SeenSoFar, Before
<1>9. ExportIsSelected'
  BY <1>2, <1>3 DEF Inductive, ExportIsSelected
<1>10. ExportIsCompleteWhileTheyFit'
  BY <1>2, <1>3 DEF Inductive, ExportIsCompleteWhileTheyFit, ExportIsComplete, SamplesFit,
                    AnnotationsFit
<1>11. QED
  BY <1>4, <1>7, <1>8, <1>9, <1>10 DEF Inductive

(* The candidates of an export: samples that were selected, beside one of  *)
(* the annotations chosen for them.                                        *)
LEMMA ExportKeeps ==
  ASSUME Inductive, NEW f \in feedbackSet, Export(f)
  PROVE  Inductive'
<1> DEFINE body == f.body
           idsOf(i) == {a.id : a \in Chosen(body, i)}
           Beside(i) == IF idsOf(i) = {} THEN None ELSE Max(idsOf(i))
           shown == {j \in body.indexes : GetSample(body.run, j)}
           rows == {[index |-> i, annotation |-> Beside(i)] : i \in shown}
           new == [f EXCEPT !.export = rows]
<1>1. /\ feedbackSet' = (feedbackSet \ {f}) \cup {new}
      /\ UNCHANGED <<sample, annotation, ledger, edit, overlapped, pager>>
  BY DEF Export
<1>2. TypeOK /\ RowsIdentified /\ f \in FeedbackSet /\ body \in Command /\ Resolves(body)
  BY DEF Inductive, TypeOK, SelectionsResolve, FeedbackSet
<1>3. ASSUME NEW i
      PROVE  /\ Beside(i) \in AnnotationIds \cup {None}
             /\ Beside(i) # None => Beside(i) \in idsOf(i)
             /\ idsOf(i) # {} => Beside(i) # None
  <2>1. idsOf(i) \subseteq AnnotationIds /\ (idsOf(i) # {} => Max(idsOf(i)) \in idsOf(i))
    BY <1>2, ChosenIds
  <2> HIDE DEF idsOf
  <2>2. QED
    BY <2>1, NoneAssumption
<1>4. ASSUME NEW c \in rows
      PROVE  /\ c.index \in shown /\ c.annotation = Beside(c.index) /\ c \in Candidate
  <2>1. PICK i \in shown : c = [index |-> i, annotation |-> Beside(i)]
    OBVIOUS
  <2>2. i \in Indexes
    BY <1>2 DEF Command
  <2> HIDE DEF rows, Beside, shown
  <2>3. QED
    BY <1>3, <2>1, <2>2 DEF Candidate
<1>5. ASSUME NEW i \in shown PROVE \E c \in rows : c.index = i
  <2>1. [index |-> i, annotation |-> Beside(i)] \in rows
    OBVIOUS
  <2> HIDE DEF rows, Beside
  <2>2. QED
    BY <2>1
<1>6. /\ new \in FeedbackSet /\ new.body = body /\ new.export = rows
  <2>1. rows \subseteq Candidate
    BY <1>4
  <2> HIDE DEF rows
  <2>2. QED
    BY <1>2, <2>1 DEF FeedbackSet
<1> HIDE DEF rows, new, Beside
<1>7. TypeOK'
  BY <1>1, <1>2, <1>6 DEF TypeOK
<1>8. \A b : Resolves(b)' = Resolves(b)
  BY <1>1 DEF Resolves
<1>9. SelectionsResolve'
  BY <1>1, <1>2, <1>6, <1>8 DEF Inductive, SelectionsResolve
<1>10. RowsIdentified' /\ SeenSoFar' /\ OneAnnotationWhileTheyFit' /\ EditsHold'
  BY <1>1, SameAnnotations DEF Inductive, RowsIdentified, SeenSoFar, Before
<1>11. ASSUME NEW c \in rows
       PROVE  /\ c.index \in body.indexes
              /\ \E s \in sample : s.run = body.run /\ s.index = c.index
              /\ c.annotation # None =>
                   /\ body.annotations # {} => c.annotation \in body.annotations
                   /\ \E a \in annotation : /\ a.id = c.annotation
                                            /\ a.run = body.run /\ a.index = c.index
  <2>1. c.index \in body.indexes /\ GetSample(body.run, c.index)
    BY <1>4, <1>11
  <2>2. \E s \in sample : s.run = body.run /\ s.index = c.index
    BY <1>2, <2>1, ListsShowRows
  <2>3. ASSUME c.annotation # None
        PROVE  /\ body.annotations # {} => c.annotation \in body.annotations
               /\ \E a \in annotation : /\ a.id = c.annotation
                                        /\ a.run = body.run /\ a.index = c.index
    <3>1. PICK a \in Chosen(body, c.index) : a.id = c.annotation
      BY <1>3, <1>4, <1>11, <2>3
    <3>2. QED
      BY <1>2, <3>1, ListsShowRows DEF Chosen
  <2>4. QED
    BY <2>1, <2>2, <2>3
<1>12. ExportIsSelected'
  <2> SUFFICES ASSUME NEW g \in feedbackSet', g.export # None, NEW c \in g.export
               PROVE  /\ c.index \in g.body.indexes
                      /\ \E s \in sample : s.run = g.body.run /\ s.index = c.index
                      /\ c.annotation # None =>
                           /\ g.body.annotations # {} => c.annotation \in g.body.annotations
                           /\ \E a \in annotation : /\ a.id = c.annotation
                                                    /\ a.run = g.body.run /\ a.index = c.index
    BY <1>1 DEF ExportIsSelected
  <2>1. CASE g = new
    BY <1>6, <1>11, <2>1
  <2>2. CASE g \in feedbackSet
    BY <2>2 DEF Inductive, ExportIsSelected
  <2>3. QED
    BY <1>1, <2>1, <2>2
<1>13. ASSUME SamplesFit, AnnotationsFit
       PROVE  /\ \A i \in body.indexes : \E c \in rows : c.index = i
              /\ \A c \in rows :
                   (\E a \in annotation : a.index = c.index /\ a.id \in body.annotations)
                     => c.annotation # None
  <2>1. \A i \in body.indexes : i \in shown
    BY <1>2, <1>13, ListsShowRows DEF Resolves
  <2>2. ASSUME NEW c \in rows, NEW a \in annotation, a.index = c.index, a.id \in body.annotations
        PROVE  c.annotation # None
    <3>1. a.run = body.run
      BY <1>2, <2>2 DEF Resolves, RowsIdentified
    <3>2. a \in Chosen(body, c.index)
      BY <1>2, <1>13, <2>2, <3>1, ListsShowRows DEF Chosen
    <3>3. QED
      BY <1>3, <1>4, <2>2, <3>2
  <2>3. QED
    BY <1>5, <2>1, <2>2
<1>14. ExportIsCompleteWhileTheyFit'
  <2> SUFFICES ASSUME SamplesFit, AnnotationsFit, NEW g \in feedbackSet', g.export # None
               PROVE  /\ \A i \in g.body.indexes : \E c \in g.export : c.index = i
                      /\ \A c \in g.export :
                           (\E a \in annotation : a.index = c.index /\ a.id \in g.body.annotations)
                             => c.annotation # None
    BY <1>1 DEF ExportIsCompleteWhileTheyFit, ExportIsComplete, SamplesFit, AnnotationsFit
  <2>1. CASE g = new
    BY <1>6, <1>13, <2>1
  <2>2. CASE g \in feedbackSet
    BY <2>2 DEF Inductive, ExportIsCompleteWhileTheyFit, ExportIsComplete
  <2>3. QED
    BY <1>1, <2>1, <2>2
<1>15. QED
  BY <1>7, <1>9, <1>10, <1>12, <1>14 DEF Inductive

(* A client moves: nothing else does.                                      *)
LEMMA PagerMoves ==
  ASSUME Inductive, UNCHANGED <<sample, annotation, feedbackSet, ledger, edit, overlapped>>,
         TypeOK', SeenSoFar'
  PROVE  Inductive'
<1>1. \A b : Resolves(b)' = Resolves(b)
  BY DEF Resolves
<1>2. RowsIdentified' /\ SelectionsResolve' /\ ExportIsSelected'
  BY <1>1 DEF Inductive, RowsIdentified, SelectionsResolve, ExportIsSelected
<1>3. OneAnnotationWhileTheyFit' /\ EditsHold' /\ ExportIsCompleteWhileTheyFit'
  BY SameAnnotations DEF Inductive, ExportIsCompleteWhileTheyFit, ExportIsComplete, SamplesFit,
                         AnnotationsFit
<1>4. QED
  BY <1>2, <1>3 DEF Inductive

LEMMA StartPagingKeeps ==
  ASSUME Inductive, NEW p \in Pagers, NEW run \in Runs, StartPaging(p, run)
  PROVE  Inductive'
<1> DEFINE new == [run |-> run, offset |-> 0, seen |-> {},
                   due |-> {s.id : s \in {r \in sample : r.run = run}}]
<1>1. /\ UNCHANGED <<sample, annotation, feedbackSet, ledger, edit, overlapped>>
      /\ pager' = [pager EXCEPT ![p] = new]
  BY DEF StartPaging
<1>2. /\ new.run = run /\ new.offset = 0
      /\ new.due = {s.id : s \in {r \in sample : r.run = run}}
  OBVIOUS
<1>3. new \in Paging
  BY DEF Paging, Inductive, TypeOK, Sample
<1> HIDE DEF new
<1>4. TypeOK'
  BY <1>1, <1>3 DEF Inductive, TypeOK
<1>5. SeenSoFar'
  <2> SUFFICES ASSUME NEW q \in Pagers, pager'[q] # None
               PROVE  /\ pager'[q].due \subseteq {s.id : s \in {r \in sample : r.run = pager'[q].run}}
                      /\ \A s \in sample :
                           s.id \in pager'[q].due /\ Before(sample, s) < pager'[q].offset
                             => s.id \in pager'[q].seen
    BY <1>1 DEF SeenSoFar, Before
  <2>1. CASE q = p
    <3>1. pager'[q] = new
      BY <1>1, <2>1 DEF Inductive, TypeOK
    <3>2. \A s \in sample : Before(sample, s) \in Nat
      BY BeforeGrows DEF Inductive, RowsIdentified
    <3>3. QED
      BY <1>2, <3>1, <3>2
  <2>2. CASE q # p
    BY <1>1, <2>2 DEF Inductive, TypeOK, SeenSoFar
  <2>3. QED
    BY <2>1, <2>2
<1>6. QED
  BY <1>1, <1>4, <1>5, PagerMoves

LEMMA NextPageKeeps ==
  ASSUME Inductive, NEW p \in Pagers, NextPage(p)
  PROVE  Inductive'
<1> DEFINE page == ListSamples(pager[p].run, PageSize, pager[p].offset)
           ids  == {s.id : s \in page}
<1>1. /\ UNCHANGED <<sample, annotation, feedbackSet, ledger, edit, overlapped>>
      /\ pager' = [pager EXCEPT ![p].offset = @ + PageSize, ![p].seen = @ \cup ids]
  BY DEF NextPage
<1>2. pager[p] # None /\ pager[p] \in Paging
  BY DEF NextPage, Inductive, TypeOK
<1>3. ids \subseteq SampleIds
  <2>1. page \subseteq Sample
    BY DEF ListSamples, Window, Inductive, TypeOK
  <2>2. QED
    BY <2>1 DEF Sample
<1>4. PageSize \in Nat
  BY BoundAssumption
<1> HIDE DEF ids
<1>5. /\ pager'[p].run = pager[p].run /\ pager'[p].due = pager[p].due
      /\ pager'[p].offset = pager[p].offset + PageSize /\ pager'[p].seen = pager[p].seen \cup ids
      /\ \A q \in Pagers : q # p => pager'[q] = pager[q]
  BY <1>1, <1>2 DEF Inductive, TypeOK, Paging
<1>6. TypeOK'
  <2>1. [pager[p] EXCEPT !.offset = @ + PageSize, !.seen = @ \cup ids] \in Paging
    <3>1. pager[p].offset + PageSize \in Nat
      BY <1>2, <1>4 DEF Paging
    <3>2. pager[p].seen \cup ids \in SUBSET SampleIds
      BY <1>2, <1>3 DEF Paging
    <3>3. QED
      BY <1>2, <3>1, <3>2 DEF Paging
  <2>2. pager' = [pager EXCEPT ![p] = [pager[p] EXCEPT !.offset = @ + PageSize, !.seen = @ \cup ids]]
    BY <1>1
  <2>3. pager' \in [Pagers -> Paging \cup {None}]
    BY <2>1, <2>2 DEF Inductive, TypeOK
  <2>4. QED
    BY <1>1, <2>3 DEF Inductive, TypeOK
<1>7. SeenSoFar'
  <2> SUFFICES ASSUME NEW q \in Pagers, pager'[q] # None
               PROVE  /\ pager'[q].due \subseteq {s.id : s \in {r \in sample : r.run = pager'[q].run}}
                      /\ \A s \in sample :
                           s.id \in pager'[q].due /\ Before(sample, s) < pager'[q].offset
                             => s.id \in pager'[q].seen
    BY <1>1 DEF SeenSoFar, Before
  <2>1. CASE q # p
    BY <1>5, <2>1 DEF Inductive, SeenSoFar
  <2>2. CASE q = p
    <3>1. pager[p].due \subseteq {s.id : s \in {r \in sample : r.run = pager[p].run}}
      BY <1>2 DEF Inductive, SeenSoFar
    <3>2. ASSUME NEW s \in sample, s.id \in pager[p].due,
                 Before(sample, s) < pager[p].offset + PageSize
          PROVE  s.id \in pager[p].seen \cup ids
      <4>1. CASE Before(sample, s) < pager[p].offset
        BY <1>2, <3>2, <4>1 DEF Inductive, SeenSoFar
      <4>2. CASE ~(Before(sample, s) < pager[p].offset)
        <5>1. Before(sample, s) \in Nat
          BY BeforeGrows DEF Inductive, RowsIdentified
        <5>2. s.run = pager[p].run
          BY <3>1, <3>2 DEF Inductive, RowsIdentified
        <5>3. s \in page
          BY <1>2, <1>4, <3>2, <4>2, <5>1, <5>2 DEF ListSamples, Window, Paging
        <5>4. QED
          BY <5>3 DEF ids
      <4>3. QED
        BY <4>1, <4>2
    <3>3. QED
      BY <1>5, <2>2, <3>1, <3>2
  <2>3. QED
    BY <2>1, <2>2
<1>8. QED
  BY <1>1, <1>6, <1>7, PagerMoves

LEMMA StutterKeeps == Inductive /\ UNCHANGED vars => Inductive'
<1> SUFFICES ASSUME Inductive, UNCHANGED vars PROVE Inductive'
  OBVIOUS
<1>1. UNCHANGED <<sample, annotation, feedbackSet, ledger, edit, overlapped, pager>>
  BY DEF vars
<1>2. TypeOK' /\ SeenSoFar'
  BY <1>1 DEF Inductive, TypeOK, SeenSoFar, Before
<1>3. QED
  BY <1>1, <1>2, PagerMoves

LEMMA NextKeeps == Inductive /\ [Next]_vars => Inductive'
<1> SUFFICES ASSUME Inductive, [Next]_vars PROVE Inductive'
  OBVIOUS
<1>1. ASSUME NEW run \in Runs, PersistSamples(run) PROVE Inductive'
  BY <1>1, PersistSamplesKeeps
<1>2. ASSUME NEW t \in Annotators, NEW run \in Runs, NEW i \in Indexes,
             NEW reviewer \in Reviewers, Find(t, run, i, reviewer)
      PROVE  Inductive'
  BY <1>2, FindKeeps
<1>3. ASSUME NEW t \in Annotators, SaveAnnotation(t) PROVE Inductive'
  BY <1>3, SaveAnnotationKeeps
<1>4. ASSUME NEW t \in Annotators, Abandon(t) PROVE Inductive'
  BY <1>4, AbandonKeeps
<1>5. ASSUME NEW key \in Keys \cup {None}, NEW body \in Command, CreateSet(key, body)
      PROVE  Inductive'
  BY <1>5, CreateSetKeeps
<1>6. ASSUME NEW f \in feedbackSet, Export(f) PROVE Inductive'
  BY <1>6, ExportKeeps
<1>7. ASSUME NEW p \in Pagers, NextPage(p) PROVE Inductive'
  BY <1>7, NextPageKeeps
<1>8. ASSUME NEW p \in Pagers, NEW run \in Runs, StartPaging(p, run) PROVE Inductive'
  BY <1>8, StartPagingKeeps
<1>9. QED
  BY <1>1, <1>2, <1>3, <1>4, <1>5, <1>6, <1>7, <1>8, StutterKeeps DEF Next

-----------------------------------------------------------------------------
(* RowWindow: the theorems.                                                *)

(* Rows are identified and stay, so what was selected, exported or seen    *)
(* goes on to name them, whatever the windows hide.                        *)
THEOREM WindowInvariant == Spec => []Inductive
BY InitInductive, NextKeeps, PTL DEF Spec

(* Held-out samples are never exported, and a candidate stands beside an   *)
(* annotation of that very sample, one of those selected when some were.   *)
THEOREM ExportsAreSelected == Spec => []ExportIsSelected
<1>1. Inductive => ExportIsSelected
  BY DEF Inductive
<1>2. QED
  BY <1>1, WindowInvariant, PTL

(* While the annotations fit into their window, a reviewer has one         *)
(* annotation of a sample, unless two calls of annotate_sample for it      *)
(* overlapped: each looks and saves under separate takings of the lock.    *)
THEOREM OneAnnotationEach == Spec => []OneAnnotationWhileTheyFit
<1>1. Inductive => OneAnnotationWhileTheyFit
  BY DEF Inductive
<1>2. QED
  BY <1>1, WindowInvariant, PTL

(* While the rows fit, the checks let a repeated request through to its    *)
(* receipt.                                                                *)
THEOREM RetriesPass == Spec => []ReplaysPassWhileTheyFit
<1>1. ASSUME Inductive, SamplesFit, AnnotationsFit, NEW e \in ledger PROVE ~Refused(e.body)
  <2>1. e.body \in Command /\ Resolves(e.body) /\ TypeOK /\ RowsIdentified
    BY <1>1 DEF Inductive, TypeOK, SelectionsResolve
  <2>2. QED
    BY <1>1, <2>1, ResolvedIsAccepted
<1>2. Inductive => ReplaysPassWhileTheyFit
  BY <1>1 DEF ReplaysPassWhileTheyFit, ReplaysPass
<1>3. QED
  BY <1>2, WindowInvariant, PTL

(* While the rows fit, every selected sample is exported, beside an        *)
(* annotation when one was selected for it.                                *)
THEOREM ExportsAreComplete == Spec => []ExportIsCompleteWhileTheyFit
<1>1. Inductive => ExportIsCompleteWhileTheyFit
  BY DEF Inductive
<1>2. QED
  BY <1>1, WindowInvariant, PTL

(* A client that pages past the last row has seen every sample its run had *)
(* when it started, whatever the page size and the runs that finish        *)
(* meanwhile.                                                              *)
THEOREM PagingIsComplete == Spec => []PagingMissesNothing
<1>1. ASSUME Inductive, NEW p \in Pagers, pager[p] # None,
             pager[p].offset >= Cardinality(sample), NEW id \in pager[p].due
      PROVE  id \in pager[p].seen
  <2>1. PICK s \in sample : s.id = id
    BY <1>1 DEF Inductive, SeenSoFar
  <2>2. /\ Before(sample, s) \in Nat /\ Cardinality(sample) \in Nat
        /\ Before(sample, s) < Cardinality(sample)
    <3>1. \A r \in sample : r.id \in Nat
      BY <1>1, IdAssumption DEF Inductive, TypeOK, Sample
    <3>2. QED
      BY <1>1, <3>1, BeforeIsLess DEF Inductive, RowsIdentified
  <2>3. pager[p].offset \in Nat
    BY <1>1 DEF Inductive, TypeOK, Paging
  <2>4. Before(sample, s) < pager[p].offset
    BY <1>1, <2>2, <2>3
  <2>5. QED
    BY <1>1, <2>1, <2>4 DEF Inductive, SeenSoFar
<1>2. Inductive => PagingMissesNothing
  BY <1>1 DEF PagingMissesNothing
<1>3. QED
  BY <1>2, WindowInvariant, PTL
=============================================================================
