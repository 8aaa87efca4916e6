----------------------- MODULE InputEvaluation_proofs -----------------------
(***************************************************************************)
(* Proofs about EvaluationRuns and about InputEvaluation, which runs it    *)
(* behind an input's lock, for every set of threads, runs, inputs, keys    *)
(* and bodies, any faults, any number of crashes, with or without an       *)
(* activity broker.                                                        *)
(*                                                                         *)
(* Part one: Inductive of EvaluationRuns is shown to hold initially and to *)
(* be preserved by every action, one lemma per action. Each such lemma     *)
(* first reduces the action to its effect on the one thread that takes the *)
(* step (step <1>0), and every conjunct follows from that.                 *)
(*                                                                         *)
(* Part two: seen without its inputs InputEvaluation is EvaluationRuns, so *)
(* everything proved in part one holds there. On top of it Recorded is     *)
(* preserved by every step of create_run; with it each of those steps is a *)
(* step of KeyedCreate or none. Locked and LinkIsOwn are preserved by      *)
(* every step of evaluate. SerialInductive is preserved when nothing else  *)
(* uses the evaluations' keys: then a key's commands follow each other     *)
(* under the lock.                                                         *)
(***************************************************************************)
EXTENDS InputEvaluation, TLAPS

-----------------------------------------------------------------------------
(* Part one: EvaluationRuns.                                               *)

-----------------------------------------------------------------------------
(* The effect of a step on the threads.                                    *)

(* Only c moves, and keeps the command it serves.                          *)
Only(c) == /\ call' \in [Calls -> CallRecord]
           /\ \A d \in Calls : d # c => call'[d] = call[d]
           /\ call'[c].key = call[c].key /\ call'[c].body = call[c].body

(* ... and keeps its run, to stand at step s with the answer a.            *)
Moves(c, s, a) == /\ Only(c)
                  /\ call'[c].run = call[c].run
                  /\ call'[c].step = s /\ call'[c].answer = a

(* Goto changes one thread's step.                                         *)
LEMMA GotoMoves ==
  ASSUME NEW c \in Calls, NEW s \in Steps, call \in [Calls -> CallRecord], Goto(c, s)
  PROVE  Moves(c, s, call[c].answer)
BY DEF Goto, CallRecord, Moves, Only

(* A step that also sets the answer.                                       *)
LEMMA SetAnswerMoves ==
  ASSUME NEW c \in Calls, NEW s \in Steps, NEW a \in Answers, call \in [Calls -> CallRecord],
         call' = [call EXCEPT ![c].step = s, ![c].answer = a]
  PROVE  Moves(c, s, a)
<1>1. call' = [call EXCEPT ![c] = [call[c] EXCEPT !.step = s, !.answer = a]]
  OBVIOUS
<1>2. [call[c] EXCEPT !.step = s, !.answer = a] \in CallRecord
  BY DEF CallRecord
<1>3. QED
  BY <1>1, <1>2 DEF CallRecord, Moves, Only

(* Answer ends one thread's work.                                          *)
LEMMA AnswerMoves ==
  ASSUME NEW c \in Calls, NEW a \in Answers, call \in [Calls -> CallRecord], Answer(c, a)
  PROVE  Moves(c, "done", a)
BY SetAnswerMoves DEF Answer, Steps

(* A step that also gives the thread a run.                                *)
LEMMA SetRunOnly ==
  ASSUME NEW c \in Calls, NEW s \in Steps, NEW r \in Runs, call \in [Calls -> CallRecord],
         call' = [call EXCEPT ![c].step = s, ![c].run = r]
  PROVE  Only(c) /\ call'[c].step = s /\ call'[c].run = r
<1>1. call' = [call EXCEPT ![c] = [call[c] EXCEPT !.step = s, !.run = r]]
  OBVIOUS
<1>2. [call[c] EXCEPT !.step = s, !.run = r] \in CallRecord
  BY DEF CallRecord
<1>3. QED
  BY <1>1, <1>2 DEF CallRecord, Only

-----------------------------------------------------------------------------
(* The steps of a call: one lemma per action.                              *)

(* What Submit does to the thread.                                         *)
LEMMA SubmitEffect ==
  ASSUME Inductive, NEW c \in Calls, Submit(c)
  PROVE  /\ UNCHANGED <<up, crashes, run, evidence, ledger, reports, active, answered, created, abandoned>>
         /\ up /\ call[c].step = "idle"
         /\ call' \in [Calls -> CallRecord]
         /\ \A d \in Calls : d # c => call'[d] = call[d]
         /\ call'[c].step = "resolve" /\ call'[c].body \in Bodies
<1> USE DEF Inductive, Steps, Executing, Terminal
<1>1. PICK key \in KeysOf[c], body \in Bodies :
         call' = [call EXCEPT ![c] = [Idle EXCEPT !.step = "resolve", !.key = key, !.body = body]]
  BY DEF Submit
<1>2. /\ [Idle EXCEPT !.step = "resolve", !.key = key, !.body = body] \in CallRecord
      /\ [Idle EXCEPT !.step = "resolve", !.key = key, !.body = body].step = "resolve"
      /\ [Idle EXCEPT !.step = "resolve", !.key = key, !.body = body].body = body
  BY CallsAssumption DEF CallRecord, Idle, Answers
<1>3. /\ call' \in [Calls -> CallRecord]
      /\ \A d \in Calls : d # c => call'[d] = call[d]
      /\ call'[c] = [Idle EXCEPT !.step = "resolve", !.key = key, !.body = body]
  BY <1>1, <1>2 DEF TypeOK
<1>4. QED
  BY <1>2, <1>3 DEF Submit, At, store, history

(* Submit: a thread takes a command and holds no run yet.                  *)
LEMMA SubmitStep ==
  ASSUME Inductive, NEW c \in Calls, Submit(c)
  PROVE  Inductive'
<1> USE DEF Inductive, Steps, Executing, Terminal
<1>0. /\ UNCHANGED <<up, crashes, run, evidence, ledger, reports, active, answered, created, abandoned>>
      /\ up /\ call[c].step = "idle"
      /\ call' \in [Calls -> CallRecord]
      /\ \A d \in Calls : d # c => call'[d] = call[d]
      /\ call'[c].step = "resolve" /\ call'[c].body \in Bodies
  BY SubmitEffect
<1>1. TypeOK'
  BY <1>0 DEF TypeOK, HeldRuns, Unsaved, Moves, Only
<1>2. RowsWellFormed'
  BY <1>0 DEF RowsWellFormed, HeldRuns, NoRow, TypeOK, Moves, Only
<1>3. DownIsIdle'
  BY <1>0 DEF DownIsIdle, Moves, Only
<1>4. HeldRuns'
  BY <1>0 DEF HeldRuns, HeldOnce, Unsaved, RowsWellFormed, NoRow, TypeOK, Moves, Only
<1>5. HeldOnce'
  BY <1>0 DEF HeldOnce, HeldRuns, Unsaved, Moves, Only
<1>6. LedgerFollows'
  <2>1. \A d \in Calls : d # c => Command(d)' = Command(d)
    BY <1>0 DEF Command, Moves, Only
  <2>2. QED
    BY <1>0, <2>1 DEF LedgerFollows, Moves, Only
<1>7. OutcomeComplete'
  BY <1>0 DEF OutcomeComplete, HeldRuns, RowsWellFormed, NoRow, NoRows, Unsaved, TypeOK, Moves, Only
<1>8. LedgerSound'
  BY <1>0 DEF LedgerSound, HeldRuns, LedgerFollows, NoRow, TypeOK, Command, Moves, Only
<1>9. RunningAccountedFor'
  <2>1. ASSUME NEW q \in Runs, run'[q].state = "RUNNING", q \notin abandoned'
        PROVE  \E d \in Calls : call'[d].run = q /\ call'[d].step \in Executing
    <3>1. PICK d \in Calls : call[d].run = q /\ call[d].step \in Executing
      BY <1>0, <2>1 DEF RunningAccountedFor
    <3>2. call'[d].run = q /\ call'[d].step \in Executing
      BY <1>0, <2>1, <3>1 DEF Moves, Only, HeldRuns
    <3>3. QED
      BY <3>2
  <2>2. QED
    BY <1>0, <1>5, <2>1 DEF RunningAccountedFor, HeldOnce
<1>10. BrokerSeesRunning'
  BY <1>0 DEF BrokerSeesRunning, HeldRuns, AnswersDurable, TypeOK, Moves, Only
<1>11. AnswersDurable'
  BY <1>0 DEF AnswersDurable, HeldRuns, Unsaved, NoRow, TypeOK, RowsWellFormed, Moves, Only
<1>12. QED
  BY <1>1, <1>2, <1>3, <1>4, <1>5, <1>6, <1>7, <1>8, <1>9, <1>10, <1>11

(* What Resolve does to the thread: it ends in a conflict, gets the run of  *)
(* a ledger row, or a run id that nothing uses.                            *)
LEMMA ResolveEffect ==
  ASSUME Inductive, NEW c \in Calls, Resolve(c)
  PROVE  /\ UNCHANGED <<up, crashes, run, evidence, ledger, reports, active, answered, created, abandoned>>
         /\ up /\ call[c].step = "resolve"
         /\ Only(c)
         /\ \/ call'[c].step = "done" /\ call'[c].answer = "conflict"
            \/ call'[c].step = "replay" /\ call'[c].run \in Runs /\ Command(c)' \in ledger
            \/ /\ \/ Managed /\ call'[c].step = "admit"
                  \/ ~Managed /\ call'[c].step = "save"
               /\ call'[c].run \in Runs /\ run[call'[c].run] = NoRow /\ \A d \in Calls : call[d].run # call'[c].run
<1> USE DEF Inductive, Steps, Executing, Terminal
<1> DEFINE r == call'[c].run
<1>1. /\ UNCHANGED <<up, crashes, run, evidence, ledger, reports, active, answered, created, abandoned>>
      /\ up /\ call[c].step = "resolve"
  BY DEF Resolve, At, store, history
<1>2. CASE Answer(c, "conflict")
  BY <1>1, <1>2, AnswerMoves DEF TypeOK, Answers, Moves
<1>3. ASSUME NEW e \in ledger, e.key = call[c].key, e.body = call[c].body,
             call' = [call EXCEPT ![c].step = "replay", ![c].run = e.run]
      PROVE  Only(c) /\ call'[c].step = "replay" /\ r \in Runs /\ Command(c)' \in ledger
  <2>1. e.run \in Runs /\ e = [key |-> e.key, body |-> e.body, run |-> e.run]
    BY DEF TypeOK
  <2>2. "replay" \in Steps
    OBVIOUS
  <2>3. Only(c) /\ call'[c].step = "replay" /\ r = e.run
    BY <1>3, <2>1, <2>2, SetRunOnly DEF TypeOK
  <2>4. QED
    BY <1>3, <2>1, <2>3 DEF Command, Only
<1>4. ASSUME NEW q \in Runs, ~InUse(q), NEW s \in {"admit", "save"},
             call' = [call EXCEPT ![c].step = s, ![c].run = q]
      PROVE  /\ Only(c) /\ call'[c].step = s
             /\ r \in Runs /\ run[r] = NoRow /\ \A d \in Calls : call[d].run # r
  <2>1. s \in Steps
    OBVIOUS
  <2>2. Only(c) /\ call'[c].step = s /\ r = q
    BY <1>4, <2>1, SetRunOnly DEF TypeOK
  <2>3. run[q] = NoRow /\ \A d \in Calls : call[d].run # q
    BY <1>4 DEF InUse, RowsWellFormed
  <2>4. QED
    BY <2>2, <2>3
<1>5. \/ Answer(c, "conflict")
      \/ \E e \in ledger : /\ e.key = call[c].key /\ e.body = call[c].body
                           /\ call' = [call EXCEPT ![c].step = "replay", ![c].run = e.run]
      \/ \E q \in Runs : /\ ~InUse(q)
                         /\ call' = [call EXCEPT ![c].step = IF Managed THEN "admit" ELSE "save",
                                                 ![c].run = q]
  BY DEF Resolve, Row
<1>6. CASE Managed
  BY <1>1, <1>2, <1>3, <1>4, <1>5, <1>6
<1>7. CASE ~Managed
  BY <1>1, <1>2, <1>3, <1>4, <1>5, <1>7
<1>8. QED
  BY <1>6, <1>7

(* Resolve: a conflict, a replay of a ledger row, or a run id of its own.  *)
LEMMA ResolveStep ==
  ASSUME Inductive, NEW c \in Calls, Resolve(c)
  PROVE  Inductive'
<1> USE DEF Inductive, Steps, Executing, Terminal
<1> DEFINE r == call'[c].run
<1>0. /\ UNCHANGED <<up, crashes, run, evidence, ledger, reports, active, answered, created, abandoned>>
      /\ up /\ call[c].step = "resolve"
      /\ Only(c)
      /\ \/ call'[c].step = "done" /\ call'[c].answer = "conflict"
         \/ call'[c].step = "replay" /\ r \in Runs /\ Command(c)' \in ledger
         \/ /\ \/ Managed /\ call'[c].step = "admit"
               \/ ~Managed /\ call'[c].step = "save"
            /\ r \in Runs /\ run[r] = NoRow /\ \A d \in Calls : call[d].run # r
  BY ResolveEffect
<1>1. TypeOK'
  BY <1>0 DEF TypeOK, HeldRuns, Unsaved, Moves, Only
<1>2. RowsWellFormed'
  BY <1>0 DEF RowsWellFormed, HeldRuns, NoRow, TypeOK, Moves, Only
<1>3. DownIsIdle'
  BY <1>0 DEF DownIsIdle, Moves, Only
<1>4. HeldRuns'
  <2>1. call'[c].step = "replay" => r \in Runs /\ run[r].state # "ABSENT"
    BY <1>0 DEF LedgerSound, Command
  <2>2. call[c].body \in Bodies
    BY <1>0 DEF HeldRuns
  <2>3. QED
    BY <1>0, <2>1, <2>2 DEF HeldRuns, Unsaved, Only
<1>5. HeldOnce'
  BY <1>0 DEF HeldOnce, HeldRuns, Unsaved, Moves, Only
<1>6. LedgerFollows'
  <2>1. \A d \in Calls : d # c => Command(d)' = Command(d)
    BY <1>0 DEF Command, Moves, Only
  <2>2. QED
    BY <1>0, <2>1 DEF LedgerFollows, Moves, Only
<1>7. OutcomeComplete'
  BY <1>0 DEF OutcomeComplete, HeldRuns, RowsWellFormed, NoRow, NoRows, Unsaved, TypeOK, Moves, Only
<1>8. LedgerSound'
  BY <1>0 DEF LedgerSound, HeldRuns, LedgerFollows, NoRow, TypeOK, Command, Moves, Only
<1>9. RunningAccountedFor'
  <2>1. ASSUME NEW q \in Runs, run'[q].state = "RUNNING", q \notin abandoned'
        PROVE  \E d \in Calls : call'[d].run = q /\ call'[d].step \in Executing
    <3>1. PICK d \in Calls : call[d].run = q /\ call[d].step \in Executing
      BY <1>0, <2>1 DEF RunningAccountedFor
    <3>2. call'[d].run = q /\ call'[d].step \in Executing
      BY <1>0, <2>1, <3>1 DEF Moves, Only, HeldRuns
    <3>3. QED
      BY <3>2
  <2>2. QED
    BY <1>0, <1>5, <2>1 DEF RunningAccountedFor, HeldOnce
<1>10. BrokerSeesRunning'
  BY <1>0 DEF BrokerSeesRunning, HeldRuns, AnswersDurable, TypeOK, Moves, Only
<1>11. AnswersDurable'
  BY <1>0 DEF AnswersDurable, HeldRuns, Unsaved, NoRow, TypeOK, RowsWellFormed, Moves, Only
<1>12. QED
  BY <1>1, <1>2, <1>3, <1>4, <1>5, <1>6, <1>7, <1>8, <1>9, <1>10, <1>11

(* Replay: the ledger named a saved run, so it is found.                   *)
LEMMA ReplayStep ==
  ASSUME Inductive, NEW c \in Calls, Replay(c)
  PROVE  Inductive'
<1> USE DEF Inductive, Steps, Executing, Terminal
<1>0. /\ UNCHANGED <<up, crashes, run, evidence, ledger, reports, active, created, abandoned>>
      /\ up /\ call[c].step = "replay"
      /\ \/ Moves(c, "done", "not_found") /\ answered' = answered
               /\ run[call[c].run].state = "ABSENT"
         \/ Moves(c, "done", "replayed") /\ Record(c)
  BY AnswerMoves DEF Replay, At, store, TypeOK, Answers
<1>1. TypeOK'
  <2>1. call[c].key # NoKey => Command(c) \in [key : Keys, body : Bodies, run : Runs]
    BY <1>0 DEF Command, HeldRuns, CallRecord, TypeOK
  <2>2. QED
    BY <1>0, <2>1 DEF TypeOK, Moves, Only, Record, HeldRuns
<1>2. RowsWellFormed'
  BY <1>0 DEF RowsWellFormed, HeldRuns, NoRow, TypeOK, Moves, Only
<1>3. DownIsIdle'
  BY <1>0 DEF DownIsIdle, Moves, Only
<1>4. HeldRuns'
  BY <1>0 DEF HeldRuns, HeldOnce, Unsaved, RowsWellFormed, NoRow, TypeOK, Moves, Only
<1>5. HeldOnce'
  BY <1>0 DEF HeldOnce, HeldRuns, Unsaved, Moves, Only
<1>6. LedgerFollows'
  <2>1. \A d \in Calls : Command(d)' = Command(d)
    BY <1>0 DEF Command, Moves, Only
  <2>2. QED
    BY <1>0, <2>1 DEF LedgerFollows, HeldRuns, HeldOnce, LedgerSound, Moves, Only, Unsaved, Record
<1>7. OutcomeComplete'
  BY <1>0 DEF OutcomeComplete, HeldRuns, RowsWellFormed, NoRow, NoRows, Unsaved, TypeOK, Moves, Only
<1>8. LedgerSound'
  BY <1>0 DEF LedgerSound, HeldRuns, LedgerFollows, NoRow, TypeOK, Command, Moves, Only
<1>9. RunningAccountedFor'
  <2>1. ASSUME NEW q \in Runs, run'[q].state = "RUNNING", q \notin abandoned'
        PROVE  \E d \in Calls : call'[d].run = q /\ call'[d].step \in Executing
    <3>1. PICK d \in Calls : call[d].run = q /\ call[d].step \in Executing
      BY <1>0, <2>1 DEF RunningAccountedFor
    <3>2. call'[d].run = q /\ call'[d].step \in Executing
      BY <1>0, <2>1, <3>1 DEF Moves, Only, HeldRuns
    <3>3. QED
      BY <3>2
  <2>2. QED
    BY <1>0, <1>5, <2>1 DEF RunningAccountedFor, HeldOnce
<1>10. BrokerSeesRunning'
  BY <1>0 DEF BrokerSeesRunning, HeldRuns, AnswersDurable, TypeOK, Moves, Only
<1>11. AnswersDurable'
  BY <1>0 DEF AnswersDurable, HeldRuns, Unsaved, NoRow, TypeOK, RowsWellFormed, Moves, Only
<1>12. QED
  BY <1>1, <1>2, <1>3, <1>4, <1>5, <1>6, <1>7, <1>8, <1>9, <1>10, <1>11

(* Admit: the broker knows the run before it is saved.                     *)
LEMMA AdmitStep ==
  ASSUME Inductive, NEW c \in Calls, Admit(c)
  PROVE  Inductive'
<1> USE DEF Inductive, Steps, Executing, Terminal
<1>0. /\ UNCHANGED <<up, crashes, run, evidence, ledger, reports, answered, created, abandoned>>
      /\ up /\ call[c].step = "admit"
      /\ \/ Moves(c, "save", call[c].answer) /\ active' = active \cup {call[c].run}
         \/ Moves(c, "done", "refused") /\ active' = active
  BY GotoMoves, AnswerMoves DEF Admit, At, store, history, TypeOK, Answers
<1>1. TypeOK'
  BY <1>0 DEF TypeOK, HeldRuns, Unsaved, Moves, Only
<1>2. RowsWellFormed'
  BY <1>0 DEF RowsWellFormed, HeldRuns, NoRow, TypeOK, Moves, Only
<1>3. DownIsIdle'
  BY <1>0 DEF DownIsIdle, Moves, Only
<1>4. HeldRuns'
  BY <1>0 DEF HeldRuns, HeldOnce, Unsaved, RowsWellFormed, NoRow, TypeOK, Moves, Only
<1>5. HeldOnce'
  BY <1>0 DEF HeldOnce, HeldRuns, Unsaved, Moves, Only
<1>6. LedgerFollows'
  <2>1. \A d \in Calls : Command(d)' = Command(d)
    BY <1>0 DEF Command, Moves, Only
  <2>2. QED
    BY <1>0, <2>1 DEF LedgerFollows, HeldRuns, HeldOnce, LedgerSound, Moves, Only, Unsaved, Record
<1>7. OutcomeComplete'
  BY <1>0 DEF OutcomeComplete, HeldRuns, RowsWellFormed, NoRow, NoRows, Unsaved, TypeOK, Moves, Only
<1>8. LedgerSound'
  BY <1>0 DEF LedgerSound, HeldRuns, LedgerFollows, NoRow, TypeOK, Command, Moves, Only
<1>9. RunningAccountedFor'
  <2>1. ASSUME NEW q \in Runs, run'[q].state = "RUNNING", q \notin abandoned'
        PROVE  \E d \in Calls : call'[d].run = q /\ call'[d].step \in Executing
    <3>1. PICK d \in Calls : call[d].run = q /\ call[d].step \in Executing
      BY <1>0, <2>1 DEF RunningAccountedFor
    <3>2. call'[d].run = q /\ call'[d].step \in Executing
      BY <1>0, <2>1, <3>1 DEF Moves, Only, HeldRuns
    <3>3. QED
      BY <3>2
  <2>2. QED
    BY <1>0, <1>5, <2>1 DEF RunningAccountedFor, HeldOnce
<1>10. BrokerSeesRunning'
  BY <1>0 DEF BrokerSeesRunning, HeldRuns, AnswersDurable, TypeOK, Moves, Only
<1>11. AnswersDurable'
  BY <1>0 DEF AnswersDurable, HeldRuns, Unsaved, NoRow, TypeOK, RowsWellFormed, Moves, Only
<1>12. QED
  BY <1>1, <1>2, <1>3, <1>4, <1>5, <1>6, <1>7, <1>8, <1>9, <1>10, <1>11

(* SaveRun: the id was fresh, and the row is now RUNNING at version 1.     *)
LEMMA SaveRunStep ==
  ASSUME Inductive, NEW c \in Calls, SaveRun(c)
  PROVE  Inductive'
<1> USE DEF Inductive, Steps, Executing, Terminal
<1>0. /\ UNCHANGED <<up, crashes, evidence, ledger, reports, active, answered, abandoned>>
      /\ up /\ call[c].step = "save"
      /\ Moves(c, "remember", call[c].answer)
      /\ run' = [run EXCEPT ![call[c].run] = [state |-> "RUNNING", version |-> 1, failure |-> "none"]]
      /\ created' = created \cup {Command(c)}
  BY GotoMoves DEF SaveRun, At, TypeOK
<1>1. TypeOK'
  <2>1. run' \in [Runs -> RunRow]
    BY <1>0 DEF RunRow, TypeOK
  <2>2. Command(c) \in [key : Keys \cup {NoKey}, body : Bodies, run : Runs]
    BY <1>0 DEF Command, HeldRuns, Unsaved, CallRecord, TypeOK
  <2>3. QED
    BY <1>0, <2>1, <2>2 DEF TypeOK, Moves, Only
<1>2. RowsWellFormed'
  BY <1>0 DEF RowsWellFormed, HeldRuns, NoRow, TypeOK, Moves, Only
<1>3. DownIsIdle'
  BY <1>0 DEF DownIsIdle, Moves, Only
<1>4. HeldRuns'
  BY <1>0 DEF HeldRuns, HeldOnce, Unsaved, RowsWellFormed, NoRow, TypeOK, Moves, Only
<1>5. HeldOnce'
  BY <1>0 DEF HeldOnce, HeldRuns, Unsaved, Moves, Only
<1>6. LedgerFollows'
  <2>1. \A d \in Calls : Command(d)' = Command(d)
    BY <1>0 DEF Command, Moves, Only
  <2>2. \A e \in ledger : e.run # call[c].run
    BY <1>0 DEF HeldRuns, LedgerSound, Unsaved, NoRow
  <2>3. QED
    BY <1>0, <2>1, <2>2 DEF LedgerFollows, Moves, Only
<1>7. OutcomeComplete'
  BY <1>0 DEF OutcomeComplete, HeldRuns, RowsWellFormed, NoRow, NoRows, Unsaved, TypeOK, Moves, Only
<1>8. LedgerSound'
  BY <1>0 DEF LedgerSound, HeldRuns, LedgerFollows, NoRow, TypeOK, Command, Moves, Only
<1>9. RunningAccountedFor'
  <2>1. ASSUME NEW q \in Runs, run'[q].state = "RUNNING", q \notin abandoned'
        PROVE  \E d \in Calls : call'[d].run = q /\ call'[d].step \in Executing
    <3>1. CASE q = call[c].run
      BY <1>0, <3>1 DEF Moves
    <3>2. CASE q # call[c].run
      <4>1. PICK d \in Calls : call[d].run = q /\ call[d].step \in Executing
        BY <1>0, <2>1, <3>2 DEF RunningAccountedFor, TypeOK
      <4>2. call'[d].run = q /\ call'[d].step \in Executing
        BY <1>0, <4>1 DEF Moves, Only
      <4>3. QED
        BY <4>2
    <3>3. QED
      BY <3>1, <3>2
  <2>2. QED
    BY <1>0, <1>5, <2>1 DEF RunningAccountedFor, HeldOnce
<1>10. BrokerSeesRunning'
  BY <1>0 DEF BrokerSeesRunning, HeldRuns, AnswersDurable, TypeOK, Moves, Only
<1>11. AnswersDurable'
  BY <1>0 DEF AnswersDurable, HeldRuns, Unsaved, NoRow, TypeOK, RowsWellFormed, Moves, Only
<1>12. QED
  BY <1>1, <1>2, <1>3, <1>4, <1>5, <1>6, <1>7, <1>8, <1>9, <1>10, <1>11

(* Remember: one ledger row for a key and for a run, or an uncaught error. *)
LEMMA RememberStep ==
  ASSUME Inductive, NEW c \in Calls, Remember(c)
  PROVE  Inductive'
<1> USE DEF Inductive, Steps, Executing, Terminal
<1>0. /\ UNCHANGED <<up, crashes, run, evidence, reports, active, answered, created>>
      /\ up /\ call[c].step = "remember"
      /\ \/ /\ call[c].key = NoKey /\ Moves(c, "evaluate", call[c].answer)
            /\ ledger' = ledger /\ abandoned' = abandoned
         \/ /\ call[c].key # NoKey /\ Moves(c, "evaluate", call[c].answer)
            /\ \A e \in ledger : e.key # call[c].key
            /\ ledger' = ledger \cup {Command(c)} /\ abandoned' = abandoned
         \/ /\ Moves(c, "done", "error")
            /\ ledger' = ledger /\ abandoned' = abandoned \cup {call[c].run}
  BY GotoMoves, AnswerMoves DEF Remember, KeyFree, Row, Command, At, TypeOK, Answers
<1>1. TypeOK'
  <2>1. call[c].key # NoKey => Command(c) \in [key : Keys, body : Bodies, run : Runs]
    BY <1>0 DEF Command, HeldRuns, CallRecord, TypeOK
  <2>2. QED
    BY <1>0, <2>1 DEF TypeOK, Moves, Only, Record, HeldRuns
<1>2. RowsWellFormed'
  BY <1>0 DEF RowsWellFormed, HeldRuns, NoRow, TypeOK, Moves, Only
<1>3. DownIsIdle'
  BY <1>0 DEF DownIsIdle, Moves, Only
<1>4. HeldRuns'
  BY <1>0 DEF HeldRuns, HeldOnce, Unsaved, RowsWellFormed, NoRow, TypeOK, Moves, Only
<1>5. HeldOnce'
  BY <1>0 DEF HeldOnce, HeldRuns, Unsaved, Moves, Only
<1>6. LedgerFollows'
  <2>1. \A d \in Calls : Command(d)' = Command(d)
    BY <1>0 DEF Command, Moves, Only
  <2>2. \A e \in ledger' : e \in ledger \/ e.run = call[c].run
    BY <1>0 DEF Command
  <2>3. \A d \in Calls : call'[d].step = "remember" => \A e \in ledger' : e.run # call'[d].run
    BY <1>0, <2>2 DEF LedgerFollows, HeldOnce, Unsaved, Moves, Only
  <2>4. QED
    BY <1>0, <2>1, <2>3 DEF LedgerFollows, Moves, Only
<1>7. OutcomeComplete'
  BY <1>0 DEF OutcomeComplete, HeldRuns, RowsWellFormed, NoRow, NoRows, Unsaved, TypeOK, Moves, Only
<1>8. LedgerSound'
  BY <1>0 DEF LedgerSound, HeldRuns, LedgerFollows, NoRow, TypeOK, Command, Moves, Only
<1>9. RunningAccountedFor'
  <2>1. ASSUME NEW q \in Runs, run'[q].state = "RUNNING", q \notin abandoned'
        PROVE  \E d \in Calls : call'[d].run = q /\ call'[d].step \in Executing
    <3>1. PICK d \in Calls : call[d].run = q /\ call[d].step \in Executing
      BY <1>0, <2>1 DEF RunningAccountedFor
    <3>2. call'[d].run = q /\ call'[d].step \in Executing
      BY <1>0, <2>1, <3>1 DEF Moves, Only, HeldRuns
    <3>3. QED
      BY <3>2
  <2>2. QED
    BY <1>0, <1>5, <2>1 DEF RunningAccountedFor, HeldOnce
<1>10. BrokerSeesRunning'
  BY <1>0 DEF BrokerSeesRunning, HeldRuns, AnswersDurable, TypeOK, Moves, Only
<1>11. AnswersDurable'
  BY <1>0 DEF AnswersDurable, HeldRuns, Unsaved, NoRow, TypeOK, RowsWellFormed, Moves, Only
<1>12. QED
  BY <1>1, <1>2, <1>3, <1>4, <1>5, <1>6, <1>7, <1>8, <1>9, <1>10, <1>11

(* Evaluate: the stores stay, the run is still RUNNING.                    *)
LEMMA EvaluateStep ==
  ASSUME Inductive, NEW c \in Calls, Evaluate(c)
  PROVE  Inductive'
<1> USE DEF Inductive, Steps, Executing, Terminal
<1>0. /\ UNCHANGED <<up, crashes, run, evidence, ledger, reports, active, answered, created>>
      /\ abandoned' = abandoned
      /\ up /\ call[c].step = "evaluate"
      /\ \/ Moves(c, "publish", call[c].answer)
         \/ Moves(c, "fail", call[c].answer)
  BY GotoMoves DEF Evaluate, At, store, history, TypeOK
<1>1. TypeOK'
  BY <1>0 DEF TypeOK, HeldRuns, Unsaved, Moves, Only
<1>2. RowsWellFormed'
  BY <1>0 DEF RowsWellFormed, HeldRuns, NoRow, TypeOK, Moves, Only
<1>3. DownIsIdle'
  BY <1>0 DEF DownIsIdle, Moves, Only
<1>4. HeldRuns'
  BY <1>0 DEF HeldRuns, HeldOnce, Unsaved, RowsWellFormed, NoRow, TypeOK, Moves, Only
<1>5. HeldOnce'
  BY <1>0 DEF HeldOnce, HeldRuns, Unsaved, Moves, Only
<1>6. LedgerFollows'
  <2>1. \A d \in Calls : Command(d)' = Command(d)
    BY <1>0 DEF Command, Moves, Only
  <2>2. QED
    BY <1>0, <2>1 DEF LedgerFollows, HeldRuns, HeldOnce, LedgerSound, Moves, Only, Unsaved, Record
<1>7. OutcomeComplete'
  BY <1>0 DEF OutcomeComplete, HeldRuns, RowsWellFormed, NoRow, NoRows, Unsaved, TypeOK, Moves, Only
<1>8. LedgerSound'
  BY <1>0 DEF LedgerSound, HeldRuns, LedgerFollows, NoRow, TypeOK, Command, Moves, Only
<1>9. RunningAccountedFor'
  <2>1. ASSUME NEW q \in Runs, run'[q].state = "RUNNING", q \notin abandoned'
        PROVE  \E d \in Calls : call'[d].run = q /\ call'[d].step \in Executing
    <3>1. PICK d \in Calls : call[d].run = q /\ call[d].step \in Executing
      BY <1>0, <2>1 DEF RunningAccountedFor
    <3>2. call'[d].run = q /\ call'[d].step \in Executing
      BY <1>0, <2>1, <3>1 DEF Moves, Only, HeldRuns
    <3>3. QED
      BY <3>2
  <2>2. QED
    BY <1>0, <1>5, <2>1 DEF RunningAccountedFor, HeldOnce
<1>10. BrokerSeesRunning'
  BY <1>0 DEF BrokerSeesRunning, HeldRuns, AnswersDurable, TypeOK, Moves, Only
<1>11. AnswersDurable'
  BY <1>0 DEF AnswersDurable, HeldRuns, Unsaved, NoRow, TypeOK, RowsWellFormed, Moves, Only
<1>12. QED
  BY <1>1, <1>2, <1>3, <1>4, <1>5, <1>6, <1>7, <1>8, <1>9, <1>10, <1>11

(* Escape: the stores stay, a RUNNING run of this call is abandoned.       *)
LEMMA EscapeStep ==
  ASSUME Inductive, NEW c \in Calls, Escape(c)
  PROVE  Inductive'
<1> USE DEF Inductive, Steps, Executing, Terminal
<1>0. /\ UNCHANGED <<up, crashes, run, evidence, ledger, reports, active, answered, created>>
      /\ up /\ call[c].step \in Executing \cup {"save"}
      /\ Moves(c, "done", "error")
      /\ abandoned' = abandoned \cup ({call[c].run} \cap {q \in Runs : run[q].state = "RUNNING"})
  BY AnswerMoves DEF Escape, store, TypeOK, Answers
<1>1. TypeOK'
  BY <1>0 DEF TypeOK, HeldRuns, Unsaved, Moves, Only
<1>2. RowsWellFormed'
  BY <1>0 DEF RowsWellFormed, HeldRuns, NoRow, TypeOK, Moves, Only
<1>3. DownIsIdle'
  BY <1>0 DEF DownIsIdle, Moves, Only
<1>4. HeldRuns'
  BY <1>0 DEF HeldRuns, HeldOnce, Unsaved, RowsWellFormed, NoRow, TypeOK, Moves, Only
<1>5. HeldOnce'
  BY <1>0 DEF HeldOnce, HeldRuns, Unsaved, Moves, Only
<1>6. LedgerFollows'
  <2>1. \A d \in Calls : Command(d)' = Command(d)
    BY <1>0 DEF Command, Moves, Only
  <2>2. QED
    BY <1>0, <2>1 DEF LedgerFollows, HeldRuns, HeldOnce, LedgerSound, Moves, Only, Unsaved, Record
<1>7. OutcomeComplete'
  BY <1>0 DEF OutcomeComplete, HeldRuns, RowsWellFormed, NoRow, NoRows, Unsaved, TypeOK, Moves, Only
<1>8. LedgerSound'
  BY <1>0 DEF LedgerSound, HeldRuns, LedgerFollows, NoRow, TypeOK, Command, Moves, Only
<1>9. RunningAccountedFor'
  <2>1. ASSUME NEW q \in Runs, run'[q].state = "RUNNING", q \notin abandoned'
        PROVE  \E d \in Calls : call'[d].run = q /\ call'[d].step \in Executing
    <3>1. PICK d \in Calls : call[d].run = q /\ call[d].step \in Executing
      BY <1>0, <2>1 DEF RunningAccountedFor
    <3>2. call'[d].run = q /\ call'[d].step \in Executing
      BY <1>0, <2>1, <3>1 DEF Moves, Only, HeldRuns
    <3>3. QED
      BY <3>2
  <2>2. QED
    BY <1>0, <1>5, <2>1 DEF RunningAccountedFor, HeldOnce
<1>10. BrokerSeesRunning'
  BY <1>0 DEF BrokerSeesRunning, HeldRuns, AnswersDurable, TypeOK, Moves, Only
<1>11. AnswersDurable'
  BY <1>0 DEF AnswersDurable, HeldRuns, Unsaved, NoRow, TypeOK, RowsWellFormed, Moves, Only
<1>12. QED
  BY <1>1, <1>2, <1>3, <1>4, <1>5, <1>6, <1>7, <1>8, <1>9, <1>10, <1>11

(* Publish: the report is there before the outcome is committed.           *)
LEMMA PublishStep ==
  ASSUME Inductive, NEW c \in Calls, Publish(c)
  PROVE  Inductive'
<1> USE DEF Inductive, Steps, Executing, Terminal
<1>0. /\ UNCHANGED <<up, crashes, run, evidence, ledger, active, answered, created, abandoned>>
      /\ up /\ call[c].step = "publish"
      /\ \/ Moves(c, "commit", call[c].answer) /\ reports' = reports \cup {call[c].run}
         \/ Moves(c, "fail", call[c].answer) /\ reports' = reports
  BY GotoMoves DEF Publish, At, store, history, TypeOK
<1>1. TypeOK'
  BY <1>0 DEF TypeOK, HeldRuns, Unsaved, Moves, Only
<1>2. RowsWellFormed'
  BY <1>0 DEF RowsWellFormed, HeldRuns, NoRow, TypeOK, Moves, Only
<1>3. DownIsIdle'
  BY <1>0 DEF DownIsIdle, Moves, Only
<1>4. HeldRuns'
  BY <1>0 DEF HeldRuns, HeldOnce, Unsaved, RowsWellFormed, NoRow, TypeOK, Moves, Only
<1>5. HeldOnce'
  BY <1>0 DEF HeldOnce, HeldRuns, Unsaved, Moves, Only
<1>6. LedgerFollows'
  <2>1. \A d \in Calls : Command(d)' = Command(d)
    BY <1>0 DEF Command, Moves, Only
  <2>2. QED
    BY <1>0, <2>1 DEF LedgerFollows, HeldRuns, HeldOnce, LedgerSound, Moves, Only, Unsaved, Record
<1>7. OutcomeComplete'
  BY <1>0 DEF OutcomeComplete, HeldRuns, RowsWellFormed, NoRow, NoRows, Unsaved, TypeOK, Moves, Only
<1>8. LedgerSound'
  BY <1>0 DEF LedgerSound, HeldRuns, LedgerFollows, NoRow, TypeOK, Command, Moves, Only
<1>9. RunningAccountedFor'
  <2>1. ASSUME NEW q \in Runs, run'[q].state = "RUNNING", q \notin abandoned'
        PROVE  \E d \in Calls : call'[d].run = q /\ call'[d].step \in Executing
    <3>1. PICK d \in Calls : call[d].run = q /\ call[d].step \in Executing
      BY <1>0, <2>1 DEF RunningAccountedFor
    <3>2. call'[d].run = q /\ call'[d].step \in Executing
      BY <1>0, <2>1, <3>1 DEF Moves, Only, HeldRuns
    <3>3. QED
      BY <3>2
  <2>2. QED
    BY <1>0, <1>5, <2>1 DEF RunningAccountedFor, HeldOnce
<1>10. BrokerSeesRunning'
  BY <1>0 DEF BrokerSeesRunning, HeldRuns, AnswersDurable, TypeOK, Moves, Only
<1>11. AnswersDurable'
  BY <1>0 DEF AnswersDurable, HeldRuns, Unsaved, NoRow, TypeOK, RowsWellFormed, Moves, Only
<1>12. QED
  BY <1>1, <1>2, <1>3, <1>4, <1>5, <1>6, <1>7, <1>8, <1>9, <1>10, <1>11

(* Commit: evidence and terminal row in one step.                          *)
LEMMA CommitStep ==
  ASSUME Inductive, NEW c \in Calls, Commit(c)
  PROVE  Inductive'
<1> USE DEF Inductive, Steps, Executing, Terminal
<1>0. /\ UNCHANGED <<up, crashes, ledger, reports, active, answered, created, abandoned>>
      /\ up /\ call[c].step = "commit"
      /\ Moves(c, "finish", "succeeded")
      /\ run' = [run EXCEPT ![call[c].run] = [state |-> "SUCCEEDED", version |-> 2, failure |-> "none"]]
      /\ evidence' = [evidence EXCEPT ![call[c].run] = [result |-> @.result + 1, gate |-> @.gate + 1,
                                                       samples |-> @.samples + 1]]
  BY SetAnswerMoves DEF Commit, At, history, TypeOK, Answers
<1>1. TypeOK'
  <2>1. run' \in [Runs -> RunRow]
    BY <1>0 DEF HeldRuns, Unsaved, RunRow, TypeOK
  <2>2. QED
    BY <1>0, <2>1 DEF TypeOK, Moves, Only, HeldRuns
<1>2. RowsWellFormed'
  BY <1>0 DEF RowsWellFormed, HeldRuns, NoRow, TypeOK, Moves, Only
<1>3. DownIsIdle'
  BY <1>0 DEF DownIsIdle, Moves, Only
<1>4. HeldRuns'
  BY <1>0 DEF HeldRuns, HeldOnce, Unsaved, RowsWellFormed, NoRow, TypeOK, Moves, Only
<1>5. HeldOnce'
  BY <1>0 DEF HeldOnce, HeldRuns, Unsaved, Moves, Only
<1>6. LedgerFollows'
  <2>1. \A d \in Calls : Command(d)' = Command(d)
    BY <1>0 DEF Command, Moves, Only
  <2>2. QED
    BY <1>0, <2>1 DEF LedgerFollows, HeldRuns, HeldOnce, LedgerSound, Moves, Only, Unsaved, Record
<1>7. OutcomeComplete'
  BY <1>0 DEF OutcomeComplete, HeldRuns, RowsWellFormed, NoRow, NoRows, Unsaved, TypeOK, Moves, Only
<1>8. LedgerSound'
  BY <1>0 DEF LedgerSound, HeldRuns, LedgerFollows, NoRow, TypeOK, Command, Moves, Only
<1>9. RunningAccountedFor'
  <2>1. ASSUME NEW q \in Runs, run'[q].state = "RUNNING", q \notin abandoned'
        PROVE  \E d \in Calls : call'[d].run = q /\ call'[d].step \in Executing
    <3>1. PICK d \in Calls : call[d].run = q /\ call[d].step \in Executing
      BY <1>0, <2>1 DEF RunningAccountedFor
    <3>2. call'[d].run = q /\ call'[d].step \in Executing
      BY <1>0, <2>1, <3>1 DEF Moves, Only, HeldRuns, TypeOK
    <3>3. QED
      BY <3>2
  <2>2. QED
    BY <1>0, <1>5, <2>1 DEF RunningAccountedFor, HeldOnce
<1>10. BrokerSeesRunning'
  BY <1>0 DEF BrokerSeesRunning, HeldRuns, AnswersDurable, TypeOK, Moves, Only
<1>11. AnswersDurable'
  BY <1>0 DEF AnswersDurable, HeldRuns, Unsaved, NoRow, TypeOK, RowsWellFormed, Moves, Only
<1>12. QED
  BY <1>1, <1>2, <1>3, <1>4, <1>5, <1>6, <1>7, <1>8, <1>9, <1>10, <1>11

(* Fail: a terminal row, no evidence.                                      *)
LEMMA FailStep ==
  ASSUME Inductive, NEW c \in Calls, Fail(c)
  PROVE  Inductive'
<1> USE DEF Inductive, Steps, Executing, Terminal
<1>0. /\ UNCHANGED <<up, crashes, evidence, ledger, reports, active, answered, created, abandoned>>
      /\ up /\ call[c].step = "fail"
      /\ Moves(c, "finish", "failed")
      /\ run' = [run EXCEPT ![call[c].run] = [state |-> "FAILED", version |-> 2, failure |-> "engine"]]
  BY SetAnswerMoves DEF Fail, At, history, TypeOK, Answers
<1>1. TypeOK'
  <2>1. run' \in [Runs -> RunRow]
    BY <1>0 DEF HeldRuns, Unsaved, RunRow, TypeOK
  <2>2. QED
    BY <1>0, <2>1 DEF TypeOK, Moves, Only, HeldRuns
<1>2. RowsWellFormed'
  BY <1>0 DEF RowsWellFormed, HeldRuns, NoRow, TypeOK, Moves, Only
<1>3. DownIsIdle'
  BY <1>0 DEF DownIsIdle, Moves, Only
<1>4. HeldRuns'
  BY <1>0 DEF HeldRuns, HeldOnce, Unsaved, RowsWellFormed, NoRow, TypeOK, Moves, Only
<1>5. HeldOnce'
  BY <1>0 DEF HeldOnce, HeldRuns, Unsaved, Moves, Only
<1>6. LedgerFollows'
  <2>1. \A d \in Calls : Command(d)' = Command(d)
    BY <1>0 DEF Command, Moves, Only
  <2>2. QED
    BY <1>0, <2>1 DEF LedgerFollows, HeldRuns, HeldOnce, LedgerSound, Moves, Only, Unsaved, Record
<1>7. OutcomeComplete'
  BY <1>0 DEF OutcomeComplete, HeldRuns, RowsWellFormed, NoRow, NoRows, Unsaved, TypeOK, Moves, Only
<1>8. LedgerSound'
  BY <1>0 DEF LedgerSound, HeldRuns, LedgerFollows, NoRow, TypeOK, Command, Moves, Only
<1>9. RunningAccountedFor'
  <2>1. ASSUME NEW q \in Runs, run'[q].state = "RUNNING", q \notin abandoned'
        PROVE  \E d \in Calls : call'[d].run = q /\ call'[d].step \in Executing
    <3>1. PICK d \in Calls : call[d].run = q /\ call[d].step \in Executing
      BY <1>0, <2>1 DEF RunningAccountedFor
    <3>2. call'[d].run = q /\ call'[d].step \in Executing
      BY <1>0, <2>1, <3>1 DEF Moves, Only, HeldRuns, TypeOK
    <3>3. QED
      BY <3>2
  <2>2. QED
    BY <1>0, <1>5, <2>1 DEF RunningAccountedFor, HeldOnce
<1>10. BrokerSeesRunning'
  BY <1>0 DEF BrokerSeesRunning, HeldRuns, AnswersDurable, TypeOK, Moves, Only
<1>11. AnswersDurable'
  BY <1>0 DEF AnswersDurable, HeldRuns, Unsaved, NoRow, TypeOK, RowsWellFormed, Moves, Only
<1>12. QED
  BY <1>1, <1>2, <1>3, <1>4, <1>5, <1>6, <1>7, <1>8, <1>9, <1>10, <1>11

(* Finish: only a run that is not RUNNING leaves the broker's list.        *)
LEMMA FinishStep ==
  ASSUME Inductive, NEW c \in Calls, Finish(c)
  PROVE  Inductive'
<1> USE DEF Inductive, Steps, Executing, Terminal
<1>0. /\ UNCHANGED <<up, crashes, run, evidence, ledger, reports, created, abandoned>>
      /\ up /\ call[c].step = "finish"
      /\ Moves(c, "done", call[c].answer)
      /\ active' = active \ {call[c].run}
      /\ IF call[c].answer = "succeeded" THEN Record(c) ELSE answered' = answered
  BY GotoMoves DEF Finish, At, store, TypeOK
<1>1. TypeOK'
  <2>1. call[c].key # NoKey => Command(c) \in [key : Keys, body : Bodies, run : Runs]
    BY <1>0 DEF Command, HeldRuns, CallRecord, TypeOK
  <2>2. QED
    BY <1>0, <2>1 DEF TypeOK, Moves, Only, Record, HeldRuns
<1>2. RowsWellFormed'
  BY <1>0 DEF RowsWellFormed, HeldRuns, NoRow, TypeOK, Moves, Only
<1>3. DownIsIdle'
  BY <1>0 DEF DownIsIdle, Moves, Only
<1>4. HeldRuns'
  <2>1. run[call[c].run] # NoRow
    BY <1>0 DEF HeldRuns, AnswersDurable, NoRow
  <2>2. QED
    BY <1>0, <2>1 DEF HeldRuns, Unsaved, Moves, Only
<1>5. HeldOnce'
  BY <1>0 DEF HeldOnce, HeldRuns, Unsaved, Moves, Only
<1>6. LedgerFollows'
  <2>1. \A d \in Calls : Command(d)' = Command(d)
    BY <1>0 DEF Command, Moves, Only
  <2>2. QED
    BY <1>0, <2>1 DEF LedgerFollows, HeldRuns, HeldOnce, LedgerSound, Moves, Only, Unsaved, Record
<1>7. OutcomeComplete'
  BY <1>0 DEF OutcomeComplete, HeldRuns, RowsWellFormed, NoRow, NoRows, Unsaved, TypeOK, Moves, Only
<1>8. LedgerSound'
  BY <1>0 DEF LedgerSound, HeldRuns, LedgerFollows, NoRow, TypeOK, Command, Moves, Only
<1>9. RunningAccountedFor'
  <2>1. ASSUME NEW q \in Runs, run'[q].state = "RUNNING", q \notin abandoned'
        PROVE  \E d \in Calls : call'[d].run = q /\ call'[d].step \in Executing
    <3>1. PICK d \in Calls : call[d].run = q /\ call[d].step \in Executing
      BY <1>0, <2>1 DEF RunningAccountedFor
    <3>2. call'[d].run = q /\ call'[d].step \in Executing
      BY <1>0, <2>1, <3>1 DEF Moves, Only, HeldRuns
    <3>3. QED
      BY <3>2
  <2>2. QED
    BY <1>0, <1>5, <2>1 DEF RunningAccountedFor, HeldOnce
<1>10. BrokerSeesRunning'
  BY <1>0 DEF BrokerSeesRunning, HeldRuns, AnswersDurable, TypeOK, Moves, Only
<1>11. AnswersDurable'
  BY <1>0 DEF AnswersDurable, HeldRuns, Unsaved, NoRow, TypeOK, RowsWellFormed, Moves, Only
<1>12. QED
  BY <1>1, <1>2, <1>3, <1>4, <1>5, <1>6, <1>7, <1>8, <1>9, <1>10, <1>11

(* Release: an idle thread holds nothing.                                  *)
LEMMA ReleaseStep ==
  ASSUME Inductive, NEW c \in Calls, Release(c)
  PROVE  Inductive'
<1> USE DEF Inductive, Steps, Executing, Terminal
<1>0. /\ UNCHANGED <<up, crashes, run, evidence, ledger, reports, active, answered, created, abandoned>>
      /\ up /\ call[c].step = "done"
      /\ call' \in [Calls -> CallRecord]
      /\ \A d \in Calls : d # c => call'[d] = call[d]
      /\ call'[c].step = "idle"
  <2>1. Idle \in CallRecord /\ Idle.step = "idle"
    BY DEF Idle, CallRecord, Answers
  <2>2. QED
    BY <2>1 DEF Release, At, store, history, TypeOK
<1>1. TypeOK'
  BY <1>0 DEF TypeOK, HeldRuns, Unsaved, Moves, Only
<1>2. RowsWellFormed'
  BY <1>0 DEF RowsWellFormed, HeldRuns, NoRow, TypeOK, Moves, Only
<1>3. DownIsIdle'
  BY <1>0 DEF DownIsIdle, Moves, Only
<1>4. HeldRuns'
  BY <1>0 DEF HeldRuns, HeldOnce, Unsaved, RowsWellFormed, NoRow, TypeOK, Moves, Only
<1>5. HeldOnce'
  BY <1>0 DEF HeldOnce, HeldRuns, Unsaved, Moves, Only
<1>6. LedgerFollows'
  <2>1. \A d \in Calls : d # c => Command(d)' = Command(d)
    BY <1>0 DEF Command, Moves, Only
  <2>2. QED
    BY <1>0, <2>1 DEF LedgerFollows, Moves, Only
<1>7. OutcomeComplete'
  BY <1>0 DEF OutcomeComplete, HeldRuns, RowsWellFormed, NoRow, NoRows, Unsaved, TypeOK, Moves, Only
<1>8. LedgerSound'
  BY <1>0 DEF LedgerSound, HeldRuns, LedgerFollows, NoRow, TypeOK, Command, Moves, Only
<1>9. RunningAccountedFor'
  <2>1. ASSUME NEW q \in Runs, run'[q].state = "RUNNING", q \notin abandoned'
        PROVE  \E d \in Calls : call'[d].run = q /\ call'[d].step \in Executing
    <3>1. PICK d \in Calls : call[d].run = q /\ call[d].step \in Executing
      BY <1>0, <2>1 DEF RunningAccountedFor
    <3>2. call'[d].run = q /\ call'[d].step \in Executing
      BY <1>0, <2>1, <3>1 DEF Moves, Only, HeldRuns
    <3>3. QED
      BY <3>2
  <2>2. QED
    BY <1>0, <1>5, <2>1 DEF RunningAccountedFor, HeldOnce
<1>10. BrokerSeesRunning'
  BY <1>0 DEF BrokerSeesRunning, HeldRuns, AnswersDurable, TypeOK, Moves, Only
<1>11. AnswersDurable'
  BY <1>0 DEF AnswersDurable, HeldRuns, Unsaved, NoRow, TypeOK, RowsWellFormed, Moves, Only
<1>12. QED
  BY <1>1, <1>2, <1>3, <1>4, <1>5, <1>6, <1>7, <1>8, <1>9, <1>10, <1>11

-----------------------------------------------------------------------------
(* The process.                                                            *)

(* Inductive holds initially.                                              *)
LEMMA InitInductive == Init => Inductive
<1> SUFFICES ASSUME Init PROVE Inductive
  OBVIOUS
<1>1. TypeOK
  <2>1. Idle \in CallRecord
    BY DEF Idle, CallRecord, Steps, Answers
  <2>2. NoRow \in RunRow /\ NoRows \in [result : Nat, gate : Nat, samples : Nat]
    BY DEF NoRow, RunRow, NoRows
  <2>3. QED
    BY <2>1, <2>2, BoundsAssumption DEF Init, TypeOK
<1>2. \A c \in Calls : call[c].step = "idle"
  BY DEF Init, Idle
<1>3. \A r \in Runs : run[r] = NoRow /\ evidence[r] = NoRows
  BY DEF Init
<1>4. HeldRuns /\ HeldOnce /\ LedgerFollows /\ AnswersDurable
  BY <1>2 DEF Init, HeldRuns, HeldOnce, LedgerFollows, AnswersDurable, Unsaved, Executing
<1>5. OutcomeComplete /\ LedgerSound /\ RunningAccountedFor /\ BrokerSeesRunning
  BY <1>2, <1>3 DEF Init, OutcomeComplete, LedgerSound, RunningAccountedFor, BrokerSeesRunning,
                    NoRow, Executing
<1>6. QED
  BY <1>1, <1>3, <1>4, <1>5 DEF Init, Inductive, RowsWellFormed, DownIsIdle

(* Crash: no thread is left, the stores stay.                              *)
LEMMA CrashStep ==
  ASSUME Inductive, Crash
  PROVE  Inductive'
<1>1. /\ UNCHANGED <<run, evidence, ledger, reports, active, answered, created, abandoned>>
      /\ up' = FALSE
      /\ \A c \in Calls : call'[c] = Idle
  BY DEF Crash, store, history
<1>2. TypeOK'
  <2>1. Idle \in CallRecord
    BY DEF Idle, CallRecord, Steps, Answers
  <2>2. crashes' \in 0..MaxCrashes
    BY BoundsAssumption DEF Inductive, TypeOK, Crash
  <2>3. call' \in [Calls -> CallRecord]
    BY <2>1 DEF Crash
  <2>4. QED
    BY <1>1, <2>2, <2>3 DEF Inductive, TypeOK
<1>3. Idle.step = "idle"
  BY DEF Idle
<1>4. HeldRuns' /\ HeldOnce' /\ LedgerFollows' /\ AnswersDurable'
  BY <1>1, <1>3 DEF Inductive, HeldRuns, HeldOnce, LedgerFollows, AnswersDurable, Unsaved, Executing
<1>5. OutcomeComplete' /\ LedgerSound' /\ RunningAccountedFor' /\ BrokerSeesRunning'
  BY <1>1 DEF Inductive, OutcomeComplete, LedgerSound, RunningAccountedFor, BrokerSeesRunning, NoRows
<1>6. RowsWellFormed' /\ DownIsIdle'
  BY <1>1 DEF Inductive, RowsWellFormed, DownIsIdle, NoRow
<1>7. QED
  BY <1>2, <1>4, <1>5, <1>6 DEF Inductive

(* What a process start does to the rows: a RUNNING one fails, the others  *)
(* stay.                                                                   *)
LEMMA RestartRows ==
  ASSUME TypeOK, RowsWellFormed, Restart, NEW r \in Runs
  PROVE  \/ /\ run[r].state = "RUNNING"
            /\ run[r].version = 1
            /\ run'[r] = [state |-> "FAILED", version |-> 2, failure |-> "interrupted"]
         \/ run[r].state # "RUNNING" /\ run'[r] = run[r]
<1>1. run'[r] = Interrupted(run[r])
  BY DEF Restart
<1>2. CASE run[r].state = "RUNNING"
  BY <1>1, <1>2 DEF Interrupted, RowsWellFormed, NoRow
<1>3. CASE run[r].state # "RUNNING"
  BY <1>1, <1>3 DEF Interrupted
<1>4. QED
  BY <1>2, <1>3

(* Restart: the leftovers are FAILED before any thread starts.             *)
LEMMA RestartStep ==
  ASSUME Inductive, Restart
  PROVE  Inductive'
<1> USE DEF Inductive
<1>1. /\ UNCHANGED <<crashes, evidence, ledger, reports, call, answered, created>>
      /\ abandoned' = {} /\ up' = TRUE
      /\ active' = {r \in Runs : run'[r].state = "RUNNING"}
  BY DEF Restart
<1>2. \A c \in Calls : call[c].step = "idle"
  BY DEF Restart, DownIsIdle, Idle
<1>3. \A r \in Runs : \/ /\ run[r].state = "RUNNING" /\ run[r].version = 1
                         /\ run'[r] = [state |-> "FAILED", version |-> 2, failure |-> "interrupted"]
                      \/ run[r].state # "RUNNING" /\ run'[r] = run[r]
  BY RestartRows
<1>4. TypeOK'
  <2>1. \A r \in Runs : run'[r] \in RunRow
    BY <1>3 DEF TypeOK, RunRow, Terminal
  <2>2. run' \in [Runs -> RunRow]
    BY <2>1 DEF Restart
  <2>3. QED
    BY <1>1, <2>2 DEF TypeOK
<1>5. RowsWellFormed'
  BY <1>3 DEF RowsWellFormed, NoRow
<1>6. DownIsIdle' /\ BrokerSeesRunning'
  BY <1>1 DEF DownIsIdle, BrokerSeesRunning
<1>7. HeldRuns' /\ HeldOnce' /\ LedgerFollows' /\ AnswersDurable'
  BY <1>1, <1>2 DEF HeldRuns, HeldOnce, LedgerFollows, AnswersDurable, Unsaved, Executing, Command
<1>8. OutcomeComplete'
  BY <1>1, <1>3 DEF OutcomeComplete, NoRows
<1>9. LedgerSound'
  BY <1>1, <1>3 DEF LedgerSound, TypeOK
<1>10. RunningAccountedFor'
  BY <1>1, <1>2, <1>3 DEF RunningAccountedFor, Executing
<1>11. QED
  BY <1>4, <1>5, <1>6, <1>7, <1>8, <1>9, <1>10

(* A step that changes nothing.                                            *)
LEMMA StutterStep ==
  ASSUME Inductive, UNCHANGED vars
  PROVE  Inductive'
BY DEF vars, store, history, Inductive, TypeOK, RowsWellFormed, DownIsIdle, HeldRuns, HeldOnce,
       LedgerFollows, Command, OutcomeComplete, LedgerSound, RunningAccountedFor,
       BrokerSeesRunning, AnswersDurable

(* Every step preserves Inductive.                                         *)
LEMMA NextInductive == Inductive /\ [Next]_vars => Inductive'
<1> SUFFICES ASSUME Inductive, [Next]_vars PROVE Inductive'
  OBVIOUS
<1>1. ASSUME NEW c \in Calls, Submit(c) PROVE Inductive'
  BY <1>1, SubmitStep
<1>2. ASSUME NEW c \in Calls, Step(c) PROVE Inductive'
  BY <1>2, ResolveStep, ReplayStep, AdmitStep, SaveRunStep, RememberStep, EvaluateStep,
     PublishStep, CommitStep, FailStep, EscapeStep, FinishStep, ReleaseStep DEF Step
<1>3. CASE Crash
  BY <1>3, CrashStep
<1>4. CASE Restart
  BY <1>4, RestartStep
<1>5. CASE UNCHANGED vars
  BY <1>5, StutterStep
<1>6. QED
  BY <1>1, <1>2, <1>3, <1>4, <1>5 DEF Next

-----------------------------------------------------------------------------
(* The theorems.                                                           *)

(* The inductive invariant holds of every reachable state.                 *)
THEOREM InductiveInvariant == Spec => []Inductive
<1>1. Init => Inductive
  BY InitInductive
<1>2. Inductive /\ [Next]_vars => Inductive'
  BY NextInductive
<1>3. QED
  BY <1>1, <1>2, PTL DEF Spec

(* Every variable keeps its type: create_run and a process start write no  *)
(* state of a run but RUNNING, SUCCEEDED and FAILED.                       *)
THEOREM TypeCorrect == Spec => []TypeOK
<1>1. Inductive => TypeOK
  BY DEF Inductive
<1>2. QED
  BY <1>1, InductiveInvariant, PTL

(* Result, gate and samples exist exactly for the SUCCEEDED runs, once     *)
(* each and over a published report, whatever fails or crashes.            *)
THEOREM OutcomeIsAtomic == Spec => []OutcomeComplete
<1>1. Inductive => OutcomeComplete
  BY DEF Inductive
<1>2. QED
  BY <1>1, InductiveInvariant, PTL

(* The ledger names saved runs, one per key.                               *)
THEOREM LedgerIsSound == Spec => []LedgerSound
<1>1. Inductive => LedgerSound
  BY DEF Inductive
<1>2. QED
  BY <1>1, InductiveInvariant, PTL

(* Two commands answered 201 under one key had one body and got one run:   *)
(* every such answer is a row of the ledger, and a key has one row.        *)
THEOREM ReplayAgreement == Spec => []AnswersAgree
<1>1. Inductive => AnswersAgree
  BY DEF Inductive, LedgerFollows, LedgerSound, AnswersAgree
<1>2. QED
  BY <1>1, InductiveInvariant, PTL

(* A RUNNING run of a serving process has its own thread, or lost it to an *)
(* uncaught error.                                                         *)
THEOREM RunningIsOwned == Spec => []RunningAccountedFor
<1>1. Inductive => RunningAccountedFor
  BY DEF Inductive
<1>2. QED
  BY <1>1, InductiveInvariant, PTL

(* The activity broker knows every RUNNING run of a managed process.       *)
THEOREM BrokerCoversRunning == Spec => []BrokerSeesRunning
<1>1. Inductive => BrokerSeesRunning
  BY DEF Inductive
<1>2. QED
  BY <1>1, InductiveInvariant, PTL

(* What a client is told has been committed.                               *)
THEOREM AnswersAreDurable == Spec => []AnswersDurable
<1>1. Inductive => AnswersDurable
  BY DEF Inductive
<1>2. QED
  BY <1>1, InductiveInvariant, PTL

(* What RunsChangeOnce allows a step to do to one row.                     *)
OneChange(r) ==
  run[r].state # "ABSENT" /\ run'[r] # run[r] =>
    /\ run[r].state = "RUNNING" /\ run[r].version = 1
    /\ run'[r].state \in Terminal /\ run'[r].version = 2

(* Every step from Inductive changes a saved run at most from RUNNING to   *)
(* terminal.                                                               *)
LEMMA NextOneChange ==
  ASSUME Inductive, [Next]_vars, NEW r \in Runs
  PROVE  OneChange(r)
<1> USE DEF Inductive
<1>1. ASSUME NEW c \in Calls, SaveRun(c) PROVE OneChange(r)
  BY <1>1 DEF SaveRun, At, HeldRuns, Unsaved, NoRow, TypeOK, OneChange
<1>2. ASSUME NEW c \in Calls, Commit(c) PROVE OneChange(r)
  BY <1>2 DEF Commit, At, HeldRuns, Executing, RowsWellFormed, NoRow, TypeOK, Terminal, OneChange
<1>3. ASSUME NEW c \in Calls, Fail(c) PROVE OneChange(r)
  BY <1>3 DEF Fail, At, HeldRuns, Executing, RowsWellFormed, NoRow, TypeOK, Terminal, OneChange
<1>4. CASE Restart
  BY <1>4, RestartRows DEF OneChange, Terminal
<1>5. CASE run' = run
  BY <1>5 DEF OneChange
<1>6. \/ run' = run
      \/ Restart
      \/ \E c \in Calls : SaveRun(c) \/ Commit(c) \/ Fail(c)
  BY DEF Next, Step, Submit, Resolve, Replay, Admit, Remember, Evaluate, Publish, Escape, Finish,
         Release, Crash, vars, store
<1>7. QED
  BY <1>1, <1>2, <1>3, <1>4, <1>5, <1>6

(* A saved run's row changes once, from RUNNING at version 1 to a terminal *)
(* state at version 2: no late thread and no process start rewrites it.    *)
THEOREM RowsChangeOnce == Spec => RunsChangeOnce
<1>1. Inductive /\ [Next]_vars =>
        [\A r \in Runs : run[r].state # "ABSENT" /\ run'[r] # run[r] =>
           /\ run[r].state = "RUNNING" /\ run[r].version = 1
           /\ run'[r].state \in Terminal /\ run'[r].version = 2]_vars
  BY NextOneChange DEF OneChange
<1>2. QED
  BY <1>1, InductiveInvariant, PTL DEF Spec, RunsChangeOnce

-----------------------------------------------------------------------------
(* Part two: InputEvaluation.                                              *)

-----------------------------------------------------------------------------
(* An evaluation is a call of create_run with some more state.             *)

(* Every step of an evaluating process is a step of create_run, of the     *)
(* process, or of neither.                                                 *)
LEMMA InputNextIsNext == [InputNext]_allVars => [Next]_vars
<1>1. ASSUME NEW c \in Evaluators, Begin(c) \/ Proceed(c) \/ SaveInput(c) \/ Raise(c)
      PROVE  Next
  BY <1>1, EvaluatorsAssumption DEF Begin, Proceed, SaveInput, Raise, Return, Next, Step
<1>2. ASSUME NEW c \in Calls, PlainCall(c) PROVE Next
  BY <1>2 DEF PlainCall, Next
<1>3. Stop \/ Start => Next
  BY DEF Stop, Start, Next
<1>4. UNCHANGED allVars => UNCHANGED vars
  BY DEF allVars
<1>5. QED
  BY <1>1, <1>2, <1>3, <1>4 DEF InputNext

(* LifecycleActions.evaluate keeps what create_run promises.               *)
THEOREM RunsOfEvaluations == InputSpec => Spec
<1>1. InputInit => Init
  BY DEF InputInit
<1>2. QED
  BY <1>1, InputNextIsNext, PTL DEF InputSpec, Spec

-----------------------------------------------------------------------------
(* What a step of create_run does to its thread and to the commands.       *)

(* The thread keeps its command and does not become idle before it is      *)
(* done; no other thread moves.                                            *)
LEMMA StepMoves ==
  ASSUME Inductive, NEW c \in Calls, Step(c)
  PROVE  /\ call[c].step # "idle"
         /\ call' \in [Calls -> CallRecord]
         /\ \A d \in Calls : d # c => call'[d] = call[d]
         /\ call[c].step # "done" => Only(c) /\ call'[c].step # "idle"
         /\ call[c].step = "done" => call'[c] = Idle
<1> USE DEF Inductive, Steps, Executing, Answers
<1>1. CASE Resolve(c)
  <2>1. call[c].step = "resolve" /\ Only(c) /\ call'[c].step \in {"done", "replay", "admit", "save"}
    BY <1>1, ResolveEffect
  <2>2. QED
    BY <2>1 DEF Only
<1>2. CASE Replay(c) \/ Admit(c) \/ SaveRun(c) \/ Remember(c)
  BY <1>2, GotoMoves, AnswerMoves DEF Replay, Admit, SaveRun, Remember, At, TypeOK, Moves, Only
<1>3. CASE Evaluate(c) \/ Publish(c) \/ Escape(c) \/ Finish(c)
  BY <1>3, GotoMoves, AnswerMoves DEF Evaluate, Publish, Escape, Finish, At, TypeOK, Moves, Only
<1>4. CASE Commit(c) \/ Fail(c)
  <2>1. Moves(c, "finish", "succeeded") \/ Moves(c, "finish", "failed")
    BY <1>4, SetAnswerMoves DEF Commit, Fail, TypeOK
  <2>2. call[c].step \in {"commit", "fail"}
    BY <1>4 DEF Commit, Fail, At
  <2>3. QED
    BY <2>1, <2>2 DEF Moves, Only
<1>5. CASE Release(c)
  <2>1. Idle \in CallRecord
    BY DEF Idle, CallRecord
  <2>2. QED
    BY <1>5, <2>1 DEF Release, At, TypeOK
<1>6. QED
  BY <1>1, <1>2, <1>3, <1>4, <1>5 DEF Step

(* A saved run stays saved.                                                *)
LEMMA SavedStays ==
  ASSUME Inductive, [Next]_vars, NEW r \in Runs, run[r].state # "ABSENT"
  PROVE  run'[r].state # "ABSENT"
BY NextOneChange DEF OneChange, Terminal

(* A command is recorded with its saved run, before its row of the ledger. *)
LEMMA StepRecords ==
  ASSUME Inductive, Recorded, NEW c \in Calls, Step(c)
  PROVE  /\ created \subseteq created'
         /\ \A cmd \in created' \ created : cmd.run \in Runs /\ run'[cmd.run].state # "ABSENT"
         /\ \A a, b \in created' : a.run = b.run => a = b
         /\ ledger' \subseteq created'
         /\ Holding(c)' => Command(c)' \in created'
<1> USE DEF Inductive, Steps, Executing, Answers, Recorded
<1>1. CASE Resolve(c)
  BY <1>1, ResolveEffect DEF Holding, Good
<1>2. CASE Replay(c) \/ Admit(c)
  BY <1>2, GotoMoves, AnswerMoves
     DEF Replay, Admit, store, history, At, TypeOK, Moves, Only, Holding, Good, Command
<1>3. CASE SaveRun(c)
  <2>1. /\ created' = created \cup {Command(c)} /\ ledger' = ledger
        /\ Moves(c, "remember", call[c].answer)
    BY <1>3, GotoMoves DEF SaveRun, At, TypeOK
  <2>2. Command(c)' = Command(c) /\ Command(c).run = call[c].run
    BY <2>1 DEF Moves, Only, Command
  <2>3. call[c].run \in Runs /\ run'[call[c].run].state = "RUNNING"
    BY <1>3 DEF SaveRun, At, HeldRuns, Unsaved, TypeOK
  <2>4. \A cmd \in created : cmd.run # call[c].run
    BY <1>3 DEF SaveRun, At, HeldRuns, Unsaved, NoRow
  <2>5. \A a, b \in created' : a.run = b.run => a = b
    BY <2>1, <2>2, <2>4
  <2>6. QED
    BY <2>1, <2>2, <2>3, <2>5
<1>4. CASE Remember(c)
  <2>1. Holding(c) /\ Command(c) \in created
    BY <1>4 DEF Remember, At, Holding
  <2>2. /\ created' = created /\ ledger' \subseteq ledger \cup {Command(c)}
        /\ \/ Moves(c, "evaluate", call[c].answer)
           \/ Moves(c, "done", "error")
    BY <1>4, GotoMoves, AnswerMoves DEF Remember, At, TypeOK, Command
  <2>3. Command(c)' = Command(c)
    BY <2>2 DEF Moves, Only, Command
  <2>4. QED
    BY <2>1, <2>2, <2>3
<1>5. CASE Evaluate(c) \/ Publish(c) \/ Escape(c) \/ Finish(c)
  <2>1. UNCHANGED <<created, ledger>>
    BY <1>5 DEF Evaluate, Publish, Escape, Finish, store, history
  <2>2. \/ call[c].step \in Executing /\ \E s \in Steps : Moves(c, s, call[c].answer)
        \/ Moves(c, "done", "error")
        \/ call[c].step = "finish" /\ Moves(c, "done", call[c].answer)
    BY <1>5, GotoMoves, AnswerMoves DEF Evaluate, Publish, Escape, Finish, At, TypeOK
  <2>3. Command(c)' = Command(c)
    BY <2>2 DEF Moves, Only, Command
  <2>4. Holding(c)' => Holding(c)
    BY <2>2 DEF Moves, Holding, Good
  <2>5. QED
    BY <2>1, <2>3, <2>4
<1>6. CASE Commit(c) \/ Fail(c)
  BY <1>6, SetAnswerMoves
     DEF Commit, Fail, history, At, TypeOK, Moves, Only, Holding, Good, Command
<1>7. CASE Release(c)
  BY <1>7 DEF Release, store, history, At, TypeOK, Idle, Holding, Good
<1>8. QED
  BY <1>1, <1>2, <1>3, <1>4, <1>5, <1>6, <1>7 DEF Step

(* Recorded is an invariant of EvaluationRuns on its own.                  *)
LEMMA RecordedNext ==
  ASSUME Inductive, Recorded, [Next]_vars
  PROVE  Recorded' /\ created \subseteq created'
<1> USE DEF Recorded
<1>1. \A r \in Runs : run[r].state # "ABSENT" => run'[r].state # "ABSENT"
  BY SavedStays
<1>2. \A cmd \in created : cmd.run \in Runs
  BY DEF Inductive, TypeOK
<1>3. ASSUME NEW c \in Calls, Submit(c)
      PROVE  Recorded' /\ created \subseteq created'
  <2>1. \A d \in Calls : d # c => Command(d)' = Command(d) /\ Holding(d)' = Holding(d)
    BY <1>3, SubmitEffect DEF Command, Holding, Good
  <2>2. ~Holding(c)'
    BY <1>3, SubmitEffect DEF Holding, Executing
  <2>3. QED
    BY <1>3, <2>1, <2>2, SubmitEffect
<1>4. ASSUME NEW c \in Calls, Step(c)
      PROVE  Recorded' /\ created \subseteq created'
  <2>1. \A d \in Calls : d # c => Command(d)' = Command(d) /\ Holding(d)' = Holding(d)
    BY <1>4, StepMoves DEF Command, Holding, Good
  <2>2. \A d \in Calls : Holding(d)' => Command(d)' \in created'
    BY <1>4, <2>1, StepRecords
  <2>3. QED
    BY <1>1, <1>2, <1>4, <2>2, StepRecords
<1>5. CASE Crash
  <2>1. \A d \in Calls : ~Holding(d)'
    BY <1>5 DEF Crash, Idle, Holding, Good, Executing
  <2>2. QED
    BY <1>5, <2>1 DEF Crash, store, history
<1>6. CASE Restart
  <2>1. \A d \in Calls : Command(d)' = Command(d) /\ Holding(d)' = Holding(d)
    BY <1>6 DEF Restart, Command, Holding, Good
  <2>2. created' = created /\ ledger' = ledger
    BY <1>6 DEF Restart
  <2>3. QED
    BY <1>1, <1>2, <2>1, <2>2
<1>7. CASE UNCHANGED vars
  <2>1. \A d \in Calls : Command(d)' = Command(d) /\ Holding(d)' = Holding(d)
    BY <1>7 DEF vars, Command, Holding, Good
  <2>2. QED
    BY <1>7, <2>1 DEF vars, store, history
<1>8. QED
  BY <1>3, <1>4, <1>5, <1>6, <1>7 DEF Next

-----------------------------------------------------------------------------
(* create_run keeps the promise of KeyedCreate.                            *)

(* Recorded holds initially.                                               *)
LEMMA InitRecorded == Init => Recorded
BY DEF Init, Recorded, Holding, Good, Idle, Executing

(* No step but SaveRun, Remember and the two that record an answer touches *)
(* what the promise is about.                                              *)
LEMMA PromiseUntouched ==
  ASSUME UNCHANGED <<ledger, created, answered>>
  PROVE  UNCHANGED Promise!vars
BY DEF Promise!vars, Kept, Effective, Receipts

(* An answer to a keyed command is one for a row of the ledger.            *)
LEMMA RecordResponds ==
  ASSUME Inductive, Recorded, NEW c \in Calls, Record(c), UNCHANGED <<ledger, created>>,
         call[c].key # NoKey => Command(c) \in ledger
  PROVE  [Promise!Next]_(Promise!vars)
<1>1. CASE call[c].key = NoKey
  BY <1>1, PromiseUntouched DEF Record
<1>2. CASE call[c].key # NoKey
  <2> DEFINE k == call[c].key
             b == call[c].body
             r == call[c].run
  <2>1. /\ Command(c) \in ledger
        /\ Command(c).key = k /\ Command(c).body = b /\ Command(c).run = r
        /\ k \in Keys /\ b \in Bodies /\ r \in Runs
    BY <1>2 DEF Command, Inductive, TypeOK
  <2>2. [id |-> r, body |-> b] \in Kept
    BY <2>1 DEF Kept, Effective
  <2>3. Promise!ReceiptOf(k, b, r) \subseteq Receipts(ledger)
    BY <1>2, <2>1 DEF Promise!ReceiptOf, Receipts
  <2>4. Receipts(answered)' = Receipts(answered) \cup {[key |-> k, body |-> b, id |-> r]}
    BY <1>2, <2>1 DEF Record, Receipts
  <2>5. Kept' = Kept /\ Receipts(ledger)' = Receipts(ledger)
    BY DEF Kept, Effective, Receipts
  <2>6. Promise!Respond(k, b, r)
    BY <2>2, <2>3, <2>4, <2>5 DEF Promise!Respond
  <2>7. QED
    BY <2>1, <2>6 DEF Promise!Next
<1>3. QED
  BY <1>1, <1>2

(* A command takes effect: it is the first of its key, and of its run.     *)
LEMMA TakesEffect ==
  ASSUME NEW cmd \in [key : Keys \cup {NoKey}, body : Bodies, run : Runs],
         Effective' = Effective \cup {cmd},
         ledger' = ledger \cup (IF cmd.key = NoKey THEN {} ELSE {cmd}),
         \A e \in ledger : e.key # cmd.key,
         \A e \in Effective : e.run # cmd.run,
         answered' = answered
  PROVE  [Promise!Next]_(Promise!vars)
<1>1. /\ \A e \in Receipts(ledger) : e.key # cmd.key
      /\ \A k \in Kept : k.id # cmd.run
  BY DEF Receipts, Kept
<1>2. Kept' = Kept \cup {[id |-> cmd.run, body |-> cmd.body]}
  BY DEF Kept
<1>3. Receipts(ledger)' = Receipts(ledger) \cup Promise!ReceiptOf(cmd.key, cmd.body, cmd.run)
  BY DEF Receipts, Promise!ReceiptOf
<1>4. Receipts(answered)' = Receipts(answered)
  BY DEF Receipts
<1>5. Promise!Create(cmd.key, cmd.body, cmd.run)
  BY <1>1, <1>2, <1>3, <1>4 DEF Promise!Create
<1>6. QED
  BY <1>5 DEF Promise!Next

(* SaveRun lets a command without a key take effect.                       *)
LEMMA SaveRunSimulates ==
  ASSUME Inductive, Recorded, NEW c \in Calls, SaveRun(c)
  PROVE  [Promise!Next]_(Promise!vars)
<1>1. /\ call[c].step = "save" /\ ledger' = ledger /\ answered' = answered
      /\ created' = created \cup {Command(c)}
  BY DEF SaveRun, At
<1>2. /\ Command(c) \in [key : Keys \cup {NoKey}, body : Bodies, run : Runs]
      /\ Command(c).key = call[c].key /\ Command(c).run = call[c].run
      /\ run[call[c].run].state = "ABSENT"
  BY <1>1 DEF Command, CallRecord, Inductive, TypeOK, HeldRuns, Unsaved, NoRow
<1>3. CASE call[c].key # NoKey
  <2>1. Effective' = Effective
    BY <1>1, <1>2, <1>3 DEF Effective
  <2>2. UNCHANGED Promise!vars
    BY <1>1, <2>1 DEF Promise!vars, Kept, Receipts
  <2>3. QED
    BY <2>2
<1>4. CASE call[c].key = NoKey
  <2>1. Effective' = Effective \cup {Command(c)}
    BY <1>1, <1>2, <1>4 DEF Effective
  <2>2. \A e \in ledger : e.key # NoKey
    BY CallsAssumption DEF Inductive, TypeOK
  <2>3. \A e \in Effective : e.run # call[c].run
    BY <1>2 DEF Effective, Recorded
  <2>4. QED
    BY <1>1, <1>2, <1>4, <2>1, <2>2, <2>3, TakesEffect
<1>5. QED
  BY <1>3, <1>4

(* Remember lets one with a key take effect, and no other of its key.      *)
LEMMA RememberSimulates ==
  ASSUME Inductive, Recorded, NEW c \in Calls, Remember(c)
  PROVE  [Promise!Next]_(Promise!vars)
<1>1. /\ call[c].step = "remember" /\ created' = created /\ answered' = answered
      /\ \/ ledger' = ledger
         \/ /\ call[c].key # NoKey /\ ledger' = ledger \cup {Command(c)}
            /\ \A e \in ledger : e.key # call[c].key
  BY DEF Remember, At, KeyFree, Row, Command
<1>2. CASE ledger' = ledger
  BY <1>1, <1>2, PromiseUntouched
<1>3. CASE /\ call[c].key # NoKey /\ ledger' = ledger \cup {Command(c)}
           /\ \A e \in ledger : e.key # call[c].key
  <2>1. /\ Command(c) \in created
        /\ Command(c).key = call[c].key /\ Command(c).run = call[c].run
    BY <1>1 DEF Recorded, Holding, Executing, Command
  <2>2. Command(c) \in [key : Keys \cup {NoKey}, body : Bodies, run : Runs]
    BY <2>1 DEF Inductive, TypeOK
  <2>3. \A e \in ledger : e.run # call[c].run
    BY <1>1 DEF Inductive, LedgerFollows
  <2>4. \A e \in Effective : e.run # call[c].run
    BY <1>3, <2>1, <2>3 DEF Effective, Recorded
  <2>5. Effective' = Effective \cup {Command(c)}
    BY <1>1, <1>3 DEF Effective
  <2>6. QED
    BY <1>1, <1>3, <2>1, <2>2, <2>4, <2>5, TakesEffect
<1>4. QED
  BY <1>1, <1>2, <1>3

(* Every step of create_run and of the process is a step of the promise.   *)
LEMMA NextSimulates ==
  ASSUME Inductive, Recorded, [Next]_vars
  PROVE  [Promise!Next]_(Promise!vars)
<1>1. ASSUME NEW c \in Calls, SaveRun(c) PROVE [Promise!Next]_(Promise!vars)
  BY <1>1, SaveRunSimulates
<1>2. ASSUME NEW c \in Calls, Remember(c) PROVE [Promise!Next]_(Promise!vars)
  BY <1>2, RememberSimulates
<1>3. ASSUME NEW c \in Calls, Replay(c) PROVE [Promise!Next]_(Promise!vars)
  <2>1. UNCHANGED <<ledger, created>>
    BY <1>3 DEF Replay, store
  <2>2. call[c].key # NoKey => Command(c) \in ledger
    BY <1>3 DEF Replay, At, Inductive, LedgerFollows
  <2>3. UNCHANGED answered \/ Record(c)
    BY <1>3 DEF Replay
  <2>4. QED
    BY <2>1, <2>2, <2>3, RecordResponds, PromiseUntouched
<1>4. ASSUME NEW c \in Calls, Finish(c) PROVE [Promise!Next]_(Promise!vars)
  <2>1. UNCHANGED <<ledger, created>>
    BY <1>4 DEF Finish, store
  <2>2. call[c].answer = "succeeded" /\ call[c].key # NoKey => Command(c) \in ledger
    BY <1>4 DEF Finish, At, Inductive, LedgerFollows
  <2>3. CASE call[c].answer = "succeeded"
    BY <1>4, <2>1, <2>2, <2>3, RecordResponds DEF Finish
  <2>4. CASE call[c].answer # "succeeded"
    BY <1>4, <2>1, <2>4, PromiseUntouched DEF Finish
  <2>5. QED
    BY <2>3, <2>4
<1>5. CASE UNCHANGED <<ledger, created, answered>>
  BY <1>5, PromiseUntouched
<1>6. \/ UNCHANGED <<ledger, created, answered>>
      \/ \E c \in Calls : SaveRun(c) \/ Remember(c) \/ Replay(c) \/ Finish(c)
  BY DEF Next, Step, Submit, Resolve, Admit, Evaluate, Publish, Commit, Fail, Escape, Release,
         Crash, Restart, vars, store, history
<1>7. QED
  BY <1>1, <1>2, <1>3, <1>4, <1>5, <1>6

(* create_run implements KeyedCreate: with the run saved and the key bound *)
(* in two transactions, racing calls and crashes between them, a key is    *)
(* bound once, to one run and body, and a keyed 201 names that run.        *)
THEOREM RunsKeepPromise == Spec => KeepsPromise
<1>1. Init => Promise!Init
  BY DEF Init, Promise!Init, Kept, Effective, Receipts
<1>2. Init => Recorded
  BY InitRecorded
<1>3. Inductive /\ Recorded /\ [Next]_vars => Recorded'
  BY RecordedNext
<1>4. Inductive /\ Recorded /\ [Next]_vars => [Promise!Next]_(Promise!vars)
  BY NextSimulates
<1>5. QED
  BY <1>1, <1>2, <1>3, <1>4, InductiveInvariant, PTL DEF Spec, KeepsPromise, Promise!Spec

(* So does the create_run that evaluate calls under an input's lock.       *)
THEOREM EvaluationsKeepPromise == InputSpec => KeepsPromise
BY RunsOfEvaluations, RunsKeepPromise

-----------------------------------------------------------------------------
(* The lock, the copies and the links.                                     *)

(* InputInductive holds initially.                                         *)
LEMMA InputInitInductive == InputInit => InputInductive
<1> SUFFICES ASSUME InputInit PROVE InputInductive
  OBVIOUS
<1> USE DEF InputInit, Init
<1>1. InputTypeOK
  BY DEF InputTypeOK, Draft, Nothing, Document, Evaluation
<1>2. Recorded
  BY InitRecorded DEF InputInit
<1>3. Locked
  BY EvaluatorsAssumption DEF Locked, Idle
<1>4. LinkIsOwn
  BY DEF LinkIsOwn, Draft
<1>5. QED
  BY <1>1, <1>2, <1>3, <1>4 DEF InputInductive

(* Begin: the thread takes the free lock and reads the input's row.        *)
LEMMA BeginStep ==
  ASSUME Inductive, InputInductive, NEW c \in Evaluators, Begin(c)
  PROVE  InputTypeOK' /\ Locked' /\ input' = input
<1> USE DEF InputInductive
<1>1. PICK i \in Inputs :
        /\ call'[c].body \in BodiesOf[i]
        /\ evaluation' = [evaluation EXCEPT ![c] = [input |-> i, copy |-> input[i], seen |-> 0]]
  BY DEF Begin
<1>2. /\ lock = Nobody /\ lock' = c /\ input' = input /\ c \in Calls /\ c # Nobody
      /\ call'[c].step = "resolve"
      /\ \A d \in Calls : d # c => call'[d] = call[d]
  BY SubmitEffect, EvaluatorsAssumption DEF Begin
<1>3. [input |-> i, copy |-> input[i], seen |-> 0] \in Evaluation
  BY DEF Evaluation, InputTypeOK
<1>4. InputTypeOK'
  BY <1>1, <1>2, <1>3 DEF InputTypeOK
<1>5. Locked'
  BY <1>1, <1>2, EvaluatorsAssumption DEF Locked, InputTypeOK
<1>6. QED
  BY <1>2, <1>4, <1>5

(* Proceed: create_run touches neither the lock nor the input.             *)
LEMMA ProceedStep ==
  ASSUME Inductive, Inductive', InputInductive, NEW c \in Evaluators, Proceed(c)
  PROVE  InputTypeOK' /\ Locked' /\ input' = input
<1> USE DEF InputInductive
<1>1. /\ c \in Calls /\ Step(c) /\ call[c].step # "done" /\ input' = input /\ lock' = lock
  BY EvaluatorsAssumption DEF Proceed
<1>2. PICK n \in Nat : evaluation' = [evaluation EXCEPT ![c].seen = n]
  <2>1. call'[c].run \in Runs \cup {NoRun} /\ run' \in [Runs -> RunRow]
    BY <1>1 DEF Inductive, TypeOK, CallRecord
  <2>2. (IF call'[c].run = NoRun THEN 0 ELSE run'[call'[c].run].version) \in Nat
    BY <2>1 DEF RunRow
  <2>3. QED
    BY <2>2 DEF Proceed
<1>3. /\ call'[c].step # "idle" /\ call[c].step # "idle" /\ call'[c].body = call[c].body
      /\ \A d \in Calls : d # c => call'[d] = call[d]
  BY <1>1, StepMoves DEF Only
<1>4. evaluation' = [evaluation EXCEPT ![c] = [evaluation[c] EXCEPT !.seen = n]]
  BY <1>2
<1>5. /\ [evaluation[c] EXCEPT !.seen = n] \in Evaluation
      /\ [evaluation[c] EXCEPT !.seen = n].input = evaluation[c].input
      /\ [evaluation[c] EXCEPT !.seen = n].copy = evaluation[c].copy
  BY DEF InputTypeOK, Evaluation
<1>6. InputTypeOK'
  BY <1>1, <1>4, <1>5 DEF InputTypeOK
<1>7. Locked'
  BY <1>1, <1>3, <1>4, <1>5, EvaluatorsAssumption DEF Locked, InputTypeOK
<1>8. QED
  BY <1>1, <1>6, <1>7

(* A thread that returns gives the lock back and leaves no evaluation.     *)
LEMMA ReturnStep ==
  ASSUME Inductive, InputInductive, NEW c \in Evaluators, Return(c),
         input' \in [Inputs -> Document]
  PROVE  InputTypeOK' /\ Locked'
<1> USE DEF InputInductive
<1>1. c \in Calls /\ Step(c) /\ call[c].step = "done" /\ Nobody \notin Evaluators
  BY EvaluatorsAssumption DEF Return, Release, Step, At
<1>2. /\ call'[c] = Idle /\ \A d \in Calls : d # c => call'[d] = call[d]
      /\ lock = c /\ lock' = Nobody /\ evaluation' = [evaluation EXCEPT ![c] = Nothing]
  BY <1>1, StepMoves DEF Return, Locked
<1>3. Nothing \in Evaluation
  BY DEF Nothing, Draft, Document, Evaluation
<1>4. InputTypeOK'
  BY <1>2, <1>3 DEF InputTypeOK
<1>5. Locked'
  <2>1. \A d \in Evaluators : call'[d].step = "idle"
    BY <1>2, EvaluatorsAssumption DEF Locked, Idle
  <2>2. QED
    BY <1>1, <1>2, <2>1 DEF Locked
<1>6. QED
  BY <1>4, <1>5

(* SaveInput: the link is the successor of the row that is there, and      *)
(* names a stored run made for the input.                                  *)
LEMMA SaveInputEffect ==
  ASSUME Inductive, InputInductive, NEW c \in Evaluators, SaveInput(c)
  PROVE  \E i \in Inputs :
           /\ Linked(c) \in Document
           /\ input' = [input EXCEPT ![i] = Linked(c)]
           /\ Linked(c).version = input[i].version + 1
           /\ Linked(c).run \in Runs /\ run[Linked(c).run].state # "ABSENT"
           /\ \E cmd \in created : cmd.run = Linked(c).run /\ cmd.body \in BodiesOf[i]
<1> USE DEF InputInductive
<1> DEFINE i == evaluation[c].input
<1>1. /\ c \in Calls /\ call[c].step = "done" /\ Good(c)
      /\ input' = [input EXCEPT ![i] = Linked(c)]
  BY EvaluatorsAssumption DEF SaveInput, At
<1>2. lock = c /\ i \in Inputs /\ evaluation[c].copy = input[i] /\ call[c].body \in BodiesOf[i]
  BY <1>1 DEF Locked
<1>3. Command(c) \in created
  BY <1>1 DEF Recorded, Holding
<1>4. /\ Command(c).run = call[c].run /\ Command(c).body = call[c].body
      /\ Linked(c).run = call[c].run /\ Linked(c).version = input[i].version + 1
      /\ Linked(c).runVersion = evaluation[c].seen
  BY <1>2 DEF Command, Linked
<1>5. call[c].run \in Runs /\ run[call[c].run].state # "ABSENT"
  BY <1>3, <1>4 DEF Inductive, TypeOK, Recorded
<1>6. Linked(c) \in Document
  BY <1>2, <1>4, <1>5 DEF Linked, Document, InputTypeOK, Evaluation
<1>7. QED
  BY <1>1, <1>2, <1>3, <1>4, <1>5, <1>6

(* What the links need from a step: commands and saved runs stay.          *)
LEMMA LinksStay ==
  ASSUME Inductive, InputInductive, [Next]_vars, input' = input
  PROVE  LinkIsOwn'
<1> USE DEF InputInductive
<1>1. \A r \in Runs : run[r].state # "ABSENT" => run'[r].state # "ABSENT"
  BY SavedStays
<1>2. created \subseteq created'
  BY RecordedNext
<1>3. QED
  BY <1>1, <1>2 DEF LinkIsOwn, InputTypeOK, Document

(* Every step preserves InputInductive.                                    *)
LEMMA InputNextInductive ==
  Inductive /\ Inductive' /\ InputInductive /\ [InputNext]_allVars => InputInductive'
<1> SUFFICES ASSUME Inductive, Inductive', InputInductive, [InputNext]_allVars
             PROVE  InputInductive'
  OBVIOUS
<1>1. [Next]_vars
  BY InputNextIsNext
<1>2. Recorded' /\ created \subseteq created'
  BY <1>1, RecordedNext DEF InputInductive
<1>3. ASSUME NEW c \in Evaluators, Begin(c) \/ Proceed(c) PROVE InputInductive'
  BY <1>1, <1>2, <1>3, BeginStep, ProceedStep, LinksStay DEF InputInductive
<1>4. ASSUME NEW c \in Evaluators, SaveInput(c) PROVE InputInductive'
  <2>1. PICK i \in Inputs :
           /\ Linked(c) \in Document
           /\ input' = [input EXCEPT ![i] = Linked(c)]
           /\ Linked(c).run \in Runs /\ run[Linked(c).run].state # "ABSENT"
           /\ \E cmd \in created : cmd.run = Linked(c).run /\ cmd.body \in BodiesOf[i]
    BY <1>4, SaveInputEffect
  <2>2. input' \in [Inputs -> Document]
    BY <2>1 DEF InputInductive, InputTypeOK
  <2>3. InputTypeOK' /\ Locked'
    BY <1>4, <2>2, ReturnStep DEF SaveInput
  <2>4. run' = run /\ created' = created
    BY <1>4 DEF SaveInput, Return, Release, store, history
  <2>5. LinkIsOwn'
    BY <2>1, <2>4 DEF LinkIsOwn, InputInductive, InputTypeOK
  <2>6. QED
    BY <1>2, <2>3, <2>5 DEF InputInductive
<1>5. ASSUME NEW c \in Evaluators, Raise(c) PROVE InputInductive'
  <2>1. input' = input /\ input' \in [Inputs -> Document]
    BY <1>5 DEF Raise, InputInductive, InputTypeOK
  <2>2. QED
    BY <1>1, <1>2, <1>5, <2>1, ReturnStep, LinksStay DEF Raise, InputInductive
<1>6. ASSUME NEW c \in Calls \ Evaluators, PlainCall(c) PROVE InputInductive'
  <2>1. UNCHANGED inputVars /\ \A d \in Evaluators : call'[d] = call[d]
    BY <1>6, SubmitEffect, StepMoves, EvaluatorsAssumption DEF PlainCall
  <2>2. InputTypeOK' /\ Locked' /\ input' = input
    BY <2>1 DEF inputVars, InputInductive, InputTypeOK, Locked
  <2>3. QED
    BY <1>1, <1>2, <2>2, LinksStay DEF InputInductive
<1>7. CASE Stop
  <2>1. /\ input' = input /\ lock' = Nobody /\ evaluation' = [c \in Evaluators |-> Nothing]
        /\ \A c \in Calls : call'[c] = Idle
    BY <1>7 DEF Stop, Crash
  <2>2. InputTypeOK'
    BY <2>1 DEF InputInductive, InputTypeOK, Nothing, Draft, Document, Evaluation
  <2>3. Locked'
    BY <2>1, EvaluatorsAssumption DEF Locked, Idle
  <2>4. QED
    BY <1>1, <1>2, <2>1, <2>2, <2>3, LinksStay DEF InputInductive
<1>8. CASE Start \/ UNCHANGED allVars
  <2>1. UNCHANGED inputVars /\ call' = call
    BY <1>8 DEF Start, Restart, allVars, vars
  <2>2. InputTypeOK' /\ Locked' /\ input' = input
    BY <2>1 DEF inputVars, InputInductive, InputTypeOK, Locked
  <2>3. QED
    BY <1>1, <1>2, <2>2, LinksStay DEF InputInductive
<1>9. QED
  BY <1>3, <1>4, <1>5, <1>6, <1>7, <1>8 DEF InputNext

-----------------------------------------------------------------------------
(* The theorems.                                                           *)

(* The inductive invariants of both modules hold of every reachable state. *)
THEOREM InputInvariant == InputSpec => [](Inductive /\ InputInductive)
<1>1. InputSpec => []Inductive
  BY RunsOfEvaluations, InductiveInvariant, PTL
<1>2. InputInit => InputInductive
  BY InputInitInductive
<1>3. Inductive /\ Inductive' /\ InputInductive /\ [InputNext]_allVars => InputInductive'
  BY InputNextInductive
<1>4. QED
  BY <1>1, <1>2, <1>3, PTL DEF InputSpec

(* The run an input links is stored and was made for this input's own      *)
(* snapshot, also on a replayed key.                                       *)
THEOREM LinkedRunIsOwn == InputSpec => []LinkIsOwn
<1>1. InputInductive => LinkIsOwn
  BY DEF InputInductive
<1>2. QED
  BY <1>1, InputInvariant, PTL

(* No evaluation is lost under another: a save of an input's document is   *)
(* the successor of the one that is there.                                 *)
THEOREM NoEvaluationLost == InputSpec => InputAdvances
<1>1. ASSUME Inductive, InputInductive, [InputNext]_allVars, NEW i \in Inputs,
             input'[i] # input[i]
      PROVE  input'[i].version = input[i].version + 1 /\ input'[i].run # NoRun
  <2>1. PICK c \in Evaluators : SaveInput(c)
    BY <1>1 DEF InputNext, Begin, Proceed, Raise, PlainCall, Stop, Start, inputVars, allVars
  <2>2. PICK j \in Inputs :
           /\ input' = [input EXCEPT ![j] = Linked(c)]
           /\ Linked(c).version = input[j].version + 1
           /\ Linked(c).run \in Runs
    BY <1>1, <2>1, SaveInputEffect
  <2>3. i = j /\ input'[i] = Linked(c)
    BY <1>1, <2>2 DEF InputInductive, InputTypeOK
  <2>4. QED
    BY <2>2, <2>3, CallsAssumption
<1>2. Inductive /\ InputInductive /\ [InputNext]_allVars =>
        [\A i \in Inputs : input'[i] # input[i] =>
           /\ input'[i].version = input[i].version + 1
           /\ input'[i].run # NoRun]_allVars
  BY <1>1
<1>3. QED
  BY <1>2, InputInvariant, PTL DEF InputSpec, InputAdvances

-----------------------------------------------------------------------------
(* What holds of evaluations that have their keys to themselves.           *)

(* Of the threads in a call, one at most has a given serial key.           *)
LEMMA KeyHolderIsUnique ==
  ASSUME Locked, KeysAreSerial, NEW c \in Calls, NEW d \in Calls,
         call[c].step # "idle", call[d].step # "idle",
         call[c].key \in SerialKeys, call[c].key = call[d].key
  PROVE  c = d
BY DEF Locked, KeysAreSerial

(* Submit takes one of the thread's keys.                                  *)
LEMMA SubmitKey ==
  ASSUME Inductive, NEW c \in Calls, Submit(c)
  PROVE  call'[c].key \in KeysOf[c]
<1>1. PICK key \in KeysOf[c], body \in Bodies :
         call' = [call EXCEPT ![c] = [Idle EXCEPT !.step = "resolve", !.key = key, !.body = body]]
  BY DEF Submit
<1>2. [Idle EXCEPT !.step = "resolve", !.key = key, !.body = body].key = key
  BY DEF Idle
<1>3. QED
  BY <1>1, <1>2 DEF Inductive, TypeOK

(* Resolve gives an id for a new run only when the ledger has no row.      *)
LEMMA ResolveUnrivalled ==
  ASSUME Inductive, NEW c \in Calls, Resolve(c), call'[c].step \in Unsaved
  PROVE  \A e \in ledger : e.key # call[c].key
<1>1. ~Answer(c, "conflict")
  BY AnswerMoves DEF Moves, Inductive, TypeOK, Unsaved, Answers
<1>2. ASSUME NEW e \in ledger, call' = [call EXCEPT ![c].step = "replay", ![c].run = e.run]
      PROVE  FALSE
  <2>1. e.run \in Runs /\ "replay" \in Steps
    BY DEF Inductive, TypeOK, Steps
  <2>2. call'[c].step = "replay"
    BY <1>2, <2>1, SetRunOnly DEF Inductive, TypeOK
  <2>3. QED
    BY <2>2 DEF Unsaved
<1>3. Row(call[c].key) = {}
  BY <1>1, <1>2 DEF Resolve, Row
<1>4. QED
  BY <1>3 DEF Row

(* The rows a step of create_run changes: those of its own command.        *)
LEMMA StepDelta ==
  ASSUME Inductive, NEW c \in Calls, Step(c)
  PROVE  /\ up /\ up' = up
         /\ ledger \subseteq ledger' /\ ledger' \subseteq ledger \cup {Command(c)}
         /\ created \subseteq created' /\ created' \subseteq created \cup {Command(c)}
         /\ created' # created => SaveRun(c)
         /\ ledger' # ledger => Remember(c)
         /\ run' # run => SaveRun(c) \/ Commit(c) \/ Fail(c)
         /\ \A r \in Runs : run'[r] # run[r] =>
              r = call[c].run /\ call[c].step \in Executing \cup {"save"}
<1> USE DEF Inductive, TypeOK, Executing
<1>1. CASE SaveRun(c)
  BY <1>1 DEF SaveRun, At
<1>2. CASE Remember(c)
  BY <1>2 DEF Remember, At, Command
<1>3. CASE Commit(c) \/ Fail(c)
  BY <1>3 DEF Commit, Fail, At, history
<1>4. CASE Resolve(c) \/ Replay(c) \/ Admit(c) \/ Evaluate(c) \/ Publish(c) \/ Escape(c)
           \/ Finish(c) \/ Release(c)
  BY <1>4 DEF Resolve, Replay, Admit, Evaluate, Publish, Escape, Finish, Release, At, store, history
<1>5. QED
  BY <1>1, <1>2, <1>3, <1>4 DEF Step

(* A terminal row stays as it is.                                          *)
LEMMA TerminalStays ==
  ASSUME Inductive, [Next]_vars, NEW r \in Runs, run[r].state \in Terminal
  PROVE  run'[r] = run[r]
BY NextOneChange DEF OneChange, Terminal

(* Who lost a process has lost it for good.                                *)
LEMMA LostStays ==
  ASSUME Inductive, [Next]_vars, NEW cmd \in created, Lost(cmd)
  PROVE  Lost(cmd)'
<1>1. cmd.run \in Runs /\ run[cmd.run].state \in Terminal
  BY DEF Inductive, TypeOK, RowsWellFormed, Lost, NoRow, Terminal
<1>2. QED
  BY <1>1, TerminalStays DEF Lost

(* A step of create_run settles no command but its own, and unsettles none. *)
LEMMA OthersSettled ==
  ASSUME Inductive, InputInductive, KeysAreSerial, Settled, NEW c \in Calls, Step(c),
         NEW cmd \in SerialCommands, cmd # Command(c) \/ call[c].step \notin Executing \cup {"save"}
  PROVE  \/ Lost(cmd)'
         \/ run'[cmd.run].state = "RUNNING" /\ (up' => WorkedOn(cmd)')
         \/ run'[cmd.run].state \in Terminal /\ cmd \in ledger'
<1> USE DEF InputInductive
<1>1. /\ up' = up /\ ledger \subseteq ledger' /\ up
      /\ \A r \in Runs : run'[r] # run[r] => r = call[c].run /\ call[c].step \in Executing \cup {"save"}
  BY StepDelta
<1>2. cmd \in created /\ cmd.run \in Runs /\ run[cmd.run].state # "ABSENT"
  BY DEF SerialCommands, Recorded, Inductive, TypeOK
<1>3. \A d \in Calls : d # c => call'[d] = call[d]
  BY StepMoves
<1>4. ASSUME NEW d \in Evaluators, call[d].step \in Executing, Command(d) = cmd
      PROVE  d # c /\ d \in Calls /\ call[d].run = cmd.run
  BY <1>4, EvaluatorsAssumption DEF Command
<1>5. run'[cmd.run] = run[cmd.run]
  <2>1. SUFFICES ASSUME run'[cmd.run] # run[cmd.run] PROVE FALSE
    OBVIOUS
  <2>2. cmd.run = call[c].run /\ call[c].step \in Executing \cup {"save"}
    BY <1>1, <1>2, <2>1
  <2>3. call[c].step \in Executing /\ run[cmd.run].state = "RUNNING"
    BY <1>2, <2>2 DEF Inductive, HeldRuns, Unsaved, NoRow
  <2>4. ~Lost(cmd)
    BY <1>2, <2>3 DEF Inductive, RowsWellFormed, NoRow, Lost
  <2>5. WorkedOn(cmd)
    BY <1>1, <2>3, <2>4 DEF Settled, Terminal
  <2>6. PICK d \in Evaluators : call[d].step \in Executing /\ Command(d) = cmd
    BY <2>5 DEF WorkedOn
  <2>7. QED
    BY <1>4, <2>2, <2>3, <2>6 DEF Inductive, HeldOnce
<1>6. WorkedOn(cmd) => WorkedOn(cmd)'
  <2>1. SUFFICES ASSUME WorkedOn(cmd) PROVE WorkedOn(cmd)'
    OBVIOUS
  <2>2. PICK d \in Evaluators : /\ call[d].step \in Executing /\ Command(d) = cmd
                                /\ (call[d].step # "remember" => cmd \in ledger)
    BY <2>1 DEF WorkedOn
  <2>3. call'[d] = call[d]
    BY <1>3, <1>4, <2>2
  <2>4. Command(d)' = cmd
    BY <2>2, <2>3 DEF Command
  <2>5. QED
    BY <1>1, <2>2, <2>3, <2>4 DEF WorkedOn
<1>7. QED
  BY <1>1, <1>5, <1>6 DEF Settled, Lost

(* A thread past the ledger has its command there.                         *)
LEMMA OwnIsRemembered ==
  ASSUME Inductive, InputInductive, KeysAreSerial, Settled, NEW c \in Evaluators,
         call[c].step \in Executing \ {"remember"}, up
  PROVE  Command(c) \in SerialCommands /\ Command(c) \in ledger
<1> USE DEF InputInductive
<1>1. c \in Calls /\ call[c].key \in SerialKeys /\ call[c].step # "idle"
  BY EvaluatorsAssumption DEF KeysAreSerial, Executing
<1>2. Command(c) \in created
  BY <1>1 DEF Recorded, Holding
<1>3. Command(c) \in SerialCommands /\ Command(c).run = call[c].run
  BY <1>1, <1>2 DEF SerialCommands, Command
<1>4. run[call[c].run].state = "RUNNING" /\ call[c].run \in Runs
  BY <1>1 DEF Inductive, HeldRuns
<1>5. ~Lost(Command(c))
  BY <1>3, <1>4 DEF Inductive, RowsWellFormed, NoRow, Lost
<1>6. WorkedOn(Command(c))
  BY <1>3, <1>4, <1>5 DEF Settled, Terminal
<1>7. PICK d \in Evaluators : /\ call[d].step \in Executing /\ Command(d) = Command(c)
                              /\ (call[d].step # "remember" => Command(c) \in ledger)
  BY <1>6 DEF WorkedOn
<1>8. d = c
  BY <1>1, <1>7, KeyHolderIsUnique, EvaluatorsAssumption DEF Command, Executing
<1>9. QED
  BY <1>3, <1>7, <1>8

(* The thread's own command, in a step of an evaluation.                   *)
LEMMA OwnSettled ==
  ASSUME Undisturbed, Inductive, InputInductive, KeysAreSerial, Settled, Unrivalled,
         NEW c \in Evaluators, Step(c), NEW cmd, cmd = Command(c), cmd \in SerialCommands',
         call[c].step \in Executing \cup {"save"}
  PROVE  \/ run'[call[c].run].state = "RUNNING" /\ WorkedOn(cmd)'
         \/ run'[call[c].run].state \in Terminal /\ cmd \in ledger'
<1> USE DEF InputInductive
<1>1. /\ c \in Calls /\ call[c].key \in SerialKeys /\ up /\ call[c].key # NoKey
      /\ ledger \subseteq ledger' /\ run \in [Runs -> RunRow] /\ call \in [Calls -> CallRecord]
  BY StepDelta, EvaluatorsAssumption, CallsAssumption
     DEF KeysAreSerial, Executing, SerialKeys, Inductive, TypeOK
<1>2. /\ call[c].run \in Runs
      /\ call[c].step \in Executing => run[call[c].run].state = "RUNNING"
  BY <1>1 DEF Inductive, HeldRuns, Unsaved
<1>3. ASSUME Only(c), call'[c].run = call[c].run, call'[c].step \in Executing,
             call'[c].step # "remember" => cmd \in ledger', run'[call[c].run].state = "RUNNING"
      PROVE  run'[call[c].run].state = "RUNNING" /\ WorkedOn(cmd)'
  <2>1. Command(c)' = cmd
    BY <1>3 DEF Only, Command
  <2>2. QED
    BY <1>3, <2>1 DEF WorkedOn
<1>4. CASE SaveRun(c)
  <2>1. Moves(c, "remember", call[c].answer)
    BY <1>1, <1>4, GotoMoves DEF SaveRun, Steps, Executing
  <2>2. run'[call[c].run].state = "RUNNING"
    BY <1>1, <1>2, <1>4 DEF SaveRun
  <2>3. QED
    BY <1>3, <2>1, <2>2 DEF Executing, Moves
<1>5. CASE Remember(c)
  <2>1. KeyFree(call[c].key)
    BY <1>1, <1>5 DEF Unrivalled, Remember, At, KeyFree, Row
  <2>2. /\ ledger' = ledger \cup {Command(c)} /\ run' = run /\ Goto(c, "evaluate")
    BY <1>1, <1>5, <2>1 DEF Remember, Command
  <2>3. Moves(c, "evaluate", call[c].answer)
    BY <1>1, <2>2, GotoMoves DEF Steps, Executing
  <2>4. call[c].step \in Executing
    BY <1>5 DEF Remember, At, Executing
  <2>5. QED
    BY <1>2, <1>3, <2>2, <2>3, <2>4 DEF Executing, Moves
<1>6. CASE Evaluate(c) \/ Publish(c)
  <2>1. call[c].step \in Executing \ {"remember"} /\ run' = run
    BY <1>6 DEF Evaluate, Publish, At, Executing, store
  <2>2. cmd \in ledger'
    BY <1>1, <2>1, OwnIsRemembered
  <2>3. Only(c) /\ call'[c].run = call[c].run /\ call'[c].step \in {"publish", "commit", "fail"}
    BY <1>1, <1>6, GotoMoves DEF Evaluate, Publish, Steps, Executing, Moves
  <2>4. run'[call[c].run].state = "RUNNING"
    BY <1>2, <2>1
  <2>5. QED
    BY <1>3, <2>2, <2>3, <2>4 DEF Executing
<1>7. CASE Commit(c) \/ Fail(c)
  <2>1. call[c].step \in Executing \ {"remember"}
    BY <1>7 DEF Commit, Fail, At, Executing
  <2>2. cmd \in ledger'
    BY <1>1, <2>1, OwnIsRemembered
  <2>3. \/ run' = [run EXCEPT ![call[c].run] =
                     [state |-> "SUCCEEDED", version |-> 2, failure |-> "none"]]
        \/ run' = [run EXCEPT ![call[c].run] =
                     [state |-> "FAILED", version |-> 2, failure |-> "engine"]]
    BY <1>7 DEF Commit, Fail
  <2>4. run'[call[c].run].state \in Terminal
    BY <1>1, <1>2, <2>3 DEF Terminal
  <2>5. QED
    BY <2>2, <2>4
<1>8. QED
  BY <1>1, <1>4, <1>5, <1>6, <1>7
     DEF Step, Undisturbed, Resolve, Replay, Admit, Escape, Finish, Release, At, Executing

(* The commands after a step of create_run.                                *)
LEMMA CommandsStep ==
  ASSUME Undisturbed, Inductive, InputInductive, SerialInductive, NEW c \in Calls, Step(c)
  PROVE  Settled' /\ OneSurvivor'
<1> USE DEF InputInductive, SerialInductive
<1>1. /\ up' = up /\ created \subseteq created' /\ created' \subseteq created \cup {Command(c)}
      /\ created' # created => SaveRun(c)
  BY StepDelta
<1>2. SerialKeys' = SerialKeys
  BY DEF SerialKeys
<1>3. call[c].step # "idle" /\ (c \in Evaluators <=> call[c].key \in SerialKeys)
  BY StepMoves DEF KeysAreSerial
<1>4. Command(c).key = call[c].key /\ Command(c).run = call[c].run
  BY DEF Command
<1>5. ASSUME NEW cmd \in SerialCommands'
      PROVE  \/ Lost(cmd)'
             \/ run'[cmd.run].state = "RUNNING" /\ (up' => WorkedOn(cmd)')
             \/ run'[cmd.run].state \in Terminal /\ cmd \in ledger'
  <2>1. cmd.key \in SerialKeys /\ cmd \in created'
    BY <1>2 DEF SerialCommands
  <2>2. CASE cmd = Command(c) /\ call[c].step \in Executing \cup {"save"}
    <3>1. c \in Evaluators
      BY <1>3, <1>4, <2>1, <2>2
    <3>2. QED
      BY <1>4, <2>2, <3>1, OwnSettled
  <2>3. CASE ~(cmd = Command(c) /\ call[c].step \in Executing \cup {"save"})
    <3>1. cmd \in SerialCommands
      BY <1>1, <2>1, <2>3 DEF SerialCommands, SaveRun, At
    <3>2. QED
      BY <2>3, <3>1, OthersSettled
  <2>4. QED
    BY <2>2, <2>3
<1>6. Settled'
  BY <1>5 DEF Settled
<1>7. \A cmd \in created : Lost(cmd) => Lost(cmd)'
  BY LostStays DEF Next
<1>8. ASSUME NEW a \in SerialCommands', NEW b \in SerialCommands', a.key = b.key, a # b
      PROVE  Lost(a)' \/ Lost(b)'
  <2>1. a.key \in SerialKeys /\ a \in created' /\ b \in created'
    BY <1>2, <1>8 DEF SerialCommands
  <2>2. CASE a \in created /\ b \in created
    BY <1>7, <1>8, <2>1, <2>2 DEF OneSurvivor, SerialCommands
  <2>3. ASSUME NEW x \in created, x.key = call[c].key, call[c].key \in SerialKeys, SaveRun(c)
        PROVE  Lost(x)'
    <3>1. c \in Evaluators /\ call[c].step \in Unsaved
      BY <1>3, <2>3 DEF SaveRun, At, Unsaved
    <3>2. QED
      BY <1>7, <2>3, <3>1 DEF Unrivalled, SerialCommands
  <2>4. CASE ~(a \in created /\ b \in created)
    BY <1>1, <1>4, <1>8, <2>1, <2>3, <2>4
  <2>5. QED
    BY <2>2, <2>4
<1>9. OneSurvivor'
  BY <1>8 DEF OneSurvivor
<1>10. QED
  BY <1>6, <1>9

(* The threads after a step of create_run.                                 *)
LEMMA UnrivalledStep ==
  ASSUME Undisturbed, Inductive, InputInductive, SerialInductive, NEW c \in Calls, Step(c)
  PROVE  KeysAreSerial' /\ Unrivalled'
<1> USE DEF InputInductive, SerialInductive
<1>1. /\ up /\ created' \subseteq created \cup {Command(c)}
      /\ ledger' \subseteq ledger \cup {Command(c)}
      /\ created' # created => SaveRun(c)
      /\ ledger' # ledger => Remember(c)
  BY StepDelta
<1>2. SerialKeys' = SerialKeys /\ Command(c).key = call[c].key /\ Evaluators \subseteq Calls
  BY EvaluatorsAssumption DEF SerialKeys, Command
<1>3. /\ call[c].step # "idle" /\ (c \in Evaluators <=> call[c].key \in SerialKeys)
      /\ \A d \in Calls : d # c => call'[d] = call[d]
      /\ call[c].step # "done" => Only(c) /\ call'[c].step # "idle"
      /\ call[c].step = "done" => call'[c] = Idle
  BY StepMoves DEF KeysAreSerial
<1>4. KeysAreSerial'
  BY <1>2, <1>3 DEF KeysAreSerial, Only, Idle
<1>5. \A cmd \in created : Lost(cmd) => Lost(cmd)'
  BY LostStays DEF Next
<1>6. ASSUME NEW d \in Evaluators, d # c, call[d].step # "idle"
      PROVE  /\ call'[d] = call[d]
             /\ \A e \in ledger' : e.key = call[d].key => e \in ledger
             /\ \A cmd \in created' : cmd.key = call[d].key => cmd \in created
  <2>1. call[d].key # call[c].key
    BY <1>2, <1>3, <1>6, KeyHolderIsUnique DEF KeysAreSerial
  <2>2. QED
    BY <1>1, <1>2, <1>3, <1>6, <2>1
<1>7. ASSUME NEW d \in Evaluators, d # c
      PROVE  /\ call'[d].step \in Unsaved \cup {"remember"} => \A e \in ledger' : e.key # call'[d].key
             /\ call'[d].step \in Unsaved =>
                  \A cmd \in SerialCommands' : cmd.key = call'[d].key => Lost(cmd)'
  <2>1. CASE call[d].step = "idle"
    BY <1>2, <1>3, <1>7, <2>1 DEF Unsaved
  <2>2. CASE call[d].step # "idle"
    BY <1>2, <1>5, <1>6, <1>7, <2>2 DEF Unrivalled, SerialCommands
  <2>3. QED
    BY <2>1, <2>2
<1>8. ASSUME c \in Evaluators
      PROVE  /\ call'[c].step \in Unsaved \cup {"remember"} => \A e \in ledger' : e.key # call'[c].key
             /\ call'[c].step \in Unsaved =>
                  \A cmd \in SerialCommands' : cmd.key = call'[c].key => Lost(cmd)'
  <2>1. CASE Resolve(c)
    <3>1. call[c].step = "resolve" /\ Only(c) /\ created' = created /\ ledger' = ledger
          /\ call'[c].step # "remember"
      BY <2>1, ResolveEffect
    <3>2. SUFFICES ASSUME call'[c].step \in Unsaved
                   PROVE  /\ \A e \in ledger : e.key # call[c].key
                          /\ \A cmd \in SerialCommands : cmd.key = call[c].key => Lost(cmd)
      BY <1>2, <1>5, <3>1 DEF Only, SerialCommands
    <3>3. \A e \in ledger : e.key # call[c].key
      BY <2>1, <3>2, ResolveUnrivalled
    <3>4. ASSUME NEW cmd \in SerialCommands, cmd.key = call[c].key, ~Lost(cmd)
          PROVE  FALSE
      <4>1. WorkedOn(cmd)
        BY <1>1, <3>3, <3>4 DEF Settled
      <4>2. PICK d \in Evaluators : call[d].step \in Executing /\ Command(d) = cmd
        BY <4>1 DEF WorkedOn
      <4>3. d = c
        BY <1>2, <1>3, <1>8, <3>4, <4>2, KeyHolderIsUnique DEF Command, Executing
      <4>4. QED
        BY <3>1, <4>2, <4>3 DEF Executing
    <3>5. QED
      BY <3>3, <3>4
  <2>2. CASE Admit(c)
    <3>1. call[c].step \in Unsaved /\ created' = created /\ ledger' = ledger /\ Only(c)
      BY <1>3, <2>2 DEF Admit, At, Unsaved, store, history
    <3>2. QED
      BY <1>2, <1>5, <1>8, <3>1 DEF Only, Unrivalled, SerialCommands
  <2>3. CASE SaveRun(c)
    <3>1. call[c].step \in Unsaved /\ ledger' = ledger /\ Only(c) /\ call'[c].step = "remember"
      BY <1>3, <2>3, GotoMoves DEF SaveRun, At, Unsaved, Inductive, TypeOK, Steps, Executing, Moves
    <3>2. QED
      BY <1>8, <3>1 DEF Only, Unrivalled, Unsaved
  <2>4. CASE Remember(c) \/ Evaluate(c) \/ Publish(c) \/ Commit(c) \/ Fail(c) \/ Replay(c)
             \/ Escape(c) \/ Finish(c) \/ Release(c)
    <3> USE DEF Moves, Unsaved, Inductive, TypeOK, Steps, Executing, Answers
    <3>1. CASE Remember(c) \/ Replay(c) \/ Escape(c) \/ Finish(c)
      BY <3>1, GotoMoves, AnswerMoves DEF Remember, Replay, Escape, Finish
    <3>2. CASE Evaluate(c) \/ Publish(c)
      BY <3>2, GotoMoves DEF Evaluate, Publish
    <3>3. CASE Commit(c) \/ Fail(c)
      <4>1. Moves(c, "finish", "succeeded") \/ Moves(c, "finish", "failed")
        BY <3>3, SetAnswerMoves DEF Commit, Fail
      <4>2. QED
        BY <4>1
    <3>4. CASE Release(c)
      BY <1>3, <3>4 DEF Release, At, Idle
    <3>5. QED
      BY <2>4, <3>1, <3>2, <3>3, <3>4
  <2>5. QED
    BY <2>1, <2>2, <2>3, <2>4 DEF Step
<1>9. Unrivalled'
  BY <1>7, <1>8 DEF Unrivalled
<1>10. QED
  BY <1>4, <1>9

(* What a thread in evaluate has seen of its run when create_run returns.  *)
LEMMA SeenStep ==
  ASSUME Undisturbed, Inductive, Inductive', InputInductive, SerialInductive,
         NEW c \in Evaluators, Proceed(c),
         call'[c].step \in {"finish", "done"}, Good(c)'
  PROVE  /\ call'[c].run \in Runs
         /\ run'[call'[c].run].state \in Terminal
         /\ run'[call'[c].run].version = evaluation'[c].seen
<1> USE DEF InputInductive, SerialInductive
<1>1. /\ c \in Calls /\ Step(c) /\ call[c].step # "done" /\ call'[c].answer \in {"succeeded", "replayed"}
      /\ call \in [Calls -> CallRecord] /\ run \in [Runs -> RunRow] /\ NoRun \notin Runs
      /\ evaluation'[c].seen = IF call'[c].run = NoRun THEN 0 ELSE run'[call'[c].run].version
  BY EvaluatorsAssumption, CallsAssumption
     DEF Proceed, Good, Inductive, TypeOK, InputTypeOK, Evaluation
<1>2. SUFFICES call'[c].run \in Runs /\ run'[call'[c].run].state \in Terminal
  BY <1>1
<1>3. CASE Commit(c)
  <2>1. Moves(c, "finish", "succeeded")
    BY <1>1, <1>3, SetAnswerMoves DEF Commit, Steps, Answers
  <2>2. call[c].run \in Runs
    BY <1>1, <1>3 DEF Commit, At, Inductive, HeldRuns, Executing
  <2>3. run' = [run EXCEPT ![call[c].run] = [state |-> "SUCCEEDED", version |-> 2, failure |-> "none"]]
    BY <1>3 DEF Commit
  <2>4. run'[call[c].run].state = "SUCCEEDED"
    BY <1>1, <2>2, <2>3
  <2>5. QED
    BY <2>1, <2>2, <2>4 DEF Moves, Terminal
<1>4. CASE Fail(c)
  <2>1. Moves(c, "finish", "failed")
    BY <1>1, <1>4, SetAnswerMoves DEF Fail, Steps, Answers
  <2>2. QED
    BY <1>1, <2>1 DEF Moves
<1>5. CASE Finish(c)
  <2>1. Moves(c, "done", call[c].answer) /\ run' = run /\ call[c].step = "finish"
    BY <1>1, <1>5, GotoMoves DEF Finish, At, store, Steps
  <2>2. QED
    BY <1>1, <2>1 DEF Moves, SeenIsFinal, Good
<1>6. CASE Replay(c)
  <2>1. /\ call'[c].run = call[c].run /\ run' = run /\ call[c].step = "replay" /\ up
        /\ call[c].run \in Runs
    BY <1>1, <1>6, AnswerMoves
       DEF Replay, At, store, Steps, Answers, Moves, Inductive, HeldRuns
  <2>2. call[c].key \in SerialKeys /\ call[c].key # NoKey
    BY <1>1, <2>1, CallsAssumption DEF KeysAreSerial, SerialKeys
  <2>3. Command(c) \in ledger /\ Command(c) \in created
    BY <1>1, <2>1, <2>2 DEF Inductive, LedgerFollows, Recorded
  <2>4. Command(c) \in SerialCommands /\ Command(c).run = call[c].run
    BY <2>2, <2>3 DEF SerialCommands, Command
  <2>5. ~WorkedOn(Command(c))
    <3>1. ASSUME NEW d \in Evaluators, call[d].step \in Executing, Command(d) = Command(c)
          PROVE  FALSE
      <4>1. d = c
        BY <1>1, <2>1, <2>2, <3>1, KeyHolderIsUnique, EvaluatorsAssumption DEF Command, Executing
      <4>2. QED
        BY <2>1, <3>1, <4>1 DEF Executing
    <3>2. QED
      BY <3>1 DEF WorkedOn
  <2>6. Lost(Command(c)) \/ run[call[c].run].state \in Terminal
    BY <2>1, <2>4, <2>5 DEF Settled
  <2>7. run[call[c].run].state \in Terminal
    BY <2>1, <2>4, <2>6 DEF Lost, Inductive, RowsWellFormed, NoRow, Terminal
  <2>8. QED
    BY <2>1, <2>7
<1>7. CASE Resolve(c)
  BY <1>1, <1>7, ResolveEffect
<1>8. CASE Admit(c) \/ SaveRun(c) \/ Remember(c) \/ Evaluate(c) \/ Publish(c) \/ Escape(c)
  BY <1>1, <1>8, GotoMoves, AnswerMoves
     DEF Admit, SaveRun, Remember, Evaluate, Publish, Escape, Moves, Steps, Executing, Answers
<1>9. CASE Release(c)
  BY <1>1, <1>9 DEF Release, At
<1>10. QED
  BY <1>1, <1>3, <1>4, <1>5, <1>6, <1>7, <1>8, <1>9 DEF Step

(* What other steps leave of what a thread has seen.                       *)
LEMMA SeenStays ==
  ASSUME Inductive, InputInductive, SerialInductive, [Next]_vars, NEW c \in Evaluators,
         call'[c] = call[c], evaluation'[c] = evaluation[c],
         call'[c].step \in {"finish", "done"}, Good(c)'
  PROVE  /\ call'[c].run \in Runs
         /\ run'[call'[c].run].state \in Terminal
         /\ run'[call'[c].run].version = evaluation'[c].seen
<1>1. /\ call[c].run \in Runs /\ run[call[c].run].state \in Terminal
      /\ run[call[c].run].version = evaluation[c].seen
  BY DEF SerialInductive, SeenIsFinal, Good
<1>2. run'[call[c].run] = run[call[c].run]
  BY <1>1, TerminalStays
<1>3. QED
  BY <1>1, <1>2

(* Links to terminal runs stay true.                                       *)
LEMMA FinalLinksStay ==
  ASSUME Inductive, InputInductive, SerialInductive, [Next]_vars, input' = input
  PROVE  LinkIsFinal'
<1>1. ASSUME NEW i \in Inputs, input[i].run # NoRun
      PROVE  run'[input[i].run] = run[input[i].run]
  BY <1>1, TerminalStays DEF SerialInductive, LinkIsFinal, InputInductive, InputTypeOK, Document
<1>2. QED
  BY <1>1 DEF SerialInductive, LinkIsFinal

(* A new call changes no command.                                          *)
LEMMA SubmitSerial ==
  ASSUME Inductive, InputInductive, SerialInductive, NEW c \in Calls, Submit(c),
         c \in Evaluators <=> call'[c].key \in SerialKeys
  PROVE  KeysAreSerial' /\ Settled' /\ OneSurvivor' /\ Unrivalled'
<1> USE DEF SerialInductive
<1>1. /\ UNCHANGED <<up, run, ledger, created>>
      /\ call[c].step = "idle" /\ call'[c].step = "resolve"
      /\ \A d \in Calls : d # c => call'[d] = call[d]
  BY SubmitEffect
<1>2. SerialKeys' = SerialKeys /\ SerialCommands' = SerialCommands /\ Evaluators \subseteq Calls
  BY <1>1, EvaluatorsAssumption DEF SerialKeys, SerialCommands
<1>3. KeysAreSerial'
  BY <1>1, <1>2 DEF KeysAreSerial
<1>4. ASSUME NEW cmd \in SerialCommands, WorkedOn(cmd) PROVE WorkedOn(cmd)'
  <2>1. PICK d \in Evaluators : /\ call[d].step \in Executing /\ Command(d) = cmd
                                /\ (call[d].step # "remember" => cmd \in ledger)
    BY <1>4 DEF WorkedOn
  <2>2. call'[d] = call[d]
    BY <1>1, <1>2, <2>1 DEF Executing
  <2>3. Command(d)' = cmd
    BY <2>1, <2>2 DEF Command
  <2>4. QED
    BY <1>1, <2>1, <2>2, <2>3 DEF WorkedOn
<1>5. Settled'
  BY <1>1, <1>2, <1>4 DEF Settled, Lost
<1>6. OneSurvivor'
  BY <1>1, <1>2 DEF OneSurvivor, Lost
<1>7. Unrivalled'
  BY <1>1, <1>2 DEF Unrivalled, Unsaved, Lost
<1>8. QED
  BY <1>3, <1>5, <1>6, <1>7

(* Every step of the composed system preserves SerialInductive.            *)
LEMMA SerialNextInductive ==
  Undisturbed /\ Inductive /\ Inductive' /\ InputInductive /\ SerialInductive
    /\ [InputNext]_allVars => SerialInductive'
<1> SUFFICES ASSUME Undisturbed, Inductive, Inductive', InputInductive, SerialInductive,
                    [InputNext]_allVars
             PROVE  SerialInductive'
  OBVIOUS
<1> USE DEF SerialInductive
<1>1. [Next]_vars /\ Evaluators \subseteq Calls
  BY InputNextIsNext, EvaluatorsAssumption
<1>2. ASSUME NEW c \in Evaluators, Begin(c) PROVE SerialInductive'
  <2>a. /\ Submit(c) /\ input' = input /\ call'[c].key # NoKey
        /\ \E e : evaluation' = [evaluation EXCEPT ![c] = e]
    BY <1>2 DEF Begin
  <2>1. /\ Submit(c) /\ input' = input
        /\ \A d \in Evaluators : d # c => call'[d] = call[d] /\ evaluation'[d] = evaluation[d]
        /\ call'[c].step = "resolve"
    BY <1>1, <2>a, SubmitEffect DEF InputInductive, InputTypeOK
  <2>2. call'[c].key \in SerialKeys
    BY <1>1, <2>a, SubmitKey DEF Undisturbed
  <2>3. SeenIsFinal'
    BY <1>1, <2>1, SeenStays DEF SeenIsFinal
  <2>4. QED
    BY <1>1, <2>1, <2>2, <2>3, SubmitSerial, FinalLinksStay
<1>3. ASSUME NEW c \in Evaluators, Proceed(c) PROVE SerialInductive'
  <2>1. /\ Step(c) /\ input' = input /\ c \in Calls
        /\ \A d \in Evaluators : d # c => call'[d] = call[d] /\ evaluation'[d] = evaluation[d]
    BY <1>1, <1>3, StepMoves DEF Proceed, InputInductive, InputTypeOK
  <2>2. SeenIsFinal'
    BY <1>1, <1>3, <2>1, SeenStays, SeenStep DEF SeenIsFinal
  <2>3. QED
    BY <1>1, <2>1, <2>2, CommandsStep, UnrivalledStep, FinalLinksStay
<1>4. ASSUME NEW c \in Evaluators, SaveInput(c) \/ Raise(c) PROVE SerialInductive'
  <2>1. /\ Step(c) /\ Release(c) /\ c \in Calls /\ call'[c] = Idle /\ run' = run
        /\ call[c].step = "done"
        /\ \A d \in Evaluators : d # c => call'[d] = call[d] /\ evaluation'[d] = evaluation[d]
    <3>1. Release(c) /\ Return(c) /\ Step(c)
      BY <1>4 DEF SaveInput, Raise, Return, Step
    <3>2. QED
      BY <1>1, <3>1, StepMoves DEF Return, Release, At, store, InputInductive, InputTypeOK
  <2>2. SeenIsFinal'
    BY <1>1, <2>1, SeenStays DEF SeenIsFinal, Idle
  <2>3. LinkIsFinal'
    <3>1. CASE Raise(c)
      BY <1>1, <3>1, FinalLinksStay DEF Raise
    <3>2. CASE SaveInput(c)
      <4>1. /\ Good(c) /\ input' = [input EXCEPT ![evaluation[c].input] = Linked(c)]
            /\ Linked(c).run = call[c].run /\ Linked(c).runVersion = evaluation[c].seen
        BY <3>2 DEF SaveInput, Linked
      <4>2. /\ run[Linked(c).run].state \in Terminal
            /\ run[Linked(c).run].version = Linked(c).runVersion
        BY <2>1, <4>1 DEF SeenIsFinal
      <4>3. ASSUME NEW i \in Inputs PROVE input'[i] = Linked(c) \/ input'[i] = input[i]
        BY <4>1 DEF InputInductive, InputTypeOK
      <4>4. QED
        BY <2>1, <4>2, <4>3 DEF LinkIsFinal
    <3>3. QED
      BY <1>4, <3>1, <3>2
  <2>4. QED
    BY <2>1, <2>2, <2>3, CommandsStep, UnrivalledStep
<1>5. ASSUME NEW c \in Calls \ Evaluators, PlainCall(c) PROVE SerialInductive'
  <2>1. /\ UNCHANGED inputVars /\ c \in Calls /\ (Submit(c) \/ Step(c))
        /\ \A d \in Evaluators : call'[d] = call[d]
    BY <1>1, <1>5, SubmitEffect, StepMoves DEF PlainCall
  <2>2. SeenIsFinal' /\ LinkIsFinal'
    BY <1>1, <2>1, SeenStays, FinalLinksStay DEF SeenIsFinal, inputVars
  <2>3. CASE Submit(c)
    <3>1. call'[c].key \notin SerialKeys
      BY <2>3, SubmitKey DEF SerialKeys
    <3>2. QED
      BY <2>1, <2>2, <2>3, <3>1, SubmitSerial
  <2>4. CASE Step(c)
    BY <2>2, <2>4, CommandsStep, UnrivalledStep
  <2>5. QED
    BY <2>1, <2>3, <2>4
<1>6. CASE Stop
  <2>1. /\ UNCHANGED <<run, ledger, created>> /\ input' = input /\ up' = FALSE
        /\ \A c \in Calls : call'[c] = Idle
    BY <1>6 DEF Stop, Crash, store, history
  <2>2. SerialKeys' = SerialKeys /\ SerialCommands' = SerialCommands
    BY <2>1 DEF SerialKeys, SerialCommands
  <2>3. Settled' /\ OneSurvivor'
    BY <2>1, <2>2 DEF Settled, OneSurvivor, Lost
  <2>4. KeysAreSerial' /\ Unrivalled' /\ SeenIsFinal'
    BY <1>1, <2>1 DEF KeysAreSerial, Unrivalled, SeenIsFinal, Idle, Unsaved
  <2>5. QED
    BY <1>1, <2>1, <2>3, <2>4, FinalLinksStay
<1>7. CASE Start
  <2>1. /\ UNCHANGED <<call, ledger, created>> /\ UNCHANGED inputVars /\ Restart
        /\ \A c \in Calls : call[c] = Idle
    BY <1>7 DEF Start, Restart, Inductive, DownIsIdle
  <2>2. SerialKeys' = SerialKeys /\ SerialCommands' = SerialCommands
    BY <2>1 DEF SerialKeys, SerialCommands
  <2>3. ASSUME NEW cmd \in SerialCommands
        PROVE  /\ Lost(cmd) => Lost(cmd)'
               /\ Lost(cmd)' \/ (run'[cmd.run].state \in Terminal /\ cmd \in ledger')
    <3>1. cmd.run \in Runs
      BY DEF SerialCommands, Inductive, TypeOK
    <3>2. \A r \in Runs : \/ /\ run[r].state = "RUNNING"
                             /\ run'[r] = [state |-> "FAILED", version |-> 2,
                                           failure |-> "interrupted"]
                          \/ run[r].state # "RUNNING" /\ run'[r] = run[r]
      BY <2>1, RestartRows DEF Inductive
    <3>3. CASE run[cmd.run].state = "RUNNING"
      <4>1. run'[cmd.run] = [state |-> "FAILED", version |-> 2, failure |-> "interrupted"]
        BY <3>1, <3>2, <3>3
      <4>2. QED
        BY <4>1 DEF Lost
    <3>4. CASE run[cmd.run].state # "RUNNING"
      <4>1. run'[cmd.run] = run[cmd.run]
        BY <3>1, <3>2, <3>4
      <4>2. QED
        BY <2>1, <3>4, <4>1 DEF Settled, Lost
    <3>5. QED
      BY <3>3, <3>4
  <2>4. Settled' /\ OneSurvivor'
    BY <2>2, <2>3 DEF Settled, OneSurvivor
  <2>5. KeysAreSerial' /\ Unrivalled' /\ SeenIsFinal'
    BY <1>1, <2>1 DEF KeysAreSerial, Unrivalled, SeenIsFinal, Idle, Unsaved
  <2>6. QED
    BY <1>1, <2>1, <2>4, <2>5, FinalLinksStay DEF inputVars
<1>8. CASE UNCHANGED allVars
  <2>1. UNCHANGED <<up, run, ledger, created, call>> /\ UNCHANGED inputVars
    BY <1>8 DEF allVars, vars, store, history
  <2>2. SerialKeys' = SerialKeys /\ SerialCommands' = SerialCommands
    BY <2>1 DEF SerialKeys, SerialCommands
  <2>3. Settled' /\ OneSurvivor' /\ Unrivalled' /\ KeysAreSerial'
    BY <2>1, <2>2 DEF Settled, OneSurvivor, Unrivalled, KeysAreSerial, Lost, WorkedOn, Command
  <2>4. SeenIsFinal' /\ LinkIsFinal'
    BY <2>1 DEF SeenIsFinal, LinkIsFinal, Good, inputVars
  <2>5. QED
    BY <2>3, <2>4
<1>9. QED
  BY <1>2, <1>3, <1>4, <1>5, <1>6, <1>7, <1>8 DEF InputNext

(* SerialInductive holds initially.                                        *)
LEMMA SerialInitInductive == InputInit => SerialInductive
BY EvaluatorsAssumption
   DEF InputInit, Init, SerialInductive, KeysAreSerial, Settled, OneSurvivor, Unrivalled,
       SeenIsFinal, LinkIsFinal, SerialCommands, Idle, Draft, Unsaved

(* When no exception escapes and no plain call uses a key of an            *)
(* evaluation, SerialInductive holds of every reachable state.             *)
THEOREM SerialInvariant ==
  ASSUME Undisturbed
  PROVE  InputSpec => []SerialInductive
<1>1. InputInit => SerialInductive
  BY SerialInitInductive
<1>2. Inductive /\ Inductive' /\ InputInductive /\ SerialInductive
        /\ [InputNext]_allVars => SerialInductive'
  BY SerialNextInductive
<1>3. QED
  BY <1>1, <1>2, InputInvariant, PTL DEF InputSpec

(* Without a header an input is measured once: of two runs under its own   *)
(* key, one lost its process.                                              *)
THEOREM MeasuredOnce ==
  ASSUME Undisturbed
  PROVE  InputSpec => []EvaluatedOnce
<1>1. SerialInductive => EvaluatedOnce
  BY DEF Undisturbed, SerialInductive, OneSurvivor, SerialCommands, Lost, EvaluatedOnce
<1>2. QED
  BY <1>1, SerialInvariant, PTL

(* An input links a terminal run at its final version.                     *)
THEOREM LinksAreFinal ==
  ASSUME Undisturbed
  PROVE  InputSpec => []LinkIsFinal
<1>1. SerialInductive => LinkIsFinal
  BY DEF SerialInductive
<1>2. QED
  BY <1>1, SerialInvariant, PTL
=============================================================================
