-------------------------- MODULE InputEvaluation --------------------------
(***************************************************************************)
(* LifecycleActions.evaluate: an imported evaluation input is evaluated by *)
(* a create_run of its own, and the input's document then links the run.   *)
(*                                                                         *)
(* The thread holds the lifecycle's lock from get_input to the save of the *)
(* changed copy, so two evaluations never overlap; a plain POST            *)
(* /evaluation-runs takes no lock and runs beside them. EvaluationRuns     *)
(* gives the steps of create_run; this module adds the input's document    *)
(* and the lock.                                                           *)
(*                                                                         *)
(* BodiesOf gives the commands a snapshot can be evaluated with: suites,   *)
(* bindings, and the artifact its reference answers make. A command that   *)
(* is refused before create_run (no row to evaluate, a bad answer, another *)
(* evaluator) changes no document, and is not a step.                      *)
(***************************************************************************)
EXTENDS EvaluationRuns

CONSTANTS Inputs,      \* the imported inputs
          Evaluators,  \* the threads of Calls that serve .../actions/evaluate
          OwnKey,      \* per input, the key it has when no header is sent
          BodiesOf,    \* per input, the bodies create_run may get for it
          Nobody,      \* no thread has the lock; a thread evaluates nothing
          MaxVersion   \* bounds the evaluations of one input

ASSUME EvaluatorsAssumption ==
  /\ Evaluators \subseteq Calls
  /\ Nobody \notin Calls \cup Inputs
ASSUME OwnKeyAssumption ==
  /\ OwnKey \in [Inputs -> Keys]
  /\ \A i, j \in Inputs : OwnKey[i] = OwnKey[j] => i = j
ASSUME VersionAssumption == MaxVersion \in Nat
ASSUME BodiesAssumption == BodiesOf \in [Inputs -> SUBSET Bodies]

VARIABLES input,       \* the "input" rows
          lock,        \* the thread that holds the lifecycle's lock
          evaluation   \* what the threads in evaluate have read

inputVars == <<input, lock, evaluation>>
allVars   == <<vars, inputVars>>

OwnKeys == {OwnKey[i] : i \in Inputs}
Draft   == [version |-> 1, run |-> NoRun, runVersion |-> 0]
Nothing == [input |-> Nobody, copy |-> Draft, seen |-> 0]

(* An input is STARTED when it links a run, and DRAFT before.              *)
Document   == [version : Nat, run : Runs \cup {NoRun}, runVersion : Nat]
Evaluation == [input : Inputs \cup {Nobody}, copy : Document, seen : Nat]

InputTypeOK ==
  /\ input \in [Inputs -> Document]
  /\ lock \in Evaluators \cup {Nobody}
  /\ evaluation \in [Evaluators -> Evaluation]

InputInit ==
  /\ Init
  /\ input = [i \in Inputs |-> Draft]
  /\ lock = Nobody
  /\ evaluation = [c \in Evaluators |-> Nothing]

Good(c) == call[c].answer \in {"succeeded", "replayed"}

-----------------------------------------------------------------------------
(* Faulty variants of definitions below, used by no specification: each is *)
(* put in the place of the definition it is named after to see that a      *)
(* property notices.                                                       *)

(* Does not wait for the lock.                                             *)
BeginUnlocked(c) ==
  /\ Submit(c)
  /\ \E i \in Inputs :
       /\ input[i].version < MaxVersion
       /\ call'[c].body \in BodiesOf[i]
       /\ call'[c].key # NoKey
       /\ evaluation' = [evaluation EXCEPT ![c] = [input |-> i, copy |-> input[i], seen |-> 0]]
  /\ lock' = c
  /\ UNCHANGED input

-----------------------------------------------------------------------------
(* The steps of one call of evaluate.                                      *)

(* with self.lock, get_input, and the command for create_run: under the    *)
(* header's key, any at all, or the input's own; never without one.        *)
Begin(c) ==
  /\ lock = Nobody
  /\ Submit(c)
  /\ \E i \in Inputs :
       /\ input[i].version < MaxVersion
       /\ call'[c].body \in BodiesOf[i]
       /\ call'[c].key # NoKey
       /\ evaluation' = [evaluation EXCEPT ![c] = [input |-> i, copy |-> input[i], seen |-> 0]]
  /\ lock' = c
  /\ UNCHANGED input

(* Inside create_run. The run it returns is the document it last read or   *)
(* wrote.                                                                  *)
Proceed(c) ==
  /\ call[c].step # "done"
  /\ Step(c)
  /\ evaluation' = [evaluation EXCEPT ![c].seen =
                      IF call'[c].run = NoRun THEN 0 ELSE run'[call'[c].run].version]
  /\ UNCHANGED <<input, lock>>

Return(c) ==
  /\ Release(c)
  /\ lock' = Nobody
  /\ evaluation' = [evaluation EXCEPT ![c] = Nothing]

(* create_run returned: the copy of the input, changed, is saved.          *)
Linked(c) == [version |-> evaluation[c].copy.version + 1, run |-> call[c].run,
              runVersion |-> evaluation[c].seen]

SaveInput(c) ==
  /\ At(c, "done") /\ Good(c)
  /\ input' = [input EXCEPT ![evaluation[c].input] = Linked(c)]
  /\ Return(c)

(* create_run raised, or the save did: the input stays as it is.           *)
Raise(c) ==
  /\ At(c, "done")
  /\ Good(c) => "escaped" \in Faults
  /\ Return(c)
  /\ UNCHANGED input

-----------------------------------------------------------------------------
(* The rest of the process.                                                *)

PlainCall(c) == (Submit(c) \/ Step(c)) /\ UNCHANGED inputVars

Stop ==
  /\ Crash
  /\ lock' = Nobody
  /\ evaluation' = [c \in Evaluators |-> Nothing]
  /\ UNCHANGED input

Start == Restart /\ UNCHANGED inputVars

InputNext ==
  \/ \E c \in Evaluators : Begin(c) \/ Proceed(c) \/ SaveInput(c) \/ Raise(c)
  \/ \E c \in Calls \ Evaluators : PlainCall(c)
  \/ Stop
  \/ Start

InputSpec == InputInit /\ [][InputNext]_allVars

-----------------------------------------------------------------------------
(* Properties.                                                             *)

(* No evaluation is lost under another: every save of an input's document  *)
(* is the successor of the one that is there, and links a run.             *)
InputAdvances ==
  [][\A i \in Inputs : input'[i] # input[i] =>
       /\ input'[i].version = input[i].version + 1
       /\ input'[i].run # NoRun]_allVars

(* The run an input links is stored, and was made from a command for this  *)
(* input's own snapshot, also when a key was used before for another       *)
(* input and whatever else the process runs.                               *)
LinkIsOwn ==
  \A i \in Inputs : input[i].run # NoRun =>
    /\ run[input[i].run].state # "ABSENT"
    /\ \E cmd \in created : cmd.run = input[i].run /\ cmd.body \in BodiesOf[i]

(* The inductive invariant behind LinkIsOwn and InputAdvances.             *)

(* Commands for runs that are stored, one for each run: those of the       *)
(* ledger, and those of the threads that have, or return, a saved run.     *)
Holding(c) == \/ call[c].step \in Executing \cup {"replay"}
              \/ call[c].step \in {"finish", "done"} /\ Good(c)
Recorded ==
  /\ \A cmd \in created : run[cmd.run].state # "ABSENT"
  /\ \A a, b \in created : a.run = b.run => a = b
  /\ ledger \subseteq created
  /\ \A c \in Calls : Holding(c) => Command(c) \in created

(* The thread that has the lock is the one in evaluate. Its copy is what   *)
(* the row holds, and its command is one for the input.                    *)
Locked ==
  \A c \in Evaluators :
    /\ call[c].step # "idle" <=> lock = c
    /\ lock = c => /\ evaluation[c].input \in Inputs
                   /\ evaluation[c].copy = input[evaluation[c].input]
                   /\ call[c].body \in BodiesOf[evaluation[c].input]

InputInductive == InputTypeOK /\ Recorded /\ Locked /\ LinkIsOwn

(* Two properties of evaluations that have their keys to themselves.       *)

(* Without a header an input is measured once, however many evaluations    *)
(* arrive at once: of two runs under its own key, one lost its process.    *)
EvaluatedOnce ==
  \A a, b \in created : a.key \in OwnKeys /\ a.key = b.key /\ a # b =>
    \E cmd \in {a, b} : run[cmd.run].failure = "interrupted"

(* The link is final: it names a terminal run at the version it keeps.     *)
LinkIsFinal ==
  \A i \in Inputs : input[i].run # NoRun =>
    /\ run[input[i].run].state \in Terminal
    /\ run[input[i].run].version = input[i].runVersion

(* What the two rest on: no exception escapes, and no plain call uses a    *)
(* key of an evaluation. Such keys are used under the lock only.           *)
SerialKeys == {k \in Keys : \A d \in Calls \ Evaluators : k \notin KeysOf[d]}
Undisturbed ==
  /\ "escaped" \notin Faults
  /\ OwnKeys \subseteq SerialKeys
  /\ \A c \in Evaluators : KeysOf[c] \subseteq SerialKeys \cup {NoKey}

(* The inductive invariant behind them.                                    *)

KeysAreSerial ==
  \A c \in Calls : call[c].step # "idle" =>
    (c \in Evaluators <=> call[c].key \in SerialKeys)

SerialCommands == {cmd \in created : cmd.key \in SerialKeys}
Lost(cmd) == run[cmd.run].failure = "interrupted"
WorkedOn(cmd) ==
  \E c \in Evaluators : /\ call[c].step \in Executing
                        /\ Command(c) = cmd
                        /\ call[c].step # "remember" => cmd \in ledger

(* A command lost its process, or is worked on, or is in the ledger and    *)
(* its run is terminal.                                                    *)
Settled ==
  \A cmd \in SerialCommands :
    \/ Lost(cmd)
    \/ run[cmd.run].state = "RUNNING" /\ (up => WorkedOn(cmd))
    \/ run[cmd.run].state \in Terminal /\ cmd \in ledger

OneSurvivor ==
  \A a, b \in SerialCommands : a.key = b.key /\ a # b => \E cmd \in {a, b} : Lost(cmd)

(* A thread that will save a run under a key found no row for it, and no   *)
(* command that did not lose its process.                                  *)
Unrivalled ==
  \A c \in Evaluators :
    /\ call[c].step \in Unsaved \cup {"remember"} => \A e \in ledger : e.key # call[c].key
    /\ call[c].step \in Unsaved =>
         \A cmd \in SerialCommands : cmd.key = call[c].key => Lost(cmd)

(* What create_run returns is final, and is what the thread has seen.      *)
SeenIsFinal ==
  \A c \in Evaluators : call[c].step \in {"finish", "done"} /\ Good(c) =>
    /\ call[c].run \in Runs
    /\ run[call[c].run].state \in Terminal
    /\ run[call[c].run].version = evaluation[c].seen

SerialInductive ==
  KeysAreSerial /\ Settled /\ OneSurvivor /\ Unrivalled /\ SeenIsFinal /\ LinkIsFinal
=============================================================================
