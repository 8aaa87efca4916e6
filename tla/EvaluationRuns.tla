--------------------------- MODULE EvaluationRuns ---------------------------
(***************************************************************************)
(* The life of an EvaluationRun: EchoService.create_run, the idempotency   *)
(* ledger of EchoStore, the outcome transaction, and what a process start  *)
(* does with the runs an earlier process left behind.                      *)
(*                                                                         *)
(* FastAPI serves each POST /api/v1/evaluation-runs on a thread of its     *)
(* pool, so several calls of create_run run at once in one process. Every  *)
(* EchoStore method holds the store's lock and is one SQLite transaction:  *)
(* it is one step here. Between two of them any other call may run, and    *)
(* the process may die.                                                    *)
(*                                                                         *)
(* A key stands for the ledger's primary key (scope "create-run",          *)
(* organization, workspace, Idempotency-Key); a body for what request_hash *)
(* tells apart. A command that names no visible suite or an unsuitable     *)
(* binding is refused before any state changes, and is not a step.         *)
(***************************************************************************)
EXTENDS Naturals, FiniteSets

CONSTANTS Calls,       \* the threads that serve POST /evaluation-runs
          Runs,        \* the ids uuid4 can return (bounds the runs created)
          Keys,        \* Idempotency-Keys
          NoKey,       \* the header is absent
          KeysOf,      \* the keys the client behind a call uses
          Bodies,      \* request bodies
          NoBody,      \* an idle thread has no body
          NoRun,       \* a call that has no run yet
          Faults,      \* how an engine may miss: "handled", "escaped"
          Managed,     \* an activity broker is configured
          MaxCrashes   \* bounds the crashes of the process

ASSUME CallsAssumption == /\ NoRun \notin Runs
                          /\ NoKey \notin Keys
                          /\ NoBody \notin Bodies
                          /\ KeysOf \in [Calls -> SUBSET (Keys \cup {NoKey})]
ASSUME FaultsAssumption == Faults \subseteq {"handled", "escaped"}
ASSUME BoundsAssumption == Managed \in BOOLEAN /\ MaxCrashes \in Nat

VARIABLES up,         \* the process serves requests
          crashes,    \* how often it died
          run,        \* the "run" rows of the resources table
          evidence,   \* per run, the result, gate and sample rows naming it
          reports,    \* the runs whose report bytes are published
          ledger,     \* the rows of the idempotency table
          active,     \* the tasks the activity broker knows
          call,       \* the threads
          answered,   \* history: every 201 given to a keyed command
          created,    \* history: the command each saved run was created for
          abandoned   \* history: runs whose call ended with an uncaught error

store   == <<run, evidence, ledger>>
history == <<answered, created, abandoned>>
vars    == <<up, crashes, store, reports, active, call, history>>

Terminal  == {"SUCCEEDED", "FAILED"}
Executing == {"remember", "evaluate", "publish", "commit", "fail"}
Steps     == Executing \cup {"idle", "resolve", "replay", "admit", "save", "finish", "done"}
Answers   == {"none", "succeeded", "failed", "replayed", "conflict", "refused",
              "not_found", "error"}
NoRow     == [state |-> "ABSENT", version |-> 0, failure |-> "none"]
NoRows    == [result |-> 0, gate |-> 0, samples |-> 0]
Idle      == [step |-> "idle", key |-> NoKey, body |-> NoBody,
              run |-> NoRun, answer |-> "none"]

CallRecord == [step : Steps, key : Keys \cup {NoKey}, body : Bodies \cup {NoBody},
               run : Runs \cup {NoRun}, answer : Answers]
RunRow     == [state : {"ABSENT", "RUNNING"} \cup Terminal, version : Nat,
               failure : {"none", "engine", "interrupted"}]

TypeOK ==
  /\ up \in BOOLEAN
  /\ crashes \in 0..MaxCrashes
  /\ run \in [Runs -> RunRow]
  /\ evidence \in [Runs -> [result : Nat, gate : Nat, samples : Nat]]
  /\ reports \subseteq Runs
  /\ ledger \subseteq [key : Keys, body : Bodies, run : Runs]
  /\ active \subseteq Runs
  /\ call \in [Calls -> CallRecord]
  /\ answered \subseteq [key : Keys, body : Bodies, run : Runs]
  /\ created \subseteq [key : Keys \cup {NoKey}, body : Bodies, run : Runs]
  /\ abandoned \subseteq Runs

Init ==
  /\ up = TRUE
  /\ crashes = 0
  /\ run = [r \in Runs |-> NoRow]
  /\ evidence = [r \in Runs |-> NoRows]
  /\ reports = {}
  /\ ledger = {}
  /\ active = {}
  /\ call = [c \in Calls |-> Idle]
  /\ answered = {}
  /\ created = {}
  /\ abandoned = {}

At(c, step) == up /\ call[c].step = step
Goto(c, step) == call' = [call EXCEPT ![c].step = step]
Answer(c, answer) == call' = [call EXCEPT ![c].step = "done", ![c].answer = answer]

Command(c) == [key |-> call[c].key, body |-> call[c].body, run |-> call[c].run]

(* A 201 is remembered by the client under the key it sent.                *)
Record(c) == answered' = IF call[c].key = NoKey THEN answered
                         ELSE answered \cup {Command(c)}

Row(key) == {e \in ledger : e.key = key}
InUse(r) == run[r].state # "ABSENT" \/ \E c \in Calls : call[c].run = r
Pending  == {c \in Calls : call[c].step = "resolve"}

-----------------------------------------------------------------------------
(* Faulty variants of definitions below. No specification uses them: each  *)
(* is put in the place of the definition it is named after to see that a   *)
(* property notices.                                                       *)

(* Forgets to skip the runs that are not RUNNING.                          *)
InterruptedAny(row) ==
  IF row.state = "ABSENT" THEN row
  ELSE [state |-> "FAILED", version |-> row.version + 1, failure |-> "interrupted"]

(* Forgets to raise the version.                                           *)
InterruptedSameVersion(row) ==
  IF row.state # "RUNNING" THEN row
  ELSE [row EXCEPT !.state = "FAILED", !.failure = "interrupted"]

(* Leaves the leftover runs as they are.                                   *)
InterruptedNot(row) == row

(* Inserts a second row for a key.                                         *)
KeyFreeAlways(key) == TRUE

(* Never compares the bodies, and replays any run of the key.              *)
ResolveAnyBody(c) ==
  /\ At(c, "resolve")
  /\ \/ \E e \in Row(call[c].key) :
          call' = [call EXCEPT ![c].step = "replay", ![c].run = e.run]
     \/ /\ Row(call[c].key) = {}
        /\ \E r \in {r \in Runs : ~InUse(r)} :
             call' = [call EXCEPT ![c].step = IF Managed THEN "admit" ELSE "save",
                                  ![c].run = r]
  /\ UNCHANGED <<up, crashes, store, reports, active, history>>

(* Falls back to untracked work when the broker refuses.                   *)
AdmitUntracked(c) ==
  /\ At(c, "admit")
  /\ \/ active' = active \cup {call[c].run}
     \/ UNCHANGED active
  /\ Goto(c, "save")
  /\ UNCHANGED <<up, crashes, store, reports, history>>

-----------------------------------------------------------------------------
(* The steps of one call of create_run, in the order of the code.          *)

(* A client posts a command, possibly one it has sent before. The guard    *)
(* is the bound on ids: every pending call must still find a fresh one.    *)
Submit(c) ==
  /\ At(c, "idle")
  /\ Cardinality({r \in Runs : ~InUse(r)}) > Cardinality(Pending)
  /\ \E key \in KeysOf[c], body \in Bodies :
        call' = [call EXCEPT ![c] = [Idle EXCEPT !.step = "resolve", !.key = key,
                                                 !.body = body]]
  /\ UNCHANGED <<up, crashes, store, reports, active, history>>

(* resolve_idempotency, and on no row the construction of the run.         *)
Resolve(c) ==
  /\ At(c, "resolve")
  /\ \/ /\ \E e \in Row(call[c].key) : e.body # call[c].body
        /\ Answer(c, "conflict")
     \/ \E e \in Row(call[c].key) :
          /\ e.body = call[c].body
          /\ call' = [call EXCEPT ![c].step = "replay", ![c].run = e.run]
     \/ /\ Row(call[c].key) = {}
        /\ \E r \in {r \in Runs : ~InUse(r)} :
             call' = [call EXCEPT ![c].step = IF Managed THEN "admit" ELSE "save",
                                  ![c].run = r]
  /\ UNCHANGED <<up, crashes, store, reports, active, history>>

(* get_run for the id the ledger gave.                                     *)
Replay(c) ==
  /\ At(c, "replay")
  /\ \/ /\ run[call[c].run].state = "ABSENT"
        /\ Answer(c, "not_found")
        /\ UNCHANGED answered
     \/ /\ run[call[c].run].state # "ABSENT"
        /\ Answer(c, "replayed")
        /\ Record(c)
  /\ UNCHANGED <<up, crashes, store, reports, active, created, abandoned>>

(* The broker's half of admit_and_persist: it registers the task, or       *)
(* refuses it and the run is never saved.                                  *)
Admit(c) ==
  /\ At(c, "admit")
  /\ \/ /\ active' = active \cup {call[c].run}
        /\ Goto(c, "save")
     \/ /\ Answer(c, "refused")
        /\ UNCHANGED active
  /\ UNCHANGED <<up, crashes, store, reports, history>>

SaveRun(c) ==
  /\ At(c, "save")
  /\ run' = [run EXCEPT ![call[c].run] =
               [state |-> "RUNNING", version |-> 1, failure |-> "none"]]
  /\ created' = created \cup {Command(c)}
  /\ Goto(c, "remember")
  /\ UNCHANGED <<up, crashes, evidence, ledger, reports, active, answered, abandoned>>

(* The ledger's primary key: an INSERT of a key it holds is refused.       *)
KeyFree(key) == Row(key) = {}

(* remember_idempotency: a plain INSERT. A second row for the key raises   *)
(* IntegrityError, which create_run does not catch.                        *)
Remember(c) ==
  /\ At(c, "remember")
  /\ \/ /\ call[c].key = NoKey
        /\ Goto(c, "evaluate")
        /\ UNCHANGED <<ledger, abandoned>>
     \/ /\ call[c].key # NoKey /\ KeyFree(call[c].key)
        /\ ledger' = ledger \cup {[key |-> call[c].key, body |-> call[c].body,
                                   run |-> call[c].run]}
        /\ Goto(c, "evaluate")
        /\ UNCHANGED abandoned
     \/ /\ call[c].key # NoKey /\ ~KeyFree(call[c].key)
        /\ abandoned' = abandoned \cup {call[c].run}
        /\ Answer(c, "error")
        /\ UNCHANGED ledger
  /\ UNCHANGED <<up, crashes, run, evidence, reports, active, answered, created>>

(* Resolving the artifact, selecting the engine and running it. It may     *)
(* measure, or miss with EchoError or EvaluationEngineFailure.             *)
Evaluate(c) ==
  /\ At(c, "evaluate")
  /\ \/ Goto(c, "publish")
     \/ "handled" \in Faults /\ Goto(c, "fail")
  /\ UNCHANGED <<up, crashes, store, reports, active, history>>

(* artifacts.publish(report_path): the report's bytes become an artifact.  *)
Publish(c) ==
  /\ At(c, "publish")
  /\ \/ /\ reports' = reports \cup {call[c].run}
        /\ Goto(c, "commit")
     \/ /\ "handled" \in Faults
        /\ Goto(c, "fail")
        /\ UNCHANGED reports
  /\ UNCHANGED <<up, crashes, store, active, history>>

(* save_outcome: result, gate, samples and the SUCCEEDED run, committed in *)
(* one transaction. The run document is the copy create_run built, so its  *)
(* version is 2 whatever the row holds.                                    *)
Commit(c) ==
  /\ At(c, "commit")
  /\ LET r == call[c].run IN
       /\ evidence' = [evidence EXCEPT ![r] = [result |-> @.result + 1,
                                               gate |-> @.gate + 1,
                                               samples |-> @.samples + 1]]
       /\ run' = [run EXCEPT ![r] = [state |-> "SUCCEEDED", version |-> 2,
                                     failure |-> "none"]]
  /\ call' = [call EXCEPT ![c].step = "finish", ![c].answer = "succeeded"]
  /\ UNCHANGED <<up, crashes, ledger, reports, active, history>>

(* The except branch: the FAILED document, then the error to the client.   *)
Fail(c) ==
  /\ At(c, "fail")
  /\ run' = [run EXCEPT ![call[c].run] = [state |-> "FAILED", version |-> 2,
                                          failure |-> "engine"]]
  /\ call' = [call EXCEPT ![c].step = "finish", ![c].answer = "failed"]
  /\ UNCHANGED <<up, crashes, evidence, ledger, reports, active, history>>

(* An exception create_run does not catch: a transaction that fails, an    *)
(* engine that raises something else or leaves no report, a score no       *)
(* result may have. The client gets a 500; a saved run stays as it is.     *)
Escape(c) ==
  /\ "escaped" \in Faults
  /\ up /\ call[c].step \in Executing \cup {"save"}
  /\ abandoned' = abandoned \cup ({call[c].run} \cap {r \in Runs : run[r].state = "RUNNING"})
  /\ Answer(c, "error")
  /\ UNCHANGED <<up, crashes, store, reports, active, answered, created>>

(* The broker's half of complete_after_persist, and the response.          *)
Finish(c) ==
  /\ At(c, "finish")
  /\ active' = active \ {call[c].run}
  /\ Goto(c, "done")
  /\ IF call[c].answer = "succeeded" THEN Record(c) ELSE UNCHANGED answered
  /\ UNCHANGED <<up, crashes, store, reports, created, abandoned>>

(* The response is delivered and the thread is free.                       *)
Release(c) ==
  /\ At(c, "done")
  /\ call' = [call EXCEPT ![c] = Idle]
  /\ UNCHANGED <<up, crashes, store, reports, active, history>>

-----------------------------------------------------------------------------
(* The process.                                                            *)

(* The process dies: threads are gone, tables and artifacts stay.          *)
Crash ==
  /\ up
  /\ crashes < MaxCrashes
  /\ up' = FALSE
  /\ crashes' = crashes + 1
  /\ call' = [c \in Calls |-> Idle]
  /\ UNCHANGED <<store, reports, active, history>>

(* EchoService.__init__: interrupt_running_runs in one transaction, then   *)
(* the broker is told list_active_activity_tasks. Requests come after.     *)
Interrupted(row) ==
  IF row.state # "RUNNING" THEN row
  ELSE [state |-> "FAILED", version |-> row.version + 1, failure |-> "interrupted"]

Restart ==
  /\ ~up
  /\ up' = TRUE
  /\ run' = [r \in Runs |-> Interrupted(run[r])]
  /\ active' = {r \in Runs : run'[r].state = "RUNNING"}
  /\ abandoned' = {}
  /\ UNCHANGED <<crashes, evidence, ledger, reports, call, answered, created>>

Step(c) == \/ Resolve(c) \/ Replay(c) \/ Admit(c) \/ SaveRun(c) \/ Remember(c)
           \/ Evaluate(c) \/ Publish(c) \/ Commit(c) \/ Fail(c) \/ Escape(c)
           \/ Finish(c) \/ Release(c)

Next == \/ \E c \in Calls : Submit(c) \/ Step(c)
        \/ Crash
        \/ Restart

Spec == Init /\ [][Next]_vars

(* Threads are scheduled, engines answer within their deadline (30 s for a *)
(* plugin, 60 s per judged record), and a dead process is started again.   *)
(* Clients owe nothing.                                                    *)
Fairness == /\ \A c \in Calls : WF_vars(Step(c))
            /\ WF_vars(Restart)

FairSpec == Spec /\ Fairness

-----------------------------------------------------------------------------
(* Safety.                                                                 *)

(* Outcome atomicity, across failures, crashes and restarts: a run is      *)
(* SUCCEEDED exactly when its result, its gate and its samples are stored, *)
(* once each and over a published report; a run that failed or was         *)
(* interrupted has none of them (save_outcome, interrupt_running_runs).    *)
OutcomeComplete ==
  \A r \in Runs :
    IF run[r].state = "SUCCEEDED"
    THEN evidence[r] = [result |-> 1, gate |-> 1, samples |-> 1] /\ r \in reports
    ELSE evidence[r] = NoRows

(* A saved run changes once: from RUNNING at version 1 to a terminal state *)
(* at version 2. Neither a late thread nor a process start rewrites it.    *)
RunsChangeOnce ==
  [][\A r \in Runs : run[r].state # "ABSENT" /\ run'[r] # run[r] =>
        /\ run[r].state = "RUNNING" /\ run[r].version = 1
        /\ run'[r].state \in Terminal /\ run'[r].version = 2]_vars

(* However calls race and processes die, two commands with one key that    *)
(* were both answered 201 had the same body and got the same run           *)
(* (resolve_idempotency, remember_idempotency). It is OneResourcePerKey of *)
(* KeyedCreate, and follows from KeepsPromise below.                       *)
AnswersAgree ==
  \A a, b \in answered : a.key = b.key => a = b

(* The ledger names saved runs only, and each run answers one key: a       *)
(* replay never finds its run missing.                                     *)
LedgerSound ==
  /\ \A e \in ledger : run[e.run].state # "ABSENT"
  /\ \A e, f \in ledger : e.key = f.key \/ e.run = f.run => e = f

(* While the process serves, every RUNNING run has a thread of this        *)
(* process working on it, or lost it to an uncaught error; no RUNNING run  *)
(* is inherited from a dead process, and no two threads work on one run.   *)
RunningAccountedFor ==
  up => /\ \A r \in Runs : run[r].state = "RUNNING" =>
             \/ r \in abandoned
             \/ \E c \in Calls : call[c].run = r /\ call[c].step \in Executing
        /\ \A c, d \in Calls : call[c].step \in Executing /\ call[d].step \in Executing
                               /\ call[c].run = call[d].run => c = d

(* The maintenance broker never believes a managed process idle while one  *)
(* of its runs is RUNNING (admit_and_persist, complete_after_persist).     *)
BrokerSeesRunning ==
  Managed /\ up => {r \in Runs : run[r].state = "RUNNING"} \subseteq active

(* What the client is told has been committed: at the time of the response *)
(* a success names a SUCCEEDED run and a failure names a FAILED one.       *)
AnswersDurable ==
  \A c \in Calls : call[c].step \in {"finish", "done"} =>
    /\ call[c].answer = "succeeded" => run[call[c].run].state = "SUCCEEDED"
    /\ call[c].answer = "failed" => run[call[c].run] = [state |-> "FAILED", version |-> 2,
                                                        failure |-> "engine"]
    /\ call[c].answer # "not_found"

(* What POST /evaluation-runs promises. A command without a key takes      *)
(* effect when its run is saved, one with a key when the ledger names its  *)
(* run: a run whose key was lost to another, or to a crash in between, is  *)
(* none the promise speaks of, and no POST ever returns it.                *)
Effective == ledger \cup {cmd \in created : cmd.key = NoKey}
Kept      == {[id |-> cmd.run, body |-> cmd.body] : cmd \in Effective}
Receipts(commands) == {[key |-> cmd.key, body |-> cmd.body, id |-> cmd.run] : cmd \in commands}

Promise == INSTANCE KeyedCreate WITH Ids <- Runs, stored <- Kept, ledger <- Receipts(ledger),
                                     answered <- Receipts(answered), shown <- {}

(* create_run, which saves the run in one transaction and binds its key in *)
(* another, with racing calls and crashes between the two, still binds a   *)
(* key to one run and body for good, and answers a keyed command with      *)
(* nothing but the run that took effect for it (resolve_idempotency,       *)
(* save_run, remember_idempotency).                                        *)
KeepsPromise == Promise!Spec

(* The inductive invariant behind the properties above: what each thread   *)
(* knows about the run it holds, at every step of create_run.              *)

(* A run's row is one of the documents the code writes.                    *)
RowsWellFormed ==
  \A r \in Runs :
    \/ run[r] = NoRow
    \/ run[r] = [state |-> "RUNNING", version |-> 1, failure |-> "none"]
    \/ run[r] = [state |-> "SUCCEEDED", version |-> 2, failure |-> "none"]
    \/ run[r] = [state |-> "FAILED", version |-> 2, failure |-> "engine"]
    \/ run[r] = [state |-> "FAILED", version |-> 2, failure |-> "interrupted"]

(* A dead process has no threads.                                          *)
DownIsIdle == ~up => \A c \in Calls : call[c] = Idle

(* A thread past resolution holds a run id, and the row is as it left it.  *)
Unsaved  == {"admit", "save"}
HeldRuns ==
  \A c \in Calls :
    LET r == call[c].run IN
      /\ call[c].step \in Unsaved => r \in Runs /\ run[r] = NoRow
      /\ call[c].step = "save" /\ Managed => r \in active
      /\ call[c].step \in Executing => r \in Runs /\ run[r].state = "RUNNING"
      /\ call[c].step = "commit" => r \in reports
      /\ call[c].step = "replay" => r \in Runs /\ run[r].state # "ABSENT"
      /\ call[c].step = "finish" => r \in Runs /\ call[c].answer \in {"succeeded", "failed"}
      /\ call[c].step = "done" /\ call[c].answer \in {"succeeded", "failed"} => r \in Runs
      /\ call[c].step # "idle" => call[c].body \in Bodies

(* Two threads never hold one run that is still to be finished.            *)
HeldOnce ==
  \A c, d \in Calls :
    /\ call[c].step \in Unsaved \cup Executing
    /\ call[d].step \in Unsaved \cup Executing
    /\ call[c].run = call[d].run
    => c = d

(* A run that is still to be remembered is in no row of the ledger; a      *)
(* keyed thread past it, a replaying one and every keyed 201 are.          *)
LedgerFollows ==
  /\ \A c \in Calls : call[c].step = "remember" => \A e \in ledger : e.run # call[c].run
  /\ \A c \in Calls :
       /\ \/ call[c].step \in {"evaluate", "publish", "commit", "replay"}
          \/ call[c].step = "finish" /\ call[c].answer = "succeeded"
       /\ call[c].key # NoKey
       => Command(c) \in ledger
  /\ answered \subseteq ledger

Inductive ==
  /\ TypeOK
  /\ RowsWellFormed
  /\ DownIsIdle
  /\ HeldRuns
  /\ HeldOnce
  /\ LedgerFollows
  /\ OutcomeComplete
  /\ LedgerSound
  /\ RunningAccountedFor
  /\ BrokerSeesRunning
  /\ AnswersDurable

-----------------------------------------------------------------------------
(* Liveness, under FairSpec.                                               *)

(* Every RUNNING run becomes terminal, by its thread or by the next start  *)
(* of the process, unless its thread lost it to an uncaught error: then it *)
(* stays RUNNING in the process that serves (docs/API.md:64 "RUNNING ->    *)
(* SUCCEEDED | FAILED | CANCELLED" does not say so).                       *)
RunsTerminate ==
  \A r \in Runs :
    (run[r].state = "RUNNING") ~> (run[r].state \in Terminal \/ r \in abandoned)
=============================================================================
