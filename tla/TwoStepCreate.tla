--------------------------- MODULE TwoStepCreate ---------------------------
(***************************************************************************)
(* EchoService.create_suite without a Workspace, create_judge_profile and  *)
(* create_feedback_set: look the key up, save the resource, remember the   *)
(* key, each in a transaction of its own. Another command, or a crash, may *)
(* come between any two of them, and each of them may fail.                *)
(*                                                                         *)
(* Unlike TransactionalCreate, a command may leave its resource behind     *)
(* without a receipt: an orphan. Counting the resources that have their    *)
(* receipt, or never get one, the code still keeps KeyedCreate's promise.  *)
(*                                                                         *)
(* What the routes refuse before the lookup (an unknown judge profile,     *)
(* sample or annotation) changes nothing and is left out. The three scopes *)
(* of the ledger do not meet; one of them is modelled.                     *)
(***************************************************************************)
EXTENDS Naturals, FiniteSets

CONSTANTS Calls,       \* the threads that serve one of the three POST routes
          Ids,         \* the ids uuid4 can return (bounds the resources)
          Keys,        \* Idempotency-Keys
          NoKey,       \* the header is absent
          Bodies,      \* what request_hash tells apart
          None,        \* no id, no body
          MaxCrashes   \* bounds the crashes of the process

ASSUME KeyAssumption == NoKey \notin Keys
ASSUME NoneAssumption == None \notin Ids \cup Bodies
ASSUME CrashAssumption == MaxCrashes \in Nat

VARIABLES stored, ledger,  \* the rows of the two tables
          call,            \* the threads
          keyless,         \* history: the ids saved by a command without a key
          answered,        \* history: the 201s given
          crashes          \* how often the process died

vars == <<stored, ledger, call, keyless, answered, crashes>>

Idle == [step |-> "idle", key |-> NoKey, body |-> None, id |-> None, target |-> None,
         answer |-> "none"]

Steps      == {"idle", "resolve", "fetch", "save", "remember", "respond"}
Answers    == {"none", "created", "replayed", "conflict", "corrupt", "error"}
CallRecord == [step : Steps, key : Keys \cup {NoKey}, body : Bodies \cup {None},
               id : Ids \cup {None}, target : Ids \cup {None}, answer : Answers]

TypeOK ==
  /\ stored \subseteq [id : Ids, body : Bodies]
  /\ ledger \subseteq [key : Keys, body : Bodies, id : Ids]
  /\ call \in [Calls -> CallRecord]
  /\ keyless \subseteq Ids
  /\ answered \subseteq [key : Keys \cup {NoKey}, body : Bodies, id : Ids]
  /\ crashes \in 0..MaxCrashes

Init ==
  /\ stored = {}
  /\ ledger = {}
  /\ call = [c \in Calls |-> Idle]
  /\ keyless = {}
  /\ answered = {}
  /\ crashes = 0

At(c, step) == call[c].step = step
Settle(c, step, answer) ==
  call' = [call EXCEPT ![c].step = step, ![c].answer = answer]

Built(c)   == [id |-> call[c].id, body |-> call[c].body]
Receipt(c) == [key |-> call[c].key, body |-> call[c].body, id |-> call[c].id]
Fresh      == {i \in Ids : /\ \A r \in stored : r.id # i
                           /\ \A c \in Calls : call[c].id # i}

-----------------------------------------------------------------------------
(* Faulty variants of definitions below, used by no specification: each is *)
(* put in the place of the definition it is named after to see that a      *)
(* property notices.                                                       *)

(* INSERT OR REPLACE, as save does: the key moves to the last resource.    *)
RememberReplaces(c) ==
  /\ At(c, "remember")
  /\ ledger' = {e \in ledger : e.key # call[c].key} \cup {Receipt(c)}
  /\ Settle(c, "respond", "created")
  /\ UNCHANGED <<stored, keyless, answered, crashes>>

(* The transaction of the save is never committed.                         *)
SaveUncommitted(c) ==
  /\ At(c, "save")
  /\ IF call[c].key = NoKey
     THEN Settle(c, "respond", "created")
     ELSE Settle(c, "remember", "none")
  /\ UNCHANGED <<stored, ledger, keyless, answered, crashes>>

-----------------------------------------------------------------------------
(* The steps of one command.                                               *)

(* A request arrives; the answer is to name the resource built for it,     *)
(* under a fresh id, until a replay turns it to another.                   *)
Arrive(c) ==
  /\ At(c, "idle")
  /\ \E key \in Keys \cup {NoKey}, body \in Bodies, id \in Fresh :
       call' = [call EXCEPT ![c] = [step |-> "resolve", key |-> key, body |-> body,
                                    id |-> id, target |-> id, answer |-> "none"]]
  /\ UNCHANGED <<stored, ledger, keyless, answered, crashes>>

(* resolve_idempotency: a replay, a 409, or a key nobody has used yet.     *)
Resolve(c) ==
  /\ At(c, "resolve")
  /\ \/ \E e \in ledger :
          /\ e.key = call[c].key
          /\ IF e.body = call[c].body
             THEN call' = [call EXCEPT ![c].step = "fetch", ![c].target = e.id]
             ELSE Settle(c, "respond", "conflict")
     \/ /\ \A e \in ledger : e.key # call[c].key
        /\ Settle(c, "save", "none")
  /\ UNCHANGED <<stored, ledger, keyless, answered, crashes>>

(* get_suite, or the row behind "assert ... is not None".                  *)
Fetch(c) ==
  /\ At(c, "fetch")
  /\ Settle(c, "respond",
            IF \E r \in stored : r.id = call[c].target THEN "replayed" ELSE "corrupt")
  /\ UNCHANGED <<stored, ledger, keyless, answered, crashes>>

(* EchoStore.save. Without a key there is nothing to remember.             *)
Save(c) ==
  /\ At(c, "save")
  /\ stored' = stored \cup {Built(c)}
  /\ IF call[c].key = NoKey
     THEN /\ keyless' = keyless \cup {call[c].id}
          /\ Settle(c, "respond", "created")
     ELSE /\ Settle(c, "remember", "none")
          /\ UNCHANGED keyless
  /\ UNCHANGED <<ledger, answered, crashes>>

(* remember_idempotency: the INSERT of a key that is taken by now fails.   *)
Remember(c) ==
  /\ At(c, "remember")
  /\ \A e \in ledger : e.key # call[c].key
  /\ ledger' = ledger \cup {Receipt(c)}
  /\ Settle(c, "respond", "created")
  /\ UNCHANGED <<stored, keyless, answered, crashes>>

(* A transaction raises: a key is taken, or the database is not available. *)
Raise(c) ==
  /\ At(c, "save") \/ At(c, "remember")
  /\ Settle(c, "respond", "error")
  /\ UNCHANGED <<stored, ledger, keyless, answered, crashes>>

Respond(c) ==
  /\ At(c, "respond")
  /\ answered' = IF call[c].answer \in {"created", "replayed"}
                 THEN answered \cup {[key |-> call[c].key, body |-> call[c].body,
                                      id |-> call[c].target]}
                 ELSE answered
  /\ call' = [call EXCEPT ![c] = Idle]
  /\ UNCHANGED <<stored, ledger, keyless, crashes>>

(* The process dies and starts again: the rows stay, the threads are gone. *)
Crash ==
  /\ crashes < MaxCrashes
  /\ crashes' = crashes + 1
  /\ call' = [c \in Calls |-> Idle]
  /\ UNCHANGED <<stored, ledger, keyless, answered>>

Next == \/ \E c \in Calls : \/ Arrive(c) \/ Resolve(c) \/ Fetch(c) \/ Save(c)
                            \/ Remember(c) \/ Raise(c) \/ Respond(c)
        \/ Crash

Spec == Init /\ [][Next]_vars

-----------------------------------------------------------------------------
(* What survives the two steps.                                            *)

(* The resources a client may rely on; the others are orphans.             *)
Kept == {r \in stored : r.id \in keyless \/ \E e \in ledger : e.id = r.id}

Promise == INSTANCE KeyedCreate WITH stored <- Kept, shown <- {}

(* Looking at answers only, save and remember do what KeyedCreate does in  *)
(* one step: racing commands, failures and crashes leave orphans, but no   *)
(* 201 names one, and all 201s of a key had one body, name one resource.   *)
KeepsPromise == Promise!Spec

(* service.py:256 and 948 "assert ... is not None": whatever a receipt     *)
(* names can be read, also when another thread wrote it or a crash came    *)
(* between.                                                                *)
AssertionsHold == \A c \in Calls : call[c].answer # "corrupt"

-----------------------------------------------------------------------------
(* The inductive invariant behind the refinement.                          *)

(* A serving thread has an id of its own. Until its save no row has it; an *)
(* orphan waiting for its receipt is nobody's yet.                         *)
OwnId ==
  /\ \A c \in Calls : ~At(c, "idle") =>
       call[c].id \in Ids /\ call[c].target \in Ids /\ call[c].body \in Bodies
  /\ \A c, d \in Calls : call[c].id = call[d].id /\ call[c].id # None => c = d
  /\ \A c \in Calls : call[c].step \in {"resolve", "save"} => \A r \in stored : r.id # call[c].id
  /\ \A c \in Calls : At(c, "remember") =>
       /\ Built(c) \in stored
       /\ call[c].id \notin keyless
       /\ \A e \in ledger : e.id # call[c].id

(* The answer a thread is about to give names a resource it may name.      *)
AnswerIsBacked ==
  \A c \in Calls :
    /\ At(c, "idle") => call[c] = Idle
    /\ call[c].step \in {"resolve", "save", "remember"} =>
         call[c].target = call[c].id /\ call[c].answer = "none"
    /\ At(c, "remember") => call[c].key # NoKey
    /\ At(c, "fetch") => call[c].answer = "none" /\ call[c].key # NoKey
    /\ At(c, "fetch") \/ call[c].answer \in {"created", "replayed"} =>
         /\ \E r \in Kept : r.id = call[c].target /\ r.body = call[c].body
         /\ Promise!ReceiptOf(call[c].key, call[c].body, call[c].target) \subseteq ledger
    /\ call[c].answer # "corrupt"

(* uuid4 names one row, an orphan too.                                     *)
RowsHaveOwnIds ==
  /\ \A r, s \in stored : r.id = s.id => r = s
  /\ \A i \in keyless : \E r \in stored : r.id = i

Inductive == TypeOK /\ OwnId /\ AnswerIsBacked /\ RowsHaveOwnIds /\ Promise!Consistent
=============================================================================
