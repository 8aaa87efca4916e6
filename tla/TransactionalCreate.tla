------------------------ MODULE TransactionalCreate ------------------------
(***************************************************************************)
(* EchoStore.create_workspace_suite and EchoStore.create_input, statement  *)
(* by statement: the replay lookup and the two INSERTs in one transaction  *)
(* of the one SQLite connection all threads share, under the store's lock. *)
(* Any statement, and the COMMIT, may fail; the process may die anywhere.  *)
(*                                                                         *)
(* The connection is shared, so between two statements another thread that *)
(* used it without the lock would see, commit or roll back this thread's   *)
(* rows. The transaction's rows are therefore kept apart from the database *)
(* and every SELECT reads both. The replay and conflict paths of an input  *)
(* run before its implicit BEGIN; they write nothing, so the model opens   *)
(* the transaction with the lock for both commands.                        *)
(***************************************************************************)
EXTENDS Naturals, FiniteSets

CONSTANTS Calls,       \* the threads that serve the two POST routes
          Ids,         \* the ids uuid4 can return (bounds the resources)
          Keys,        \* Idempotency-Keys
          NoKey,       \* the header is absent: a suite command only
          Bodies,      \* request bodies
          None,        \* no thread, no id, no body
          MaxCrashes   \* bounds the crashes of the process

ASSUME KeyAssumption == NoKey \notin Keys
ASSUME NoneAssumption == None \notin Calls \cup Ids \cup Bodies
ASSUME CrashAssumption == MaxCrashes \in Nat

VARIABLES stored, ledger,  \* the database: committed rows of the two tables
          pending,         \* the open transaction's rows of the two tables
          lock,            \* the thread that holds the store's lock
          call,            \* the threads
          answered, shown, \* history: the 201s given and the resources GET showed
          crashes          \* how often the process died

database == <<stored, ledger>>
history  == <<answered, shown>>
vars     == <<stored, ledger, pending, lock, call, answered, shown, crashes>>

NoRows == [stored |-> {}, ledger |-> {}]
Idle   == [step |-> "idle", key |-> NoKey, body |-> None, id |-> None, target |-> None,
           answer |-> "none"]

InTransaction == {"lookup", "fetch", "insert", "insert_key", "commit", "rollback"}
Steps         == InTransaction \cup {"idle", "lock", "respond"}
Answers       == {"none", "created", "replayed", "conflict", "corrupt", "error"}

CallRecord == [step : Steps, key : Keys \cup {NoKey}, body : Bodies \cup {None},
               id : Ids \cup {None}, target : Ids \cup {None}, answer : Answers]
Resource   == [id : Ids, body : Bodies]
Receipt    == [key : Keys, body : Bodies, id : Ids]

TypeOK ==
  /\ stored \subseteq Resource
  /\ ledger \subseteq Receipt
  /\ pending \in [stored : SUBSET Resource, ledger : SUBSET Receipt]
  /\ lock \in Calls \cup {None}
  /\ call \in [Calls -> CallRecord]
  /\ answered \subseteq [key : Keys \cup {NoKey}, body : Bodies, id : Ids]
  /\ shown \subseteq Resource
  /\ crashes \in 0..MaxCrashes

Init ==
  /\ stored = {}
  /\ ledger = {}
  /\ pending = NoRows
  /\ lock = None
  /\ call = [c \in Calls |-> Idle]
  /\ answered = {}
  /\ shown = {}
  /\ crashes = 0

At(c, step) == call[c].step = step
Goto(c, step) == call' = [call EXCEPT ![c].step = step]
Settle(c, step, answer) ==
  call' = [call EXCEPT ![c].step = step, ![c].answer = answer]

(* What a SELECT on the shared connection returns.                         *)
VisibleResources == stored \cup pending.stored
VisibleReceipts  == ledger \cup pending.ledger

Fresh == {i \in Ids : /\ \A r \in stored : r.id # i
                      /\ \A c \in Calls : call[c].id # i}

-----------------------------------------------------------------------------
(* Faulty variants of definitions below, used by no specification: each is *)
(* put in the place of the definition it is named after to see that a      *)
(* property notices.                                                       *)

(* Commits the resource at once and leaves only the receipt to the         *)
(* transaction, as the two-step create_suite does.                         *)
InsertAutocommit(c) ==
  /\ At(c, "insert")
  /\ \/ /\ stored' = stored \cup {[id |-> call[c].id, body |-> call[c].body]}
        /\ Goto(c, IF call[c].key = NoKey THEN "commit" ELSE "insert_key")
     \/ /\ Settle(c, "rollback", "error")
        /\ UNCHANGED stored
  /\ UNCHANGED <<ledger, pending, lock, history, crashes>>

(* A GET that does not take the lock.                                      *)
ReadableAlways == TRUE

(* Writes the receipt first and commits it alone.                          *)
LookupCommitsReceipt(c) ==
  /\ At(c, "lookup")
  /\ \/ /\ \E e \in VisibleReceipts : e.key = call[c].key /\ e.body = call[c].body
        /\ Goto(c, "fetch")
        /\ UNCHANGED ledger
     \/ /\ \A e \in VisibleReceipts : e.key # call[c].key
        /\ ledger' = ledger \cup
             (IF call[c].key = NoKey THEN {}
              ELSE {[key |-> call[c].key, body |-> call[c].body, id |-> call[c].id]})
        /\ Goto(c, "insert")
  /\ UNCHANGED <<stored, pending, lock, history, crashes>>

-----------------------------------------------------------------------------
(* The steps of one command.                                               *)

(* A request arrives; the service builds the resource with a fresh id. The *)
(* target is the resource the answer names: this one, until a replay.      *)
Arrive(c) ==
  /\ At(c, "idle")
  /\ \E key \in Keys \cup {NoKey}, body \in Bodies, id \in Fresh :
       call' = [call EXCEPT ![c] = [step |-> "lock", key |-> key, body |-> body,
                                    id |-> id, target |-> id, answer |-> "none"]]
  /\ UNCHANGED <<database, pending, lock, history, crashes>>

(* with self._lock, BEGIN IMMEDIATE; when it fails the lock is given back. *)
Acquire(c) ==
  /\ At(c, "lock")
  /\ lock = None
  /\ \/ lock' = c /\ Goto(c, "lookup")
     \/ lock' = None /\ Settle(c, "respond", "error")
  /\ UNCHANGED <<database, pending, history, crashes>>

(* SELECT request_hash, resource_id: a replay, a conflict, or a new key.   *)
Lookup(c) ==
  /\ At(c, "lookup")
  /\ \/ \E e \in VisibleReceipts :
          /\ e.key = call[c].key
          /\ IF e.body = call[c].body
             THEN call' = [call EXCEPT ![c].step = "fetch", ![c].target = e.id]
             ELSE Settle(c, "rollback", "conflict")
     \/ /\ \A e \in VisibleReceipts : e.key # call[c].key
        /\ Goto(c, "insert")
     \/ Settle(c, "rollback", "error")
  /\ UNCHANGED <<database, pending, lock, history, crashes>>

(* SELECT document of the resource the receipt names.                      *)
Fetch(c) ==
  /\ At(c, "fetch")
  /\ \/ IF \E r \in VisibleResources : r.id = call[c].target
        THEN Settle(c, "commit", "replayed")
        ELSE Settle(c, "rollback", "corrupt")
     \/ Settle(c, "rollback", "error")
  /\ UNCHANGED <<database, pending, lock, history, crashes>>

InsertResource(c) ==
  /\ At(c, "insert")
  /\ \/ /\ pending' = [pending EXCEPT !.stored = @ \cup
                          {[id |-> call[c].id, body |-> call[c].body]}]
        /\ Settle(c, IF call[c].key = NoKey THEN "commit" ELSE "insert_key", "created")
     \/ /\ Settle(c, "rollback", "error")
        /\ UNCHANGED pending
  /\ UNCHANGED <<database, lock, history, crashes>>

InsertReceipt(c) ==
  /\ At(c, "insert_key")
  /\ \/ /\ \A e \in VisibleReceipts : e.key # call[c].key
        /\ pending' = [pending EXCEPT !.ledger = @ \cup
             {[key |-> call[c].key, body |-> call[c].body, id |-> call[c].id]}]
        /\ Goto(c, "commit")
     \/ /\ Settle(c, "rollback", "error")
        /\ UNCHANGED pending
  /\ UNCHANGED <<database, lock, history, crashes>>

(* COMMIT and the release of the lock, or a COMMIT that fails.             *)
Commit(c) ==
  /\ At(c, "commit")
  /\ \/ /\ stored' = stored \cup pending.stored
        /\ ledger' = ledger \cup pending.ledger
        /\ pending' = NoRows
        /\ lock' = None
        /\ Goto(c, "respond")
     \/ /\ Settle(c, "rollback", "error")
        /\ UNCHANGED <<database, pending, lock>>
  /\ UNCHANGED <<history, crashes>>

(* except Exception: rollback; raise. The lock is released.                *)
Rollback(c) ==
  /\ At(c, "rollback")
  /\ pending' = NoRows
  /\ lock' = None
  /\ Goto(c, "respond")
  /\ UNCHANGED <<database, history, crashes>>

(* The answer leaves the process; the thread is free.                      *)
Respond(c) ==
  /\ At(c, "respond")
  /\ answered' = IF call[c].answer \in {"created", "replayed"}
                 THEN answered \cup {[key |-> call[c].key, body |-> call[c].body,
                                      id |-> call[c].target]}
                 ELSE answered
  /\ call' = [call EXCEPT ![c] = Idle]
  /\ UNCHANGED <<database, pending, lock, shown, crashes>>

(* get_suite, get_input, list_inputs: one SELECT under the lock.           *)
Readable == lock = None

Read ==
  /\ Readable
  /\ \E r \in VisibleResources : shown' = shown \cup {r}
  /\ UNCHANGED <<database, pending, lock, call, answered, crashes>>

(* The process dies and starts again: threads, lock and the open           *)
(* transaction are gone, committed rows stay (SQLite's WAL).               *)
Crash ==
  /\ crashes < MaxCrashes
  /\ crashes' = crashes + 1
  /\ pending' = NoRows
  /\ lock' = None
  /\ call' = [c \in Calls |-> Idle]
  /\ UNCHANGED <<database, history>>

Next == \/ \E c \in Calls : \/ Arrive(c) \/ Acquire(c) \/ Lookup(c) \/ Fetch(c)
                            \/ InsertResource(c) \/ InsertReceipt(c) \/ Commit(c)
                            \/ Rollback(c) \/ Respond(c)
        \/ Read
        \/ Crash

Spec == Init /\ [][Next]_vars

-----------------------------------------------------------------------------
(* Safety.                                                                 *)

Promise == INSTANCE KeyedCreate

(* Statement by statement, with failing statements and crashes, the code   *)
(* does what KeyedCreate promises: resource and receipt appear in one      *)
(* step, and nothing that was answered or shown is ever taken back.        *)
KeepsPromise == Promise!Spec

(* A command answered with an error left nothing behind: neither its       *)
(* resource nor its receipt is in the database or about to get there, so   *)
(* the client may send the same key again.                                 *)
FailureLeavesNothing ==
  \A c \in Calls : call[c].step = "respond" /\ call[c].answer \in {"error", "conflict"} =>
    /\ \A r \in VisibleResources : r.id # call[c].id
    /\ \A e \in VisibleReceipts : e.id # call[c].id

(* ECHO_STATE_CORRUPT and ECHO_INPUT_RECEIPT_INVALID, the answers for a    *)
(* receipt without its resource, are never given.                          *)
NeverCorrupt == \A c \in Calls : call[c].answer # "corrupt"

(* Whatever was answered 201 under one key names one resource made from    *)
(* one body, for racing commands, failed transactions and crashes.         *)
OneResourcePerKey == Promise!OneResourcePerKey

-----------------------------------------------------------------------------
(* The inductive invariant behind the refinement.                          *)

(* One thread at a time is between BEGIN and COMMIT or ROLLBACK, and only  *)
(* its rows are in the open transaction.                                   *)
LockHeld ==
  /\ \A c \in Calls : call[c].step \in InTransaction <=> lock = c
  /\ \A c \in Calls : call[c].step \in {"lookup", "fetch", "insert"} => pending = NoRows
  /\ lock = None => pending = NoRows

(* The rows a thread has inserted are those of its own command.            *)
OwnResource(c) == [id |-> call[c].id, body |-> call[c].body]
OwnReceipt(c)  == [key |-> call[c].key, body |-> call[c].body, id |-> call[c].id]
PendingIsOwn ==
  \A c \in Calls :
    /\ call[c].step = "insert_key" =>
         /\ call[c].answer = "created" /\ call[c].key # NoKey
         /\ pending = [stored |-> {OwnResource(c)}, ledger |-> {}]
    /\ call[c].step = "commit" =>
         \/ call[c].answer = "replayed" /\ pending = NoRows
         \/ /\ call[c].answer = "created"
            /\ pending = [stored |-> {OwnResource(c)},
                          ledger |-> IF call[c].key = NoKey THEN {} ELSE {OwnReceipt(c)}]
            /\ \A e \in ledger : e.key # call[c].key
    /\ call[c].step = "rollback" =>
         pending.stored \subseteq {OwnResource(c)} /\ pending.ledger \subseteq {OwnReceipt(c)}
    /\ call[c].step \in {"insert", "insert_key"} => \A e \in ledger : e.key # call[c].key

(* A serving thread has a command and an id no other thread and, until it  *)
(* commits a resource of its own, no stored resource has.                  *)
Created(c) == call[c].step = "respond" /\ call[c].answer = "created"
OwnId ==
  /\ \A c \in Calls : call[c].step # "idle" =>
       /\ call[c].id \in Ids /\ call[c].target \in Ids /\ call[c].body \in Bodies
       /\ Created(c) \/ \A r \in stored : r.id # call[c].id
  /\ \A c, d \in Calls : call[c].id = call[d].id /\ call[c].id # None => c = d

(* The answer a thread is about to give names a resource it may name.      *)
Backing(c) == [key |-> call[c].key, body |-> call[c].body, id |-> call[c].target]
AnswerIsBacked ==
  \A c \in Calls :
    /\ call[c].step = "idle" => call[c] = Idle
    /\ call[c].step \in {"lock", "lookup", "insert", "insert_key"} => call[c].target = call[c].id
    /\ call[c].step \in {"lock", "lookup", "fetch", "insert"} => call[c].answer = "none"
    /\ call[c].step = "rollback" => call[c].answer \in {"conflict", "error"}
    /\ call[c].step = "respond" => call[c].answer \in {"created", "replayed", "conflict", "error"}
    /\ call[c].answer = "created" => call[c].target = call[c].id
    /\ Created(c) => /\ OwnResource(c) \in stored
                     /\ Promise!ReceiptOf(call[c].key, call[c].body, call[c].id) \subseteq ledger
    /\ call[c].step = "fetch" \/ call[c].answer = "replayed" =>
         /\ call[c].key # NoKey
         /\ Backing(c) \in ledger

(* The database holds what KeyedCreate promises.                           *)
Inductive == TypeOK /\ LockHeld /\ PendingIsOwn /\ OwnId /\ AnswerIsBacked
             /\ Promise!Consistent
=============================================================================
