--------------------- MODULE TransactionalCreate_proofs ---------------------
(***************************************************************************)
(* TransactionalCreate implements KeyedCreate, for every set of threads,   *)
(* ids, keys and bodies and any number of crashes.                         *)
(*                                                                         *)
(* One lemma per action: from Inductive, the action preserves the parts of *)
(* Inductive that speak of threads and of the open transaction, and is a   *)
(* step of KeyedCreate or leaves its variables alone. That KeyedCreate     *)
(* keeps the database consistent is one lemma about KeyedCreate alone.     *)
(***************************************************************************)
EXTENDS TransactionalCreate, TLAPS

(* The parts of Inductive that speak of threads and the open transaction.  *)
Threads == TypeOK /\ LockHeld /\ PendingIsOwn /\ OwnId /\ AnswerIsBacked

(* A step of KeyedCreate, or a stutter.                                    *)
Simulates == [Promise!Next]_(Promise!vars)

(* Only c moves, and keeps its command and its id.                         *)
Only(c) == /\ call' \in [Calls -> CallRecord]
           /\ \A d \in Calls : d # c => call'[d] = call[d]
           /\ call'[c].key = call[c].key /\ call'[c].body = call[c].body
           /\ call'[c].id = call[c].id

(* ... to stand at step s with the answer a and the target t.              *)
Moves(c, s, a, t) == /\ Only(c)
                     /\ call'[c].step = s /\ call'[c].answer = a /\ call'[c].target = t

-----------------------------------------------------------------------------
(* Goto changes one thread's step.                                         *)
LEMMA GotoMoves ==
  ASSUME NEW c \in Calls, NEW s \in Steps, call \in [Calls -> CallRecord], Goto(c, s)
  PROVE  Moves(c, s, call[c].answer, call[c].target)
<1>1. call' = [call EXCEPT ![c] = [call[c] EXCEPT !.step = s]]
  BY DEF Goto
<1>2. [call[c] EXCEPT !.step = s] \in CallRecord
  BY DEF CallRecord
<1>3. QED
  BY <1>1, <1>2 DEF CallRecord, Moves, Only

(* Settle changes one thread's step and answer.                            *)
LEMMA SettleMoves ==
  ASSUME NEW c \in Calls, NEW s \in Steps, NEW a \in Answers,
         call \in [Calls -> CallRecord], Settle(c, s, a)
  PROVE  Moves(c, s, a, call[c].target)
<1>1. call' = [call EXCEPT ![c] = [call[c] EXCEPT !.step = s, !.answer = a]]
  BY DEF Settle
<1>2. [call[c] EXCEPT !.step = s, !.answer = a] \in CallRecord
  BY DEF CallRecord
<1>3. QED
  BY <1>1, <1>2 DEF CallRecord, Moves, Only

(* A replay turns one thread to the resource the receipt names.            *)
LEMMA ReplayMoves ==
  ASSUME NEW c \in Calls, NEW i \in Ids, call \in [Calls -> CallRecord],
         call' = [call EXCEPT ![c].step = "fetch", ![c].target = i]
  PROVE  Moves(c, "fetch", call[c].answer, i)
<1>1. call' = [call EXCEPT ![c] = [call[c] EXCEPT !.step = "fetch", !.target = i]]
  OBVIOUS
<1>2. [call[c] EXCEPT !.step = "fetch", !.target = i] \in CallRecord
  BY DEF CallRecord, Steps, InTransaction
<1>3. QED
  BY <1>1, <1>2 DEF CallRecord, Moves, Only

-----------------------------------------------------------------------------
(* KeyedCreate keeps its resources and receipts consistent.                *)
LEMMA PromiseKept == Promise!Consistent /\ Simulates => Promise!Consistent'
<1> SUFFICES ASSUME Promise!Consistent, Simulates PROVE Promise!Consistent'
  OBVIOUS
<1>1. CASE UNCHANGED Promise!vars
  BY <1>1 DEF Promise!vars, Promise!Consistent, Promise!ReceiptOf
<1>2. ASSUME NEW key \in Keys \cup {NoKey}, NEW body \in Bodies, NEW id \in Ids,
             Promise!Create(key, body, id)
      PROVE  Promise!Consistent'
  <2>1. CASE key = NoKey
    BY <1>2, <2>1 DEF Promise!Create, Promise!ReceiptOf, Promise!Consistent,
                      Promise!Resource, Promise!Receipt
  <2>2. CASE key # NoKey
    <3> DEFINE e == [key |-> key, body |-> body, id |-> id]
               r == [id |-> id, body |-> body]
    <3>1. ledger' = ledger \cup {e} /\ stored' = stored \cup {r}
      BY <1>2, <2>2 DEF Promise!Create, Promise!ReceiptOf
    <3>2. stored' \subseteq Promise!Resource /\ ledger' \subseteq Promise!Receipt
      BY <2>2, <3>1 DEF Promise!Consistent, Promise!Resource, Promise!Receipt
    <3>3. \A x \in stored : x.id # id
      BY <1>2 DEF Promise!Create
    <3>4. \A x \in ledger : x.key # key /\ x.id # id
      BY <1>2, <3>3 DEF Promise!Create, Promise!Consistent
    <3>5. QED
      BY <1>2, <3>1, <3>2, <3>3, <3>4
      DEF Promise!Create, Promise!ReceiptOf, Promise!Consistent
  <2>3. QED
    BY <2>1, <2>2
<1>3. ASSUME NEW key \in Keys \cup {NoKey}, NEW body \in Bodies, NEW id \in Ids,
             Promise!Respond(key, body, id)
      PROVE  Promise!Consistent'
  BY <1>3 DEF Promise!Respond, Promise!ReceiptOf, Promise!Consistent
<1>4. ASSUME NEW r \in Promise!Resource, Promise!Show(r)
      PROVE  Promise!Consistent'
  BY <1>4 DEF Promise!Show, Promise!ReceiptOf, Promise!Consistent
<1>5. QED
  BY <1>1, <1>2, <1>3, <1>4 DEF Simulates, Promise!Next

-----------------------------------------------------------------------------
(* The steps of a command: one lemma per action.                           *)

(* Arrive: a thread takes a command and an id of its own.                  *)
LEMMA ArriveStep ==
  ASSUME NEW c \in Calls, Inductive, Arrive(c)
  PROVE  Threads' /\ Simulates
<1> USE DEF Inductive, At
<1>0. PICK key \in Keys \cup {NoKey}, body \in Bodies, id \in Fresh :
        call' = [call EXCEPT ![c] = [step |-> "lock", key |-> key, body |-> body,
                                     id |-> id, target |-> id, answer |-> "none"]]
  BY DEF Arrive
<1>a. /\ id \in Ids /\ id # None
      /\ \A r \in stored : r.id # id
      /\ \A d \in Calls : call[d].id # id
  BY <1>0, NoneAssumption DEF Fresh
<1>b. /\ call' \in [Calls -> CallRecord]
      /\ \A d \in Calls : d # c => call'[d] = call[d]
      /\ call'[c].step = "lock" /\ call'[c].id = id /\ call'[c].target = id
      /\ call'[c].answer = "none" /\ call'[c].body = body
  BY <1>0, <1>a DEF CallRecord, Steps, InTransaction, Answers, TypeOK
<1>c. /\ call[c].step = "idle"
      /\ UNCHANGED <<stored, ledger, pending, lock, answered, shown, crashes>>
  BY DEF Arrive, database, history
<1>1. TypeOK'
  BY <1>b, <1>c DEF TypeOK
<1>2. LockHeld'
  BY <1>b, <1>c DEF LockHeld, InTransaction
<1>3. PendingIsOwn'
  BY <1>b, <1>c DEF PendingIsOwn, OwnResource, OwnReceipt
<1>4. OwnId'
  BY <1>a, <1>b, <1>c DEF OwnId, Created
<1>5. AnswerIsBacked'
  BY <1>b, <1>c DEF AnswerIsBacked, Backing, OwnResource, Created, Promise!ReceiptOf
<1>6. Simulates
  BY <1>c DEF Simulates, Promise!vars
<1>7. QED
  BY <1>1, <1>2, <1>3, <1>4, <1>5, <1>6 DEF Threads

(* Acquire: the lock was free, so nothing is pending.                      *)
LEMMA AcquireStep ==
  ASSUME NEW c \in Calls, Inductive, Acquire(c)
  PROVE  Threads' /\ Simulates
<1> USE DEF Inductive, At
<1>0. /\ \/ Moves(c, "lookup", call[c].answer, call[c].target) /\ lock' = c
         \/ Moves(c, "respond", "error", call[c].target) /\ lock' = None
      /\ call[c].step = "lock" /\ lock = None /\ c # None
      /\ UNCHANGED <<stored, ledger, pending, answered, shown, crashes>>
  <2>1. Goto(c, "lookup") => Moves(c, "lookup", call[c].answer, call[c].target)
    BY GotoMoves DEF TypeOK, Steps, InTransaction
  <2>2. Settle(c, "respond", "error") => Moves(c, "respond", "error", call[c].target)
    BY SettleMoves DEF TypeOK, Steps, Answers
  <2>3. QED
    BY <2>1, <2>2, NoneAssumption DEF Acquire, database, history
<1> USE DEF Moves, Only
<1>1. TypeOK'
  BY <1>0 DEF TypeOK, CallRecord
<1>2. LockHeld'
  BY <1>0, NoneAssumption DEF LockHeld, InTransaction
<1>3. PendingIsOwn'
  BY <1>0 DEF PendingIsOwn, LockHeld, OwnResource, OwnReceipt, InTransaction, NoRows
<1>4. OwnId'
  BY <1>0 DEF OwnId, Created, TypeOK
<1>5. AnswerIsBacked'
  BY <1>0 DEF AnswerIsBacked, Backing, OwnResource, Created, Promise!ReceiptOf
<1>6. Simulates
  BY <1>0 DEF Simulates, Promise!vars
<1>7. QED
  BY <1>1, <1>2, <1>3, <1>4, <1>5, <1>6 DEF Threads

(* Lookup: a replay finds its receipt committed, for nothing is pending.   *)
LEMMA LookupStep ==
  ASSUME NEW c \in Calls, Inductive, Lookup(c)
  PROVE  Threads' /\ Simulates
<1> USE DEF Inductive, At
<1>a. /\ call[c].step = "lookup" /\ lock = c /\ pending = NoRows
      /\ VisibleReceipts = ledger
      /\ UNCHANGED <<stored, ledger, pending, lock, answered, shown, crashes>>
  BY DEF Lookup, LockHeld, InTransaction, VisibleReceipts, NoRows, database, history
<1>0. \/ \E e \in ledger : /\ e.key = call[c].key /\ e.body = call[c].body
                          /\ Moves(c, "fetch", call[c].answer, e.id)
      \/ /\ \E e \in ledger : e.key = call[c].key /\ e.body # call[c].body
         /\ Moves(c, "rollback", "conflict", call[c].target)
      \/ Moves(c, "rollback", "error", call[c].target)
      \/ /\ \A e \in ledger : e.key # call[c].key
         /\ Moves(c, "insert", call[c].answer, call[c].target)
  <2>1. ASSUME NEW e \in ledger, e.key = call[c].key, e.body = call[c].body,
               call' = [call EXCEPT ![c].step = "fetch", ![c].target = e.id]
        PROVE  Moves(c, "fetch", call[c].answer, e.id)
    BY <2>1, ReplayMoves DEF TypeOK, Receipt
  <2>2. ASSUME NEW a \in {"conflict", "error"}, Settle(c, "rollback", a)
        PROVE  Moves(c, "rollback", a, call[c].target)
    BY <2>2, SettleMoves DEF TypeOK, Steps, InTransaction, Answers
  <2>3. Goto(c, "insert") => Moves(c, "insert", call[c].answer, call[c].target)
    BY GotoMoves DEF TypeOK, Steps, InTransaction
  <2>4. QED
    BY <1>a, <2>1, <2>2, <2>3 DEF Lookup
<1> USE DEF Moves, Only
<1>1. TypeOK'
  BY <1>0, <1>a DEF TypeOK
<1>2. LockHeld'
  BY <1>0, <1>a DEF LockHeld, InTransaction
<1>3. PendingIsOwn'
  BY <1>0, <1>a DEF PendingIsOwn, LockHeld, OwnResource, OwnReceipt, InTransaction, NoRows
<1>4. OwnId'
  <2>1. Only(c) /\ call'[c].target \in Ids
        /\ call'[c].step \in {"fetch", "rollback", "insert"}
    BY <1>0, <1>a DEF OwnId, TypeOK, Receipt
  <2>2. QED
    BY <1>a, <2>1 DEF OwnId, Created
<1>5. AnswerIsBacked'
  <2>1. ASSUME NEW e \in ledger, e.key = call[c].key, e.body = call[c].body,
               Moves(c, "fetch", call[c].answer, e.id)
        PROVE  AnswerIsBacked'
    <3>1. e.key # NoKey /\ e = [key |-> e.key, body |-> e.body, id |-> e.id]
      BY KeyAssumption DEF TypeOK, Receipt
    <3>2. Backing(c)' = e
      BY <2>1, <3>1 DEF Backing
    <3>3. call[c].answer = "none"
      BY <1>a DEF AnswerIsBacked
    <3>4. QED
      BY <1>a, <2>1, <3>1, <3>2, <3>3
      DEF AnswerIsBacked, Backing, OwnResource, Created, Promise!ReceiptOf
  <2>2. ASSUME NEW a \in {"conflict", "error"}, Moves(c, "rollback", a, call[c].target)
        PROVE  AnswerIsBacked'
    BY <1>a, <2>2 DEF AnswerIsBacked, Backing, OwnResource, Created, Promise!ReceiptOf
  <2>3. CASE Moves(c, "insert", call[c].answer, call[c].target)
    BY <1>a, <2>3 DEF AnswerIsBacked, Backing, OwnResource, Created, Promise!ReceiptOf
  <2>4. QED
    BY <1>0, <2>1, <2>2, <2>3
<1>6. Simulates
  BY <1>a DEF Simulates, Promise!vars
<1>7. QED
  BY <1>1, <1>2, <1>3, <1>4, <1>5, <1>6 DEF Threads

(* Fetch: the receipt's resource is there, so the replay succeeds, or the  *)
(* SELECT fails.                                                           *)
LEMMA FetchStep ==
  ASSUME NEW c \in Calls, Inductive, Fetch(c)
  PROVE  Threads' /\ Simulates
<1> USE DEF Inductive, At
<1>a. /\ call[c].step = "fetch" /\ lock = c /\ pending = NoRows /\ call[c].key # NoKey
      /\ Backing(c) \in ledger
  BY DEF Fetch, LockHeld, InTransaction, AnswerIsBacked
<1>b. [id |-> call[c].target, body |-> call[c].body] \in stored
  BY <1>a DEF Promise!Consistent, Backing
<1>c. \E r \in VisibleResources : r.id = call[c].target
  BY <1>b DEF VisibleResources
<1>0. /\ \/ Moves(c, "commit", "replayed", call[c].target)
         \/ Moves(c, "rollback", "error", call[c].target)
      /\ call[c].step = "fetch" /\ lock = c /\ pending = NoRows /\ call[c].key # NoKey
      /\ Backing(c) \in ledger
      /\ UNCHANGED <<stored, ledger, pending, lock, answered, shown, crashes>>
  <2>1. ASSUME NEW s \in {"commit", "rollback"}, NEW a \in {"replayed", "error"}, Settle(c, s, a)
        PROVE  Moves(c, s, a, call[c].target)
    BY <2>1, SettleMoves DEF Steps, InTransaction, Answers, TypeOK
  <2>2. QED
    BY <1>a, <1>c, <2>1 DEF Fetch, database, history
<1> USE DEF Moves, Only
<1>1. TypeOK'
  BY <1>0 DEF TypeOK, CallRecord
<1>2. LockHeld'
  BY <1>0 DEF LockHeld, InTransaction
<1>3. PendingIsOwn'
  BY <1>0 DEF PendingIsOwn, LockHeld, OwnResource, OwnReceipt, InTransaction, NoRows
<1>4. OwnId'
  BY <1>0 DEF OwnId, Created, TypeOK
<1>5. AnswerIsBacked'
  BY <1>0 DEF AnswerIsBacked, Backing, OwnResource, Created, Promise!ReceiptOf
<1>6. Simulates
  BY <1>0 DEF Simulates, Promise!vars
<1>7. QED
  BY <1>1, <1>2, <1>3, <1>4, <1>5, <1>6 DEF Threads

(* InsertResource: one row of the thread's own, or an error.               *)
LEMMA InsertResourceStep ==
  ASSUME NEW c \in Calls, Inductive, InsertResource(c)
  PROVE  Threads' /\ Simulates
<1> USE DEF Inductive, At
<1>a. /\ call[c].step = "insert" /\ lock = c /\ pending = NoRows /\ c # None
      /\ call[c].target = call[c].id
      /\ UNCHANGED <<stored, ledger, lock, answered, shown, crashes>>
  BY NoneAssumption DEF InsertResource, LockHeld, InTransaction, AnswerIsBacked, database, history
<1>0. \/ /\ pending' = [stored |-> {OwnResource(c)}, ledger |-> {}]
         /\ \/ call[c].key = NoKey /\ Moves(c, "commit", "created", call[c].target)
            \/ call[c].key # NoKey /\ Moves(c, "insert_key", "created", call[c].target)
      \/ pending' = NoRows /\ Moves(c, "rollback", "error", call[c].target)
  BY <1>a, SettleMoves DEF InsertResource, NoRows, OwnResource, Steps, InTransaction, Answers, TypeOK
<1> USE DEF Moves, Only
<1>1. TypeOK'
  <2>1. OwnResource(c) \in Resource
    BY <1>a DEF OwnId, OwnResource, Resource
  <2>2. QED
    BY <1>0, <1>a, <2>1 DEF TypeOK, NoRows
<1>2. LockHeld'
  BY <1>0, <1>a DEF LockHeld, InTransaction
<1>3. PendingIsOwn'
  <2>1. \A d \in Calls : d # c => call'[d].step \notin InTransaction
    BY <1>0, <1>a DEF LockHeld
  <2>2. OwnResource(c)' = OwnResource(c)
    BY <1>0 DEF OwnResource
  <2>3. \A e \in ledger : e.key # call[c].key
    BY <1>a DEF PendingIsOwn
  <2>4. CASE call'[c].step = "rollback"
    BY <1>0, <2>1, <2>4 DEF PendingIsOwn, InTransaction, NoRows
  <2>5. CASE call'[c].step = "commit"
    BY <1>0, <1>a, <2>1, <2>2, <2>3, <2>5 DEF PendingIsOwn, InTransaction
  <2>6. CASE call'[c].step = "insert_key"
    BY <1>0, <1>a, <2>1, <2>2, <2>3, <2>6 DEF PendingIsOwn, InTransaction
  <2>7. QED
    BY <1>0, <2>4, <2>5, <2>6
<1>4. OwnId'
  BY <1>0, <1>a DEF OwnId, Created
<1>5. AnswerIsBacked'
  BY <1>0, <1>a DEF AnswerIsBacked, Backing, OwnResource, Created, Promise!ReceiptOf
<1>6. Simulates
  BY <1>a DEF Simulates, Promise!vars
<1>7. QED
  BY <1>1, <1>2, <1>3, <1>4, <1>5, <1>6 DEF Threads

(* InsertReceipt: the receipt joins the resource, or an error.             *)
LEMMA InsertReceiptStep ==
  ASSUME NEW c \in Calls, Inductive, InsertReceipt(c)
  PROVE  Threads' /\ Simulates
<1> USE DEF Inductive, At
<1>a. /\ call[c].step = "insert_key" /\ lock = c /\ c # None
      /\ call[c].answer = "created" /\ call[c].key # NoKey
      /\ call[c].target = call[c].id
      /\ pending = [stored |-> {OwnResource(c)}, ledger |-> {}]
      /\ \A e \in ledger : e.key # call[c].key
      /\ UNCHANGED <<stored, ledger, lock, answered, shown, crashes>>
  BY NoneAssumption DEF InsertReceipt, LockHeld, InTransaction, AnswerIsBacked, PendingIsOwn,
                        database, history
<1>0. \/ /\ pending' = [stored |-> {OwnResource(c)}, ledger |-> {OwnReceipt(c)}]
         /\ Moves(c, "commit", "created", call[c].target)
      \/ pending' = pending /\ Moves(c, "rollback", "error", call[c].target)
  <2>1. Goto(c, "commit") => Moves(c, "commit", "created", call[c].target)
    BY <1>a, GotoMoves DEF TypeOK, Steps, InTransaction
  <2>2. Settle(c, "rollback", "error") => Moves(c, "rollback", "error", call[c].target)
    BY <1>a, SettleMoves DEF TypeOK, Steps, InTransaction, Answers
  <2>3. QED
    BY <1>a, <2>1, <2>2 DEF InsertReceipt, OwnReceipt
<1> USE DEF Moves, Only
<1>1. TypeOK'
  <2>1. OwnResource(c) \in Resource /\ OwnReceipt(c) \in Receipt
    BY <1>a DEF OwnId, OwnResource, Resource, OwnReceipt, Receipt, TypeOK, CallRecord
  <2>2. QED
    BY <1>0, <1>a, <2>1 DEF TypeOK
<1>2. LockHeld'
  BY <1>0, <1>a DEF LockHeld, InTransaction
<1>3. PendingIsOwn'
  BY <1>0, <1>a DEF PendingIsOwn, LockHeld, OwnResource, OwnReceipt, InTransaction, NoRows
<1>4. OwnId'
  BY <1>0, <1>a DEF OwnId, Created
<1>5. AnswerIsBacked'
  BY <1>0, <1>a DEF AnswerIsBacked, Backing, OwnResource, Created, Promise!ReceiptOf
<1>6. Simulates
  BY <1>a DEF Simulates, Promise!vars
<1>7. QED
  BY <1>1, <1>2, <1>3, <1>4, <1>5, <1>6 DEF Threads

(* Commit: the one step in which resource and receipt appear together.     *)
LEMMA CommitStep ==
  ASSUME NEW c \in Calls, Inductive, Commit(c)
  PROVE  Threads' /\ Simulates
<1> USE DEF Inductive, At
<1>a. /\ call[c].step = "commit" /\ lock = c /\ c # None
      /\ UNCHANGED <<answered, shown, crashes>>
  BY NoneAssumption DEF Commit, LockHeld, InTransaction, history
<1>b. \A d \in Calls : d # c => call[d].step \notin InTransaction
  BY <1>a DEF LockHeld
<1>1. CASE Settle(c, "rollback", "error") /\ UNCHANGED <<stored, ledger, pending, lock>>
  <2>0. Moves(c, "rollback", "error", call[c].target)
    BY <1>1, SettleMoves DEF TypeOK, Steps, InTransaction, Answers
  <2> USE DEF Moves, Only
  <2>1. TypeOK'
    BY <1>1, <1>a, <2>0 DEF TypeOK
  <2>2. LockHeld'
    BY <1>1, <1>a, <2>0 DEF LockHeld, InTransaction
  <2>3. PendingIsOwn'
    BY <1>1, <1>a, <1>b, <2>0 DEF PendingIsOwn, OwnResource, OwnReceipt, InTransaction, NoRows
  <2>4. OwnId'
    BY <1>1, <1>a, <2>0 DEF OwnId, Created
  <2>5. AnswerIsBacked'
    BY <1>1, <1>a, <2>0 DEF AnswerIsBacked, Backing, OwnResource, Created, Promise!ReceiptOf
  <2>6. QED
    BY <1>1, <1>a, <2>1, <2>2, <2>3, <2>4, <2>5 DEF Threads, Simulates, Promise!vars
<1>2. CASE /\ stored' = stored \cup pending.stored /\ ledger' = ledger \cup pending.ledger
           /\ pending' = NoRows /\ lock' = None /\ Goto(c, "respond")
  <2>0. Moves(c, "respond", call[c].answer, call[c].target)
    BY <1>2, GotoMoves DEF TypeOK, Steps
  <2> USE DEF Moves, Only
  <2>1. TypeOK'
    BY <1>2, <1>a, <2>0 DEF TypeOK, NoRows
  <2>2. LockHeld'
    BY <1>2, <1>a, <1>b, <2>0, NoneAssumption DEF LockHeld, InTransaction
  <2>3. PendingIsOwn'
    BY <1>2, <1>a, <1>b, <2>0 DEF PendingIsOwn, InTransaction
  <2>7. CASE call[c].answer = "replayed" /\ pending = NoRows
    <3>1. UNCHANGED <<stored, ledger>>
      BY <1>2, <2>7 DEF NoRows
    <3>2. OwnId'
      BY <1>a, <2>0, <2>7, <3>1 DEF OwnId, Created
    <3>3. AnswerIsBacked'
      BY <1>a, <2>0, <2>7, <3>1
      DEF AnswerIsBacked, Backing, OwnResource, Created, Promise!ReceiptOf
    <3>4. QED
      BY <1>a, <2>1, <2>2, <2>3, <3>1, <3>2, <3>3 DEF Threads, Simulates, Promise!vars
  <2>8. CASE call[c].answer = "created"
    <3>1. /\ stored' = stored \cup {OwnResource(c)}
          /\ ledger' = ledger \cup Promise!ReceiptOf(call[c].key, call[c].body, call[c].id)
          /\ \A e \in ledger : e.key # call[c].key
      BY <1>2, <1>a, <2>8 DEF PendingIsOwn, Promise!ReceiptOf, OwnReceipt
    <3>2. /\ call[c].id \in Ids /\ call[c].body \in Bodies /\ call[c].target = call[c].id
          /\ \A r \in stored : r.id # call[c].id
          /\ call[c].id # None
      BY <1>a, <2>8, NoneAssumption DEF OwnId, Created, AnswerIsBacked
    <3>3. OwnId'
      BY <1>a, <2>0, <2>8, <3>1, <3>2 DEF OwnId, Created, OwnResource
    <3>4. AnswerIsBacked'
      BY <1>a, <2>0, <2>8, <3>1, <3>2
      DEF AnswerIsBacked, Backing, OwnResource, Created, Promise!ReceiptOf
    <3>5. Promise!Create(call[c].key, call[c].body, call[c].id)
      BY <1>a, <3>1, <3>2 DEF Promise!Create, OwnResource
    <3>6. call[c].key \in Keys \cup {NoKey}
      BY DEF TypeOK, CallRecord
    <3>7. Simulates
      BY <3>2, <3>5, <3>6 DEF Simulates, Promise!Next
    <3>8. QED
      BY <2>1, <2>2, <2>3, <3>3, <3>4, <3>7 DEF Threads
  <2>9. QED
    BY <1>a, <2>7, <2>8 DEF PendingIsOwn
<1>3. QED
  BY <1>1, <1>2 DEF Commit, database

(* Rollback: the open transaction is gone and the lock is free.            *)
LEMMA RollbackStep ==
  ASSUME NEW c \in Calls, Inductive, Rollback(c)
  PROVE  Threads' /\ Simulates
<1> USE DEF Inductive, At
<1>a. /\ call[c].step = "rollback" /\ lock = c
      /\ \A d \in Calls : d # c => call[d].step \notin InTransaction
      /\ call[c].answer \in {"conflict", "error"} /\ c # None
  BY NoneAssumption DEF Rollback, LockHeld, InTransaction, AnswerIsBacked
<1>0. /\ Moves(c, "respond", call[c].answer, call[c].target)
      /\ pending' = NoRows /\ lock' = None
      /\ UNCHANGED <<stored, ledger, answered, shown, crashes>>
  BY GotoMoves DEF Rollback, Steps, TypeOK, database, history
<1> USE DEF Moves, Only
<1>1. TypeOK'
  BY <1>0 DEF TypeOK, NoRows
<1>2. LockHeld'
  BY <1>0, <1>a, NoneAssumption DEF LockHeld, InTransaction
<1>3. PendingIsOwn'
  BY <1>0, <1>a DEF PendingIsOwn, InTransaction
<1>4. OwnId'
  BY <1>0, <1>a DEF OwnId, Created
<1>5. AnswerIsBacked'
  BY <1>0, <1>a DEF AnswerIsBacked, Backing, OwnResource, Created, Promise!ReceiptOf
<1>6. Simulates
  BY <1>0 DEF Simulates, Promise!vars
<1>7. QED
  BY <1>1, <1>2, <1>3, <1>4, <1>5, <1>6 DEF Threads

(* Respond: a 201 is a step of KeyedCreate; the thread is free again.      *)
LEMMA RespondStep ==
  ASSUME NEW c \in Calls, Inductive, Respond(c)
  PROVE  Threads' /\ Simulates
<1> USE DEF Inductive, At
<1>a. /\ call[c].step = "respond"
      /\ call' = [call EXCEPT ![c] = Idle]
      /\ UNCHANGED <<stored, ledger, pending, lock, shown, crashes>>
  BY DEF Respond, database
<1>b. /\ call' \in [Calls -> CallRecord]
      /\ \A d \in Calls : d # c => call'[d] = call[d]
      /\ call'[c] = Idle
  BY <1>a DEF TypeOK, Idle, CallRecord, Steps, Answers
<1>c. /\ Idle.step = "idle" /\ Idle.id = None /\ Idle.answer = "none"
  BY DEF Idle
<1>d. /\ call[c].key \in Keys \cup {NoKey} /\ call[c].body \in Bodies /\ call[c].target \in Ids
  BY <1>a DEF TypeOK, CallRecord, OwnId
<1>1. TypeOK'
  BY <1>a, <1>b, <1>d DEF TypeOK, Respond
<1>2. LockHeld'
  BY <1>a, <1>b, <1>c DEF LockHeld, InTransaction
<1>3. PendingIsOwn'
  BY <1>a, <1>b, <1>c DEF PendingIsOwn, OwnResource, OwnReceipt
<1>4. OwnId'
  BY <1>a, <1>b, <1>c DEF OwnId, Created
<1>5. AnswerIsBacked'
  BY <1>a, <1>b, <1>c DEF AnswerIsBacked, Backing, OwnResource, Created, Promise!ReceiptOf
<1>6. Simulates
  <2>1. CASE call[c].answer \in {"created", "replayed"}
    <3>1. /\ [id |-> call[c].target, body |-> call[c].body] \in stored
          /\ Promise!ReceiptOf(call[c].key, call[c].body, call[c].target) \subseteq ledger
      <4>1. CASE call[c].answer = "created"
        BY <1>a, <4>1 DEF AnswerIsBacked, Created, OwnResource
      <4>2. CASE call[c].answer = "replayed"
        <5>1. [key |-> call[c].key, body |-> call[c].body, id |-> call[c].target] \in ledger
          BY <1>a, <4>2 DEF AnswerIsBacked, Backing
        <5>2. [id |-> call[c].target, body |-> call[c].body] \in stored
          BY <5>1 DEF Promise!Consistent
        <5>3. QED
          BY <5>1, <5>2 DEF Promise!ReceiptOf
      <4>3. QED
        BY <2>1, <4>1, <4>2
    <3>2. Promise!Respond(call[c].key, call[c].body, call[c].target)
      BY <1>a, <2>1, <3>1 DEF Respond, Promise!Respond
    <3>3. QED
      BY <1>d, <3>2 DEF Simulates, Promise!Next
  <2>2. CASE call[c].answer \notin {"created", "replayed"}
    BY <1>a, <2>2 DEF Respond, Simulates, Promise!vars
  <2>3. QED
    BY <2>1, <2>2
<1>7. QED
  BY <1>1, <1>2, <1>3, <1>4, <1>5, <1>6 DEF Threads

(* Read: with the lock free nothing is pending, so a GET shows a committed *)
(* resource.                                                               *)
LEMMA ReadStep ==
  ASSUME Inductive, Read
  PROVE  Threads' /\ Simulates
<1> USE DEF Inductive
<1>1. PICK r \in stored : shown' = shown \cup {r}
  BY DEF Read, Readable, LockHeld, VisibleResources, NoRows
<1>2. UNCHANGED <<stored, ledger, pending, lock, call, answered, crashes>>
  BY DEF Read, database
<1>3. Promise!Show(r) /\ r \in Promise!Resource
  BY <1>1, <1>2 DEF Promise!Show, TypeOK, Resource, Promise!Resource
<1>4. TypeOK'
  BY <1>1, <1>2 DEF TypeOK
<1>5. LockHeld' /\ PendingIsOwn' /\ OwnId' /\ AnswerIsBacked'
  BY <1>2 DEF LockHeld, PendingIsOwn, OwnId, AnswerIsBacked, Backing, OwnReceipt, OwnResource, Created,
              Promise!ReceiptOf
<1>6. QED
  BY <1>3, <1>4, <1>5 DEF Threads, Simulates, Promise!Next

(* Crash: threads and the open transaction are gone, the database stays.   *)
LEMMA CrashStep ==
  ASSUME Inductive, Crash
  PROVE  Threads' /\ Simulates
<1> USE DEF Inductive
<1>1. /\ pending' = NoRows /\ lock' = None
      /\ call' = [c \in Calls |-> Idle]
      /\ UNCHANGED <<stored, ledger, answered, shown>>
      /\ crashes < MaxCrashes /\ crashes' = crashes + 1
  BY DEF Crash, database, history
<1>2. \A c \in Calls : call'[c] = Idle
  BY <1>1
<1>3. Idle.step = "idle" /\ Idle.id = None /\ Idle.answer = "none"
  BY DEF Idle
<1>4. TypeOK'
  <2>1. call' \in [Calls -> CallRecord]
    BY <1>1 DEF Idle, CallRecord, Steps, Answers
  <2>2. crashes' \in 0..MaxCrashes
    BY <1>1, CrashAssumption DEF TypeOK
  <2>3. QED
    BY <1>1, <2>1, <2>2 DEF TypeOK, NoRows
<1>5. LockHeld' /\ PendingIsOwn' /\ OwnId' /\ AnswerIsBacked'
  BY <1>1, <1>2, <1>3, NoneAssumption
  DEF LockHeld, PendingIsOwn, OwnId, AnswerIsBacked, Created, InTransaction
<1>6. QED
  BY <1>1, <1>4, <1>5 DEF Threads, Simulates, Promise!vars

-----------------------------------------------------------------------------
(* The invariant and the refinement.                                       *)

(* Inductive holds initially.                                              *)
LEMMA InitInductive == Init => Inductive /\ Promise!Init
<1> SUFFICES ASSUME Init PROVE Inductive /\ Promise!Init
  OBVIOUS
<1>1. /\ \A c \in Calls : call[c] = Idle
      /\ Idle.step = "idle" /\ Idle.id = None /\ Idle.answer = "none"
      /\ stored = {} /\ ledger = {} /\ answered = {} /\ shown = {}
      /\ lock = None /\ pending = NoRows
  BY DEF Init, Idle
<1>2. TypeOK
  BY CrashAssumption
  DEF Init, TypeOK, Idle, CallRecord, Steps, Answers, NoRows
<1>3. LockHeld /\ PendingIsOwn /\ OwnId /\ AnswerIsBacked
  BY <1>1, NoneAssumption
  DEF LockHeld, PendingIsOwn, OwnId, AnswerIsBacked, Created, InTransaction
<1>4. Promise!Consistent
  BY <1>1 DEF Promise!Consistent
<1>5. QED
  BY <1>1, <1>2, <1>3, <1>4 DEF Inductive, Promise!Init

(* A step that changes nothing.                                            *)
LEMMA StutterStep == Inductive /\ UNCHANGED vars => Threads' /\ Simulates
BY DEF Inductive, vars, Threads, TypeOK, LockHeld, PendingIsOwn, OwnId, AnswerIsBacked,
       Backing, OwnReceipt, OwnResource, Created, Promise!ReceiptOf, Simulates, Promise!vars

(* Every step preserves Inductive and is a step of KeyedCreate.            *)
LEMMA NextInductive == Inductive /\ [Next]_vars => Inductive' /\ Simulates
<1> SUFFICES ASSUME Inductive, [Next]_vars PROVE Inductive' /\ Simulates
  OBVIOUS
<1>1. Threads' /\ Simulates
  BY ArriveStep, AcquireStep, LookupStep, FetchStep, InsertResourceStep, InsertReceiptStep,
     CommitStep, RollbackStep, RespondStep, ReadStep, CrashStep, StutterStep DEF Next
<1>2. Promise!Consistent'
  BY <1>1, PromiseKept DEF Inductive
<1>3. QED
  BY <1>1, <1>2 DEF Inductive, Threads

(* The invariant that relates threads, open transaction and database holds *)
(* in every state of create_workspace_suite and create_input.              *)
THEOREM InductiveInvariant == Spec => []Inductive
<1>1. Init => Inductive
  BY InitInductive
<1>2. Inductive /\ [Next]_vars => Inductive'
  BY NextInductive
<1>3. QED
  BY <1>1, <1>2, PTL DEF Spec

(* The rows and the threads keep their types.                              *)
THEOREM TypeCorrect == Spec => []TypeOK
<1>1. Inductive => TypeOK
  BY DEF Inductive
<1>2. QED
  BY <1>1, InductiveInvariant, PTL

(* The transactional code implements KeyedCreate: receipt and resource     *)
(* appear in one step, answers and reads are never taken back.             *)
THEOREM Implementation == Spec => KeepsPromise
<1>1. Init => Promise!Init
  BY InitInductive
<1>2. Inductive /\ [Next]_vars => [Promise!Next]_(Promise!vars)
  BY NextInductive DEF Simulates
<1>3. QED
  BY <1>1, <1>2, InductiveInvariant, PTL DEF Spec, KeepsPromise, Promise!Spec

(* Under one key, one body and one resource, whatever races and fails.     *)
THEOREM ReplayAgreement == Spec => []OneResourcePerKey
<1>1. Inductive => OneResourcePerKey
  <2> SUFFICES ASSUME Inductive, NEW a \in answered, NEW b \in answered,
                      a.key = b.key, a.key # NoKey
               PROVE  a = b
    BY DEF OneResourcePerKey, Promise!OneResourcePerKey
  <2>1. /\ [key |-> a.key, body |-> a.body, id |-> a.id] \in ledger
        /\ [key |-> b.key, body |-> b.body, id |-> b.id] \in ledger
    BY DEF Inductive, Promise!Consistent, Promise!ReceiptOf
  <2>2. a.body = b.body /\ a.id = b.id
    BY <2>1 DEF Inductive, Promise!Consistent
  <2>3. QED
    BY <2>2 DEF Inductive, TypeOK
<1>2. QED
  BY <1>1, InductiveInvariant, PTL

(* An error answer means that neither resource nor receipt was written.    *)
THEOREM FailureIsClean == Spec => []FailureLeavesNothing
<1>1. Inductive => FailureLeavesNothing
  <2> SUFFICES ASSUME Inductive, NEW c \in Calls, call[c].step = "respond",
                      call[c].answer \in {"error", "conflict"}
               PROVE  /\ \A r \in VisibleResources : r.id # call[c].id
                      /\ \A e \in VisibleReceipts : e.id # call[c].id
    BY DEF FailureLeavesNothing
  <2> USE DEF Inductive
  <2>1. /\ \A r \in stored : r.id # call[c].id
        /\ \A e \in ledger : e.id # call[c].id
    BY DEF OwnId, Created, Promise!Consistent
  <2>2. CASE pending = NoRows
    BY <2>1, <2>2 DEF NoRows, VisibleResources, VisibleReceipts
  <2>3. CASE pending # NoRows
    <3>1. PICK d \in Calls : lock = d /\ call[d].step \in {"insert_key", "commit", "rollback"}
      BY <2>3 DEF LockHeld, TypeOK, InTransaction
    <3>2. d # c /\ call[d].id # call[c].id
      BY <3>1, NoneAssumption DEF OwnId
    <3>3. /\ pending.stored \subseteq {OwnResource(d)}
          /\ pending.ledger \subseteq {OwnReceipt(d)}
      BY <2>3, <3>1 DEF PendingIsOwn
    <3>4. QED
      BY <2>1, <3>2, <3>3 DEF VisibleResources, VisibleReceipts, OwnResource, OwnReceipt
  <2>4. QED
    BY <2>2, <2>3
<1>2. QED
  BY <1>1, InductiveInvariant, PTL

(* No client is ever told that a receipt's resource is missing.            *)
THEOREM ReceiptsResolve == Spec => []NeverCorrupt
<1>1. Inductive => NeverCorrupt
  <2> SUFFICES ASSUME Inductive, NEW c \in Calls PROVE call[c].answer # "corrupt"
    BY DEF NeverCorrupt
  <2>1. call[c].step \in Steps /\ (call[c].step = "idle" => call[c].answer = "none")
    BY DEF Inductive, TypeOK, CallRecord, AnswerIsBacked, Idle
  <2>2. QED
    BY <2>1 DEF Inductive, AnswerIsBacked, PendingIsOwn, Steps, InTransaction
<1>2. QED
  BY <1>1, InductiveInvariant, PTL
=============================================================================
