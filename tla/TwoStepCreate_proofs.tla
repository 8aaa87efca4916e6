------------------------ MODULE TwoStepCreate_proofs ------------------------
(***************************************************************************)
(* TwoStepCreate implements KeyedCreate, for every set of threads, ids,    *)
(* keys and bodies and any number of crashes, when its resources are those *)
(* that have their receipt or need none.                                   *)
(*                                                                         *)
(* One lemma per action: from Inductive, the action preserves what speaks  *)
(* of threads and rows (Threads), and is a step of KeyedCreate or leaves   *)
(* its variables alone. The step a keyed command takes in KeyedCreate is   *)
(* its INSERT into the ledger, not its save.                               *)
(***************************************************************************)
EXTENDS TwoStepCreate, TLAPS

Threads == TypeOK /\ OwnId /\ AnswerIsBacked /\ RowsHaveOwnIds

(* A step of KeyedCreate on the resources with a receipt, or a stutter.    *)
Simulates == [Promise!Next]_(Promise!vars)

(* Only c moves, with its command and its id, to step s, answer a and      *)
(* target t.                                                               *)
Moves(c, s, a, t) ==
  /\ call' \in [Calls -> CallRecord]
  /\ \A d \in Calls : d # c => call'[d] = call[d]
  /\ call'[c].key = call[c].key /\ call'[c].body = call[c].body /\ call'[c].id = call[c].id
  /\ call'[c].step = s /\ call'[c].answer = a /\ call'[c].target = t

-----------------------------------------------------------------------------
(* Settle changes one thread's step and answer.                            *)
LEMMA SettleMoves ==
  ASSUME NEW c \in Calls, NEW s \in Steps, NEW a \in Answers,
         call \in [Calls -> CallRecord], Settle(c, s, a)
  PROVE  Moves(c, s, a, call[c].target)
<1>1. call' = [call EXCEPT ![c] = [call[c] EXCEPT !.step = s, !.answer = a]]
  BY DEF Settle
<1>2. [call[c] EXCEPT !.step = s, !.answer = a] \in CallRecord
  BY DEF CallRecord
<1>3. QED
  BY <1>1, <1>2 DEF CallRecord, Moves

(* A replay turns one thread to the resource the receipt names.            *)
LEMMA ReplayMoves ==
  ASSUME NEW c \in Calls, NEW i \in Ids, call \in [Calls -> CallRecord],
         call' = [call EXCEPT ![c].step = "fetch", ![c].target = i]
  PROVE  Moves(c, "fetch", call[c].answer, i)
<1>1. call' = [call EXCEPT ![c] = [call[c] EXCEPT !.step = "fetch", !.target = i]]
  OBVIOUS
<1>2. [call[c] EXCEPT !.step = "fetch", !.target = i] \in CallRecord
  BY DEF CallRecord, Steps
<1>3. QED
  BY <1>1, <1>2 DEF CallRecord, Moves

(* A step that adds no row and no receipt keeps what was kept.             *)
LEMMA KeptStays ==
  ASSUME UNCHANGED <<stored, ledger, keyless>>
  PROVE  Kept' = Kept
BY DEF Kept

(* KeyedCreate keeps its resources and receipts consistent.                *)
LEMMA PromiseKept == Promise!Consistent /\ Simulates => Promise!Consistent'
<1> SUFFICES ASSUME Promise!Consistent, Simulates PROVE Promise!Consistent'
  OBVIOUS
<1>1. CASE UNCHANGED Promise!vars
  BY <1>1 DEF Promise!vars, Promise!Consistent, Promise!ReceiptOf
<1>2. ASSUME NEW key \in Keys \cup {NoKey}, NEW body \in Bodies, NEW id \in Ids,
             Promise!Create(key, body, id)
      PROVE  Promise!Consistent'
  <2>1. CASE key = NoKey
    BY <1>2, <2>1 DEF Promise!Create, Promise!ReceiptOf, Promise!Consistent,
                      Promise!Resource, Promise!Receipt
  <2>2. CASE key # NoKey
    <3> DEFINE e == [key |-> key, body |-> body, id |-> id]
               r == [id |-> id, body |-> body]
    <3>1. ledger' = ledger \cup {e} /\ Kept' = Kept \cup {r}
      BY <1>2, <2>2 DEF Promise!Create, Promise!ReceiptOf
    <3>2. Kept' \subseteq Promise!Resource /\ ledger' \subseteq Promise!Receipt
      BY <2>2, <3>1 DEF Promise!Consistent, Promise!Resource, Promise!Receipt
    <3>3. \A x \in Kept : x.id # id
      BY <1>2 DEF Promise!Create
    <3>4. \A x \in ledger : x.key # key /\ x.id # id
      BY <1>2, <3>3 DEF Promise!Create, Promise!Consistent
    <3>5. QED
      BY <1>2, <3>1, <3>2, <3>3, <3>4
      DEF Promise!Create, Promise!ReceiptOf, Promise!Consistent
  <2>3. QED
    BY <2>1, <2>2
<1>3. ASSUME NEW key \in Keys \cup {NoKey}, NEW body \in Bodies, NEW id \in Ids,
             Promise!Respond(key, body, id)
      PROVE  Promise!Consistent'
  BY <1>3 DEF Promise!Respond, Promise!ReceiptOf, Promise!Consistent
<1>4. ASSUME NEW r \in Promise!Resource, Promise!Show(r)
      PROVE  Promise!Consistent'
  BY <1>4 DEF Promise!Show, Promise!ReceiptOf, Promise!Consistent
<1>5. QED
  BY <1>1, <1>2, <1>3, <1>4 DEF Simulates, Promise!Next

-----------------------------------------------------------------------------
(* The steps of a command: one lemma per action.                           *)

(* Arrive: a thread takes a command and an id of its own.                  *)
LEMMA ArriveStep ==
  ASSUME NEW c \in Calls, Inductive, Arrive(c)
  PROVE  Threads' /\ Simulates
<1> USE DEF Inductive, At
<1>0. PICK key \in Keys \cup {NoKey}, body \in Bodies, id \in Fresh :
        call' = [call EXCEPT ![c] = [step |-> "resolve", key |-> key, body |-> body,
                                     id |-> id, target |-> id, answer |-> "none"]]
  BY DEF Arrive
<1>a. /\ id \in Ids /\ id # None
      /\ \A r \in stored : r.id # id
      /\ \A d \in Calls : call[d].id # id
      /\ call[c].step = "idle"
      /\ UNCHANGED <<stored, ledger, keyless, answered, crashes>>
  BY <1>0, NoneAssumption DEF Fresh, Arrive
<1>b. /\ call' \in [Calls -> CallRecord]
      /\ \A d \in Calls : d # c => call'[d] = call[d]
      /\ call'[c].step = "resolve" /\ call'[c].id = id /\ call'[c].target = id
      /\ call'[c].answer = "none" /\ call'[c].body = body
  BY <1>0, <1>a DEF CallRecord, Steps, Answers, TypeOK
<1>c. Kept' = Kept
  BY <1>a, KeptStays
<1>1. TypeOK'
  BY <1>a, <1>b DEF TypeOK
<1>2. OwnId'
  BY <1>a, <1>b DEF OwnId, Built
<1>3. AnswerIsBacked'
  BY <1>a, <1>b, <1>c DEF AnswerIsBacked, Promise!ReceiptOf
<1>4. QED
  BY <1>1, <1>2, <1>3, <1>a, <1>c DEF Threads, RowsHaveOwnIds, Simulates, Promise!vars

(* Resolve: a replay finds a kept resource behind its receipt.             *)
LEMMA ResolveStep ==
  ASSUME NEW c \in Calls, Inductive, Resolve(c)
  PROVE  Threads' /\ Simulates
<1> USE DEF Inductive, At
<1>a. /\ call[c].step = "resolve"
      /\ call[c].answer = "none" /\ call[c].target = call[c].id
      /\ UNCHANGED <<stored, ledger, keyless, answered, crashes>>
  BY DEF Resolve, AnswerIsBacked
<1>b. Kept' = Kept
  BY <1>a, KeptStays
<1>0. \/ \E e \in ledger : /\ e.key = call[c].key /\ e.body = call[c].body
                          /\ Moves(c, "fetch", call[c].answer, e.id)
      \/ Moves(c, "respond", "conflict", call[c].target)
      \/ Moves(c, "save", "none", call[c].target)
  <2>1. ASSUME NEW e \in ledger, e.key = call[c].key, e.body = call[c].body,
               call' = [call EXCEPT ![c].step = "fetch", ![c].target = e.id]
        PROVE  Moves(c, "fetch", call[c].answer, e.id)
    BY <2>1, ReplayMoves DEF TypeOK
  <2>2. Settle(c, "respond", "conflict") => Moves(c, "respond", "conflict", call[c].target)
    BY SettleMoves DEF TypeOK, Steps, Answers
  <2>3. Settle(c, "save", "none") => Moves(c, "save", "none", call[c].target)
    BY SettleMoves DEF TypeOK, Steps, Answers
  <2>4. QED
    BY <2>1, <2>2, <2>3 DEF Resolve
<1> USE DEF Moves
<1>1. TypeOK'
  BY <1>0, <1>a DEF TypeOK
<1>2. OwnId'
  <2>1. /\ \A d \in Calls : d # c => call'[d] = call[d]
        /\ call'[c].body = call[c].body /\ call'[c].id = call[c].id
        /\ call'[c].target \in Ids /\ call'[c].step \in {"fetch", "respond", "save"}
    BY <1>0, <1>a DEF OwnId, TypeOK
  <2>2. QED
    BY <1>a, <2>1 DEF OwnId, Built
<1>3. AnswerIsBacked'
  <2>1. ASSUME NEW e \in ledger, e.key = call[c].key, e.body = call[c].body,
               Moves(c, "fetch", call[c].answer, e.id)
        PROVE  AnswerIsBacked'
    <3>1. e.key # NoKey /\ e = [key |-> e.key, body |-> e.body, id |-> e.id]
      BY KeyAssumption DEF TypeOK
    <3>2. [id |-> e.id, body |-> e.body] \in Kept
      BY DEF Promise!Consistent
    <3>3. \E r \in Kept : r.id = e.id /\ r.body = call[c].body
      BY <2>1, <3>2
    <3>4. Promise!ReceiptOf(call[c].key, call[c].body, e.id) \subseteq ledger
      BY <2>1, <3>1 DEF Promise!ReceiptOf
    <3>5. QED
      BY <1>a, <1>b, <2>1, <3>1, <3>3, <3>4 DEF AnswerIsBacked, Promise!ReceiptOf
  <2>2. CASE Moves(c, "respond", "conflict", call[c].target)
    BY <1>a, <1>b, <2>2 DEF AnswerIsBacked, Promise!ReceiptOf
  <2>3. CASE Moves(c, "save", "none", call[c].target)
    BY <1>a, <1>b, <2>3 DEF AnswerIsBacked, Promise!ReceiptOf
  <2>4. QED
    BY <1>0, <2>1, <2>2, <2>3
<1>4. QED
  BY <1>1, <1>2, <1>3, <1>a, <1>b DEF Threads, RowsHaveOwnIds, Simulates, Promise!vars

(* Fetch: the receipt's resource is there.                                 *)
LEMMA FetchStep ==
  ASSUME NEW c \in Calls, Inductive, Fetch(c)
  PROVE  Threads' /\ Simulates
<1> USE DEF Inductive, At
<1>a. /\ call[c].step = "fetch"
      /\ UNCHANGED <<stored, ledger, keyless, answered, crashes>>
  BY DEF Fetch
<1>b. Kept' = Kept
  BY <1>a, KeptStays
<1>c. /\ \E r \in Kept : r.id = call[c].target /\ r.body = call[c].body
      /\ Promise!ReceiptOf(call[c].key, call[c].body, call[c].target) \subseteq ledger
  BY <1>a DEF AnswerIsBacked
<1>0. Moves(c, "respond", "replayed", call[c].target)
  <2>1. \E r \in stored : r.id = call[c].target
    BY <1>c DEF Kept
  <2>2. QED
    BY <2>1, SettleMoves DEF Fetch, TypeOK, Steps, Answers
<1> USE DEF Moves
<1>1. TypeOK'
  BY <1>0, <1>a DEF TypeOK
<1>2. OwnId'
  BY <1>0, <1>a DEF OwnId, Built
<1>3. AnswerIsBacked'
  BY <1>0, <1>a, <1>b, <1>c DEF AnswerIsBacked, Promise!ReceiptOf
<1>4. QED
  BY <1>1, <1>2, <1>3, <1>a, <1>b DEF Threads, RowsHaveOwnIds, Simulates, Promise!vars

(* Save: without a key the step KeyedCreate takes, with one an orphan      *)
(* until its receipt comes.                                                *)
LEMMA SaveStep ==
  ASSUME NEW c \in Calls, Inductive, Save(c)
  PROVE  Threads' /\ Simulates
<1> USE DEF Inductive, At
<1>a. /\ call[c].step = "save" /\ call[c].target = call[c].id /\ call[c].answer = "none"
      /\ stored' = stored \cup {Built(c)}
      /\ UNCHANGED <<ledger, answered, crashes>>
      /\ call[c].id \in Ids /\ call[c].body \in Bodies
      /\ \A r \in stored : r.id # call[c].id
      /\ call[c].id # None
  BY NoneAssumption DEF Save, AnswerIsBacked, OwnId
<1>b. /\ call[c].id \notin keyless
      /\ \A e \in ledger : e.id # call[c].id
      /\ Built(c).id = call[c].id /\ Built(c).body = call[c].body
  <2>1. call[c].id \notin keyless
    BY <1>a DEF RowsHaveOwnIds
  <2>2. ASSUME NEW e \in ledger PROVE e.id # call[c].id
    <3>1. [id |-> e.id, body |-> e.body] \in stored
      BY DEF Promise!Consistent, Kept
    <3>2. QED
      BY <1>a, <3>1
  <2>3. QED
    BY <2>1, <2>2 DEF Built
<1>c. \A d \in Calls : d # c => call[d].id # call[c].id
  BY <1>a DEF OwnId
<1>1. CASE call[c].key = NoKey
  <2>0. Moves(c, "respond", "created", call[c].target) /\ keyless' = keyless \cup {call[c].id}
    BY <1>1, SettleMoves DEF Save, TypeOK, Steps, Answers
  <2> USE DEF Moves
  <2>1. Kept' = Kept \cup {Built(c)}
    BY <1>a, <1>b, <2>0 DEF Kept, RowsHaveOwnIds
  <2>2. TypeOK'
    BY <1>a, <2>0 DEF TypeOK, Built
  <2>3. OwnId'
    BY <1>a, <1>b, <1>c, <2>0 DEF OwnId, Built
  <2>4. AnswerIsBacked'
    BY <1>1, <1>a, <1>b, <2>0, <2>1 DEF AnswerIsBacked, Promise!ReceiptOf
  <2>5. RowsHaveOwnIds'
    BY <1>a, <1>b, <2>0 DEF RowsHaveOwnIds
  <2>6. Promise!Create(NoKey, call[c].body, call[c].id)
    <3>1. \A e \in ledger : e.key # NoKey
      BY KeyAssumption DEF TypeOK
    <3>2. QED
      BY <3>1, <1>a, <2>1 DEF Promise!Create, Promise!ReceiptOf, Kept, Built
  <2>7. Simulates
    BY <1>a, <2>6 DEF Simulates, Promise!Next
  <2>8. QED
    BY <2>2, <2>3, <2>4, <2>5, <2>7 DEF Threads
<1>2. CASE call[c].key # NoKey
  <2>0. Moves(c, "remember", "none", call[c].target) /\ keyless' = keyless
    BY <1>2, SettleMoves DEF Save, TypeOK, Steps, Answers
  <2> USE DEF Moves
  <2>1. Kept' = Kept
    BY <1>a, <1>b, <2>0 DEF Kept
  <2>2. TypeOK'
    BY <1>a, <2>0 DEF TypeOK, Built
  <2>3. OwnId'
    BY <1>a, <1>b, <1>c, <2>0 DEF OwnId, Built
  <2>4. AnswerIsBacked'
    BY <1>2, <1>a, <2>0, <2>1 DEF AnswerIsBacked, Promise!ReceiptOf
  <2>5. RowsHaveOwnIds'
    BY <1>a, <1>b, <2>0 DEF RowsHaveOwnIds
  <2>6. QED
    BY <1>a, <2>1, <2>2, <2>3, <2>4, <2>5 DEF Threads, Simulates, Promise!vars
<1>3. QED
  BY <1>1, <1>2

(* Remember: the receipt makes the saved row a resource of KeyedCreate.    *)
LEMMA RememberStep ==
  ASSUME NEW c \in Calls, Inductive, Remember(c)
  PROVE  Threads' /\ Simulates
<1> USE DEF Inductive, At
<1>a. /\ call[c].step = "remember" /\ call[c].target = call[c].id /\ call[c].key # NoKey
      /\ ledger' = ledger \cup {Receipt(c)}
      /\ UNCHANGED <<stored, keyless, answered, crashes>>
      /\ call[c].id \in Ids /\ call[c].body \in Bodies /\ call[c].id # None
      /\ Built(c) \in stored /\ call[c].id \notin keyless
      /\ \A e \in ledger : e.id # call[c].id /\ e.key # call[c].key
  BY NoneAssumption DEF Remember, AnswerIsBacked, OwnId
<1>b. /\ Built(c).id = call[c].id /\ Built(c).body = call[c].body
      /\ Receipt(c).id = call[c].id /\ Receipt(c).key = call[c].key
      /\ Receipt(c) \in [key : Keys, body : Bodies, id : Ids]
  BY <1>a DEF Built, Receipt, TypeOK, CallRecord
<1>c. \A d \in Calls : d # c => call[d].id # call[c].id
  BY <1>a DEF OwnId
<1>0. Moves(c, "respond", "created", call[c].target)
  BY SettleMoves DEF Remember, TypeOK, Steps, Answers
<1> USE DEF Moves
<1>1. Kept' = Kept \cup {Built(c)}
  BY <1>a, <1>b DEF Kept, RowsHaveOwnIds
<1>2. TypeOK'
  BY <1>0, <1>a, <1>b DEF TypeOK
<1>3. OwnId'
  BY <1>0, <1>a, <1>b, <1>c DEF OwnId, Built
<1>4. AnswerIsBacked'
  <2>1. Promise!ReceiptOf(call[c].key, call[c].body, call[c].target) \subseteq ledger'
    BY <1>a DEF Promise!ReceiptOf, Receipt
  <2>2. QED
    BY <1>0, <1>1, <1>a, <1>b, <2>1 DEF AnswerIsBacked, Promise!ReceiptOf
<1>5. Promise!Create(call[c].key, call[c].body, call[c].id)
  BY <1>1, <1>a DEF Promise!Create, Promise!ReceiptOf, Receipt, Kept, Built
<1>6. Simulates
  BY <1>5, <1>a DEF Simulates, Promise!Next, TypeOK, CallRecord
<1>7. QED
  BY <1>2, <1>3, <1>4, <1>6, <1>a DEF Threads, RowsHaveOwnIds

(* Raise: the row saved before it stays, an orphan.                        *)
LEMMA RaiseStep ==
  ASSUME NEW c \in Calls, Inductive, Raise(c)
  PROVE  Threads' /\ Simulates
<1> USE DEF Inductive, At
<1>a. /\ call[c].step \in {"save", "remember"}
      /\ UNCHANGED <<stored, ledger, keyless, answered, crashes>>
      /\ Moves(c, "respond", "error", call[c].target)
  BY SettleMoves DEF Raise, TypeOK, Steps, Answers
<1>b. Kept' = Kept
  BY <1>a, KeptStays
<1> USE DEF Moves
<1>1. TypeOK'
  BY <1>a DEF TypeOK
<1>2. OwnId'
  BY <1>a DEF OwnId, Built
<1>3. AnswerIsBacked'
  BY <1>a, <1>b DEF AnswerIsBacked, Promise!ReceiptOf
<1>4. QED
  BY <1>1, <1>2, <1>3, <1>a, <1>b DEF Threads, RowsHaveOwnIds, Simulates, Promise!vars

(* Respond: a 201 names a kept resource; the thread is free again.         *)
LEMMA RespondStep ==
  ASSUME NEW c \in Calls, Inductive, Respond(c)
  PROVE  Threads' /\ Simulates
<1> USE DEF Inductive, At
<1>a. /\ call[c].step = "respond"
      /\ call' = [call EXCEPT ![c] = Idle]
      /\ UNCHANGED <<stored, ledger, keyless, crashes>>
  BY DEF Respond
<1>b. /\ call' \in [Calls -> CallRecord]
      /\ \A d \in Calls : d # c => call'[d] = call[d]
      /\ call'[c] = Idle
      /\ Idle.step = "idle" /\ Idle.id = None /\ Idle.answer = "none"
  BY <1>a DEF TypeOK, Idle, CallRecord, Steps, Answers
<1>c. /\ call[c].key \in Keys \cup {NoKey} /\ call[c].body \in Bodies /\ call[c].target \in Ids
      /\ Kept' = Kept
  BY <1>a, KeptStays DEF TypeOK, CallRecord, OwnId
<1>1. TypeOK'
  BY <1>a, <1>b, <1>c DEF TypeOK, Respond
<1>2. OwnId'
  BY <1>a, <1>b DEF OwnId, Built
<1>3. AnswerIsBacked'
  BY <1>a, <1>b, <1>c DEF AnswerIsBacked, Promise!ReceiptOf
<1>4. Simulates
  <2>1. CASE call[c].answer \in {"created", "replayed"}
    <3>1. PICK r \in Kept : r.id = call[c].target /\ r.body = call[c].body
      BY <2>1 DEF AnswerIsBacked
    <3>2. [id |-> call[c].target, body |-> call[c].body] \in Kept
      BY <3>1 DEF Kept, TypeOK
    <3>3. Promise!ReceiptOf(call[c].key, call[c].body, call[c].target) \subseteq ledger
      BY <2>1 DEF AnswerIsBacked
    <3>4. Promise!Respond(call[c].key, call[c].body, call[c].target)
      BY <1>a, <1>c, <2>1, <3>2, <3>3 DEF Respond, Promise!Respond
    <3>5. QED
      BY <1>c, <3>4 DEF Simulates, Promise!Next
  <2>2. CASE call[c].answer \notin {"created", "replayed"}
    BY <1>a, <1>c, <2>2 DEF Respond, Simulates, Promise!vars
  <2>3. QED
    BY <2>1, <2>2
<1>5. QED
  BY <1>1, <1>2, <1>3, <1>4, <1>a DEF Threads, RowsHaveOwnIds

(* Crash: threads are gone, rows and orphans stay.                         *)
LEMMA CrashStep ==
  ASSUME Inductive, Crash
  PROVE  Threads' /\ Simulates
<1> USE DEF Inductive, At
<1>1. /\ call' = [c \in Calls |-> Idle]
      /\ UNCHANGED <<stored, ledger, keyless, answered>>
      /\ crashes < MaxCrashes /\ crashes' = crashes + 1
      /\ Idle.step = "idle" /\ Idle.id = None /\ Idle.answer = "none"
  BY DEF Crash, Idle
<1>2. Kept' = Kept
  BY <1>1, KeptStays
<1>3. TypeOK'
  <2>1. call' \in [Calls -> CallRecord]
    BY <1>1 DEF Idle, CallRecord, Steps, Answers
  <2>2. crashes' \in 0..MaxCrashes
    BY <1>1, CrashAssumption DEF TypeOK
  <2>3. QED
    BY <1>1, <2>1, <2>2 DEF TypeOK
<1>4. OwnId' /\ AnswerIsBacked'
  BY <1>1, <1>2 DEF OwnId, AnswerIsBacked
<1>5. QED
  BY <1>1, <1>2, <1>3, <1>4 DEF Threads, RowsHaveOwnIds, Simulates, Promise!vars

-----------------------------------------------------------------------------
(* The invariant and the refinement.                                       *)

(* Inductive holds initially.                                              *)
LEMMA InitInductive == Init => Inductive /\ Promise!Init
<1> SUFFICES ASSUME Init PROVE Inductive /\ Promise!Init
  OBVIOUS
<1>1. /\ \A c \in Calls : call[c] = Idle
      /\ Idle.step = "idle" /\ Idle.id = None /\ Idle.answer = "none"
      /\ stored = {} /\ ledger = {} /\ answered = {} /\ keyless = {} /\ Kept = {}
  BY DEF Init, Idle, Kept
<1>2. TypeOK
  BY CrashAssumption DEF Init, TypeOK, Idle, CallRecord, Steps, Answers
<1>3. OwnId /\ AnswerIsBacked /\ RowsHaveOwnIds
  BY <1>1 DEF OwnId, AnswerIsBacked, RowsHaveOwnIds, At
<1>4. QED
  BY <1>1, <1>2, <1>3 DEF Inductive, Promise!Init, Promise!Consistent

(* Every step preserves Inductive and is a step of KeyedCreate.            *)
LEMMA NextInductive == Inductive /\ [Next]_vars => Inductive' /\ Simulates
<1> SUFFICES ASSUME Inductive, [Next]_vars PROVE Inductive' /\ Simulates
  OBVIOUS
<1>1. CASE UNCHANGED vars
  BY <1>1 DEF Inductive, vars, Threads, TypeOK, OwnId, AnswerIsBacked, RowsHaveOwnIds, Built,
              At, Kept, Promise!ReceiptOf, Promise!Consistent, Simulates, Promise!vars
<1>2. CASE Next
  <2>1. Threads' /\ Simulates
    BY <1>2, ArriveStep, ResolveStep, FetchStep, SaveStep, RememberStep, RaiseStep,
       RespondStep, CrashStep DEF Next
  <2>2. Promise!Consistent'
    BY <2>1, PromiseKept DEF Inductive
  <2>3. QED
    BY <2>1, <2>2 DEF Inductive, Threads
<1>3. QED
  BY <1>1, <1>2

(* The invariant that relates threads, rows and receipts holds in every    *)
(* state of the three two-step commands.                                   *)
THEOREM InductiveInvariant == Spec => []Inductive
<1>1. Init => Inductive
  BY InitInductive
<1>2. Inductive /\ [Next]_vars => Inductive'
  BY NextInductive
<1>3. QED
  BY <1>1, <1>2, PTL DEF Spec

(* The two-step code implements KeyedCreate for the resources that have    *)
(* their receipt or need none: whatever races, fails or crashes, no 201    *)
(* names an orphan, and the 201s of a key name one resource.               *)
THEOREM Implementation == Spec => KeepsPromise
<1>1. Init => Promise!Init
  BY InitInductive
<1>2. Inductive /\ [Next]_vars => [Promise!Next]_(Promise!vars)
  BY NextInductive DEF Simulates
<1>3. QED
  BY <1>1, <1>2, InductiveInvariant, PTL DEF Spec, KeepsPromise, Promise!Spec

(* The assertions behind a replay in create_judge_profile and              *)
(* create_feedback_set never fail.                                         *)
THEOREM ReceiptsResolve == Spec => []AssertionsHold
<1>1. Inductive => AssertionsHold
  BY DEF Inductive, AnswerIsBacked, AssertionsHold
<1>2. QED
  BY <1>1, InductiveInvariant, PTL
=============================================================================
