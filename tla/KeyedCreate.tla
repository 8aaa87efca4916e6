---------------------------- MODULE KeyedCreate ----------------------------
(***************************************************************************)
(* What EchoService.create_run, EchoStore.create_workspace_suite and       *)
(* EchoStore.create_input promise to a client: a command sent with an      *)
(* Idempotency-Key creates one resource, in the same instant as the        *)
(* receipt that binds the key to it; whatever is answered or shown is      *)
(* stored for good. TransactionalCreate, the statement-by-statement code   *)
(* of the last two, keeps this promise; EvaluationRuns keeps it when a run *)
(* counts as created from the moment the ledger binds it to its key.       *)
(***************************************************************************)
CONSTANTS Ids,     \* resource ids
          Keys,    \* idempotency keys
          NoKey,   \* a command without a key
          Bodies   \* what request_hash tells apart

VARIABLES stored,    \* the resources: an id and the body it was made from
          ledger,    \* the receipts: a key, the body sent with it, the resource
          answered,  \* every 201: the key and body sent, the resource returned
          shown      \* every resource a GET returned

vars == <<stored, ledger, answered, shown>>

Resource == [id : Ids, body : Bodies]
Receipt  == [key : Keys, body : Bodies, id : Ids]
Reply    == [key : Keys \cup {NoKey}, body : Bodies, id : Ids]

Init == stored = {} /\ ledger = {} /\ answered = {} /\ shown = {}

(* The receipt a command leaves: none without a key.                       *)
ReceiptOf(key, body, id) ==
  IF key = NoKey THEN {} ELSE {[key |-> key, body |-> body, id |-> id]}

Create(key, body, id) ==
  /\ \A e \in ledger : e.key # key
  /\ \A r \in stored : r.id # id
  /\ stored' = stored \cup {[id |-> id, body |-> body]}
  /\ ledger' = ledger \cup ReceiptOf(key, body, id)
  /\ UNCHANGED <<answered, shown>>

(* A 201, first or replayed, names a stored resource made from this body,  *)
(* and under a key the one the key is bound to.                            *)
Respond(key, body, id) ==
  /\ [id |-> id, body |-> body] \in stored
  /\ ReceiptOf(key, body, id) \subseteq ledger
  /\ answered' = answered \cup {[key |-> key, body |-> body, id |-> id]}
  /\ UNCHANGED <<stored, ledger, shown>>

Show(r) ==
  /\ r \in stored
  /\ shown' = shown \cup {r}
  /\ UNCHANGED <<stored, ledger, answered>>

Next == \/ \E key \in Keys \cup {NoKey}, body \in Bodies, id \in Ids :
             Create(key, body, id) \/ Respond(key, body, id)
        \/ \E r \in Resource : Show(r)

Spec == Init /\ [][Next]_vars

-----------------------------------------------------------------------------
(* What the promise means.                                                 *)

(* A key is bound to one resource, a resource has one body, each receipt   *)
(* names a stored resource made from the body it was sent with, and what   *)
(* was answered or shown is there.                                         *)
Consistent ==
  /\ stored \subseteq Resource
  /\ ledger \subseteq Receipt
  /\ \A r, s \in stored : r.id = s.id => r = s
  /\ \A e, f \in ledger : e.key = f.key \/ e.id = f.id => e = f
  /\ \A e \in ledger : [id |-> e.id, body |-> e.body] \in stored
  /\ \A a \in answered : /\ [id |-> a.id, body |-> a.body] \in stored
                         /\ ReceiptOf(a.key, a.body, a.id) \subseteq ledger
  /\ shown \subseteq stored

(* Two 201 answers under one key had the same body and name one resource   *)
(* (ECHO_IDEMPOTENCY_CONFLICT otherwise), even when the commands raced or  *)
(* the process died between them.                                          *)
OneResourcePerKey ==
  \A a, b \in answered : a.key = b.key /\ a.key # NoKey => a = b
=============================================================================
