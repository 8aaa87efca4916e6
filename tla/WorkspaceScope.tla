--------------------------- MODULE WorkspaceScope ---------------------------
(***************************************************************************)
(* Whose rows a caller reads and writes. A request has a principal, an     *)
(* organization's Workspace, or none; rows and receipts carry the one they *)
(* were saved under, rows are linked (a run to its suite, evidence and     *)
(* feedback sets to their run, a suite to its JudgeProfile), and a read    *)
(* asks for the owner of the row and of what it is linked to. Rows are     *)
(* read in one transaction and saved in a later one, and a process may     *)
(* start again under another configuration, over the rows of the last one. *)
(*                                                                         *)
(* How a token is told from another is left out: a deployment is the set   *)
(* of principals its tokens stand for. Documents are left out, except what *)
(* links them and whether a run is RUNNING. Two-step creations are one     *)
(* step here, as TwoStepCreate has them in detail.                         *)
(***************************************************************************)
EXTENDS Naturals

CONSTANTS Calls,       \* the threads that serve requests
          Ids,         \* the ids uuid4 can return (bounds the rows)
          Keys,        \* Idempotency-Keys
          NoKey,       \* the header is absent
          Workspaces,
          Nobody,      \* no principal: NULL in a row, '' in a receipt
          None,        \* no row, no configuration
          MaxStarts    \* bounds the restarts

ASSUME OwnerAssumption == Nobody \notin Workspaces
ASSUME NoneAssumption == None \notin Ids \cup Workspaces /\ NoKey \notin Keys
ASSUME StartAssumption == MaxStarts \in Nat

VARIABLES rows,        \* the resources table
          ledger,      \* the idempotency table
          deployment,  \* the configuration of the running process
          call,        \* the threads
          starts

vars == <<rows, ledger, deployment, call, starts>>

Owners == Workspaces \cup {Nobody}
Kinds  == {"judge_profile", "suite", "run", "evidence", "feedback_set", "input"}
Row    == [kind : Kinds, id : Ids, owner : Owners, parent : Ids \cup {None}, running : BOOLEAN]
Receipt == [scope : Kinds, owner : Owners, key : Keys, id : Ids]

(* The Workspaces with a service token, the one of the trial token, and    *)
(* whether the trial token is a service token too.                         *)
Deployment == [service : SUBSET Workspaces, trial : Workspaces \cup {None}, shared : BOOLEAN]

Idle == [step |-> "idle", who |-> Nobody, target |-> None]
CallRecord == [step : {"idle", "evaluate", "save"}, who : Owners, target : Ids \cup {None}]

TypeOK ==
  /\ rows \subseteq Row
  /\ ledger \subseteq Receipt
  /\ deployment \in Deployment
  /\ call \in [Calls -> CallRecord]
  /\ starts \in 0..MaxStarts

Init ==
  /\ rows = {} /\ ledger = {}
  /\ deployment \in Deployment
  /\ call = [c \in Calls |-> Idle]
  /\ starts = 0

(* Whom a request to a public route, or to a private one, may stand for.   *)
PublicCallers ==
  IF deployment.trial = None THEN {Nobody} ELSE {deployment.trial}
PrivateCallers ==
  IF deployment.trial = None THEN deployment.service
  ELSE {w \in {deployment.trial} : deployment.shared}

Fresh == {i \in Ids : /\ \A r \in rows : r.id # i
                      /\ \A c \in Calls : call[c].target # i}

-----------------------------------------------------------------------------
(* Faulty variants of definitions below, used by no specification: each is *)
(* put in the place of the definition it is named after to see that a      *)
(* property notices.                                                       *)

(* Lets a Workspace's suite use a JudgeProfile.                            *)
ProfilesAny(who) ==
  {None} \cup {r.id : r \in {p \in rows : p.kind = "judge_profile"}}

(* Restarts over runs that are saved again, by nobody.                     *)
InterruptedResaved(r) ==
  IF r.kind = "run" /\ r.running THEN [r EXCEPT !.running = FALSE, !.owner = Nobody] ELSE r

(* Saves the evidence of a run without its principal.                      *)
EvidenceUnscoped(c, id) ==
  [kind |-> "evidence", id |-> id, owner |-> Nobody, parent |-> call[c].target, running |-> FALSE]

-----------------------------------------------------------------------------
(* EchoStore._get and the get_* methods: the row's owner, and the same of  *)
(* the run and the suite above it. A suite is read without its profile.    *)
Own(who) == {r \in rows : r.owner = who}
Get(kind, id, who) == {r \in Own(who) : r.kind = kind /\ r.id = id}
SeesSuite(id, who) == Get("suite", id, who) # {}
SeesRun(id, who) == \E r \in Get("run", id, who) : SeesSuite(r.parent, who)
Sees(r, who) ==
  /\ r.owner = who
  /\ r.kind = "run" => SeesSuite(r.parent, who)
  /\ r.kind \in {"evidence", "feedback_set"} => SeesRun(r.parent, who)

(* resolve_idempotency, and what remember_idempotency inserts.             *)
Lookup(scope, who, key) == {e \in ledger : e.scope = scope /\ e.owner = who /\ e.key = key}
Remembered(scope, who, key, id) ==
  IF key = NoKey THEN {} ELSE {[scope |-> scope, owner |-> who, key |-> key, id |-> id]}

New(kind, id, who, parent) ==
  [kind |-> kind, id |-> id, owner |-> who, parent |-> parent, running |-> kind = "run"]

(* INSERT of a row and of its receipt; a key that is known is a replay.    *)
Insert(kind, who, key, id, parent) ==
  /\ Lookup(kind, who, key) = {}
  /\ rows' = rows \cup {New(kind, id, who, parent)}
  /\ ledger' = ledger \cup Remembered(kind, who, key, id)

(* save: INSERT OR REPLACE, by primary key, under the caller's principal.  *)
Saved(r, who) == [r EXCEPT !.owner = who]
Replace(r, s) == (rows \ {r}) \cup {s}

-----------------------------------------------------------------------------
(* The requests.                                                           *)

(* create_judge_profile has no principal, whoever calls.                   *)
CreateProfile(c) ==
  /\ call[c].step = "idle"
  /\ \E key \in Keys \cup {NoKey}, id \in Fresh :
       Insert("judge_profile", Nobody, key, id, None)
  /\ UNCHANGED <<deployment, call, starts>>

(* A Workspace's suite cannot reference a JudgeProfile.                    *)
Profiles(who) ==
  {None} \cup {r.id : r \in {p \in Own(Nobody) : p.kind = "judge_profile" /\ who = Nobody}}

CreateSuite(c) ==
  /\ call[c].step = "idle"
  /\ \E who \in PublicCallers \cup PrivateCallers, key \in Keys \cup {NoKey}, id \in Fresh :
       \E profile \in Profiles(who) : Insert("suite", who, key, id, profile)
  /\ UNCHANGED <<deployment, call, starts>>

ImportInput(c) ==
  /\ call[c].step = "idle"
  /\ \E who \in PublicCallers, key \in Keys, id \in Fresh : Insert("input", who, key, id, None)
  /\ UNCHANGED <<deployment, call, starts>>

(* create_run reads the suite, saves the run and evaluates.                *)
CreateRun(c) ==
  /\ call[c].step = "idle"
  /\ \E who \in PublicCallers, key \in Keys \cup {NoKey}, id \in Fresh, suite \in Ids :
       /\ SeesSuite(suite, who)
       /\ Insert("run", who, key, id, suite)
       /\ call' = [call EXCEPT ![c] = [step |-> "evaluate", who |-> who, target |-> id]]
  /\ UNCHANGED <<deployment, starts>>

(* save_outcome, or the failed run alone, under the caller's principal.    *)
Evidence(c, id) == New("evidence", id, call[c].who, call[c].target)

Finish(c) ==
  /\ call[c].step = "evaluate"
  /\ \E r \in rows :
       LET finished == Saved([r EXCEPT !.running = FALSE], call[c].who)
       IN  /\ r.kind = "run" /\ r.id = call[c].target
           /\ \/ rows' = Replace(r, finished)
              \/ \E id \in Fresh : rows' = Replace(r, finished) \cup {Evidence(c, id)}
  /\ call' = [call EXCEPT ![c] = Idle]
  /\ UNCHANGED <<ledger, deployment, starts>>

(* create_feedback_set reads the run, as annotate_sample does.             *)
CreateSet(c) ==
  /\ call[c].step = "idle"
  /\ \E who \in PublicCallers, key \in Keys \cup {NoKey}, id \in Fresh, run \in Ids :
       /\ SeesRun(run, who)
       /\ Insert("feedback_set", who, key, id, run)
  /\ UNCHANGED <<deployment, call, starts>>

(* export_feedback_set, send_feedback and evaluate read a document ...     *)
Read(c) ==
  /\ call[c].step = "idle"
  /\ \E who \in PublicCallers, r \in rows :
       /\ r.kind \in {"feedback_set", "input"} /\ Sees(r, who)
       /\ call' = [call EXCEPT ![c] = [step |-> "save", who |-> who, target |-> r.id]]
  /\ UNCHANGED <<rows, ledger, deployment, starts>>

(* ... and save a copy of it later.                                        *)
Save(c) ==
  /\ call[c].step = "save"
  /\ \E r \in rows :
       /\ r.kind \in {"feedback_set", "input"} /\ r.id = call[c].target
       /\ rows' = Replace(r, Saved(r, call[c].who))
  /\ call' = [call EXCEPT ![c] = Idle]
  /\ UNCHANGED <<ledger, deployment, starts>>

(* The process starts again, perhaps with another configuration, and       *)
(* interrupts the runs of all owners with an UPDATE of their documents.    *)
Interrupted(r) ==
  IF r.kind = "run" /\ r.running THEN [r EXCEPT !.running = FALSE] ELSE r

Restart ==
  /\ starts < MaxStarts
  /\ starts' = starts + 1
  /\ deployment' \in Deployment
  /\ call' = [c \in Calls |-> Idle]
  /\ rows' = {Interrupted(r) : r \in rows}
  /\ UNCHANGED ledger

Next == \/ \E c \in Calls : \/ CreateProfile(c) \/ CreateSuite(c) \/ ImportInput(c)
                            \/ CreateRun(c) \/ Finish(c) \/ CreateSet(c) \/ Read(c) \/ Save(c)
        \/ Restart

Spec == Init /\ [][Next]_vars

-----------------------------------------------------------------------------
(* Properties.                                                             *)

(* What hangs together has one owner, over all restarts and               *)
(* configurations: docs/API.md "preventing unscoped child rows from        *)
(* bypassing the suite boundary".                                          *)
LineageHasOneOwner ==
  \A r \in rows : r.parent # None => \E p \in rows : p.id = r.parent /\ p.owner = r.owner

(* The checks of the rows above never hide a row from the principal that   *)
(* created it.                                                             *)
OwnRowsAreSeen ==
  \A r \in rows : Sees(r, r.owner)

(* A receipt names a row of its own kind and owner, so a replay finds it.  *)
ReplayIsOwn ==
  \A e \in ledger : \E r \in rows : r.kind = e.scope /\ r.id = e.id /\ r.owner = e.owner

(* Saving a row again, by a caller or by a restart, never moves it to      *)
(* another owner or under another row.                                     *)
OwnerIsFixed ==
  [][\A r \in rows : \E s \in rows' :
       s.kind = r.kind /\ s.id = r.id /\ s.owner = r.owner /\ s.parent = r.parent]_rows

-----------------------------------------------------------------------------
(* The inductive invariant behind them.                                    *)

(* An id names one row, and a row's parent is of the kind it should be.    *)
Above(r) == CASE r.kind = "suite" -> {"judge_profile"}
              [] r.kind = "run" -> {"suite"}
              [] r.kind \in {"evidence", "feedback_set"} -> {"run"}
              [] OTHER -> {}

IdsIdentify == \A r, s \in rows : r.id = s.id => r = s

Linked ==
  \A r \in rows :
    /\ r.kind \in {"run", "evidence", "feedback_set"} => r.parent # None
    /\ r.parent # None => \E p \in rows : p.id = r.parent /\ p.owner = r.owner /\ p.kind \in Above(r)

(* A thread that will save a row has the principal the row has.            *)
Held ==
  \A c \in Calls :
    /\ call[c].step = "evaluate" =>
         \E r \in rows : r.id = call[c].target /\ r.kind = "run" /\ r.owner = call[c].who
    /\ call[c].step = "save" =>
         \E r \in rows : /\ r.id = call[c].target /\ r.owner = call[c].who
                         /\ r.kind \in {"feedback_set", "input"}

Inductive == TypeOK /\ IdsIdentify /\ Linked /\ Held /\ ReplayIsOwn
=============================================================================
