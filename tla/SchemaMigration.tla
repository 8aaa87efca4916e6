-------------------------- MODULE SchemaMigration --------------------------
(***************************************************************************)
(* EchoStore.__init__: what a process does to the database before it       *)
(* serves. executescript creates missing tables, each in a transaction of  *)
(* its own; then _migrate_workspace_scope_schema gives old tables the      *)
(* Workspace columns, and the ledger its new primary key, in one           *)
(* transaction. Any statement may fail, the process may die anywhere, and  *)
(* a restart may overlap the process it replaces.                          *)
(*                                                                         *)
(* SQLite is external: a transaction works on a copy that COMMIT makes the *)
(* database, and there is one writer. Documents, indexes and the columns   *)
(* no migration touches are left out. The primary key of an old ledger is  *)
(* (scope, key), so its rows keep apart under the new one.                 *)
(***************************************************************************)
EXTENDS Naturals

CONSTANTS Processes,
          Ids,           \* resources, old and new
          Keys,          \* Idempotency-Keys
          Workspaces,    \* an organization and a Workspace of it
          Null,          \* SQL's NULL: a resource row of nobody's Workspace
          Unscoped,      \* '': a receipt of nobody's Workspace
          None,          \* no process
          MaxFailures    \* bounds the crashes and the statements that fail

ASSUME ValueAssumption == Null # Unscoped /\ Workspaces \cap {Null, Unscoped} = {}
ASSUME NoneAssumption == None \notin Processes
ASSUME FailureAssumption == MaxFailures \in Nat

VARIABLES disk,     \* the committed database
          work,     \* what the open transaction has made of it
          writer,   \* the process whose transaction it is
          at,       \* the next statement of each process
          owed,     \* history: the rows that must be there, with their owners
          failures  \* the crashes and failing statements so far

vars == <<disk, work, writer, at, owed, failures>>

Columns  == {"organization_id", "workspace_id"}
Tables   == {"resources", "idempotency", "idempotency_workspace_new"}
Resource == [id : Ids, owner : Workspaces \cup {Null}]
Receipt  == [key : Keys, owner : Workspaces \cup {Null, Unscoped}, id : Ids]

(* key holds the columns of the ledger's primary key beside scope and key. *)
Database == [tables : SUBSET Tables, columns : [Tables -> SUBSET Columns], key : SUBSET Columns,
             resources : SUBSET Resource, ledger : SUBSET Receipt, copy : SUBSET Receipt,
             version : {0, 1}]

Transaction == {"organization_id", "workspace_id", "create", "copy", "drop", "rename", "commit"}
Steps       == Transaction \cup {"down", "resources", "idempotency", "begin", "serving"}

TypeOK ==
  /\ disk \in Database
  /\ work \in Database
  /\ writer \in Processes \cup {None}
  /\ at \in [Processes -> Steps]
  /\ owed \in [resources : SUBSET Resource, ledger : SUBSET Receipt]
  /\ failures \in 0..MaxFailures

(* A faulty variant of Rekeyed: looks at the columns only.                 *)
RekeyedByColumns(db) == db.columns["idempotency"] = Columns

(* When the ledger is not rebuilt.                                         *)
Rekeyed(db) == db.columns["idempotency"] = Columns /\ db.key = Columns

(* The schema the other statements of the store take for granted.          *)
Current(db) == /\ {"resources", "idempotency"} \subseteq db.tables
               /\ \A t \in {"resources", "idempotency"} : db.columns[t] = Columns
               /\ db.key = Columns

(* A file that is there already: any of the columns, the ledger's old or   *)
(* new key, and rows. A table without a column has no owner to tell.       *)
OldColumns == [Tables -> SUBSET Columns]
Owners(columns, nobody) ==
  (IF columns = Columns THEN Workspaces ELSE {}) \cup nobody

OldFiles ==
  {db \in [tables : {{}, {"resources", "idempotency"}},
           columns : {c \in OldColumns : c["idempotency_workspace_new"] = {}},
           key : {{}, Columns},
           resources : {{}} \cup {{r} : r \in Resource},
           ledger : {{}} \cup {{e} : e \in Receipt},
           copy : {{}}, version : {0}] :
     /\ db.tables = {} => /\ db.resources = {} /\ db.ledger = {} /\ db.key = {}
                          /\ db.columns = [t \in Tables |-> {}]
     /\ db.key = Columns => db.columns["idempotency"] = Columns
     /\ \A r \in db.resources : r.owner \in Owners(db.columns["resources"], {Null})
     /\ \A e \in db.ledger :
          /\ \E r \in db.resources : e.id = r.id
          /\ e.owner \in Owners(db.columns["idempotency"],
                                IF db.columns["idempotency"] = {} \/ Rekeyed(db)
                                THEN {Unscoped} ELSE {Unscoped, Null})}

Init ==
  /\ disk \in OldFiles
  /\ work = disk
  /\ writer = None
  /\ at = [p \in Processes |-> "down"]
  /\ owed = [resources |-> disk.resources, ledger |-> disk.ledger]
  /\ failures = 0

Goto(p, step) == at' = [at EXCEPT ![p] = step]

(* A statement of p's transaction.                                         *)
Executes(p, step, db) ==
  /\ at[p] = step /\ writer = p
  /\ work' = db
  /\ UNCHANGED <<disk, writer, owed, failures>>

-----------------------------------------------------------------------------
(* Faulty variants of definitions below, used by no specification: each is *)
(* put in the place of the definition it is named after to see that a      *)
(* property notices.                                                       *)

(* Copies every receipt as a receipt of nobody's Workspace.                *)
CopyUnscoped(p) ==
  /\ \A e \in work.ledger : e.owner # Null
  /\ Executes(p, "copy", [work EXCEPT !.copy = {[e EXCEPT !.owner = Unscoped] : e \in work.ledger}])
  /\ Goto(p, "drop")

(* A DROP that commits what was done before it.                            *)
DropCommits(p) ==
  /\ at[p] = "drop" /\ writer = p
  /\ work' = [work EXCEPT !.tables = @ \ {"idempotency"}, !.ledger = {}]
  /\ disk' = work
  /\ Goto(p, "rename")
  /\ UNCHANGED <<writer, owed, failures>>

(* CREATE TABLE without IF NOT EXISTS.                                     *)
CreateAgain(p, table) ==
  /\ at[p] = table
  /\ table \notin disk.tables
  /\ writer = None
  /\ disk' = [disk EXCEPT !.tables = @ \cup {table}, !.columns[table] = Columns,
                          !.key = IF table = "idempotency" THEN Columns ELSE @]
  /\ Goto(p, IF table = "resources" THEN "idempotency" ELSE "begin")
  /\ UNCHANGED <<work, writer, owed, failures>>

-----------------------------------------------------------------------------
(* One start.                                                              *)

Start(p) ==
  /\ at[p] = "down"
  /\ Goto(p, "resources")
  /\ UNCHANGED <<disk, work, writer, owed, failures>>

(* CREATE TABLE IF NOT EXISTS, in its own transaction.                     *)
Create(p, table) ==
  /\ at[p] = table
  /\ \/ /\ table \in disk.tables
        /\ UNCHANGED disk
     \/ /\ table \notin disk.tables
        /\ writer = None
        /\ disk' = [disk EXCEPT !.tables = @ \cup {table}, !.columns[table] = Columns,
                                !.key = IF table = "idempotency" THEN Columns ELSE @]
  /\ Goto(p, IF table = "resources" THEN "idempotency" ELSE "begin")
  /\ UNCHANGED <<work, writer, owed, failures>>

(* BEGIN IMMEDIATE waits for the other writer.                             *)
Begin(p) ==
  /\ at[p] = "begin"
  /\ writer = None
  /\ writer' = p
  /\ work' = disk
  /\ Goto(p, "organization_id")
  /\ UNCHANGED <<disk, owed, failures>>

(* ALTER TABLE resources ADD COLUMN, for a column that is missing.         *)
AddColumn(p, column) ==
  /\ Executes(p, column, [work EXCEPT !.columns["resources"] = @ \cup {column}])
  /\ Goto(p, IF column = "organization_id" THEN "workspace_id" ELSE "create")

CreateNew(p) ==
  /\ ~Rekeyed(work)
  /\ Executes(p, "create", [work EXCEPT !.tables = @ \cup {"idempotency_workspace_new"}])
  /\ Goto(p, "copy")

KeepLedger(p) ==
  /\ Rekeyed(work)
  /\ Executes(p, "create", work)
  /\ Goto(p, "commit")

(* INSERT ... SELECT; NOT NULL refuses a column that is there and NULL.    *)
Copy(p) ==
  /\ \A e \in work.ledger : e.owner # Null
  /\ Executes(p, "copy", [work EXCEPT !.copy = work.ledger])
  /\ Goto(p, "drop")

Drop(p) ==
  /\ Executes(p, "drop", [work EXCEPT !.tables = @ \ {"idempotency"}, !.ledger = {}])
  /\ Goto(p, "rename")

Rename(p) ==
  /\ Executes(p, "rename",
       [work EXCEPT !.tables = {"resources", "idempotency"}, !.columns["idempotency"] = Columns,
                    !.key = Columns, !.ledger = work.copy, !.copy = {}])
  /\ Goto(p, "commit")

(* PRAGMA user_version = 1 and COMMIT.                                     *)
Commit(p) ==
  /\ at[p] = "commit" /\ writer = p
  /\ disk' = [work EXCEPT !.version = 1]
  /\ work' = disk'
  /\ writer' = None
  /\ Goto(p, "serving")
  /\ UNCHANGED <<owed, failures>>

(* A statement fails, as Copy must on a NULL, or waits too long for the    *)
(* other writer: roll back what p's transaction made, if any, and raise.   *)
Raise(p) ==
  /\ at[p] \notin {"down", "serving"}
  /\ \/ /\ at[p] = "copy" /\ \E e \in work.ledger : e.owner = Null
        /\ UNCHANGED failures
     \/ /\ failures < MaxFailures
        /\ failures' = failures + 1
  /\ IF writer = p THEN writer' = None /\ work' = disk ELSE UNCHANGED <<writer, work>>
  /\ Goto(p, "down")
  /\ UNCHANGED <<disk, owed>>

(* The store serves: a keyed creation, by a Workspace or by nobody.        *)
Serve(p) ==
  /\ at[p] = "serving"
  /\ writer = None
  /\ \E id \in Ids, key \in Keys, w \in Workspaces \cup {Unscoped} :
       LET resource == [id |-> id, owner |-> IF w = Unscoped THEN Null ELSE w]
           receipt  == [key |-> key, owner |-> w, id |-> id]
       IN  /\ \A r \in disk.resources : r.id # id
           /\ \A e \in disk.ledger : ~(e.key = key /\ e.owner = w)
           /\ disk' = [disk EXCEPT !.resources = @ \cup {resource}, !.ledger = @ \cup {receipt}]
           /\ owed' = [resources |-> owed.resources \cup {resource},
                       ledger |-> owed.ledger \cup {receipt}]
  /\ UNCHANGED <<work, writer, at, failures>>

(* The process dies: its transaction with it.                              *)
Crash(p) ==
  /\ at[p] # "down"
  /\ failures < MaxFailures
  /\ failures' = failures + 1
  /\ Goto(p, "down")
  /\ IF writer = p THEN writer' = None /\ work' = disk ELSE UNCHANGED <<writer, work>>
  /\ UNCHANGED <<disk, owed>>

Migrate(p) == \/ Begin(p)
              \/ \E column \in Columns : AddColumn(p, column)
              \/ CreateNew(p) \/ KeepLedger(p) \/ Copy(p) \/ Drop(p) \/ Rename(p) \/ Commit(p)

Open(p) == \/ Start(p)
           \/ \E table \in {"resources", "idempotency"} : Create(p, table)
           \/ Migrate(p)

Next == \E p \in Processes : Open(p) \/ Raise(p) \/ Serve(p) \/ Crash(p)

Spec == Init /\ [][Next]_vars

(* The operating system runs a process that can go on, and the container   *)
(* of one that died or raised is started again.                            *)
FairSpec == Spec /\ \A p \in Processes : WF_vars(Open(p))

-----------------------------------------------------------------------------
(* Properties.                                                             *)

(* No row of the file is lost or changes its owner, whatever fails where:  *)
(* docs/API.md "suites stay unscoped and remain visible through legacy     *)
(* reads only".                                                            *)
RowsSurvive ==
  /\ disk.resources = owed.resources
  /\ disk.ledger = owed.ledger

(* The store's statements name columns that only the current schema has,   *)
(* and version 1 is told of that schema only.                              *)
ServesOnlyCurrent ==
  disk.version = 1 \/ (\E p \in Processes : at[p] = "serving") => Current(disk)

(* What is committed has the schema it was found with or the current one:  *)
(* no table goes away, and no schema changes in part.                      *)
MigratesAtOnce ==
  [][/\ disk.tables \subseteq disk'.tables
     /\ "idempotency_workspace_new" \notin disk'.tables
     /\ \/ Current(disk')
        \/ /\ disk'.key = disk.key \/ "idempotency" \notin disk.tables
           /\ \A t \in disk.tables : disk'.columns[t] = disk.columns[t]]_disk

(* A start ends in service, after any crashes and failing statements,      *)
(* unless an old receipt has a NULL that the new key cannot take.          *)
ServedAtLast ==
  (\A e \in disk.ledger : e.owner # Null) => <>[](\A p \in Processes : at[p] = "serving")

-----------------------------------------------------------------------------
(* The inductive invariant behind the first three.                         *)

(* One process is in a transaction, and past its CREATEs both tables are   *)
(* there and no other one.                                                 *)
WriterHolds ==
  /\ \A p \in Processes : at[p] \in Transaction <=> writer = p
  /\ "idempotency_workspace_new" \notin disk.tables
  /\ \A p \in Processes :
       /\ at[p] \notin {"down", "resources"} => "resources" \in disk.tables
       /\ at[p] \notin {"down", "resources", "idempotency"} => "idempotency" \in disk.tables

(* What the open transaction has made of the database: the receipts are in *)
(* the ledger until the DROP, in the copy from the INSERT to the RENAME.   *)
WorkFollows ==
  \A p \in Processes : at[p] \in Transaction =>
    /\ work.resources = disk.resources
    /\ at[p] # "organization_id" => "organization_id" \in work.columns["resources"]
    /\ at[p] \notin {"organization_id", "workspace_id"} => work.columns["resources"] = Columns
    /\ at[p] \in {"organization_id", "workspace_id", "create"} => work.tables = disk.tables
    /\ at[p] # "rename" => work.ledger = disk.ledger
    /\ at[p] \in {"drop", "rename"} => work.copy = disk.ledger
    /\ at[p] = "commit" => /\ Current(work)
                           /\ work.tables = {"resources", "idempotency"}

Inductive ==
  /\ TypeOK
  /\ WriterHolds
  /\ WorkFollows
  /\ RowsSurvive
  /\ ServesOnlyCurrent
=============================================================================
