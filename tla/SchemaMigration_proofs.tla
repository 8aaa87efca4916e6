----------------------- MODULE SchemaMigration_proofs -----------------------
(***************************************************************************)
(* What SchemaMigration promises of the file, for any processes, rows,     *)
(* Workspaces and keys and any number of crashes and failing statements.   *)
(*                                                                         *)
(* The argument: the transaction has one writer, and what it has made of   *)
(* the database follows from its next statement (WorkFollows): the owed    *)
(* receipts are in the old ledger until they are in the copy, so whatever  *)
(* COMMIT makes the database has them, under the current schema.           *)
(***************************************************************************)
EXTENDS SchemaMigration, TLAPS

(* What a migration leaves alone: no step of it commits but the last.      *)
Uncommitted == UNCHANGED <<disk, owed>>

-----------------------------------------------------------------------------
(* A statement that commits nothing keeps what is said of the file.        *)
LEMMA FileStays ==
  ASSUME Inductive, UNCHANGED <<disk, owed>>,
         \A p \in Processes : at'[p] = "serving" => at[p] = "serving"
  PROVE  RowsSurvive' /\ ServesOnlyCurrent'
<1>1. RowsSurvive'
  BY DEF Inductive, RowsSurvive
<1>2. ServesOnlyCurrent'
  <2>1. Current(disk)' <=> Current(disk)
    BY DEF Current
  <2>2. QED
    BY <2>1 DEF Inductive, ServesOnlyCurrent
<1>3. QED
  BY <1>1, <1>2

(* A statement of the open transaction, which goes on to another one.      *)
LEMMA StatementStep ==
  ASSUME Inductive, NEW p \in Processes, NEW step \in Transaction, NEW next \in Transaction,
         NEW db \in Database, Executes(p, step, db), Goto(p, next),
         /\ db.resources = disk.resources
         /\ next # "organization_id" => "organization_id" \in db.columns["resources"]
         /\ next \notin {"organization_id", "workspace_id"} => db.columns["resources"] = Columns
         /\ next \in {"organization_id", "workspace_id", "create"} => db.tables = disk.tables
         /\ next # "rename" => db.ledger = disk.ledger
         /\ next \in {"drop", "rename"} => db.copy = disk.ledger
         /\ next = "commit" => Current(db) /\ db.tables = {"resources", "idempotency"}
  PROVE  Inductive'
<1>1. /\ at[p] = step /\ writer = p /\ work' = db
      /\ UNCHANGED <<disk, writer, owed, failures>>
  BY DEF Executes
<1>2. /\ at' \in [Processes -> Steps] /\ at'[p] = next
      /\ \A q \in Processes : q # p => at'[q] = at[q]
  BY DEF Goto, Inductive, TypeOK, Steps
<1>3. TypeOK'
  BY <1>1, <1>2 DEF Inductive, TypeOK
<1>4. WriterHolds'
  BY <1>1, <1>2 DEF Inductive, WriterHolds, Transaction
<1>5. \A q \in Processes : at'[q] \in Transaction => q = p
  BY <1>1, <1>2 DEF Inductive, WriterHolds
<1>6. Current(work)' <=> Current(db)
  BY <1>1 DEF Current
<1>7. WorkFollows'
  <2> SUFFICES ASSUME NEW q \in Processes, at'[q] \in Transaction
               PROVE  /\ work'.resources = disk'.resources
                      /\ at'[q] # "organization_id" =>
                           "organization_id" \in work'.columns["resources"]
                      /\ at'[q] \notin {"organization_id", "workspace_id"} =>
                           work'.columns["resources"] = Columns
                      /\ at'[q] \in {"organization_id", "workspace_id", "create"} =>
                           work'.tables = disk'.tables
                      /\ at'[q] # "rename" => work'.ledger = disk'.ledger
                      /\ at'[q] \in {"drop", "rename"} => work'.copy = disk'.ledger
                      /\ at'[q] = "commit" => /\ Current(work)'
                                              /\ work'.tables = {"resources", "idempotency"}
    BY DEF WorkFollows
  <2>1. q = p
    BY <1>5
  <2>2. QED
    BY <2>1, <1>1, <1>2, <1>6
<1>8. RowsSurvive' /\ ServesOnlyCurrent'
  BY <1>1, <1>2, FileStays DEF Transaction
<1>9. QED
  BY <1>3, <1>4, <1>7, <1>8 DEF Inductive

-----------------------------------------------------------------------------
(* The statements of the transaction.                                      *)

(* Begin looks at the file as it is.                                       *)
LEMMA BeginStep ==
  ASSUME Inductive, NEW p \in Processes, Begin(p)
  PROVE  Inductive'
<1>1. /\ at[p] = "begin" /\ writer = None /\ writer' = p /\ work' = disk
      /\ at' = [at EXCEPT ![p] = "organization_id"]
      /\ UNCHANGED <<disk, owed, failures>>
  BY DEF Begin, Goto
<1>2. /\ at' \in [Processes -> Steps] /\ at'[p] = "organization_id"
      /\ \A q \in Processes : q # p => at'[q] = at[q]
  BY <1>1 DEF Inductive, TypeOK, Steps, Transaction
<1>3. \A q \in Processes : at[q] \notin Transaction
  BY <1>1, NoneAssumption DEF Inductive, WriterHolds
<1>4. TypeOK'
  BY <1>1, <1>2 DEF Inductive, TypeOK
<1>5. WriterHolds'
  BY <1>1, <1>2, <1>3 DEF Inductive, WriterHolds, Transaction
<1>6. WorkFollows'
  BY <1>1, <1>2, <1>3 DEF WorkFollows
<1>7. RowsSurvive' /\ ServesOnlyCurrent'
  BY <1>1, <1>2, FileStays
<1>8. QED
  BY <1>4, <1>5, <1>6, <1>7 DEF Inductive

(* What the writer's transaction is known to hold.                         *)
LEMMA WriterKnows ==
  ASSUME Inductive, NEW p \in Processes, at[p] \in Transaction
  PROVE  /\ disk \in Database /\ work \in Database
         /\ disk.tables = {"resources", "idempotency"}
         /\ work.resources = disk.resources
         /\ at[p] # "organization_id" => "organization_id" \in work.columns["resources"]
         /\ at[p] \notin {"organization_id", "workspace_id"} => work.columns["resources"] = Columns
         /\ at[p] \in {"organization_id", "workspace_id", "create"} => work.tables = disk.tables
         /\ at[p] # "rename" => work.ledger = disk.ledger
         /\ at[p] \in {"drop", "rename"} => work.copy = disk.ledger
<1>1. disk \in Database /\ work \in Database
  BY DEF Inductive, TypeOK
<1>2. disk.tables = {"resources", "idempotency"}
  <2>1. disk.tables \subseteq {"resources", "idempotency", "idempotency_workspace_new"}
    BY <1>1 DEF Database, Tables
  <2>2. QED
    BY <2>1 DEF Inductive, WriterHolds, Transaction
<1>3. QED
  BY <1>1, <1>2 DEF Inductive, WorkFollows

(* The columns of resources.                                               *)
LEMMA AddColumnStep ==
  ASSUME Inductive, NEW p \in Processes, NEW column \in Columns, AddColumn(p, column)
  PROVE  Inductive'
<1> DEFINE db == [work EXCEPT !.columns["resources"] = @ \cup {column}]
           next == IF column = "organization_id" THEN "workspace_id" ELSE "create"
<1>1. Executes(p, column, db) /\ Goto(p, next) /\ at[p] = column
      /\ column \in Transaction /\ next \in Transaction
  BY DEF AddColumn, Executes, Columns, Transaction
<1>2. work \in Database /\ work.columns \in [Tables -> SUBSET Columns] /\ "resources" \in Tables
  BY <1>1, WriterKnows DEF Database, Tables
<1>3. db = [work EXCEPT !.columns =
              [work.columns EXCEPT !["resources"] = work.columns["resources"] \cup {column}]]
  BY <1>2 DEF Database
<1>4. /\ db \in Database
      /\ db.columns["resources"] = work.columns["resources"] \cup {column}
      /\ db.tables = work.tables /\ db.resources = work.resources
      /\ db.ledger = work.ledger /\ db.copy = work.copy
  <2> DEFINE columns == [work.columns EXCEPT !["resources"] =
                           work.columns["resources"] \cup {column}]
  <2>1. columns \in [Tables -> SUBSET Columns]
        /\ columns["resources"] = work.columns["resources"] \cup {column}
    BY <1>2
  <2>2. db = [work EXCEPT !.columns = columns]
    BY <1>3
  <2> HIDE DEF columns, db
  <2>3. QED
    BY <1>2, <2>1, <2>2 DEF Database
<1> HIDE DEF db
<1>5. CASE column = "organization_id"
  BY <1>1, <1>4, <1>5, WriterKnows, StatementStep
<1>6. CASE column = "workspace_id"
  <2>1. db.columns["resources"] = Columns
    <3>1. "organization_id" \in work.columns["resources"]
      BY <1>1, <1>6, WriterKnows
    <3>2. work.columns["resources"] \subseteq Columns
      BY <1>2
    <3>3. QED
      BY <1>4, <1>6, <3>1, <3>2 DEF Columns
  <2>2. next = "create"
    BY <1>6
  <2>3. QED
    BY <1>1, <1>4, <2>1, <2>2, <1>6, WriterKnows, StatementStep DEF Columns
<1>7. QED
  BY <1>5, <1>6 DEF Columns

(* The new ledger, beside the old one.                                     *)
LEMMA CreateNewStep ==
  ASSUME Inductive, NEW p \in Processes, CreateNew(p)
  PROVE  Inductive'
<1> DEFINE db == [work EXCEPT !.tables = @ \cup {"idempotency_workspace_new"}]
<1>1. Executes(p, "create", db) /\ Goto(p, "copy") /\ at[p] = "create"
      /\ {"create", "copy"} \subseteq Transaction
  BY DEF CreateNew, Executes, Transaction
<1>2. /\ db \in Database /\ db.columns = work.columns /\ db.resources = work.resources
      /\ db.ledger = work.ledger /\ db.copy = work.copy
  BY <1>1, WriterKnows DEF Database, Tables
<1> HIDE DEF db
<1>3. QED
  BY <1>1, <1>2, WriterKnows, StatementStep

(* A ledger that has the new key already.                                  *)
LEMMA KeepLedgerStep ==
  ASSUME Inductive, NEW p \in Processes, KeepLedger(p)
  PROVE  Inductive'
<1>1. /\ Executes(p, "create", work) /\ Goto(p, "commit") /\ at[p] = "create" /\ Rekeyed(work)
      /\ {"create", "commit"} \subseteq Transaction
  BY DEF KeepLedger, Executes, Transaction
<1>2. Current(work) /\ work.tables = {"resources", "idempotency"}
  BY <1>1, WriterKnows DEF Current, Rekeyed
<1>3. QED
  BY <1>1, <1>2, WriterKnows, StatementStep

(* The receipts, to the new ledger.                                        *)
LEMMA CopyStep ==
  ASSUME Inductive, NEW p \in Processes, Copy(p)
  PROVE  Inductive'
<1> DEFINE db == [work EXCEPT !.copy = work.ledger]
<1>1. Executes(p, "copy", db) /\ Goto(p, "drop") /\ at[p] = "copy"
      /\ {"copy", "drop"} \subseteq Transaction
  BY DEF Copy, Executes, Transaction
<1>2. /\ db \in Database /\ db.columns = work.columns /\ db.resources = work.resources
      /\ db.ledger = work.ledger /\ db.copy = work.ledger
  BY <1>1, WriterKnows DEF Database
<1> HIDE DEF db
<1>3. QED
  BY <1>1, <1>2, WriterKnows, StatementStep

(* The old ledger goes.                                                    *)
LEMMA DropStep ==
  ASSUME Inductive, NEW p \in Processes, Drop(p)
  PROVE  Inductive'
<1> DEFINE db == [work EXCEPT !.tables = @ \ {"idempotency"}, !.ledger = {}]
<1>1. Executes(p, "drop", db) /\ Goto(p, "rename") /\ at[p] = "drop"
      /\ {"drop", "rename"} \subseteq Transaction
  BY DEF Drop, Executes, Transaction
<1>2. /\ db \in Database /\ db.columns = work.columns /\ db.resources = work.resources
      /\ db.copy = work.copy
  BY <1>1, WriterKnows DEF Database
<1> HIDE DEF db
<1>3. QED
  BY <1>1, <1>2, WriterKnows, StatementStep

(* The new one takes its name: the schema is the current one.              *)
LEMMA RenameStep ==
  ASSUME Inductive, NEW p \in Processes, Rename(p)
  PROVE  Inductive'
<1> DEFINE columns == [work.columns EXCEPT !["idempotency"] = Columns]
           db == [work EXCEPT !.tables = {"resources", "idempotency"},
                              !.columns["idempotency"] = Columns,
                              !.key = Columns, !.ledger = work.copy, !.copy = {}]
<1>1. Executes(p, "rename", db) /\ Goto(p, "commit") /\ at[p] = "rename"
      /\ {"rename", "commit"} \subseteq Transaction
  BY DEF Rename, Executes, Transaction
<1>2. work \in Database /\ work.columns \in [Tables -> SUBSET Columns]
  BY <1>1, WriterKnows DEF Database
<1>3. /\ columns \in [Tables -> SUBSET Columns] /\ columns["idempotency"] = Columns
      /\ columns["resources"] = work.columns["resources"]
  BY <1>2 DEF Tables
<1>4. db = [tables |-> {"resources", "idempotency"}, columns |-> columns, key |-> Columns,
            resources |-> work.resources, ledger |-> work.copy, copy |-> {},
            version |-> work.version]
  <2>1. db = [work EXCEPT !.tables = {"resources", "idempotency"}, !.columns = columns,
                          !.key = Columns, !.ledger = work.copy, !.copy = {}]
    OBVIOUS
  <2> HIDE DEF columns, db
  <2>2. QED
    BY <1>2, <2>1 DEF Database
<1>5. work.resources \in SUBSET Resource /\ work.copy \in SUBSET Receipt
      /\ work.version \in {0, 1}
  BY <1>2 DEF Database
<1> HIDE DEF columns, db
<1>6. /\ db \in Database /\ db.columns = columns /\ db.resources = work.resources
      /\ db.ledger = work.copy /\ db.key = Columns /\ db.tables = {"resources", "idempotency"}
  BY <1>3, <1>4, <1>5 DEF Database, Tables
<1>7. Current(db)
  BY <1>1, <1>3, <1>6, WriterKnows DEF Current
<1>8. QED
  BY <1>1, <1>3, <1>6, <1>7, WriterKnows, StatementStep

(* COMMIT makes the copy the database.                                     *)
LEMMA CommitStep ==
  ASSUME Inductive, NEW p \in Processes, Commit(p)
  PROVE  Inductive' /\ Current(disk)' /\ disk'.tables = {"resources", "idempotency"}
<1>1. /\ at[p] = "commit" /\ writer = p
      /\ disk' = [work EXCEPT !.version = 1] /\ work' = disk' /\ writer' = None
      /\ at' = [at EXCEPT ![p] = "serving"]
      /\ UNCHANGED <<owed, failures>>
  BY DEF Commit, Goto
<1>2. at[p] \in Transaction
  BY <1>1 DEF Transaction
<1>3. /\ disk' \in Database /\ disk'.tables = {"resources", "idempotency"}
      /\ disk'.resources = disk.resources /\ disk'.ledger = disk.ledger
      /\ disk'.columns = work.columns /\ disk'.key = work.key
  BY <1>1, <1>2, WriterKnows DEF Database, Inductive, WorkFollows
<1>4. Current(disk)'
  BY <1>1, <1>2, <1>3 DEF Current, Inductive, WorkFollows
<1>5. /\ at' \in [Processes -> Steps] /\ at'[p] = "serving"
      /\ \A q \in Processes : q # p => at'[q] = at[q]
  BY <1>1 DEF Inductive, TypeOK, Steps
<1>6. \A q \in Processes : at'[q] \notin Transaction
  BY <1>1, <1>5 DEF Inductive, WriterHolds, Transaction
<1>7. TypeOK'
  BY <1>1, <1>3, <1>5 DEF Inductive, TypeOK
<1>8. WriterHolds' /\ WorkFollows'
  BY <1>1, <1>3, <1>6, NoneAssumption DEF WriterHolds, WorkFollows
<1>9. RowsSurvive' /\ ServesOnlyCurrent'
  BY <1>1, <1>3, <1>4 DEF Inductive, RowsSurvive, ServesOnlyCurrent
<1>10. QED
  BY <1>3, <1>4, <1>7, <1>8, <1>9 DEF Inductive

-----------------------------------------------------------------------------
(* The steps outside the transaction.                                      *)

(* A start.                                                                *)
LEMMA StartStep ==
  ASSUME Inductive, NEW p \in Processes, Start(p)
  PROVE  Inductive'
<1>1. /\ at[p] = "down" /\ at' = [at EXCEPT ![p] = "resources"]
      /\ UNCHANGED <<disk, work, writer, owed, failures>>
  BY DEF Start, Goto
<1>2. /\ at' \in [Processes -> Steps] /\ at'[p] = "resources"
      /\ \A q \in Processes : q # p => at'[q] = at[q]
  BY <1>1 DEF Inductive, TypeOK, Steps
<1>3. TypeOK'
  BY <1>1, <1>2 DEF Inductive, TypeOK
<1>4. WriterHolds'
  BY <1>1, <1>2 DEF Inductive, WriterHolds, Transaction
<1>5. WorkFollows'
  <2>1. \A q \in Processes : at'[q] \in Transaction => at'[q] = at[q]
    BY <1>2 DEF Transaction
  <2>2. Current(work)' <=> Current(work)
    BY <1>1 DEF Current
  <2>3. QED
    BY <1>1, <2>1, <2>2 DEF Inductive, WorkFollows
<1>6. RowsSurvive' /\ ServesOnlyCurrent'
  BY <1>1, <1>2, FileStays
<1>7. QED
  BY <1>3, <1>4, <1>5, <1>6 DEF Inductive

(* CREATE TABLE IF NOT EXISTS: it writes only while nobody else does.      *)
LEMMA CreateStep ==
  ASSUME Inductive, NEW p \in Processes, NEW table \in {"resources", "idempotency"},
         Create(p, table)
  PROVE  /\ Inductive'
         /\ \/ UNCHANGED disk
            \/ /\ disk.tables \subseteq disk'.tables
               /\ disk'.key = disk.key \/ "idempotency" \notin disk.tables
               /\ \A t \in disk.tables : disk'.columns[t] = disk.columns[t]
<1> DEFINE next == IF table = "resources" THEN "idempotency" ELSE "begin"
<1>1. /\ at[p] = table /\ at' = [at EXCEPT ![p] = next]
      /\ UNCHANGED <<work, writer, owed, failures>>
  BY DEF Create, Goto
<1>2. /\ at' \in [Processes -> Steps] /\ at'[p] = next
      /\ \A q \in Processes : q # p => at'[q] = at[q]
  BY <1>1 DEF Inductive, TypeOK, Steps
<1>3. at[p] \notin Transaction /\ next \notin Transaction /\ next # "serving"
      /\ next \notin {"down", "resources"}
  BY <1>1 DEF Transaction
<1>4. CASE table \in disk.tables /\ UNCHANGED disk
  <2>1. TypeOK'
    BY <1>1, <1>2, <1>4 DEF Inductive, TypeOK
  <2>2. WriterHolds'
    BY <1>1, <1>2, <1>3, <1>4 DEF Inductive, WriterHolds
  <2>3. WorkFollows'
    <3>1. \A q \in Processes : at'[q] \in Transaction => at'[q] = at[q]
      BY <1>2, <1>3
    <3>2. Current(work)' <=> Current(work)
      BY <1>1 DEF Current
    <3>3. QED
      BY <1>1, <1>4, <3>1, <3>2 DEF Inductive, WorkFollows
  <2>4. RowsSurvive' /\ ServesOnlyCurrent'
    BY <1>1, <1>2, <1>3, <1>4, FileStays
  <2>5. QED
    BY <1>4, <2>1, <2>2, <2>3, <2>4 DEF Inductive
<1>5. CASE /\ table \notin disk.tables /\ writer = None
           /\ disk' = [disk EXCEPT !.tables = @ \cup {table}, !.columns[table] = Columns,
                                   !.key = IF table = "idempotency" THEN Columns ELSE @]
  <2> DEFINE columns == [disk.columns EXCEPT ![table] = Columns]
             key == IF table = "idempotency" THEN Columns ELSE disk.key
  <2>1. disk \in Database /\ disk.columns \in [Tables -> SUBSET Columns] /\ table \in Tables
        /\ disk.tables \in SUBSET Tables /\ disk.key \in SUBSET Columns
        /\ disk.resources \in SUBSET Resource /\ disk.ledger \in SUBSET Receipt
        /\ disk.copy \in SUBSET Receipt /\ disk.version \in {0, 1}
    BY DEF Inductive, TypeOK, Database, Tables
  <2>2. /\ columns \in [Tables -> SUBSET Columns]
        /\ \A t \in Tables : t # table => columns[t] = disk.columns[t]
    BY <2>1
  <2>3. disk' = [tables |-> disk.tables \cup {table}, columns |-> columns, key |-> key,
                 resources |-> disk.resources, ledger |-> disk.ledger, copy |-> disk.copy,
                 version |-> disk.version]
    BY <1>5, <2>1 DEF Database
  <2>4. key \in SUBSET Columns
    BY <2>1
  <2>5. /\ disk' \in Database /\ disk'.tables = disk.tables \cup {table}
        /\ disk'.columns = columns /\ disk'.key = key
        /\ disk'.resources = disk.resources /\ disk'.ledger = disk.ledger
        /\ disk'.version = disk.version
    <3> HIDE DEF columns, key
    <3>1. QED
      BY <2>1, <2>2, <2>3, <2>4 DEF Database
  <2>6. TypeOK'
    BY <1>1, <1>2, <2>5 DEF Inductive, TypeOK
  <2>7. WriterHolds'
    BY <1>1, <1>2, <1>3, <1>5, <2>5, NoneAssumption DEF Inductive, WriterHolds
  <2>8. WorkFollows'
    BY <1>1, <1>5, <2>7, NoneAssumption DEF WriterHolds, WorkFollows
  <2>9. RowsSurvive'
    BY <1>1, <2>5 DEF Inductive, RowsSurvive
  <2>10. ServesOnlyCurrent'
    <3>1. ~Current(disk)
      BY <1>5 DEF Current
    <3>2. disk.version # 1 /\ \A q \in Processes : at[q] # "serving"
      BY <3>1 DEF Inductive, ServesOnlyCurrent
    <3>3. QED
      BY <1>2, <1>3, <2>5, <3>2 DEF ServesOnlyCurrent
  <2>11. QED
    BY <1>5, <2>1, <2>2, <2>5, <2>6, <2>7, <2>8, <2>9, <2>10 DEF Inductive
<1>6. QED
  BY <1>4, <1>5 DEF Create

(* A process goes down, and takes its transaction with it: nothing of it   *)
(* was committed.                                                          *)
LEMMA DownStep ==
  ASSUME Inductive, NEW p \in Processes, Goto(p, "down"), UNCHANGED <<disk, owed>>,
         failures' \in 0..MaxFailures,
         IF writer = p THEN writer' = None /\ work' = disk ELSE UNCHANGED <<writer, work>>
  PROVE  Inductive'
<1>1. /\ at' \in [Processes -> Steps] /\ at'[p] = "down"
      /\ \A q \in Processes : q # p => at'[q] = at[q]
  BY DEF Goto, Inductive, TypeOK, Steps
<1>2. TypeOK'
  BY <1>1 DEF Inductive, TypeOK
<1>3. RowsSurvive' /\ ServesOnlyCurrent'
  BY <1>1, FileStays
<1>4. WriterHolds'
  BY <1>1, NoneAssumption DEF Inductive, WriterHolds, Transaction
<1>5. WorkFollows'
  <2>1. CASE writer = p
    BY <2>1, <1>4, NoneAssumption DEF WriterHolds, WorkFollows
  <2>2. CASE writer # p
    <3>1. UNCHANGED <<disk, work>> /\ \A q \in Processes : at'[q] \in Transaction => at'[q] = at[q]
      BY <2>2, <1>1 DEF Transaction
    <3>2. Current(work)' <=> Current(work)
      BY <3>1 DEF Current
    <3>3. QED
      BY <3>1, <3>2 DEF Inductive, WorkFollows
  <2>3. QED
    BY <2>1, <2>2
<1>6. QED
  BY <1>2, <1>3, <1>4, <1>5 DEF Inductive

(* A statement fails: the transaction is rolled back.                      *)
LEMMA RaiseStep ==
  ASSUME Inductive, NEW p \in Processes, Raise(p)
  PROVE  Inductive'
<1>1. failures' \in 0..MaxFailures
  BY FailureAssumption DEF Raise, Inductive, TypeOK
<1>2. QED
  BY <1>1, DownStep DEF Raise

(* The process dies.                                                       *)
LEMMA CrashStep ==
  ASSUME Inductive, NEW p \in Processes, Crash(p)
  PROVE  Inductive'
<1>1. failures' \in 0..MaxFailures
  BY FailureAssumption DEF Crash, Inductive, TypeOK
<1>2. QED
  BY <1>1, DownStep DEF Crash

(* The store serves: the row and its receipt are owed from now on.         *)
LEMMA ServeStep ==
  ASSUME Inductive, NEW p \in Processes, Serve(p)
  PROVE  /\ Inductive'
         /\ disk'.tables = disk.tables /\ disk'.columns = disk.columns /\ disk'.key = disk.key
<1>1. PICK id \in Ids, key \in Keys, w \in Workspaces \cup {Unscoped} :
        LET resource == [id |-> id, owner |-> IF w = Unscoped THEN Null ELSE w]
            receipt  == [key |-> key, owner |-> w, id |-> id]
        IN  /\ disk' = [disk EXCEPT !.resources = @ \cup {resource}, !.ledger = @ \cup {receipt}]
            /\ owed' = [resources |-> owed.resources \cup {resource},
                        ledger |-> owed.ledger \cup {receipt}]
  BY DEF Serve
<1> DEFINE resource == [id |-> id, owner |-> IF w = Unscoped THEN Null ELSE w]
           receipt  == [key |-> key, owner |-> w, id |-> id]
<1>2. /\ at[p] = "serving" /\ writer = None
      /\ UNCHANGED <<work, writer, at, failures>>
      /\ disk' = [disk EXCEPT !.resources = @ \cup {resource}, !.ledger = @ \cup {receipt}]
      /\ owed' = [resources |-> owed.resources \cup {resource},
                  ledger |-> owed.ledger \cup {receipt}]
  BY <1>1 DEF Serve
<1>3. resource \in Resource /\ receipt \in Receipt
  BY DEF Resource, Receipt
<1> HIDE DEF resource, receipt
<1>4. /\ disk' \in Database
      /\ disk'.tables = disk.tables /\ disk'.columns = disk.columns /\ disk'.key = disk.key
      /\ disk'.version = disk.version
      /\ disk'.resources = disk.resources \cup {resource}
      /\ disk'.ledger = disk.ledger \cup {receipt}
  BY <1>2, <1>3 DEF Database, Inductive, TypeOK
<1>5. owed' \in [resources : SUBSET Resource, ledger : SUBSET Receipt]
  BY <1>2, <1>3 DEF Inductive, TypeOK
<1>6. TypeOK'
  BY <1>2, <1>4, <1>5 DEF Inductive, TypeOK
<1>7. WriterHolds'
  BY <1>2, <1>4 DEF Inductive, WriterHolds
<1>8. WorkFollows'
  BY <1>2, <1>7, NoneAssumption DEF WriterHolds, WorkFollows
<1>9. RowsSurvive'
  BY <1>2, <1>4 DEF Inductive, RowsSurvive
<1>10. ServesOnlyCurrent'
  <2>1. Current(disk)' <=> Current(disk)
    BY <1>4 DEF Current
  <2>2. QED
    BY <1>2, <1>4, <2>1 DEF Inductive, ServesOnlyCurrent
<1>11. QED
  BY <1>4, <1>6, <1>7, <1>8, <1>9, <1>10 DEF Inductive

-----------------------------------------------------------------------------
(* A file that is found at the first start.                                *)
LEMMA InitHolds == Init => Inductive
<1> SUFFICES ASSUME Init PROVE Inductive
  OBVIOUS
<1>1. /\ disk \in Database /\ disk.version = 0
      /\ "idempotency_workspace_new" \notin disk.tables
  <2>1. /\ disk.tables \in {{}, {"resources", "idempotency"}}
        /\ disk.columns \in OldColumns /\ disk.key \in {{}, Columns}
        /\ disk.resources \in {{}} \cup {{r} : r \in Resource}
        /\ disk.ledger \in {{}} \cup {{e} : e \in Receipt}
        /\ disk.copy = {} /\ disk.version = 0
        /\ disk = [tables |-> disk.tables, columns |-> disk.columns, key |-> disk.key,
                   resources |-> disk.resources, ledger |-> disk.ledger, copy |-> disk.copy,
                   version |-> disk.version]
    BY DEF Init, OldFiles
  <2>2. /\ disk.tables \in SUBSET Tables /\ disk.columns \in [Tables -> SUBSET Columns]
        /\ disk.key \in SUBSET Columns /\ disk.resources \in SUBSET Resource
        /\ disk.ledger \in SUBSET Receipt
    BY <2>1 DEF OldColumns, Tables
  <2>3. QED
    BY <2>1, <2>2 DEF Database
<1>2. TypeOK
  <2>1. at \in [Processes -> Steps]
    BY DEF Init, Steps
  <2>2. owed \in [resources : SUBSET Resource, ledger : SUBSET Receipt]
    BY <1>1 DEF Init, Database
  <2>3. QED
    BY <1>1, <2>1, <2>2, FailureAssumption DEF Init, TypeOK
<1>3. WriterHolds /\ WorkFollows
  BY <1>1, NoneAssumption DEF Init, WriterHolds, WorkFollows, Transaction
<1>4. RowsSurvive /\ ServesOnlyCurrent
  BY <1>1 DEF Init, RowsSurvive, ServesOnlyCurrent
<1>5. QED
  BY <1>2, <1>3, <1>4 DEF Inductive

(* Each step keeps the invariant, and commits one schema or the other.     *)
LEMMA NextHolds ==
  ASSUME Inductive, [Next]_vars
  PROVE  /\ Inductive'
         /\ \/ UNCHANGED disk
            \/ Current(disk)' /\ disk'.tables = {"resources", "idempotency"}
            \/ /\ disk.tables \subseteq disk'.tables
               /\ disk'.key = disk.key \/ "idempotency" \notin disk.tables
               /\ \A t \in disk.tables : disk'.columns[t] = disk.columns[t]
<1>1. CASE UNCHANGED vars
  <2>1. UNCHANGED <<disk, work, writer, at, owed, failures>>
    BY <1>1 DEF vars
  <2>2. Current(work)' <=> Current(work)
    BY <2>1 DEF Current
  <2>3. TypeOK' /\ WriterHolds' /\ WorkFollows'
    BY <2>1, <2>2 DEF Inductive, TypeOK, WriterHolds, WorkFollows
  <2>4. QED
    BY <2>1, <2>3, FileStays DEF Inductive
<1>2. ASSUME NEW p \in Processes, Start(p) \/ Raise(p) \/ Crash(p)
      PROVE  Inductive' /\ UNCHANGED disk
  BY <1>2, StartStep, RaiseStep, CrashStep DEF Start, Raise, Crash
<1>3. ASSUME NEW p \in Processes,
             Begin(p) \/ CreateNew(p) \/ KeepLedger(p) \/ Copy(p) \/ Drop(p) \/ Rename(p)
      PROVE  Inductive' /\ UNCHANGED disk
  BY <1>3, BeginStep, CreateNewStep, KeepLedgerStep, CopyStep, DropStep, RenameStep
  DEF Begin, CreateNew, KeepLedger, Copy, Drop, Rename, Executes
<1>4. ASSUME NEW p \in Processes, NEW column \in Columns, AddColumn(p, column)
      PROVE  Inductive' /\ UNCHANGED disk
  BY <1>4, AddColumnStep DEF AddColumn, Executes
<1>5. ASSUME NEW p \in Processes, Commit(p)
      PROVE  Inductive' /\ Current(disk)' /\ disk'.tables = {"resources", "idempotency"}
  BY <1>5, CommitStep
<1>6. ASSUME NEW p \in Processes, NEW table \in {"resources", "idempotency"}, Create(p, table)
      PROVE  /\ Inductive'
             /\ \/ UNCHANGED disk
                \/ /\ disk.tables \subseteq disk'.tables
                   /\ disk'.key = disk.key \/ "idempotency" \notin disk.tables
                   /\ \A t \in disk.tables : disk'.columns[t] = disk.columns[t]
  BY <1>6, CreateStep
<1>7. ASSUME NEW p \in Processes, Serve(p)
      PROVE  /\ Inductive'
             /\ disk'.tables = disk.tables /\ disk'.columns = disk.columns /\ disk'.key = disk.key
  BY <1>7, ServeStep
<1>8. QED
  BY <1>1, <1>2, <1>3, <1>4, <1>5, <1>6, <1>7 DEF Next, Open, Migrate

-----------------------------------------------------------------------------
(* The invariant of the migration holds in every reachable state.          *)
THEOREM InductiveInvariant == Spec => []Inductive
<1>1. Inductive /\ [Next]_vars => Inductive'
  BY NextHolds
<1>2. QED
  BY <1>1, InitHolds, PTL DEF Spec

(* No row or receipt is lost, doubled or given to another owner, whatever  *)
(* fails and whatever starts overlap.                                      *)
THEOREM RowsAlwaysSurvive == Spec => []RowsSurvive
<1>1. Inductive => RowsSurvive
  BY DEF Inductive
<1>2. QED
  BY <1>1, InductiveInvariant, PTL

(* No process serves an old schema.                                        *)
THEOREM ServedSchemaIsCurrent == Spec => []ServesOnlyCurrent
<1>1. Inductive => ServesOnlyCurrent
  BY DEF Inductive
<1>2. QED
  BY <1>1, InductiveInvariant, PTL

(* A commit changes the schema altogether or not at all.                   *)
THEOREM SchemaChangesAtOnce == Spec => MigratesAtOnce
<1> DEFINE AtOnce == /\ disk.tables \subseteq disk'.tables
                     /\ "idempotency_workspace_new" \notin disk'.tables
                     /\ \/ Current(disk')
                        \/ /\ disk'.key = disk.key \/ "idempotency" \notin disk.tables
                           /\ \A t \in disk.tables : disk'.columns[t] = disk.columns[t]
<1>1. Inductive /\ [Next]_vars => [AtOnce]_disk
  <2> SUFFICES ASSUME Inductive, [Next]_vars, disk' # disk PROVE AtOnce
    OBVIOUS
  <2>1. Inductive'
    BY NextHolds
  <2>2. disk.tables \subseteq {"resources", "idempotency"}
        /\ "idempotency_workspace_new" \notin disk'.tables
    BY <2>1 DEF Inductive, TypeOK, Database, Tables, WriterHolds
  <2>3. Current(disk)' <=> Current(disk')
    BY DEF Current
  <2>4. \/ Current(disk)' /\ disk'.tables = {"resources", "idempotency"}
        \/ /\ disk.tables \subseteq disk'.tables
           /\ disk'.key = disk.key \/ "idempotency" \notin disk.tables
           /\ \A t \in disk.tables : disk'.columns[t] = disk.columns[t]
    BY NextHolds
  <2>5. QED
    BY <2>2, <2>3, <2>4
<1>2. QED
  BY <1>1, InductiveInvariant, PTL DEF Spec, MigratesAtOnce
=============================================================================
