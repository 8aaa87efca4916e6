----------------------- MODULE WorkspaceScope_proofs -----------------------
(***************************************************************************)
(* What hangs together has one owner, and an owner never changes, for any  *)
(* Workspaces, keys, ids, threads and configurations.                      *)
(*                                                                         *)
(* Inductive says that a thread which will save a row has its principal    *)
(* (Held), so saving again keeps the owner. Every action adds rows with    *)
(* new ids (Grows) or keeps the rows but for their state (Keeps); a lemma  *)
(* for each kind of step shows what that preserves.                        *)
(***************************************************************************)
EXTENDS WorkspaceScope, TLAPS

(* Every row is there later, in its place and with its owner ...           *)
Kept == \A r \in rows : \E s \in rows' :
          s.kind = r.kind /\ s.id = r.id /\ s.owner = r.owner /\ s.parent = r.parent

(* ... and what is there later was there, or is x.                         *)
Came(x) == \A s \in rows' :
             \/ s = x
             \/ \E r \in rows : s.kind = r.kind /\ s.id = r.id /\ s.owner = r.owner /\ s.parent = r.parent

(* A new row with an id no row and no thread has, under a row of its owner.*)
Fits(x) ==
  /\ x \in Row
  /\ \A r \in rows : r.id # x.id
  /\ x.kind \in {"run", "evidence", "feedback_set"} => x.parent # None
  /\ x.parent # None => \E p \in rows : p.id = x.parent /\ p.owner = x.owner /\ p.kind \in Above(x)

Keeps == Kept /\ \A s \in rows' : \E r \in rows :
           s.kind = r.kind /\ s.id = r.id /\ s.owner = r.owner /\ s.parent = r.parent

-----------------------------------------------------------------------------
(* Kept rows and a new one that fits stay linked.                          *)
LEMMA LinkedStays ==
  ASSUME Linked, NEW x, Fits(x), Kept, Came(x)
  PROVE  Linked'
BY DEF Linked, Fits, Kept, Came, Above

(* So do kept rows alone.                                                  *)
LEMMA LinkedKeeps ==
  ASSUME Linked, Keeps
  PROVE  Linked'
BY DEF Linked, Keeps, Kept, Above

(* A receipt still names its row.                                          *)
LEMMA ReplayStays ==
  ASSUME ReplayIsOwn, Kept,
         \A e \in ledger' : \/ e \in ledger
                            \/ \E s \in rows' : s.kind = e.scope /\ s.id = e.id /\ s.owner = e.owner
  PROVE  ReplayIsOwn'
BY DEF ReplayIsOwn, Kept

(* A thread that does not move holds what it held.                         *)
LEMMA HeldStays ==
  ASSUME Held, Kept, UNCHANGED call
  PROVE  Held'
BY DEF Held, Kept

-----------------------------------------------------------------------------
(* INSERT of a row that fits.                                              *)
LEMMA InsertStep ==
  ASSUME Inductive, NEW kind \in Kinds, NEW who \in Owners, NEW key \in Keys \cup {NoKey},
         NEW id \in Fresh, NEW parent \in Ids \cup {None},
         Insert(kind, who, key, id, parent),
         kind \in {"run", "evidence", "feedback_set"} => parent # None,
         parent # None => \E p \in rows : /\ p.id = parent /\ p.owner = who
                                          /\ p.kind \in Above(New(kind, id, who, parent))
  PROVE  /\ rows' \subseteq Row /\ ledger' \subseteq Receipt /\ IdsIdentify' /\ Linked'
         /\ ReplayIsOwn' /\ Kept /\ New(kind, id, who, parent) \in rows'
<1> DEFINE x == New(kind, id, who, parent)
<1>1. /\ rows' = rows \cup {x} /\ ledger' = ledger \cup Remembered(kind, who, key, id)
      /\ id \in Ids /\ \A r \in rows : r.id # id
  BY DEF Insert, Fresh
<1>2. x \in Row /\ x.kind = kind /\ x.id = id /\ x.owner = who /\ x.parent = parent
  BY <1>1 DEF New, Row
<1>3. Remembered(kind, who, key, id) \subseteq Receipt
  BY <1>1 DEF Remembered, Receipt
<1>4. \A e \in Remembered(kind, who, key, id) : e.scope = kind /\ e.id = id /\ e.owner = who
  BY DEF Remembered
<1>5. Fits(x)
  BY <1>1, <1>2 DEF Fits
<1>6. Kept /\ Came(x)
  BY <1>1 DEF Kept, Came
<1>7. rows' \subseteq Row /\ ledger' \subseteq Receipt
  BY <1>1, <1>2, <1>3 DEF Inductive, TypeOK
<1>8. IdsIdentify'
  BY <1>1, <1>2 DEF Inductive, IdsIdentify
<1>9. Linked'
  BY <1>5, <1>6, LinkedStays DEF Inductive
<1>10. ReplayIsOwn'
  <2>1. \A e \in ledger' : \/ e \in ledger
                           \/ \E s \in rows' : s.kind = e.scope /\ s.id = e.id /\ s.owner = e.owner
    BY <1>1, <1>2, <1>4
  <2>2. QED
    BY <1>6, <2>1, ReplayStays DEF Inductive
<1>11. QED
  BY <1>1, <1>6, <1>7, <1>8, <1>9, <1>10

(* A caller is a Workspace or nobody.                                      *)
LEMMA CallersOwn ==
  ASSUME TypeOK
  PROVE  PublicCallers \subseteq Owners /\ PrivateCallers \subseteq Owners
BY DEF TypeOK, Deployment, PublicCallers, PrivateCallers, Owners

(* Who reads a suite or a run owns it.                                     *)
LEMMA SeenIsOwned ==
  ASSUME NEW id, NEW who
  PROVE  /\ SeesSuite(id, who) => \E r \in rows : r.id = id /\ r.owner = who /\ r.kind = "suite"
         /\ SeesRun(id, who) => \E r \in rows : r.id = id /\ r.owner = who /\ r.kind = "run"
BY DEF SeesSuite, SeesRun, Get, Own

-----------------------------------------------------------------------------
(* The creations that leave the thread where it is.                        *)
LEMMA CreateStep ==
  ASSUME Inductive, NEW c \in Calls,
         CreateProfile(c) \/ CreateSuite(c) \/ ImportInput(c) \/ CreateSet(c)
  PROVE  Inductive' /\ Kept
<1>1. UNCHANGED <<deployment, call, starts>>
  BY DEF CreateProfile, CreateSuite, ImportInput, CreateSet
<1>2. /\ rows' \subseteq Row /\ ledger' \subseteq Receipt /\ IdsIdentify' /\ Linked'
      /\ ReplayIsOwn' /\ Kept
  <2>1. CASE CreateProfile(c)
    <3>1. PICK key \in Keys \cup {NoKey}, id \in Fresh :
            Insert("judge_profile", Nobody, key, id, None)
      BY <2>1 DEF CreateProfile
    <3>2. QED
      BY <3>1, InsertStep DEF Kinds, Owners
  <2>2. CASE CreateSuite(c)
    <3>1. PICK who \in PublicCallers \cup PrivateCallers, key \in Keys \cup {NoKey}, id \in Fresh :
            \E profile \in Profiles(who) : Insert("suite", who, key, id, profile)
      BY <2>2 DEF CreateSuite
    <3>2. PICK profile \in Profiles(who) : Insert("suite", who, key, id, profile)
      BY <3>1
    <3>3. who \in Owners
      BY CallersOwn DEF Inductive
    <3>4. profile \in Ids \cup {None}
      BY DEF Inductive, TypeOK, Profiles, Own, Row
    <3>5. profile # None => \E p \in rows : p.id = profile /\ p.owner = who /\ p.kind = "judge_profile"
      BY DEF Profiles, Own
    <3>6. Above(New("suite", id, who, profile)) = {"judge_profile"}
      BY DEF Above, New
    <3>7. QED
      BY <3>2, <3>3, <3>4, <3>5, <3>6, InsertStep DEF Kinds
  <2>3. CASE ImportInput(c)
    <3>1. PICK who \in PublicCallers, key \in Keys, id \in Fresh : Insert("input", who, key, id, None)
      BY <2>3 DEF ImportInput
    <3>2. who \in Owners
      BY CallersOwn DEF Inductive
    <3>3. QED
      BY <3>1, <3>2, InsertStep DEF Kinds
  <2>4. CASE CreateSet(c)
    <3>1. PICK who \in PublicCallers, key \in Keys \cup {NoKey}, id \in Fresh, run \in Ids :
            SeesRun(run, who) /\ Insert("feedback_set", who, key, id, run)
      BY <2>4 DEF CreateSet
    <3>2. who \in Owners
      BY CallersOwn DEF Inductive
    <3>3. \E p \in rows : p.id = run /\ p.owner = who /\ p.kind = "run"
      BY <3>1, SeenIsOwned
    <3>4. Above(New("feedback_set", id, who, run)) = {"run"}
      BY DEF Above, New
    <3>5. run # None
      BY NoneAssumption
    <3>6. QED
      BY <3>1, <3>2, <3>3, <3>4, <3>5, InsertStep DEF Kinds
  <2>5. QED
    BY <2>1, <2>2, <2>3, <2>4
<1>3. Held'
  BY <1>1, <1>2, HeldStays DEF Inductive
<1>4. QED
  BY <1>1, <1>2, <1>3 DEF Inductive, TypeOK

(* create_run: the thread holds the run it has saved.                      *)
LEMMA CreateRunStep ==
  ASSUME Inductive, NEW c \in Calls, CreateRun(c)
  PROVE  Inductive' /\ Kept
<1>1. PICK who \in PublicCallers, key \in Keys \cup {NoKey}, id \in Fresh, suite \in Ids :
        /\ SeesSuite(suite, who)
        /\ Insert("run", who, key, id, suite)
        /\ call' = [call EXCEPT ![c] = [step |-> "evaluate", who |-> who, target |-> id]]
  BY DEF CreateRun
<1>2. UNCHANGED <<deployment, starts>>
  BY DEF CreateRun
<1>3. who \in Owners /\ id \in Ids /\ suite # None
  BY CallersOwn, NoneAssumption DEF Inductive, Fresh
<1>4. /\ rows' \subseteq Row /\ ledger' \subseteq Receipt /\ IdsIdentify' /\ Linked'
      /\ ReplayIsOwn' /\ Kept /\ New("run", id, who, suite) \in rows'
  <2>1. \E p \in rows : p.id = suite /\ p.owner = who /\ p.kind = "suite"
    BY <1>1, SeenIsOwned
  <2>2. Above(New("run", id, who, suite)) = {"suite"}
    BY DEF Above, New
  <2>3. QED
    BY <1>1, <1>3, <2>1, <2>2, InsertStep DEF Kinds
<1>5. call' \in [Calls -> CallRecord]
  BY <1>1, <1>3 DEF Inductive, TypeOK, CallRecord
<1>6. Held'
  <2> SUFFICES ASSUME NEW d \in Calls
               PROVE  /\ call'[d].step = "evaluate" =>
                           \E r \in rows' : r.id = call'[d].target /\ r.kind = "run" /\ r.owner = call'[d].who
                      /\ call'[d].step = "save" =>
                           \E r \in rows' : /\ r.id = call'[d].target /\ r.owner = call'[d].who
                                            /\ r.kind \in {"feedback_set", "input"}
    BY DEF Held
  <2>1. CASE d = c
    <3>1. /\ New("run", id, who, suite).id = id /\ New("run", id, who, suite).kind = "run"
          /\ New("run", id, who, suite).owner = who
      BY DEF New
    <3>2. call'[d].step = "evaluate" /\ call'[d].who = who /\ call'[d].target = id
      BY <1>1, <2>1 DEF Inductive, TypeOK
    <3>3. QED
      BY <1>4, <3>1, <3>2
  <2>2. CASE d # c
    <3>1. call'[d] = call[d]
      BY <1>1, <2>2 DEF Inductive, TypeOK
    <3>2. QED
      BY <1>4, <3>1 DEF Inductive, Held, Kept
  <2>3. QED
    BY <2>1, <2>2
<1>7. QED
  BY <1>2, <1>4, <1>5, <1>6 DEF Inductive, TypeOK

-----------------------------------------------------------------------------
(* A row that is replaced by one in its place with its owner is kept.      *)
LEMMA ReplaceKeeps ==
  ASSUME NEW r \in rows, NEW s, rows \subseteq Row,
         s.kind = r.kind, s.id = r.id, s.owner = r.owner, s.parent = r.parent,
         rows' = Replace(r, s)
  PROVE  Keeps
BY DEF Keeps, Kept, Replace

(* Ids identify after a replacement, beside rows with new ids.             *)
LEMMA ReplaceIdentifies ==
  ASSUME NEW r \in rows, NEW s \in Row, s.id = r.id, IdsIdentify, rows \subseteq Row,
         NEW X \in SUBSET Row, \A x \in X, q \in rows : q.id # x.id,
         \A x, y \in X : x = y,
         rows' = Replace(r, s) \cup X
  PROVE  IdsIdentify' /\ rows' \subseteq Row
<1>1. \A q \in rows \ {r} : q.id # s.id
  BY DEF IdsIdentify
<1>2. \A x \in X : x.id # s.id
  OBVIOUS
<1>3. ASSUME NEW a \in rows', NEW b \in rows', a.id = b.id
      PROVE  a = b
  BY <1>1, <1>2, <1>3 DEF IdsIdentify, Replace
<1>4. QED
  BY <1>3 DEF IdsIdentify, Replace

(* The thread that has saved is idle, the others hold what they held.      *)
LEMMA HeldSettles ==
  ASSUME Held, Kept, NEW c \in Calls, call \in [Calls -> CallRecord],
         call' = [call EXCEPT ![c] = Idle]
  PROVE  Held' /\ call' \in [Calls -> CallRecord]
<1>1. Idle \in CallRecord /\ Idle.step = "idle"
  BY DEF Idle, CallRecord, Owners
<1>2. \A d \in Calls : call'[d] = IF d = c THEN Idle ELSE call[d]
  OBVIOUS
<1>3. Held'
  BY <1>1, <1>2 DEF Held, Kept
<1>4. QED
  BY <1>1, <1>3

LEMMA FinishStep ==
  ASSUME Inductive, NEW c \in Calls, Finish(c)
  PROVE  Inductive' /\ Kept
<1>1. PICK r \in rows :
        LET finished == Saved([r EXCEPT !.running = FALSE], call[c].who)
        IN  /\ r.kind = "run" /\ r.id = call[c].target
            /\ \/ rows' = Replace(r, finished)
               \/ \E id \in Fresh : rows' = Replace(r, finished) \cup {Evidence(c, id)}
  BY DEF Finish
<1> DEFINE s == Saved([r EXCEPT !.running = FALSE], call[c].who)
<1>2. /\ call' = [call EXCEPT ![c] = Idle] /\ UNCHANGED <<ledger, deployment, starts>>
      /\ call[c].step = "evaluate" /\ call \in [Calls -> CallRecord] /\ rows \subseteq Row
  BY DEF Finish, Inductive, TypeOK
<1>3. r.owner = call[c].who
  BY <1>1, <1>2 DEF Inductive, Held, IdsIdentify
<1>4. s \in Row /\ s.kind = r.kind /\ s.id = r.id /\ s.owner = r.owner /\ s.parent = r.parent
  BY <1>2, <1>3 DEF Saved, Row
<1>5. CASE rows' = Replace(r, s)
  <2>1. Keeps
    BY <1>2, <1>4, <1>5, ReplaceKeeps
  <2>2. rows' \subseteq Row /\ IdsIdentify'
    <3> HIDE DEF s
    <3>1. \A a, b \in rows' : a.id = b.id => a = b
      BY <1>4, <1>5 DEF Replace, Inductive, IdsIdentify
    <3>2. rows' \subseteq Row
      BY <1>2, <1>4, <1>5 DEF Replace
    <3>3. QED
      BY <3>1, <3>2 DEF IdsIdentify
  <2>3. Linked' /\ ReplayIsOwn'
    BY <1>2, <2>1, LinkedKeeps, ReplayStays DEF Inductive, Keeps
  <2>4. Held' /\ call' \in [Calls -> CallRecord]
    BY <1>2, <2>1, HeldSettles DEF Inductive, Keeps
  <2>5. QED
    BY <1>2, <2>1, <2>2, <2>3, <2>4 DEF Inductive, TypeOK, Keeps
<1>6. ASSUME NEW id \in Fresh, rows' = Replace(r, s) \cup {Evidence(c, id)}
      PROVE  Inductive' /\ Kept
  <2> DEFINE x == Evidence(c, id)
  <2>1. id \in Ids /\ \A q \in rows : q.id # id
    BY DEF Fresh
  <2>2. /\ x \in Row /\ x.kind = "evidence" /\ x.id = id /\ x.owner = call[c].who
        /\ x.parent = call[c].target
    <3>1. call[c].who \in Owners /\ call[c].target \in Ids \cup {None}
      BY <1>2 DEF CallRecord
    <3>2. QED
      BY <2>1, <3>1 DEF Evidence, New, Row, Kinds
  <2>3. Above(x) = {"run"}
    BY <2>2 DEF Above
  <2>4. x.parent # None
    BY <1>1, <1>2, <2>2, NoneAssumption DEF Row
  <2>5. Fits(x)
    BY <1>1, <1>3, <2>1, <2>2, <2>3, <2>4 DEF Fits
  <2>6. Kept /\ Came(x)
    BY <1>4, <1>6 DEF Kept, Came, Replace
  <2>7. rows' \subseteq Row /\ IdsIdentify'
    <3>1. {x} \in SUBSET Row /\ (\A y \in {x}, q \in rows : q.id # y.id)
      BY <2>1, <2>2
    <3>2. QED
      BY <1>2, <1>4, <1>6, <3>1, ReplaceIdentifies DEF Inductive
  <2>8. Linked' /\ ReplayIsOwn'
    BY <1>2, <2>5, <2>6, LinkedStays, ReplayStays DEF Inductive
  <2>9. Held' /\ call' \in [Calls -> CallRecord]
    BY <1>2, <2>6, HeldSettles DEF Inductive
  <2>10. QED
    BY <1>2, <2>6, <2>7, <2>8, <2>9 DEF Inductive, TypeOK
<1>7. QED
  BY <1>1, <1>5, <1>6

(* A copy is saved under the principal it was read under.                  *)
LEMMA SaveStep ==
  ASSUME Inductive, NEW c \in Calls, Save(c)
  PROVE  Inductive' /\ Kept
<1>1. PICK r \in rows :
        /\ r.kind \in {"feedback_set", "input"} /\ r.id = call[c].target
        /\ rows' = Replace(r, Saved(r, call[c].who))
  BY DEF Save
<1> DEFINE s == Saved(r, call[c].who)
<1>2. /\ call' = [call EXCEPT ![c] = Idle] /\ UNCHANGED <<ledger, deployment, starts>>
      /\ call[c].step = "save" /\ call \in [Calls -> CallRecord] /\ rows \subseteq Row
  BY DEF Save, Inductive, TypeOK
<1>3. r.owner = call[c].who
  BY <1>1, <1>2 DEF Inductive, Held, IdsIdentify
<1>4. s \in Row /\ s.kind = r.kind /\ s.id = r.id /\ s.owner = r.owner /\ s.parent = r.parent
  BY <1>2, <1>3 DEF Saved, Row
<1>5. Keeps
  BY <1>1, <1>2, <1>4, ReplaceKeeps
<1>6. rows' \subseteq Row /\ IdsIdentify'
  BY <1>1, <1>2, <1>4 DEF Replace, Inductive, IdsIdentify
<1>7. Linked' /\ ReplayIsOwn'
  BY <1>2, <1>5, LinkedKeeps, ReplayStays DEF Inductive, Keeps
<1>8. Held' /\ call' \in [Calls -> CallRecord]
  BY <1>2, <1>5, HeldSettles DEF Inductive, Keeps
<1>9. QED
  BY <1>2, <1>5, <1>6, <1>7, <1>8 DEF Inductive, TypeOK, Keeps

(* A document that is read is the reader's.                                *)
LEMMA ReadStep ==
  ASSUME Inductive, NEW c \in Calls, Read(c)
  PROVE  Inductive' /\ Kept
<1>1. PICK who \in PublicCallers, r \in rows :
        /\ r.kind \in {"feedback_set", "input"} /\ Sees(r, who)
        /\ call' = [call EXCEPT ![c] = [step |-> "save", who |-> who, target |-> r.id]]
  BY DEF Read
<1>2. UNCHANGED <<rows, ledger, deployment, starts>>
  BY DEF Read
<1>3. who \in Owners /\ r.owner = who /\ r.id \in Ids
  BY <1>1, CallersOwn DEF Inductive, TypeOK, Sees, Row
<1>4. Kept
  BY <1>2 DEF Kept
<1>5. call' \in [Calls -> CallRecord]
  BY <1>1, <1>3 DEF Inductive, TypeOK, CallRecord
<1>6. \A d \in Calls : call'[d] = IF d = c THEN [step |-> "save", who |-> who, target |-> r.id]
                                           ELSE call[d]
  BY <1>1 DEF Inductive, TypeOK
<1>7. Held'
  BY <1>1, <1>2, <1>3, <1>6 DEF Inductive, Held
<1>8. QED
  BY <1>2, <1>4, <1>5, <1>7 DEF Inductive, TypeOK, IdsIdentify, Linked, ReplayIsOwn

(* A restart closes runs in their place.                                   *)
LEMMA RestartStep ==
  ASSUME Inductive, Restart
  PROVE  Inductive' /\ Kept
<1>1. /\ starts < MaxStarts /\ starts' = starts + 1 /\ deployment' \in Deployment
      /\ call' = [c \in Calls |-> Idle] /\ rows' = {Interrupted(r) : r \in rows}
      /\ UNCHANGED ledger
  BY DEF Restart
<1>2. \A r \in rows : /\ Interrupted(r) \in Row /\ Interrupted(r).kind = r.kind
                      /\ Interrupted(r).id = r.id /\ Interrupted(r).owner = r.owner
                      /\ Interrupted(r).parent = r.parent
  BY DEF Inductive, TypeOK, Interrupted, Row
<1>3. Keeps
  BY <1>1, <1>2 DEF Keeps, Kept
<1>4. rows' \subseteq Row /\ IdsIdentify'
  BY <1>1, <1>2 DEF Inductive, IdsIdentify
<1>5. Linked' /\ ReplayIsOwn'
  BY <1>1, <1>3, LinkedKeeps, ReplayStays DEF Inductive, Keeps
<1>6. /\ call' \in [Calls -> CallRecord]
      /\ \A c \in Calls : call'[c].step = "idle"
  BY <1>1 DEF Idle, CallRecord, Owners
<1>7. Held'
  BY <1>6 DEF Held
<1>8. starts' \in 0..MaxStarts
  BY <1>1, StartAssumption DEF Inductive, TypeOK
<1>9. QED
  BY <1>1, <1>3, <1>4, <1>5, <1>6, <1>7, <1>8 DEF Inductive, TypeOK, Keeps

-----------------------------------------------------------------------------
LEMMA NextInductive == Inductive /\ [Next]_vars => Inductive' /\ Kept
<1> SUFFICES ASSUME Inductive, [Next]_vars PROVE Inductive' /\ Kept
  OBVIOUS
<1>1. CASE UNCHANGED vars
  BY <1>1 DEF vars, Inductive, TypeOK, IdsIdentify, Linked, Held, ReplayIsOwn, Kept
<1>2. CASE Next
  BY <1>2, CreateStep, CreateRunStep, FinishStep, ReadStep, SaveStep, RestartStep DEF Next
<1>3. QED
  BY <1>1, <1>2

(* The invariant that relates rows, receipts and threads.                  *)
THEOREM InductiveInvariant == Spec => []Inductive
<1>1. Init => Inductive
  BY StartAssumption
     DEF Init, Inductive, TypeOK, IdsIdentify, Linked, Held, ReplayIsOwn, Idle, CallRecord, Owners
<1>2. QED
  BY <1>1, NextInductive, PTL DEF Spec

(* A row and the row above it have one owner.                              *)
THEOREM LineageIsOwned == Spec => []LineageHasOneOwner
<1>1. Inductive => LineageHasOneOwner
  BY DEF Inductive, Linked, LineageHasOneOwner
<1>2. QED
  BY <1>1, InductiveInvariant, PTL

(* A row is seen by its owner.                                             *)
THEOREM OwnersSee == Spec => []OwnRowsAreSeen
<1>1. ASSUME Inductive, NEW r \in rows
      PROVE  Sees(r, r.owner)
  <2>1. ASSUME NEW q \in rows, q.kind = "run"
        PROVE  SeesSuite(q.parent, q.owner)
    <3>1. Above(q) = {"suite"}
      BY <2>1 DEF Above
    <3>2. PICK p \in rows : p.id = q.parent /\ p.owner = q.owner /\ p.kind \in Above(q)
      BY <1>1, <2>1 DEF Inductive, Linked
    <3>3. QED
      BY <3>1, <3>2 DEF SeesSuite, Get, Own
  <2>2. CASE r.kind \in {"evidence", "feedback_set"}
    <3>1. Above(r) = {"run"}
      BY <2>2 DEF Above
    <3>2. PICK p \in rows : p.id = r.parent /\ p.owner = r.owner /\ p.kind \in Above(r)
      BY <1>1, <2>2 DEF Inductive, Linked
    <3>3. SeesSuite(p.parent, r.owner)
      BY <2>1, <3>1, <3>2
    <3>4. SeesRun(r.parent, r.owner)
      BY <3>1, <3>2, <3>3 DEF SeesRun, Get, Own
    <3>5. QED
      BY <2>2, <3>4 DEF Sees
  <2>3. CASE r.kind \notin {"evidence", "feedback_set"}
    BY <2>1, <2>3 DEF Sees
  <2>4. QED
    BY <2>2, <2>3
<1>2. Inductive => OwnRowsAreSeen
  BY <1>1 DEF OwnRowsAreSeen
<1>3. QED
  BY <1>2, InductiveInvariant, PTL

(* A receipt names a row of its own kind and owner.                        *)
THEOREM ReceiptsAreOwn == Spec => []ReplayIsOwn
<1>1. Inductive => ReplayIsOwn
  BY DEF Inductive
<1>2. QED
  BY <1>1, InductiveInvariant, PTL

(* No step moves a row to another owner.                                   *)
THEOREM OwnersAreFixed == Spec => OwnerIsFixed
<1>1. Inductive /\ [Next]_vars =>
        [\A r \in rows : \E s \in rows' :
           s.kind = r.kind /\ s.id = r.id /\ s.owner = r.owner /\ s.parent = r.parent]_rows
  BY NextInductive DEF Kept
<1>2. QED
  BY <1>1, InductiveInvariant, PTL DEF Spec, OwnerIsFixed
=============================================================================
