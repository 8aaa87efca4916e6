----------------------- MODULE ArtifactStaging_proofs -----------------------
(***************************************************************************)
(* Who publishes alone publishes exactly, for every set of threads and     *)
(* byte strings and any number of failed writes, faults and crashes.       *)
(*                                                                         *)
(* One lemma per action says that the action preserves Inductive. A step   *)
(* of a thread touches only the file of its own bytes, and MetIsMutual     *)
(* tells every other thread that depends on this file that it has met.     *)
(***************************************************************************)
EXTENDS ArtifactStaging, TLAPS

(* Only c moves: to step s, with answer a and reference r.                 *)
Moves(c, s, a, r) ==
  /\ call' \in [Calls -> CallRecord]
  /\ \A e \in Calls : e # c => call'[e] = call[e]
  /\ call'[c].data = call[c].data /\ call'[c].met = call[c].met
  /\ call'[c].step = s /\ call'[c].answer = a /\ call'[c].ref = r

Steps   == Staging \cup {"idle", "return"}
Answers == {"none", "published", "missing", "fault"}

-----------------------------------------------------------------------------
(* Settle changes one thread's step and answer.                            *)
LEMMA SettleMoves ==
  ASSUME NEW c \in Calls, NEW s \in Steps, NEW a \in Answers,
         call \in [Calls -> CallRecord], Settle(c, s, a)
  PROVE  Moves(c, s, a, call[c].ref)
<1>1. call' = [call EXCEPT ![c] = [call[c] EXCEPT !.step = s, !.answer = a]]
  BY DEF Settle
<1>2. [call[c] EXCEPT !.step = s, !.answer = a] \in CallRecord
  BY DEF CallRecord, Steps, Answers
<1>3. QED
  BY <1>1, <1>2 DEF CallRecord, Moves

(* Goto changes one thread's step.                                         *)
LEMMA GotoMoves ==
  ASSUME NEW c \in Calls, NEW s \in Steps, call \in [Calls -> CallRecord], Goto(c, s)
  PROVE  Moves(c, s, call[c].answer, call[c].ref)
<1>1. call' = [call EXCEPT ![c] = [call[c] EXCEPT !.step = s]]
  BY DEF Goto
<1>2. [call[c] EXCEPT !.step = s] \in CallRecord
  BY DEF CallRecord, Steps
<1>3. QED
  BY <1>1, <1>2 DEF CallRecord, Moves

(* A published thread has its reference.                                   *)
LEMMA PublishMoves ==
  ASSUME NEW c \in Calls, NEW r \in Content, call \in [Calls -> CallRecord],
         call' = [call EXCEPT ![c].step = "unlink", ![c].answer = "published", ![c].ref = r]
  PROVE  Moves(c, "unlink", "published", r)
<1>1. call' = [call EXCEPT ![c] =
                 [call[c] EXCEPT !.step = "unlink", !.answer = "published", !.ref = r]]
  OBVIOUS
<1>2. [call[c] EXCEPT !.step = "unlink", !.answer = "published", !.ref = r] \in CallRecord
  BY DEF CallRecord, Staging
<1>3. QED
  BY <1>1, <1>2 DEF CallRecord, Moves

(* A thread that moves inside its publication, or out of it, meets nobody. *)
LEMMA MeetsNobody ==
  ASSUME NEW c \in Calls, NEW s \in Staging \cup {"return"}, NEW a, NEW r,
         call[c].step \in Staging, MetIsMutual, Moves(c, s, a, r)
  PROVE  MetIsMutual'
BY DEF MetIsMutual, Publishing, Moves, Staging

(* A thread that is beside c on the same file has met.                     *)
LEMMA OthersMet ==
  ASSUME NEW c \in Calls, NEW e \in Calls, c # e, MetIsMutual,
         call[c].step \in Staging, call[e].step \in Staging,
         call[e].data = call[c].data
  PROVE  call[e].met
BY DEF MetIsMutual, Publishing

-----------------------------------------------------------------------------
(* Begin: the new thread and those it meets are met from now on.           *)
LEMMA BeginStep ==
  ASSUME Inductive, NEW c \in Calls, Begin(c)
  PROVE  Inductive'
<1> USE DEF At
<1>1. PICK d \in Data :
        LET others == {e \in Calls : Publishing(e, d)}
        IN  call' = [e \in Calls |->
                       IF e = c THEN [Idle EXCEPT !.step = "open", !.data = d,
                                                  !.met = others # {}]
                       ELSE IF e \in others THEN [call[e] EXCEPT !.met = TRUE]
                       ELSE call[e]]
  BY DEF Begin
<1> DEFINE others == {e \in Calls : Publishing(e, d)}
<1>2. UNCHANGED <<file, plane, left, crashes>> /\ call[c].step = "idle"
  BY DEF Begin
<1>3. call \in [Calls -> CallRecord]
  BY DEF Inductive, TypeOK
<1>4. /\ call'[c].step = "open" /\ call'[c].data = d /\ call'[c].answer = "none"
      /\ call'[c].ref = None /\ call'[c].met = (others # {})
      /\ call'[c] \in CallRecord
  BY <1>1 DEF Idle, CallRecord, Staging
<1>5. ASSUME NEW e \in Calls, e # c
      PROVE  /\ call'[e] \in CallRecord
             /\ call'[e].step = call[e].step /\ call'[e].data = call[e].data
             /\ call'[e].answer = call[e].answer /\ call'[e].ref = call[e].ref
             /\ call[e].met => call'[e].met
             /\ Publishing(e, d) => call'[e].met
             /\ ~Publishing(e, d) => call'[e] = call[e]
  <2>1. CASE Publishing(e, d)
    <3>1. call'[e] = [call[e] EXCEPT !.met = TRUE]
      BY <1>1, <1>5, <2>1
    <3>2. QED
      BY <1>3, <2>1, <3>1 DEF CallRecord
  <2>2. CASE ~Publishing(e, d)
    BY <1>1, <1>3, <1>5, <2>2
  <2>3. QED
    BY <2>1, <2>2
<1>6. TypeOK'
  <2>1. call' \in [Calls -> CallRecord]
    BY <1>1, <1>4, <1>5
  <2>2. QED
    BY <1>2, <2>1 DEF Inductive, TypeOK
<1>7. MetIsMutual'
  <2> SUFFICES ASSUME NEW x \in Calls, NEW y \in Calls, x # y,
                      call'[x].step \in Staging, Publishing(y, call[x].data)'
               PROVE  call'[x].met
    BY DEF MetIsMutual
  <2>1. CASE x = c
    <3>1. Publishing(y, d)
      BY <1>4, <1>5, <2>1 DEF Publishing
    <3>2. QED
      BY <1>4, <2>1, <3>1
  <2>2. CASE y = c
    <3>1. Publishing(x, d)
      BY <1>4, <1>5, <2>2 DEF Publishing
    <3>2. QED
      BY <1>5, <2>2, <3>1
  <2>3. CASE x # c /\ y # c
    BY <1>5, <2>3 DEF Inductive, MetIsMutual, Publishing
  <2>4. QED
    BY <2>1, <2>2, <2>3
<1>8. OwnFile'
  <2> SUFFICES ASSUME NEW e \in Calls
               PROVE  /\ At(e, "idle")' => call'[e] = Idle
                      /\ ~At(e, "idle")' => call'[e].data \in Data
                      /\ call'[e].step \in {"open", "write", "publish"} => call'[e].answer = "none"
                      /\ ~call'[e].met =>
                           /\ At(e, "write")' => e \in file'[call'[e].data].writers
                           /\ At(e, "publish")' => file'[call'[e].data].state = "whole"
                           /\ call'[e].step \in {"unlink", "return"} => Exact(e)'
    BY DEF OwnFile, Idle
  <2>1. CASE e = c
    BY <1>4, <2>1
  <2>2. CASE e # c
    <3>1. call'[e].step = "idle" => call'[e] = Idle
      BY <1>5, <2>2 DEF Inductive, OwnFile, Publishing, Staging
    <3>2. QED
      BY <1>2, <1>5, <2>2, <3>1 DEF Inductive, OwnFile, Exact
  <2>3. QED
    BY <2>1, <2>2
<1>9. FileHasOwner'
  <2>1. \A e \in Calls, x \in Data : Owns(e, x) => Owns(e, x)'
    BY <1>2, <1>5 DEF Owns
  <2>2. QED
    BY <1>2, <2>1 DEF Inductive, FileHasOwner
<1>10. ReferenceResolves'
  BY <1>2, <1>4, <1>5 DEF Inductive, ReferenceResolves
<1>11. QED
  BY <1>6, <1>7, <1>8, <1>9, <1>10 DEF Inductive

-----------------------------------------------------------------------------
(* Open: only threads that have met depend on the file that is truncated.  *)
LEMMA OpenStep ==
  ASSUME Inductive, NEW c \in Calls, Open(c)
  PROVE  Inductive'
<1> USE DEF At
<1> DEFINE d == call[c].data
<1>1. /\ call \in [Calls -> CallRecord] /\ file \in [Data -> File]
      /\ call[c].step = "open" /\ d \in Data /\ call[c].answer = "none"
      /\ UNCHANGED <<plane, left, crashes>>
  BY DEF Inductive, TypeOK, Open, OwnFile
<1>2. CASE /\ file' = [file EXCEPT ![d] = [state |-> "partial", writers |-> @.writers \cup {c}]]
           /\ Goto(c, "write")
  <2>1. Moves(c, "write", "none", call[c].ref)
    BY <1>1, <1>2, GotoMoves DEF Steps, Staging
  <2>2. /\ file'[d].state = "partial" /\ file'[d].writers = file[d].writers \cup {c}
        /\ \A x \in Data : x # d => file'[x] = file[x]
        /\ file' \in [Data -> File]
    BY <1>1, <1>2 DEF File
  <2>3. TypeOK'
    BY <1>1, <2>1, <2>2 DEF Inductive, TypeOK, Moves
  <2>4. MetIsMutual'
    BY <1>1, <2>1, MeetsNobody DEF Inductive, Staging
  <2>5. OwnFile'
    <3> SUFFICES ASSUME NEW e \in Calls
                 PROVE  /\ At(e, "idle")' => call'[e] = Idle
                        /\ ~At(e, "idle")' => call'[e].data \in Data
                        /\ call'[e].step \in {"open", "write", "publish"} => call'[e].answer = "none"
                        /\ ~call'[e].met =>
                             /\ At(e, "write")' => e \in file'[call'[e].data].writers
                             /\ At(e, "publish")' => file'[call'[e].data].state = "whole"
                             /\ call'[e].step \in {"unlink", "return"} => Exact(e)'
      BY DEF OwnFile, Idle
    <3>1. CASE e = c
      BY <1>1, <2>1, <2>2, <3>1 DEF Moves
    <3>2. CASE e # c /\ call[e].step \in Staging /\ call[e].data = d
      BY <1>1, <2>1, <2>2, <3>2, OthersMet DEF Inductive, OwnFile, Moves, Staging
    <3>3. CASE e # c /\ ~(call[e].step \in Staging /\ call[e].data = d)
      BY <1>1, <2>1, <2>2, <3>3 DEF Inductive, OwnFile, Moves, Staging, Exact
    <3>4. QED
      BY <3>1, <3>2, <3>3
  <2>6. FileHasOwner'
    <3>1. \A e \in Calls, x \in Data : Owns(e, x) => Owns(e, x)'
      BY <1>1, <2>1, <2>2 DEF Owns, Moves
    <3>2. \A x \in Data : x = d => Owns(c, x)'
      BY <1>1, <2>1, <2>2 DEF Owns, Moves
    <3>3. ASSUME NEW x \in Data, file'[x].state # "absent"
          PROVE  x \in left' \/ \E e \in Calls : Owns(e, x)'
      <4>1. CASE x = d
        BY <3>2, <4>1
      <4>2. CASE x # d
        BY <1>1, <2>2, <3>1, <3>3, <4>2 DEF Inductive, FileHasOwner
      <4>3. QED
        BY <4>1, <4>2
    <3>4. QED
      BY <3>3 DEF FileHasOwner
  <2>7. ReferenceResolves'
    BY <1>1, <2>1 DEF Inductive, ReferenceResolves, Moves
  <2>8. QED
    BY <2>3, <2>4, <2>5, <2>6, <2>7 DEF Inductive
<1>3. CASE Settle(c, "return", "fault") /\ UNCHANGED file
  <2>1. Moves(c, "return", "fault", call[c].ref)
    BY <1>1, <1>3, SettleMoves DEF Steps, Answers
  <2>2. TypeOK'
    BY <1>1, <1>3, <2>1 DEF Inductive, TypeOK, Moves
  <2>3. MetIsMutual'
    BY <1>1, <2>1, MeetsNobody DEF Inductive, Staging
  <2>4. OwnFile'
    BY <1>1, <1>3, <2>1 DEF Inductive, OwnFile, Moves, Exact
  <2>5. FileHasOwner'
    <3>1. \A e \in Calls, x \in Data : Owns(e, x) => Owns(e, x)'
      BY <1>1, <1>3, <2>1 DEF Owns, Moves
    <3>2. QED
      BY <1>1, <1>3, <3>1 DEF Inductive, FileHasOwner
  <2>6. ReferenceResolves'
    BY <1>1, <2>1 DEF Inductive, ReferenceResolves, Moves
  <2>7. QED
    BY <2>2, <2>3, <2>4, <2>5, <2>6 DEF Inductive
<1>4. QED
  BY <1>2, <1>3 DEF Open

-----------------------------------------------------------------------------
(* Write: the bytes reach the file that has the name, or a file without.   *)
LEMMA WriteStep ==
  ASSUME Inductive, NEW c \in Calls, Write(c)
  PROVE  Inductive'
<1> USE DEF At
<1> DEFINE d == call[c].data
           named == c \in file[d].writers
<1>1. /\ call \in [Calls -> CallRecord] /\ file \in [Data -> File] /\ left \subseteq Data
      /\ call[c].step = "write" /\ d \in Data /\ call[c].answer = "none"
      /\ UNCHANGED <<plane, crashes>>
  BY DEF Inductive, TypeOK, Write, OwnFile
<1>2. CASE /\ file' = [file EXCEPT ![d] = [state |-> IF named THEN "whole" ELSE @.state,
                                          writers |-> @.writers \ {c}]]
           /\ Goto(c, "publish")
           /\ UNCHANGED left
  <2>1. Moves(c, "publish", "none", call[c].ref)
    BY <1>1, <1>2, GotoMoves DEF Steps, Staging
  <2>2. /\ named => file'[d].state = "whole"
        /\ file'[d].writers = file[d].writers \ {c}
        /\ \A x \in Data : x # d => file'[x] = file[x]
        /\ file' \in [Data -> File]
    BY <1>1, <1>2 DEF File
  <2>3. TypeOK'
    BY <1>1, <1>2, <2>1, <2>2 DEF Inductive, TypeOK, Moves
  <2>4. MetIsMutual'
    BY <1>1, <2>1, MeetsNobody DEF Inductive, Staging
  <2>5. OwnFile'
    <3> SUFFICES ASSUME NEW e \in Calls
                 PROVE  /\ At(e, "idle")' => call'[e] = Idle
                        /\ ~At(e, "idle")' => call'[e].data \in Data
                        /\ call'[e].step \in {"open", "write", "publish"} => call'[e].answer = "none"
                        /\ ~call'[e].met =>
                             /\ At(e, "write")' => e \in file'[call'[e].data].writers
                             /\ At(e, "publish")' => file'[call'[e].data].state = "whole"
                             /\ call'[e].step \in {"unlink", "return"} => Exact(e)'
      BY DEF OwnFile, Idle
    <3>1. CASE e = c
      BY <1>1, <2>1, <2>2, <3>1 DEF Inductive, OwnFile, Moves
    <3>2. CASE e # c /\ call[e].step \in Staging /\ call[e].data = d
      BY <1>1, <2>1, <2>2, <3>2, OthersMet DEF Inductive, OwnFile, Moves, Staging
    <3>3. CASE e # c /\ ~(call[e].step \in Staging /\ call[e].data = d)
      BY <1>1, <2>1, <2>2, <3>3 DEF Inductive, OwnFile, Moves, Staging, Exact
    <3>4. QED
      BY <3>1, <3>2, <3>3
  <2>6. FileHasOwner'
    <3>1. \A e \in Calls, x \in Data : Owns(e, x) => Owns(e, x)'
      BY <1>1, <2>1, <2>2 DEF Owns, Moves
    <3>2. \A x \in Data : x = d => Owns(c, x)'
      BY <1>1, <2>1 DEF Owns, Moves
    <3>3. \A x \in Data : x # d => file'[x] = file[x]
      BY <2>2
    <3>4. QED
      BY <1>2, <3>1, <3>2, <3>3 DEF Inductive, FileHasOwner
  <2>7. ReferenceResolves'
    BY <1>1, <2>1 DEF Inductive, ReferenceResolves, Moves
  <2>8. QED
    BY <2>3, <2>4, <2>5, <2>6, <2>7 DEF Inductive
<1>3. CASE /\ file' = [file EXCEPT ![d].writers = @ \ {c}]
           /\ left' = IF named THEN left \cup {d} ELSE left
           /\ Settle(c, "return", "fault")
  <2>1. Moves(c, "return", "fault", call[c].ref)
    BY <1>1, <1>3, SettleMoves DEF Steps, Answers
  <2>2. /\ \A x \in Data : /\ file'[x].state = file[x].state
                          /\ \A e \in Calls : e # c => (e \in file'[x].writers <=> e \in file[x].writers)
        /\ file' \in [Data -> File]
    <3>1. file' = [file EXCEPT ![d] = [file[d] EXCEPT !.writers = file[d].writers \ {c}]]
      BY <1>3
    <3>2. [file[d] EXCEPT !.writers = file[d].writers \ {c}] \in File
      BY <1>1 DEF File
    <3>3. QED
      BY <1>1, <3>1, <3>2 DEF File
  <2>3. TypeOK'
    BY <1>1, <1>3, <2>1, <2>2 DEF Inductive, TypeOK, Moves
  <2>4. MetIsMutual'
    BY <1>1, <2>1, MeetsNobody DEF Inductive, Staging
  <2>5. OwnFile'
    BY <1>1, <2>1, <2>2 DEF Inductive, OwnFile, Moves, Exact
  <2>6. FileHasOwner'
    <3>1. \A e \in Calls, x \in Data : e # c /\ Owns(e, x) => Owns(e, x)'
      BY <1>1, <2>1, <2>2 DEF Owns, Moves
    <3>2. \A x \in Data : Owns(c, x) => x \in left'
      BY <1>1, <1>3 DEF Owns
    <3>3. QED
      BY <1>3, <2>2, <3>1, <3>2 DEF Inductive, FileHasOwner
  <2>7. ReferenceResolves'
    BY <1>1, <2>1 DEF Inductive, ReferenceResolves, Moves
  <2>8. QED
    BY <2>3, <2>4, <2>5, <2>6, <2>7 DEF Inductive
<1>4. QED
  BY <1>2, <1>3 DEF Write

-----------------------------------------------------------------------------
(* Publish reads the file: whole, when the thread has met nobody.          *)
LEMMA PublishStep ==
  ASSUME Inductive, NEW c \in Calls, Publish(c)
  PROVE  Inductive'
<1> USE DEF At
<1> DEFINE d == call[c].data
           read == [of |-> d, whole |-> file[d].state = "whole"]
<1>1. /\ call \in [Calls -> CallRecord] /\ plane \subseteq Content /\ d \in Data
      /\ call[c].step = "publish" /\ call[c].answer = "none"
      /\ UNCHANGED <<file, left, crashes>>
  BY DEF Inductive, TypeOK, Publish, OwnFile
<1>2. PICK a \in Answers, r \in Content \cup {None} :
        /\ Moves(c, "unlink", a, r)
        /\ plane' \subseteq Content /\ plane \subseteq plane'
        /\ a = "published" => r \in plane'
        /\ ~call[c].met => a = "fault" \/ (a = "published" /\ r = Whole(d))
  <2>1. read \in Content
    BY <1>1 DEF Content
  <2>2. call[c].ref \in Content \cup {None}
    BY <1>1 DEF CallRecord
  <2>3. ~call[c].met => file[d].state = "whole"
    BY <1>1 DEF Inductive, OwnFile
  <2>4. CASE /\ file[d].state = "absent"
             /\ Settle(c, "unlink", "missing")
             /\ UNCHANGED plane
    <3>1. Moves(c, "unlink", "missing", call[c].ref)
      BY <1>1, <2>4, SettleMoves DEF Steps, Staging, Answers
    <3>2. QED
      BY <1>1, <2>2, <2>3, <2>4, <3>1 DEF Answers
  <2>5. CASE /\ file[d].state # "absent"
             /\ plane' = plane \cup {read}
             /\ call' = [call EXCEPT ![c].step = "unlink", ![c].answer = "published", ![c].ref = read]
    <3>1. Moves(c, "unlink", "published", read)
      BY <1>1, <2>1, <2>5, PublishMoves
    <3>2. ~call[c].met => read = Whole(d)
      BY <2>3 DEF Whole
    <3>3. QED
      BY <1>1, <2>1, <2>5, <3>1, <3>2 DEF Answers
  <2>6. CASE Settle(c, "unlink", "fault") /\ UNCHANGED plane
    <3>1. Moves(c, "unlink", "fault", call[c].ref)
      BY <1>1, <2>6, SettleMoves DEF Steps, Staging, Answers
    <3>2. QED
      BY <1>1, <2>2, <2>6, <3>1 DEF Answers
  <2>7. QED
    BY <2>4, <2>5, <2>6 DEF Publish
<1>3. TypeOK'
  BY <1>1, <1>2 DEF Inductive, TypeOK, Moves
<1>4. MetIsMutual'
  BY <1>1, <1>2, MeetsNobody DEF Inductive, Staging
<1>5. OwnFile'
  BY <1>1, <1>2 DEF Inductive, OwnFile, Moves, Exact
<1>6. FileHasOwner'
  <2>1. \A e \in Calls, x \in Data : Owns(e, x) => Owns(e, x)'
    BY <1>1, <1>2 DEF Owns, Moves
  <2>2. QED
    BY <1>1, <2>1 DEF Inductive, FileHasOwner
<1>7. ReferenceResolves'
  BY <1>1, <1>2 DEF Inductive, ReferenceResolves, Moves
<1>8. QED
  BY <1>3, <1>4, <1>5, <1>6, <1>7 DEF Inductive

-----------------------------------------------------------------------------
(* Unlink: only threads that have met depend on the name that goes.        *)
LEMMA UnlinkStep ==
  ASSUME Inductive, NEW c \in Calls, Unlink(c)
  PROVE  Inductive'
<1> USE DEF At
<1> DEFINE d == call[c].data
<1>1. /\ call \in [Calls -> CallRecord] /\ file \in [Data -> File] /\ left \subseteq Data
      /\ call[c].step = "unlink" /\ d \in Data
      /\ file' = [file EXCEPT ![d] = Absent] /\ left' = left \ {d}
      /\ Goto(c, "return") /\ UNCHANGED <<plane, crashes>>
  BY DEF Inductive, TypeOK, Unlink, OwnFile
<1>2. Moves(c, "return", call[c].answer, call[c].ref)
  BY <1>1, GotoMoves DEF Steps
<1>3. /\ \A x \in Data : x # d => file'[x] = file[x]
      /\ file'[d].state = "absent"
      /\ file' \in [Data -> File]
  BY <1>1 DEF File, Absent
<1>4. TypeOK'
  BY <1>1, <1>2, <1>3 DEF Inductive, TypeOK, Moves
<1>5. MetIsMutual'
  BY <1>1, <1>2, MeetsNobody DEF Inductive, Staging
<1>6. OwnFile'
  <2> SUFFICES ASSUME NEW e \in Calls
               PROVE  /\ At(e, "idle")' => call'[e] = Idle
                      /\ ~At(e, "idle")' => call'[e].data \in Data
                      /\ call'[e].step \in {"open", "write", "publish"} => call'[e].answer = "none"
                      /\ ~call'[e].met =>
                           /\ At(e, "write")' => e \in file'[call'[e].data].writers
                           /\ At(e, "publish")' => file'[call'[e].data].state = "whole"
                           /\ call'[e].step \in {"unlink", "return"} => Exact(e)'
    BY DEF OwnFile, Idle
  <2>1. CASE e = c
    BY <1>1, <1>2, <2>1 DEF Inductive, OwnFile, Moves, Exact
  <2>2. CASE e # c /\ call[e].step \in Staging /\ call[e].data = d
    BY <1>1, <1>2, <2>2, OthersMet DEF Inductive, OwnFile, Moves, Staging, Exact
  <2>3. CASE e # c /\ ~(call[e].step \in Staging /\ call[e].data = d)
    BY <1>1, <1>2, <1>3, <2>3 DEF Inductive, OwnFile, Moves, Staging, Exact
  <2>4. QED
    BY <2>1, <2>2, <2>3
<1>7. FileHasOwner'
  <2>1. \A e \in Calls, x \in Data : x # d /\ Owns(e, x) => Owns(e, x)'
    BY <1>1, <1>2, <1>3 DEF Owns, Moves
  <2>2. QED
    BY <1>1, <1>3, <2>1 DEF Inductive, FileHasOwner
<1>8. ReferenceResolves'
  BY <1>1, <1>2 DEF Inductive, ReferenceResolves, Moves
<1>9. QED
  BY <1>4, <1>5, <1>6, <1>7, <1>8 DEF Inductive

-----------------------------------------------------------------------------
(* Return: the thread is free again and owns nothing.                      *)
LEMMA ReturnStep ==
  ASSUME Inductive, NEW c \in Calls, Return(c)
  PROVE  Inductive'
<1> USE DEF At
<1>1. /\ call \in [Calls -> CallRecord] /\ call[c].step = "return"
      /\ call' = [call EXCEPT ![c] = Idle]
      /\ UNCHANGED <<file, plane, left, crashes>>
  BY DEF Inductive, TypeOK, Return
<1>2. /\ call' \in [Calls -> CallRecord] /\ call'[c] = Idle
      /\ \A e \in Calls : e # c => call'[e] = call[e]
  BY <1>1 DEF CallRecord, Idle
<1>3. Idle.step = "idle" /\ Idle.answer = "none" /\ Idle.met = FALSE
  BY DEF Idle
<1>4. TypeOK'
  BY <1>1, <1>2 DEF Inductive, TypeOK
<1>5. MetIsMutual'
  BY <1>2, <1>3 DEF Inductive, MetIsMutual, Publishing, Staging
<1>6. OwnFile'
  BY <1>1, <1>2, <1>3 DEF Inductive, OwnFile, Exact
<1>7. FileHasOwner'
  <2>1. \A e \in Calls, x \in Data : Owns(e, x) => Owns(e, x)'
    BY <1>1, <1>2 DEF Owns
  <2>2. QED
    BY <1>1, <2>1 DEF Inductive, FileHasOwner
<1>8. ReferenceResolves'
  BY <1>1, <1>2, <1>3 DEF Inductive, ReferenceResolves
<1>9. QED
  BY <1>4, <1>5, <1>6, <1>7, <1>8 DEF Inductive

(* Crash: what is there is left, and nobody publishes.                     *)
LEMMA CrashStep ==
  ASSUME Inductive, Crash
  PROVE  Inductive'
<1> USE DEF At
<1>1. /\ crashes < MaxCrashes /\ crashes' = crashes + 1 /\ UNCHANGED plane
      /\ call' = [c \in Calls |-> Idle]
      /\ file' = [d \in Data |-> [file[d] EXCEPT !.writers = {}]]
      /\ left' = {d \in Data : file[d].state # "absent"}
  BY DEF Crash
<1>2. /\ \A c \in Calls : call'[c] = Idle
      /\ call' \in [Calls -> CallRecord]
  BY <1>1 DEF CallRecord, Idle
<1>3. Idle.step = "idle" /\ Idle.answer = "none" /\ Idle.met = FALSE
  BY DEF Idle
<1>4. /\ \A d \in Data : file'[d].state = file[d].state
      /\ file' \in [Data -> File]
  <2>1. ASSUME NEW d \in Data
        PROVE  /\ [file[d] EXCEPT !.writers = {}] \in File
               /\ [file[d] EXCEPT !.writers = {}].state = file[d].state
    BY DEF Inductive, TypeOK, File
  <2>2. QED
    BY <1>1, <2>1
<1>5. TypeOK'
  <2>1. crashes' \in 0..MaxCrashes
    BY <1>1, CrashAssumption DEF Inductive, TypeOK
  <2>2. QED
    BY <1>1, <1>2, <1>4, <2>1 DEF Inductive, TypeOK
<1>6. MetIsMutual'
  BY <1>2, <1>3 DEF MetIsMutual, Staging
<1>7. OwnFile'
  BY <1>2, <1>3 DEF OwnFile
<1>8. FileHasOwner'
  BY <1>1, <1>4 DEF FileHasOwner
<1>9. ReferenceResolves'
  BY <1>2, <1>3 DEF ReferenceResolves
<1>10. QED
  BY <1>5, <1>6, <1>7, <1>8, <1>9 DEF Inductive

-----------------------------------------------------------------------------
(* Nobody publishes and nothing lies there at first.                       *)
LEMMA InitInductive == Init => Inductive
<1> SUFFICES ASSUME Init PROVE Inductive
  OBVIOUS
<1>1. Idle \in CallRecord /\ Idle.step = "idle" /\ Idle.answer = "none" /\ Idle.met = FALSE
  BY DEF Idle, CallRecord
<1>2. TypeOK
  BY <1>1, CrashAssumption DEF Init, TypeOK, File, Absent
<1>3. MetIsMutual /\ OwnFile /\ ReferenceResolves
  BY <1>1 DEF Init, MetIsMutual, OwnFile, ReferenceResolves, Staging, At
<1>4. FileHasOwner
  BY DEF Init, FileHasOwner, Absent
<1>5. QED
  BY <1>2, <1>3, <1>4 DEF Inductive

(* The invariant of the staging directory: who publishes alone has a file  *)
(* of its own, and every file there has an owner or was left.              *)
THEOREM InductiveInvariant == Spec => []Inductive
<1>1. Inductive /\ [Next]_vars => Inductive'
  <2> SUFFICES ASSUME Inductive, [Next]_vars PROVE Inductive'
    OBVIOUS
  <2>1. CASE UNCHANGED vars
    BY <2>1 DEF vars, Inductive, TypeOK, MetIsMutual, Publishing, OwnFile, At, Exact,
                FileHasOwner, Owns, ReferenceResolves
  <2>2. CASE Next
    BY <2>2, BeginStep, OpenStep, WriteStep, PublishStep, UnlinkStep, ReturnStep, CrashStep
       DEF Next
  <2>3. QED
    BY <2>1, <2>2
<1>2. QED
  BY InitInductive, <1>1, PTL DEF Spec

(* publish_bytes without company of the same bytes answers with exactly    *)
(* these bytes, or with a fault.                                           *)
THEOREM AloneIsAlwaysExact == Spec => []AloneIsExact
<1>1. Inductive => AloneIsExact
  BY DEF Inductive, OwnFile, AloneIsExact, At
<1>2. QED
  BY <1>1, InductiveInvariant, PTL

(* A reference that is answered can be resolved.                           *)
THEOREM ReferencesResolve == Spec => []ReferenceResolves
<1>1. Inductive => ReferenceResolves
  BY DEF Inductive
<1>2. QED
  BY <1>1, InductiveInvariant, PTL

(* The staging directory holds nothing that nobody accounts for.           *)
THEOREM StagingStaysClean == Spec => []StagingIsClean
<1>1. Inductive => StagingIsClean
  BY DEF Inductive, FileHasOwner, Owns, StagingIsClean, Publishing, Staging, At
<1>2. QED
  BY <1>1, InductiveInvariant, PTL
=============================================================================
