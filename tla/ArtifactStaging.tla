-------------------------- MODULE ArtifactStaging --------------------------
(***************************************************************************)
(* EchoArtifactPlane.publish_bytes: write the bytes to a staging file, let *)
(* the provider publish that file, unlink it. The file is named after the  *)
(* digest of the bytes, so two publications of the same bytes share it,    *)
(* and nothing keeps them apart: two imports of one file, two exports of   *)
(* one feedback set, two runs whose reports are equal.                     *)
(*                                                                         *)
(* The files an engine writes its report or its input to have names of     *)
(* their own (a run id, a uuid4) and no second user; publish(path) reads   *)
(* one of them before it begins. The provider (cy_artifacts) is external:  *)
(* it stores what it reads from the path under the digest of what it read, *)
(* or raises. A name that is unlinked while a thread still writes leaves   *)
(* that thread with a file that has no name any more.                      *)
(***************************************************************************)
EXTENDS Naturals

CONSTANTS Calls,       \* the threads that publish
          Data,        \* byte strings, one digest each
          None,
          MaxCrashes   \* bounds the crashes of the process

ASSUME NoneAssumption == None \notin Data \cup [of : Data, whole : BOOLEAN]
ASSUME CrashAssumption == MaxCrashes \in Nat

VARIABLES file,     \* the staging directory: the file named after each byte string
          plane,    \* the contents the provider stores, each under its own digest
          call,     \* the threads
          left,     \* history: names a crash or a failed write left behind
          crashes

vars == <<file, plane, call, left, crashes>>

(* What a reader may find: all of a byte string, or a part of it.          *)
Content == [of : Data, whole : BOOLEAN]
Whole(d) == [of |-> d, whole |-> TRUE]

(* writers are the threads whose open file is the one that has the name.   *)
File   == [state : {"absent", "partial", "whole"}, writers : SUBSET Calls]
Absent == [state |-> "absent", writers |-> {}]

Staging == {"open", "write", "publish", "unlink"}
Idle    == [step |-> "idle", data |-> None, answer |-> "none", ref |-> None, met |-> FALSE]

(* met tells whether another publication of the same bytes overlapped.     *)
CallRecord == [step : Staging \cup {"idle", "return"}, data : Data \cup {None},
               answer : {"none", "published", "missing", "fault"},
               ref : Content \cup {None}, met : BOOLEAN]

TypeOK ==
  /\ file \in [Data -> File]
  /\ plane \subseteq Content
  /\ call \in [Calls -> CallRecord]
  /\ left \subseteq Data
  /\ crashes \in 0..MaxCrashes

Init ==
  /\ file = [d \in Data |-> Absent]
  /\ plane = {}
  /\ call = [c \in Calls |-> Idle]
  /\ left = {}
  /\ crashes = 0

At(c, step) == call[c].step = step
Goto(c, step) == call' = [call EXCEPT ![c].step = step]
Settle(c, step, answer) ==
  call' = [call EXCEPT ![c].step = step, ![c].answer = answer]

Publishing(c, d) == call[c].step \in Staging /\ call[c].data = d

-----------------------------------------------------------------------------
(* Faulty variants of definitions below, used by no specification: each is *)
(* put in the place of the definition it is named after to see that a      *)
(* property notices.                                                       *)

(* Appends to a file that is there instead of truncating it.               *)
OpenAppends(c) ==
  /\ At(c, "open")
  /\ LET d == call[c].data
     IN  file' = [file EXCEPT ![d].state = "partial",
                              ![d].writers = IF d \in left THEN @ ELSE @ \cup {c}]
  /\ Goto(c, "write")
  /\ UNCHANGED <<plane, left, crashes>>

(* Unlinks after a success only.                                           *)
UnlinkOnSuccess(c) ==
  /\ At(c, "unlink")
  /\ file' = [file EXCEPT ![call[c].data] = IF call[c].answer = "fault" THEN @ ELSE Absent]
  /\ left' = left \ {call[c].data}
  /\ Goto(c, "return")
  /\ UNCHANGED <<plane, crashes>>

-----------------------------------------------------------------------------
(* The steps of a publication.                                             *)

(* publish_bytes is called, beside whoever is publishing the same bytes.   *)
Begin(c) ==
  /\ At(c, "idle")
  /\ \E d \in Data :
       LET others == {e \in Calls : Publishing(e, d)}
       IN  call' = [e \in Calls |->
                      IF e = c THEN [Idle EXCEPT !.step = "open", !.data = d,
                                                 !.met = others # {}]
                      ELSE IF e \in others THEN [call[e] EXCEPT !.met = TRUE]
                      ELSE call[e]]
  /\ UNCHANGED <<file, plane, left, crashes>>

(* write_bytes opens, and so truncates or creates, the file; or raises.    *)
Open(c) ==
  /\ At(c, "open")
  /\ \/ /\ file' = [file EXCEPT ![call[c].data] = [state |-> "partial", writers |-> @.writers \cup {c}]]
        /\ Goto(c, "write")
     \/ /\ Settle(c, "return", "fault")
        /\ UNCHANGED file
  /\ UNCHANGED <<plane, left, crashes>>

(* ... and writes. A failure is raised before the try: nothing unlinks.    *)
Write(c) ==
  LET d == call[c].data
      named == c \in file[d].writers
  IN  /\ At(c, "write")
      /\ \/ /\ file' = [file EXCEPT ![d] = [state |-> IF named THEN "whole" ELSE @.state,
                                            writers |-> @.writers \ {c}]]
            /\ Goto(c, "publish")
            /\ UNCHANGED left
         \/ /\ file' = [file EXCEPT ![d].writers = @ \ {c}]
            /\ left' = IF named THEN left \cup {d} ELSE left
            /\ Settle(c, "return", "fault")
      /\ UNCHANGED <<plane, crashes>>

(* The provider reads the file, which another thread may have unlinked or  *)
(* truncated by now; or it fails.                                          *)
Publish(c) ==
  /\ At(c, "publish")
  /\ LET d    == call[c].data
         read == [of |-> d, whole |-> file[d].state = "whole"]
     IN  \/ /\ file[d].state = "absent"
            /\ Settle(c, "unlink", "missing")
            /\ UNCHANGED plane
         \/ /\ file[d].state # "absent"
            /\ plane' = plane \cup {read}
            /\ call' = [call EXCEPT ![c].step = "unlink", ![c].answer = "published", ![c].ref = read]
         \/ /\ Settle(c, "unlink", "fault")
            /\ UNCHANGED plane
  /\ UNCHANGED <<file, left, crashes>>

(* finally: staged.unlink(missing_ok=True), also under another writer.     *)
Unlink(c) ==
  /\ At(c, "unlink")
  /\ file' = [file EXCEPT ![call[c].data] = Absent]
  /\ left' = left \ {call[c].data}
  /\ Goto(c, "return")
  /\ UNCHANGED <<plane, crashes>>

Return(c) ==
  /\ At(c, "return")
  /\ call' = [call EXCEPT ![c] = Idle]
  /\ UNCHANGED <<file, plane, left, crashes>>

(* The process dies and starts again: files stay, threads are gone.        *)
Crash ==
  /\ crashes < MaxCrashes
  /\ crashes' = crashes + 1
  /\ call' = [c \in Calls |-> Idle]
  /\ file' = [d \in Data |-> [file[d] EXCEPT !.writers = {}]]
  /\ left' = {d \in Data : file[d].state # "absent"}
  /\ UNCHANGED plane

Next == \/ \E c \in Calls : \/ Begin(c) \/ Open(c) \/ Write(c) \/ Publish(c)
                            \/ Unlink(c) \/ Return(c)
        \/ Crash

Spec == Init /\ [][Next]_vars

-----------------------------------------------------------------------------
(* Safety.                                                                 *)

Exact(c) == \/ call[c].answer = "fault"
            \/ call[c].answer = "published" /\ call[c].ref = Whole(call[c].data)

(* A publication that met no other one of the same bytes answers with a    *)
(* reference to exactly these bytes, or with a fault of the disk or the    *)
(* provider; what crashes and failed writes left does not matter. Two that *)
(* meet have no such promise, though docs/session-feedback-example.md:34   *)
(* says "Echo publishes the bytes as a content-addressed ArtifactRef".     *)
AloneIsExact ==
  \A c \in Calls : At(c, "return") /\ ~call[c].met => Exact(c)

(* A reference that is answered can be resolved, whatever overlapped.      *)
ReferenceResolves ==
  \A c \in Calls : call[c].answer = "published" => call[c].ref \in plane

(* A staging file belongs to a publication that will unlink it, or was     *)
(* left by a crash or a failed write.                                      *)
StagingIsClean ==
  \A d \in Data : file[d].state # "absent" =>
    d \in left \/ \E c \in Calls : Publishing(c, d) /\ ~At(c, "open")

-----------------------------------------------------------------------------
(* The inductive invariant behind AloneIsExact and StagingIsClean.         *)

(* Who meets is met.                                                       *)
MetIsMutual ==
  \A c, e \in Calls : /\ call[c].step \in Staging
                      /\ Publishing(e, call[c].data)
                      /\ c # e
                      => call[c].met

(* The file of a thread that met nobody is its own.                        *)
OwnFile ==
  \A c \in Calls :
    /\ At(c, "idle") => call[c] = Idle
    /\ ~At(c, "idle") => call[c].data \in Data
    /\ call[c].step \in {"open", "write", "publish"} => call[c].answer = "none"
    /\ ~call[c].met =>
         /\ At(c, "write") => c \in file[call[c].data].writers
         /\ At(c, "publish") => file[call[c].data].state = "whole"
         /\ call[c].step \in {"unlink", "return"} => Exact(c)

(* Who will unlink a staging file: the thread that writes under its name,  *)
(* or one that is past its write.                                          *)
Owns(c, d) == /\ call[c].data = d
              /\ \/ At(c, "write") /\ c \in file[d].writers
                 \/ call[c].step \in {"publish", "unlink"}

FileHasOwner ==
  \A d \in Data : file[d].state # "absent" => d \in left \/ \E c \in Calls : Owns(c, d)

Inductive == TypeOK /\ MetIsMutual /\ OwnFile /\ FileHasOwner /\ ReferenceResolves
=============================================================================
