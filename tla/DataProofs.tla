---------------------------- MODULE DataProofs ----------------------------
(***************************************************************************)
(* Theorems about DataStore for every set of files and actors, every size  *)
(* of a page and every bound.                                              *)
(***************************************************************************)
EXTENDS DataStore, FiniteSetTheorems, WellFoundedInduction, TLAPS

(* A set of times that is not empty has a least and a greatest element: the*)
(* order of the naturals is well founded, and so is that of the bounds.    *)
LEMMA LeastNatural ==
    ASSUME NEW S \in SUBSET Nat, S # {}
    PROVE  \E x \in S : \A y \in S : x <= y
<1> DEFINE less == {ss \in Nat \X Nat : ss[1] < ss[2]}
<1>1. IsWellFoundedOn(less, Nat)
  BY NatLessThanWellFounded, Zenon DEF OpToRel
<1> HIDE DEF less
<1>2. PICK x \in S : \A y \in S : <<y, x>> \notin less
  BY <1>1, WFMin
<1>3. \A y \in S : ~(y < x)
  <2> TAKE y \in S
  <2>1. x \in Nat /\ y \in Nat
    OBVIOUS
  <2>2. y < x => <<y, x>> \in less
    BY <2>1 DEF less
  <2> QED
    BY <1>2, <2>2
<1> QED
  BY <1>3

LEMMA Bounds ==
    ASSUME NEW S \in SUBSET Times, S # {}
    PROVE  /\ Min(S) \in S /\ \A y \in S : Min(S) <= y
           /\ Max(S) \in S /\ \A y \in S : Max(S) >= y
<1>1. MaxTime \in Nat /\ S \subseteq Nat /\ \A x \in S : x <= MaxTime
  BY DataAssumption DEF Times
<1>2. \E x \in S : \A y \in S : x <= y
  BY <1>1, LeastNatural
<1> DEFINE above == {b \in Nat : \A x \in S : x <= b}
<1>3. PICK b \in above : \A c \in above : b <= c
  BY <1>1, LeastNatural
<1>4. b \in S
  <2>1. SUFFICES ASSUME b \notin S PROVE FALSE
    OBVIOUS
  <2>2. \A x \in S : x < b
    BY <1>1, <1>3, <2>1
  <2>5. PICK x \in S : TRUE
    OBVIOUS
  <2>4. b # 0
    BY <1>1, <2>2, <2>5
  <2>3. b - 1 \in above
    BY <1>1, <1>3, <2>2, <2>4
  <2> QED
    BY <1>3, <2>3
<1>5. \E x \in S : \A y \in S : x >= y
  BY <1>1, <1>3, <1>4
<1> QED
  BY <1>2, <1>5 DEF Min, Max

(* Fresh and Page are of that kind, and the candles of a file are finite.  *)
LEMMA SetsOfTimes ==
    /\ IsFiniteSet(Times) /\ MaxTime \in Nat \ {0} /\ 1 \in Times /\ Times \subseteq Nat
    /\ \A S \in SUBSET Times : IsFiniteSet(S) /\ Cardinality(S) \in Nat
<1>1. MaxTime \in Nat \ {0}
  BY DataAssumption
<1>2. IsFiniteSet(Times)
  BY <1>1, FS_Interval DEF Times
<1>3. ASSUME NEW S \in SUBSET Times PROVE IsFiniteSet(S) /\ Cardinality(S) \in Nat
  BY <1>2, FS_Subset, FS_CardinalityType
<1> QED
  BY <1>1, <1>2, <1>3 DEF Times

LEMMA DescribeType ==
    ASSUME NEW S \in SUBSET Times, S # {}, NEW id \in Nat
    PROVE  Describe(id, S) \in FileRow /\ Describe(id, S).id = id
BY SetsOfTimes, Bounds DEF Describe, FileRow

(* The UPDATE of a row as it was read makes it the row that was measured.  *)
LEMMA UpdateRowType ==
    ASSUME NEW row \in FileRow, NEW old \in FileRow, NEW new \in FileRow
    PROVE  /\ UpdateRow(row, old, new) \in FileRow
           /\ UpdateRow(row, row, new) = new
BY DEF UpdateRow, FileRow

-----------------------------------------------------------------------------
(***************************************************************************)
(* Types and the places of each kind of request.                           *)
(***************************************************************************)
TypeInv == TypeOK /\ ShapeOK

Proper(q) ==
    /\ q \in TaskRecord
    /\ q.pc \notin {"idle", "next"} => q.file \in Files
    /\ Shape(q)

LEMMA ProperActors ==
    ASSUME TypeInv, NEW a \in Actors
    PROVE  Proper(actors[a])
BY DEF TypeInv, TypeOK, ShapeOK, Proper

LEMMA NoRowType == NoRow \in FileRow
BY DEF NoRow, FileRow

LEMMA IdleProper ==
    /\ Proper(Idle) /\ Idle.op = "idle" /\ Idle.file = NoFile
    /\ Idle.asked = {} /\ Idle.pc = "idle"
<1>1. Idle \in TaskRecord
  BY NoRowType DEF Idle, TaskRecord
<1>2. Shape(Idle)
  BY DEF Idle, Shape, Fresh
<1> QED
  BY <1>1, <1>2 DEF Proper, Idle

(* A request that begins.                                                  *)
LEMMA StartProper ==
    ASSUME TypeInv, NEW a \in Actors
    PROVE  /\ \A files \in (SUBSET Files) \ {{}} : StartImport(a, files) =>
                  /\ Proper(actors'[a]) /\ Becomes(a, actors'[a])
                  /\ actors'[a].op = "import" /\ actors'[a].pc = "next"
           /\ \A f \in Files : StartRefresh(a, f) \/ StartDelete(a, f) =>
                  Proper(actors'[a]) /\ Becomes(a, actors'[a])
<1> USE DEF Becomes
<1>0. actors \in [Actors -> TaskRecord] /\ served \in Nat
  BY DEF TypeInv, TypeOK
<1>1. ASSUME NEW files \in (SUBSET Files) \ {{}}, StartImport(a, files)
      PROVE  Proper(actors'[a]) /\ Becomes(a, actors'[a])
             /\ actors'[a].op = "import" /\ actors'[a].pc = "next"
  <2> DEFINE q == [Idle EXCEPT !.op = "import", !.pc = "next", !.asked = files,
                               !.todo = files, !.status = "running", !.serial = served']
  <2>1. actors'[a] = q /\ actors' = [actors EXCEPT ![a] = q]
    BY <1>0, <1>1 DEF StartImport
  <2>2. served' \in Nat \ {0}
    BY <1>0, <1>1 DEF StartImport, Begin
  <2>3. q \in TaskRecord
    BY <2>2, NoRowType DEF Idle, TaskRecord
  <2>4. Shape(q)
    BY <2>2, DataAssumption DEF Idle, Shape
  <2> QED
    BY <2>1, <2>3, <2>4 DEF Proper, Idle
<1>2. ASSUME NEW f \in Files, StartRefresh(a, f) \/ StartDelete(a, f)
      PROVE  Proper(actors'[a]) /\ Becomes(a, actors'[a])
  <2> DEFINE refresh == [Idle EXCEPT !.op = "refresh", !.pc = "fetch", !.file = f,
                                     !.row = market_data_files[f]]
             delete  == [Idle EXCEPT !.op = "delete", !.pc = "remove", !.file = f,
                                     !.row = market_data_files[f]]
  <2>1. \/ actors'[a] = refresh /\ actors' = [actors EXCEPT ![a] = refresh]
        \/ actors'[a] = delete /\ actors' = [actors EXCEPT ![a] = delete]
    BY <1>0, <1>2 DEF StartRefresh, StartDelete
  <2>2. market_data_files[f] \in FileRow
    BY DEF TypeInv, TypeOK
  <2>3. refresh \in TaskRecord /\ delete \in TaskRecord
    BY <2>2, NoRowType DEF Idle, TaskRecord
  <2>4. Shape(refresh) /\ Shape(delete)
    BY DEF Idle, Shape
  <2> QED
    BY <2>1, <2>3, <2>4 DEF Proper, Idle
<1> QED
  BY <1>1, <1>2

(* A file that is left, given up, or followed by its next page.            *)
LEMMA NextFileProper ==
    ASSUME NEW q \in TaskRecord, q.op = "import", q.todo \subseteq q.asked, q.serial # 0
    PROVE  Proper(NextFile(q))
<1>1. NextFile(q) \in TaskRecord
  BY NoRowType DEF NextFile, TaskRecord
<1>2. Shape(NextFile(q))
  <2>1. NoFile \notin q.todo
    BY DataAssumption DEF TaskRecord
  <2> QED
    BY <2>1 DEF NextFile, Shape, TaskRecord
<1> QED
  BY <1>1, <1>2 DEF Proper, NextFile, TaskRecord

LEMMA GiveUpProper ==
    ASSUME NEW q \in TaskRecord, q.file \in Files,
           q.op = "import" => q.todo \subseteq q.asked /\ q.serial # 0
    PROVE  /\ Proper(GiveUp(q))
           /\ q.op = "import" =>
                 /\ GiveUp(q).op = "import" /\ GiveUp(q).pc = "next" /\ GiveUp(q).file = NoFile
                 /\ GiveUp(q).asked = q.asked /\ GiveUp(q).todo = q.todo
                 /\ GiveUp(q).errors = q.errors \cup {q.file} /\ GiveUp(q).poisoned = q.poisoned
           /\ q.op # "import" => GiveUp(q) = Idle
<1>1. CASE q.op = "import"
  <2> DEFINE next == NextFile(q)
             given == [next EXCEPT !.errors = @ \cup {q.file}]
  <2>1. GiveUp(q) = given
    BY <1>1 DEF GiveUp
  <2>2. Proper(next)
    BY <1>1, NextFileProper
  <2>3. /\ next.op = "import" /\ next.pc = "next" /\ next.file = NoFile
        /\ next.asked = q.asked /\ next.todo = q.todo /\ next.errors = q.errors
        /\ next.poisoned = q.poisoned
    BY <1>1 DEF NextFile, TaskRecord
  <2> HIDE DEF next
  <2>4. next \in TaskRecord
    BY <2>2 DEF Proper
  <2>5. given \in TaskRecord
    BY <2>4 DEF TaskRecord
  <2>6. Shape(given)
    BY <2>2, <2>3, <2>4 DEF Proper, Shape, TaskRecord
  <2>7. /\ given.op = "import" /\ given.pc = "next" /\ given.file = NoFile
        /\ given.asked = q.asked /\ given.todo = q.todo
        /\ given.errors = q.errors \cup {q.file} /\ given.poisoned = q.poisoned
    BY <2>3, <2>4 DEF TaskRecord
  <2> QED
    BY <1>1, <2>1, <2>5, <2>6, <2>7 DEF Proper
<1>2. CASE q.op # "import"
  BY <1>2, IdleProper DEF GiveUp
<1> QED
  BY <1>1, <1>2

(* The two ways out of append_candles.                                     *)
LEMMA AfterAppendProper ==
    ASSUME NEW q \in TaskRecord, Proper(q), q.pc \in {"read", "writing"}
    PROVE  /\ Proper(AfterAppend(q))
           /\ AfterAppend(q).op = q.op /\ AfterAppend(q).file = q.file
           /\ AfterAppend(q).asked = q.asked /\ AfterAppend(q).todo = q.todo
           /\ AfterAppend(q).errors = q.errors /\ AfterAppend(q).poisoned = q.poisoned
           /\ AfterAppend(q).row = q.row
           /\ \/ AfterAppend(q).pc = "measure"
              \/ AfterAppend(q).pc = "fetch" /\ q.op = "import" /\ AfterAppend(q).start = Max(q.page) + 1
<1> DEFINE full == [q EXCEPT !.pc = "fetch", !.start = Max(q.page) + 1, !.page = {}, !.seen = {},
                             !.unlinked = FALSE]
           last == [q EXCEPT !.pc = "measure", !.page = {}, !.seen = {}, !.unlinked = FALSE]
<1>1. /\ q.page # {} /\ q.page \in SUBSET Times /\ q.file \in Files
      /\ q.op \in {"import", "refresh"}
  BY DEF Proper, Shape, TaskRecord
<1>2. Max(q.page) \in Nat
  BY <1>1, Bounds, SetsOfTimes
<1>3. full \in TaskRecord /\ last \in TaskRecord
  <2>1. PICK start \in Nat : start = Max(q.page) + 1
    BY <1>2
  <2>2. full = [q EXCEPT !.pc = "fetch", !.start = start, !.page = {}, !.seen = {},
                         !.unlinked = FALSE]
    BY <2>1
  <2> HIDE DEF full
  <2> QED
    BY <2>2 DEF TaskRecord
<1>4. ASSUME q.op = "import" PROVE Shape(full)
  <2>1. /\ q.todo \subseteq q.asked /\ q.file \in q.asked \cup {NoFile} /\ q.file \notin q.todo
        /\ q.row = NoRow /\ q.serial # 0
    BY <1>4 DEF Proper, Shape
  <2>2. /\ full.op = "import" /\ full.pc = "fetch" /\ full.start = Max(q.page) + 1
        /\ full.todo = q.todo /\ full.asked = q.asked /\ full.file = q.file
        /\ full.row = q.row /\ full.serial = q.serial /\ full.unlinked = FALSE
    BY <1>4 DEF TaskRecord
  <2> HIDE DEF full
  <2> QED
    BY <1>2, <2>1, <2>2 DEF Shape
<1>5. Shape(last)
  BY <1>1 DEF Proper, Shape, TaskRecord
<1>6. /\ full.op = q.op /\ full.file = q.file /\ full.asked = q.asked /\ full.todo = q.todo
      /\ full.errors = q.errors /\ full.poisoned = q.poisoned /\ full.row = q.row
      /\ full.pc = "fetch" /\ full.start = Max(q.page) + 1
      /\ last.op = q.op /\ last.file = q.file /\ last.asked = q.asked /\ last.todo = q.todo
      /\ last.errors = q.errors /\ last.poisoned = q.poisoned /\ last.row = q.row
      /\ last.pc = "measure"
  BY DEF TaskRecord
<1>7. (AfterAppend(q) = full /\ q.op = "import") \/ AfterAppend(q) = last
  BY DEF AfterAppend
<1> HIDE DEF full, last
<1> QED
  BY <1>1, <1>3, <1>4, <1>5, <1>6, <1>7 DEF Proper

LEMMA FreshType ==
    ASSUME NEW q \in TaskRecord
    PROVE  Fresh(q) \in SUBSET Times /\ Fresh(q) \subseteq q.page
BY DEF Fresh, TaskRecord

LEMMA PageType ==
    ASSUME NEW q \in TaskRecord, q.pc = "fetch", Proper(q), TypeOK
    PROVE  Page(q) \in SUBSET Times
BY SetsOfTimes DEF Page, Proper, Shape, TaskRecord, TypeOK, Times

(* A thread that moves on and works only on what it asked for.             *)
Moves(a) ==
    /\ Becomes(a, actors'[a])
    /\ Proper(actors'[a])
    /\ Uses(a)' \subseteq Uses(a)
    /\ actors'[a].file \in {actors[a].file, NoFile} \/ actors[a].pc = "next"
    /\ actors'[a].op \in {actors[a].op, "idle"}
    /\ actors'[a].pc = "writing" => actors[a].pc = "write"

LEMMA MovesIntro ==
    ASSUME TypeInv, NEW a \in Actors, NEW q, Proper(q), Becomes(a, q),
           q.asked \subseteq actors[a].asked,
           \/ q.file \in {actors[a].file, NoFile}
           \/ q.file \in actors[a].asked /\ actors[a].pc = "next",
           q.op \in {actors[a].op, "idle"}, q.pc = "writing" => actors[a].pc = "write"
    PROVE  Moves(a) /\ actors'[a] = q
<1>1. actors \in [Actors -> TaskRecord]
  BY DEF TypeInv, TypeOK
<1>2. actors'[a] = q /\ actors' = [actors EXCEPT ![a] = q]
  BY <1>1 DEF Becomes
<1>3. Uses(a)' \subseteq Uses(a)
  BY <1>2 DEF Uses
<1> QED
  BY <1>2, <1>3 DEF Moves, Becomes

(* What the requests of each kind have at hand.                            *)
LEMMA Places ==
    ASSUME NEW q, Proper(q)
    PROVE  /\ q \in TaskRecord
           /\ q.op # "idle" <=> q.pc # "idle"
           /\ q.pc \notin {"idle", "next"} => q.file \in Files
           /\ q.pc = "next" => q.op = "import" /\ q.file = NoFile
           /\ q.pc = "select" => q.op = "import"
           /\ q.pc \in {"fetch", "read", "write", "writing", "measure", "commit"} =>
                 q.op \in {"import", "refresh"}
           /\ q.pc \in {"remove", "drop"} => q.op = "delete"
           /\ q.op = "import" =>
                 /\ q.todo \subseteq q.asked /\ q.file \in q.asked \cup {NoFile}
                 /\ q.file \notin q.todo /\ q.serial # 0
BY DEF Proper, Shape, TaskRecord

(* A thread that meets an exception leaves its file, or has answered; it   *)
(* is done with no other file, and its session may be spoilt.              *)
DoneWith(q) == q.asked \ (q.todo \cup q.errors \cup {q.file})

GaveUp(a) ==
    \/ actors'[a] = Idle
    \/ /\ actors[a].op = "import"
       /\ actors'[a].op = "import" /\ actors'[a].pc = "next" /\ actors'[a].file = NoFile
       /\ DoneWith(actors'[a]) \subseteq DoneWith(actors[a])
       /\ actors'[a].poisoned => \/ actors[a].poisoned \/ failures' = failures + 1
                                 \/ actors[a].pc = "commit" /\ ~RowFits(actors[a])

LEMMA GaveUpIntro ==
    ASSUME TypeInv, NEW a \in Actors, NEW q \in TaskRecord, actors'[a] = GiveUp(q),
           q.op = actors[a].op, q.asked = actors[a].asked, q.errors = actors[a].errors,
           q.serial = actors[a].serial, q.file \in Files,
           \/ q.todo = actors[a].todo /\ q.file = actors[a].file
           \/ q.todo = actors[a].todo \ {q.file} /\ actors[a].file = NoFile,
           q.poisoned => \/ actors[a].poisoned \/ failures' = failures + 1
                         \/ actors[a].pc = "commit" /\ ~RowFits(actors[a])
    PROVE  /\ GaveUp(a) /\ Proper(GiveUp(q)) /\ GiveUp(q).asked \subseteq actors[a].asked
           /\ GiveUp(q).file = NoFile /\ GiveUp(q).op \in {actors[a].op, "idle"}
           /\ GiveUp(q).pc \in {"next", "idle"}
<1>1. q.op = "import" => q.todo \subseteq q.asked /\ q.serial # 0
  BY ProperActors, Places
<1>2. CASE q.op # "import"
  BY <1>1, <1>2, GiveUpProper, IdleProper DEF GaveUp
<1>3. CASE q.op = "import"
  <2>1. /\ Proper(GiveUp(q)) /\ GiveUp(q).op = "import" /\ GiveUp(q).pc = "next"
        /\ GiveUp(q).file = NoFile /\ GiveUp(q).asked = q.asked /\ GiveUp(q).todo = q.todo
        /\ GiveUp(q).errors = q.errors \cup {q.file} /\ GiveUp(q).poisoned = q.poisoned
    BY <1>1, <1>3, GiveUpProper
  <2>2. DoneWith(GiveUp(q)) \subseteq DoneWith(actors[a])
    BY <2>1 DEF DoneWith
  <2> QED
    BY <1>3, <2>1, <2>2 DEF GaveUp
<1> QED
  BY <1>2, <1>3

LEMMA FailureMoves ==
    ASSUME TypeInv, NEW a \in Actors,
           \/ CallFails(a) \/ WriteFails(a) \/ SelectRowFails(a) \/ CommitRowFails(a)
           \/ \E f \in Files : PickFileFails(a, f)
    PROVE  Moves(a) /\ GaveUp(a)
<1> DEFINE q == actors[a]
<1>0. Proper(q) /\ q \in TaskRecord /\ actors \in [Actors -> TaskRecord]
  BY ProperActors, Places DEF TypeInv, TypeOK
<1>1. ASSUME NEW r \in TaskRecord, Becomes(a, GiveUp(r)),
             r.op = q.op, r.asked = q.asked, r.errors = q.errors, r.serial = q.serial,
             r.file \in Files,
             \/ r.todo = q.todo /\ r.file = q.file
             \/ r.todo = q.todo \ {r.file} /\ q.file = NoFile,
             r.poisoned => \/ q.poisoned \/ failures' = failures + 1
                           \/ q.pc = "commit" /\ ~RowFits(q)
      PROVE  Moves(a) /\ GaveUp(a)
  <2>1. actors'[a] = GiveUp(r)
    BY <1>0, <1>1 DEF Becomes
  <2>2. /\ GaveUp(a) /\ Proper(GiveUp(r)) /\ GiveUp(r).asked \subseteq q.asked
        /\ GiveUp(r).file = NoFile /\ GiveUp(r).op \in {q.op, "idle"}
        /\ GiveUp(r).pc \in {"next", "idle"}
    BY <1>1, <2>1, GaveUpIntro
  <2> QED
    BY <1>1, <2>2, MovesIntro
<1>2. CASE CallFails(a) \/ WriteFails(a)
  <2>1. q.file \in Files /\ Becomes(a, GiveUp(q))
    BY <1>0, <1>2, Places DEF CallFails, WriteFails, Does
  <2> QED
    BY <1>0, <1>1, <2>1
<1>3. ASSUME NEW broken \in BOOLEAN, q.pc \in {"select", "commit"},
             Becomes(a, GiveUp([q EXCEPT !.poisoned = broken])),
             broken => \/ q.poisoned \/ failures' = failures + 1
                       \/ q.pc = "commit" /\ ~RowFits(q)
      PROVE  Moves(a) /\ GaveUp(a)
  <2> DEFINE r == [q EXCEPT !.poisoned = broken]
  <2>1. /\ r \in TaskRecord /\ r.op = q.op /\ r.asked = q.asked /\ r.errors = q.errors
        /\ r.serial = q.serial /\ r.todo = q.todo /\ r.file = q.file /\ r.poisoned = broken
        /\ q.file \in Files
    BY <1>0, <1>3, Places DEF TaskRecord
  <2>2. Becomes(a, GiveUp(r))
    BY <1>3
  <2> HIDE DEF r
  <2> QED
    BY <1>1, <1>3, <2>1, <2>2
<1>4. CASE SelectRowFails(a)
  <2>1. q.pc = "select" /\ failures' = failures + 1
    BY <1>4 DEF SelectRowFails, Does, Fails
  <2>2. PICK broken \in BOOLEAN : Becomes(a, GiveUp([q EXCEPT !.poisoned = @ \/ broken]))
    BY <1>4, Zenon DEF SelectRowFails
  <2>3. q.poisoned \/ broken \in BOOLEAN
    OBVIOUS
  <2>4. Becomes(a, GiveUp([q EXCEPT !.poisoned = q.poisoned \/ broken]))
    BY <2>2, Zenon
  <2> QED
    BY <1>3, <2>1, <2>3, <2>4, Zenon
<1>5. CASE CommitRowFails(a)
  <2>1. q.pc = "commit" /\ Becomes(a, GiveUp([q EXCEPT !.poisoned = TRUE]))
        /\ (failures' = failures + 1 \/ ~RowFits(q))
    BY <1>5 DEF CommitRowFails, Does, Fails
  <2> QED
    BY <1>3, <2>1
<1>6. ASSUME NEW f \in Files, PickFileFails(a, f)
      PROVE  Moves(a) /\ GaveUp(a)
  <2> DEFINE r == [q EXCEPT !.file = f, !.todo = @ \ {f}]
  <2>1. /\ r \in TaskRecord /\ r.op = q.op /\ r.asked = q.asked /\ r.errors = q.errors
        /\ r.serial = q.serial /\ r.todo = q.todo \ {f} /\ r.file = f
        /\ r.poisoned = q.poisoned
    BY <1>0, <1>6 DEF TaskRecord
  <2>2. Becomes(a, GiveUp(r)) /\ q.file = NoFile
    BY <1>0, <1>6, Places DEF PickFileFails, Does
  <2> HIDE DEF r
  <2> QED
    BY <1>1, <2>1, <2>2
<1> QED
  BY <1>2, <1>4, <1>5, <1>6

LEMMA PickFileMoves ==
    ASSUME TypeInv, NEW a \in Actors, NEW f \in Files, PickFile(a, f)
    PROVE  Moves(a)
<1> DEFINE q == [actors[a] EXCEPT !.file = f, !.todo = @ \ {f}]
<1>1. /\ Does(a, "next") /\ f \in actors[a].todo
      /\ \/ disk[f].state = "torn" /\ Becomes(a, GiveUp(q))
         \/ /\ disk[f].state = "whole"
            /\ Becomes(a, [q EXCEPT !.pc = "fetch", !.start = Max(disk[f].rows)])
         \/ /\ disk[f].state = "absent"
            /\ \E t \in Times : Becomes(a, [q EXCEPT !.pc = "fetch", !.start = t])
  BY DEF PickFile
<1>2. Proper(actors[a]) /\ actors[a] \in TaskRecord
  BY ProperActors, Places
<1>3. /\ actors[a].op = "import" /\ actors[a].pc = "next" /\ f \in actors[a].asked
      /\ actors[a].todo \subseteq actors[a].asked /\ actors[a].serial # 0 /\ actors[a].row = NoRow
      /\ ~actors[a].unlinked
  BY <1>1, <1>2 DEF Does, Proper, Shape, TaskRecord
<1>4. q \in TaskRecord
  BY <1>2 DEF TaskRecord
<1>5. /\ q.op = "import" /\ q.pc = "next" /\ q.file = f /\ q.asked = actors[a].asked
      /\ q.todo = actors[a].todo \ {f} /\ q.serial = actors[a].serial /\ q.row = NoRow
      /\ ~q.unlinked
  BY <1>2, <1>3 DEF TaskRecord
<1> HIDE DEF q
<1>6. CASE Becomes(a, GiveUp(q))
  BY <1>3, <1>4, <1>5, <1>6, GiveUpProper, MovesIntro
<1>7. ASSUME NEW t \in Times, Becomes(a, [q EXCEPT !.pc = "fetch", !.start = t])
      PROVE  Moves(a)
  <2> DEFINE fetch == [q EXCEPT !.pc = "fetch", !.start = t]
  <2>1. t \in Nat /\ t # 0
    BY SetsOfTimes DEF Times
  <2>2. fetch \in TaskRecord
    BY <1>4, <2>1 DEF TaskRecord
  <2>3. /\ fetch.op = "import" /\ fetch.pc = "fetch" /\ fetch.file = f /\ fetch.asked = q.asked
        /\ fetch.todo = q.todo /\ fetch.serial = q.serial /\ fetch.row = NoRow
        /\ ~fetch.unlinked /\ fetch.start = t
    BY <1>4, <1>5 DEF TaskRecord
  <2> HIDE DEF fetch
  <2>4. Shape(fetch)
    BY <1>3, <1>5, <2>1, <2>3 DEF Shape
  <2>5. Proper(fetch)
    BY <2>2, <2>3, <2>4 DEF Proper
  <2>6. Becomes(a, fetch)
    BY <1>7 DEF fetch
  <2> QED
    BY <1>3, <1>5, <2>3, <2>5, <2>6, MovesIntro
<1>8. disk[f].state = "whole" => Max(disk[f].rows) \in Times
  <2>1. disk[f].state = "whole" => disk[f].rows \in SUBSET Times /\ disk[f].rows # {}
    BY DEF TypeInv, TypeOK, ShapeOK, SoundDisk, DiskFile
  <2> QED
    BY <2>1, Bounds
<1> QED
  BY <1>1, <1>6, <1>7, <1>8

LEMMA EndImportMoves ==
    ASSUME TypeInv, NEW a \in Actors, EndImport(a)
    PROVE  Moves(a) /\ actors'[a].op = "idle"
<1> DEFINE q == [Idle EXCEPT !.asked = actors[a].asked, !.errors = actors[a].errors,
                             !.status = "done"]
<1>1. Becomes(a, q) /\ actors[a] \in TaskRecord
  BY ProperActors, Places DEF EndImport
<1>2. q \in TaskRecord
  BY <1>1, NoRowType DEF Idle, TaskRecord
<1>3. /\ q.op = "idle" /\ q.pc = "idle" /\ q.asked = actors[a].asked /\ q.file = NoFile
      /\ ~q.unlinked
  BY DEF Idle
<1> HIDE DEF q
<1>4. Proper(q)
  BY <1>2, <1>3 DEF Proper, Shape
<1> QED
  BY <1>1, <1>3, <1>4, MovesIntro

LEMMA FetchMoves ==
    ASSUME TypeInv, NEW a \in Actors, Fetch(a)
    PROVE  Moves(a)
<1> DEFINE q == actors[a]
           page == [q EXCEPT !.page = Page(q), !.pc = IF Page(q) = {} THEN "measure" ELSE "read"]
<1>1. Proper(q) /\ q \in TaskRecord /\ q.pc = "fetch" /\ q.file \in Files
  BY ProperActors, Places DEF Fetch, Does
<1>2. Moves(a)
  <2>1. Becomes(a, page)
    BY DEF Fetch
  <2>2. Page(q) \in SUBSET Times
    BY <1>1, PageType DEF TypeInv
  <2>3. page \in TaskRecord
    BY <1>1, <2>2 DEF TaskRecord
  <2>4. /\ page.op = q.op /\ page.file = q.file /\ page.asked = q.asked /\ page.todo = q.todo
        /\ page.serial = q.serial /\ page.row = q.row /\ page.unlinked = q.unlinked
        /\ page.page = Page(q)
    BY <1>1 DEF TaskRecord
  <2>7. page.pc = IF Page(q) = {} THEN "measure" ELSE "read"
    BY <1>1 DEF TaskRecord
  <2> HIDE DEF page
  <2>8. page.pc = "measure" \/ (page.pc = "read" /\ page.page # {})
    BY <2>4, <2>7
  <2>5. Shape(page)
    <3>1. /\ q.row = NoRow \/ q.op # "import"
          /\ q.op = "import" => q.todo \subseteq q.asked /\ q.file \in q.asked \cup {NoFile}
                               /\ q.file \notin q.todo /\ q.serial # 0
          /\ q.op = "refresh" => q.asked = {}
          /\ q.op \in {"import", "refresh"} /\ ~q.unlinked
      BY <1>1 DEF Proper, Shape, TaskRecord
    <3>2. page.pc \in {"measure", "read"} /\ (page.pc = "read" => page.page # {})
      BY <2>8
    <3> QED
      BY <2>4, <3>1, <3>2 DEF Shape
  <2>6. Proper(page)
    BY <1>1, <2>8, <2>3, <2>4, <2>5 DEF Proper
  <2> QED
    BY <2>1, <2>4, <2>6, <2>8, MovesIntro
<1> QED
  BY <1>2

LEMMA ReadFileMoves ==
    ASSUME TypeInv, NEW a \in Actors, ReadFile(a)
    PROVE  Moves(a)
<1> DEFINE q == [actors[a] EXCEPT !.seen = disk[actors[a].file].rows]
           write == [q EXCEPT !.pc = "write"]
<1>1. Proper(actors[a]) /\ actors[a] \in TaskRecord /\ actors[a].pc = "read"
      /\ actors[a].file \in Files
  BY ProperActors, Places DEF ReadFile, Does
<1>2. disk[actors[a].file].rows \in SUBSET Times
  BY <1>1 DEF TypeInv, TypeOK, DiskFile
<1>3. q \in TaskRecord
  BY <1>1, <1>2 DEF TaskRecord
<1>4. /\ q.op = actors[a].op /\ q.pc = "read" /\ q.file = actors[a].file
      /\ q.asked = actors[a].asked /\ q.todo = actors[a].todo /\ q.page = actors[a].page
      /\ q.serial = actors[a].serial /\ q.row = actors[a].row /\ q.unlinked = actors[a].unlinked
  BY <1>1 DEF TaskRecord
<1>5. \/ Becomes(a, GiveUp(q))
      \/ Becomes(a, AfterAppend(q))
      \/ Fresh(q) # {} /\ Becomes(a, write)
  BY <1>1 DEF ReadFile
<1> HIDE DEF q
<1>6. Proper(q)
  BY <1>1, <1>3, <1>4 DEF Proper, Shape
<1>7. CASE Becomes(a, GiveUp(q))
  <2>1. Proper(GiveUp(q)) /\ GiveUp(q).asked \subseteq q.asked /\ GiveUp(q).file = NoFile
        /\ GiveUp(q).op \in {q.op, "idle"} /\ GiveUp(q).pc # "writing"
    BY <1>1, <1>4, <1>6, GiveUpProper, IdleProper, Places
  <2> QED
    BY <1>4, <1>7, <2>1, MovesIntro
<1>8. CASE Becomes(a, AfterAppend(q))
  BY <1>3, <1>4, <1>6, <1>8, AfterAppendProper, MovesIntro
<1>9. CASE Fresh(q) # {} /\ Becomes(a, write)
  <2>1. write \in TaskRecord
    BY <1>3 DEF TaskRecord
  <2>2. /\ write.op = q.op /\ write.pc = "write" /\ write.file = q.file
        /\ write.asked = q.asked /\ write.todo = q.todo /\ write.page = q.page
        /\ write.serial = q.serial /\ write.row = q.row /\ write.unlinked = q.unlinked
        /\ write.seen = q.seen
    BY <1>3 DEF TaskRecord
  <2> HIDE DEF write
  <2>3. Fresh(write) # {}
    BY <1>9, <2>2 DEF Fresh
  <2>4. Shape(write)
    BY <1>4, <1>6, <2>2, <2>3 DEF Proper, Shape
  <2>5. Proper(write)
    BY <1>1, <1>4, <2>1, <2>2, <2>4 DEF Proper
  <2> QED
    BY <1>4, <1>9, <2>2, <2>5, MovesIntro
<1> QED
  BY <1>5, <1>7, <1>8, <1>9

LEMMA OpenFileMoves ==
    ASSUME TypeInv, NEW a \in Actors, OpenFile(a)
    PROVE  Moves(a) /\ actors'[a] = [actors[a] EXCEPT !.pc = "writing"]
<1> DEFINE q == actors[a]
           write == [q EXCEPT !.pc = "writing"]
<1>1. Proper(q) /\ q \in TaskRecord /\ q.pc = "write" /\ q.file \in Files /\ Becomes(a, write)
  BY ProperActors, Places DEF OpenFile, Does
<1>2. write \in TaskRecord
  BY <1>1 DEF TaskRecord
<1>3. /\ write.op = q.op /\ write.pc = "writing" /\ write.file = q.file
      /\ write.asked = q.asked /\ write.todo = q.todo /\ write.page = q.page
      /\ write.serial = q.serial /\ write.row = q.row /\ write.unlinked = q.unlinked
      /\ write.seen = q.seen
  BY <1>1 DEF TaskRecord
<1> HIDE DEF write
<1>4. Fresh(write) = Fresh(q)
  BY <1>3 DEF Fresh
<1>5. Proper(write)
  BY <1>1, <1>2, <1>3, <1>4 DEF Proper, Shape
<1>6. Moves(a) /\ actors'[a] = write
  BY <1>1, <1>3, <1>5, MovesIntro
<1> QED
  BY <1>6 DEF write

LEMMA FinishFileMoves ==
    ASSUME TypeInv, NEW a \in Actors, FinishFile(a)
    PROVE  Moves(a) /\ actors'[a] = AfterAppend(actors[a])
<1>1. /\ Proper(actors[a]) /\ actors[a] \in TaskRecord /\ actors[a].pc = "writing"
      /\ Becomes(a, AfterAppend(actors[a]))
  BY ProperActors, Places DEF FinishFile, Does
<1> QED
  BY <1>1, AfterAppendProper, MovesIntro

LEMMA MeasureMoves ==
    ASSUME TypeInv, NEW a \in Actors, Measure(a)
    PROVE  Moves(a)
<1> DEFINE q == actors[a]
           rows == disk[q.file].rows
<1>1. Proper(q) /\ q \in TaskRecord /\ q.pc = "measure" /\ q.file \in Files
      /\ q.op \in {"import", "refresh"}
  BY ProperActors, Places DEF Measure, Does
<1>2. \/ Becomes(a, GiveUp(q))
      \/ /\ disk[q.file].state = "whole"
         /\ Becomes(a, [q EXCEPT !.measured = Describe(q.row.id, rows),
                                 !.pc = IF q.op = "import" THEN "select" ELSE "commit"])
  BY DEF Measure
<1>3. CASE Becomes(a, GiveUp(q))
  <2>1. Proper(GiveUp(q)) /\ GiveUp(q).asked \subseteq q.asked /\ GiveUp(q).file = NoFile
        /\ GiveUp(q).op \in {q.op, "idle"} /\ GiveUp(q).pc # "writing"
    BY <1>1, GiveUpProper, IdleProper, Places
  <2> QED
    BY <1>3, <2>1, MovesIntro
<1>4. ASSUME NEW row \in FileRow, NEW pc \in {"select", "commit"},
             pc = IF q.op = "import" THEN "select" ELSE "commit",
             Becomes(a, [q EXCEPT !.measured = row, !.pc = pc])
      PROVE  Moves(a)
  <2> DEFINE select == [q EXCEPT !.measured = row, !.pc = pc]
  <2>1. select \in TaskRecord
    BY <1>1 DEF TaskRecord
  <2>2. /\ select.op = q.op /\ select.pc = pc /\ select.file = q.file
        /\ select.asked = q.asked /\ select.todo = q.todo
        /\ select.serial = q.serial /\ select.row = q.row /\ select.unlinked = q.unlinked
    BY <1>1 DEF TaskRecord
  <2>3. Becomes(a, select)
    BY <1>4
  <2> HIDE DEF select
  <2>4. pc = "commit" => q.op = "refresh"
    BY <1>1, <1>4
  <2>5. pc = "select" => q.op = "import"
    BY <1>1, <1>4
  <2>6. Shape(select)
    BY <1>1, <2>2, <2>4, <2>5 DEF Proper, Shape
  <2> QED
    BY <1>1, <2>1, <2>2, <2>3, <2>6, MovesIntro DEF Proper
<1>5. disk[q.file].state = "whole" => Describe(q.row.id, rows) \in FileRow
  <2>1. disk[q.file].state = "whole" => rows \in SUBSET Times /\ rows # {}
    BY <1>1 DEF TypeInv, TypeOK, ShapeOK, SoundDisk, DiskFile
  <2>2. q.row.id \in Nat
    BY <1>1 DEF TaskRecord, FileRow
  <2> QED
    BY <2>1, <2>2, DescribeType
<1> QED
  BY <1>2, <1>3, <1>4, <1>5

LEMMA SelectRowMoves ==
    ASSUME TypeInv, NEW a \in Actors, SelectRow(a)
    PROVE  Moves(a)
<1> DEFINE q == actors[a]
           row == market_data_files[q.file]
           id == IF row.id = 0 THEN q.serial ELSE row.id
           commit == [q EXCEPT !.row = row, !.pc = "commit", !.measured.id = id]
<1>1. Proper(q) /\ q \in TaskRecord /\ q.pc = "select" /\ q.file \in Files /\ q.op = "import"
  BY ProperActors, Places DEF SelectRow, Does
<1>2. Becomes(a, GiveUp(q)) \/ Becomes(a, commit)
  BY DEF SelectRow
<1>3. CASE Becomes(a, GiveUp(q))
  <2>1. Proper(GiveUp(q)) /\ GiveUp(q).asked \subseteq q.asked /\ GiveUp(q).file = NoFile
        /\ GiveUp(q).op \in {q.op, "idle"} /\ GiveUp(q).pc # "writing"
    BY <1>1, GiveUpProper, IdleProper, Places
  <2> QED
    BY <1>3, <2>1, MovesIntro
<1>4. CASE Becomes(a, commit)
  <2>1. row \in FileRow
    BY <1>1 DEF TypeInv, TypeOK
  <2>2. id \in Nat
    BY <1>1, <2>1 DEF FileRow, TaskRecord
  <2> HIDE DEF row, id
  <2>3. commit \in TaskRecord
    BY <1>1, <2>1, <2>2 DEF TaskRecord, FileRow
  <2>4. /\ commit.op = q.op /\ commit.pc = "commit" /\ commit.file = q.file
        /\ commit.asked = q.asked /\ commit.todo = q.todo
        /\ commit.serial = q.serial /\ commit.unlinked = q.unlinked
    BY <1>1 DEF TaskRecord
  <2> HIDE DEF commit
  <2>5. Shape(commit)
    BY <1>1, <2>4 DEF Proper, Shape
  <2> QED
    BY <1>1, <1>4, <2>3, <2>4, <2>5, MovesIntro DEF Proper
<1> QED
  BY <1>2, <1>3, <1>4

LEMMA CommitMoves ==
    ASSUME TypeInv, NEW a \in Actors, CommitRow(a)
    PROVE  Moves(a)
<1> DEFINE q == actors[a]
<1>1. /\ Proper(q) /\ q \in TaskRecord /\ q.file \in Files /\ q.op \in {"import", "refresh"}
      /\ Becomes(a, IF q.op = "import" THEN NextFile(q) ELSE Idle)
  BY ProperActors, Places DEF CommitRow, Does
<1>2. CASE q.op = "import"
  <2>1. Proper(NextFile(q))
    BY <1>1, <1>2, NextFileProper, Places
  <2>2. /\ NextFile(q).asked = q.asked /\ NextFile(q).file = NoFile
        /\ NextFile(q).op = q.op /\ NextFile(q).pc = "next"
    BY <1>1 DEF NextFile, TaskRecord
  <2> QED
    BY <1>1, <1>2, <2>1, <2>2, MovesIntro
<1>3. CASE q.op # "import"
  BY <1>1, <1>3, IdleProper, MovesIntro
<1> QED
  BY <1>2, <1>3

LEMMA DeleteMoves ==
    ASSUME TypeInv, NEW a \in Actors, RemoveFileFails(a) \/ DropRow(a) \/ DropRowFails(a)
    PROVE  Moves(a)
<1> DEFINE q == actors[a]
           drop == [q EXCEPT !.pc = "drop"]
<1>1. Proper(q) /\ q \in TaskRecord /\ q.pc \in {"remove", "drop"} /\ q.file \in Files
      /\ q.op = "delete"
  BY ProperActors, Places DEF RemoveFileFails, DropRow, DropRowFails, Does
<1>2. CASE DropRow(a) \/ DropRowFails(a)
  BY <1>2, IdleProper, MovesIntro DEF DropRow, DropRowFails
<1>3. CASE RemoveFileFails(a)
  <2>1. Becomes(a, drop)
    BY <1>3 DEF RemoveFileFails
  <2>2. drop \in TaskRecord
    BY <1>1 DEF TaskRecord
  <2>3. /\ drop.op = q.op /\ drop.pc = "drop" /\ drop.file = q.file
        /\ drop.asked = q.asked /\ drop.unlinked = q.unlinked
    BY <1>1 DEF TaskRecord
  <2> HIDE DEF drop
  <2>4. Proper(drop)
    BY <1>1, <2>2, <2>3 DEF Proper, Shape
  <2> QED
    BY <2>1, <2>3, <2>4, MovesIntro
<1> QED
  BY <1>2, <1>3

(* A removed file cuts off those who write it.                             *)
LEMMA UnlinkMoves ==
    ASSUME TypeInv, NEW a \in Actors, NEW r, Proper(r), Unlink(a, r)
    PROVE  /\ actors'[a] = r /\ actors' \in [Actors -> TaskRecord]
           /\ \A b \in Actors : Proper(actors'[b])
           /\ \A b \in Actors \ {a} :
                 /\ Uses(b)' = Uses(b)
                 /\ \/ actors'[b] = actors[b] /\ b \notin Writers(actors[a].file)
                    \/ /\ actors'[b] = [actors[b] EXCEPT !.unlinked = TRUE]
                       /\ b \in Writers(actors[a].file)
<1>1. actors' = [b \in Actors |->
                   IF b = a THEN r
                   ELSE IF b \in Writers(actors[a].file) THEN [actors[b] EXCEPT !.unlinked = TRUE]
                   ELSE actors[b]]
  BY DEF Unlink
<1>2. ASSUME NEW b \in Actors, b # a, b \in Writers(actors[a].file)
      PROVE  Proper(actors'[b]) /\ Uses(b)' = Uses(b)
  <2> DEFINE q == [actors[b] EXCEPT !.unlinked = TRUE]
  <2>1. Proper(actors[b]) /\ actors[b] \in TaskRecord /\ actors[b].pc = "writing"
    BY <1>2, ProperActors, Places DEF Writers, Does
  <2>2. q \in TaskRecord
    BY <2>1 DEF TaskRecord
  <2>3. /\ q.op = actors[b].op /\ q.pc = "writing" /\ q.file = actors[b].file
        /\ q.asked = actors[b].asked /\ q.todo = actors[b].todo /\ q.page = actors[b].page
        /\ q.serial = actors[b].serial /\ q.row = actors[b].row /\ q.seen = actors[b].seen
    BY <2>1 DEF TaskRecord
  <2>4. actors'[b] = q
    BY <1>1, <1>2
  <2> HIDE DEF q
  <2>5. Fresh(q) = Fresh(actors[b])
    BY <2>3 DEF Fresh
  <2>6. Proper(q)
    BY <2>1, <2>2, <2>3, <2>5 DEF Proper, Shape
  <2> QED
    BY <2>3, <2>4, <2>6 DEF Uses
<1>3. ASSUME NEW b \in Actors, b # a, b \notin Writers(actors[a].file)
      PROVE  Proper(actors'[b]) /\ Uses(b)' = Uses(b) /\ actors'[b] = actors[b]
  <2>1. actors'[b] = actors[b]
    BY <1>1, <1>3
  <2> QED
    BY <2>1, ProperActors DEF Uses
<1>4. actors'[a] = r
  BY <1>1
<1>5. \A b \in Actors : Proper(actors'[b])
  BY <1>2, <1>3, <1>4
<1>6. actors' \in [Actors -> TaskRecord]
  <2>1. \A b \in Actors : actors'[b] \in TaskRecord
    BY <1>5 DEF Proper
  <2> QED
    BY <1>1, <2>1
<1> QED
  BY <1>1, <1>2, <1>3, <1>4, <1>5, <1>6

Removes(a) == RemoveFile(a) \/ WriteRemoved(a)

LEMMA RemovesMoves ==
    ASSUME TypeInv, NEW a \in Actors, Removes(a)
    PROVE  /\ actors[a].file \in Files /\ Uses(a)' \subseteq Uses(a)
           /\ RemoveFile(a) => actors'[a] = [actors[a] EXCEPT !.pc = "drop"]
           /\ WriteRemoved(a) => GaveUp(a)
           /\ actors'[a].op \in {actors[a].op, "idle"} /\ actors'[a].pc \in {"drop", "next", "idle"}
           /\ actors'[a].file \in {actors[a].file, NoFile}
           /\ actors' \in [Actors -> TaskRecord] /\ \A b \in Actors : Proper(actors'[b])
           /\ \A b \in Actors \ {a} :
                 /\ Uses(b)' = Uses(b)
                 /\ \/ actors'[b] = actors[b] /\ b \notin Writers(actors[a].file)
                    \/ /\ actors'[b] = [actors[b] EXCEPT !.unlinked = TRUE]
                       /\ b \in Writers(actors[a].file)
<1> DEFINE q == actors[a]
           drop == [q EXCEPT !.pc = "drop"]
<1>1. /\ Proper(q) /\ q \in TaskRecord /\ q.pc \in {"remove", "writing"} /\ q.file \in Files
      /\ RemoveFile(a) => q.pc = "remove"
      /\ WriteRemoved(a) => q.pc = "writing" /\ failures' = failures + 1
  BY ProperActors, Places DEF Removes, RemoveFile, WriteRemoved, Does, Fails
<1>2. CASE RemoveFile(a)
  <2>1. q.op = "delete" /\ q.pc = "remove"
    BY <1>1, <1>2, Places
  <2>2. drop \in TaskRecord
    BY <1>1 DEF TaskRecord
  <2>3. /\ drop.op = "delete" /\ drop.pc = "drop" /\ drop.file = q.file
        /\ drop.asked = q.asked /\ drop.unlinked = q.unlinked
    BY <1>1, <2>1 DEF TaskRecord
  <2>4. Unlink(a, drop)
    BY <1>2 DEF RemoveFile
  <2>5. Proper(drop)
    <3> HIDE DEF drop
    <3> QED
      BY <1>1, <2>1, <2>2, <2>3 DEF Proper, Shape
  <2>6. actors'[a] = drop
    BY <2>4, <2>5, UnlinkMoves
  <2>7. Uses(a)' \subseteq Uses(a)
    BY <2>3, <2>6 DEF Uses
  <2>8. ~WriteRemoved(a)
    BY <1>1, <2>1
  <2> QED
    BY <1>1, <2>1, <2>3, <2>4, <2>5, <2>6, <2>7, <2>8, UnlinkMoves
<1>3. CASE WriteRemoved(a)
  <2>1. Unlink(a, GiveUp(q)) /\ ~RemoveFile(a)
    BY <1>1, <1>3 DEF WriteRemoved
  <2>2. actors'[a] = GiveUp(q)
    BY <2>1 DEF Unlink
  <2>3. /\ GaveUp(a) /\ Proper(GiveUp(q)) /\ GiveUp(q).asked \subseteq q.asked
        /\ GiveUp(q).file = NoFile /\ GiveUp(q).op \in {q.op, "idle"}
        /\ GiveUp(q).pc \in {"next", "idle"}
    BY <1>1, <1>3, <2>2, GaveUpIntro
  <2>4. Uses(a)' \subseteq Uses(a)
    BY <2>2, <2>3 DEF Uses
  <2> QED
    BY <1>1, <2>1, <2>2, <2>3, <2>4, UnlinkMoves
<1> QED
  BY <1>2, <1>3 DEF Removes

LEMMA StepMoves ==
    ASSUME TypeInv, NEW a \in Actors, Step(a)
    PROVE  Moves(a) \/ Removes(a)
BY PickFileMoves, EndImportMoves, FetchMoves, ReadFileMoves, OpenFileMoves, FinishFileMoves,
   MeasureMoves, SelectRowMoves, CommitMoves, DeleteMoves, FailureMoves DEF Step, Removes

(* Nobody turns to a deletion in the middle of a request.                  *)
LEMMA NoMoreRemoves ==
    ASSUME TypeInv, NEW a \in Actors, Step(a)
    PROVE  actors'[a].pc # "remove"
<1>0. actors[a] \in TaskRecord /\ actors \in [Actors -> TaskRecord]
  BY DEF TypeInv, TypeOK
<1>1. CASE Removes(a)
  BY <1>1, RemovesMoves
<1>2. CASE Moves(a) /\ actors'[a].pc = "remove"
  <2>1. actors'[a].op = "delete" /\ actors[a].op = "delete"
    BY <1>2, Places DEF Moves
  <2>2. actors[a].pc \in {"remove", "drop"}
    BY <2>1, ProperActors DEF Proper, Shape
  <2>3. RemoveFile(a) \/ RemoveFileFails(a) \/ DropRow(a) \/ DropRowFails(a)
    BY <2>2 DEF Step, PickFile, PickFileFails, EndImport, Fetch, CallFails, ReadFile, OpenFile,
       FinishFile, WriteFails, WriteRemoved, Measure, SelectRow, SelectRowFails, CommitRow,
       CommitRowFails, Does
  <2>4. [actors[a] EXCEPT !.pc = "drop"].pc = "drop"
    BY <1>0 DEF TaskRecord
  <2>5. ~RemoveFileFails(a) /\ ~DropRow(a) /\ ~DropRowFails(a)
    BY <1>0, <1>2, <2>4, IdleProper DEF RemoveFileFails, DropRow, DropRowFails, Becomes
  <2> QED
    BY <1>2, <2>3, <2>5, RemovesMoves DEF Removes
<1> QED
  BY <1>1, <1>2, StepMoves

LEMMA RequestMoves ==
    ASSUME TypeInv, NEW a \in Actors, Request(a)
    PROVE  Becomes(a, actors'[a]) /\ Proper(actors'[a])
BY StartProper DEF Request

-----------------------------------------------------------------------------
LEMMA ActorsTypes ==
    ASSUME TypeInv, [Next]_vars
    PROVE  /\ actors' \in [Actors -> TaskRecord]
           /\ \A a \in Actors : Proper(actors'[a])
<1>0. actors \in [Actors -> TaskRecord]
  BY DEF TypeInv, TypeOK
<1>1. ASSUME NEW a \in Actors, Becomes(a, actors'[a]), Proper(actors'[a])
      PROVE  /\ actors' \in [Actors -> TaskRecord]
             /\ \A b \in Actors : Proper(actors'[b])
  <2>1. actors' = [actors EXCEPT ![a] = actors'[a]] /\ actors'[a] \in TaskRecord
    BY <1>1 DEF Becomes, Proper
  <2>2. \A b \in Actors \ {a} : actors'[b] = actors[b]
    BY <1>0, <2>1
  <2> QED
    BY <1>0, <1>1, <2>1, <2>2, ProperActors
<1>2. CASE UNCHANGED actors
  BY <1>0, <1>2, ProperActors
<1>3. ASSUME NEW a \in Actors, Request(a) \/ Step(a)
      PROVE  /\ actors' \in [Actors -> TaskRecord]
             /\ \A b \in Actors : Proper(actors'[b])
  BY <1>1, <1>3, RequestMoves, StepMoves, RemovesMoves DEF Moves
<1>4. CASE Crash
  BY <1>4, IdleProper DEF Crash, Proper
<1> QED
  BY <1>2, <1>3, <1>4 DEF Next, OpenCandle, vars

(* Who changes the files and the rows.                                     *)
LEMMA FilesUnchanged ==
    ASSUME NEW a \in Actors, Request(a) \/ Step(a)
    PROVE  UNCHANGED disk \/ OpenFile(a) \/ FinishFile(a) \/ WriteFails(a) \/ Removes(a)
BY DEF Request, StartImport, StartRefresh, StartDelete, Step, PickFile, PickFileFails, EndImport,
       Fetch, CallFails, ReadFile, Measure, SelectRow, SelectRowFails, CommitRow, CommitRowFails,
       RemoveFileFails, DropRow, DropRowFails, Removes

LEMMA RowsUnchanged ==
    ASSUME NEW a \in Actors, Request(a) \/ Step(a)
    PROVE  \/ UNCHANGED market_data_files \/ CommitRow(a) \/ CommitRowFails(a)
           \/ DropRow(a) \/ DropRowFails(a)
BY DEF Request, StartImport, StartRefresh, StartDelete, Step, PickFile, PickFileFails, EndImport,
       Fetch, CallFails, ReadFile, Measure, SelectRow, SelectRowFails, OpenFile, FinishFile,
       WriteFails, WriteRemoved, RemoveFile, RemoveFileFails

LEMMA CountsUnchanged ==
    ASSUME NEW a \in Actors, Step(a)
    PROVE  /\ UNCHANGED <<now, contested, served, refreshes, faults>>
           /\ failures' \in {failures, failures + 1}
BY DEF Step, PickFile, PickFileFails, EndImport, Fetch, CallFails, ReadFile, OpenFile, FinishFile,
       WriteFails, WriteRemoved, Measure, SelectRow, SelectRowFails, CommitRow, CommitRowFails,
       RemoveFile, RemoveFileFails, DropRow, DropRowFails, Fails, counts

LEMMA DiskTypes ==
    ASSUME TypeInv, [Next]_vars
    PROVE  disk' \in [Files -> DiskFile] /\ SoundDisk'
<1>0. disk \in [Files -> DiskFile] /\ SoundDisk
  BY DEF TypeInv, TypeOK, ShapeOK
<1>1. CASE UNCHANGED disk
  BY <1>0, <1>1 DEF SoundDisk
<1>2. ASSUME NEW f \in Files, NEW rows \in SUBSET Times, rows # {},
             \/ disk' = [disk EXCEPT ![f] = Torn]
             \/ disk' = [disk EXCEPT ![f] = Absent]
             \/ disk' = [disk EXCEPT ![f] = Whole(rows)]
      PROVE  disk' \in [Files -> DiskFile] /\ SoundDisk'
  <2>1. /\ Torn \in DiskFile /\ Absent \in DiskFile /\ Whole(rows) \in DiskFile
        /\ Torn.state = "torn" /\ Torn.rows = {} /\ Absent.state = "absent" /\ Absent.rows = {}
        /\ Whole(rows).state = "whole" /\ Whole(rows).rows = rows
    BY DEF Torn, Absent, Whole, DiskFile
  <2> QED
    BY <1>0, <1>2, <2>1 DEF SoundDisk
<1>3. 1 \in Times
  BY SetsOfTimes
<1>4. ASSUME NEW a \in Actors, OpenFile(a) \/ WriteFails(a) \/ Removes(a)
      PROVE  disk' \in [Files -> DiskFile] /\ SoundDisk'
  <2>1. actors[a].file \in Files
    BY <1>4, ProperActors, Places DEF OpenFile, WriteFails, Removes, RemoveFile, WriteRemoved, Does
  <2>2. \/ UNCHANGED disk
        \/ disk' = [disk EXCEPT ![actors[a].file] = Torn]
        \/ disk' = [disk EXCEPT ![actors[a].file] = Absent]
    BY <1>4 DEF OpenFile, WriteFails, Removes, RemoveFile, WriteRemoved, Unlink
  <2> QED
    BY <1>1, <1>2, <1>3, <2>1, <2>2
<1>5. ASSUME NEW a \in Actors, FinishFile(a)
      PROVE  disk' \in [Files -> DiskFile] /\ SoundDisk'
  <2> DEFINE q == actors[a]
             rows == q.seen \cup Fresh(q)
  <2>1. Proper(q) /\ q \in TaskRecord /\ q.pc = "writing" /\ q.file \in Files
    BY <1>5, ProperActors, Places DEF FinishFile, Does
  <2>2. rows \in SUBSET Times /\ rows # {}
    BY <2>1, FreshType DEF Proper, Shape, TaskRecord
  <2>3. \/ UNCHANGED disk
        \/ disk' = [disk EXCEPT ![q.file] = Whole(rows)]
        \/ disk' = [disk EXCEPT ![q.file] = Torn]
    BY <1>5 DEF FinishFile
  <2> QED
    BY <1>1, <1>2, <2>1, <2>2, <2>3
<1> QED
  BY <1>1, <1>4, <1>5, FilesUnchanged DEF Next, OpenCandle, Crash, vars

LEMMA RowsTypes ==
    ASSUME TypeInv, [Next]_vars
    PROVE  market_data_files' \in [Files -> FileRow]
<1>0. market_data_files \in [Files -> FileRow]
  BY DEF TypeInv, TypeOK
<1>1. ASSUME NEW a \in Actors, CommitRow(a) \/ CommitRowFails(a) \/ DropRow(a) \/ DropRowFails(a)
      PROVE  market_data_files' \in [Files -> FileRow]
  <2> DEFINE q == actors[a]
  <2>1. q \in TaskRecord /\ q.file \in Files
    BY <1>1, ProperActors, Places DEF CommitRow, CommitRowFails, DropRow, DropRowFails, Does
  <2>2. /\ q.row \in FileRow /\ q.measured \in FileRow
        /\ market_data_files[q.file] \in FileRow
    BY <1>0, <2>1 DEF TaskRecord
  <2>3. UpdateRow(market_data_files[q.file], q.row, q.measured) \in FileRow
    BY <2>2, UpdateRowType
  <2>4. \/ UNCHANGED market_data_files
        \/ market_data_files' = [market_data_files EXCEPT ![q.file] = NoRow]
        \/ market_data_files' = [market_data_files EXCEPT ![q.file] =
                                    UpdateRow(market_data_files[q.file], q.row, q.measured)]
    BY <1>1 DEF CommitRow, CommitRowFails, Committed, DropRow, DropRowFails, Dropped
  <2> HIDE DEF q
  <2> QED
    BY <1>0, <2>3, <2>4, NoRowType
<1> QED
  BY <1>0, <1>1, RowsUnchanged DEF Next, OpenCandle, Crash, vars

LEMMA UsesType ==
    ASSUME TypeInv, NEW a \in Actors
    PROVE  Uses(a) \in SUBSET Files
BY DEF TypeInv, TypeOK, TaskRecord, Uses

(* What a request that begins does to the bounds and to  contested.        *)
LEMMA BeginTypes ==
    ASSUME TypeInv, NEW a \in Actors, NEW files \in SUBSET Files, Begin(a, files)
    PROVE  served' \in Nat /\ contested' \in SUBSET Files /\ contested \subseteq contested'
<1>1. served \in Nat /\ contested \in SUBSET Files
  BY DEF TypeInv, TypeOK
<1>2. UNION {Uses(b) : b \in {b \in Busy : Uses(b) \cap files # {}}} \subseteq Files
  BY UsesType DEF Busy
<1> QED
  BY <1>1, <1>2 DEF Begin

LEMMA RequestCounts ==
    ASSUME NEW a \in Actors, Request(a)
    PROVE  /\ \E files \in (SUBSET Files) \ {{}} :
                 /\ Begin(a, files)
                 /\ StartImport(a, files) \/
                    \E f \in Files : files = {f} /\ (StartRefresh(a, f) \/ StartDelete(a, f))
           /\ UNCHANGED <<disk, market_data_files, now, failures, faults>>
           /\ refreshes' \in {refreshes, refreshes + 1}
<1>1. ASSUME NEW files \in (SUBSET Files) \ {{}}, StartImport(a, files)
      PROVE  /\ Begin(a, files)
             /\ UNCHANGED <<disk, market_data_files, now, refreshes, failures, faults>>
  BY <1>1 DEF StartImport
<1>2. ASSUME NEW f \in Files, StartRefresh(a, f) \/ StartDelete(a, f)
      PROVE  /\ Begin(a, {f}) /\ {f} \in (SUBSET Files) \ {{}}
             /\ UNCHANGED <<disk, market_data_files, now, failures, faults>>
             /\ refreshes' \in {refreshes, refreshes + 1}
  BY <1>2 DEF StartRefresh, StartDelete
<1>3. \/ \E files \in (SUBSET Files) \ {{}} : StartImport(a, files)
      \/ \E f \in Files : StartRefresh(a, f) \/ StartDelete(a, f)
  BY DEF Request
<1>4. CASE \E files \in (SUBSET Files) \ {{}} : StartImport(a, files)
  BY <1>1, <1>4
<1>5. CASE \E f \in Files : StartRefresh(a, f) \/ StartDelete(a, f)
  <2>1. PICK f \in Files : StartRefresh(a, f) \/ StartDelete(a, f)
    BY <1>5
  <2> QED
    BY <1>2, <2>1
<1> QED
  BY <1>3, <1>4, <1>5

LEMMA BoundsTypes ==
    ASSUME TypeInv, [Next]_vars
    PROVE  /\ now' \in Times /\ contested' \subseteq Files
           /\ {served', refreshes', failures', faults'} \subseteq Nat
<1>0. /\ now \in Times /\ contested \subseteq Files
      /\ served \in Nat /\ refreshes \in Nat /\ failures \in Nat /\ faults \in Nat
  BY DEF TypeInv, TypeOK
<1>1. ASSUME NEW a \in Actors, Request(a)
      PROVE  /\ now' \in Times /\ contested' \subseteq Files
             /\ {served', refreshes', failures', faults'} \subseteq Nat
  <2>1. served' \in Nat /\ contested' \in SUBSET Files
    BY <1>1, RequestCounts, BeginTypes
  <2>2. UNCHANGED <<now, failures, faults>> /\ refreshes' \in {refreshes, refreshes + 1}
    BY <1>1, RequestCounts
  <2> QED
    BY <1>0, <2>1, <2>2
<1>2. ASSUME NEW a \in Actors, Step(a)
      PROVE  /\ now' \in Times /\ contested' \subseteq Files
             /\ {served', refreshes', failures', faults'} \subseteq Nat
  BY <1>0, <1>2, CountsUnchanged
<1>3. CASE OpenCandle
  BY <1>0, <1>3, DataAssumption DEF OpenCandle, Times, counts
<1>4. CASE Crash
  BY <1>0, <1>4 DEF Crash
<1>5. CASE UNCHANGED vars
  BY <1>0, <1>5 DEF vars, counts
<1> QED
  BY <1>1, <1>2, <1>3, <1>4, <1>5 DEF Next

LEMMA TypesInit == Init => TypeInv
<1> SUFFICES ASSUME Init PROVE TypeInv
  OBVIOUS
<1>1. Absent \in DiskFile /\ Absent.state = "absent" /\ Absent.rows = {}
  BY DEF Absent, DiskFile
<1>2. TypeOK
  BY <1>1, SetsOfTimes, NoRowType, IdleProper DEF Init, TypeOK, Proper
<1>3. ShapeOK
  BY <1>1, IdleProper DEF Init, ShapeOK, SoundDisk, Proper
<1> QED
  BY <1>2, <1>3 DEF TypeInv

LEMMA TypesStep == TypeInv /\ [Next]_vars => TypeInv'
<1> SUFFICES ASSUME TypeInv, [Next]_vars PROVE TypeInv'
  OBVIOUS
<1>1. TypeOK'
  BY ActorsTypes, DiskTypes, RowsTypes, BoundsTypes DEF TypeOK, Proper
<1>2. ShapeOK'
  BY ActorsTypes, DiskTypes DEF ShapeOK, Proper
<1> QED
  BY <1>1, <1>2 DEF TypeInv

(* Files, rows and threads hold what their types say, whatever happens.    *)
THEOREM TypeCorrect == Spec => []TypeOK
<1>1. TypeInv => TypeOK
  BY DEF TypeInv
<1> QED
  BY TypesInit, TypesStep, <1>1, PTL DEF Spec

-----------------------------------------------------------------------------
(***************************************************************************)
(* A request that meets none of another with a file in common works on     *)
(* what it has read.                                                       *)
(***************************************************************************)

(* A step changes one file and one row, those its thread has at hand.      *)
LEMMA OwnFile ==
    ASSUME TypeInv, NEW a \in Actors, Step(a), NEW f \in Files, f # actors[a].file
    PROVE  disk'[f] = disk[f] /\ market_data_files'[f] = market_data_files[f]
<1>0. disk \in [Files -> DiskFile] /\ market_data_files \in [Files -> FileRow]
  BY DEF TypeInv, TypeOK
<1>1. disk'[f] = disk[f]
  BY <1>0, FilesUnchanged
     DEF OpenFile, FinishFile, WriteFails, Removes, RemoveFile, WriteRemoved, Unlink
<1>2. market_data_files'[f] = market_data_files[f]
  BY <1>0, RowsUnchanged DEF CommitRow, CommitRowFails, Committed, DropRow, DropRowFails, Dropped
<1> QED
  BY <1>1, <1>2

(* A file given up or left leaves nothing to be out of date.               *)
LEMMA BetweenFilesUpToDate ==
    ASSUME NEW q, q.op = "idle" \/ (q.op = "import" /\ q.pc = "next"),
           q.poisoned => failures # 0
    PROVE  q.op = "idle" \/ UpToDate(q)
BY DEF UpToDate

LEMMA FailuresGrow ==
    ASSUME TypeInv, NEW a \in Actors, Step(a)
    PROVE  failures # 0 => failures' # 0
BY CountsUnchanged DEF TypeInv, TypeOK

LEMMA GaveUpUpToDate ==
    ASSUME TypeInv, NEW a \in Actors, Step(a), GaveUp(a), UpToDate(actors[a])
    PROVE  actors'[a].op = "idle" \/ UpToDate(actors[a])'
<1>1. CASE actors'[a] = Idle
  BY <1>1, IdleProper
<1>2. CASE actors'[a] # Idle
  <2>1. failures \in Nat /\ (failures # 0 => failures' # 0)
    BY FailuresGrow DEF TypeInv, TypeOK
  <2>2. actors[a].pc = "commit" => RowFits(actors[a])
    BY DEF UpToDate, RowFits
  <2>3. actors'[a].poisoned => failures' # 0
    BY <1>2, <2>1, <2>2 DEF GaveUp, UpToDate
  <2> QED
    BY <1>2, <2>3 DEF GaveUp, UpToDate
<1> QED
  BY <1>1, <1>2

LEMMA GivenUp ==
    ASSUME TypeInv, NEW a \in Actors, NEW q \in TaskRecord,
           Becomes(a, GiveUp(q)), q.file \in Files, q.poisoned => failures' # 0,
           q.op = "import" => q.todo \subseteq q.asked /\ q.serial # 0
    PROVE  actors'[a].op = "idle" \/ UpToDate(actors[a])'
<1>1. actors'[a] = GiveUp(q)
  BY DEF TypeInv, TypeOK, Becomes
<1>2. GiveUp(q).op = "idle" \/ (GiveUp(q).op = "import" /\ GiveUp(q).pc = "next"
                                   /\ (GiveUp(q).poisoned => failures' # 0))
  BY GiveUpProper, IdleProper
<1> QED
  BY <1>1, <1>2 DEF UpToDate

LEMMA PickFileUpToDate ==
    ASSUME TypeInv, NEW a \in Actors, NEW f \in Files, PickFile(a, f), UpToDate(actors[a]),
           failures # 0 => failures' # 0
    PROVE  actors'[a].op = "idle" \/ UpToDate(actors[a])'
<1> DEFINE q == [actors[a] EXCEPT !.file = f, !.todo = @ \ {f}]
<1>1. /\ actors[a] \in TaskRecord /\ actors[a].op = "import" /\ (actors[a].poisoned => failures' # 0)
      /\ actors \in [Actors -> TaskRecord]
      /\ actors[a].todo \subseteq actors[a].asked /\ actors[a].serial # 0
  BY ProperActors, Places DEF PickFile, Does, UpToDate, TypeInv, TypeOK
<1>2. q \in TaskRecord
  BY <1>1 DEF TaskRecord
<1>3. /\ q.op = "import" /\ (q.poisoned => failures' # 0) /\ q.file = f
      /\ q.todo \subseteq q.asked /\ q.serial # 0
  BY <1>1 DEF TaskRecord
<1>4. Becomes(a, GiveUp(q)) \/ \E start : Becomes(a, [q EXCEPT !.pc = "fetch", !.start = start])
  BY DEF PickFile
<1> HIDE DEF q
<1>5. CASE Becomes(a, GiveUp(q))
  BY <1>2, <1>3, <1>5, GivenUp
<1>6. ASSUME NEW start, Becomes(a, [q EXCEPT !.pc = "fetch", !.start = start])
      PROVE  UpToDate(actors[a])'
  <2>1. actors'[a] = [q EXCEPT !.pc = "fetch", !.start = start]
    BY <1>1, <1>6 DEF Becomes
  <2>2. /\ actors'[a].op = "import" /\ actors'[a].pc = "fetch"
        /\ actors'[a].poisoned => failures' # 0
    BY <1>2, <1>3, <2>1 DEF TaskRecord
  <2> QED
    BY <2>2 DEF UpToDate
<1> QED
  BY <1>4, <1>5, <1>6

LEMMA FetchUpToDate ==
    ASSUME TypeInv, NEW a \in Actors, Fetch(a), UpToDate(actors[a]),
           failures # 0 => failures' # 0
    PROVE  actors'[a].op = "idle" \/ UpToDate(actors[a])'
<1> DEFINE q == actors[a]
<1>1. q \in TaskRecord /\ q.file \in Files /\ actors \in [Actors -> TaskRecord]
  BY ProperActors, Places DEF Fetch, Does, TypeInv, TypeOK
<1>3. UpToDate(actors[a])'
  <2> DEFINE pc == IF Page(q) = {} THEN "measure" ELSE "read"
  <2>1. actors'[a] = [q EXCEPT !.page = Page(q), !.pc = pc]
    BY <1>1 DEF Fetch, Becomes
  <2>2. pc \in {"measure", "read"}
    OBVIOUS
  <2> HIDE DEF pc
  <2>3. /\ actors'[a].op = q.op /\ actors'[a].pc = pc /\ actors'[a].poisoned = q.poisoned
        /\ actors'[a].file = q.file /\ actors'[a].row = q.row
    BY <1>1, <2>1 DEF TaskRecord
  <2>4. UNCHANGED market_data_files
    BY DEF Fetch
  <2> QED
    BY <2>2, <2>3, <2>4 DEF UpToDate
<1> QED
  BY <1>3

(* After append_candles, the row read at the beginning is still there.     *)
LEMMA AppendedUpToDate ==
    ASSUME TypeInv, NEW a \in Actors, NEW q \in TaskRecord, Proper(q),
           q.pc \in {"read", "writing"}, Becomes(a, AfterAppend(q)), UNCHANGED market_data_files,
           UpToDate(actors[a]), failures # 0 => failures' # 0,
           q.op = actors[a].op, q.poisoned = actors[a].poisoned,
           q.file = actors[a].file, q.row = actors[a].row
    PROVE  UpToDate(actors[a])'
<1>1. actors'[a] = AfterAppend(q)
  BY DEF TypeInv, TypeOK, Becomes
<1>2. /\ AfterAppend(q).op = q.op /\ AfterAppend(q).file = q.file /\ AfterAppend(q).row = q.row
      /\ AfterAppend(q).poisoned = q.poisoned /\ AfterAppend(q).pc \in {"measure", "fetch"}
  BY AfterAppendProper
<1> QED
  BY <1>1, <1>2 DEF UpToDate

LEMMA ReadFileUpToDate ==
    ASSUME TypeInv, NEW a \in Actors, ReadFile(a), UpToDate(actors[a]),
           failures # 0 => failures' # 0
    PROVE  actors'[a].op = "idle" \/ UpToDate(actors[a])'
<1> DEFINE q == [actors[a] EXCEPT !.seen = disk[actors[a].file].rows]
<1>1. /\ actors[a] \in TaskRecord /\ (actors[a].poisoned => failures' # 0)
      /\ actors[a].file \in Files
      /\ actors \in [Actors -> TaskRecord] /\ actors[a].pc = "read" /\ Proper(actors[a])
      /\ actors[a].op = "import" => actors[a].todo \subseteq actors[a].asked /\ actors[a].serial # 0
  BY ProperActors, Places DEF ReadFile, Does, UpToDate, TypeInv, TypeOK
<1>2. disk[actors[a].file].rows \in SUBSET Times
  BY <1>1 DEF TypeInv, TypeOK, DiskFile
<1>3. q \in TaskRecord
  BY <1>1, <1>2 DEF TaskRecord
<1>4. /\ q.op = actors[a].op /\ q.pc = "read" /\ q.file = actors[a].file
      /\ q.asked = actors[a].asked /\ q.todo = actors[a].todo /\ q.page = actors[a].page
      /\ q.serial = actors[a].serial /\ q.row = actors[a].row /\ q.unlinked = actors[a].unlinked
      /\ q.poisoned = actors[a].poisoned /\ q.seen = disk[actors[a].file].rows
  BY <1>1 DEF TaskRecord
<1>5. /\ \/ Becomes(a, GiveUp(q))
         \/ disk[q.file].state # "torn" /\ Becomes(a, AfterAppend(q))
         \/ disk[q.file].state # "torn" /\ Becomes(a, [q EXCEPT !.pc = "write"])
      /\ UNCHANGED <<disk, market_data_files>>
  BY DEF ReadFile
<1> HIDE DEF q
<1>6. Proper(q)
  BY <1>1, <1>3, <1>4 DEF Proper, Shape
<1>7. CASE Becomes(a, GiveUp(q))
  BY <1>1, <1>3, <1>4, <1>7, GivenUp
<1>8. CASE Becomes(a, AfterAppend(q))
  BY <1>3, <1>4, <1>5, <1>6, <1>8, AppendedUpToDate
<1>9. CASE disk[q.file].state # "torn" /\ Becomes(a, [q EXCEPT !.pc = "write"])
  <2>1. actors'[a] = [q EXCEPT !.pc = "write"]
    BY <1>1, <1>9 DEF Becomes
  <2>2. /\ actors'[a].op = actors[a].op /\ actors'[a].pc = "write"
        /\ actors'[a].poisoned => failures' # 0
        /\ actors'[a].file = actors[a].file /\ actors'[a].row = actors[a].row
        /\ actors'[a].seen = disk[actors[a].file].rows
    BY <1>1, <1>3, <1>4, <2>1 DEF TaskRecord
  <2> QED
    BY <1>4, <1>5, <1>9, <2>2 DEF UpToDate
<1> QED
  BY <1>5, <1>7, <1>8, <1>9

LEMMA WriteUpToDate ==
    ASSUME TypeInv, NEW a \in Actors, OpenFile(a) \/ FinishFile(a), UpToDate(actors[a]),
           failures # 0 => failures' # 0
    PROVE  UpToDate(actors[a])'
<1> DEFINE q == actors[a]
<1>1. /\ q \in TaskRecord /\ (q.poisoned => failures' # 0) /\ q.file \in Files /\ Proper(q)
      /\ actors \in [Actors -> TaskRecord] /\ disk \in [Files -> DiskFile]
  BY ProperActors, Places DEF OpenFile, FinishFile, Does, UpToDate, TypeInv, TypeOK
<1>2. CASE FinishFile(a)
  BY <1>1, <1>2, AppendedUpToDate DEF FinishFile, Does
<1>3. CASE OpenFile(a)
  <2>1. actors'[a] = [q EXCEPT !.pc = "writing"] /\ q.pc = "write"
    BY <1>3, OpenFileMoves DEF OpenFile, Does
  <2>2. ~q.unlinked
    BY <1>1, <2>1 DEF Proper, Shape
  <2>3. /\ actors'[a].op = q.op /\ actors'[a].pc = "writing"
        /\ actors'[a].poisoned => failures' # 0
        /\ actors'[a].file = q.file /\ actors'[a].row = q.row /\ ~actors'[a].unlinked
    BY <1>1, <2>1, <2>2 DEF TaskRecord
  <2>4. UNCHANGED market_data_files /\ disk'[q.file] = Torn
    BY <1>1, <1>3 DEF OpenFile
  <2> QED
    BY <2>3, <2>4 DEF UpToDate, Torn
<1> QED
  BY <1>2, <1>3

LEMMA MeasureUpToDate ==
    ASSUME TypeInv, NEW a \in Actors, Measure(a), UpToDate(actors[a]),
           failures # 0 => failures' # 0
    PROVE  actors'[a].op = "idle" \/ UpToDate(actors[a])'
<1> DEFINE q == actors[a]
           rows == disk[q.file].rows
           pc == IF q.op = "import" THEN "select" ELSE "commit"
           row == Describe(q.row.id, rows)
<1>1. /\ q \in TaskRecord /\ (q.poisoned => failures' # 0) /\ q.file \in Files
      /\ actors \in [Actors -> TaskRecord] /\ q.op \in {"import", "refresh"}
      /\ q.op = "import" => q.todo \subseteq q.asked /\ q.serial # 0
  BY ProperActors, Places DEF Measure, Does, UpToDate, TypeInv, TypeOK
<1>2. /\ UNCHANGED <<disk, market_data_files>>
      /\ \/ Becomes(a, GiveUp(q))
         \/ /\ disk[q.file].state = "whole"
            /\ Becomes(a, [q EXCEPT !.measured = row, !.pc = pc])
  BY DEF Measure
<1>3. CASE Becomes(a, GiveUp(q))
  BY <1>1, <1>3, GivenUp
<1>4. CASE /\ disk[q.file].state = "whole"
           /\ Becomes(a, [q EXCEPT !.measured = row, !.pc = pc])
  <2>1. actors'[a] = [q EXCEPT !.measured = row, !.pc = pc]
    BY <1>1, <1>4 DEF Becomes
  <2>2. rows \in SUBSET Times /\ rows # {} /\ q.row.id \in Nat
    BY <1>1, <1>4 DEF TypeInv, TypeOK, ShapeOK, SoundDisk, DiskFile, TaskRecord, FileRow
  <2>3. row.id = q.row.id /\ row = Describe(row.id, rows)
    BY <2>2, DescribeType
  <2>4. pc \in {"select", "commit"} /\ (pc = "commit" => q.op = "refresh")
    BY <1>1
  <2>5. q.op = "refresh" => q.row = market_data_files[q.file] /\ q.row.id # 0
    BY DEF UpToDate
  <2> HIDE DEF row, pc
  <2>6. /\ actors'[a].op = q.op /\ actors'[a].pc = pc /\ actors'[a].poisoned = q.poisoned
        /\ actors'[a].file = q.file /\ actors'[a].row = q.row /\ actors'[a].measured = row
    BY <1>1, <2>1 DEF TaskRecord
  <2>7. disk'[q.file] = disk[q.file] /\ market_data_files'[q.file] = market_data_files[q.file]
    BY <1>2
  <2>9. actors'[a].measured = Describe(actors'[a].measured.id, disk'[actors'[a].file].rows)
    BY <2>3, <2>6, <2>7
  <2> HIDE DEF rows
  <2> QED
    BY <1>1, <1>4, <2>3, <2>4, <2>5, <2>6, <2>7, <2>9 DEF UpToDate
<1> QED
  BY <1>2, <1>3, <1>4

(* A measured row can be given the id of the row it is stored in.          *)
LEMMA SelectRowUpToDate ==
    ASSUME TypeInv, NEW a \in Actors, SelectRow(a), UpToDate(actors[a]),
           failures # 0 => failures' # 0
    PROVE  actors'[a].op = "idle" \/ UpToDate(actors[a])'
<1> DEFINE q == actors[a]
           row == market_data_files[q.file]
           rows == disk[q.file].rows
           id == IF row.id = 0 THEN q.serial ELSE row.id
<1>1. /\ q \in TaskRecord /\ (q.poisoned => failures' # 0) /\ q.file \in Files /\ q.op = "import"
      /\ actors \in [Actors -> TaskRecord] /\ q.pc = "select" /\ q.serial # 0
      /\ q.todo \subseteq q.asked
  BY ProperActors, Places DEF SelectRow, Does, UpToDate, TypeInv, TypeOK
<1>a. CASE q.poisoned
  BY <1>1, <1>a, GivenUp DEF SelectRow
<1>b. SUFFICES ASSUME ~q.poisoned PROVE UpToDate(actors[a])'
  BY <1>a
<1>2. /\ UNCHANGED <<disk, market_data_files>>
      /\ Becomes(a, [q EXCEPT !.row = row, !.pc = "commit", !.measured.id = id])
  BY <1>b DEF SelectRow
<1>3. disk[q.file].state = "whole" /\ q.measured = Describe(q.measured.id, rows)
  BY <1>1 DEF UpToDate
<1>4. row \in FileRow
  BY <1>1 DEF TypeInv, TypeOK
<1>5. id \in Nat /\ id # 0
  BY <1>1, <1>4 DEF TaskRecord, FileRow
<1>6. [q.measured EXCEPT !.id = id] = Describe(id, rows)
  BY <1>3 DEF Describe
<1>7. actors'[a] = [q EXCEPT !.row = row, !.pc = "commit", !.measured.id = id]
  BY <1>1, <1>2 DEF Becomes
<1> HIDE DEF id, row
<1>8. /\ actors'[a].op = q.op /\ actors'[a].pc = "commit" /\ actors'[a].poisoned = q.poisoned
      /\ actors'[a].file = q.file /\ actors'[a].row = row
      /\ actors'[a].measured = [q.measured EXCEPT !.id = id]
  BY <1>1, <1>7 DEF TaskRecord
<1>9. Describe(id, rows).id = id
  BY DEF Describe
<1>10. disk'[q.file] = disk[q.file] /\ market_data_files'[q.file] = row
  BY <1>2 DEF row
<1>11. actors'[a].measured = Describe(actors'[a].measured.id, disk'[actors'[a].file].rows)
       /\ actors'[a].measured.id = id
  BY <1>6, <1>8, <1>9, <1>10
<1> HIDE DEF rows
<1> QED
  BY <1>1, <1>b, <1>3, <1>5, <1>8, <1>10, <1>11 DEF UpToDate

LEMMA CommitUpToDate ==
    ASSUME TypeInv, NEW a \in Actors, CommitRow(a), UpToDate(actors[a]),
           failures # 0 => failures' # 0
    PROVE  actors'[a].op = "idle" \/ UpToDate(actors[a])'
<1> DEFINE q == actors[a]
<1>1. q \in TaskRecord /\ (q.poisoned => failures' # 0)
  BY DEF UpToDate, TypeInv, TypeOK
<1>2. actors'[a] = IF q.op = "import" THEN NextFile(q) ELSE Idle
  BY DEF CommitRow, Becomes, TypeInv, TypeOK
<1>3. CASE q.op = "import"
  <2>1. /\ NextFile(q).op = "import" /\ NextFile(q).pc = "next"
        /\ NextFile(q).poisoned => failures' # 0
    BY <1>1, <1>3 DEF NextFile, TaskRecord
  <2> QED
    BY <1>2, <1>3, <2>1 DEF UpToDate
<1> QED
  BY <1>2, <1>3, IdleProper

LEMMA DeleteUpToDate ==
    ASSUME TypeInv, NEW a \in Actors, UpToDate(actors[a]), failures # 0 => failures' # 0,
           RemoveFile(a) \/ RemoveFileFails(a) \/ DropRow(a) \/ DropRowFails(a)
    PROVE  actors'[a].op = "idle" \/ UpToDate(actors[a])'
<1> DEFINE q == actors[a]
<1>1. /\ q \in TaskRecord /\ (q.poisoned => failures' # 0) /\ q.op = "delete"
      /\ actors \in [Actors -> TaskRecord]
  BY ProperActors, Places
     DEF RemoveFile, RemoveFileFails, DropRow, DropRowFails, Does, UpToDate, TypeInv, TypeOK
<1>2. CASE DropRow(a) \/ DropRowFails(a)
  <2>1. actors'[a] = Idle
    BY <1>1, <1>2 DEF DropRow, DropRowFails, Becomes
  <2> QED
    BY <2>1, IdleProper
<1>3. CASE RemoveFile(a) \/ RemoveFileFails(a)
  <2>1. actors'[a] = [q EXCEPT !.pc = "drop"] /\ UNCHANGED market_data_files
    BY <1>1, <1>3, RemovesMoves DEF Removes, RemoveFile, RemoveFileFails, Becomes
  <2>2. /\ actors'[a].op = q.op /\ actors'[a].pc = "drop"
        /\ actors'[a].poisoned => failures' # 0
        /\ actors'[a].file = q.file /\ actors'[a].row = q.row
    BY <1>1, <2>1 DEF TaskRecord
  <2> QED
    BY <2>1, <2>2 DEF UpToDate
<1> QED
  BY <1>2, <1>3

LEMMA StepUpToDate ==
    ASSUME TypeInv, NEW a \in Actors, Step(a), UpToDate(actors[a])
    PROVE  actors'[a].op = "idle" \/ UpToDate(actors[a])'
<1>1. GaveUp(a) => actors'[a].op = "idle" \/ UpToDate(actors[a])'
  BY GaveUpUpToDate
<1>2. failures # 0 => failures' # 0
  BY FailuresGrow
<1> QED
  BY <1>1, <1>2, PickFileUpToDate, EndImportMoves, FetchUpToDate, ReadFileUpToDate, WriteUpToDate,
     MeasureUpToDate, SelectRowUpToDate, CommitUpToDate, DeleteUpToDate, FailureMoves, RemovesMoves
     DEF Step, Removes

(* What a thread has read of its file stays true while nothing changes it. *)
LEMMA StillUpToDate ==
    ASSUME TypeInv, NEW b \in Actors, b \in Busy, UpToDate(actors[b]), actors'[b] = actors[b],
           failures # 0 => failures' # 0,
           actors[b].file \in Files =>
               /\ disk'[actors[b].file] = disk[actors[b].file]
               /\ market_data_files'[actors[b].file] = market_data_files[actors[b].file]
    PROVE  UpToDate(actors[b])'
<1> DEFINE q == actors[b]
<1>1. q.op # "idle" /\ (q.pc # "next" => q.file \in Files) /\ (q.pc = "next" => q.op = "import")
  BY ProperActors, Places DEF Busy
<1>2. CASE q.pc = "next"
  BY <1>1, <1>2 DEF UpToDate
<1>3. CASE q.pc # "next"
  BY <1>1, <1>3 DEF UpToDate, Torn, Describe
<1> QED
  BY <1>2, <1>3

LEMMA FileUsed ==
    ASSUME TypeInv, NEW a \in Actors, actors[a].file \in Files
    PROVE  actors[a].file \in Uses(a)
BY DataAssumption DEF Uses

(* The others while one of them moves on.                                  *)
LEMMA OthersStay ==
    ASSUME TypeInv, NEW a \in Actors, Step(a)
    PROVE  /\ a \in Busy
           /\ Busy' \subseteq Busy
           /\ \A b \in Actors \ {a} : Uses(b)' = Uses(b) /\ (b \in Busy' <=> b \in Busy)
           /\ Uses(a)' \subseteq Uses(a)
           /\ \A b \in Busy \ {a} : Uses(a) \cap Uses(b) = {} => actors'[b] = actors[b]
<1>0. actors \in [Actors -> TaskRecord]
  BY DEF TypeInv, TypeOK
<1>1. a \in Busy
  <2>1. actors[a].pc # "idle"
    BY DEF Step, PickFile, PickFileFails, EndImport, Fetch, CallFails, ReadFile, OpenFile,
           FinishFile, WriteFails, WriteRemoved, Measure, SelectRow, SelectRowFails, CommitRow,
           CommitRowFails, RemoveFile, RemoveFileFails, DropRow, DropRowFails, Does
  <2> QED
    BY <2>1, ProperActors, Places DEF Busy
<1>2. CASE Moves(a)
  <2>1. \A b \in Actors \ {a} : actors'[b] = actors[b]
    BY <1>0, <1>2 DEF Moves, Becomes
  <2> QED
    BY <1>1, <1>2, <2>1 DEF Moves, Busy, Uses
<1>3. CASE Removes(a)
  <2>1. \A b \in Actors \ {a} : actors'[b].op = actors[b].op
    <3> TAKE b \in Actors \ {a}
    <3>1. CASE actors'[b] = actors[b]
      BY <3>1
    <3>2. CASE actors'[b] = [actors[b] EXCEPT !.unlinked = TRUE]
      BY <1>0, <3>2 DEF TaskRecord
    <3> QED
      BY <1>3, <3>1, <3>2, RemovesMoves
  <2>2. \A b \in Busy \ {a} : Uses(a) \cap Uses(b) = {} => actors'[b] = actors[b]
    <3> SUFFICES ASSUME NEW b \in Busy \ {a}, Uses(a) \cap Uses(b) = {}
                 PROVE  actors'[b] = actors[b]
      OBVIOUS
    <3>1. actors[a].file \in Files
      BY <1>3, RemovesMoves
    <3>2. actors[b].file # actors[a].file
      BY <3>1, FileUsed DEF Busy
    <3> QED
      BY <1>3, <3>2, RemovesMoves DEF Writers, Busy
  <2> QED
    BY <1>1, <1>3, <2>1, <2>2, RemovesMoves DEF Busy
<1> QED
  BY <1>2, <1>3, StepMoves

LEMMA UndisturbedStep ==
    ASSUME TypeInv, Undisturbed, NEW a \in Actors, Step(a)
    PROVE  Undisturbed'
<1>0. contested' = contested
  BY CountsUnchanged
<1>1. ASSUME NEW b \in Busy', b = a
      PROVE  Uses(b)' \subseteq contested' \/ (UpToDate(actors[b])' /\ Alone(b)')
  <2>1. a \in Busy /\ Uses(a)' \subseteq Uses(a) /\ actors'[a].op # "idle"
    BY <1>1, OthersStay DEF Busy
  <2>2. CASE Uses(a) \subseteq contested
    BY <1>0, <1>1, <2>1, <2>2
  <2>3. CASE UpToDate(actors[a]) /\ Alone(a)
    <3>1. UpToDate(actors[a])'
      BY <2>1, <2>3, StepUpToDate
    <3>2. \A c \in Busy' \ {a} : Uses(a)' \cap Uses(c)' = {}
      BY <2>1, <2>3, OthersStay DEF Alone, Busy
    <3> QED
      BY <1>1, <3>1, <3>2 DEF Alone
  <2> QED
    BY <2>1, <2>2, <2>3 DEF Undisturbed
<1>2. ASSUME NEW b \in Busy', b # a
      PROVE  Uses(b)' \subseteq contested' \/ (UpToDate(actors[b])' /\ Alone(b)')
  <2>1. a \in Busy /\ b \in Busy /\ b \in Actors /\ Uses(b)' = Uses(b)
    BY <1>2, OthersStay DEF Busy
  <2>2. CASE Uses(b) \subseteq contested
    BY <1>0, <2>1, <2>2
  <2>3. CASE UpToDate(actors[b]) /\ Alone(b)
    <3>1. Uses(a) \cap Uses(b) = {}
      BY <1>2, <2>1, <2>3 DEF Alone
    <3>2. actors'[b] = actors[b]
      BY <1>2, <2>1, <3>1, OthersStay
    <3>3. ASSUME actors[b].file \in Files PROVE actors[b].file # actors[a].file
      BY <2>1, <3>1, <3>3, FileUsed
    <3>4. UpToDate(actors[b])'
      BY <2>1, <2>3, <3>2, <3>3, StillUpToDate, OwnFile, FailuresGrow
    <3>5. \A c \in Busy' \ {b} : Uses(b)' \cap Uses(c)' = {}
      <4> TAKE c \in Busy' \ {b}
      <4>1. c \in Busy /\ c \in Actors /\ Uses(c)' \subseteq Uses(c)
        BY OthersStay DEF Busy
      <4> QED
        BY <2>1, <2>3, <4>1 DEF Alone
    <3> QED
      BY <3>4, <3>5 DEF Alone
  <2> QED
    BY <2>1, <2>2, <2>3 DEF Undisturbed
<1> QED
  BY <1>1, <1>2 DEF Undisturbed

(* A request that begins, and those it meets.                              *)
LEMMA RequestBegins ==
    ASSUME TypeInv, NEW a \in Actors, Request(a)
    PROVE  /\ a \notin Busy /\ Busy' = Busy \cup {a}
           /\ \A b \in Actors \ {a} : actors'[b] = actors[b] /\ Uses(b)' = Uses(b)
           /\ contested \subseteq contested'
           /\ UpToDate(actors[a])'
           /\ \A b \in Busy : \/ Uses(a)' \cap Uses(b) = {}
                              \/ Uses(a)' \subseteq contested' /\ Uses(b) \subseteq contested'
           /\ actors'[a].file = NoFile \/ market_data_files[actors'[a].file].id # 0
           /\ actors'[a].pc \in {"next", "fetch", "remove"}
           /\ actors'[a].op = "import" =>
                  actors'[a].pc = "next" /\ actors'[a].todo = actors'[a].asked
<1>0. actors \in [Actors -> TaskRecord]
  BY DEF TypeInv, TypeOK
<1>1. PICK files \in (SUBSET Files) \ {{}} :
         /\ Begin(a, files)
         /\ \/ StartImport(a, files)
            \/ \E f \in Files : files = {f} /\ (StartRefresh(a, f) \/ StartDelete(a, f))
  BY RequestCounts
<1>2. /\ Uses(a)' = files /\ UpToDate(actors[a])' /\ actors'[a].op # "idle"
      /\ actors'[a].file = NoFile \/ market_data_files[actors'[a].file].id # 0
      /\ actors'[a].pc \in {"next", "fetch", "remove"}
      /\ actors'[a].op = "import" =>
             actors'[a].pc = "next" /\ actors'[a].todo = actors'[a].asked
  <2>1. CASE StartImport(a, files)
    <3>1. actors'[a] = [Idle EXCEPT !.op = "import", !.pc = "next", !.asked = files,
                               !.todo = files, !.status = "running", !.serial = served']
      BY <1>0, <2>1 DEF StartImport, Becomes
    <3>2. /\ actors'[a].op = "import" /\ actors'[a].pc = "next" /\ actors'[a].asked = files
          /\ actors'[a].file = NoFile /\ ~actors'[a].poisoned /\ actors'[a].todo = files
      BY <3>1 DEF Idle
    <3> QED
      BY <3>2 DEF Uses, UpToDate
  <2>2. ASSUME NEW f \in Files, files = {f}, StartRefresh(a, f) \/ StartDelete(a, f)
        PROVE  /\ Uses(a)' = files /\ UpToDate(actors[a])' /\ actors'[a].op \in {"refresh", "delete"}
               /\ market_data_files[actors'[a].file].id # 0
               /\ actors'[a].pc \in {"fetch", "remove"}
    <3>1. \/ actors'[a] = [Idle EXCEPT !.op = "refresh", !.pc = "fetch", !.file = f,
                                       !.row = market_data_files[f]]
          \/ actors'[a] = [Idle EXCEPT !.op = "delete", !.pc = "remove", !.file = f,
                                       !.row = market_data_files[f]]
      BY <1>0, <2>2 DEF StartRefresh, StartDelete, Becomes
    <3>2. /\ actors'[a].op \in {"refresh", "delete"} /\ actors'[a].pc \in {"fetch", "remove"}
          /\ actors'[a].asked = {} /\ actors'[a].file = f /\ ~actors'[a].poisoned
          /\ actors'[a].row = market_data_files[f]
      BY <3>1 DEF Idle
    <3>3. market_data_files' = market_data_files /\ market_data_files[f].id # 0
      BY <2>2 DEF StartRefresh, StartDelete
    <3>4. Uses(a)' = files
      BY <2>2, <3>2, DataAssumption DEF Uses
    <3> QED
      BY <3>2, <3>3, <3>4 DEF UpToDate
  <2> QED
    BY <1>1, <2>1, <2>2
<1>3. \A b \in Actors \ {a} : actors'[b] = actors[b] /\ Uses(b)' = Uses(b)
  BY <1>0, RequestMoves DEF Becomes, Uses
<1>4. a \notin Busy /\ contested \subseteq contested'
  BY <1>1, BeginTypes DEF Begin
<1>5. Busy' = Busy \cup {a}
  BY <1>2, <1>3, <1>4 DEF Busy
<1>6. ASSUME NEW b \in Busy, files \cap Uses(b) # {}
      PROVE  files \subseteq contested' /\ Uses(b) \subseteq contested'
  <2> DEFINE rivals == {c \in Busy : Uses(c) \cap files # {}}
  <2>1. b \in rivals
    BY <1>6
  <2>2. contested' = contested \cup
           (IF rivals = {} THEN {} ELSE files \cup UNION {Uses(c) : c \in rivals})
    BY <1>1 DEF Begin
  <2> HIDE DEF rivals
  <2>3. contested' = contested \cup (files \cup UNION {Uses(c) : c \in rivals})
    BY <2>1, <2>2
  <2> QED
    BY <2>1, <2>3
<1> QED
  BY <1>2, <1>3, <1>4, <1>5, <1>6

LEMMA UndisturbedRequest ==
    ASSUME TypeInv, Undisturbed, NEW a \in Actors, Request(a)
    PROVE  Undisturbed'
<1>0. UNCHANGED <<disk, market_data_files, failures>>
  BY RequestCounts
<1>1. /\ a \notin Busy /\ Busy' = Busy \cup {a} /\ contested \subseteq contested'
      /\ \A b \in Busy : b # a /\ b \in Actors /\ actors'[b] = actors[b] /\ Uses(b)' = Uses(b)
      /\ UpToDate(actors[a])'
      /\ \A b \in Busy : \/ Uses(a)' \cap Uses(b) = {}
                         \/ Uses(a)' \subseteq contested' /\ Uses(b) \subseteq contested'
  BY RequestBegins DEF Busy
<1>2. Uses(a)' \subseteq contested' \/ Alone(a)'
  BY <1>1 DEF Alone
<1>3. ASSUME NEW b \in Busy
      PROVE  Uses(b)' \subseteq contested' \/ (UpToDate(actors[b])' /\ Alone(b)')
  <2>1. b \in Actors /\ Uses(b)' = Uses(b) /\ actors'[b] = actors[b]
    BY <1>1
  <2>2. CASE Uses(b) \subseteq contested
    BY <1>1, <2>1, <2>2
  <2>3. CASE UpToDate(actors[b]) /\ Alone(b) /\ ~(Uses(b) \subseteq contested')
    <3>1. UpToDate(actors[b])'
      BY <1>0, <2>1, <2>3, StillUpToDate
    <3>2. \A c \in Busy' \ {b} : Uses(b)' \cap Uses(c)' = {}
      BY <1>1, <2>1, <2>3 DEF Alone
    <3> QED
      BY <3>1, <3>2 DEF Alone
  <2> QED
    BY <2>1, <2>2, <2>3 DEF Undisturbed
<1> QED
  BY <1>1, <1>2, <1>3 DEF Undisturbed

LEMMA UndisturbedNext ==
    ASSUME TypeInv, Undisturbed, [Next]_vars
    PROVE  Undisturbed'
<1>1. ASSUME UNCHANGED <<disk, market_data_files, actors, contested, failures>>
      PROVE  Undisturbed'
  BY <1>1 DEF Undisturbed, Busy, Uses, UpToDate, Alone, Describe, Torn
<1>2. CASE OpenCandle
  BY <1>1, <1>2 DEF OpenCandle, counts
<1>3. CASE Crash
  BY <1>3, IdleProper DEF Crash, Undisturbed, Busy
<1>4. CASE UNCHANGED vars
  BY <1>1, <1>4 DEF vars, counts
<1> QED
  BY <1>2, <1>3, <1>4, UndisturbedStep, UndisturbedRequest DEF Next

-----------------------------------------------------------------------------
(***************************************************************************)
(* The files an import is done with.                                       *)
(***************************************************************************)

(* A step of a request that goes on: it is done with no file but the one   *)
(* whose row it commits.                                                   *)
LEMMA GivenUpDone ==
    ASSUME TypeInv, NEW a \in Actors, NEW q \in TaskRecord, Becomes(a, GiveUp(q)), q.file \in Files,
           q.op = "import" => q.todo \subseteq q.asked /\ q.serial # 0
    PROVE  actors'[a].op = "idle" \/ DoneWith(actors'[a]) \subseteq DoneWith(q)
<1>1. actors'[a] = GiveUp(q)
  BY DEF TypeInv, TypeOK, Becomes
<1> QED
  BY <1>1, GiveUpProper, IdleProper DEF DoneWith

LEMMA PickFileDone ==
    ASSUME TypeInv, NEW a \in Actors, NEW f \in Files, PickFile(a, f)
    PROVE  actors'[a].op = "idle" \/ DoneWith(actors'[a]) \subseteq DoneWith(actors[a])
<1> DEFINE q == [actors[a] EXCEPT !.file = f, !.todo = @ \ {f}]
<1>1. /\ actors[a] \in TaskRecord /\ actors \in [Actors -> TaskRecord] /\ f \in actors[a].todo
      /\ actors[a].op = "import" /\ actors[a].todo \subseteq actors[a].asked /\ actors[a].serial # 0
      /\ actors[a].file = NoFile /\ NoFile \notin actors[a].asked
  <2>1. actors[a] \in TaskRecord /\ actors[a].pc = "next" /\ actors[a].file = NoFile
    BY ProperActors, Places DEF PickFile, Does
  <2>2. NoFile \notin actors[a].asked
    BY <2>1, DataAssumption DEF TaskRecord
  <2> QED
    BY <2>1, <2>2, ProperActors, Places DEF PickFile, TypeInv, TypeOK
<1>2. q \in TaskRecord
  BY <1>1 DEF TaskRecord
<1>3. /\ q.op = "import" /\ q.file = f /\ q.asked = actors[a].asked
      /\ q.todo = actors[a].todo \ {f} /\ q.errors = actors[a].errors /\ q.serial # 0
  BY <1>1 DEF TaskRecord
<1>4. Becomes(a, GiveUp(q)) \/ \E start : Becomes(a, [q EXCEPT !.pc = "fetch", !.start = start])
  BY DEF PickFile
<1> HIDE DEF q
<1>5. DoneWith(q) \subseteq DoneWith(actors[a])
  BY <1>1, <1>3 DEF DoneWith
<1>6. CASE Becomes(a, GiveUp(q))
  BY <1>1, <1>2, <1>3, <1>5, <1>6, GivenUpDone
<1>7. ASSUME NEW start, Becomes(a, [q EXCEPT !.pc = "fetch", !.start = start])
      PROVE  DoneWith(actors'[a]) \subseteq DoneWith(q)
  <2>1. actors'[a] = [q EXCEPT !.pc = "fetch", !.start = start]
    BY <1>1, <1>7 DEF Becomes
  <2>2. /\ actors'[a].asked = q.asked /\ actors'[a].todo = q.todo
        /\ actors'[a].errors = q.errors /\ actors'[a].file = q.file
    BY <1>2, <2>1 DEF TaskRecord
  <2> QED
    BY <2>2 DEF DoneWith
<1> QED
  BY <1>4, <1>5, <1>6, <1>7

LEMMA FilesDone ==
    ASSUME TypeInv, NEW a \in Actors,
           Fetch(a) \/ ReadFile(a) \/ OpenFile(a) \/ FinishFile(a) \/ Measure(a) \/ SelectRow(a)
    PROVE  actors'[a].op = "idle" \/ DoneWith(actors'[a]) \subseteq DoneWith(actors[a])
<1> DEFINE q == actors[a]
           read == [q EXCEPT !.seen = disk[q.file].rows]
<1>1. /\ q \in TaskRecord /\ q.file \in Files /\ actors \in [Actors -> TaskRecord] /\ Proper(q)
      /\ q.op = "import" => q.todo \subseteq q.asked /\ q.serial # 0
  BY ProperActors, Places
     DEF Fetch, ReadFile, OpenFile, FinishFile, Measure, SelectRow, Does, TypeInv, TypeOK
<1>2. disk[q.file].rows \in SUBSET Times
  BY <1>1 DEF TypeInv, TypeOK, DiskFile
<1>3. /\ read \in TaskRecord
      /\ read.op = q.op /\ read.asked = q.asked /\ read.todo = q.todo /\ read.errors = q.errors
      /\ read.file = q.file /\ read.serial = q.serial /\ read.pc = q.pc
  BY <1>1, <1>2 DEF TaskRecord
<1>4. ASSUME NEW r \in {q, read}, Becomes(a, GiveUp(r))
      PROVE  actors'[a].op = "idle" \/ DoneWith(actors'[a]) \subseteq DoneWith(q)
  <2> HIDE DEF read
  <2>1. DoneWith(r) = DoneWith(q)
    BY <1>3 DEF DoneWith
  <2>2. /\ r \in TaskRecord /\ r.file \in Files
        /\ r.op = "import" => r.todo \subseteq r.asked /\ r.serial # 0
    BY <1>1, <1>3
  <2> HIDE DEF q
  <2> QED
    BY <1>4, <2>1, <2>2, GivenUpDone
<1>5. ASSUME NEW r \in TaskRecord, Becomes(a, r), r.asked = q.asked, r.todo = q.todo,
             r.errors = q.errors, r.file = q.file
      PROVE  DoneWith(actors'[a]) \subseteq DoneWith(q)
  BY <1>1, <1>5 DEF Becomes, DoneWith
<1>6. ASSUME NEW r \in {q, read}, Becomes(a, AfterAppend(r)), Proper(r), r.pc \in {"read", "writing"}
      PROVE  DoneWith(actors'[a]) \subseteq DoneWith(q)
  <2> HIDE DEF read
  <2>1. r \in TaskRecord /\ r.asked = q.asked /\ r.todo = q.todo /\ r.errors = q.errors
        /\ r.file = q.file
    BY <1>1, <1>3
  <2> HIDE DEF q
  <2> QED
    BY <1>5, <1>6, <2>1, AfterAppendProper DEF Proper
<1>7. ASSUME NEW row, NEW pc, NEW page,
             \/ actors'[a] = [q EXCEPT !.page = page, !.pc = pc]
             \/ actors'[a] = [q EXCEPT !.pc = pc]
             \/ actors'[a] = [q EXCEPT !.measured = row, !.pc = pc]
      PROVE  DoneWith(actors'[a]) \subseteq DoneWith(q)
  <2>1. /\ actors'[a].asked = q.asked /\ actors'[a].todo = q.todo
        /\ actors'[a].errors = q.errors /\ actors'[a].file = q.file
    BY <1>1, <1>7 DEF TaskRecord
  <2> QED
    BY <2>1 DEF DoneWith
<1>8. CASE Becomes(a, GiveUp(q))
  BY <1>4, <1>8
<1>9. CASE Fetch(a)
  <2>1. actors'[a] = [q EXCEPT !.page = Page(q), !.pc = IF Page(q) = {} THEN "measure" ELSE "read"]
    BY <1>1, <1>9 DEF Fetch, Becomes
  <2> QED
    BY <1>7, <2>1
<1>10. CASE OpenFile(a)
  BY <1>7, <1>10, OpenFileMoves
<1>11. CASE Measure(a) /\ ~Becomes(a, GiveUp(q))
  <2>1. actors'[a] = [q EXCEPT !.measured = Describe(q.row.id, disk[q.file].rows),
                               !.pc = IF q.op = "import" THEN "select" ELSE "commit"]
    BY <1>1, <1>11 DEF Measure, Becomes
  <2> QED
    BY <1>7, <2>1
<1>12. CASE SelectRow(a) /\ ~Becomes(a, GiveUp(q))
  <2> DEFINE row == market_data_files[q.file]
             id == IF row.id = 0 THEN q.serial ELSE row.id
  <2>1. actors'[a] = [q EXCEPT !.row = row, !.pc = "commit", !.measured.id = id]
    BY <1>1, <1>12 DEF SelectRow, Becomes
  <2> HIDE DEF row, id
  <2>2. /\ actors'[a].asked = q.asked /\ actors'[a].todo = q.todo
        /\ actors'[a].errors = q.errors /\ actors'[a].file = q.file
    BY <1>1, <2>1 DEF TaskRecord
  <2> QED
    BY <2>2 DEF DoneWith
<1>15. CASE FinishFile(a)
  BY <1>1, <1>6, <1>15 DEF FinishFile, Does
<1>16. CASE ReadFile(a)
  <2>1. /\ q.pc = "read"
        /\ \/ Becomes(a, GiveUp(read)) \/ Becomes(a, AfterAppend(read))
           \/ Becomes(a, [read EXCEPT !.pc = "write"])
    BY <1>16 DEF ReadFile, Does
  <2>2. CASE Becomes(a, GiveUp(read))
    BY <1>4, <2>2
  <2>3. CASE Becomes(a, AfterAppend(read))
    <3>1. /\ read.page = q.page /\ read.row = q.row /\ read.unlinked = q.unlinked
      BY <1>1 DEF TaskRecord
    <3> HIDE DEF read
    <3>2. Proper(read)
      BY <1>1, <1>3, <2>1, <3>1 DEF Proper, Shape
    <3> QED
      BY <1>3, <1>6, <2>1, <2>3, <3>2
  <2>4. CASE Becomes(a, [read EXCEPT !.pc = "write"])
    <3> HIDE DEF read
    <3> DEFINE write == [read EXCEPT !.pc = "write"]
    <3>1. write \in TaskRecord /\ write.asked = read.asked /\ write.todo = read.todo
          /\ write.errors = read.errors /\ write.file = read.file
      BY <1>3 DEF TaskRecord
    <3> HIDE DEF write
    <3> QED
      BY <1>3, <1>5, <2>4, <3>1 DEF write
  <2> QED
    BY <2>1, <2>2, <2>3, <2>4
<1> QED
  BY <1>8, <1>9, <1>10, <1>11, <1>12, <1>15, <1>16

(* A commit by a request that is up to date describes the file.            *)
LEMMA CommitDescribes ==
    ASSUME TypeInv, NEW a \in Actors, CommitRow(a), UpToDate(actors[a]),
           NEW f, f = actors[a].file
    PROVE  Described(f)'
<1> DEFINE q == actors[a]
<1>1. q \in TaskRecord /\ q.pc = "commit" /\ f \in Files /\ UNCHANGED disk
  BY ProperActors, Places DEF CommitRow, Does
<1>2. market_data_files \in [Files -> FileRow] /\ market_data_files[f] \in FileRow
  BY <1>1 DEF TypeInv, TypeOK
<1>3. /\ disk[f].state = "whole" /\ q.measured = Describe(q.measured.id, disk[f].rows)
      /\ q.row = market_data_files[f] /\ q.measured.id # 0
  BY <1>1 DEF UpToDate
<1>4. q.measured \in FileRow
  BY <1>1 DEF TaskRecord
<1>5. UpdateRow(market_data_files[f], q.row, q.measured) = q.measured
  BY <1>2, <1>3, <1>4, UpdateRowType
<1>6. market_data_files'[f] = q.measured
  BY <1>1, <1>2, <1>5 DEF CommitRow, Committed
<1>7. disk'[f] = disk[f]
  BY <1>1
<1>8. market_data_files'[f] = Describe(market_data_files'[f].id, disk'[f].rows)
  BY <1>3, <1>6, <1>7
<1> QED
  BY <1>3, <1>6, <1>7, <1>8 DEF Described

LEMMA SameDescribed ==
    ASSUME NEW f, disk'[f] = disk[f], market_data_files'[f] = market_data_files[f]
    PROVE  Described(f)' <=> Described(f)
BY DEF Described, NoRow, Describe

LEMMA StepDone ==
    ASSUME TypeInv, NEW a \in Actors, Step(a)
    PROVE  \/ actors'[a].op = "idle"
           \/ DoneWith(actors'[a]) \subseteq DoneWith(actors[a])
           \/ /\ CommitRow(a)
              /\ DoneWith(actors'[a]) \subseteq DoneWith(actors[a]) \cup {actors[a].file}
<1> DEFINE q == actors[a]
<1>0. q \in TaskRecord /\ actors \in [Actors -> TaskRecord]
  BY DEF TypeInv, TypeOK
<1>1. CASE EndImport(a)
  BY <1>1, EndImportMoves
<1>2. CASE CommitRow(a)
  <2>1. actors'[a] = IF q.op = "import" THEN NextFile(q) ELSE Idle
    BY <1>0, <1>2 DEF CommitRow, Becomes
  <2>2. CASE q.op = "import"
    <3>1. /\ actors'[a].asked = q.asked /\ actors'[a].todo = q.todo
          /\ actors'[a].errors = q.errors
      BY <1>0, <2>1, <2>2 DEF NextFile, TaskRecord
    <3> QED
      BY <1>2, <3>1 DEF DoneWith
  <2>3. CASE q.op # "import"
    BY <2>1, <2>3, IdleProper
  <2> QED
    BY <2>2, <2>3
<1>3. CASE DropRow(a) \/ DropRowFails(a)
  BY <1>0, <1>3, IdleProper DEF DropRow, DropRowFails, Becomes
<1>4. CASE RemoveFile(a) \/ RemoveFileFails(a)
  <2>1. actors'[a] = [q EXCEPT !.pc = "drop"]
    BY <1>0, <1>4, RemovesMoves DEF Removes, RemoveFileFails, Becomes
  <2>2. /\ actors'[a].asked = q.asked /\ actors'[a].todo = q.todo
        /\ actors'[a].errors = q.errors /\ actors'[a].file = q.file
    BY <1>0, <2>1 DEF TaskRecord
  <2> QED
    BY <2>2 DEF DoneWith
<1>5. CASE GaveUp(a)
  BY <1>5, IdleProper DEF GaveUp
<1> QED
  BY <1>1, <1>2, <1>3, <1>4, <1>5, PickFileDone, FilesDone, FailureMoves, RemovesMoves
     DEF Step, Removes

LEMMA DoneIsUsed ==
    ASSUME NEW a \in Actors
    PROVE  DoneWith(actors[a]) \subseteq Uses(a)
BY DEF DoneWith, Uses

LEMMA ImportedFilesStep ==
    ASSUME TypeInv, Undisturbed, ImportedFilesAreDescribed, NEW a \in Actors, Step(a)
    PROVE  ImportedFilesAreDescribed'
<1>0. contested' = contested /\ a \in Busy /\ Busy' \subseteq Busy
  BY CountsUnchanged, OthersStay
<1>1. \A b \in Busy : \A f \in DoneWith(actors[b]) \ contested : Described(f)
  BY DEF ImportedFilesAreDescribed, DoneWith
<1>2. ASSUME NEW b \in Busy', NEW f \in DoneWith(actors'[b]) \ contested, f \in Files, b = a
      PROVE  Described(f)'
  <2>1. f \in Uses(a) /\ actors'[a].op # "idle"
    BY <1>2, DoneIsUsed, OthersStay DEF Busy, DoneWith, Uses
  <2>2. UpToDate(actors[a])
    BY <1>0, <1>2, <2>1 DEF Undisturbed
  <2>3. CASE f \in DoneWith(actors[a])
    <3>1. Described(f) /\ f # actors[a].file
      BY <1>0, <1>1, <1>2, <2>3 DEF DoneWith
    <3> QED
      BY <1>2, <3>1, OwnFile, SameDescribed
  <2>4. CASE f = actors[a].file /\ CommitRow(a)
    BY <2>2, <2>4, CommitDescribes
  <2> QED
    BY <1>2, <2>1, <2>3, <2>4, StepDone
<1>3. ASSUME NEW b \in Busy', NEW f \in DoneWith(actors'[b]) \ contested, f \in Files, b # a
      PROVE  Described(f)'
  <2>1. b \in Busy /\ b \in Actors /\ Uses(b)' = Uses(b)
    BY <1>3, <1>0, OthersStay DEF Busy
  <2>2. f \in Uses(b)
    BY <2>1, <1>3 DEF DoneWith, Uses
  <2>3. Alone(b) /\ Uses(a) \cap Uses(b) = {}
    BY <1>0, <1>3, <2>1, <2>2 DEF Undisturbed, Alone
  <2>4. actors'[b] = actors[b]
    BY <1>3, <2>1, <2>3, OthersStay
  <2>5. Described(f)
    BY <1>1, <1>3, <2>1, <2>4
  <2>6. f # actors[a].file
    BY <1>3, <2>2, <2>3, FileUsed
  <2> QED
    BY <1>3, <2>5, <2>6, OwnFile, SameDescribed
<1>4. \A b \in Busy' : DoneWith(actors'[b]) \subseteq Files
  <2> TAKE b \in Busy'
  <2>1. actors'[b] \in TaskRecord
    BY ActorsTypes DEF Next, Busy
  <2> QED
    BY <2>1 DEF DoneWith, TaskRecord
<1> QED
  BY <1>0, <1>2, <1>3, <1>4 DEF ImportedFilesAreDescribed, DoneWith

LEMMA ImportedFilesNext ==
    ASSUME TypeInv, Undisturbed, ImportedFilesAreDescribed, [Next]_vars
    PROVE  ImportedFilesAreDescribed'
<1>1. ASSUME UNCHANGED <<disk, market_data_files, actors, contested>>
      PROVE  ImportedFilesAreDescribed'
  BY <1>1 DEF ImportedFilesAreDescribed, Busy, Described, Describe, NoRow
<1>2. CASE OpenCandle
  BY <1>1, <1>2 DEF OpenCandle, counts
<1>3. CASE Crash
  BY <1>3, IdleProper DEF Crash, ImportedFilesAreDescribed, Busy
<1>4. CASE UNCHANGED vars
  BY <1>1, <1>4 DEF vars, counts
<1>5. ASSUME NEW a \in Actors, Request(a)
      PROVE  ImportedFilesAreDescribed'
  <2>1. /\ Busy' = Busy \cup {a} /\ contested \subseteq contested'
        /\ \A b \in Busy : b # a /\ actors'[b] = actors[b]
        /\ actors'[a].op = "import" => actors'[a].todo = actors'[a].asked
    BY <1>5, RequestBegins DEF Busy
  <2>2. actors'[a].op # "import" => actors'[a].asked = {}
    <3>1. Proper(actors'[a]) /\ actors'[a].op # "idle"
      BY <1>5, <2>1, RequestMoves DEF Busy
    <3> QED
      BY <3>1 DEF Proper, Shape, TaskRecord
  <2>3. \A f : Described(f)' <=> Described(f)
    BY <1>5, RequestCounts, SameDescribed
  <2>4. actors'[a].asked \ actors'[a].todo = {}
    BY <2>1, <2>2
  <2> QED
    BY <2>1, <2>3, <2>4 DEF ImportedFilesAreDescribed
<1> QED
  BY <1>2, <1>3, <1>4, <1>5, ImportedFilesStep DEF Next

(* Whatever call, write or commit fails and whatever else runs, an import  *)
(* has brought the row of every file it is done with, and reports no error *)
(* for, in line with its candles, as long as no request with a file in     *)
(* common met it.                                                          *)
THEOREM ImportedFilesCorrect == Spec => []ImportedFilesAreDescribed
<1> DEFINE IInv == TypeInv /\ Undisturbed /\ ImportedFilesAreDescribed
<1>1. Init => IInv
  <2>1. Init => Busy = {}
    BY IdleProper DEF Init, Busy
  <2> QED
    BY <2>1, TypesInit DEF Undisturbed, ImportedFilesAreDescribed
<1>2. IInv /\ [Next]_vars => IInv'
  BY TypesStep, UndisturbedNext, ImportedFilesNext
<1>3. IInv => ImportedFilesAreDescribed
  OBVIOUS
<1> QED
  BY <1>1, <1>2, <1>3, PTL DEF Spec

-----------------------------------------------------------------------------
(***************************************************************************)
(* The files nobody works on, as long as nothing fails.                    *)
(***************************************************************************)
LEMMA SameReady ==
    ASSUME NEW q, disk'[q.file] = disk[q.file],
           market_data_files'[q.file] = market_data_files[q.file], Ready(q)
    PROVE  Ready(q)'
BY DEF Ready, Described, Describe, NoRow, Absent

(* The only request with a file that is not contested.                     *)
LEMMA OnlyOne ==
    ASSUME TypeInv, Undisturbed, NEW a \in Busy, NEW f \in Uses(a), f \notin contested
    PROVE  UpToDate(actors[a]) /\ \A b \in Busy \ {a} : f \notin Uses(b) /\ actors[b].file # f
<1>1. UpToDate(actors[a]) /\ Alone(a)
  BY DEF Undisturbed
<1>2. f \in Files
  BY UsesType DEF Busy
<1> QED
  BY <1>1, <1>2, FileUsed DEF Alone, Busy

(* A file left without a failure is described by its row.                  *)
LEMMA LeftDescribed ==
    ASSUME TypeInv, NEW a \in Actors, Step(a), UpToDate(actors[a]), Ready(actors[a]),
           failures = 0, failures' = 0, NEW f \in Files, f = actors[a].file, actors'[a].file # f
    PROVE  Described(f)'
<1> DEFINE q == actors[a]
<1>0. /\ q \in TaskRecord /\ actors \in [Actors -> TaskRecord] /\ f # NoFile /\ ~q.poisoned
      /\ market_data_files \in [Files -> FileRow] /\ failures \in Nat /\ Proper(q)
  BY DataAssumption, ProperActors DEF TypeInv, TypeOK, UpToDate
<1>1. /\ ~(CallFails(a) \/ WriteFails(a) \/ WriteRemoved(a) \/ SelectRowFails(a))
      /\ ~(RemoveFileFails(a) \/ DropRowFails(a)) /\ \A g \in Files : ~PickFileFails(a, g)
  BY <1>0 DEF CallFails, WriteFails, WriteRemoved, SelectRowFails, RemoveFileFails, DropRowFails,
              PickFileFails, Fails
<1>3. ~CommitRowFails(a)
  <2>1. SUFFICES ASSUME CommitRowFails(a) PROVE FALSE
    OBVIOUS
  <2>2. ~RowFits(q)
    BY <1>0, <2>1 DEF CommitRowFails, Fails
  <2> QED
    BY <2>1, <2>2 DEF CommitRowFails, Does, UpToDate, RowFits
<1>2. ~EndImport(a) /\ \A g \in Files : ~PickFile(a, g)
  BY <1>0, Places DEF EndImport, PickFile, Does
<1>4. ~Fetch(a)
  <2>1. SUFFICES ASSUME Fetch(a) PROVE FALSE
    OBVIOUS
  <2> DEFINE pc == IF Page(q) = {} THEN "measure" ELSE "read"
  <2>2. actors'[a] = [q EXCEPT !.page = Page(q), !.pc = pc]
    BY <1>0, <2>1 DEF Fetch, Becomes
  <2> HIDE DEF pc
  <2> QED
    BY <1>0, <2>2 DEF TaskRecord
<1>5. ~ReadFile(a)
  <2>1. SUFFICES ASSUME ReadFile(a) PROVE FALSE
    OBVIOUS
  <2> DEFINE read == [q EXCEPT !.seen = disk[q.file].rows]
  <2>2. q.pc = "read" /\ disk[q.file].state # "torn"
    BY <2>1 DEF ReadFile, Does, Ready
  <2>3. disk[q.file].rows \in SUBSET Times
    BY <1>0 DEF TypeInv, TypeOK, DiskFile
  <2>4. /\ read \in TaskRecord /\ read.file = f /\ read.op = q.op /\ read.pc = q.pc
        /\ read.asked = q.asked /\ read.todo = q.todo /\ read.page = q.page
        /\ read.serial = q.serial /\ read.row = q.row /\ read.unlinked = q.unlinked
    BY <1>0, <2>3 DEF TaskRecord
  <2>5. Becomes(a, AfterAppend(read)) \/ Becomes(a, [read EXCEPT !.pc = "write"])
    BY <1>0, <2>1, <2>2, <2>4 DEF ReadFile
  <2> HIDE DEF read
  <2>6. Proper(read)
    BY <1>0, <2>2, <2>4 DEF Proper, Shape
  <2>7. AfterAppend(read).file = f
    BY <2>2, <2>4, <2>6, AfterAppendProper
  <2>8. [read EXCEPT !.pc = "write"].file = f
    BY <2>4 DEF TaskRecord
  <2> QED
    BY <1>0, <2>5, <2>7, <2>8 DEF Becomes
<1>6. ~OpenFile(a) /\ ~FinishFile(a)
  <2>1. q.pc = "writing" => AfterAppend(q).file = f
    BY <1>0, AfterAppendProper
  <2>2. [q EXCEPT !.pc = "writing"].file = f
    BY <1>0 DEF TaskRecord
  <2>3. OpenFile(a) => actors'[a].file = f
    BY <2>2, OpenFileMoves
  <2>4. FinishFile(a) => actors'[a].file = f
    BY <2>1, FinishFileMoves DEF FinishFile, Does
  <2> QED
    BY <2>3, <2>4
<1>7. ~RemoveFile(a)
  <2>1. [q EXCEPT !.pc = "drop"].file = f
    BY <1>0 DEF TaskRecord
  <2> QED
    BY <2>1, RemovesMoves DEF Removes
<1>8. ~SelectRow(a)
  <2>1. SUFFICES ASSUME SelectRow(a) PROVE FALSE
    OBVIOUS
  <2> DEFINE row == market_data_files[q.file]
             id == IF row.id = 0 THEN q.serial ELSE row.id
  <2>2. actors'[a] = [q EXCEPT !.row = row, !.pc = "commit", !.measured.id = id]
    BY <1>0, <2>1 DEF SelectRow, Becomes
  <2> HIDE DEF row, id
  <2> QED
    BY <1>0, <2>2 DEF TaskRecord
<1>9. CASE Measure(a)
  <2> DEFINE pc == IF q.op = "import" THEN "select" ELSE "commit"
             row == Describe(q.row.id, disk[q.file].rows)
  <2>1. ASSUME disk[q.file].state = "whole" PROVE FALSE
    <3>1. actors'[a] = [q EXCEPT !.measured = row, !.pc = pc]
      BY <1>0, <1>9, <2>1 DEF Measure, Becomes
    <3> HIDE DEF row, pc
    <3> QED
      BY <1>0, <3>1 DEF TaskRecord
  <2>2. disk[f].state \in {"absent", "torn", "whole"}
    BY DEF TypeInv, TypeOK, DiskFile
  <2>3. disk[f].state = "absent" /\ market_data_files[f] = NoRow
    BY <1>9, <2>1, <2>2 DEF Measure, Does, Ready
  <2>4. Described(f)
    BY <2>3 DEF Described
  <2> QED
    BY <1>9, <2>4, SameDescribed DEF Measure
<1>10. CASE CommitRow(a)
  BY <1>10, CommitDescribes
<1>11. CASE DropRow(a)
  <2>1. q.pc = "drop" /\ q.op = "delete"
    BY <1>0, <1>11, Places DEF DropRow, Does
  <2>2. disk[f] = Absent /\ RowFits(q)
    BY <2>1 DEF Ready, UpToDate, RowFits
  <2>3. market_data_files'[f] = NoRow /\ disk'[f] = Absent
    BY <1>0, <1>11, <2>2 DEF DropRow, Dropped
  <2> QED
    BY <2>3 DEF Described, Absent, NoRow
<1> QED
  BY <1>1, <1>2, <1>3, <1>4, <1>5, <1>6, <1>7, <1>8, <1>9, <1>10, <1>11 DEF Step

(* A file that is picked is described, since nobody else has it at hand.   *)
LEMMA PickedReady ==
    ASSUME TypeInv, NEW a \in Actors, NEW f \in Files, PickFile(a, f), Described(f),
           actors'[a].file \in Files
    PROVE  Ready(actors[a])'
<1> DEFINE q == [actors[a] EXCEPT !.file = f, !.todo = @ \ {f}]
<1>1. /\ actors[a] \in TaskRecord /\ actors \in [Actors -> TaskRecord]
      /\ actors[a].op = "import" /\ actors[a].todo \subseteq actors[a].asked /\ actors[a].serial # 0
  BY ProperActors, Places DEF PickFile, Does, TypeInv, TypeOK
<1>2. q \in TaskRecord
  BY <1>1 DEF TaskRecord
<1>3. q.op = "import" /\ q.file = f /\ q.todo \subseteq q.asked /\ q.serial # 0
  BY <1>1 DEF TaskRecord
<1>4. /\ UNCHANGED <<disk, market_data_files>>
      /\ \/ Becomes(a, GiveUp(q))
         \/ /\ disk[f].state # "torn"
            /\ \E start : Becomes(a, [q EXCEPT !.pc = "fetch", !.start = start])
  BY DEF PickFile
<1> HIDE DEF q
<1>5. ~Becomes(a, GiveUp(q))
  <2>1. GiveUp(q).file = NoFile
    BY <1>2, <1>3, GiveUpProper
  <2> QED
    BY <1>1, <2>1, DataAssumption DEF Becomes
<1>6. ASSUME NEW start, disk[f].state # "torn", Becomes(a, [q EXCEPT !.pc = "fetch", !.start = start])
      PROVE  Ready(actors[a])'
  <2>1. actors'[a] = [q EXCEPT !.pc = "fetch", !.start = start]
    BY <1>1, <1>6 DEF Becomes
  <2>2. actors'[a].op = "import" /\ actors'[a].pc = "fetch" /\ actors'[a].file = f
    BY <1>2, <1>3, <2>1 DEF TaskRecord
  <2>3. disk[f].state = "absent" => market_data_files[f] = NoRow
    BY DEF Described
  <2> QED
    BY <1>4, <1>6, <2>2, <2>3 DEF Ready, NoRow
<1> QED
  BY <1>4, <1>5, <1>6

LEMMA StillReady ==
    ASSUME TypeInv, NEW a \in Actors, Step(a), UpToDate(actors[a]), Alone(a), Ready(actors[a]),
           failures = 0, failures' = 0, actors[a].file \in Files, actors'[a].file = actors[a].file
    PROVE  Ready(actors[a])'
<1> DEFINE q == actors[a]
           f == actors[a].file
<1>0. /\ q \in TaskRecord /\ actors \in [Actors -> TaskRecord] /\ f # NoFile
      /\ disk \in [Files -> DiskFile] /\ failures \in Nat /\ Proper(q) /\ f \in Files
      /\ q.op = "import" => q.todo \subseteq q.asked /\ q.serial # 0
  BY DataAssumption, ProperActors, Places DEF TypeInv, TypeOK
<1>1. /\ ~(CallFails(a) \/ WriteFails(a) \/ WriteRemoved(a) \/ SelectRowFails(a))
      /\ ~(RemoveFileFails(a) \/ DropRowFails(a)) /\ \A g \in Files : ~PickFileFails(a, g)
  BY <1>0 DEF CallFails, WriteFails, WriteRemoved, SelectRowFails, RemoveFileFails, DropRowFails,
              PickFileFails, Fails
<1>3. ~CommitRowFails(a)
  <2>1. SUFFICES ASSUME CommitRowFails(a) PROVE FALSE
    OBVIOUS
  <2>2. ~RowFits(q)
    BY <1>0, <2>1 DEF CommitRowFails, Fails
  <2> QED
    BY <2>1, <2>2 DEF CommitRowFails, Does, UpToDate, RowFits
<1>2. ~EndImport(a) /\ \A g \in Files : ~PickFile(a, g)
  BY <1>0, Places DEF EndImport, PickFile, Does
<1>14. ASSUME NEW r, actors'[a] = GiveUp(r), r \in TaskRecord, r.file = f,
             r.op = "import" => r.todo \subseteq r.asked /\ r.serial # 0
      PROVE  FALSE
  BY <1>0, <1>14, GiveUpProper, IdleProper
<1>4. ASSUME actors'[a].op = q.op, actors'[a].pc \in {"fetch", "read", "write", "measure"},
             disk'[f] = disk[f], market_data_files'[f] = market_data_files[f],
             q.pc \in {"fetch", "read", "write", "measure"}
      PROVE  Ready(actors[a])'
  BY <1>4 DEF Ready, NoRow
<1>5. CASE Fetch(a)
  <2> DEFINE pc == IF Page(q) = {} THEN "measure" ELSE "read"
  <2>1. actors'[a] = [q EXCEPT !.page = Page(q), !.pc = pc]
    BY <1>0, <1>5 DEF Fetch, Becomes
  <2>2. pc \in {"measure", "read"}
    OBVIOUS
  <2> HIDE DEF pc
  <2>3. actors'[a].op = q.op /\ actors'[a].pc = pc
    BY <1>0, <2>1 DEF TaskRecord
  <2> QED
    BY <1>4, <1>5, <2>2, <2>3 DEF Fetch, Does
<1>6. CASE ReadFile(a)
  <2> DEFINE read == [q EXCEPT !.seen = disk[q.file].rows]
  <2>1. q.pc = "read"
    BY <1>6 DEF ReadFile, Does
  <2>2. disk[q.file].rows \in SUBSET Times
    BY <1>0 DEF TypeInv, TypeOK, DiskFile
  <2>3. /\ read \in TaskRecord /\ read.file = f /\ read.op = q.op /\ read.pc = q.pc
        /\ read.asked = q.asked /\ read.todo = q.todo /\ read.page = q.page
        /\ read.serial = q.serial /\ read.row = q.row /\ read.unlinked = q.unlinked
    BY <1>0, <2>2 DEF TaskRecord
  <2>4. /\ UNCHANGED <<disk, market_data_files>>
        /\ \/ Becomes(a, GiveUp(read)) \/ Becomes(a, AfterAppend(read))
           \/ Becomes(a, [read EXCEPT !.pc = "write"])
    BY <1>6 DEF ReadFile
  <2> HIDE DEF read
  <2>5. Proper(read)
    BY <1>0, <2>1, <2>3 DEF Proper, Shape
  <2>6. AfterAppend(read).op = q.op /\ AfterAppend(read).pc \in {"measure", "fetch"}
    BY <2>1, <2>3, <2>5, AfterAppendProper
  <2>7. [read EXCEPT !.pc = "write"].op = q.op /\ [read EXCEPT !.pc = "write"].pc = "write"
    BY <2>3 DEF TaskRecord
  <2>8. ~Becomes(a, GiveUp(read))
    BY <1>0, <1>14, <2>3 DEF Becomes
  <2> QED
    BY <1>0, <1>4, <2>1, <2>4, <2>6, <2>7, <2>8 DEF Becomes
<1>7. CASE OpenFile(a)
  <2>1. actors'[a].pc = "writing"
    BY <1>0, <1>7, OpenFileMoves DEF TaskRecord
  <2> QED
    BY <2>1 DEF Ready
<1>8. CASE FinishFile(a)
  <2>1. q.pc = "writing" /\ actors'[a] = AfterAppend(q)
    BY <1>8, FinishFileMoves DEF FinishFile, Does
  <2>2. actors'[a].op = q.op /\ actors'[a].pc \in {"measure", "fetch"}
    BY <1>0, <2>1, AfterAppendProper
  <2>3. ~q.unlinked /\ disk[f] = Torn
    BY <2>1 DEF UpToDate
  <2>4. Writers(f) = {a}
    <3>1. a \in Writers(f)
      BY <2>1, <2>3 DEF Writers, Does
    <3>2. \A b \in Writers(f) : b \in Busy /\ f \in Uses(b)
      BY <1>0, FileUsed, ProperActors, Places DEF Writers, Does, Busy
    <3>3. \A b \in Writers(f) : b = a
      BY <1>0, <3>2, FileUsed DEF Alone
    <3> QED
      BY <3>1, <3>3
  <2>5. disk'[f] = Whole(q.seen \cup Fresh(q))
    BY <1>0, <1>8, <2>3, <2>4 DEF FinishFile
  <2>6. disk'[f].state = "whole"
    BY <2>5 DEF Whole
  <2> QED
    BY <2>2, <2>6 DEF Ready
<1>9. CASE Measure(a)
  <2> DEFINE pc == IF q.op = "import" THEN "select" ELSE "commit"
             row == Describe(q.row.id, disk[q.file].rows)
  <2>1. disk[q.file].state = "whole" /\ Becomes(a, [q EXCEPT !.measured = row, !.pc = pc])
        /\ UNCHANGED disk
    BY <1>0, <1>14, <1>9 DEF Measure, Becomes
  <2>2. actors'[a] = [q EXCEPT !.measured = row, !.pc = pc]
    BY <1>0, <2>1 DEF Becomes
  <2>3. pc \in {"select", "commit"}
    OBVIOUS
  <2> HIDE DEF row, pc
  <2>4. actors'[a].pc = pc
    BY <1>0, <2>2 DEF TaskRecord
  <2> QED
    BY <2>1, <2>3, <2>4 DEF Ready
<1>10. CASE SelectRow(a)
  <2> DEFINE row == market_data_files[q.file]
             id == IF row.id = 0 THEN q.serial ELSE row.id
  <2>1. q.pc = "select" /\ q.op = "import"
    BY <1>0, <1>10, Places DEF SelectRow, Does
  <2>2. actors'[a] = [q EXCEPT !.row = row, !.pc = "commit", !.measured.id = id]
    BY <1>0, <1>14, <1>10, <2>1 DEF SelectRow, Becomes
  <2> HIDE DEF row, id
  <2>3. actors'[a].op = q.op /\ actors'[a].pc = "commit"
    BY <1>0, <2>2 DEF TaskRecord
  <2> QED
    BY <2>1, <2>3 DEF Ready
<1>11. CASE CommitRow(a)
  <2>1. actors'[a] = IF q.op = "import" THEN NextFile(q) ELSE Idle
    BY <1>0, <1>11 DEF CommitRow, Becomes
  <2>2. NextFile(q).file = NoFile
    BY <1>0 DEF NextFile, TaskRecord
  <2> QED
    BY <1>0, <2>1, <2>2, IdleProper
<1>12. CASE RemoveFile(a)
  <2>1. actors'[a].pc = "drop" /\ actors'[a].op = "delete"
    BY <1>0, <1>12, RemovesMoves, Places DEF Removes, RemoveFile, Does, TaskRecord
  <2>2. disk'[f] = Absent
    BY <1>0, <1>12 DEF RemoveFile, Unlink
  <2> QED
    BY <2>1, <2>2 DEF Ready, Absent
<1>13. CASE DropRow(a)
  BY <1>0, <1>13, IdleProper DEF DropRow, Becomes
<1> QED
  BY <1>1, <1>2, <1>3, <1>5, <1>6, <1>7, <1>8, <1>9, <1>10, <1>11, <1>12, <1>13 DEF Step

(* A thread that has another file at hand has picked it.                   *)
LEMMA Repicked ==
    ASSUME TypeInv, NEW a \in Actors, Step(a), NEW f \in Files, actors'[a].file = f,
           actors[a].file # f
    PROVE  PickFile(a, f)
<1>0. actors[a] \in TaskRecord /\ actors \in [Actors -> TaskRecord] /\ f # NoFile
  BY DataAssumption DEF TypeInv, TypeOK
<1>1. ~Removes(a) /\ ~GaveUp(a)
  BY <1>0, RemovesMoves, IdleProper DEF GaveUp
<1>2. actors[a].pc = "next"
  BY <1>0, <1>1, StepMoves DEF Moves
<1>3. EndImport(a) \/ \E g \in Files : PickFile(a, g)
  BY <1>1, <1>2, FailureMoves
     DEF Step, Removes, Fetch, ReadFile, OpenFile, FinishFile, Measure, SelectRow, CommitRow,
         RemoveFileFails, DropRow, DropRowFails, Does
<1>4. ~EndImport(a)
  <2>1. [Idle EXCEPT !.asked = actors[a].asked, !.errors = actors[a].errors, !.status = "done"].file
            = NoFile
    BY DEF Idle
  <2> QED
    BY <1>0, <2>1 DEF EndImport, Becomes
<1>5. PICK g \in Files : PickFile(a, g)
  BY <1>3, <1>4
<1> DEFINE q == [actors[a] EXCEPT !.file = g, !.todo = @ \ {g}]
<1>6. /\ q \in TaskRecord /\ q.op = actors[a].op /\ q.file = g /\ q.serial = actors[a].serial
      /\ q.todo \subseteq actors[a].todo /\ q.asked = actors[a].asked
  BY <1>0 DEF TaskRecord
<1>7. actors[a].op = "import" /\ actors[a].todo \subseteq actors[a].asked /\ actors[a].serial # 0
  BY <1>2, ProperActors, Places
<1>8. \/ actors'[a] = GiveUp(q)
      \/ \E start : actors'[a] = [q EXCEPT !.pc = "fetch", !.start = start]
  BY <1>0, <1>5 DEF PickFile, Becomes
<1> HIDE DEF q
<1>9. GiveUp(q).file = NoFile
  BY <1>6, <1>7, GiveUpProper
<1>10. \A start : [q EXCEPT !.pc = "fetch", !.start = start].file = g
  BY <1>6 DEF TaskRecord
<1> QED
  BY <1>0, <1>5, <1>8, <1>9, <1>10

LEMMA QuietStep ==
    ASSUME TypeInv, Undisturbed, Quiet, NEW a \in Actors, Step(a)
    PROVE  Quiet'
<1>1. SUFFICES ASSUME failures' = 0 /\ faults' = 0
               PROVE  /\ \A f \in Files \ (contested' \cup InHand') : Described(f)'
                      /\ \A b \in Busy' : actors'[b].file \in Files \ contested' =>
                                            Ready(actors[b])'
  BY DEF Quiet
<1>2. failures = 0 /\ faults = 0 /\ failures' = failures /\ contested' = contested
  BY <1>1, CountsUnchanged DEF TypeInv, TypeOK
<1>3. /\ \A f \in Files \ (contested \cup InHand) : Described(f)
      /\ \A b \in Busy : actors[b].file \in Files \ contested => Ready(actors[b])
  BY <1>2 DEF Quiet
<1>4. /\ a \in Busy /\ Busy' \subseteq Busy /\ Uses(a)' \subseteq Uses(a)
      /\ \A b \in Actors \ {a} : b \in Busy' <=> b \in Busy
      /\ Busy \subseteq Actors
  BY OthersStay DEF Busy
<1>5. \A b \in Busy \ {a} : actors'[b].file = actors[b].file
  <2> TAKE b \in Busy \ {a}
  <2>0. actors \in [Actors -> TaskRecord] /\ b \in Actors
    BY DEF TypeInv, TypeOK, Busy
  <2>1. CASE Moves(a)
    BY <2>0, <2>1 DEF Moves, Becomes
  <2>2. CASE Removes(a)
    <3>1. [actors[b] EXCEPT !.unlinked = TRUE].file = actors[b].file
      BY <2>0 DEF TaskRecord
    <3> QED
      BY <2>0, <2>2, <3>1, RemovesMoves
  <2> QED
    BY <2>1, <2>2, StepMoves
<1>6. ASSUME NEW f \in Files \ (contested' \cup InHand') PROVE Described(f)'
  <2>1. CASE f = actors[a].file
    <3>1. f \in Uses(a)
      BY <1>6, <2>1, FileUsed
    <3>2. UpToDate(actors[a]) /\ \A b \in Busy \ {a} : actors[b].file # f
      BY <1>2, <1>4, <1>6, <3>1, OnlyOne
    <3>3. Ready(actors[a])
      BY <1>2, <1>3, <1>4, <1>6, <2>1
    <3>4. CASE actors'[a].file = f
      <4>1. a \notin Busy'
        BY <1>6, <3>4 DEF InHand
      <4>2. Proper(actors'[a]) /\ actors'[a].op = "idle"
        BY <1>4, <4>1, ActorsTypes DEF Next, Busy
      <4> QED
        BY <1>6, <3>4, <4>2, DataAssumption DEF Proper, Shape
    <3>5. CASE actors'[a].file # f
      BY <1>1, <1>2, <1>6, <2>1, <3>2, <3>3, <3>5, LeftDescribed
    <3> QED
      BY <3>4, <3>5
  <2>2. CASE f # actors[a].file
    <3>1. f \notin InHand
      BY <1>4, <1>5, <1>6, <2>2 DEF InHand
    <3> QED
      BY <1>2, <1>3, <1>6, <2>2, <3>1, OwnFile, SameDescribed
  <2> QED
    BY <2>1, <2>2
<1>7. ASSUME NEW b \in Busy', actors'[b].file \in Files \ contested'
      PROVE  Ready(actors[b])'
  <2> DEFINE f == actors'[b].file
  <2>1. b \in Busy /\ b \in Actors /\ f \in Uses(b)' /\ f \notin contested /\ f # NoFile
    BY <1>2, <1>4, <1>7, DataAssumption DEF Uses
  <2>2. f \in Uses(b)
    BY <1>4, <2>1, OthersStay
  <2>3. UpToDate(actors[b]) /\ Alone(b) /\ \A c \in Busy \ {b} : actors[c].file # f
    BY <2>1, <2>2, OnlyOne DEF Undisturbed
  <2>4. CASE b # a
    <3>1. actors'[b] = actors[b]
      <4>1. Uses(a) \cap Uses(b) = {}
        BY <1>4, <2>3, <2>4 DEF Alone
      <4> QED
        BY <2>1, <2>4, <4>1, OthersStay
    <3>2. actors[b].file = f /\ f # actors[a].file /\ Ready(actors[b])
      BY <1>2, <1>3, <1>4, <1>7, <2>1, <2>3, <2>4, <3>1
    <3>3. Ready(actors[b])'
      BY <1>7, <3>1, <3>2, OwnFile DEF Ready, Described, Describe, NoRow, Absent
    <3> QED
      BY <3>3
  <2>5. CASE b = a /\ actors[a].file = f
    <3>1. Ready(actors[a])
      BY <1>2, <1>3, <1>4, <1>7, <2>5
    <3> QED
      BY <1>1, <1>2, <1>7, <2>3, <2>5, <3>1, StillReady
  <2>6. CASE b = a /\ actors[a].file # f
    <3>1. PickFile(a, f)
      BY <1>7, <2>6, Repicked
    <3>2. Described(f)
      BY <1>3, <1>7, <1>2, <2>3, <2>6 DEF InHand
    <3> QED
      BY <1>7, <2>6, <3>1, <3>2, PickedReady
  <2> QED
    BY <2>4, <2>5, <2>6
<1> QED
  BY <1>6, <1>7

LEMMA QuietRequest ==
    ASSUME TypeInv, Undisturbed, Quiet, NEW a \in Actors, Request(a)
    PROVE  Quiet'
<1>1. SUFFICES ASSUME failures' = 0 /\ faults' = 0
               PROVE  /\ \A f \in Files \ (contested' \cup InHand') : Described(f)'
                      /\ \A b \in Busy' : actors'[b].file \in Files \ contested' =>
                                            Ready(actors[b])'
  BY DEF Quiet
<1>2. /\ UNCHANGED <<disk, market_data_files>> /\ failures = 0 /\ faults = 0
      /\ \A f : Described(f)' <=> Described(f)
  BY <1>1, RequestCounts, SameDescribed
<1>3. /\ \A f \in Files \ (contested \cup InHand) : Described(f)
      /\ \A b \in Busy : actors[b].file \in Files \ contested => Ready(actors[b])
  BY <1>2 DEF Quiet
<1>4. /\ a \notin Busy /\ Busy' = Busy \cup {a} /\ contested \subseteq contested'
      /\ \A b \in Busy : b # a /\ b \in Actors /\ actors'[b] = actors[b]
      /\ \A b \in Busy : \/ Uses(a)' \cap Uses(b) = {}
                         \/ Uses(a)' \subseteq contested' /\ Uses(b) \subseteq contested'
      /\ actors'[a].file = NoFile \/ market_data_files[actors'[a].file].id # 0
  BY RequestBegins DEF Busy
<1>5. InHand \subseteq InHand'
  BY <1>4 DEF InHand
<1>6. ASSUME NEW b \in Busy, actors'[b].file \in Files \ contested'
      PROVE  Ready(actors[b])'
  <2>1. actors'[b] = actors[b] /\ Ready(actors[b])
    BY <1>3, <1>4, <1>6
  <2> QED
    BY <1>2, <2>1 DEF Ready, Described, Describe, NoRow, Absent
<1>7. ASSUME NEW f \in Files \ contested', f = actors'[a].file PROVE Ready(actors[a])'
  <2>1. f \in Uses(a)' /\ f # NoFile
    BY <1>7, DataAssumption DEF Uses
  <2>2. f \notin InHand
    <3>1. \A b \in Busy : f \notin Uses(b)
      BY <1>4, <1>7, <2>1
    <3> QED
      BY <1>4, <1>7, <3>1, FileUsed DEF InHand
  <2>3. Described(f) /\ market_data_files[f].id # 0
    BY <1>3, <1>4, <1>7, <2>1, <2>2
  <2>4. disk[f].state = "whole"
    BY <2>3 DEF Described, NoRow
  <2>5. actors'[a].pc \in {"next", "fetch", "remove"}
    BY RequestBegins
  <2>6. Described(f)'
    BY <1>2, <2>3
  <2>7. disk'[f].state = "whole"
    BY <1>2, <2>4
  <2> QED
    BY <1>7, <2>5, <2>6, <2>7 DEF Ready
<1> QED
  BY <1>2, <1>3, <1>4, <1>5, <1>6, <1>7

LEMMA QuietNext ==
    ASSUME TypeInv, Undisturbed, Quiet, [Next]_vars
    PROVE  Quiet'
<1>1. ASSUME UNCHANGED <<disk, market_data_files, actors, contested, failures, faults>>
      PROVE  Quiet'
  BY <1>1 DEF Quiet, InHand, Busy, Ready, Described, Describe, NoRow, Absent
<1>2. CASE OpenCandle
  BY <1>1, <1>2 DEF OpenCandle, counts
<1>3. CASE Crash
  BY <1>3 DEF Crash, Quiet, TypeInv, TypeOK
<1>4. CASE UNCHANGED vars
  BY <1>1, <1>4 DEF vars, counts
<1> QED
  BY <1>2, <1>3, <1>4, QuietStep, QuietRequest DEF Next

(* As long as nothing fails, a file nobody works on is described by its    *)
(* row, unless requests with a file in common met.                         *)
THEOREM QuietRowsCorrect == Spec => []QuietRowsDescribeFiles
<1> DEFINE IInv == TypeInv /\ Undisturbed /\ Quiet
<1>1. Init => IInv
  <2>1. Init => Busy = {}
    BY IdleProper DEF Init, Busy
  <2>2. Init => \A f \in Files : Described(f)
    BY DEF Init, Described, Absent
  <2> QED
    BY <2>1, <2>2, TypesInit DEF Undisturbed, Quiet
<1>2. IInv /\ [Next]_vars => IInv'
  BY TypesStep, UndisturbedNext, QuietNext
<1>3. IInv => QuietRowsDescribeFiles
  <2> SUFFICES ASSUME IInv PROVE QuietRowsDescribeFiles
    OBVIOUS
  <2>1. \A f \in Files : f \in InHand => f \in UNION {Uses(a) : a \in Busy}
    BY FileUsed DEF InHand, Busy
  <2> QED
    BY <2>1 DEF Quiet, QuietRowsDescribeFiles
<1> QED
  BY <1>1, <1>2, <1>3, PTL DEF Spec

-----------------------------------------------------------------------------
(***************************************************************************)
(* One request at a time and no refresh: what a file holds is an unbroken  *)
(* stretch of candles, extended at its end.                                *)
(***************************************************************************)

(* A page is a stretch that starts where it was asked to.                  *)
LEMMA PageStretch ==
    ASSUME NEW q \in TaskRecord, Proper(q), q.pc = "fetch", q.op = "import", TypeOK, Page(q) # {}
    PROVE  Page(q) = q.start .. Max(Page(q))
<1> DEFINE p == Page(q)
<1>1. p \in SUBSET Times
  BY PageType
<1>2. /\ q.start \in Nat /\ now \in Nat /\ PageSize \in Nat
      /\ p = {t \in q.start .. now : t < q.start + PageSize}
  BY DataAssumption, SetsOfTimes DEF Page, TaskRecord, TypeOK
<1> HIDE DEF p
<1>3. Max(p) \in p /\ \A y \in p : Max(p) >= y
  BY <1>1, Bounds DEF p
<1>4. Max(p) \in Nat /\ p \subseteq Nat
  BY <1>1, <1>3, SetsOfTimes
<1>5. p = q.start .. Max(p)
  BY <1>2, <1>3, <1>4
<1> QED
  BY <1>5 DEF p

(* What append_candles adds to an unbroken stretch, from a page that       *)
(* starts at its last candle or right after it.                            *)
LEMMA FreshStretch ==
    ASSUME NEW q \in TaskRecord, q.page # {}, q.page = q.start .. Max(q.page),
           q.seen # {} => q.start \in {Max(q.seen), Max(q.seen) + 1},
           Stored!Unbroken(q.seen)
    PROVE  /\ Fresh(q) = {} => q.seen # {} /\ Max(q.page) = Max(q.seen)
           /\ Fresh(q) # {} =>
                 /\ Fresh(q) = Min(Fresh(q)) .. Max(Fresh(q))
                 /\ \A t \in q.seen : t < Min(Fresh(q))
                 /\ Stored!Unbroken(q.seen \cup Fresh(q))
                 /\ Max(q.seen \cup Fresh(q)) = Max(q.page)
                 /\ {Min(Fresh(q)), Max(Fresh(q))} \subseteq Times
<1> DEFINE page == q.page  seen == q.seen  fresh == Fresh(q)  start == q.start
<1>1. /\ page \in SUBSET Times /\ seen \in SUBSET Times /\ start \in Nat /\ fresh \in SUBSET Times
      /\ fresh = {t \in page : \A s \in seen : s < t}
  BY FreshType DEF TaskRecord, Fresh
<1>2. Times \subseteq Nat
  BY SetsOfTimes
<1>3. /\ Max(page) \in page /\ \A y \in page : Max(page) >= y
      /\ Max(page) \in Nat /\ start <= Max(page)
  <2>1. page # {} /\ page = start .. Max(page)
    OBVIOUS
  <2>2. Max(page) \in page /\ \A y \in page : Max(page) >= y
    BY <1>1, <2>1, Bounds
  <2> HIDE DEF page, start
  <2>3. Max(page) \in Nat
    BY <1>1, <1>2, <2>2
  <2> QED
    BY <1>1, <2>1, <2>2, <2>3
<1>4. seen # {} => Max(seen) \in seen /\ (\A y \in seen : Max(seen) >= y) /\ Max(seen) \in Nat
  BY <1>1, <1>2, Bounds
<1> HIDE DEF page, seen, fresh, start
<1>5. page = start .. Max(page) /\ (seen # {} => start \in {Max(seen), Max(seen) + 1})
      /\ Stored!Unbroken(seen)
  BY DEF page, seen, start
<1>6. ASSUME fresh = {} PROVE seen # {} /\ Max(page) = Max(seen)
  <2>1. seen # {}
    BY <1>1, <1>3, <1>6
  <2>2. \A t \in page : t <= Max(seen)
    <3> SUFFICES ASSUME NEW t \in page, ~(t <= Max(seen)) PROVE FALSE
      OBVIOUS
    <3>1. \A s \in seen : s < t
      BY <1>1, <1>2, <1>4, <2>1
    <3> QED
      BY <1>1, <1>6, <3>1
  <2> QED
    BY <1>1, <1>2, <1>3, <1>4, <1>5, <2>1, <2>2
<1>7. ASSUME fresh # {}
      PROVE  /\ fresh = Min(fresh) .. Max(fresh)
             /\ \A t \in seen : t < Min(fresh)
             /\ Stored!Unbroken(seen \cup fresh)
             /\ Max(seen \cup fresh) = Max(page)
             /\ {Min(fresh), Max(fresh)} \subseteq Times
  <2>1. /\ Min(fresh) \in fresh /\ \A y \in fresh : Min(fresh) <= y
        /\ Max(fresh) \in fresh /\ \A y \in fresh : Max(fresh) >= y
    BY <1>1, <1>7, Bounds
  <2>2. Min(fresh) \in Nat /\ Max(fresh) \in Nat /\ fresh \subseteq Nat /\ seen \subseteq Nat
        /\ page \subseteq Nat
    BY <1>1, <1>2, <2>1
  <2>3. \A t \in seen : t < Min(fresh)
    BY <1>1, <2>1
  <2>4. \A t \in page : t >= Min(fresh) => t \in fresh
    BY <1>1, <2>2, <2>3
  <2>5. fresh = Min(fresh) .. Max(page)
    <3>1. fresh \subseteq page
      BY <1>1
    <3>2. \A t \in fresh : t \in Min(fresh) .. Max(page)
      BY <1>3, <2>1, <2>2, <3>1
    <3>4. page = start .. Max(page) /\ start \in Nat /\ Max(page) \in Nat
      BY <1>1, <1>3, <1>5
    <3>5. start <= Min(fresh)
      BY <2>1, <2>2, <3>1, <3>4
    <3>3. \A t \in Min(fresh) .. Max(page) : t \in page
      BY <2>2, <3>4, <3>5
    <3>6. \A t \in Min(fresh) .. Max(page) : t \in fresh
      BY <2>2, <2>4, <3>3, <3>4
    <3> QED
      BY <3>2, <3>6
  <2>6. Max(fresh) = Max(page)
    BY <1>3, <2>1, <2>2, <2>5
  <2>7. seen # {} => Min(fresh) <= Max(seen) + 1
    <3>1. SUFFICES ASSUME seen # {} PROVE Max(seen) + 1 \in fresh
      BY <1>4, <2>1, <2>2
    <3>2. Max(seen) + 1 \in page
      BY <1>3, <1>4, <1>5, <2>1, <2>2, <2>3, <2>5, <3>1
    <3>3. \A s \in seen : s < Max(seen) + 1
      BY <1>4, <2>2, <3>1
    <3> QED
      BY <1>1, <3>2, <3>3
  <2>8. Stored!Unbroken(seen \cup fresh)
    <3> SUFFICES ASSUME NEW s \in seen \cup fresh, NEW u \in seen \cup fresh, NEW t \in s .. u
                 PROVE  t \in seen \cup fresh
      BY DEF Stored!Unbroken
    <3>1. s \in Nat /\ u \in Nat /\ t \in Nat /\ s <= t /\ t <= u /\ Max(page) \in Nat
      BY <1>3, <2>2
    <3>2. CASE t >= Min(fresh)
      <4>1. u \in fresh
        BY <2>2, <2>3, <3>1, <3>2
      <4> QED
        BY <2>2, <2>5, <3>1, <3>2, <4>1
    <3>3. CASE t < Min(fresh)
      <4>1. s \in seen
        BY <2>2, <2>1, <3>1, <3>3
      <4>2. t <= Max(seen) /\ Max(seen) \in seen /\ Max(seen) \in Nat
        BY <1>4, <2>2, <2>7, <3>1, <3>3, <4>1
      <4>3. s .. Max(seen) \subseteq seen
        BY <1>5, <4>1, <4>2 DEF Stored!Unbroken
      <4> QED
        BY <3>1, <4>2, <4>3
    <3> QED
      BY <2>2, <3>1, <3>2, <3>3
  <2>9. Max(seen \cup fresh) = Max(page)
    <3> DEFINE rows == seen \cup fresh
    <3>1. rows \in SUBSET Times /\ rows # {}
      BY <1>1, <1>7
    <3> HIDE DEF rows
    <3>2. Max(rows) \in rows /\ \A y \in rows : Max(rows) >= y
      BY <3>1, Bounds
    <3>3. \A y \in rows : y <= Max(page)
      BY <2>1, <2>2, <2>3, <2>5, <2>6, <1>3 DEF rows
    <3>4. Max(page) \in rows
      BY <2>1, <2>6 DEF rows
    <3>5. Max(rows) \in Nat
      BY <3>1, <3>2, <1>2
    <3>6. Max(rows) = Max(page)
      BY <1>3, <3>2, <3>3, <3>4, <3>5
    <3> QED
      BY <3>6 DEF rows
  <2> QED
    BY <1>1, <2>1, <2>3, <2>5, <2>6, <2>8, <2>9
<1> QED
  BY <1>6, <1>7 DEF page, seen, fresh

(* The thread that has a file at hand is up to date, and nobody else is at *)
(* work.                                                                   *)
LEMMA NobodyElse ==
    ASSUME TypeInv, Undisturbed, OneAtATime, NEW a \in Busy
    PROVE  /\ a \in Actors /\ Busy = {a}
           /\ actors[a].file \in Files => UpToDate(actors[a])
           /\ GoesOn(actors[a])
<1>1. a \in Actors /\ Busy = {a} /\ contested = {} /\ GoesOn(actors[a])
  BY DEF OneAtATime, Busy
<1> QED
  BY <1>1, FileUsed DEF Undisturbed

(* An import leaves the file it has at hand, or goes on with its rows.     *)
LEMMA FetchGoesOn ==
    ASSUME TypeInv, NEW a \in Actors, Fetch(a), GoesOn(actors[a]),
           actors[a].op = "import", actors'[a].op = "import"
    PROVE  GoesOn(actors[a])'
<1> DEFINE q == actors[a]
<1>1. /\ q \in TaskRecord /\ q.file \in Files /\ actors \in [Actors -> TaskRecord] /\ Proper(q)
      /\ q.pc = "fetch" /\ q.todo \subseteq q.asked /\ q.serial # 0
      /\ UNCHANGED disk
  BY ProperActors, Places DEF Fetch, Does, TypeInv, TypeOK
<1>3. GoesOn(actors[a])'
  <2> DEFINE page == Page(q)
             pc == IF page = {} THEN "measure" ELSE "read"
  <2>1. actors'[a] = [q EXCEPT !.page = page, !.pc = pc]
    BY <1>1 DEF Fetch, Becomes
  <2>2. pc = "measure" \/ (pc = "read" /\ page = q.start .. Max(page))
    BY <1>1, PageStretch DEF TypeInv
  <2> HIDE DEF page, pc
  <2>3. /\ actors'[a].op = "import" /\ actors'[a].pc = pc /\ actors'[a].file = q.file
        /\ actors'[a].start = q.start /\ actors'[a].page = page
    BY <1>1, <2>1 DEF TaskRecord
  <2>4. disk'[q.file].rows # {} => q.start \in {Max(disk'[q.file].rows), Max(disk'[q.file].rows) + 1}
    BY <1>1 DEF GoesOn
  <2> QED
    BY <2>2, <2>3, <2>4 DEF GoesOn
<1> QED
  BY <1>3

(* A page that is appended, or that held nothing new.                      *)
LEMMA AppendedGoesOn ==
    ASSUME TypeInv, NEW a \in Actors, NEW q \in TaskRecord, Proper(q), q.pc \in {"read", "writing"},
           Becomes(a, AfterAppend(q)), q.op = "import",
           disk'[q.file].rows = q.seen \cup Fresh(q), q.page = q.start .. Max(q.page),
           q.seen # {} => q.start \in {Max(q.seen), Max(q.seen) + 1},
           Stored!Unbroken(q.seen)
    PROVE  GoesOn(actors[a])'
<1>1. actors'[a] = AfterAppend(q)
  BY DEF TypeInv, TypeOK, Becomes
<1>2. /\ AfterAppend(q).op = "import" /\ AfterAppend(q).file = q.file
      /\ \/ AfterAppend(q).pc = "measure"
         \/ AfterAppend(q).pc = "fetch" /\ AfterAppend(q).start = Max(q.page) + 1
  BY AfterAppendProper
<1>3. q.page # {}
  BY DEF Proper, Shape
<1>4. Max(q.seen \cup Fresh(q)) = Max(q.page)
  <2>1. Fresh(q) = {} => Max(q.seen) = Max(q.page)
    BY <1>3, FreshStretch
  <2>2. Fresh(q) # {} => Max(q.seen \cup Fresh(q)) = Max(q.page)
    BY <1>3, FreshStretch
  <2>3. Fresh(q) = {} => q.seen \cup Fresh(q) = q.seen
    OBVIOUS
  <2> QED
    BY <2>1, <2>2, <2>3
<1>5. Max(disk'[q.file].rows) = Max(q.page)
  BY <1>4
<1> QED
  BY <1>1, <1>2, <1>5 DEF GoesOn

LEMMA ReadFileGoesOn ==
    ASSUME TypeInv, NEW a \in Actors, ReadFile(a), GoesOn(actors[a]), actors[a].op = "import",
           Stored!Unbroken(disk[actors[a].file].rows)
    PROVE  GoesOn(actors[a])'
<1> DEFINE rows == disk[actors[a].file].rows
           q == [actors[a] EXCEPT !.seen = rows]
<1>1. /\ actors[a] \in TaskRecord /\ actors[a].file \in Files /\ Proper(actors[a])
      /\ actors \in [Actors -> TaskRecord] /\ actors[a].pc = "read"
      /\ actors[a].todo \subseteq actors[a].asked /\ actors[a].serial # 0
  BY ProperActors, Places DEF ReadFile, Does, TypeInv, TypeOK
<1>2. rows \in SUBSET Times
  BY <1>1 DEF TypeInv, TypeOK, DiskFile
<1>3. /\ actors[a].page = actors[a].start .. Max(actors[a].page)
      /\ rows # {} => actors[a].start \in {Max(rows), Max(rows) + 1}
  BY <1>1 DEF GoesOn
<1>4. /\ UNCHANGED disk
      /\ \/ Becomes(a, GiveUp(q))
         \/ Fresh(q) = {} /\ Becomes(a, AfterAppend(q))
         \/ Becomes(a, [q EXCEPT !.pc = "write"])
  BY DEF ReadFile
<1>5. /\ q \in TaskRecord /\ q.op = "import" /\ q.pc = "read" /\ q.file = actors[a].file
      /\ q.asked = actors[a].asked /\ q.todo = actors[a].todo /\ q.page = actors[a].page
      /\ q.serial = actors[a].serial /\ q.row = actors[a].row /\ q.unlinked = actors[a].unlinked
      /\ q.start = actors[a].start /\ q.seen = rows
  BY <1>1, <1>2 DEF TaskRecord
<1>6. disk'[actors[a].file].rows = rows
  BY <1>4
<1> HIDE DEF q
<1>7. Proper(q)
  BY <1>1, <1>5 DEF Proper, Shape
<1>8. CASE Becomes(a, GiveUp(q))
  <2>1. actors'[a] = GiveUp(q)
    BY <1>1, <1>8 DEF Becomes
  <2> QED
    BY <1>1, <1>5, <2>1, GiveUpProper DEF GoesOn
<1>9. CASE Fresh(q) = {} /\ Becomes(a, AfterAppend(q))
  <2> HIDE DEF rows
  <2>1. Stored!Unbroken(q.seen)
    BY <1>5 DEF rows
  <2>2. disk'[q.file].rows = q.seen \cup Fresh(q)
    BY <1>5, <1>6, <1>9
  <2> QED
    BY <1>3, <1>5, <1>7, <1>9, <2>1, <2>2, AppendedGoesOn
<1>10. CASE Becomes(a, [q EXCEPT !.pc = "write"])
  <2>1. actors'[a] = [q EXCEPT !.pc = "write"]
    BY <1>1, <1>10 DEF Becomes
  <2>2. /\ actors'[a].op = "import" /\ actors'[a].pc = "write" /\ actors'[a].file = actors[a].file
        /\ actors'[a].start = actors[a].start /\ actors'[a].page = actors[a].page
    BY <1>5, <2>1 DEF TaskRecord
  <2> HIDE DEF rows
  <2> QED
    BY <1>3, <1>6, <2>2 DEF GoesOn
<1> QED
  BY <1>4, <1>8, <1>9, <1>10

LEMMA WriterOf ==
    ASSUME TypeInv, Undisturbed, OneAtATime, NEW a \in Busy, NEW f \in Files
    PROVE  /\ actors[a].pc = "writing" /\ actors[a].file = f =>
                 Writers(f) = {a} /\ History(f) = actors[a].seen
           /\ ~(actors[a].pc = "writing" /\ actors[a].file = f) =>
                 Writers(f) = {} /\ History(f) = disk[f].rows
<1>1. Writers(f) \subseteq {a}
  <2>1. \A b \in Writers(f) : b \in Busy
    BY ProperActors, Places DEF Writers, Does, Busy
  <2> QED
    BY <2>1, NobodyElse
<1>2. ASSUME actors[a].pc = "writing", actors[a].file = f
      PROVE  Writers(f) = {a}
  <2>1. a \in Actors /\ ~actors[a].unlinked
    BY <1>2, NobodyElse DEF UpToDate
  <2> QED
    BY <1>1, <1>2, <2>1 DEF Writers, Does
<1>3. ASSUME ~(actors[a].pc = "writing" /\ actors[a].file = f)
      PROVE  Writers(f) = {}
  BY <1>1, <1>3 DEF Writers, Does
<1>4. Writers(f) = {a} => History(f) = actors[a].seen
  <2>1. (CHOOSE b \in {a} : TRUE) = a
    OBVIOUS
  <2>2. {a} # {}
    OBVIOUS
  <2> QED
    BY <2>1, <2>2 DEF History
<1> QED
  BY <1>2, <1>3, <1>4 DEF History

LEMMA WriteGoesOn ==
    ASSUME TypeInv, Undisturbed, OneAtATime, NEW a \in Busy, OpenFile(a) \/ FinishFile(a),
           actors[a].op = "import"
    PROVE  GoesOn(actors[a])'
<1> DEFINE q == actors[a]
<1>1. /\ q \in TaskRecord /\ q.file \in Files /\ actors \in [Actors -> TaskRecord] /\ Proper(q)
      /\ disk \in [Files -> DiskFile] /\ a \in Actors /\ UpToDate(q) /\ GoesOn(q)
      /\ Stored!Unbroken(History(q.file))
  <2>1. a \in Actors
    BY DEF Busy
  <2>2. q.file \in Files
    BY <2>1, ProperActors, Places DEF OpenFile, FinishFile, Does
  <2> QED
    BY <2>1, <2>2, ProperActors, NobodyElse DEF TypeInv, TypeOK, OneAtATime
<1>2. CASE OpenFile(a)
  <2>1. actors'[a] = [q EXCEPT !.pc = "writing"] /\ q.pc = "write"
    BY <1>1, <1>2, OpenFileMoves DEF OpenFile, Does
  <2>2. /\ actors'[a].op = "import" /\ actors'[a].pc = "writing"
        /\ actors'[a].start = q.start /\ actors'[a].page = q.page /\ actors'[a].seen = q.seen
    BY <1>1, <2>1 DEF TaskRecord
  <2>3. q.seen = disk[q.file].rows
    BY <1>1, <2>1 DEF UpToDate
  <2>4. /\ q.page = q.start .. Max(q.page)
        /\ q.seen # {} => q.start \in {Max(q.seen), Max(q.seen) + 1}
    BY <1>1, <2>1, <2>3 DEF GoesOn
  <2> QED
    BY <2>2, <2>4 DEF GoesOn
<1>3. CASE FinishFile(a)
  <2>1. q.pc = "writing" /\ ~q.unlinked /\ disk[q.file] = Torn /\ Becomes(a, AfterAppend(q))
    BY <1>1, <1>3 DEF FinishFile, Does, UpToDate
  <2>2. Writers(q.file) = {a} /\ Stored!Unbroken(q.seen)
    BY <1>1, <2>1, WriterOf
  <2>3. disk'[q.file] = Whole(q.seen \cup Fresh(q))
    BY <1>1, <1>3, <2>1, <2>2 DEF FinishFile
  <2>4. disk'[q.file].rows = q.seen \cup Fresh(q)
    BY <2>3 DEF Whole
  <2>5. /\ q.page = q.start .. Max(q.page)
        /\ q.seen # {} => q.start \in {Max(q.seen), Max(q.seen) + 1}
    BY <1>1, <2>1 DEF GoesOn
  <2> QED
    BY <1>1, <2>1, <2>2, <2>4, <2>5, AppendedGoesOn
<1> QED
  BY <1>2, <1>3

LEMMA PickFileGoesOn ==
    ASSUME TypeInv, NEW a \in Actors, NEW f \in Files, PickFile(a, f)
    PROVE  GoesOn(actors[a])'
<1> DEFINE q == [actors[a] EXCEPT !.file = f, !.todo = @ \ {f}]
<1>1. /\ actors[a] \in TaskRecord /\ actors \in [Actors -> TaskRecord]
      /\ actors[a].op = "import" /\ actors[a].todo \subseteq actors[a].asked /\ actors[a].serial # 0
  BY ProperActors, Places DEF PickFile, Does, TypeInv, TypeOK
<1>2. q \in TaskRecord
  BY <1>1 DEF TaskRecord
<1>3. q.op = "import" /\ q.file = f /\ q.todo \subseteq q.asked /\ q.serial # 0
  BY <1>1 DEF TaskRecord
<1>4. disk[f].state = "absent" => disk[f].rows = {}
  BY DEF TypeInv, ShapeOK, SoundDisk
<1>5. /\ UNCHANGED disk
      /\ \/ Becomes(a, GiveUp(q))
         \/ \E start : /\ Becomes(a, [q EXCEPT !.pc = "fetch", !.start = start])
                       /\ disk[f].rows # {} => start = Max(disk[f].rows)
  BY <1>4 DEF PickFile
<1> HIDE DEF q
<1>6. CASE Becomes(a, GiveUp(q))
  <2>1. actors'[a] = GiveUp(q)
    BY <1>1, <1>6 DEF Becomes
  <2> QED
    BY <1>2, <1>3, <2>1, GiveUpProper DEF GoesOn
<1>7. ASSUME NEW start, Becomes(a, [q EXCEPT !.pc = "fetch", !.start = start]),
             disk[f].rows # {} => start = Max(disk[f].rows)
      PROVE  GoesOn(actors[a])'
  <2>1. actors'[a] = [q EXCEPT !.pc = "fetch", !.start = start]
    BY <1>1, <1>7 DEF Becomes
  <2>2. /\ actors'[a].op = "import" /\ actors'[a].pc = "fetch" /\ actors'[a].file = f
        /\ actors'[a].start = start
    BY <1>2, <1>3, <2>1 DEF TaskRecord
  <2>3. disk'[f].rows = disk[f].rows
    BY <1>5
  <2> QED
    BY <1>7, <2>2, <2>3 DEF GoesOn
<1> QED
  BY <1>5, <1>6, <1>7

(* The row is brought in line when the candles are stored.                 *)
LEMMA RowGoesOn ==
    ASSUME TypeInv, NEW a \in Actors, Measure(a) \/ SelectRow(a) \/ CommitRow(a),
           actors[a].op = "import"
    PROVE  GoesOn(actors[a])'
<1> DEFINE q == actors[a]
<1>1. /\ q \in TaskRecord /\ q.file \in Files /\ actors \in [Actors -> TaskRecord]
      /\ q.op = "import" /\ q.todo \subseteq q.asked /\ q.serial # 0
  BY ProperActors, Places DEF Measure, SelectRow, CommitRow, Does, TypeInv, TypeOK
<1>2. ASSUME actors'[a].op = "import", actors'[a].pc \in {"next", "select", "commit"}
      PROVE  GoesOn(actors[a])'
  BY <1>2 DEF GoesOn
<1>4. CASE Becomes(a, GiveUp(q))
  <2>1. actors'[a] = GiveUp(q)
    BY <1>1, <1>4 DEF Becomes
  <2> QED
    BY <1>1, <1>2, <2>1, GiveUpProper
<1>6. CASE CommitRow(a)
  <2>1. actors'[a] = NextFile(q)
    BY <1>1, <1>6 DEF CommitRow, Becomes
  <2>2. NextFile(q).op = "import" /\ NextFile(q).pc = "next"
    BY <1>1 DEF NextFile, TaskRecord
  <2> QED
    BY <1>2, <2>1, <2>2
<1>7. CASE Measure(a) /\ ~Becomes(a, GiveUp(q))
  <2> DEFINE row == Describe(q.row.id, disk[q.file].rows)
  <2>1. actors'[a] = [q EXCEPT !.measured = row, !.pc = "select"]
    BY <1>1, <1>7 DEF Measure, Becomes
  <2> HIDE DEF row
  <2>2. actors'[a].op = "import" /\ actors'[a].pc = "select"
    BY <1>1, <2>1 DEF TaskRecord
  <2> QED
    BY <1>2, <2>2
<1>8. CASE SelectRow(a) /\ ~Becomes(a, GiveUp(q))
  <2> DEFINE row == market_data_files[q.file]
             id == IF row.id = 0 THEN q.serial ELSE row.id
  <2>1. actors'[a] = [q EXCEPT !.row = row, !.pc = "commit", !.measured.id = id]
    BY <1>1, <1>8 DEF SelectRow, Becomes
  <2> HIDE DEF row, id
  <2>2. actors'[a].op = "import" /\ actors'[a].pc = "commit"
    BY <1>1, <2>1 DEF TaskRecord
  <2> QED
    BY <1>2, <2>2
<1> QED
  BY <1>4, <1>6, <1>7, <1>8

LEMMA GoesOnStep ==
    ASSUME TypeInv, Undisturbed, OneAtATime, NEW a \in Busy, Step(a), a \in Busy'
    PROVE  GoesOn(actors[a])'
<1>1. a \in Actors /\ GoesOn(actors[a]) /\ actors[a].op # "refresh"
  BY NobodyElse DEF GoesOn
<1>2. CASE actors'[a].op # "import"
  BY <1>1, <1>2, StepMoves, RemovesMoves DEF GoesOn, Moves
<1>3. CASE actors'[a].op = "import" /\ GaveUp(a)
  BY <1>3, IdleProper DEF GaveUp, GoesOn
<1>4. CASE actors'[a].op = "import" /\ ~GaveUp(a)
  <2>1. actors[a].op = "import"
    BY <1>1, <1>4, StepMoves, RemovesMoves DEF Moves
  <2>2. ~(RemoveFile(a) \/ RemoveFileFails(a) \/ DropRow(a) \/ DropRowFails(a))
    BY <1>1, <2>1, ProperActors, Places DEF RemoveFile, RemoveFileFails, DropRow, DropRowFails, Does
  <2>3. ~EndImport(a)
    BY <1>1, <1>4, EndImportMoves
  <2>4. ASSUME ReadFile(a) PROVE Stored!Unbroken(disk[actors[a].file].rows)
    <3>1. actors[a].pc = "read" /\ actors[a].file \in Files
      BY <1>1, <2>4, ProperActors, Places DEF ReadFile, Does
    <3> QED
      BY <3>1, WriterOf DEF OneAtATime
  <2>5. ~WriteRemoved(a)
    BY <1>1, <1>4, RemovesMoves DEF Removes
  <2> QED
    BY <1>1, <1>4, <2>1, <2>2, <2>3, <2>4, <2>5, PickFileGoesOn, FetchGoesOn, ReadFileGoesOn,
       WriteGoesOn, RowGoesOn, FailureMoves DEF Step
<1> QED
  BY <1>2, <1>3, <1>4
-----------------------------------------------------------------------------
(***************************************************************************)
(* The files as Archive sees them.                                         *)
(***************************************************************************)

(* The one thread at work writes, or is to remove, the file it has.        *)
LEMMA HandOf ==
    ASSUME TypeInv, Undisturbed, OneAtATime, NEW a \in Busy
    PROVE  /\ Rewriting = IF actors[a].pc = "writing" THEN {actors[a].file} ELSE {}
           /\ Deleting = IF actors[a].pc = "remove" THEN {actors[a].file} ELSE {}
<1>1. a \in Actors /\ Proper(actors[a]) /\ Busy = {a}
  BY NobodyElse, ProperActors
<1>2. \A b \in Actors : actors[b].pc = "remove" => b = a
  BY <1>1, ProperActors, Places DEF Busy
<1>3. Deleting = IF actors[a].pc = "remove" THEN {actors[a].file} ELSE {}
  BY <1>1, <1>2 DEF Deleting, Does
<1>4. actors[a].pc = "writing" => actors[a].file \in Files
  BY <1>1, Places
<1>5. \A f \in Files : Writers(f) # {} <=> actors[a].pc = "writing" /\ actors[a].file = f
  BY WriterOf
<1>6. Rewriting = IF actors[a].pc = "writing" THEN {actors[a].file} ELSE {}
  BY <1>4, <1>5 DEF Rewriting
<1> QED
  BY <1>3, <1>6

LEMMA StepWriters ==
    ASSUME TypeInv, Undisturbed, OneAtATime, NEW a \in Busy, Step(a), NEW f \in Files
    PROVE  /\ ~(OpenFile(a) /\ f = actors[a].file) => Writers(f)' = {}
           /\ OpenFile(a) /\ f = actors[a].file =>
                 Writers(f)' = {a} /\ History(f)' = actors[a].seen
<1>1. a \in Actors /\ Busy = {a} /\ Busy' \subseteq {a}
  BY NobodyElse, OthersStay
<1>2. Writers(f)' \subseteq {a}
  <2>1. \A b \in Writers(f)' : b \in Busy'
    BY ActorsTypes, Places DEF Writers, Does, Busy, Next
  <2> QED
    BY <1>1, <2>1
<1>3. ASSUME actors'[a].pc = "writing" PROVE OpenFile(a)
  <2>1. ~Removes(a)
    BY <1>1, <1>3, RemovesMoves
  <2>2. actors[a].pc = "write"
    BY <1>1, <1>3, <2>1, StepMoves DEF Moves
  <2>3. ~GaveUp(a)
    BY <1>3, IdleProper DEF GaveUp
  <2>4. ~CallFails(a)
    BY <1>1, <2>3, FailureMoves
  <2> QED
    BY <2>2, <2>4
       DEF Step, PickFile, PickFileFails, EndImport, Fetch, ReadFile, FinishFile, WriteFails,
           WriteRemoved, Measure, SelectRow, SelectRowFails, CommitRow, CommitRowFails,
           RemoveFile, RemoveFileFails, DropRow, DropRowFails, Does
<1>4. ASSUME OpenFile(a)
      PROVE  /\ actors'[a].pc = "writing" /\ actors'[a].file = actors[a].file
             /\ actors'[a].seen = actors[a].seen /\ ~actors'[a].unlinked
  <2>1. actors'[a] = [actors[a] EXCEPT !.pc = "writing"] /\ actors[a] \in TaskRecord
    BY <1>1, <1>4, OpenFileMoves DEF TypeInv, TypeOK
  <2>2. ~actors[a].unlinked
    BY <1>1, <1>4, ProperActors DEF OpenFile, Does, Proper, Shape
  <2> QED
    BY <2>1, <2>2 DEF TaskRecord
<1>5. CASE OpenFile(a) /\ f = actors[a].file
  <2>1. Writers(f)' = {a}
    BY <1>1, <1>2, <1>4, <1>5 DEF Writers, Does
  <2>2. (CHOOSE b \in {a} : TRUE) = a
    OBVIOUS
  <2> QED
    BY <1>4, <1>5, <2>1, <2>2 DEF History
<1>6. CASE ~(OpenFile(a) /\ f = actors[a].file)
  BY <1>2, <1>3, <1>4, <1>6 DEF Writers, Does
<1> QED
  BY <1>5, <1>6

(* After a step only the file it opened is being written, and a deletion   *)
(* that was asked for has been tried.                                      *)
LEMMA StepEnds ==
    ASSUME TypeInv, Undisturbed, OneAtATime, NEW a \in Busy, Step(a)
    PROVE  /\ Rewriting' = IF OpenFile(a) THEN {actors[a].file} ELSE {}
           /\ Deleting' = {}
<1>1. a \in Actors /\ Proper(actors[a]) /\ Busy' \subseteq {a}
  BY NobodyElse, OthersStay, ProperActors
<1>2. OpenFile(a) => actors[a].file \in Files
  BY <1>1, Places DEF OpenFile, Does
<1>3. \A f \in Files : (Writers(f) # {})' <=> OpenFile(a) /\ f = actors[a].file
  BY StepWriters
<1>4. \A b \in Actors : actors'[b].pc = "remove" => b \in Busy'
  BY ActorsTypes, Places DEF Busy, Next
<1>5. Deleting' = {}
  BY <1>1, <1>4, NoMoreRemoves DEF Deleting, Does
<1>6. Rewriting' = IF OpenFile(a) THEN {actors[a].file} ELSE {}
  BY <1>2, <1>3 DEF Rewriting
<1> QED
  BY <1>5, <1>6

(* The other files hold what they held, and so does one that nobody wrote  *)
(* and the step left alone.                                                *)
LEMMA OtherHistories ==
    ASSUME TypeInv, Undisturbed, OneAtATime, NEW a \in Busy, Step(a), NEW f \in Files,
           \/ f # actors[a].file
           \/ ~OpenFile(a) /\ actors[a].pc # "writing" /\ disk'[f] = disk[f]
    PROVE  History(f)' = History(f)
<1>1. Writers(f)' = {} /\ History(f) = disk[f].rows /\ disk'[f] = disk[f]
  BY WriterOf, StepWriters, NobodyElse, OwnFile
<1> QED
  BY <1>1 DEF History

StoredStep == Stored!ArchiveNext \/ UNCHANGED <<Held, Rewriting, Deleting, Mishaps>>

LEMMA OpenFileStored ==
    ASSUME TypeInv, Undisturbed, OneAtATime, NEW a \in Busy, OpenFile(a)
    PROVE  StoredStep
<1>0. PICK f : f = actors[a].file
  OBVIOUS
<1>1. Step(a) /\ actors[a].pc = "write" /\ UNCHANGED <<failures, faults>> /\ f \in Files
  BY <1>0, NobodyElse, ProperActors, Places DEF Step, OpenFile, Does, counts
<1>2. History(f)' = actors[a].seen /\ History(f) = disk[f].rows /\ actors[a].seen = disk[f].rows
  BY <1>0, <1>1, WriterOf, StepWriters, NobodyElse DEF UpToDate
<1>3. \A g \in Files : History(g)' = History(g)
  BY <1>0, <1>1, <1>2, OtherHistories
<1>4. UNCHANGED <<Held, Deleting, Mishaps>> /\ Rewriting = {} /\ Rewriting' = {f}
  BY <1>0, <1>1, <1>3, HandOf, StepEnds DEF Held, Mishaps
<1>5. Stored!Rewrite(f)
  BY <1>4 DEF Stored!Rewrite
<1> QED
  BY <1>1, <1>5 DEF Stored!ArchiveNext, StoredStep

LEMMA FinishFileStored ==
    ASSUME TypeInv, Undisturbed, OneAtATime, NEW a \in Busy, FinishFile(a)
    PROVE  StoredStep
<1> DEFINE q == actors[a]
<1>0. PICK f : f = q.file
  OBVIOUS
<1>1. /\ a \in Actors /\ q \in TaskRecord /\ Proper(q) /\ GoesOn(q) /\ q.op # "refresh"
      /\ disk \in [Files -> DiskFile]
  BY <1>0, NobodyElse, ProperActors DEF TypeInv, TypeOK, GoesOn
<1>2. /\ Step(a) /\ q.pc = "writing" /\ f \in Files /\ ~OpenFile(a) /\ q.op = "import"
      /\ UNCHANGED <<failures, faults>>
  BY <1>0, <1>1, Places DEF Step, FinishFile, OpenFile, Does, counts
<1>3. disk[f] = Torn /\ ~q.unlinked
  BY <1>0, <1>2, NobodyElse DEF UpToDate
<1>4. Writers(f) = {a} /\ History(f) = q.seen /\ Stored!Unbroken(q.seen) /\ Writers(f)' = {}
  BY <1>0, <1>2, WriterOf, StepWriters DEF OneAtATime
<1>5. disk'[f] = Whole(q.seen \cup Fresh(q))
  BY <1>0, <1>1, <1>2, <1>3, <1>4 DEF FinishFile
<1>6. History(f)' = q.seen \cup Fresh(q)
  BY <1>4, <1>5 DEF History, Whole
<1>7. /\ q.page = q.start .. Max(q.page) /\ q.page # {} /\ Fresh(q) # {}
      /\ q.seen # {} => q.start \in {Max(q.seen), Max(q.seen) + 1}
  BY <1>1, <1>2 DEF GoesOn, Proper, Shape
<1> DEFINE first == Min(Fresh(q))
           last == Max(Fresh(q))
<1>8. /\ Fresh(q) = first .. last /\ (\A t \in q.seen : t < first)
      /\ Stored!Unbroken(q.seen \cup Fresh(q)) /\ first \in Times /\ last \in Times
  BY <1>1, <1>4, <1>7, FreshStretch
<1>9. \A g \in Files \ {f} : History(g)' = History(g)
  BY <1>0, <1>2, OtherHistories
<1>10. Rewriting = {f} /\ Rewriting' = {} /\ Deleting = {} /\ Deleting' = {} /\ UNCHANGED Mishaps
  BY <1>0, <1>2, HandOf, StepEnds DEF Mishaps
<1> HIDE DEF first, last, q
<1>11. Held[f] = q.seen
  BY <1>2, <1>4 DEF Held
<1>12. Held' = [Held EXCEPT ![f] = @ \cup (first .. last)]
  BY <1>2, <1>6, <1>8, <1>9, <1>11 DEF Held
<1>13. Stored!Extend(f, first, last)
  BY <1>8, <1>10, <1>11, <1>12 DEF Stored!Extend
<1> QED
  BY <1>2, <1>8, <1>13 DEF Stored!ArchiveNext, StoredStep, Times

(* A write that fails takes the file with it.                              *)
LEMMA WriteLost ==
    ASSUME TypeInv, Undisturbed, OneAtATime, NEW a \in Busy, WriteFails(a) \/ WriteRemoved(a)
    PROVE  StoredStep
<1>0. PICK f : f = actors[a].file
  OBVIOUS
<1>1. /\ Step(a) /\ actors[a].pc = "writing" /\ f \in Files /\ ~OpenFile(a)
      /\ failures' = failures + 1
  BY <1>0, NobodyElse, ProperActors, Places DEF Step, WriteFails, WriteRemoved, OpenFile, Does, Fails
<1>2. disk[f] = Torn /\ disk \in [Files -> DiskFile]
  BY <1>0, <1>1, NobodyElse DEF UpToDate, TypeInv, TypeOK
<1>3. disk'[f].rows = {}
  BY <1>0, <1>1, <1>2 DEF WriteFails, WriteRemoved, Unlink, Torn, Absent
<1>4. History(f)' = {}
  BY <1>0, <1>1, <1>3, StepWriters DEF History
<1>5. \A g \in Files \ {f} : History(g)' = History(g)
  BY <1>0, <1>1, OtherHistories
<1>6. Rewriting = {f} /\ Rewriting' = {} /\ Deleting = {} /\ Deleting' = {}
  BY <1>0, <1>1, HandOf, StepEnds
<1>7. Mishaps' = Mishaps + 1
  BY <1>1, CountsUnchanged, NobodyElse DEF Mishaps, TypeInv, TypeOK
<1>8. Held' = [g \in Files |-> IF g \in {f} THEN {} ELSE Held[g]]
  BY <1>4, <1>5 DEF Held
<1>9. Stored!Mishap({f})
  BY <1>6, <1>7, <1>8 DEF Stored!Mishap
<1> QED
  BY <1>6, <1>9 DEF Stored!ArchiveNext, StoredStep

LEMMA RemoveFileStored ==
    ASSUME TypeInv, Undisturbed, OneAtATime, NEW a \in Busy, RemoveFile(a)
    PROVE  StoredStep
<1>0. PICK f : f = actors[a].file
  OBVIOUS
<1>1. /\ Step(a) /\ actors[a].pc = "remove" /\ f \in Files /\ ~OpenFile(a)
      /\ UNCHANGED <<failures, faults>>
  BY <1>0, NobodyElse, ProperActors, Places DEF Step, RemoveFile, OpenFile, Does, counts
<1>2. disk'[f].rows = {}
  BY <1>0, <1>1 DEF RemoveFile, Unlink, Absent, TypeInv, TypeOK
<1>3. History(f)' = {}
  BY <1>0, <1>1, <1>2, StepWriters DEF History
<1>4. \A g \in Files \ {f} : History(g)' = History(g)
  BY <1>0, <1>1, OtherHistories
<1>5. Rewriting = {} /\ Rewriting' = {} /\ Deleting = {f} /\ Deleting' = {} /\ UNCHANGED Mishaps
  BY <1>0, <1>1, HandOf, StepEnds DEF Mishaps
<1>6. Held' = [Held EXCEPT ![f] = {}]
  BY <1>1, <1>3, <1>4 DEF Held
<1>7. Stored!Delete(f)
  BY <1>5, <1>6 DEF Stored!Delete
<1> QED
  BY <1>1, <1>7 DEF Stored!ArchiveNext, StoredStep

(* Every other step leaves the candles alone, even one that fails.         *)
LEMMA OtherStored ==
    ASSUME TypeInv, Undisturbed, OneAtATime, NEW a \in Busy, Step(a),
           ~(OpenFile(a) \/ FinishFile(a) \/ WriteFails(a) \/ WriteRemoved(a) \/ RemoveFile(a))
    PROVE  StoredStep
<1>1. UNCHANGED disk /\ actors[a].pc # "writing"
  <2>1. UNCHANGED disk
    BY NobodyElse, FilesUnchanged DEF Removes
  <2> QED
    BY <2>1 DEF Step, PickFile, PickFileFails, EndImport, Fetch, CallFails, ReadFile, Measure,
        SelectRow, SelectRowFails, CommitRow, CommitRowFails, RemoveFileFails, DropRow,
        DropRowFails, Does
<1>2. \A f \in Files : History(f)' = History(f)
  BY <1>1, OtherHistories
<1>3. Held' = Held /\ Held = [f \in Files |-> Held[f]]
  BY <1>2 DEF Held
<1>4. Rewriting = {} /\ Rewriting' = {} /\ Deleting' = {}
  BY <1>1, HandOf, StepEnds
<1>5. CASE failures' = failures + 1
  <2>1. Mishaps' = Mishaps + 1
    BY <1>5, CountsUnchanged, NobodyElse DEF Mishaps, TypeInv, TypeOK
  <2>2. Stored!Mishap({})
    BY <1>3, <1>4, <2>1 DEF Stored!Mishap
  <2> QED
    BY <2>2 DEF Stored!ArchiveNext, StoredStep
<1>6. CASE failures' # failures + 1
  <2>1. failures' = failures /\ faults' = faults
    BY <1>6, CountsUnchanged, NobodyElse
  <2>2. actors[a].pc # "remove"
    BY <1>6 DEF Step, PickFile, PickFileFails, EndImport, Fetch, CallFails, ReadFile, Measure,
        SelectRow, SelectRowFails, CommitRow, CommitRowFails, RemoveFileFails, DropRow,
        DropRowFails, Does, Fails
  <2>3. Deleting = {}
    BY <2>2, HandOf
  <2> QED
    BY <1>3, <1>4, <2>1, <2>3 DEF StoredStep, Mishaps
<1> QED
  BY <1>5, <1>6

LEMMA StepStored ==
    ASSUME TypeInv, Undisturbed, OneAtATime, NEW a \in Busy, Step(a)
    PROVE  StoredStep
BY OpenFileStored, FinishFileStored, WriteLost, RemoveFileStored, OtherStored

(* Nothing is written while nobody is at work.                             *)
LEMMA NobodyWrites ==
    ASSUME TypeInv
    PROVE  /\ Busy = {} => /\ \A f : Writers(f) = {} /\ History(f) = disk[f].rows
                           /\ Rewriting = {} /\ Deleting = {}
           /\ \A f : Writers(f) \subseteq Busy
<1>1. \A f : Writers(f) \subseteq Busy
  <2>1. \A f : \A b \in Writers(f) : b \in Busy
    BY ProperActors, Places DEF Writers, Does, Busy
  <2> QED
    BY <2>1
<1>2. \A b \in Actors : actors[b].pc = "remove" => b \in Busy
  BY ProperActors, Places DEF Busy
<1>3. Busy = {} => Deleting = {}
  BY <1>2 DEF Deleting, Does
<1> QED
  BY <1>1, <1>3 DEF History, Rewriting

LEMMA RequestAlone ==
    ASSUME TypeInv, OneAtATime, NEW a \in Actors, Request(a), MaxActive = 1, MaxRefreshes = 0
    PROVE  /\ Busy' = {a} /\ contested' = {} /\ GoesOn(actors[a])' /\ Held' = Held /\ StoredStep
<1>1. PICK files \in (SUBSET Files) \ {{}} :
         /\ Begin(a, files)
         /\ \/ StartImport(a, files)
            \/ \E f \in Files : files = {f} /\ (StartRefresh(a, f) \/ StartDelete(a, f))
  BY RequestCounts
<1>2. Busy = {}
  <2>1. SUFFICES ASSUME NEW b \in Busy PROVE FALSE
    OBVIOUS
  <2>2. Busy = {b}
    BY DEF OneAtATime
  <2>3. Cardinality(Busy) = 1
    BY <2>2, FS_Singleton
  <2> QED
    BY <1>1, <2>3 DEF Begin
<1>3. contested' = {}
  BY <1>1, <1>2 DEF Begin, OneAtATime
<1>4. Busy' = {a}
  BY <1>2, RequestBegins
<1>5. /\ actors'[a].op # "refresh"
      /\ \/ actors'[a].pc = "next"
         \/ actors'[a].pc = "remove" /\ actors'[a].file \in Files
  <2>0. actors \in [Actors -> TaskRecord] /\ refreshes \in Nat
    BY DEF TypeInv, TypeOK
  <2>1. CASE StartImport(a, files)
    <3>1. actors'[a] = [Idle EXCEPT !.op = "import", !.pc = "next", !.asked = files,
                               !.todo = files, !.status = "running", !.serial = served']
      BY <2>0, <2>1 DEF StartImport, Becomes
    <3> QED
      BY <3>1 DEF Idle
  <2>2. ASSUME NEW f \in Files, StartDelete(a, f)
        PROVE  actors'[a].op # "refresh" /\ actors'[a].pc = "remove" /\ actors'[a].file = f
    <3>1. actors'[a] = [Idle EXCEPT !.op = "delete", !.pc = "remove", !.file = f,
                                    !.row = market_data_files[f]]
      BY <2>0, <2>2 DEF StartDelete, Becomes
    <3> QED
      BY <3>1 DEF Idle
  <2>3. \A f \in Files : ~StartRefresh(a, f)
    BY <2>0 DEF StartRefresh
  <2> QED
    BY <1>1, <2>1, <2>2, <2>3
<1>6. UNCHANGED <<disk, failures, faults>>
  BY RequestCounts
<1>7. \A b \in Actors : actors'[b].pc # "idle" => b = a
  BY <1>4, ActorsTypes, Places DEF Busy, Next
<1>8. \A f \in Files : Writers(f)' = {}
  BY <1>5, <1>7 DEF Writers, Does
<1>9. Held' = Held /\ Rewriting' = {} /\ UNCHANGED Mishaps
  <2>1. \A f \in Files : History(f)' = History(f)
    BY <1>2, <1>6, <1>8, NobodyWrites DEF History
  <2> QED
    BY <1>6, <1>8, <2>1 DEF Held, Rewriting, Mishaps
<1>10. Rewriting = {} /\ Deleting = {}
  BY <1>2, NobodyWrites
<1>11. Deleting' = IF actors'[a].pc = "remove" THEN {actors'[a].file} ELSE {}
  BY <1>7 DEF Deleting, Does
<1>12. StoredStep
  <2>1. CASE actors'[a].pc = "remove"
    <3>1. Stored!Ask(actors'[a].file) /\ actors'[a].file \in Files
      BY <1>5, <1>9, <1>10, <1>11, <2>1 DEF Stored!Ask
    <3> QED
      BY <3>1 DEF Stored!ArchiveNext, StoredStep
  <2>2. CASE actors'[a].pc # "remove"
    BY <1>9, <1>10, <1>11, <2>2 DEF StoredStep
  <2> QED
    BY <2>1, <2>2
<1> QED
  BY <1>3, <1>4, <1>5, <1>9, <1>12 DEF GoesOn

(* A process that dies in to_parquet loses the file it was writing.        *)
LEMMA CrashStored ==
    ASSUME TypeInv, Undisturbed, OneAtATime, Crash
    PROVE  StoredStep
<1>1. /\ disk' = disk /\ (\A f \in Files : History(f)' = disk[f].rows)
      /\ Rewriting' = {} /\ Deleting' = {}
  BY IdleProper DEF Crash, History, Writers, Rewriting, Deleting, Does
<1>2. Mishaps' = Mishaps + 1
  BY DEF Crash, Mishaps, TypeInv, TypeOK
<1>3. \A f \in Files : Writers(f) = {} => History(f)' = History(f)
  BY <1>1 DEF History
<1>4. ASSUME NEW f \in Files, Writers(f) # {}
      PROVE  History(f)' = {}
  <2>1. PICK a \in Writers(f) : TRUE
    BY <1>4
  <2>2. a \in Busy /\ actors[a].pc = "writing" /\ actors[a].file = f
    BY <2>1, NobodyWrites DEF Writers, Does
  <2>3. disk[f].rows = {}
    BY <2>2, NobodyElse DEF UpToDate, Torn
  <2> QED
    BY <1>1, <2>3
<1>5. Held' = [f \in Files |-> IF f \in Rewriting THEN {} ELSE Held[f]]
  BY <1>3, <1>4 DEF Held, Rewriting
<1>6. Stored!Mishap(Rewriting)
  BY <1>1, <1>2, <1>5 DEF Stored!Mishap
<1> QED
  BY <1>6 DEF Stored!ArchiveNext, StoredStep

LEMMA StoredNext ==
    ASSUME TypeInv, Undisturbed, OneAtATime, [Next]_vars, MaxActive = 1, MaxRefreshes = 0
    PROVE  StoredStep
<1>1. ASSUME NEW a \in Actors, Step(a) PROVE StoredStep
  BY <1>1, OthersStay, StepStored
<1>2. ASSUME NEW a \in Actors, Request(a) PROVE StoredStep
  BY <1>2, RequestAlone
<1>3. CASE UNCHANGED <<disk, actors, failures, faults>>
  BY <1>3 DEF StoredStep, Held, Rewriting, Deleting, Mishaps, History, Writers, Does
<1> QED
  BY <1>1, <1>2, <1>3, CrashStored DEF Next, OpenCandle, vars, counts

(* Archive breaks no stretch.                                              *)
LEMMA StillUnbroken ==
    ASSUME StoredStep, \A f \in Files : Stored!Unbroken(Held[f]), NEW f \in Files
    PROVE  Stored!Unbroken(Held'[f])
<1>1. Held = [g \in Files |-> Held[g]] /\ Stored!Unbroken({})
  BY DEF Held, Stored!Unbroken
<1>2. CASE UNCHANGED Held
  BY <1>2
<1>3. ASSUME NEW g \in Files, NEW first, NEW last, Stored!Extend(g, first, last)
      PROVE  Stored!Unbroken(Held'[f])
  <2> DEFINE rows == Held[g] \cup (first .. last)
  <2>1. Held' = [Held EXCEPT ![g] = rows] /\ Stored!Unbroken(rows)
    BY <1>3 DEF Stored!Extend
  <2> HIDE DEF rows
  <2>2. Held'[f] = IF f = g THEN rows ELSE Held[f]
    BY <1>1, <2>1
  <2> QED
    BY <2>1, <2>2
<1>4. ASSUME NEW g \in Files, Stored!Delete(g)
      PROVE  Stored!Unbroken(Held'[f])
  BY <1>1, <1>4 DEF Stored!Delete
<1>5. ASSUME NEW lost, Stored!Mishap(lost)
      PROVE  Stored!Unbroken(Held'[f])
  BY <1>1, <1>5 DEF Stored!Mishap
<1> QED
  BY <1>2, <1>3, <1>4, <1>5 DEF StoredStep, Stored!ArchiveNext, Stored!Rewrite, Stored!Ask

LEMMA OneAtATimeStep ==
    ASSUME TypeInv, Undisturbed, OneAtATime, [Next]_vars, MaxActive = 1, MaxRefreshes = 0
    PROVE  OneAtATime'
<1>1. \A f \in Files : Stored!Unbroken(History(f)')
  <2>1. \A f \in Files : Held[f] = History(f) /\ Held'[f] = History(f)'
    BY DEF Held
  <2>2. \A f \in Files : Stored!Unbroken(Held[f])
    BY <2>1 DEF OneAtATime
  <2> QED
    BY <2>1, <2>2, StoredNext, StillUnbroken
<1>2. CASE UNCHANGED <<disk, actors, contested>>
  BY <1>1, <1>2 DEF OneAtATime, Busy, GoesOn, Stored!Unbroken
<1>3. CASE Crash
  <2>1. Busy' = {}
    BY <1>3, IdleProper DEF Crash, Busy
  <2> QED
    BY <1>1, <1>3, <2>1 DEF Crash, OneAtATime, Stored!Unbroken
<1>4. ASSUME NEW a \in Actors, Request(a) PROVE OneAtATime'
  BY <1>1, <1>4, RequestAlone DEF OneAtATime, Stored!Unbroken
<1>5. ASSUME NEW a \in Actors, Step(a) PROVE OneAtATime'
  <2>1. a \in Busy /\ Busy' \subseteq Busy /\ Busy = {a} /\ contested' = {}
    BY <1>5, OthersStay, NobodyElse, CountsUnchanged DEF OneAtATime
  <2>2. \A b \in Busy' : GoesOn(actors[b])'
    BY <1>5, <2>1, GoesOnStep
  <2> QED
    BY <1>1, <2>1, <2>2 DEF OneAtATime, Stored!Unbroken
<1> QED
  BY <1>2, <1>3, <1>4, <1>5 DEF Next, OpenCandle, vars, counts

(* With one actor at work and no refresh, whatever fails, the Parquet      *)
(* files implement Archive: an append extends an unbroken stretch at its   *)
(* end, and a file is lost only by a deletion that was asked for, or while *)
(* to_parquet rewrites it, by its failure or the end of the process.       *)
THEOREM ImplementsArchive ==
    ASSUME MaxActive = 1, MaxRefreshes = 0
    PROVE  Spec => ArchiveSpec
<1> DEFINE IInv == TypeInv /\ Undisturbed /\ OneAtATime
<1>1. Init => IInv /\ Stored!ArchiveInit
  <2> SUFFICES ASSUME Init PROVE IInv /\ Stored!ArchiveInit
    OBVIOUS
  <2>1. TypeInv /\ Busy = {} /\ Mishaps = 0
    BY IdleProper, TypesInit DEF Init, Busy, Mishaps
  <2>2. (\A f \in Files : History(f) = {}) /\ Rewriting = {} /\ Deleting = {}
    BY <2>1, NobodyWrites DEF Init, Absent
  <2>3. Held = [f \in Files |-> {}]
    BY <2>2 DEF Held
  <2> QED
    BY <2>1, <2>2, <2>3 DEF Init, Undisturbed, OneAtATime, Stored!Unbroken, Stored!ArchiveInit
<1>2. IInv /\ [Next]_vars => IInv'
  BY TypesStep, UndisturbedNext, OneAtATimeStep
<1>3. IInv /\ [Next]_vars => [Stored!ArchiveNext]_(Stored!archiveVars)
  BY StoredNext DEF StoredStep, Stored!archiveVars
<1> QED
  BY <1>1, <1>2, <1>3, PTL DEF Spec, ArchiveSpec, Stored!ArchiveSpec
=============================================================================
