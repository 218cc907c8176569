----------------------------- MODULE DataStore -----------------------------
(***************************************************************************)
(* The candles on disk and their rows in market_data_files: the import of  *)
(* a list of files (services/data_import_service.py, run by a background   *)
(* task of api/routers/data.py, by a strategy that is created or activated *)
(* and by a sweep), the refresh and the deletion of one file               *)
(* (api/routers/data.py) and the Parquet helpers (infra/parquet_utils.py). *)
(*                                                                         *)
(* A candle is its opening time.  Nothing locks a file: append_candles     *)
(* reads it whole and writes it whole, and its row is measured, looked up  *)
(* and committed later, so each of those is a step of its own.             *)
(***************************************************************************)
EXTENDS Naturals, FiniteSets, FiniteSetsExt

CONSTANTS
    Files,         \* (symbol, timeframe) pairs
    Actors,        \* threads that serve a request or run a background task
    NoFile,
    MaxTime,       \* bound: candles Binance opens
    PageSize,      \* candles a page of the import holds, 1000 in the code
    RefreshSize,   \* candles a refresh asks for, 10 in the code
    MaxActive,     \* bound: actors at work at the same time
    MaxRequests,   \* bound: requests served
    MaxRefreshes,  \* bound: of those, refreshes
    MaxFailures,   \* bound: calls to Binance, the disk or the database that fail
    MaxFaults      \* bound: process crashes

ASSUME DataAssumption ==
    /\ NoFile \notin Files
    /\ {MaxTime, PageSize, RefreshSize} \subseteq Nat \ {0}
    /\ {MaxActive, MaxRequests, MaxRefreshes, MaxFailures, MaxFaults} \subseteq Nat

VARIABLES
    disk,                \* the Parquet files
    market_data_files,   \* their rows
    actors,              \* what each actor is doing, with its session
    now,                 \* opening time of the candle that is still open
    contested,           \* files of requests that had one in common at the same time
    served, refreshes, failures, faults

counts == <<contested, served, refreshes, failures, faults>>
vars == <<disk, market_data_files, actors, now, counts>>

Times == 1 .. MaxTime

(* A file that is being written, or whose writer died, cannot be read.     *)
DiskFile == [state: {"absent", "torn", "whole"}, rows: SUBSET Times]
Absent      == [state |-> "absent", rows |-> {}]
Torn        == [state |-> "torn", rows |-> {}]
Whole(rows) == [state |-> "whole", rows |-> rows]

(* id = 0: no row.                                                         *)
FileRow == [id: Nat, row_count: Nat, first_candle_at: Nat, last_candle_at: Nat]
NoRow == [id |-> 0, row_count |-> 0, first_candle_at |-> 0, last_candle_at |-> 0]

(* get_parquet_metadata                                                    *)
Describe(id, rows) ==
    [id |-> id, row_count |-> Cardinality(rows),
     first_candle_at |-> Min(rows), last_candle_at |-> Max(rows)]

(* The UPDATE of a row read as  old: the columns that differ.              *)
UpdateRow(row, old, new) ==
    [c \in DOMAIN row |-> IF new[c] # old[c] THEN new[c] ELSE row[c]]

Idle == [op |-> "idle", pc |-> "idle", asked |-> {}, todo |-> {}, errors |-> {},
         status |-> "none", poisoned |-> FALSE, serial |-> 0, file |-> NoFile,
         start |-> 0, page |-> {}, seen |-> {}, unlinked |-> FALSE,
         row |-> NoRow, measured |-> NoRow]

Busy == {a \in Actors : actors[a].op # "idle"}
Does(a, pc) == actors[a].pc = pc
Becomes(a, q) == actors' = [actors EXCEPT ![a] = q]

-----------------------------------------------------------------------------
(* The requests.                                                           *)
Uses(a) == actors[a].asked \cup ({actors[a].file} \ {NoFile})

Begin(a, files) ==
    LET rivals == {b \in Busy : Uses(b) \cap files # {}}
    IN  /\ Cardinality(Busy) < MaxActive
        /\ a \notin Busy
        /\ served < MaxRequests
        /\ served' = served + 1
        /\ contested' = contested \cup
              (IF rivals = {} THEN {} ELSE files \cup UNION {Uses(b) : b \in rivals})

StartImport(a, files) ==
    /\ Begin(a, files)
    /\ Becomes(a, [Idle EXCEPT !.op = "import", !.pc = "next", !.asked = files,
                               !.todo = files, !.status = "running", !.serial = served'])
    /\ UNCHANGED <<disk, market_data_files, now, refreshes, failures, faults>>

StartRefresh(a, f) ==
    /\ Begin(a, {f})
    /\ refreshes < MaxRefreshes
    /\ refreshes' = refreshes + 1
    /\ market_data_files[f].id # 0
    /\ Becomes(a, [Idle EXCEPT !.op = "refresh", !.pc = "fetch", !.file = f,
                               !.row = market_data_files[f]])
    /\ UNCHANGED <<disk, market_data_files, now, failures, faults>>

StartDelete(a, f) ==
    /\ Begin(a, {f})
    /\ market_data_files[f].id # 0
    /\ Becomes(a, [Idle EXCEPT !.op = "delete", !.pc = "remove", !.file = f,
                               !.row = market_data_files[f]])
    /\ UNCHANGED <<disk, market_data_files, now, refreshes, failures, faults>>

-----------------------------------------------------------------------------
(* Mutant: the download goes on without a file.                            *)
NextFileFetch(q) ==
    [q EXCEPT !.pc = "fetch", !.file = NoFile, !.start = 0, !.page = {}, !.seen = {},
              !.unlinked = FALSE, !.row = NoRow, !.measured = NoRow]

(* The next file of an import.                                             *)
NextFile(q) ==
    [q EXCEPT !.pc = "next", !.file = NoFile, !.start = 0, !.page = {}, !.seen = {},
              !.unlinked = FALSE, !.row = NoRow, !.measured = NoRow]

(* An exception: the import notes the file and goes on with the next one,  *)
(* the refresh answers 500.                                                *)
GiveUp(q) ==
    IF q.op = "import"
    THEN [NextFile(q) EXCEPT !.errors = @ \cup {q.file}]
    ELSE Idle

Fails == failures < MaxFailures /\ failures' = failures + 1

(* From the last candle on disk, or from the date the request names.       *)
PickFile(a, f) ==
    LET q == [actors[a] EXCEPT !.file = f, !.todo = @ \ {f}]
    IN  /\ Does(a, "next")
        /\ f \in actors[a].todo
        /\ \/ disk[f].state = "torn" /\ Becomes(a, GiveUp(q))
           \/ /\ disk[f].state = "whole"
              /\ Becomes(a, [q EXCEPT !.pc = "fetch", !.start = Max(disk[f].rows)])
           \/ /\ disk[f].state = "absent"
              /\ \E t \in Times : Becomes(a, [q EXCEPT !.pc = "fetch", !.start = t])
        /\ UNCHANGED <<disk, market_data_files, now, counts>>

PickFileFails(a, f) ==
    /\ Does(a, "next")
    /\ f \in actors[a].todo
    /\ Fails
    /\ Becomes(a, GiveUp([actors[a] EXCEPT !.file = f, !.todo = @ \ {f}]))
    /\ UNCHANGED <<disk, market_data_files, now, contested, served, refreshes, faults>>

EndImport(a) ==
    /\ Does(a, "next")
    /\ actors[a].todo = {}
    /\ Becomes(a, [Idle EXCEPT !.asked = actors[a].asked, !.errors = actors[a].errors,
                               !.status = "done"])
    /\ UNCHANGED <<disk, market_data_files, now, counts>>

(* The oldest candles from  start  on, or the newest ones; the last may    *)
(* still be open.                                                          *)
Page(q) ==
    IF q.op = "import"
    THEN {t \in q.start .. now : t < q.start + PageSize}
    ELSE {t \in 1 .. now : t + RefreshSize > now}

Fetch(a) ==
    LET q == actors[a]
    IN  /\ Does(a, "fetch")
        /\ Becomes(a, [q EXCEPT !.page = Page(q),
                                !.pc = IF Page(q) = {} THEN "measure" ELSE "read"])
        /\ UNCHANGED <<disk, market_data_files, now, counts>>

(* Mutant: the file goes when a call fails.                                *)
CallFailsCleaning(a) ==
    /\ actors[a].pc \in {"fetch", "read", "write", "measure"}
    /\ Fails
    /\ disk' = [disk EXCEPT ![actors[a].file] = Absent]
    /\ Becomes(a, GiveUp(actors[a]))
    /\ UNCHANGED <<market_data_files, now, contested, served, refreshes, faults>>

(* A call to Binance fails, or one that reads or opens the file.           *)
CallFails(a) ==
    /\ actors[a].pc \in {"fetch", "read", "write", "measure"}
    /\ Fails
    /\ Becomes(a, GiveUp(actors[a]))
    /\ UNCHANGED <<disk, market_data_files, now, contested, served, refreshes, faults>>

-----------------------------------------------------------------------------
(* append_candles: only what is newer than the last candle it read.        *)
Fresh(q) == {t \in q.page : \A s \in q.seen : s < t}

(* Mutant: the page is asked for again.                                    *)
AfterAppendAgain(q) ==
    IF q.op = "import" /\ Cardinality(q.page) = PageSize
    THEN [q EXCEPT !.pc = "fetch", !.page = {}, !.seen = {}, !.unlinked = FALSE]
    ELSE [q EXCEPT !.pc = "measure", !.page = {}, !.seen = {}, !.unlinked = FALSE]

(* A full page is followed by the next one.                                *)
AfterAppend(q) ==
    IF q.op = "import" /\ Cardinality(q.page) = PageSize
    THEN [q EXCEPT !.pc = "fetch", !.start = Max(q.page) + 1, !.page = {}, !.seen = {},
                   !.unlinked = FALSE]
    ELSE [q EXCEPT !.pc = "measure", !.page = {}, !.seen = {}, !.unlinked = FALSE]

ReadFile(a) ==
    LET q == [actors[a] EXCEPT !.seen = disk[actors[a].file].rows]
    IN  /\ Does(a, "read")
        /\ Becomes(a, IF disk[q.file].state = "torn" THEN GiveUp(q)
                      ELSE IF Fresh(q) = {} THEN AfterAppend(q)
                      ELSE [q EXCEPT !.pc = "write"])
        /\ UNCHANGED <<disk, market_data_files, now, counts>>

(* to_parquet truncates the file and then writes it.                       *)
OpenFile(a) ==
    /\ Does(a, "write")
    /\ disk' = [disk EXCEPT ![actors[a].file] = Torn]
    /\ Becomes(a, [actors[a] EXCEPT !.pc = "writing"])
    /\ UNCHANGED <<market_data_files, now, counts>>

Writers(f) == {a \in Actors : /\ Does(a, "writing")
                              /\ actors[a].file = f
                              /\ ~actors[a].unlinked}

(* A file removed while somebody writes it stays removed.                  *)
Unlink(a, q) ==
    LET f == actors[a].file
    IN  /\ disk' = [disk EXCEPT ![f] = Absent]
        /\ actors' = [b \in Actors |->
                        IF b = a THEN q
                        ELSE IF b \in Writers(f) THEN [actors[b] EXCEPT !.unlinked = TRUE]
                        ELSE actors[b]]

(* Two writers of one file may leave the rows of either or a mix nobody    *)
(* can read.                                                               *)
FinishFile(a) ==
    LET q == actors[a]
    IN  /\ Does(a, "writing")
        /\ IF q.unlinked
           THEN UNCHANGED disk
           ELSE \/ disk' = [disk EXCEPT ![q.file] = Whole(q.seen \cup Fresh(q))]
                \/ /\ Writers(q.file) # {a} \/ disk[q.file] # Torn
                   /\ disk' = [disk EXCEPT ![q.file] = Torn]
        /\ Becomes(a, AfterAppend(q))
        /\ UNCHANGED <<market_data_files, now, counts>>

(* An exception in to_parquet, once the file is truncated: what is written *)
(* stays, or pyarrow removes the file.                                     *)
WriteFails(a) ==
    LET q == actors[a]
    IN  /\ Does(a, "writing")
        /\ Fails
        /\ \/ UNCHANGED disk
           \/ ~q.unlinked /\ disk' = [disk EXCEPT ![q.file] = Torn]
        /\ Becomes(a, GiveUp(q))
        /\ UNCHANGED <<market_data_files, now, contested, served, refreshes, faults>>

WriteRemoved(a) ==
    /\ Does(a, "writing")
    /\ Fails
    /\ Unlink(a, GiveUp(actors[a]))
    /\ UNCHANGED <<market_data_files, now, contested, served, refreshes, faults>>

-----------------------------------------------------------------------------
(* The row.  The refresh holds the row it found when it began.             *)
Measure(a) ==
    LET q == actors[a]
    IN  /\ Does(a, "measure")
        /\ Becomes(a, IF disk[q.file].state # "whole" THEN GiveUp(q)
                      ELSE [q EXCEPT !.measured = Describe(q.row.id, disk[q.file].rows),
                                     !.pc = IF q.op = "import" THEN "select" ELSE "commit"])
        /\ UNCHANGED <<disk, market_data_files, now, counts>>

(* A session whose statement or commit failed refuses every statement      *)
(* until a rollback, and the import never rolls back.                      *)
SelectRow(a) ==
    LET q == actors[a]
        row == market_data_files[q.file]
    IN  /\ Does(a, "select")
        /\ Becomes(a, IF q.poisoned THEN GiveUp(q)
                      ELSE [q EXCEPT !.row = row, !.pc = "commit",
                                     !.measured.id = IF row.id = 0 THEN q.serial ELSE row.id])
        /\ UNCHANGED <<disk, market_data_files, now, counts>>

(* A SELECT that finds no connection leaves the session as it was.         *)
SelectRowFails(a) ==
    /\ Does(a, "select")
    /\ Fails
    /\ \E broken \in BOOLEAN :
          Becomes(a, GiveUp([actors[a] EXCEPT !.poisoned = @ \/ broken]))
    /\ UNCHANGED <<disk, market_data_files, now, contested, served, refreshes, faults>>

(* An INSERT needs the pair to be free, an UPDATE the row to be there.     *)
RowFits(q) == market_data_files[q.file].id = q.row.id

Committed(q) == [market_data_files EXCEPT ![q.file] = UpdateRow(@, q.row, q.measured)]

(* Mutant: only the INSERT is committed.                                   *)
CommitRowInsert(a) ==
    LET q == actors[a]
    IN  /\ Does(a, "commit")
        /\ RowFits(q)
        /\ IF q.row.id = 0
           THEN market_data_files' = [market_data_files EXCEPT ![q.file] = q.measured]
           ELSE UNCHANGED market_data_files
        /\ Becomes(a, IF q.op = "import" THEN NextFile(q) ELSE Idle)
        /\ UNCHANGED <<disk, now, counts>>

CommitRow(a) ==
    LET q == actors[a]
    IN  /\ Does(a, "commit")
        /\ RowFits(q)
        /\ market_data_files' = Committed(q)
        /\ Becomes(a, IF q.op = "import" THEN NextFile(q) ELSE Idle)
        /\ UNCHANGED <<disk, now, counts>>

(* The row does not fit, or the database fails, before the commit is done  *)
(* or before it has answered.                                              *)
CommitRowFails(a) ==
    LET q == actors[a]
    IN  /\ Does(a, "commit")
        /\ \/ ~RowFits(q) /\ UNCHANGED <<market_data_files, failures>>
           \/ Fails /\ UNCHANGED market_data_files
           \/ Fails /\ RowFits(q) /\ market_data_files' = Committed(q)
        /\ Becomes(a, GiveUp([q EXCEPT !.poisoned = TRUE]))
        /\ UNCHANGED <<disk, now, contested, served, refreshes, faults>>

-----------------------------------------------------------------------------
(* delete_file: the file, whose removal may fail with a warning, then the  *)
(* row, whose deletion may fail before the commit is done or after.        *)
RemoveFile(a) ==
    /\ Does(a, "remove")
    /\ Unlink(a, [actors[a] EXCEPT !.pc = "drop"])
    /\ UNCHANGED <<market_data_files, now, counts>>

RemoveFileFails(a) ==
    /\ Does(a, "remove")
    /\ Fails
    /\ Becomes(a, [actors[a] EXCEPT !.pc = "drop"])
    /\ UNCHANGED <<disk, market_data_files, now, contested, served, refreshes, faults>>

(* Mutant: the row stays.                                                  *)
DropRowKept(a) ==
    /\ Does(a, "drop")
    /\ Becomes(a, Idle)
    /\ UNCHANGED <<disk, market_data_files, now, counts>>

Dropped(q) == IF RowFits(q)
              THEN [market_data_files EXCEPT ![q.file] = NoRow]
              ELSE market_data_files

DropRow(a) ==
    /\ Does(a, "drop")
    /\ market_data_files' = Dropped(actors[a])
    /\ Becomes(a, Idle)
    /\ UNCHANGED <<disk, now, counts>>

DropRowFails(a) ==
    /\ Does(a, "drop")
    /\ Fails
    /\ market_data_files' \in {market_data_files, Dropped(actors[a])}
    /\ Becomes(a, Idle)
    /\ UNCHANGED <<disk, now, contested, served, refreshes, faults>>

-----------------------------------------------------------------------------
OpenCandle ==
    /\ now < MaxTime
    /\ now' = now + 1
    /\ UNCHANGED <<disk, market_data_files, actors, counts>>

(* The process dies: its tasks are gone, and a file that was being written *)
(* stays torn.                                                             *)
Crash ==
    /\ faults < MaxFaults
    /\ faults' = faults + 1
    /\ actors' = [a \in Actors |-> Idle]
    /\ UNCHANGED <<disk, market_data_files, now, contested, served, refreshes, failures>>

Init ==
    /\ disk = [f \in Files |-> Absent]
    /\ market_data_files = [f \in Files |-> NoRow]
    /\ actors = [a \in Actors |-> Idle]
    /\ now = 1
    /\ contested = {}
    /\ served = 0 /\ refreshes = 0 /\ failures = 0 /\ faults = 0

Request(a) ==
    \/ \E files \in (SUBSET Files) \ {{}} : StartImport(a, files)
    \/ \E f \in Files : StartRefresh(a, f) \/ StartDelete(a, f)

Step(a) ==
    \/ \E f \in Files : PickFile(a, f) \/ PickFileFails(a, f)
    \/ EndImport(a)
    \/ Fetch(a) \/ CallFails(a)
    \/ ReadFile(a) \/ OpenFile(a) \/ FinishFile(a) \/ WriteFails(a) \/ WriteRemoved(a)
    \/ Measure(a) \/ SelectRow(a) \/ SelectRowFails(a)
    \/ CommitRow(a) \/ CommitRowFails(a)
    \/ RemoveFile(a) \/ RemoveFileFails(a)
    \/ DropRow(a) \/ DropRowFails(a)

Next == (\E a \in Actors : Request(a) \/ Step(a)) \/ OpenCandle \/ Crash

Spec == Init /\ [][Next]_vars

(* The operating system runs every thread.                                 *)
FairSpec == Spec /\ \A a \in Actors : WF_vars(Step(a))

-----------------------------------------------------------------------------
(* The variables range over what the tables, files and threads hold.       *)
TaskRecord ==
    [op: {"idle", "import", "refresh", "delete"},
     pc: {"idle", "next", "fetch", "read", "write", "writing", "measure", "select",
          "commit", "remove", "drop"},
     asked: SUBSET Files, todo: SUBSET Files, errors: SUBSET Files,
     status: {"none", "running", "done"}, poisoned: BOOLEAN, serial: Nat,
     file: Files \cup {NoFile}, start: Nat, page: SUBSET Times, seen: SUBSET Times,
     unlinked: BOOLEAN, row: FileRow, measured: FileRow]

TypeOK ==
    /\ disk \in [Files -> DiskFile]
    /\ market_data_files \in [Files -> FileRow]
    /\ actors \in [Actors -> TaskRecord]
    /\ \A a \in Actors : actors[a].pc \notin {"idle", "next"} => actors[a].file \in Files
    /\ now \in Times
    /\ contested \subseteq Files
    /\ {served, refreshes, failures, faults} \subseteq Nat

(***************************************************************************)
(* What the file holds, or held when its writer opened it.                 *)
(***************************************************************************)
History(f) ==
    IF Writers(f) = {}
    THEN disk[f].rows
    ELSE actors[CHOOSE a \in Writers(f) : TRUE].seen

Held      == [f \in Files |-> History(f)]
Rewriting == {f \in Files : Writers(f) # {}}
Deleting  == {actors[a].file : a \in {b \in Actors : Does(b, "remove")}}
Mishaps   == failures + faults

Stored == INSTANCE Archive WITH archive <- Held, rewriting <- Rewriting,
                                deleting <- Deleting, mishaps <- Mishaps

(* With one actor at work and no refresh, whatever fails, a file holds an  *)
(* unbroken stretch of candles, extended at its end, page by page and      *)
(* import by import, and lost only by a deletion that was asked for, or    *)
(* while to_parquet rewrites it, by its failure or the end of the process. *)
ArchiveSpec == Stored!ArchiveSpec

Described(f) ==
    IF disk[f].state = "absent"
    THEN market_data_files[f] = NoRow
    ELSE /\ disk[f].state = "whole"
         /\ market_data_files[f] = Describe(market_data_files[f].id, disk[f].rows)
         /\ market_data_files[f].id # 0

(* An import under way has brought the row of every file it is done with,  *)
(* and reports no error for, in line with the candles on disk, whatever    *)
(* call, write or commit failed on other files, unless a request with a    *)
(* file in common met it.                                                  *)
ImportedFilesAreDescribed ==
    \A a \in Busy : \A f \in actors[a].asked \ (actors[a].todo \cup actors[a].errors \cup
                                               {actors[a].file} \cup contested) : Described(f)

(* Requests that run side by side on different files do not disturb each   *)
(* other, and one after the other they keep every row in line with its     *)
(* file: as long as nothing fails, a file nobody works on is described by  *)
(* its row, unless requests with a file in common met.                     *)
QuietRowsDescribeFiles ==
    failures = 0 /\ faults = 0 =>
        \A f \in Files \ (contested \cup UNION {Uses(a) : a \in Busy}) : Described(f)

(* An import ends, however many pages it asks for.                         *)
ImportEnds == \A a \in Actors : actors[a].op = "import" ~> actors[a].op = "idle"

-----------------------------------------------------------------------------
(***************************************************************************)
(* What makes these properties inductive.                                  *)
(***************************************************************************)

(* Only a file that can be read holds candles.                             *)
SoundDisk ==
    \A f \in Files : IF disk[f].state = "whole" THEN disk[f].rows # {} ELSE disk[f].rows = {}

(* The places of each kind of request, and what it has at hand there.      *)
Shape(q) ==
    /\ q.op = "idle" <=> q.pc = "idle"
    /\ q.pc \in {"idle", "next"} => q.file = NoFile
    /\ q.op = "import" =>
           /\ q.pc \notin {"remove", "drop"}
           /\ q.todo \subseteq q.asked /\ q.file \in q.asked \cup {NoFile} /\ q.file \notin q.todo
           /\ q.pc # "commit" => q.row = NoRow
           /\ q.pc = "fetch" => q.start # 0
           /\ q.serial # 0
    /\ q.op \in {"refresh", "delete"} => q.asked = {} /\ q.pc \notin {"next", "select"}
    /\ q.op = "refresh" => q.pc \notin {"remove", "drop"}
    /\ q.op = "delete" => q.pc \in {"remove", "drop"}
    /\ q.pc \in {"read", "write", "writing"} => q.page # {}
    /\ q.pc \in {"write", "writing"} => Fresh(q) # {}
    /\ q.unlinked => q.pc = "writing"

ShapeOK == SoundDisk /\ \A a \in Actors : Shape(actors[a])

(* What the thread has read of its file and of its row is what is there.   *)
UpToDate(q) ==
    /\ q.poisoned => failures # 0
    /\ q.op # "import" => q.row = market_data_files[q.file] /\ q.row.id # 0
    /\ q.pc = "write" => q.seen = disk[q.file].rows /\ disk[q.file].state # "torn"
    /\ q.pc = "writing" => disk[q.file] = Torn /\ ~q.unlinked
    /\ q.pc \in {"select", "commit"} =>
           /\ disk[q.file].state = "whole"
           /\ q.measured = Describe(q.measured.id, disk[q.file].rows)
    /\ q.pc = "commit" => q.row = market_data_files[q.file] /\ q.measured.id # 0

Alone(a) == \A b \in Busy \ {a} : Uses(a) \cap Uses(b) = {}

(* A request that met none of another with a file in common is up to date. *)
Undisturbed == \A a \in Busy : Uses(a) \subseteq contested \/ (UpToDate(actors[a]) /\ Alone(a))

(* While nothing fails, a file nobody has at hand is described by its row; *)
(* one that somebody has can be read, and has no row if it is absent.      *)
Ready(q) ==
    /\ q.pc \in {"fetch", "read", "write", "measure"} =>
           /\ disk[q.file].state # "torn"
           /\ disk[q.file].state = "absent" => market_data_files[q.file] = NoRow
    /\ q.op = "refresh" /\ q.pc # "writing" => disk[q.file].state = "whole"
    /\ q.pc = "remove" => Described(q.file)
    /\ q.pc = "drop" => disk[q.file] = Absent

InHand == {actors[a].file : a \in Busy}

Quiet ==
    failures = 0 /\ faults = 0 =>
        /\ \A f \in Files \ (contested \cup InHand) : Described(f)
        /\ \A a \in Busy : actors[a].file \in Files \ contested => Ready(actors[a])

DataInv == TypeOK /\ ShapeOK /\ Undisturbed /\ ImportedFilesAreDescribed /\ Quiet

(* One request at a time and no refresh: an import goes on where the file  *)
(* ends, and what a file holds is an unbroken stretch.                     *)
GoesOn(q) ==
    LET rows == IF q.pc = "writing" THEN q.seen ELSE disk[q.file].rows
    IN  /\ q.op # "refresh"
        /\ q.op = "import" /\ q.pc \in {"fetch", "read", "write", "writing"} =>
               /\ rows # {} => q.start \in {Max(rows), Max(rows) + 1}
               /\ q.pc # "fetch" => q.page = q.start .. Max(q.page)

OneAtATime ==
    /\ contested = {}
    /\ \A a, b \in Busy : a = b
    /\ \A a \in Busy : GoesOn(actors[a])
    /\ \A f \in Files : Stored!Unbroken(History(f))

ArchiveInv == DataInv /\ (MaxActive = 1 /\ MaxRefreshes = 0 => OneAtATime)

-----------------------------------------------------------------------------
(***************************************************************************)
(* What the documents say and the code does not do.                        *)
(***************************************************************************)

(* docs/v3-modulo-6-monitor-alertas.md:55: the update asks for the last    *)
(* candles and keeps the history intact.                                   *)
HistoryIsIntact == \A f \in Files : Stored!Unbroken(disk[f].rows)

(* docs/v3-modulo-1-datos.md:42: row_count is the number of candles in the *)
(* file.  Two imports of one file lose candles or commit an older count.   *)
RowsDescribeFiles == Busy = {} => \A f \in Files : Described(f)

(* docs/v3-modulo-1-datos.md:144: when Binance fails for good the task is  *)
(* marked failed.                                                          *)
FailedImportIsNotDone ==
    \A a \in Actors : actors[a].status = "done" => actors[a].errors = {}

(* docs/v3-modulo-1-datos.md:146: a corrupt file is moved away when it is  *)
(* found, so that the user can import it again.                            *)
CorruptFileIsMovedAway ==
    \A a \in Actors : \A f \in actors[a].errors : disk[f].state # "torn" \/ Writers(f) # {}
=============================================================================
