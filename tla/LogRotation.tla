----------------------------- MODULE LogRotation -----------------------------
(***************************************************************************)
(* The files of logger/logger.go and the handlers of logger_handler.go     *)
(* that write to them, without Stdout: rotation by size (ROTATE_FILE_NUM)  *)
(* and by day (ROTATE_FILE_DAILY), in both formats.                        *)
(*                                                                         *)
(* A file is the set of records in it, and its name is <<kind, n>>: n = 0  *)
(* is the file being written, n > 0 the suffix or the date it was renamed  *)
(* to.  The process may be killed at any moment and started again, the     *)
(* clock may be set, and os.Rename and os.Create may fail.                 *)
(***************************************************************************)
EXTENDS Integers, Sequences, FiniteSets, Functions, TLC

CONSTANTS Writers,       \* goroutines that log
          NoWriter,
          MaxRecords,    \* bound: records logged
          MaxDay,        \* bound: days the clock can show
          MaxRestarts,   \* bound: restarts
          MaxFaults,     \* bound: calls of os.Rename and os.Create that fail
          MaxFileSize,   \* Glogconf.MaxFileSize, in records
          MaxFileCount   \* Glogconf.MaxFileCount

ASSUME LogAssumption ==
    /\ MaxRecords \in Nat /\ MaxDay \in Nat \ {0} /\ MaxRestarts \in Nat /\ MaxFaults \in Nat
    /\ MaxFileSize \in Nat \ {0} /\ MaxFileCount \in Nat \ {0}
    /\ NoWriter \notin Writers

VARIABLES daily,       \* RotateMethod = ROTATE_FILE_DAILY
          text,        \* Format = TEXT_FORMAT
          today,       \* what the clock shows
          files,       \* the files on disk
          handle,      \* logfile and logfile_err: "open", "closed" or "nil"
          suffix,      \* _suffix
          ldate,       \* Ldate
          logMu,       \* who holds LogObj.mu across several steps, or NoWriter
          logCall,     \* where a writer is, and the record it writes
          records,     \* records written so far; a record is its number
          restarts,
          done,        \* history: <<kind, record>> for each write that returned
          rotated,     \* history: what each rotation by size since the start moved away
          before,      \* history: the records written before the start
          faults,      \* history: calls of os.Rename and os.Create that failed
          excused      \* history: records truncated or dropped after such a failure

logVars == <<daily, text, today, files, handle, suffix, ldate, logMu, logCall, records,
             restarts, done, rotated, before, faults, excused>>

Kinds == IF daily THEN {"main", "err"} ELSE {"main"}
Name(kind, n) == <<kind, n>>
Resting == [at |-> "idle"]
LogAt(w, loc) == logCall[w].at = loc
LogGoto(w, loc) == logCall' = [logCall EXCEPT ![w] = [at |-> loc]]

WithoutFile(fs, name) == Restrict(fs, DOMAIN fs \ {name})

\* os.OpenFile with O_APPEND|O_CREATE.
Opened(fs, names) == fs @@ [n \in names |-> {}]

-----------------------------------------------------------------------------
(* The names and the conditions of a rotation *)

\* The suffix or the date the current files are renamed to.
Target == IF daily THEN ldate ELSE suffix

\* fileSize
FileSize(name) == IF name \in DOMAIN files THEN Cardinality(files[name]) ELSE 0

\* isMustRename
IsMustRename ==
    IF daily THEN today > ldate
    ELSE MaxFileCount > 1 /\ FileSize(Name("main", 0)) >= MaxFileSize

\* The names of the day are free; without that rename does nothing.
DatedFilesFree == \A kind \in Kinds : Name(kind, ldate) \notin DOMAIN files

\* nextSuffix
NextSuffix(s) == (s % MaxFileCount) + 1

\* SetRollingFile continues after the last of the files 1, 2, ... without a gap.
LastSuffix ==
    LET Run(i) == \A j \in 1..i : Name("main", j) \in DOMAIN files
    IN  CHOOSE i \in 0..MaxFileCount :
            Run(i) /\ (i = MaxFileCount \/ ~Run(i + 1))

-----------------------------------------------------------------------------
(* Newglog, SetRollingFile, SetRollingDaily *)

AllOpen == [kind \in {"main", "err"} |-> IF kind \in Kinds THEN "open" ELSE "nil"]
AllAre(state) == [kind \in {"main", "err"} |-> state]

LogInit ==
    /\ daily \in BOOLEAN
    /\ text \in BOOLEAN
    /\ today = 1
    /\ files = [name \in {Name(kind, 0) : kind \in Kinds} |-> {}]
    /\ handle = AllOpen
    /\ suffix = 0
    /\ ldate = 1
    /\ logMu = NoWriter
    /\ logCall = [w \in Writers |-> Resting]
    /\ records = 0
    /\ restarts = 0
    /\ done = {}
    /\ rotated = <<>>
    /\ before = {}
    /\ faults = 0
    /\ excused = {}

\* A rotation by size first frees the next suffix (coverNextOne).
BeginCover(from) ==
    /\ suffix' = NextSuffix(from)
    /\ files' = WithoutFile(files, Name("main", NextSuffix(from)))

\* The process is killed and started again; writer w is its main goroutine.  A
\* full file is rotated before anything is written.
Restart(w) ==
    /\ restarts < MaxRestarts
    /\ restarts' = restarts + 1
    /\ before' = 1..records
    /\ rotated' = <<>>
    /\ ldate' = today
    /\ IF ~daily /\ IsMustRename
       THEN /\ BeginCover(LastSuffix)
            /\ handle' = AllAre("nil")
            /\ logMu' = w
            /\ logCall' = [v \in Writers |-> IF v = w THEN [at |-> "rename", kind |-> "main"]
                                             ELSE Resting]
       ELSE /\ suffix' = IF daily THEN 0 ELSE LastSuffix
            /\ files' = Opened(files, {Name(kind, 0) : kind \in Kinds})
            /\ handle' = AllOpen
            /\ logMu' = NoWriter
            /\ logCall' = [v \in Writers |-> Resting]
    /\ UNCHANGED <<daily, text, today, records, done, faults, excused>>

\* The clock goes on, or is set.
SetClock ==
    /\ daily
    /\ \E d \in 1..MaxDay : d # today /\ today' = d
    /\ UNCHANGED <<daily, text, files, handle, suffix, ldate, logMu, logCall, records,
                   restarts, done, rotated, before, faults, excused>>

-----------------------------------------------------------------------------
(* fileCheck, rename, coverNextOne *)

\* The test before the mutex: Debug, Info, Warn and Error start with it, and so
\* does every tick of fileMonitor.
FileCheck(w) ==
    /\ LogAt(w, "idle")
    /\ LogGoto(w, IF IsMustRename THEN "rotate" ELSE "write")
    /\ UNCHANGED <<daily, text, today, files, handle, suffix, ldate, logMu, records,
                   restarts, done, rotated, before, faults, excused>>

\* rename, called with the mutex held, finds nothing to do.
RenameNothing(w) ==
    /\ LogAt(w, "rotate")
    /\ logMu = NoWriter
    /\ ~IsMustRename \/ (daily /\ ~DatedFilesFree)
    /\ LogGoto(w, "write")
    /\ UNCHANGED <<daily, text, today, files, handle, suffix, ldate, logMu, records,
                   restarts, done, rotated, before, faults, excused>>

\* The files are closed unless one is missing, and the next suffix is freed.
Close(w) ==
    /\ LogAt(w, "rotate")
    /\ logMu = NoWriter
    /\ IF daily THEN UNCHANGED <<suffix, files>> ELSE BeginCover(suffix)
    /\ handle' = IF \E kind \in Kinds : handle[kind] = "nil" THEN handle
                 ELSE [kind \in {"main", "err"} |->
                          IF kind \in Kinds THEN "closed" ELSE "nil"]
    /\ logMu' = w
    /\ logCall' = [logCall EXCEPT ![w] = [at |-> "rename", kind |-> "main"]]
    /\ rotated' = IF daily THEN rotated
                  ELSE Append(rotated, IF Name("main", 0) \in DOMAIN files
                                       THEN files[Name("main", 0)] ELSE {})
    /\ UNCHANGED <<daily, text, today, ldate, records, restarts, done, before, faults, excused>>

\* Mutant: the condition is not tested again under the mutex.
RenameClose_NoRecheck(w) == (daily => DatedFilesFree) /\ Close(w)

RenameClose(w) ==
    /\ IsMustRename
    /\ daily => DatedFilesFree
    /\ Close(w)

\* The kind that follows in rename's order.
NextAt(kind, loc, after) ==
    IF daily /\ kind = "main" THEN [at |-> loc, kind |-> "err"] ELSE after

\* os.Rename of one file; it replaces the target, and its error is ignored.  The
\* last one is followed by the new Ldate.
RenameFile(w) ==
    /\ LogAt(w, "rename")
    /\ LET kind == logCall[w].kind
           from == Name(kind, 0)
           to   == Name(kind, Target)
       IN  /\ \/ /\ from \in DOMAIN files
                 /\ files' = (to :> files[from]) @@ WithoutFile(files, from)
                 /\ UNCHANGED faults
              \/ /\ from \in DOMAIN files
                 /\ faults < MaxFaults
                 /\ faults' = faults + 1
                 /\ UNCHANGED files
              \/ /\ from \notin DOMAIN files
                 /\ UNCHANGED <<files, faults>>
           /\ logCall' = [logCall EXCEPT ![w] =
                             NextAt(kind, "rename", [at |-> "create", kind |-> "main"])]
           /\ ldate' = IF kind = "err" THEN today ELSE ldate
    /\ UNCHANGED <<daily, text, today, handle, suffix, logMu, records, restarts,
                   done, rotated, before, excused>>

\* os.Create of one file truncates what it finds; a failure leaves a nil handle.
\* The last one ends the rotation.
CreateFile(w) ==
    /\ LogAt(w, "create")
    /\ LET kind == logCall[w].kind
           name == Name(kind, 0)
           next == NextAt(kind, "create", [at |-> "write"])
       IN  /\ \/ /\ files' = (name :> {}) @@ files
                 /\ handle' = [handle EXCEPT ![kind] = "open"]
                 /\ excused' = excused \cup IF name \in DOMAIN files THEN files[name] ELSE {}
                 /\ UNCHANGED faults
              \/ /\ faults < MaxFaults
                 /\ faults' = faults + 1
                 /\ handle' = [handle EXCEPT ![kind] = "nil"]
                 /\ UNCHANGED <<files, excused>>
           /\ logCall' = [logCall EXCEPT ![w] = next]
           /\ logMu' = IF next.at = "write" THEN NoWriter ELSE logMu
    /\ UNCHANGED <<daily, text, today, suffix, ldate, records, restarts, done, rotated, before>>

-----------------------------------------------------------------------------
(* The handlers *)

\* The files after record r was written to those of kinds whose handle is open.
Written(kinds, r) ==
    [name \in DOMAIN files |->
        IF name[2] = 0 /\ name[1] \in kinds /\ handle[name[1]] = "open"
        THEN files[name] \cup {r} ELSE files[name]]

WriteTo(w, kinds, r, after) ==
    /\ files' = IF text /\ handle["main"] = "nil" THEN files ELSE Written(kinds, r)
    /\ done' = done \cup {<<kind, r>> : kind \in kinds \cap Kinds}
    /\ excused' = IF \E kind \in kinds \cap Kinds : handle[kind] = "nil"
                  THEN excused \cup {r} ELSE excused
    /\ logCall' = [logCall EXCEPT ![w] = after]
    /\ UNCHANGED <<daily, text, today, handle, suffix, ldate, logMu, restarts, rotated,
                   before, faults>>

\* Mutant: the handle is read and written without the mutex.
WriteMain_Unlocked(w) ==
    /\ LogAt(w, "write")
    /\ records < MaxRecords
    /\ records' = records + 1
    /\ WriteTo(w, {"main"}, records + 1, Resting)

\* lockedLogWriter.Write to the current logfile; Handle goes on with the error
\* file for a record of level WARN or above.
WriteMain(w) ==
    /\ ~text
    /\ LogAt(w, "write")
    /\ logMu = NoWriter
    /\ records < MaxRecords
    /\ records' = records + 1
    /\ \E after \in {Resting, [at |-> "writeErr", rec |-> records + 1]} :
          WriteTo(w, {"main"}, records + 1, after)

WriteErr(w) ==
    /\ LogAt(w, "writeErr")
    /\ logMu = NoWriter
    /\ WriteTo(w, {"err"}, logCall[w].rec, Resting)
    /\ UNCHANGED records

\* writeFiles of CustomHandler: both files under one lock; nothing is written
\* without a logfile.
WriteFiles(w) ==
    /\ text
    /\ LogAt(w, "write")
    /\ logMu = NoWriter
    /\ records < MaxRecords
    /\ records' = records + 1
    /\ \E kinds \in {{"main"}, {"main", "err"}} :
          WriteTo(w, kinds, records + 1, Resting)

\* The level is not enabled, or it was fileMonitor.
Filtered(w) ==
    /\ LogAt(w, "write")
    /\ LogGoto(w, "idle")
    /\ UNCHANGED <<daily, text, today, files, handle, suffix, ldate, logMu, records,
                   restarts, done, rotated, before, faults, excused>>

-----------------------------------------------------------------------------
LogNext ==
    \/ SetClock
    \/ \E w \in Writers :
          \/ Restart(w)
          \/ FileCheck(w) \/ RenameNothing(w) \/ RenameClose(w)
          \/ RenameFile(w) \/ CreateFile(w)
          \/ WriteMain(w) \/ WriteErr(w) \/ WriteFiles(w) \/ Filtered(w)

-----------------------------------------------------------------------------
(* Properties *)

OnDisk(kind, r) == \E name \in DOMAIN files : name[1] = kind /\ r \in files[name]

\* Retention by size: what the last MaxFileCount rotations since the start moved
\* away is kept, older records and those from before the start may be replaced.
MayBeReplaced(r) ==
    /\ ~daily
    /\ \/ r \in before
       \/ \E i \in 1..(Len(rotated) - MaxFileCount) : r \in rotated[i]

\* No record is lost: one whose write returned is in the current file or in a
\* rotated one, whatever writers, rotations, restarts and clock changes come
\* between.  Rotation by size replaces the oldest records only, and nothing is
\* truncated or dropped unless a Rename or Create failed.
NoRecordLost ==
    /\ \A d \in done : OnDisk(d[1], d[2]) \/ MayBeReplaced(d[2]) \/ d[2] \in excused
    /\ excused # {} => faults > 0

\* A file is moved away only when it is full, although several writers find it
\* full before one of them has the mutex.
RotatedWhenDue ==
    ~daily => \A i \in 1..Len(rotated) : Cardinality(rotated[i]) >= MaxFileSize
=============================================================================
