------------------------------- MODULE Logger -------------------------------
(***************************************************************************)
(* The rotating log file of logger.c.                                      *)
(*                                                                         *)
(* All the threads of the gateway log through one mutex, under which the   *)
(* log file is rotated and the line written.  Between any two system calls *)
(* the process may die and be started again, and a remove, a rename, an    *)
(* open or a write may fail.                                               *)
(*                                                                         *)
(* A line has the number of the call of vflog that wrote it, a file is the *)
(* set of its lines, a size a number of lines: every open is for appending *)
(* and a file is moved, never copied.  A line whose flush fails is lost,   *)
(* though the stream has taken it and vflog counts it.                     *)
(***************************************************************************)
EXTENDS Integers, FiniteSets

CONSTANTS Thread,
          MaxBackup,    \* maxBackupFiles
          MaxSize,      \* maxFileSize, in lines
          MaxLines,     \* bound: lines logged
          NULL

ASSUME ConstantsAssumption ==
  /\ MaxBackup \in Nat \ {0}
  /\ MaxSize \in Nat \ {0}
  /\ MaxLines \in Nat
  /\ NULL \notin Thread

VARIABLES
  exists,   \* the indices of the files there are: 0 is the log, the others its backups
  file,     \* index -> the lines of the file
  output,   \* the index of the file s_flog.output writes to, or None
  size,     \* currentFileSize
  waiting,  \* the threads in pthread_mutex_lock
  holder,   \* the thread that holds s_mutex
  step, i,  \* where it is, and its loop variable
  up,       \* the process runs
  logged,   \* history: how many lines vflog has been called with
  lost,     \* history: those of them that never reached the disk
  failed    \* history: the calls that have failed

diskVars == <<exists, file>>
callVars == <<waiting, holder, step, i>>
histVars == <<logged, lost, failed>>
vars == <<diskVars, output, size, callVars, up, histVars>>

None == -1
Index == 0 .. MaxBackup

Init ==
  /\ exists = {}
  /\ file = [n \in Index |-> {}]
  /\ output = None
  /\ size = 0
  /\ waiting = {}
  /\ holder = NULL
  /\ step = "test"
  /\ i = 0
  /\ up = FALSE
  /\ logged = 0
  /\ lost = {}
  /\ failed = {}

-----------------------------------------------------------------------------
(* The process starts, and dies.                                           *)

\* fopen(s_flog.filename, "a")
OpenLog ==
  /\ exists' = exists \cup {0}
  /\ output' = 0
  /\ UNCHANGED file

\* getFileSize of the log; 0 when it cannot be opened.
ReadSize ==
  \/ size' = Cardinality(file[0]) /\ UNCHANGED failed
  \/ size' = 0 /\ failed' = failed \cup {"size"}

\* Mutant of logging_init: the size of the file that is there is not read.
logging_initEmpty ==
  /\ ~ up
  /\ up' = TRUE
  /\ OpenLog
  /\ size' = 0
  /\ UNCHANGED <<callVars, histVars>>

\* A process that cannot open the log exits: it has not started.
logging_init ==
  /\ ~ up
  /\ up' = TRUE
  /\ OpenLog
  /\ ReadSize
  /\ UNCHANGED <<callVars, logged, lost>>

Dies ==
  /\ up' = FALSE
  /\ output' = None
  /\ size' = 0
  /\ waiting' = {}
  /\ holder' = NULL
  /\ step' = "test"
  /\ i' = 0

Crash == up /\ Dies /\ UNCHANGED <<diskVars, histVars>>

-----------------------------------------------------------------------------
(* logger_log.                                                             *)

\* A thread logs a line of an enabled level.
Call(t) ==
  /\ up /\ t \notin waiting /\ t # holder
  /\ logged + Cardinality(waiting) < MaxLines
  /\ waiting' = waiting \cup {t}
  /\ UNCHANGED <<diskVars, output, size, holder, step, i, up, histVars>>

Lock(t) ==
  /\ t \in waiting /\ holder = NULL
  /\ holder' = t
  /\ waiting' = waiting \ {t}
  /\ step' = "test"
  /\ UNCHANGED <<diskVars, output, size, i, up, histVars>>

At(s) == holder # NULL /\ step = s

Unlock == holder' = NULL /\ step' = "test"

\* "dont need rotate"; without a file the line is dropped.
NoRotation ==
  /\ At("test") /\ size < MaxSize
  /\ IF output = None THEN Unlock ELSE step' = "write" /\ UNCHANGED holder
  /\ UNCHANGED <<diskVars, output, size, waiting, i, up, histVars>>

\* "need rotate".  fclose(NULL), after an open that has failed, ends the process.
CloseLog ==
  /\ At("test") /\ size >= MaxSize
  /\ IF output = None
     THEN Dies
     ELSE /\ output' = None
          /\ i' = MaxBackup
          /\ step' = "remove"
          /\ UNCHANGED <<size, waiting, holder, up>>
  /\ UNCHANGED <<diskVars, histVars>>

\* Mutant of RemoveBackup: a dst that cannot be removed is passed over.
RemoveOrPassOver ==
  /\ At("remove") /\ i > 0
  /\ \/ /\ exists' = exists \ {i}
        /\ file' = [file EXCEPT ![i] = {}]
        /\ step' = "rename"
        /\ UNCHANGED <<i, failed>>
     \/ /\ i \in exists /\ failed' = failed \cup {"remove"}
        /\ i' = i - 1
        /\ UNCHANGED <<step, diskVars>>
  /\ UNCHANGED <<output, size, waiting, holder, up, logged, lost>>

\* if (isFileExist(dst)) remove(dst)
RemoveBackup ==
  /\ At("remove") /\ i > 0
  /\ step' = "rename"
  /\ \/ /\ exists' = exists \ {i}
        /\ file' = [file EXCEPT ![i] = {}]
        /\ UNCHANGED failed
     \/ i \in exists /\ failed' = failed \cup {"remove"} /\ UNCHANGED diskVars
  /\ UNCHANGED <<output, size, waiting, holder, i, up, logged, lost>>

\* if (isFileExist(src)) rename(src, dst): a dst that is still there is replaced.
RenameBackup ==
  /\ At("rename")
  /\ step' = "remove"
  /\ i' = i - 1
  /\ \/ /\ i - 1 \in exists
        /\ exists' = (exists \ {i - 1}) \cup {i}
        /\ file' = [file EXCEPT ![i] = file[i - 1], ![i - 1] = {}]
        /\ UNCHANGED failed
     \/ i - 1 \in exists /\ failed' = failed \cup {"rename"} /\ UNCHANGED diskVars
     \/ i - 1 \notin exists /\ UNCHANGED <<diskVars, failed>>
  /\ UNCHANGED <<output, size, waiting, holder, up, logged, lost>>

\* Mutant of Reopen: the name left in dst is opened.
ReopenBackup ==
  /\ At("remove") /\ i = 0
  /\ exists' = exists \cup {1}
  /\ output' = 1
  /\ size' = 0
  /\ step' = "write"
  /\ UNCHANGED <<diskVars, waiting, holder, i, up, histVars>>

\* Mutant of Reopen: a log that could not be moved is truncated.
ReopenTruncated ==
  /\ At("remove") /\ i = 0
  /\ exists' = exists \cup {0}
  /\ file' = [file EXCEPT ![0] = {}]
  /\ output' = 0
  /\ size' = 0
  /\ step' = "write"
  /\ UNCHANGED <<waiting, holder, i, up, histVars>>

Reopen ==
  /\ At("remove") /\ i = 0
  /\ OpenLog
  /\ ReadSize
  /\ step' = "write"
  /\ UNCHANGED <<waiting, holder, i, up, logged, lost>>

\* Mutant of ReopenFails: the early return leaves the mutex locked.
ReopenFailsLocked ==
  /\ At("remove") /\ i = 0
  /\ step' = "returned"
  /\ failed' = failed \cup {"open"}
  /\ UNCHANGED <<diskVars, output, size, waiting, holder, i, up, logged, lost>>

\* "return 0": the line is dropped, currentFileSize stays where it is.
ReopenFails ==
  /\ At("remove") /\ i = 0
  /\ Unlock
  /\ failed' = failed \cup {"open"}
  /\ UNCHANGED <<diskVars, output, size, waiting, i, up, logged, lost>>

\* vflog counts what fprintf and vfprintf return and does not look at what fflush
\* does: a line that is lost counts as well, unless printing itself failed.
Write ==
  /\ At("write")
  /\ Unlock
  /\ logged' = logged + 1
  /\ \/ /\ file' = [file EXCEPT ![output] = @ \cup {logged + 1}]
        /\ size' = size + 1
        /\ UNCHANGED <<lost, failed>>
     \/ /\ lost' = lost \cup {logged + 1}
        /\ failed' = failed \cup {"write"}
        /\ size' \in {size, size + 1}
        /\ UNCHANGED file
  /\ UNCHANGED <<exists, output, waiting, i, up>>

Rotation == NoRotation \/ CloseLog \/ RemoveBackup \/ RenameBackup \/ Reopen \/ ReopenFails

HolderStep == Rotation \/ Write

Next ==
  \/ logging_init \/ Crash
  \/ \E t \in Thread : Call(t) \/ Lock(t)
  \/ HolderStep

Spec == Init /\ [][Next]_vars

\* The holder of the mutex is scheduled; a thread that waits for it gets it in the end.
FairSpec == Spec /\ WF_vars(HolderStep) /\ \A t \in Thread : SF_vars(Lock(t))

-----------------------------------------------------------------------------
(* Properties.                                                             *)

Kept == UNION {file[n] : n \in Index}

\* Whatever fails and whenever the process dies, the backups from the highest
\* index down and then the log give the lines in the order they were written.
Chronological == \A m, n \in Index : m < n => \A x \in file[m], y \in file[n] : y < x

Reached == 1 .. logged \ lost

Newest == {n \in Reached : n > logged - MaxSize}

\* Whatever fails and whenever the process dies, of the newest MaxSize lines logged
\* those that reached the disk are still there: no rotation destroys a log that it
\* could not move, and the lost lines that currentFileSize counts bring about at
\* most one rotation in MaxSize of them.
NewestKept == Newest \subseteq Kept

\* As long as no rename has failed, rotation has only ever dropped the oldest of the
\* lines that reached the disk, in spite of crashes in the middle, of removes and
\* writes that fail, and of the empty logs that these make it rotate.
NoGap == "rename" \notin failed => \A x \in Kept, y \in Reached : x <= y => y \in Kept

\* As long as the log could be moved and measured, no file outgrows MaxSize,
\* across restarts as well.
BoundedFiles ==
  failed \cap {"rename", "size"} = {} => \A n \in Index : Cardinality(file[n]) <= MaxSize

\* What keeps them so.  The log ends with the last line that reached the disk; of the
\* last currentFileSize lines it has those that reached it; it holds the newest lines
\* until the rename that moves them to the first backup; and where renames work, a
\* rotation overwrites nothing but the last backup.
TypeOK ==
  /\ exists \in SUBSET Index
  /\ file \in [Index -> SUBSET (1 .. logged)]
  /\ output \in {None, 0}
  /\ size \in Nat
  /\ waiting \in SUBSET Thread
  /\ holder \in Thread \cup {NULL}
  /\ step \in {"test", "remove", "rename", "write"}
  /\ i \in Index
  /\ up \in BOOLEAN
  /\ logged \in Nat
  /\ lost \in SUBSET (1 .. logged)
  /\ failed \in SUBSET {"size", "remove", "rename", "open", "write"}

LogIsTail == \E k \in 0 .. logged : file[0] = k + 1 .. logged \ lost

Moving == At("rename") \/ (At("remove") /\ i > 0)

Inv ==
  /\ TypeOK
  /\ \A n \in Index : n \notin exists => file[n] = {}
  /\ Chronological
  /\ LogIsTail
  /\ ~ up => holder = NULL /\ waiting = {}
  /\ At("rename") => i > 0
  /\ At("write") => output = 0
  /\ Moving => output # 0
  /\ output = 0 => 0 \in exists
  /\ output = 0 => size <= logged /\ logged - size + 1 .. logged \ lost \subseteq file[0]
  /\ Newest \subseteq file[0] \cup file[1]
  /\ Moving => Newest \subseteq file[0]
  /\ "rename" \notin failed /\ Moving /\ i < MaxBackup => file[i] = {}
  /\ NoGap

\* A thread that logs goes on: with its line written or dropped, or because the
\* process died.
CallsReturn == \A t \in Thread : (t \in waiting \/ t = holder) ~> (t \notin waiting /\ t # holder)

=============================================================================
