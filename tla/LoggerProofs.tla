---------------------------- MODULE LoggerProofs ----------------------------
(***************************************************************************)
(* Proofs about the rotating log file: for any number of threads, backups  *)
(* and lines, whatever calls fail and whenever the process dies.           *)
(***************************************************************************)
EXTENDS Logger, FiniteSetTheorems, TLAPS

USE ConstantsAssumption

\* What Inv says of the disk alone.
DiskInv ==
  /\ exists \in SUBSET Index
  /\ file \in [Index -> SUBSET (1 .. logged)]
  /\ logged \in Nat
  /\ lost \in SUBSET (1 .. logged)
  /\ failed \in SUBSET {"size", "remove", "rename", "open", "write"}
  /\ \A n \in Index : n \notin exists => file[n] = {}
  /\ Chronological
  /\ LogIsTail
  /\ Newest \subseteq file[0] \cup file[1]
  /\ NoGap

\* What it says of the process.
RunInv ==
  /\ output \in {None, 0}
  /\ size \in Nat
  /\ waiting \in SUBSET Thread
  /\ holder \in Thread \cup {NULL}
  /\ step \in {"test", "remove", "rename", "write"}
  /\ i \in Index
  /\ up \in BOOLEAN
  /\ ~ up => holder = NULL /\ waiting = {}
  /\ At("rename") => i > 0
  /\ At("write") => output = 0
  /\ Moving => output # 0
  /\ output = 0 => 0 \in exists
  /\ output = 0 => size <= logged /\ logged - size + 1 .. logged \ lost \subseteq file[0]
  /\ Moving => Newest \subseteq file[0]
  /\ "rename" \notin failed /\ Moving /\ i < MaxBackup => file[i] = {}

LEMMA InvParts == Inv <=> DiskInv /\ RunInv
BY DEF Inv, TypeOK, DiskInv, RunInv

LEMMA InvPartsPrimed == Inv' <=> DiskInv' /\ RunInv'
BY DEF Inv, TypeOK, DiskInv, RunInv

\* The log can be measured, and what reached the disk of so many of the newest lines
\* is in it.
LEMMA LogSize ==
  ASSUME DiskInv
  PROVE  /\ IsFiniteSet(file[0]) /\ Cardinality(file[0]) \in 0 .. logged
         /\ logged - Cardinality(file[0]) + 1 .. logged \ lost \subseteq file[0]
<1>1. PICK k \in 0 .. logged : file[0] = k + 1 .. logged \ lost
  BY DEF DiskInv, LogIsTail
<1>2. k \in Int /\ logged \in Int /\ 0 <= k /\ k <= logged
  BY <1>1 DEF DiskInv
<1>3. Cardinality(k + 1 .. logged) = logged - k /\ IsFiniteSet(k + 1 .. logged)
  <2>1. /\ Cardinality(k + 1 .. logged) = IF k + 1 > logged THEN 0 ELSE logged - (k + 1) + 1
        /\ IsFiniteSet(k + 1 .. logged)
    BY <1>2, FS_Interval
  <2> QED BY <2>1, <1>2
<1>4. file[0] \subseteq k + 1 .. logged
  BY <1>1
<1>5. IsFiniteSet(file[0]) /\ Cardinality(file[0]) <= logged - k /\ Cardinality(file[0]) \in Nat
  BY <1>3, <1>4, FS_Subset, FS_CardinalityType
<1>6. ASSUME NEW n \in logged - Cardinality(file[0]) + 1 .. logged PROVE n \in k + 1 .. logged
  BY <1>2, <1>5
<1>7. Cardinality(file[0]) \in 0 .. logged
  BY <1>2, <1>5
<1> QED BY <1>1, <1>5, <1>6, <1>7

\* A step that leaves the disk alone, up to a file that is created empty.
LEMMA DiskFrame ==
  ASSUME DiskInv, UNCHANGED <<file, logged, lost>>,
         exists' = exists \/ exists' = exists \cup {0},
         failed' \in SUBSET {"size", "remove", "rename", "open", "write"},
         failed \subseteq failed'
  PROVE  DiskInv'
<1>1. NoGap'
  BY DEF DiskInv, NoGap, Kept, Reached
<1>2. 0 \in Index
  BY DEF Index
<1> QED BY <1>1, <1>2 DEF DiskInv, Chronological, LogIsTail, Newest, Reached

LEMMA InitInv == Init => Inv
<1> SUFFICES ASSUME Init PROVE DiskInv /\ RunInv
  BY InvParts
<1>1. \A n \in Index : file[n] = {}
  BY DEF Init
<1>2. 0 \in Index /\ 1 \in Index
  BY DEF Index
<1>3. LogIsTail
  <2>1. file[0] = 0 + 1 .. logged \ lost
    BY <1>1, <1>2 DEF Init
  <2>2. 0 \in 0 .. logged
    BY DEF Init
  <2> QED BY <2>1, <2>2 DEF LogIsTail
<1>4. Newest = {} /\ Kept = {}
  BY <1>1 DEF Init, Newest, Reached, Kept
<1>5. Chronological /\ NoGap
  BY <1>1, <1>4 DEF Chronological, NoGap
<1>6. DiskInv
  BY <1>1, <1>3, <1>4, <1>5 DEF Init, DiskInv
<1>7. RunInv
  <2>1. holder = NULL /\ output = -1 /\ size = 0 /\ i = 0 /\ step = "test" /\ waiting = {} /\ up = FALSE
    BY DEF Init, None
  <2>2. \A s \in {"test", "remove", "rename", "write"} : ~ At(s)
    BY <2>1 DEF At
  <2>3. ~ Moving
    BY <2>2 DEF Moving
  <2>4. up \in BOOLEAN /\ waiting \in SUBSET Thread /\ holder \in Thread \cup {NULL}
    BY <2>1
  <2>5. output \in {None, 0} /\ output # 0 /\ size \in Nat /\ i \in Index
    BY <1>2, <2>1 DEF None
  <2> QED BY <2>1, <2>2, <2>3, <2>4, <2>5 DEF RunInv
<1> QED BY <1>6, <1>7

\* The process has died: what is left is the disk.
LEMMA DiedInv ==
  ASSUME Inv, Dies, UNCHANGED <<diskVars, histVars>>
  PROVE  Inv'
<1>1. DiskInv'
  BY DiskFrame, InvParts DEF diskVars, histVars, DiskInv
<1>2. RunInv'
  <2>1. holder' = NULL /\ output' = -1 /\ size' = 0 /\ i' = 0 /\ step' = "test" /\ waiting' = {} /\ up' = FALSE
    BY DEF Dies, None
  <2>2. \A s \in {"test", "remove", "rename", "write"} : ~ At(s)'
    BY <2>1 DEF At
  <2>3. ~ Moving'
    BY <2>1 DEF Moving, At
  <2>4. 0 \in Index
    BY DEF Index
  <2>5. up' \in BOOLEAN /\ waiting' \in SUBSET Thread /\ holder' \in Thread \cup {NULL}
    BY <2>1
  <2>6. output' \in {None, 0} /\ output' # 0 /\ size' \in Nat /\ i' \in Index
    BY <2>1, <2>4 DEF None
  <2> QED BY <2>1, <2>2, <2>3, <2>5, <2>6 DEF RunInv
<1> QED BY <1>1, <1>2, InvPartsPrimed

\* logging_init and Reopen: the log is open, and its size at most what it has.
LEMMA OpenInv ==
  ASSUME Inv, OpenLog, ReadSize, UNCHANGED <<logged, lost>>
  PROVE  /\ DiskInv'
         /\ output' = 0 /\ size' \in Nat
         /\ size' <= logged' /\ logged' - size' + 1 .. logged' \ lost' \subseteq file[0]
<1>1. DiskInv'
  BY DiskFrame, InvParts DEF OpenLog, ReadSize, DiskInv
<1>2. size' \in 0 .. logged /\ logged - size' + 1 .. logged \ lost' \subseteq file[0]
  <2>1. CASE size' = 0
    BY <2>1, InvParts DEF DiskInv
  <2>2. CASE size' = Cardinality(file[0])
    BY <2>2, LogSize, InvParts
  <2> QED BY <2>1, <2>2 DEF ReadSize
<1>3. output' = 0 /\ logged' = logged /\ logged \in Nat
  BY InvParts DEF OpenLog, DiskInv
<1>4. size' \in Nat /\ size' <= logged
  BY <1>2, <1>3
<1>5. logged' - size' + 1 .. logged' \ lost' \subseteq file[0]
  BY <1>2, <1>3
<1> QED BY <1>1, <1>3, <1>4, <1>5

LEMMA StartInv ==
  ASSUME Inv, logging_init
  PROVE  Inv'
<1>1. OpenLog /\ ReadSize /\ UNCHANGED <<waiting, holder, step, i, logged, lost>> /\ up' = TRUE
  BY DEF logging_init, callVars, histVars
<1>2. output' = 0 /\ size' \in Nat /\ size' <= logged' /\ logged' - size' + 1 .. logged' \ lost' \subseteq file'[0]
  BY <1>1, OpenInv DEF OpenLog
<1>3. \A s \in {"test", "remove", "rename", "write"} : ~ At(s)
  BY InvParts DEF logging_init, RunInv, At
<1>4. RunInv'
  BY <1>1, <1>2, <1>3, InvParts DEF RunInv, At, Moving, OpenLog
<1> QED BY <1>1, <1>4, OpenInv, InvPartsPrimed

\* A step of a thread that does not hold the mutex, and of its holder before it
\* comes to the disk.
LEMMA MutexSteps ==
  ASSUME Inv, \/ \E t \in Thread : Call(t) \/ Lock(t)
              \/ NoRotation \/ ReopenFails
  PROVE  Inv'
<1>1. DiskInv'
  BY DiskFrame, InvParts DEF DiskInv, Call, Lock, NoRotation, ReopenFails, diskVars, histVars
<1>2. RunInv'
  <2>1. ASSUME NEW t \in Thread, Call(t) PROVE RunInv'
    BY <2>1, InvParts DEF Call, RunInv, At, Moving, Newest, Reached, diskVars, histVars
  <2>2. ASSUME NEW t \in Thread, Lock(t) PROVE RunInv'
    BY <2>2, InvParts DEF Lock, RunInv, At, Moving, Newest, Reached, diskVars, histVars
  <2>3. CASE NoRotation
    BY <2>3, InvParts DEF NoRotation, Unlock, RunInv, At, Moving, Newest, Reached, diskVars, histVars, None
  <2>4. CASE ReopenFails
    BY <2>4, InvParts DEF ReopenFails, Unlock, RunInv, At, Moving, Newest, Reached, diskVars, histVars
  <2> QED BY <2>1, <2>2, <2>3, <2>4
<1> QED BY <1>1, <1>2, InvPartsPrimed

LEMMA CloseInv ==
  ASSUME Inv, CloseLog
  PROVE  Inv'
<1>1. CASE output = None
  BY <1>1, DiedInv DEF CloseLog
<1>2. CASE output # None
  <2>1. DiskInv'
    BY <1>2, DiskFrame, InvParts DEF DiskInv, CloseLog, diskVars, histVars
  <2>2. Newest \subseteq file[0]
    BY <1>2, InvParts DEF CloseLog, RunInv, DiskInv, Newest, Reached
  <2>3. MaxBackup \in Index
    BY DEF Index
  <2>4. RunInv'
    BY <1>2, <2>2, <2>3, InvParts DEF CloseLog, RunInv, At, Moving, Newest, Reached, diskVars, histVars, None, DiskInv
  <2> QED BY <2>1, <2>4, InvPartsPrimed
<1> QED BY <1>1, <1>2

LEMMA ReopenInv ==
  ASSUME Inv, Reopen
  PROVE  Inv'
<1>1. OpenLog /\ ReadSize /\ UNCHANGED <<waiting, holder, i, up, logged, lost>> /\ step' = "write"
  BY DEF Reopen
<1>2. output' = 0 /\ size' \in Nat /\ size' <= logged' /\ logged' - size' + 1 .. logged' \ lost' \subseteq file'[0]
  BY <1>1, OpenInv DEF OpenLog
<1>3. RunInv'
  BY <1>1, <1>2, InvParts DEF Reopen, RunInv, At, Moving, OpenLog
<1> QED BY <1>1, <1>3, OpenInv, InvPartsPrimed

-----------------------------------------------------------------------------
(* The steps that change the disk.                                         *)

LEMMA RemoveInv ==
  ASSUME Inv, RemoveBackup
  PROVE  Inv'
<1> USE InvParts
<1>1. i \in Index /\ i > 0 /\ Moving /\ step' = "rename" /\ UNCHANGED <<output, size, waiting, holder, i, up, logged, lost>>
  BY DEF RemoveBackup, RunInv, Moving
<1>2. 0 \in Index /\ 1 \in Index
  BY DEF Index
<1>3. Newest \subseteq file[0] /\ ("rename" \notin failed /\ i < MaxBackup => file[i] = {})
  BY <1>1 DEF RunInv
<1>4. CASE failed' = failed \cup {"remove"} /\ UNCHANGED diskVars
  <2>1. DiskInv'
    BY <1>1, <1>4, DiskFrame DEF DiskInv, diskVars
  <2>2. RunInv'
    BY <1>1, <1>3, <1>4 DEF RunInv, RemoveBackup, At, Moving, Newest, Reached, diskVars, histVars
  <2> QED BY <2>1, <2>2, InvPartsPrimed
<1>5. CASE exists' = exists \ {i} /\ file' = [file EXCEPT ![i] = {}] /\ UNCHANGED failed
  <2>1. file'[0] = file[0] /\ \A n \in Index : file'[n] = IF n = i THEN {} ELSE file[n]
    BY <1>1, <1>2, <1>5 DEF DiskInv
  <2>2. Chronological'
    BY <2>1 DEF DiskInv, Chronological
  <2>3. LogIsTail' /\ Newest' = Newest
    BY <1>1, <2>1 DEF DiskInv, LogIsTail, Newest, Reached
  <2>4. NoGap'
    <3> SUFFICES ASSUME "rename" \notin failed, NEW x \in Kept', NEW y \in Reached, x <= y
                 PROVE  y \in Kept'
      BY <1>1, <1>5 DEF NoGap, Reached
    <3>1. PICK m \in Index : m # i /\ x \in file[m]
      BY <2>1 DEF Kept
    <3>2. PICK n \in Index : y \in file[n]
      BY <3>1 DEF DiskInv, NoGap, Kept
    <3>3. n # i
      <4>1. CASE i < MaxBackup
        BY <4>1, <3>2, <1>3
      <4>2. CASE i = MaxBackup
        <5> SUFFICES ASSUME n = i PROVE FALSE
          OBVIOUS
        <5>1. m < n
          BY <3>1, <4>2 DEF Index
        <5>2. y < x /\ x \in 1 .. logged
          BY <5>1, <3>1, <3>2 DEF DiskInv, Chronological
        <5>3. x \in Nat /\ y \in Nat
          BY <5>2 DEF Reached, DiskInv
        <5> QED BY <5>2, <5>3
      <4> QED BY <1>1, <4>1, <4>2 DEF Index
    <3> QED BY <2>1, <3>2, <3>3 DEF Kept
  <2>5. DiskInv'
    <3>1. file' \in [Index -> SUBSET (1 .. logged')]
      BY <1>1, <1>5 DEF DiskInv
    <3>2. \A n \in Index : n \notin exists' => file'[n] = {}
      BY <1>5, <2>1 DEF DiskInv
    <3> QED BY <1>1, <1>3, <1>5, <2>1, <2>2, <2>3, <2>4, <3>1, <3>2 DEF DiskInv
  <2>6. file'[i'] = {}
    BY <1>1, <2>1
  <2>7. RunInv'
    BY <1>1, <1>3, <1>5, <2>1, <2>3, <2>6 DEF RunInv, RemoveBackup, At, Moving
  <2> QED BY <2>5, <2>7, InvPartsPrimed
<1> QED BY <1>4, <1>5 DEF RemoveBackup

LEMMA RenameInv ==
  ASSUME Inv, RenameBackup
  PROVE  Inv'
<1> USE InvParts
<1>1. /\ i \in Index /\ i > 0 /\ Moving
      /\ step' = "remove" /\ i' = i - 1
      /\ UNCHANGED <<output, size, waiting, holder, up, logged, lost>>
  BY DEF RenameBackup, RunInv, Moving
<1>2. 0 \in Index /\ 1 \in Index /\ i - 1 \in Index /\ i - 1 # i
  BY <1>1 DEF Index
<1>3. Newest \subseteq file[0] /\ ("rename" \notin failed /\ i < MaxBackup => file[i] = {})
  BY <1>1 DEF RunInv
<1>4. CASE /\ UNCHANGED diskVars
           /\ \/ failed' = failed \cup {"rename"}
              \/ i - 1 \notin exists /\ UNCHANGED failed
  <2>1. DiskInv'
    BY <1>1, <1>4, DiskFrame DEF DiskInv, diskVars
  <2>2. "rename" \notin failed' => file[i - 1] = {}
    BY <1>2, <1>4 DEF DiskInv
  <2>3. RunInv'
    BY <1>1, <1>2, <1>3, <1>4, <2>2 DEF RunInv, RenameBackup, At, Moving, Newest, Reached, diskVars, histVars
  <2> QED BY <2>1, <2>3, InvPartsPrimed
<1>5. CASE /\ exists' = (exists \ {i - 1}) \cup {i}
           /\ file' = [file EXCEPT ![i] = file[i - 1], ![i - 1] = {}]
           /\ UNCHANGED failed
  <2>1. \A n \in Index : file'[n] = IF n = i - 1 THEN {} ELSE IF n = i THEN file[i - 1] ELSE file[n]
    BY <1>1, <1>2, <1>5 DEF DiskInv
  <2>2. Chronological'
    <3> SUFFICES ASSUME NEW m \in Index, NEW n \in Index, m < n, NEW x \in file'[m], NEW y \in file'[n]
                 PROVE  y < x
      BY DEF Chronological
    <3>1. m # i - 1 /\ n # i - 1
      BY <2>1
    <3>2. PICK p \in Index, q \in Index : p < q /\ x \in file[p] /\ y \in file[q]
      <4>1. CASE m = i
        BY <1>1, <1>2, <2>1, <3>1, <4>1 DEF Index
      <4>2. CASE n = i
        BY <1>1, <1>2, <2>1, <3>1, <4>2 DEF Index
      <4>3. CASE m # i /\ n # i
        BY <2>1, <3>1, <4>3
      <4> QED BY <4>1, <4>2, <4>3
    <3> QED BY <3>2 DEF DiskInv, Chronological
  <2>3. LogIsTail'
    <3>1. CASE i = 1
      <4>1. file'[0] = {} /\ logged \in Nat
        BY <1>2, <2>1, <3>1 DEF DiskInv
      <4>2. file'[0] = logged + 1 .. logged
        BY <4>1
      <4> QED BY <1>1, <4>1, <4>2 DEF LogIsTail
    <3>2. CASE i # 1
      BY <1>1, <1>2, <2>1, <3>2 DEF DiskInv, LogIsTail, Index
    <3> QED BY <3>1, <3>2
  <2>4. Newest' = Newest /\ Newest \subseteq file'[0] \cup file'[1] /\ (i # 1 => Newest \subseteq file'[0])
    BY <1>1, <1>2, <1>3, <2>1 DEF Newest, Reached, Index
  <2>5. NoGap'
    <3> SUFFICES ASSUME "rename" \notin failed, NEW x \in Kept', NEW y \in Reached, x <= y
                 PROVE  y \in Kept'
      BY <1>1, <1>5 DEF NoGap, Reached
    <3>1. PICK m \in Index : m # i /\ x \in file[m]
      <4>1. PICK n \in Index : x \in file'[n]
        BY DEF Kept
      <4> QED BY <4>1, <2>1, <1>2
    <3>2. PICK n \in Index : y \in file[n]
      BY <3>1 DEF DiskInv, NoGap, Kept
    <3>3. n # i
      <4>1. CASE i < MaxBackup
        BY <4>1, <3>2, <1>3
      <4>2. CASE i = MaxBackup
        <5> SUFFICES ASSUME n = i PROVE FALSE
          OBVIOUS
        <5>1. m < n
          BY <3>1, <4>2 DEF Index
        <5>2. y < x /\ x \in 1 .. logged
          BY <5>1, <3>1, <3>2 DEF DiskInv, Chronological
        <5>3. x \in Nat /\ y \in Nat
          BY <5>2 DEF Reached, DiskInv
        <5> QED BY <5>2, <5>3
      <4> QED BY <1>1, <4>1, <4>2 DEF Index
    <3>4. CASE n = i - 1
      <4>1. y \in file'[i]
        BY <1>1, <1>2, <2>1, <3>2, <3>4
      <4> QED BY <4>1, <1>1 DEF Kept
    <3>5. CASE n # i - 1
      <4>1. y \in file'[n]
        BY <2>1, <3>2, <3>3, <3>5
      <4> QED BY <4>1 DEF Kept
    <3> QED BY <3>4, <3>5
  <2>6. DiskInv'
    <3>1. file' \in [Index -> SUBSET (1 .. logged')]
      BY <1>1, <1>2, <1>5 DEF DiskInv
    <3>2. \A n \in Index : n \notin exists' => file'[n] = {}
      BY <1>5, <2>1 DEF DiskInv
    <3>3. exists' \in SUBSET Index
      BY <1>1, <1>5 DEF DiskInv
    <3> QED BY <1>1, <1>5, <2>2, <2>3, <2>4, <2>5, <3>1, <3>2, <3>3 DEF DiskInv
  <2>7. file'[i'] = {} /\ output # 0
    BY <1>1, <1>2, <2>1 DEF RunInv
  <2>8. RunInv'
    <3>1. ~ At("rename")' /\ ~ At("write")' /\ (Moving' => i # 1) /\ output' # 0
      BY <1>1, <2>7 DEF At, Moving
    <3>2. Moving' => Newest' \subseteq file'[0]
      BY <2>4, <3>1
    <3> QED BY <1>1, <1>2, <2>7, <3>1, <3>2 DEF RunInv
  <2> QED BY <2>6, <2>8, InvPartsPrimed
<1> QED BY <1>4, <1>5 DEF RenameBackup

LEMMA WriteInv ==
  ASSUME Inv, Write
  PROVE  Inv'
<1> USE InvParts
<1>1. /\ output = 0 /\ holder' = NULL /\ step' = "test"
      /\ logged' = logged + 1
      /\ UNCHANGED <<exists, output, waiting, i, up>>
  BY DEF Write, Unlock, RunInv
<1>2. 0 \in Index /\ 1 \in Index
  BY DEF Index
<1>3. /\ size \in Nat /\ size <= logged /\ logged - size + 1 .. logged \ lost \subseteq file[0]
      /\ logged \in Nat /\ lost \in SUBSET (1 .. logged)
  BY <1>1 DEF RunInv, DiskInv
<1>4. ~ Moving' /\ \A s \in {"rename", "write"} : ~ At(s)'
  BY <1>1 DEF At, Moving
<1>5. CASE /\ lost' = lost \cup {logged + 1}
           /\ failed' = failed \cup {"write"}
           /\ size' \in {size, size + 1}
           /\ UNCHANGED file
  <2>1. /\ Reached' = Reached /\ Newest' \subseteq Newest
        /\ lost' \in SUBSET (1 .. logged') /\ file' \in [Index -> SUBSET (1 .. logged')]
    <3>1. 1 .. logged' = (1 .. logged) \cup {logged + 1}
      BY <1>1, <1>3
    <3> QED BY <1>1, <1>3, <1>5, <3>1 DEF Reached, Newest, DiskInv
  <2>2. LogIsTail'
    <3>1. PICK k \in 0 .. logged : file[0] = k + 1 .. logged \ lost
      BY DEF DiskInv, LogIsTail
    <3>2. k + 1 .. logged' \ lost' = k + 1 .. logged \ lost
      BY <1>1, <1>3, <1>5, <3>1
    <3>3. k \in 0 .. logged'
      BY <1>1, <1>3, <3>1
    <3> QED BY <1>5, <3>1, <3>2, <3>3 DEF LogIsTail
  <2>3. Chronological' /\ NoGap'
    BY <1>5, <2>1 DEF DiskInv, Chronological, NoGap, Kept
  <2>4. DiskInv'
    BY <1>1, <1>3, <1>5, <2>1, <2>2, <2>3 DEF DiskInv
  <2>5. size' \in Nat /\ size' <= logged' /\ logged' - size' + 1 .. logged' \ lost' \subseteq file'[0]
    <3>1. size' \in Nat /\ size' <= logged'
      BY <1>1, <1>3, <1>5
    <3>2. ASSUME NEW n \in logged' - size' + 1 .. logged', n \notin lost' PROVE n \in file'[0]
      <4>1. n \in logged - size + 1 .. logged /\ n \notin lost
        <5>1. n \in Int /\ n <= logged + 1 /\ n # logged + 1 /\ n \notin lost
          BY <1>1, <1>3, <1>5, <3>2
        <5>2. n >= logged - size + 1
          <6>1. CASE size' = size
            BY <1>1, <1>3, <3>2, <6>1
          <6>2. CASE size' = size + 1
            BY <1>1, <1>3, <3>2, <6>2
          <6> QED BY <1>5, <6>1, <6>2
        <5> QED BY <1>3, <5>1, <5>2
      <4> QED BY <1>3, <1>5, <4>1
    <3> QED BY <3>1, <3>2
  <2>6. RunInv'
    BY <1>1, <1>4, <1>5, <2>5 DEF RunInv
  <2> QED BY <2>4, <2>6, InvPartsPrimed
<1>6. CASE /\ file' = [file EXCEPT ![output] = @ \cup {logged + 1}]
           /\ size' = size + 1
           /\ UNCHANGED <<lost, failed>>
  <2>1. \A n \in Index : file'[n] = IF n = 0 THEN file[0] \cup {logged + 1} ELSE file[n]
    BY <1>1, <1>2, <1>6 DEF DiskInv
  <2>2. \A n \in Index : file[n] \subseteq 1 .. logged
    BY DEF DiskInv
  <2>3. Chronological'
    <3> SUFFICES ASSUME NEW m \in Index, NEW n \in Index, m < n, NEW x \in file'[m], NEW y \in file'[n]
                 PROVE  y < x
      BY DEF Chronological
    <3>1. y \in file[n]
      BY <2>1 DEF Index
    <3>2. CASE x \in file[m]
      BY <3>1, <3>2 DEF DiskInv, Chronological
    <3>3. CASE x = logged + 1
      <4>1. y \in 1 .. logged
        BY <3>1, <2>2
      <4> QED BY <4>1, <3>3, <1>3
    <3> QED BY <2>1, <3>2, <3>3
  <2>4. LogIsTail'
    <3>1. PICK k \in 0 .. logged : file[0] = k + 1 .. logged \ lost
      BY DEF DiskInv, LogIsTail
    <3>2. file'[0] = k + 1 .. logged' \ lost'
      <4>1. file'[0] = (k + 1 .. logged \ lost) \cup {logged + 1}
        BY <1>2, <2>1, <3>1
      <4>2. k \in Int /\ k <= logged
        BY <1>3, <3>1
      <4>3. (k + 1 .. logged) \cup {logged + 1} = k + 1 .. logged + 1
        BY <1>3, <4>2
      <4>4. logged + 1 \notin lost
        BY <1>3
      <4> QED BY <1>1, <1>6, <4>1, <4>3, <4>4
    <3>3. k \in 0 .. logged'
      BY <1>1, <1>3, <3>1
    <3> QED BY <3>2, <3>3 DEF LogIsTail
  <2>5. Newest' \subseteq file'[0] \cup file'[1]
    <3>1. Newest' \subseteq Newest \cup {logged + 1}
      BY <1>1, <1>3, <1>6 DEF Newest, Reached
    <3> QED BY <3>1, <1>2, <2>1 DEF DiskInv
  <2>6. NoGap'
    <3>1. Kept' = Kept \cup {logged + 1}
      <4>1. Kept' \subseteq Kept \cup {logged + 1}
        BY <2>1 DEF Kept
      <4>2. Kept \subseteq Kept'
        BY <2>1 DEF Kept
      <4>3. logged + 1 \in Kept'
        BY <1>2, <2>1 DEF Kept
      <4> QED BY <4>1, <4>2, <4>3
    <3>2. \A y \in Reached' : y = logged + 1 \/ y \in Reached
      BY <1>1, <1>3, <1>6 DEF Reached
    <3>3. Kept \subseteq 1 .. logged
      BY <2>2 DEF Kept
    <3> SUFFICES ASSUME "rename" \notin failed, NEW x \in Kept', NEW y \in Reached', x <= y
                 PROVE  y \in Kept'
      BY <1>6 DEF NoGap
    <3>4. CASE y = logged + 1
      BY <3>1, <3>4
    <3>5. CASE y \in Reached
      <4>1. x \in Kept
        BY <3>1, <3>5, <1>3 DEF Reached
      <4> QED BY <4>1, <3>1, <3>5 DEF DiskInv, NoGap
    <3> QED BY <3>2, <3>4, <3>5
  <2>7. DiskInv'
    <3>1. file' \in [Index -> SUBSET (1 .. logged')] /\ lost' \in SUBSET (1 .. logged')
      BY <1>1, <1>2, <1>3, <1>6, <2>2 DEF DiskInv
    <3>2. \A n \in Index : n \notin exists' => file'[n] = {}
      BY <1>1, <2>1 DEF RunInv, DiskInv
    <3> QED BY <1>1, <1>3, <1>6, <2>3, <2>4, <2>5, <2>6, <3>1, <3>2 DEF DiskInv
  <2>8. size' \in Nat /\ size' <= logged' /\ logged' - size' + 1 .. logged' \ lost' \subseteq file'[0]
    <3>1. size' \in Nat /\ size' <= logged'
      BY <1>1, <1>3, <1>6
    <3>2. ASSUME NEW n \in logged' - size' + 1 .. logged', n \notin lost' PROVE n \in file'[0]
      <4>1. n = logged + 1 \/ (n \in logged - size + 1 .. logged /\ n \notin lost)
        BY <1>1, <1>3, <1>6, <3>2
      <4> QED BY <1>2, <1>3, <2>1, <4>1
    <3> QED BY <3>1, <3>2
  <2>9. RunInv'
    BY <1>1, <1>4, <2>8 DEF RunInv
  <2> QED BY <2>7, <2>9, InvPartsPrimed
<1> QED BY <1>5, <1>6 DEF Write

-----------------------------------------------------------------------------
(* Theorems.                                                               *)

\* Inv is inductive.
THEOREM Invariance == Spec => []Inv
<1>1. Inv /\ [Next]_vars => Inv'
  <2> SUFFICES ASSUME Inv, [Next]_vars PROVE Inv'
    OBVIOUS
  <2>1. CASE UNCHANGED vars
    <3>1. DiskInv' /\ RunInv'
      BY <2>1, DiskFrame, InvParts DEF vars, diskVars, callVars, histVars, DiskInv, RunInv, At, Moving, Newest, Reached
    <3> QED BY <3>1, InvPartsPrimed
  <2>2. CASE Crash
    BY <2>2, DiedInv DEF Crash
  <2>3. CASE HolderStep
    BY <2>3, MutexSteps, CloseInv, RemoveInv, RenameInv, ReopenInv, WriteInv DEF HolderStep, Rotation
  <2>4. CASE logging_init \/ \E t \in Thread : Call(t) \/ Lock(t)
    BY <2>4, StartInv, MutexSteps
  <2> QED BY <2>1, <2>2, <2>3, <2>4 DEF Next
<1> QED BY <1>1, InitInv, PTL DEF Spec

\* Whatever fails and whenever the process dies, the files read from the highest
\* backup to the log give the lines in the order they were logged.
THEOREM FilesInOrder == Spec => []Chronological
<1>1. Inv => Chronological
  BY DEF Inv
<1> QED BY <1>1, Invariance, PTL

\* Whatever fails and whenever the process dies, those of the newest MaxSize lines
\* logged that reached the disk are there.
THEOREM NewestSurvive == Spec => []NewestKept
<1>1. Inv => NewestKept
  <2>1. 0 \in Index /\ 1 \in Index
    BY DEF Index
  <2> QED BY <2>1 DEF Inv, NewestKept, Kept
<1> QED BY <1>1, Invariance, PTL

\* As long as no rename fails, rotation has only dropped the oldest of the lines that
\* reached the disk.
THEOREM OnlyOldestDropped == Spec => []NoGap
<1>1. Inv => NoGap
  BY DEF Inv
<1> QED BY <1>1, Invariance, PTL

-----------------------------------------------------------------------------
(* The size of the files.                                                  *)

\* The log is never longer than currentFileSize says, a line is only logged to one
\* that has room for it, and a rotation ends with an empty log.
SizeInv ==
  failed \cap {"rename", "size"} = {} =>
    /\ \A n \in Index : Cardinality(file[n]) <= MaxSize
    /\ output = 0 => Cardinality(file[0]) <= size
    /\ At("write") => size < MaxSize
    /\ At("remove") /\ i = 0 => file[0] = {}

LEMMA LogFinite == ASSUME Inv PROVE IsFiniteSet(file[0]) /\ Cardinality(file[0]) \in Nat
BY LogSize, InvParts

LEMMA InitSize == Init => SizeInv
<1> SUFFICES ASSUME Init PROVE SizeInv
  OBVIOUS
<1>1. ~ At("write") /\ ~ At("remove") /\ output # 0
  BY DEF Init, At, None
<1>2. \A n \in Index : Cardinality(file[n]) <= MaxSize
  BY FS_EmptySet DEF Init
<1> QED BY <1>1, <1>2 DEF SizeInv

\* A step that leaves the disk alone and makes no claim on it.
LEMMA SizeFrame ==
  ASSUME SizeInv, UNCHANGED file, failed \subseteq failed',
         output' = 0 => output = 0 /\ size' = size,
         ~ At("write")' \/ (At("write") /\ size' = size), ~ At("remove")' \/ i' # 0 \/ (At("remove") /\ i = 0)
  PROVE  SizeInv'
BY DEF SizeInv

LEMMA SizeStep == Inv /\ SizeInv /\ [Next]_vars => SizeInv'
<1> SUFFICES ASSUME Inv, SizeInv, [Next]_vars PROVE SizeInv'
  OBVIOUS
<1> USE InvParts
<1>0. 0 \in Index /\ 1 \in Index /\ MaxBackup \in Index
  BY DEF Index
<1>1. CASE UNCHANGED vars
  BY <1>1, SizeFrame DEF vars, diskVars, histVars, callVars, At
<1>2. CASE Crash
  BY <1>2, SizeFrame DEF Crash, Dies, At, None, diskVars, histVars
<1>3. CASE logging_init
  <2>1. ~ At("write")' /\ ~ At("remove")' /\ UNCHANGED file
    BY <1>3 DEF logging_init, OpenLog, callVars, At, RunInv
  <2>2. "size" \notin failed' => size' = Cardinality(file[0])
    BY <1>3 DEF logging_init, ReadSize
  <2>3. failed \subseteq failed'
    BY <1>3 DEF logging_init, ReadSize
  <2> QED BY <2>1, <2>2, <2>3, LogFinite DEF SizeInv
<1>4. ASSUME NEW t \in Thread, Call(t) \/ Lock(t) PROVE SizeInv'
  BY <1>4, SizeFrame DEF Call, Lock, At, diskVars, histVars
<1>5. CASE NoRotation
  <2>1. CASE output = None
    BY <1>5, <2>1, SizeFrame DEF NoRotation, Unlock, At, diskVars, histVars, None
  <2>2. CASE output # None
    BY <1>5, <2>2 DEF NoRotation, SizeInv, At, diskVars, histVars
  <2> QED BY <2>1, <2>2
<1>6. CASE CloseLog
  <2>1. CASE output = None
    BY <1>6, <2>1, SizeFrame DEF CloseLog, Dies, At, diskVars, histVars, None
  <2>2. CASE output # None
    BY <1>6, <2>2, SizeFrame DEF CloseLog, At, diskVars, histVars, None
  <2> QED BY <2>1, <2>2
<1>7. CASE RemoveBackup
  <2>1. /\ ~ At("write")' /\ ~ At("remove")' /\ UNCHANGED <<output, size>>
        /\ failed \subseteq failed' /\ i \in Index /\ i # 0
    BY <1>7 DEF RemoveBackup, At, RunInv
  <2>2. file' = file \/ file' = [file EXCEPT ![i] = {}]
    BY <1>7 DEF RemoveBackup, diskVars, histVars
  <2>3. \A n \in Index : file'[n] = file[n] \/ file'[n] = {}
    BY <2>1, <2>2 DEF DiskInv
  <2>4. file'[0] = file[0]
    BY <1>0, <2>1, <2>2 DEF DiskInv
  <2> QED BY <2>1, <2>3, <2>4, FS_EmptySet DEF SizeInv
<1>8. CASE RenameBackup
  <2>1. /\ ~ At("write")' /\ failed \subseteq failed' /\ i \in Index /\ i - 1 \in Index /\ i' = i - 1
        /\ output # 0 /\ UNCHANGED output
    BY <1>8 DEF RenameBackup, At, RunInv, Moving, Index
  <2>2. CASE UNCHANGED file
    <3>1. i' = 0 /\ "rename" \notin failed' => file[0] = {}
      BY <1>8, <2>1, <2>2 DEF RenameBackup, DiskInv, diskVars, histVars, Index
    <3> QED BY <2>1, <2>2, <3>1 DEF SizeInv
  <2>3. CASE file' = [file EXCEPT ![i] = file[i - 1], ![i - 1] = {}]
    <3>1. \A n \in Index : file'[n] = IF n = i - 1 THEN {} ELSE IF n = i THEN file[i - 1] ELSE file[n]
      BY <2>1, <2>3 DEF DiskInv
    <3>2. i' = 0 => file'[0] = {}
      BY <1>0, <2>1, <3>1
    <3>3. failed \cap {"rename", "size"} = {} => \A n \in Index : Cardinality(file'[n]) <= MaxSize
      BY <2>1, <3>1, FS_EmptySet DEF SizeInv
    <3> QED BY <2>1, <3>2, <3>3 DEF SizeInv
  <2> QED BY <1>8, <2>2, <2>3 DEF RenameBackup, diskVars, histVars
<1>9. CASE Reopen
  <2>1. /\ At("remove") /\ i = 0 /\ UNCHANGED file /\ failed \subseteq failed'
        /\ ("size" \notin failed' => size' = Cardinality(file[0])) /\ ~ At("remove")'
    BY <1>9 DEF Reopen, OpenLog, ReadSize, At
  <2>2. failed' \cap {"rename", "size"} = {} => size' = 0
    BY <2>1, FS_EmptySet DEF SizeInv
  <2> QED BY <2>1, <2>2, LogFinite DEF SizeInv
<1>10. CASE ReopenFails
  BY <1>10, SizeFrame DEF ReopenFails, Unlock, At, diskVars, histVars
<1>11. CASE Write
  <2>1. output = 0 /\ ~ At("write")' /\ ~ At("remove")' /\ At("write") /\ failed \subseteq failed'
    BY <1>11 DEF Write, Unlock, At, RunInv
  <2>2. CASE UNCHANGED file /\ size' \in {size, size + 1}
    <3>1. size \in Nat /\ Cardinality(file[0]) \in Nat
      BY LogFinite DEF RunInv
    <3> QED BY <1>11, <2>1, <2>2, <3>1 DEF Write, SizeInv
  <2>3. CASE file' = [file EXCEPT ![output] = @ \cup {logged + 1}] /\ size' = size + 1
    <3>1. \A n \in Index : file'[n] = IF n = 0 THEN file[0] \cup {logged + 1} ELSE file[n]
      BY <1>0, <2>1, <2>3 DEF DiskInv
    <3>2. Cardinality(file'[0]) <= Cardinality(file[0]) + 1 /\ Cardinality(file'[0]) \in Nat
      <4>1. IsFiniteSet(file[0]) /\ Cardinality(file[0]) \in Nat
        BY LogFinite
      <4>2. /\ IsFiniteSet(file[0] \cup {logged + 1})
            /\ Cardinality(file[0] \cup {logged + 1}) =
                 IF logged + 1 \in file[0] THEN Cardinality(file[0]) ELSE Cardinality(file[0]) + 1
        BY <4>1, FS_AddElement
      <4> QED BY <1>0, <3>1, <4>1, <4>2
    <3>3. size \in Nat /\ Cardinality(file[0]) \in Nat
      BY LogFinite DEF RunInv
    <3>4. ASSUME failed \cap {"rename", "size"} = {}
          PROVE  Cardinality(file'[0]) <= size' /\ \A n \in Index : Cardinality(file'[n]) <= MaxSize
      <4>1. Cardinality(file'[0]) <= size + 1 /\ size < MaxSize
        BY <2>1, <3>2, <3>3, <3>4 DEF SizeInv
      <4>2. Cardinality(file'[0]) <= MaxSize
        BY <3>2, <3>3, <4>1
      <4> QED BY <2>3, <3>1, <3>4, <4>1, <4>2 DEF SizeInv
    <3> QED BY <2>1, <3>4 DEF SizeInv
  <2> QED BY <1>11, <2>2, <2>3 DEF Write
<1> QED BY <1>1, <1>2, <1>3, <1>4, <1>5, <1>6, <1>7, <1>8, <1>9, <1>10, <1>11 DEF Next, HolderStep, Rotation

\* As long as the log could be moved and measured, no file outgrows MaxSize, across
\* restarts as well.
THEOREM SizesBounded == Spec => []BoundedFiles
<1>1. SizeInv => BoundedFiles
  BY DEF SizeInv, BoundedFiles
<1> QED BY <1>1, Invariance, InitSize, SizeStep, PTL DEF Spec

=============================================================================
