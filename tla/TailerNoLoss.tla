---------------------------- MODULE TailerNoLoss ----------------------------
(***************************************************************************)
(* In calm surroundings no line is lost but one that was never ended:      *)
(* CalmInv is an invariant of Tailer, for every number and size of files,  *)
(* every placing of the line ends and every max_send_msg.                  *)
(***************************************************************************)
EXTENDS TailerProofs

USE DEF File, Offset, NoFile, RestartAt, BackupReadFrom, SaveCheckpoint

Calmly == FilesInv /\ (Before \/ Going) /\ LosesOnlyUnended

LEMMA CalmTroubles ==
  ASSUME Calm
  PROVE  /\ ~May("start") /\ ~May("stat") /\ ~May("burst") /\ ~May("late")
         /\ ~May("regrow") /\ ~May("unseen")
         /\ ~May("nobackup")
         /\ Finishing => ~May("torn")
  BY DEF Calm, May, Finishing

LEMMA NothingOwed ==
  ASSUME start.file = NoFile
  PROVE  Owed = {}
  BY DEF Owed

(* What is owed stays the same, what was taken stays taken, what was given *)
(* up stays so, and what was ahead is ahead or taken or given up.          *)
LEMMA LossKept ==
  ASSUME LosesOnlyUnended,
         UNCHANGED <<size, start>>,
         accepted \cup Pending \subseteq accepted' \cup Pending',
         \A u \in Owed : Unended(u) => Unended(u)',
         \A u \in Owed : Ahead(u) => \/ u \in accepted' \/ u \in Pending'
                                    \/ Ahead(u)' \/ Unended(u)'
  PROVE  LosesOnlyUnended'
<1>1. Owed' = Owed
      BY DEF Owed, Precedes
<1> QED
    BY <1>1 DEF LosesOnlyUnended

LEMMA UnendedStays ==
  ASSUME UNCHANGED size, oStat'.file = oStat.file
  PROVE  \A u : Unended(u) => Unended(u)'
  BY DEF Unended

LEMMA AheadMeans ==
  ASSUME NEW u
  PROVE  Ahead(u) <=> ~( \/ u[1] < oStat.file
                         \/ u[1] = oStat.file /\ u[2] < ReadUpTo)
  BY DEF Ahead, Precedes

LEMMA InitCalmly == Init => Calmly
<1> SUFFICES ASSUME Init PROVE Calmly
    OBVIOUS
<1>1. FilesInv
  <2>1. \A f \in File : f > 1 => size[f] = 0
        BY DEF Init
  <2>2. \A f \in File : inode[f] = f
        BY DEF Init
  <2> QED
      BY <2>1, <2>2, NumFilesPositive DEF Init, FilesInv
<1>2. Before
      BY DEF Init, Before
<1>3. LosesOnlyUnended
      BY NothingOwed DEF Init, NoPlace, LosesOnlyUnended
<1> QED
    BY <1>1, <1>2, <1>3 DEF Calmly
-----------------------------------------------------------------------------
(* The surroundings.                                                       *)

(* The write of a line or of a part of one: it goes to the newest file,    *)
(* which the thread has not read beyond its old end.                       *)
LEMMA CalmWrite ==
  ASSUME Calm, TypeInv, Calmly, Write
  PROVE  Calmly'
<1> USE DEF Calmly
<1>1. PICK e \in size[writer] + 1 .. MaxUnits :
         /\ writer = path /\ TruncatedUnseen /\ ~May("regrow")
               => e < nStat.size /\ e <= position
         /\ size' = [size EXCEPT ![writer] = e]
      BY DEF Write
<1>2. /\ UNCHANGED <<inode, newest, path, backup, writer, pc, reading,
                     messages, history>>
      /\ writer = newest
      BY DEF Write, FilesInv
<1>3. /\ newest \in File
      /\ size \in [File -> Offset] /\ size' \in [File -> Int]
      /\ \A f \in File : f # newest => size'[f] = size[f]
      /\ size[newest] < size'[newest]
      /\ size'[newest] = e
  <2>1. newest \in File /\ size \in [File -> Offset]
        BY DEF TypeInv, TypeOK
  <2>2. e \in Int /\ size[newest] < e
        BY <1>1, <1>2, <2>1, Bounds
  <2> QED
      BY <1>1, <1>2, <2>1, <2>2
<1>4. FilesInv'
  <2>1. ASSUME Finishing, NEW f \in File, f < newest PROVE AtLineEnd(f)'
    <3>1. AtLineEnd(f) /\ f # newest
          BY <1>3, <2>1, NumFilesPositive DEF FilesInv
    <3> QED
        BY <1>3, <3>1 DEF AtLineEnd, LineStart
  <2>2. ASSUME NEW f \in File, f > newest PROVE size'[f] = 0
        BY <1>3, <2>2, NumFilesPositive DEF FilesInv
  <2> QED
      BY <1>2, <2>1, <2>2 DEF FilesInv
<1>5. ASSUME Before PROVE Before'
  <2>1. newest = 1 /\ size[1] \in Offset /\ size[1] < size'[1]
        BY <1>3, <1>5 DEF Before
  <2>2. pc = "firstOpen" => oStat.size <= size'[1]
        BY <1>3, <1>5, <2>1, Bounds DEF Before, TypeInv, TypeOK
  <2> QED
      BY <1>2, <1>5, <2>2 DEF Before, reading, history
<1>6. ASSUME Going PROVE Going'
  <2>1. oStat.file \in File
        BY <1>6 DEF Going, BehindInv, TypeInv, TypeOK
  <2>2. PositionInv'
        BY <1>2, <1>3, <1>6, <2>1 DEF Going, PositionInv, reading, TypeInv, TypeOK
  <2>3. NoticeInv'
    <3>1. CASE pc \in {"backup"} \cup InBackup
          BY <1>2, <1>3, <1>6, <3>1
             DEF Going, NoticeInv, reading, TypeInv, TypeOK
    <3>2. CASE pc \notin {"backup"} \cup InBackup
      <4> SUFFICES ASSUME oStat.file = newest - 1,
                          inode[newest] = inode[oStat.file]
                   PROVE  e < oStat.size /\ e <= position
          BY <1>2, <1>3, <1>6, <3>2 DEF Going, NoticeInv, reading
      <4>1. nStat = oStat /\ path = newest
            BY <1>6, <3>2 DEF Going, NoticeInv, BehindInv
      <4>2. TruncatedUnseen
            BY <1>6, <1>3, <2>1, <4>1 DEF TruncatedUnseen, Ino
      <4> QED
          BY <1>1, <1>2, <4>1, <4>2, CalmTroubles
    <3> QED
        BY <3>1, <3>2
  <2>4. BacklogInv'
    <3>1. pc \in InBackup => oStat.file # newest
          BY <1>3, <1>6 DEF Going, NoticeInv
    <3> QED
        BY <1>2, <1>3, <1>6, <2>1, <3>1 DEF Going, BacklogInv, reading
  <2>5. BehindInv' /\ HandleInv'
        BY <1>2, <1>6 DEF Going, BehindInv, HandleInv, reading
  <2> QED
      BY <1>2, <1>6, <2>2, <2>3, <2>4, <2>5 DEF Going, Starting, history
<1>7. LosesOnlyUnended'
  <2>1. CASE Before
    <3>1. start'.file = NoFile
          BY <1>2, <2>1 DEF Before, NoPlace, history
    <3>2. Owed' = {}
          BY <3>1 DEF Owed
    <3> QED
        BY <3>2 DEF LosesOnlyUnended
  <2>2. CASE Going
    <3> SUFFICES ASSUME NEW u \in Owed'
                 PROVE  \/ u \in accepted' \/ u \in Pending' \/ Ahead(u)'
                        \/ Unended(u)'
        BY DEF LosesOnlyUnended
    <3>1. /\ accepted' = accepted /\ Pending' = Pending
          /\ Ahead(u)' <=> Ahead(u)
          BY <1>2 DEF Pending, Ahead, ReadUpTo, reading, history
    <3>2. u \in File \X Offset /\ u[1] \in File /\ u[2] \in Offset
          BY DEF Owed
    <3>3. CASE u \in Owed
      <4>1. ASSUME Unended(u) PROVE Unended(u)'
        <5>1. oStat.file \in Int /\ oStat.file <= newest /\ newest \in Int
              BY <1>3, <2>2 DEF Going, BehindInv
        <5>2. u[1] # newest
              BY <3>2, <4>1, <5>1 DEF Unended
        <5>3. size'[u[1]] = size[u[1]]
              BY <1>3, <3>2, <5>2
        <5> QED
            BY <1>2, <4>1, <5>3 DEF Unended, reading
      <4> QED
          BY <3>1, <3>3, <4>1 DEF LosesOnlyUnended
    <3>4. CASE u \notin Owed
      <4>1. u[2] < size'[u[1]] /\ ~(u[2] < size[u[1]])
            BY <1>2, <3>2, <3>4 DEF Owed, Precedes, history
      <4>2. u[1] = newest /\ size[newest] <= u[2]
            BY <1>3, <3>2, <4>1
      <4>3. oStat.file \in Int /\ oStat.file <= newest
            BY <1>3, <2>2 DEF Going, BehindInv
      <4>4. oStat.file = newest => ReadUpTo <= u[2]
        <5>1. oStat.file = newest => pc \notin InBackup
              BY <1>3, <2>2 DEF Going, NoticeInv
        <5>2. oStat.file = newest => position <= size[newest]
              BY <2>2 DEF Going, PositionInv
        <5> QED
            BY <1>3, <3>2, <4>2, <5>1, <5>2 DEF ReadUpTo, TypeInv, TypeOK
      <4>5. Ahead(u)
        <5>1. ReadUpTo \in Int
              BY DEF ReadUpTo, TypeInv, TypeOK
        <5> QED
            BY <1>3, <3>2, <4>2, <4>3, <4>4, <5>1, AheadMeans
      <4> QED
          BY <3>1, <4>5
    <3> QED
        BY <3>3, <3>4
  <2> QED
      BY <2>1, <2>2
<1> QED
    BY <1>4, <1>5, <1>6, <1>7

(* A step that leaves alone all that LosesOnlyUnended is about. *)
LEMMA LossStutter ==
  ASSUME LosesOnlyUnended,
         UNCHANGED <<size, start, accepted, messages, oStat>>, ReadUpTo' = ReadUpTo
  PROVE  LosesOnlyUnended'
<1>1. \A u : Ahead(u) => Ahead(u)'
      BY DEF Ahead, Precedes
<1>2. Pending' = Pending
      BY DEF Pending
<1>3. \A u : Unended(u) => Unended(u)'
      BY UnendedStays
<1> QED
    BY <1>1, <1>2, <1>3, LossKept

(* The rotation by renaming: path is free, its file is at backup_path. *)
LEMMA CalmRename ==
  ASSUME Calm, TypeInv, Calmly, Rename
  PROVE  Calmly'
<1> USE DEF Calmly
<1>1. /\ UNCHANGED <<size, inode, newest, writer, pc, reading, messages, history>>
      /\ path # NoFile /\ oStat.file = path /\ ~Starting
      /\ backup' = path /\ path' = NoFile
      BY CalmTroubles DEF Rename, MayRotate, Absorbed
<1>2. Going /\ path = newest /\ newest \in File
      BY <1>1 DEF Before, Starting, FilesInv, TypeInv, TypeOK
<1>3. FilesInv'
      BY <1>1 DEF FilesInv, AtLineEnd
<1>4. BehindInv'
      BY <1>1, <1>2 DEF BehindInv, reading
<1>5. PositionInv' /\ NoticeInv' /\ HandleInv' /\ BacklogInv'
      BY <1>1, <1>2
         DEF Going, PositionInv, NoticeInv, HandleInv, BacklogInv, reading
<1>6. Going'
      BY <1>1, <1>2, <1>4, <1>5 DEF Going, Starting, history
<1>7. LosesOnlyUnended'
      BY <1>1, LossStutter DEF ReadUpTo, reading, history
<1> QED
    BY <1>3, <1>6, <1>7

(* The new file at path: the old one is complete, and has another inode.   *)
LEMMA CalmCreate ==
  ASSUME Calm, TypeInv, Calmly, Create
  PROVE  Calmly'
<1> USE DEF Calmly
<1>1. /\ UNCHANGED <<size, inode, backup, pc, reading, messages, history>>
      /\ path = NoFile /\ pc # "stat" /\ (Finishing => AtLineEnd(writer))
      /\ newest' = newest + 1 /\ path' = newest + 1 /\ writer' = newest + 1
      BY CalmTroubles DEF Create
<1>2. /\ newest \in File /\ newest + 1 \in File /\ newest \in Int
      /\ inode \in [File -> File] /\ writer = newest
      BY <1>1, NumFilesPositive DEF TypeInv, TypeOK, Shape, FilesInv
<1>3. Going
      BY <1>1 DEF Before
<1>4. oStat.file = newest /\ backup = newest
      BY <1>1, <1>3 DEF Going, BehindInv
<1>5. pc \notin {"backup"} \cup InBackup
      BY <1>2, <1>3, <1>4 DEF Going, NoticeInv
<1>6. FilesInv'
  <2>1. ASSUME Finishing, NEW f \in File, f < newest + 1 PROVE AtLineEnd(f)'
    <3>1. AtLineEnd(f)
          BY <1>1, <1>2, <2>1, NumFilesPositive DEF FilesInv
    <3> QED
        BY <1>1, <3>1 DEF AtLineEnd
  <2>2. ASSUME NEW f \in File, f > newest + 1 PROVE size[f] = 0 /\ inode[f] = f
        BY <1>2, <2>2, NumFilesPositive DEF FilesInv
  <2> QED
      BY <1>1, <2>1, <2>2 DEF FilesInv
<1>7. BehindInv'
      BY <1>1, <1>2, <1>4 DEF BehindInv, reading
<1>8. NoticeInv'
  <2>1. inode[newest + 1] = newest + 1 /\ inode[newest] <= newest
        BY <1>2 DEF FilesInv
  <2>2. inode[newest + 1] # inode[newest]
        BY <1>2, <2>1
  <2> QED
      BY <1>1, <1>2, <1>3, <1>4, <1>5, <2>2 DEF Going, NoticeInv, reading
<1>9. HandleInv'
      BY <1>1, <1>2, <1>3, <1>4, <1>5 DEF Going, HandleInv, reading
<1>10. PositionInv' /\ BacklogInv'
      BY <1>1, <1>3 DEF Going, PositionInv, BacklogInv, reading
<1>11. Going'
      BY <1>1, <1>3, <1>7, <1>8, <1>9, <1>10 DEF Going, Starting, history
<1>12. LosesOnlyUnended'
      BY <1>1, LossStutter DEF ReadUpTo, reading, history
<1> QED
    BY <1>6, <1>11, <1>12

(* The rotation by copying and truncating: the inode stays, but the file   *)
(* is shorter than the thread remembers, and its handle goes along.        *)
LEMMA CalmCopyTruncate ==
  ASSUME Calm, TypeInv, Calmly, CopyTruncate
  PROVE  Calmly'
<1> USE DEF Calmly
<1>1. /\ UNCHANGED <<size, pc, nStat, oStat, position, backlog, messages, history>>
      /\ newest < NumFiles /\ path # NoFile /\ oStat.file = path /\ ~Starting
      /\ (Finishing => AtLineEnd(writer)) /\ oStat.size # 0
      /\ newest' = newest + 1 /\ path' = newest + 1 /\ writer' = newest + 1
      /\ backup' = path
      /\ inode' = [inode EXCEPT ![newest + 1] = inode[path]]
      /\ handle' = IF handle = path THEN newest + 1 ELSE handle
      BY CalmTroubles DEF CopyTruncate, MayRotate, Absorbed
<1>2. /\ newest \in File /\ newest + 1 \in File /\ newest \in Int
      /\ inode \in [File -> File] /\ writer = newest /\ path = newest
      /\ oStat.size \in Nat /\ position \in Nat
  <2>1. /\ newest \in File /\ inode \in [File -> File]
        /\ oStat.size \in Offset /\ position \in Offset
        BY DEF TypeInv, TypeOK
  <2>2. writer = newest /\ path = newest
        BY <1>1 DEF FilesInv
  <2>3. newest + 1 \in File /\ newest \in Int
        BY <1>1, <2>1, NumFilesPositive
  <2>4. Offset \subseteq Nat
        OBVIOUS
  <2> QED
      BY <2>1, <2>2, <2>3, <2>4
<1>3. Going
      BY <1>1 DEF Before, Starting
<1>4. pc \notin {"backup"} \cup InBackup
      BY <1>1, <1>2, <1>3 DEF Going, NoticeInv
<1>5. /\ inode'[newest + 1] = inode[newest]
      /\ \A f \in File : f # newest + 1 => inode'[f] = inode[f]
      BY <1>1, <1>2
<1>6. FilesInv'
  <2>1. ASSUME Finishing, NEW f \in File, f < newest + 1 PROVE AtLineEnd(f)'
    <3>1. AtLineEnd(f)
          BY <1>1, <1>2, <2>1, NumFilesPositive DEF FilesInv
    <3> QED
        BY <1>1, <3>1 DEF AtLineEnd
  <2>2. ASSUME NEW f \in File, f > newest + 1
        PROVE  size[f] = 0 /\ inode'[f] = f
        BY <1>2, <1>5, <2>2, NumFilesPositive DEF FilesInv
  <2>3. ASSUME NEW f \in File PROVE inode'[f] <= f
    <3>1. inode[newest] <= newest /\ inode[newest] \in Int
          BY <1>2, NumFilesPositive DEF FilesInv
    <3> QED
        BY <1>2, <1>5, <3>1 DEF FilesInv
  <2> QED
      BY <1>1, <2>1, <2>2, <2>3 DEF FilesInv
<1>7. BehindInv'
      BY <1>1, <1>2 DEF BehindInv
<1>8. NoticeInv'
  <2>1. size[newest + 1] = 0
        BY <1>2 DEF FilesInv
  <2> QED
      BY <1>1, <1>2, <1>3, <1>4, <2>1 DEF Going, NoticeInv
<1>9. HandleInv'
  <2>1. newest # newest + 1 /\ newest # newest - 1
        BY <1>2
  <2>2. ASSUME pc = "stat" PROVE handle' = newest + 1
        BY <1>1, <1>2, <1>3, <2>2 DEF Going, HandleInv
  <2>3. ASSUME pc = "read" PROVE handle' = newest + 1
        BY <1>1, <1>2, <1>3, <2>1, <2>3 DEF Going, HandleInv
  <2>4. oStat'.file = newest' - 1 /\ inode'[newest'] = inode'[oStat'.file]
        BY <1>1, <1>2, <1>5
  <2> QED
      BY <1>1, <1>4, <2>2, <2>3, <2>4 DEF HandleInv
<1>10. PositionInv' /\ BacklogInv'
      BY <1>1, <1>3, <1>4 DEF Going, PositionInv, BacklogInv
<1>11. Going'
      BY <1>1, <1>3, <1>7, <1>8, <1>9, <1>10 DEF Going, Starting, history
<1>12. LosesOnlyUnended'
      BY <1>1, LossStutter DEF ReadUpTo, history
<1> QED
    BY <1>6, <1>11, <1>12

LEMMA CalmWorld == Calm /\ TypeInv /\ Calmly /\ World => Calmly'
<1>1. Calm /\ Calmly => ~Reopen
      BY DEF Calmly, FilesInv, Reopen
<1> QED
    BY <1>1, CalmWrite, CalmRename, CalmCreate, CalmCopyTruncate DEF World
-----------------------------------------------------------------------------
(* The thread.                                                             *)

LEMMA FilesInvKept == FilesInv /\ UNCHANGED files => FilesInv'
  BY DEF FilesInv, files, AtLineEnd

(* Where the steps of the thread are taken: everything has a type that     *)
(* arithmetic can use.                                                     *)
LEMMA Numbers ==
  ASSUME TypeInv
  PROVE  /\ newest \in Int /\ position \in Nat /\ oStat.file \in Int
         /\ oStat.size \in Nat /\ nStat.size \in Nat
         /\ \A f \in File : size[f] \in Nat /\ f \in Nat
         /\ backlog.lo \in Nat /\ backlog.hi \in Nat
         /\ ReadUpTo \in Nat
<1>1. Offset \subseteq Nat /\ File \subseteq Nat /\ Offset \subseteq Int
      OBVIOUS
<1>2. newest \in Int /\ position \in Nat /\ oStat.file \in Int
      BY <1>1 DEF TypeInv, TypeOK
<1>3. oStat.size \in Nat /\ nStat.size \in Nat
      BY <1>1 DEF TypeInv, TypeOK
<1>4. \A f \in File : size[f] \in Nat /\ f \in Nat
      BY <1>1 DEF TypeInv, TypeOK
<1>5. backlog.lo \in Nat /\ backlog.hi \in Nat
      BY <1>1 DEF TypeInv, TypeOK
<1> QED
    BY <1>2, <1>3, <1>4, <1>5 DEF ReadUpTo

LEMMA CalmFirst ==
  ASSUME Calm, TypeInv, Calmly, FirstStat \/ FirstOpen \/ FirstOpenFails
  PROVE  Calmly'
<1> USE DEF Calmly
<1>1. Before /\ path = 1 /\ newest = 1 /\ 1 \in File
      BY NumFilesPositive
         DEF Before, Going, Starting, FirstStat, FirstOpen, FirstOpenFails
<1>2. CASE FirstStat
  <2>1. /\ UNCHANGED <<files, history>> /\ pc' = "firstOpen"
        /\ nStat' = StatOf(1) /\ oStat' = StatOf(1)
        BY <1>1, <1>2 DEF FirstStat
  <2>2. Before'
        BY <1>1, <2>1, Numbers DEF Before, files, history, StatOf
  <2>3. LosesOnlyUnended'
    <3>1. Owed' = {}
          BY <1>1, <2>1 DEF Owed, Before, NoPlace, history
    <3> QED
        BY <3>1 DEF LosesOnlyUnended
  <2> QED
      BY <2>1, <2>2, <2>3, FilesInvKept
<1>3. CASE FirstOpen
  <2>1. /\ UNCHANGED <<files, handle, nStat, oStat, backlog, messages, accepted>>
        /\ pc' = "open" /\ start' = [file |-> path, pos |-> position']
        BY <1>3 DEF FirstOpen
  <2>2. /\ oStat.file = 1 /\ oStat.size <= size[1] /\ nStat = oStat
        BY <1>1, <1>3 DEF FirstOpen, Before
  <2>3. position' <= size[1]
    <3>1. checkpoint.pos \in Offset
          BY DEF TypeInv, TypeOK, Place
    <3> QED
        BY <1>1, <1>3, <3>1, Numbers, Bounds DEF FirstOpen, Lower
  <2>4. Going'
    <3>1. 1 # NoFile /\ 1 # 1 - 1
          OBVIOUS
    <3>2. BehindInv'
          BY <1>1, <2>1, <2>2, <3>1 DEF BehindInv, files
    <3>3. PositionInv'
          BY <1>1, <2>1, <2>2, <2>3 DEF PositionInv, files
    <3>4. NoticeInv'
          BY <1>1, <2>1, <2>2, <3>1 DEF NoticeInv, InBackup, files
    <3>5. HandleInv' /\ BacklogInv'
          BY <2>1 DEF HandleInv, BacklogInv, InBackup
    <3> QED
        BY <1>1, <2>1, <3>1, <3>2, <3>3, <3>4, <3>5 DEF Going, Starting
  <2>5. LosesOnlyUnended'
    <3> SUFFICES ASSUME NEW u \in Owed' PROVE Ahead(u)'
        BY DEF LosesOnlyUnended
    <3>1. ReadUpTo' = position'
          BY <2>1 DEF ReadUpTo, InBackup
    <3>2. start'.file = 1 /\ start'.pos = position' /\ oStat'.file = 1
          BY <1>1, <2>1, <2>2
    <3> QED
        BY <3>1, <3>2 DEF Owed, Ahead, Precedes
  <2> QED
      BY <2>1, <2>4, <2>5, FilesInvKept
<1>4. CASE FirstOpenFails
      BY <1>1, <1>4 DEF FirstOpenFails
<1> QED
    BY <1>2, <1>3, <1>4

LEMMA CalmOpen ==
  ASSUME Calm, TypeInv, Calmly, Open
  PROVE  Calmly'
<1> USE DEF Calmly
<1>1. /\ UNCHANGED <<files, nStat, oStat, position, backlog, messages, history>>
      /\ pc = "open" /\ pc' = "stat" /\ handle' = path /\ path # NoFile
      BY DEF Open
<1>2. Going /\ path = newest
      BY <1>1 DEF Before, FilesInv
<1>3. Going'
      BY <1>1, <1>2 DEF Going, BehindInv, PositionInv, NoticeInv, HandleInv,
                        BacklogInv, Starting, InBackup, files, history
<1>4. LosesOnlyUnended'
      BY <1>1, LossStutter DEF ReadUpTo, InBackup, files, history
<1> QED
    BY <1>1, <1>3, <1>4, FilesInvKept

(* A rotation is noticed when, and only when, there was one.               *)
LEMMA CalmStat ==
  ASSUME Calm, TypeInv, Calmly, Stat
  PROVE  Calmly'
<1> USE DEF Calmly
<1> DEFINE n == IF path = NoFile THEN nStat ELSE StatOf(path)
<1>1. /\ UNCHANGED <<files, handle, position, backlog, messages, history>>
      /\ pc = "stat" /\ nStat' = n
      /\ oStat' = IF Rotated(n) THEN oStat ELSE n
      /\ pc' = IF Rotated(n) THEN "backup" ELSE "read"
      BY DEF Stat
<1>2. /\ Going /\ handle = newest /\ nStat = oStat
      /\ oStat.file \in File /\ newest \in File
      BY <1>1 DEF Before, Going, HandleInv, NoticeInv, BehindInv, InBackup,
                  TypeInv, TypeOK
<1>3. CASE path = NoFile
  <2>1. n = oStat /\ ~Rotated(n)
        BY <1>2, <1>3, Numbers DEF Rotated
  <2>2. oStat.file = newest
        BY <1>2, <1>3 DEF Going, BehindInv
  <2>3. UNCHANGED <<nStat, oStat>> /\ pc' = "read"
        BY <1>1, <1>2, <2>1
  <2>4. Going'
        BY <1>1, <1>2, <2>2, <2>3
           DEF Going, BehindInv, PositionInv, NoticeInv, HandleInv,
               BacklogInv, Starting, InBackup, files, history
  <2>5. LosesOnlyUnended'
        BY <1>1, <2>3, LossStutter DEF ReadUpTo, InBackup, files, history
  <2> QED
      BY <1>1, <2>4, <2>5, FilesInvKept
<1>4. CASE path # NoFile /\ oStat.file = newest
  <2>1. n.file = newest /\ n.size = size[newest] /\ path = newest
        BY <1>4 DEF FilesInv, StatOf
  <2>2. ~Rotated(n)
    <3>1. oStat.size <= size[newest]
          BY <1>2, <1>4 DEF Going, PositionInv
    <3> QED
        BY <1>2, <1>4, <2>1, <3>1, Numbers DEF Rotated
  <2>3. nStat' = n /\ oStat' = n /\ pc' = "read"
        BY <1>1, <2>2
  <2>4. newest # newest - 1 /\ newest # NoFile /\ size[newest] <= size[newest]
        BY <1>2, Numbers
  <2>5. BehindInv'
        BY <1>1, <1>2, <1>4, <2>1, <2>3, <2>4 DEF BehindInv, files
  <2>6. PositionInv'
        BY <1>1, <1>2, <1>4, <2>1, <2>3, <2>4 DEF Going, PositionInv, files
  <2>7. NoticeInv'
        BY <1>1, <2>1, <2>3, <2>4 DEF NoticeInv, InBackup, files
  <2>8. HandleInv' /\ BacklogInv'
        BY <1>1, <1>2, <2>1, <2>3 DEF HandleInv, BacklogInv, InBackup
  <2>9. Going'
        BY <1>1, <1>2, <2>3, <2>5, <2>6, <2>7, <2>8
           DEF Going, Starting, history
  <2>10. LosesOnlyUnended'
    <3>1. ReadUpTo' = ReadUpTo
          BY <1>1, <2>3 DEF ReadUpTo, InBackup
    <3>2. \A u : Ahead(u) => Ahead(u)'
          BY <1>4, <2>1, <2>3, <3>1 DEF Ahead, Precedes
    <3>3. Pending' = Pending
          BY <1>1 DEF Pending
    <3>4. \A u : Unended(u) => Unended(u)'
          BY <1>1, <1>4, <2>1, <2>3, UnendedStays DEF files
    <3> QED
        BY <1>1, <3>2, <3>3, <3>4, LossKept DEF files, history
  <2> QED
      BY <1>1, <2>9, <2>10, FilesInvKept
<1>5. CASE path # NoFile /\ oStat.file = newest - 1
  <2>1. n.file = newest /\ n.size = size[newest] /\ path = newest
        BY <1>5 DEF FilesInv, StatOf
  <2>2. Rotated(n)
    <3>1. inode[newest] = inode[oStat.file] => size[newest] < oStat.size
          BY <1>1, <1>2, <1>5 DEF Going, NoticeInv, InBackup
    <3> QED
        BY <1>2, <2>1, <3>1 DEF Rotated, Ino
  <2>3. nStat' = n /\ oStat' = oStat /\ pc' = "backup"
        BY <1>1, <2>2
  <2>4. NoticeInv'
        BY <1>1, <1>2, <1>5, <2>1, <2>3, Numbers DEF NoticeInv, files
  <2>5. BehindInv' /\ PositionInv' /\ HandleInv' /\ BacklogInv'
        BY <1>1, <1>2, <2>3
           DEF Going, BehindInv, PositionInv, HandleInv, BacklogInv,
               InBackup, files
  <2>6. Going'
        BY <1>1, <1>2, <2>3, <2>4, <2>5 DEF Going, Starting, history
  <2>7. LosesOnlyUnended'
        BY <1>1, <2>3, LossStutter DEF ReadUpTo, InBackup, files, history
  <2> QED
      BY <1>1, <2>6, <2>7, FilesInvKept
<1> QED
    BY <1>2, <1>3, <1>4, <1>5 DEF Going, BehindInv

(* The thread goes over to the new file when the old one holds no newline  *)
(* any more.                                                               *)
LEMMA CalmRestart ==
  ASSUME Calm, TypeInv, Calmly,
         Going, pc \in {"backup", "backupLine"}, Restart,
         UNCHANGED <<files, handle, nStat, messages, linked, checkpoint, history>>,
         \A b \in Breaks[oStat.file] : b <= ReadUpTo \/ size[oStat.file] < b
  PROVE  Calmly'
<1> USE DEF Calmly
<1>1. /\ position' = 0 /\ oStat' = nStat /\ pc' = "read"
      /\ UNCHANGED <<files, handle, nStat, messages, accepted, start>>
      BY DEF Restart, history
<1>2. /\ oStat.file = newest - 1 /\ nStat.file = newest
      /\ nStat.size <= size[newest] /\ handle = newest /\ path = newest
      BY DEF Going, NoticeInv, HandleInv, BehindInv, InBackup
<1>3. /\ newest \in File /\ size[newest] \in Nat /\ oStat.file \in File
      /\ newest # NoFile /\ newest # newest - 1
      BY Numbers DEF Going, BehindInv, TypeInv, TypeOK
<1>4. BehindInv' /\ PositionInv'
      BY <1>1, <1>2, <1>3 DEF BehindInv, PositionInv, files
<1>5. NoticeInv' /\ HandleInv' /\ BacklogInv'
      BY <1>1, <1>2, <1>3
         DEF NoticeInv, HandleInv, BacklogInv, InBackup, files
<1>6. Going'
      BY <1>1, <1>4, <1>5 DEF Going, Starting
<1>7. LosesOnlyUnended'
  <2>1. ASSUME NEW u \in Owed
        PROVE  u[1] \in File /\ u[2] \in Offset
        BY DEF Owed
  <2>2. oStat'.file = newest /\ ReadUpTo' = 0 /\ size' = size
        BY <1>1, <1>2 DEF ReadUpTo, InBackup, files
  <2>3. ASSUME NEW u \in Owed, Unended(u) PROVE Unended(u)'
    <3>1. u[1] < newest
          BY <1>2, <1>3, <2>1, <2>3, Numbers DEF Unended
    <3> QED
        BY <2>2, <2>3, <3>1 DEF Unended
  <2>4. ASSUME NEW u \in Owed, Ahead(u) PROVE Ahead(u)' \/ Unended(u)'
    <3>1. CASE u[1] = oStat.file
      <4>1. ReadUpTo <= u[2] /\ u[1] < newest
            BY <1>2, <1>3, <2>1, <2>4, <3>1, AheadMeans, Numbers
      <4>2. ASSUME NEW b \in Breaks[oStat.file], b <= ReadUpTo
            PROVE  b <= u[2]
        <5>1. b \in Int /\ u[2] \in Int
              BY <1>3, <2>1, Bounds
        <5> QED
            BY <4>1, <4>2, <5>1, Numbers
      <4> QED
          BY <2>2, <3>1, <4>1, <4>2 DEF Unended
    <3>2. CASE u[1] # oStat.file
      <4>1. newest <= u[1]
            BY <1>2, <1>3, <2>1, <2>4, <3>2, AheadMeans, Numbers
      <4>2. ~(u[1] < newest) /\ ~(u[2] < 0)
            BY <1>3, <2>1, <4>1
      <4> QED
          BY <2>2, <4>2 DEF Ahead, Precedes
    <3> QED
        BY <3>1, <3>2
  <2> QED
      BY <1>1, <2>3, <2>4, LossKept DEF files, history, Pending
<1> QED
    BY <1>1, <1>6, <1>7, FilesInvKept

(* The step puts one more piece on the queue, the next one of the file the *)
(* thread stands in.                                                       *)
LEMMA LossPush ==
  ASSUME LosesOnlyUnended, TypeInv,
         NEW f \in File, NEW e \in Offset, ReadUpTo \in Offset,
         f = oStat.file,
         messages' = Append(messages, [file |-> f, lo |-> ReadUpTo, hi |-> e]),
         ReadUpTo' = e,
         UNCHANGED <<size, start, accepted, oStat>>
  PROVE  LosesOnlyUnended'
<1> DEFINE m == [file |-> f, lo |-> ReadUpTo, hi |-> e]
<1>1. m \in Message
      BY MessageType
<1>2. Pending' = Pending \cup Units(m)
      BY <1>1, BatchAppend DEF Pending, TypeInv, TypeOK
<1>3. ASSUME NEW u \in Owed, Ahead(u) PROVE u \in Units(m) \/ Ahead(u)'
  <2>1. u \in File \X Offset /\ u[1] \in File /\ u[2] \in Offset
        BY DEF Owed
  <2>2. CASE u[1] = f /\ u[2] < e
    <3>1. u[2] \in ReadUpTo .. e - 1
          BY <1>3, <2>1, <2>2, AheadMeans
    <3>2. u = <<u[1], u[2]>>
          BY <2>1
    <3> QED
        BY <2>2, <3>1, <3>2 DEF Units
  <2>3. CASE ~(u[1] = f /\ u[2] < e)
        BY <1>3, <2>3 DEF Ahead, Precedes
  <2> QED
      BY <2>2, <2>3
<1>4. \A u : Unended(u) => Unended(u)'
      BY UnendedStays
<1> QED
    BY <1>2, <1>3, <1>4, LossKept

LEMMA CalmBackup ==
  ASSUME Calm, TypeInv, Calmly,
         BackupEmpty \/ BackupRead \/ BackupLine \/ BackupStray \/ BackupDone
  PROVE  Calmly'
<1> USE DEF Calmly
<1>1. /\ Going /\ pc \in {"backup", "backupLine"}
      /\ pc \in {"backup"} \cup InBackup
      BY DEF Before, BackupEmpty, BackupRead, BackupLine, BackupStray,
             BackupDone, InBackup
<1>2. /\ oStat.file = newest - 1 /\ nStat.file = newest /\ path = newest
      /\ handle = newest /\ backup = oStat.file /\ oStat.file \in File
      /\ nStat.size <= size[newest]
      BY <1>1 DEF Going, NoticeInv, HandleInv, BehindInv, TypeInv, TypeOK
<1>3. pc = "backup" => ReadUpTo = position
      BY DEF ReadUpTo, InBackup
<1>4. pc = "backupLine" =>
        /\ ReadUpTo = backlog.lo /\ backlog.file = oStat.file
        /\ backlog.hi = size[oStat.file] /\ backlog.lo <= backlog.hi
      BY <1>1 DEF ReadUpTo, InBackup, Going, BacklogInv
<1>5. CASE BackupEmpty
  <2>1. size[oStat.file] <= ReadUpTo
        BY <1>2, <1>3, <1>5 DEF BackupEmpty
  <2>2. ASSUME NEW b \in Breaks[oStat.file]
        PROVE  b <= ReadUpTo \/ size[oStat.file] < b
    <3>1. b \in Int
          BY <1>2, Bounds
    <3> QED
        BY <1>2, <2>1, <3>1, Numbers
  <2> QED
      BY <1>1, <1>5, <2>2, CalmRestart DEF BackupEmpty
<1>6. CASE BackupRead
  <2>1. /\ UNCHANGED <<files, handle, nStat, oStat, position, messages, history>>
        /\ pc' = "backupLine" /\ pc = "backup" /\ position < size[backup]
        /\ backlog'.file = backup /\ backlog'.lo = position
        /\ backlog'.hi = size[backup]
        BY <1>6 DEF BackupRead
  <2>2. BacklogInv'
        BY <1>2, <2>1, Numbers DEF BacklogInv, files
  <2>3. BehindInv' /\ PositionInv' /\ NoticeInv' /\ HandleInv'
        BY <1>1, <1>2, <2>1
           DEF Going, BehindInv, PositionInv, NoticeInv, HandleInv, InBackup,
               files
  <2>4. Going'
        BY <1>1, <2>1, <2>2, <2>3 DEF Going, Starting, history
  <2>5. ReadUpTo' = ReadUpTo
        BY <1>3, <2>1 DEF ReadUpTo, InBackup
  <2>6. LosesOnlyUnended'
        BY <2>1, <2>5, LossStutter DEF files, history
  <2> QED
      BY <2>1, <2>4, <2>6, FilesInvKept
<1>7. CASE BackupLine \/ BackupStray
  <2>1. PICK e \in Offset :
           /\ PushBacklog(e)
           /\ backlog'.lo = e
           /\ backlog'.file = backlog.file /\ backlog'.hi = backlog.hi
           /\ e <= backlog.hi
    <3>1. CASE BackupLine
      <4>1. PICK e \in BackupLines :
              PushBacklog(e) /\ backlog' = [backlog EXCEPT !.lo = e]
            BY <3>1 DEF BackupLine
      <4>2. e \in Offset /\ e <= backlog.hi
        <5>1. backlog.file \in File /\ backlog.lo \in Offset
              /\ backlog.hi \in Offset
              BY <1>2, <1>4, <3>1 DEF BackupLine, TypeInv, TypeOK
        <5> QED
            BY <4>1, <5>1, LineEndsType DEF BackupLines
      <4>3. backlog \in [file : File \cup {NoFile}, lo : Offset, hi : Offset,
                         tail : BOOLEAN]
            BY DEF TypeInv, TypeOK
      <4>4. /\ backlog'.lo = e /\ backlog'.file = backlog.file
            /\ backlog'.hi = backlog.hi
            BY <4>1, <4>3
      <4> QED
          BY <4>1, <4>2, <4>4
    <3>2. CASE BackupStray
      <4>1. backlog \in [file : File \cup {NoFile}, lo : Offset, hi : Offset,
                         tail : BOOLEAN]
            BY DEF TypeInv, TypeOK
      <4>2. /\ backlog'.lo = backlog.hi /\ backlog'.file = backlog.file
            /\ backlog'.hi = backlog.hi
            BY <3>2, <4>1 DEF BackupStray
      <4>3. backlog.hi \in Offset /\ backlog.hi <= backlog.hi
            BY <4>1, Numbers
      <4>4. PushBacklog(backlog.hi)
            BY <3>2 DEF BackupStray
      <4> QED
          BY <4>2, <4>3, <4>4
    <3> QED
        BY <1>7, <3>1, <3>2
  <2>2. /\ UNCHANGED <<files, handle, nStat, oStat, position, history>>
        /\ messages' = Append(messages, [file |-> backlog.file,
                                         lo |-> backlog.lo, hi |-> e])
        /\ pc' \in {"backupSend", "backupLine"} /\ pc = "backupLine"
        BY <1>7, <2>1 DEF PushBacklog, BackupLine, BackupStray
  <2>3. BacklogInv'
        BY <1>4, <2>1, <2>2 DEF BacklogInv, files
  <2>4. BehindInv' /\ PositionInv' /\ NoticeInv' /\ HandleInv'
        BY <1>1, <1>2, <2>2
           DEF Going, BehindInv, PositionInv, NoticeInv, HandleInv, InBackup,
               files
  <2>5. Going'
        BY <1>1, <2>2, <2>3, <2>4 DEF Going, Starting, history
  <2>6. ReadUpTo' = e
        BY <2>1, <2>2 DEF ReadUpTo, InBackup
  <2>7. ReadUpTo \in Offset
        BY DEF ReadUpTo, TypeInv, TypeOK
  <2>8. LosesOnlyUnended'
        BY <1>2, <1>4, <2>1, <2>2, <2>6, <2>7, LossPush DEF files, history
  <2> QED
      BY <2>2, <2>5, <2>8, FilesInvKept
<1>8. CASE BackupDone
  <2>1. BackupLines = {} /\ pc = "backupLine"
        BY <1>8 DEF BackupDone
  <2>2. backlog.file \in File /\ backlog.lo \in Offset /\ backlog.hi \in Offset
        BY <1>2, <1>4, <2>1 DEF TypeInv, TypeOK
  <2>3. \A b \in Breaks[backlog.file] : b <= backlog.lo \/ backlog.hi < b
        BY <2>1, <2>2, NoLineLeft DEF BackupLines
  <2> QED
      BY <1>1, <1>4, <1>8, <2>1, <2>3, CalmRestart DEF BackupDone
<1> QED
    BY <1>5, <1>6, <1>7, <1>8

(* Sends, in either loop: the thread stays where it is.                    *)
LEMMA CalmSend ==
  ASSUME Calm, TypeInv, Calmly,
         \/ BackupSendOk \/ BackupSendFails \/ BackupReconnect
         \/ Idle \/ SendOk \/ SendFails \/ Reconnect
  PROVE  Calmly'
<1> USE DEF Calmly
<1>1. /\ UNCHANGED <<files, reading, start>>
      /\ \/ pc \in InBackup /\ pc' \in InBackup
         \/ pc \in {"send", "wait"} /\ pc' \in {"open", "wait"}
      BY DEF BackupSendOk, BackupSendFails, BackupReconnect, Idle, SendOk,
             SendFails, Reconnect, InBackup, history
<1>2. accepted \cup Pending \subseteq accepted' \cup Pending'
      BY DEF BackupSendOk, BackupSendFails, BackupReconnect, Idle, SendOk,
             SendFails, Reconnect, Sent, NotSent, Pending, history
<1>3. Going
      BY <1>1 DEF Before, InBackup
<1>4. ReadUpTo' = ReadUpTo
      BY <1>1 DEF ReadUpTo, InBackup, reading
<1>5. Going'
      BY <1>1, <1>3
         DEF Going, BehindInv, PositionInv, NoticeInv, HandleInv, BacklogInv,
             Starting, InBackup, files, reading
<1>6. LosesOnlyUnended'
  <2>1. \A u : Ahead(u) => Ahead(u)'
        BY <1>1, <1>4 DEF Ahead, Precedes, reading
  <2>2. \A u : Unended(u) => Unended(u)'
        BY <1>1, UnendedStays DEF files, reading
  <2> QED
      BY <1>1, <1>2, <2>1, <2>2, LossKept DEF files
<1> QED
    BY <1>1, <1>5, <1>6, FilesInvKept

(* What readLogFile finds to read is in the file the thread remembers: a   *)
(* truncated one shows nothing beyond position.                            *)
LEMMA ReadsOwnFile ==
  ASSUME Going, pc = "read", handle \in File,
         size[handle] \in Int, position \in Int, position < size[handle]
  PROVE  handle = oStat.file
<1> SUFFICES ASSUME handle = newest, oStat.file = newest - 1,
                    inode[newest] = inode[oStat.file]
             PROVE  FALSE
    BY DEF Going, HandleInv
<1>1. size[newest] <= position
      BY DEF Going, NoticeInv, InBackup
<1> QED
    BY <1>1

LEMMA CalmRead ==
  ASSUME Calm, TypeInv, Calmly, ReadLine \/ ReadEnd \/ WriteCheckpoint
  PROVE  Calmly'
<1> USE DEF Calmly
<1>1. Going /\ pc \in {"read", "checkpoint"}
      BY DEF Before, ReadLine, ReadEnd, WriteCheckpoint
<1>2. CASE ReadLine
  <2>1. PICK e \in LineEnds(handle, position, size[handle]) :
          /\ messages' = Append(messages, [file |-> handle, lo |-> position,
                                           hi |-> e])
          /\ position' = e
        BY <1>2 DEF ReadLine
  <2>2. /\ UNCHANGED <<files, handle, nStat, oStat, backlog, history>>
        /\ pc = "read" /\ pc' \in {"checkpoint", "read"}
        BY <1>2 DEF ReadLine
  <2>3. /\ handle \in File /\ position \in Offset /\ size[handle] \in Offset
        BY <2>2 DEF TypeInv, TypeOK, Shape, Holding
  <2>4. e \in Offset /\ position < e /\ e <= size[handle]
        BY <2>1, <2>3, LineEndsType
  <2>5. handle = oStat.file
        BY <1>1, <2>2, <2>3, <2>4, ReadsOwnFile
  <2>6. PositionInv'
        BY <1>1, <2>1, <2>2, <2>4, <2>5 DEF Going, PositionInv, files
  <2>7. NoticeInv'
    <3>1. ASSUME oStat.file = newest - 1, inode[newest] = inode[oStat.file]
          PROVE  size[newest] <= e
      <4>1. size[newest] <= position
            BY <1>1, <2>2, <3>1 DEF Going, NoticeInv, InBackup
      <4>2. size[newest] \in Nat
            BY Numbers DEF TypeInv, TypeOK
      <4> QED
          BY <2>3, <2>4, <4>1, <4>2
    <3> QED
        BY <1>1, <2>1, <2>2, <3>1 DEF Going, NoticeInv, InBackup, files
  <2>8. BehindInv' /\ HandleInv' /\ BacklogInv'
        BY <1>1, <2>2
           DEF Going, BehindInv, HandleInv, BacklogInv, InBackup, files
  <2>9. Going'
        BY <1>1, <2>2, <2>6, <2>7, <2>8 DEF Going, Starting, history
  <2>10. ReadUpTo = position /\ ReadUpTo' = e
        BY <2>1, <2>2 DEF ReadUpTo, InBackup
  <2>11. LosesOnlyUnended'
        BY <2>1, <2>2, <2>3, <2>4, <2>5, <2>10, LossPush DEF files, history
  <2> QED
      BY <2>2, <2>9, <2>11, FilesInvKept
<1>3. CASE ReadEnd \/ WriteCheckpoint
  <2>1. /\ UNCHANGED <<files, nStat, oStat, position, backlog, messages, history>>
        /\ \/ pc' = "checkpoint" /\ UNCHANGED handle
           \/ pc' = "send"
        BY <1>3 DEF ReadEnd, WriteCheckpoint, reading
  <2>2. Going'
        BY <1>1, <2>1
           DEF Going, BehindInv, PositionInv, NoticeInv, HandleInv,
               BacklogInv, Starting, InBackup, files, history
  <2>3. LosesOnlyUnended'
        BY <1>1, <2>1, LossStutter DEF ReadUpTo, InBackup, files, history
  <2> QED
      BY <2>1, <2>2, <2>3, FilesInvKept
<1> QED
    BY <1>2, <1>3
-----------------------------------------------------------------------------
LEMMA CalmStep == Calm /\ TypeInv /\ Calmly /\ [Next]_vars => Calmly'
<1> SUFFICES ASSUME Calm, TypeInv, Calmly, [Next]_vars PROVE Calmly'
    OBVIOUS
<1>1. CASE World
      BY <1>1, CalmWorld
<1>2. CASE Thread
      BY <1>2, CalmFirst, CalmOpen, CalmStat, CalmBackup, CalmSend, CalmRead
         DEF Thread
<1>3. CASE UNCHANGED vars
  <2>1. Going <=> Going'
        BY <1>3 DEF vars, files, reading, history, Going, Starting, BehindInv,
                    PositionInv, NoticeInv, HandleInv, BacklogInv
  <2>2. Before => Before'
        BY <1>3 DEF vars, files, reading, history, Before
  <2>3. FilesInv'
        BY <1>3, FilesInvKept DEF vars, Calmly
  <2>4. LosesOnlyUnended'
        BY <1>3, LossStutter
           DEF vars, files, reading, history, Calmly, ReadUpTo
  <2> QED
      BY <2>1, <2>2, <2>3, <2>4 DEF Calmly
<1> QED
    BY <1>1, <1>2, <1>3 DEF Next

(* The invariant that TLC checks holds for every instance: in particular   *)
(* the thread is never more than one rotation behind, and the file it has  *)
(* not finished is the one at backup_path.                                 *)
THEOREM CalmInvariant == Calm /\ Spec => []CalmInv
<1>1. Init => TypeInv /\ Calmly
      BY TypeInit, InitCalmly
<1>2. Calm /\ (TypeInv /\ Calmly) /\ [Next]_vars => (TypeInv /\ Calmly)'
      BY TypeStep, CalmStep
<1>3. TypeInv /\ Calmly => CalmInv
      BY DEF TypeInv, Calmly, CalmInv
<1> SUFFICES ASSUME Calm PROVE Spec => []CalmInv
    OBVIOUS
<1>4. (TypeInv /\ Calmly) /\ [Next]_vars => (TypeInv /\ Calmly)'
      BY <1>2
<1> QED
    BY <1>1, <1>3, <1>4, PTL DEF Spec

(* Nothing is lost but the torn end of a rotated file: however batches are *)
(* cut, sends fail, replies get lost, writes stop in the middle of a line  *)
(* and the log is rotated by renaming or by truncating, each unit written  *)
(* since the thread started is stored, queued, still ahead of it, or lies  *)
(* behind the last newline of a file that was given up there; as long as   *)
(* the rotations are calm.                                                 *)
THEOREM OnlyUnendedLost == Calm /\ Spec => []LosesOnlyUnended
<1>1. CalmInv => LosesOnlyUnended
      BY DEF CalmInv
<1> QED
    BY <1>1, CalmInvariant, PTL

(* What lies behind the last newline of a finished file: nothing.          *)
LEMMA FinishedEnds == Calm /\ Finishing /\ CalmInv => NoLoss
<1> SUFFICES ASSUME Calm, Finishing, CalmInv, NEW u \in Owed, Unended(u)
             PROVE  FALSE
    BY DEF CalmInv, LosesOnlyUnended, NoLoss
<1>0. TypeInv
      BY DEF CalmInv, TypeInv
<1>1. u[1] \in File /\ u[2] \in Offset /\ u[2] < size[u[1]]
      BY DEF Owed
<1>2. Going
  <2>1. start.file # NoFile
        BY DEF Owed
  <2> QED
      BY <2>1 DEF CalmInv, Before, NoPlace
<1>3. u[1] < newest
      BY <1>0, <1>1, <1>2, Numbers DEF Unended, Going, BehindInv
<1>4. AtLineEnd(u[1])
      BY <1>1, <1>3 DEF CalmInv, FilesInv
<1>5. size[u[1]] \in Nat /\ u[2] \in Nat
      BY <1>0, <1>1, Numbers
<1>6. size[u[1]] \in Breaks[u[1]]
      BY <1>1, <1>4, <1>5 DEF AtLineEnd, LineStart
<1> QED
    BY <1>1, <1>5, <1>6 DEF Unended

(* And where files are finished before they are given up, no line is lost  *)
(* at all.                                                                 *)
THEOREM NothingLost == Calm /\ Finishing /\ Spec => []NoLoss
<1> SUFFICES ASSUME Calm, Finishing PROVE Spec => []NoLoss
    OBVIOUS
<1>1. CalmInv => NoLoss
      BY FinishedEnds
<1> QED
    BY <1>1, CalmInvariant, PTL
=============================================================================
