--------------------------- MODULE RecoveryProofs ---------------------------
(***************************************************************************)
(* Proofs about Recovery, for every number and size of files, every        *)
(* placing of the line ends, every max_send_msg and any number of kills.   *)
(***************************************************************************)
EXTENDS RecoveryInv, TailerNoLoss

USE DEF File, Offset, NoFile, RestartAt, BackupReadFrom, SaveCheckpoint

-----------------------------------------------------------------------------
(* Type correctness.                                                       *)

RTypes ==
  /\ TypeInv
  /\ crashes \in 0..MaxCrashes
  /\ queuedBefore \subseteq File \X Offset
  /\ sentBefore \subseteq File \X Offset

LEMMA PendingType == TypeInv => Pending \subseteq File \X Offset
  BY BatchType DEF Pending, TypeInv, TypeOK

LEMMA TypeCrash ==
  ASSUME RTypes, Crash
  PROVE  RTypes'
<1>1. /\ UNCHANGED <<files, checkpoint, start>>
      /\ pc' = "firstStat" /\ handle' = NoFile /\ messages' = <<>>
      /\ nStat' = NoStat /\ oStat' = NoStat /\ position' = 0
      /\ backlog' = NoBacklog /\ linked' = FALSE
      BY DEF Crash
<1>2. accepted' \subseteq File \X Offset
  <2>1. accepted' \in {accepted, accepted \cup Pending}
        BY DEF Crash
  <2> QED
      BY <2>1, PendingType DEF RTypes, TypeInv, TypeOK
<1>3. /\ NoStat \in [file : File \cup {NoFile}, size : Offset]
      /\ NoBacklog \in [file : File \cup {NoFile}, lo : Offset, hi : Offset,
                        tail : BOOLEAN]
      /\ 0 \in Offset
      BY Bounds DEF NoStat, NoBacklog
<1>4. TypeOK'
  <2>1. TypeOK
        BY DEF RTypes, TypeInv
  <2>2. messages' \in Seq(Message) /\ pc' \in PC
        BY <1>1 DEF PC
  <2>3. /\ size' = size /\ inode' = inode /\ newest' = newest /\ path' = path
        /\ backup' = backup /\ writer' = writer /\ cuts' = cuts
        /\ checkpoint' = checkpoint /\ start' = start
        BY <1>1 DEF files
  <2> QED
      BY <1>1, <1>2, <1>3, <2>1, <2>2, <2>3 DEF TypeOK
<1>5. Shape'
      BY <1>1 DEF RTypes, TypeInv, Shape, Holding, InBackup, files
<1>6. /\ crashes' \in 0..MaxCrashes
      /\ queuedBefore' \subseteq File \X Offset
      /\ sentBefore' \subseteq File \X Offset
  <2>1. crashes' = crashes + 1 /\ crashes < MaxCrashes
        BY DEF Crash
  <2>2. crashes' \in 0..MaxCrashes
        BY <2>1, RecoveryAssumption DEF RTypes
  <2>3. queuedBefore' = queuedBefore \cup Pending /\ sentBefore' = accepted'
        BY DEF Crash
  <2> QED
      BY <1>2, <2>2, <2>3, PendingType DEF RTypes
<1> QED
    BY <1>4, <1>5, <1>6 DEF RTypes, TypeInv

LEMMA RTypeInit == RInit => RTypes
<1> SUFFICES ASSUME RInit PROVE RTypes
    OBVIOUS
<1>1. TypeInv
      BY TypeInit DEF RInit
<1>2. crashes \in 0..MaxCrashes
      BY RecoveryAssumption DEF RInit
<1> QED
    BY <1>1, <1>2 DEF RInit, RTypes

LEMMA RTypeStep == RTypes /\ [RNext]_rvars => RTypes'
<1> SUFFICES ASSUME RTypes, [RNext]_rvars PROVE RTypes'
    OBVIOUS
<1>1. CASE WorldStep \/ ThreadStep
  <2>1. Next /\ UNCHANGED recovery
        BY <1>1 DEF WorldStep, ThreadStep, Next
  <2>2. TypeInv'
        BY <2>1, TypeStep DEF RTypes
  <2> QED
      BY <2>1, <2>2 DEF RTypes, recovery
<1>2. CASE Crash
      BY <1>2, TypeCrash
<1>3. CASE UNCHANGED rvars
  <2>1. UNCHANGED vars /\ UNCHANGED recovery
        BY <1>3 DEF rvars
  <2>2. TypeInv'
        BY <2>1, TypeStep DEF RTypes
  <2> QED
      BY <2>1, <2>2 DEF RTypes, recovery
<1> QED
    BY <1>1, <1>2, <1>3 DEF RNext

(* The types hold through every kill and restart, whatever the             *)
(* surroundings do: a checkpoint on disk is an offset, and a thread that   *)
(* starts by it, in whatever file is there by then, reads within a file.   *)
THEOREM RTypeCorrect == RSpec => []RTypeOK
<1>1. RTypes => RTypeOK
      BY DEF RTypes, RTypeOK, TypeInv
<1> QED
    BY <1>1, RTypeInit, RTypeStep, PTL DEF RSpec
-----------------------------------------------------------------------------
(* Where the thread is.                                                    *)

Where == RFilesInv /\ MemoryInv /\ (Outside \/ Inside)

LEMMA TraceableTroubles ==
  ASSUME Traceable
  PROVE  ~May("stat") /\ ~May("burst") /\ ~May("regrow") /\ ~May("unseen")
  BY DEF Traceable, May

LEMMA InitWhere == RInit => Where
<1> SUFFICES ASSUME RInit PROVE Where
    OBVIOUS
<1>0. Init
      BY DEF RInit
<1>1. RFilesInv
  <2>1. \A f \in File : f > 1 => size[f] = 0
        BY <1>0 DEF Init
  <2>2. \A f \in File : inode[f] = f
        BY <1>0 DEF Init
  <2> QED
      BY <1>0, <2>1, <2>2, NumFilesPositive DEF Init, RFilesInv
<1>2. MemoryInv /\ Outside
      BY <1>0 DEF Init, RInit, MemoryInv, Outside, Untouched, Noticeable, NoStat
<1> QED
    BY <1>1, <1>2 DEF Where

LEMMA AlignedFile ==
  ASSUME TypeInv, Inside, Aligned
  PROVE  oStat.file \in File
<1>1. /\ oStat.file \in File \cup {NoFile} /\ newest \in File
      BY DEF TypeInv, TypeOK
<1>2. start.file \in 1..newest /\ start.file <= oStat.file
      BY DEF Inside, Aligned
<1> QED
    BY <1>1, <1>2, Bounds

(* Only the files change that a step of the surroundings names.            *)
LEMMA WhereWrite ==
  ASSUME Traceable, TypeInv, Where, Write, UNCHANGED sentBefore
  PROVE  Where'
<1> USE DEF Where
<1>1. PICK e \in size[writer] + 1 .. MaxUnits :
         /\ writer = path /\ TruncatedUnseen /\ ~May("regrow")
               => e < nStat.size /\ e <= position
         /\ size' = [size EXCEPT ![writer] = e]
      BY DEF Write
<1>2. UNCHANGED <<inode, newest, path, backup, writer, pc, reading,
                  messages, history>>
      BY DEF Write
<1>3. /\ newest \in File /\ writer \in File /\ size \in [File -> Offset]
      /\ writer <= newest
  <2>1. newest \in File /\ writer \in File /\ size \in [File -> Offset]
        BY DEF TypeInv, TypeOK
  <2>2. writer = newest \/ writer = newest - 1
        BY DEF RFilesInv
  <2> QED
      BY <2>1, <2>2, Bounds
<1>4. e \in Offset /\ size[writer] < e
      BY <1>1, <1>3, LaterOffset, Bounds
<1>5. /\ \A f \in File : f # writer => size'[f] = size[f]
      /\ \A f \in File : size[f] <= size'[f] /\ size[f] \in Int /\ size'[f] \in Int
      BY <1>1, <1>3, <1>4, Bounds
<1>6. RFilesInv'
  <2>1. ASSUME NEW f \in File, f > newest PROVE size'[f] = 0
    <3>1. f # writer /\ size[f] = 0
          BY <1>3, <2>1, Bounds DEF RFilesInv
    <3> QED
        BY <1>5, <3>1
  <2> QED
      BY <1>2, <2>1 DEF RFilesInv
<1>7. MemoryInv'
  <2>1. oStat.file # NoFile => oStat.file \in File /\ oStat.size \in Int
        BY Numbers DEF TypeInv, TypeOK
  <2> QED
      BY <1>2, <1>5, <2>1 DEF MemoryInv, reading
<1>8. Noticeable => Noticeable'
  <2> SUFFICES ASSUME Noticeable, path = newest,
                      oStat.file \notin {NoFile, newest},
                      inode[newest] = inode[oStat.file]
               PROVE  size'[newest] < oStat.size /\ size'[newest] <= position
      BY <1>2 DEF Noticeable, reading
  <2>1. nStat = oStat /\ size[newest] < oStat.size /\ size[newest] <= position
        BY DEF Noticeable
  <2>2. CASE writer = newest
    <3>1. TruncatedUnseen
          BY <2>1, <1>3 DEF TruncatedUnseen, Ino
    <3>2. e < oStat.size /\ e <= position
          BY <1>1, <2>1, <2>2, <3>1, TraceableTroubles
    <3> QED
        BY <1>1, <1>3, <2>2, <3>2
  <2>3. CASE writer # newest
        BY <1>3, <1>5, <2>1, <2>3
  <2> QED
      BY <2>2, <2>3
<1>9. Outside => Outside'
      BY <1>2, <1>8 DEF Outside, Untouched, reading, history
<1>10. Inside => Inside'
  <2> SUFFICES ASSUME Inside PROVE Inside'
      OBVIOUS
  <2>1. Draining => nStat.size <= size'[newest]
        BY <1>3, <1>5, Numbers DEF Inside
  <2>2. pc \in InBackup => backlog.hi <= size'[backlog.file]
    <3>1. pc \in InBackup => backlog.file \in File
          BY DEF TypeInv, TypeOK, Shape
    <3> QED
        BY <1>5, <3>1, Numbers DEF Inside
  <2>3. Aligned /\ OnTrack => OnTrack'
    <3> SUFFICES ASSUME Aligned, OnTrack
                 PROVE  position <= size'[oStat.file]
        BY <1>2 DEF OnTrack, reading
    <3> QED
        BY <1>5, Numbers, AlignedFile DEF OnTrack
  <2>4. Astray => Astray'
        BY <1>2 DEF Astray, Untouched, reading, history
  <2>5. HandleInv' /\ (Aligned <=> Aligned') /\ (Draining <=> Draining')
        BY <1>2 DEF Inside, HandleInv, Aligned, Draining, reading, history
  <2> QED
      BY <1>2, <1>8, <2>1, <2>2, <2>3, <2>4, <2>5
         DEF Inside, reading, history
<1> QED
    BY <1>6, <1>7, <1>9, <1>10

LEMMA WhereRename ==
  ASSUME Traceable, TypeInv, Where, Rename, UNCHANGED sentBefore
  PROVE  Where'
<1> USE DEF Where
<1>1. /\ UNCHANGED <<size, inode, newest, writer, pc, reading, messages, history>>
      /\ path # NoFile /\ writer = path
      /\ oStat.file = path \/ Starting
      /\ backup' \in {path, NoFile} /\ path' = NoFile
      BY TraceableTroubles DEF Rename, MayRotate, Absorbed
<1>2. path = newest /\ newest \in File
      BY <1>1 DEF RFilesInv, TypeInv, TypeOK
<1>3. RFilesInv'
      BY <1>1, <1>2 DEF RFilesInv
<1>4. MemoryInv'
      BY <1>1 DEF MemoryInv, reading
<1>5. Noticeable => Noticeable'
      BY <1>1, <1>2 DEF Noticeable, reading
<1>6. Outside => Outside'
      BY <1>1, <1>5 DEF Outside, Untouched, reading, history
<1>7. Inside => Inside'
  <2> SUFFICES ASSUME Inside PROVE Inside'
      OBVIOUS
  <2>1. oStat.file = newest
        BY <1>1, <1>2 DEF Inside, Starting
  <2>2. ~Draining
        BY <2>1 DEF Inside
  <2>3. /\ HandleInv' /\ (Aligned <=> Aligned') /\ ~Draining'
        /\ OnTrack => OnTrack'
        /\ Astray => Astray'
        BY <1>1, <2>2
           DEF Inside, HandleInv, Aligned, Draining, OnTrack, Astray,
               Untouched, reading, history
  <2> QED
      BY <1>1, <1>5, <2>1, <2>2, <2>3 DEF Inside, reading, history
<1> QED
    BY <1>3, <1>4, <1>6, <1>7

(* The new file has an inode of its own. *)
LEMMA WhereCreate ==
  ASSUME Traceable, TypeInv, Where, Create, UNCHANGED sentBefore
  PROVE  Where'
<1> USE DEF Where
<1>1. /\ UNCHANGED <<size, inode, backup, pc, reading, messages, history>>
      /\ path = NoFile /\ pc # "stat"
      /\ newest' = newest + 1 /\ path' = newest + 1
      /\ writer' \in {newest + 1, writer}
      BY TraceableTroubles DEF Create
<1>2. /\ newest \in File /\ newest + 1 \in File /\ newest \in Int
      /\ inode \in [File -> File] /\ writer = newest
      /\ backup \in {NoFile, newest}
      BY <1>1, NumFilesPositive DEF TypeInv, TypeOK, Shape, RFilesInv
<1>3. /\ oStat.file \in File \cup {NoFile} /\ oStat.file <= newest
      BY DEF TypeInv, TypeOK, MemoryInv
<1>4. RFilesInv'
  <2>1. ASSUME NEW f \in File, f > newest + 1 PROVE size[f] = 0 /\ inode[f] = f
        BY <1>2, <2>1, NumFilesPositive DEF RFilesInv
  <2>2. newest + 1 - 1 = newest /\ newest + 1 # NoFile
        BY <1>2
  <2> QED
      BY <1>1, <1>2, <2>1, <2>2 DEF RFilesInv
<1>5. MemoryInv'
  <2>1. oStat.file <= newest + 1
        BY <1>2, <1>3
  <2> QED
      BY <1>1, <2>1 DEF MemoryInv, reading
<1>6. Noticeable => Noticeable'
  <2>1. ASSUME oStat.file # NoFile PROVE inode[newest + 1] # inode[oStat.file]
    <3>1. oStat.file \in File /\ newest + 1 > newest
          BY <1>2, <1>3, <2>1
    <3>2. inode[newest + 1] = newest + 1
          BY <1>2, <3>1 DEF RFilesInv
    <3>3. inode[oStat.file] <= oStat.file /\ inode[oStat.file] \in File
          BY <1>2, <3>1 DEF RFilesInv
    <3> QED
        BY <1>2, <1>3, <3>1, <3>2, <3>3, Bounds
  <2> QED
      BY <1>1, <2>1 DEF Noticeable, reading
<1>7. Outside => Outside'
      BY <1>1, <1>6 DEF Outside, Untouched, reading, history
<1>8. Inside => Inside'
  <2> SUFFICES ASSUME Inside PROVE Inside'
      OBVIOUS
  <2>1. oStat.file = newest
        BY <1>1, <1>2 DEF Inside
  <2>2. ~Draining
        BY <2>1 DEF Inside
  <2>3. start.file \in 1..newest /\ Aligned
        BY <1>2, <2>1, Bounds DEF Inside, Aligned
  <2>4. HandleInv'
    <3>1. newest # newest - 1
          BY <1>2
    <3> QED
        BY <1>1, <2>1, <2>2, <3>1 DEF Inside, HandleInv, Draining, reading
  <2>5. OnTrack' /\ Aligned'
    <3>1. newest' - 1 = newest
          BY <1>1, <1>2
    <3>2. OnTrack
          BY <2>3 DEF Inside
    <3>3. OnTrack'
          BY <1>1, <2>1, <3>1, <3>2 DEF OnTrack, reading
    <3> QED
        BY <1>1, <2>3, <3>3 DEF Aligned, reading, history
  <2>6. start'.file \in 1..newest'
        BY <1>1, <1>2, <2>3 DEF history
  <2>7. ~Draining'
        BY <1>1, <2>2 DEF Draining
  <2> QED
      BY <1>1, <1>6, <2>2, <2>4, <2>5, <2>6, <2>7
         DEF Inside, Draining, reading, history
<1> QED
    BY <1>4, <1>5, <1>7, <1>8

LEMMA WhereReopen ==
  ASSUME Traceable, TypeInv, Where, Reopen, UNCHANGED sentBefore
  PROVE  Where'
<1> USE DEF Where
<1>1. /\ UNCHANGED <<size, inode, newest, path, backup, pc, reading, messages,
                     history>>
      /\ path = newest /\ path # NoFile /\ writer' = path
      BY DEF Reopen, RFilesInv
<1>2. RFilesInv' /\ MemoryInv'
      BY <1>1 DEF RFilesInv, MemoryInv, reading
<1>3. Outside => Outside'
      BY <1>1 DEF Outside, Untouched, Noticeable, reading, history
<1>4. Inside => Inside'
      BY <1>1 DEF Inside, HandleInv, Aligned, Draining, OnTrack, Astray,
                  Noticeable, Untouched, reading, history
<1> QED
    BY <1>2, <1>3, <1>4

(* The inode stays, but the file is shorter than the thread remembers, and *)
(* its handle goes along.                                                  *)
LEMMA WhereCopyTruncate ==
  ASSUME Traceable, TypeInv, Where, CopyTruncate, UNCHANGED sentBefore
  PROVE  Where'
<1> USE DEF Where
<1>1. /\ UNCHANGED <<size, pc, nStat, oStat, position, backlog, messages, history>>
      /\ newest < NumFiles /\ path # NoFile /\ writer = path
      /\ oStat.file = path \/ Starting
      /\ oStat.size # 0
      /\ newest' = newest + 1 /\ path' = newest + 1 /\ writer' = newest + 1
      /\ backup' = path
      /\ inode' = [inode EXCEPT ![newest + 1] = inode[path]]
      /\ handle' = IF handle = path THEN newest + 1 ELSE handle
      BY TraceableTroubles DEF CopyTruncate, MayRotate, Absorbed
<1>2. /\ newest \in File /\ newest \in Int /\ path = newest
      /\ inode \in [File -> File]
      /\ oStat.size \in Nat /\ position \in Nat
      BY <1>1, Numbers DEF RFilesInv, TypeInv, TypeOK
<1>3. newest + 1 \in File
      BY <1>1, <1>2, NumFilesPositive
<1>4. /\ inode'[newest + 1] = inode[newest]
      /\ \A f \in File : f # newest + 1 => inode'[f] = inode[f]
      BY <1>1, <1>2, <1>3
<1>5. /\ oStat.file \in File \cup {NoFile} /\ oStat.file <= newest
      BY DEF TypeInv, TypeOK, MemoryInv
<1>6. size[newest + 1] = 0
      BY <1>2, <1>3 DEF RFilesInv
<1>7. RFilesInv'
  <2>1. ASSUME NEW f \in File, f > newest + 1
        PROVE  size[f] = 0 /\ inode'[f] = f
        BY <1>2, <1>4, <2>1, NumFilesPositive DEF RFilesInv
  <2>2. ASSUME NEW f \in File PROVE inode'[f] <= f
    <3>1. inode[newest] <= newest /\ inode[newest] \in Int
          BY <1>2, NumFilesPositive DEF RFilesInv
    <3> QED
        BY <1>2, <1>4, <3>1 DEF RFilesInv
  <2>3. newest + 1 - 1 = newest /\ newest + 1 # NoFile
        BY <1>2, <1>3
  <2> QED
      BY <1>1, <1>2, <2>1, <2>2, <2>3 DEF RFilesInv
<1>8. MemoryInv'
  <2>1. oStat.file <= newest + 1
        BY <1>2, <1>5
  <2> QED
      BY <1>1, <2>1 DEF MemoryInv
<1>9. Noticeable => Noticeable'
      BY <1>1, <1>2, <1>6 DEF Noticeable
<1>10. Outside => Outside'
      BY <1>1, <1>9 DEF Outside, Untouched, history
<1>11. Inside => Inside'
  <2> SUFFICES ASSUME Inside PROVE Inside'
      OBVIOUS
  <2>1. oStat.file = newest
        BY <1>1, <1>2 DEF Inside, Starting
  <2>2. ~Draining /\ ~Draining'
        BY <1>1, <2>1 DEF Inside, Draining
  <2>3. start.file \in 1..newest /\ Aligned
        BY <1>2, <2>1, Bounds DEF Inside, Aligned
  <2>4. HandleInv'
    <3>1. newest # newest - 1 /\ newest = newest + 1 - 1
          BY <1>2
    <3>2. ASSUME pc \in {"stat", "read"} PROVE handle = newest
          BY <2>1, <3>1, <3>2 DEF Inside, HandleInv
    <3>3. inode'[newest + 1] = inode'[newest]
          BY <1>2, <1>4, <3>1
    <3>4. pc' \in {"stat", "read"} => handle' = newest + 1
          BY <1>1, <1>2, <3>2
    <3>5. pc' \notin {"backup"} \cup InBackup
          BY <2>2 DEF Draining
    <3>6. pc' \in {"stat", "backup"} \cup InBackup => handle' = newest'
          BY <1>1, <3>4, <3>5
    <3>7. newest' = newest + 1 /\ newest' - 1 = newest
          BY <1>1, <1>2
    <3>8. /\ oStat'.file = newest'- 1
          /\ inode'[newest'] = inode'[oStat'.file]
          BY <1>1, <2>1, <3>3, <3>7
    <3> QED
        BY <3>4, <3>6, <3>7, <3>8 DEF HandleInv
  <2>5. OnTrack' /\ Aligned'
    <3>1. newest' - 1 = newest
          BY <1>1, <1>2
    <3>2. OnTrack
          BY <2>3 DEF Inside
    <3>3. OnTrack'
          BY <1>1, <2>1, <3>1, <3>2 DEF OnTrack
    <3> QED
        BY <1>1, <2>3, <3>3 DEF Aligned, history
  <2>6. start'.file \in 1..newest'
        BY <1>1, <1>2, <2>3 DEF history
  <2> QED
      BY <1>1, <1>9, <2>2, <2>4, <2>5, <2>6 DEF Inside, Draining
<1> QED
    BY <1>7, <1>8, <1>10, <1>11

LEMMA WhereWorld ==
  ASSUME Traceable, TypeInv, Where, World, UNCHANGED sentBefore
  PROVE  Where'
  BY WhereWrite, WhereRename, WhereCreate, WhereReopen, WhereCopyTruncate
     DEF World

(* The thread's own steps leave the files as they are. *)
LEMMA RFilesKept == RFilesInv /\ UNCHANGED files => RFilesInv'
  BY DEF RFilesInv, files

(* Where it is not outside it is inside, and by its place in the code.     *)
LEMMA Within ==
  ASSUME Where
  PROVE  /\ pc \in {"firstStat", "firstOpen", "dead"} => Outside
         /\ pc \notin {"firstStat", "firstOpen", "dead"} => Inside
  BY DEF Where, Outside, Inside

LEMMA WhereFirst ==
  ASSUME Traceable, TypeInv, Where, FirstStat \/ FirstOpenFails,
         UNCHANGED sentBefore
  PROVE  Where'
<1> USE DEF Where
<1>1. Outside
      BY Within DEF FirstStat, FirstOpenFails
<1>2. CASE FirstStat
  <2>1. /\ UNCHANGED <<files, handle, position, backlog, messages, checkpoint,
                       history>>
        /\ pc' = "firstOpen"
        /\ nStat' = (IF path = NoFile THEN NoStat ELSE StatOf(path))
        /\ oStat' = nStat'
        BY <1>2 DEF FirstStat
  <2>2. /\ newest \in Int /\ 0 <= newest /\ newest <= newest
        /\ size[newest] <= size[newest] /\ path \in {NoFile, newest}
    <3>1. newest \in File /\ size[newest] \in Int
          BY Numbers DEF TypeInv, TypeOK
    <3> QED
        BY <3>1, Bounds DEF RFilesInv
  <2>3. oStat'.file \in {NoFile, newest} /\ MemoryInv'
    <3>1. CASE path = NoFile
      <4>1. oStat'.file = NoFile
            BY <2>1, <3>1 DEF NoStat
      <4> QED
          BY <2>1, <2>2, <4>1 DEF MemoryInv, files
    <3>2. CASE path # NoFile
      <4>1. oStat'.file = newest /\ oStat'.size = size[newest]
            BY <2>1, <2>2, <3>2 DEF StatOf
      <4> QED
          BY <2>1, <2>2, <4>1 DEF MemoryInv, files
    <3> QED
        BY <3>1, <3>2
  <2>4. Outside'
        BY <1>1, <2>1, <2>3 DEF Outside, Untouched, Noticeable, files, history
  <2> QED
      BY <2>1, <2>3, <2>4, RFilesKept
<1>3. CASE FirstOpenFails
  <2>1. UNCHANGED <<files, reading, messages, history>> /\ pc' = "dead"
        BY <1>3 DEF FirstOpenFails
  <2>2. MemoryInv' /\ Outside'
        BY <1>1, <2>1 DEF MemoryInv, Outside, Untouched, Noticeable, files,
                          reading, history
  <2> QED
      BY <2>1, <2>2, RFilesKept
<1> QED
    BY <1>2, <1>3

(* What openLogFile starts at: the offset of a checkpoint, cut at the end  *)
(* of the file, or the end.                                                *)
LEMMA FirstPosition ==
  ASSUME TypeInv, FirstOpen
  PROVE  /\ path \in File /\ position' \in Nat /\ position' <= size[path]
         /\ checkpoint.file # NoFile /\ checkpoint.pos <= size[path]
              => checkpoint.pos <= position'
<1>1. path \in File /\ checkpoint.pos \in Nat /\ size[path] \in Nat
      BY Bounds DEF FirstOpen, TypeInv, TypeOK, Place
<1>2. \/ position' = size[path]
      \/ position' = Lower(checkpoint.pos, size[path])
      BY DEF FirstOpen
<1> QED
    BY <1>1, <1>2 DEF Lower

LEMMA WhereFirstOpen ==
  ASSUME Traceable, TypeInv, Where, FirstOpen, UNCHANGED sentBefore
  PROVE  Where'
<1> USE DEF Where
<1>1. /\ UNCHANGED <<files, handle, nStat, oStat, backlog, messages, accepted>>
      /\ pc = "firstOpen" /\ pc' = "open" /\ path # NoFile
      /\ start' = [file |-> path, pos |-> position']
      BY DEF FirstOpen
<1>2. Outside /\ path = newest /\ newest \in File /\ newest \in Nat
  <2>1. Outside /\ path = newest
        BY <1>1, Within DEF RFilesInv
  <2>2. newest \in File /\ newest \in Nat
        BY Bounds DEF TypeInv, TypeOK
  <2> QED
      BY <2>1, <2>2
<1>3. position' \in Nat /\ position' <= size[newest] /\ size[newest] \in Nat
      BY <1>2, FirstPosition, Numbers
<1>4. MemoryInv'
      BY <1>1 DEF MemoryInv, files
<1>5. Noticeable'
  <2>1. size[newest] <= position => size[newest] <= position'
        BY <1>2, <1>3 DEF Outside
  <2> QED
      BY <1>1, <1>2, <2>1 DEF Outside, Noticeable, files
<1>6. start'.file = newest /\ start'.file \in 1..newest
      BY <1>1, <1>2, Bounds
<1>7. Untouched'
      BY <1>1, <1>2 DEF Outside, Untouched
<1>8. IF Aligned' THEN OnTrack' ELSE Astray'
  <2>1. Aligned' => oStat.file = newest
    <3>1. oStat.file <= newest /\ oStat.file \in Int
          BY Numbers DEF MemoryInv
    <3> QED
        BY <1>1, <1>2, <1>6, <3>1 DEF Aligned
  <2>2. Aligned' => OnTrack'
        BY <1>1, <1>2, <1>3, <2>1 DEF OnTrack, InBackup, files
  <2>3. Astray'
        BY <1>1, <1>2, <1>6, <1>7 DEF Astray, files
  <2> QED
      BY <2>2, <2>3
<1>9. Inside'
  <2>1. ~Draining' /\ HandleInv' /\ pc' \notin InBackup
        BY <1>1 DEF Draining, HandleInv, InBackup
  <2>2. start'.file \in 1..newest' /\ path' = newest'
        BY <1>1, <1>2, <1>6 DEF files
  <2> QED
      BY <1>1, <1>5, <1>8, <2>1, <2>2 DEF Inside
<1> QED
    BY <1>1, <1>4, <1>9, RFilesKept

LEMMA WhereOpen ==
  ASSUME Traceable, TypeInv, Where, Open, UNCHANGED sentBefore
  PROVE  Where'
<1> USE DEF Where
<1>1. /\ UNCHANGED <<files, nStat, oStat, position, backlog, messages, history>>
      /\ pc = "open" /\ pc' = "stat" /\ handle' = path /\ path # NoFile
      BY DEF Open
<1>2. Inside /\ path = newest
      BY <1>1, Within DEF RFilesInv
<1>3. MemoryInv'
      BY <1>1 DEF MemoryInv, files
<1>4. /\ ~Draining /\ ~Draining' /\ pc' \notin InBackup
      /\ HandleInv'
      BY <1>1, <1>2 DEF Draining, HandleInv, InBackup, files
<1>5. /\ Noticeable => Noticeable'
      /\ Aligned <=> Aligned'
      /\ OnTrack => OnTrack'
      /\ Astray => Astray'
      BY <1>1 DEF Noticeable, Aligned, OnTrack, Astray, Untouched, InBackup,
                  files, history
<1>6. Inside'
      BY <1>1, <1>2, <1>4, <1>5 DEF Inside, files, history
<1> QED
    BY <1>1, <1>3, <1>6, RFilesKept

(* stillGood tells the file of o_stat from any other.                      *)
LEMMA StatTells ==
  ASSUME TypeInv, Where, Stat
  PROVE  /\ Inside /\ nStat = oStat
         /\ \/ /\ oStat.file = newest
               /\ oStat'.file = newest /\ nStat' = oStat'
               /\ oStat'.size <= size[newest] /\ pc' = "read"
            \/ /\ oStat.file # newest /\ path = newest
               /\ oStat' = oStat /\ nStat' = StatOf(newest) /\ pc' = "backup"
<1> USE DEF Where
<1> DEFINE n == IF path = NoFile THEN nStat ELSE StatOf(path)
<1>1. /\ pc = "stat" /\ nStat' = n
      /\ oStat' = IF Rotated(n) THEN oStat ELSE n
      /\ pc' = IF Rotated(n) THEN "backup" ELSE "read"
      BY DEF Stat
<1>2. Inside /\ nStat = oStat
      BY <1>1, Within DEF Inside, Draining, InBackup, Noticeable
<1>3. /\ newest \in File /\ newest # NoFile
      /\ oStat.size \in Nat /\ size[newest] \in Nat /\ size[newest] <= size[newest]
  <2>1. newest \in File /\ newest # NoFile
        BY Bounds DEF TypeInv, TypeOK
  <2>2. oStat.size \in Nat /\ size[newest] \in Nat
        BY <2>1, Numbers
  <2> QED
      BY <2>1, <2>2
<1>4. CASE path = NoFile
  <2>1. oStat.file = newest
        BY <1>2, <1>3, <1>4 DEF Inside
  <2>2. n = oStat /\ ~Rotated(n)
        BY <1>2, <1>3, <1>4 DEF Rotated
  <2>3. oStat.size <= size[newest]
        BY <1>3, <2>1 DEF MemoryInv
  <2> QED
      BY <1>1, <1>2, <2>1, <2>2, <2>3
<1>5. CASE path # NoFile
  <2>1. path = newest /\ n = StatOf(newest)
        BY <1>5 DEF RFilesInv
  <2>2. n.file = newest /\ n.size = size[newest]
        BY <2>1 DEF StatOf
  <2>3. CASE oStat.file = newest
    <3>1. oStat.size <= size[newest]
          BY <1>3, <2>3 DEF MemoryInv
    <3>2. ~Rotated(n)
          BY <1>3, <2>2, <2>3, <3>1 DEF Rotated
    <3> QED
        BY <1>1, <1>2, <1>3, <2>2, <2>3, <3>2
  <2>4. CASE oStat.file # newest
    <3>1. CASE oStat.file = NoFile
      <4>1. inode[newest] \in File /\ inode[newest] # NoFile
            BY <1>3, Bounds DEF TypeInv, TypeOK
      <4>2. Rotated(n)
            BY <1>3, <2>2, <3>1, <4>1 DEF Rotated, Ino
      <4> QED
          BY <1>1, <1>2, <2>1, <2>4, <4>2
    <3>2. CASE oStat.file # NoFile
      <4>1. inode[newest] = inode[oStat.file] => size[newest] < oStat.size
            BY <1>1, <1>2, <2>1, <2>4, <3>2
               DEF Inside, Draining, InBackup, Noticeable
      <4>2. Rotated(n)
            BY <1>3, <2>2, <3>2, <4>1 DEF Rotated, Ino
      <4> QED
          BY <1>1, <1>2, <2>1, <2>4, <4>2
    <3> QED
        BY <3>1, <3>2
  <2> QED
      BY <2>3, <2>4
<1> QED
    BY <1>4, <1>5

LEMMA WhereStat ==
  ASSUME Traceable, TypeInv, Where, Stat, UNCHANGED sentBefore
  PROVE  Where'
<1> USE DEF Where
<1>1. /\ UNCHANGED <<files, handle, position, backlog, messages, history>>
      /\ pc = "stat"
      BY DEF Stat
<1>2. Inside /\ handle = newest /\ newest \in Nat /\ size[newest] \in Nat
  <2>1. Inside
        BY StatTells
  <2>2. newest \in Nat /\ size[newest] \in Nat
        BY Numbers, Bounds DEF TypeInv, TypeOK
  <2> QED
      BY <1>1, <2>1, <2>2 DEF Inside, HandleInv
<1>3. CASE /\ oStat.file = newest
           /\ oStat'.file = newest /\ nStat' = oStat'
           /\ oStat'.size <= size[newest] /\ pc' = "read"
  <2>1. MemoryInv' /\ Noticeable' /\ HandleInv' /\ ~Draining' /\ pc' \notin InBackup
    <3>1. newest <= newest
          BY <1>2
    <3> QED
        BY <1>1, <1>2, <1>3, <3>1
           DEF MemoryInv, Noticeable, HandleInv, Draining, InBackup, files
  <2>2. Aligned /\ Aligned'
        BY <1>1, <1>2, <1>3 DEF Inside, Aligned, history
  <2>3. OnTrack'
    <3>1. OnTrack
          BY <1>2, <2>2 DEF Inside
    <3> QED
        BY <1>1, <1>3, <2>1, <3>1 DEF OnTrack, files
  <2>4. Inside'
        BY <1>1, <1>2, <1>3, <2>1, <2>2, <2>3 DEF Inside, files, history
  <2> QED
      BY <1>1, <2>1, <2>4, RFilesKept
<1>4. CASE /\ oStat.file # newest /\ path = newest
           /\ oStat' = oStat /\ nStat' = StatOf(newest) /\ pc' = "backup"
  <2>1. nStat'.file = newest /\ nStat'.size <= size[newest]
        BY <1>2, <1>4 DEF StatOf
  <2>2. MemoryInv' /\ HandleInv' /\ Draining' /\ pc' \notin InBackup
        BY <1>1, <1>2, <1>4 DEF MemoryInv, HandleInv, Draining, InBackup, files
  <2>3. /\ Aligned <=> Aligned'
        /\ OnTrack => OnTrack'
        /\ Astray => Astray'
        BY <1>1, <1>4 DEF Aligned, OnTrack, Astray, Untouched, InBackup,
                          files, history
  <2>4. Inside'
        BY <1>1, <1>2, <1>4, <2>1, <2>2, <2>3 DEF Inside, files, history
  <2> QED
      BY <1>1, <2>2, <2>4, RFilesKept
<1> QED
    BY <1>3, <1>4, StatTells

(* What holds while the rotated file is drained.                           *)
LEMMA DrainingFacts ==
  ASSUME TypeInv, Where, Draining
  PROVE  /\ Inside
         /\ path = newest /\ handle = newest /\ nStat.file = newest
         /\ nStat.size <= size[newest]
         /\ newest \in File /\ newest \in Nat /\ newest # NoFile
         /\ oStat.file \in Int /\ oStat.file < newest
<1>1. Inside
      BY Within DEF Draining, InBackup
<1>2. /\ oStat.file # newest /\ path = newest /\ nStat.file = newest
      /\ nStat.size <= size[newest]
      BY <1>1 DEF Inside
<1>3. handle = newest
      BY <1>1 DEF Inside, HandleInv, Draining
<1>4. newest \in File /\ newest \in Nat /\ newest # NoFile
      BY Bounds DEF TypeInv, TypeOK
<1>5. oStat.file \in Int /\ oStat.file <= newest
      BY Numbers DEF Where, MemoryInv
<1>6. oStat.file < newest
      BY <1>2, <1>4, <1>5
<1> QED
    BY <1>1, <1>2, <1>3, <1>4, <1>5, <1>6

(* The thread goes over to the newest file. *)
LEMMA WhereRestart ==
  ASSUME Traceable, TypeInv, Where, BackupEmpty \/ BackupDone,
         UNCHANGED sentBefore
  PROVE  Where'
<1>1. /\ UNCHANGED <<files, handle, nStat, messages, history>>
      /\ pc \in {"backup", "backupLine"}
      /\ position' = 0 /\ oStat' = nStat /\ pc' = "read"
      BY DEF BackupEmpty, BackupDone, Restart
<1>2. Draining
      BY <1>1 DEF Draining, InBackup
<1>3. /\ Inside /\ path = newest /\ handle = newest /\ nStat.file = newest
      /\ nStat.size <= size[newest] /\ newest \in Nat /\ newest \in File
      BY <1>2, DrainingFacts
<1>4. newest <= newest /\ 0 <= size[newest]
      BY <1>3, Numbers
<1>5. MemoryInv'
      BY <1>1, <1>3, <1>4 DEF MemoryInv, files
<1>6. Noticeable' /\ HandleInv' /\ ~Draining' /\ pc' \notin InBackup
      BY <1>1, <1>3 DEF Noticeable, HandleInv, Draining, InBackup, files
<1>7. Aligned' /\ start'.file \in 1..newest
  <2>1. start.file \in 1..newest
        BY <1>3 DEF Inside
  <2> QED
      BY <1>1, <1>3, <2>1 DEF Aligned, history
<1>8. OnTrack'
      BY <1>1, <1>3, <1>4, <1>6 DEF OnTrack, files
<1>9. Inside'
      BY <1>1, <1>3, <1>6, <1>7, <1>8 DEF Inside, files
<1>10. RFilesInv'
      BY <1>1, RFilesKept DEF Where
<1> QED
    BY <1>5, <1>9, <1>10 DEF Where

(* The file that is drained is the one before the newest: the one of       *)
(* o_stat, unless the thread has lost its way.                             *)
LEMMA WhereBackupRead ==
  ASSUME Traceable, TypeInv, Where, BackupRead, UNCHANGED sentBefore
  PROVE  Where'
<1>1. /\ UNCHANGED <<files, handle, nStat, oStat, position, messages, history>>
      /\ pc = "backup" /\ pc' = "backupLine"
      /\ backup # NoFile /\ position < size[backup]
      /\ backlog'.file = backup /\ backlog'.lo = position
      /\ backlog'.hi = size[backup]
      BY DEF BackupRead
<1>2. Draining /\ Draining'
      BY <1>1 DEF Draining, InBackup
<1>3. /\ Inside /\ path = newest /\ handle = newest /\ newest \in Nat
      /\ newest # NoFile
      BY <1>2, DrainingFacts
<1>4. backup = newest - 1 /\ backup < newest
      BY <1>1, <1>3 DEF Where, RFilesInv
<1>5. backup \in File /\ size[backup] \in Nat /\ position \in Nat
  <2>1. backup \in File
        BY <1>1 DEF TypeInv, TypeOK
  <2> QED
      BY <2>1, Numbers
<1>6. position <= size[backup] /\ size[backup] <= size[backup]
      BY <1>1, <1>5
<1>7. MemoryInv' /\ HandleInv'
      BY <1>1, <1>3 DEF Where, MemoryInv, HandleInv, InBackup, files
<1>8. Aligned <=> Aligned'
      BY <1>1 DEF Aligned, history
<1>9. OnTrack => OnTrack'
  <2> SUFFICES ASSUME OnTrack PROVE OnTrack'
      OBVIOUS
  <2>1. oStat.file = backup
        BY <1>3, <1>2, <1>4 DEF OnTrack, Inside
  <2> QED
      BY <1>1, <2>1 DEF OnTrack, files
<1>10. Astray => Astray'
      BY <1>1 DEF Astray, InBackup, files, history
<1>11. Inside'
      BY <1>1, <1>2, <1>3, <1>4, <1>6, <1>7, <1>8, <1>9, <1>10
         DEF Inside, files, history
<1>12. RFilesInv'
      BY <1>1, RFilesKept DEF Where
<1> QED
    BY <1>7, <1>11, <1>12 DEF Where

(* A line of the buffer, or what strays behind it, is queued.              *)
LEMMA BacklogPiece ==
  ASSUME TypeInv, Where, BackupLine \/ BackupStray
  PROVE  /\ Inside /\ pc = "backupLine" /\ pc' \in {"backupLine", "backupSend"}
         /\ UNCHANGED <<files, handle, nStat, oStat, position, checkpoint, history>>
         /\ backlog.file \in File /\ backlog.lo \in Offset
         /\ backlog'.file = backlog.file /\ backlog'.hi = backlog.hi
         /\ backlog'.lo \in Offset
         /\ backlog.lo <= backlog'.lo /\ backlog'.lo <= backlog.hi
         /\ messages' = Append(messages, [file |-> backlog.file,
                                          lo |-> backlog.lo,
                                          hi |-> backlog'.lo])
<1>1. pc = "backupLine"
      BY DEF BackupLine, BackupStray
<1>2. Inside /\ backlog.lo <= backlog.hi
  <2>1. Inside
        BY <1>1, Within
  <2> QED
      BY <1>1, <2>1 DEF Inside, InBackup
<1>3. /\ backlog \in [file : File \cup {NoFile}, lo : Offset, hi : Offset,
                      tail : BOOLEAN]
      /\ backlog.file \in File /\ backlog.lo \in Offset /\ backlog.hi \in Offset
      BY <1>1 DEF TypeInv, TypeOK, Shape, InBackup
<1>4. PICK e \in Offset :
         /\ PushBacklog(e)
         /\ backlog'.lo = e
         /\ backlog'.file = backlog.file /\ backlog'.hi = backlog.hi
         /\ backlog.lo <= e /\ e <= backlog.hi
  <2>1. CASE BackupLine
    <3>1. PICK e \in BackupLines :
            PushBacklog(e) /\ backlog' = [backlog EXCEPT !.lo = e]
          BY <2>1 DEF BackupLine
    <3>2. e \in Offset /\ backlog.lo < e /\ e <= backlog.hi
          BY <1>3, <3>1, LineEndsType DEF BackupLines
    <3>3. backlog.lo <= e
          BY <1>3, <3>2
    <3>4. /\ backlog'.lo = e /\ backlog'.file = backlog.file
          /\ backlog'.hi = backlog.hi
          BY <1>3, <3>1
    <3> QED
        BY <3>1, <3>2, <3>3, <3>4
  <2>2. CASE BackupStray
    <3>1. /\ PushBacklog(backlog.hi)
          /\ backlog' = [backlog EXCEPT !.lo = backlog.hi, !.tail = FALSE]
          BY <2>2 DEF BackupStray
    <3>2. /\ backlog'.lo = backlog.hi /\ backlog'.file = backlog.file
          /\ backlog'.hi = backlog.hi
          BY <1>3, <3>1
    <3>3. backlog.hi <= backlog.hi
          BY <1>3
    <3> QED
        BY <1>2, <1>3, <3>1, <3>2, <3>3
  <2> QED
      BY <2>1, <2>2
<1>5. /\ UNCHANGED <<files, handle, nStat, oStat, position, checkpoint, history>>
      /\ messages' = Append(messages, [file |-> backlog.file,
                                       lo |-> backlog.lo, hi |-> e])
      /\ pc' \in {"backupLine", "backupSend"}
      BY <1>4 DEF PushBacklog
<1> QED
    BY <1>1, <1>2, <1>3, <1>4, <1>5

LEMMA WhereBackupLine ==
  ASSUME Traceable, TypeInv, Where, BackupLine \/ BackupStray,
         UNCHANGED sentBefore
  PROVE  Where'
<1>1. /\ Inside /\ pc = "backupLine" /\ pc' \in {"backupLine", "backupSend"}
      /\ UNCHANGED <<files, handle, nStat, oStat, position, history>>
      /\ backlog'.file = backlog.file /\ backlog'.hi = backlog.hi
      /\ backlog'.lo <= backlog.hi
      BY BacklogPiece
<1>2. Draining /\ Draining' /\ pc \in InBackup /\ pc' \in InBackup
      BY <1>1 DEF Draining, InBackup
<1>3. MemoryInv' /\ HandleInv'
      BY <1>1, <1>2 DEF Where, MemoryInv, Inside, HandleInv, InBackup, files
<1>4. /\ Aligned <=> Aligned'
      /\ OnTrack => OnTrack'
      /\ Astray => Astray'
      BY <1>1, <1>2 DEF Aligned, OnTrack, Astray, files, history
<1>5. Inside'
      BY <1>1, <1>2, <1>3, <1>4 DEF Inside, files, history
<1>6. RFilesInv'
      BY <1>1, RFilesKept DEF Where
<1> QED
    BY <1>3, <1>5, <1>6 DEF Where

Sending ==
  \/ BackupSendOk \/ BackupSendFails \/ BackupReconnect
  \/ Idle \/ SendOk \/ SendFails \/ Reconnect

(* Sends leave the thread where it is, in either loop.                     *)
LEMMA SendingStays ==
  ASSUME Sending
  PROVE  /\ UNCHANGED <<files, reading, start, checkpoint>>
         /\ \/ pc \in InBackup /\ pc' \in InBackup
            \/ pc \in {"send", "wait"} /\ pc' \in {"open", "wait"}
         /\ \/ /\ accepted' = accepted \cup Pending
               /\ messages' \in {messages, <<>>}
            \/ UNCHANGED <<accepted, messages>>
<1>1. /\ UNCHANGED <<files, reading, start, checkpoint>>
      /\ \/ pc \in InBackup /\ pc' \in InBackup
         \/ pc \in {"send", "wait"} /\ pc' \in {"open", "wait"}
      BY DEF Sending, BackupSendOk, BackupSendFails, BackupReconnect, Idle,
             SendOk, SendFails, Reconnect, InBackup, history
<1>2. \/ /\ accepted' = accepted \cup Pending
         /\ messages' \in {messages, <<>>}
      \/ UNCHANGED <<accepted, messages>>
      BY DEF Sending, BackupSendOk, BackupSendFails, BackupReconnect, Idle,
             SendOk, SendFails, Reconnect, Sent, NotSent, Pending, history
<1> QED
    BY <1>1, <1>2

LEMMA WhereSend ==
  ASSUME Traceable, TypeInv, Where, Sending, UNCHANGED sentBefore
  PROVE  Where'
<1>1. UNCHANGED <<files, reading, start>>
      BY SendingStays
<1>2. RFilesInv' /\ MemoryInv'
  <2>1. MemoryInv'
        BY <1>1 DEF Where, MemoryInv, files, reading
  <2> QED
      BY <1>1, <2>1, RFilesKept DEF Where
<1>3. CASE pc \in InBackup /\ pc' \in InBackup
  <2>1. Inside
        BY <1>3, Within DEF InBackup
  <2>2. Draining /\ Draining'
        BY <1>3 DEF Draining
  <2>3. /\ HandleInv' /\ (Aligned <=> Aligned')
        /\ OnTrack => OnTrack'
        /\ Astray => Astray'
        BY <1>1, <1>3, <2>1
           DEF Inside, HandleInv, Aligned, OnTrack, Astray, InBackup, files,
               reading
  <2>4. pc' \notin {"firstStat", "firstOpen", "dead"}
        BY <1>3 DEF InBackup
  <2>5. Inside'
        BY <1>1, <1>3, <2>1, <2>2, <2>3, <2>4 DEF Inside, files, reading
  <2> QED
      BY <1>2, <2>5 DEF Where
<1>4. CASE pc \in {"send", "wait"} /\ pc' \in {"open", "wait"}
  <2>1. Inside /\ ~Draining /\ ~Draining' /\ pc \notin InBackup /\ pc' \notin InBackup
    <3>1. Inside
          BY <1>4, Within
    <3> QED
        BY <1>4, <3>1 DEF Draining, InBackup
  <2>2. Aligned /\ OnTrack
        BY <1>4, <2>1 DEF Inside, Astray, InBackup
  <2>3. Aligned' /\ OnTrack' /\ HandleInv' /\ Noticeable'
        BY <1>1, <1>4, <2>1, <2>2
           DEF Inside, Aligned, OnTrack, HandleInv, Noticeable, InBackup,
               files, reading
  <2>4. Inside'
        BY <1>1, <1>4, <2>1, <2>3 DEF Inside, files, reading
  <2> QED
      BY <1>2, <2>4 DEF Where
<1> QED
    BY <1>3, <1>4, SendingStays

(* readLogFile reads in the file of o_stat: a thread that has lost its way *)
(* does not come so far, and a truncated file shows nothing beyond         *)
(* position.                                                               *)
LEMMA LogPiece ==
  ASSUME TypeInv, Where, ReadLine
  PROVE  /\ Inside /\ Aligned /\ OnTrack
         /\ pc = "read" /\ pc' \in {"checkpoint", "read"}
         /\ UNCHANGED <<files, handle, nStat, oStat, backlog, checkpoint, history>>
         /\ oStat.file \in File /\ position \in Offset /\ position' \in Offset
         /\ position <= position' /\ position' <= size[oStat.file]
         /\ messages' = Append(messages, [file |-> oStat.file,
                                          lo |-> position, hi |-> position'])
<1>1. PICK e \in LineEnds(handle, position, size[handle]) :
        /\ messages' = Append(messages, [file |-> handle, lo |-> position,
                                         hi |-> e])
        /\ position' = e
      BY DEF ReadLine
<1>2. /\ UNCHANGED <<files, handle, nStat, oStat, backlog, checkpoint, history>>
      /\ pc = "read" /\ pc' \in {"checkpoint", "read"}
      BY DEF ReadLine
<1>3. Inside /\ Aligned /\ OnTrack
  <2>1. Inside
        BY <1>2, Within
  <2> QED
      BY <1>2, <2>1 DEF Inside, Astray, InBackup
<1>4. handle \in File /\ position \in Offset /\ size[handle] \in Offset
      BY <1>2 DEF TypeInv, TypeOK, Shape, Holding
<1>5. e \in Offset /\ position < e /\ e <= size[handle]
      BY <1>1, <1>4, LineEndsType
<1>6. handle = oStat.file
  <2> SUFFICES ASSUME handle = newest, oStat.file = newest - 1,
                      inode[newest] = inode[oStat.file]
               PROVE  FALSE
      BY <1>2, <1>3 DEF Inside, HandleInv
  <2>1. oStat.file \notin {NoFile, newest}
    <3>1. oStat.file \in File
          BY <1>3, AlignedFile
    <3>2. newest \in Int
          BY Numbers
    <3> QED
        BY <3>1, <3>2, Bounds
  <2>2. Noticeable /\ path = newest
        BY <1>2, <1>3, <2>1 DEF Inside, Draining, InBackup
  <2>3. size[newest] <= position
        BY <2>1, <2>2 DEF Noticeable
  <2> QED
      BY <1>4, <1>5, <2>3
<1>7. position <= e
      BY <1>4, <1>5
<1> QED
    BY <1>1, <1>2, <1>3, <1>4, <1>5, <1>6, <1>7

LEMMA WhereReadLine ==
  ASSUME Traceable, TypeInv, Where, ReadLine, UNCHANGED sentBefore
  PROVE  Where'
<1>1. /\ Inside /\ Aligned /\ OnTrack
      /\ pc = "read" /\ pc' \in {"checkpoint", "read"}
      /\ UNCHANGED <<files, handle, nStat, oStat, backlog, history>>
      /\ oStat.file \in File /\ position \in Offset /\ position' \in Offset
      /\ position <= position' /\ position' <= size[oStat.file]
      BY LogPiece
<1>2. RFilesInv' /\ MemoryInv'
  <2>1. MemoryInv'
        BY <1>1 DEF Where, MemoryInv, files
  <2> QED
      BY <1>1, <2>1, RFilesKept DEF Where
<1>3. ~Draining /\ ~Draining' /\ pc' \notin InBackup
      BY <1>1 DEF Draining, InBackup
<1>4. Noticeable'
  <2>1. size[newest] <= position => size[newest] <= position'
    <3>1. size[newest] \in Nat
          BY Numbers DEF TypeInv, TypeOK
    <3> QED
        BY <1>1, <3>1, Bounds
  <2> QED
      BY <1>1, <1>3, <2>1 DEF Inside, Noticeable, files
<1>5. Aligned' /\ OnTrack' /\ HandleInv'
      BY <1>1, <1>3 DEF Inside, Aligned, OnTrack, HandleInv, InBackup, files, history
<1>6. Inside'
      BY <1>1, <1>3, <1>4, <1>5 DEF Inside, files, history
<1> QED
    BY <1>2, <1>6 DEF Where

LEMMA WhereReadEnd ==
  ASSUME Traceable, TypeInv, Where, ReadEnd \/ WriteCheckpoint,
         UNCHANGED sentBefore
  PROVE  Where'
<1>1. /\ UNCHANGED <<files, nStat, oStat, position, backlog, messages, history>>
      /\ pc \in {"read", "checkpoint"} /\ pc' \in {"checkpoint", "send"}
      BY DEF ReadEnd, WriteCheckpoint, reading
<1>2. RFilesInv' /\ MemoryInv'
  <2>1. MemoryInv'
        BY <1>1 DEF Where, MemoryInv, files
  <2> QED
      BY <1>1, <2>1, RFilesKept DEF Where
<1>3. Inside /\ ~Draining /\ ~Draining' /\ pc \notin InBackup /\ pc' \notin InBackup
  <2>1. Inside
        BY <1>1, Within
  <2> QED
      BY <1>1, <2>1 DEF Draining, InBackup
<1>4. Aligned /\ OnTrack
      BY <1>1, <1>3 DEF Inside, Astray, InBackup
<1>5. Aligned' /\ OnTrack' /\ HandleInv' /\ Noticeable'
      BY <1>1, <1>3, <1>4
         DEF Inside, Aligned, OnTrack, HandleInv, Noticeable, InBackup, files,
             history
<1>6. Inside'
      BY <1>1, <1>3, <1>5 DEF Inside, files, history
<1> QED
    BY <1>2, <1>6 DEF Where

LEMMA WhereThread ==
  ASSUME Traceable, TypeInv, Where, Thread, UNCHANGED sentBefore
  PROVE  Where'
<1>1. CASE FirstStat \/ FirstOpen \/ FirstOpenFails \/ Open \/ Stat
      BY <1>1, WhereFirst, WhereFirstOpen, WhereOpen, WhereStat
<1>2. CASE BackupEmpty \/ BackupRead \/ BackupLine \/ BackupStray \/ BackupDone
      BY <1>2, WhereRestart, WhereBackupRead, WhereBackupLine
<1>3. CASE Sending
      BY <1>3, WhereSend
<1>4. CASE ReadLine \/ ReadEnd \/ WriteCheckpoint
      BY <1>4, WhereReadLine, WhereReadEnd
<1> QED
    BY <1>1, <1>2, <1>3, <1>4 DEF Thread, Sending

(* A kill leaves the files, and nothing taken since.                       *)
LEMMA WhereCrash ==
  ASSUME TypeInv, Where, Crash
  PROVE  Where' /\ Outside'
<1>1. /\ UNCHANGED <<files, start>>
      /\ pc' = "firstStat" /\ nStat' = NoStat /\ oStat' = NoStat
      /\ position' = 0 /\ messages' = <<>> /\ sentBefore' = accepted'
      BY DEF Crash
<1>2. 0 <= newest
      BY Bounds DEF TypeInv, TypeOK
<1>3. MemoryInv'
      BY <1>1, <1>2 DEF MemoryInv, NoStat, files
<1>4. Outside'
      BY <1>1 DEF Outside, Untouched, Noticeable, NoStat
<1>5. RFilesInv'
      BY <1>1, RFilesKept DEF Where
<1> QED
    BY <1>3, <1>4, <1>5 DEF Where

LEMMA WhereStep == Traceable /\ RTypes /\ Where /\ [RNext]_rvars => Where'
<1> SUFFICES ASSUME Traceable, RTypes, Where, [RNext]_rvars PROVE Where'
    OBVIOUS
<1>0. TypeInv
      BY DEF RTypes
<1>1. CASE WorldStep
      BY <1>0, <1>1, WhereWorld DEF WorldStep, recovery
<1>2. CASE ThreadStep
      BY <1>0, <1>2, WhereThread DEF ThreadStep, recovery
<1>3. CASE Crash
      BY <1>0, <1>3, WhereCrash
<1>4. CASE UNCHANGED rvars
  <2>1. UNCHANGED <<files, pc, reading, messages, history, sentBefore>>
        BY <1>4 DEF rvars, vars, recovery
  <2>2. RFilesInv' /\ MemoryInv'
        BY <2>1 DEF Where, RFilesInv, MemoryInv, files, reading
  <2>3. Outside => Outside'
        BY <2>1 DEF Outside, Untouched, Noticeable, files, reading, history
  <2>4. Inside => Inside'
        BY <2>1 DEF Inside, HandleInv, Aligned, Draining, OnTrack, Astray,
                    Noticeable, Untouched, files, reading, history
  <2> QED
      BY <2>2, <2>3, <2>4 DEF Where
<1> QED
    BY <1>1, <1>2, <1>3, <1>4 DEF RNext
-----------------------------------------------------------------------------
(* What was read, and what the checkpoint covers.  A step counts only for  *)
(* how it moves the place where the thread reads, the queue and the log.   *)

(* The surroundings write and rotate. *)
Grows ==
  /\ UNCHANGED <<pc, oStat, position, backlog, messages, checkpoint, history>>
  /\ newest <= newest'
  /\ \A f \in File : size[f] <= size'[f]

(* A piece of the file where the thread reads is queued. *)
Reads ==
  /\ Inside
  /\ UNCHANGED <<files, checkpoint, history>>
  /\ oStat'.file = oStat.file
  /\ Aligned => oStat.file = Standing[1]
  /\ \E f \in File, lo, e \in Offset :
       /\ Standing = <<f, lo>> /\ ReadUpTo = lo
       /\ Standing' = <<f, e>> /\ ReadUpTo' = e
       /\ lo <= e
       /\ messages' = Append(messages, [file |-> f, lo |-> lo, hi |-> e])

(* The server is sent the queue. *)
Sends ==
  /\ UNCHANGED <<files, start, checkpoint, oStat>>
  /\ Standing' = Standing /\ ReadUpTo' = ReadUpTo
  /\ \/ /\ accepted' = accepted \cup Pending
        /\ messages' \in {messages, <<>>}
     \/ UNCHANGED <<accepted, messages>>

(* The thread goes over to the newest file. *)
Advances ==
  /\ UNCHANGED <<files, messages, checkpoint, history>>
  /\ ReadUpTo' = 0
  /\ Standing[1] \in Int /\ Standing'[1] \in Int
  /\ Standing[1] < Standing'[1]

(* The thread begins to read in the newest file. *)
Begins ==
  /\ UNCHANGED <<files, oStat, messages, accepted, checkpoint>>
  /\ Outside /\ Untouched' /\ path = newest /\ path \in File
  /\ position' \in Nat /\ ReadUpTo' = position'
  /\ start' = [file |-> path, pos |-> position']
  /\ checkpoint.file # NoFile /\ checkpoint.pos <= size[path]
       => checkpoint.pos <= position'

(* The thread stays where it is; it may save its place. *)
Rests ==
  /\ UNCHANGED <<files, messages, history>>
  /\ \/ Outside'
     \/ /\ oStat'.file = oStat.file /\ ReadUpTo' = ReadUpTo
        /\ Standing' = Standing \/ Untouched
  /\ \/ UNCHANGED checkpoint
     \/ /\ pc = "checkpoint"
        /\ checkpoint' \in {NoPlace, [file |-> oStat.file, pos |-> position]}

Kinds == Grows \/ Reads \/ Sends \/ Advances \/ Begins \/ Rests

LEMMA WorldKind ==
  ASSUME TypeInv, World
  PROVE  Grows
<1>0. /\ size \in [File -> Offset] /\ newest \in Nat /\ newest <= newest
      /\ \A f \in File : size[f] \in Nat /\ size[f] <= size[f]
  <2>1. size \in [File -> Offset] /\ newest \in File
        BY DEF TypeInv, TypeOK
  <2>2. newest \in Nat /\ \A f \in File : size[f] \in Nat
        BY <2>1, Numbers
  <2> QED
      BY <2>1, <2>2
<1>1. CASE Write
  <2>1. PICK e \in size[writer] + 1 .. MaxUnits :
           size' = [size EXCEPT ![writer] = e]
        BY <1>1 DEF Write
  <2>2. writer \in File /\ e \in Nat /\ size[writer] <= e
    <3>1. writer \in File
          BY DEF TypeInv, TypeOK
    <3>2. size[writer] \in Nat
          BY <1>0, <3>1
    <3>3. e \in size[writer] + 1 .. MaxUnits
          BY <2>1
    <3> QED
        BY <3>1, <3>2, <3>3, Bounds
  <2>3. ASSUME NEW f \in File PROVE size[f] <= size'[f]
        BY <1>0, <2>1, <2>2
  <2> QED
      BY <1>0, <1>1, <2>3 DEF Write, Grows, reading
<1>2. CASE Rename \/ Reopen
      BY <1>0, <1>2 DEF Rename, Reopen, Grows, reading
<1>3. CASE Create \/ CopyTruncate
  <2>1. newest' = newest + 1
        BY <1>3 DEF Create, CopyTruncate
  <2>2. newest <= newest'
        BY <1>0, <2>1
  <2> QED
      BY <1>0, <1>3, <2>2 DEF Create, CopyTruncate, Grows, reading, history
<1> QED
    BY <1>1, <1>2, <1>3 DEF World

LEMMA FirstKind ==
  ASSUME Traceable, TypeInv, Where, UNCHANGED sentBefore,
         FirstStat \/ FirstOpen \/ FirstOpenFails
  PROVE  Begins \/ Rests
<1>1. CASE FirstStat \/ FirstOpenFails
  <2>1. pc' \in {"firstOpen", "dead"}
        BY <1>1 DEF FirstStat, FirstOpenFails
  <2>2. Outside'
        BY <1>1, <2>1, WhereFirst DEF Where, Inside
  <2> QED
      BY <1>1, <2>2 DEF FirstStat, FirstOpenFails, Rests
<1>2. CASE FirstOpen
  <2>1. /\ UNCHANGED <<files, oStat, messages, accepted, checkpoint>>
        /\ pc = "firstOpen" /\ pc' = "open" /\ path # NoFile
        /\ start' = [file |-> path, pos |-> position']
        BY <1>2 DEF FirstOpen
  <2>2. Outside /\ path = newest
        BY <2>1, Within DEF Where, RFilesInv
  <2>3. Untouched' /\ ReadUpTo' = position'
        BY <2>1, <2>2 DEF Outside, Untouched, ReadUpTo, InBackup
  <2> QED
      BY <1>2, <2>1, <2>2, <2>3, FirstPosition DEF Begins
<1> QED
    BY <1>1, <1>2

LEMMA StayKind ==
  ASSUME Traceable, TypeInv, Where,
         Open \/ Stat \/ ReadEnd \/ WriteCheckpoint
  PROVE  Rests
<1>1. /\ UNCHANGED <<files, position, backlog, messages, history>>
      /\ pc \notin InBackup /\ pc' \notin InBackup
      BY DEF Open, Stat, ReadEnd, WriteCheckpoint, InBackup, reading
<1>2. oStat'.file = oStat.file
  <2>1. CASE Stat
        BY <2>1, StatTells
  <2>2. CASE Open \/ ReadEnd \/ WriteCheckpoint
        BY <2>2 DEF Open, ReadEnd, WriteCheckpoint, reading
  <2> QED
      BY <2>1, <2>2
<1>3. \/ UNCHANGED checkpoint
      \/ /\ pc = "checkpoint"
         /\ checkpoint' \in {NoPlace, [file |-> oStat.file, pos |-> position]}
      BY DEF Open, Stat, ReadEnd, WriteCheckpoint
<1> QED
    BY <1>1, <1>2, <1>3 DEF Rests, Standing, ReadUpTo

LEMMA BackupKind ==
  ASSUME Traceable, TypeInv, Where,
         BackupEmpty \/ BackupRead \/ BackupLine \/ BackupStray \/ BackupDone
  PROVE  Reads \/ Advances \/ Rests
<1>1. CASE BackupEmpty \/ BackupDone
  <2>1. /\ UNCHANGED <<files, messages, checkpoint, history>>
        /\ pc \in {"backup", "backupLine"}
        /\ position' = 0 /\ oStat' = nStat /\ pc' = "read"
        BY <1>1 DEF BackupEmpty, BackupDone, Restart
  <2>2. Draining
        BY <2>1 DEF Draining, InBackup
  <2>3. /\ Inside /\ nStat.file = newest /\ newest \in Nat
        /\ oStat.file \in Int /\ oStat.file < newest
        BY <2>2, DrainingFacts
  <2>4. Standing' = <<newest, 0>> /\ ReadUpTo' = 0
        BY <2>1, <2>3 DEF Standing, ReadUpTo, InBackup
  <2>5. Standing[1] \in Int /\ Standing[1] < newest
    <3>1. CASE pc \in InBackup
      <4>1. backlog.file \in Int /\ backlog.file < newest
        <5>1. backlog.file < newest
              BY <2>3, <3>1 DEF Inside
        <5>2. backlog.file \in Int
              BY Bounds DEF TypeInv, TypeOK
        <5> QED
            BY <5>1, <5>2
      <4> QED
          BY <3>1, <4>1 DEF Standing
    <3>2. CASE pc \notin InBackup
          BY <2>3, <3>2 DEF Standing
    <3> QED
        BY <3>1, <3>2
  <2> QED
      BY <2>1, <2>3, <2>4, <2>5 DEF Advances
<1>2. CASE BackupRead
  <2>1. /\ UNCHANGED <<files, oStat, position, messages, checkpoint, history>>
        /\ pc = "backup" /\ pc' = "backupLine"
        /\ backup # NoFile
        /\ backlog'.file = backup /\ backlog'.lo = position
        BY <1>2 DEF BackupRead
  <2>2. ReadUpTo' = ReadUpTo
        BY <2>1 DEF ReadUpTo, InBackup
  <2>3. Draining
        BY <2>1 DEF Draining
  <2>4. Inside /\ path = newest /\ newest # NoFile /\ oStat.file # newest
        BY <2>3, DrainingFacts DEF Inside
  <2>5. Aligned => Standing' = Standing
    <3> SUFFICES ASSUME Aligned PROVE Standing' = Standing
        OBVIOUS
    <3>1. oStat.file = newest - 1
          BY <2>4 DEF Inside, OnTrack
    <3>2. backup = newest - 1
          BY <2>1, <2>4 DEF Where, RFilesInv
    <3>3. Standing = <<oStat.file, position>> /\ Standing' = <<backup, position>>
          BY <2>1 DEF Standing, InBackup
    <3> QED
        BY <3>1, <3>2, <3>3
  <2>6. ~Aligned => Untouched
        BY <2>1, <2>4 DEF Inside, Astray, InBackup
  <2>7. Standing' = Standing \/ Untouched
        BY <2>5, <2>6
  <2> QED
      BY <2>1, <2>2, <2>7 DEF Rests
<1>3. CASE BackupLine \/ BackupStray
  <2>1. /\ Inside /\ pc = "backupLine" /\ pc' \in {"backupLine", "backupSend"}
        /\ UNCHANGED <<files, oStat, checkpoint, history>>
        /\ backlog.file \in File /\ backlog.lo \in Offset
        /\ backlog'.file = backlog.file /\ backlog'.lo \in Offset
        /\ backlog.lo <= backlog'.lo
        /\ messages' = Append(messages, [file |-> backlog.file,
                                         lo |-> backlog.lo,
                                         hi |-> backlog'.lo])
        BY <1>3, BacklogPiece
  <2>2. /\ Standing = <<backlog.file, backlog.lo>> /\ ReadUpTo = backlog.lo
        /\ Standing' = <<backlog.file, backlog'.lo>> /\ ReadUpTo' = backlog'.lo
        BY <2>1 DEF Standing, ReadUpTo, InBackup
  <2>3. Aligned => oStat.file = Standing[1]
        BY <2>1, <2>2 DEF Inside, OnTrack, InBackup
  <2> QED
      BY <2>1, <2>2, <2>3 DEF Reads
<1> QED
    BY <1>1, <1>2, <1>3

LEMMA SendKind ==
  ASSUME Sending
  PROVE  Sends
<1>1. /\ UNCHANGED <<files, reading, start, checkpoint>>
      /\ pc \in InBackup <=> pc' \in InBackup
      BY SendingStays DEF InBackup
<1>2. Standing' = Standing /\ ReadUpTo' = ReadUpTo
      BY <1>1 DEF Standing, ReadUpTo, reading
<1> QED
    BY <1>1, <1>2, SendingStays DEF Sends, reading

LEMMA ReadKind ==
  ASSUME TypeInv, Where, ReadLine
  PROVE  Reads
<1>1. /\ Inside
      /\ pc = "read" /\ pc' \in {"checkpoint", "read"}
      /\ UNCHANGED <<files, oStat, checkpoint, history>>
      /\ oStat.file \in File /\ position \in Offset /\ position' \in Offset
      /\ position <= position'
      /\ messages' = Append(messages, [file |-> oStat.file,
                                       lo |-> position, hi |-> position'])
      BY LogPiece
<1>2. /\ Standing = <<oStat.file, position>> /\ ReadUpTo = position
      /\ Standing' = <<oStat.file, position'>> /\ ReadUpTo' = position'
      BY <1>1 DEF Standing, ReadUpTo, InBackup
<1> QED
    BY <1>1, <1>2 DEF Reads

LEMMA Sorted ==
  Traceable /\ TypeInv /\ Where /\ [RNext]_rvars
    => Crash \/ (Kinds /\ UNCHANGED recovery)
<1> SUFFICES ASSUME Traceable, TypeInv, Where, [RNext]_rvars, ~Crash
             PROVE  Kinds /\ UNCHANGED recovery
    OBVIOUS
<1>1. CASE WorldStep
      BY <1>1, WorldKind DEF WorldStep, Kinds
<1>2. CASE ThreadStep
  <2>1. Thread /\ UNCHANGED recovery /\ UNCHANGED sentBefore
        BY <1>2 DEF ThreadStep, recovery
  <2>2. CASE FirstStat \/ FirstOpen \/ FirstOpenFails
        BY <2>1, <2>2, FirstKind DEF Kinds
  <2>3. CASE Open \/ Stat \/ ReadEnd \/ WriteCheckpoint
        BY <2>1, <2>3, StayKind DEF Kinds
  <2>4. CASE BackupEmpty \/ BackupRead \/ BackupLine \/ BackupStray \/ BackupDone
        BY <2>1, <2>4, BackupKind DEF Kinds
  <2>5. CASE Sending
        BY <2>1, <2>5, SendKind DEF Kinds
  <2>6. CASE ReadLine
        BY <2>1, <2>6, ReadKind DEF Kinds
  <2> QED
      BY <2>1, <2>2, <2>3, <2>4, <2>5, <2>6 DEF Thread, Sending
<1>3. CASE UNCHANGED rvars
      BY <1>3 DEF rvars, vars, files, reading, history, Kinds, Rests, Standing,
                  ReadUpTo
<1> QED
    BY <1>1, <1>2, <1>3 DEF RNext

LEMMA OwedType ==
  ASSUME NEW u \in Owed
  PROVE  /\ u \in File \X Offset /\ u = <<u[1], u[2]>>
         /\ u[1] \in File /\ u[1] \in Nat /\ u[2] \in Nat
         /\ start.file # NoFile /\ u[2] < size[u[1]]
         /\ ~Precedes(u, <<start.file, start.pos>>)
<1>1. u \in File \X Offset /\ u[2] < size[u[1]]
      BY DEF Owed
<1>2. u = <<u[1], u[2]>> /\ u[1] \in File /\ u[2] \in Offset
      BY <1>1
<1>3. u[1] \in Nat /\ u[2] \in Nat
      BY <1>2, Bounds
<1> QED
    BY <1>1, <1>2, <1>3 DEF Owed

LEMMA OwedSame ==
  ASSUME UNCHANGED <<size, start>>
  PROVE  Owed' = Owed
  BY DEF Owed, Precedes

(* A thread that has lost its way owes nothing up to the file of o_stat.   *)
LEMMA AstrayOwes ==
  ASSUME TypeInv, Inside, ~Aligned, NEW u \in Owed
  PROVE  oStat.file < u[1]
<1>1. /\ u[1] \in Nat /\ oStat.file \in Int
      /\ start.file \in Nat /\ start.file # NoFile
  <2>1. u[1] \in Nat /\ start.file # NoFile
        BY OwedType
  <2>2. oStat.file \in Int
        BY Numbers
  <2>3. start.file \in File \cup {NoFile}
        BY DEF TypeInv, TypeOK, Place
  <2> QED
      BY <2>1, <2>2, <2>3, Bounds
<1>2. ~(u[1] < start.file)
      BY OwedType DEF Precedes
<1>3. ~(start.file <= oStat.file)
      BY DEF Aligned
<1> QED
    BY <1>1, <1>2, <1>3

LEMMA AlignedReading ==
  ASSUME TypeInv, Inside, Aligned
  PROVE  ReadUpTo <= size[oStat.file]
<1>1. OnTrack
      BY DEF Inside
<1>2. CASE pc \in InBackup
  <2>1. /\ backlog.lo <= backlog.hi /\ backlog.hi <= size[backlog.file]
        /\ backlog.file = oStat.file
        BY <1>1, <1>2 DEF Inside, OnTrack
  <2>2. oStat.file \in File
        BY AlignedFile
  <2>3. /\ backlog.lo \in Nat /\ backlog.hi \in Nat /\ size[oStat.file] \in Nat
        BY <2>2, Numbers
  <2> QED
      BY <1>2, <2>1, <2>3 DEF ReadUpTo
<1>3. CASE pc \notin InBackup
      BY <1>1, <1>3 DEF ReadUpTo, OnTrack
<1> QED
    BY <1>2, <1>3

(* From the beginning of a file nothing of it, or after it, is passed over. *)
LEMMA FreshReading == TypeInv /\ ReadUpTo = 0 => NoLossInCurrent
<1> SUFFICES ASSUME TypeInv, ReadUpTo = 0, NEW u \in Owed, u[1] >= oStat.file
             PROVE  Ahead(u)
    BY DEF NoLossInCurrent
<1>1. u[1] \in Nat /\ u[2] \in Nat /\ oStat.file \in Int
      BY OwedType, Numbers
<1>2. ~(u[1] < oStat.file) /\ ~(u[2] < 0)
      BY <1>1
<1> QED
    BY <1>2, AheadMeans

LEMMA UntouchedBehind == Untouched => TakenBehind
<1> SUFFICES ASSUME Untouched PROVE TakenBehind
    OBVIOUS
<1>1. Pending = {} /\ accepted \subseteq sentBefore
      BY BatchEmpty DEF Untouched, Pending
<1> QED
    BY <1>1 DEF TakenBehind

LEMMA OutsideFree == TypeInv /\ Outside => NoLossInCurrent /\ TakenBehind
<1> SUFFICES ASSUME TypeInv, Outside PROVE NoLossInCurrent /\ TakenBehind
    OBVIOUS
<1>1. ReadUpTo = 0
      BY DEF Outside, ReadUpTo, InBackup
<1> QED
    BY <1>1, FreshReading, UntouchedBehind DEF Outside

LEMMA FreshReadingThen == (TypeInv /\ ReadUpTo = 0 => NoLossInCurrent)'
  BY FreshReading, PTL

LEMMA UntouchedBehindThen == (Untouched => TakenBehind)'
  BY UntouchedBehind, PTL

LEMMA OutsideFreeThen == (TypeInv /\ Outside => NoLossInCurrent /\ TakenBehind)'
  BY OutsideFree, PTL

LEMMA NoLossStays ==
  ASSUME NoLossInCurrent, UNCHANGED <<size, start>>, oStat'.file = oStat.file,
         accepted \cup Pending \subseteq accepted' \cup Pending',
         \A u \in Owed : Ahead(u) => u \in accepted' \cup Pending' \/ Ahead(u)'
  PROVE  NoLossInCurrent'
<1> SUFFICES ASSUME NEW u \in Owed, u[1] >= oStat.file
             PROVE  u \in accepted' \/ u \in Pending' \/ Ahead(u)'
    BY OwedSame DEF NoLossInCurrent
<1>1. u \in accepted \/ u \in Pending \/ Ahead(u)
      BY DEF NoLossInCurrent
<1> QED
    BY <1>1

(* What a piece takes lies just ahead of the thread.                       *)
LEMMA PieceTaken ==
  ASSUME TypeInv,
         NEW f \in File, NEW lo \in Offset, NEW e \in Offset,
         messages' = Append(messages, [file |-> f, lo |-> lo, hi |-> e])
  PROVE  LET m == [file |-> f, lo |-> lo, hi |-> e] IN
         /\ Pending' = Pending \cup Units(m)
         /\ \A u \in Units(m) :
              /\ u = <<u[1], u[2]>> /\ u[1] = f
              /\ u[2] \in Nat /\ lo <= u[2] /\ u[2] < e
         /\ \A n \in Nat : lo <= n /\ n < e => <<f, n>> \in Units(m)
<1> DEFINE m == [file |-> f, lo |-> lo, hi |-> e]
<1>0. lo \in Nat /\ e \in Nat
      BY Bounds
<1>1. m \in Message
      BY MessageType
<1>2. Pending' = Pending \cup Units(m)
      BY <1>1, BatchAppend DEF Pending, TypeInv, TypeOK
<1>3. Units(m) = {f} \X (lo .. e - 1)
      BY DEF Units
<1>4. ASSUME NEW u \in Units(m)
      PROVE  /\ u = <<u[1], u[2]>> /\ u[1] = f
             /\ u[2] \in Nat /\ lo <= u[2] /\ u[2] < e
  <2>1. u = <<u[1], u[2]>> /\ u[1] = f /\ u[2] \in lo .. e - 1
        BY <1>3
  <2>2. u[2] \in Nat /\ lo <= u[2] /\ u[2] < e
        BY <1>0, <2>1
  <2> QED
      BY <2>1, <2>2
<1>5. ASSUME NEW n \in Nat, lo <= n, n < e
      PROVE  <<f, n>> \in Units(m)
  <2>1. n \in lo .. e - 1
        BY <1>0, <1>5
  <2> QED
      BY <1>3, <2>1
<1> QED
    BY <1>2, <1>4, <1>5

LEMMA NoLossStep ==
  ASSUME TypeInv, TypeInv', Where, NoLossInCurrent, Kinds
  PROVE  NoLossInCurrent'
<1>1. CASE Grows
  <2>1. /\ UNCHANGED <<pc, oStat, position, backlog, messages, start, accepted>>
        /\ ReadUpTo' = ReadUpTo /\ Pending' = Pending
        BY <1>1 DEF Grows, ReadUpTo, Pending, history
  <2> SUFFICES ASSUME NEW u \in Owed', u[1] >= oStat.file
               PROVE  u \in accepted \/ u \in Pending \/ Ahead(u)
      BY <2>1 DEF NoLossInCurrent, Ahead, Precedes
  <2>2. CASE u \in Owed
        BY <2>2 DEF NoLossInCurrent
  <2>3. CASE u \notin Owed
    <3>1. /\ u \in File \X Offset /\ u[1] \in File /\ u[2] \in Nat
          /\ u[1] \in Nat
          /\ start.file # NoFile /\ ~Precedes(u, <<start.file, start.pos>>)
      <4>1. /\ u \in File \X Offset /\ start.file # NoFile
            /\ ~Precedes(u, <<start.file, start.pos>>)
            BY <2>1 DEF Owed, Precedes
      <4>2. u[1] \in File /\ u[2] \in Offset
            BY <4>1
      <4> QED
          BY <4>1, <4>2, Bounds
    <3>2. ~(u[2] < size[u[1]])
          BY <2>3, <3>1 DEF Owed
    <3>3. size[u[1]] \in Nat /\ oStat.file \in Int /\ ReadUpTo \in Nat
          BY <3>1, Numbers
    <3>4. u[1] = oStat.file => ~(u[2] < ReadUpTo)
      <4>1. CASE Outside
        <5>1. ReadUpTo = 0
              BY <4>1 DEF Outside, ReadUpTo, InBackup
        <5> QED
            BY <3>1, <5>1
      <4>2. CASE Inside /\ Aligned
        <5>1. ReadUpTo <= size[oStat.file]
              BY <4>2, AlignedReading
        <5> QED
            BY <3>1, <3>2, <3>3, <5>1
      <4>3. CASE Inside /\ ~Aligned
        <5>1. ~(u[1] < start.file) /\ ~(start.file <= oStat.file)
              BY <3>1, <4>3 DEF Precedes, Aligned
        <5>2. start.file \in File \cup {NoFile}
              BY DEF TypeInv, TypeOK, Place
        <5>3. start.file \in Nat
              BY <5>2, Bounds
        <5> QED
            BY <3>1, <3>3, <5>1, <5>3
      <4> QED
          BY <4>1, <4>2, <4>3 DEF Where
    <3>5. ~(u[1] < oStat.file)
          BY <3>1, <3>3
    <3> QED
        BY <3>4, <3>5, AheadMeans
  <2> QED
      BY <2>2, <2>3
<1>2. CASE Reads
  <2>1. PICK f \in File, lo \in Offset, e \in Offset :
           /\ Standing = <<f, lo>> /\ ReadUpTo = lo
           /\ Standing' = <<f, e>> /\ ReadUpTo' = e
           /\ lo <= e
           /\ messages' = Append(messages, [file |-> f, lo |-> lo, hi |-> e])
        BY <1>2 DEF Reads
  <2>2. /\ Inside /\ UNCHANGED <<size, start, accepted>>
        /\ oStat'.file = oStat.file /\ (Aligned => oStat.file = f)
        BY <1>2, <2>1 DEF Reads, files, history
  <2> DEFINE m == [file |-> f, lo |-> lo, hi |-> e]
  <2>3. /\ Pending' = Pending \cup Units(m)
        /\ \A n \in Nat : lo <= n /\ n < e => <<f, n>> \in Units(m)
        BY <2>1, PieceTaken
  <2>4. ASSUME NEW u \in Owed, Ahead(u)
        PROVE  u \in Units(m) \/ Ahead(u)'
    <3>1. u = <<u[1], u[2]>> /\ u[1] \in Nat /\ u[2] \in Nat
          BY OwedType
    <3>2. ~(u[1] < oStat.file) /\ (u[1] = oStat.file => ~(u[2] < lo))
          BY <2>1, <2>4, AheadMeans
    <3>3. CASE u[1] = oStat.file /\ u[2] < e
      <4>1. Aligned
        <5>1. oStat.file \in Int
              BY Numbers
        <5>2. ~Aligned => oStat.file < u[1]
              BY <2>2, AstrayOwes
        <5> QED
            BY <3>1, <3>3, <5>1, <5>2
      <4>2. lo \in Nat
            BY Bounds
      <4>3. lo <= u[2]
            BY <3>1, <3>2, <3>3, <4>2
      <4>4. u[1] = f
            BY <2>2, <3>3, <4>1
      <4> QED
          BY <2>3, <3>1, <3>3, <4>3, <4>4
    <3>4. CASE ~(u[1] = oStat.file /\ u[2] < e)
          BY <2>1, <2>2, <3>2, <3>4 DEF Ahead, Precedes
    <3> QED
        BY <3>3, <3>4
  <2> QED
      BY <2>2, <2>3, <2>4, NoLossStays
<1>3. CASE Sends
  <2>1. /\ UNCHANGED <<size, start, oStat>> /\ ReadUpTo' = ReadUpTo
        /\ accepted \cup Pending \subseteq accepted' \cup Pending'
        BY <1>3 DEF Sends, files, Pending
  <2>2. \A u : Ahead(u) => Ahead(u)'
        BY <2>1 DEF Ahead, Precedes
  <2> QED
      BY <2>1, <2>2, NoLossStays
<1>4. CASE Advances
      BY <1>4, FreshReadingThen DEF Advances
<1>5. CASE Begins
  <2>1. /\ UNCHANGED <<size, oStat>> /\ path = newest /\ path \in File
        /\ position' \in Nat /\ ReadUpTo' = position'
        /\ start'.file = path /\ start'.pos = position'
        BY <1>5 DEF Begins, files
  <2> SUFFICES ASSUME NEW u \in Owed', u[1] >= oStat.file
               PROVE  Ahead(u)'
      BY <2>1 DEF NoLossInCurrent
  <2>2. u[1] \in Nat /\ u[2] \in Nat /\ oStat.file \in Int /\ path \in Nat
    <3>1. u \in File \X Offset
          BY DEF Owed
    <3>2. u[1] \in File /\ u[2] \in Offset
          BY <3>1
    <3>3. oStat.file \in Int
          BY Numbers
    <3> QED
        BY <2>1, <3>2, <3>3, Bounds
  <2>3. ~(u[1] < path) /\ (u[1] = path => ~(u[2] < position'))
        BY <2>1 DEF Owed, Precedes
  <2>4. oStat.file <= path
        BY <2>1 DEF Where, MemoryInv
  <2>5. ~(u[1] < oStat.file) /\ (u[1] = oStat.file => ~(u[2] < position'))
        BY <2>2, <2>3, <2>4
  <2> QED
      BY <2>1, <2>5 DEF Ahead, Precedes
<1>6. CASE Rests
  <2>1. CASE Outside'
        BY <2>1, OutsideFreeThen
  <2>2. CASE oStat'.file = oStat.file /\ ReadUpTo' = ReadUpTo
    <3>1. UNCHANGED <<size, start, accepted, messages>>
          BY <1>6 DEF Rests, files, history
    <3>2. accepted' \cup Pending' = accepted \cup Pending
          BY <3>1 DEF Pending
    <3>3. \A u : Ahead(u) => Ahead(u)'
          BY <2>2 DEF Ahead, Precedes
    <3> QED
        BY <2>2, <3>1, <3>2, <3>3, NoLossStays
  <2> QED
      BY <1>6, <2>1, <2>2 DEF Rests
<1> QED
    BY <1>1, <1>2, <1>3, <1>4, <1>5, <1>6 DEF Kinds

LEMMA TakenType ==
  ASSUME TypeInv, NEW u \in accepted \cup Pending
  PROVE  u = <<u[1], u[2]>> /\ u[1] \in Nat /\ u[2] \in Nat
<1>1. u \in File \X Offset
      BY PendingType DEF TypeInv, TypeOK
<1>2. u = <<u[1], u[2]>> /\ u[1] \in File /\ u[2] \in Offset
      BY <1>1
<1> QED
    BY <1>2, Bounds

LEMMA TakenStep ==
  ASSUME TypeInv, Where, TakenBehind, Kinds, UNCHANGED recovery
  PROVE  TakenBehind'
<1>0. sentBefore' = sentBefore
      BY DEF recovery
<1>1. CASE Grows
      BY <1>0, <1>1 DEF Grows, TakenBehind, Pending, Standing, Precedes, history
<1>2. CASE Reads
  <2>1. PICK f \in File, lo \in Offset, e \in Offset :
           /\ Standing = <<f, lo>>
           /\ Standing' = <<f, e>>
           /\ lo <= e
           /\ messages' = Append(messages, [file |-> f, lo |-> lo, hi |-> e])
        BY <1>2 DEF Reads
  <2> DEFINE m == [file |-> f, lo |-> lo, hi |-> e]
  <2>2. /\ Pending' = Pending \cup Units(m)
        /\ \A u \in Units(m) : u[1] = f /\ u[2] < e
        BY <2>1, PieceTaken
  <2>3. accepted' = accepted
        BY <1>2 DEF Reads, history
  <2>4. ASSUME NEW u \in accepted \cup Pending, u \notin sentBefore
        PROVE  Precedes(u, <<f, e>>)
    <3>1. Precedes(u, <<f, lo>>)
          BY <2>1, <2>4 DEF TakenBehind
    <3>2. u[2] \in Nat /\ lo \in Nat /\ e \in Nat
          BY <2>4, TakenType, Bounds
    <3>3. u[2] < lo => u[2] < e
          BY <2>1, <3>2
    <3> QED
        BY <3>1, <3>3 DEF Precedes
  <2>5. ASSUME NEW u \in Units(m)
        PROVE  Precedes(u, <<f, e>>)
        BY <2>2, <2>5 DEF Precedes
  <2>6. \A u \in (accepted' \cup Pending') \ sentBefore' : Precedes(u, <<f, e>>)
        BY <1>0, <2>2, <2>3, <2>4, <2>5
  <2> QED
      BY <2>1, <2>6 DEF TakenBehind, Precedes
<1>3. CASE Sends
  <2>1. accepted' \cup Pending' = accepted \cup Pending
    <3>1. CASE accepted' = accepted \cup Pending /\ messages' = <<>>
          BY <3>1, BatchEmpty DEF Pending
    <3>2. CASE accepted' = accepted \cup Pending /\ messages' = messages
          BY <3>2 DEF Pending
    <3>3. CASE UNCHANGED <<accepted, messages>>
          BY <3>3 DEF Pending
    <3> QED
        BY <1>3, <3>1, <3>2, <3>3 DEF Sends
  <2>2. Standing' = Standing
        BY <1>3 DEF Sends
  <2> QED
      BY <1>0, <2>1, <2>2 DEF TakenBehind, Precedes
<1>4. CASE Advances
  <2>1. /\ accepted' = accepted /\ Pending' = Pending
        /\ Standing[1] \in Int /\ Standing'[1] \in Int
        /\ Standing[1] < Standing'[1]
        BY <1>4 DEF Advances, Pending, history
  <2>2. ASSUME NEW u \in accepted \cup Pending, u \notin sentBefore
        PROVE  u[1] < Standing'[1]
    <3>1. u[1] < Standing[1] \/ u[1] = Standing[1]
          BY <2>2 DEF TakenBehind, Precedes
    <3>2. u[1] \in Nat
          BY <2>2, TakenType
    <3> QED
        BY <2>1, <3>1, <3>2
  <2> QED
      BY <1>0, <2>1, <2>2 DEF TakenBehind, Precedes
<1>5. CASE Begins
      BY <1>5, UntouchedBehindThen DEF Begins
<1>6. CASE Rests
  <2>1. CASE Outside'
        BY <2>1, UntouchedBehindThen DEF Outside
  <2>2. CASE Untouched
    <3>1. Untouched'
          BY <1>0, <1>6, <2>2 DEF Rests, Untouched, history
    <3> QED
        BY <3>1, UntouchedBehindThen
  <2>3. CASE Standing' = Standing
    <3>1. accepted' = accepted /\ Pending' = Pending
          BY <1>6 DEF Rests, Pending, history
    <3> QED
        BY <1>0, <2>3, <3>1 DEF TakenBehind, Precedes
  <2> QED
      BY <1>6, <2>1, <2>2, <2>3 DEF Rests
<1> QED
    BY <1>1, <1>2, <1>3, <1>4, <1>5, <1>6 DEF Kinds

(* A place that nothing is owed before any more, or that everything owed   *)
(* before it is taken, stays one.                                          *)
LEMMA CheckpointKept ==
  ASSUME TypeInv, newest' \in Int, CheckpointInv, UNCHANGED checkpoint,
         newest <= newest',
         \A f \in File : /\ size[f] <= size'[f]
                         /\ size[f] \in Int /\ size'[f] \in Int,
         accepted \cup Pending \cup queuedBefore
           \subseteq accepted' \cup Pending' \cup queuedBefore',
         \A u \in Owed' : u[1] = checkpoint.file /\ u[2] < checkpoint.pos
           => u \in Owed
  PROVE  CheckpointInv'
<1>1. checkpoint.file \in File \cup {NoFile} /\ checkpoint.pos \in Nat
  <2>1. checkpoint.file \in File \cup {NoFile} /\ checkpoint.pos \in Offset
        BY DEF TypeInv, TypeOK, Place
  <2> QED
      BY <2>1, Bounds
<1>2. checkpoint.file <= newest'
  <2>1. checkpoint.file <= newest /\ checkpoint.file \in Int /\ newest \in Int
        BY <1>1, Numbers, Bounds DEF CheckpointInv
  <2> QED
      BY <2>1
<1>3. ASSUME checkpoint.file # NoFile
      PROVE  checkpoint.pos <= size'[checkpoint.file]
  <2>1. checkpoint.file \in File
        BY <1>1, <1>3
  <2>2. checkpoint.pos <= size[checkpoint.file]
        BY <1>3 DEF CheckpointInv
  <2> QED
      BY <1>1, <2>1, <2>2
<1>4. ASSUME NEW u \in Owed', u[1] = checkpoint.file, u[2] < checkpoint.pos
      PROVE  u \in accepted' \cup Pending' \cup queuedBefore'
  <2>1. u \in Owed
        BY <1>4
  <2>2. u \in accepted \cup Pending \cup queuedBefore
        BY <1>4, <2>1 DEF CheckpointInv
  <2> QED
      BY <2>2
<1> QED
    BY <1>2, <1>3, <1>4 DEF CheckpointInv

LEMMA SizesType ==
  TypeInv => newest \in Int /\ \A f \in File : size[f] \in Int /\ size[f] <= size[f]
<1> SUFFICES ASSUME TypeInv
             PROVE  newest \in Int /\ \A f \in File : size[f] \in Int /\ size[f] <= size[f]
    OBVIOUS
<1>1. newest \in Int /\ \A f \in File : size[f] \in Nat
      BY Numbers
<1> QED
    BY <1>1

LEMMA SizesTypeThen ==
  (TypeInv => newest \in Int /\ \A f \in File : size[f] \in Int /\ size[f] <= size[f])'
  BY SizesType, PTL

(* A step that leaves the files, the start and the checkpoint.             *)
LEMMA CheckpointStays ==
  ASSUME TypeInv, TypeInv', CheckpointInv, UNCHANGED <<files, start, checkpoint>>,
         accepted \cup Pending \cup queuedBefore
           \subseteq accepted' \cup Pending' \cup queuedBefore'
  PROVE  CheckpointInv'
<1>1. /\ newest' \in Int /\ newest <= newest'
      /\ \A f \in File : /\ size[f] <= size'[f]
                         /\ size[f] \in Int /\ size'[f] \in Int
  <2>1. newest \in Int /\ \A f \in File : size[f] \in Int /\ size[f] <= size[f]
        BY SizesType
  <2>2. newest' = newest /\ size' = size
        BY DEF files
  <2> QED
      BY <2>1, <2>2
<1>2. Owed' = Owed
      BY OwedSame DEF files
<1> QED
    BY <1>1, <1>2, CheckpointKept

LEMMA CheckpointStep ==
  ASSUME TypeInv, TypeInv', Where, NoLossInCurrent, CheckpointInv, Kinds,
         UNCHANGED recovery
  PROVE  CheckpointInv'
<1>0. queuedBefore' = queuedBefore
      BY DEF recovery
<1>1. CASE Grows
  <2>1. /\ newest \in Int /\ newest' \in Int /\ newest <= newest'
        /\ \A f \in File : /\ size[f] <= size'[f]
                           /\ size[f] \in Int /\ size'[f] \in Int
        BY <1>1, SizesType, SizesTypeThen DEF Grows
  <2>2. UNCHANGED <<start, checkpoint, accepted>> /\ Pending' = Pending
        BY <1>1 DEF Grows, Pending, history
  <2>3. ASSUME NEW u \in Owed', u[1] = checkpoint.file, u[2] < checkpoint.pos
        PROVE  u \in Owed
    <3>1. /\ u \in File \X Offset /\ start.file # NoFile
          /\ ~Precedes(u, <<start.file, start.pos>>)
          BY <2>2 DEF Owed, Precedes
    <3>2. u[1] \in File /\ u[2] \in Nat
      <4>1. u[1] \in File /\ u[2] \in Offset
            BY <3>1
      <4> QED
          BY <4>1, Bounds
    <3>3. checkpoint.pos <= size[u[1]]
          BY <2>3, <3>2, Bounds DEF CheckpointInv
    <3>4. checkpoint.pos \in Nat
      <4>1. checkpoint.pos \in Offset
            BY DEF TypeInv, TypeOK, Place
      <4> QED
          BY <4>1, Bounds
    <3>5. u[2] < size[u[1]]
          BY <2>1, <2>3, <3>2, <3>3, <3>4
    <3> QED
        BY <3>1, <3>5 DEF Owed
  <2> QED
      BY <1>0, <2>1, <2>2, <2>3, CheckpointKept
<1>2. CASE Reads
  <2>1. PICK f \in File, lo \in Offset, e \in Offset :
           messages' = Append(messages, [file |-> f, lo |-> lo, hi |-> e])
        BY <1>2 DEF Reads
  <2>2. Pending \subseteq Pending'
        BY <2>1, PieceTaken
  <2>3. UNCHANGED <<files, start, accepted, checkpoint>>
        BY <1>2 DEF Reads, history
  <2> QED
      BY <1>0, <2>2, <2>3, CheckpointStays
<1>3. CASE Sends
  <2>1. accepted \cup Pending \subseteq accepted' \cup Pending'
        BY <1>3 DEF Sends, Pending
  <2>2. UNCHANGED <<files, start, checkpoint>>
        BY <1>3 DEF Sends
  <2> QED
      BY <1>0, <2>1, <2>2, CheckpointStays
<1>4. CASE Advances
  <2>1. UNCHANGED <<files, start, accepted, checkpoint>> /\ Pending' = Pending
        BY <1>4 DEF Advances, Pending, history
  <2> QED
      BY <1>0, <2>1, CheckpointStays
<1>5. CASE Begins
  <2>1. /\ UNCHANGED <<files, checkpoint, accepted>> /\ Pending' = Pending
        /\ path = newest /\ path \in File /\ position' \in Nat
        /\ start'.file = path /\ start'.pos = position'
        /\ checkpoint.file # NoFile /\ checkpoint.pos <= size[path]
             => checkpoint.pos <= position'
        BY <1>5 DEF Begins, Pending
  <2>2. /\ newest' \in Int /\ newest <= newest'
        /\ \A f \in File : /\ size[f] <= size'[f]
                           /\ size[f] \in Int /\ size'[f] \in Int
    <3>1. newest \in Int /\ \A f \in File : size[f] \in Int /\ size[f] <= size[f]
          BY SizesType
    <3>2. newest' = newest /\ size' = size
          BY <2>1 DEF files
    <3> QED
        BY <3>1, <3>2
  <2>3. ASSUME NEW u \in Owed', u[1] = checkpoint.file, u[2] < checkpoint.pos
        PROVE  FALSE
    <3>1. /\ u \in File \X Offset
          /\ ~(u[1] < path) /\ (u[1] = path => ~(u[2] < position'))
          BY <2>1 DEF Owed, Precedes
    <3>2. u[1] \in Nat /\ u[2] \in Nat /\ u[1] # NoFile /\ path \in Nat
      <4>1. u[1] \in File /\ u[2] \in Offset
            BY <3>1
      <4> QED
          BY <2>1, <4>1, Bounds
    <3>3. checkpoint.file <= path
          BY <2>1 DEF CheckpointInv
    <3>4. u[1] = path
          BY <2>3, <3>1, <3>2, <3>3
    <3>5. checkpoint.pos <= size[path]
          BY <2>3, <3>2, <3>4 DEF CheckpointInv
    <3>6. checkpoint.pos <= position'
          BY <2>1, <2>3, <3>2, <3>5
    <3>7. checkpoint.pos \in Nat
      <4>1. checkpoint.pos \in Offset
            BY DEF TypeInv, TypeOK, Place
      <4> QED
          BY <4>1, Bounds
    <3> QED
        BY <2>1, <2>3, <3>1, <3>2, <3>4, <3>6, <3>7
  <2> QED
      BY <1>0, <2>1, <2>2, <2>3, CheckpointKept
<1>6. CASE Rests
  <2>1. UNCHANGED <<files, start, accepted>> /\ Pending' = Pending
        BY <1>6 DEF Rests, Pending, history
  <2>2. CASE UNCHANGED checkpoint
        BY <1>0, <2>1, <2>2, CheckpointStays
  <2>3. CASE checkpoint' = NoPlace
    <3>1. checkpoint'.file = NoFile
          BY <2>3 DEF NoPlace
    <3>2. NoFile <= newest'
          BY Bounds DEF TypeInv, TypeOK
    <3>3. ASSUME NEW u \in Owed' PROVE u[1] # NoFile
      <4>1. u \in File \X Offset
            BY DEF Owed
      <4>2. u[1] \in File
            BY <4>1
      <4> QED
          BY <4>2, Bounds
    <3> QED
        BY <3>1, <3>2, <3>3 DEF CheckpointInv
  <2>4. CASE /\ pc = "checkpoint"
             /\ checkpoint' = [file |-> oStat.file, pos |-> position]
    <3>1. Inside /\ Aligned /\ OnTrack
      <4>1. Inside
            BY <2>4, Within
      <4> QED
          BY <2>4, <4>1 DEF Inside, Astray, InBackup
    <3>2. ReadUpTo = position
          BY <2>4 DEF ReadUpTo, InBackup
    <3>3. checkpoint'.file = oStat.file /\ checkpoint'.pos = position
          BY <2>4
    <3>4. UNCHANGED <<size, newest>>
          BY <2>1 DEF files
    <3>5. oStat.file <= newest /\ position <= size[oStat.file]
          BY <3>1 DEF Where, MemoryInv, OnTrack
    <3>6. ASSUME NEW u \in Owed', u[1] = oStat.file, u[2] < position
          PROVE  u \in accepted \cup Pending
      <4>1. u \in Owed /\ u[1] >= oStat.file
        <5>1. u \in Owed
              BY <2>1, <3>4, OwedSame
        <5>2. u[1] \in Nat
              BY <5>1, OwedType
        <5> QED
            BY <3>6, <5>1, <5>2
      <4>2. ~Ahead(u)
            BY <3>2, <3>6, AheadMeans
      <4> QED
          BY <4>1, <4>2 DEF NoLossInCurrent
    <3> QED
        BY <2>1, <3>3, <3>4, <3>5, <3>6 DEF CheckpointInv
  <2> QED
      BY <1>6, <2>2, <2>3, <2>4 DEF Rests
<1> QED
    BY <1>1, <1>2, <1>3, <1>4, <1>5, <1>6 DEF Kinds

(* A kill: what was queued is remembered as that.                          *)
LEMMA DataCrash ==
  ASSUME TypeInv, TypeInv', Where, CheckpointInv, Crash
  PROVE  NoLossInCurrent' /\ TakenBehind' /\ CheckpointInv'
<1>1. NoLossInCurrent' /\ TakenBehind'
      BY WhereCrash, OutsideFreeThen
<1>2. CheckpointInv'
  <2>1. /\ UNCHANGED <<files, start, checkpoint>>
        /\ accepted \subseteq accepted' /\ queuedBefore' = queuedBefore \cup Pending
        BY DEF Crash
  <2> QED
      BY <2>1, CheckpointStays
<1> QED
    BY <1>1, <1>2
-----------------------------------------------------------------------------
Restarting ==
  RTypes /\ Where /\ NoLossInCurrent /\ TakenBehind /\ CheckpointInv

LEMMA RestartingBegins == RInit => Restarting
<1> SUFFICES ASSUME RInit PROVE Restarting
    OBVIOUS
<1>1. RTypes /\ TypeInv /\ Where
      BY RTypeInit, InitWhere DEF RTypes
<1>2. NoLossInCurrent /\ TakenBehind
  <2>1. Outside
        BY <1>1, Within DEF RInit, Init
  <2> QED
      BY <1>1, <2>1, OutsideFree
<1>3. CheckpointInv
  <2>1. /\ checkpoint = NoPlace \/ checkpoint.file = 1
        /\ checkpoint.pos <= size[1] /\ newest = 1 /\ start.file = NoFile
        BY DEF RInit, Init, NoPlace
  <2>2. Owed = {}
        BY <2>1, NothingOwed
  <2> QED
      BY <2>1, <2>2 DEF CheckpointInv, NoPlace
<1> QED
    BY <1>1, <1>2, <1>3 DEF Restarting

LEMMA RestartingStays == Traceable /\ Restarting /\ [RNext]_rvars => Restarting'
<1> SUFFICES ASSUME Traceable, Restarting, [RNext]_rvars PROVE Restarting'
    OBVIOUS
<1>1. RTypes' /\ Where'
      BY RTypeStep, WhereStep DEF Restarting
<1>2. TypeInv /\ TypeInv' /\ Where
      BY <1>1 DEF Restarting, RTypes
<1>3. CASE Crash
      BY <1>1, <1>2, <1>3, DataCrash DEF Restarting
<1>4. CASE Kinds /\ UNCHANGED recovery
      BY <1>1, <1>2, <1>4, NoLossStep, TakenStep, CheckpointStep DEF Restarting
<1> QED
    BY <1>2, <1>3, <1>4, Sorted

LEMMA RestartingAlways == Traceable /\ RSpec => []Restarting
<1> SUFFICES ASSUME Traceable PROVE RSpec => []Restarting
    OBVIOUS
<1>1. Restarting /\ [RNext]_rvars => Restarting'
      BY RestartingStays
<1> QED
    BY <1>1, RestartingBegins, PTL DEF RSpec

(* The invariant that TLC checks holds for every instance and any number   *)
(* of kills: a thread that was started by a checkpoint is in step with the *)
(* files again, or has yet to notice that a rotation overtook its start.   *)
THEOREM RecoveryInvariant == Traceable /\ RSpec => []RecoveryInv
<1>1. Restarting => RecoveryInv
      BY DEF Restarting, RTypes, TypeInv, RTypeOK, Where, RecoveryInv
<1> QED
    BY <1>1, RestartingAlways, PTL

(* The file that the thread follows loses nothing, even where the files    *)
(* before it are lost: to a rotation during the start, a writer that is    *)
(* late, a line that is torn, a backup that is missing, or a kill.         *)
THEOREM CurrentComplete == Traceable /\ RSpec => []NoLossInCurrent
<1>1. RecoveryInv => NoLossInCurrent
      BY DEF RecoveryInv
<1> QED
    BY <1>1, RecoveryInvariant, PTL

(* A restart with -r in the file that the checkpoint is of passes over     *)
(* nothing but what the queue held at a kill: write_checkpoint counts as   *)
(* done what was read, and what was read is stored or queued.              *)
THEOREM RestartLosses == Traceable /\ RSpec => RestartLosesOnlyQueued
<1> SUFFICES ASSUME Traceable PROVE RSpec => RestartLosesOnlyQueued
    OBVIOUS
<1>1. ASSUME Restarting, [RNext]_rvars, Resumes,
             NEW u \in Owed, u[1] = path, Precedes(u, <<path, position'>>)
      PROVE  u \in accepted \cup queuedBefore
  <2>1. u[1] \in Nat /\ u[2] \in Nat
        BY OwedType
  <2>2. u[2] < position'
        BY <1>1, <2>1 DEF Precedes
  <2>3. pc = "firstOpen" /\ crashes > 0 /\ path # NoFile /\ checkpoint.file = path
        BY <1>1 DEF Resumes
  <2>4. Outside /\ position = 0
        BY <1>1, <2>3, Within DEF Restarting, Outside
  <2>5. CASE ThreadStep /\ FirstOpen
    <3>1. position' = Lower(checkpoint.pos, size[path])
          BY <2>3, <2>5 DEF ThreadStep, Reload
    <3>2. /\ path \in File /\ checkpoint.pos \in Nat /\ size[path] \in Nat
      <4>1. path \in File /\ checkpoint.pos \in Offset /\ size[path] \in Offset
            BY <1>1, <2>3 DEF Restarting, RTypes, TypeInv, TypeOK, Place
      <4> QED
          BY <4>1, Bounds
    <3>3. u[2] < checkpoint.pos
          BY <2>1, <2>2, <3>1, <3>2 DEF Lower
    <3>4. u \in accepted \cup Pending \cup queuedBefore
          BY <1>1, <2>3, <3>3 DEF Restarting, CheckpointInv
    <3>5. Pending = {}
          BY <2>4, BatchEmpty DEF Outside, Untouched, Pending
    <3> QED
        BY <3>4, <3>5
  <2>6. CASE ~(ThreadStep /\ FirstOpen)
    <3>1. position' = 0
      <4>1. CASE WorldStep
            BY <2>4, <4>1 DEF WorldStep, World, Write, Rename, Create, Reopen,
                              CopyTruncate, reading
      <4>2. CASE ThreadStep
            BY <2>3, <2>6, <4>2
               DEF ThreadStep, Thread, FirstStat, FirstOpenFails, Open, Stat,
                   BackupEmpty, BackupRead, BackupLine, BackupStray,
                   BackupDone, BackupSendOk, BackupSendFails, BackupReconnect,
                   ReadLine, ReadEnd, WriteCheckpoint, Idle, SendOk, SendFails,
                   Reconnect
      <4>3. CASE Crash
            BY <4>3 DEF Crash
      <4>4. CASE UNCHANGED rvars
            BY <2>4, <4>4 DEF rvars, vars, reading
      <4> QED
          BY <1>1, <4>1, <4>2, <4>3, <4>4 DEF RNext
    <3> QED
        BY <2>1, <2>2, <3>1
  <2> QED
      BY <2>5, <2>6
<1>2. Restarting /\ [RNext]_rvars =>
        [Resumes =>
           \A u \in Owed : u[1] = path /\ Precedes(u, <<path, position'>>)
             => u \in accepted \cup queuedBefore]_rvars
      BY <1>1
<1> QED
    BY <1>2, RestartingAlways, PTL DEF RSpec, RestartLosesOnlyQueued

(* What a thread reads a second time it had sent before the last kill:     *)
(* between kills it is always past what it took.                           *)
THEOREM RereadsExplained == Traceable /\ RSpec => RereadsOnlyAfterCrash
<1> SUFFICES ASSUME Traceable PROVE RSpec => RereadsOnlyAfterCrash
    OBVIOUS
<1>1. ASSUME Restarting, [RNext]_rvars,
             NEW i \in DOMAIN messages' \ DOMAIN messages
      PROVE  Units(messages'[i]) \cap (accepted \cup Pending) \subseteq sentBefore
  <2>0. TypeInv /\ Where /\ messages \in Seq(Message)
        BY <1>1 DEF Restarting, RTypes, TypeInv, TypeOK
  <2>1. Reads
    <3>1. CASE messages' \in {messages, <<>>}
          BY <1>1, <3>1
    <3>2. Crash => messages' = <<>>
          BY DEF Crash
    <3>3. Grows \/ Sends \/ Advances \/ Begins \/ Rests
            => messages' \in {messages, <<>>}
          BY DEF Grows, Sends, Advances, Begins, Rests
    <3> QED
        BY <1>1, <2>0, <3>1, <3>2, <3>3, Sorted DEF Kinds
  <2>2. PICK f \in File, lo \in Offset, e \in Offset :
           /\ Standing = <<f, lo>>
           /\ messages' = Append(messages, [file |-> f, lo |-> lo, hi |-> e])
        BY <2>1 DEF Reads
  <2> DEFINE m == [file |-> f, lo |-> lo, hi |-> e]
  <2>3. messages'[i] = m
        BY <1>1, <2>0, <2>2
  <2>4. ASSUME NEW u \in Units(m), u \in accepted \cup Pending, u \notin sentBefore
        PROVE  FALSE
    <3>1. Precedes(u, <<f, lo>>)
          BY <1>1, <2>2, <2>4 DEF Restarting, TakenBehind
    <3>2. u[1] = f /\ u[2] \in Nat /\ lo <= u[2] /\ f \in Nat /\ lo \in Nat
          BY <2>0, <2>2, PieceTaken, Bounds
    <3> QED
        BY <3>1, <3>2 DEF Precedes
  <2> QED
      BY <2>3, <2>4
<1>2. Restarting /\ [RNext]_rvars =>
        [\A i \in DOMAIN messages' \ DOMAIN messages :
           Units(messages'[i]) \cap (accepted \cup Pending) \subseteq sentBefore]_rvars
      BY <1>1
<1> QED
    BY <1>2, RestartingAlways, PTL DEF RSpec, RereadsOnlyAfterCrash
=============================================================================
