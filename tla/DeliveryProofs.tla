--------------------------- MODULE DeliveryProofs ---------------------------
(***************************************************************************)
(* In calm surroundings the thread is the collector of Delivery: it takes  *)
(* the log up in order, without gaps, and ships all it took.  What the     *)
(* proofs need of a step is only how it moves the place where the thread   *)
(* reads, the queue and the log, so the steps are sorted into six kinds.   *)
(***************************************************************************)
EXTENDS TailerNoLoss

USE DEF File, Offset, NoFile, RestartAt, BackupReadFrom, SaveCheckpoint

CalmOnes == TypeInv /\ Calmly

(* The thread has begun to read. *)
Begun == start.file # NoFile

Stays == oStat'.file = oStat.file /\ ReadUpTo' = ReadUpTo

Piece(e) == [file |-> oStat.file, lo |-> ReadUpTo, hi |-> e]

(* The application writes to the newest file. *)
Grows ==
  /\ UNCHANGED <<start, accepted, messages>>
  /\ Begun => Stays
  /\ \E e \in Offset :
       /\ size[newest] < e
       /\ size' = [size EXCEPT ![newest] = e]

(* A piece of the file is queued, up to a newline or to the end of the     *)
(* file, with no newline within.                                           *)
Reads ==
  /\ Begun
  /\ UNCHANGED <<size, start, accepted>>
  /\ oStat'.file = oStat.file
  /\ \E e \in Offset :
       /\ ReadUpTo <= e
       /\ e <= size[oStat.file]
       /\ messages' = Append(messages, Piece(e))
       /\ ReadUpTo' = e
       /\ e \in Breaks[oStat.file] \/ e = size[oStat.file]
       /\ \A b \in Breaks[oStat.file] : b <= ReadUpTo \/ e <= b

(* The server is sent the queue. *)
Sends ==
  /\ Begun
  /\ UNCHANGED <<size, start>>
  /\ Stays
  /\ \/ /\ accepted' = accepted \cup Pending
        /\ messages' \in {messages, <<>>}
     \/ UNCHANGED <<accepted, messages>>

(* The thread goes over to the new file. *)
Advances ==
  /\ Begun
  /\ UNCHANGED <<size, start, accepted, messages>>
  /\ oStat'.file \in File
  /\ oStat.file < oStat'.file
  /\ ReadUpTo' = 0

(* The thread begins to read. *)
Begins ==
  /\ ~Begun
  /\ UNCHANGED <<size, accepted, messages>>
  /\ oStat'.file \in File
  /\ start' = [file |-> oStat'.file, pos |-> ReadUpTo']

Rests ==
  /\ UNCHANGED <<size, start, accepted, messages>>
  /\ Begun => Stays

Kinds == Grows \/ Reads \/ Sends \/ Advances \/ Begins \/ Rests
-----------------------------------------------------------------------------
LEMMA BegunGoing ==
  ASSUME Calmly
  PROVE  /\ Going => Begun
         /\ Before => ~Begun
         /\ Begun => Going
  BY DEF Calmly, Going, Before, Begun, NoPlace

LEMMA CalmHolds == Calm /\ CalmOnes /\ [Next]_vars => CalmOnes'
  BY TypeStep, CalmStep DEF CalmOnes

LEMMA CalmBegins == Init => CalmOnes
  BY TypeInit, InitCalmly DEF CalmOnes

LEMMA WorldKind == Calm /\ CalmOnes /\ World => Grows \/ Rests
<1> SUFFICES ASSUME Calm, TypeInv, Calmly, World PROVE Grows \/ Rests
    BY DEF CalmOnes
<1>1. CASE Write
  <2>1. PICK e \in size[writer] + 1 .. MaxUnits :
           size' = [size EXCEPT ![writer] = e]
        BY <1>1 DEF Write
  <2>2. writer = newest /\ newest \in File /\ size \in [File -> Offset]
        BY DEF Calmly, FilesInv, TypeInv, TypeOK
  <2>3. size[newest] \in Offset
        BY <2>2
  <2>4. e \in Offset /\ size[newest] < e
        BY <2>1, <2>2, <2>3, Bounds
  <2>5. UNCHANGED <<pc, reading, messages, history>>
        BY <1>1 DEF Write
  <2> QED
      BY <2>1, <2>2, <2>4, <2>5 DEF Grows, Stays, ReadUpTo, reading, history
<1>2. CASE Rename \/ Create
      BY <1>2 DEF Rename, Create, Rests, Stays, ReadUpTo, reading, history
<1>3. CASE Reopen
      BY <1>3 DEF Reopen, Calmly, FilesInv
<1>4. CASE CopyTruncate
      BY <1>4 DEF CopyTruncate, Rests, Stays, ReadUpTo, history
<1> QED
    BY <1>1, <1>2, <1>3, <1>4 DEF World

LEMMA FirstKind ==
  ASSUME Calm, TypeInv, Calmly, FirstStat \/ FirstOpen \/ FirstOpenFails
  PROVE  Begins \/ Rests
<1>1. Before /\ ~Begun
  <2>1. Before
        BY DEF Calmly, Going, Starting, FirstStat, FirstOpen, FirstOpenFails
  <2> QED
      BY <2>1, BegunGoing
<1>2. CASE FirstStat \/ FirstOpenFails
      BY <1>1, <1>2
         DEF FirstStat, FirstOpenFails, Rests, files, history
<1>3. CASE FirstOpen
  <2>1. /\ UNCHANGED <<files, oStat, messages, accepted>> /\ pc' = "open"
        /\ start' = [file |-> path, pos |-> position']
        BY <1>3 DEF FirstOpen
  <2>2. oStat.file = path /\ path \in File
        BY <1>1, <1>3, NumFilesPositive DEF Before, FirstOpen
  <2> QED
      BY <1>1, <2>1, <2>2 DEF Begins, ReadUpTo, InBackup, files
<1> QED
    BY <1>2, <1>3

(* A stat takes the new file for the old one never, and the old one for    *)
(* itself always: the remembered file stays.                               *)
LEMMA StatKeepsFile ==
  ASSUME Calm, TypeInv, Calmly, Stat
  PROVE  oStat'.file = oStat.file
<1> DEFINE n == IF path = NoFile THEN nStat ELSE StatOf(path)
<1>1. pc = "stat" /\ oStat' = IF Rotated(n) THEN oStat ELSE n
      BY DEF Stat
<1>2. Going /\ nStat = oStat /\ path \in {NoFile, newest}
      BY <1>1 DEF Calmly, Before, Going, NoticeInv, InBackup, FilesInv
<1>3. CASE path = NoFile
      BY <1>1, <1>2, <1>3
<1>4. CASE path = newest /\ path # NoFile /\ oStat.file = newest
      BY <1>1, <1>4 DEF StatOf
<1>5. CASE path = newest /\ path # NoFile /\ oStat.file = newest - 1
  <2>1. inode[newest] = inode[oStat.file] => size[newest] < oStat.size
        BY <1>1, <1>2, <1>5 DEF Going, NoticeInv, InBackup
  <2>2. oStat.file # NoFile
        BY <1>2 DEF Going, BehindInv
  <2>3. Rotated(n)
        BY <1>5, <2>1, <2>2 DEF Rotated, Ino, StatOf
  <2> QED
      BY <1>1, <2>3
<1> QED
    BY <1>2, <1>3, <1>4, <1>5 DEF Going, BehindInv

LEMMA OpenStatKind ==
  ASSUME Calm, TypeInv, Calmly, Open \/ Stat
  PROVE  Rests
<1>1. CASE Open
      BY <1>1 DEF Open, Rests, Stays, ReadUpTo, InBackup, files, history
<1>2. CASE Stat
  <2>1. /\ UNCHANGED <<files, position, backlog, messages, history>>
        /\ pc = "stat" /\ pc' \in {"backup", "read"}
        BY <1>2 DEF Stat
  <2> QED
      BY <1>2, <2>1, StatKeepsFile
         DEF Rests, Stays, ReadUpTo, InBackup, files, history
<1> QED
    BY <1>1, <1>2

LEMMA BackupKind ==
  ASSUME Calm, TypeInv, Calmly,
         BackupEmpty \/ BackupRead \/ BackupLine \/ BackupStray \/ BackupDone
  PROVE  Reads \/ Advances \/ Rests
<1>1. Going /\ Begun /\ pc \in {"backup"} \cup InBackup
  <2>1. /\ pc \in {"backup"} \cup InBackup
        /\ pc \notin {"firstStat", "firstOpen"}
        BY DEF BackupEmpty, BackupRead, BackupLine, BackupStray,
               BackupDone, InBackup
  <2> QED
      BY <2>1, BegunGoing DEF Calmly, Before
<1>2. /\ oStat.file = newest - 1 /\ nStat.file = newest
      /\ oStat.file \in File
      BY <1>1 DEF Going, NoticeInv, BehindInv, TypeInv, TypeOK
<1>3. CASE BackupEmpty \/ BackupDone
  <2>1. /\ UNCHANGED <<files, messages, history>>
        /\ position' = 0 /\ oStat' = nStat /\ pc' = "read"
        BY <1>3 DEF BackupEmpty, BackupDone, Restart
  <2>2. oStat.file < oStat'.file /\ oStat'.file \in File
    <3>1. newest \in File /\ newest \in Int
          BY Numbers DEF TypeInv, TypeOK
    <3> QED
        BY <1>2, <2>1, <3>1
  <2> QED
      BY <1>1, <2>1, <2>2 DEF Advances, ReadUpTo, InBackup, files, history
<1>4. CASE BackupRead
  <2>1. /\ UNCHANGED <<files, oStat, messages, history>>
        /\ pc = "backup" /\ pc' = "backupLine" /\ backlog'.lo = position
        BY <1>4 DEF BackupRead
  <2> QED
      BY <2>1 DEF Rests, Stays, ReadUpTo, InBackup, files, history
<1>5. CASE BackupLine \/ BackupStray
  <2>1. /\ ReadUpTo = backlog.lo /\ backlog.file = oStat.file
        /\ backlog.hi = size[oStat.file] /\ backlog.lo <= backlog.hi
        /\ pc = "backupLine"
        BY <1>1, <1>5
           DEF BackupLine, BackupStray, ReadUpTo, InBackup, Going, BacklogInv
  <2>2. /\ backlog \in [file : File \cup {NoFile}, lo : Offset, hi : Offset,
                        tail : BOOLEAN]
        /\ backlog.lo \in Offset /\ backlog.hi \in Offset
        BY DEF TypeInv, TypeOK
  <2>3. PICK e \in Offset :
           /\ PushBacklog(e)
           /\ backlog'.lo = e
           /\ backlog.lo <= e
           /\ e <= backlog.hi
           /\ e \in Breaks[oStat.file] \/ e = size[oStat.file]
           /\ \A b \in Breaks[oStat.file] : b <= ReadUpTo \/ e <= b
    <3>1. CASE BackupLine
      <4>1. PICK e \in BackupLines :
              PushBacklog(e) /\ backlog' = [backlog EXCEPT !.lo = e]
            BY <3>1 DEF BackupLine
      <4>2. e \in LineEnds(oStat.file, backlog.lo, backlog.hi)
            BY <2>1, <4>1 DEF BackupLines
      <4>3. /\ e \in Breaks[oStat.file] \/ e = size[oStat.file]
            /\ \A b \in Breaks[oStat.file] : b <= ReadUpTo \/ e <= b
            BY <1>2, <2>1, <2>2, <4>2, LineEndsMeans
      <4>4. e \in Offset /\ backlog.lo < e /\ e <= backlog.hi
            BY <1>2, <2>2, <4>2, LineEndsType
      <4>5. backlog.lo <= e
            BY <2>2, <4>4
      <4>6. backlog'.lo = e
            BY <2>2, <4>1
      <4> QED
          BY <4>1, <4>3, <4>4, <4>5, <4>6
    <3>2. CASE BackupStray
      <4>1. /\ BackupLines = {} /\ PushBacklog(backlog.hi)
            /\ backlog' = [backlog EXCEPT !.lo = backlog.hi, !.tail = FALSE]
            BY <3>2 DEF BackupStray
      <4>2. backlog'.lo = backlog.hi
            BY <2>2, <4>1
      <4>3. \A b \in Breaks[oStat.file] : b <= backlog.lo \/ backlog.hi < b
            BY <1>2, <2>1, <2>2, <4>1, NoLineLeft DEF BackupLines
      <4>4. ASSUME NEW b \in Breaks[oStat.file]
            PROVE  b <= ReadUpTo \/ backlog.hi <= b
        <5>1. b \in Int /\ backlog.hi \in Int
              BY <1>2, <2>2, Bounds
        <5> QED
            BY <2>1, <4>3, <5>1
      <4>5. backlog.hi <= backlog.hi
            BY Numbers
      <4> QED
          BY <2>1, <2>2, <4>1, <4>2, <4>4, <4>5
    <3> QED
        BY <1>5, <3>1, <3>2
  <2>4. /\ UNCHANGED <<files, oStat, history>>
        /\ messages' = Append(messages, Piece(e))
        /\ pc' \in {"backupSend", "backupLine"}
        BY <2>1, <2>3 DEF PushBacklog, Piece
  <2>5. ReadUpTo' = e
        BY <2>3, <2>4 DEF ReadUpTo, InBackup
  <2>6. UNCHANGED <<size, start, accepted>> /\ oStat'.file = oStat.file
        BY <2>4 DEF files, history
  <2> QED
      BY <1>1, <2>1, <2>3, <2>4, <2>5, <2>6 DEF Reads
<1> QED
    BY <1>3, <1>4, <1>5

LEMMA SendKind ==
  ASSUME Calm, TypeInv, Calmly,
         \/ BackupSendOk \/ BackupSendFails \/ BackupReconnect
         \/ Idle \/ SendOk \/ SendFails \/ Reconnect
  PROVE  Sends
<1>1. /\ UNCHANGED <<files, reading, start>>
      /\ \/ pc \in InBackup /\ pc' \in InBackup
         \/ pc \in {"send", "wait"} /\ pc' \in {"open", "wait"}
      BY DEF BackupSendOk, BackupSendFails, BackupReconnect, Idle, SendOk,
             SendFails, Reconnect, InBackup, history
<1>2. \/ /\ accepted' = accepted \cup Pending
         /\ messages' \in {messages, <<>>}
      \/ UNCHANGED <<accepted, messages>>
      BY DEF BackupSendOk, BackupSendFails, BackupReconnect, Idle, SendOk,
             SendFails, Reconnect, Sent, NotSent, Pending, history
<1>3. Begun
  <2>1. ~Before
        BY <1>1 DEF Before, InBackup
  <2> QED
      BY <2>1, BegunGoing DEF Calmly
<1>4. Stays
      BY <1>1 DEF Stays, ReadUpTo, InBackup, reading
<1> QED
    BY <1>1, <1>2, <1>3, <1>4 DEF Sends, files

LEMMA ReadKind ==
  ASSUME Calm, TypeInv, Calmly, ReadLine \/ ReadEnd \/ WriteCheckpoint
  PROVE  Reads \/ Rests
<1>1. CASE ReadLine
  <2>1. PICK e \in LineEnds(handle, position, size[handle]) :
          /\ messages' = Append(messages, [file |-> handle, lo |-> position,
                                           hi |-> e])
          /\ position' = e
        BY <1>1 DEF ReadLine
  <2>2. /\ UNCHANGED <<files, oStat, history>>
        /\ pc = "read" /\ pc' \in {"checkpoint", "read"}
        BY <1>1 DEF ReadLine
  <2>3. Going /\ Begun
        BY <2>2, BegunGoing DEF Calmly, Before
  <2>4. /\ handle \in File /\ position \in Offset /\ size[handle] \in Offset
        BY <2>2 DEF TypeInv, TypeOK, Shape, Holding
  <2>5. e \in Offset /\ position < e /\ e <= size[handle]
        BY <2>1, <2>4, LineEndsType
  <2>6. position < size[handle] /\ position <= e
        BY <2>4, <2>5
  <2>7. handle = oStat.file
        BY <2>2, <2>3, <2>4, <2>6, ReadsOwnFile
  <2>8. ReadUpTo = position /\ ReadUpTo' = e
        BY <2>1, <2>2 DEF ReadUpTo, InBackup
  <2>9. messages' = Append(messages, Piece(e))
        BY <2>1, <2>7, <2>8 DEF Piece
  <2>10. /\ e \in Breaks[oStat.file] \/ e = size[oStat.file]
         /\ \A b \in Breaks[oStat.file] : b <= ReadUpTo \/ e <= b
        BY <2>1, <2>4, <2>7, <2>8, LineEndsMeans
  <2>11. UNCHANGED <<size, start, accepted>> /\ oStat'.file = oStat.file
        BY <2>2 DEF files, history
  <2>12. ReadUpTo <= e /\ e <= size[oStat.file]
        BY <2>5, <2>6, <2>7, <2>8
  <2> QED
      BY <2>3, <2>5, <2>8, <2>9, <2>10, <2>11, <2>12 DEF Reads
<1>2. CASE ReadEnd \/ WriteCheckpoint
      BY <1>2 DEF ReadEnd, WriteCheckpoint, Rests, Stays, ReadUpTo, InBackup,
                  files, reading, history
<1> QED
    BY <1>1, <1>2

LEMMA Sorted == Calm /\ CalmOnes /\ [Next]_vars => Kinds
<1> SUFFICES ASSUME Calm, CalmOnes, [Next]_vars PROVE Kinds
    OBVIOUS
<1>0. TypeInv /\ Calmly
      BY DEF CalmOnes
<1>1. CASE World
      BY <1>1, WorldKind DEF Kinds
<1>2. CASE Thread
      BY <1>0, <1>2, FirstKind, OpenStatKind, BackupKind, SendKind, ReadKind
         DEF Thread, Kinds
<1>3. CASE UNCHANGED vars
      BY <1>3 DEF vars, files, reading, history, Kinds, Rests, Stays, ReadUpTo
<1> QED
    BY <1>1, <1>2, <1>3 DEF Next
-----------------------------------------------------------------------------
(* What was taken.                                                         *)

(* Whatever is stored or queued is owed, and the thread is past it.        *)
TakenInv ==
  /\ ~Begun => accepted = {} /\ messages = <<>>
  /\ Begun => ~Precedes(<<oStat.file, ReadUpTo>>, <<start.file, start.pos>>)
  /\ \A u \in accepted \cup Pending : u \in Owed /\ ~Ahead(u)

LEMMA InitTaken == Init => TakenInv
<1> SUFFICES ASSUME Init PROVE TakenInv
    OBVIOUS
<1>1. ~Begun /\ accepted = {} /\ messages = <<>>
      BY DEF Init, Begun, NoPlace
<1>2. Pending = {}
      BY <1>1, BatchEmpty DEF Pending
<1> QED
    BY <1>1, <1>2 DEF TakenInv

LEMMA StandingType ==
  ASSUME CalmOnes, Begun
  PROVE  oStat.file \in File /\ ReadUpTo \in Offset
<1>1. Going
      BY BegunGoing DEF CalmOnes
<1>2. oStat.file \in File
      BY <1>1 DEF CalmOnes, Going, BehindInv, TypeInv, TypeOK
<1>3. ReadUpTo \in Offset
      BY DEF CalmOnes, ReadUpTo, TypeInv, TypeOK
<1> QED
    BY <1>2, <1>3

(* What is written is owed from now on, and comes after all there was.     *)
LEMMA OwedGrows ==
  ASSUME CalmOnes, Grows
  PROVE  /\ Owed \subseteq Owed'
         /\ \A v \in Owed' \ Owed, u \in Owed : ~Precedes(v, u)
<1>1. /\ newest \in File /\ size \in [File -> Offset]
      /\ \A f \in File : f > newest => size[f] = 0
      BY DEF CalmOnes, TypeInv, TypeOK, Calmly, FilesInv
<1>2. start' = start
      BY DEF Grows
<1>3. PICK e \in Offset : /\ size[newest] < e
                         /\ size' = [size EXCEPT ![newest] = e]
      BY DEF Grows
<1>4. ASSUME NEW u \in Owed
      PROVE  /\ u \in Owed' /\ u[1] \in File /\ u[2] \in Offset
             /\ u[2] < size[u[1]] /\ u[1] <= newest
  <2>1. /\ u \in File \X Offset /\ u[1] \in File /\ u[2] \in Offset
        /\ u[2] < size[u[1]]
        BY DEF Owed
  <2>2. u[1] <= newest
        BY <1>1, <2>1, Bounds
  <2>3. u[2] < size'[u[1]]
        BY <1>1, <1>3, <2>1, Bounds
  <2> QED
      BY <1>2, <2>1, <2>2, <2>3 DEF Owed, Precedes
<1>5. ASSUME NEW v \in Owed', v \notin Owed
      PROVE  v[1] = newest /\ v[2] \in Offset /\ size[newest] <= v[2]
  <2>1. /\ v \in File \X Offset /\ v[1] \in File /\ v[2] \in Offset
        /\ v[2] < size'[v[1]]
        BY DEF Owed
  <2>2. ~(v[2] < size[v[1]])
        BY <1>2, <1>5, <2>1 DEF Owed, Precedes
  <2>3. v[1] = newest
        BY <1>1, <1>3, <2>1, <2>2
  <2> QED
      BY <1>1, <2>1, <2>2, <2>3, Bounds
<1>6. ASSUME NEW v \in Owed' \ Owed, NEW u \in Owed PROVE ~Precedes(v, u)
  <2>1. v[1] = newest /\ v[2] \in Offset /\ size[newest] <= v[2]
        BY <1>5
  <2>2. /\ u[1] \in File /\ u[2] \in Offset
        /\ u[2] < size[u[1]] /\ u[1] <= newest
        BY <1>4
  <2>3. ~(newest < u[1]) /\ (u[1] = newest => ~(v[2] < u[2]))
        BY <1>1, <2>1, <2>2, Bounds
  <2> QED
      BY <2>1, <2>3 DEF Precedes
<1> QED
    BY <1>4, <1>6

(* The thread moves on only, and it has taken what it passes.              *)
LEMMA Moved ==
  ASSUME CalmOnes, Begun, Stays \/ Advances \/ Reads
  PROVE  \A u : ~Ahead(u) /\ u[1] \in File /\ u[2] \in Offset => ~Ahead(u)'
<1> SUFFICES ASSUME NEW u, ~Ahead(u), u[1] \in File, u[2] \in Offset
             PROVE  ~Ahead(u)'
    OBVIOUS
<1>1. oStat.file \in File /\ ReadUpTo \in Offset
      BY StandingType
<1>2. u[1] < oStat.file \/ (u[1] = oStat.file /\ u[2] < ReadUpTo)
      BY AheadMeans
<1>3. CASE Stays
      BY <1>2, <1>3 DEF Stays, Ahead, Precedes
<1>4. CASE Advances
  <2>1. oStat.file < oStat'.file /\ oStat'.file \in File
        BY <1>4 DEF Advances
  <2>2. u[1] < oStat'.file
    <3>1. u[1] <= oStat.file
          BY <1>1, <1>2
    <3> QED
        BY <1>1, <2>1, <3>1
  <2> QED
      BY <2>2 DEF Ahead, Precedes
<1>5. CASE Reads
  <2>1. PICK e \in Offset : ReadUpTo <= e /\ ReadUpTo' = e
        BY <1>5 DEF Reads
  <2>2. oStat'.file = oStat.file
        BY <1>5 DEF Reads
  <2>3. u[2] < ReadUpTo => u[2] < e
        BY <1>1, <2>1
  <2> QED
      BY <1>2, <2>1, <2>2, <2>3 DEF Ahead, Precedes
<1> QED
    BY <1>3, <1>4, <1>5

(* The units of the piece that is queued: owed, and where the thread is.   *)
LEMMA PieceUnits ==
  ASSUME CalmOnes, TakenInv, Begun,
         NEW e \in Offset, e <= size[oStat.file],
         messages' = Append(messages, Piece(e))
  PROVE  /\ Pending' = Pending \cup Units(Piece(e))
         /\ \A u \in Units(Piece(e)) :
              /\ u \in Owed
              /\ Ahead(u)
              /\ u[1] = oStat.file /\ u[2] < e
<1>1. oStat.file \in File /\ ReadUpTo \in Offset /\ size[oStat.file] \in Offset
      BY StandingType DEF CalmOnes, TypeInv, TypeOK
<1>2. Piece(e) \in Message
      BY <1>1, MessageType DEF Piece
<1>3. Pending' = Pending \cup Units(Piece(e))
      BY <1>2, BatchAppend DEF Pending, CalmOnes, TypeInv, TypeOK
<1>4. ASSUME NEW u \in Units(Piece(e))
      PROVE  u \in Owed /\ Ahead(u) /\ u[1] = oStat.file /\ u[2] < e
  <2>1. PICK x \in ReadUpTo .. e - 1 : u = <<oStat.file, x>>
        BY <1>4 DEF Units, Piece
  <2>2. x \in Offset /\ ReadUpTo <= x /\ x < e /\ x < size[oStat.file]
        BY <1>1, Bounds
  <2>3. ~Precedes(u, <<start.file, start.pos>>)
    <3>1. ~Precedes(<<oStat.file, ReadUpTo>>, <<start.file, start.pos>>)
          BY DEF TakenInv
    <3>2. start.file \in Int /\ start.pos \in Int
          BY DEF CalmOnes, TypeInv, TypeOK, Place
    <3> QED
        BY <1>1, <2>1, <2>2, <3>1, <3>2 DEF Precedes
  <2>4. u \in Owed
        BY <1>1, <2>1, <2>2, <2>3 DEF Owed, Begun
  <2>5. ~(x < ReadUpTo) /\ ~(oStat.file < oStat.file)
        BY <1>1, <2>2
  <2>6. Ahead(u)
        BY <2>1, <2>5 DEF Ahead, Precedes
  <2> QED
      BY <2>1, <2>2, <2>4, <2>6
<1> QED
    BY <1>3, <1>4

LEMMA StartType ==
  ASSUME CalmOnes
  PROVE  start.file \in Int /\ start.pos \in Int
<1>1. start \in [file : File \cup {NoFile}, pos : Offset]
      BY DEF CalmOnes, TypeInv, TypeOK, Place
<1> QED
    BY <1>1

LEMMA SendsKeep ==
  ASSUME Sends
  PROVE  /\ accepted' \cup Pending' = accepted \cup Pending
         /\ Pending' \in {Pending, {}}
         /\ accepted' \in {accepted, accepted \cup Pending}
  BY BatchEmpty DEF Sends, Pending

LEMMA TakenStep ==
  Calm /\ CalmOnes /\ TakenInv /\ [Next]_vars => TakenInv'
<1> SUFFICES ASSUME Calm, CalmOnes, TakenInv, [Next]_vars PROVE TakenInv'
    OBVIOUS
<1>1. Kinds
      BY Sorted
<1>2. \A u \in accepted \cup Pending :
        u \in Owed /\ ~Ahead(u) /\ u[1] \in File /\ u[2] \in Offset
      BY DEF TakenInv, Owed
<1>3. CASE ~Begun /\ ~Begins
  <2>1. UNCHANGED <<start, accepted, messages>>
        BY <1>1, <1>3 DEF Kinds, Grows, Reads, Sends, Advances, Rests
  <2>2. accepted = {} /\ Pending = {}
        BY <1>3, BatchEmpty DEF TakenInv, Pending
  <2> QED
      BY <1>3, <2>1, <2>2 DEF TakenInv, Begun, Pending
<1>4. CASE Begins
  <2>1. /\ UNCHANGED <<accepted, messages>>
        /\ start' = [file |-> oStat'.file, pos |-> ReadUpTo']
        BY <1>4 DEF Begins
  <2>2. accepted = {} /\ Pending = {} /\ messages = <<>>
        BY <1>4, BatchEmpty DEF TakenInv, Pending, Begins
  <2>3. TypeInv'
        BY TypeStep DEF CalmOnes
  <2>4. ReadUpTo' \in Nat /\ oStat'.file \in Int
        BY <2>3 DEF TypeInv, TypeOK, ReadUpTo
  <2>5. ~(ReadUpTo' < ReadUpTo') /\ ~(oStat'.file < oStat'.file)
        BY <2>4
  <2>6. ~Precedes(<<oStat'.file, ReadUpTo'>>, <<start'.file, start'.pos>>)
        BY <2>1, <2>5 DEF Precedes
  <2> QED
      BY <2>1, <2>2, <2>6 DEF TakenInv, Pending
<1>5. CASE Begun /\ (Grows \/ Rests)
  <2>1. UNCHANGED <<start, accepted, messages>> /\ Stays
        BY <1>5 DEF Grows, Rests
  <2>2. Owed \subseteq Owed'
    <3>1. CASE Grows
          BY <3>1, OwedGrows
    <3>2. CASE Rests
          BY <3>2 DEF Rests, Owed, Precedes
    <3> QED
        BY <1>5, <3>1, <3>2
  <2>3. \A u \in accepted' \cup Pending' : u \in Owed' /\ ~Ahead(u)'
        BY <1>2, <1>5, <2>1, <2>2, Moved DEF Pending
  <2> QED
      BY <1>5, <2>1, <2>3 DEF TakenInv, Begun, Stays, Precedes
<1>6. CASE Sends
  <2>1. Begun /\ start' = start /\ Stays /\ Owed' = Owed
        BY <1>6 DEF Sends, Owed, Precedes
  <2>2. \A u \in accepted' \cup Pending' : u \in Owed' /\ ~Ahead(u)'
        BY <1>2, <1>6, <2>1, SendsKeep, Moved
  <2> QED
      BY <2>1, <2>2 DEF TakenInv, Begun, Stays, Precedes
<1>7. CASE Advances
  <2>1. UNCHANGED <<start, accepted, messages>> /\ Begun /\ Owed' = Owed
        BY <1>7 DEF Advances, Owed, Precedes
  <2>2. \A u \in accepted' \cup Pending' : u \in Owed' /\ ~Ahead(u)'
        BY <1>2, <1>7, <2>1, Moved DEF Pending
  <2>3. ~Precedes(<<oStat'.file, ReadUpTo'>>, <<start'.file, start'.pos>>)
    <3>1. ~Precedes(<<oStat.file, ReadUpTo>>, <<start.file, start.pos>>)
          BY <2>1 DEF TakenInv
    <3>2. /\ oStat.file \in Int /\ oStat'.file \in Int /\ start.file \in Int
          /\ oStat.file < oStat'.file
          BY <1>7, <2>1, StandingType, StartType DEF Advances
    <3>3. start.file < oStat'.file
          BY <3>1, <3>2 DEF Precedes
    <3>4. ~(oStat'.file < start.file) /\ oStat'.file # start.file
          BY <3>2, <3>3
    <3> QED
        BY <2>1, <3>4 DEF Precedes
  <2> QED
      BY <2>1, <2>2, <2>3 DEF TakenInv, Begun
<1>8. CASE Reads
  <2>1. /\ UNCHANGED <<start, accepted>> /\ Begun /\ Owed' = Owed
        /\ oStat'.file = oStat.file
        BY <1>8 DEF Reads, Owed, Precedes
  <2>2. PICK e \in Offset : /\ ReadUpTo <= e /\ e <= size[oStat.file]
                           /\ messages' = Append(messages, Piece(e))
                           /\ ReadUpTo' = e
        BY <1>8 DEF Reads
  <2>3. ASSUME NEW u \in accepted' \cup Pending' PROVE u \in Owed' /\ ~Ahead(u)'
    <3>1. CASE u \in accepted \cup Pending
          BY <1>2, <1>8, <2>1, <3>1, Moved
    <3>2. CASE u \in Units(Piece(e))
      <4>1. u \in Owed /\ u[1] = oStat.file /\ u[2] < e
            BY <2>1, <2>2, <3>2, PieceUnits
      <4> QED
          BY <2>1, <2>2, <4>1 DEF Ahead, Precedes
    <3> QED
        BY <2>1, <2>2, <2>3, <3>1, <3>2, PieceUnits
  <2>4. ~Precedes(<<oStat'.file, ReadUpTo'>>, <<start'.file, start'.pos>>)
    <3>1. ~Precedes(<<oStat.file, ReadUpTo>>, <<start.file, start.pos>>)
          BY <2>1 DEF TakenInv
    <3>2. /\ oStat.file \in Int /\ ReadUpTo \in Int
          /\ start.file \in Int /\ start.pos \in Int
          BY <2>1, StandingType, StartType
    <3> QED
        BY <2>1, <2>2, <3>1, <3>2 DEF Precedes
  <2> QED
      BY <2>1, <2>3, <2>4 DEF TakenInv, Begun
<1> QED
    BY <1>1, <1>3, <1>4, <1>5, <1>6, <1>7, <1>8 DEF Kinds

(* What the theorems below rest on. *)
Deliverer == CalmOnes /\ TakenInv

LEMMA DelivererBegins == Init => Deliverer
  BY CalmBegins, InitTaken DEF Deliverer

LEMMA DelivererStays == Calm /\ Deliverer /\ [Next]_vars => Deliverer'
  BY CalmHolds, TakenStep DEF Deliverer

LEMMA DelivererAlways == Calm /\ Spec => []Deliverer
<1>1. Init => Deliverer
      BY DelivererBegins
<1> SUFFICES ASSUME Calm PROVE Spec => []Deliverer
    OBVIOUS
<1>2. Deliverer /\ [Next]_vars => Deliverer'
      BY DelivererStays
<1> QED
    BY <1>1, <1>2, PTL DEF Spec

(* No unit is read from a file twice, neither across batches nor across    *)
(* rotations and drained backups: scribe gets it twice only if it stored a *)
(* batch and the answer was lost.                                          *)
THEOREM NothingReread == Calm /\ Spec => NeverReread
<1> DEFINE A == \A i \in DOMAIN messages' \ DOMAIN messages :
                  Units(messages'[i]) \cap (accepted \cup Pending) = {}
<1>1. Calm /\ Deliverer /\ [Next]_vars => [A]_vars
  <2> SUFFICES ASSUME Calm, Deliverer, [Next]_vars,
                      NEW i \in DOMAIN messages' \ DOMAIN messages,
                      NEW u \in Units(messages'[i]), u \in accepted \cup Pending
               PROVE  FALSE
      OBVIOUS
  <2>1. Reads
    <3>1. Kinds /\ messages' # messages /\ messages' # <<>>
          BY Sorted DEF Deliverer
    <3> QED
        BY <3>1 DEF Kinds, Grows, Sends, Advances, Begins, Rests
  <2>2. PICK e \in Offset : /\ e <= size[oStat.file]
                           /\ messages' = Append(messages, Piece(e))
        BY <2>1 DEF Reads
  <2>3. messages'[i] = Piece(e)
    <3>1. messages \in Seq(Message)
          BY DEF Deliverer, CalmOnes, TypeInv, TypeOK
    <3> QED
        BY <2>2, <3>1
  <2>4. Ahead(u)
        BY <2>1, <2>2, <2>3, PieceUnits DEF Deliverer, Reads
  <2> QED
      BY <2>4 DEF Deliverer, TakenInv
<1> SUFFICES ASSUME Calm PROVE Spec => NeverReread
    OBVIOUS
<1>2. Deliverer /\ [Next]_vars => [A]_vars
      BY <1>1
<1> QED
    BY <1>2, DelivererAlways, PTL DEF Spec, NeverReread

(* What the checkpoint counts as done is stored or queued (or was the torn *)
(* end of a rotated file), whenever it is written: in the middle of a      *)
(* file, after a rotation, or after a batch that could not be sent.        *)
THEOREM CheckpointBehind == Calm /\ Spec => CheckpointCovered
<1> DEFINE A == checkpoint' \notin {checkpoint, NoPlace} =>
                  \A u \in Owed :
                    Precedes(u, <<checkpoint'.file, checkpoint'.pos>>)
                      => u \in accepted \cup Pending \/ Unended(u)
<1>1. CalmInv /\ [Next]_vars => [A]_vars
  <2> SUFFICES ASSUME CalmInv, Next, checkpoint' \notin {checkpoint, NoPlace},
                      NEW u \in Owed,
                      Precedes(u, <<checkpoint'.file, checkpoint'.pos>>)
               PROVE  u \in accepted \cup Pending \/ Unended(u)
      OBVIOUS
  <2>1. WriteCheckpoint
        BY DEF Next, World, Write, Rename, Create, Reopen, CopyTruncate,
               Thread, FirstStat, FirstOpen, FirstOpenFails, Open, Stat,
               BackupEmpty, BackupRead, BackupLine, BackupStray, BackupDone,
               PushBacklog, BackupSendOk, BackupSendFails, BackupReconnect,
               ReadLine, ReadEnd, Idle, SendOk, SendFails, Reconnect
  <2>2. /\ checkpoint' = [file |-> oStat.file, pos |-> position]
        /\ pc = "checkpoint"
        BY <2>1 DEF WriteCheckpoint
  <2>3. ~Ahead(u)
        BY <2>2 DEF Ahead, ReadUpTo, InBackup
  <2> QED
      BY <2>3 DEF CalmInv, LosesOnlyUnended
<1> QED
    BY <1>1, CalmInvariant, PTL DEF Spec, CheckpointCovered
-----------------------------------------------------------------------------
(* The thread implements Delivery.                                         *)

LEMMA TakenIs ==
  ASSUME TakenInv
  PROVE  Taken = accepted \cup Pending /\ Stored = accepted
  BY DEF TakenInv, Taken, Stored

(* All that was written before something taken is taken.                   *)
GapFree == \A u \in Taken, v \in Owed : Precedes(v, u) => v \in Taken

LEMMA NoGap == CalmOnes /\ TakenInv /\ NoLoss /\ Begun => GapFree
<1> SUFFICES ASSUME CalmOnes, TakenInv, NoLoss, Begun,
                    NEW u \in Taken, NEW v \in Owed, Precedes(v, u)
             PROVE  v \in Taken
    BY DEF GapFree
<1>1. /\ u \in File \X Offset /\ u[1] \in File /\ u[2] \in Offset
      /\ v \in File \X Offset /\ v[1] \in File /\ v[2] \in Offset
      BY DEF Taken, Owed
<1>2. ~Ahead(u)
      BY DEF TakenInv, Taken
<1>3. oStat.file \in File /\ ReadUpTo \in Offset
      BY StandingType
<1>4. ~Ahead(v)
  <2>1. u[1] < oStat.file \/ (u[1] = oStat.file /\ u[2] < ReadUpTo)
        BY <1>2, AheadMeans
  <2>2. v[1] < u[1] \/ (v[1] = u[1] /\ v[2] < u[2])
        BY DEF Precedes
  <2>3. v[1] < oStat.file \/ (v[1] = oStat.file /\ v[2] < ReadUpTo)
        BY <1>1, <1>3, <2>1, <2>2, Bounds
  <2> QED
      BY <2>3, AheadMeans
<1> QED
    BY <1>4, TakenIs DEF NoLoss

(* Tailer implements Delivery: each step of the thread, the application    *)
(* and scribe takes up the next units in order, stores what was taken, or  *)
(* leaves the log, the taken and the stored units alone (readLogFile,      *)
(* read_backupfile, scribe_send::send); if files are finished before they  *)
(* are given up, since a torn end would leave a gap.                       *)
THEOREM ImplementsDelivery == Calm /\ Finishing /\ Spec => Delivers
<1>1. Init => D!DInit
  <2> SUFFICES ASSUME Init PROVE Owed = {}
      BY DEF D!DInit, Taken, Stored
  <2> QED
      BY NothingOwed DEF Init, NoPlace
<1>2. (CalmOnes /\ TakenInv /\ NoLoss /\ Begun => GapFree)'
      BY NoGap, PTL
<1>3. Calm /\ Deliverer /\ Deliverer' /\ NoLoss' /\ [Next]_vars
        => [D!DNext]_D!dvars
  <2> SUFFICES ASSUME Calm, Deliverer, Deliverer', NoLoss', [Next]_vars
               PROVE  [D!DNext]_D!dvars
      OBVIOUS
  <2>0. /\ CalmOnes /\ TakenInv /\ CalmOnes' /\ TakenInv' /\ Kinds
        /\ Taken = accepted \cup Pending /\ Stored = accepted
        /\ Taken' = accepted' \cup Pending' /\ Stored' = accepted'
    <3>1. CalmOnes /\ TakenInv /\ CalmOnes' /\ TakenInv' /\ Kinds
          BY Sorted DEF Deliverer
    <3>2. Taken = accepted \cup Pending /\ Stored = accepted
          BY <3>1, TakenIs
    <3>3. Taken' = accepted' \cup Pending' /\ Stored' = accepted'
          BY <3>1 DEF TakenInv, Taken, Stored
    <3> QED
        BY <3>1, <3>2, <3>3
  <2>1. CASE Grows
    <3>1. UNCHANGED <<Taken, Stored>>
          BY <2>0, <2>1 DEF Grows, Pending
    <3>2. \A v \in Owed' \ Owed, u \in Taken : ~D!Earlier(v, u)
          BY <2>0, <2>1, OwedGrows DEF D!Earlier, Precedes, Taken
    <3> QED
        BY <2>0, <2>1, <3>1, <3>2, OwedGrows DEF D!DNext, D!Produce
  <2>2. CASE Begins
    <3>1. accepted = {} /\ Pending = {} /\ Owed = {}
          BY <2>0, <2>2, BatchEmpty, NothingOwed
             DEF Begins, Begun, TakenInv, Pending
    <3>2. UNCHANGED <<Taken, Stored>>
          BY <2>0, <2>2 DEF Begins, Pending
    <3> QED
        BY <2>0, <3>1, <3>2 DEF D!DNext, D!Produce
  <2>3. CASE Reads
    <3>1. PICK e \in Offset : /\ e <= size[oStat.file]
                             /\ messages' = Append(messages, Piece(e))
          BY <2>3 DEF Reads
    <3>2. Begun /\ Begun' /\ accepted' = accepted /\ Owed' = Owed
          BY <2>3 DEF Reads, Begun, Owed, Precedes
    <3>3. Pending' = Pending \cup Units(Piece(e))
          BY <2>0, <3>1, <3>2, PieceUnits
    <3>4. Taken \subseteq Taken' /\ Taken' \subseteq Owed /\ Stored' = Stored
          BY <2>0, <3>2, <3>3 DEF Taken
    <3>5. \A u \in Taken', v \in Owed : D!Earlier(v, u) => v \in Taken'
      <4>1. GapFree'
            BY <1>2, <2>0, <3>2
      <4> QED
          BY <3>2, <4>1 DEF GapFree, D!Earlier, Precedes
    <3> QED
        BY <3>2, <3>4, <3>5 DEF D!DNext, D!Take
  <2>4. CASE Sends
    <3>1. Owed' = Owed
          BY <2>4 DEF Sends, Owed, Precedes
    <3>2. Taken' = Taken
          BY <2>0, <2>4, SendsKeep
    <3>3. Stored' \in {Stored, Taken}
          BY <2>0, <2>4, SendsKeep
    <3> QED
        BY <3>1, <3>2, <3>3 DEF D!DNext, D!Store, D!dvars
  <2>5. CASE Advances \/ Rests
    <3>1. Owed' = Owed /\ UNCHANGED <<accepted, messages>>
          BY <2>5 DEF Advances, Rests, Owed, Precedes
    <3> QED
        BY <2>0, <3>1 DEF Pending, D!dvars
  <2> QED
      BY <2>0, <2>1, <2>2, <2>3, <2>4, <2>5 DEF Kinds
<1> SUFFICES ASSUME Calm, Finishing PROVE Spec => Delivers
    OBVIOUS
<1>4. Deliverer /\ Deliverer' /\ NoLoss' /\ [Next]_vars => [D!DNext]_D!dvars
      BY <1>3
<1> QED
    BY <1>1, <1>4, DelivererAlways, NothingLost, PTL
       DEF Spec, Delivers, D!DSpec
-----------------------------------------------------------------------------
(* The queue.                                                              *)

(* Every message of the queue lies before the place where the thread reads *)
(* (what is queued next begins there).                                     *)
OrderInv ==
  /\ QueueInOrder
  /\ \A i \in DOMAIN messages :
       \/ messages[i].file < oStat.file
       \/ messages[i].file = oStat.file /\ messages[i].hi <= ReadUpTo

(* How a queue grows by one message. *)
LEMMA Appended ==
  ASSUME NEW ms \in Seq(Message), NEW m
  PROVE  \A i \in DOMAIN Append(ms, m) :
           \/ i \in DOMAIN ms /\ Append(ms, m)[i] = ms[i]
           \/ Append(ms, m)[i] = m /\ \A j \in DOMAIN ms : j < i
  OBVIOUS

LEMMA OrderStep ==
  Calm /\ Deliverer /\ OrderInv /\ [Next]_vars => OrderInv'
<1> SUFFICES ASSUME Calm, Deliverer, OrderInv, [Next]_vars PROVE OrderInv'
    OBVIOUS
<1>1. CalmOnes /\ TakenInv /\ Kinds
      BY Sorted DEF Deliverer
<1>2. messages \in Seq(Message)
      BY <1>1 DEF CalmOnes, TypeInv, TypeOK
<1>3. CASE messages' = <<>>
      BY <1>3 DEF OrderInv, QueueInOrder
<1>4. CASE ~Begun /\ messages' # <<>>
      BY <1>1, <1>4
         DEF TakenInv, Kinds, Grows, Reads, Sends, Advances, Begins, Rests
<1>5. CASE Begun /\ messages' = messages /\ Stays
      BY <1>5 DEF OrderInv, QueueInOrder, Stays
<1>6. CASE Advances
  <2>1. /\ messages' = messages /\ oStat.file < oStat'.file
        /\ oStat.file \in Int /\ oStat'.file \in Int
        BY <1>1, <1>6, StandingType DEF Advances
  <2>2. ASSUME NEW i \in DOMAIN messages PROVE messages[i].file < oStat'.file
    <3>1. messages[i].file \in Int
          BY <1>2, MessageParts
    <3>2. messages[i].file < oStat.file \/ messages[i].file = oStat.file
          BY DEF OrderInv
    <3> QED
        BY <2>1, <3>1, <3>2
  <2> QED
      BY <2>1, <2>2 DEF OrderInv, QueueInOrder
<1>7. CASE Reads
  <2>1. oStat'.file = oStat.file /\ Begun
        BY <1>7 DEF Reads
  <2>2. PICK e \in Offset : /\ ReadUpTo <= e /\ ReadUpTo' = e
                           /\ messages' = Append(messages, Piece(e))
        BY <1>7 DEF Reads
  <2>3. oStat.file \in Int /\ ReadUpTo \in Int /\ e \in Int
        BY <1>1, <2>1, StandingType
  <2>4. ASSUME NEW i \in DOMAIN messages'
        PROVE  \/ i \in DOMAIN messages /\ messages'[i] = messages[i]
               \/ messages'[i] = Piece(e) /\ \A j \in DOMAIN messages : j < i
        BY <1>2, <2>2, Appended
  <2>5. ASSUME NEW i \in DOMAIN messages
        PROVE  /\ messages[i].file \in Int /\ messages[i].hi \in Int
               /\ \/ messages[i].file < oStat.file
                  \/ messages[i].file = oStat.file /\ messages[i].hi <= ReadUpTo
    <3>1. messages[i].file \in Int /\ messages[i].hi \in Int
          BY <1>2, MessageParts
    <3> QED
        BY <3>1 DEF OrderInv
  <2>6. ASSUME NEW i \in DOMAIN messages'
        PROVE  \/ messages'[i].file < oStat.file
               \/ messages'[i].file = oStat.file /\ messages'[i].hi <= e
    <3>1. CASE i \in DOMAIN messages /\ messages'[i] = messages[i]
          BY <2>2, <2>3, <2>5, <3>1
    <3>2. CASE messages'[i] = Piece(e)
          BY <2>3, <3>2 DEF Piece
    <3> QED
        BY <2>4, <3>1, <3>2
  <2>7. ASSUME NEW i \in DOMAIN messages', NEW j \in DOMAIN messages', i < j
        PROVE  WrittenBefore(messages'[i], messages'[j])
    <3>0. i \in Int /\ j \in Int /\ \A k \in DOMAIN messages : k \in Int
      <4>1. Piece(e) \in Message
            BY <1>1, <2>1, StandingType, MessageType DEF Piece
      <4>2. messages' \in Seq(Message)
            BY <1>2, <2>2, <4>1
      <4> QED
          BY <1>2, <4>2
    <3>1. CASE /\ i \in DOMAIN messages /\ messages'[i] = messages[i]
               /\ j \in DOMAIN messages /\ messages'[j] = messages[j]
          BY <2>7, <3>1 DEF OrderInv, QueueInOrder
    <3>2. CASE /\ i \in DOMAIN messages /\ messages'[i] = messages[i]
               /\ messages'[j] = Piece(e)
          BY <2>5, <3>2 DEF WrittenBefore, Piece
    <3>3. CASE /\ messages'[i] = Piece(e)
               /\ \A k \in DOMAIN messages : k < i
      <4>1. j \notin DOMAIN messages
            BY <2>7, <3>0, <3>3
      <4>2. \A k \in DOMAIN messages : k < j
            BY <2>4, <4>1
      <4>3. i = Len(messages) + 1 /\ j = Len(messages) + 1
            BY <1>2, <2>2, <3>0, <3>3, <4>1
      <4> QED
          BY <2>7, <3>0, <4>3
    <3> QED
        BY <2>4, <3>1, <3>2, <3>3
  <2> QED
      BY <2>1, <2>2, <2>6, <2>7 DEF OrderInv, QueueInOrder
<1> QED
    BY <1>1, <1>3, <1>4, <1>5, <1>6, <1>7
       DEF Kinds, Grows, Sends, Begins, Rests

(* The queue keeps the order of the log: in one file by offset, and the    *)
(* end of a rotated file before the beginning of the next.                 *)
THEOREM QueueOrdered == Calm /\ Spec => []QueueInOrder
<1>1. Init => OrderInv
      BY DEF Init, OrderInv, QueueInOrder
<1> SUFFICES ASSUME Calm PROVE Spec => []QueueInOrder
    OBVIOUS
<1>2. Deliverer /\ OrderInv /\ [Next]_vars => OrderInv'
      BY OrderStep
<1>3. OrderInv => QueueInOrder
      BY DEF OrderInv
<1> QED
    BY <1>1, <1>2, <1>3, DelivererAlways, PTL DEF Spec
-----------------------------------------------------------------------------
(* Where the log is cut.                                                   *)

(* A line ends where the file does, or a write did. *)
EndSeam(f) == AtLineEnd(f) \/ <<f, size[f]>> \in cuts

(* What is one line of the log, or what was written or read of it.         *)
UncutPiece(m) ==
  /\ Seam(m.file, m.lo)
  /\ Seam(m.file, m.hi)
  /\ \A b \in Breaks[m.file] : b <= m.lo \/ m.hi <= b

(* Every file ends at a seam, the thread stands at one, and so do the ends *)
(* of all that is queued.                                                  *)
SeamsInv ==
  /\ \A f \in File : EndSeam(f)
  /\ Begun => Seam(oStat.file, ReadUpTo)
  /\ \A i \in DOMAIN messages : UncutPiece(messages[i])

LEMMA InitSeams == Init => SeamsInv
<1> SUFFICES ASSUME Init PROVE SeamsInv
    OBVIOUS
<1>1. PICK s \in FirstOffsets :
         /\ size = [f \in File |-> IF f = 1 THEN s ELSE 0]
         /\ cuts = Cut(1, s)
      BY DEF Init
<1>2. ASSUME NEW f \in File PROVE EndSeam(f)
      BY <1>1 DEF EndSeam, AtLineEnd, LineStart, Cut
<1> QED
    BY <1>2 DEF Init, SeamsInv, NoPlace, Begun

(* A seam stays one, and where a write ends one comes into being.          *)
LEMMA CutsKept ==
  ASSUME TypeInv, [Next]_vars
  PROVE  /\ cuts \subseteq cuts'
         /\ \A f \in File : EndSeam(f) => EndSeam(f)'
<1>1. CASE Write
  <2>1. PICK e \in size[writer] + 1 .. MaxUnits :
           /\ size' = [size EXCEPT ![writer] = e]
           /\ cuts' = cuts \cup Cut(writer, e)
        BY <1>1 DEF Write
  <2>2. size \in [File -> Offset]
        BY DEF TypeInv, TypeOK
  <2>3. ASSUME NEW f \in File, EndSeam(f), f # writer PROVE EndSeam(f)'
        BY <2>1, <2>2, <2>3 DEF EndSeam, AtLineEnd
  <2>4. ASSUME writer \in File PROVE EndSeam(writer)'
    <3>1. size'[writer] = e /\ writer' = writer
          BY <1>1, <2>1, <2>2, <2>4 DEF Write
    <3>2. LineStart(writer, e) \/ <<writer, e>> \in cuts'
          BY <2>1 DEF Cut
    <3> QED
        BY <3>1, <3>2 DEF EndSeam, AtLineEnd
  <2>5. writer' = writer
        BY <1>1 DEF Write
  <2>6. ASSUME NEW f \in File, f = writer PROVE EndSeam(f)'
        BY <2>4, <2>5, <2>6
  <2> QED
      BY <2>1, <2>3, <2>6
<1>2. CASE ~Write
  <2>1. UNCHANGED <<size, cuts>>
        BY <1>2 DEF Next, World, Rename, Create, Reopen, CopyTruncate,
               Thread, FirstStat, FirstOpen, FirstOpenFails, Open, Stat,
               BackupEmpty, BackupRead, BackupLine, BackupStray, BackupDone,
               PushBacklog, BackupSendOk, BackupSendFails, BackupReconnect,
               ReadLine, ReadEnd, WriteCheckpoint, Idle, SendOk, SendFails,
               Reconnect, files, vars
  <2> QED
      BY <2>1 DEF EndSeam, AtLineEnd
<1> QED
    BY <1>1, <1>2

(* What is read begins where the last piece ended and ends at a seam.      *)
LEMMA ReadsPiece ==
  ASSUME CalmOnes, SeamsInv, Begun, NEW e \in Offset,
         e \in Breaks[oStat.file] \/ e = size[oStat.file],
         \A b \in Breaks[oStat.file] : b <= ReadUpTo \/ e <= b
  PROVE  Seam(oStat.file, e) /\ UncutPiece(Piece(e))
<1>1. oStat.file \in File
      BY StandingType
<1>2. Seam(oStat.file, e)
      BY <1>1 DEF SeamsInv, EndSeam, AtLineEnd, Seam, LineStart
<1> QED
    BY <1>2 DEF SeamsInv, UncutPiece, Piece

LEMMA SeamsStep ==
  Calm /\ Deliverer /\ SeamsInv /\ [Next]_vars => SeamsInv'
<1> SUFFICES ASSUME Calm, Deliverer, SeamsInv, [Next]_vars PROVE SeamsInv'
    OBVIOUS
<1>1. CalmOnes /\ TakenInv /\ Kinds
      BY Sorted DEF Deliverer
<1>2. cuts \subseteq cuts' /\ \A f \in File : EndSeam(f)'
      BY <1>1, CutsKept DEF CalmOnes, SeamsInv
<1>3. messages \in Seq(Message)
      BY <1>1 DEF CalmOnes, TypeInv, TypeOK
<1>4. CASE Begins
  <2>1. messages' = <<>>
        BY <1>1, <1>4 DEF Begins, TakenInv
  <2>2. Seam(oStat.file, ReadUpTo)'
        BY <1>4 DEF Begins, Seam
  <2> QED
      BY <1>2, <2>1, <2>2 DEF SeamsInv
<1>5. CASE ~Begun /\ ~Begins
  <2>1. messages' = <<>> /\ ~Begun'
        BY <1>1, <1>5 DEF Kinds, Grows, Reads, Sends, Advances, Rests,
                          TakenInv, Begun
  <2> QED
      BY <1>2, <2>1 DEF SeamsInv
<1>6. CASE Begun
  <2>1. start' = start
        BY <1>1, <1>6
           DEF Kinds, Grows, Reads, Sends, Advances, Begins, Rests
  <2>2. ASSUME NEW i \in DOMAIN messages', NEW m,
               messages'[i] = m, UncutPiece(m)
        PROVE  UncutPiece(messages[i])'
        BY <1>2, <2>1, <2>2 DEF UncutPiece, Seam
  <2>3. ASSUME NEW f, NEW o, Seam(f, o), oStat'.file = f, ReadUpTo' = o
        PROVE  Seam(oStat.file, ReadUpTo)'
        BY <1>2, <2>1, <2>3 DEF Seam
  <2>4. CASE messages' \in {messages, <<>>} /\ Stays
    <3>1. \A i \in DOMAIN messages' : UncutPiece(messages[i])'
          BY <2>2, <2>4 DEF SeamsInv
    <3>2. Seam(oStat.file, ReadUpTo)'
          BY <1>6, <2>3, <2>4 DEF SeamsInv, Stays
    <3> QED
        BY <1>2, <3>1, <3>2 DEF SeamsInv
  <2>5. CASE Advances
    <3>1. \A i \in DOMAIN messages' : UncutPiece(messages[i])'
          BY <2>2, <2>5 DEF Advances, SeamsInv
    <3>2. Seam(oStat.file, ReadUpTo)'
          BY <2>5 DEF Advances, Seam, LineStart
    <3> QED
        BY <1>2, <3>1, <3>2 DEF SeamsInv
  <2>6. CASE Reads
    <3>1. PICK e \in Offset :
             /\ messages' = Append(messages, Piece(e))
             /\ ReadUpTo' = e
             /\ e \in Breaks[oStat.file] \/ e = size[oStat.file]
             /\ \A b \in Breaks[oStat.file] : b <= ReadUpTo \/ e <= b
          BY <2>6 DEF Reads
    <3>2. oStat'.file = oStat.file
          BY <2>6 DEF Reads
    <3>3. Seam(oStat.file, e) /\ UncutPiece(Piece(e))
          BY <1>1, <1>6, <3>1, ReadsPiece
    <3>4. ASSUME NEW i \in DOMAIN messages' PROVE UncutPiece(messages[i])'
      <4>1. \/ i \in DOMAIN messages /\ messages'[i] = messages[i]
            \/ messages'[i] = Piece(e)
            BY <1>3, <3>1, Appended
      <4>2. UncutPiece(messages'[i])
            BY <3>3, <4>1 DEF SeamsInv
      <4> QED
          BY <2>2, <4>2
    <3>5. Seam(oStat.file, ReadUpTo)'
          BY <2>3, <3>1, <3>2, <3>3
    <3> QED
        BY <1>2, <3>4, <3>5 DEF SeamsInv
  <2> QED
      BY <1>1, <1>6, <2>4, <2>5, <2>6
         DEF Kinds, Grows, Sends, Begins, Rests
<1> QED
    BY <1>4, <1>5, <1>6

(* Lines are cut only where the application's writes cut them (or where    *)
(* the thread started): a line that was written at once is one message,    *)
(* wherever batches, polls and rotations fall and whatever lies behind the *)
(* buffer of read_backupfile, and no message spans a newline.              *)
THEOREM LinesCutByWrites == Calm /\ Spec => []CutOnlyByWrites
<1>1. Init => SeamsInv
      BY InitSeams
<1> SUFFICES ASSUME Calm PROVE Spec => []CutOnlyByWrites
    OBVIOUS
<1>2. Deliverer /\ SeamsInv /\ [Next]_vars => SeamsInv'
      BY SeamsStep
<1>3. SeamsInv => CutOnlyByWrites
      BY DEF SeamsInv, UncutPiece, CutOnlyByWrites
<1> QED
    BY <1>1, <1>2, <1>3, DelivererAlways, PTL DEF Spec
=============================================================================
