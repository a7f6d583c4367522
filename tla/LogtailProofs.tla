---------------------------- MODULE LogtailProofs ----------------------------
(***************************************************************************)
(* Proofs about Logtail for every set of names, keys and values, and every *)
(* configuration file.                                                     *)
(***************************************************************************)
EXTENDS Logtail, TLAPS

USE DEF Sections

-----------------------------------------------------------------------------
(* Type correctness.                                                       *)

(* What a line is, by its kind. *)
LEMMA LineKinds ==
  ASSUME NEW line \in Line
  PROVE  /\ line.kind = "header" => line.name \in Name \cup {NoName}
         /\ line.kind = "pair" => line.key \in Key /\ line.val \in Value
<1>1. CASE \E n \in Name \cup {NoName} : line = Header(n)
    BY <1>1 DEF Header
<1>2. CASE \E k \in Key, v \in Value : line = Pair(k, v)
    BY <1>2 DEF Pair
<1>3. CASE line \in {Unclosed, Idle}
    BY <1>3 DEF Unclosed, Idle
<1> QED
    BY <1>1, <1>2, <1>3 DEF Line

(* A checkpoint_time is a number, and one that was read is positive. *)
LEMMA TimesType ==
  ASSUME NEW section \in Section, NEW t \in CheckpointTimes(section)
  PROVE  /\ t \in Int
         /\ Complete(section) => t > 0
<1>1. CASE Complete(section)
  <2>1. PICK v \in Numbers(section) : t = IF v <= 0 THEN 5 ELSE v
        BY <1>1 DEF CheckpointTimes
  <2>2. Numbers(section) \subseteq Int
    <3> DEFINE text == section["checkpoint_time"]
    <3>1. text \in Value \cup {Absent}
          BY LogtailAssumption DEF Section
    <3>2. CASE text = Absent
        BY <3>2 DEF Numbers
    <3>3. CASE text # Absent /\ text = NaN
        BY <3>3, LogtailAssumption DEF Numbers, StringToInt
    <3>4. CASE text # Absent /\ text # NaN
      <4>1. text \in Int
            BY <3>1, <3>4, LogtailAssumption
      <4> QED
          BY <3>4, <4>1 DEF Numbers, StringToInt
    <3> QED
        BY <3>2, <3>3, <3>4
  <2> QED
      BY <2>1, <2>2
<1>2. CASE ~Complete(section)
    BY <1>2, LogtailAssumption DEF CheckpointTimes
<1> QED
    BY <1>1, <1>2

LEMMA TypeInit == Init => Types
<1> SUFFICES ASSUME Init PROVE Types
    OBVIOUS
<1>1. PICK file \in Configs : Read(file)
    BY DEF Init
<1>2. file \in Seq(Line)
    BY ConfAssumption
<1>3. Empty \in Section
    BY DEF Empty, Section
<1>4. NoModel \in [Name -> Section \cup {Absent}]
    BY DEF NoModel
<1>5. /\ checkpoint_time \in [Name -> Int]
      /\ threads \in [Name -> ThreadStates]
    BY DEF Init, Unset, NotStarted, ThreadStates
<1>6. runs \in 1..MaxRuns
    BY LogtailAssumption DEF Init
<1> QED
    BY <1>1, <1>2, <1>3, <1>4, <1>5, <1>6 DEF Init, Read, Types, Phases

(* The parser keeps the types of its variables. *)
ConfTypeOK ==
  /\ config \in Configs \cup Edited
  /\ raw_config \in Seq(Line)
  /\ model_name \in Name \cup {NoName}
  /\ values \in Section
  /\ models \in [Name -> Section \cup {Absent}]
  /\ parsing \in BOOLEAN

LEMMA SavedType == ConfTypeOK => Saved \in [Name -> Section \cup {Absent}]
  BY DEF ConfTypeOK, Saved

LEMMA ConfType == ConfTypeOK /\ ParseLine => ConfTypeOK'
<1> SUFFICES ASSUME ConfTypeOK, ParseLine PROVE ConfTypeOK'
    OBVIOUS
<1> USE DEF ConfTypeOK
<1>0. Empty \in Section /\ Saved \in [Name -> Section \cup {Absent}]
    BY SavedType DEF Empty, Section
<1>1. ASSUME NEW kind, NextLine(kind)
      PROVE  /\ Head(raw_config) \in Line
             /\ Head(raw_config).kind = kind
             /\ raw_config' \in Seq(Line)
             /\ config' = config
    BY <1>1 DEF NextLine
<1>2. CASE SkipLine
    BY <1>1, <1>2 DEF SkipLine
<1>3. CASE BadHeader
    BY <1>1, <1>3 DEF BadHeader
<1>4. CASE NewSection
  <2>1. NextLine("header")
        BY <1>4 DEF NewSection, NextSection
  <2>2. Head(raw_config).name \in Name \cup {NoName}
        BY <2>1, <1>1, LineKinds
  <2> QED
      BY <1>0, <1>1, <1>4, <2>1, <2>2 DEF NewSection, NextSection
<1>5. CASE KeyValue
  <2>1. NextLine("pair")
        BY <1>5 DEF KeyValue
  <2>2. Head(raw_config).key \in Key /\ Head(raw_config).val \in Value
        BY <2>1, <1>1, LineKinds
  <2>3. values' \in Section
        BY <2>2, <1>5 DEF KeyValue, Section
  <2> QED
      BY <1>1, <1>5, <2>1, <2>3 DEF KeyValue
<1>6. CASE EndOfFile
    BY <1>0, <1>6 DEF EndOfFile
<1> QED
    BY <1>2, <1>3, <1>4, <1>5, <1>6 DEF ParseLine

LEMMA TypeStep == Types /\ [Next]_vars => Types'
<1> SUFFICES ASSUME Types, [Next]_vars PROVE Types'
    OBVIOUS
<1> USE DEF Types, process, conf, Phases, ThreadStates
<1>1. CASE Parse
  <2>1. ConfTypeOK'
        BY <1>1, ConfType DEF Parse, ConfTypeOK
  <2> QED
      BY <1>1, <2>1 DEF Parse, ConfTypeOK
<1>2. CASE Loaded \/ Started \/ Exit \/ Stop
    BY <1>2 DEF Loaded, Started, Exit, ExitWhen, Stop
<1>3. CASE StartAgain
  <2>1. PICK file \in Edited : ReadAgain(file)
        BY <1>3 DEF StartAgain
  <2>2. file \in Seq(Line)
        BY LogtailAssumption
  <2>3. Empty \in Section /\ NoModel \in [Name -> Section \cup {Absent}]
        BY DEF Empty, Section, NoModel
  <2>4. /\ Unset \in [Name -> Int]
        /\ NotStarted \in [Name -> ThreadStates]
        BY DEF Unset, NotStarted
  <2>5. runs' \in 1..MaxRuns
        BY <1>3, LogtailAssumption DEF StartAgain
  <2> QED
      BY <1>3, <2>1, <2>2, <2>3, <2>4, <2>5 DEF StartAgain, ReadAgain
<1>4. ASSUME NEW n \in Name, Load(n) PROVE Types'
  <2>1. models[n] \in Section
        BY <1>4 DEF Load
  <2>2. PICK t \in CheckpointTimes(models[n]) :
          checkpoint_time' = [checkpoint_time EXCEPT ![n] = t]
        BY <1>4 DEF Load
  <2>3. t \in Int
        BY <2>1, TimesType
  <2> QED
      BY <1>4, <2>2, <2>3 DEF Load
<1>5. ASSUME NEW n \in Name, LoadCrashes(n) \/ JoinCrashes(n) \/ CheckpointCrashes(n)
      PROVE  Types'
    BY <1>5 DEF LoadCrashes, JoinCrashes, CheckpointCrashes, Crash
<1>6. ASSUME NEW n \in Name, Start(n) \/ Join(n) \/ OpenLog(n) \/ Checkpoint(n)
      PROVE  Types'
    BY <1>6 DEF Start, Join, OpenLog, Checkpoint
<1>7. CASE UNCHANGED vars
    BY <1>7 DEF vars
<1> QED
    BY <1>1, <1>2, <1>3, <1>4, <1>5, <1>6, <1>7 DEF Next

LEMMA TypesAlways == Spec => []Types
  BY TypeInit, TypeStep, PTL DEF Spec
-----------------------------------------------------------------------------
(* Why the process ends only as it does.                                   *)

(* A section is saved once: the one being read has no entry yet. *)
HeaderInv ==
  phase = "parse" /\ parsing /\ model_name # NoName => models[model_name] = Absent

(* Models and threads come after the parsing, one for each section. *)
PhaseInv ==
  /\ phase = "parse" => loaded = {}
  /\ phase \in {"parse", "load"} => threads = NotStarted /\ joined = {}
  /\ phase \in {"start", "join"} => loaded = Sections
  /\ loaded \subseteq Sections
  /\ \A n \in Name : threads[n] # "none" => n \in loaded

(* A thread that main has waited for is not at work. *)
JoinInv == \A n \in joined : threads[n] \in {"ended", "failed"}

ProcessInv ==
  Types /\ HeaderInv /\ PhaseInv /\ DivisorInv /\ JoinInv /\ CrashCauses /\ ExitsLast

LEMMA ProcessInit == Init => ProcessInv
<1> SUFFICES ASSUME Init PROVE ProcessInv
    OBVIOUS
<1>1. Types
    BY TypeInit
<1>2. model_name = NoName
    BY DEF Init, Read
<1> QED
    BY <1>1, <1>2 DEF Init, ProcessInv, HeaderInv, PhaseInv, DivisorInv, JoinInv,
                      CrashCauses, ExitsLast, NotStarted

LEMMA ParseStep == ProcessInv /\ Parse => ProcessInv'
<1> SUFFICES ASSUME ProcessInv, Parse PROVE ProcessInv'
    OBVIOUS
<1> USE DEF ProcessInv, process
<1>1. Types'
    BY TypeStep DEF Next
<1>2. /\ phase = "parse"
      /\ phase' \in {"parse", "load"}
      /\ phase' = "parse" => parsing'
      /\ ParseLine
    BY DEF Parse
<1>3. HeaderInv'
  <2>1. CASE SkipLine \/ BadHeader \/ KeyValue
      BY <1>2, <2>1 DEF HeaderInv, SkipLine, BadHeader, KeyValue, NextLine
  <2>2. CASE NewSection
      BY <1>2, <2>2 DEF HeaderInv, NewSection, NextSection
  <2>3. CASE EndOfFile
      BY <1>2, <2>3 DEF HeaderInv, EndOfFile
  <2> QED
      BY <1>2, <2>1, <2>2, <2>3 DEF ParseLine
<1>4. loaded' = {} /\ threads' = NotStarted /\ joined' = {}
    BY <1>2 DEF Parse, PhaseInv
<1>5. PhaseInv' /\ DivisorInv' /\ JoinInv'
    BY <1>2, <1>4 DEF PhaseInv, DivisorInv, JoinInv, NotStarted
<1>6. CrashCauses' /\ ExitsLast'
    BY <1>2 DEF CrashCauses, ExitsLast
<1> QED
    BY <1>1, <1>3, <1>5, <1>6

LEMMA ProcessStep == ProcessInv /\ [Next]_vars => ProcessInv'
<1> SUFFICES ASSUME ProcessInv, [Next]_vars PROVE ProcessInv'
    OBVIOUS
<1> USE DEF ProcessInv, process, conf
<1>0. Types'
    BY TypeStep
<1>1. CASE Parse
    BY <1>1, ParseStep
<1>2. CASE Loaded \/ Started
    BY <1>0, <1>2 DEF Loaded, Started, HeaderInv, PhaseInv, DivisorInv, JoinInv,
                      CrashCauses, ExitsLast
<1>3. CASE Exit
  <2>1. ExitsLast'
    <3> SUFFICES ASSUME NEW n \in Name PROVE threads[n] \notin {"opening", "polling"}
        BY <1>3 DEF Exit, ExitWhen, ExitsLast
    <3>1. joined = Sections
          BY <1>3 DEF Exit, ExitWhen
    <3>2. CASE n \in joined
        BY <3>2 DEF JoinInv
    <3>3. CASE n \notin joined
        BY <3>1, <3>3 DEF PhaseInv
    <3> QED
        BY <3>2, <3>3
  <2> QED
      BY <1>0, <1>3, <2>1 DEF Exit, ExitWhen, HeaderInv, PhaseInv, DivisorInv,
                              JoinInv, CrashCauses
<1>4. CASE Stop
    BY <1>0, <1>4 DEF Stop, Alive, HeaderInv, PhaseInv, DivisorInv, JoinInv,
                      CrashCauses, ExitsLast
<1>5. CASE StartAgain
  <2>1. /\ phase' = "parse" /\ loaded' = {} /\ joined' = {}
        /\ threads' = NotStarted /\ model_name' = NoName
        BY <1>5 DEF StartAgain, ReadAgain
  <2> QED
      BY <1>0, <2>1 DEF HeaderInv, PhaseInv, DivisorInv, JoinInv, CrashCauses,
                        ExitsLast, NotStarted
<1>6. ASSUME NEW n \in Name, Load(n) PROVE ProcessInv'
  <2>1. PICK t \in CheckpointTimes(models[n]) :
          checkpoint_time' = [checkpoint_time EXCEPT ![n] = t]
        BY <1>6 DEF Load
  <2>2. models[n] \in Section
        BY <1>6 DEF Load, Types
  <2>3. DivisorInv'
    <3> SUFFICES ASSUME NEW k \in loaded', Complete(models'[k])
                 PROVE  checkpoint_time'[k] > 0
        BY DEF DivisorInv
    <3>1. CASE k = n
        BY <1>6, <2>1, <2>2, <3>1, TimesType DEF Load, Types
    <3>2. CASE k # n
        BY <1>6, <2>1, <3>2 DEF Load, Types, DivisorInv
    <3> QED
        BY <3>1, <3>2
  <2> QED
      BY <1>0, <1>6, <2>3 DEF Load, HeaderInv, PhaseInv, JoinInv, CrashCauses,
                              ExitsLast, NotStarted
<1>7. ASSUME NEW n \in Name, LoadCrashes(n) \/ JoinCrashes(n) \/ CheckpointCrashes(n)
      PROVE  ProcessInv'
  <2>1. CrashCauses'
    <3>1. CASE LoadCrashes(n)
        BY <3>1 DEF LoadCrashes, Crash, CrashCauses
    <3>2. CASE JoinCrashes(n)
        BY <3>2 DEF JoinCrashes, Crash, CrashCauses
    <3>3. CASE CheckpointCrashes(n)
      <4>1. n \in loaded /\ n \in Sections
            BY <3>3 DEF CheckpointCrashes, PhaseInv
      <4>2. ~Complete(models[n])
            BY <3>3, <4>1 DEF CheckpointCrashes, DivisorInv
      <4> QED
          BY <3>3, <4>1, <4>2 DEF CheckpointCrashes, Crash, CrashCauses
    <3> QED
        BY <1>7, <3>1, <3>2, <3>3
  <2>2. phase' = "crashed" /\ UNCHANGED <<conf, reload, process, saved, runs>>
        BY <1>7 DEF LoadCrashes, JoinCrashes, CheckpointCrashes, Crash
  <2> QED
      BY <1>0, <2>1, <2>2 DEF HeaderInv, PhaseInv, DivisorInv, JoinInv, ExitsLast
<1>8. ASSUME NEW n \in Name, Start(n) PROVE ProcessInv'
  <2>1. /\ phase = "start" /\ phase' = "start"
        /\ n \in Sections /\ threads[n] = "none"
        /\ threads' = [threads EXCEPT ![n] = threads'[n]]
        /\ UNCHANGED <<conf, reload, loaded, checkpoint_time, joined, saved>>
        BY <1>8 DEF Start, Types
  <2> QED
      BY <1>0, <2>1 DEF HeaderInv, PhaseInv, DivisorInv, JoinInv, CrashCauses,
                        ExitsLast, Types
<1>9. ASSUME NEW n \in Name, Join(n) PROVE ProcessInv'
    BY <1>0, <1>9 DEF Join, HeaderInv, PhaseInv, DivisorInv, JoinInv, CrashCauses,
                      ExitsLast
<1>10. ASSUME NEW n \in Name, OpenLog(n) PROVE ProcessInv'
  <2>1. /\ phase \in {"start", "join"} /\ phase' = phase
        /\ threads[n] = "opening"
        /\ threads' = [threads EXCEPT ![n] = threads'[n]]
        /\ UNCHANGED <<conf, reload, loaded, checkpoint_time, joined, saved>>
        BY <1>10 DEF OpenLog, Alive, Types
  <2> QED
      BY <1>0, <2>1 DEF HeaderInv, PhaseInv, DivisorInv, JoinInv, CrashCauses,
                        ExitsLast, Types
<1>11. ASSUME NEW n \in Name, Checkpoint(n) PROVE ProcessInv'
    BY <1>0, <1>11 DEF Checkpoint, Alive, HeaderInv, PhaseInv, DivisorInv, JoinInv,
                       CrashCauses, ExitsLast
<1>12. CASE UNCHANGED vars
    BY <1>0, <1>12 DEF vars, HeaderInv, PhaseInv, DivisorInv, JoinInv, CrashCauses,
                       ExitsLast
<1> QED
    BY <1>1, <1>2, <1>3, <1>4, <1>5, <1>6, <1>7, <1>8, <1>9, <1>10, <1>11, <1>12
       DEF Next

LEMMA ProcessInvariant == Spec => []ProcessInv
  BY ProcessInit, ProcessStep, PTL DEF Spec

(* Whatever the files say, and however the process ends and starts again,  *)
(* every variable keeps its type, and the divisor of a model is positive   *)
(* unless a required key is missing, when it is as the memory held it      *)
(* (ModelRead::parseModel, main).                                          *)
THEOREM TypeCorrect == Spec => []TypeOK
<1>1. ProcessInv => TypeOK
    BY DEF ProcessInv, TypeOK
<1> QED
    BY <1>1, ProcessInvariant, PTL

(* The process crashes only for a missing key, a thread that could not be  *)
(* created or a missing checkpoint, whatever the files and the starts      *)
(* (main, write_checkpoint, Thread).                                       *)
THEOREM CrashesExplained == Spec => []CrashCauses
  BY ProcessInvariant, PTL DEF ProcessInv

(* main returns only when every thread has ended or was never created      *)
(* (mythread_join).                                                        *)
THEOREM MainIsLast == Spec => []ExitsLast
  BY ProcessInvariant, PTL DEF ProcessInv

LEMMA SectionStep ==
  ASSUME ProcessInv, [Next]_vars, phase = "parse",
         NEW n \in Name, models[n] # Absent
  PROVE  models'[n] = models[n]
<1> USE DEF ProcessInv
<1>1. CASE Parse
  <2>1. ParseLine
        BY <1>1 DEF Parse
  <2>2. CASE SkipLine \/ BadHeader \/ KeyValue
      BY <2>2 DEF SkipLine, BadHeader, KeyValue
  <2>3. CASE NewSection \/ EndOfFile
    <3>1. parsing /\ models' = Saved
          BY <2>3 DEF NewSection, NextSection, NextLine, EndOfFile
    <3>2. model_name # NoName => model_name # n
          BY <3>1 DEF HeaderInv
    <3> QED
        BY <3>1, <3>2 DEF Saved, Types
  <2> QED
      BY <2>1, <2>2, <2>3 DEF ParseLine
<1>2. CASE UNCHANGED vars
    BY <1>2 DEF vars, conf
<1> QED
    BY <1>1, <1>2 DEF Next, Loaded, Started, Exit, ExitWhen, Stop, Alive, StartAgain,
       Load, LoadCrashes, Start, Join, JoinCrashes, OpenLog, Checkpoint, CheckpointCrashes

(* No later line of a file changes a section that was read (conf::         *)
(* parseModel and its test for names that were there).                     *)
THEOREM SectionsStay == Spec => SectionKept
<1>1. ProcessInv /\ [Next]_vars
        => [phase = "parse" => \A n \in Name : models[n] # Absent => models'[n] = models[n]]_vars
    BY SectionStep
<1> QED
    BY <1>1, ProcessInvariant, PTL DEF Spec, SectionKept
-----------------------------------------------------------------------------
(* Why the models are what the file means.                                 *)

Contents(file, h, e) == [k \in Key |-> ValueIn(file, h, e, k)]

(* The sections that count, each as its header and its end. *)
Pieces(file) ==
  {p \in (1 .. Len(file)) \X (1 .. Len(file) + 1) : Counts(file, p[1], p[2])}

(* The map m has the sections that end by line e, and no other. *)
Means(file, m, e) ==
  \A n \in Name :
    \/ /\ m[n] = Absent
       /\ \A p \in Pieces(file) : p[2] <= e => file[p[1]].name # n
    \/ /\ m[n] # Absent
       /\ \E p \in Pieces(file) : /\ p[2] <= e
                                  /\ file[p[1]].name = n
                                  /\ m[n] = Contents(file, p[1], p[2])

(* The lines up to i have been looked at. *)
ReadTo(i) ==
  /\ i \in 0 .. Len(config)
  /\ Len(raw_config) = Len(config) - i
  /\ \A j \in 1 .. Len(raw_config) : raw_config[j] = config[i + j]

(* The section being read began at line h; the file began without one.     *)
ReadsSection(i, h) ==
  /\ h \in 0 .. i
  /\ h = 0 => model_name = NoName
  /\ h # 0 => IsHeader(config, h) /\ model_name = config[h].name
  /\ \A j \in h + 1 .. i : ~IsHeader(config, j)
  /\ values = Contents(config, h, i + 1)

(* The sections before it are in the map. *)
HasSections(i, h) ==
  /\ \A j \in 1..i : ~Stops(config, j)
  /\ Means(config, models, h)
  /\ \A j \in 1 .. h - 1 :
       IsHeader(config, j) /\ config[j].name # NoName
         => \E e \in j + 1 .. h : Counts(config, j, e)

Parsed(i, h) == ReadTo(i) /\ ReadsSection(i, h) /\ HasSections(i, h)

ParseInv ==
  /\ parsing => \E i, h \in Nat : Parsed(i, h)
  /\ ~parsing => models = Meaning(config)

LEMMA PieceIs ==
  ASSUME NEW file \in Seq(Line), NEW p \in Pieces(file)
  PROVE  /\ p = <<p[1], p[2]>>
         /\ p[1] \in 1 .. Len(file) /\ p[2] \in p[1] + 1 .. Len(file) + 1
         /\ Counts(file, p[1], p[2])
<1>1. /\ p \in (1 .. Len(file)) \X (1 .. Len(file) + 1)
      /\ Counts(file, p[1], p[2])
    BY DEF Pieces
<1>2. p[2] \in p[1] + 1 .. Len(file) + 1
    BY <1>1 DEF Counts, Extent
<1> QED
    BY <1>1, <1>2

LEMMA IsPiece ==
  ASSUME NEW file \in Seq(Line), NEW h \in 1 .. Len(file), NEW e,
         Counts(file, h, e)
  PROVE  <<h, e>> \in Pieces(file) /\ e \in h + 1 .. Len(file) + 1
<1>1. Len(file) \in Nat
    OBVIOUS
<1>2. e \in h + 1 .. Len(file) + 1
    BY DEF Counts, Extent
<1>3. e \in 1 .. Len(file) + 1
    BY <1>1, <1>2
<1> QED
    BY <1>2, <1>3 DEF Pieces

(* A name has one section that counts. *)
LEMMA OnePiece ==
  ASSUME NEW file \in Seq(Line), NEW p \in Pieces(file), NEW q \in Pieces(file),
         file[p[1]].name = file[q[1]].name
  PROVE  p = q
<1>0. /\ p = <<p[1], p[2]>> /\ q = <<q[1], q[2]>> /\ Len(file) \in Nat
      /\ p[1] \in 1 .. Len(file) /\ q[1] \in 1 .. Len(file)
      /\ p[2] \in p[1] + 1 .. Len(file) + 1
      /\ q[2] \in q[1] + 1 .. Len(file) + 1
      /\ Counts(file, p[1], p[2]) /\ Counts(file, q[1], q[2])
    BY PieceIs
<1>1. ASSUME NEW i \in 1 .. Len(file), NEW j \in 1 .. i - 1,
             IsHeader(file, i), IsHeader(file, j), file[i].name # NoName,
             file[j].name = file[i].name
      PROVE  Stops(file, i)
    BY <1>1 DEF Stops, Repeats
<1>2. ~(p[1] < q[1])
  <2> SUFFICES ASSUME p[1] < q[1] PROVE FALSE
      OBVIOUS
  <2>1. p[1] \in 1 .. q[1] - 1 /\ q[1] \in 1 .. q[1]
        BY <1>0
  <2> QED
      BY <1>0, <1>1, <2>1 DEF Counts
<1>3. ~(q[1] < p[1])
  <2> SUFFICES ASSUME q[1] < p[1] PROVE FALSE
      OBVIOUS
  <2>1. q[1] \in 1 .. p[1] - 1 /\ p[1] \in 1 .. p[1]
        BY <1>0
  <2> QED
      BY <1>0, <1>1, <2>1 DEF Counts
<1>4. p[1] = q[1]
    BY <1>0, <1>2, <1>3
<1>5. ~(p[2] < q[2])
  <2> SUFFICES ASSUME p[2] < q[2] PROVE FALSE
      OBVIOUS
  <2>1. p[2] \in q[1] + 1 .. q[2] - 1 /\ p[2] <= Len(file)
        BY <1>0, <1>4
  <2> QED
      BY <1>0, <2>1 DEF Counts, Extent
<1>6. ~(q[2] < p[2])
  <2> SUFFICES ASSUME q[2] < p[2] PROVE FALSE
      OBVIOUS
  <2>1. q[2] \in p[1] + 1 .. p[2] - 1 /\ q[2] <= Len(file)
        BY <1>0, <1>4
  <2> QED
      BY <1>0, <2>1 DEF Counts, Extent
<1> QED
    BY <1>0, <1>4, <1>5, <1>6

LEMMA MeansAll ==
  ASSUME NEW file \in Seq(Line), NEW m \in [Name -> Section \cup {Absent}],
         Means(file, m, Len(file) + 1)
  PROVE  m = Meaning(file)
<1> SUFFICES ASSUME NEW n \in Name PROVE m[n] = Meaning(file)[n]
    BY DEF Meaning
<1> DEFINE at == {p \in (1 .. Len(file)) \X (1 .. Len(file) + 1) :
                    Counts(file, p[1], p[2]) /\ file[p[1]].name = n}
<1>0. \A p : p \in at <=> p \in Pieces(file) /\ file[p[1]].name = n
    BY DEF Pieces
<1>1. Meaning(file)[n] = IF at = {} THEN Absent
                         ELSE LET p == CHOOSE p \in at : TRUE
                              IN  [k \in Key |-> ValueIn(file, p[1], p[2], k)]
    BY DEF Meaning
<1>2. CASE /\ m[n] = Absent
           /\ \A p \in Pieces(file) : p[2] <= Len(file) + 1 => file[p[1]].name # n
  <2>1. \A p \in Pieces(file) : p[2] <= Len(file) + 1
        BY PieceIs
  <2>2. at = {}
        BY <1>0, <1>2, <2>1
  <2> HIDE DEF at
  <2> QED
      BY <1>1, <1>2, <2>2
<1>3. CASE \E p \in Pieces(file) : /\ file[p[1]].name = n
                                   /\ m[n] = Contents(file, p[1], p[2])
  <2>1. PICK p \in Pieces(file) : /\ file[p[1]].name = n
                                  /\ m[n] = Contents(file, p[1], p[2])
        BY <1>3
  <2>2. p \in at /\ \A q \in at : q = p
        BY <1>0, <2>1, OnePiece
  <2> HIDE DEF at
  <2>3. (CHOOSE q \in at : TRUE) = p
        BY <2>2
  <2> QED
      BY <1>1, <2>1, <2>2, <2>3 DEF Contents
<1> QED
    BY <1>2, <1>3 DEF Means

(* If no section ends later, the map has all. *)
LEMMA MeansWider ==
  ASSUME NEW file \in Seq(Line), NEW m, NEW e \in Nat, Means(file, m, e),
         \A p \in Pieces(file) : p[2] <= e
  PROVE  Means(file, m, Len(file) + 1)
<1>1. \A p \in Pieces(file) : p[2] <= Len(file) + 1
    BY PieceIs
<1> QED
    BY <1>1 DEF Means

(* The largest number of a set is the one that is chosen. *)
LEMMA Largest ==
  ASSUME NEW S \in SUBSET Int, NEW i \in S, \A j \in S : j <= i
  PROVE  (CHOOSE n \in S : \A j \in S : j <= n) = i
<1>1. \A n \in S : (\A j \in S : j <= n) => n = i
  <2> SUFFICES ASSUME NEW n \in S, \A j \in S : j <= n PROVE n = i
      OBVIOUS
  <2>1. n \in Int /\ i \in Int /\ n <= i /\ i <= n
        OBVIOUS
  <2> QED
      BY <2>1
<1> QED
    BY <1>1

PairsOf(file, h, e, k) ==
  {i \in h + 1 .. e - 1 : file[i].kind = "pair" /\ file[i].key = k}

LEMMA NoLines == \A file, e : e \in Nat => Contents(file, e, e + 1) = Empty
<1> SUFFICES ASSUME NEW file, NEW e \in Nat, NEW k \in Key
             PROVE  ValueIn(file, e, e + 1, k) = Absent
    BY DEF Contents, Empty
<1>1. e + 1 .. e + 1 - 1 = {}
    OBVIOUS
<1> QED
    BY <1>1 DEF ValueIn

LastOf(file, at) ==
  IF at = {} THEN Absent ELSE file[CHOOSE i \in at : \A j \in at : j <= i].val

LEMMA ValueIs ==
  \A file, h, e, k : ValueIn(file, h, e, k) = LastOf(file, PairsOf(file, h, e, k))
  BY DEF ValueIn, LastOf, PairsOf

LEMMA OtherLine ==
  ASSUME NEW file, NEW h \in Nat, NEW e \in Nat, h < e, file[e].kind # "pair"
  PROVE  Contents(file, h, e + 1) = Contents(file, h, e)
<1> SUFFICES ASSUME NEW k \in Key
             PROVE  ValueIn(file, h, e + 1, k) = ValueIn(file, h, e, k)
    BY DEF Contents
<1>1. \A i : i \in h + 1 .. e + 1 - 1 <=> i \in h + 1 .. e - 1 \/ i = e
    OBVIOUS
<1>2. PairsOf(file, h, e + 1, k) = PairsOf(file, h, e, k)
  <2>1. ASSUME NEW i
        PROVE  i \in PairsOf(file, h, e + 1, k) <=> i \in PairsOf(file, h, e, k)
    <3>1. i \in h + 1 .. e + 1 - 1 <=> i \in h + 1 .. e - 1 \/ i = e
          BY <1>1
    <3> QED
        BY <3>1 DEF PairsOf
  <2> QED
      BY <2>1
<1>3. /\ ValueIn(file, h, e, k) = LastOf(file, PairsOf(file, h, e, k))
      /\ ValueIn(file, h, e + 1, k) = LastOf(file, PairsOf(file, h, e + 1, k))
    BY ValueIs
<1> QED
    BY <1>2, <1>3

LEMMA PairLine ==
  ASSUME NEW file, NEW h \in Nat, NEW e \in Nat, h < e, file[e].kind = "pair"
  PROVE  Contents(file, h, e + 1)
           = [Contents(file, h, e) EXCEPT ![file[e].key] = file[e].val]
<1> SUFFICES ASSUME NEW k \in Key
             PROVE  ValueIn(file, h, e + 1, k)
                      = IF k = file[e].key THEN file[e].val
                                           ELSE ValueIn(file, h, e, k)
    BY DEF Contents
<1>1. \A i : i \in h + 1 .. e + 1 - 1 <=> i \in h + 1 .. e - 1 \/ i = e
    OBVIOUS
<1>2. CASE k = file[e].key
  <2> DEFINE at == PairsOf(file, h, e + 1, k)
  <2>1. at \in SUBSET Int /\ e \in at /\ \A j \in at : j <= e
    <3>1. \A j \in at : j \in h + 1 .. e + 1 - 1
          BY DEF PairsOf
    <3>2. e \in at
          BY <1>1, <1>2 DEF PairsOf
    <3> QED
        BY <3>1, <3>2
  <2>2. ValueIn(file, h, e + 1, k)
          = IF at = {} THEN Absent
            ELSE file[CHOOSE i \in at : \A j \in at : j <= i].val
        BY ValueIs DEF LastOf
  <2> HIDE DEF at
  <2>3. (CHOOSE i \in at : \A j \in at : j <= i) = e
        BY <2>1, Largest
  <2> QED
      BY <1>2, <2>1, <2>2, <2>3
<1>3. CASE k # file[e].key
  <2>0. ASSUME NEW i
        PROVE  i \in PairsOf(file, h, e + 1, k) <=> i \in PairsOf(file, h, e, k)
    <3>1. i \in h + 1 .. e + 1 - 1 <=> i \in h + 1 .. e - 1 \/ i = e
          BY <1>1
    <3> QED
        BY <1>3, <3>1 DEF PairsOf
  <2>1. PairsOf(file, h, e + 1, k) = PairsOf(file, h, e, k)
        BY <2>0
  <2>2. /\ ValueIn(file, h, e, k) = LastOf(file, PairsOf(file, h, e, k))
        /\ ValueIn(file, h, e + 1, k) = LastOf(file, PairsOf(file, h, e + 1, k))
        BY ValueIs
  <2> QED
      BY <1>3, <2>1, <2>2
<1> QED
    BY <1>2, <1>3

(* A section that ends while line e is read is the one being read. *)
LEMMA EndsBy ==
  ASSUME NEW file \in Seq(Line), NEW h \in Nat, NEW e \in h + 1 .. Len(file) + 1,
         h # 0 => IsHeader(file, h),
         \A i \in h + 1 .. e - 1 : ~IsHeader(file, i),
         \A i \in 1 .. e - 1 : ~Stops(file, i),
         NEW p \in Pieces(file), p[2] <= e
  PROVE  p[2] <= h \/ p = <<h, e>>
<1>0. /\ p = <<p[1], p[2]>> /\ Len(file) \in Nat
      /\ p[1] \in 1 .. Len(file) /\ p[2] \in p[1] + 1 .. Len(file) + 1
      /\ Counts(file, p[1], p[2])
    BY PieceIs
<1> SUFFICES ASSUME ~(p[2] <= h) PROVE p = <<h, e>>
    OBVIOUS
<1>1. p[1] <= h
    BY <1>0 DEF Counts
<1>2. p[2] = e
  <2> SUFFICES ASSUME p[2] # e PROVE FALSE
      OBVIOUS
  <2>1. /\ p[2] \in h + 1 .. e - 1 /\ p[2] \in 1 .. e - 1
        /\ p[2] <= Len(file)
        BY <1>0
  <2> QED
      BY <1>0, <2>1 DEF Counts, Extent
<1>3. p[1] = h
  <2> SUFFICES ASSUME p[1] # h PROVE FALSE
      OBVIOUS
  <2>1. h \in p[1] + 1 .. p[2] - 1 /\ h # 0
        BY <1>0, <1>1, <1>2
  <2> QED
      BY <1>0, <2>1 DEF Counts, Extent
<1> QED
    BY <1>0, <1>2, <1>3

(* No section that counts goes beyond the line at which the parsing ends. *)
LEMMA StopsAt ==
  ASSUME NEW file \in Seq(Line), NEW i \in 1 .. Len(file), Stops(file, i),
         NEW p \in Pieces(file)
  PROVE  p[2] <= i
<1>0. /\ Len(file) \in Nat
      /\ p[1] \in 1 .. Len(file) /\ p[2] \in p[1] + 1 .. Len(file) + 1
      /\ Counts(file, p[1], p[2])
    BY PieceIs
<1> SUFFICES ASSUME ~(p[2] <= i) PROVE FALSE
    OBVIOUS
<1>1. i \in 1 .. p[1] \/ i \in p[1] + 1 .. p[2] - 1
    BY <1>0
<1> QED
    BY <1>0, <1>1 DEF Counts, Extent

(* Where the parser is. *)
LEMMA Place ==
  ASSUME ConfTypeOK, NEW i \in Nat, NEW h \in Nat, Parsed(i, h)
  PROVE  /\ config \in Seq(Line) /\ Len(config) \in Nat
         /\ i \in 0 .. Len(config) /\ h \in 0 .. i
         /\ i + 1 \in h + 1 .. Len(config) + 1 /\ i + 1 - 1 = i
<1>1. config \in Seq(Line)
    BY ConfAssumption, LogtailAssumption DEF ConfTypeOK
<1>2. Len(config) \in Nat
    BY <1>1
<1>3. i \in 0 .. Len(config) /\ h \in 0 .. i
    BY DEF Parsed, ReadTo, ReadsSection
<1> QED
    BY <1>1, <1>2, <1>3

(* The section being read counts if it can end here. *)
LEMMA EndsHere ==
  ASSUME ConfTypeOK, NEW i \in Nat, NEW h \in Nat, Parsed(i, h),
         h # 0, model_name # NoName,
         i + 1 <= Len(config) => IsHeader(config, i + 1)
  PROVE  Counts(config, h, i + 1)
<1>1. /\ Len(config) \in Nat /\ i \in 0 .. Len(config) /\ h \in 0 .. i
      /\ i + 1 \in h + 1 .. Len(config) + 1 /\ i + 1 - 1 = i
    BY Place
<1>2. \A j \in h + 1 .. i + 1 - 1 : ~IsHeader(config, j) /\ ~Stops(config, j)
    BY <1>1 DEF Parsed, ReadsSection, HasSections
<1>3. \A j \in 1 .. h : ~Stops(config, j)
    BY <1>1 DEF Parsed, HasSections
<1>4. IsHeader(config, h) /\ config[h].name # NoName
    BY DEF Parsed, ReadsSection
<1> QED
    BY <1>1, <1>2, <1>3, <1>4 DEF Counts, Extent

(* So does every section before it. *)
LEMMA AllEnded ==
  ASSUME ConfTypeOK, NEW i \in Nat, NEW h \in Nat, Parsed(i, h),
         i + 1 <= Len(config) => IsHeader(config, i + 1),
         NEW j \in 1 .. i, IsHeader(config, j), config[j].name # NoName
  PROVE  \E e \in j + 1 .. i + 1 : Counts(config, j, e)
<1>1. /\ Len(config) \in Nat /\ i \in 0 .. Len(config) /\ h \in 0 .. i
      /\ i + 1 \in h + 1 .. Len(config) + 1 /\ i + 1 - 1 = i
    BY Place
<1>2. j <= h
    BY <1>1 DEF Parsed, ReadsSection
<1>3. CASE j = h
  <2>1. model_name # NoName /\ h # 0
        BY <1>3 DEF Parsed, ReadsSection
  <2>2. Counts(config, h, i + 1)
        BY <2>1, EndsHere
  <2>3. i + 1 \in j + 1 .. i + 1
        BY <1>1, <1>3
  <2> QED
      BY <1>3, <2>2, <2>3
<1>4. CASE j # h
  <2>1. j \in 1 .. h - 1
        BY <1>1, <1>2, <1>4
  <2>2. PICK e \in j + 1 .. h : Counts(config, j, e)
        BY <2>1 DEF Parsed, HasSections
  <2>3. e \in j + 1 .. i + 1
        BY <1>1
  <2> QED
      BY <2>2, <2>3
<1> QED
    BY <1>3, <1>4

(* What Saved is at the end of a section. *)
LEMMA SavedMeans ==
  ASSUME ConfTypeOK, NEW i \in Nat, NEW h \in Nat, Parsed(i, h),
         i + 1 <= Len(config) => IsHeader(config, i + 1)
  PROVE  Means(config, Saved, i + 1)
<1>1. /\ config \in Seq(Line) /\ Len(config) \in Nat
      /\ i \in 0 .. Len(config) /\ h \in 0 .. i
      /\ i + 1 \in h + 1 .. Len(config) + 1 /\ i + 1 - 1 = i
    BY Place
<1>2. /\ h # 0 => IsHeader(config, h)
      /\ \A j \in h + 1 .. i + 1 - 1 : ~IsHeader(config, j)
      /\ \A j \in 1 .. i + 1 - 1 : ~Stops(config, j)
    BY <1>1 DEF Parsed, ReadsSection, HasSections
<1>3. \A p \in Pieces(config) : p[2] <= i + 1 => p[2] <= h \/ p = <<h, i + 1>>
    BY <1>1, <1>2, EndsBy
<1>4. \A p \in Pieces(config) : p[1] # 0 /\ p[2] \in Int
    BY <1>1, PieceIs
<1> SUFFICES ASSUME NEW n \in Name
             PROVE  \/ /\ Saved[n] = Absent
                       /\ \A p \in Pieces(config) :
                            p[2] <= i + 1 => config[p[1]].name # n
                    \/ /\ Saved[n] # Absent
                       /\ \E p \in Pieces(config) :
                            /\ p[2] <= i + 1
                            /\ config[p[1]].name = n
                            /\ Saved[n] = Contents(config, p[1], p[2])
    BY DEF Means
<1>5. CASE model_name = n
  <2>1. n # NoName /\ h # 0 /\ config[h].name = n
        BY <1>5, ConfAssumption DEF Parsed, ReadsSection
  <2>2. Counts(config, h, i + 1) /\ h \in 1 .. Len(config)
        BY <1>1, <1>5, <2>1, EndsHere
  <2>3. <<h, i + 1>> \in Pieces(config)
        BY <1>1, <2>2, IsPiece
  <2>4. Saved[n] = values
        BY <1>5, <2>1 DEF Saved, ConfTypeOK
  <2>5. Saved[n] # Absent
        BY <2>4, ConfAssumption DEF ConfTypeOK
  <2>6. Saved[n] = Contents(config, h, i + 1)
        BY <2>4 DEF Parsed, ReadsSection
  <2> QED
      BY <1>1, <2>1, <2>3, <2>5, <2>6
<1>6. CASE model_name # n
  <2>1. Saved[n] = models[n]
        BY <1>6 DEF Saved, ConfTypeOK
  <2>2. <<h, i + 1>> \in Pieces(config) => config[h].name # n
        BY <1>4, <1>6 DEF Parsed, ReadsSection
  <2>3. CASE /\ models[n] = Absent
             /\ \A p \in Pieces(config) : p[2] <= h => config[p[1]].name # n
      BY <1>3, <2>1, <2>2, <2>3
  <2>4. CASE /\ models[n] # Absent
             /\ \E p \in Pieces(config) : /\ p[2] <= h
                                          /\ config[p[1]].name = n
                                          /\ models[n] = Contents(config, p[1], p[2])
    <3>1. PICK p \in Pieces(config) : /\ p[2] <= h
                                      /\ config[p[1]].name = n
                                      /\ models[n] = Contents(config, p[1], p[2])
          BY <2>4
    <3>2. p[2] <= i + 1
          BY <1>1, <1>4, <3>1
    <3> QED
        BY <2>1, <2>4, <3>1, <3>2
  <2> QED
      BY <2>3, <2>4 DEF Parsed, HasSections, Means
<1> QED
    BY <1>5, <1>6

(* The line looked at, and the place after it. *)
LEMMA ReadOn ==
  ASSUME ConfTypeOK, NEW i \in Nat, NEW h \in Nat, Parsed(i, h),
         NEW kind, NextLine(kind)
  PROVE  /\ i + 1 \in 1 .. Len(config) /\ i + 1 <= Len(config)
         /\ config[i + 1] = Head(raw_config) /\ config[i + 1].kind = kind
         /\ ReadTo(i + 1)' /\ config' = config
<1>1. /\ Len(config) \in Nat /\ i \in 0 .. Len(config)
      /\ raw_config \in Seq(Line)
    BY Place DEF ConfTypeOK
<1>2. /\ raw_config # <<>> /\ raw_config' = Tail(raw_config) /\ config' = config
      /\ Head(raw_config).kind = kind
    BY DEF NextLine
<1>3. /\ Len(raw_config) \in Nat /\ Len(raw_config) > 0
      /\ Len(raw_config') = Len(raw_config) - 1
      /\ Head(raw_config) = raw_config[1]
      /\ \A j \in 1 .. Len(raw_config') : raw_config'[j] = raw_config[j + 1]
    BY <1>1, <1>2
<1>4. Len(raw_config) = Len(config) - i
    BY DEF Parsed, ReadTo
<1>5. i + 1 \in 1 .. Len(config) /\ i + 1 <= Len(config) /\ i + 1 \in 0 .. Len(config)
    BY <1>1, <1>3, <1>4
<1>6. \A j \in 1 .. Len(raw_config) : raw_config[j] = config[i + j]
    BY DEF Parsed, ReadTo
<1>7. config[i + 1] = Head(raw_config)
    BY <1>3, <1>6
<1>8. Len(raw_config') = Len(config) - (i + 1)
    BY <1>1, <1>3, <1>4
<1>9. ASSUME NEW j \in 1 .. Len(raw_config')
      PROVE  raw_config'[j] = config[i + 1 + j]
  <2>1. j + 1 \in 1 .. Len(raw_config) /\ i + (j + 1) = i + 1 + j
        BY <1>1, <1>3
  <2> QED
      BY <1>3, <1>6, <2>1
<1>10. ReadTo(i + 1)'
    BY <1>2, <1>5, <1>8, <1>9 DEF ReadTo
<1> QED
    BY <1>2, <1>5, <1>7, <1>10

(* A line within a section leaves the section where it is. *)
LEMMA StaysIn ==
  ASSUME ConfTypeOK, NEW i \in Nat, NEW h \in Nat, Parsed(i, h),
         NEW kind \in {"idle", "pair"}, NextLine(kind),
         model_name' = model_name, models' = models,
         values' = Contents(config, h, i + 1 + 1)
  PROVE  Parsed(i + 1, h)'
<1>1. /\ config' = config /\ ReadTo(i + 1)' /\ config[i + 1].kind = kind
      /\ i + 1 \in 1 .. Len(config)
    BY ReadOn
<1>2. Len(config) \in Nat /\ i \in 0 .. Len(config) /\ h \in 0 .. i
    BY Place
<1>3. ~IsHeader(config, i + 1) /\ ~Stops(config, i + 1)
    BY <1>1 DEF Stops, Repeats, IsHeader
<1>4. h \in 0 .. i + 1
    BY <1>2
<1>5. ASSUME NEW j \in h + 1 .. i + 1 PROVE ~IsHeader(config, j)
  <2>1. j \in h + 1 .. i \/ j = i + 1
        BY <1>2
  <2> QED
      BY <1>3, <2>1 DEF Parsed, ReadsSection
<1>6. ASSUME NEW j \in 1 .. i + 1 PROVE ~Stops(config, j)
  <2>1. j \in 1 .. i \/ j = i + 1
        BY <1>2
  <2> QED
      BY <1>3, <2>1 DEF Parsed, HasSections
<1>7. ReadsSection(i + 1, h)'
    BY <1>1, <1>4, <1>5 DEF Parsed, ReadsSection
<1>8. HasSections(i + 1, h)'
    BY <1>1, <1>6 DEF Parsed, HasSections
<1> QED
    BY <1>1, <1>7, <1>8 DEF Parsed

LEMMA SkipParsed ==
  ASSUME ConfTypeOK, NEW i \in Nat, NEW h \in Nat, Parsed(i, h), SkipLine
  PROVE  Parsed(i + 1, h)'
<1>1. /\ NextLine("idle")
      /\ model_name' = model_name /\ models' = models /\ values' = values
    BY DEF SkipLine
<1>2. config[i + 1].kind # "pair"
    BY <1>1, ReadOn
<1>3. i + 1 \in Nat /\ h < i + 1
    BY Place
<1>4. Contents(config, h, i + 1 + 1) = Contents(config, h, i + 1)
    BY <1>2, <1>3, OtherLine
<1>5. values = Contents(config, h, i + 1)
    BY DEF Parsed, ReadsSection
<1>6. values' = Contents(config, h, i + 1 + 1)
    BY <1>1, <1>4, <1>5
<1> QED
    BY <1>1, <1>6, StaysIn

LEMMA PairParsed ==
  ASSUME ConfTypeOK, NEW i \in Nat, NEW h \in Nat, Parsed(i, h), KeyValue
  PROVE  Parsed(i + 1, h)'
<1>1. /\ NextLine("pair")
      /\ model_name' = model_name /\ models' = models
      /\ values' = [values EXCEPT ![Head(raw_config).key] = Head(raw_config).val]
    BY DEF KeyValue
<1>2. config[i + 1].kind = "pair" /\ config[i + 1] = Head(raw_config)
    BY <1>1, ReadOn
<1>3. i + 1 \in Nat /\ h < i + 1
    BY Place
<1>4. Contents(config, h, i + 1 + 1)
        = [Contents(config, h, i + 1) EXCEPT ![config[i + 1].key] = config[i + 1].val]
    BY <1>2, <1>3, PairLine
<1>5. values = Contents(config, h, i + 1)
    BY DEF Parsed, ReadsSection
<1>6. values' = Contents(config, h, i + 1 + 1)
    BY <1>1, <1>2, <1>4, <1>5
<1> QED
    BY <1>1, <1>6, StaysIn

(* Every section that counts is in the map when a header without a ]       *)
(* stops the parsing.                                                      *)
LEMMA BadParsed ==
  ASSUME ConfTypeOK, NEW i \in Nat, NEW h \in Nat, Parsed(i, h), BadHeader
  PROVE  models = Meaning(config)
<1>1. /\ config[i + 1].kind = "unclosed" /\ i + 1 \in 1 .. Len(config)
      /\ i + 1 <= Len(config)
    BY ReadOn DEF BadHeader
<1>2. /\ config \in Seq(Line) /\ Len(config) \in Nat
      /\ i \in 0 .. Len(config) /\ h \in 0 .. i
      /\ i + 1 \in h + 1 .. Len(config) + 1 /\ i + 1 - 1 = i
    BY Place
<1>3. Stops(config, i + 1) /\ ~IsHeader(config, i + 1)
    BY <1>1 DEF Stops, IsHeader
<1>4. /\ h # 0 => IsHeader(config, h)
      /\ \A j \in h + 1 .. i + 1 - 1 : ~IsHeader(config, j)
      /\ \A j \in 1 .. i + 1 - 1 : ~Stops(config, j)
    BY <1>2 DEF Parsed, ReadsSection, HasSections
<1>5. ASSUME NEW p \in Pieces(config) PROVE p[2] <= h
  <2>1. p[2] <= i + 1
        BY <1>1, <1>2, <1>3, StopsAt
  <2>2. p[2] # i + 1
        BY <1>1, <1>2, <1>3, PieceIs DEF Counts
  <2> QED
      BY <1>2, <1>4, <2>1, <2>2, EndsBy
<1>6. Means(config, models, h)
    BY DEF Parsed, HasSections
<1>7. Means(config, models, Len(config) + 1)
    BY <1>2, <1>5, <1>6, MeansWider
<1> QED
    BY <1>2, <1>7, MeansAll DEF ConfTypeOK

LEMMA EndParsed ==
  ASSUME ConfTypeOK, NEW i \in Nat, NEW h \in Nat, Parsed(i, h), EndOfFile
  PROVE  Saved = Meaning(config)
<1>1. /\ config \in Seq(Line) /\ Len(config) \in Nat /\ i \in 0 .. Len(config)
    BY Place
<1>2. Len(config) = i
    BY <1>1 DEF EndOfFile, Parsed, ReadTo
<1>3. Means(config, Saved, i + 1)
    BY <1>1, <1>2, SavedMeans
<1> QED
    BY <1>1, <1>2, <1>3, MeansAll, SavedType

(* A new header begins a section, unless its name is in the map, which is  *)
(* then what the file means.                                               *)
LEMMA HeaderParsed ==
  ASSUME ConfTypeOK, NEW i \in Nat, NEW h \in Nat, Parsed(i, h), NewSection
  PROVE  /\ parsing' => Parsed(i + 1, i + 1)'
         /\ ~parsing' => Saved = Meaning(config)
<1> DEFINE n == config[i + 1].name
<1>1. /\ NextLine("header") /\ models' = Saved /\ values' = Empty
      /\ model_name' = Head(raw_config).name
      /\ parsing' = (model_name' = NoName \/ models'[model_name'] = Absent)
    BY DEF NewSection, NextSection
<1>2. /\ config' = config /\ ReadTo(i + 1)' /\ config[i + 1].kind = "header"
      /\ i + 1 \in 1 .. Len(config) /\ i + 1 <= Len(config)
      /\ config[i + 1] = Head(raw_config)
    BY <1>1, ReadOn
<1>3. /\ config \in Seq(Line) /\ Len(config) \in Nat
      /\ i \in 0 .. Len(config) /\ h \in 0 .. i /\ i + 1 - 1 = i
      /\ i + 1 \in Nat
    BY Place
<1>4. n \in Name \cup {NoName}
  <2>1. config[i + 1] \in Line
        BY <1>2, <1>3
  <2> QED
      BY <1>2, <2>1, LineKinds
<1>5. IsHeader(config, i + 1) /\ Means(config, Saved, i + 1)
  <2>1. IsHeader(config, i + 1)
        BY <1>2 DEF IsHeader
  <2> QED
      BY <2>1, SavedMeans
<1>6. parsing' = (n = NoName \/ Saved[n] = Absent)
    BY <1>1, <1>2
<1>7. CASE n = NoName \/ Saved[n] = Absent
  <2>1. ~Stops(config, i + 1)
    <3> SUFFICES ASSUME Stops(config, i + 1) PROVE FALSE
        OBVIOUS
    <3>1. /\ n # NoName /\ Saved[n] = Absent /\ n \in Name
          BY <1>2, <1>4, <1>7 DEF Stops, Repeats
    <3>2. PICK j \in 1 .. i : IsHeader(config, j) /\ config[j].name = n
          BY <1>2, <1>3 DEF Stops, Repeats
    <3>3. PICK e \in j + 1 .. i + 1 : Counts(config, j, e)
          BY <1>5, <3>1, <3>2, AllEnded
    <3>4. j \in 1 .. Len(config)
          BY <1>3
    <3>5. <<j, e>> \in Pieces(config) /\ e <= i + 1
          BY <1>3, <3>3, <3>4, IsPiece
    <3> QED
        BY <1>5, <3>1, <3>2, <3>5 DEF Means
  <2>2. ASSUME NEW j \in 1 .. i + 1 PROVE ~Stops(config, j)
    <3>1. j \in 1 .. i \/ j = i + 1
          BY <1>3
    <3> QED
        BY <2>1, <3>1 DEF Parsed, HasSections
  <2>3. ASSUME NEW j \in 1 .. i + 1 - 1, IsHeader(config, j), config[j].name # NoName
        PROVE  \E e \in j + 1 .. i + 1 : Counts(config, j, e)
        BY <1>3, <1>5, <2>3, AllEnded
  <2>4. HasSections(i + 1, i + 1)'
        BY <1>1, <1>2, <1>5, <2>2, <2>3 DEF HasSections
  <2>5. values' = Contents(config, i + 1, i + 1 + 1)
        BY <1>1, <1>3, NoLines
  <2>6. i + 1 \in 0 .. i + 1 /\ i + 1 # 0 /\ i + 1 + 1 .. i + 1 = {}
        BY <1>3
  <2>7. ReadsSection(i + 1, i + 1)'
        BY <1>1, <1>2, <1>5, <2>5, <2>6 DEF ReadsSection
  <2> QED
      BY <1>2, <1>6, <1>7, <2>4, <2>7 DEF Parsed
<1>8. CASE ~(n = NoName \/ Saved[n] = Absent)
  <2>1. PICK p \in Pieces(config) : p[2] <= i + 1 /\ config[p[1]].name = n
        BY <1>4, <1>5, <1>8 DEF Means
  <2>2. /\ p[1] \in 1 .. Len(config) /\ p[2] \in p[1] + 1 .. Len(config) + 1
        /\ Counts(config, p[1], p[2])
        BY <1>3, PieceIs
  <2>3. p[1] \in 1 .. i + 1 - 1
        BY <1>3, <2>1, <2>2
  <2>4. Stops(config, i + 1)
        BY <1>5, <1>8, <2>1, <2>2, <2>3 DEF Counts, Stops, Repeats
  <2>5. \A q \in Pieces(config) : q[2] <= i + 1
        BY <1>2, <1>3, <2>4, StopsAt
  <2>6. Means(config, Saved, Len(config) + 1)
        BY <1>3, <1>5, <2>5, MeansWider
  <2>7. Saved = Meaning(config)
        BY <1>3, <2>6, MeansAll, SavedType
  <2> QED
      BY <1>6, <1>8, <2>7
<1> QED
    BY <1>7, <1>8

(* Nothing has been read of a file. *)
LEMMA StartsParsed ==
  ASSUME NEW file \in Configs \cup Edited
  PROVE  Read(file) => ParseInv
<1> SUFFICES ASSUME Read(file) PROVE ParseInv
    OBVIOUS
<1>1. file \in Seq(Line) /\ Len(file) \in Nat
    BY ConfAssumption, LogtailAssumption
<1>2. ReadTo(0)
  <2>1. \A j \in 1 .. Len(file) : 0 + j = j
        OBVIOUS
  <2> QED
      BY <1>1, <2>1 DEF ReadTo, Read
<1>3. 0 + 1 .. 0 = {} /\ 1 .. 0 = {} /\ 1 .. 0 - 1 = {} /\ 0 \in 0 .. 0
    OBVIOUS
<1>4. Contents(file, 0, 0 + 1) = Empty
    BY NoLines
<1>5. ReadsSection(0, 0)
    BY <1>3, <1>4 DEF ReadsSection, Read
<1>6. \A p \in Pieces(file) : ~(p[2] <= 0)
    BY <1>1, PieceIs
<1>7. Means(file, NoModel, 0)
    BY <1>6 DEF Means, NoModel
<1>8. HasSections(0, 0)
    BY <1>3, <1>7 DEF HasSections, Read
<1>9. Parsed(0, 0)
    BY <1>2, <1>5, <1>8 DEF Parsed
<1> QED
    BY <1>9 DEF ParseInv, Read

LEMMA ParseLineRight == ConfTypeOK /\ ParseInv /\ ParseLine => ParseInv'
<1> SUFFICES ASSUME ConfTypeOK, ParseInv, ParseLine PROVE ParseInv'
    OBVIOUS
<1>1. parsing
    BY DEF ParseLine, SkipLine, BadHeader, NewSection, NextSection, KeyValue,
           EndOfFile, NextLine
<1>2. PICK i \in Nat, h \in Nat : Parsed(i, h)
    BY <1>1 DEF ParseInv
<1>3. i + 1 \in Nat
    OBVIOUS
<1>4. CASE SkipLine
  <2>1. parsing' /\ Parsed(i + 1, h)'
        BY <1>1, <1>2, <1>4, SkipParsed DEF SkipLine
  <2> QED
      BY <1>3, <2>1 DEF ParseInv
<1>5. CASE KeyValue
  <2>1. parsing' /\ Parsed(i + 1, h)'
        BY <1>1, <1>2, <1>5, PairParsed DEF KeyValue
  <2> QED
      BY <1>3, <2>1 DEF ParseInv
<1>6. CASE NewSection
  <2>1. /\ parsing' => Parsed(i + 1, i + 1)'
        /\ ~parsing' => Saved = Meaning(config)
        BY <1>2, <1>6, HeaderParsed
  <2>2. models' = Saved /\ config' = config
        BY <1>6 DEF NewSection, NextSection, NextLine
  <2> QED
      BY <1>3, <2>1, <2>2 DEF ParseInv
<1>7. CASE BadHeader
  <2>1. models' = models /\ config' = config /\ ~parsing'
        BY <1>7 DEF BadHeader, NextLine
  <2>2. models = Meaning(config)
        BY <1>2, <1>7, BadParsed
  <2> QED
      BY <2>1, <2>2 DEF ParseInv
<1>8. CASE EndOfFile
  <2>1. models' = Saved /\ config' = config /\ ~parsing'
        BY <1>8 DEF EndOfFile
  <2>2. Saved = Meaning(config)
        BY <1>2, <1>8, EndParsed
  <2> QED
      BY <2>1, <2>2 DEF ParseInv
<1> QED
    BY <1>4, <1>5, <1>6, <1>7, <1>8 DEF ParseLine

LEMMA SameParsed == UNCHANGED conf /\ ParseInv => ParseInv'
<1> SUFFICES ASSUME UNCHANGED conf, ParseInv PROVE ParseInv'
    OBVIOUS
<1>1. /\ config' = config /\ raw_config' = raw_config /\ model_name' = model_name
      /\ values' = values /\ models' = models /\ parsing' = parsing
    BY DEF conf
<1> QED
    BY <1>1 DEF ParseInv, Parsed, ReadTo, ReadsSection, HasSections

LEMMA RightStep == Types /\ ParseInv /\ [Next]_vars => ParseInv'
<1>0. (\A file \in Configs \cup Edited : Read(file) => ParseInv)'
  <2>1. \A file \in Configs \cup Edited : Read(file) => ParseInv
        BY StartsParsed
  <2> QED
      BY <2>1, PTL
<1> SUFFICES ASSUME Types, ParseInv, [Next]_vars PROVE ParseInv'
    OBVIOUS
<1>1. CASE Parse
    BY <1>1, ParseLineRight DEF Parse, Types, ConfTypeOK
<1>2. CASE StartAgain
  <2>1. PICK file \in Edited : ReadAgain(file)
        BY <1>2 DEF StartAgain
  <2>2. Read(file)'
        BY <2>1 DEF Read, ReadAgain
  <2> QED
      BY <1>0, <2>1, <2>2
<1>3. CASE UNCHANGED conf
    BY <1>3, SameParsed
<1> QED
    BY <1>1, <1>2, <1>3 DEF vars, conf, Next, Loaded, Started, Exit, ExitWhen, Stop,
       Load, LoadCrashes, Crash, Start, Join, JoinCrashes, OpenLog, Checkpoint,
       CheckpointCrashes

(* Whatever the configuration file and however often it is read, the       *)
(* models are those the file means (conf::parseModel).                     *)
THEOREM ConfigurationRead == Spec => []ParsedRight
<1>1. Init => ParseInv
    BY StartsParsed DEF Init
<1>2. ParseInv => ParsedRight
    BY DEF ParseInv, ParsedRight
<1> QED
    BY <1>1, <1>2, RightStep, TypesAlways, PTL DEF Spec
=============================================================================
