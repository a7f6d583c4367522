------------------------------- MODULE Logtail -------------------------------
(***************************************************************************)
(* The process (thread.cpp): main reads the configuration (Conf), fills in *)
(* one ModelRead per section, with -r also its checkpoint, starts a thread *)
(* for each and waits for all.  What the threads do afterwards is Tailer;  *)
(* here they only open their log and write their checkpoint, and one that  *)
(* crashes takes the others along.  The operator stops the process, edits  *)
(* the configuration and starts it again.                                  *)
(***************************************************************************)
EXTENDS Conf

CONSTANTS
  Edited,   \* the configuration files there may be at a later start
  NaN,      \* stands for: a value that does not begin with a number
  Garbage,  \* what a number may hold if nothing was assigned to it
  MaxRuns   \* how often the process is started (bound)

ASSUME LogtailAssumption ==
  /\ Garbage \subseteq Int
  /\ NaN \notin Int
  /\ Edited \subseteq Seq(Line)
  /\ "checkpoint_time" \in Key
  /\ MaxRuns \in Nat \ {0}
  /\ Value \subseteq Int \cup {NaN}

VARIABLES
  phase,           \* where main is: see Phases
  reload,          \* started with -r
  loaded,          \* the sections whose ModelRead is filled in
  checkpoint_time, \* of each ModelRead
  threads,         \* of each section: see ThreadStates
  joined,          \* the threads main has waited for
  saved,           \* the models that have a checkpoint file
  runs             \* how often the process was started

vars == <<conf, phase, reload, loaded, checkpoint_time, threads, joined, saved,
          runs>>

(* "parse" parseConfig   "load" the loop that fills in the models
   "start" the threads are started   "join" main waits for them
   "exited" main has returned   "crashed" a signal ended the process
   "stopped" the operator ended it                                         *)
Phases == {"parse", "load", "start", "join", "exited", "crashed", "stopped"}

(* "none" not started   "failed" pthread_create failed   "opening" in
   openLogFile   "polling" in logtail_File   "ended" start has returned    *)
ThreadStates == {"none", "failed", "opening", "polling", "ended"}

Sections == {n \in Name : models[n] # Absent}

(* ModelRead::parseModel looks for these in this order and returns false   *)
(* at the first that is missing; whatever it would have looked at later    *)
(* keeps the value it has.  Sections have the keys outside Key.            *)
Required == <<"port", "host", "accesskey", "type", "from", "path", "set">>

Has(section, key) == key \in Key => section[key] # Absent

GotTo(section, i) == \A j \in 1..i : Has(section, Required[j])

Complete(section) == GotTo(section, Len(Required))

PathKnown(section) == GotTo(section, 6)

(* StringToInt returns a local that nothing was assigned to if the text is *)
(* not a number.                                                           *)
StringToInt(text) == IF text = NaN THEN Garbage ELSE {text}

(* The numbers that checkpoint_time may give. *)
Numbers(section) ==
  IF section["checkpoint_time"] = Absent THEN {5}
  ELSE StringToInt(section["checkpoint_time"])

(* Bug: any number will do. *)
CheckpointTimesUnchecked(section) ==
  IF Complete(section) THEN Numbers(section) ELSE Garbage

(* checkpoint_time comes after the required keys: 5 if it is missing or    *)
(* not positive.                                                           *)
CheckpointTimes(section) ==
  IF Complete(section) THEN {IF t <= 0 THEN 5 ELSE t : t \in Numbers(section)}
  ELSE Garbage
-----------------------------------------------------------------------------
Unset == [n \in Name |-> 0]
NotStarted == [n \in Name |-> "none"]

Init ==
  /\ \E file \in Configs : Read(file)
  /\ phase = "parse"
  /\ reload = FALSE
  /\ loaded = {}
  /\ checkpoint_time = Unset
  /\ threads = NotStarted
  /\ joined = {}
  /\ saved = {}
  /\ runs = 1

process == <<loaded, checkpoint_time, threads, joined>>

(* parseConfig, whose parseModel's result nobody looks at.                 *)
Parse ==
  /\ phase = "parse"
  /\ ParseLine
  /\ phase' = IF parsing' THEN "parse" ELSE "load"
  /\ UNCHANGED <<reload, process, saved, runs>>

Crash ==
  /\ phase' = "crashed"
  /\ UNCHANGED <<conf, reload, process, saved, runs>>

(* One turn of the loop over the sections: parseModel, whose result nobody *)
(* looks at, and with -r getcheckpoint and reload.                         *)
Load(n) ==
  /\ phase = "load"
  /\ n \in Sections \ loaded
  /\ \E t \in CheckpointTimes(models[n]) :
       checkpoint_time' = [checkpoint_time EXCEPT ![n] = t]
  /\ loaded' = loaded \cup {n}
  /\ UNCHANGED <<conf, phase, reload, threads, joined, saved, runs>>

(* No checkpoint file: the map stays empty, and find("check_time") is      *)
(* dereferenced.  If the process survives that, it goes on as in Load.     *)
LoadCrashes(n) ==
  /\ phase = "load"
  /\ n \in Sections \ loaded
  /\ reload
  /\ n \notin saved
  /\ Crash

Loaded ==
  /\ phase = "load"
  /\ loaded = Sections
  /\ phase' = "start"
  /\ UNCHANGED <<conf, reload, process, saved, runs>>

(* Thread::start, whose result nobody looks at.                            *)
Start(n) ==
  /\ phase = "start"
  /\ n \in Sections
  /\ threads[n] = "none"
  /\ \E s \in {"opening", "failed"} : threads' = [threads EXCEPT ![n] = s]
  /\ UNCHANGED <<conf, phase, reload, loaded, checkpoint_time, joined, saved,
                 runs>>

Started ==
  /\ phase = "start"
  /\ \A n \in Sections : threads[n] # "none"
  /\ phase' = "join"
  /\ UNCHANGED <<conf, reload, process, saved, runs>>

(* mythread_join: a thread that was never created is waited for by a pid   *)
(* that was never set.                                                     *)
Join(n) ==
  /\ phase = "join"
  /\ n \in Sections \ joined
  /\ threads[n] \in {"ended", "failed"}
  /\ joined' = joined \cup {n}
  /\ UNCHANGED <<conf, phase, reload, loaded, checkpoint_time, threads, saved,
                 runs>>

JoinCrashes(n) ==
  /\ phase = "join"
  /\ n \in Sections \ joined
  /\ threads[n] = "failed"
  /\ Crash

(* The process ends when main returns. *)
ExitWhen(done) ==
  /\ phase = "join"
  /\ done
  /\ phase' = "exited"
  /\ UNCHANGED <<conf, reload, process, saved, runs>>

ExitAfterOne == ExitWhen(Sections = {} \/ joined # {})  \* bug: one join only

Exit == ExitWhen(joined = Sections)

Alive == phase \in {"start", "join"}

(* openLogFile, in ModelRead::start: without a path, or if it cannot be    *)
(* opened, the thread ends.                                                *)
OpenLog(n) ==
  /\ Alive
  /\ threads[n] = "opening"
  /\ \E s \in {"ended"} \cup (IF PathKnown(models[n]) THEN {"polling"} ELSE {}) :
       threads' = [threads EXCEPT ![n] = s]
  /\ UNCHANGED <<conf, phase, reload, loaded, checkpoint_time, joined, saved,
                 runs>>

(* write_checkpoint: pass_time % checkpoint_time. *)
Checkpoint(n) ==
  /\ Alive
  /\ threads[n] = "polling"
  /\ checkpoint_time[n] # 0
  /\ saved' = saved \cup {n}
  /\ UNCHANGED <<conf, phase, reload, process, runs>>

CheckpointCrashes(n) ==
  /\ Alive
  /\ threads[n] = "polling"
  /\ checkpoint_time[n] = 0
  /\ Crash

(* The operator.                                                           *)
Stop ==
  /\ Alive
  /\ phase' = "stopped"
  /\ UNCHANGED <<conf, reload, process, saved, runs>>

(* README:30: after a crash, or to change the configuration, with -r.      *)
StartAgain ==
  /\ phase \in {"exited", "crashed", "stopped"}
  /\ runs < MaxRuns
  /\ runs' = runs + 1
  /\ \E file \in Edited : ReadAgain(file)
  /\ reload' \in BOOLEAN
  /\ phase' = "parse"
  /\ loaded' = {}
  /\ checkpoint_time' = Unset
  /\ threads' = NotStarted
  /\ joined' = {}
  /\ UNCHANGED saved

Next ==
  \/ Parse \/ Loaded \/ Started \/ Exit \/ Stop \/ StartAgain
  \/ \E n \in Name : \/ Load(n) \/ LoadCrashes(n) \/ Start(n)
                     \/ Join(n) \/ JoinCrashes(n)
                     \/ OpenLog(n) \/ Checkpoint(n) \/ CheckpointCrashes(n)

Spec == Init /\ [][Next]_vars
-----------------------------------------------------------------------------
Types ==
  /\ config \in Configs \cup Edited
  /\ raw_config \in Seq(Line)
  /\ model_name \in Name \cup {NoName}
  /\ values \in Section
  /\ models \in [Name -> Section \cup {Absent}]
  /\ parsing \in BOOLEAN
  /\ phase \in Phases
  /\ reload \in BOOLEAN
  /\ loaded \subseteq Name
  /\ checkpoint_time \in [Name -> Int]
  /\ threads \in [Name -> ThreadStates]
  /\ joined \subseteq Name
  /\ saved \subseteq Name
  /\ runs \in 1..MaxRuns

(* The divisor of a model whose section is complete is a good one. *)
DivisorInv == \A n \in loaded : Complete(models[n]) => checkpoint_time[n] > 0

(* Whatever stands in the files, a divisor that is not positive or no      *)
(* number included: only a section that is not complete leaves the divisor *)
(* as the memory held it.                                                  *)
TypeOK == Types /\ DivisorInv

(* A section once read is not changed by what follows in the file, a       *)
(* second section of the same name above all.                              *)
SectionKept ==
  [][phase = "parse" =>
       \A n \in Name : models[n] # Absent => models'[n] = models[n]]_vars

(* The process crashes only if a section lacks a required key, a thread    *)
(* could not be created, or -r found no checkpoint: whatever else a        *)
(* section says is harmless: a checkpoint_time of 0, below 0 or that is no *)
(* number.                                                                 *)
CrashCauses ==
  phase = "crashed" =>
    \E n \in Sections : \/ ~Complete(models[n])
                        \/ reload /\ n \notin saved
                        \/ threads[n] = "failed"

(* main does not return, and end the process, while a thread is at work.   *)
ExitsLast ==
  phase = "exited" => \A n \in Name : threads[n] \notin {"opening", "polling"}

(* README:30: to change the configuration, restart with -r.  A model that  *)
(* is new in it has no checkpoint; the process crashes, and no log is      *)
(* followed any more.                                                      *)
ReloadAfterEdit ==
  /\ reload
  /\ saved # {}
  /\ \A n \in Sections : Complete(models[n]) /\ threads[n] # "failed"
  => phase # "crashed"
=============================================================================
