-------------------------------- MODULE Conf --------------------------------
(***************************************************************************)
(* Reading the configuration (conf.cpp): lines in, one map of keys to      *)
(* values per model out.  A line is what the loop of parseModel can tell   *)
(* it to be, after blanks and comments have been cut off.                  *)
(***************************************************************************)
EXTENDS Integers, Sequences

CONSTANTS
  Name,    \* the names of models
  NoName,  \* stands for the empty name
  Key,     \* the keys that matter
  Value,   \* their values
  Absent,  \* stands for: no value, no model
  Configs  \* the configuration files there may be at first, sequences of lines

VARIABLES
  config,      \* the file
  raw_config,  \* the lines not yet looked at
  model_name,  \* the section being read
  values,      \* its keys so far
  models,      \* the sections read
  parsing      \* the loop has not ended

conf == <<config, raw_config, model_name, values, models, parsing>>

Section == [Key -> Value \cup {Absent}]
Empty   == [k \in Key |-> Absent]
NoModel == [n \in Name |-> Absent]

Header(n)  == [kind |-> "header", name |-> n]    \* [n]
Pair(k, v) == [kind |-> "pair", key |-> k, val |-> v]   \* k = v
Unclosed   == [kind |-> "unclosed"]              \* [ without ]
Idle       == [kind |-> "idle"]                  \* blank, a comment, or without =

Line == {Header(n) : n \in Name \cup {NoName}}
          \cup {Pair(k, v) : k \in Key, v \in Value}
          \cup {Unclosed, Idle}

ASSUME ConfAssumption ==
  /\ NoName \notin Name
  /\ Absent \notin Value \cup Section
  /\ Configs \subseteq Seq(Line)

(* parseConfig has the lines: a file that cannot be opened has none.       *)
Read(file) ==
  /\ config = file
  /\ raw_config = file
  /\ model_name = NoName
  /\ values = Empty
  /\ models = NoModel
  /\ parsing = TRUE

ReadAgain(file) ==
  /\ config' = file
  /\ raw_config' = file
  /\ model_name' = NoName
  /\ values' = Empty
  /\ models' = NoModel
  /\ parsing' = TRUE

(* models[model_name] = values, for a section with a name.                 *)
Saved ==
  IF model_name = NoName THEN models
  ELSE [models EXCEPT ![model_name] = values]

NextLine(kind) ==
  /\ parsing
  /\ raw_config # <<>>
  /\ Head(raw_config).kind = kind
  /\ raw_config' = Tail(raw_config)
  /\ UNCHANGED config

SkipLine ==
  /\ NextLine("idle")
  /\ UNCHANGED <<model_name, values, models, parsing>>

(* return false: the section being read is given up with the rest.         *)
BadHeader ==
  /\ NextLine("unclosed")
  /\ parsing' = FALSE
  /\ UNCHANGED <<model_name, values, models>>

(* A header ends the section before it.  A name that was there already     *)
(* ends the parsing.                                                       *)
NextSection(first, unique) ==
  /\ NextLine("header")
  /\ models' = Saved
  /\ model_name' = Head(raw_config).name
  /\ values' = first
  /\ parsing' = (unique => model_name' = NoName \/ models'[model_name'] = Absent)

SectionKeepsKeys  == NextSection(values, TRUE)  \* bug: values.clear() is missing
SectionUnchecked  == NextSection(Empty, FALSE)  \* bug: no look at the names

NewSection == NextSection(Empty, TRUE)

(* A key that is there already gets the new value.                         *)
KeyValue ==
  /\ NextLine("pair")
  /\ values' = [values EXCEPT ![Head(raw_config).key] = Head(raw_config).val]
  /\ UNCHANGED <<model_name, models, parsing>>

(* The end of the file ends the last section.                              *)
EndOfFile ==
  /\ parsing
  /\ raw_config = <<>>
  /\ models' = Saved
  /\ parsing' = FALSE
  /\ UNCHANGED <<config, raw_config, model_name, values>>

ParseLine == SkipLine \/ BadHeader \/ NewSection \/ KeyValue \/ EndOfFile
-----------------------------------------------------------------------------
(* What a file means, without a loop. *)

IsHeader(file, i) == file[i].kind = "header"

Repeats(file, i) ==
  /\ IsHeader(file, i)
  /\ file[i].name # NoName
  /\ \E j \in 1 .. i - 1 : IsHeader(file, j) /\ file[j].name = file[i].name

Stops(file, i) == file[i].kind = "unclosed" \/ Repeats(file, i)

(* The section that begins at line h ends before line e.                   *)
Extent(file, h, e) ==
  /\ e \in h + 1 .. Len(file) + 1
  /\ e <= Len(file) => IsHeader(file, e) \/ Stops(file, e)
  /\ \A i \in h + 1 .. e - 1 : ~IsHeader(file, i) /\ ~Stops(file, i)

(* A section counts if the file is good up to its end, the end included    *)
(* unless that is a header, a repeated one even.                           *)
Counts(file, h, e) ==
  /\ IsHeader(file, h)
  /\ file[h].name # NoName
  /\ \A i \in 1..h : ~Stops(file, i)
  /\ Extent(file, h, e)
  /\ e <= Len(file) => IsHeader(file, e)

(* The last value of a key between two lines. *)
ValueIn(file, h, e, k) ==
  LET at == {i \in h + 1 .. e - 1 : file[i].kind = "pair" /\ file[i].key = k}
  IN  IF at = {} THEN Absent
      ELSE file[CHOOSE i \in at : \A j \in at : j <= i].val

Meaning(file) ==
  [n \in Name |->
    LET at == {p \in (1 .. Len(file)) \X (1 .. Len(file) + 1) :
                 Counts(file, p[1], p[2]) /\ file[p[1]].name = n}
    IN  IF at = {} THEN Absent
        ELSE LET p == CHOOSE p \in at : TRUE
             IN  [k \in Key |-> ValueIn(file, p[1], p[2], k)]]

(* Whatever the file, headers repeated, empty or left open, keys repeated  *)
(* or outside a section: the models are what the file means, and no key of *)
(* one section shows in another.                                           *)
ParsedRight == ~parsing => models = Meaning(config)
=============================================================================
