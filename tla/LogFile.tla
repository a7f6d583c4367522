------------------------------ MODULE LogFile ------------------------------
(***************************************************************************)
(* The log files dip_logtail reads, as far as its reading loops can tell   *)
(* them apart.  A file is a row of units (bytes) addressed by offset; the  *)
(* only content that matters is where a newline is.  Files are numbered in *)
(* the order in which the application writes them.                         *)
(***************************************************************************)
EXTENDS Integers, Sequences

CONSTANTS
  NumFiles,  \* how many files the application ever writes (bound)
  MaxUnits,  \* how many units a file can hold (bound)
  Breaks     \* Breaks[f]: the offsets of file f just after a newline

ASSUME FileAssumption ==
  /\ NumFiles \in Nat \ {0}
  /\ MaxUnits \in Nat \ {0}
  /\ Breaks \in [1..NumFiles -> SUBSET (1..MaxUnits)]
  /\ \A f \in 1..NumFiles : MaxUnits \in Breaks[f]

File   == 1..NumFiles
Offset == 0..MaxUnits

NoFile == 0

(* A message is the text between two offsets of a file, log_prefix aside.  *)
Message == [file : File, lo : Offset, hi : Offset]

Units(m) == {m.file} \X (m.lo .. m.hi - 1)

(* All the units a queue of messages carries.                              *)
Batch(ms) == UNION {Units(ms[i]) : i \in DOMAIN ms}

(* Where the line that starts at offset lo ends when hi units can be read: *)
(* one offset, just after the first newline, or the end of what there is.  *)
LineEnds(f, lo, hi) ==
  {e \in lo + 1 .. hi : /\ e \in Breaks[f] \/ e = hi
                        /\ \A d \in lo + 1 .. e - 1 : d \notin Breaks[f]}

LineStart(f, lo) == lo = 0 \/ lo \in Breaks[f]

(* The order in which the application wrote two messages.                  *)
WrittenBefore(m, n) ==
  \/ m.file < n.file
  \/ m.file = n.file /\ m.hi <= n.lo
=============================================================================
