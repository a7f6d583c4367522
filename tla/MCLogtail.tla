----------------------------- MODULE MCLogtail -----------------------------
(* Small configurations for Logtail. *)
EXTENDS Logtail

CONSTANTS a, b, MaxLines

Values == {-1, 0, 2, NaN}

(* What an uninitialised checkpoint_time may hold. *)
Memory == {-1, 0, 1}

(* Sections with path and set, as they should be. *)
Good(n) == <<Header(n), Pair("path", 2), Pair("set", 2)>>

GoodConfigs == {Good(a), Good(b), Good(a) \o Good(b)}

(* Lines that may stand anywhere. *)
Lines == {Header(a), Header(b), Header(NoName), Unclosed, Idle,
          Pair("path", 2), Pair("set", 2)}

(* Every file of up to MaxLines of these lines, and good ones with a value *)
(* of checkpoint_time in a section.                                        *)
AllConfigs ==
  UNION {[1..n -> Lines] : n \in 0..MaxLines}
    \cup {Good(a) \o <<Pair("checkpoint_time", v)>> \o Good(b) : v \in Value}
=============================================================================
