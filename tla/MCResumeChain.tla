---------------------------- MODULE MCResumeChain ----------------------------
(* Constants of ResumeChain, for TLC.  A snapshot is small, or at one of its *)
(* limits, or just over it.                                                  *)
EXTENDS ResumeChain

CONSTANTS work, alias, raw, sol, luna

ThreeNames == {work, alias, raw}
OnlyRaw    == {raw}
TwoModels  == {sol, luna}

Widths == [n \in ThreeNames \cup {Relative} |-> IF n = work THEN 3 ELSE 1]

Snapshot(bytes, nodes, depth) == [bytes |-> bytes, nodes |-> nodes, depth |-> depth]
AroundTheLimits ==
  {Snapshot(2, 1, 1), Snapshot(6, 1, 1), Snapshot(9, 1, 1), Snapshot(2, 3, 1),
   Snapshot(2, 4, 1), Snapshot(2, 1, 3), Snapshot(2, 1, 4)}
=============================================================================
