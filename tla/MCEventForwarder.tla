-------------------------- MODULE MCEventForwarder --------------------------
(* Event sizes around the limits, for TLC: with a reserve of 1 a plain event *)
(* weighs 2 or exactly the per-event limit, or is just too long, raw or      *)
(* projected.                                                                *)
EXTENDS EventForwarder

Event(kind, raw, projected) == [kind |-> kind, raw |-> raw, projected |-> projected]

MCEvents ==
  {Event("plain", 1, 1), Event("plain", 2, 3), Event("plain", 3, 4),
   Event("plain", 4, 1), Event("withheld", 3, 1), Event("undecodable", 1, 1)}

=============================================================================
