------------------------------ MODULE MCBridge ------------------------------
(* Instances of the constants of NanocodexTurn: one client that starts a     *)
(* turn and cancels it, and a backend outcome of each kind.                  *)
EXTENDS NanocodexTurn

CONSTANTS c1, c2, s1

TwoCommands == {c1, c2}
OneSession  == {s1}

Cancel(s) == [kind |-> "cancel", id |-> c2, ours |-> TRUE, session |-> s]
Cancels == {[kind |-> "start", id |-> c1, ours |-> TRUE, session |-> NoSession],
            Cancel(NoSession), Cancel(s1)}

\* Also one record that ends input.
CancelsAndMalformed ==
  Cancels \cup {[kind |-> "malformed", id |-> NoCommand, ours |-> FALSE,
                 session |-> NoSession]}

BridgeOutcomes ==
  {CancelledOutcome, FailedOutcome("internal"),
   [kind |-> "completed", session |-> s1, category |-> "none",
    completed |-> TRUE, fits |-> TRUE],
   CleanupOutcome(TRUE)}

\* One failure and one cancellation: enough ways out for liveness.
TwoOutcomes == {CancelledOutcome, FailedOutcome("internal")}
=============================================================================
