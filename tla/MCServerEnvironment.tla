------------------------ MODULE MCServerEnvironment ------------------------
(* Instances of the constants of BridgeServer: what its runs let the       *)
(* client write and the backend return.                                    *)
EXTENDS BridgeServer, TLC

CONSTANTS c1, c2, c3, s1, s2

TwoCommands   == {c1, c2}
ThreeCommands == {c1, c2, c3}
OneSession    == {s1}
TwoSessions   == {s1, s2}

Start(id)      == [kind |-> "start", id |-> id, ours |-> TRUE, session |-> NoSession]
Other(id)      == [kind |-> "other", id |-> id, ours |-> TRUE, session |-> NoSession]
Cancel(id, s)  == [kind |-> "cancel", id |-> id, ours |-> TRUE, session |-> s]
Broken(kind)   == [kind |-> kind, id |-> NoCommand, ours |-> FALSE, session |-> NoSession]

AnyRecord == ClientRecords
\* One turn.start, then a cancellation aimed at no session or at s1.
Cancels == {Start(c1), Cancel(c2, NoSession), Cancel(c2, s1)}
\* Also records that are refused or end input.
CancelsAndErrors ==
  Cancels \cup {Other(c2), Broken("malformed"), Broken("unreadable")}

Completed(s, fits) ==
  [kind |-> "completed", session |-> s, category |-> "none",
   completed |-> TRUE, fits |-> fits]
Cancelled ==
  [kind |-> "cancelled", session |-> NoSession, category |-> "none",
   completed |-> FALSE, fits |-> TRUE]
Failed(category, completed, fits) ==
  [kind |-> "failed", session |-> NoSession, category |-> category,
   completed |-> completed, fits |-> fits]

\* Success, cancellation, and the cleanup failure a cause may reclassify.
MainOutcomes ==
  {Completed(s1, TRUE), Cancelled, Failed("cleanup", FALSE, TRUE)}
\* One outcome for each way emit_terminal may go.
EveryWayOut ==
  MainOutcomes \cup
    {Completed(s1, FALSE), Completed(s2, TRUE), Failed("cleanup", TRUE, FALSE),
     Failed("auth", FALSE, TRUE), Failed("config", FALSE, TRUE),
     Failed("provider", FALSE, TRUE)}

AnyOrder == Permutations(ThreeCommands)
=============================================================================
