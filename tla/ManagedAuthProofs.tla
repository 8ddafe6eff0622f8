------------------------- MODULE ManagedAuthProofs -------------------------
(***************************************************************************)
(* What holds of ManagedAuth for any number of attempts, documents and     *)
(* external writes.  The three safety properties need one inductive        *)
(* invariant: between the use of the handle and the end of the operation   *)
(* the bearer in hand is the staged document, and from the final check to  *)
(* the rename only a document written in that interval can be in the way.  *)
(* That an operation comes nearer its end with each of its steps needs     *)
(* only the bound on attempts.                                             *)
(***************************************************************************)
EXTENDS ManagedAuth, TLAPS

\* While the operation is between using the handle and its end, what the
\* handle gave stands for the staged document.
InHand ==
  pc \in {"after", "checking", "renaming"} /\ result = "ok" => bearer = staged

\* An adoption leaves staged copy and baseline equal.
Adopted == pc = "adopted" => baseline = staged

\* An operation replaces nothing unseen before its rename, and what that may
\* replace is the document that was checked, or one written since.
Interval ==
  /\ pc # "idle" => unseen = {}
  /\ pc = "renaming" => \/ original \in {baseline, Unreadable}
                        \/ original \in raced

IInv ==
  /\ TypeOK /\ HandleMatchesStaged /\ AnswerIsCurrent /\ ExternalWinsTheCheck
  /\ InHand /\ Adopted /\ Interval

USE DEF fileVars, opVars, auxVars, End, GoOn

\* The staged copy, the baseline and the handle start equal.
LEMMA InitInvariant == Init => IInv
<1>. SUFFICES ASSUME Init PROVE IInv
  OBVIOUS
<1>1. FlagType
  BY DEF Init, FlagType
<1>2. \A c \in Contents : Ours(c) \in Documents
  BY DEF Ours, Documents, Qualities
<1>3. DataType
  BY <1>2, AuthAssumption DEF Init, DataType
<1>4. HandleMatchesStaged /\ AnswerIsCurrent /\ ExternalWinsTheCheck
      /\ InHand /\ Adopted /\ Interval
  BY DEF Init, Ours, HandleMatchesStaged, AnswerIsCurrent, ExternalWinsTheCheck,
         InHand, Adopted, Interval
<1>. QED BY <1>1, <1>3, <1>4 DEF IInv, TypeOK

\* Beginning an operation withdraws the last answer.
LEMMA BeginKeeps == IInv /\ Begin => IInv'
<1>. SUFFICES ASSUME IInv, Begin PROVE IInv'
  OBVIOUS
<1>. TypeOK /\ FlagType /\ DataType
  BY DEF IInv, TypeOK
<1>1. FlagType'
  BY DEF Begin, FlagType
<1>2. DataType'
  BY AuthAssumption DEF Begin, DataType, Documents, Qualities
<1>3. HandleMatchesStaged'
  BY AuthAssumption DEF Begin, IInv, HandleMatchesStaged
<1>4. AnswerIsCurrent'
  BY AuthAssumption DEF Begin, IInv, HandleMatchesStaged, AnswerIsCurrent, InHand, Adopted
<1>5. ExternalWinsTheCheck'
  BY AuthAssumption DEF Begin, IInv, ExternalWinsTheCheck, Interval
<1>6. InHand' /\ Adopted'
  BY AuthAssumption DEF Begin, IInv, HandleMatchesStaged, InHand, Adopted
<1>7. Interval'
  BY AuthAssumption DEF Begin, IInv, Interval
<1>. QED BY <1>1, <1>2, <1>3, <1>4, <1>5, <1>6, <1>7 DEF IInv, TypeOK

\* Adopting, reloading or failing before the handle is used.
LEMMA SyncBeforeKeeps == IInv /\ SyncBefore => IInv'
<1>. SUFFICES ASSUME IInv, SyncBefore PROVE IInv'
  OBVIOUS
<1>. TypeOK /\ FlagType /\ DataType
  BY DEF IInv, TypeOK
<1>1. FlagType'
  BY DEF SyncBefore, Reload, Adopt, FlagType
<1>2. DataType'
  BY AuthAssumption DEF SyncBefore, Reload, Adopt, DataType, Documents, Qualities
<1>3. HandleMatchesStaged'
  BY AuthAssumption DEF SyncBefore, Reload, Adopt, IInv, HandleMatchesStaged
<1>4. AnswerIsCurrent'
  BY AuthAssumption DEF SyncBefore, Reload, Adopt, IInv, HandleMatchesStaged, AnswerIsCurrent, InHand, Adopted
<1>5. ExternalWinsTheCheck'
  BY AuthAssumption DEF SyncBefore, Reload, Adopt, IInv, ExternalWinsTheCheck, Interval
<1>6. InHand' /\ Adopted'
  BY AuthAssumption DEF SyncBefore, Reload, Adopt, IInv, HandleMatchesStaged, InHand, Adopted
<1>7. Interval'
  BY AuthAssumption DEF SyncBefore, Reload, Adopt, IInv, Interval
<1>. QED BY <1>1, <1>2, <1>3, <1>4, <1>5, <1>6, <1>7 DEF IInv, TypeOK

\* Using the handle, with a refresh or without one.
LEMMA UseInnerKeeps == IInv /\ UseInner => IInv'
<1>. SUFFICES ASSUME IInv, UseInner PROVE IInv'
  OBVIOUS
<1>. TypeOK /\ FlagType /\ DataType
  BY DEF IInv, TypeOK
<1>1. FlagType'
  BY DEF UseInner, Refresh, Ours, FlagType
<1>2. DataType'
  BY AuthAssumption DEF UseInner, Refresh, Ours, DataType, Documents, Qualities
<1>3. HandleMatchesStaged'
  BY AuthAssumption DEF UseInner, Refresh, Ours, IInv, HandleMatchesStaged
<1>4. AnswerIsCurrent'
  BY AuthAssumption DEF UseInner, Refresh, Ours, IInv, HandleMatchesStaged, AnswerIsCurrent, InHand, Adopted
<1>5. ExternalWinsTheCheck'
  BY AuthAssumption DEF UseInner, Refresh, Ours, IInv, ExternalWinsTheCheck, Interval
<1>6. InHand' /\ Adopted'
  BY AuthAssumption DEF UseInner, Refresh, Ours, IInv, HandleMatchesStaged, InHand, Adopted
<1>7. Interval'
  BY AuthAssumption DEF UseInner, Refresh, Ours, IInv, Interval
<1>. QED BY <1>1, <1>2, <1>3, <1>4, <1>5, <1>6, <1>7 DEF IInv, TypeOK

\* A dropped future leaves the handle and the staged file together.
LEMMA AbandonKeeps == IInv /\ Abandon => IInv'
<1>. SUFFICES ASSUME IInv, Abandon PROVE IInv'
  OBVIOUS
<1>. TypeOK /\ FlagType /\ DataType
  BY DEF IInv, TypeOK
<1>1. FlagType'
  BY DEF Abandon, Refresh, Ours, FlagType
<1>2. DataType'
  BY AuthAssumption DEF Abandon, Refresh, Ours, DataType, Documents, Qualities
<1>3. HandleMatchesStaged'
  BY AuthAssumption DEF Abandon, Refresh, Ours, IInv, HandleMatchesStaged
<1>4. AnswerIsCurrent'
  BY AuthAssumption DEF Abandon, Refresh, Ours, IInv, HandleMatchesStaged, AnswerIsCurrent, InHand, Adopted
<1>5. ExternalWinsTheCheck'
  BY AuthAssumption DEF Abandon, Refresh, Ours, IInv, ExternalWinsTheCheck, Interval
<1>6. InHand' /\ Adopted'
  BY AuthAssumption DEF Abandon, Refresh, Ours, IInv, HandleMatchesStaged, InHand, Adopted
<1>7. Interval'
  BY AuthAssumption DEF Abandon, Refresh, Ours, IInv, Interval
<1>. QED BY <1>1, <1>2, <1>3, <1>4, <1>5, <1>6, <1>7 DEF IInv, TypeOK

\* Adopting, ending or going on to copy a refresh back.
LEMMA SyncAfterKeeps == IInv /\ SyncAfter => IInv'
<1>. SUFFICES ASSUME IInv, SyncAfter PROVE IInv'
  OBVIOUS
<1>. TypeOK /\ FlagType /\ DataType
  BY DEF IInv, TypeOK
<1>1. FlagType'
  BY DEF SyncAfter, Reload, Adopt, EndWithResult, FlagType
<1>2. DataType'
  BY AuthAssumption DEF SyncAfter, Reload, Adopt, EndWithResult, DataType, Documents, Qualities
<1>3. HandleMatchesStaged'
  BY AuthAssumption DEF SyncAfter, Reload, Adopt, EndWithResult, IInv, HandleMatchesStaged
<1>4. AnswerIsCurrent'
  BY AuthAssumption DEF SyncAfter, Reload, Adopt, EndWithResult, IInv, HandleMatchesStaged, AnswerIsCurrent, InHand, Adopted
<1>5. ExternalWinsTheCheck'
  BY AuthAssumption DEF SyncAfter, Reload, Adopt, EndWithResult, IInv, ExternalWinsTheCheck, Interval
<1>6. InHand' /\ Adopted'
  BY AuthAssumption DEF SyncAfter, Reload, Adopt, EndWithResult, IInv, HandleMatchesStaged, InHand, Adopted
<1>7. Interval'
  BY AuthAssumption DEF SyncAfter, Reload, Adopt, EndWithResult, IInv, Interval
<1>. QED BY <1>1, <1>2, <1>3, <1>4, <1>5, <1>6, <1>7 DEF IInv, TypeOK

\* Only a document that is still the baseline goes on to the rename.
LEMMA FinalCheckKeeps == IInv /\ FinalCheck => IInv'
<1>. SUFFICES ASSUME IInv, FinalCheck PROVE IInv'
  OBVIOUS
<1>. TypeOK /\ FlagType /\ DataType
  BY DEF IInv, TypeOK
<1>1. FlagType'
  BY DEF FinalCheck, FlagType
<1>2. DataType'
  BY AuthAssumption DEF FinalCheck, DataType, Documents, Qualities
<1>3. HandleMatchesStaged'
  BY AuthAssumption DEF FinalCheck, IInv, HandleMatchesStaged
<1>4. AnswerIsCurrent'
  BY AuthAssumption DEF FinalCheck, IInv, HandleMatchesStaged, AnswerIsCurrent, InHand, Adopted
<1>5. ExternalWinsTheCheck'
  BY AuthAssumption DEF FinalCheck, IInv, ExternalWinsTheCheck, Interval
<1>6. InHand' /\ Adopted'
  BY AuthAssumption DEF FinalCheck, IInv, HandleMatchesStaged, InHand, Adopted
<1>7. Interval'
  BY AuthAssumption DEF FinalCheck, IInv, Interval
<1>. QED BY <1>1, <1>2, <1>3, <1>4, <1>5, <1>6, <1>7 DEF IInv, TypeOK

\* The rename replaces the checked document, or one written since.
LEMMA RenameKeeps == IInv /\ Rename => IInv'
<1>. SUFFICES ASSUME IInv, Rename PROVE IInv'
  OBVIOUS
<1>. TypeOK /\ FlagType /\ DataType
  BY DEF IInv, TypeOK
<1>1. FlagType'
  BY DEF Rename, EndWithResult, FlagType
<1>2. DataType'
  BY AuthAssumption DEF Rename, EndWithResult, DataType, Documents, Qualities
<1>3. HandleMatchesStaged'
  BY AuthAssumption DEF Rename, EndWithResult, IInv, HandleMatchesStaged
<1>4. AnswerIsCurrent'
  BY AuthAssumption DEF Rename, EndWithResult, IInv, HandleMatchesStaged, AnswerIsCurrent, InHand, Adopted
<1>5. ExternalWinsTheCheck'
  BY AuthAssumption DEF Rename, EndWithResult, IInv, ExternalWinsTheCheck, Interval
<1>6. InHand' /\ Adopted'
  BY AuthAssumption DEF Rename, EndWithResult, IInv, HandleMatchesStaged, InHand, Adopted
<1>7. Interval'
  BY AuthAssumption DEF Rename, EndWithResult, IInv, Interval
<1>. QED BY <1>1, <1>2, <1>3, <1>4, <1>5, <1>6, <1>7 DEF IInv, TypeOK

\* The document that won the check is adopted.
LEMMA AdoptExternalKeeps == IInv /\ AdoptExternal => IInv'
<1>. SUFFICES ASSUME IInv, AdoptExternal PROVE IInv'
  OBVIOUS
<1>. TypeOK /\ FlagType /\ DataType
  BY DEF IInv, TypeOK
<1>1. FlagType'
  BY DEF AdoptExternal, Reload, Adopt, FlagType
<1>2. DataType'
  BY AuthAssumption DEF AdoptExternal, Reload, Adopt, DataType, Documents, Qualities
<1>3. HandleMatchesStaged'
  BY AuthAssumption DEF AdoptExternal, Reload, Adopt, IInv, HandleMatchesStaged
<1>4. AnswerIsCurrent'
  BY AuthAssumption DEF AdoptExternal, Reload, Adopt, IInv, HandleMatchesStaged, AnswerIsCurrent, InHand, Adopted
<1>5. ExternalWinsTheCheck'
  BY AuthAssumption DEF AdoptExternal, Reload, Adopt, IInv, ExternalWinsTheCheck, Interval
<1>6. InHand' /\ Adopted'
  BY AuthAssumption DEF AdoptExternal, Reload, Adopt, IInv, HandleMatchesStaged, InHand, Adopted
<1>7. Interval'
  BY AuthAssumption DEF AdoptExternal, Reload, Adopt, IInv, Interval
<1>. QED BY <1>1, <1>2, <1>3, <1>4, <1>5, <1>6, <1>7 DEF IInv, TypeOK

\* A failed read or write changes no file.
LEMMA StoreFailsKeeps == IInv /\ StoreFails => IInv'
<1>. SUFFICES ASSUME IInv, StoreFails PROVE IInv'
  OBVIOUS
<1>. TypeOK /\ FlagType /\ DataType
  BY DEF IInv, TypeOK
<1>1. FlagType'
  BY DEF StoreFails, FlagType
<1>2. DataType'
  BY AuthAssumption DEF StoreFails, DataType, Documents, Qualities
<1>3. HandleMatchesStaged'
  BY AuthAssumption DEF StoreFails, IInv, HandleMatchesStaged
<1>4. AnswerIsCurrent'
  BY AuthAssumption DEF StoreFails, IInv, HandleMatchesStaged, AnswerIsCurrent, InHand, Adopted
<1>5. ExternalWinsTheCheck'
  BY AuthAssumption DEF StoreFails, IInv, ExternalWinsTheCheck, Interval
<1>6. InHand' /\ Adopted'
  BY AuthAssumption DEF StoreFails, IInv, HandleMatchesStaged, InHand, Adopted
<1>7. Interval'
  BY AuthAssumption DEF StoreFails, IInv, Interval
<1>. QED BY <1>1, <1>2, <1>3, <1>4, <1>5, <1>6, <1>7 DEF IInv, TypeOK

\* A recovery ends on what was adopted; a snapshot starts again.
LEMMA AfterAdoptionKeeps == IInv /\ AfterAdoption => IInv'
<1>. SUFFICES ASSUME IInv, AfterAdoption PROVE IInv'
  OBVIOUS
<1>. TypeOK /\ FlagType /\ DataType
  BY DEF IInv, TypeOK
<1>1. FlagType'
  BY DEF AfterAdoption, FlagType
<1>2. DataType'
  BY AuthAssumption DEF AfterAdoption, DataType, Documents, Qualities
<1>3. HandleMatchesStaged'
  BY AuthAssumption DEF AfterAdoption, IInv, HandleMatchesStaged
<1>4. AnswerIsCurrent'
  BY AuthAssumption DEF AfterAdoption, IInv, HandleMatchesStaged, AnswerIsCurrent, InHand, Adopted
<1>5. ExternalWinsTheCheck'
  BY AuthAssumption DEF AfterAdoption, IInv, ExternalWinsTheCheck, Interval
<1>6. InHand' /\ Adopted'
  BY AuthAssumption DEF AfterAdoption, IInv, HandleMatchesStaged, InHand, Adopted
<1>7. Interval'
  BY AuthAssumption DEF AfterAdoption, IInv, Interval
<1>. QED BY <1>1, <1>2, <1>3, <1>4, <1>5, <1>6, <1>7 DEF IInv, TypeOK

\* Another process writes the original, perhaps in the interval.
LEMMA ExternalWriteKeeps == IInv /\ ExternalWrite => IInv'
<1>. SUFFICES ASSUME IInv, ExternalWrite PROVE IInv'
  OBVIOUS
<1>. TypeOK /\ FlagType /\ DataType
  BY DEF IInv, TypeOK
<1>1. FlagType'
  BY DEF ExternalWrite, FlagType
<1>2. DataType'
  BY AuthAssumption DEF ExternalWrite, DataType, Documents, Qualities
<1>3. HandleMatchesStaged'
  BY AuthAssumption DEF ExternalWrite, IInv, HandleMatchesStaged
<1>4. AnswerIsCurrent'
  BY AuthAssumption DEF ExternalWrite, IInv, HandleMatchesStaged, AnswerIsCurrent, InHand, Adopted
<1>5. ExternalWinsTheCheck'
  BY AuthAssumption DEF ExternalWrite, IInv, ExternalWinsTheCheck, Interval
<1>6. InHand' /\ Adopted'
  BY AuthAssumption DEF ExternalWrite, IInv, HandleMatchesStaged, InHand, Adopted
<1>7. Interval'
  BY AuthAssumption DEF ExternalWrite, IInv, Interval
<1>. QED BY <1>1, <1>2, <1>3, <1>4, <1>5, <1>6, <1>7 DEF IInv, TypeOK

\* Every step keeps the invariant.
LEMMA NextInvariant == IInv /\ [Next]_vars => IInv'
<1>. SUFFICES ASSUME IInv, [Next]_vars PROVE IInv'
  OBVIOUS
<1>1. CASE Next
  BY <1>1, BeginKeeps, SyncBeforeKeeps, UseInnerKeeps, AbandonKeeps,
     SyncAfterKeeps, FinalCheckKeeps, RenameKeeps, AdoptExternalKeeps,
     StoreFailsKeeps, AfterAdoptionKeeps, ExternalWriteKeeps DEF Next
<1>2. CASE UNCHANGED vars
  <2>1. FlagType'
    BY <1>2 DEF vars, IInv, TypeOK, FlagType
  <2>2. DataType'
    BY <1>2 DEF vars, IInv, TypeOK, DataType
  <2>3. /\ HandleMatchesStaged' /\ AnswerIsCurrent' /\ ExternalWinsTheCheck'
        /\ InHand' /\ Adopted' /\ Interval'
    BY <1>2 DEF vars, IInv, HandleMatchesStaged, AnswerIsCurrent,
       ExternalWinsTheCheck, InHand, Adopted, Interval
  <2>. QED BY <2>1, <2>2, <2>3 DEF IInv, TypeOK
<1>. QED BY <1>1, <1>2

\* The strengthened invariant holds in every state.
LEMMA InvariantHolds == Spec => []IInv
  BY InitInvariant, NextInvariant, PTL DEF Spec

\* The store's variables keep their types, whatever other processes write.
THEOREM AuthTypeCorrect == Spec => []TypeOK
<1>1. IInv => TypeOK
  BY DEF IInv
<1>. QED BY <1>1, InvariantHolds, PTL

\* The handle is used, and an operation succeeds, only while the handle holds
\* the staged document; a document of another account, or one that does not
\* load, keeps every operation failing.
THEOREM HandleAlwaysMatches == Spec => []HandleMatchesStaged
<1>1. IInv => HandleMatchesStaged
  BY DEF IInv
<1>. QED BY <1>1, InvariantHolds, PTL

\* What a successful operation answered with is the newest document the
\* bridge knows of, for any number of attempts and external writes.
THEOREM AnswersAreCurrent == Spec => []AnswerIsCurrent
<1>1. IInv => AnswerIsCurrent
  BY DEF IInv
<1>. QED BY <1>1, InvariantHolds, PTL

\* No document of another process is replaced unseen, except one written
\* between the final check and the rename.
THEOREM ExternalWins == Spec => []ExternalWinsTheCheck
<1>1. IInv => ExternalWinsTheCheck
  BY DEF IInv
<1>. QED BY <1>1, InvariantHolds, PTL

\* Whatever other processes write, each step of a running operation brings its
\* end nearer: at most six steps for each of its attempts.
THEOREM OperationsAdvance == Spec => OperationAdvances
<1> DEFINE A == pc = "idle" \/ OthersWrote \/ Remaining' < Remaining
<1>1. ASSUME IInv, [Next]_vars PROVE [A]_vars
  <2>. SUFFICES ASSUME Next, pc # "idle" PROVE OthersWrote \/ Remaining' < Remaining
    BY <1>1
  <2>1. attempts \in 0 .. MaxAttempts /\ MaxAttempts \in Nat
    BY <1>1, AuthAssumption DEF IInv, TypeOK, DataType
  <2>2. CASE SyncBefore \/ SyncAfter \/ AdoptExternal
    BY <2>1, <2>2 DEF SyncBefore, SyncAfter, AdoptExternal, Adopt, Reload, EndWithResult,
                      Remaining, StepsLeft
  <2>3. CASE UseInner \/ Abandon \/ FinalCheck \/ Rename \/ StoreFails
    BY <2>1, <2>3 DEF UseInner, Abandon, FinalCheck, Rename, StoreFails, EndWithResult,
                      Remaining, StepsLeft
  <2>4. CASE AfterAdoption
    BY <2>1, <2>4 DEF AfterAdoption, Remaining, StepsLeft
  <2>5. CASE ExternalWrite
    BY <2>5 DEF ExternalWrite, OthersWrote
  <2>6. ~Begin
    BY DEF Begin
  <2>. QED BY <2>2, <2>3, <2>4, <2>5, <2>6 DEF Next
<1>2. IInv /\ [Next]_vars => [A]_vars
  BY <1>1
<1>. QED BY <1>2, InvariantHolds, PTL DEF Spec, OperationAdvances
=============================================================================
