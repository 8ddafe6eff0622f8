-------------------------- MODULE ResumeChainProofs --------------------------
(***************************************************************************)
(* What holds of ResumeChain for any paths, models, sizes and limits.  The *)
(* file system changes between the steps of a process, so an invariant may *)
(* speak of what a process has seen, never of what is there: the path it   *)
(* holds was compared with the stored one (Admitted), the model with the   *)
(* stored one (ModelAgreed), and the snapshot is the client's (Chained).   *)
(***************************************************************************)
EXTENDS ResumeChain, TLAPS

\* A prompt was admitted, and a resume is of the snapshot last published.
Chained ==
  phase # "idle" =>
    /\ TextAllowed(request.prompt)
    /\ Resumes(request) =>
         /\ checkpoint # NoCheckpoint
         /\ request.snapshot.model = checkpoint.snapshot.model
         /\ request.snapshot.workspace = checkpoint.snapshot.workspace

\* What CheckRequest has passed.
Admitted ==
  phase \in {"checked", "opening", "running"} =>
    /\ canonical \notin NotUtf8
    /\ request.instructions # NoText => TextAllowed(request.instructions)
    /\ Resumes(request) => request.snapshot.workspace = canonical

\* What CheckCheckpoint has passed.
ModelAgreed ==
  phase \in {"opening", "running"} /\ Resumes(request) =>
    request.model \in {NoModel, request.snapshot.model}

\* What a published snapshot has passed, as far as no file system is involved.
Tested ==
  checkpoint # NoCheckpoint =>
    /\ TextAllowed(1)
    /\ checkpoint.instructions # NoText => TextAllowed(checkpoint.instructions)
    /\ checkpoint.snapshot.measures.bytes <= MaxSnapshotBytes
    /\ Decodes(MinimalResume)

IInv ==
  TypeOK /\ Chained /\ Admitted /\ ModelAgreed /\ Tested
  /\ ResultNeverReplaced

-----------------------------------------------------------------------------
\* Checks with codes of their own give "none" exactly if all of them pass, and
\* otherwise one of their codes.
LEMMA FirstFailureMeaning ==
  ASSUME NEW n \in 1 .. 7, NEW checks, DOMAIN checks = 1 .. n,
         \A i \in 1 .. n : checks[i][2] # "none"
  PROVE  /\ FirstFailure(checks) = "none" <=> \A i \in 1 .. n : ~checks[i][1]
         /\ \/ FirstFailure(checks) = "none"
            \/ \E i \in 1 .. n : FirstFailure(checks) = checks[i][2]
<1>. DEFINE failing == {i \in DOMAIN checks : checks[i][1]}
            First(i) == \A j \in failing : i <= j
<1>1. CASE failing = {}
  BY <1>1 DEF FirstFailure
<1>2. CASE failing # {}
  <2>1. \E i \in failing : First(i)
    <3>1. PICK k \in 1 .. n : k \in failing
      BY <1>2
    <3>2. \A i \in failing : i \in {1, 2, 3, 4, 5, 6, 7}
      OBVIOUS
    <3>. HIDE DEF failing
    <3>3. k \in {1, 2, 3, 4, 5, 6, 7}
      OBVIOUS
    <3>4. CASE 1 \in failing
      BY <3>2, <3>4
    <3>5. CASE 1 \notin failing /\ 2 \in failing
      BY <3>2, <3>5
    <3>6. CASE {1, 2} \cap failing = {} /\ 3 \in failing
      BY <3>2, <3>6
    <3>7. CASE {1, 2, 3} \cap failing = {} /\ 4 \in failing
      BY <3>2, <3>7
    <3>8. CASE {1, 2, 3, 4} \cap failing = {} /\ 5 \in failing
      BY <3>2, <3>8
    <3>9. CASE {1, 2, 3, 4, 5} \cap failing = {} /\ 6 \in failing
      BY <3>2, <3>9
    <3>10. CASE {1, 2, 3, 4, 5, 6} \cap failing = {} /\ 7 \in failing
      BY <3>2, <3>10
    <3>. QED BY <3>1, <3>3, <3>4, <3>5, <3>6, <3>7, <3>8, <3>9, <3>10
  <2>2. (CHOOSE i \in failing : First(i)) \in failing
    BY <2>1
  <2>3. FirstFailure(checks) = checks[CHOOSE i \in failing : First(i)][2]
    BY <1>2 DEF FirstFailure
  <2>. QED BY <2>2, <2>3
<1>. QED BY <1>1, <1>2

\* What each part of the validation has seen when it reports nothing; and no
\* check has the code a terminal over its limit is given.
LEMMA StartChecksPassed ==
  ASSUME NEW r
  PROVE  /\ FirstFailure(StartChecks(r)) = "none" <=>
              /\ Decodes(r) /\ TextAllowed(r.prompt) /\ r.workspace # Relative
              /\ Resolves(r.workspace)
         /\ FirstFailure(StartChecks(r)) # "result_too_large"
<1>. DEFINE c == StartChecks(r)
<1>1. /\ DOMAIN c = 1 .. 4
      /\ \A i \in 1 .. 4 : c[i][2] \notin {"none", "result_too_large"}
  BY DEF StartChecks
<1>2. /\ c[1][1] <=> ~Decodes(r)
      /\ c[2][1] <=> ~TextAllowed(r.prompt)
      /\ c[3][1] <=> r.workspace = Relative
      /\ c[4][1] <=> r.workspace # Relative /\ ~Resolves(r.workspace)
  BY DEF StartChecks
<1>. HIDE DEF c
<1>3. /\ FirstFailure(c) = "none" <=> \A i \in 1 .. 4 : ~c[i][1]
      /\ FirstFailure(c) # "result_too_large"
  BY <1>1, FirstFailureMeaning
<1>. QED BY <1>2, <1>3 DEF c

LEMMA RequestChecksPassed ==
  ASSUME NEW r, NEW path
  PROVE  /\ FirstFailure(RequestChecks(r, path)) = "none" <=>
              /\ IsDirectory(path) /\ path \notin NotUtf8
              /\ r.instructions # NoText => TextAllowed(r.instructions)
              /\ Resumes(r) =>
                   /\ ~(r.snapshot.measures.bytes > MaxSnapshotBytes)
                   /\ r.snapshot.form \notin {"altered", "outdated"}
                   /\ r.snapshot.workspace = path
         /\ FirstFailure(RequestChecks(r, path)) # "result_too_large"
<1>. DEFINE c == RequestChecks(r, path)
<1>1. /\ DOMAIN c = 1 .. 7
      /\ \A i \in 1 .. 7 : c[i][2] \notin {"none", "result_too_large"}
  BY DEF RequestChecks
<1>2. /\ c[1][1] <=> ~IsDirectory(path)
      /\ c[2][1] <=> path \in NotUtf8
      /\ c[3][1] <=> r.instructions # NoText /\ ~TextAllowed(r.instructions)
      /\ c[4][1] <=> Resumes(r) /\ r.snapshot.measures.bytes > MaxSnapshotBytes
      /\ c[5][1] <=> Resumes(r) /\ r.snapshot.form = "altered"
      /\ c[6][1] <=> Resumes(r) /\ r.snapshot.form = "outdated"
      /\ c[7][1] <=> Resumes(r) /\ r.snapshot.workspace # path
  BY DEF RequestChecks
<1>. HIDE DEF c
<1>3. /\ FirstFailure(c) = "none" <=> \A i \in 1 .. 7 : ~c[i][1]
      /\ FirstFailure(c) # "result_too_large"
  BY <1>1, FirstFailureMeaning
<1>. QED BY <1>2, <1>3 DEF c

LEMMA CheckpointChecksPassed ==
  ASSUME NEW r, NEW path
  PROVE  /\ FirstFailure(CheckpointChecks(r, path)) = "none" <=>
              (Resumes(r) =>
                 /\ Resolves(r.snapshot.workspace)
                 /\ Canonical(r.snapshot.workspace) = path
                 /\ r.model \in {NoModel, r.snapshot.model})
         /\ FirstFailure(CheckpointChecks(r, path)) # "result_too_large"
<1>. DEFINE c == CheckpointChecks(r, path)
<1>1. /\ DOMAIN c = 1 .. 3
      /\ \A i \in 1 .. 3 : c[i][2] \notin {"none", "result_too_large"}
  BY DEF CheckpointChecks
<1>2. /\ c[1][1] <=> Resumes(r) /\ ~Resolves(r.snapshot.workspace)
      /\ c[2][1] <=> Resumes(r) /\ Canonical(r.snapshot.workspace) # path
      /\ c[3][1] <=> Resumes(r) /\ r.model \notin {NoModel, r.snapshot.model}
  BY DEF CheckpointChecks
<1>. HIDE DEF c
<1>3. /\ FirstFailure(c) = "none" <=> \A i \in 1 .. 3 : ~c[i][1]
      /\ FirstFailure(c) # "result_too_large"
  BY <1>1, FirstFailureMeaning
<1>. QED BY <1>2, <1>3 DEF c

LEMMA SnapshotChecksPassed ==
  ASSUME NEW envelope
  PROVE  /\ FirstFailure(SnapshotChecks(envelope)) = "none" <=>
              /\ ~(envelope.snapshot.measures.bytes > MaxSnapshotBytes)
              /\ WithinStructure(envelope)
              /\ ~(RecordBytes(envelope) > MaxInputBytes)
         /\ FirstFailure(SnapshotChecks(envelope)) # "result_too_large"
<1>. DEFINE c == SnapshotChecks(envelope)
<1>1. /\ DOMAIN c = 1 .. 3
      /\ \A i \in 1 .. 3 : c[i][2] \notin {"none", "result_too_large"}
  BY DEF SnapshotChecks
<1>2. /\ c[1][1] <=> envelope.snapshot.measures.bytes > MaxSnapshotBytes
      /\ c[2][1] <=> ~WithinStructure(envelope)
      /\ c[3][1] <=> RecordBytes(envelope) > MaxInputBytes
  BY DEF SnapshotChecks
<1>. HIDE DEF c
<1>3. /\ FirstFailure(c) = "none" <=> \A i \in 1 .. 3 : ~c[i][1]
      /\ FirstFailure(c) # "result_too_large"
  BY <1>1, FirstFailureMeaning
<1>. QED BY <1>2, <1>3 DEF c
-----------------------------------------------------------------------------
LEMMA InitInvariant == Init => IInv
BY ResumeAssumption
   DEF Init, IInv, TypeOK, Chained, Admitted, ModelAgreed, Tested,
       ResultNeverReplaced

\* A canonical path is one of the names.
LEMMA CanonicalName ==
  ASSUME TypeOK, NEW n \in Names
  PROVE  Canonical(n) \in Names
BY DEF TypeOK, FileSystems, Canonical

\* Whoever ends without publishing, and not for the size of its terminal,
\* leaves the invariant as it was.
LEMMA EndKeeps ==
  ASSUME IInv, NEW code, End(code), code # "result_too_large",
         at' \in FileSystems, UNCHANGED checkpoint
  PROVE  IInv'
<1>1. TypeOK'
  BY DEF IInv, TypeOK, End
<1>2. Chained' /\ Admitted' /\ ModelAgreed' /\ ResultNeverReplaced'
  BY DEF End, Chained, Admitted, ModelAgreed, ResultNeverReplaced
<1>3. Tested'
  BY DEF IInv, Tested, MinimalResume
<1>. QED BY <1>1, <1>2, <1>3 DEF IInv

\* Others change only the file system, of which the invariant says no more than
\* that links do not chain.
LEMMA ChangeKeeps == IInv /\ ChangeFileSystem => IInv'
<1>. SUFFICES ASSUME IInv, ChangeFileSystem PROVE IInv'
  OBVIOUS
<1>1. at' \in FileSystems
  <2>1. PICK n \in Names, entry \in Entries :
          /\ entry \in Names => at[entry] \notin Names /\ \A m \in Names : at[m] # n
          /\ entry \notin {n, at[n]}
          /\ at' = [at EXCEPT ![n] = entry]
    BY DEF ChangeFileSystem
  <2>2. at \in [Names -> Entries] /\ \A m \in Names : at[m] \in Names => at[at[m]] \notin Names
    BY DEF IInv, TypeOK, FileSystems
  <2>3. at' \in [Names -> Entries]
    BY <2>1, <2>2
  <2>4. ASSUME NEW m \in Names, at'[m] \in Names PROVE at'[at'[m]] \notin Names
    <3>1. CASE m = n
      BY <2>1, <2>2, <2>4, <3>1
    <3>2. CASE m # n /\ at[m] = n
      BY <2>1, <2>2, <2>4, <3>2
    <3>3. CASE m # n /\ at[m] # n
      BY <2>1, <2>2, <2>4, <3>3
    <3>. QED BY <3>1, <3>2, <3>3
  <2>. QED BY <2>3, <2>4 DEF FileSystems
<1>2. UNCHANGED <<phase, request, canonical, verdict, checkpoint>>
  BY DEF ChangeFileSystem, processVars
<1>3. TypeOK'
  BY <1>1, <1>2 DEF IInv, TypeOK
<1>4. Chained' /\ Admitted' /\ ModelAgreed' /\ ResultNeverReplaced'
  BY <1>2 DEF IInv, Chained, Admitted, ModelAgreed, ResultNeverReplaced
<1>5. Tested'
  BY <1>2 DEF IInv, Tested, MinimalResume
<1>. QED BY <1>3, <1>4, <1>5 DEF IInv

\* What a client sends is a request, and resumes from the last publication.
LEMMA SendableType ==
  ASSUME TypeOK, NEW r \in Sendable
  PROVE  /\ r \in RequestsWith(Snapshots)
         /\ Resumes(r) => /\ checkpoint # NoCheckpoint
                          /\ r.snapshot.model = checkpoint.snapshot.model
                          /\ r.snapshot.workspace = checkpoint.snapshot.workspace
<1>1. CASE checkpoint = NoCheckpoint
  BY <1>1 DEF Sendable, RequestsWith, Resumes
<1>2. CASE checkpoint # NoCheckpoint
  <2>1. checkpoint.snapshot \in Snapshots
    BY <1>2 DEF TypeOK
  <2>. DEFINE Variants == {[checkpoint.snapshot EXCEPT !.form = f] : f \in Forms}
  <2>2. \A s \in Variants : /\ s \in Snapshots
                            /\ s.model = checkpoint.snapshot.model
                            /\ s.workspace = checkpoint.snapshot.workspace
    BY <2>1 DEF Snapshots
  <2>3. r \in RequestsWith(Variants)
    BY <1>2 DEF Sendable
  <2>. HIDE DEF Variants
  <2>. QED BY <1>2, <2>2, <2>3 DEF RequestsWith, Resumes
<1>. QED BY <1>1, <1>2

LEMMA StartKeeps == ASSUME IInv, NEW r \in Sendable, Start(r) PROVE IInv'
<1>. DEFINE error == FirstFailure(StartChecks(r))
<1>1. UNCHANGED <<at, checkpoint>> /\ at \in FileSystems /\ TypeOK
  BY DEF Start, IInv, TypeOK
<1>2. CASE error # "none"
  <2>1. End(error)
    BY <1>2 DEF Start
  <2>2. error # "result_too_large"
    BY StartChecksPassed
  <2>. HIDE DEF error
  <2>. QED BY <1>1, <2>1, <2>2, EndKeeps
<1>3. CASE error = "none"
  <2>1. /\ phase' = "resolved" /\ request' = r
        /\ canonical' = Canonical(r.workspace) /\ verdict' = "none"
    BY <1>3 DEF Start
  <2>2. TextAllowed(r.prompt) /\ r.workspace # Relative
    BY <1>3, StartChecksPassed
  <2>3. /\ r \in RequestsWith(Snapshots)
        /\ Resumes(r) => /\ checkpoint # NoCheckpoint
                         /\ r.snapshot.model = checkpoint.snapshot.model
                         /\ r.snapshot.workspace = checkpoint.snapshot.workspace
    BY <1>1, SendableType
  <2>4. Canonical(r.workspace) \in Names
    BY <1>1, <2>2, <2>3, CanonicalName DEF RequestsWith
  <2>5. TypeOK'
    BY <1>1, <2>1, <2>3, <2>4 DEF TypeOK
  <2>6. Chained'
    BY <1>1, <2>1, <2>2, <2>3 DEF Chained, TextAllowed, Resumes
  <2>7. Admitted' /\ ModelAgreed' /\ ResultNeverReplaced'
    BY <2>1 DEF Admitted, ModelAgreed, ResultNeverReplaced
  <2>8. Tested'
    BY <1>1 DEF IInv, Tested, MinimalResume
  <2>. QED BY <2>5, <2>6, <2>7, <2>8 DEF IInv
<1>. QED BY <1>2, <1>3

\* A step from one phase to a later one that changes nothing else keeps all of
\* the invariant but what the later phase adds.
LEMMA PhaseKeeps ==
  ASSUME IInv, phase # "idle", NEW next \in {"checked", "opening", "running"},
         phase' = next, UNCHANGED <<at, request, canonical, verdict, checkpoint>>
  PROVE  TypeOK' /\ Chained' /\ Tested' /\ ResultNeverReplaced'
<1>1. TypeOK'
  BY DEF IInv, TypeOK
<1>2. Chained' /\ ResultNeverReplaced'
  BY DEF IInv, Chained, ResultNeverReplaced
<1>3. Tested'
  BY DEF IInv, Tested, MinimalResume
<1>. QED BY <1>1, <1>2, <1>3

LEMMA CheckRequestKeeps == IInv /\ CheckRequest => IInv'
<1>. SUFFICES ASSUME IInv, CheckRequest PROVE IInv'
  OBVIOUS
<1>. DEFINE error == FirstFailure(RequestChecks(request, canonical))
<1>1. UNCHANGED <<at, checkpoint>> /\ at \in FileSystems /\ phase = "resolved"
  BY DEF CheckRequest, IInv, TypeOK
<1>2. CASE error # "none"
  <2>1. End(error)
    BY <1>2 DEF CheckRequest, Validate
  <2>2. error # "result_too_large"
    BY RequestChecksPassed
  <2>. HIDE DEF error
  <2>. QED BY <1>1, <2>1, <2>2, EndKeeps
<1>3. CASE error = "none"
  <2>1. phase' = "checked" /\ UNCHANGED <<request, canonical, verdict>>
    BY <1>3 DEF CheckRequest, Validate
  <2>2. /\ canonical \notin NotUtf8
        /\ request.instructions # NoText => TextAllowed(request.instructions)
        /\ Resumes(request) => request.snapshot.workspace = canonical
    BY <1>3, RequestChecksPassed
  <2>3. TypeOK' /\ Chained' /\ Tested' /\ ResultNeverReplaced'
    BY <1>1, <2>1, PhaseKeeps
  <2>4. Admitted' /\ ModelAgreed'
    BY <2>1, <2>2 DEF Admitted, ModelAgreed
  <2>. QED BY <2>3, <2>4 DEF IInv
<1>. QED BY <1>2, <1>3

LEMMA CheckCheckpointKeeps == IInv /\ CheckCheckpoint => IInv'
<1>. SUFFICES ASSUME IInv, CheckCheckpoint PROVE IInv'
  OBVIOUS
<1>. DEFINE error == FirstFailure(CheckpointChecks(request, canonical))
<1>1. UNCHANGED <<at, checkpoint>> /\ at \in FileSystems /\ phase = "checked"
  BY DEF CheckCheckpoint, IInv, TypeOK
<1>2. CASE error # "none"
  <2>1. End(error)
    BY <1>2 DEF CheckCheckpoint, Validate
  <2>2. error # "result_too_large"
    BY CheckpointChecksPassed
  <2>. HIDE DEF error
  <2>. QED BY <1>1, <2>1, <2>2, EndKeeps
<1>3. CASE error = "none"
  <2>1. phase' = "opening" /\ UNCHANGED <<request, canonical, verdict>>
    BY <1>3 DEF CheckCheckpoint, Validate
  <2>2. Resumes(request) => request.model \in {NoModel, request.snapshot.model}
    BY <1>3, CheckpointChecksPassed
  <2>3. TypeOK' /\ Chained' /\ Tested' /\ ResultNeverReplaced'
    BY <1>1, <2>1, PhaseKeeps
  <2>4. Admitted' /\ ModelAgreed'
    BY <1>1, <2>1, <2>2 DEF IInv, Admitted, ModelAgreed
  <2>. QED BY <2>3, <2>4 DEF IInv
<1>. QED BY <1>2, <1>3

LEMMA OpenKeeps == IInv /\ Open => IInv'
<1>. SUFFICES ASSUME IInv, Open PROVE IInv'
  OBVIOUS
<1>1. UNCHANGED <<at, checkpoint>> /\ at \in FileSystems /\ phase = "opening"
  BY DEF Open, IInv, TypeOK
<1>2. ASSUME NEW code \in {"auth_error", "tool_error", "openai_error", "agent_error"},
             End(code)
      PROVE  IInv'
  BY <1>1, <1>2, EndKeeps
<1>3. CASE phase' = "running" /\ UNCHANGED <<request, canonical, verdict>>
  <2>1. TypeOK' /\ Chained' /\ Tested' /\ ResultNeverReplaced'
    BY <1>1, <1>3, PhaseKeeps
  <2>2. Admitted' /\ ModelAgreed'
    BY <1>1, <1>3 DEF IInv, Admitted, ModelAgreed
  <2>. QED BY <2>1, <2>2 DEF IInv
<1>. QED BY <1>2, <1>3 DEF Open

LEMMA FailTurnKeeps == IInv /\ FailTurn => IInv'
<1>. SUFFICES ASSUME IInv, FailTurn PROVE IInv'
  OBVIOUS
<1>1. End("turn_failed") /\ UNCHANGED <<at, checkpoint>> /\ at \in FileSystems
  BY DEF FailTurn, IInv, TypeOK
<1>. QED BY <1>1, EndKeeps
-----------------------------------------------------------------------------
\* The end of a turn.

Result(measures) ==
  [model |-> TurnModel(request), workspace |-> canonical, measures |-> measures,
   form |-> "canonical"]

\* What the agent returns is a snapshot of this session.
LEMMA ResultType ==
  ASSUME IInv, phase = "running", NEW measures \in Produced
  PROVE  /\ Result(measures) \in Snapshots
         /\ canonical \in Names /\ canonical \notin NotUtf8
         /\ request \in RequestsWith(Snapshots)
         /\ measures.bytes \in Nat /\ measures.nodes \in Nat /\ measures.depth \in Nat
<1>1. request \in RequestsWith(Snapshots) /\ canonical \in Names
  BY DEF IInv, TypeOK
<1>2. TurnModel(request) \in Models
  BY <1>1, ResumeAssumption DEF TurnModel, RequestsWith, Snapshots, Resumes
<1>3. measures \in Measures
  BY ResumeAssumption
<1>. QED BY <1>1, <1>2, <1>3 DEF Result, Snapshots, Forms, IInv, Admitted, Measures

\* The record an envelope makes is at least the instructions, the path and the
\* snapshot it holds.
LEMMA EnvelopeBytes ==
  ASSUME IInv, phase = "running", NEW measures \in Produced
  PROVE  LET envelope == ResumeEnvelope(request, canonical, Result(measures))
         IN  /\ envelope.snapshot.measures.bytes = measures.bytes
             /\ RecordBytes(envelope) \in Nat
             /\ RecordBytes(envelope) >= WorkspaceBytes[canonical] + measures.bytes
<1>. DEFINE envelope == ResumeEnvelope(request, canonical, Result(measures))
<1>1. /\ measures.bytes \in Nat /\ canonical \in Names
      /\ request.instructions \in Texts \cup {NoText}
  BY ResultType DEF RequestsWith
<1>2. /\ envelope.workspace = canonical /\ envelope.prompt = 1
      /\ envelope.instructions = request.instructions /\ envelope.model = NoModel
      /\ envelope.snapshot = Result(measures)
      /\ envelope.snapshot.measures.bytes = measures.bytes
  BY DEF ResumeEnvelope, Result
<1>3. WorkspaceBytes[canonical] \in Nat /\ FrameBytes \in Nat
  BY <1>1, ResumeAssumption
<1>4. (IF request.instructions = NoText THEN 0 ELSE request.instructions) \in Nat
  BY <1>1, ResumeAssumption
<1>5. (IF Resumes(envelope) THEN envelope.snapshot.measures.bytes ELSE 0)
        = measures.bytes
  BY <1>2, ResultType, NoCheckpointAssumption DEF Resumes
<1>. HIDE DEF envelope
<1>6. RecordBytes(envelope)
        = FrameBytes + WorkspaceBytes[canonical] + 1
            + (IF request.instructions = NoText THEN 0 ELSE request.instructions)
            + 0 + measures.bytes
  BY <1>2, <1>5 DEF RecordBytes
<1>. QED BY <1>1, <1>2, <1>3, <1>4, <1>6 DEF envelope

\* OutputHoldsResult is what keeps a result from being replaced: its path and
\* its snapshot fit an input record, and its final text fits the snapshot.
LEMMA TerminalFits ==
  ASSUME IInv, phase = "running", NEW measures \in Produced,
         NEW final \in {0, measures.bytes},
         FirstFailure(SnapshotChecks(
           ResumeEnvelope(request, canonical, Result(measures)))) = "none"
  PROVE  ~(TerminalBytes(Result(measures), final) > MaxOutputBytes)
<1>. DEFINE envelope == ResumeEnvelope(request, canonical, Result(measures))
<1>1. /\ ~(envelope.snapshot.measures.bytes > MaxSnapshotBytes)
      /\ ~(RecordBytes(envelope) > MaxInputBytes)
  BY SnapshotChecksPassed
<1>2. /\ envelope.snapshot.measures.bytes = measures.bytes
      /\ RecordBytes(envelope) \in Nat
      /\ RecordBytes(envelope) >= WorkspaceBytes[canonical] + measures.bytes
  BY EnvelopeBytes
<1>. HIDE DEF envelope
<1>3. /\ measures.bytes \in Nat /\ WorkspaceBytes[canonical] \in Nat
      /\ ResultBytes \in Nat /\ MaxInputBytes \in Nat
      /\ MaxSnapshotBytes \in Nat /\ MaxOutputBytes \in Nat
  BY ResultType, ResumeAssumption
<1>4. WorkspaceBytes[canonical] + measures.bytes <= MaxInputBytes
  BY <1>1, <1>2, <1>3
<1>5. final \in Nat /\ final <= MaxSnapshotBytes
  BY <1>1, <1>2, <1>3
<1>6. TerminalBytes(Result(measures), final)
        = ResultBytes + measures.bytes + WorkspaceBytes[canonical] + final
  BY DEF TerminalBytes, Result
<1>. QED BY <1>3, <1>4, <1>5, <1>6, OutputHoldsResult

\* A snapshot that is published has passed what Tested says of it.
LEMMA PublishedWasTested ==
  ASSUME IInv, phase = "running", NEW measures \in Produced,
         FirstFailure(SnapshotChecks(
           ResumeEnvelope(request, canonical, Result(measures)))) = "none",
         checkpoint' = [snapshot |-> Result(measures),
                        instructions |-> request.instructions]
  PROVE  Tested'
<1>. DEFINE envelope == ResumeEnvelope(request, canonical, Result(measures))
<1>1. /\ ~(envelope.snapshot.measures.bytes > MaxSnapshotBytes)
      /\ ~(RecordBytes(envelope) > MaxInputBytes)
      /\ WithinStructure(envelope)
  BY SnapshotChecksPassed
<1>2. MinimalResume' = envelope
  BY DEF MinimalResume, ResumeEnvelope, Result
<1>3. envelope.snapshot.measures.bytes = measures.bytes /\ RecordBytes(envelope) \in Nat
  BY EnvelopeBytes
<1>. HIDE DEF envelope
<1>4. Decodes(envelope)
  BY <1>1, <1>3, ResumeAssumption DEF Decodes
<1>5. measures.bytes \in Nat /\ request \in RequestsWith(Snapshots)
  BY ResultType
<1>6. TextAllowed(1)
  BY <1>5, ResumeAssumption DEF IInv, Chained, TextAllowed
<1>7. request.instructions # NoText => TextAllowed(request.instructions)
  BY DEF IInv, Admitted
<1>8. /\ checkpoint'.snapshot.measures.bytes = measures.bytes
      /\ checkpoint'.instructions = request.instructions
  BY DEF Result
<1>9. measures.bytes <= MaxSnapshotBytes
  BY <1>1, <1>3, <1>5, ResumeAssumption
<1>10. Decodes(MinimalResume)'
  BY <1>2, <1>4 DEF Decodes, RecordBytes, RecordNodes, RecordDepth, WithinStructure, Resumes
<1>. QED BY <1>6, <1>7, <1>8, <1>9, <1>10 DEF Tested, TextAllowed

LEMMA CompleteKeeps == IInv /\ Complete => IInv'
<1>. SUFFICES ASSUME IInv, Complete PROVE IInv'
  OBVIOUS
<1>1. UNCHANGED at /\ at' \in FileSystems /\ phase = "running"
  BY DEF Complete, IInv, TypeOK
<1>2. PICK measures \in Produced, shutdown \in {"clean", "failed"} :
        LET s == Result(measures)
            error == FirstFailure(SnapshotChecks(ResumeEnvelope(request, canonical, s)))
        IN  \/ error # "none" /\ End(error) /\ UNCHANGED checkpoint
            \/ /\ error = "none"
               /\ \E final \in IF shutdown = "clean" THEN {0, measures.bytes} ELSE {0} :
                    \/ /\ TerminalBytes(s, final) > MaxOutputBytes
                       /\ End("result_too_large") /\ UNCHANGED checkpoint
                    \/ /\ TerminalBytes(s, final) <= MaxOutputBytes
                       /\ End(IF shutdown = "clean" THEN "completed" ELSE "cleanup_failed")
                       /\ checkpoint' = [snapshot |-> s,
                                         instructions |-> request.instructions]
  BY DEF Complete, Result
<1>. DEFINE error == FirstFailure(SnapshotChecks(
                       ResumeEnvelope(request, canonical, Result(measures))))
<1>3. CASE error # "none"
  <2>1. End(error) /\ UNCHANGED checkpoint
    BY <1>2, <1>3
  <2>2. error # "result_too_large"
    BY SnapshotChecksPassed
  <2>. HIDE DEF error
  <2>. QED BY <1>1, <2>1, <2>2, EndKeeps
<1>4. CASE error = "none"
  <2>1. PICK final \in {0, measures.bytes} :
          \/ TerminalBytes(Result(measures), final) > MaxOutputBytes
          \/ /\ End(IF shutdown = "clean" THEN "completed" ELSE "cleanup_failed")
             /\ checkpoint' = [snapshot |-> Result(measures),
                               instructions |-> request.instructions]
    BY <1>2, <1>4
  <2>2. ~(TerminalBytes(Result(measures), final) > MaxOutputBytes)
    BY <1>1, <1>4, TerminalFits
  <2>3. /\ End(IF shutdown = "clean" THEN "completed" ELSE "cleanup_failed")
        /\ checkpoint' = [snapshot |-> Result(measures),
                          instructions |-> request.instructions]
    BY <2>1, <2>2
  <2>4. Tested'
    BY <1>1, <1>4, <2>3, PublishedWasTested
  <2>5. /\ Result(measures) \in Snapshots /\ canonical \notin NotUtf8
        /\ Result(measures).form = "canonical"
        /\ Result(measures).workspace = canonical
    BY <1>1, ResultType DEF Result
  <2>6. TypeOK'
    BY <1>1, <2>3, <2>5 DEF TypeOK, End
  <2>7. Chained' /\ Admitted' /\ ModelAgreed' /\ ResultNeverReplaced'
    BY <2>3 DEF End, Chained, Admitted, ModelAgreed, ResultNeverReplaced
  <2>. QED BY <2>4, <2>6, <2>7 DEF IInv
<1>. QED BY <1>3, <1>4

LEMMA StutterKeeps == IInv /\ UNCHANGED vars => IInv'
<1>. SUFFICES ASSUME IInv, UNCHANGED vars PROVE IInv'
  OBVIOUS
<1>1. TypeOK'
  BY DEF IInv, TypeOK, vars, processVars
<1>2. Chained' /\ Admitted' /\ ModelAgreed' /\ ResultNeverReplaced'
  BY DEF IInv, Chained, Admitted, ModelAgreed, ResultNeverReplaced, vars, processVars
<1>3. Tested'
  BY DEF IInv, Tested, MinimalResume, vars, processVars
<1>. QED BY <1>1, <1>2, <1>3 DEF IInv

LEMMA NextInvariant == IInv /\ [Next]_vars => IInv'
BY ChangeKeeps, StartKeeps, CheckRequestKeeps, CheckCheckpointKeeps, OpenKeeps,
   CompleteKeeps, FailTurnKeeps, StutterKeeps DEF Next

LEMMA InvariantHolds == Spec => []IInv
BY InitInvariant, NextInvariant, PTL DEF Spec
-----------------------------------------------------------------------------
\* The types of every chain of processes (all of validate_request and the end
\* of run_with_openai): no altered snapshot is published, and none whose path
\* JSON cannot spell.
THEOREM ChainTypeCorrect == Spec => []TypeOK
<1>1. IInv => TypeOK
  BY DEF IInv
<1>. QED BY <1>1, InvariantHolds, PTL

\* send_terminal_record never replaces a result that passed the snapshot checks,
\* whatever the limits are, as long as the output limit holds one input record
\* and one snapshot.
THEOREM ResultsArePublished == Spec => []ResultNeverReplaced
<1>1. IInv => ResultNeverReplaced
  BY DEF IInv
<1>. QED BY <1>1, InvariantHolds, PTL

\* The builder runs with the model the client named, although it is told the
\* model only in a fresh turn.
THEOREM NamedModelRuns == Spec => []ExplicitModelRuns
<1>1. IInv => ExplicitModelRuns
  <2>. SUFFICES ASSUME IInv, phase = "running", request.model # NoModel
                PROVE  TurnModel(request) = request.model
    BY DEF ExplicitModelRuns
  <2>1. CASE Resumes(request)
    BY <2>1 DEF TurnModel, IInv, ModelAgreed
  <2>2. CASE ~Resumes(request)
    BY <2>2 DEF TurnModel
  <2>. QED BY <2>1, <2>2
<1>. QED BY <1>1, InvariantHolds, PTL

\* The minimal resume of the published snapshot decodes and passes all of
\* validate_request whenever its workspace is a directory.
THEOREM PublishedCanBeResumed == Spec => []PublishedIsResumable
<1>1. IInv => PublishedIsResumable
  <2>. DEFINE r == MinimalResume
              path == Canonical(r.workspace)
  <2>. SUFFICES ASSUME IInv, checkpoint # NoCheckpoint,
                       at[checkpoint.snapshot.workspace] = "directory"
                PROVE  /\ FirstFailure(StartChecks(r)) = "none"
                       /\ FirstFailure(RequestChecks(r, path)) = "none"
                       /\ FirstFailure(CheckpointChecks(r, path)) = "none"
    BY DEF PublishedIsResumable
  <2>1. /\ r.workspace = checkpoint.snapshot.workspace /\ r.prompt = 1
        /\ r.instructions = checkpoint.instructions /\ r.model = NoModel
        /\ r.snapshot = checkpoint.snapshot
    BY DEF MinimalResume
  <2>2. /\ checkpoint.snapshot \in Snapshots /\ checkpoint.snapshot.form = "canonical"
        /\ r.workspace \in Names /\ r.workspace \notin NotUtf8
    BY <2>1 DEF IInv, TypeOK, Snapshots
  <2>3. path = r.workspace /\ Resolves(r.workspace) /\ IsDirectory(path)
    BY <2>1, ResumeAssumption DEF Canonical, Resolves, IsDirectory
  <2>4. /\ Decodes(r) /\ TextAllowed(r.prompt)
        /\ r.instructions # NoText => TextAllowed(r.instructions)
        /\ r.snapshot.measures.bytes <= MaxSnapshotBytes
    BY <2>1 DEF IInv, Tested
  <2>5. r.snapshot.measures.bytes \in Nat /\ MaxSnapshotBytes \in Nat
    BY <2>1, <2>2, ResumeAssumption DEF Snapshots, Measures
  <2>. HIDE DEF r, path
  <2>6. FirstFailure(StartChecks(r)) = "none"
    BY <2>2, <2>3, <2>4, ResumeAssumption, StartChecksPassed
  <2>7. FirstFailure(RequestChecks(r, path)) = "none"
    <3>1. ~(r.snapshot.measures.bytes > MaxSnapshotBytes)
      BY <2>4, <2>5
    <3>2. r.snapshot.form \notin {"altered", "outdated"}
      BY <2>1, <2>2
    <3>. QED BY <2>1, <2>2, <2>3, <2>4, <3>1, <3>2, RequestChecksPassed
  <2>8. FirstFailure(CheckpointChecks(r, path)) = "none"
    BY <2>1, <2>3, CheckpointChecksPassed DEF path
  <2>. QED BY <2>6, <2>7, <2>8
<1>. QED BY <1>1, InvariantHolds, PTL

\* The second canonicalization of validate_request sees a path that is no link.
THEOREM AdmittedPathIsReal == Spec => ResumedPathIsReal
<1>1. IInv /\ [Next]_vars =>
        [phase = "checked" /\ phase' = "opening" /\ Resumes(request)
           => at[request.snapshot.workspace] \in {"file", "directory"}]_vars
  <2>. SUFFICES ASSUME IInv, Next, phase = "checked", phase' = "opening",
                       Resumes(request)
                PROVE  at[request.snapshot.workspace] \in {"file", "directory"}
    OBVIOUS
  <2>1. CheckCheckpoint
    BY DEF Next, ChangeFileSystem, processVars, Start, CheckRequest, Open, Complete,
           FailTurn
  <2>2. FirstFailure(CheckpointChecks(request, canonical)) = "none"
    BY <2>1 DEF CheckCheckpoint, Validate, End
  <2>3. /\ Resolves(request.snapshot.workspace)
        /\ Canonical(request.snapshot.workspace) = canonical
    BY <2>2, CheckpointChecksPassed
  <2>4. request.snapshot.workspace = canonical
    BY DEF IInv, Admitted
  <2>. QED BY <2>3, <2>4 DEF Resolves, Canonical
<1>. QED BY <1>1, InvariantHolds, PTL DEF Spec, ResumedPathIsReal

\* No resume changes the model or the workspace of the published snapshot.
THEOREM SessionNeverDrifts == Spec => SessionKeepsModelAndPlace
<1>1. IInv /\ [Next]_vars =>
        [checkpoint' # checkpoint /\ Resumes(request)
           => /\ checkpoint'.snapshot.model = checkpoint.snapshot.model
              /\ checkpoint'.snapshot.workspace = checkpoint.snapshot.workspace]_vars
  <2>. SUFFICES ASSUME IInv, Next, checkpoint' # checkpoint, Resumes(request)
                PROVE  /\ checkpoint'.snapshot.model = checkpoint.snapshot.model
                       /\ checkpoint'.snapshot.workspace = checkpoint.snapshot.workspace
    OBVIOUS
  <2>1. Complete
    BY DEF Next, ChangeFileSystem, Start, CheckRequest, CheckCheckpoint, Open, FailTurn
  <2>2. PICK measures \in Produced :
          checkpoint' = [snapshot |-> Result(measures),
                         instructions |-> request.instructions]
    BY <2>1 DEF Complete, Result
  <2>3. /\ checkpoint'.snapshot.model = request.snapshot.model
        /\ checkpoint'.snapshot.workspace = canonical
    BY <2>2 DEF Result, TurnModel
  <2>4. /\ request.snapshot.model = checkpoint.snapshot.model
        /\ request.snapshot.workspace = checkpoint.snapshot.workspace
        /\ request.snapshot.workspace = canonical
    BY <2>1 DEF IInv, Chained, Admitted, Complete
  <2>. QED BY <2>3, <2>4
<1>. QED BY <1>1, InvariantHolds, PTL DEF Spec, SessionKeepsModelAndPlace
=============================================================================
