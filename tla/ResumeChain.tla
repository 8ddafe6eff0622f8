----------------------------- MODULE ResumeChain -----------------------------
(***************************************************************************)
(* Checkpoints across processes (src/src/backend.rs: validate_request,     *)
(* ResumeEnvelopeContext, the end of run_with_openai).  Each bridge        *)
(* process runs one turn and publishes its snapshot only if a later        *)
(* process could resume from it; that process decodes and validates the    *)
(* snapshot again, in a file system that others change between any two of  *)
(* its looks at it.                                                        *)
(*                                                                         *)
(* A path is a name, and a file system maps names to nothing, a file, a    *)
(* directory or a link to another name.  A text is its length, 0 when it   *)
(* trims to nothing; a snapshot is its model, its workspace and what the   *)
(* limits measure.  Identifiers, auth, the option keys and the rest of a   *)
(* record count in FrameBytes and FrameNodes.                              *)
(***************************************************************************)
EXTENDS Integers, FiniteSets

CONSTANTS
  Names, Relative,  \* absolute paths, and one that is not absolute
  NotUtf8,          \* the names no JSON string spells
  WorkspaceBytes,   \* the length of each
  Models, DefaultModel, NoModel,
  Texts, NoText,    \* lengths of prompts and instructions in a run
  Produced,         \* measures of the snapshots the agent produces in a run
  NoCheckpoint,
  FrameBytes, FrameNodes, FrameDepth,   \* a turn.start record around them
  ModelBytes,       \* the model option with its key
  ResultBytes,      \* a terminal around its snapshot, workspace and final text
  MaxInputBytes, MaxOutputBytes, MaxPromptBytes, MaxSnapshotBytes,
  MaxNodes, MaxDepth

Measures == [bytes : Nat, nodes : Nat, depth : Nat]

ASSUME ResumeAssumption ==
  /\ NotUtf8 \subseteq Names /\ Relative \notin Names
  /\ Names \cap {"absent", "file", "directory"} = {}
  /\ WorkspaceBytes \in [Names \cup {Relative} -> Nat]
  /\ DefaultModel \in Models /\ NoModel \notin Models
  /\ NoText \notin Texts /\ Texts \subseteq Nat /\ Produced \subseteq Measures
  /\ {FrameBytes, FrameNodes, FrameDepth, ModelBytes, ResultBytes,
      MaxInputBytes, MaxOutputBytes, MaxPromptBytes, MaxSnapshotBytes,
      MaxNodes, MaxDepth} \subseteq Nat

\* capabilities.rs: 24 MiB, 15 MiB and 40 MiB.
ASSUME OutputHoldsResult ==
  MaxInputBytes + MaxSnapshotBytes + ResultBytes <= MaxOutputBytes

VARIABLES
  at,           \* the file system
  phase,        \* of the running process; "idle" between two processes
  request,      \* the turn.start it serves
  canonical,    \* canonical_workspace
  verdict,      \* how the last process ended: an error code or "completed"
  checkpoint    \* the last snapshot published, and the instructions in force

processVars == <<phase, request, canonical, verdict>>
vars == <<at, processVars, checkpoint>>

Entries == {"absent", "file", "directory"} \cup Names

\* Links lead to a name that is not itself a link.
FileSystems ==
  {fs \in [Names -> Entries] : \A n \in Names : fs[n] \in Names => fs[fs[n]] \notin Names}

\* "altered": not what Nanocodex serializes; "outdated": of another version.
Forms == {"canonical", "altered", "outdated"}
Snapshots ==
  [model : Models, workspace : Names, measures : Produced, form : Forms]
ASSUME NoCheckpointAssumption == NoCheckpoint \notin Snapshots

RequestsWith(snapshots) ==
  [workspace : (Names \ NotUtf8) \cup {Relative}, prompt : Texts,
   instructions : Texts \cup {NoText}, model : Models \cup {NoModel},
   snapshot : snapshots \cup {NoCheckpoint}]
Resumes(r) == r.snapshot # NoCheckpoint

\* The first check that fails decides: its code, in the code's order.
FirstFailure(checks) ==
  LET failing == {i \in DOMAIN checks : checks[i][1]}
  IN  IF failing = {} THEN "none"
      ELSE checks[CHOOSE i \in failing : \A j \in failing : i <= j][2]

Init ==
  /\ at \in FileSystems
  /\ phase = "idle" /\ request = NoCheckpoint /\ canonical = Relative
  /\ verdict = "none" /\ checkpoint = NoCheckpoint
-----------------------------------------------------------------------------
(* The file system as std::fs shows it. *)

Canonical(n) == IF at[n] \in Names THEN at[n] ELSE n
Resolves(n) == at[Canonical(n)] \in {"file", "directory"}
IsDirectory(n) == at[Canonical(n)] = "directory"

\* Another process creates, removes or replaces one entry.
ChangeFileSystem ==
  /\ \E n \in Names, entry \in Entries :
       /\ entry \in Names => at[entry] \notin Names
                              /\ \A m \in Names : at[m] # n
       /\ entry \notin {n, at[n]}
       /\ at' = [at EXCEPT ![n] = entry]
  /\ UNCHANGED <<processVars, checkpoint>>
-----------------------------------------------------------------------------
(* The limits of a record: read_record, then strict_json. *)

RecordBytes(r) ==
  FrameBytes + WorkspaceBytes[r.workspace] + r.prompt
    + (IF r.instructions = NoText THEN 0 ELSE r.instructions)
    + (IF r.model = NoModel THEN 0 ELSE ModelBytes)
    + (IF Resumes(r) THEN r.snapshot.measures.bytes ELSE 0)
RecordNodes(r) ==
  FrameNodes + (IF r.model = NoModel THEN 0 ELSE 1)
    + (IF Resumes(r) THEN r.snapshot.measures.nodes ELSE 0)
RecordDepth(r) ==
  FrameDepth + (IF Resumes(r) THEN r.snapshot.measures.depth ELSE 0)

WithinStructure(r) == RecordNodes(r) <= MaxNodes /\ RecordDepth(r) <= MaxDepth
Decodes(r) == RecordBytes(r) <= MaxInputBytes /\ WithinStructure(r)
-----------------------------------------------------------------------------
(* validate_request, in the three parts between which the file system may  *)
(* change.                                                                 *)

TextAllowed(text) == text \in 1 .. MaxPromptBytes

\* Until the requested path is resolved.
StartChecks(r) ==
  <<<<~Decodes(r), "protocol_error">>,
    <<~TextAllowed(r.prompt), "invalid_prompt">>,
    <<r.workspace = Relative, "workspace_not_absolute">>,
    <<r.workspace # Relative /\ ~Resolves(r.workspace), "workspace_unavailable">>>>

\* Mutant: the canonical path is not asked to be UTF-8.
RequestChecksAnyBytes(r, path) ==
  <<<<~IsDirectory(path), "workspace_not_directory">>,
    <<r.instructions # NoText /\ ~TextAllowed(r.instructions),
      "invalid_instructions">>,
    <<Resumes(r) /\ r.snapshot.measures.bytes > MaxSnapshotBytes,
      "snapshot_too_large">>,
    <<Resumes(r) /\ r.snapshot.form = "altered", "invalid_snapshot">>,
    <<Resumes(r) /\ r.snapshot.form = "outdated", "snapshot_version_unsupported">>,
    <<Resumes(r) /\ r.snapshot.workspace # path, "workspace_changed">>>>

\* From is_dir, which follows links, to the comparison of the path strings.
RequestChecks(r, path) ==
  <<<<~IsDirectory(path), "workspace_not_directory">>,
    <<path \in NotUtf8, "workspace_not_utf8">>,
    <<r.instructions # NoText /\ ~TextAllowed(r.instructions),
      "invalid_instructions">>,
    <<Resumes(r) /\ r.snapshot.measures.bytes > MaxSnapshotBytes,
      "snapshot_too_large">>,
    <<Resumes(r) /\ r.snapshot.form = "altered", "invalid_snapshot">>,
    <<Resumes(r) /\ r.snapshot.form = "outdated", "snapshot_version_unsupported">>,
    <<Resumes(r) /\ r.snapshot.workspace # path, "workspace_changed">>>>

\* Mutant: the stored path is compared as a string only.
CheckpointChecksByName(r, path) ==
  <<<<Resumes(r) /\ r.model \notin {NoModel, r.snapshot.model}, "model_mismatch">>>>

\* Mutant: on resume the model option is not looked at.
CheckpointChecksAnyModel(r, path) ==
  <<<<Resumes(r) /\ ~Resolves(r.snapshot.workspace),
      "checkpoint_workspace_unavailable">>,
    <<Resumes(r) /\ Canonical(r.snapshot.workspace) # path, "workspace_changed">>>>

\* The stored path is resolved in its turn; then the model is compared.
CheckpointChecks(r, path) ==
  <<<<Resumes(r) /\ ~Resolves(r.snapshot.workspace),
      "checkpoint_workspace_unavailable">>,
    <<Resumes(r) /\ Canonical(r.snapshot.workspace) # path, "workspace_changed">>,
    <<Resumes(r) /\ r.model \notin {NoModel, r.snapshot.model}, "model_mismatch">>>>

End(code) ==
  /\ phase' = "idle" /\ verdict' = code
  /\ request' = NoCheckpoint /\ canonical' = Relative

\* One part of the validation, then the next phase.
Validate(checks, next) ==
  LET error == FirstFailure(checks)
  IN  \/ error # "none" /\ End(error)
      \/ /\ error = "none" /\ phase' = next
         /\ UNCHANGED <<request, canonical, verdict>>

\* A new process reads its first record.  The client resumes from what it holds,
\* whole or not.
Sendable ==
  RequestsWith(IF checkpoint = NoCheckpoint THEN {}
               ELSE {[checkpoint.snapshot EXCEPT !.form = f] : f \in Forms})

Start(r) ==
  /\ phase = "idle"
  /\ LET error == FirstFailure(StartChecks(r))
     IN  \/ error # "none" /\ End(error)
         \/ /\ error = "none" /\ phase' = "resolved" /\ request' = r
            /\ canonical' = Canonical(r.workspace) /\ verdict' = "none"
  /\ UNCHANGED <<at, checkpoint>>

CheckRequest ==
  /\ phase = "resolved"
  /\ Validate(RequestChecks(request, canonical), "checked")
  /\ UNCHANGED <<at, checkpoint>>

CheckCheckpoint ==
  /\ phase = "checked"
  /\ Validate(CheckpointChecks(request, canonical), "opening")
  /\ UNCHANGED <<at, checkpoint>>

\* resolve_auth, tools_for_auth, the client and the agent; any may fail.
Open ==
  /\ phase = "opening"
  /\ \/ \E code \in {"auth_error", "tool_error", "openai_error", "agent_error"} :
          End(code)
     \/ phase' = "running" /\ UNCHANGED <<request, canonical, verdict>>
  /\ UNCHANGED <<at, checkpoint>>
-----------------------------------------------------------------------------
(* The end of the turn. *)

\* Mutant: the builder is given a model in a resumed turn, too.
TurnModelAlways(r) == IF r.model = NoModel THEN DefaultModel ELSE r.model

\* The model of the turn: the builder is given one only for a fresh turn.
TurnModel(r) ==
  CASE Resumes(r) -> r.snapshot.model
    [] ~Resumes(r) /\ r.model # NoModel -> r.model
    [] OTHER -> DefaultModel

\* Mutant: the options of the turn are left out.
ResumeEnvelopeBare(r, path, snapshot) ==
  [workspace |-> path, prompt |-> 1, instructions |-> NoText, model |-> NoModel,
   snapshot |-> snapshot]

\* ResumeEnvelopeContext: the command a later process is measured with.  It
\* has the options of this turn, except the model.
ResumeEnvelope(r, path, snapshot) ==
  [workspace |-> path, prompt |-> 1, instructions |-> r.instructions,
   model |-> NoModel, snapshot |-> snapshot]

\* Mutant: a snapshot may be as large as its envelope allows.
SnapshotChecksUnbounded(envelope) ==
  <<<<~WithinStructure(envelope), "snapshot_structure_too_large">>,
    <<RecordBytes(envelope) > MaxInputBytes, "snapshot_resume_record_too_large">>>>

SnapshotChecks(envelope) ==
  <<<<envelope.snapshot.measures.bytes > MaxSnapshotBytes, "snapshot_too_large">>,
    <<~WithinStructure(envelope), "snapshot_structure_too_large">>,
    <<RecordBytes(envelope) > MaxInputBytes, "snapshot_resume_record_too_large">>>>

\* completed_json with the final text, or recovery_json without it.
TerminalBytes(snapshot, final) ==
  ResultBytes + snapshot.measures.bytes + WorkspaceBytes[snapshot.workspace] + final

\* The turn succeeds.  Its snapshot names the workspace and the model the agent
\* was built with and holds the final text; shutdown may fail after that.
Complete ==
  /\ phase = "running"
  /\ \E measures \in Produced, shutdown \in {"clean", "failed"} :
       LET s == [model |-> TurnModel(request), workspace |-> canonical,
                 measures |-> measures, form |-> "canonical"]
           error == FirstFailure(SnapshotChecks(ResumeEnvelope(request, canonical, s)))
       IN  \/ error # "none" /\ End(error) /\ UNCHANGED checkpoint
           \/ /\ error = "none"
              /\ \E final \in IF shutdown = "clean" THEN {0, measures.bytes} ELSE {0} :
                   \/ /\ TerminalBytes(s, final) > MaxOutputBytes
                      /\ End("result_too_large") /\ UNCHANGED checkpoint
                   \/ /\ TerminalBytes(s, final) <= MaxOutputBytes
                      /\ End(IF shutdown = "clean" THEN "completed" ELSE "cleanup_failed")
                      /\ checkpoint' = [snapshot |-> s,
                                        instructions |-> request.instructions]
  /\ UNCHANGED at

\* The turn fails or is cancelled: the client keeps what it had.
FailTurn ==
  /\ phase = "running" /\ End("turn_failed")
  /\ UNCHANGED <<at, checkpoint>>

Next ==
  \/ ChangeFileSystem
  \/ \E r \in Sendable : Start(r)
  \/ CheckRequest \/ CheckCheckpoint \/ Open \/ Complete \/ FailTurn

Spec == Init /\ [][Next]_vars
-----------------------------------------------------------------------------
\* Paths stay canonical names and a process holds a request exactly while it
\* runs; only what Nanocodex serialized is ever published.
TypeOK ==
  /\ at \in FileSystems
  /\ phase \in {"idle", "resolved", "checked", "opening", "running"}
  /\ phase = "idle" => request = NoCheckpoint /\ canonical = Relative
  /\ phase # "idle" => request \in RequestsWith(Snapshots) /\ canonical \in Names
  /\ checkpoint # NoCheckpoint =>
       /\ checkpoint.snapshot \in Snapshots /\ checkpoint.snapshot.form = "canonical"
       /\ checkpoint.snapshot.workspace \notin NotUtf8

\* The command spec 5.5 speaks of: the workspace of the terminal, the same
\* instructions, a prompt of one byte, and the model inherited.
MinimalResume ==
  [workspace |-> checkpoint.snapshot.workspace, prompt |-> 1,
   instructions |-> checkpoint.instructions, model |-> NoModel,
   snapshot |-> checkpoint.snapshot]

\* A published snapshot never strands its session: as long as its workspace is
\* a directory, a later process decodes the minimal command and validates it,
\* however many turns, refusals and changes of the file system lie between
\* (spec 5.5: "guarantees the published snapshot has at least one
\* protocol-valid fresh-process resume framing").
PublishedIsResumable ==
  checkpoint # NoCheckpoint /\ at[checkpoint.snapshot.workspace] = "directory" =>
    LET r == MinimalResume
        path == Canonical(r.workspace)
    IN  \A checks \in {StartChecks(r), RequestChecks(r, path), CheckpointChecks(r, path)} :
          FirstFailure(checks) = "none"

\* A turn runs with the model its client asked for, in a resumed session too:
\* the option is honoured or refused, never ignored (spec 5.4).
ExplicitModelRuns ==
  phase = "running" /\ request.model # NoModel => TurnModel(request) = request.model

\* A result that passed the checks of its snapshot is never replaced by
\* result_too_large, the final text repeated or not: the record limits and the
\* snapshot limit leave room for both (recovery_json, spec 6.3).
ResultNeverReplaced == verdict # "result_too_large"

\* When a resume is admitted the stored path is no link, whatever happened
\* since the requested one was resolved (spec 5.5: "a second filesystem
\* canonicalization of the stored path").
ResumedPathIsReal ==
  [][phase = "checked" /\ phase' = "opening" /\ Resumes(request)
       => at[request.snapshot.workspace] \in {"file", "directory"}]_vars

\* A session keeps its model and its workspace through any number of resumes.
SessionKeepsModelAndPlace ==
  [][checkpoint' # checkpoint /\ Resumes(request)
       => /\ checkpoint'.snapshot.model = checkpoint.snapshot.model
          /\ checkpoint'.snapshot.workspace = checkpoint.snapshot.workspace]_vars
=============================================================================
