---------------------------- MODULE ManagedAuth ----------------------------
(***************************************************************************)
(* Managed ChatGPT credentials (src/src/backend.rs,                        *)
(* BoundedManagedAuthSource and BoundedManagedAuthStore).  The agent uses  *)
(* an owner-private staged copy of the caller's file.  Every operation     *)
(* adopts what others wrote to the original before and after it, copies a  *)
(* refresh of its own back, and reloads the in-memory handle before that   *)
(* hands out a bearer.                                                     *)
(*                                                                         *)
(* The code compares files byte for byte, so a document is its content and *)
(* whether it loads as this account's, and one that was there before may   *)
(* come back.  Other processes replace the original at any time and any    *)
(* number of times: between any two actions, also between the final check  *)
(* and the rename.  One operation runs at a time (the lock on inner).      *)
(* External: the handle of Nanocodex; it may refresh while it is used, and *)
(* then writes the staged file and its own memory together.                *)
(***************************************************************************)
EXTENDS Integers

CONSTANTS
  MaxAttempts,       \* MAX_MANAGED_AUTH_SYNC_ATTEMPTS
  Contents,          \* what tells documents of one quality apart
  Unreadable         \* no regular file of at most 1 MiB at the original path

Qualities == {"ours", "other_account", "malformed"}
Documents == [content : Contents, quality : Qualities]

ASSUME AuthAssumption ==
  MaxAttempts \in Nat \ {0} /\ Unreadable \notin Documents

VARIABLES
  original,        \* the caller's file
  staged,          \* the staged copy
  baseline,        \* store.baseline: the original as last seen or written
  reloadRequired,  \* reload_required
  inner,           \* the document the in-memory handle holds
  pc,              \* where the operation is; "idle" when none runs
  operation,       \* "snapshot" or "recover"
  attempts,        \* attempts of this snapshot begun
  result,          \* what inner gave: "none", "ok", "error"
  bearer,          \* the document result stands for
  answer,          \* how the last operation ended
  unseen,          \* auxiliary: the external document this operation replaced unseen
  raced            \* auxiliary: the one last written since the final check passed

fileVars == <<original, staged, baseline>>
opVars   == <<operation, attempts, result, bearer>>
auxVars  == <<unseen, raced>>
vars == <<fileVars, reloadRequired, inner, pc, opVars, answer, auxVars>>

Ours(content) == [content |-> content, quality |-> "ours"]
-----------------------------------------------------------------------------
\* load_bounded_chatgpt_auth has staged a document that loads.
Init ==
  /\ \E c \in Contents : original = Ours(c)
  /\ staged = original /\ baseline = original /\ inner = original
  /\ reloadRequired = FALSE
  /\ pc = "idle" /\ operation = "snapshot" /\ attempts = 0
  /\ result = "none" /\ bearer = inner /\ answer = "none"
  /\ unseen = {} /\ raced = {}

Begin ==
  /\ pc = "idle"
  /\ operation' \in {"snapshot", "recover"}
  /\ pc' = "before" /\ attempts' = 1 /\ result' = "none" /\ answer' = "none"
  /\ unseen' = {} /\ raced' = {}
  /\ UNCHANGED <<fileVars, reloadRequired, inner, bearer>>

\* The operation ends: pc is idle again and the lock is free.
End(how) == pc' = "idle" /\ answer' = how
GoOn(where) == pc' = where /\ UNCHANGED answer

\* Mutant: the handle is not replaced by what was adopted.
ReloadNever(doc, required, where) ==
  /\ reloadRequired' = FALSE /\ UNCHANGED inner
  /\ GoOn(where)

\* reload_inner_if_required, when the staged file holds doc: a document that
\* does not load, or cannot be read now, leaves the reload required and fails
\* the operation.
Reload(doc, required, where) ==
  \/ /\ ~required
     /\ UNCHANGED <<reloadRequired, inner>> /\ GoOn(where)
  \/ /\ required /\ doc.quality = "ours"
     /\ reloadRequired' = FALSE /\ inner' = doc /\ GoOn(where)
  \/ /\ required
     /\ reloadRequired' = TRUE /\ UNCHANGED inner
     /\ \/ End("unavailable")
        \/ doc.quality = "other_account" /\ End("account_changed")

\* The original becomes the staged copy and the baseline; the flag is raised.
Adopt(where) ==
  /\ staged' = original /\ baseline' = original
  /\ Reload(original, TRUE, where)

\* sync_from_original, then the reload; recover_unauthorized does not ask the
\* old handle to refresh when it has just adopted a newer document.
SyncBefore ==
  /\ pc = "before"
  /\ \/ /\ original = Unreadable /\ End("unavailable")
        /\ UNCHANGED <<staged, baseline, reloadRequired, inner, result, bearer>>
     \/ /\ original # Unreadable /\ original = baseline
        /\ Reload(staged, reloadRequired, "using")
        /\ UNCHANGED <<staged, baseline, result, bearer>>
     \/ /\ original # Unreadable /\ original # baseline
        /\ Adopt(IF operation = "recover" THEN "after" ELSE "using")
        /\ result' = IF operation = "recover" THEN "ok" ELSE result
        /\ bearer' = IF operation = "recover" THEN original ELSE bearer
  /\ UNCHANGED <<original, operation, attempts, auxVars>>

\* The handle writes a refreshed document (external).
Refresh == \E c \in Contents : inner' = Ours(c) /\ staged' = inner'

\* inner.snapshot or inner.recover_unauthorized, without a refresh or with one.
UseInner ==
  /\ pc = "using"
  /\ \/ result' \in {"ok", "error"} /\ UNCHANGED <<staged, inner>>
     \/ result' = "ok" /\ Refresh
  /\ bearer' = inner'
  /\ pc' = "after"
  /\ UNCHANGED <<original, baseline, reloadRequired, operation, attempts,
                 answer, auxVars>>

\* The caller drops the future while the handle is in use.
Abandon ==
  /\ pc = "using"
  /\ Refresh \/ UNCHANGED <<staged, inner>>
  /\ End("abandoned")
  /\ UNCHANGED <<original, baseline, reloadRequired, opVars, auxVars>>

\* How an operation ends when nothing newer was adopted after it.
EndWithResult ==
  End(IF result = "ok" THEN "ok" ELSE "error")

\* sync_after_inner reads both files and decides: nothing, adopt, or copy the
\* refresh back.
SyncAfter ==
  /\ pc = "after"
  /\ \/ /\ original = Unreadable /\ End("unavailable")
        /\ UNCHANGED <<staged, baseline, reloadRequired, inner>>
     \/ /\ original # Unreadable /\ original # baseline
        /\ Adopt("adopted")
     \/ /\ original = baseline /\ staged = baseline
        /\ EndWithResult
        /\ UNCHANGED <<staged, baseline, reloadRequired, inner>>
     \/ /\ original = baseline /\ staged # baseline
        /\ GoOn("checking")
        /\ UNCHANGED <<staged, baseline, reloadRequired, inner>>
  /\ UNCHANGED <<original, opVars, auxVars>>

\* Mutant: the prepared replacement is renamed without the final check.
FinalCheckSkipped ==
  /\ pc = "checking" /\ GoOn("renaming")
  /\ UNCHANGED <<fileVars, reloadRequired, inner, opVars, auxVars>>

\* atomic_write_managed_auth_if_unchanged: the original is read once more
\* after the replacement is prepared.
FinalCheck ==
  /\ pc = "checking"
  /\ \/ original = Unreadable /\ End("unavailable")
     \/ original # Unreadable /\ original = baseline /\ GoOn("renaming")
     \/ original # Unreadable /\ original # baseline /\ GoOn("external")
  /\ raced' = {}
  /\ UNCHANGED <<fileVars, reloadRequired, inner, opVars, unseen>>

\* The rename cannot fail a check any more: the last writer wins.
Rename ==
  /\ pc = "renaming"
  /\ original' = staged /\ baseline' = staged
  /\ unseen' = {original} \ {baseline, Unreadable}
  /\ EndWithResult
  /\ UNCHANGED <<staged, reloadRequired, inner, opVars, raced>>

\* Another document won the final check: it is read again and adopted.
AdoptExternal ==
  /\ pc = "external"
  /\ \/ /\ original = Unreadable /\ End("unavailable")
        /\ UNCHANGED <<staged, baseline, reloadRequired, inner>>
     \/ original # Unreadable /\ Adopt("adopted")
  /\ UNCHANGED <<original, opVars, auxVars>>

\* Reading, staging or renaming fails: nothing is replaced, and what was left
\* undone is found again by the next operation.
StoreFails ==
  /\ pc \in {"before", "after", "checking", "renaming", "external"}
  /\ End("unavailable")
  /\ UNCHANGED <<fileVars, reloadRequired, inner, opVars, auxVars>>

\* Mutant: the bearer obtained before the adoption is returned.
ReturnStale ==
  /\ pc = "adopted" /\ EndWithResult
  /\ UNCHANGED <<fileVars, reloadRequired, inner, opVars, auxVars>>

\* Mutant: a snapshot starts again without counting (loop instead of for).
AfterAdoptionUncounted ==
  /\ pc = "adopted"
  /\ \/ operation = "recover" /\ End("ok") /\ bearer' = inner /\ UNCHANGED result
     \/ operation = "snapshot" /\ GoOn("before") /\ result' = "none" /\ UNCHANGED bearer
  /\ UNCHANGED <<fileVars, reloadRequired, inner, operation, attempts, auxVars>>

\* Mutant: one attempt too many.
AfterAdoptionOffByOne ==
  /\ pc = "adopted" /\ attempts <= MaxAttempts
  /\ attempts' = attempts + 1 /\ result' = "none"
  /\ GoOn("before")
  /\ UNCHANGED <<fileVars, reloadRequired, inner, operation, bearer,
                 auxVars>>

\* Something newer was adopted after the handle was used: a recovery is
\* done, a snapshot starts again while it has attempts left.
AfterAdoption ==
  /\ pc = "adopted"
  /\ \/ /\ operation = "recover" /\ End("ok")
        /\ bearer' = inner /\ UNCHANGED <<attempts, result>>
     \/ /\ operation = "snapshot" /\ attempts < MaxAttempts
        /\ attempts' = attempts + 1 /\ result' = "none"
        /\ GoOn("before") /\ UNCHANGED bearer
     \/ /\ operation = "snapshot" /\ attempts = MaxAttempts
        /\ End("unavailable") /\ UNCHANGED <<attempts, result, bearer>>
  /\ UNCHANGED <<fileVars, reloadRequired, inner, operation, auxVars>>

\* Another process replaces, breaks or removes the caller's file.
ExternalWrite ==
  /\ original' \in Documents \cup {Unreadable}
  /\ raced' = IF pc = "renaming" THEN {original'} ELSE raced
  /\ UNCHANGED <<staged, baseline, reloadRequired, inner, pc, opVars, answer, unseen>>

Next ==
  \/ Begin \/ SyncBefore \/ UseInner \/ Abandon \/ SyncAfter
  \/ FinalCheck \/ Rename \/ AdoptExternal \/ StoreFails
  \/ AfterAdoption \/ ExternalWrite

Spec == Init /\ [][Next]_vars

\* An operation that has begun goes on; nothing makes a caller begin one.
FairSpec ==
  Spec /\ WF_vars(SyncBefore \/ UseInner \/ SyncAfter \/ FinalCheck \/ Rename
                    \/ AdoptExternal \/ AfterAdoption)
-----------------------------------------------------------------------------
FlagType == reloadRequired \in BOOLEAN
DataType ==
  /\ original \in Documents \cup {Unreadable}
  /\ staged \in Documents /\ baseline \in Documents /\ inner \in Documents
  /\ pc \in {"idle", "before", "using", "after", "checking", "renaming",
             "external", "adopted"}
  /\ operation \in {"snapshot", "recover"} /\ attempts \in 0 .. MaxAttempts
  /\ result \in {"none", "ok", "error"} /\ bearer \in Documents
  /\ answer \in {"none", "ok", "error", "unavailable", "account_changed", "abandoned"}
  /\ unseen \subseteq Documents /\ raced \subseteq Documents \cup {Unreadable}

\* The files hold documents, only the original may be unreadable, and a
\* snapshot never begins more attempts than it has.
TypeOK == FlagType /\ DataType

\* The handle is used and its answers are given only while it holds what the
\* staged file holds: this account's document, never one that another process
\* has replaced in the meantime without the handle being reloaded (spec 5.3).
HandleMatchesStaged ==
  /\ inner.quality = "ours"
  /\ ~reloadRequired => inner = staged
  /\ reloadRequired => pc \in {"idle", "before"} /\ answer # "ok"

\* A bearer that a snapshot returns, and a recovery that succeeds, stand for
\* the newest document the bridge knows of: the staged copy, the baseline and
\* the handle all hold it.
AnswerIsCurrent ==
  pc = "idle" /\ answer = "ok" =>
    inner = staged /\ baseline = staged /\ bearer = staged

\* A document another process wrote is replaced unseen only in the interval
\* between the final check and the rename (spec 5.3, last-writer-wins).
ExternalWinsTheCheck == unseen \subseteq raced

\* How far an operation is from its end, in steps of its own.
StepsLeft ==
  CASE pc = "before"   -> 6 [] pc = "using" -> 5 [] pc = "after" -> 4
    [] pc = "checking" -> 3 [] pc \in {"renaming", "external"} -> 2
    [] pc = "adopted"  -> 1 [] OTHER -> 0
Remaining == IF pc = "idle" THEN 0 ELSE 6 * (MaxAttempts - attempts) + StepsLeft

OthersWrote == UNCHANGED <<staged, baseline, reloadRequired, inner, pc, opVars,
                           answer, unseen>>

\* Every step of a running snapshot or recovery brings its end nearer, and what
\* other processes write in between takes it no further away: starting again
\* costs an attempt (the for loop over MAX_MANAGED_AUTH_SYNC_ATTEMPTS).
OperationAdvances ==
  [][pc = "idle" \/ OthersWrote \/ Remaining' < Remaining]_vars

\* Every operation ends, even if other processes replace the file for ever.
OperationEnds == pc # "idle" ~> pc = "idle"
=============================================================================
