--------------------------- MODULE CloneLifecycle ---------------------------
(***************************************************************************)
(* The life of a clone on disk: crates/core/src/clone.rs from discovery to *)
(* the report, and FinalizingRepo of crates/core/src/repo/mod.rs, which    *)
(* builds the repository in a staging directory and renames it to the      *)
(* target.  Several clones run for the same target (two invocations of     *)
(* fcl, or one after another), each may be killed, and something else may  *)
(* create the target at any time.                                          *)
(*                                                                         *)
(* What the threads of the pipelined clone do among themselves is the      *)
(* Pipeline module; here they write their three parts of the repository in *)
(* any order, and are joined when all of them are there.                   *)
(***************************************************************************)
EXTENDS Integers, Sequences, FiniteSets

CONSTANTS
  Clones,    \* the invocations of fcl for this target
  Absent,    \* nothing at a path
  Empty,     \* an empty directory at a path
  Foreign,   \* anything else that is not a clone's repository
  Bytes,     \* Bytes[P]: the bytes of a directory with the parts P
  Limits,    \* the values of FCL_MAX_TEMP_BYTES
  NoLimit    \* FCL_MAX_TEMP_BYTES is not set

\* The parts of a repository, in the order the sequential clone writes them:
\* directory, .git with its subdirectories, pack, index of the pack, config
\* with HEAD and refs, working tree with .git/index.
Parts == {"root", "layout", "pack", "idx", "metadata", "worktree"}

ASSUME BytesAssumption ==
  /\ Bytes \in [SUBSET Parts -> Nat]
  /\ Limits \subseteq Nat
  /\ NoLimit \notin Nat

ASSUME PathsAssumption ==
  /\ Absent \notin {Empty, Foreign} /\ Empty # Foreign
  /\ \A P \in SUBSET Parts, c \in Clones :
       /\ P \notin {Absent, Empty, Foreign}
       /\ [by |-> c, parts |-> P] \notin {Absent, Empty, Foreign}

\* The steps of clone_repo_sequential and of clone_repo_pipelined.  "size" is
\* enforce_target_size_limit, "measure" the check on the published target.
Plan ==
  [sequential |-> <<"discover", "stage", "layout", "limits", "fetch", "size", "ingest",
                    "metadata", "size", "checkout", "commit", "measure">>,
   pipelined  |-> <<"discover", "stage", "layout", "limits", "metadata", "threads", "size",
                    "commit", "measure">>]

\* The part of the repository a step writes.
Writes(step) ==
  CASE step = "stage"    -> {"root"}
    [] step = "layout"   -> {"layout"}
    [] step = "fetch"    -> {"pack"}
    [] step = "ingest"   -> {"idx"}
    [] step = "metadata" -> {"metadata"}
    [] step = "checkout" -> {"worktree"}
    [] step = "threads"  -> {"pack", "idx", "worktree"}
    [] OTHER             -> {}

VARIABLES
  mode,     \* mode[c]: how clone c runs, see pipeline_enabled
  limit,    \* limit[c]: FCL_MAX_TEMP_BYTES of clone c
  pc,       \* pc[c]: the step clone c is at, in its plan
  result,   \* result[c]: how clone c ended
  staging,  \* staging[c]: the parts in the staging directory of clone c
  target    \* what is at the target path

vars == <<mode, limit, pc, result, staging, target>>

Repo == [by : Clones, parts : SUBSET Parts]

Results == {"running", "ok", "failed", "failedLayout", "failedPublish", "killed"}

TypeOK ==
  /\ mode \in [Clones -> {"sequential", "pipelined"}]
  /\ limit \in [Clones -> Limits \cup {NoLimit}]
  /\ pc \in [Clones -> Nat]
  /\ \A c \in Clones : pc[c] \in 1 .. Len(Plan[mode[c]])
  /\ result \in [Clones -> Results]
  /\ staging \in [Clones -> {Absent} \cup SUBSET Parts]
  /\ target \in {Absent, Empty, Foreign} \cup Repo

Init ==
  /\ mode \in [Clones -> {"sequential", "pipelined"}]
  /\ limit \in [Clones -> Limits \cup {NoLimit}]
  /\ pc = [c \in Clones |-> 1]
  /\ result = [c \in Clones |-> "running"]
  /\ staging = [c \in Clones |-> Absent]
  /\ target \in {Absent, Empty, Foreign}

-----------------------------------------------------------------------------
Step(c) == Plan[mode[c]][pc[c]]

Continue(c, step) ==
  /\ result[c] = "running" /\ Step(c) = step
  /\ pc' = [pc EXCEPT ![c] = @ + 1]
  /\ UNCHANGED <<mode, limit, result>>

End(c, how) ==
  /\ result[c] = "running"
  /\ result' = [result EXCEPT ![c] = how]
  /\ UNCHANGED <<mode, limit, pc>>

\* Drop of FinalizingRepo removes the staging directory unless the clone is
\* committed or the layout was taken out.
DropStaging(c) == staging' = [staging EXCEPT ![c] = Absent]

TooLarge(c, parts) == limit[c] # NoLimit /\ Bytes[parts] > limit[c]

\* http_client, discover_remote, the default branch: nothing is on disk yet.
Discover(c) == Continue(c, "discover") /\ UNCHANGED <<staging, target>>

\* FinalizingRepo::create: no target yet, so the staging directory is made.
Stage(c) ==
  /\ Continue(c, "stage")
  /\ target = Absent
  /\ staging' = [staging EXCEPT ![c] = {"root"}]
  /\ UNCHANGED target

\* RepoLayout::create: .git and what belongs into it ...
CreateLayout(c) ==
  /\ Continue(c, "layout")
  /\ staging' = [staging EXCEPT ![c] = @ \cup {"layout"}]
  /\ UNCHANGED target

\* ... and when that fails there is no FinalizingRepo yet to clean up.
LayoutFails(c) ==
  /\ Step(c) = "layout"
  /\ End(c, "failedLayout")
  /\ UNCHANGED <<staging, target>>

ReadLimits(c) == Continue(c, "limits") /\ UNCHANGED <<staging, target>>

\* fetch_full_pack, ingest_scanned_pack / ingest_fetched_pack,
\* write_initial_metadata and materialize_default_branch.
WritePart(c) ==
  /\ \E step \in {"fetch", "ingest", "metadata", "checkout"} :
       /\ Continue(c, step)
       /\ staging' = [staging EXCEPT ![c] = @ \cup Writes(step)]
  /\ UNCHANGED target

\* A thread of the pipelined clone finishes its part.
ThreadWrites(c) ==
  /\ result[c] = "running" /\ Step(c) = "threads"
  /\ \E part \in Writes("threads") \ staging[c] :
       staging' = [staging EXCEPT ![c] = @ \cup {part}]
  /\ UNCHANGED <<mode, limit, pc, result, target>>

\* Mutant: the checkout's result is not looked at.
JoinFetchAndResolver(c) ==
  /\ Continue(c, "threads")
  /\ {"pack", "idx"} \subseteq staging[c]
  /\ UNCHANGED <<staging, target>>

JoinThreads(c) ==
  /\ Continue(c, "threads")
  /\ Writes("threads") \subseteq staging[c]
  /\ UNCHANGED <<staging, target>>

\* Mutant: the size is measured, and not compared.
CheckSizeSkipped(c) == Continue(c, "size") /\ UNCHANGED <<staging, target>>

CheckSize(c) ==
  /\ Continue(c, "size")
  /\ ~TooLarge(c, staging[c])
  /\ UNCHANGED <<staging, target>>

\* Mutants: the target is removed before the rename; the result of the rename is
\* not looked at.
CommitOverwrites(c) ==
  /\ Continue(c, "commit")
  /\ target' = [by |-> c, parts |-> staging[c]]
  /\ DropStaging(c)

CommitUnnoticed(c) ==
  /\ Continue(c, "commit")
  /\ target' = IF target \in {Absent, Empty} THEN [by |-> c, parts |-> staging[c]] ELSE target
  /\ DropStaging(c)

\* FinalizingRepo::commit: rename(2) of a directory succeeds on a free path
\* and on an empty directory, which it replaces.
Commit(c) ==
  /\ Continue(c, "commit")
  /\ target \in {Absent, Empty}
  /\ target' = [by |-> c, parts |-> staging[c]]
  /\ DropStaging(c)

\* On anything else, and on an error of the file system, it fails; the layout
\* is out of the FinalizingRepo by then, and Drop finds nothing to remove.
CommitFails(c) ==
  /\ Step(c) = "commit"
  /\ End(c, "failedPublish")
  /\ UNCHANGED <<staging, target>>

\* The size of the published target is within the limit, and the report made.
Succeed(c) ==
  /\ Step(c) = "measure"
  /\ ~TooLarge(c, target.parts)
  /\ End(c, "ok")
  /\ UNCHANGED <<staging, target>>

\* It is not, or cannot be read: the clone fails with the target in place.
MeasureFails(c) ==
  /\ Step(c) = "measure"
  /\ End(c, "failed")
  /\ UNCHANGED <<staging, target>>

\* Every other step may fail, a size check because the directory is too large
\* or unreadable; limits can be refused only when set, and size is measured
\* only then.  What is staged is removed.
Fail(c) ==
  /\ Step(c) \notin {"layout", "commit", "measure"}
  /\ Step(c) \in {"limits", "size"} => limit[c] # NoLimit
  /\ End(c, "failed")
  /\ DropStaging(c) /\ UNCHANGED target

\* The process is killed (no signal is handled) or the machine stops.
Killed(c) == End(c, "killed") /\ UNCHANGED <<staging, target>>

\* Someone else creates the target.
SomeoneCreates ==
  /\ target = Absent
  /\ target' \in {Empty, Foreign}
  /\ UNCHANGED <<mode, limit, pc, result, staging>>

Ended == (\A c \in Clones : result[c] # "running") /\ UNCHANGED vars

Act(c) ==
  \/ Discover(c) \/ Stage(c) \/ CreateLayout(c) \/ LayoutFails(c) \/ ReadLimits(c)
  \/ WritePart(c) \/ ThreadWrites(c) \/ JoinThreads(c) \/ CheckSize(c)
  \/ Commit(c) \/ CommitFails(c) \/ Succeed(c) \/ MeasureFails(c)
  \/ Fail(c) \/ Killed(c)

Next == (\E c \in Clones : Act(c)) \/ SomeoneCreates \/ Ended

Spec == Init /\ [][Next]_vars

-----------------------------------------------------------------------------
\* A clone's repository is at the target only as a whole: whatever happens in
\* between, nobody ever finds a part of one there.
TargetIsComplete == target \in Repo => target.parts = Parts

\* A clone that reports success has published its own repository, and it is the
\* one still there: of two clones that race for a target at most one succeeds.
SuccessIsPublished ==
  \A c \in Clones : result[c] = "ok" => target \in Repo /\ target.by = c

\* What exists at the target is never replaced, an empty directory excepted
\* ("fcl leaves existing data untouched"), although the target is checked long
\* before the rename.
ExistingDataIsKept == [][target \notin {Absent, Empty} => target' = target]_vars

\* A clone that has ended has removed its staging directory, unless it was
\* killed or failed in one of the two places where nothing owns the directory.
StagingIsRemoved ==
  \A c \in Clones : result[c] \in {"ok", "failed"} => staging[c] = Absent

\* What the pipelined clone publishes is within FCL_MAX_TEMP_BYTES.
PublishedWithinLimit ==
  target \in Repo /\ mode[target.by] = "pipelined" => ~TooLarge(target.by, target.parts)

\* docs/current-architecture.md:245: "If clone fails before commit, the staging
\* directory is cleaned up by FinalizingRepo drop behavior".
FailedCloneIsCleanedUp ==
  \A c \in Clones :
    result[c] \in {"failed", "failedLayout", "failedPublish"} => staging[c] = Absent
=============================================================================
