------------------------------ MODULE MCCommand ------------------------------
(***************************************************************************)
(* An instance of the Command module for TLC.                              *)
(***************************************************************************)
EXTENDS Command

-----------------------------------------------------------------------------
(* The disks to copy on.                                                   *)
MCName == {"src", "new", ".git", "index.lock", "a", "d"}
MCSource == <<"src">>
Target == <<"new">>

Dir == [kind |-> "dir", data |-> NoData, mode |-> "writable", by |-> User]
ReadOnly == [Dir EXCEPT !.mode = "readonly"]
File == [Dir EXCEPT !.kind = "file", !.data = "x"]
Link == [Dir EXCEPT !.kind = "link", !.data = "y"]
Special == [Dir EXCEPT !.kind = "special"]

Put(d, p, node) == [q \in DOMAIN d \cup {p} |-> IF q = p THEN node ELSE d[q]]

Small == [p \in {<<>>, <<"src">>, <<"src", ".git">>, <<"src", "a">>} |->
            IF p = <<"src", "a">> THEN File ELSE Dir]

\* A read-only directory with a file in it, a file in .git and a symlink.
Large ==
  Put(Put(Put(Put(Small, <<"src", "d">>, ReadOnly), <<"src", "d", "a">>, File),
          <<"src", ".git", "a">>, File), <<"src", "d", "d">>, Link)

One(d, t) == [disk |-> d, runs |-> {Watched}, target |-> [r \in {Watched} |-> t]]

\* Two runs with the same target, or one inside the other's.
Race(d) == [disk |-> d, runs |-> Runs, target |-> [r \in Runs |-> Target]]
Nested(d) ==
  [disk |-> d, runs |-> Runs,
   target |-> [r \in Runs |-> IF r = Watched THEN Target ELSE Append(Target, "d")]]

\* The target is free, a directory, a dangling symlink, inside the source, in a directory
\* that cannot be written to, is not there or is a file; the source is no repository, is in the
\* middle of an operation, has a special file.
MCLocalScenarios ==
  { One(Small, Target), One(Large, Target), Race(Small), Nested(Small), One(Small, <<"src", "d">>),
    One(Put(Small, Target, Dir), Target), One(Put(Small, Target, Link), Target),
    One(Put(Small, <<"d">>, ReadOnly), <<"d", "new">>), One(Small, <<"d", "new">>),
    One(Put(Small, <<"d">>, File), <<"d", "new">>),
    One(Put(Small, <<"src", ".git">>, File), Target),
    One(Put(Small, <<"src", ".git", "index.lock">>, File), Target),
    One(Put(Small, <<"src", "d">>, Special), Target) }

MCShownDisks == {Small, Put(Small, <<"src", "d">>, Special)}

MCUserPaths == {<<"src", "a">>, <<"src", "d">>, <<"src", ".git", "index.lock">>, Target}

-----------------------------------------------------------------------------
(* The servers to clone from.                                              *)
At(refs, head) == [refs |-> refs, head |-> head, v2 |-> TRUE]

\* With a branch main; moved on, with a tag and a ref of another kind; with the branch
\* removed and HEAD unborn; with a detached HEAD; and one of protocol 0.
Before == "main" :> "o1"
After == ("main" :> "o2") @@ ("v1" :> "o1") @@ ("pull" :> "o3")
MCServers ==
  { At(Before, "main"), At(After, "main"), At("v1" :> "o1", "main"), At(After, NoRef),
    [At(Before, "main") EXCEPT !.v2 = FALSE] }
MCShownServers == {At(After, "main"), At(After, NoRef)}
MCRefOrder == <<"main", "pull", "v1">>
=============================================================================
