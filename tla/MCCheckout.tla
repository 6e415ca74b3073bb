----------------------------- MODULE MCCheckout -----------------------------
(***************************************************************************)
(* Commits for TLC: a root tree with each of many pairs of entries, one of *)
(* them a tree that has entries too, larger ones, and names with slashes.  *)
(***************************************************************************)
EXTENDS Checkout, FiniteSetsExt

MCOid == {"commit", "root", "sub", "low", "b", "c", "s"}

\* "x\\y" is a name with a backslash in it.
MCIndexNames ==
  [n \in {"x", "y", ".git", "config", ".", "..", "x\\y"} |-> IF n = "x\\y" THEN <<"x", "y">> ELSE <<n>>]

MCExisting ==
  [p \in {<<>>, <<".git">>, <<".git", "config">>} |->
     IF p = <<".git", "config">>
     THEN [kind |-> "file", mode |-> "File", oid |-> "c", whole |-> TRUE] ELSE Dir]

MCHeight == [o \in MCOid |-> CASE o = "root" -> 3 [] o = "sub" -> 2 [] o = "low" -> 1 [] OTHER -> 0]

Blob == [type |-> "blob"]
Tree(entries) == [type |-> "tree", entries |-> entries]
E(mode, name, oid) == [mode |-> mode, name |-> <<name>>, oid |-> oid]

\* The objects of a commit with a tree of root entries; two trees below it.
HeadOf(root, sub, low) ==
  [commit |-> "commit",
   objects |-> "commit" :> [type |-> "commit", tree |-> "root"] @@ "root" :> Tree(root)
               @@ "sub" :> Tree(sub) @@ "low" :> Tree(low)
               @@ "b" :> Blob @@ "c" :> Blob @@ "s" :> Blob]

F(name) == E("File", name, "b")
D(name) == E("Directory", name, "sub")
L(name) == E("Symlink", name, "s")

\* Entries whose names have a slash in them.
Slashed(mode, names, oid) == [mode |-> mode, name |-> names, oid |-> oid]

\* Root trees with each pair of entries over one name that is used, one that is
\* free and the special ones.
Pairs ==
  {HeadOf(<<a, b>>, <<F("x"), E("Executable", "y", "c")>>, <<>>) :
     a \in {F("x"), D("x"), L("x"), E("Gitlink", "x", "c")},
     b \in {F("x"), D("x"), L("x"), D("y"), L("y"), E("Directory", "y", "b"), E("File", "y", "low"),
            D(".git"), F(".git"), D("."), F(".."), E("Symlink", "y", "low")}}

Deep ==
  { HeadOf(<<E("Directory", "x", "sub"), F("y")>>,
           <<E("Directory", "y", "low"), E("Directory", "x", "low"), L(".git")>>,
           <<F("y"), E("Executable", "x", "c")>>),
    HeadOf(<<E("Directory", "x", "sub")>>, <<F("."), F("y")>>, <<>>),
    HeadOf(<<E("Directory", "x", "sub")>>, <<E("Directory", ".", "low"), F("y")>>, <<>>),
    HeadOf(<<E("Directory", "x", "sub")>>, <<F("..")>>, <<>>),
    HeadOf(<<>>, <<>>, <<>>),
    HeadOf(<<D("x"), F("x\\y")>>, <<F("y")>>, <<>>),
    HeadOf(<<D("x"), E("Directory", "x\\y", "low")>>, <<E("Directory", "y", "low")>>, <<F("x")>>),
    HeadOf(<<D("x"), E("Directory", "x\\y", "low")>>, <<E("Directory", "y", "low")>>, <<>>) }

\* An entry y of x by its name alone, beside a file, directory or symlink x, or
\* nothing; an entry of a directory that a symlink has the name of.
WithSlashes ==
  {HeadOf(<<a, Slashed(mode, names, "b")>>, <<E("Executable", "x", "c")>>, <<>>) :
     a \in {F("x"), D("x"), L("x"), F("y")}, mode \in {"File", "Symlink"},
     names \in {<<"x", "y">>, <<"x", ".", "y">>, <<"x", "..", "y">>}}
  \cup
  { HeadOf(<<D("x"), L("x"), Slashed("File", <<"x", "y">>, "b")>>, <<>>, <<>>),
    HeadOf(<<L("x"), Slashed("Directory", <<"x", "y">>, "low")>>, <<>>, <<F("x")>>),
    HeadOf(<<D("x"), Slashed("Directory", <<"x", "y">>, "low")>>, <<>>, <<F("x")>>),
    HeadOf(<<D("x"), Slashed("File", <<"x", "y">>, "b"), Slashed("File", <<"x", ".", "y">>, "b")>>,
           <<>>, <<>>),
    HeadOf(<<L("x"), Slashed("File", <<"x", "y">>, "b"), Slashed("File", <<"x", "x">>, "b")>>,
           <<>>, <<>>) }

\* A commit that is a tag, one without its tree, one whose tree is a blob.
Broken ==
  LET good == HeadOf(<<F("x")>>, <<>>, <<>>)
  IN { [good EXCEPT !.objects["commit"] = [type |-> "tag"]],
       [good EXCEPT !.objects["root"] = Blob] }

MCHeads == Pairs \cup Deep \cup WithSlashes \cup Broken

\* A tree with a submodule, a backslash in a name that a slash makes the path of another
\* file, and an entry whose name is a path through a symlink.
StatusHeads ==
  {HeadOf(<<L("config"), Slashed("File", <<"config", "y">>, "b"), D("x"), F("x\\y"),
            E("Gitlink", "y", "c")>>,
          <<E("Executable", "x", "c"), F("y")>>, <<>>)}
=============================================================================
