----------------------------- MODULE RemoteRefs -----------------------------
(***************************************************************************)
(* The refs of a clone, from the server's listing to the files under .git: *)
(* discover_remote with its retries, the choice of the refs and of the     *)
(* default branch, the wants of the fetch, and write_initial_metadata, in  *)
(* the order in which clone_repo_sequential and clone_repo_pipelined do    *)
(* it.  The server is in use: its refs move between one request and the    *)
(* next.  The connection breaks, or ends early.                            *)
(*                                                                         *)
(* The pack, its index and the worktree are PackStream's, Pipeline's,      *)
(* SequentialResolver's and Checkout's; here each of them is one step that *)
(* succeeds or fails.  Staging and publication are CloneLifecycle's.       *)
(***************************************************************************)
EXTENDS Integers, Sequences

CONSTANTS
  Heads, Tags,   \* refs under refs/heads/ and under refs/tags/
  Others,        \* refs a server lists that has no use for ref-prefix
  Oid,
  NoRef, NoOid,
  ErrWord,       \* the second word of an ERR packet, which is taken for a ref
  RefOrder,      \* the refs in the order of a listing
  Servers,       \* the states a server may be in
  Retries,       \* FCL_FETCH_RETRIES
  MaxMoves       \* bound on the changes of the server

RefName == Heads \cup Tags \cup Others
Server == [refs : UNION {[R -> Oid] : R \in SUBSET RefName}, head : RefName \cup {NoRef},
           v2 : BOOLEAN]

ASSUME RefsAssumption ==
  /\ Heads \cap Tags = {} /\ (Heads \cup Tags) \cap Others = {}
  /\ NoRef \notin RefName /\ "HEAD" \notin RefName /\ ErrWord \notin RefName \cup {"HEAD"}
  /\ NoOid \notin Oid
  /\ RefName = {RefOrder[i] : i \in DOMAIN RefOrder}
  /\ Servers # {} /\ Servers \subseteq Server
  /\ Retries \in Nat /\ MaxMoves \in Nat

Stages == {"capabilities", "listing", "requesting"}
Phases == {"refs", "fetch", "index", "checkout", "finalize"}

VARIABLES
  server,
  moves,
  pipelined,
  clonePc,
  fetchPc,     \* of the fetch, a thread of its own when pipelined
  attempts,    \* failed attempts of each request
  listing,     \* the lines of the answer to ls-refs, whose order does not matter
  defaultRef,
  fetched,     \* the objects the pack was asked for, once it is here
  gitDir,      \* the refs of the clone
  done,        \* phases whose work is done
  snapshot,    \* the server at the time of the listing
  cut,         \* the listing ended early
  faults       \* what has gone wrong that no retry is for

cloneVars ==
  <<server, moves, pipelined, clonePc, fetchPc, attempts, listing, defaultRef, fetched,
    gitDir, done, snapshot, cut, faults>>

NoRefs == [head |-> NoRef, loose |-> <<>>, packed |-> <<>>]

CloneInit ==
  /\ server \in Servers /\ moves = 0
  /\ pipelined \in BOOLEAN
  /\ clonePc = "capabilities" /\ fetchPc = "idle"
  /\ attempts = [s \in Stages |-> 0]
  /\ listing = {} /\ defaultRef = NoRef /\ fetched = {}
  /\ gitDir = NoRefs
  /\ done = {} /\ snapshot = server /\ cut = FALSE /\ faults = {}

\* No clone takes place.
CloneOff ==
  /\ server = CHOOSE s \in Servers : TRUE
  /\ moves = MaxMoves /\ pipelined = FALSE
  /\ clonePc = "off" /\ fetchPc = "idle"
  /\ attempts = [s \in Stages |-> 0]
  /\ listing = {} /\ defaultRef = NoRef /\ fetched = {}
  /\ gitDir = NoRefs
  /\ done = {} /\ snapshot = server /\ cut = FALSE /\ faults = {}

-----------------------------------------------------------------------------
(***************************************************************************)
(* with_retries.                                                           *)
(***************************************************************************)
\* Mutant: the retries are counted as attempts.
RetryLeftByAttempts(stage) == attempts[stage] + 1 < Retries

RetryLeft(stage) == attempts[stage] < Retries

\* An attempt fails: again, or the error is the result.
Failed(stage, pc, again, over) ==
  /\ attempts' = [attempts EXCEPT ![stage] = @ + 1]
  /\ pc' = IF RetryLeft(stage) THEN again ELSE over

CloneGoes(from, to) == clonePc = from /\ clonePc' = to

GivesUp(from, fault) ==
  /\ CloneGoes(from, "error")
  /\ faults' = faults \cup {fault}

-----------------------------------------------------------------------------
(***************************************************************************)
(* discover_remote.                                                        *)
(***************************************************************************)
\* No answer, an HTTP error, or packets that do not parse.
DiscoveryFails ==
  /\ clonePc \in {"capabilities", "listing"}
  /\ Failed(clonePc, clonePc, clonePc, "error")
  /\ UNCHANGED <<server, moves, pipelined, fetchPc, listing, defaultRef, fetched, gitDir, done,
                 snapshot, cut, faults>>

\* discover_capabilities; an answer without "version 2" is not asked for again: that of
\* an older server, an ERR packet, or one that ends before it, between two packets.
Discover ==
  /\ \/ server.v2 /\ CloneGoes("capabilities", "listing") /\ UNCHANGED faults
     \/ GivesUp("capabilities", "not v2")
  /\ UNCHANGED <<server, moves, pipelined, fetchPc, attempts, listing, defaultRef, fetched,
                 gitDir, done, snapshot, cut>>

Line(name, oid, symref) == [name |-> name, oid |-> oid, symref |-> symref]

\* What the server lists: HEAD if it resolves, then the refs in their order; up to where
\* the answer ends.
HeadLine(s) ==
  IF s.head \in DOMAIN s.refs THEN {Line("HEAD", s.refs[s.head], s.head)} ELSE {}
RefLines(s, R) == {Line(n, s.refs[n], NoRef) : n \in R \cap DOMAIN s.refs}

Lines(s) == HeadLine(s) \cup RefLines(s, RefName)

Beginnings(s) ==
  {{}} \cup {HeadLine(s) \cup RefLines(s, {RefOrder[i] : i \in 1 .. n}) : n \in 0 .. Len(RefOrder)}

\* parse_packets takes an answer that ends between two packets for a whole one, and
\* ls_refs takes an ERR packet for a ref.
ListRefs ==
  /\ CloneGoes("listing", "choosing")
  /\ \/ /\ listing' \in Beginnings(server)
        /\ cut' = (listing' # Lines(server))
        /\ UNCHANGED faults
     \/ /\ listing' = {Line(ErrWord, NoOid, NoRef)}
        /\ faults' = faults \cup {"refused"}
        /\ UNCHANGED cut
  /\ snapshot' = server
  /\ UNCHANGED <<server, moves, pipelined, fetchPc, attempts, defaultRef, fetched, gitDir, done>>

-----------------------------------------------------------------------------
(***************************************************************************)
(* The choice, and the repository that is made for it.                     *)
(***************************************************************************)
\* select_full_clone_universe.
Select == {l \in listing : l.name \in Heads \cup Tags}

\* Where the HEAD line points to.
Symref == IF \E l \in listing : l.name = "HEAD"
          THEN (CHOOSE l \in listing : l.name = "HEAD").symref ELSE NoRef

\* resolve_default_branch looks among the selected refs; the id of the default branch has
\* to be one.
ChooseRefs ==
  /\ LET found == \E l \in Select : l.name = Symref
     IN \/ /\ found /\ CloneGoes("choosing", "staging")
           /\ defaultRef' = Symref /\ done' = done \cup {"refs"}
           /\ UNCHANGED faults
        \/ /\ GivesUp("choosing", IF found THEN "bad id" ELSE "no default")
           /\ UNCHANGED <<defaultRef, done>>
  /\ UNCHANGED <<server, moves, pipelined, fetchPc, attempts, listing, fetched, gitDir,
                 snapshot, cut>>

OidOf(name) == (CHOOSE l \in Select : l.name = name).oid

\* write_initial_metadata: branches become origin's; the default branch is ours, too.
Metadata ==
  [head   |-> defaultRef,
   loose  |-> [n \in {defaultRef} \cap Heads |-> OidOf(n)],
   packed |-> [n \in {l.name : l \in Select} |-> OidOf(n)]]

\* FinalizingRepo::create; the pipelined clone writes the refs before it has a pack.
Stage ==
  /\ \/ CloneGoes("staging", "starting") /\ UNCHANGED faults
        /\ gitDir' = IF pipelined THEN Metadata ELSE gitDir
     \/ GivesUp("staging", "layout") /\ UNCHANGED gitDir
  /\ UNCHANGED <<server, moves, pipelined, fetchPc, attempts, listing, defaultRef, fetched, done,
                 snapshot, cut>>

-----------------------------------------------------------------------------
(***************************************************************************)
(* The fetch.                                                              *)
(***************************************************************************)
StartFetch ==
  /\ CloneGoes("starting", "working") /\ fetchPc' = "requesting"
  /\ UNCHANGED <<server, moves, pipelined, attempts, listing, defaultRef, fetched, gitDir, done,
                 snapshot, cut, faults>>

\* The request is not answered: send() is what is retried.
RequestFails ==
  /\ fetchPc = "requesting"
  /\ Failed("requesting", fetchPc, "requesting", "failed")
  /\ UNCHANGED <<server, moves, pipelined, clonePc, listing, defaultRef, fetched, gitDir, done,
                 snapshot, cut, faults>>

\* Mutant: the server's refs of the moment.
WantsOfNow == {server.refs[n] : n \in DOMAIN server.refs}

\* fetch_body and unique_oids.
Wants == {l.oid : l \in Select}

\* An object that no ref of the server reaches any more may still be there.
FetchEnds ==
  /\ fetchPc = "requesting"
  /\ \/ /\ fetchPc' = "done" /\ fetched' = Wants
        /\ done' = done \cup {"fetch"}
        /\ UNCHANGED faults
     \/ /\ fetchPc' = "failed" /\ UNCHANGED <<fetched, done>>
        /\ \/ faults' = faults \cup {"transfer"}      \* an HTTP error, or the body breaks
           \/ /\ ~(Wants \subseteq {server.refs[n] : n \in DOMAIN server.refs})
              /\ faults' = faults \cup {"not our ref"}
  /\ UNCHANGED <<server, moves, pipelined, clonePc, attempts, listing, defaultRef, gitDir,
                 snapshot, cut>>

\* The next phase of the clone itself succeeds or fails.
Advances(from, to, phase) ==
  /\ \/ CloneGoes(from, to) /\ done' = done \cup {phase} /\ UNCHANGED faults
     \/ GivesUp(from, phase) /\ UNCHANGED done
  /\ UNCHANGED <<server, moves, pipelined, fetchPc, attempts, listing, defaultRef, fetched,
                 snapshot, cut>>

\* The fetch is over: the sequential clone returns its error or finds the pack too large,
\* the pipelined clone has joined the thread and the resolver's, which may have failed.
Join ==
  /\ \/ fetchPc = "done" /\ CloneGoes("working", "fetched") /\ UNCHANGED faults
     \/ fetchPc = "done" /\ GivesUp("working", "pack")
     \/ fetchPc = "failed" /\ CloneGoes("working", "error") /\ UNCHANGED faults
  /\ UNCHANGED <<server, moves, pipelined, fetchPc, attempts, listing, defaultRef, fetched,
                 gitDir, done, snapshot, cut>>

\* The thread of a pipelined clone's resolver panics, and nobody fails the store: the
\* checkout waits for an object that never comes, and the threads are not joined.
ResolverPanics ==
  /\ pipelined /\ CloneGoes("working", "waiting")
  /\ UNCHANGED <<server, moves, pipelined, fetchPc, attempts, listing, defaultRef, fetched,
                 gitDir, done, snapshot, cut, faults>>

Index == Advances("fetched", "indexed", "index") /\ UNCHANGED gitDir

\* The sequential clone writes the refs now.
WriteRefs ==
  /\ \/ CloneGoes("indexed", "checking out") /\ UNCHANGED faults
        /\ gitDir' = IF pipelined THEN gitDir ELSE Metadata
     \/ ~pipelined /\ GivesUp("indexed", "layout") /\ UNCHANGED gitDir
  /\ UNCHANGED <<server, moves, pipelined, fetchPc, attempts, listing, defaultRef, fetched, done,
                 snapshot, cut>>

CheckOut == Advances("checking out", "checked out", "checkout") /\ UNCHANGED gitDir

Finalize == Advances("checked out", "ok", "finalize") /\ UNCHANGED gitDir

CloneMain ==
  \/ DiscoveryFails \/ Discover \/ ListRefs \/ ChooseRefs \/ Stage \/ StartFetch
  \/ Join \/ ResolverPanics \/ Index \/ WriteRefs \/ CheckOut \/ Finalize

Fetcher == RequestFails \/ FetchEnds

\* Somebody pushes.
ServerMoves ==
  /\ moves < MaxMoves /\ moves' = moves + 1
  /\ server' \in {s \in Servers : s # server /\ s.v2 = server.v2}
  /\ UNCHANGED <<pipelined, clonePc, fetchPc, attempts, listing, defaultRef, fetched, gitDir, done,
                 snapshot, cut, faults>>

-----------------------------------------------------------------------------
(***************************************************************************)
(* Properties.                                                             *)
(***************************************************************************)
\* The refs of a finished clone are the server's at one moment, that of the listing,
\* however the server has moved since: each one as it was, its object fetched, HEAD on
\* the server's branch; and all the branches and tags, if the listing was not cut.
RefsAreRemotes ==
  clonePc = "ok" =>
    /\ gitDir.head = snapshot.head
    /\ \A n \in DOMAIN gitDir.packed :
         /\ n \in DOMAIN snapshot.refs /\ gitDir.packed[n] = snapshot.refs[n]
         /\ gitDir.packed[n] \in fetched
    /\ \A n \in DOMAIN gitDir.loose : gitDir.loose[n] = gitDir.packed[n]
    /\ gitDir.head \in DOMAIN gitDir.packed
    /\ gitDir.head \in Heads => gitDir.head \in DOMAIN gitDir.loose
    /\ ~cut => DOMAIN gitDir.packed = (Heads \cup Tags) \cap DOMAIN snapshot.refs

\* A clone fails for answers that do not come only after each attempt at one request
\* failed, and no request is made more often than that; and it finds no default branch
\* only where the server has none, refuses to tell, or was cut short.
RetriesAbsorb ==
  /\ \A s \in Stages : attempts[s] <= Retries + 1
  /\ clonePc = "error" => faults # {} \/ \E s \in Stages : attempts[s] = Retries + 1
  /\ "no default" \in faults =>
       cut \/ "refused" \in faults
           \/ snapshot.head \notin (Heads \cup Tags) \cap DOMAIN snapshot.refs
=============================================================================
