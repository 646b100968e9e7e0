----------------------------- MODULE ReclaimProofs -----------------------------
(* Proofs about ReclaimWorktrees, for every repository, history and options. *)
EXTENDS ReclaimWorktrees, TLAPS

WorldOK == RepoOK(refs, merged, open, stashed, tree, plan, build, busy)
GateSteps == {"status", "ignored", "cwd", "owner", "check", "remove", "build", "rm"}
ApplySteps == {"remove", "build", "rm", "checkedout", "local", "look", "push"}

-----------------------------------------------------------------------------
(* The inductive invariant: what the sweep has in hand was on its list, and  *)
(* past classify its branch is merged and its remote heads are that remote's.*)

Judged == Labels \ {"merged", "open", "list", "trees", "branches", "classify", "done"}
InHand == pc \in Judged \cup {"classify"}

Listed ==
    /\ InHand => item.branch \in Branches /\ item.tip \in Commits /\ item.tree # Main
    /\ pc = "trees" \/ (InHand /\ item.tree # None) =>
         \A i \in todo : i \in Trees \ {Main} /\ snap.head[i] \in Branches
    /\ pc = "branches" \/ (InHand /\ item.tree = None) => todo \subseteq Branches

Deserved ==
    /\ item.branch \notin snap.open
    /\ \E r \in snap.merged :
         /\ r.branch = item.branch /\ item.tip \in History[r.oid] /\ r.base = "default"
         /\ r.from = "origin" \/ (opts.allowFork /\ r.from \in Forks)
    /\ \A oid \in item.oids :
         \E r \in snap.merged : r.branch = item.branch /\ r.from = RemoteOf /\ r.oid = oid

SweepInv ==
    /\ TypeOK /\ Listed
    /\ pc \in Judged => Deserved
    /\ pc = "push" => \E oid \in item.oids : item.sha \in History[oid]

-----------------------------------------------------------------------------
(* What each kind of step keeps *)

\* Moving or dropping one branch keeps the type of the refs.
LEMMA RefsWritten ==
    ASSUME NEW R \in [{"local"} \cup Remotes -> [Branches -> Commits \cup {None}]],
           NEW p \in {"local"} \cup Remotes, NEW b \in Branches, NEW c \in Commits \cup {None}
    PROVE  [R EXCEPT ![p][b] = c] \in [{"local"} \cup Remotes -> [Branches -> Commits \cup {None}]]
<1>1. [R[p] EXCEPT ![b] = c] \in [Branches -> Commits \cup {None}]
  OBVIOUS
<1> QED
  BY <1>1

\* A worktree's files are still such after a checkout, an edit or a new entry.
LEMMA FilesWritten ==
    ASSUME NEW f \in Files, NEW b \in Branches \cup {None}, NEW yes \in BOOLEAN, NEW e \in Entries \cup {None}
    PROVE  /\ [f EXCEPT !.there = yes, !.branch = b] \in Files
           /\ [f EXCEPT !.dirty = yes] \in Files
           /\ [f EXCEPT !.ignored = e] \in Files
           /\ [f EXCEPT !.there = yes, !.branch = b, !.ignored = e] \in Files
BY DEF Files

\* Others leave the sweep alone, keep the types and never unmerge anything.
LEMMA OthersKeep ==
    ASSUME TypeOK, Others
    PROVE  WorldOK' /\ UNCHANGED sweep /\ merged \subseteq merged'
<1> USE DEF TypeOK, RepoOK, WorldOK, Change, disk
<1>1. ASSUME NEW b \in Branches, NEW p \in {"local"} \cup Remotes, Commit(p, b)
      PROVE  WorldOK' /\ UNCHANGED sweep /\ merged \subseteq merged'
  <2>1. refs' \in [{"local"} \cup Remotes -> [Branches -> Commits \cup {None}]]
    BY <1>1, RefsWritten DEF Commit
  <2> QED
    BY <1>1, <2>1 DEF Commit
<1>2. ASSUME NEW b \in Branches, NEW p \in Remotes, Publish(p, b)
      PROVE  WorldOK' /\ UNCHANGED sweep /\ merged \subseteq merged'
  <2>1. refs["local"][b] \in Commits \cup {None}
    OBVIOUS
  <2>2. refs' \in [{"local"} \cup Remotes -> [Branches -> Commits \cup {None}]]
    BY <1>2, <2>1, RefsWritten DEF Publish
  <2> QED
    BY <1>2, <2>2 DEF Publish
<1>3. ASSUME NEW b \in Branches, NEW p \in Remotes, Merge(p, b)
      PROVE  WorldOK' /\ UNCHANGED sweep /\ merged \subseteq merged'
  <2>1. refs[p][b] \in Commits
    BY <1>3 DEF Merge
  <2>2. merged' \subseteq Rows /\ merged \subseteq merged'
    BY <1>3, <2>1 DEF Merge, Rows
  <2> QED
    BY <1>3, <2>2 DEF Merge
<1>4. ASSUME NEW b \in Branches, OpenPR(b) \/ Stash(b)
      PROVE  WorldOK' /\ UNCHANGED sweep /\ merged \subseteq merged'
  BY <1>4 DEF OpenPR, Stash
<1>5. ASSUME NEW w \in Trees, NEW b \in Branches, Checkout(w, b)
      PROVE  WorldOK' /\ UNCHANGED sweep /\ merged \subseteq merged'
  <2>1. [tree[w] EXCEPT !.there = TRUE, !.branch = b] \in Files
    BY FilesWritten, tree[w] \in Files
  <2>2. tree' = [tree EXCEPT ![w] = [tree[w] EXCEPT !.there = TRUE, !.branch = b]]
    BY <1>5 DEF Checkout, Files
  <2> QED
    BY <1>5, <2>1, <2>2 DEF Checkout
<1>6. ASSUME NEW w \in Trees, Edit(w)
      PROVE  WorldOK' /\ UNCHANGED sweep /\ merged \subseteq merged'
  <2>1. [tree[w] EXCEPT !.dirty = TRUE] \in Files
    BY FilesWritten, tree[w] \in Files
  <2>2. tree' \in [Trees -> Files]
    BY <1>6, <2>1 DEF Edit
  <2> QED
    BY <1>6, <2>2 DEF Edit
<1>7. ASSUME NEW w \in Trees, NEW e \in Entries, Drop(w, e)
      PROVE  WorldOK' /\ UNCHANGED sweep /\ merged \subseteq merged'
  <2>1. tree' \in [Trees -> Files]
    BY <1>7 DEF Drop, Files
  <2> QED
    BY <1>7, <2>1 DEF Drop
<1>8. ASSUME NEW w \in Trees, Claim(w)
      PROVE  WorldOK' /\ UNCHANGED sweep /\ merged \subseteq merged'
  BY <1>8 DEF Claim
<1>9. ASSUME NEW d \in Dirs, Enter(d)
      PROVE  WorldOK' /\ UNCHANGED sweep /\ merged \subseteq merged'
  BY <1>9 DEF Enter
<1> QED
  BY <1>1, <1>2, <1>3, <1>4, <1>5, <1>6, <1>7, <1>8, <1>9 DEF Others

\* A sweep that keeps its place keeps the invariant while PRs merge.
LEMMA StillKeeps ==
    ASSUME SweepInv, WorldOK', UNCHANGED sweep, merged \subseteq merged'
    PROVE  SweepInv'
<1> USE DEF SweepInv, sweep
<1>1. TypeOK'
  BY DEF TypeOK, WorldOK
<1>2. Listed'
  BY DEF Listed, InHand, Judged, Labels
<1>3. pc' \in Judged => Deserved'
  BY DEF Deserved, RemoteOf, Judged, Labels
<1> QED
  BY <1>1, <1>2, <1>3

\* Leaving the item in hand keeps the invariant.
LEMMA NextItemKeeps ==
    ASSUME SweepInv, InHand, NextItem, WorldOK', merged' = merged,
           UNCHANGED <<opts, snap, todo>>, cwds' \in {None} \cup SUBSET Dirs
    PROVE  SweepInv'
<1> USE DEF SweepInv, NextItem, Goto
<1>1. NoItem \in Items
  BY DEF NoItem, Items
<1>2. TypeOK'
  BY <1>1 DEF TypeOK, WorldOK, Labels
<1>3. Listed'
  BY DEF Listed, InHand, Judged, Labels
<1>4. pc' \notin Judged /\ pc' # "push"
  BY DEF Judged, Labels
<1> QED
  BY <1>2, <1>3, <1>4

\* Going on with an item that is judged keeps the invariant.
LEMMA ForwardKeeps ==
    ASSUME SweepInv, pc \in Judged, pc' \in Judged \ {"push"},
           item' \in Items, \E S : item' = [item EXCEPT !.passed = S],
           pc' \in GateSteps => item.tree # None, pc' \in ApplySteps => opts.apply,
           WorldOK', merged' = merged,
           UNCHANGED <<opts, snap>>, todo' \subseteq todo, cwds' \in {None} \cup SUBSET Dirs
    PROVE  SweepInv'
<1> USE DEF SweepInv
<1>1. item.branch \in Branches /\ item.tip \in Commits /\ item.tree # Main
  BY DEF Listed, InHand
<1>2. /\ item'.tree = item.tree /\ item'.branch = item.branch /\ item'.tip = item.tip
      /\ item'.fork = item.fork /\ item'.oids = item.oids
  BY DEF TypeOK, Items
<1>3. TypeOK'
  <2>1. pc' \in GateSteps => item'.tree \in Trees \ {Main}
    BY <1>1, <1>2 DEF TypeOK, Items
  <2> QED
    BY <1>1, <1>2, <2>1 DEF TypeOK, WorldOK, Labels, GateSteps, ApplySteps, Judged
<1>4. Listed'
  BY <1>1, <1>2 DEF Listed, InHand, Judged, Labels
<1>5. Deserved'
  BY <1>2 DEF Deserved, RemoteOf
<1> QED
  BY <1>3, <1>4, <1>5 DEF Judged

-----------------------------------------------------------------------------
(* Every step of the sweep keeps the invariant *)

\* The lists at the start keep the invariant.
LEMMA ListsKeep ==
    ASSUME SweepInv, ListMerged \/ ListOpen \/ ListTrees \/ Abort \/ ListBranches \/ Finish
    PROVE  SweepInv'
<1> USE ReclaimAssumption DEF SweepInv, Goto
<1>1. snap \in Snaps /\ opts.only \subseteq Branches /\ tree \in [Trees -> Files]
  BY DEF TypeOK, RepoOK
<1>2. CASE ListMerged
  <2>1. snap' \in Snaps /\ snap'.merged \subseteq merged'
    BY <1>1, <1>2 DEF ListMerged, Snaps, TypeOK, RepoOK, world
  <2> QED
    BY <1>2, <2>1 DEF ListMerged, TypeOK, RepoOK, Listed, InHand, Judged, Labels, world
<1>3. CASE ListOpen
  <2>1. snap' \in Snaps /\ snap'.merged = snap.merged
    BY <1>1, <1>3 DEF ListOpen, Snaps
  <2> QED
    BY <1>3, <2>1 DEF ListOpen, TypeOK, RepoOK, Listed, InHand, Judged, Labels, world
<1>4. CASE ListTrees
  <2> DEFINE head == [w \in Trees |-> IF tree[w].there THEN tree[w].branch ELSE None]
  <2>1. head \in [Trees -> Branches \cup {None}]
    BY <1>1 DEF Files
  <2>2. /\ snap' = [snap EXCEPT !.head = head, !.locked = {w \in Trees : tree[w].locked}]
        /\ todo' = {w \in Trees \ {Main} : head[w] \in opts.only}
    BY <1>4 DEF ListTrees
  <2> HIDE DEF head
  <2>3. snap' \in Snaps /\ snap'.merged = snap.merged /\ snap'.head = head
    BY <1>1, <2>1, <2>2 DEF Snaps
  <2>4. \A i \in todo' : i \in Trees \ {Main} /\ snap'.head[i] \in Branches
    BY <1>1, <2>2, <2>3
  <2>5. TypeOK'
    BY <1>4, <2>2, <2>3 DEF ListTrees, TypeOK, RepoOK, Labels, world
  <2> QED
    BY <1>4, <2>4, <2>5 DEF ListTrees, Listed, InHand, Judged, Labels
<1>5. CASE Abort \/ Finish
  BY <1>5 DEF Abort, Finish, TypeOK, RepoOK, Listed, InHand, Judged, Labels, world
<1>6. CASE ListBranches
  <2>1. todo' \subseteq Branches
    BY <1>1, <1>6 DEF ListBranches
  <2> QED
    BY <1>6, <2>1 DEF ListBranches, TypeOK, RepoOK, Listed, InHand, Judged, Labels, world
<1> QED
  BY <1>2, <1>3, <1>4, <1>5, <1>6

\* Taking an item keeps the invariant.
LEMMA TakeKeeps ==
    ASSUME SweepInv, Take
    PROVE  SweepInv'
<1> USE ReclaimAssumption DEF SweepInv, Goto
<1>1. PICK i \in todo :
        LET b == IF pc = "trees" THEN snap.head[i] ELSE i
        IN  /\ todo' = todo \ {i}
            /\ IF refs["local"][b] = None \/ (pc = "trees" /\ ~tree[i].there)
                 THEN UNCHANGED <<item, pc>>
                 ELSE /\ item' = [NoItem EXCEPT !.tree = IF pc = "trees" THEN i ELSE None,
                                                !.branch = b, !.tip = refs["local"][b]]
                      /\ pc' = "classify"
  BY DEF Take
<1> DEFINE b == IF pc = "trees" THEN snap.head[i] ELSE i
<1>2. pc \in {"trees", "branches"} /\ UNCHANGED <<world, opts, snap, cwds>>
  BY DEF Take
<1>3. b \in Branches /\ (pc = "trees" => i \in Trees \ {Main})
  BY <1>2 DEF Listed
<1>4. refs["local"][b] \in Commits \cup {None}
  BY <1>3 DEF TypeOK, RepoOK
<1>5. CASE UNCHANGED <<item, pc>>
  BY <1>1, <1>2, <1>5 DEF TypeOK, RepoOK, Listed, InHand, Judged, Labels, world
<1>6. CASE /\ refs["local"][b] # None
           /\ item' = [NoItem EXCEPT !.tree = IF pc = "trees" THEN i ELSE None,
                                      !.branch = b, !.tip = refs["local"][b]]
           /\ pc' = "classify"
  <2>1. /\ item' \in Items
        /\ item'.branch \in Branches /\ item'.tip \in Commits
        /\ item'.tree = IF pc = "trees" THEN i ELSE None
    BY <1>3, <1>4, <1>6 DEF NoItem, Items
  <2>2. item'.tree # Main
    BY <1>3, <2>1
  <2>3. TypeOK'
    BY <1>1, <1>2, <1>6, <2>1 DEF TypeOK, RepoOK, Labels, world
  <2>4. Listed'
    BY <1>1, <1>2, <1>3, <1>6, <2>1, <2>2 DEF Listed, InHand, Judged, Labels
  <2> QED
    BY <1>6, <2>3, <2>4 DEF Judged
<1> QED
  BY <1>1, <1>5, <1>6

\* A branch that classify lets through is merged, and so are its remote heads.
LEMMA ClassifyKeeps ==
    ASSUME SweepInv, Classify
    PROVE  SweepInv'
<1> USE ReclaimAssumption DEF SweepInv, Goto
<1>1. PICK have \in SUBSET snap.merged :
        IF item.branch \in snap.open \/ Verdicts(have) = {}
          THEN NextItem
          ELSE \E v \in Verdicts(have) :
                 /\ item' = [item EXCEPT !.fork = v.fork, !.oids = v.oids,
                                         !.found = item.tree \in snap.plans /\ plan[item.tree] # "archived"]
                 /\ IF item.tree # None THEN pc' = "status"
                    ELSE IF opts.apply THEN pc' = "checkedout"
                    ELSE pc' = "branches"
  BY DEF Classify
<1>2. pc = "classify" /\ UNCHANGED <<world, opts, snap, todo, cwds>> /\ InHand
  BY DEF Classify, InHand
<1>3. WorldOK' /\ merged' = merged /\ cwds' \in {None} \cup SUBSET Dirs
  BY <1>2 DEF TypeOK, RepoOK, WorldOK, world
<1>4. CASE NextItem
  BY <1>2, <1>3, <1>4, NextItemKeeps
<1>5. ASSUME NEW v \in Verdicts(have), item.branch \notin snap.open,
             item' = [item EXCEPT !.fork = v.fork, !.oids = v.oids,
                                  !.found = item.tree \in snap.plans /\ plan[item.tree] # "archived"],
             IF item.tree # None THEN pc' = "status"
             ELSE IF opts.apply THEN pc' = "checkedout"
             ELSE pc' = "branches"
      PROVE  SweepInv'
  <2> DEFINE rows == {r \in snap.merged : r.branch = item.branch /\ r \in have}
             From(p) == {r \in rows : r.from = p}
             Hits(p) == {r \in From(p) : item.tip \in History[r.oid]}
  <2>1. PICK p \in {"origin"} \cup Forks :
          /\ p # "origin" => opts.allowFork
          /\ v = [fork |-> IF p = "origin" THEN None ELSE p, oids |-> {r.oid : r \in From(p)}]
          /\ \E r \in Hits(p) : r.base = "default"
    BY <1>5 DEF Verdicts, OnDefault
  <2>2. v.fork = (IF p = "origin" THEN None ELSE p) /\ v.oids = {r.oid : r \in From(p)}
    BY <2>1
  <2>3. snap.merged \subseteq Rows
    BY DEF TypeOK, Snaps
  <2>4. v.fork \in Forks \cup {None} /\ v.oids \in SUBSET Commits
    BY <2>2, <2>3 DEF Rows
  <2>5. /\ item' \in Items
        /\ item'.tree = item.tree /\ item'.branch = item.branch /\ item'.tip = item.tip
        /\ item'.fork = v.fork /\ item'.oids = v.oids
    BY <1>5, <2>4 DEF TypeOK, Items
  <2>6. RemoteOf' = p
    BY <2>2, <2>5 DEF RemoteOf
  <2>7. PICK r \in snap.merged :
          /\ r.branch = item.branch /\ item.tip \in History[r.oid] /\ r.base = "default"
          /\ r.from = p
    BY <2>1
  <2>8. \A oid \in v.oids : \E q \in snap.merged : q.branch = item.branch /\ q.from = p /\ q.oid = oid
    BY <2>2
  <2>9. Deserved'
    BY <1>2, <1>5, <2>1, <2>5, <2>6, <2>7, <2>8 DEF Deserved
  <2>10. item.branch \in Branches /\ item.tip \in Commits /\ item.tree # Main
    BY <1>2 DEF Listed
  <2>11. item.tree \in Trees \cup {None}
    BY DEF TypeOK, Items
  <2>12. TypeOK'
    BY <1>2, <1>3, <1>5, <2>5, <2>10, <2>11 DEF TypeOK, WorldOK, Labels
  <2>13. Listed'
    BY <1>2, <1>5, <2>5, <2>10 DEF Listed, InHand, Judged, Labels
  <2> QED
    BY <1>5, <2>9, <2>12, <2>13 DEF Judged
<1> QED
  BY <1>1, <1>4, <1>5

\* Passing a check of the gate keeps the invariant.
LEMMA PassKeeps ==
    ASSUME SweepInv, pc \in {"status", "ignored", "cwd", "owner"},
           NEW check \in {"status", "ignored", "cwd", "blind", "owner"}, NEW label \in {"ignored", "cwd", "owner", "check"},
           Pass(check, label),
           UNCHANGED <<world, opts, snap>>, todo' \subseteq todo, cwds' \in {None} \cup SUBSET Dirs
    PROVE  SweepInv'
<1>1. item' = [item EXCEPT !.passed = item.passed \cup {check}] /\ item' \in Items
  BY DEF SweepInv, TypeOK, Items, Pass
<1>2. item.tree # None
  BY ReclaimAssumption DEF SweepInv, TypeOK
<1>3. WorldOK' /\ merged' = merged
  BY DEF SweepInv, TypeOK, RepoOK, WorldOK, world
<1>4. pc \in Judged /\ pc' = label /\ label \in Judged \ {"push"}
  BY DEF Judged, Labels, Pass, Goto
<1>5. \E S : item' = [item EXCEPT !.passed = S]
  BY <1>1
<1> QED
  BY <1>1, <1>2, <1>3, <1>4, <1>5, ForwardKeeps DEF ApplySteps

\* The gate keeps the invariant.
LEMMA GateKeeps ==
    ASSUME SweepInv, GateStatus \/ GateIgnored \/ GateCwd \/ GateCwdBlind \/ GateOwner
    PROVE  SweepInv'
<1>1. WorldOK' /\ merged' = merged /\ UNCHANGED <<world, opts, snap>>
  BY DEF SweepInv, TypeOK, RepoOK, WorldOK, world, GateStatus, GateIgnored, GateCwd, GateCwdBlind, GateOwner
<1>2. pc \in {"status", "ignored", "cwd", "owner"} /\ InHand /\ cwds' \in {None} \cup SUBSET Dirs
  BY DEF SweepInv, TypeOK, RepoOK, InHand, Judged, Labels, GateStatus, GateIgnored, GateCwd, GateCwdBlind, GateOwner
<1>3. CASE NextItem /\ todo' = todo
  BY <1>1, <1>2, <1>3, NextItemKeeps
<1>4. CASE GateStatus
  BY <1>1, <1>2, <1>3, <1>4, PassKeeps DEF GateStatus
<1>5. CASE GateIgnored
  BY <1>1, <1>2, <1>3, <1>5, PassKeeps DEF GateIgnored
<1>6. CASE GateCwd
  BY <1>1, <1>2, <1>3, <1>6, PassKeeps DEF GateCwd
<1>7. CASE GateCwdBlind
  BY <1>1, <1>2, <1>7, PassKeeps DEF GateCwdBlind
<1>8. CASE GateOwner
  BY <1>1, <1>2, <1>3, <1>8, PassKeeps DEF GateOwner
<1> QED
  BY <1>4, <1>5, <1>6, <1>7, <1>8

\* From the report to the archived plan, each step keeps the invariant.
LEMMA RemovalKeeps ==
    ASSUME SweepInv,
           \/ CheckBuild \/ RemoveTree \/ RecheckBuild \/ RemoveBuild
           \/ CheckedOut \/ DeleteLocal \/ Look \/ Push \/ Archive
    PROVE  SweepInv'
<1> USE DEF Goto
<1>1. /\ pc \in Judged /\ InHand /\ merged' = merged
      /\ UNCHANGED <<opts, snap, todo>> /\ cwds' \in {None} \cup SUBSET Dirs
  BY DEF SweepInv, TypeOK, RepoOK, world, Judged, InHand, Labels, AskLsof,
         CheckBuild, RemoveTree, RecheckBuild, RemoveBuild, CheckedOut, DeleteLocal, Look, Push, Archive
<1>2. /\ WorldOK /\ item \in Items /\ item.branch \in Branches /\ item.tip \in Commits
      /\ item.tree \in Trees \cup {None} /\ RemoteOf \in Remotes
  BY <1>1 DEF SweepInv, TypeOK, WorldOK, Listed, Items, RemoteOf, Remotes
<1>3. item = [item EXCEPT !.passed = item.passed]
  BY <1>2 DEF Items
<1>4. \E S : item = [item EXCEPT !.passed = S]
  BY <1>3
<1>5. CASE RemoveTree
  <2>1. item.tree \in Trees /\ item.tree # None /\ opts.apply
    BY <1>5, ReclaimAssumption DEF RemoveTree, SweepInv, TypeOK
  <2>2. WorldOK'
    <3>1. [tree[item.tree] EXCEPT !.there = FALSE, !.branch = None, !.ignored = None] \in Files
      BY <1>2, <2>1, FilesWritten DEF WorldOK, RepoOK
    <3> QED
      BY <1>2, <1>5, <2>1, <3>1 DEF RemoveTree, WorldOK, RepoOK
  <2>3. CASE NextItem
    BY <1>1, <2>2, <2>3, NextItemKeeps
  <2>4. CASE pc' = "build" /\ item' = item
    BY <1>1, <1>2, <1>4, <2>1, <2>2, <2>4, ForwardKeeps DEF Judged, Labels
  <2> QED
    BY <1>5, <2>3, <2>4 DEF RemoveTree
<1>12. CASE CheckBuild \/ RecheckBuild
  <2>1. WorldOK' /\ item.tree # None
    BY <1>2, <1>12, ReclaimAssumption DEF CheckBuild, RecheckBuild, WorldOK, RepoOK, world, SweepInv, TypeOK
  <2>2. CASE NextItem
    BY <1>1, <2>1, <2>2, NextItemKeeps
  <2>3. CASE item' = item /\ opts.apply /\ pc' \in {"remove", "rm", "checkedout"}
    BY <1>1, <1>2, <1>4, <2>1, <2>3, ForwardKeeps DEF Judged, Labels, GateSteps
  <2>4. NextItem \/ (item' = item /\ opts.apply /\ pc' \in {"remove", "rm", "checkedout"})
    BY <1>12 DEF CheckBuild, RecheckBuild, SweepInv, TypeOK
  <2> QED
    BY <2>2, <2>3, <2>4
<1>6. CASE RemoveBuild
  <2>1. WorldOK'
    BY <1>2, <1>6 DEF RemoveBuild, WorldOK, RepoOK
  <2>2. opts.apply /\ item' = item /\ pc' = "checkedout"
    BY <1>6 DEF RemoveBuild, SweepInv, TypeOK
  <2> QED
    BY <1>1, <1>2, <1>4, <2>1, <2>2, ForwardKeeps DEF Judged, Labels, GateSteps
<1>7. CASE CheckedOut
  <2>1. WorldOK' /\ opts.apply
    BY <1>2, <1>7 DEF CheckedOut, WorldOK, RepoOK, world, SweepInv, TypeOK
  <2>2. CASE NextItem
    BY <1>1, <2>1, <2>2, NextItemKeeps
  <2>3. CASE pc' = "local" /\ item' = item
    BY <1>1, <1>2, <1>4, <2>1, <2>3, ForwardKeeps DEF Judged, Labels, GateSteps
  <2> QED
    BY <1>7, <2>2, <2>3 DEF CheckedOut
<1>8. CASE DeleteLocal
  <2>1. WorldOK' /\ opts.apply
    <3>1. refs' \in [{"local"} \cup Remotes -> [Branches -> Commits \cup {None}]]
      BY <1>2, <1>8, RefsWritten DEF DeleteLocal, WorldOK, RepoOK
    <3> QED
      BY <1>2, <1>8, <3>1 DEF DeleteLocal, WorldOK, RepoOK, disk, SweepInv, TypeOK
  <2>2. CASE NextItem
    BY <1>1, <2>1, <2>2, NextItemKeeps
  <2>3. CASE pc' = "look" /\ item' = item
    BY <1>1, <1>2, <1>4, <2>1, <2>3, ForwardKeeps DEF Judged, Labels, GateSteps
  <2> QED
    BY <1>8, <2>2, <2>3 DEF DeleteLocal
<1>9. CASE Look
  <2>1. WorldOK' /\ opts.apply
    BY <1>2, <1>9 DEF Look, WorldOK, RepoOK, world, SweepInv, TypeOK
  <2>2. CASE pc' = "archive" /\ item' = item
    BY <1>1, <1>2, <1>4, <2>1, <2>2, ForwardKeeps DEF Judged, Labels, GateSteps, ApplySteps
  <2>3. ASSUME refs[RemoteOf][item.branch] # None,
               \E oid \in item.oids : refs[RemoteOf][item.branch] \in History[oid],
               item' = [item EXCEPT !.sha = refs[RemoteOf][item.branch]], pc' = "push"
        PROVE  SweepInv'
    <3>1. refs[RemoteOf][item.branch] \in Commits
      BY <1>2, <2>3 DEF WorldOK, RepoOK
    <3>2. /\ item' \in Items /\ item'.sha \in Commits
          /\ item'.tree = item.tree /\ item'.branch = item.branch /\ item'.tip = item.tip
          /\ item'.fork = item.fork /\ item'.oids = item.oids
      BY <1>2, <2>3, <3>1 DEF Items
    <3>3. TypeOK'
      BY <1>1, <1>2, <2>1, <2>3, <3>2 DEF SweepInv, TypeOK, WorldOK, Labels
    <3>4. Listed'
      BY <1>1, <2>3, <3>2 DEF SweepInv, Listed, InHand, Judged, Labels
    <3>5. Deserved'
      BY <1>1, <3>2 DEF SweepInv, Deserved, RemoteOf
    <3>6. \E oid \in item'.oids : item'.sha \in History[oid]
      BY <1>2, <2>3, <3>2 DEF Items
    <3> QED
      BY <3>3, <3>4, <3>5, <3>6 DEF SweepInv
  <2> QED
    BY <1>9, <2>2, <2>3 DEF Look
<1>10. CASE Push
  <2>1. refs' \in [{"local"} \cup Remotes -> [Branches -> Commits \cup {None}]]
    BY <1>2, <1>10, RefsWritten DEF Push, WorldOK, RepoOK
  <2>2. WorldOK' /\ pc' = "archive" /\ item' = item
    BY <1>2, <1>10, <2>1 DEF Push, WorldOK, RepoOK, disk
  <2> QED
    BY <1>1, <1>2, <1>4, <2>2, ForwardKeeps DEF Judged, Labels, GateSteps, ApplySteps
<1>11. CASE Archive
  <2>1. WorldOK'
    BY <1>2, <1>11 DEF Archive, WorldOK, RepoOK
  <2> QED
    BY <1>1, <1>11, <2>1, NextItemKeeps DEF Archive
<1> QED
  BY <1>5, <1>6, <1>7, <1>8, <1>9, <1>10, <1>11, <1>12

\* A sweep that starts over has an empty list and nothing in hand.
LEMMA AgainKeeps ==
    ASSUME SweepInv, Again
    PROVE  SweepInv'
<1>1. NoItem \in Items /\ NoSnap \in Snaps /\ NoSnap.merged = {}
  BY DEF NoItem, Items, NoSnap, Snaps
<1> QED
  BY <1>1 DEF Again, Goto, SweepInv, TypeOK, RepoOK, Listed, InHand, Judged, Labels, disk

\* A sweep starts with an empty list and nothing in hand.
LEMMA InitKeeps ==
    ASSUME Init
    PROVE  SweepInv
<1>1. NoItem \in Items /\ NoSnap \in Snaps /\ NoSnap.merged = {}
  BY DEF NoItem, Items, NoSnap, Snaps
<1>2. RepoOK(refs, merged, open, stashed, tree, plan, build, busy)
  BY ReclaimAssumption DEF Init, Start
<1> QED
  BY <1>1, <1>2 DEF Init, SweepInv, TypeOK, Listed, InHand, Judged, Labels

\* Every step keeps the invariant.
LEMMA SweepInvKept ==
    ASSUME SweepInv, [Next]_vars
    PROVE  SweepInv'
<1>1. CASE Sweep
  BY <1>1, ListsKeep, TakeKeeps, ClassifyKeeps, GateKeeps, RemovalKeeps DEF Sweep
<1>2. CASE Again
  BY <1>2, AgainKeeps
<1>3. CASE Others
  BY <1>3, OthersKeep, StillKeeps DEF SweepInv
<1>4. CASE UNCHANGED vars
  <2>1. WorldOK' /\ merged \subseteq merged' /\ UNCHANGED sweep
    BY <1>4 DEF SweepInv, TypeOK, RepoOK, WorldOK, vars, world
  <2> QED
    BY <2>1, StillKeeps
<1> QED
  BY <1>1, <1>2, <1>3, <1>4 DEF Next

-----------------------------------------------------------------------------
(* Theorems *)

\* The invariant holds of every sweep, killed and run again at any moment.
THEOREM SweepInvariant == Spec => []SweepInv
<1>1. Init => SweepInv
  BY InitKeeps
<1>2. SweepInv /\ [Next]_vars => SweepInv'
  BY SweepInvKept
<1> QED
  BY <1>1, <1>2, PTL DEF Spec

\* Every variable stays in its type, and the steps past a report belong to a
\* sweep that may delete (process_worktree).
THEOREM TypeCorrect == Spec => []TypeOK
<1>1. SweepInv => TypeOK
  BY DEF SweepInv
<1> QED
  BY <1>1, SweepInvariant, PTL

\* A step leaves the branches alone, moves or makes one, or is one of the
\* two deletions of the sweep.
LEMMA WhatRefsDo ==
    ASSUME SweepInv, [Next]_vars
    PROVE  \/ refs' = refs
           \/ /\ DeleteLocal /\ refs["local"][item.branch] = item.tip
              /\ refs' = [refs EXCEPT !["local"][item.branch] = None]
           \/ /\ Push /\ refs[RemoteOf][item.branch] = item.sha
              /\ refs' = [refs EXCEPT ![RemoteOf][item.branch] = None]
           \/ \E p \in {"local"} \cup Remotes, b \in Branches, c \in Commits :
                /\ refs' = [refs EXCEPT ![p][b] = c] /\ merged' = merged
                /\ refs[p][b] # None => refs[p][b] \in History[c]
                /\ made' \subseteq made \cup {c}
<1> USE DEF SweepInv
<1>1. CASE Sweep \/ Again \/ UNCHANGED vars
  BY <1>1 DEF Sweep, ListMerged, ListOpen, ListTrees, Abort, Take, ListBranches, Finish, Classify,
       GateStatus, GateIgnored, GateCwd, GateCwdBlind, GateOwner, CheckBuild, RemoveTree, RecheckBuild, RemoveBuild, CheckedOut,
       DeleteLocal, Look, Push, Archive, Again, vars, world
<1>2. CASE Others
  <2>1. ASSUME NEW p \in {"local"} \cup Remotes, NEW b \in Branches, Commit(p, b)
        PROVE  \E c \in Commits :
                /\ refs' = [refs EXCEPT ![p][b] = c] /\ merged' = merged
                /\ refs[p][b] # None => refs[p][b] \in History[c]
                /\ made' \subseteq made \cup {c}
    BY <2>1 DEF Commit
  <2>2. ASSUME NEW p \in Remotes, NEW b \in Branches, Publish(p, b)
        PROVE  \E c \in Commits :
                /\ refs' = [refs EXCEPT ![p][b] = c] /\ merged' = merged
                /\ refs[p][b] # None => refs[p][b] \in History[c]
                /\ made' \subseteq made \cup {c}
    <3>1. refs["local"][b] \in Commits /\ refs' = [refs EXCEPT ![p][b] = refs["local"][b]]
      BY <2>2 DEF Publish, TypeOK, RepoOK
    <3> QED
      BY <2>2, <3>1 DEF Publish
  <2>3. ASSUME refs' # refs
        PROVE  \E b \in Branches : \/ \E p \in {"local"} \cup Remotes : Commit(p, b)
                                   \/ \E p \in Remotes : Publish(p, b)
    BY <1>2, <2>3 DEF Others, Merge, OpenPR, Stash, Checkout, Edit, Claim, Drop, Enter
  <2> QED
    BY <2>1, <2>2, <2>3
<1> QED
  BY <1>1, <1>2 DEF Next

\* Writing one branch deletes no other, and none when it writes a commit.
LEMMA WhatGoes ==
    ASSUME SweepInv, NEW p \in {"local"} \cup Remotes, NEW b \in Branches, NEW c,
           refs' = [refs EXCEPT ![p][b] = c],
           NEW q \in {"local"} \cup Remotes, NEW d \in Branches, Deleted(q, d)
    PROVE  q = p /\ d = b /\ c = None
<1>1. refs \in [{"local"} \cup Remotes -> [Branches -> Commits \cup {None}]]
  BY DEF SweepInv, TypeOK, RepoOK
<1>2. refs'[q][d] = IF q = p /\ d = b THEN c ELSE refs[q][d]
  BY <1>1
<1> QED
  BY <1>2 DEF Deleted

\* A local branch goes only when its tip is merged into the default branch
\* from where the user asked, and had no open PR (classify, delete_refs).
THEOREM LocalBranchRule == Spec => LocalGoesWhenMerged
<1>1. ASSUME SweepInv, [Next]_vars, NEW b \in Branches, Deleted("local", b)
      PROVE  /\ b \notin snap.open
             /\ \E r \in merged :
                  /\ r.branch = b /\ refs["local"][b] \in History[r.oid] /\ r.base = "default"
                  /\ r.from = "origin" \/ (opts.allowFork /\ r.from \in Forks)
  <2>1. CASE DeleteLocal /\ refs["local"][item.branch] = item.tip
             /\ refs' = [refs EXCEPT !["local"][item.branch] = None]
    <3>1. Deserved /\ item.branch \in Branches /\ snap.merged \subseteq merged
      BY <1>1, <2>1 DEF SweepInv, TypeOK, DeleteLocal, Judged, Labels, Listed, InHand
    <3>2. b = item.branch
      BY <1>1, <2>1, <3>1, WhatGoes
    <3> QED
      BY <2>1, <3>1, <3>2 DEF Deserved
  <2>2. CASE Push /\ refs' = [refs EXCEPT ![RemoteOf][item.branch] = None]
    <3>1. RemoteOf \in Remotes /\ item.branch \in Branches /\ "local" \notin Remotes
      BY <1>1, <2>2, ReclaimAssumption DEF SweepInv, TypeOK, Items, RemoteOf, Remotes, Push, Judged,
             Labels, Listed, InHand
    <3> QED
      BY <1>1, <2>2, <3>1, WhatGoes
  <2>3. ASSUME NEW p \in {"local"} \cup Remotes, NEW d \in Branches, NEW c \in Commits,
               refs' = [refs EXCEPT ![p][d] = c]
        PROVE  FALSE
    BY <1>1, <2>3, WhatGoes, ReclaimAssumption
  <2>4. refs' # refs
    BY <1>1 DEF Deleted
  <2> QED
    BY <1>1, <2>1, <2>2, <2>3, <2>4, WhatRefsDo
<1>2. SweepInv /\ [Next]_vars =>
        [\A b \in Branches : Deleted("local", b) =>
           /\ b \notin snap.open
           /\ \E r \in merged :
                /\ r.branch = b /\ refs["local"][b] \in History[r.oid] /\ r.base = "default"
                /\ r.from = "origin" \/ (opts.allowFork /\ r.from \in Forks)]_vars
  BY <1>1
<1> QED
  BY <1>2, SweepInvariant, PTL DEF Spec, LocalGoesWhenMerged

\* Past its deletion the local branch of the item in hand is gone.
LocalGone == pc \in {"look", "push"} => refs["local"][item.branch] = None

\* Nobody makes a deleted local branch anew, and the sweep goes for the remote
\* branch by way of the local one.
LEMMA LocalStaysGone ==
    ASSUME SweepInv, LocalGone, [Next]_vars
    PROVE  LocalGone'
<1> USE DEF LocalGone, Goto
<1>0. refs \in [{"local"} \cup Remotes -> [Branches -> Commits \cup {None}]] /\ "local" \notin Remotes
      /\ item \in Items
  BY ReclaimAssumption DEF SweepInv, TypeOK, RepoOK, Remotes
<1>1. CASE Others
  <2>1. UNCHANGED sweep
    BY <1>1, OthersKeep DEF SweepInv
  <2>2. ASSUME NEW p \in {"local"} \cup Remotes, NEW b \in Branches, Commit(p, b)
        PROVE  LocalGone'
    <3>1. pc' \in {"look", "push"} => pc = pc' /\ item.branch \in Branches /\ ~(p = "local" /\ b = item.branch)
      BY <2>1, <2>2 DEF Commit, sweep, SweepInv, Listed, InHand, Judged, Labels
    <3> QED
      BY <1>0, <2>1, <2>2, <3>1 DEF Commit, sweep
  <2>3. ASSUME NEW p \in Remotes, NEW b \in Branches, Publish(p, b)
        PROVE  LocalGone'
    BY <1>0, <2>1, <2>3 DEF Publish, sweep
  <2>4. CASE refs' = refs
    BY <2>1, <2>4 DEF sweep
  <2> QED
    BY <1>1, <2>2, <2>3, <2>4 DEF Others, Merge, OpenPR, Stash, Checkout, Edit, Claim, Drop, Enter
<1>2. CASE DeleteLocal
  <2>1. item.branch \in Branches
    BY <1>2 DEF DeleteLocal, SweepInv, Listed, InHand, Judged, Labels
  <2> QED
    BY <1>0, <1>2, <2>1 DEF DeleteLocal, NextItem
<1>3. CASE Look
  BY <1>0, <1>3 DEF Look, world, Items
<1>4. CASE pc' \notin {"look", "push"} \/ UNCHANGED vars
  BY <1>4 DEF vars, world, sweep
<1>5. \/ Others \/ DeleteLocal \/ Look \/ UNCHANGED vars
      \/ pc' \notin {"look", "push"}
  <2>1. CASE Take \/ Classify
    BY <2>1 DEF Take, Classify, NextItem
  <2>2. CASE ~(Take \/ Classify)
    BY <2>2 DEF Next, Sweep, ListMerged, ListOpen, ListTrees, Abort, ListBranches, Finish,
       GateStatus, GateIgnored, GateCwd, GateCwdBlind, GateOwner, Pass, NextItem, CheckBuild, RemoveTree,
       RecheckBuild, RemoveBuild, CheckedOut, Push, Archive, Again
  <2> QED
    BY <2>1, <2>2
<1> QED
  BY <1>1, <1>2, <1>3, <1>4, <1>5

\* A remote branch goes only when it is merged from that very remote, and
\* when the local branch has gone (delete_refs, remote_state,
\* delete_fork_remote).
THEOREM RemoteBranchRule == Spec => RemoteGoesWhenMerged
<1>1. ASSUME SweepInv, LocalGone, [Next]_vars, NEW q \in Remotes, NEW b \in Branches, Deleted(q, b)
      PROVE  refs["local"][b] = None /\ \E r \in merged : r.branch = b /\ r.from = q /\ refs[q][b] \in History[r.oid]
  <2>1. CASE DeleteLocal /\ refs' = [refs EXCEPT !["local"][item.branch] = None]
    <3>1. item.branch \in Branches /\ "local" \notin Remotes
      BY <1>1, <2>1, ReclaimAssumption DEF SweepInv, Remotes, DeleteLocal, Judged, Labels, Listed, InHand
    <3> QED
      BY <1>1, <2>1, <3>1, WhatGoes
  <2>2. CASE Push /\ refs[RemoteOf][item.branch] = item.sha
             /\ refs' = [refs EXCEPT ![RemoteOf][item.branch] = None]
    <3>1. RemoteOf \in Remotes /\ item.branch \in Branches
      BY <1>1, <2>2 DEF SweepInv, TypeOK, Items, RemoteOf, Remotes, Push, Judged,
             Labels, Listed, InHand
    <3>2. q = RemoteOf /\ b = item.branch
      BY <1>1, <2>2, <3>1, WhatGoes
    <3>3. PICK oid \in item.oids : item.sha \in History[oid]
      BY <1>1, <2>2 DEF SweepInv, Push
    <3>4. Deserved /\ snap.merged \subseteq merged
      BY <1>1, <2>2 DEF SweepInv, TypeOK, Push, Judged, Labels
    <3>5. refs["local"][b] = None
      BY <1>1, <2>2, <3>2 DEF LocalGone, Push
    <3> QED
      BY <2>2, <3>2, <3>3, <3>4, <3>5 DEF Deserved
  <2>3. ASSUME NEW p \in {"local"} \cup Remotes, NEW d \in Branches, NEW c \in Commits,
               refs' = [refs EXCEPT ![p][d] = c]
        PROVE  FALSE
    BY <1>1, <2>3, WhatGoes, ReclaimAssumption
  <2>4. refs' # refs
    BY <1>1 DEF Deleted
  <2> QED
    BY <1>1, <2>1, <2>2, <2>3, <2>4, WhatRefsDo
<1>2. SweepInv /\ LocalGone /\ [Next]_vars =>
        [\A p \in Remotes : \A b \in Branches : Deleted(p, b) =>
           /\ refs["local"][b] = None
           /\ \E r \in merged : r.branch = b /\ r.from = p /\ refs[p][b] \in History[r.oid]]_vars
  BY <1>1
<1>3. Init => LocalGone
  BY DEF Init, LocalGone
<1>4. SweepInv /\ LocalGone /\ [Next]_vars => LocalGone'
  BY LocalStaysGone
<1> QED
  BY <1>2, <1>3, <1>4, SweepInvariant, PTL DEF Spec, RemoteGoesWhenMerged

-----------------------------------------------------------------------------
(* No commit is lost *)

\* A commit that a branch or the head of a merged PR still reaches.
Reached(c) ==
    \/ \E p \in {"local"} \cup Remotes, b \in Branches : refs[p][b] # None /\ c \in History[refs[p][b]]
    \/ \E r \in merged : c \in History[r.oid]

AllReached == \A c \in made : Reached(c)

\* In a well-typed state this is what NoCommitLost says.
LEMMA ReachedMeans ==
    ASSUME TypeOK
    PROVE  NoCommitLost <=> AllReached
<1> DEFINE tips == ({refs[p][b] : p \in DOMAIN refs, b \in Branches} \cup {r.oid : r \in merged}) \ {None}
<1>1. DOMAIN refs = {"local"} \cup Remotes
  BY DEF TypeOK, RepoOK
<1>2. \A r \in merged : r.oid # None
  BY ReclaimAssumption DEF TypeOK, RepoOK, Rows
<1>3. ASSUME NEW c
      PROVE  (\E t \in tips : c \in History[t]) <=> Reached(c)
  <2>1. ASSUME NEW t \in tips, c \in History[t]
        PROVE  Reached(c)
    <3>1. t # None /\ (t \in {refs[p][b] : p \in DOMAIN refs, b \in Branches} \/ \E r \in merged : t = r.oid)
      OBVIOUS
    <3>2. CASE \E r \in merged : t = r.oid
      BY <2>1, <3>2 DEF Reached
    <3>3. CASE \E p \in DOMAIN refs, b \in Branches : t = refs[p][b]
      <4>1. PICK p \in {"local"} \cup Remotes, b \in Branches : t = refs[p][b]
        <5>1. \A p : p \in DOMAIN refs => p \in {"local"} \cup Remotes
          BY <1>1
        <5> HIDE DEF tips
        <5> QED
          BY <3>3, <5>1
      <4>2. refs[p][b] # None /\ c \in History[refs[p][b]]
        BY <2>1, <3>1, <4>1
      <4> QED
        BY <4>2 DEF Reached
    <3> HIDE DEF tips
    <3> QED
      BY <3>1, <3>2, <3>3
  <2>2. ASSUME NEW p \in {"local"} \cup Remotes, NEW b \in Branches, refs[p][b] # None
        PROVE  refs[p][b] \in tips
    BY <1>1, <2>2
  <2>3. ASSUME NEW r \in merged
        PROVE  r.oid \in tips
    BY <1>2
  <2> HIDE DEF tips
  <2> QED
    BY <2>1, <2>2, <2>3 DEF Reached
<1>4. NoCommitLost <=> \A c \in made : \E t \in tips : c \in History[t]
  BY DEF NoCommitLost
<1> HIDE DEF tips
<1> QED
  BY <1>3, <1>4 DEF AllReached

\* What a branch reached stays reached when it moves forward, and when what
\* it goes from is below a merged head.
LEMMA WriteReaches ==
    ASSUME TypeOK, AllReached, merged' = merged, made' = made,
           NEW p \in {"local"} \cup Remotes, NEW b \in Branches, NEW c \in Commits \cup {None},
           refs' = [refs EXCEPT ![p][b] = c],
           \/ refs[p][b] = None
           \/ c # None /\ refs[p][b] \in History[c]
           \/ \E r \in merged : refs[p][b] \in History[r.oid]
    PROVE  AllReached'
<1> SUFFICES ASSUME NEW x \in made
             PROVE  Reached(x)'
  BY DEF AllReached
<1>1. /\ \A d \in Commits : \A a \in History[d] : History[a] \subseteq History[d]
      /\ merged \subseteq Rows /\ \A r \in merged : r.oid \in Commits
  BY ReclaimAssumption DEF TypeOK, RepoOK, Rows
<1>2. \A q \in {"local"} \cup Remotes : \A d \in Branches :
        refs'[q][d] = IF q = p /\ d = b THEN c ELSE refs[q][d]
  BY DEF TypeOK, RepoOK
<1>3. Reached(x)
  BY DEF AllReached
<1>4. CASE \E r \in merged : x \in History[r.oid]
  BY <1>4 DEF Reached
<1>5. ASSUME NEW q \in {"local"} \cup Remotes, NEW d \in Branches,
             refs[q][d] # None, x \in History[refs[q][d]]
      PROVE  Reached(x)'
  <2>1. CASE ~(q = p /\ d = b)
    BY <1>2, <1>5, <2>1 DEF Reached
  <2>2. CASE q = p /\ d = b
    <3>1. CASE c # None /\ refs[p][b] \in History[c]
      <4>1. x \in History[c] /\ refs'[p][b] = c
        BY <1>1, <1>2, <1>5, <2>2, <3>1
      <4> QED
        BY <3>1, <4>1 DEF Reached
    <3>2. CASE \E r \in merged : refs[p][b] \in History[r.oid]
      BY <1>1, <1>5, <2>2, <3>2 DEF Reached
    <3> QED
      BY <1>5, <2>2, <3>1, <3>2
  <2> QED
    BY <2>1, <2>2
<1> QED
  BY <1>3, <1>4, <1>5 DEF Reached

\* No work is lost, whatever others push or commit between the sweep's reads
\* and its deletions (delete_refs, delete_fork_remote).
THEOREM NoWorkLost == Spec => []NoCommitLost
<1>1. Init => AllReached
  <2> SUFFICES ASSUME Init, NEW c \in made
               PROVE  Reached(c)
    BY DEF AllReached
  <2>1. PICK p \in DOMAIN refs, b \in Branches : c = refs[p][b] /\ c # None
    BY DEF Init, Start
  <2>2. p \in {"local"} \cup Remotes /\ c \in Commits
    BY <2>1, InitKeeps DEF SweepInv, TypeOK, RepoOK
  <2> QED
    BY <2>1, <2>2, ReclaimAssumption DEF Reached
<1>2. ASSUME SweepInv, AllReached, [Next]_vars
      PROVE  AllReached'
  <2> USE <1>2
  <2>1. TypeOK /\ TypeOK'
    BY SweepInvKept DEF SweepInv
  <2>2. CASE DeleteLocal \/ Push
    <3>1. merged' = merged /\ made' = made
      BY <2>2 DEF DeleteLocal, Push
    <3>2. /\ Deserved /\ item.branch \in Branches /\ snap.merged \subseteq merged
          /\ RemoteOf \in Remotes
      BY <2>2 DEF SweepInv, TypeOK, Items, RemoteOf, Remotes, DeleteLocal, Push, Judged, Labels, Listed, InHand
    <3>3. CASE refs' = refs
      BY <3>1, <3>3 DEF AllReached, Reached
    <3>4. CASE DeleteLocal /\ refs' # refs
      <4>1. refs["local"][item.branch] = item.tip /\ refs' = [refs EXCEPT !["local"][item.branch] = None]
        BY <3>4 DEF DeleteLocal
      <4>2. \E r \in merged : refs["local"][item.branch] \in History[r.oid]
        BY <3>2, <4>1 DEF Deserved
      <4> QED
        BY <2>1, <3>1, <3>2, <4>1, <4>2, WriteReaches
    <3>5. CASE Push /\ refs' # refs
      <4>1. refs[RemoteOf][item.branch] = item.sha /\ refs' = [refs EXCEPT ![RemoteOf][item.branch] = None]
        BY <3>5 DEF Push
      <4>2. PICK oid \in item.oids : item.sha \in History[oid]
        BY <3>5 DEF Push, SweepInv
      <4>3. \E r \in merged : refs[RemoteOf][item.branch] \in History[r.oid]
        BY <3>2, <4>1, <4>2 DEF Deserved
      <4> QED
        BY <2>1, <3>1, <3>2, <4>1, <4>3, WriteReaches
    <3> QED
      BY <2>2, <3>3, <3>4, <3>5
  <2>3. ASSUME NEW p \in {"local"} \cup Remotes, NEW b \in Branches, Commit(p, b)
        PROVE  AllReached'
    <3>1. PICK c \in Commits :
            /\ refs[p][b] \in History[c] /\ refs' = [refs EXCEPT ![p][b] = c]
            /\ made' = made \cup {c} /\ merged' = merged
      BY <2>3 DEF Commit
    <3>2. refs'[p][b] = c /\ c # None /\ c \in History[c]
      BY <2>1, <3>1, ReclaimAssumption DEF TypeOK, RepoOK
    <3>3. Reached(c)'
      BY <3>2 DEF Reached
    <3>4. \A x \in made : Reached(x)'
      <4> SUFFICES ASSUME NEW x \in made
                   PROVE  Reached(x)'
        OBVIOUS
      <4>1. CASE \E r \in merged : x \in History[r.oid]
        BY <3>1, <4>1 DEF Reached
      <4>2. ASSUME NEW q \in {"local"} \cup Remotes, NEW d \in Branches,
                   refs[q][d] # None, x \in History[refs[q][d]]
            PROVE  Reached(x)'
        <5>1. refs'[q][d] = IF q = p /\ d = b THEN c ELSE refs[q][d]
          BY <2>1, <3>1 DEF TypeOK, RepoOK
        <5>2. History[refs[p][b]] \subseteq History[c]
          BY <3>1, ReclaimAssumption
        <5> QED
          BY <3>2, <4>2, <5>1, <5>2 DEF Reached
      <4> QED
        BY <4>1, <4>2 DEF AllReached, Reached
    <3> QED
      BY <3>1, <3>3, <3>4 DEF AllReached
  <2>4. ASSUME NEW p \in Remotes, NEW b \in Branches, Publish(p, b)
        PROVE  AllReached'
    <3>1. /\ refs["local"][b] \in Commits /\ refs["local"][b] # None
          /\ refs' = [refs EXCEPT ![p][b] = refs["local"][b]]
          /\ refs[p][b] = None \/ refs[p][b] \in History[refs["local"][b]]
          /\ merged' = merged /\ made' = made
      BY <2>1, <2>4 DEF Publish, TypeOK, RepoOK
    <3> QED
      BY <2>1, <3>1, WriteReaches
  <2>5. CASE refs' = refs /\ merged \subseteq merged' /\ made' = made
    BY <2>5 DEF AllReached, Reached
  <2>6. CASE Sweep \/ Again \/ UNCHANGED vars
    <3>1. \/ DeleteLocal \/ Push
          \/ refs' = refs /\ merged' = merged /\ made' = made
      BY <2>6 DEF Sweep, ListMerged, ListOpen, ListTrees, Abort, Take, ListBranches, Finish, Classify,
           GateStatus, GateIgnored, GateCwd, GateCwdBlind, GateOwner, CheckBuild, RemoveTree, RecheckBuild, RemoveBuild, CheckedOut,
           DeleteLocal, Look, Push, Archive, Again, vars, world
    <3> QED
      BY <2>2, <2>5, <3>1
  <2>7. CASE Others
    <3>1. \/ \E p \in {"local"} \cup Remotes, b \in Branches : Commit(p, b)
          \/ \E p \in Remotes, b \in Branches : Publish(p, b)
          \/ refs' = refs /\ merged \subseteq merged' /\ made' = made
      BY <2>7 DEF Others, Merge, OpenPR, Stash, Checkout, Edit, Claim, Drop, Enter
    <3> QED
      BY <2>3, <2>4, <2>5, <3>1
  <2> QED
    BY <2>6, <2>7 DEF Next
<1>3. SweepInv /\ AllReached => NoCommitLost
  BY ReachedMeans DEF SweepInv
<1>4. SweepInv /\ AllReached /\ [Next]_vars => AllReached'
  BY <1>2
<1> QED
  BY <1>1, <1>3, <1>4, SweepInvariant, PTL DEF Spec

-----------------------------------------------------------------------------
(* Nothing in use goes *)

\* What the gate has looked for is not there, or came after it looked.
UseInv ==
    /\ cwds # None => busy \subseteq cwds \cup late
    /\ pc \notin {"merged", "done"} => \A w \in Trees \ snap.plans : plan[w] = "owned" => <<w, "owner">> \in late
    /\ pc \in {"status", "ignored", "cwd", "owner"} /\ ~item.found =>
         item.tree \notin snap.plans \/ plan[item.tree] = "archived"
    /\ pc \in {"cwd", "owner", "check", "remove"} =>
         /\ "ignored" \in item.passed
         /\ tree[item.tree].ignored # None /\ Precious(tree[item.tree].ignored) => <<item.tree, "ignored">> \in late
    /\ pc \in {"owner", "check", "remove"} =>
         "blind" \in item.passed \/ (cwds # None /\ <<item.tree, "tree">> \notin cwds)
    /\ pc \in {"check", "remove"} =>
         "owner" \in item.passed /\ (plan[item.tree] = "owned" => <<item.tree, "owner">> \in late)
    /\ pc = "rm" => cwds = None \/ <<item.tree, "build">> \notin cwds

\* Others put what they bring after a check on record as late.
LEMMA OthersUse ==
    ASSUME SweepInv, UseInv, Others
    PROVE  UseInv'
<1>1. TypeOK /\ UNCHANGED sweep
  BY OthersKeep DEF SweepInv
<1>2. tree \in [Trees -> Files] /\ plan \in [Trees -> {"none", "quiet", "owned", "archived"}]
      /\ (pc \in {"status", "ignored", "cwd", "owner", "check", "remove"} => item.tree \in Trees)
  BY <1>1 DEF TypeOK, RepoOK
<1> USE <1>1, <1>2 DEF sweep, UseInv
<1>3. CASE UNCHANGED <<tree, plan, busy, late>>
  BY <1>3
<1>4. ASSUME NEW w \in Trees, NEW b \in Branches, Checkout(w, b)
      PROVE  UseInv'
  <2>1. \A v \in Trees : tree'[v].ignored = tree[v].ignored
    BY <1>4 DEF Checkout, Files
  <2> QED
    BY <1>4, <2>1 DEF Checkout
<1>5. ASSUME NEW w \in Trees, Edit(w)
      PROVE  UseInv'
  <2>1. \A v \in Trees : tree'[v].ignored = tree[v].ignored
    BY <1>5 DEF Edit, Files
  <2> QED
    BY <1>5, <2>1 DEF Edit
<1>6. ASSUME NEW w \in Trees, NEW e \in Entries, Drop(w, e)
      PROVE  UseInv'
  <2>1. \A v \in Trees : v # w => tree'[v].ignored = tree[v].ignored
    BY <1>6 DEF Drop, Files
  <2>2. late \subseteq late' /\ ("ignored" \in item.passed /\ item.tree = w => <<w, "ignored">> \in late')
    BY <1>6 DEF Drop, Passed
  <2> QED
    BY <1>6, <2>1, <2>2 DEF Drop
<1>7. ASSUME NEW d \in Dirs, Enter(d)
      PROVE  UseInv'
  BY <1>7 DEF Enter
<1>8. ASSUME NEW w \in Trees, Claim(w)
      PROVE  UseInv'
  <2>1. \A v \in Trees : v # w => plan'[v] = plan[v]
    BY <1>8 DEF Claim
  <2>2. plan[w] # "archived" /\ plan' = [plan EXCEPT ![w] = "owned"]
    BY <1>8 DEF Claim
  <2>3. /\ late \subseteq late'
        /\ "owner" \in item.passed /\ item.tree = w => <<w, "owner">> \in late'
        /\ pc # "merged" /\ w \notin snap.plans => <<w, "owner">> \in late'
    BY <1>8 DEF Claim, Passed
  <2> QED
    BY <1>8, <2>1, <2>2, <2>3 DEF Claim
<1>9. \/ UNCHANGED <<tree, plan, busy, late>>
      \/ \E w \in Trees, b \in Branches : Checkout(w, b)
      \/ \E w \in Trees : Edit(w) \/ Claim(w) \/ \E e \in Entries : Drop(w, e)
      \/ \E d \in Dirs : Enter(d)
  BY DEF Others, Commit, Publish, Merge, OpenPR, Stash, disk
<1> QED
  BY <1>3, <1>4, <1>5, <1>6, <1>7, <1>8, <1>9

\* What the gate lets go with the worktree is not precious.
LEMMA HarmlessIsNot ==
    ASSUME NEW e \in Entries, Harmless(e)
    PROVE  ~Precious(e)
BY ReclaimAssumption DEF Harmless, Precious

\* Each step of the sweep leaves what it has looked for as it was.
LEMMA SweepUse ==
    ASSUME SweepInv, UseInv, Sweep
    PROVE  UseInv'
<1>1. /\ tree \in [Trees -> Files] /\ plan \in [Trees -> {"none", "quiet", "owned", "archived"}]
      /\ snap \in Snaps /\ item \in Items
      /\ (pc \in {"status", "ignored", "cwd", "owner", "check", "remove", "build", "rm"} => item.tree \in Trees)
  BY DEF SweepInv, TypeOK, RepoOK
<1> USE <1>1 DEF UseInv, Goto
<1>2. CASE NextItem /\ pc \notin {"merged", "done"} /\ UNCHANGED <<tree, plan, busy, late, snap>>
           /\ (cwds' = cwds \/ cwds' = busy)
  BY <1>2 DEF NextItem
<1>3. CASE ListMerged
  <2>1. snap'.plans = {w \in Trees : plan[w] \in {"quiet", "owned"}}
    BY <1>3 DEF ListMerged, Snaps
  <2> QED
    BY <1>3, <2>1 DEF ListMerged, world
<1>4. CASE ListOpen \/ ListTrees \/ Abort \/ ListBranches \/ Finish \/ Take
  <2>1. snap'.plans = snap.plans
    <3>1. CASE ListOpen
      BY <3>1 DEF ListOpen, Snaps
    <3>2. CASE ListTrees
      BY <3>2 DEF ListTrees, Snaps
    <3> QED
      BY <1>4, <3>1, <3>2 DEF Abort, ListBranches, Finish, Take
  <2> QED
    BY <1>4, <2>1 DEF ListOpen, ListTrees, Abort, ListBranches, Finish, Take, world
<1>5. CASE Classify
  <2>1. ASSUME NEW v, item.tree # None,
               item' = [item EXCEPT !.fork = v.fork, !.oids = v.oids,
                                    !.found = item.tree \in snap.plans /\ plan[item.tree] # "archived"],
               pc' = "status"
        PROVE  UseInv'
    <3>1. item'.tree = item.tree /\ item'.found = (item.tree \in snap.plans /\ plan[item.tree] # "archived")
      BY <2>1 DEF Items
    <3> QED
      BY <1>5, <2>1, <3>1 DEF Classify, world
  <2>2. CASE pc' \in {"checkedout", "branches"}
    BY <1>5, <2>2 DEF Classify, world
  <2> QED
    BY <1>2, <1>5, <2>1, <2>2 DEF Classify, world
<1>6. CASE GateStatus
  <2>1. CASE Pass("status", "ignored")
    <3>1. item'.tree = item.tree /\ item'.found = item.found
      BY <2>1 DEF Pass, Items
    <3> QED
      BY <1>6, <2>1, <3>1 DEF GateStatus, Pass, world
  <2> QED
    BY <1>2, <1>6, <2>1 DEF GateStatus, world
<1>7. CASE GateIgnored
  <2>1. CASE /\ Pass("ignored", "cwd")
             /\ tree[item.tree].ignored = None \/ Harmless(tree[item.tree].ignored)
    <3>1. item'.tree = item.tree /\ item'.found = item.found /\ "ignored" \in item'.passed
      BY <2>1 DEF Pass, Items
    <3>2. item.tree \in Trees /\ tree[item.tree].ignored \in Entries \cup {None}
      BY <1>7 DEF GateIgnored, Files
    <3>3. tree[item.tree].ignored = None \/ ~Precious(tree[item.tree].ignored)
      BY <2>1, <3>2, HarmlessIsNot
    <3> QED
      BY <1>7, <2>1, <3>1, <3>3 DEF GateIgnored, Pass, world
  <2> QED
    BY <1>2, <1>7, <2>1 DEF GateIgnored, world
<1>8. CASE GateCwd \/ GateCwdBlind
  <2>1. CASE GateCwdBlind
    <3>1. item'.tree = item.tree /\ item'.found = item.found /\ item.passed \subseteq item'.passed
          /\ "blind" \in item'.passed
      BY <2>1 DEF GateCwdBlind, Pass, Items
    <3> QED
      BY <2>1, <3>1 DEF GateCwdBlind, Pass, world
  <2>2. CASE GateCwd /\ Pass("cwd", "owner") /\ <<item.tree, "tree">> \notin cwds'
    <3>1. item'.tree = item.tree /\ item'.found = item.found /\ item.passed \subseteq item'.passed
      BY <2>2 DEF Pass, Items
    <3>2. cwds' # None
      BY <2>2, ReclaimAssumption DEF GateCwd, SweepInv, TypeOK, RepoOK
    <3> QED
      BY <2>2, <3>1, <3>2 DEF GateCwd, Pass, world
  <2> QED
    BY <1>2, <1>8, <2>1, <2>2 DEF GateCwd, world
<1>9. CASE GateOwner
  <2>1. CASE Pass("owner", "check") /\ ~(item.found /\ plan[item.tree] = "owned")
    <3>1. item'.tree = item.tree /\ item.passed \subseteq item'.passed /\ "owner" \in item'.passed
      BY <2>1 DEF Pass, Items
    <3>2. plan[item.tree] = "owned" => <<item.tree, "owner">> \in late
      BY <1>9, <2>1 DEF GateOwner
    <3> QED
      BY <1>9, <2>1, <3>1, <3>2 DEF GateOwner, Pass, world
  <2> QED
    BY <1>2, <1>9, <2>1 DEF GateOwner, world
<1>10. CASE RemoveTree
  BY <1>2, <1>10 DEF RemoveTree
<1>11. CASE RemoveBuild
  BY <1>11 DEF RemoveBuild
<1>14. CASE CheckBuild
  <2>1. cwds' = cwds \/ (cwds = None /\ cwds' = busy)
    BY <1>14 DEF CheckBuild, AskLsof
  <2> QED
    BY <1>2, <1>14, <2>1 DEF CheckBuild, world
<1>15. CASE RecheckBuild
  <2>1. cwds' = cwds \/ (cwds = None /\ cwds' = busy)
    BY <1>15 DEF RecheckBuild, AskLsof
  <2> QED
    BY <1>15, <2>1 DEF RecheckBuild, world
<1>12. CASE CheckedOut \/ DeleteLocal \/ Look \/ Push
  BY <1>2, <1>12 DEF CheckedOut, DeleteLocal, Look, Push, disk, world
<1>13. CASE Archive
  <2>1. \A w \in Trees : plan'[w] = "owned" => plan[w] = "owned"
    BY <1>13 DEF Archive
  <2> QED
    BY <1>13, <2>1 DEF Archive, NextItem
<1> QED
  BY <1>3, <1>4, <1>5, <1>6, <1>7, <1>8, <1>9, <1>10, <1>11, <1>12, <1>13, <1>14, <1>15 DEF Sweep

\* Whatever is in use stays, unless it came into use after its check had looked,
\* for a process after the sweep's one answer of lsof, or the check got no answer
\* of lsof (gate, check_build_dir).
THEOREM NothingInUseRule == Spec => NothingInUseGoes
<1>1. Init => UseInv
  BY DEF Init, UseInv, NoItem
<1>2. ASSUME SweepInv, UseInv, [Next]_vars
      PROVE  UseInv'
  <2>1. CASE Again
    BY <1>2, <2>1 DEF Again, UseInv, Goto
  <2>2. CASE UNCHANGED vars
    BY <1>2, <2>2 DEF UseInv, vars, world, sweep
  <2> QED
    BY <1>2, <2>1, <2>2, SweepUse, OthersUse DEF Next
<1>3. ASSUME SweepInv, UseInv, [Next]_vars, NEW w \in Trees, Removed(w)
      PROVE  /\ tree[w].ignored # None /\ Precious(tree[w].ignored) => <<w, "ignored">> \in late
             /\ plan[w] = "owned" => <<w, "owner">> \in late
             /\ Spared(<<w, "tree">>) \/ "blind" \in item.passed
  <2>1. tree \in [Trees -> Files]
    BY <1>3 DEF SweepInv, TypeOK, RepoOK
  <2>2. RemoveTree
    <3>1. tree' # tree
      BY <1>3 DEF Removed
    <3>2. \A v \in Trees, b \in Branches : ~Checkout(v, b)
      BY <1>3, <2>1 DEF Removed, Checkout, Files
    <3>3. \A v \in Trees : ~Edit(v) /\ \A e \in Entries : ~Drop(v, e)
      BY <1>3, <2>1 DEF Removed, Edit, Drop, Files
    <3> QED
      BY <1>3, <3>1, <3>2, <3>3 DEF Next, Sweep, Others, vars, world, disk, ListMerged, ListOpen, ListTrees, Abort, Take,
           ListBranches, Finish, Classify, GateStatus, GateIgnored, GateCwd, GateCwdBlind, GateOwner, CheckBuild, RecheckBuild, RemoveBuild,
           CheckedOut, DeleteLocal, Look, Push, Archive, Again, Commit, Publish, Merge, OpenPR, Stash, Claim, Enter
  <2>3. w = item.tree /\ pc = "remove" /\ cwds' = cwds
    BY <1>3, <2>1, <2>2 DEF Removed, RemoveTree
  <2> QED
    BY <1>3, <2>3 DEF UseInv, Spared
<1>4. ASSUME SweepInv, UseInv, [Next]_vars, NEW w \in Trees, build[w] # "none", build'[w] = "none"
      PROVE  Spared(<<w, "build">>) \/ cwds = None
  <2>1. RemoveBuild
    <3>1. build' # build
      BY <1>4
    <3> QED
      BY <1>4, <3>1 DEF Next, Sweep, Others, vars, world, disk, ListMerged, ListOpen, ListTrees, Abort, Take,
           ListBranches, Finish, Classify, GateStatus, GateIgnored, GateCwd, GateCwdBlind, GateOwner, CheckBuild, RemoveTree, RecheckBuild,
           CheckedOut, DeleteLocal, Look, Push, Archive, Again, Commit, Publish, Merge, OpenPR, Stash, Claim, Enter,
           Checkout, Edit, Drop
  <2>2. build \in [Trees -> {"none", "refused", "good"}]
    BY <1>4 DEF SweepInv, TypeOK, RepoOK
  <2>3. w = item.tree /\ pc = "rm"
    BY <1>4, <2>1, <2>2 DEF RemoveBuild
  <2> QED
    BY <1>4, <2>3 DEF UseInv, Spared
<1>5. SweepInv /\ UseInv /\ [Next]_vars => UseInv'
  BY <1>2
<1>6. SweepInv /\ UseInv /\ [Next]_vars =>
        [\A w \in Trees :
           /\ Removed(w) =>
                /\ tree[w].ignored # None /\ Precious(tree[w].ignored) => <<w, "ignored">> \in late
                /\ plan[w] = "owned" => <<w, "owner">> \in late
                /\ Spared(<<w, "tree">>) \/ "blind" \in item.passed
           /\ build[w] # "none" /\ build'[w] = "none" => Spared(<<w, "build">>) \/ cwds = None]_vars
  BY <1>3, <1>4
<1> QED
  BY <1>1, <1>5, <1>6, SweepInvariant, PTL DEF Spec, NothingInUseGoes
=============================================================================
