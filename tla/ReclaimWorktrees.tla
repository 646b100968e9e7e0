---------------------------- MODULE ReclaimWorktrees ----------------------------
(***************************************************************************)
(* The sweep of merged work, scripts/reclaim-merged-worktrees.sh: it asks  *)
(* GitHub which pull requests have merged, and for each worktree and each  *)
(* other branch whose tip is in one of them it removes the worktree, the   *)
(* build directory, the local and the remote branch, and files the plan.   *)
(*                                                                         *)
(* Each command that reads or changes something outside the script is a    *)
(* step; people, agents and GitHub go on between any two of them, and the  *)
(* sweep may be killed and run again.  Classifying is a step too: but for  *)
(* the stash list, what it reads does not change.                          *)
(***************************************************************************)
EXTENDS Naturals, FiniteSets

CONSTANTS
    Branches,            \* the local branches a sweep may touch
    Trees, Main,         \* worktree paths; the main worktree is one of them
    Commits, History,    \* a commit's ancestors, itself included
    Forks,               \* remotes that point at a fork of the user's own
    Entries,             \* the ignored files and directories a tree may hold
    Options,             \* --apply, --allow-fork, and all branches or --branch's one
    Repos,               \* the states of the repository a sweep may find
    None,                \* no commit, branch, tree or entry; a file not yet read
    MaxChanges           \* bound of what others do

Remotes == {"origin"} \cup Forks
Rows == [branch : Branches, oid : Commits, base : {"default", "other"}, from : Remotes \cup {"stranger"}]
Dirs == Trees \X {"tree", "build"}     \* where a process may have its cwd
Files == [branch : Branches \cup {None}, there : BOOLEAN, dirty : BOOLEAN, locked : BOOLEAN,
          ignored : Entries \cup {None}]

(* A repository, its pull requests, and what others may have left around it. *)
RepoOK(refs_, merged_, open_, stashed_, tree_, plan_, build_, busy_) ==
    /\ refs_ \in [{"local"} \cup Remotes -> [Branches -> Commits \cup {None}]]
    /\ merged_ \subseteq Rows /\ open_ \subseteq Branches /\ stashed_ \subseteq Branches
    /\ tree_ \in [Trees -> Files]
    /\ plan_ \in [Trees -> {"none", "quiet", "owned", "archived"}]
    /\ build_ \in [Trees -> {"none", "refused", "good"}]
    /\ busy_ \subseteq Dirs

ASSUME ReclaimAssumption ==
    /\ Main \in Trees /\ {"local", "origin"} \cap Forks = {}
    /\ \A c \in Commits : c \in History[c] /\ \A a \in History[c] : History[a] \subseteq History[c]
    /\ \A e \in Entries : e.secretInside => ~(e.plan \/ e.declared \/ e.within)  \* not a file or link
    /\ None \notin Branches \cup Trees \cup Commits \cup Entries \cup Forks
    /\ \A D \in SUBSET Dirs : D # None
    /\ \A r \in Repos : RepoOK(r.refs, r.merged, r.open, r.stashed, r.tree, r.plan, r.build, r.busy)
    /\ Options \subseteq [apply : BOOLEAN, allowFork : BOOLEAN, only : {Branches} \cup {{b} : b \in Branches}]
    /\ MaxChanges \in Nat

VARIABLES
    refs,                \* the tip of each branch, here ("local") and on the remotes
    merged, open,        \* GitHub: the rows of merged PRs; heads and bases of open ones
    stashed,             \* branches with a stash entry
    tree, plan, build,   \* per worktree: its files, its plan, the plan's build dir
    busy,                \* the directories that are some process's cwd
    opts, snap,          \* the sweep's options and what it listed at its start
    todo, pc, item,      \* the items left, the next step, the item in hand
    cwds,                \* $TMP/cwds
    made, late, changes  \* history: every commit made; what came after its check

world == <<refs, merged, open, stashed, tree, plan, build, busy, made, late, changes>>
disk == <<tree, plan, build, busy>>
sweep == <<opts, snap, todo, pc, item, cwds>>
vars == <<world, sweep>>

Items == [tree : Trees \cup {None}, branch : Branches \cup {None}, tip : Commits \cup {None},
          found : BOOLEAN, fork : Forks \cup {None}, oids : SUBSET Commits, sha : Commits \cup {None},
          passed : SUBSET {"status", "ignored", "cwd", "blind", "owner"}]
Snaps == [merged : SUBSET Rows, open : SUBSET Branches, plans : SUBSET Trees,
          head : [Trees -> Branches \cup {None}], locked : SUBSET Trees]

NoItem == [tree |-> None, branch |-> None, tip |-> None, found |-> FALSE,
           fork |-> None, oids |-> {}, sha |-> None, passed |-> {}]
NoSnap == [merged |-> {}, open |-> {}, plans |-> {}, head |-> [w \in Trees |-> None], locked |-> {}]

Labels == {"merged", "open", "list", "trees", "branches", "classify", "status", "ignored", "cwd", "owner",
           "check", "remove", "build", "rm", "checkedout", "local", "look", "push", "archive", "done"}

TypeOK ==
    /\ RepoOK(refs, merged, open, stashed, tree, plan, build, busy)
    /\ cwds \in {None} \cup SUBSET Dirs
    /\ opts \in Options /\ snap \in Snaps /\ snap.merged \subseteq merged
    /\ pc \in Labels /\ item \in Items /\ todo \subseteq Trees \cup Branches
    /\ pc \in {"status", "ignored", "cwd", "owner", "check", "remove", "build", "rm"} => item.tree \in Trees \ {Main}
    /\ pc \in {"remove", "build", "rm", "checkedout", "local", "look", "push"} => opts.apply /\ item.tip \in Commits
    /\ pc = "push" => item.sha \in Commits

Start(r) ==
    /\ refs = r.refs /\ merged = r.merged /\ open = r.open /\ stashed = r.stashed
    /\ tree = r.tree /\ plan = r.plan /\ build = r.build /\ busy = r.busy
    /\ made = {r.refs[p][b] : p \in DOMAIN r.refs, b \in Branches} \ {None}

Init ==
    /\ \E r \in Repos : Start(r)
    /\ opts \in Options /\ snap = NoSnap /\ todo = {} /\ pc = "merged" /\ item = NoItem /\ cwds = None
    /\ late = {} /\ changes = 0

Goto(label) == pc' = label

(* The item is finished, or blocked, skipped or left to the user.            *)
NextItem == Goto(IF item.tree = None THEN "branches" ELSE "trees") /\ item' = NoItem

-----------------------------------------------------------------------------
(* The start: plan files, merged PRs, open PRs, worktrees.                   *)

ListMerged ==
    /\ pc = "merged"
    /\ snap' = [snap EXCEPT !.plans = {w \in Trees : plan[w] \in {"quiet", "owned"}},
                            !.merged = {r \in merged : r.branch \in opts.only}]
    /\ Goto("open")
    /\ UNCHANGED <<world, opts, todo, item, cwds>>

ListOpen ==
    /\ pc = "open"
    /\ snap' = [snap EXCEPT !.open = open \cap opts.only]
    /\ Goto("list")
    /\ UNCHANGED <<world, opts, todo, item, cwds>>

ListTrees ==
    /\ pc = "list"
    /\ LET head == [w \in Trees |-> IF tree[w].there THEN tree[w].branch ELSE None]
       IN  /\ snap' = [snap EXCEPT !.head = head, !.locked = {w \in Trees : tree[w].locked}]
           /\ todo' = {w \in Trees \ {Main} : head[w] \in opts.only}
    /\ Goto("trees")
    /\ UNCHANGED <<world, opts, item, cwds>>

(* gh or git failed, or gh filled its page.                                  *)
Abort ==
    /\ pc \in {"merged", "open", "list"}
    /\ Goto("done")
    /\ UNCHANGED <<world, opts, snap, todo, item, cwds>>

(* The branches that no worktree had checked out, once the trees are done.   *)
ListBranches ==
    /\ pc = "trees" /\ todo = {}
    /\ todo' = {b \in opts.only : /\ refs["local"][b] # None
                                  /\ \A w \in Trees : snap.head[w] # b
                                  /\ \E r \in snap.merged : r.branch = b}
    /\ Goto("branches")
    /\ UNCHANGED <<world, opts, snap, item, cwds>>

Finish ==
    /\ pc = "branches" /\ todo = {}
    /\ Goto("done")
    /\ UNCHANGED <<world, opts, snap, todo, item, cwds>>

(* The next item, with the tip of its branch.                                *)
Take ==
    /\ pc \in {"trees", "branches"}
    /\ \E i \in todo :
         LET b == IF pc = "trees" THEN snap.head[i] ELSE i
         IN  /\ todo' = todo \ {i}
             /\ IF refs["local"][b] = None \/ (pc = "trees" /\ ~tree[i].there)
                  THEN UNCHANGED <<item, pc>>
                  ELSE /\ item' = [NoItem EXCEPT !.tree = IF pc = "trees" THEN i ELSE None,
                                                 !.branch = b, !.tip = refs["local"][b]]
                       /\ Goto("classify")
    /\ UNCHANGED <<world, opts, snap, cwds>>

-----------------------------------------------------------------------------
(* classify *)

\* Mutant: one PR that merged into the default branch is enough.
OnDefaultAnywhere(hits, rows) == \E r \in rows : r.base = "default"

(* The PRs that hold the tip must include one into the default branch.       *)
OnDefault(hits, rows) == \E r \in hits : r.base = "default"

(* The remote the branch belongs to and the merged heads it may be at: the   *)
(* repository's own PRs come first, a fork's only when none of them matches. *)
Verdicts(have) ==
    LET rows == {r \in snap.merged : r.branch = item.branch /\ r \in have}
        From(p) == {r \in rows : r.from = p}
        Hits(p) == {r \in From(p) : item.tip \in History[r.oid]}
        Owners == IF Hits("origin") # {} THEN {"origin"}
                  ELSE IF opts.allowFork THEN {f \in Forks : Hits(f) # {}} ELSE {}
    IN  {[fork |-> IF p = "origin" THEN None ELSE p, oids |-> {r.oid : r \in From(p)}] :
            p \in {q \in Owners : OnDefault(Hits(q), rows) /\ (q # "origin" => item.branch \notin stashed)}}

(* A head that is not in the repository yet may fail to be fetched.  Which   *)
(* of two matching forks comes first is gh's choice.                         *)
Classify ==
    /\ pc = "classify"
    /\ \E have \in SUBSET snap.merged :
         /\ \A r \in snap.merged : r.oid \in History[item.tip] => r \in have
         /\ IF item.branch \in snap.open \/ Verdicts(have) = {}
              THEN NextItem
              ELSE \E v \in Verdicts(have) :
                     /\ item' = [item EXCEPT !.fork = v.fork, !.oids = v.oids,
                                             !.found = item.tree \in snap.plans /\ plan[item.tree] # "archived"]
                     /\ IF item.tree # None THEN Goto("status")
                        ELSE IF opts.apply THEN Goto("checkedout")
                        ELSE Goto("branches")
    /\ UNCHANGED <<world, opts, snap, todo, cwds>>

-----------------------------------------------------------------------------
(* gate *)

Pass(check, label) == item' = [item EXCEPT !.passed = @ \cup {check}] /\ Goto(label)

GateStatus ==
    /\ pc = "status"
    /\ IF item.tree \in snap.locked \/ tree[item.tree].dirty \/ ~tree[item.tree].there
         THEN NextItem ELSE Pass("status", "ignored")
    /\ UNCHANGED <<world, opts, snap, todo, cwds>>

\* Mutant: what lies inside an ignored build directory is not looked at.
HarmlessOutside(e) ==
    /\ e.name # "secret"
    /\ \/ e.name = "plan.md" /\ e.plan
       \/ e.name # "plan.md" /\ (e.declared \/ e.within \/ e.built)

(* The ignored file or directory may go with the worktree.                   *)
Harmless(e) ==
    /\ e.name # "secret"
    /\ \/ e.name = "plan.md" /\ e.plan          \* a link to a known plan file
       \/ /\ e.name # "plan.md"
          /\ \/ e.declared                      \* a plain file named in the declarations
             \/ e.within                        \* a link into the tree's own build output
             \/ e.built /\ ~e.secretInside      \* at or below a build output directory

GateIgnored ==
    /\ pc = "ignored"
    /\ LET e == tree[item.tree].ignored
       IN  IF e # None /\ ~Harmless(e) THEN NextItem ELSE Pass("ignored", "cwd")
    /\ UNCHANGED <<world, opts, snap, todo, cwds>>

(* lsof is asked once and its answer kept.                                   *)
GateCwd ==
    /\ pc = "cwd"
    /\ cwds' = IF cwds = None THEN busy ELSE cwds
    /\ IF <<item.tree, "tree">> \in cwds' THEN NextItem ELSE Pass("cwd", "owner")
    /\ UNCHANGED <<world, opts, snap, todo>>

(* lsof reports nothing: die ends the command substitution only.  awk is     *)
(* left without a file, reads the rest of the worktree list from stdin and   *)
(* finds no cwd there.                                                       *)
GateCwdBlind ==
    /\ pc = "cwd" /\ cwds = None
    /\ todo' = {}
    /\ Pass("blind", "owner")
    /\ UNCHANGED <<world, opts, snap, cwds>>

(* The plan's owner is alive.                                                *)
GateOwner ==
    /\ pc = "owner"
    /\ IF item.found /\ plan[item.tree] = "owned" THEN NextItem ELSE Pass("owner", "check")
    /\ UNCHANGED <<world, opts, snap, todo, cwds>>

-----------------------------------------------------------------------------
(* process_worktree and delete_refs *)

(* check_build_dir of the plan's build directory asks lsof unless it refuses *)
(* the directory before; it goes on without an answer.                       *)
AskLsof ==
    cwds' \in IF cwds = None /\ item.found /\ build[item.tree] # "none" THEN {busy, None} ELSE {cwds}

\* Mutant: a report goes on to remove.
CheckBuildAlways ==
    /\ pc = "check"
    /\ AskLsof
    /\ Goto("remove") /\ UNCHANGED item
    /\ UNCHANGED <<world, opts, snap, todo>>

(* A first check_build_dir only words the report; a report ends here.        *)
CheckBuild ==
    /\ pc = "check"
    /\ AskLsof
    /\ IF opts.apply THEN Goto("remove") /\ UNCHANGED item ELSE NextItem
    /\ UNCHANGED <<world, opts, snap, todo>>

(* git refuses a locked tree and one with changes, not one with ignored      *)
(* files.                                                                    *)
RemoveTree ==
    /\ pc = "remove"
    /\ LET t == tree[item.tree]
       IN  IF ~t.there \/ t.dirty \/ t.locked
             THEN NextItem /\ UNCHANGED tree
             ELSE /\ tree' = [tree EXCEPT ![item.tree] = [t EXCEPT !.there = FALSE, !.branch = None, !.ignored = None]]
                  /\ Goto("build") /\ UNCHANGED item
    /\ UNCHANGED <<refs, merged, open, stashed, plan, build, busy, made, late, changes, opts, snap, todo, cwds>>

\* Mutant: what the first check_build_dir said is not looked at again.
RecheckNothing ==
    /\ pc = "build"
    /\ UNCHANGED cwds
    /\ Goto(IF item.found /\ build[item.tree] = "good" THEN "rm" ELSE "checkedout")
    /\ UNCHANGED <<world, opts, snap, todo, item>>

(* check_build_dir once more; "refused" is every reason it has but a process *)
(* inside.                                                                   *)
RecheckBuild ==
    /\ pc = "build"
    /\ AskLsof
    /\ Goto(IF item.found /\ build[item.tree] = "good" /\ ~(cwds' # None /\ <<item.tree, "build">> \in cwds')
              THEN "rm" ELSE "checkedout")
    /\ UNCHANGED <<world, opts, snap, todo, item>>

(* rm -rf, which may fail.                                                   *)
RemoveBuild ==
    /\ pc = "rm"
    /\ build' \in {build, [build EXCEPT ![item.tree] = "none"]}
    /\ Goto("checkedout")
    /\ UNCHANGED <<refs, merged, open, stashed, tree, plan, busy, made, late, changes, opts, snap, todo, item, cwds>>

\* Mutant: the remote branch is looked for before the local one is deleted.
CheckedOutThenLook ==
    /\ pc = "checkedout"
    /\ Goto("look")
    /\ UNCHANGED <<world, opts, snap, todo, item, cwds>>

(* git worktree list into grep, under pipefail: when git fails, also because *)
(* grep has left, the branch counts as checked out nowhere.                  *)
CheckedOut ==
    /\ pc = "checkedout"
    /\ \/ Goto("local") /\ UNCHANGED item
       \/ (\E w \in Trees : tree[w].there /\ tree[w].branch = item.branch) /\ NextItem
    /\ UNCHANGED <<world, opts, snap, todo, cwds>>

(* git update-ref -d with the tip that was classified.                       *)
DeleteLocal ==
    /\ pc = "local"
    /\ IF refs["local"][item.branch] = item.tip
         THEN refs' = [refs EXCEPT !["local"][item.branch] = None] /\ Goto("look") /\ UNCHANGED item
         ELSE NextItem /\ UNCHANGED refs
    /\ UNCHANGED <<merged, open, stashed, disk, made, late, changes, opts, snap, todo, cwds>>

\* Mutant: a fork's branch is looked for on origin as well.
RemoteOfOrigin == "origin"

RemoteOf == IF item.fork = None THEN "origin" ELSE item.fork

(* ls-remote, fetch, and the merged heads; gone, ahead or unreadable: kept.  *)
Look ==
    /\ pc = "look"
    /\ LET sha == refs[RemoteOf][item.branch]
       IN  \/ /\ sha # None /\ \E oid \in item.oids : sha \in History[oid]
              /\ item' = [item EXCEPT !.sha = sha] /\ Goto("push")
           \/ Goto("archive") /\ UNCHANGED item
    /\ UNCHANGED <<world, opts, snap, todo, cwds>>

\* Mutant: the remote branch is deleted without a lease.
PushNoLease ==
    /\ pc = "push"
    /\ refs' = [refs EXCEPT ![RemoteOf][item.branch] = None]
    /\ Goto("archive")
    /\ UNCHANGED <<merged, open, stashed, disk, made, late, changes, opts, snap, todo, item, cwds>>

(* The push may fail whatever the lease says; it is not tried again.         *)
Push ==
    /\ pc = "push"
    /\ \/ refs[RemoteOf][item.branch] = item.sha /\ refs' = [refs EXCEPT ![RemoteOf][item.branch] = None]
       \/ UNCHANGED refs
    /\ Goto("archive")
    /\ UNCHANGED <<merged, open, stashed, disk, made, late, changes, opts, snap, todo, item, cwds>>

Archive ==
    /\ pc = "archive"
    /\ plan' = IF item.found THEN [plan EXCEPT ![item.tree] = "archived"] ELSE plan
    /\ NextItem
    /\ UNCHANGED <<refs, merged, open, stashed, tree, build, busy, made, late, changes, opts, snap, todo, cwds>>

(* Killed at any step, or done: the next sweep starts from nothing.          *)
Again ==
    /\ opts' \in Options /\ snap' = NoSnap /\ todo' = {} /\ item' = NoItem /\ cwds' = None
    /\ Goto("merged")
    /\ late' = {}
    /\ UNCHANGED <<refs, merged, open, stashed, disk, made, changes>>

-----------------------------------------------------------------------------
(* What others do *)

Change == changes < MaxChanges /\ changes' = changes + 1 /\ UNCHANGED sweep

(* A commit on top of a branch, here or by a push to a remote.               *)
Commit(p, b) ==
    /\ Change
    /\ refs[p][b] # None
    /\ \E c \in Commits \ made :
         /\ refs[p][b] \in History[c]
         /\ refs' = [refs EXCEPT ![p][b] = c] /\ made' = made \cup {c}
    /\ UNCHANGED <<merged, open, stashed, disk, late>>

(* The local branch is pushed, fast-forward.                                 *)
Publish(p, b) ==
    /\ Change
    /\ refs["local"][b] \notin {None, refs[p][b]}
    /\ refs[p][b] = None \/ refs[p][b] \in History[refs["local"][b]]
    /\ refs' = [refs EXCEPT ![p][b] = refs["local"][b]]
    /\ UNCHANGED <<merged, open, stashed, disk, made, late>>

Merge(p, b) ==
    /\ Change
    /\ refs[p][b] # None
    /\ \E base \in {"default", "other"} :
         merged' = merged \cup {[branch |-> b, oid |-> refs[p][b], base |-> base, from |-> p]}
    /\ UNCHANGED <<refs, open, stashed, disk, made, late>>

OpenPR(b) ==
    /\ Change
    /\ open' = open \cup {b}
    /\ UNCHANGED <<refs, merged, stashed, disk, made, late>>

Stash(b) ==
    /\ Change
    /\ stashed' = stashed \cup {b}
    /\ UNCHANGED <<refs, merged, open, disk, made, late>>

(* git worktree add or git switch: a branch is in one worktree at most.      *)
Checkout(w, b) ==
    /\ Change
    /\ refs["local"][b] # None /\ \A v \in Trees : tree[v].branch # b
    /\ tree' = [tree EXCEPT ![w].there = TRUE, ![w].branch = b]
    /\ UNCHANGED <<refs, merged, open, stashed, plan, build, busy, made, late>>

Edit(w) ==
    /\ Change
    /\ tree[w].there
    /\ tree' = [tree EXCEPT ![w].dirty = TRUE]
    /\ UNCHANGED <<refs, merged, open, stashed, plan, build, busy, made, late>>

(* What appears after the sweep has checked for it is late.                  *)
Passed(w, check) == item.tree = w /\ check \in item.passed

Drop(w, e) ==
    /\ Change
    /\ tree[w].there
    /\ tree' = [tree EXCEPT ![w].ignored = e]
    /\ late' = IF Passed(w, "ignored") THEN late \cup {<<w, "ignored">>} ELSE late
    /\ UNCHANGED <<refs, merged, open, stashed, plan, build, busy, made>>

Enter(d) ==
    /\ Change
    /\ d[2] = "tree" => tree[d[1]].there
    /\ d[2] = "build" => build[d[1]] # "none"
    /\ busy' = busy \cup {d}
    /\ late' = IF cwds # None THEN late \cup {d} ELSE late
    /\ UNCHANGED <<refs, merged, open, stashed, tree, plan, build, made>>

Claim(w) ==
    /\ Change
    /\ plan[w] # "archived" /\ plan' = [plan EXCEPT ![w] = "owned"]
    /\ late' = IF Passed(w, "owner") \/ (pc # "merged" /\ w \notin snap.plans) THEN late \cup {<<w, "owner">>} ELSE late
    /\ UNCHANGED <<refs, merged, open, stashed, tree, build, busy, made>>

-----------------------------------------------------------------------------
Sweep ==
    \/ ListMerged \/ ListOpen \/ ListTrees \/ Abort \/ Take \/ ListBranches \/ Finish
    \/ Classify
    \/ GateStatus \/ GateIgnored \/ GateCwd \/ GateCwdBlind \/ GateOwner
    \/ CheckBuild \/ RemoveTree \/ RecheckBuild \/ RemoveBuild
    \/ CheckedOut \/ DeleteLocal \/ Look \/ Push \/ Archive

Others ==
    \/ \E b \in Branches :
         \/ \E p \in {"local"} \cup Remotes : Commit(p, b)
         \/ \E p \in Remotes : Publish(p, b) \/ Merge(p, b)
         \/ OpenPR(b) \/ Stash(b)
         \/ \E w \in Trees : Checkout(w, b)
    \/ \E w \in Trees \ {Main} :
         \/ Edit(w) \/ Claim(w)
         \/ \E e \in Entries : Drop(w, e)
    \/ \E d \in Dirs : Enter(d)

Next == Sweep \/ Again \/ Others

Spec == Init /\ [][Next]_vars

-----------------------------------------------------------------------------
(* Properties *)

(* No work is lost: whatever others push or commit between the sweep's       *)
(* reads and its deletions, every commit is still below a branch somewhere   *)
(* or below the head of a merged PR (delete_refs, delete_fork_remote).       *)
NoCommitLost ==
    LET tips == ({refs[p][b] : p \in DOMAIN refs, b \in Branches} \cup {r.oid : r \in merged}) \ {None}
    IN  \A c \in made : \E t \in tips : c \in History[t]

Deleted(p, b) == refs[p][b] # None /\ refs'[p][b] = None

(* A local branch goes only when the very tip that goes is part of a PR of   *)
(* that name into the default branch, from this repository or, on request,   *)
(* from a fork of the user's own, with no PR open when the sweep started     *)
(* (classify).                                                               *)
LocalGoesWhenMerged ==
    [][\A b \in Branches : Deleted("local", b) =>
         /\ b \notin snap.open
         /\ \E r \in merged :
              /\ r.branch = b /\ refs["local"][b] \in History[r.oid] /\ r.base = "default"
              /\ r.from = "origin" \/ (opts.allowFork /\ r.from \in Forks)]_vars

(* A remote branch goes only at or below the head of a merged PR from that   *)
(* same remote, and when the local branch has gone: a fork's PR never costs  *)
(* origin its branch, and a kill in between leaves the remote one            *)
(* (delete_refs, remote_state, delete_fork_remote).                          *)
RemoteGoesWhenMerged ==
    [][\A p \in Remotes : \A b \in Branches : Deleted(p, b) =>
         /\ refs["local"][b] = None
         /\ \E r \in merged : r.branch = b /\ r.from = p /\ refs[p][b] \in History[r.oid]]_vars

(* What nobody could restore: a secret, or anything that is neither build    *)
(* output, nor declared, nor a link to a known plan.                         *)
Precious(e) ==
    \/ e.name = "secret" \/ e.secretInside
    \/ ~(e.plan \/ e.declared \/ e.within \/ e.built)

Removed(w) == tree[w].there /\ ~tree'[w].there

(* What lsof's one answer showed free may have been entered since.           *)
Spared(d) == d \notin busy \/ d \in late

(* A worktree goes with a precious ignored file or a plan owned by a live    *)
(* session only when those came after its gate had looked for them (or the   *)
(* plan, after the list of plans).  It goes with a process inside, and a     *)
(* build directory likewise, only when the process came in after the one     *)
(* answer of lsof, which is kept for the whole sweep, or when the check      *)
(* itself got no answer (gate, check_build_dir).                             *)
NothingInUseGoes ==
    [][\A w \in Trees :
         /\ Removed(w) =>
              /\ tree[w].ignored # None /\ Precious(tree[w].ignored) => <<w, "ignored">> \in late
              /\ plan[w] = "owned" => <<w, "owner">> \in late
              /\ Spared(<<w, "tree">>) \/ "blind" \in item.passed
         /\ build[w] # "none" /\ build'[w] = "none" => Spared(<<w, "build">>) \/ cwds = None]_vars

(* No worktree is removed after an lsof that reported nothing to its gate:   *)
(* the script's fail-closed abort (lines 13, 38 and 385).                    *)
LsofFailureAborts == [][\A w \in Trees : Removed(w) => "blind" \notin item.passed]_vars
=============================================================================
