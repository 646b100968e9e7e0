-------------------------- MODULE MCReclaimWorktrees --------------------------
(* Instances of ReclaimWorktrees for TLC: worktree w1 on b1 and w2 on b2,    *)
(* one fork, and commits c2 on c1, c3 on c2, c4 on c1.  b2 is merged and w2  *)
(* is clean; the repositories a sweep may find vary b1 and w1.               *)
EXTENDS ReclaimWorktrees, TLC

CONSTANTS b1, b2, main, w1, w2, fork, c1, c2, c3, c4

Ancestors == (c1 :> {c1}) @@ (c2 :> {c1, c2}) @@ (c3 :> {c1, c2, c3}) @@ (c4 :> {c1, c4})

Entry(name, fact) ==
    [name |-> name] @@ (fact :> TRUE) @@
    [f \in {"plan", "declared", "within", "built", "secretInside"} |-> FALSE]

\* One entry for each branch of gate.
SomeEntries ==
    {Entry("secret", "built"), Entry("plan.md", "plan"), Entry("plan.md", "within"), Entry("notes", "secretInside"),
     Entry("out", "declared"), Entry("out", "within"), Entry("dist", "built"),
     [Entry("dist", "built") EXCEPT !.secretInside = TRUE]}

Row(oid, base, from) == [branch |-> b1, oid |-> oid, base |-> base, from |-> from]

Clean(b) == [branch |-> b, there |-> TRUE, dirty |-> FALSE, locked |-> FALSE, ignored |-> None]

Repo(local, origin, forked, rows, t1) ==
    [refs |-> [p \in {"local", "origin", fork} |->
                 IF p = "local" THEN b1 :> local @@ b2 :> c1
                 ELSE IF p = "origin" THEN b1 :> origin @@ b2 :> c1 ELSE b1 :> forked @@ b2 :> None],
     merged |-> rows \cup {[Row(c1, "default", "origin") EXCEPT !.branch = b2]},
     open |-> {}, stashed |-> {},
     tree |-> main :> Clean(None) @@ w1 :> t1 @@ w2 :> Clean(b2),
     plan |-> [w \in {main, w1, w2} |-> "none"], build |-> [w \in {main, w1, w2} |-> "none"], busy |-> {}]

Merged == Repo(c2, c2, None, {Row(c2, "default", "origin")}, Clean(b1))
NoTree == [Clean(None) EXCEPT !.there = FALSE]

\* Tips at, behind and beside merged heads, into either base, from anywhere.
SomeHistories ==
    {Repo(local, remotes[1], remotes[2], rows, t1) :
        local \in {c1, c2, c4}, remotes \in {<<None, c2>>, <<c2, c2>>},
        rows \in {{Row(c2, "default", "origin")}, {Row(c1, "default", "origin"), Row(c2, "other", "origin")},
                  {Row(c2, "default", fork)}, {Row(c2, "other", "origin"), Row(c2, "default", fork)},
                  {Row(c2, "default", "stranger")}},
        t1 \in {Clean(b1), NoTree}}

\* Everything the gate looks for, in the worktree of a merged branch.
SomeTrees ==
    {[Merged EXCEPT !.tree[w1].ignored = e] : e \in SomeEntries}
        \cup {[Merged EXCEPT !.tree[w1].dirty = TRUE], [Merged EXCEPT !.tree[w1].locked = TRUE],
              [Merged EXCEPT !.open = {b1}]}
        \cup {[Merged EXCEPT !.plan[w1] = p, !.build[w1] = b, !.busy = d] :
                p \in {"quiet", "owned"}, b \in {"refused", "good"}, d \in {{}} \cup {{<<w1, x>>} : x \in {"tree", "build"}}}

AllRepos == SomeHistories \cup SomeTrees
OneInUse == {[Merged EXCEPT !.busy = {<<w1, "tree">>}]}

Flags(apply, allowFork, only) == [apply |-> apply, allowFork |-> allowFork, only |-> only]
SomeOptions == {Flags(TRUE, TRUE, Branches), Flags(TRUE, FALSE, {b1}), Flags(FALSE, TRUE, Branches)}
=============================================================================
