----------------------------- MODULE TarballPins -----------------------------
(***************************************************************************)
(* The daily update of a tarball lockfile (knife tarballs update and the   *)
(* update-tarballs action).  Every line of the lockfile, a major version,  *)
(* is resolved in turn against an upstream that publishes asset by asset   *)
(* while it is read: Temurin's four assets each name their release, and    *)
(* nodejs.org's index names a release whose checksums are another file.    *)
(* An asset is its release and the spin of it: upstream may publish the    *)
(* same release again with other bytes.                                    *)
(***************************************************************************)
EXTENDS Naturals, Sequences

CONSTANTS
    Lines,        \* the number of lines in the lockfile
    Assets,       \* archives of a line, in the order they are read
    MaxRelease,   \* bound: releases are 1, 2, ...
    MaxSpin,      \* bound: spins of a release
    MaxFaults     \* bound: failed requests and failed runs of bazel mod tidy

PinsAssumption ==
    /\ Lines \in Nat \ {0} /\ Assets \in Nat \ {0} /\ MaxFaults \in Nat
    /\ MaxRelease \in Nat \ {0} /\ MaxSpin \in Nat \ {0}

VARIABLES
    kind,         \* the lockfile's source
    upstream,     \* upstream[l][a]: the asset served now
    faults,
    pc,           \* "idle", "index", "asset", "write", "tidy", "gate"
    line, asset,  \* where the loops are
    release,      \* the release of the line, 0 before its first asset
    got,          \* the archives of the line so far
    lock,         \* the lockfile in memory
    head, tree,   \* of the commit checked out, and in the checkout
    main,         \* on the main branch
    pr            \* the open pull request's, or <<>>

world == <<kind, upstream>>
knife == <<pc, line, asset, release, got, lock>>
vars == <<world, faults, knife, head, tree, main, pr>>

Asset == [release : 1..MaxRelease, spin : 1..MaxSpin]
First == [release |-> 1, spin |-> 1]
FirstLock == [l \in 1..Lines |-> [a \in 1..Assets |-> First]]

-----------------------------------------------------------------------------
(* Upstream *)

\* The next release reaches one asset; the next but one only begins when this
\* one is out on all of them.
Publish(l, a) ==
    /\ LET next == upstream[l][a].release + 1
       IN  /\ next <= MaxRelease /\ \A b \in 1..Assets : upstream[l][b].release + 1 >= next
           /\ upstream' = [upstream EXCEPT ![l][a] = [release |-> next, spin |-> 1]]
    /\ UNCHANGED <<kind, faults, knife, head, tree, main, pr>>

\* The same release again with other bytes; bound: of the last line's last
\* asset, in the last release.
Respin ==
    /\ upstream[Lines][Assets].release = MaxRelease /\ upstream[Lines][Assets].spin < MaxSpin
    /\ upstream' = [upstream EXCEPT ![Lines][Assets].spin = @ + 1]
    /\ UNCHANGED <<kind, faults, knife, head, tree, main, pr>>

-----------------------------------------------------------------------------
(* knife tarballs update *)

Begin(l) ==
    /\ line' = l /\ asset' = 1 /\ release' = 0 /\ got' = <<>>
    /\ pc' = IF kind = "nodejs" THEN "index" ELSE "asset"

\* ReadLock and NewSource.
StartJob ==
    /\ pc = "idle"
    /\ head' = main /\ tree' = main /\ lock' = main
    /\ Begin(1)
    /\ UNCHANGED <<world, faults, main, pr>>

\* The job is over and its checkout gone.
EndJob ==
    /\ pc' = "idle" /\ line' = 1 /\ asset' = 1 /\ release' = 0 /\ got' = <<>>
    /\ lock' = main /\ head' = main /\ tree' = main

\* get: no answer within the minute, or another status than 200; Latest fails,
\* Update with it, and nothing has been written.
GetFails ==
    /\ pc \in {"index", "asset"} /\ faults < MaxFaults
    /\ faults' = faults + 1 /\ EndJob
    /\ UNCHANGED <<world, main, pr>>

\* NodeJS.Latest: the first entry on the line.  index.json is the first asset
\* to name a release.
ReadIndex ==
    /\ pc = "index"
    /\ release' = upstream[line][1].release /\ pc' = "asset"
    /\ UNCHANGED <<world, faults, line, asset, got, lock, head, tree, main, pr>>

\* Mutant: a line is replaced when its version differs.
ResolvedByVersion(archives) ==
    /\ lock' = IF archives[1].release = lock[line][1].release THEN lock
               ELSE [lock EXCEPT ![line] = archives]
    /\ IF line < Lines THEN Begin(line + 1)
       ELSE /\ pc' = IF lock' = tree THEN "gate" ELSE "write"
            /\ release' = 0 /\ got' = <<>> /\ UNCHANGED <<line, asset>>

\* Update: a line that changed is replaced as a whole; then the next line.
Resolved(archives) ==
    /\ lock' = [lock EXCEPT ![line] = archives]
    /\ IF line < Lines THEN Begin(line + 1)
       ELSE /\ pc' = IF lock' = tree THEN "gate" ELSE "write"
            /\ release' = 0 /\ got' = <<>> /\ UNCHANGED <<line, asset>>

\* shasums: the whole file at once; an archive of the release may be missing.
ReadSums ==
    /\ pc = "asset" /\ kind = "nodejs"
    /\ IF \A a \in 1..Assets : upstream[line][a].release >= release
       THEN /\ \E sums \in [1..Assets -> Asset] :
                /\ \A a \in 1..Assets :
                    /\ sums[a].release = release
                    /\ upstream[line][a].release = release => sums[a] = upstream[line][a]
                /\ Resolved(sums)
            /\ UNCHANGED <<head, tree>>
       ELSE EndJob
    /\ UNCHANGED <<world, faults, main, pr>>

\* Mutant: the release is only what the last asset said.
ReadAssetAny ==
    /\ pc = "asset" /\ kind = "temurin"
    /\ IF asset < Assets
       THEN /\ asset' = asset + 1 /\ release' = upstream[line][asset].release
            /\ got' = Append(got, upstream[line][asset])
            /\ UNCHANGED <<pc, line, lock>>
       ELSE Resolved(Append(got, upstream[line][asset]))
    /\ UNCHANGED <<world, faults, head, tree, main, pr>>

\* Temurin.Latest: one asset after the other; all must be of one release, and a
\* release that is still rolling out ends the job.
ReadAsset ==
    /\ pc = "asset" /\ kind = "temurin"
    /\ LET found == upstream[line][asset]
       IN  IF release \notin {0, found.release} THEN EndJob
           ELSE /\ IF asset < Assets
                   THEN /\ asset' = asset + 1 /\ release' = found.release
                        /\ got' = Append(got, found)
                        /\ UNCHANGED <<pc, line, lock>>
                   ELSE Resolved(Append(got, found))
                /\ UNCHANGED <<head, tree>>
    /\ UNCHANGED <<world, faults, main, pr>>

Write ==
    /\ pc = "write"
    /\ tree' = lock /\ pc' = "tidy"
    /\ UNCHANGED <<world, faults, line, asset, release, got, lock, head, main, pr>>

\* mod.Tidy; the lockfile is written when it fails, and the step fails with it.
Tidy(fails) ==
    /\ pc = "tidy"
    /\ IF fails THEN faults < MaxFaults /\ faults' = faults + 1 /\ EndJob
       ELSE /\ pc' = "gate"
            /\ UNCHANGED <<faults, line, asset, release, got, lock, head, tree>>
    /\ UNCHANGED <<world, main, pr>>

-----------------------------------------------------------------------------
(* The action *)

\* create-pull-request: the lines the job changed, on top of main as it is by now;
\* nothing is left to propose when main has them already.
Proposed ==
    LET lines == [l \in 1..Lines |-> IF tree[l] # head[l] THEN tree[l] ELSE main[l]]
    IN  IF lines = main THEN <<>> ELSE lines

\* git diff: a checkout without changes is left alone, and so is the pull
\* request of an earlier day; otherwise the branch is replaced.
Gate ==
    /\ pc = "gate"
    /\ pr' = IF tree # head THEN Proposed ELSE pr
    /\ EndJob
    /\ UNCHANGED <<world, faults, main>>

\* gh pr merge --auto: the image's tests passed.
Merge ==
    /\ pr # <<>>
    /\ main' = pr /\ pr' = <<>>
    /\ IF pc = "idle" THEN head' = pr /\ tree' = pr /\ lock' = pr ELSE UNCHANGED <<head, tree, lock>>
    /\ UNCHANGED <<world, faults, pc, line, asset, release, got>>

-----------------------------------------------------------------------------
Init ==
    /\ kind \in {"nodejs", "temurin"}
    /\ upstream = FirstLock /\ main = FirstLock /\ head = main /\ tree = main
    /\ lock = main /\ pr = <<>>
    /\ faults = 0
    /\ pc = "idle" /\ line = 1 /\ asset = 1 /\ release = 0 /\ got = <<>>

Rollout == \E l \in 1..Lines, a \in 1..Assets : Publish(l, a)
Job == StartJob \/ GetFails \/ ReadIndex \/ ReadSums \/ ReadAsset \/ Write \/ Gate
       \/ \E fails \in BOOLEAN : Tidy(fails)

Next == Rollout \/ Respin \/ Job \/ Merge

Spec == Init /\ [][Next]_vars

-----------------------------------------------------------------------------
\* "All four assets must belong to the same release": no line on main or in the
\* pull request mixes two, however upstream's rollout falls between the requests
\* (Temurin.Latest, NodeJS.Latest).
WholeRelease ==
    \A pinned \in {main, tree} \cup (IF pr = <<>> THEN {} ELSE {pr}) :
        \A l \in 1..Lines : \A a, b \in 1..Assets :
            pinned[l][a].release = pinned[l][b].release

\* What main should end with, once upstream is quiet.
PinsAreCurrent == main = upstream
=============================================================================
