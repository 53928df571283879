--------------------------- MODULE DeliveryProofs ---------------------------
(***************************************************************************)
(* Proofs about Delivery and the workflows it is made of: the rollout, for *)
(* any number of pushes and regions, the update of a tarball lockfile, for *)
(* any number of lines, assets, releases and spins, and the re-pin of the  *)
(* rpm lockfiles, for any repositories, architectures and revisions.  The  *)
(* update of the Debian lockfiles is in DebianUpdateProofs.                *)
(***************************************************************************)
EXTENDS Delivery, TLAPS

-----------------------------------------------------------------------------
(* The rollout of a service *)

\* max-parallel 1: a run has at most one leg inside a group.
OneLegAtATime ==
    \A r \in Runs, g, h \in Regions :
        /\ leg[r][g] \in {"waiting", "rolling"}
        /\ leg[r][h] \in {"waiting", "rolling"}
        => g = h

\* The latest run to enter a busy group is its pending entry, or runs in it.
LastIsInGroup ==
    \A g \in Regions :
        holder[g] # NoRun =>
            last[g] = IF waiting[g] # NoRun THEN waiting[g] ELSE holder[g]

\* The inductive invariant.
RolloutInv ==
    /\ TypeOK /\ RolloutsSerialised /\ FailureStopsRun
    /\ OneLegAtATime /\ LastIsInGroup /\ LastQueuedWins

\* The invariant holds before the first push.
LEMMA RolloutInit == Init => RolloutInv
  BY RolloutAssumption
  DEF Init, RolloutInv, TypeOK, RolloutsSerialised, FailureStopsRun,
      OneLegAtATime, LastIsInGroup, LastQueuedWins, Finished

\* Entering a group keeps the invariant: the evicted entry is never the latest.
LEMMA QueueStep ==
    ASSUME RolloutInv, NEW r \in Runs, NEW g \in Regions, Queue(r, g)
    PROVE  RolloutInv'
  <1> USE RolloutAssumption DEF RolloutInv, TypeOK, Queue, Turn, Finished
  <1>1. CASE holder[g] = NoRun
    <2> USE <1>1
    <2>1. TypeOK'
      OBVIOUS
    <2>2. RolloutsSerialised'
      BY DEF RolloutsSerialised
    <2>3. FailureStopsRun'
      BY DEF FailureStopsRun
    <2>4. OneLegAtATime'
      BY DEF OneLegAtATime
    <2>5. LastIsInGroup'
      BY DEF LastIsInGroup, RolloutsSerialised
    <2>6. LastQueuedWins'
      <3> SUFFICES ASSUME NEW h \in Regions,
                          holder'[h] = NoRun, last'[h] # NoRun
                   PROVE  live'[h] = last'[h] \/ leg'[last'[h]][h] = "failed"
        BY DEF LastQueuedWins
      <3>1. h # g
        BY DEF RolloutsSerialised
      <3>2. last'[h] = last[h] /\ last[h] \in Runs /\ holder[h] = NoRun
        BY <3>1
      <3>3. \A s \in Runs : leg'[s][h] = leg[s][h]
        BY <3>1
      <3> HIDE DEF RolloutInv, TypeOK, Queue, Turn
      <3>4. leg'[last[h]][h] = leg[last[h]][h]
        BY <3>2, <3>3
      <3>5. live' = live
        BY DEF Queue
      <3>6. LastQueuedWins
        BY DEF RolloutInv
      <3> QED
        BY <3>2, <3>4, <3>5, <3>6 DEF LastQueuedWins
    <2> QED BY <2>1, <2>2, <2>3, <2>4, <2>5, <2>6
  <1>2. CASE holder[g] # NoRun
    <2> USE <1>2
    <2>1. TypeOK'
      OBVIOUS
    <2>2. RolloutsSerialised'
      BY DEF RolloutsSerialised
    <2>3. FailureStopsRun'
      BY DEF FailureStopsRun, RolloutsSerialised
    <2>4. OneLegAtATime'
      BY DEF OneLegAtATime
    <2>5. LastIsInGroup'
      BY DEF LastIsInGroup
    <2>6. LastQueuedWins'
      <3> SUFFICES ASSUME NEW h \in Regions,
                          holder'[h] = NoRun, last'[h] # NoRun
                   PROVE  live'[h] = last'[h] \/ leg'[last'[h]][h] = "failed"
        BY DEF LastQueuedWins
      <3>1. h # g
        BY DEF RolloutsSerialised
      <3>2. last'[h] = last[h] /\ last[h] \in Runs /\ holder[h] = NoRun
        BY <3>1
      <3>3. \A s \in Runs : leg'[s][h] = leg[s][h]
        BY <3>1
      <3> HIDE DEF RolloutInv, TypeOK, Queue, Turn
      <3>4. leg'[last[h]][h] = leg[last[h]][h]
        BY <3>2, <3>3
      <3>5. live' = live
        BY DEF Queue
      <3>6. LastQueuedWins
        BY DEF RolloutInv
      <3> QED
        BY <3>2, <3>4, <3>5, <3>6 DEF LastQueuedWins
    <2> QED BY <2>1, <2>2, <2>3, <2>4, <2>5, <2>6
  <1> QED BY <1>1, <1>2

\* A replace that succeeds keeps the invariant.
LEMMA ReplaceStep ==
    ASSUME RolloutInv, NEW r \in Runs, NEW g \in Regions, Replace(r, g)
    PROVE  RolloutInv'
  <1> USE RolloutAssumption DEF RolloutInv, TypeOK, Replace, Leave, Finished
  <1>1. TypeOK'
    OBVIOUS
  <1>2. RolloutsSerialised'
    BY DEF RolloutsSerialised
  <1>3. FailureStopsRun'
    BY DEF FailureStopsRun, RolloutsSerialised
  <1>4. OneLegAtATime'
    BY DEF OneLegAtATime, RolloutsSerialised
  <1>5. LastIsInGroup'
    BY DEF LastIsInGroup, RolloutsSerialised
  <1>6. LastQueuedWins'
    BY DEF LastQueuedWins, LastIsInGroup, RolloutsSerialised
  <1> QED BY <1>1, <1>2, <1>3, <1>4, <1>5, <1>6

\* A rollout that fails keeps the invariant: its run has no other leg inside a
\* group, and fail-fast cancels those that have not entered one.
LEMMA FailStep ==
    ASSUME RolloutInv, NEW r \in Runs, NEW g \in Regions, RolloutFails(r, g)
    PROVE  RolloutInv'
  <1> USE RolloutAssumption DEF RolloutInv, TypeOK, RolloutFails, Leave, Finished
  <1>1. TypeOK'
    OBVIOUS
  <1>2. RolloutsSerialised'
    BY DEF RolloutsSerialised
  <1>3. FailureStopsRun'
    BY DEF FailureStopsRun, RolloutsSerialised, OneLegAtATime
  <1>4. OneLegAtATime'
    BY DEF OneLegAtATime, RolloutsSerialised
  <1>5. LastIsInGroup'
    BY DEF LastIsInGroup, RolloutsSerialised
  <1>6. LastQueuedWins'
    BY DEF LastQueuedWins, LastIsInGroup, RolloutsSerialised
  <1> QED BY <1>1, <1>2, <1>3, <1>4, <1>5, <1>6

\* Every step of every job keeps the invariant.
LEMMA RolloutStep == RolloutInv /\ [Next]_vars => RolloutInv'
  <1> SUFFICES ASSUME RolloutInv, [Next]_vars PROVE RolloutInv'
    OBVIOUS
  <1>1. CASE UNCHANGED vars
    BY <1>1 DEF vars, RolloutInv, TypeOK, RolloutsSerialised, FailureStopsRun,
                OneLegAtATime, LastIsInGroup, LastQueuedWins
  <1>2. ASSUME NEW r \in Runs, PushGar(r) \/ PushGarFails(r)
        PROVE  RolloutInv'
    BY <1>2 DEF PushGar, PushGarFails, RolloutInv, TypeOK, RolloutsSerialised,
                FailureStopsRun, OneLegAtATime, LastIsInGroup, LastQueuedWins
  <1> QED
    BY <1>1, <1>2, QueueStep, ReplaceStep, FailStep DEF Next

\* In every behaviour of the workflow, for any number of pushes and regions,
\* the invariant of the groups holds.
LEMMA RolloutInvariant == Spec => []RolloutInv
  BY RolloutInit, RolloutStep, PTL DEF Spec

\* Every variable keeps its type.
THEOREM RolloutTyped == Spec => []TypeOK
  <1>1. RolloutInv => TypeOK
    BY DEF RolloutInv
  <1> QED
    BY RolloutInvariant, <1>1, PTL

-----------------------------------------------------------------------------
(* The update of a tarball lockfile *)

Locks == [1..Lines -> [1..Assets -> Tarballs!Asset]]
Whole(pinned) ==
    \A l \in 1..Lines : \A a, b \in 1..Assets : pinned[l][a].release = pinned[l][b].release

PinsTyped ==
    /\ kind \in {"nodejs", "temurin"} /\ published \in Locks
    /\ line \in 1..Lines /\ asset \in 1..Assets
    /\ release \in Nat /\ got \in Seq(Tarballs!Asset)
    /\ lock \in Locks /\ head \in Locks /\ tree \in Locks /\ main \in Locks
    /\ pr # <<>> => pr \in Locks

\* Every lockfile there is holds whole releases, the one in memory included.
WholeInv ==
    /\ Whole(lock) /\ Whole(head) /\ Whole(tree) /\ Whole(main)
    /\ pr # <<>> => Whole(pr)

\* The archives read so far are of the release that the first one named; only
\* Node.js has an index.
GotInv ==
    /\ pc = "index" => kind = "nodejs"
    /\ pc = "asset" /\ kind = "temurin" =>
          /\ Len(got) = asset - 1
          /\ \A n \in 1..Len(got) : got[n].release = release /\ release # 0

\* The inductive invariant.
PinsInv == PinsTyped /\ WholeInv /\ GotInv

-----------------------------------------------------------------------------
\* The first lockfile is of one release (ReadLock).
LEMMA PinsInit ==
    ASSUME Tarballs!PinsAssumption, Tarballs!Init
    PROVE  PinsInv
  <1>1. Tarballs!First \in Tarballs!Asset /\ Tarballs!FirstLock \in Locks /\ Whole(Tarballs!FirstLock)
    BY DEF Tarballs!PinsAssumption, Tarballs!First, Tarballs!Asset, Tarballs!FirstLock, Locks, Whole
  <1>2. PinsTyped /\ WholeInv
    BY <1>1 DEF Tarballs!PinsAssumption, Tarballs!Init, PinsTyped, WholeInv
  <1>3. GotInv
    BY DEF Tarballs!Init, GotInv
  <1> QED
    BY <1>2, <1>3 DEF PinsInv

\* Upstream's own steps.
LEMMA PinsUpstream ==
    ASSUME Tarballs!PinsAssumption, PinsInv, Tarballs!Rollout \/ Tarballs!Respin
    PROVE  PinsInv'
  <1> USE DEF PinsInv
  <1>1. UNCHANGED <<kind, Tarballs!knife, head, tree, main, pr>>
    BY DEF Tarballs!Rollout, Tarballs!Publish, Tarballs!Respin
  <1>2. published' \in Locks
    <2>1. ASSUME NEW l \in 1..Lines, NEW a \in 1..Assets, Tarballs!Publish(l, a)
          PROVE  published' \in Locks
      <3> DEFINE next == published[l][a].release + 1
      <3>1. next <= MaxRelease
        BY <2>1 DEF Tarballs!Publish
      <3> published[l][a] \in Tarballs!Asset
        BY <2>1 DEF PinsTyped, Locks
      <3>2. next \in 1..MaxRelease /\ 1 \in 1..MaxSpin
        BY <3>1 DEF Tarballs!PinsAssumption, Tarballs!Asset
      <3>3. [release |-> next, spin |-> 1] \in Tarballs!Asset
        BY <3>2 DEF Tarballs!Asset
      <3>4. published' = [published EXCEPT ![l][a] = [release |-> next, spin |-> 1]]
        BY <2>1 DEF Tarballs!Publish
      <3> QED
        BY <3>3, <3>4 DEF PinsTyped, Locks
    <2>2. CASE Tarballs!Respin
      <3>1. /\ published' = [published EXCEPT ![Lines][Assets].spin = @ + 1]
            /\ published[Lines][Assets].spin < MaxSpin
        BY <2>2 DEF Tarballs!Respin
      <3>2. published[Lines][Assets] \in Tarballs!Asset /\ Lines \in 1..Lines /\ Assets \in 1..Assets
        BY DEF Tarballs!PinsAssumption, PinsTyped, Locks
      <3>3. [published[Lines][Assets] EXCEPT !.spin = @ + 1] \in Tarballs!Asset
        BY <3>1, <3>2 DEF Tarballs!PinsAssumption, Tarballs!Asset
      <3> QED
        BY <3>1, <3>2, <3>3 DEF PinsTyped, Locks
    <2> QED
      BY <2>1, <2>2 DEF Tarballs!Rollout
  <1>3. PinsTyped'
    BY <1>1, <1>2 DEF PinsTyped, Tarballs!knife
  <1>4. WholeInv' /\ GotInv'
    BY <1>1 DEF WholeInv, Whole, GotInv, Tarballs!knife
  <1> QED
    BY <1>3, <1>4

\* The end of a job leaves what main has.
LEMMA PinsEnd ==
    ASSUME Tarballs!PinsAssumption, PinsInv, Tarballs!EndJob, UNCHANGED <<Tarballs!world, main, pr>>
    PROVE  PinsInv'
  <1> USE DEF PinsInv, Tarballs!EndJob, Tarballs!world
  <1>1. PinsTyped'
    BY DEF PinsTyped, Tarballs!PinsAssumption
  <1>2. WholeInv' /\ GotInv'
    BY DEF WholeInv, Whole, GotInv
  <1> QED
    BY <1>1, <1>2

\* A line is replaced by archives of one release, and the next one begins.
LEMMA PinsResolved ==
    ASSUME Tarballs!PinsAssumption, PinsInv, NEW archives \in [1..Assets -> Tarballs!Asset],
           \A a, b \in 1..Assets : archives[a].release = archives[b].release,
           Tarballs!Resolved(archives), UNCHANGED <<Tarballs!world, head, tree, main, pr>>
    PROVE  PinsInv'
  <1> USE DEF PinsInv
  <1>1. lock' = [lock EXCEPT ![line] = archives] /\ lock' \in Locks
    BY DEF Tarballs!Resolved, PinsTyped, Locks
  <1>2. (Whole(lock))'
    BY <1>1 DEF PinsTyped, Locks, WholeInv, Whole
  <1>3. /\ line' \in 1..Lines /\ asset' \in 1..Assets /\ release' = 0 /\ got' = <<>>
        /\ pc' = "asset" => asset' = 1
        /\ pc' = "index" => kind = "nodejs"
    BY DEF Tarballs!Resolved, Tarballs!Begin, PinsTyped, Tarballs!PinsAssumption
  <1>4. PinsTyped'
    BY <1>1, <1>3 DEF PinsTyped, Tarballs!world
  <1>5. WholeInv'
    BY <1>2 DEF WholeInv, Whole, Tarballs!world
  <1>6. GotInv'
    BY <1>3 DEF GotInv, Tarballs!world
  <1> QED
    BY <1>4, <1>5, <1>6

\* One of Temurin's archives: another release ends the job (Temurin.Latest).
LEMMA PinsAsset ==
    ASSUME Tarballs!PinsAssumption, PinsInv, Tarballs!ReadAsset
    PROVE  PinsInv'
  <1> DEFINE found == published[line][asset]
             read == Append(got, found)
  <1> USE DEF PinsInv
  <1>1. pc = "asset" /\ kind = "temurin" /\ UNCHANGED <<Tarballs!world, main, pr>>
    BY DEF Tarballs!ReadAsset
  <1>2. found \in Tarballs!Asset /\ found.release \in Nat \ {0}
    <2>1. found \in Tarballs!Asset
      <3>1. /\ published \in [1..Lines -> [1..Assets -> Tarballs!Asset]]
            /\ line \in 1..Lines /\ asset \in 1..Assets
        BY DEF PinsTyped, Locks
      <3> QED
        BY <3>1
    <2> QED
      BY <2>1 DEF Tarballs!Asset, Tarballs!PinsAssumption
  <1>3. CASE Tarballs!EndJob
    BY <1>1, <1>3, PinsEnd
  <1>4. CASE release \in {0, found.release}
    <2>1. /\ read \in Seq(Tarballs!Asset) /\ Len(read) = asset
          /\ \A n \in 1..Len(read) : read[n].release = found.release
      BY <1>1, <1>2, <1>4 DEF PinsTyped, GotInv
    <2>2. UNCHANGED <<head, tree>>
      BY <1>4 DEF Tarballs!ReadAsset
    <2> HIDE DEF read
    <2>3. CASE asset < Assets
      <3>1. /\ asset' = asset + 1 /\ release' = found.release /\ got' = read
            /\ UNCHANGED <<pc, line, lock>>
        BY <1>4, <2>3 DEF Tarballs!ReadAsset, read
      <3>2. PinsTyped'
        BY <1>1, <1>2, <2>1, <2>2, <2>3, <3>1 DEF PinsTyped, Tarballs!world, Tarballs!PinsAssumption
      <3>3. WholeInv'
        BY <1>1, <2>2, <3>1 DEF WholeInv, Whole
      <3>4. GotInv'
        BY <1>1, <1>2, <2>1, <3>1 DEF GotInv, PinsTyped, Tarballs!world
      <3> QED
        BY <3>2, <3>3, <3>4
    <2>4. CASE ~(asset < Assets)
      <3>1. Tarballs!Resolved(read)
        BY <1>4, <2>4 DEF Tarballs!ReadAsset, read
      <3>2. read \in [1..Assets -> Tarballs!Asset]
        BY <2>1, <2>4 DEF PinsTyped, Tarballs!PinsAssumption
      <3>3. \A a, b \in 1..Assets : read[a].release = read[b].release
        BY <2>1, <2>4 DEF PinsTyped, Tarballs!PinsAssumption
      <3> QED
        BY <1>1, <2>2, <3>1, <3>2, <3>3, PinsResolved
    <2> QED
      BY <2>3, <2>4
  <1> QED
    BY <1>3, <1>4 DEF Tarballs!ReadAsset

\* The checksums of one release of Node.js, all at once (NodeJS.Latest).
LEMMA PinsSums ==
    ASSUME Tarballs!PinsAssumption, PinsInv, Tarballs!ReadSums
    PROVE  PinsInv'
  <1>1. UNCHANGED <<Tarballs!world, main, pr>>
    BY DEF Tarballs!ReadSums
  <1>2. CASE Tarballs!EndJob
    BY <1>1, <1>2, PinsEnd
  <1>3. ASSUME NEW sums \in [1..Assets -> Tarballs!Asset], \A a \in 1..Assets : sums[a].release = release,
               Tarballs!Resolved(sums), UNCHANGED <<head, tree>>
        PROVE  PinsInv'
    BY <1>1, <1>3, PinsResolved
  <1> QED
    BY <1>2, <1>3 DEF Tarballs!ReadSums

\* The other steps of a job.
LEMMA PinsJob ==
    ASSUME Tarballs!PinsAssumption, PinsInv,
           \/ Tarballs!StartJob \/ Tarballs!GetFails \/ Tarballs!ReadIndex \/ Tarballs!Write
           \/ \E fails \in BOOLEAN : Tarballs!Tidy(fails)
    PROVE  PinsInv'
  <1>1. CASE Tarballs!EndJob /\ UNCHANGED <<Tarballs!world, main, pr>>
    BY <1>1, PinsEnd
  <1>2. CASE Tarballs!StartJob
    <2> USE <1>2 DEF PinsInv, Tarballs!StartJob, Tarballs!Begin, Tarballs!world
    <2>1. PinsTyped'
      BY DEF PinsTyped, Tarballs!PinsAssumption
    <2>2. WholeInv' /\ GotInv'
      BY DEF WholeInv, Whole, GotInv
    <2> QED
      BY <2>1, <2>2
  <1>3. CASE Tarballs!ReadIndex
    <2> USE <1>3 DEF PinsInv, Tarballs!ReadIndex, Tarballs!world
    <2>1. published[line][1] \in Tarballs!Asset
      BY DEF PinsTyped, Locks, Tarballs!PinsAssumption
    <2>2. release' \in Nat /\ kind = "nodejs"
      BY <2>1 DEF Tarballs!Asset, Tarballs!PinsAssumption, GotInv
    <2>3. PinsTyped'
      BY <2>2 DEF PinsTyped
    <2>4. WholeInv' /\ GotInv'
      BY <2>2 DEF WholeInv, Whole, GotInv
    <2> QED
      BY <2>3, <2>4
  <1>4. CASE Tarballs!Write
    BY <1>4 DEF PinsInv, Tarballs!Write, Tarballs!world, PinsTyped, WholeInv, Whole, GotInv
  <1>5. ASSUME NEW fails \in BOOLEAN, Tarballs!Tidy(fails), ~Tarballs!EndJob
        PROVE  PinsInv'
    BY <1>5 DEF PinsInv, Tarballs!Tidy, Tarballs!world, PinsTyped, WholeInv, Whole, GotInv
  <1> QED
    BY <1>1, <1>2, <1>3, <1>4, <1>5 DEF Tarballs!GetFails, Tarballs!Tidy, Tarballs!world

\* The pull request takes lines from the checkout or from main, and main takes the
\* pull request (create-pull-request, gh pr merge).
LEMMA PinsPullRequest ==
    ASSUME Tarballs!PinsAssumption, PinsInv, Tarballs!Gate \/ Tarballs!Merge
    PROVE  PinsInv'
  <1> USE DEF PinsInv, Tarballs!world
  <1>1. CASE Tarballs!Gate
    <2>1. Tarballs!EndJob /\ UNCHANGED <<Tarballs!world, main>> /\ pr' \in {pr, Tarballs!Proposed}
      BY <1>1 DEF Tarballs!Gate
    <2>2. Tarballs!Proposed # <<>> => Tarballs!Proposed \in Locks /\ Whole(Tarballs!Proposed)
      BY DEF Tarballs!Proposed, Locks, PinsTyped, WholeInv, Whole
    <2>3. pr' # <<>> => pr' \in Locks /\ Whole(pr')
      BY <2>1, <2>2 DEF PinsTyped, WholeInv
    <2>4. PinsTyped'
      BY <2>1, <2>3 DEF PinsTyped, Tarballs!EndJob, Tarballs!PinsAssumption
    <2>5. WholeInv'
      BY <2>1, <2>3 DEF WholeInv, Whole, Tarballs!EndJob
    <2>6. GotInv'
      BY <2>1 DEF GotInv, Tarballs!EndJob
    <2> QED
      BY <2>4, <2>5, <2>6
  <1>2. CASE Tarballs!Merge
    <2> USE <1>2 DEF Tarballs!Merge
    <2>1. PinsTyped'
      BY DEF PinsTyped
    <2>2. WholeInv'
      BY DEF WholeInv, Whole
    <2>3. GotInv'
      BY DEF GotInv
    <2> QED
      BY <2>1, <2>2, <2>3
  <1> QED
    BY <1>1, <1>2

\* Every step keeps the invariant.
LEMMA PinsStep ==
    ASSUME Tarballs!PinsAssumption, PinsInv, [Tarballs!Next]_Tarballs!vars
    PROVE  PinsInv'
  <1>1. CASE UNCHANGED Tarballs!vars
    BY <1>1 DEF Tarballs!vars, Tarballs!world, Tarballs!knife, PinsInv, PinsTyped, WholeInv, Whole, GotInv
  <1>2. CASE Tarballs!Next
    BY <1>2, PinsUpstream, PinsAsset, PinsSums, PinsJob, PinsPullRequest DEF Tarballs!Next, Tarballs!Job
  <1> QED
    BY <1>1, <1>2

-----------------------------------------------------------------------------
(* The re-pin of the rpm lockfiles *)

Fetching == {"repomd", "asc", "primary"}
RpmLockfile == [revision : Nat, from : [Rpm!ArchSet -> Nat]]
RpmLockfiles == [Rpm!RepoSet -> RpmLockfile]

RpmTyped ==
    /\ published \in [Rpm!RepoSet -> Nat] /\ asc \in [Rpm!RepoSet -> SUBSET Nat]
    /\ pc \in Fetching \cup {"idle", "gate"}
    /\ repo \in 1..Len(Repos) /\ arch \in 1..Len(Arches)
    /\ repomd \in Nat /\ listed \in [Rpm!ArchSet -> Nat]
    /\ head \in RpmLockfiles /\ tree \in RpmLockfiles /\ main \in RpmLockfiles
    /\ pr # <<>> => pr \in RpmLockfiles

\* The signature served is the one of a signed revision.
SignedInv ==
    \A r \in Rpm!RepoSet :
        /\ \A rev \in asc[r] : rev <= published[r]
        /\ \E rev \in asc[r] : \A other \in asc[r] : other <= rev

\* Every revision that the lockfiles of required repositories read was signed.
Anchored(files) == \A r \in Required, a \in Rpm!ArchSet : files[r].from[a] \in asc[r]

AnchoredInv ==
    /\ Anchored(head) /\ Anchored(tree) /\ Anchored(main)
    /\ pr # <<>> => Anchored(pr)

\* So is what a job in the middle of such a repository has in hand: the revision
\* past its signature, and the architectures behind it.
FetchInv ==
    pc \in Fetching /\ Rpm!Here \in Required =>
        /\ pc = "primary" => repomd \in asc[Rpm!Here]
        /\ \A n \in 1..Len(Arches) : n < arch => listed[Arches[n]] \in asc[Rpm!Here]

\* The inductive invariant.
RpmInv == RpmTyped /\ SignedInv /\ AnchoredInv /\ FetchInv

-----------------------------------------------------------------------------
\* A place of the loops is a repository and an architecture (Repos, Arches).
LEMMA RpmPlaces ==
    ASSUME Rpm!UpdateAssumption
    PROVE  /\ \A n \in 1..Len(Repos) : Repos[n] \in Rpm!RepoSet
           /\ \A n \in 1..Len(Arches) : Arches[n] \in Rpm!ArchSet
           /\ \A a \in Rpm!ArchSet : \E n \in 1..Len(Arches) : a = Arches[n]
           /\ 1 \in 1..Len(Repos) /\ 1 \in 1..Len(Arches)
           /\ Len(Repos) \in Nat /\ Len(Arches) \in Nat
           /\ Required \subseteq Rpm!RepoSet
  BY DEF Rpm!UpdateAssumption, Rpm!RepoSet, Rpm!ArchSet, Rpm!Indexes

\* The signature served is for a revision that was signed (fetchRepomd).
LEMMA ServedIsSigned ==
    ASSUME SignedInv, NEW r \in Rpm!RepoSet
    PROVE  Rpm!Asc(r) \in asc[r]
  BY DEF SignedInv, Rpm!Asc

\* Before the first job everything is at the first revision, which is signed.
LEMMA RpmInit ==
    ASSUME Rpm!UpdateAssumption, Rpm!Init
    PROVE  RpmInv
  <1> USE RpmPlaces DEF Rpm!Init, RpmLockfiles, RpmLockfile, Rpm!FirstLock
  <1>1. RpmTyped
    BY DEF RpmTyped
  <1>2. SignedInv
    BY DEF SignedInv
  <1>3. AnchoredInv
    BY DEF AnchoredInv, Anchored
  <1>4. FetchInv
    BY DEF FetchInv, Fetching
  <1> QED
    BY <1>1, <1>2, <1>3, <1>4 DEF RpmInv

\* The mirror's own steps: a signature is never taken back.
LEMMA RpmMirrorStep ==
    ASSUME Rpm!UpdateAssumption, RpmInv, NEW r \in Rpm!RepoSet, Rpm!Publish(r) \/ Rpm!Sign(r)
    PROVE  RpmInv'
  <1> USE DEF RpmInv
  <1>1. /\ UNCHANGED <<pc, repo, arch, repomd, listed, head, tree, main, pr>>
        /\ \A s \in Rpm!RepoSet : asc[s] \subseteq asc'[s]
    BY DEF Rpm!Publish, Rpm!Sign, Rpm!job, RpmTyped
  <1>2. /\ published' \in [Rpm!RepoSet -> Nat] /\ asc' \in [Rpm!RepoSet -> SUBSET Nat]
        /\ SignedInv'
    <2>1. CASE Rpm!Publish(r)
      BY <2>1 DEF Rpm!Publish, RpmTyped, SignedInv
    <2>2. CASE Rpm!Sign(r)
      <3>1. /\ published' = published /\ published[r] \in Nat
            /\ asc' = [asc EXCEPT ![r] = asc[r] \cup {published[r]}]
        BY <2>2 DEF Rpm!Sign, RpmTyped
      <3>2. asc' \in [Rpm!RepoSet -> SUBSET Nat]
        BY <3>1 DEF RpmTyped
      <3>3. SUFFICES ASSUME NEW s \in Rpm!RepoSet
                     PROVE  /\ \A rev \in asc'[s] : rev <= published[s]
                            /\ \E rev \in asc'[s] : \A other \in asc'[s] : other <= rev
        BY <3>1, <3>2 DEF SignedInv, RpmTyped
      <3>4. CASE s = r
        <4>1. asc'[r] = asc[r] \cup {published[r]} /\ asc[r] \subseteq Nat
          BY <3>1 DEF RpmTyped
        <4>2. \A rev \in asc[r] : rev <= published[r]
          BY DEF SignedInv
        <4> QED
          BY <3>1, <3>4, <4>1, <4>2
      <3>5. CASE s # r
        BY <3>1, <3>5 DEF RpmTyped, SignedInv
      <3> QED
        BY <3>4, <3>5
    <2> QED
      BY <2>1, <2>2
  <1>3. RpmTyped'
    BY <1>1, <1>2 DEF RpmTyped
  <1>4. AnchoredInv'
    BY <1>1, RpmPlaces DEF AnchoredInv, Anchored
  <1>5. FetchInv'
    BY <1>1, RpmPlaces DEF FetchInv, Rpm!Here, RpmTyped
  <1> QED
    BY <1>2, <1>3, <1>4, <1>5

\* The end of a job leaves what main has.
LEMMA RpmEndStep ==
    ASSUME Rpm!UpdateAssumption, RpmInv, Rpm!EndJob, UNCHANGED <<Rpm!mirror, main, pr>>
    PROVE  RpmInv'
  <1> USE RpmPlaces DEF RpmInv, Rpm!EndJob, Rpm!mirror
  <1>1. RpmTyped'
    BY DEF RpmTyped
  <1>2. SignedInv'
    BY DEF SignedInv
  <1>3. AnchoredInv'
    BY DEF AnchoredInv, Anchored
  <1>4. FetchInv'
    BY DEF FetchInv, Fetching
  <1> QED
    BY <1>1, <1>2, <1>3, <1>4

\* The steps of a job that write no lockfile.
LEMMA RpmFetchStep ==
    ASSUME Rpm!UpdateAssumption, RpmInv,
           \/ Rpm!StartJob \/ Rpm!Retry \/ Rpm!Refused \/ Rpm!GetAsc \/ Rpm!BadAsc
           \/ Rpm!NoAsc \/ Rpm!WrongPrimary
           \/ \E whole \in BOOLEAN : Rpm!GetRepomd(whole)
    PROVE  RpmInv'
  <1>1. CASE Rpm!EndJob /\ UNCHANGED <<Rpm!mirror, main, pr>>
    BY <1>1, RpmEndStep
  <1>2. CASE Rpm!StartJob
    <2> USE <1>2, RpmPlaces DEF RpmInv, Rpm!StartJob, Rpm!mirror
    <2>1. RpmTyped'
      BY DEF RpmTyped, Fetching
    <2>2. SignedInv' /\ AnchoredInv'
      BY DEF SignedInv, AnchoredInv, Anchored
    <2>3. FetchInv'
      BY DEF FetchInv
    <2> QED
      BY <2>1, <2>2, <2>3
  <1>3. CASE Rpm!Retry /\ ~Rpm!EndJob
    <2> USE <1>3, RpmPlaces DEF RpmInv, Rpm!Retry, Rpm!mirror
    <2>1. RpmTyped'
      BY DEF RpmTyped
    <2>2. SignedInv' /\ AnchoredInv'
      BY DEF SignedInv, AnchoredInv, Anchored
    <2>3. FetchInv'
      BY DEF FetchInv, Rpm!Here
    <2> QED
      BY <2>1, <2>2, <2>3
  <1>4. ASSUME NEW whole \in BOOLEAN, Rpm!GetRepomd(whole)
        PROVE  RpmInv'
    <2> USE <1>4, RpmPlaces DEF RpmInv, Rpm!GetRepomd, Rpm!Goto, Rpm!mirror
    <2>1. RpmTyped'
      BY DEF RpmTyped, Fetching, Rpm!Here
    <2>2. SignedInv' /\ AnchoredInv'
      BY DEF SignedInv, AnchoredInv, Anchored
    <2>3. FetchInv'
      BY DEF FetchInv, Rpm!Here, Fetching
    <2> QED
      BY <2>1, <2>2, <2>3
  <1>5. CASE (Rpm!GetAsc \/ Rpm!NoAsc) /\ ~Rpm!EndJob
    <2> USE <1>5, RpmPlaces DEF RpmInv, Rpm!GetAsc, Rpm!NoAsc, Rpm!Goto, Rpm!mirror
    <2>1. RpmTyped'
      BY DEF RpmTyped, Fetching
    <2>2. SignedInv' /\ AnchoredInv'
      BY DEF SignedInv, AnchoredInv, Anchored
    <2>3. Rpm!Here \in Required => repomd \in asc[Rpm!Here]
      BY ServedIsSigned DEF RpmTyped, Rpm!Here
    <2>4. FetchInv'
      BY <2>3 DEF FetchInv, Rpm!Here, Fetching
    <2> QED
      BY <2>1, <2>2, <2>4
  <1> QED
    BY <1>1, <1>2, <1>3, <1>4, <1>5
    DEF Rpm!Retry, Rpm!Refused, Rpm!GetAsc, Rpm!BadAsc, Rpm!NoAsc, Rpm!WrongPrimary, Rpm!mirror

\* A primary.xml that the signed repomd.xml names; with the last architecture, the
\* lockfile of signed revisions only (resolve).
LEMMA RpmPrimaryStep ==
    ASSUME Rpm!UpdateAssumption, RpmInv, NEW primary \in Rpm!Revisions, Rpm!GetPrimary(primary)
    PROVE  RpmInv'
  <1> USE RpmPlaces DEF RpmInv, Rpm!GetPrimary, Rpm!mirror
  <1>1. Rpm!Here \in Rpm!RepoSet /\ Rpm!ThisArch \in Rpm!ArchSet /\ primary \in Nat
    BY DEF RpmTyped, Rpm!Here, Rpm!ThisArch
  <1>2. listed' \in [Rpm!ArchSet -> Nat]
    BY <1>1 DEF RpmTyped
  <1>3. Rpm!Here \in Required =>
           \A n \in 1..Len(Arches) : n <= arch => listed'[Arches[n]] \in asc[Rpm!Here]
    BY <1>1 DEF RpmTyped, FetchInv, Fetching, Rpm!ThisArch
  <1>4. ASSUME arch = Len(Arches), Rpm!WriteLock(listed')
        PROVE  tree' \in RpmLockfiles /\ (Anchored(tree))'
    <2>1. tree' = [tree EXCEPT ![Rpm!Here] = [revision |-> listed'[Arches[1]], from |-> listed']]
      BY <1>4 DEF Rpm!WriteLock
    <2>2. tree' \in RpmLockfiles
      BY <1>1, <1>2, <2>1 DEF RpmTyped, RpmLockfiles, RpmLockfile
    <2>3. Rpm!Here \in Required => \A a \in Rpm!ArchSet : listed'[a] \in asc[Rpm!Here]
      BY <1>3, <1>4 DEF RpmTyped
    <2>4. \A r \in Rpm!RepoSet : tree[r] \in RpmLockfile
      BY DEF RpmTyped, RpmLockfiles
    <2>5. \A r \in Rpm!RepoSet : tree'[r].from = IF r = Rpm!Here THEN listed' ELSE tree[r].from
      BY <1>1, <2>1, <2>4 DEF RpmTyped, RpmLockfiles
    <2>6. (Anchored(tree))'
      BY <2>3, <2>5 DEF AnchoredInv, Anchored
    <2> QED
      BY <2>2, <2>6
  <1>5. /\ repo' \in 1..Len(Repos) /\ arch' \in 1..Len(Arches) /\ pc' \in Fetching \cup {"gate"}
        /\ pc' # "primary"
        /\ pc' \in Fetching =>
              \/ arch' = 1
              \/ arch' = arch + 1 /\ repo' = repo
        /\ tree' = tree \/ (arch = Len(Arches) /\ Rpm!WriteLock(listed'))
    <2>1. \/ arch < Len(Arches) /\ arch' = arch + 1 /\ pc' = "repomd"
             /\ repo' = repo /\ tree' = tree
          \/ /\ arch = Len(Arches) /\ repo < Len(Repos) /\ Rpm!WriteLock(listed')
             /\ arch' = 1 /\ repo' = repo + 1 /\ pc' = "repomd"
          \/ /\ arch = Len(Arches) /\ repo = Len(Repos) /\ Rpm!WriteLock(listed')
             /\ pc' = "gate" /\ repo' = repo /\ arch' = arch
      BY Zenon DEF Rpm!Onwards, Rpm!Goto
    <2> HIDE DEF Rpm!GetPrimary
    <2>2. /\ repo \in Nat /\ arch \in Nat /\ 1 <= repo /\ 1 <= arch
          /\ Len(Repos) \in Nat /\ Len(Arches) \in Nat /\ 1 <= Len(Repos) /\ 1 <= Len(Arches)
          /\ repo \in 1..Len(Repos) /\ arch \in 1..Len(Arches)
      BY DEF RpmTyped
    <2>3. repo' \in 1..Len(Repos) /\ arch' \in 1..Len(Arches)
      BY <2>1, <2>2
    <2>4. pc' \in Fetching \cup {"gate"} /\ pc' # "primary"
      BY <2>1 DEF Fetching
    <2>5. pc' \in Fetching => arch' = 1 \/ (arch' = arch + 1 /\ repo' = repo)
      BY <2>1 DEF Fetching
    <2>6. tree' = tree \/ (arch = Len(Arches) /\ Rpm!WriteLock(listed'))
      BY <2>1
    <2> QED
      BY <2>3, <2>4, <2>5, <2>6
  <1>6. RpmTyped'
    BY <1>2, <1>4, <1>5 DEF RpmTyped
  <1>7. SignedInv'
    BY DEF SignedInv
  <1>8. AnchoredInv'
    BY <1>4, <1>5 DEF AnchoredInv, Anchored
  <1>9. FetchInv'
    BY <1>3, <1>5 DEF FetchInv, Rpm!Here, RpmTyped
  <1> QED
    BY <1>6, <1>7, <1>8, <1>9

\* The pull request takes files from the checkout or from main, and main takes
\* the pull request (create-pull-request, gh pr merge).
LEMMA RpmPullRequestStep ==
    ASSUME Rpm!UpdateAssumption, RpmInv, Rpm!Gate \/ Rpm!Merge
    PROVE  RpmInv'
  <1> USE RpmPlaces DEF RpmInv, Rpm!mirror
  <1>1. CASE Rpm!Gate
    <2>1. Rpm!EndJob /\ UNCHANGED <<Rpm!mirror, main>> /\ pr' \in {pr, Rpm!Proposed}
      BY <1>1 DEF Rpm!Gate
    <2>2. Rpm!Proposed # <<>> => Rpm!Proposed \in RpmLockfiles /\ Anchored(Rpm!Proposed)
      BY DEF Rpm!Proposed, RpmLockfiles, RpmTyped, AnchoredInv, Anchored
    <2>3. pr' # <<>> => pr' \in RpmLockfiles /\ Anchored(pr')
      BY <2>1, <2>2 DEF RpmTyped, AnchoredInv
    <2>4. RpmTyped'
      BY <2>1, <2>3 DEF RpmTyped, Rpm!EndJob
    <2>5. SignedInv'
      BY <2>1 DEF SignedInv
    <2>6. AnchoredInv'
      BY <2>1, <2>3 DEF AnchoredInv, Anchored, Rpm!EndJob
    <2>7. FetchInv'
      BY <2>1 DEF FetchInv, Rpm!EndJob, Fetching
    <2> QED
      BY <2>4, <2>5, <2>6, <2>7
  <1>2. CASE Rpm!Merge
    <2> USE <1>2 DEF Rpm!Merge
    <2>1. RpmTyped'
      BY DEF RpmTyped
    <2>2. SignedInv'
      BY DEF SignedInv
    <2>3. AnchoredInv'
      BY DEF AnchoredInv, Anchored
    <2>4. FetchInv'
      BY DEF FetchInv, Rpm!Here
    <2> QED
      BY <2>1, <2>2, <2>3, <2>4
  <1> QED
    BY <1>1, <1>2

\* Every step keeps the invariant.
LEMMA RpmStep ==
    ASSUME Rpm!UpdateAssumption, RpmInv, [Rpm!Next]_Rpm!vars
    PROVE  RpmInv'
  <1>1. CASE UNCHANGED Rpm!vars
    BY <1>1
    DEF Rpm!vars, Rpm!mirror, Rpm!job, RpmInv, RpmTyped, SignedInv, AnchoredInv, Anchored, FetchInv, Rpm!Here
  <1>2. CASE Rpm!Next
    BY <1>2, RpmMirrorStep, RpmFetchStep, RpmPrimaryStep, RpmPullRequestStep DEF Rpm!Next, Rpm!Pin
  <1> QED
    BY <1>1, <1>2

-----------------------------------------------------------------------------
\* Every attempt but the first is a flake that was met (httpGet).
FlakesInv == faults \in 0..RpmFaults /\ attempt \in Nat /\ 1 <= attempt /\ attempt <= faults + 1

\* Before the first job nothing has failed.
LEMMA FlakesInit == ASSUME Rpm!UpdateAssumption, Rpm!Init PROVE FlakesInv
  BY DEF Rpm!UpdateAssumption, Rpm!Init, FlakesInv

\* An attempt is added by a flake only, and everything else starts at the first.
LEMMA FlakesStep ==
    ASSUME Rpm!UpdateAssumption, FlakesInv, [Rpm!Next]_Rpm!vars
    PROVE  FlakesInv'
  <1>1. /\ faults' = faults \/ (faults < RpmFaults /\ faults' = faults + 1)
        /\ \/ attempt' = 1
           \/ attempt' = attempt
           \/ attempt' = attempt + 1 /\ faults' = faults + 1 /\ faults < RpmFaults
    <2>1. CASE UNCHANGED Rpm!vars
      BY <2>1 DEF Rpm!vars, Rpm!job
    <2>2. CASE \E r \in Rpm!RepoSet : Rpm!Publish(r) \/ Rpm!Sign(r)
      BY <2>2 DEF Rpm!Publish, Rpm!Sign, Rpm!job
    <2>3. CASE Rpm!StartJob \/ Rpm!Gate \/ Rpm!Merge
      BY <2>3 DEF Rpm!StartJob, Rpm!Gate, Rpm!Merge, Rpm!EndJob
    <2>4. CASE Rpm!Retry \/ Rpm!Refused
      BY <2>4 DEF Rpm!Retry, Rpm!Refused, Rpm!Fault, Rpm!EndJob
    <2>5. ASSUME NEW whole \in BOOLEAN, Rpm!GetRepomd(whole)
          PROVE  <1>1!:
      BY <2>5 DEF Rpm!GetRepomd, Rpm!Fault, Rpm!Goto
    <2>6. CASE Rpm!GetAsc \/ Rpm!BadAsc \/ Rpm!NoAsc \/ Rpm!WrongPrimary
      BY <2>6 DEF Rpm!GetAsc, Rpm!BadAsc, Rpm!NoAsc, Rpm!WrongPrimary, Rpm!Goto, Rpm!EndJob
    <2>7. ASSUME NEW primary \in Rpm!Revisions, Rpm!GetPrimary(primary)
          PROVE  <1>1!:
      <3>1. faults' = faults
        BY <2>7 DEF Rpm!GetPrimary
      <3>2. attempt' = 1
        BY <2>7 DEF Rpm!GetPrimary, Rpm!Onwards, Rpm!Goto
      <3> QED
        BY <3>1, <3>2
    <2> QED
      BY <2>1, <2>2, <2>3, <2>4, <2>5, <2>6, <2>7 DEF Rpm!Next, Rpm!Pin
  <1> QED
    BY <1>1 DEF FlakesInv, Rpm!UpdateAssumption

\* With fewer flakes than attempts, a flake is followed by another attempt.
LEMMA RetriedInTime ==
    ASSUME Rpm!UpdateAssumption, FlakesInv, RpmFaults < MaxAttempts, Rpm!Retry
    PROVE  pc' # "idle"
  <1>1. attempt # MaxAttempts
    BY DEF FlakesInv, Rpm!UpdateAssumption, Rpm!Retry, Rpm!Fault
  <1>2. pc \in {"repomd", "asc", "primary"} /\ pc' = pc
    BY <1>1 DEF Rpm!Retry
  <1> QED
    BY <1>2

-----------------------------------------------------------------------------
(* The update of the Debian lockfiles *)

DebianP == INSTANCE DebianUpdateProofs WITH MaxFaults <- DebianFaults

\* DebianUpdateProofs is about the constants and the jobs of Delivery.
LEMMA DebianAssumed == DebianP!DebianAssumption
  <1>1. Debian!DebianAssumption
    BY DeliveryAssumption DEF DeliveryAssumption
  <1> QED
    BY <1>1, Zenon
    DEF Debian!ArchiveSet, DebianP!ArchiveSet, Debian!Live, DebianP!Live,
        Debian!Sources, DebianP!Sources, Debian!Names, DebianP!Names,
        Debian!VersionsRise, DebianP!VersionsRise, Debian!DebianAssumption,
        DebianP!DebianAssumption

\* Its jobs begin in the same way ...
LEMMA DebianBegins == Debian!Init => DebianP!Init
  BY Zenon
  DEF Debian!ArchiveSet, DebianP!ArchiveSet, Debian!Live, DebianP!Live,
    Debian!Sources, DebianP!Sources, Debian!Names, DebianP!Names, Debian!Candidate,
    DebianP!Candidate, Debian!Lock, DebianP!Lock, Debian!Unique, DebianP!Unique,
    Debian!FirstTree, DebianP!FirstTree, Debian!Init, DebianP!Init

\* ... and take the same steps.
LEMMA DebianGoesOn == [Debian!Next]_Debian!vars => [DebianP!Next]_DebianP!vars
  BY Zenon
  DEF Debian!Archives, DebianP!Archives, Debian!ArchiveSet, DebianP!ArchiveSet,
    Debian!Live, DebianP!Live, Debian!Sources, DebianP!Sources, Debian!Names,
    DebianP!Names, Debian!world, DebianP!world, Debian!knife, DebianP!knife,
    Debian!repo, DebianP!repo, Debian!vars, DebianP!vars, Debian!Candidate,
    DebianP!Candidate, Debian!Lock, DebianP!Lock, Debian!Pinned, DebianP!Pinned,
    Debian!Unique, DebianP!Unique, Debian!Publish, DebianP!Publish,
    Debian!NextMonth, DebianP!NextMonth, Debian!Here, DebianP!Here, Debian!Ask,
    DebianP!Ask, Debian!StartJob, DebianP!StartJob, Debian!EndJob, DebianP!EndJob,
    Debian!Fails, DebianP!Fails, Debian!FetchMonth, DebianP!FetchMonth,
    Debian!Found, DebianP!Found, Debian!ThisMonth, DebianP!ThisMonth,
    Debian!LastMonth, DebianP!LastMonth, Debian!Write, DebianP!Write,
    Debian!RunLock, DebianP!RunLock, Debian!Skip, DebianP!Skip, Debian!Licenses,
    DebianP!Licenses, Debian!With, DebianP!With, Debian!Without, DebianP!Without,
    Debian!Take, DebianP!Take, Debian!Resolve, DebianP!Resolve, Debian!NextURL,
    DebianP!NextURL, Debian!WrongDigest, DebianP!WrongDigest, Debian!Table,
    DebianP!Table, Debian!Proposed, DebianP!Proposed, Debian!Finish,
    DebianP!Finish, Debian!Merge, DebianP!Merge, Debian!Job, DebianP!Job,
    Debian!Next, DebianP!Next, Debian!Cardinality, DebianP!Cardinality

-----------------------------------------------------------------------------
(* All of them *)

\* What holds of the workflow that a behaviour is about; the groups of a rollout
\* that never began are empty.
DeliveryInv ==
    /\ RolloutInv
    /\ subject = "rpm" => RpmInv /\ FlakesInv
    /\ subject = "debian" => DebianP!DebianInv
    /\ subject = "tarballs" => PinsInv

\* A behaviour begins with the beginning of its workflow.
LEMMA DeliveryBegins == DeliveryInit => DeliveryInv
  <1> SUFFICES ASSUME DeliveryInit PROVE DeliveryInv
    OBVIOUS
  <1>1. RolloutInv
    <2>1. IdleRollout => RolloutInv
      BY RolloutAssumption
      DEF IdleRollout, RolloutInv, TypeOK, RolloutsSerialised, FailureStopsRun,
          OneLegAtATime, LastIsInGroup, LastQueuedWins, Finished
    <2> QED
      BY <2>1, RolloutInit DEF DeliveryInit
  <1>2. /\ subject = "rpm" => Rpm!Init
        /\ subject = "debian" => Debian!Init
        /\ subject = "tarballs" => Tarballs!Init
    BY DEF DeliveryInit
  <1>3. subject = "rpm" => RpmInv /\ FlakesInv
    BY <1>2, DeliveryAssumption, RpmInit, FlakesInit DEF DeliveryAssumption
  <1>4. subject = "debian" => DebianP!DebianInv
    BY <1>2, DebianAssumed, DebianBegins, DebianP!DebianInit
  <1>5. subject = "tarballs" => PinsInv
    BY <1>2, DeliveryAssumption, PinsInit DEF DeliveryAssumption
  <1> QED
    BY <1>1, <1>3, <1>4, <1>5 DEF DeliveryInv

\* A step is one of the subject's, and leaves the others alone.
LEMMA OneSubject ==
    ASSUME [DeliveryNext]_all
    PROVE  /\ subject' = subject
           /\ [Next]_vars
           /\ subject = "rpm" => [Rpm!Next]_Rpm!vars
           /\ subject = "debian" => [Debian!Next]_Debian!vars
           /\ subject = "tarballs" => [Tarballs!Next]_Tarballs!vars
  <1> USE DEF all, rollout, shared, rpm, tarballs, debian, vars,
              Rpm!vars, Rpm!mirror, Rpm!job, Debian!vars, Debian!world, Debian!knife, Debian!repo,
              Tarballs!vars, Tarballs!world, Tarballs!knife
  <1>1. CASE UNCHANGED all
    BY <1>1
  <1>2. CASE OnRollout(Next)
    BY <1>2 DEF OnRollout, On
  <1>3. CASE OnRpm(Rpm!Next)
    BY <1>3 DEF OnRpm, On
  <1>4. CASE OnTarballs(Tarballs!Next)
    BY <1>4 DEF OnTarballs, On
  <1>5. CASE OnDebian(Debian!Next)
    BY <1>5 DEF OnDebian, On
  <1>6. CASE OnDatabase(Database!Next)
    BY <1>6 DEF OnDatabase, On
  <1> QED
    BY <1>1, <1>2, <1>3, <1>4, <1>5, <1>6 DEF DeliveryNext

\* Every step keeps the invariant.
LEMMA DeliveryStep == DeliveryInv /\ [DeliveryNext]_all => DeliveryInv'
  <1> SUFFICES ASSUME DeliveryInv, [DeliveryNext]_all PROVE DeliveryInv'
    OBVIOUS
  <1>1. RolloutInv'
    BY OneSubject, RolloutStep DEF DeliveryInv
  <1>2. subject' = "rpm" => RpmInv' /\ FlakesInv'
    <2> SUFFICES ASSUME subject' = "rpm" PROVE RpmInv' /\ FlakesInv'
      OBVIOUS
    <2>1. subject = "rpm" /\ [Rpm!Next]_Rpm!vars
      BY OneSubject
    <2> QED
      BY <2>1, DeliveryAssumption, RpmStep, FlakesStep DEF DeliveryInv, DeliveryAssumption
  <1>3. subject' = "debian" => DebianP!DebianInv'
    <2> SUFFICES ASSUME subject' = "debian" PROVE DebianP!DebianInv'
      OBVIOUS
    <2>1. subject = "debian" /\ [Debian!Next]_Debian!vars
      BY OneSubject
    <2>2. DebianP!DebianInv /\ [DebianP!Next]_DebianP!vars /\ DebianP!DebianAssumption
      BY <2>1, DebianGoesOn, DebianAssumed DEF DeliveryInv
    <2> QED
      BY <2>2, DebianP!DebianStep
  <1>4. subject' = "tarballs" => PinsInv'
    BY OneSubject, PinsStep, DeliveryAssumption DEF DeliveryInv, DeliveryAssumption
  <1> QED
    BY <1>1, <1>2, <1>3, <1>4 DEF DeliveryInv

\* The invariant holds in every behaviour, whatever its subject.
LEMMA DeliveryInvariant == DeliverySpec => []DeliveryInv
  BY DeliveryBegins, DeliveryStep, PTL DEF DeliverySpec

-----------------------------------------------------------------------------
\* The concurrency group of a region: no two rollouts of it overlap, and its one
\* pending entry is a leg that waits behind one that runs.
THEOREM OneRolloutPerRegion == DeliverySpec => []RolloutsSerialised
  <1>1. DeliveryInv => RolloutsSerialised
    BY DEF DeliveryInv, RolloutInv
  <1> QED
    BY DeliveryInvariant, <1>1, PTL

\* A burst of pushes leaves a region on the run that entered its group last,
\* unless that very rollout failed: the eviction never drops the latest entry.
THEOREM LatestEntryServed == DeliverySpec => []LastQueuedWins
  <1>1. DeliveryInv => LastQueuedWins
    BY DEF DeliveryInv, RolloutInv
  <1> QED
    BY DeliveryInvariant, <1>1, PTL

\* fail-fast with max-parallel 1: a bad image stops at the region where it
\* failed.
THEOREM FirstFailureStops == DeliverySpec => []FailureStopsRun
  <1>1. DeliveryInv => FailureStopsRun
    BY DEF DeliveryInv, RolloutInv
  <1> QED
    BY DeliveryInvariant, <1>1, PTL

\* No line of a lockfile mixes the archives of two releases, for any number of
\* lines, archives, releases and spins, however upstream's rollout falls between
\* the requests (Temurin.Latest, NodeJS.Latest, Update).
THEOREM LinesAreWhole == DeliverySpec => []WholeRelease
  <1>1. DeliveryInv => WholeRelease
    BY DEF DeliveryInv, PinsInv, WholeInv, Whole, WholeRelease, Tarballs!WholeRelease
  <1> QED
    BY DeliveryInvariant, <1>1, PTL

\* With the signature required, nothing gets into a lockfile from a revision that
\* the mirror had not signed, for any repositories and architectures, however many
\* revisions are published and requests fail while pin reads (resolve).
THEOREM LockfilesAnchored == DeliverySpec => []TrustAnchored
  <1>1. DeliveryInv => TrustAnchored
    BY DEF DeliveryInv, RpmInv, AnchoredInv, Anchored, TrustAnchored, Rpm!TrustAnchored
  <1> QED
    BY DeliveryInvariant, <1>1, PTL

\* With fewer flakes than attempts, none of them ends the job, for any
\* repositories and architectures (httpGet).
THEOREM FlakesAreRetried == DeliverySpec => FlakesRiddenOut
  <1>1. DeliveryInv /\ [DeliveryNext]_all => [subject = "rpm" /\ Rpm!Retry => pc' # "idle"]_all
    <2> SUFFICES ASSUME DeliveryInv, subject = "rpm", Rpm!Retry PROVE pc' # "idle"
      OBVIOUS
    <2>1. FlakesInv
      BY DEF DeliveryInv
    <2> QED
      BY <2>1, DeliveryAssumption, RetriedInTime DEF DeliveryAssumption
  <1> QED
    BY DeliveryInvariant, <1>1, PTL DEF DeliverySpec, FlakesRiddenOut

\* The licences on main and in the pull request are those of the packages locked
\* there, for any manifests, archives and workers, whatever downloads fail and
\* whatever merges meanwhile (knife apt licenses, update-debian-packages).
THEOREM LicencesAreCurrent == DeliverySpec => []LicensesInStep
  <1>1. DeliveryInv => LicensesInStep
    <2> SUFFICES ASSUME DeliveryInv, subject = "debian" PROVE Debian!LicensesInStep
      BY DEF LicensesInStep
    <2>1. DebianP!LicensesInStep
      BY DebianAssumed, DebianP!InvInStep DEF DeliveryInv
    <2> QED
      BY <2>1, Zenon DEF Debian!LicensesInStep, DebianP!LicensesInStep, Debian!Unique, DebianP!Unique,
                         Debian!Names, DebianP!Names
  <1> QED
    BY DeliveryInvariant, <1>1, PTL
=============================================================================
