---------------------------- MODULE MirrorProofs ----------------------------
(***************************************************************************)
(* Proofs about MirrorPipeline, for any runs, images, builds, tags and     *)
(* families, and, with the history variable of MirrorOverlap, about what   *)
(* its runs leave behind: the evidence on the registry and the tag ledger. *)
(***************************************************************************)
EXTENDS MirrorOverlap, SequenceTheorems, WellFoundedInduction, TLAPS


\* Every step is one of these; the proofs below have one case per action.
LEMMA StepCases ==
    ASSUME [Next]_vars
    PROVE  \/ \E r \in Runs :
              \/ StartRun(r) \/ ParallelEnds(r) \/ PublishLost(r)
              \/ LegsEnd(r) \/ VerifyPasses(r) \/ VerifyFails(r)
              \/ TagsEnd(r) \/ PushLedger(r) \/ ReleaseEnds(r)
              \/ ReleaseLost(r)
              \/ \E i \in Images :
                  \/ StartWorker(r, i) \/ Push(r, i) \/ NoTarget(r, i)
                  \/ ArtifactPresent(r, i) \/ ArtifactAbsent(r, i)
                  \/ Judge(r, i) \/ AddArtifact(r, i)
                  \/ AppendPublished(r, i) \/ CheckProvenance(r, i)
                  \/ WorkerFails(r, i) \/ LegAttests(r, i) \/ LegFails(r, i)
              \/ \E p \in Pairs(r) : TagOne(r, p) \/ TagMissed(r, p)
              \/ \E f \in Families : PullLedger(r, f)
           \/ UNCHANGED vars
  BY DEF Next, Publish, WorkerStep, Provenance, Release, Fails

\* What ledger.jq appends is a function from tags to refs.
LEMMA MovesType ==
    ASSUME TypeOK, NEW r \in Runs, NEW f, NEW events
    PROVE  Moves(r, f, events) \in UNION {[T -> Refs] : T \in SUBSET Tags}
  <1> DEFINE A == {u \in Tags : Applying(r, f, u) # {}}
             applied == [t \in A |-> Built[r][CHOOSE i \in Applying(r, f, t) : TRUE]]
             D == {u \in DOMAIN applied : Current(events, u) # applied[u]}
  <1>1. \A t \in A : applied[t] \in Refs
    BY ConstantsAssumption DEF Applying, TypeOK
  <1>2. D \in SUBSET Tags
    OBVIOUS
  <1>3. Moves(r, f, events) = [t \in D |-> applied[t]]
    BY DEF Moves
  <1>4. [t \in D |-> applied[t]] \in [D -> Refs]
    BY <1>1
  <1>5. [D -> Refs] \in {[T -> Refs] : T \in SUBSET Tags}
    BY <1>2
  <1> HIDE DEF D, applied
  <1> QED
    BY <1>3, <1>4, <1>5

\* A worker's move to another phase keeps the type of `at`.
LEMMA GotoType ==
    ASSUME TypeOK, NEW r \in Runs, NEW i \in Images, NEW ph \in WorkerPhases,
           Goto(r, i, ph)
    PROVE  at' \in [Runs -> [Images -> WorkerPhases]]
  BY DEF TypeOK, Goto

\* Every step of every job keeps the type invariant.
LEMMA TypeStep == TypeOK /\ [Next]_vars => TypeOK'
  <1> SUFFICES ASSUME TypeOK, [Next]_vars PROVE TypeOK'
    OBVIOUS
  <1> USE DEF TypeOK, Jobs, Ended, WorkerPhases
  <1>1. CASE UNCHANGED vars
    BY <1>1 DEF vars, workerVars, legVars, releaseVars, groupVars
  <1>2. ASSUME NEW r \in Runs,
               \/ StartRun(r) \/ PublishLost(r) \/ VerifyFails(r)
               \/ LegsEnd(r) \/ ParallelEnds(r)
        PROVE  TypeOK'
    BY <1>2 DEF StartRun, PublishLost, VerifyFails, LegsEnd, ParallelEnds,
                workerVars, legVars, releaseVars, groupVars
  <1>3. ASSUME NEW r \in Runs,
               \/ VerifyPasses(r) \/ TagsEnd(r) \/ ReleaseEnds(r)
               \/ ReleaseLost(r)
        PROVE  TypeOK'
    BY <1>3 DEF VerifyPasses, TagsEnd, ReleaseEnds, ReleaseLost, LeaveRelease,
                workerVars, legVars, releaseVars, groupVars
  <1>4. ASSUME NEW r \in Runs, PushLedger(r)
        PROVE  TypeOK'
    <2>1. Moves(r, family[r], draft[r]) \in UNION {[T -> Refs] : T \in SUBSET Tags}
      BY MovesType
    <2>2. [run |-> r, moves |-> Moves(r, family[r], draft[r])] \in Entry
      BY <2>1 DEF Entry
    <2>3. family[r] \in Families /\ draft[r] \in Seq(Entry)
      BY <1>4 DEF PushLedger
    <2>4. Append(draft[r], [run |-> r, moves |-> Moves(r, family[r], draft[r])])
            \in Seq(Entry)
      BY <2>2, <2>3
    <2>5. ledger' \in [Families -> Seq(Entry)]
      BY <1>4, <2>3, <2>4 DEF PushLedger
    <2> QED
      BY <1>4, <2>3, <2>5 DEF PushLedger, workerVars, legVars, releaseVars,
                              groupVars
  <1>5. ASSUME NEW r \in Runs, NEW i \in Images,
               \/ StartWorker(r, i) \/ AppendPublished(r, i)
               \/ CheckProvenance(r, i) \/ WorkerFails(r, i)
               \/ ArtifactAbsent(r, i) \/ LegFails(r, i)
        PROVE  TypeOK'
    <2> USE DEF workerVars, legVars, releaseVars, groupVars
    <2>1. ASSUME NEW ph \in WorkerPhases, Goto(r, i, ph)
          PROVE  at' \in [Runs -> [Images -> WorkerPhases]]
      BY <2>1, GotoType
    <2> HIDE DEF WorkerPhases
    <2>2. {"push", "add", "provenance", "ok", "failed"} \subseteq WorkerPhases
      BY DEF WorkerPhases
    <2>3. CASE StartWorker(r, i)
      BY <2>1, <2>2, <2>3 DEF StartWorker
    <2>4. CASE AppendPublished(r, i)
      BY <2>1, <2>2, <2>4 DEF AppendPublished
    <2>5. CASE CheckProvenance(r, i)
      BY <2>1, <2>2, <2>5 DEF CheckProvenance
    <2>6. CASE WorkerFails(r, i)
      BY <2>1, <2>2, <2>6 DEF WorkerFails
    <2>7. CASE ArtifactAbsent(r, i)
      BY <2>1, <2>2, <2>7 DEF ArtifactAbsent
    <2>8. CASE LegFails(r, i)
      BY <2>8 DEF LegFails
    <2> QED
      BY <1>5, <2>3, <2>4, <2>5, <2>6, <2>7, <2>8
  <1>6. ASSUME NEW r \in Runs, NEW i \in Images, Push(r, i) \/ LegAttests(r, i)
        PROVE  TypeOK'
    <2>1. Built[r][i] \in Refs
      BY ConstantsAssumption
    <2>2. [ref |-> Built[r][i], kind |-> "provenance", run |-> r, image |-> i]
            \in Referrer
      BY <2>1 DEF Referrer, Kinds
    <2>3. CASE Push(r, i)
      BY <2>1, <2>3 DEF Push, Goto, legVars, releaseVars, groupVars
    <2>4. CASE LegAttests(r, i)
      BY <2>2, <2>4 DEF LegAttests, workerVars, releaseVars, groupVars
    <2> QED
      BY <1>6, <2>3, <2>4
  <1>7. ASSUME NEW r \in Runs, NEW i \in Images,
               \/ NoTarget(r, i) \/ ArtifactPresent(r, i) \/ Judge(r, i)
               \/ AddArtifact(r, i)
        PROVE  TypeOK'
    <2>1. ASSUME NEW T, StepDone(r, i, T)
          PROVE  /\ at' \in [Runs -> [Images -> WorkerPhases]]
                 /\ kind' \in [Runs -> [Images -> AttestationTypes \cup {"signature"}]]
                 /\ types' \in [Runs -> [Images -> SUBSET AttestationTypes]]
      <3>1. After(kind[r][i]) \in AttestationTypes \cup {"signature"}
        BY DEF After, AttestationTypes
      <3> QED
        BY <2>1, <3>1 DEF StepDone, Goto
    <2>2. [ref |-> Built[r][i], kind |-> kind[r][i], run |-> r, image |-> i]
            \in Referrer
      BY ConstantsAssumption DEF Referrer, Kinds
    <2>3. CASE NoTarget(r, i)
      BY <2>1, <2>3 DEF NoTarget, legVars, releaseVars, groupVars
    <2>4. CASE ArtifactPresent(r, i)
      <3>1. CASE kind[r][i] = "signature"
        BY <2>1, <2>4, <3>1 DEF ArtifactPresent, legVars, releaseVars, groupVars
      <3>2. CASE kind[r][i] # "signature"
        <4>1. at' \in [Runs -> [Images -> WorkerPhases]]
          BY <2>4, <3>2, GotoType DEF ArtifactPresent
        <4> QED
          BY <2>4, <3>2, <4>1 DEF ArtifactPresent, legVars, releaseVars, groupVars
      <3> QED
        BY <3>1, <3>2
    <2>5. CASE Judge(r, i)
      <3>1. CASE Stale(r, i, kind[r][i])
        <4>1. at' \in [Runs -> [Images -> WorkerPhases]]
          BY <2>5, <3>1, GotoType DEF Judge
        <4> QED
          BY <2>5, <3>1, <4>1 DEF Judge, legVars, releaseVars, groupVars
      <3>2. CASE ~Stale(r, i, kind[r][i])
        BY <2>1, <2>5, <3>2 DEF Judge, legVars, releaseVars, groupVars
      <3> QED
        BY <3>1, <3>2
    <2>6. CASE AddArtifact(r, i)
      BY <2>1, <2>2, <2>6 DEF AddArtifact, legVars, releaseVars, groupVars
    <2> QED
      BY <1>7, <2>3, <2>4, <2>5, <2>6
  <1>8. ASSUME NEW r \in Runs, NEW p \in Pairs(r),
               TagOne(r, p) \/ TagMissed(r, p)
        PROVE  TypeOK'
    <2>1. p \in Images \X Tags /\ p[1] \in Images /\ p[2] \in Tags
      BY DEF Pairs
    <2>2. Built[r][p[1]] \in Refs
      BY <2>1, ConstantsAssumption
    <2>3. CASE TagOne(r, p)
      BY <2>1, <2>2, <2>3 DEF TagOne, workerVars, legVars, groupVars
    <2>4. CASE TagMissed(r, p)
      BY <2>1, <2>4 DEF TagMissed, workerVars, legVars, groupVars
    <2> QED
      BY <1>8, <2>3, <2>4
  <1>9. ASSUME NEW r \in Runs, NEW f \in Families, PullLedger(r, f)
        PROVE  TypeOK'
    BY <1>9 DEF PullLedger, workerVars, legVars, releaseVars, groupVars
  <1> QED
    BY StepCases, <1>1, <1>2, <1>3, <1>4, <1>5, <1>6, <1>7, <1>8, <1>9

\* Every reachable state of the pipeline has the types of TypeOK, for any
\* number of runs, images and workers.
THEOREM TypeCorrect == Spec => []TypeOK
  <1>1. Init => TypeOK
    BY ConstantsAssumption DEF Init, TypeOK, Jobs, WorkerPhases, Ended,
                               AttestationTypes
  <1> QED
    BY <1>1, TypeStep, PTL DEF Spec

-----------------------------------------------------------------------------
(***************************************************************************)
(* The inductive invariant behind TaggedIsProven and ClearedIsCurrent.     *)
(* What verify saw stays true because referrers are never removed and the  *)
(* lists of a run are frozen once publish ends; what a worker established  *)
(* for one artifact stays true for the same reason while it goes on.       *)
(***************************************************************************)

ScanCurrent(r, i) ==
    "vuln" \in Types[r][i] =>
        \E a \in referrers : /\ a.kind = "vuln" /\ a.ref = Built[r][i]
                             /\ Db[a.run] >= Db[r]

VexCurrent(r, i) ==
    "openvex" \in Types[r][i] =>
        \E a \in referrers : /\ a.kind = "openvex" /\ a.ref = Built[r][i]
                             /\ Vex[a.run][a.image] = Vex[r][i]

WorkerInv(r, i) ==
    /\ at[r][i] \in {"queued", "push"} => kind[r][i] = "signature"
    /\ at[r][i] \in {"check", "stale", "add", "record", "provenance", "ok"} =>
          Built[r][i] \in pushed
    /\ at[r][i] \in {"stale", "add"} => kind[r][i] \in Types[r][i] \cup {"signature"}
    /\ at[r][i] \in {"provenance", "ok"} => i \in published[r]
    /\ at[r][i] \in {"check", "stale", "add"} /\ kind[r][i] = "openvex" =>
          ScanCurrent(r, i)
    /\ at[r][i] \in {"record", "provenance", "ok"} =>
          ScanCurrent(r, i) /\ VexCurrent(r, i)
    /\ i \in published[r] => Built[r][i] \in pushed
    /\ types[r][i] \subseteq Types[r][i]

RunInv(r) ==
    /\ job[r] \in {"provenance", "verify", "waiting", "tag", "record", "released"} =>
          \A i \in Images : at[r][i] = "ok"
    /\ Cleared(r) => Passes(r)

GroupInv == waiting # NoRun => job[waiting] = "waiting"

Inv ==
    /\ TypeOK
    /\ \A r \in Runs : RunInv(r)
    /\ \A r \in Runs, i \in Images : WorkerInv(r, i)
    /\ GroupInv
    /\ TaggedIsProven

-----------------------------------------------------------------------------
\* Nothing in the workflow removes a manifest or a referrer.
LEMMA RegistryGrows ==
    ASSUME [Next]_vars
    PROVE  pushed \subseteq pushed' /\ referrers \subseteq referrers'
  <1>1. CASE UNCHANGED vars
    BY <1>1 DEF vars
  <1>2. ASSUME NEW r \in Runs,
               \/ StartRun(r) \/ ParallelEnds(r) \/ PublishLost(r)
               \/ LegsEnd(r) \/ VerifyPasses(r) \/ VerifyFails(r)
               \/ TagsEnd(r) \/ PushLedger(r) \/ ReleaseEnds(r)
               \/ ReleaseLost(r)
        PROVE  pushed \subseteq pushed' /\ referrers \subseteq referrers'
    BY <1>2 DEF StartRun, ParallelEnds, PublishLost, LegsEnd, VerifyPasses,
                VerifyFails, TagsEnd, PushLedger, ReleaseEnds, ReleaseLost
  <1>3. ASSUME NEW r \in Runs, NEW i \in Images,
               \/ StartWorker(r, i) \/ Push(r, i) \/ NoTarget(r, i)
               \/ ArtifactPresent(r, i) \/ ArtifactAbsent(r, i)
               \/ Judge(r, i) \/ AddArtifact(r, i)
               \/ AppendPublished(r, i) \/ CheckProvenance(r, i)
               \/ WorkerFails(r, i) \/ LegAttests(r, i) \/ LegFails(r, i)
        PROVE  pushed \subseteq pushed' /\ referrers \subseteq referrers'
    BY <1>3 DEF StartWorker, Push, NoTarget, ArtifactPresent, ArtifactAbsent,
                Judge, AddArtifact, AppendPublished, CheckProvenance,
                WorkerFails, LegAttests, LegFails
  <1>4. ASSUME NEW r \in Runs, NEW p \in Pairs(r), TagOne(r, p) \/ TagMissed(r, p)
        PROVE  pushed \subseteq pushed' /\ referrers \subseteq referrers'
    BY <1>4 DEF TagOne, TagMissed
  <1>5. ASSUME NEW r \in Runs, NEW f \in Families, PullLedger(r, f)
        PROVE  pushed \subseteq pushed' /\ referrers \subseteq referrers'
    BY <1>5 DEF PullLedger
  <1> QED
    BY StepCases, <1>1, <1>2, <1>3, <1>4, <1>5

\* So what has been proven of a ref stays proven.
LEMMA ProvenStays ==
    ASSUME pushed \subseteq pushed', referrers \subseteq referrers', NEW ref
    PROVE  /\ \A k : Has(k, ref) => Has(k, ref)'
           /\ Proven(ref) => Proven(ref)'
  BY DEF Has, Proven

\* The lists of image i in run r, and where its worker is.
SameWorker(r, i) ==
    /\ at'[r][i] = at[r][i]
    /\ kind'[r][i] = kind[r][i]
    /\ types'[r][i] = types[r][i]
    /\ i \in published'[r] <=> i \in published[r]

\* What a worker in the middle of publish_one has established stays true while
\* the registry only grows and the worker does not move.
LEMMA WorkerInvStays ==
    ASSUME NEW r \in Runs, NEW i \in Images, WorkerInv(r, i), SameWorker(r, i),
           pushed \subseteq pushed', referrers \subseteq referrers'
    PROVE  WorkerInv(r, i)'
  <1>1. ScanCurrent(r, i) => ScanCurrent(r, i)'
    BY DEF ScanCurrent
  <1>2. VexCurrent(r, i) => VexCurrent(r, i)'
    BY DEF VexCurrent
  <1> QED
    BY <1>1, <1>2 DEF WorkerInv, SameWorker

\* What a run that passed publish or verify has established stays true while
\* the registry only grows and the run does not move.
LEMMA RunInvStays ==
    ASSUME NEW r \in Runs, RunInv(r), job'[r] = job[r],
           at'[r] = at[r], types'[r] = types[r], published'[r] = published[r],
           pushed \subseteq pushed', referrers \subseteq referrers'
    PROVE  RunInv(r)'
  <1>1. Passes(r) => Passes(r)'
    BY ProvenStays DEF Passes
  <1> QED
    BY <1>1 DEF RunInv, Cleared

\* Tags that name proven refs go on doing so while the registry only grows.
LEMMA TaggedStays ==
    ASSUME TaggedIsProven, tags' = tags,
           pushed \subseteq pushed', referrers \subseteq referrers'
    PROVE  TaggedIsProven'
  BY ProvenStays DEF TaggedIsProven

-----------------------------------------------------------------------------
\* The steps of jobs: they move runs, not workers, evidence or tags.
LEMMA JobStep ==
    ASSUME Inv, TypeOK', NEW r \in Runs,
           \/ StartRun(r) \/ ParallelEnds(r) \/ PublishLost(r) \/ LegsEnd(r)
           \/ VerifyPasses(r) \/ VerifyFails(r) \/ TagsEnd(r)
           \/ ReleaseEnds(r) \/ ReleaseLost(r)
    PROVE  Inv'
  <1>1. UNCHANGED <<at, kind, types, published, pushed, referrers, tags>>
    BY DEF StartRun, ParallelEnds, PublishLost, LegsEnd, VerifyPasses,
           VerifyFails, TagsEnd, ReleaseEnds, ReleaseLost, workerVars
  <1>2. \A s \in Runs, i \in Images : WorkerInv(s, i)'
    BY <1>1, WorkerInvStays DEF SameWorker, Inv
  <1>3. TaggedIsProven'
    BY <1>1, TaggedStays DEF Inv
  <1>4. \A s \in Runs : Passes(s)' <=> Passes(s)
    BY <1>1 DEF Passes, Has
  <1> USE DEF RunInv, Cleared, GroupInv, Inv
  <1>5. CASE StartRun(r) \/ PublishLost(r) \/ VerifyFails(r) \/ LegsEnd(r)
    BY <1>1, <1>2, <1>3, <1>4, <1>5, ConstantsAssumption
       DEF StartRun, PublishLost, VerifyFails, LegsEnd, TypeOK, groupVars
  <1>6. CASE ParallelEnds(r)
    <2>1. \A s \in Runs : s # r => job'[s] = job[s]
      BY <1>6 DEF ParallelEnds, TypeOK
    <2>2. /\ job'[r] \in {"failed", "verify", "provenance"}
          /\ job'[r] # "failed" => \A i \in Images : at[r][i] = "ok"
      BY <1>6 DEF ParallelEnds, EveryStatusZero, TypeOK
    <2>3. \A s \in Runs : RunInv(s)'
      BY <1>1, <1>4, <2>1, <2>2
    <2>4. GroupInv'
      BY <1>6, <2>1 DEF ParallelEnds, TypeOK, groupVars
    <2> QED
      BY <1>2, <1>3, <2>3, <2>4
  <1>7. CASE VerifyPasses(r)
    <2>1. /\ job'[r] \in {"tag", "waiting"}
          /\ \A s \in Runs : s # r => job'[s] \in {job[s], "cancelled"}
      BY <1>7 DEF VerifyPasses, TypeOK
    <2>2. \A s \in Runs : RunInv(s)'
      BY <1>1, <1>4, <1>7, <2>1 DEF VerifyPasses
    <2>3. CASE holder = NoRun
      BY <1>2, <1>3, <1>7, <2>2, <2>3, ConstantsAssumption DEF VerifyPasses, TypeOK
    <2>4. CASE holder # NoRun
      BY <1>2, <1>3, <1>7, <2>2, <2>4, ConstantsAssumption DEF VerifyPasses, TypeOK
    <2> QED
      BY <2>3, <2>4
  <1>8. ASSUME NEW end \in {"failed", "released"}, LeaveRelease(r, end),
               job[r] \in {"tag", "record"}
        PROVE  Inv'
    BY <1>1, <1>2, <1>3, <1>4, <1>8, ConstantsAssumption DEF LeaveRelease, TypeOK
  <1>9. CASE TagsEnd(r) /\ missed[r] = {}
    BY <1>1, <1>2, <1>3, <1>4, <1>9, ConstantsAssumption
       DEF TagsEnd, TypeOK, groupVars
  <1>10. CASE ReleaseEnds(r) \/ ReleaseLost(r) \/ (TagsEnd(r) /\ missed[r] # {})
    BY <1>8, <1>10 DEF ReleaseEnds, ReleaseLost, TagsEnd
  <1> QED
    BY <1>5, <1>6, <1>7, <1>9, <1>10

\* A worker's step concerns no other worker, and its run is in publish.
LEMMA WorkerFrame ==
    ASSUME Inv, TypeOK', NEW r \in Runs, NEW i \in Images,
           job' = job, job[r] = "publish", waiting' = waiting, tags' = tags,
           pushed \subseteq pushed', referrers \subseteq referrers',
           \A s \in Runs, j \in Images : s # r \/ j # i => SameWorker(s, j),
           \A s \in Runs : s # r => /\ at'[s] = at[s] /\ types'[s] = types[s]
                                   /\ published'[s] = published[s],
           WorkerInv(r, i)'
    PROVE  Inv'
  <1>1. \A s \in Runs, j \in Images : WorkerInv(s, j)'
    BY WorkerInvStays DEF Inv
  <1>2. \A s \in Runs : RunInv(s)'
    <2>1. RunInv(r)'
      BY DEF RunInv, Cleared
    <2> QED
      BY <2>1, RunInvStays DEF Inv
  <1>3. TaggedIsProven'
    BY TaggedStays DEF Inv
  <1>4. GroupInv'
    BY DEF Inv, GroupInv
  <1> QED
    BY <1>1, <1>2, <1>3, <1>4 DEF Inv

\* The steps of publish_one that touch neither kind nor types.
LEMMA PhaseStep ==
    ASSUME Inv, TypeOK', [Next]_vars, NEW r \in Runs, NEW i \in Images,
           \/ StartWorker(r, i) \/ Push(r, i) \/ ArtifactAbsent(r, i)
           \/ AppendPublished(r, i) \/ CheckProvenance(r, i)
           \/ WorkerFails(r, i)
    PROVE  Inv'
  <1>1. pushed \subseteq pushed' /\ referrers \subseteq referrers'
    BY RegistryGrows
  <1>2. /\ job' = job /\ job[r] = "publish" /\ waiting' = waiting
        /\ tags' = tags /\ kind' = kind /\ types' = types
        /\ referrers' = referrers
        /\ \E ph : Goto(r, i, ph)
        /\ published' \in {published, [published EXCEPT ![r] = @ \cup {i}]}
    BY DEF StartWorker, Push, ArtifactAbsent, AppendPublished, CheckProvenance,
           WorkerFails, Checks, groupVars
  <1>3. \A s \in Runs, j \in Images : s # r \/ j # i => SameWorker(s, j)
    BY <1>2 DEF SameWorker, Goto, Inv, TypeOK
  <1>4. \A s \in Runs : s # r => /\ at'[s] = at[s] /\ types'[s] = types[s]
                                 /\ published'[s] = published[s]
    BY <1>2 DEF Goto, Inv, TypeOK
  <1>5. WorkerInv(r, i)'
    <2> USE <1>1, <1>2 DEF WorkerInv, ScanCurrent, VexCurrent, Goto, Inv, TypeOK
    <2>1. CASE StartWorker(r, i)
      BY <2>1 DEF StartWorker
    <2>2. CASE Push(r, i)
      BY <2>2 DEF Push
    <2>3. CASE ArtifactAbsent(r, i)
      BY <2>3 DEF ArtifactAbsent, Checks
    <2>4. CASE AppendPublished(r, i)
      BY <2>4 DEF AppendPublished
    <2>5. CASE CheckProvenance(r, i)
      BY <2>5 DEF CheckProvenance
    <2>6. CASE WorkerFails(r, i)
      BY <2>6 DEF WorkerFails
    <2> QED
      BY <2>1, <2>2, <2>3, <2>4, <2>5, <2>6
  <1> QED
    BY <1>1, <1>2, <1>3, <1>4, <1>5, WorkerFrame

\* The steps of the loop over artifacts.
LEMMA LoopStep ==
    ASSUME Inv, TypeOK', [Next]_vars, NEW r \in Runs, NEW i \in Images,
           \/ NoTarget(r, i) \/ ArtifactPresent(r, i) \/ Judge(r, i)
           \/ AddArtifact(r, i)
    PROVE  Inv'
  <1>1. pushed \subseteq pushed' /\ referrers \subseteq referrers'
    BY RegistryGrows
  <1>2. /\ job' = job /\ job[r] = "publish" /\ waiting' = waiting
        /\ tags' = tags /\ pushed' = pushed /\ published' = published
    BY DEF NoTarget, ArtifactPresent, Judge, AddArtifact, Checks, groupVars
  <1>3. \/ \E T : StepDone(r, i, T)
        \/ \E ph : Goto(r, i, ph) /\ kind' = kind /\ types' = types
    BY DEF NoTarget, ArtifactPresent, Judge, AddArtifact
  <1>4. \A s \in Runs, j \in Images : s # r \/ j # i => SameWorker(s, j)
    BY <1>2, <1>3 DEF SameWorker, StepDone, Goto, Inv, TypeOK
  <1>5. \A s \in Runs : s # r => /\ at'[s] = at[s] /\ types'[s] = types[s]
                                 /\ published'[s] = published[s]
    BY <1>2, <1>3 DEF StepDone, Goto, Inv, TypeOK
  <1>6. WorkerInv(r, i)
    BY DEF Inv
  <1>7. /\ ScanCurrent(r, i) => ScanCurrent(r, i)'
        /\ VexCurrent(r, i) => VexCurrent(r, i)'
    BY <1>1 DEF ScanCurrent, VexCurrent
  \* A step of the loop is done once the artifact it is at is current.
  <1>8. ASSUME NEW T, StepDone(r, i, T), T \subseteq Types[r][i] \cup {"signature"},
               at[r][i] \in {"check", "stale", "add"},
               kind[r][i] = "vuln" => ScanCurrent(r, i)',
               kind[r][i] = "openvex" => VexCurrent(r, i)'
        PROVE  WorkerInv(r, i)'
    <2>1. /\ at'[r][i] = IF kind[r][i] = "openvex" THEN "record" ELSE "check"
          /\ kind'[r][i] = After(kind[r][i])
          /\ types'[r][i] = types[r][i] \cup (T \cap AttestationTypes)
      BY <1>8 DEF StepDone, Goto, Inv, TypeOK
    <2>2. types'[r][i] \subseteq Types[r][i]
      BY <1>6, <1>8, <2>1 DEF WorkerInv, AttestationTypes
    <2>3. kind[r][i] \in {"signature", "cyclonedx", "vuln", "openvex"}
      BY DEF Inv, TypeOK, AttestationTypes
    <2>4. CASE kind[r][i] = "openvex"
      BY <1>2, <1>6, <1>7, <1>8, <2>1, <2>2, <2>4 DEF WorkerInv
    <2>5. CASE kind[r][i] # "openvex"
      BY <1>2, <1>6, <1>7, <1>8, <2>1, <2>2, <2>3, <2>5 DEF WorkerInv, After
    <2> QED
      BY <2>4, <2>5
  \* Or it goes on to judge, or to add, the same artifact.
  <1>9. ASSUME NEW ph \in {"stale", "add"}, Goto(r, i, ph),
               kind' = kind, types' = types,
               at[r][i] \in {"check", "stale"},
               kind[r][i] \in Types[r][i] \cup {"signature"}
        PROVE  WorkerInv(r, i)'
    <2>1. at'[r][i] = ph
      BY <1>9 DEF Goto, Inv, TypeOK
    <2> QED
      BY <1>2, <1>6, <1>7, <1>9, <2>1 DEF WorkerInv
  <1>10. WorkerInv(r, i)'
    <2>1. CASE NoTarget(r, i)
      <3>1. kind[r][i] \notin Types[r][i] /\ at[r][i] = "check"
        BY <2>1 DEF NoTarget
      <3>2. StepDone(r, i, {})
        BY <2>1 DEF NoTarget
      <3>3. /\ kind[r][i] = "vuln" => ScanCurrent(r, i)'
            /\ kind[r][i] = "openvex" => VexCurrent(r, i)'
        BY <3>1 DEF ScanCurrent, VexCurrent
      <3> QED
        BY <1>8, <3>1, <3>2, <3>3
    <2>2. CASE ArtifactPresent(r, i)
      BY <1>8, <1>9, <2>2 DEF ArtifactPresent, Checks
    <2>3. CASE Judge(r, i)
      <3>1. at[r][i] = "stale" /\ kind[r][i] \in Types[r][i] \cup {"signature"}
        BY <1>6, <2>3 DEF Judge, WorkerInv
      <3>2. CASE Stale(r, i, kind[r][i])
        BY <1>9, <2>3, <3>1, <3>2 DEF Judge
      <3>3. CASE ~Stale(r, i, kind[r][i])
        <4>1. StepDone(r, i, {kind[r][i]})
          BY <2>3, <3>3 DEF Judge
        <4>2. kind[r][i] = "vuln" => ScanCurrent(r, i)
          <5>1. SUFFICES ASSUME kind[r][i] = "vuln" PROVE ScanCurrent(r, i)
            OBVIOUS
          <5>2. PICK a \in referrers : /\ a.kind = "vuln" /\ a.ref = Built[r][i]
                                       /\ ~(Db[a.run] < Db[r])
            BY <3>3, <5>1 DEF Stale, StaleVuln, Attached
          <5>3. a.run \in Runs
            BY DEF Inv, TypeOK, Referrer
          <5>4. Db[a.run] \in Nat /\ Db[r] \in Nat
            BY <5>3, ConstantsAssumption
          <5> QED
            BY <5>2, <5>4 DEF ScanCurrent
        <4>3. kind[r][i] = "openvex" => VexCurrent(r, i)
          BY <3>3 DEF Stale, StaleOpenvex, Attached, VexCurrent
        <4> QED
          BY <1>7, <1>8, <3>1, <4>1, <4>2, <4>3
      <3> QED
        BY <3>2, <3>3
    <2>4. CASE AddArtifact(r, i)
      <3>1. at[r][i] = "add" /\ kind[r][i] \in Types[r][i] \cup {"signature"}
        BY <1>6, <2>4 DEF AddArtifact, WorkerInv
      <3>2. StepDone(r, i, {kind[r][i]})
        BY <2>4 DEF AddArtifact
      <3>3. PICK a \in referrers' : a = [ref |-> Built[r][i], kind |-> kind[r][i],
                                        run |-> r, image |-> i]
        BY <2>4 DEF AddArtifact
      <3>4. Db[r] \in Nat
        BY ConstantsAssumption
      <3>5. /\ kind[r][i] = "vuln" => ScanCurrent(r, i)'
            /\ kind[r][i] = "openvex" => VexCurrent(r, i)'
        BY <3>3, <3>4 DEF ScanCurrent, VexCurrent
      <3> QED
        BY <1>8, <3>1, <3>2, <3>5
    <2> QED
      BY <2>1, <2>2, <2>3, <2>4
  <1> QED
    BY <1>1, <1>2, <1>4, <1>5, <1>10, WorkerFrame

\* Steps that touch no run's place, no worker, and only add to the registry.
LEMMA RegistryStep ==
    ASSUME Inv, TypeOK', UNCHANGED <<job, at, kind, types, published, waiting>>,
           pushed \subseteq pushed', referrers \subseteq referrers',
           TaggedIsProven'
    PROVE  Inv'
  <1>1. \A r \in Runs, i \in Images : WorkerInv(r, i)'
    BY WorkerInvStays DEF Inv, SameWorker
  <1>2. \A r \in Runs : RunInv(r)'
    BY RunInvStays DEF Inv
  <1> QED
    BY <1>1, <1>2 DEF Inv, GroupInv

\* A tag is only moved by a run that passed verify, to a ref it verified.
LEMMA TagStep ==
    ASSUME Inv, TypeOK', NEW r \in Runs, NEW p \in Pairs(r), TagOne(r, p)
    PROVE  Proven(Built[r][p[1]]) /\ TaggedIsProven'
  <1>1. p[1] \in published[r] /\ p[1] \in Images /\ p[2] \in Tags
    BY DEF Pairs, Inv, TypeOK
  <1>2. Passes(r)
    BY DEF TagOne, Inv, RunInv, Cleared
  <1>3. Built[r][p[1]] \in pushed
    BY <1>1 DEF Inv, WorkerInv
  <1>4. Proven(Built[r][p[1]])
    BY <1>1, <1>2, <1>3 DEF Passes, Proven, Kinds, AttestationTypes
  <1>5. UNCHANGED <<pushed, referrers>>
    BY DEF TagOne
  <1>6. \A ref : Proven(ref) => Proven(ref)'
    BY <1>5 DEF Proven, Has
  <1>7. \A t \in Tags : tags'[t] = IF t = p[2] THEN Built[r][p[1]] ELSE tags[t]
    BY DEF TagOne, Inv, TypeOK
  <1> QED
    BY <1>4, <1>6, <1>7 DEF Inv, TaggedIsProven

\* Every step of every job keeps the inductive invariant.
LEMMA InvStep == Inv /\ [Next]_vars => Inv'
  <1> SUFFICES ASSUME Inv, [Next]_vars PROVE Inv'
    OBVIOUS
  <1>1. TypeOK'
    BY TypeStep DEF Inv
  <1>2. pushed \subseteq pushed' /\ referrers \subseteq referrers'
    BY RegistryGrows
  <1>3. CASE UNCHANGED vars
    <2>1. TaggedIsProven'
      BY <1>2, <1>3, TaggedStays DEF Inv, vars
    <2> QED
      BY <1>1, <1>2, <1>3, <2>1, RegistryStep DEF vars, workerVars, groupVars
  <1>4. ASSUME NEW r \in Runs, NEW i \in Images, LegAttests(r, i) \/ LegFails(r, i)
        PROVE  Inv'
    <2>1. UNCHANGED <<job, at, kind, types, published, waiting, tags>>
      BY <1>4 DEF LegAttests, LegFails, workerVars, groupVars
    <2> QED
      BY <1>1, <1>2, <2>1, RegistryStep, TaggedStays DEF Inv
  <1>5. ASSUME NEW r \in Runs,
               PushLedger(r) \/ \E f \in Families : PullLedger(r, f)
        PROVE  Inv'
    <2>1. UNCHANGED <<job, at, kind, types, published, waiting, tags>>
      BY <1>5 DEF PushLedger, PullLedger, workerVars, groupVars
    <2> QED
      BY <1>1, <1>2, <2>1, RegistryStep, TaggedStays DEF Inv
  <1>6. ASSUME NEW r \in Runs, NEW p \in Pairs(r), TagOne(r, p) \/ TagMissed(r, p)
        PROVE  Inv'
    <2>1. UNCHANGED <<job, at, kind, types, published, waiting>>
      BY <1>6 DEF TagOne, TagMissed, workerVars, groupVars
    <2>2. TaggedIsProven'
      <3>1. CASE TagOne(r, p)
        BY <1>1, <3>1, TagStep
      <3>2. CASE TagMissed(r, p)
        BY <1>2, <3>2, TaggedStays DEF TagMissed, Inv
      <3> QED
        BY <1>6, <3>1, <3>2
    <2> QED
      BY <1>1, <1>2, <2>1, <2>2, RegistryStep
  <1> QED
    BY StepCases, JobStep, PhaseStep, LoopStep,
       <1>1, <1>3, <1>4, <1>5, <1>6

\* The invariant holds of a registry before the workflow's first run.
LEMMA InvInit == Init => Inv
  <1> SUFFICES ASSUME Init PROVE Inv
    OBVIOUS
  <1>1. TypeOK
    BY ConstantsAssumption DEF Init, TypeOK, Jobs, WorkerPhases, Ended,
                               AttestationTypes
  <1>2. \A r \in Runs : RunInv(r)
    BY DEF Init, RunInv, Cleared
  <1>3. \A r \in Runs, i \in Images : WorkerInv(r, i)
    BY DEF Init, WorkerInv
  <1> QED
    BY <1>1, <1>2, <1>3 DEF Inv, Init, GroupInv, TaggedIsProven

\* The inductive invariant holds of every reachable state: what a worker, a
\* run past publish, a run past verify and a tag each vouch for is there.
THEOREM InvCorrect == Spec => []Inv
  BY InvInit, InvStep, PTL DEF Spec

\* For any number of overlapping runs, whatever fails: no tag of the mirror
\* ever names a digest that has not passed the full policy.
THEOREM TagsAreProven == Spec => []TaggedIsProven
  <1>1. Inv => TaggedIsProven
    BY DEF Inv
  <1> QED
    BY <1>1, InvCorrect, PTL

\* A run that got past verify published every image with evidence as current
\* as its own pins, whoever attached it.
THEOREM ClearedRunsAreCurrent == Spec => []ClearedIsCurrent
  <1>1. Inv => ClearedIsCurrent
    <2> SUFFICES ASSUME Inv, NEW r \in Runs, Cleared(r)
                 PROVE  /\ published[r] = Images
                        /\ \A i \in Images :
                            /\ \E a \in Attached("vuln", Built[r][i]) : Db[a.run] >= Db[r]
                            /\ "openvex" \in Types[r][i] =>
                                 \E a \in Attached("openvex", Built[r][i]) :
                                     Vex[a.run][a.image] = Vex[r][i]
      BY DEF ClearedIsCurrent
    <2>1. \A i \in Images : at[r][i] = "ok"
      BY DEF Inv, RunInv, Cleared
    <2>2. published[r] = Images
      <3>1. Images \subseteq published[r]
        BY <2>1 DEF Inv, WorkerInv
      <3>2. published[r] \subseteq Images
        BY DEF Inv, TypeOK
      <3> QED
        BY <3>1, <3>2
    <2>3. \A i \in Images : ScanCurrent(r, i) /\ VexCurrent(r, i)
      BY <2>1 DEF Inv, WorkerInv
    <2>4. \A i \in Images : "vuln" \in Types[r][i]
      BY <2>2 DEF Inv, RunInv, Passes, WorkerInv
    <2> QED
      BY <2>2, <2>3, <2>4 DEF ScanCurrent, VexCurrent, Attached
  <1> QED
    BY <1>1, InvCorrect, PTL

\* The pipeline implements the abstract promise: its steps are moves of tags to
\* refs proven before the move, gains of evidence, or neither.
THEOREM PipelineKeepsPromise == Spec => PromiseKept
  <1> DEFINE P == {ref \in Refs : Proven(ref)}
  <1>1. Init => Promise!Init
    BY DEF Init, Promise!Init, Proven
  <1>2. Inv /\ TypeOK' /\ [Next]_vars => [Promise!Next]_<<P, tags>>
    <2> SUFFICES ASSUME Inv, TypeOK', [Next]_vars
                 PROVE  [Promise!Next]_<<P, tags>>
      OBVIOUS
    <2>1. pushed \subseteq pushed' /\ referrers \subseteq referrers'
      BY RegistryGrows
    <2>2. P \subseteq P' /\ P' \subseteq Refs
      BY <2>1, ProvenStays
    <2>3. CASE tags' = tags
      BY <2>2, <2>3 DEF Promise!Next, Promise!Prove
    <2>4. ASSUME NEW r \in Runs, NEW p \in Pairs(r), TagOne(r, p)
          PROVE  Promise!Next
      <3>1. Built[r][p[1]] \in Refs /\ p[2] \in Tags
        BY ConstantsAssumption DEF Pairs, Inv, TypeOK
      <3>2. Built[r][p[1]] \in P
        BY <2>4, <3>1, TagStep
      <3>3. P' = P
        BY <2>4 DEF TagOne, Proven, Has
      <3>4. tags' = [tags EXCEPT ![p[2]] = Built[r][p[1]]]
        BY <2>4 DEF TagOne
      <3> QED
        BY <3>1, <3>2, <3>3, <3>4 DEF Promise!Next, Promise!Move
    <2>5. \/ tags' = tags
          \/ \E r \in Runs : \E p \in Pairs(r) : TagOne(r, p)
      <3>1. ASSUME NEW r \in Runs,
                   \/ StartRun(r) \/ ParallelEnds(r) \/ PublishLost(r)
                   \/ LegsEnd(r) \/ VerifyPasses(r) \/ VerifyFails(r)
                   \/ TagsEnd(r) \/ PushLedger(r) \/ ReleaseEnds(r)
                   \/ ReleaseLost(r) \/ \E f \in Families : PullLedger(r, f)
            PROVE  tags' = tags
        BY <3>1 DEF StartRun, ParallelEnds, PublishLost, LegsEnd, VerifyPasses,
                    VerifyFails, TagsEnd, PushLedger, ReleaseEnds, ReleaseLost,
                    PullLedger
      <3>2. ASSUME NEW r \in Runs, NEW i \in Images,
                   \/ StartWorker(r, i) \/ Push(r, i) \/ NoTarget(r, i)
                   \/ ArtifactPresent(r, i) \/ ArtifactAbsent(r, i)
                   \/ Judge(r, i) \/ AddArtifact(r, i)
                   \/ AppendPublished(r, i) \/ CheckProvenance(r, i)
                   \/ WorkerFails(r, i) \/ LegAttests(r, i) \/ LegFails(r, i)
            PROVE  tags' = tags
        BY <3>2 DEF StartWorker, Push, NoTarget, ArtifactPresent,
                    ArtifactAbsent, Judge, AddArtifact, AppendPublished,
                    CheckProvenance, WorkerFails, LegAttests, LegFails
      <3>3. ASSUME NEW r \in Runs, NEW p \in Pairs(r), TagMissed(r, p)
            PROVE  tags' = tags
        BY <3>3 DEF TagMissed
      <3>4. CASE UNCHANGED vars
        BY <3>4 DEF vars
      <3> QED
        BY StepCases, <3>1, <3>2, <3>3, <3>4
    <2> QED
      BY <2>3, <2>4, <2>5
  <1> QED
    BY <1>1, <1>2, InvCorrect, TypeCorrect, PTL
       DEF Spec, PromiseKept, Promise!Spec

-----------------------------------------------------------------------------
(***************************************************************************)
(* The evidence: nothing is attached twice.  A worker is about to add only *)
(* what says something new to every run that had ended when its run began, *)
(* and that stays so because a run that has ended attaches no more.        *)
(***************************************************************************)

\* What run r would attach as kind k to image i says something that a does not.
News(a, k, r, i) ==
    \/ k = "vuln" /\ Db[a.run] # Db[r]
    \/ k = "openvex" /\ Vex[a.run][a.image] # Vex[r][i]

\* Nothing that a run which had ended before r attached says the same.
NewOver(k, r, i) ==
    \A a \in referrers :
        a.kind = k /\ a.ref = Built[r][i] /\ a.run \in before[r] => News(a, k, r, i)

BeforeInv ==
    /\ before \in [Runs -> SUBSET Runs]
    /\ \A r \in Runs : \A q \in before[r] : job[q] \in Ended

AddInv ==
    \A r \in Runs, i \in Images :
        /\ at[r][i] = "add" => NewOver(kind[r][i], r, i)
        /\ i \in pending[r] \cup legs[r] => NewOver("provenance", r, i)

ReferrersInv ==
    \A a \in referrers :
        /\ a.ref = Built[a.run][a.image]
        /\ NewOver(a.kind, a.run, a.image)

\* A run that has not started has done nothing.
NewInv ==
    \A r \in Runs : job[r] = "new" =>
        /\ before[r] = {} /\ pending[r] = {} /\ legs[r] = {}
        /\ \A i \in Images : at[r][i] = "queued"
        /\ \A a \in referrers : a.run # r

OverlapInv == BeforeInv /\ NewInv /\ AddInv /\ ReferrersInv

-----------------------------------------------------------------------------
\* A run that has ended takes no further step, and none is new again.
LEMMA EndedStays ==
    ASSUME Inv, [Next]_vars, NEW q \in Runs
    PROVE  /\ job[q] \in Ended => job'[q] = job[q]
           /\ job'[q] = "new" => job[q] = "new"
  <1> USE DEF Ended, Inv, TypeOK, GroupInv
  <1>1. ASSUME NEW r \in Runs,
               \/ StartRun(r) \/ ParallelEnds(r) \/ PublishLost(r) \/ LegsEnd(r)
               \/ VerifyFails(r)
        PROVE  (job[q] \in Ended => job'[q] = job[q]) /\ (job'[q] = "new" => job[q] = "new")
    BY <1>1 DEF StartRun, ParallelEnds, PublishLost, LegsEnd, VerifyFails
  <1>2. ASSUME NEW r \in Runs, VerifyPasses(r)
        PROVE  (job[q] \in Ended => job'[q] = job[q]) /\ (job'[q] = "new" => job[q] = "new")
    <2>1. CASE holder = NoRun
      BY <1>2, <2>1 DEF VerifyPasses
    <2>2. CASE holder # NoRun
      <3>1. job'[q] = IF q = r THEN "waiting" ELSE IF q = waiting THEN "cancelled" ELSE job[q]
        BY <1>2, <2>2 DEF VerifyPasses
      <3>2. job[r] = "verify" /\ (q = waiting => job[q] = "waiting")
        BY <1>2, ConstantsAssumption DEF VerifyPasses
      <3> QED
        BY <3>1, <3>2
    <2> QED
      BY <2>1, <2>2
  <1>3. ASSUME NEW r \in Runs, TagsEnd(r) \/ ReleaseEnds(r) \/ ReleaseLost(r)
        PROVE  (job[q] \in Ended => job'[q] = job[q]) /\ (job'[q] = "new" => job[q] = "new")
    <2>1. ASSUME NEW end \in {"failed", "released"}, LeaveRelease(r, end), job[r] \in {"tag", "record"}
          PROVE  (job[q] \in Ended => job'[q] = job[q]) /\ (job'[q] = "new" => job[q] = "new")
      <3>1. job'[q] = IF q = r THEN end ELSE IF q = waiting THEN "tag" ELSE job[q]
        BY <2>1 DEF LeaveRelease
      <3>2. q = waiting => job[q] = "waiting"
        BY ConstantsAssumption
      <3> QED
        BY <2>1, <3>1, <3>2
    <2> QED
      BY <1>3, <2>1 DEF TagsEnd, ReleaseEnds, ReleaseLost
  <1>4. \/ job' = job
        \/ \E r \in Runs :
              \/ StartRun(r) \/ ParallelEnds(r) \/ PublishLost(r) \/ LegsEnd(r)
              \/ VerifyFails(r) \/ VerifyPasses(r)
              \/ TagsEnd(r) \/ ReleaseEnds(r) \/ ReleaseLost(r)
    <2>1. ASSUME NEW r \in Runs, NEW i \in Images,
                   \/ StartWorker(r, i) \/ Push(r, i) \/ NoTarget(r, i)
                   \/ ArtifactPresent(r, i) \/ ArtifactAbsent(r, i)
                   \/ Judge(r, i) \/ AddArtifact(r, i)
                   \/ AppendPublished(r, i) \/ CheckProvenance(r, i)
                   \/ WorkerFails(r, i) \/ LegAttests(r, i) \/ LegFails(r, i)
          PROVE  job' = job
      BY <2>1 DEF StartWorker, Push, NoTarget, ArtifactPresent,
                    ArtifactAbsent, Judge, AddArtifact, AppendPublished,
                    CheckProvenance, WorkerFails, LegAttests, LegFails
    <2>2. ASSUME NEW r \in Runs, NEW p \in Pairs(r), TagOne(r, p) \/ TagMissed(r, p)
          PROVE  job' = job
      BY <2>2 DEF TagOne, TagMissed
    <2>3. ASSUME NEW r \in Runs, NEW f \in Families, PullLedger(r, f) \/ PushLedger(r)
          PROVE  job' = job
      BY <2>3 DEF PullLedger, PushLedger
    <2>4. ASSUME NEW r \in Runs, PushLedger(r)
          PROVE  job' = job
      BY <2>4 DEF PushLedger
    <2>5. CASE UNCHANGED vars
      BY <2>5 DEF vars
    <2> QED
      BY StepCases, <2>1, <2>2, <2>3, <2>4, <2>5
  <1> QED
    BY <1>1, <1>2, <1>3, <1>4

\* The runs that had ended stay ended, and only a run that starts looks at them.
LEMMA BeforeStep ==
    ASSUME Inv, BeforeInv, [OverlapNext]_<<vars, before>>
    PROVE  /\ BeforeInv'
           /\ [Next]_vars
           /\ \A r \in Runs : job[r] # "new" \/ job'[r] = "new" => before'[r] = before[r]
  <1>1. [Next]_vars
    BY DEF OverlapNext
  <1>2. \A q \in Runs : job[q] \in Ended => job'[q] \in Ended
    BY <1>1, EndedStays
  <1>3. CASE UNCHANGED <<vars, before>>
    BY <1>1, <1>3 DEF BeforeInv, vars
  <1>4. CASE OverlapNext
    BY <1>1, <1>2, <1>4 DEF OverlapNext, BeforeInv
  <1> QED
    BY <1>3, <1>4

\* What a live run attaches is no news about the runs that ended before.
LEMMA NewOverStays ==
    ASSUME BeforeInv, NEW s \in Runs, before'[s] = before[s],
           NEW r \in Runs, job[r] \notin Ended,
           \A a \in referrers' : a \in referrers \/ a.run = r,
           NEW k, NEW i, NewOver(k, s, i)
    PROVE  NewOver(k, s, i)'
  <1> SUFFICES ASSUME NEW a \in referrers', a.kind = k, a.ref = Built[s][i], a.run \in before[s]
               PROVE  News(a, k, s, i)
    BY DEF NewOver, News
  <1>1. a \in referrers
    BY DEF BeforeInv
  <1> QED
    BY <1>1 DEF NewOver

\* Steps that neither attach nor move a worker or a leg.
LEMMA QuietStep ==
    ASSUME Inv, OverlapInv, [OverlapNext]_<<vars, before>>,
           UNCHANGED <<at, kind, pending, legs, referrers>>
    PROVE  OverlapInv'
  <1>1. /\ BeforeInv' /\ [Next]_vars
        /\ \A r \in Runs : job[r] # "new" \/ job'[r] = "new" => before'[r] = before[r]
    BY BeforeStep DEF OverlapInv
  <1>2. \A r \in Runs : job'[r] = "new" => job[r] = "new"
    BY <1>1, EndedStays
  <1>3. NewInv'
    BY <1>1, <1>2 DEF NewInv, OverlapInv
  <1>4. \A k, i : \A r \in Runs : job[r] # "new" /\ NewOver(k, r, i) => NewOver(k, r, i)'
    BY <1>1 DEF NewOver, News
  <1>5. AddInv'
    <2> SUFFICES ASSUME NEW r \in Runs, NEW i \in Images
                 PROVE  /\ at[r][i] = "add" => NewOver(kind[r][i], r, i)'
                        /\ i \in pending[r] \cup legs[r] => NewOver("provenance", r, i)'
      BY DEF AddInv
    <2>1. CASE job[r] = "new"
      BY <2>1 DEF OverlapInv, NewInv
    <2>2. CASE job[r] # "new"
      BY <1>4, <2>2 DEF OverlapInv, AddInv
    <2> QED
      BY <2>1, <2>2
  <1>6. ReferrersInv'
    <2> SUFFICES ASSUME NEW a \in referrers
                 PROVE  a.ref = Built[a.run][a.image] /\ NewOver(a.kind, a.run, a.image)'
      BY DEF ReferrersInv
    <2>1. a.run \in Runs /\ job[a.run] # "new"
      BY DEF Inv, TypeOK, Referrer, OverlapInv, NewInv
    <2> QED
      BY <1>4, <2>1 DEF OverlapInv, ReferrersInv
  <1> QED
    BY <1>1, <1>3, <1>5, <1>6 DEF OverlapInv

\* Steps of run r, in publish or provenance, that may attach something for image i,
\* move its worker and change the run's lists.
LEMMA BusyStep ==
    ASSUME Inv, OverlapInv, [OverlapNext]_<<vars, before>>,
           NEW r \in Runs, NEW i \in Images, job[r] \in {"publish", "provenance"},
           \A s \in Runs : job[s] = "new" => job'[s] = "new",
           \A s \in Runs : s # r => at'[s] = at[s] /\ kind'[s] = kind[s]
                                   /\ pending'[s] = pending[s] /\ legs'[s] = legs[s],
           \A j \in Images : j # i => at'[r][j] = at[r][j] /\ kind'[r][j] = kind[r][j],
           pending'[r] \cup legs'[r] \subseteq pending[r] \cup legs[r] \cup {i},
           at'[r][i] = "add" => NewOver(kind'[r][i], r, i) \/ UNCHANGED <<at, kind>>,
           i \in pending'[r] \cup legs'[r] => NewOver("provenance", r, i),
           \A a \in referrers' : a \in referrers
               \/ (a.run = r /\ a.image = i /\ a.ref = Built[r][i] /\ NewOver(a.kind, r, i))
    PROVE  OverlapInv'
  <1>1. BeforeInv' /\ before' = before /\ [Next]_vars
    <2>1. /\ BeforeInv' /\ [Next]_vars
          /\ \A s \in Runs : job[s] # "new" \/ job'[s] = "new" => before'[s] = before[s]
      BY BeforeStep DEF OverlapInv
    <2> QED
      BY <2>1 DEF OverlapInv, BeforeInv
  <1>2. job[r] \notin Ended /\ job[r] # "new"
    BY DEF Ended
  <1>3. \A s \in Runs : \A k, j : NewOver(k, s, j) => NewOver(k, s, j)'
    BY <1>1, <1>2, NewOverStays DEF OverlapInv
  <1>4. NewInv'
    <2> SUFFICES ASSUME NEW s \in Runs, job'[s] = "new"
                 PROVE  /\ before'[s] = {} /\ pending'[s] = {} /\ legs'[s] = {}
                        /\ \A j \in Images : at'[s][j] = "queued"
                        /\ \A a \in referrers' : a.run # s
      BY DEF NewInv
    <2>1. job[s] = "new"
      BY <1>1, EndedStays
    <2>2. s # r
      BY <1>2, <2>1
    <2> QED
      BY <1>1, <2>1, <2>2 DEF OverlapInv, NewInv
  <1>5. AddInv'
    <2> SUFFICES ASSUME NEW s \in Runs, NEW j \in Images
                 PROVE  /\ at'[s][j] = "add" => NewOver(kind[s][j], s, j)'
                        /\ j \in pending'[s] \cup legs'[s] => NewOver("provenance", s, j)'
      BY DEF AddInv
    <2> DEFINE k == kind'[s][j]
    <2>1. at'[s][j] = "add" => NewOver(k, s, j)
      <3>1. CASE s = r /\ j = i
        BY <3>1 DEF OverlapInv, AddInv
      <3>2. CASE s # r \/ j # i
        <4>1. at'[s][j] = at[s][j] /\ k = kind[s][j]
          BY <3>2
        <4> QED
          BY <4>1 DEF OverlapInv, AddInv
      <3> QED
        BY <3>1, <3>2
    <2>2. j \in pending'[s] \cup legs'[s] => NewOver("provenance", s, j)
      <3>1. CASE s = r /\ j = i
        BY <3>1
      <3>2. CASE s # r \/ j # i
        BY <3>2 DEF OverlapInv, AddInv
      <3> QED
        BY <3>1, <3>2
    <2> HIDE DEF k
    <2>3. at'[s][j] = "add" => \A a \in referrers' :
              a.kind = k /\ a.ref = Built[s][j] /\ a.run \in before'[s] => News(a, k, s, j)
      BY <2>1, <1>3 DEF NewOver
    <2>4. j \in pending'[s] \cup legs'[s] => NewOver("provenance", s, j)'
      BY <2>2, <1>3
    <2> QED
      BY <2>3, <2>4 DEF NewOver, News, k
  <1>6. ReferrersInv'
    <2> SUFFICES ASSUME NEW a \in referrers'
                 PROVE  a.ref = Built[a.run][a.image] /\ NewOver(a.kind, a.run, a.image)'
      BY DEF ReferrersInv
    <2>1. CASE a \in referrers
      <3>1. a.run \in Runs
        BY <2>1 DEF Inv, TypeOK, Referrer
      <3> QED
        BY <1>3, <2>1, <3>1 DEF OverlapInv, ReferrersInv
    <2>2. CASE a \notin referrers
      BY <1>3, <2>2
    <2> QED
      BY <2>1, <2>2
  <1> QED
    BY <1>1, <1>4, <1>5, <1>6 DEF OverlapInv

\* The steps of the worker of one image: it goes to "add" only past a registry
\* that does not have the artifact, or has nothing that says the same.
LEMMA WorkerOverlap ==
    ASSUME Inv, OverlapInv, [OverlapNext]_<<vars, before>>,
           NEW r \in Runs, NEW i \in Images,
           \/ StartWorker(r, i) \/ Push(r, i) \/ NoTarget(r, i)
           \/ ArtifactPresent(r, i) \/ ArtifactAbsent(r, i)
           \/ Judge(r, i) \/ AddArtifact(r, i)
           \/ AppendPublished(r, i) \/ CheckProvenance(r, i)
           \/ WorkerFails(r, i)
    PROVE  OverlapInv'
  <1>1. /\ job' = job /\ job[r] = "publish" /\ legs' = legs
        /\ pending' = pending \/ CheckProvenance(r, i)
        /\ referrers' = referrers \/ AddArtifact(r, i)
    BY DEF StartWorker, Push, NoTarget, ArtifactPresent, ArtifactAbsent, Judge,
           AddArtifact, AppendPublished, CheckProvenance, WorkerFails, Checks, legVars
  <1>2. /\ \E ph : Goto(r, i, ph)
        /\ \E k : kind' = [kind EXCEPT ![r][i] = k]
    <2>1. \A T : StepDone(r, i, T) => /\ \E ph : Goto(r, i, ph)
                                     /\ \E k : kind' = [kind EXCEPT ![r][i] = k]
      BY DEF StepDone
    <2>2. kind' = kind => \E k : kind' = [kind EXCEPT ![r][i] = k]
      <3>1. kind = [kind EXCEPT ![r][i] = kind[r][i]]
        BY DEF Inv, TypeOK
      <3> QED
        BY <3>1
    <2> QED
      BY <2>1, <2>2 DEF StartWorker, Push, NoTarget, ArtifactPresent, ArtifactAbsent,
         Judge, AddArtifact, AppendPublished, CheckProvenance, WorkerFails
  <1>3. /\ \A s \in Runs : s # r => at'[s] = at[s] /\ kind'[s] = kind[s]
        /\ \A j \in Images : j # i => at'[r][j] = at[r][j] /\ kind'[r][j] = kind[r][j]
    BY <1>2 DEF Goto, Inv, TypeOK
  <1>4. /\ \A s \in Runs : s # r => pending'[s] = pending[s]
        /\ pending'[r] \subseteq pending[r] \cup {i}
    BY <1>1 DEF CheckProvenance, Inv, TypeOK
  <1>5. at'[r][i] = "add" => NewOver(kind'[r][i], r, i)
    <2> USE DEF Goto, Inv, TypeOK
    <2>1. \A T : StepDone(r, i, T) => at'[r][i] # "add"
      BY DEF StepDone
    <2>2. CASE StartWorker(r, i) \/ Push(r, i) \/ AppendPublished(r, i)
               \/ CheckProvenance(r, i) \/ WorkerFails(r, i)
      BY <2>2 DEF StartWorker, Push, AppendPublished, CheckProvenance, WorkerFails
    <2>3. CASE NoTarget(r, i) \/ ArtifactPresent(r, i) \/ AddArtifact(r, i)
      BY <2>1, <2>3 DEF NoTarget, ArtifactPresent, AddArtifact
    <2>4. CASE ArtifactAbsent(r, i)
      BY <2>4 DEF ArtifactAbsent, Has, NewOver
    <2>5. CASE Judge(r, i)
      <3>1. CASE Stale(r, i, kind[r][i])
        <4>1. kind' = kind /\ Db \in [Runs -> Nat]
          BY <2>5, <3>1, ConstantsAssumption DEF Judge
        <4>2. \A a \in referrers : a.run \in Runs
          BY DEF Referrer
        <4>3. kind[r][i] = "vuln" /\ StaleVuln(r, Built[r][i]) => NewOver(kind[r][i], r, i)
          BY <4>1, <4>2 DEF StaleVuln, Attached, NewOver, News
        <4>4. kind[r][i] = "openvex" /\ StaleOpenvex(r, i, Built[r][i])
                => NewOver(kind[r][i], r, i)
          BY DEF StaleOpenvex, Attached, NewOver, News
        <4> QED
          BY <3>1, <4>1, <4>3, <4>4 DEF Stale
      <3>2. CASE ~Stale(r, i, kind[r][i])
        BY <2>1, <2>5, <3>2 DEF Judge
      <3> QED
        BY <3>1, <3>2
    <2> QED
      BY <2>2, <2>3, <2>4, <2>5
  <1>6. i \in pending'[r] \cup legs'[r] => NewOver("provenance", r, i)
    <2>1. CASE i \in pending[r] \cup legs[r]
      BY <2>1 DEF OverlapInv, AddInv
    <2>2. CASE CheckProvenance(r, i)
      BY <2>2, <2>1, <1>1 DEF CheckProvenance, Has, NewOver, Inv, TypeOK
    <2>3. CASE i \notin pending[r] \cup legs[r] /\ ~CheckProvenance(r, i)
      <3>1. pending' = pending
        BY <2>3 DEF StartWorker, Push, NoTarget, ArtifactPresent, ArtifactAbsent,
             Judge, AddArtifact, AppendPublished, WorkerFails
      <3> QED
        BY <2>3, <3>1, <1>1
    <2> QED
      BY <2>1, <2>2, <2>3
  <1>7. \A a \in referrers' : a \in referrers
            \/ (a.run = r /\ a.image = i /\ a.ref = Built[r][i] /\ NewOver(a.kind, r, i))
    <2>1. CASE referrers' = referrers
      BY <2>1
    <2>2. CASE AddArtifact(r, i)
      <3>1. NewOver(kind[r][i], r, i)
        BY <2>2 DEF AddArtifact, OverlapInv, AddInv
      <3> QED
        BY <2>2, <3>1 DEF AddArtifact
    <2> QED
      BY <1>1, <2>1, <2>2
  <1> QED
    BY <1>1, <1>3, <1>4, <1>5, <1>6, <1>7, BusyStep

\* The provenance legs are the images whose digest had no provenance.
LEMMA LegOverlap ==
    ASSUME Inv, OverlapInv, [OverlapNext]_<<vars, before>>,
           NEW r \in Runs, NEW i \in Images, LegAttests(r, i) \/ LegFails(r, i)
    PROVE  OverlapInv'
  <1>1. /\ job' = job /\ job[r] = "provenance" /\ i \in legs[r]
        /\ UNCHANGED <<at, kind, pending>>
        /\ \A s \in Runs : s # r => legs'[s] = legs[s]
        /\ legs'[r] \subseteq legs[r]
    BY DEF LegAttests, LegFails, workerVars, Inv, TypeOK
  <1>2. NewOver("provenance", r, i)
    BY <1>1 DEF OverlapInv, AddInv
  <1>3. \A a \in referrers' : a \in referrers
            \/ (a.run = r /\ a.image = i /\ a.ref = Built[r][i] /\ NewOver(a.kind, r, i))
    BY <1>2 DEF LegAttests, LegFails
  <1> QED
    BY <1>1, <1>2, <1>3, BusyStep

\* The end of publish hands the pending images to the matrix.
LEMMA EndOverlap ==
    ASSUME Inv, OverlapInv, [OverlapNext]_<<vars, before>>,
           NEW r \in Runs, ParallelEnds(r)
    PROVE  OverlapInv'
  <1>1. /\ job[r] = "publish" /\ UNCHANGED <<at, kind, pending, referrers>>
        /\ \A s \in Runs : s # r => legs'[s] = legs[s] /\ job'[s] = job[s]
        /\ legs'[r] = pending[r]
    BY DEF ParallelEnds, workerVars, Inv, TypeOK
  <1>2. CASE Images = {}
    <2>1. legs' = legs
      <3>1. legs'[r] = {} /\ legs[r] = {}
        BY <1>1, <1>2 DEF Inv, TypeOK
      <3>2. legs' = [legs EXCEPT ![r] = legs[r]]
        BY <1>1, <3>1 DEF ParallelEnds
      <3> QED
        BY <3>2 DEF Inv, TypeOK
    <2> QED
      BY <1>1, <2>1, QuietStep
  <1>3. ASSUME NEW i \in Images
        PROVE  OverlapInv'
    <2>1. i \in pending'[r] \cup legs'[r] => NewOver("provenance", r, i)
      BY <1>1 DEF OverlapInv, AddInv
    <2> QED
      BY <1>1, <2>1, BusyStep
  <1> QED
    BY <1>2, <1>3

\* Every step of the pipeline keeps the invariant.
LEMMA OverlapStep ==
    Inv /\ OverlapInv /\ [OverlapNext]_<<vars, before>> => OverlapInv'
  <1> SUFFICES ASSUME Inv, OverlapInv, [OverlapNext]_<<vars, before>> PROVE OverlapInv'
    OBVIOUS
  <1> DEFINE quiet == UNCHANGED <<at, kind, pending, legs, referrers>>
  <1>1. [Next]_vars
    BY DEF OverlapNext, vars
  <1>2. ASSUME NEW r \in Runs,
               \/ StartRun(r) \/ PublishLost(r) \/ LegsEnd(r) \/ VerifyPasses(r)
               \/ VerifyFails(r) \/ TagsEnd(r) \/ PushLedger(r) \/ ReleaseEnds(r)
               \/ ReleaseLost(r)
        PROVE  quiet
    BY <1>2 DEF StartRun, PublishLost, LegsEnd, VerifyPasses, VerifyFails, TagsEnd,
                PushLedger, ReleaseEnds, ReleaseLost, workerVars, legVars
  <1>3. ASSUME NEW r \in Runs, NEW p \in Pairs(r), TagOne(r, p) \/ TagMissed(r, p)
        PROVE  quiet
    BY <1>3 DEF TagOne, TagMissed, workerVars, legVars
  <1>4. ASSUME NEW r \in Runs, NEW f \in Families, PullLedger(r, f)
        PROVE  quiet
    BY <1>4 DEF PullLedger, workerVars, legVars
  <1>5. CASE UNCHANGED vars
    BY <1>5, QuietStep DEF vars, workerVars, legVars
  <1> QED
    BY <1>1, <1>2, <1>3, <1>4, <1>5, StepCases, QuietStep, WorkerOverlap, LegOverlap,
       EndOverlap

\* Nothing is attached before the first run.
LEMMA OverlapBegins == OverlapInit => OverlapInv
  BY DEF OverlapInit, Init, OverlapInv, BeforeInv, NewInv, AddInv, ReferrersInv

\* Two artifacts of one kind on one digest were attached by one run for one
\* image, and then are one, or by two runs; and if these did not overlap, one
\* had ended when the other began and was seen by it.
LEMMA OverlapInvSuffices ==
    ASSUME Inv, OverlapInv
    PROVE  OneOfEachPerDigest
  <1> SUFFICES ASSUME NEW a \in referrers, NEW b \in referrers,
                      a.ref = b.ref, a.kind = b.kind, a # b,
                      a.run = b.run \/ ~Overlapped(a.run, b.run)
               PROVE  \/ a.kind = "vuln" /\ Db[a.run] # Db[b.run]
                      \/ a.kind = "openvex" /\ Vex[a.run][a.image] # Vex[b.run][b.image]
    BY DEF OneOfEachPerDigest
  <1>1. a \in Referrer /\ b \in Referrer
    BY DEF Inv, TypeOK
  <1>2. /\ a.ref = Built[a.run][a.image] /\ NewOver(a.kind, a.run, a.image)
        /\ b.ref = Built[b.run][b.image] /\ NewOver(b.kind, b.run, b.image)
    BY DEF OverlapInv, ReferrersInv
  <1>3. a.run # b.run
    <2> SUFFICES ASSUME a.run = b.run PROVE FALSE
      OBVIOUS
    <2>1. a.image = b.image
      BY <1>1, <1>2, ImagesDiffer DEF Referrer
    <2> QED
      BY <1>1, <2>1 DEF Referrer
  <1>4. CASE a.run \in before[b.run]
    BY <1>2, <1>4 DEF NewOver, News
  <1>5. CASE b.run \in before[a.run]
    BY <1>2, <1>5 DEF NewOver, News
  <1> QED
    BY <1>3, <1>4, <1>5 DEF Overlapped

\* needs_artifact and stale.jq, for any runs, images, builds and pins, whatever
\* fails: two artifacts of one kind on one digest say different things or come
\* from runs that overlapped.
THEOREM AttachedOnce == OverlapSpec => []OneOfEachPerDigest
  <1> DEFINE Both == Inv /\ OverlapInv
  <1>1. OverlapInit => Both
    BY InvInit, OverlapBegins DEF OverlapInit
  <1>2. Both /\ [OverlapNext]_<<vars, before>> => Both'
    <2> SUFFICES ASSUME Inv, OverlapInv, [OverlapNext]_<<vars, before>> PROVE Both'
      OBVIOUS
    <2>1. [Next]_vars
      BY DEF OverlapNext, vars
    <2> QED
      BY <2>1, InvStep, OverlapStep
  <1>3. Both => OneOfEachPerDigest
    BY OverlapInvSuffices
  <1> HIDE DEF Both
  <1> QED
    BY <1>1, <1>2, <1>3, PTL DEF OverlapSpec, OverlapSafety

-----------------------------------------------------------------------------
(***************************************************************************)
(* The tag ledger.                                                         *)
(***************************************************************************)

\* A tag is repository:tag, and an image is pushed to one repository.
TagsOfOneRepository ==
    \A r \in Runs : \A i, j \in Images :
        TagsOf[r][i] \cap TagsOf[r][j] # {} => Family[i] = Family[j]

-----------------------------------------------------------------------------
(* The last event about a tag. *)

\* Among places in a ledger there is a last one.
LEMMA LastOne ==
    ASSUME NEW n \in Nat, NEW S \in SUBSET (1 .. n), S # {}
    PROVE  \E m \in S : \A k \in S : k <= m
  <1> DEFINE T == {n - k : k \in S}
  <1>1. T \subseteq Nat /\ T # {}
    <2>1. \A k \in 1 .. n : n - k \in Nat
      OBVIOUS
    <2> QED
      BY <2>1
  <1>2. \E x \in T : \A y \in T : ~ (<<y, x>> \in OpToRel(<, Nat))
    <2> HIDE DEF T
    <2> QED
      BY <1>1, NatLessThanWellFounded, WFMin
  <1>3. PICK x \in T : \A y \in T : ~ (y < x)
    BY <1>1, <1>2 DEF OpToRel
  <1>4. PICK m \in S : x = n - m
    BY <1>3
  <1>5. \A k \in S : ~ (n - k < n - m)
    BY <1>3, <1>4
  <1> QED
    BY <1>5

\* An appended event speaks for the tags it moves, and for no other.
LEMMA CurrentAppend ==
    ASSUME NEW events \in Seq(Entry), NEW e \in Entry, NEW t
    PROVE  Current(Append(events, e), t) =
              IF t \in DOMAIN e.moves THEN e.moves[t] ELSE Current(events, t)
  <1> DEFINE n == Len(events)
             all == Append(events, e)
             About(s) == {m \in DOMAIN s : t \in DOMAIN s[m].moves}
             Last(S) == CHOOSE m \in S : \A k \in S : k <= m
  <1>1. /\ n \in Nat /\ DOMAIN events = 1 .. n /\ DOMAIN all = 1 .. n + 1
        /\ all[n + 1] = e /\ \A m \in 1 .. n : all[m] = events[m]
    BY AppendProperties
  <1>2. Current(events, t) = IF About(events) = {} THEN NoRef ELSE events[Last(About(events))].moves[t]
    BY DEF Current
  <1>3. Current(all, t) = IF About(all) = {} THEN NoRef ELSE all[Last(About(all))].moves[t]
    BY DEF Current
  <1>4. CASE t \in DOMAIN e.moves
    <2>1. n + 1 \in About(all) /\ \A k \in About(all) : k \in 1 .. n + 1
      BY <1>1, <1>4
    <2>2. \A k \in About(all) : k <= n + 1
      BY <2>1, <1>1
    <2>3. Last(About(all)) \in About(all) /\ n + 1 <= Last(About(all))
      <3> HIDE DEF About
      <3> QED
        BY <2>1, <2>2
    <2>4. Last(About(all)) = n + 1
      <3>1. Last(About(all)) \in 1 .. n + 1
        BY <2>1, <2>3
      <3> HIDE DEF About, Last
      <3> QED
        BY <2>3, <3>1, <1>1
    <2> QED
      BY <1>1, <1>3, <1>4, <2>1, <2>4
  <1>5. CASE t \notin DOMAIN e.moves
    <2>1. About(all) = About(events)
      BY <1>1, <1>5
    <2>2. CASE About(events) = {}
      BY <1>2, <1>3, <1>5, <2>1, <2>2
    <2>3. CASE About(events) # {}
      <3>1. About(events) \in SUBSET (1 .. n)
        BY <1>1
      <3>2. Last(About(events)) \in 1 .. n
        <4> HIDE DEF About, n
        <4>1. \E m \in About(events) : \A k \in About(events) : k <= m
          BY <1>1, <2>3, <3>1, LastOne
        <4> QED
          BY <4>1, <3>1
      <3>3. all[Last(About(events))] = events[Last(About(events))]
        BY <3>2, <1>1
      <3> QED
        BY <1>2, <1>3, <1>5, <2>1, <2>3, <3>3
    <2> QED
      BY <2>2, <2>3
  <1> QED
    BY <1>4, <1>5

-----------------------------------------------------------------------------
(***************************************************************************)
(* The inductive invariant: releases run one at a time, so a ledger that   *)
(* was pulled is still the ledger when it is pushed, and what a release    *)
(* tagged or recorded stands until it ends.                                *)
(***************************************************************************)

Before == {"new", "publish", "provenance", "verify", "waiting"}

\* No other image of run r applies the tag of pair p.
OneImage(r, p) == \A q \in Pairs(r) : q[2] = p[2] => q = p

TagsStand(r) ==
    \A p \in tagged[r] \cap Pairs(r) : OneImage(r, p) => tags[p[2]] = Built[r][p[1]]

Recorded(r, f) ==
    /\ ~AppliedTwice(r, f)
    /\ \A p \in Pairs(r) : Family[p[1]] = f => Current(ledger[f], p[2]) = Built[r][p[1]]

ReleaseInv(r) ==
    /\ job[r] \in Before \cup {"tag"} => recorded[r] = {} /\ family[r] = NoFamily
    /\ job[r] \in {"tag", "record"} => holder = r /\ TagsStand(r)
    /\ job[r] = "record" =>
          /\ Pairs(r) \subseteq tagged[r]
          /\ family[r] # NoFamily => draft[r] = ledger[family[r]]
          /\ \A f \in recorded[r] : Recorded(r, f)
    /\ job[r] \in Before => tagged[r] = {}

LedgerInv == LedgerHoldsMoves /\ \A r \in Runs : ReleaseInv(r)

\* What a release applies is fixed once publish is over.
LEMMA PairsStay ==
    ASSUME NEW r \in Runs, published'[r] = published[r]
    PROVE  /\ Pairs(r)' = Pairs(r)
           /\ \A f : AppliedTwice(r, f)' <=> AppliedTwice(r, f)
           /\ \A p : OneImage(r, p)' <=> OneImage(r, p)
  BY DEF Pairs, AppliedTwice, Applying, OneImage

\* A run that takes no step of its release keeps what it had.
LEMMA ReleaseStays ==
    ASSUME NEW r \in Runs, ReleaseInv(r),
           job'[r] = job[r] \/ job'[r] \in Before \cup Ended,
           job'[r] \in Before => job[r] \in Before,
           job[r] \in {"tag", "record"} => /\ holder' = holder /\ tags' = tags
                                           /\ ledger' = ledger /\ published'[r] = published[r],
           family'[r] = family[r], draft'[r] = draft[r],
           recorded'[r] = recorded[r], tagged'[r] = tagged[r]
    PROVE  ReleaseInv(r)'
  <1>1. CASE job'[r] \in Before
    BY <1>1 DEF ReleaseInv, Before
  <1>2. CASE job'[r] \in Ended
    BY <1>2 DEF ReleaseInv, Before, Ended
  <1>3. CASE job'[r] = job[r] /\ job[r] \in {"tag", "record"}
    <2>1. UNCHANGED <<holder, tags, ledger>> /\ published'[r] = published[r]
      BY <1>3
    <2>2. TagsStand(r)' /\ \A f \in recorded[r] : Recorded(r, f) => Recorded(r, f)'
      BY <1>3, <2>1, PairsStay DEF ReleaseInv, TagsStand, Recorded
    <2> QED
      BY <1>3, <2>1, <2>2, PairsStay DEF ReleaseInv, Before
  <1>4. CASE job'[r] = job[r] /\ job[r] \notin {"tag", "record"} \cup Before \cup Ended
    BY <1>4 DEF ReleaseInv, Before
  <1> QED
    BY <1>1, <1>2, <1>3, <1>4

\* What the ledger holds stays proven while the registry only grows.
LEMMA MovesStand ==
    ASSUME LedgerHoldsMoves, ledger' = ledger,
           pushed \subseteq pushed', referrers \subseteq referrers'
    PROVE  LedgerHoldsMoves'
  BY ProvenStays DEF LedgerHoldsMoves

\* The steps outside job release.
LEMMA OutsideStep ==
    ASSUME Inv, LedgerInv, [Next]_vars, NEW r \in Runs, NEW i \in Images,
           \/ StartRun(r) \/ ParallelEnds(r) \/ PublishLost(r) \/ LegsEnd(r) \/ VerifyFails(r)
           \/ StartWorker(r, i) \/ Push(r, i) \/ NoTarget(r, i)
           \/ ArtifactPresent(r, i) \/ ArtifactAbsent(r, i) \/ Judge(r, i)
           \/ AddArtifact(r, i) \/ AppendPublished(r, i) \/ CheckProvenance(r, i)
           \/ WorkerFails(r, i) \/ LegAttests(r, i) \/ LegFails(r, i)
    PROVE  LedgerInv'
  <1>1. UNCHANGED <<tagged, family, draft, recorded, holder, tags, ledger>>
    BY DEF StartRun, ParallelEnds, PublishLost, LegsEnd, VerifyFails, StartWorker, Push, NoTarget,
           ArtifactPresent, ArtifactAbsent, Judge, AddArtifact, AppendPublished, CheckProvenance,
           WorkerFails, LegAttests, LegFails, releaseVars, groupVars
  <1>2. \A s \in Runs :
           /\ job'[s] = job[s] \/ job'[s] \in {"publish", "provenance", "verify", "failed"}
           /\ job'[s] \in Before => job[s] \in Before
    BY DEF Inv, TypeOK, Before, StartRun, ParallelEnds, PublishLost, LegsEnd, VerifyFails,
           StartWorker, Push, NoTarget, ArtifactPresent, ArtifactAbsent, Judge, AddArtifact,
           AppendPublished, CheckProvenance, WorkerFails, LegAttests, LegFails
  <1>3. \A s \in Runs : job[s] \in {"tag", "record"} => published'[s] = published[s]
    BY DEF Inv, TypeOK, StartRun, ParallelEnds, PublishLost, LegsEnd, VerifyFails,
           StartWorker, Push, NoTarget, ArtifactPresent, ArtifactAbsent, Judge, AddArtifact,
           AppendPublished, CheckProvenance, WorkerFails, LegAttests, LegFails, workerVars
  <1>4. \A s \in Runs : ReleaseInv(s)'
    BY <1>1, <1>2, <1>3, ReleaseStays DEF LedgerInv, Before, Ended
  <1>5. LedgerHoldsMoves'
    BY <1>1, RegistryGrows, MovesStand DEF LedgerInv
  <1> QED
    BY <1>4, <1>5 DEF LedgerInv

\* No other run is in its release while one is.
LEMMA OneRelease ==
    ASSUME LedgerInv, NEW r \in Runs, job[r] \in {"tag", "record"}
    PROVE  holder = r /\ \A s \in Runs \ {r} : job[s] \notin {"tag", "record"}
  BY DEF LedgerInv, ReleaseInv

\* A run that passes verify enters the release group, or waits for it, with nothing
\* tagged or recorded.
LEMMA EnterStep ==
    ASSUME Inv, LedgerInv, [Next]_vars, NEW r \in Runs, VerifyPasses(r)
    PROVE  LedgerInv'
  <1>1. UNCHANGED <<tagged, family, draft, recorded, published, pushed, referrers, tags, ledger>>
    BY DEF VerifyPasses, releaseVars, workerVars
  <1>2. LedgerHoldsMoves'
    BY <1>1, MovesStand DEF LedgerInv
  <1>3. CASE holder = NoRun
    <2>1. job' = [job EXCEPT ![r] = "tag"] /\ holder' = r
      BY <1>3 DEF VerifyPasses
    <2>2. \A s \in Runs : job[s] \notin {"tag", "record"}
      BY <1>3, ConstantsAssumption DEF LedgerInv, ReleaseInv
    <2>3. ReleaseInv(r)'
      BY <1>1, <2>1 DEF VerifyPasses, LedgerInv, ReleaseInv, Before, TagsStand, Inv, TypeOK
    <2>4. \A s \in Runs \ {r} : job'[s] = job[s]
      BY <2>1 DEF Inv, TypeOK
    <2>5. \A s \in Runs \ {r} : ReleaseInv(s)'
      BY <1>1, <2>2, <2>4, ReleaseStays DEF LedgerInv
    <2> QED
      BY <1>2, <2>3, <2>5 DEF LedgerInv
  <1>4. CASE holder # NoRun
    <2>1. /\ holder' = holder
          /\ \A s \in Runs : job'[s] = IF s = r THEN "waiting"
                                       ELSE IF s = waiting THEN "cancelled" ELSE job[s]
      BY <1>4 DEF VerifyPasses
    <2>2. job[r] = "verify"
      BY DEF VerifyPasses
    <2>3. \A s \in Runs : ReleaseInv(s)'
      BY <1>1, <2>1, <2>2, ReleaseStays DEF LedgerInv, Before, Ended
    <2> QED
      BY <1>2, <2>3 DEF LedgerInv
  <1> QED
    BY <1>3, <1>4

\* A run that leaves the release group leaves it to the one that waits.
LEMMA LeaveStep ==
    ASSUME Inv, LedgerInv, NEW r \in Runs, job[r] \in {"tag", "record"},
           NEW end \in {"failed", "released"}, LeaveRelease(r, end),
           UNCHANGED <<workerVars, releaseVars, pushed, referrers, tags, ledger>>
    PROVE  LedgerInv'
  <1>1. LedgerHoldsMoves'
    BY MovesStand DEF LedgerInv
  <1>2. \A s \in Runs \ {r} : job[s] \notin {"tag", "record"}
    BY OneRelease
  <1>3. /\ holder' = waiting
        /\ \A s \in Runs : job'[s] = IF s = r THEN end ELSE IF s = waiting THEN "tag" ELSE job[s]
    BY DEF LeaveRelease
  <1>4. ASSUME NEW s \in Runs
        PROVE  ReleaseInv(s)'
    <2>1. CASE s = r
      BY <1>3, <2>1 DEF ReleaseInv, Before
    <2>2. CASE s # r /\ s = waiting
      <3>1. job[s] = "waiting"
        BY <2>2, ConstantsAssumption DEF Inv, GroupInv
      <3>2. recorded[s] = {} /\ family[s] = NoFamily /\ tagged[s] = {}
        BY <3>1 DEF LedgerInv, ReleaseInv, Before
      <3> QED
        BY <1>3, <2>2, <3>2 DEF ReleaseInv, Before, TagsStand, releaseVars
    <2>3. CASE s # r /\ s # waiting
      BY <1>2, <1>3, <2>3, ReleaseStays DEF LedgerInv, releaseVars
    <2> QED
      BY <2>1, <2>2, <2>3
  <1> QED
    BY <1>1, <1>4 DEF LedgerInv

\* The steps of the Tag step.
LEMMA TagSteps ==
    ASSUME Inv, LedgerInv, [Next]_vars, NEW r \in Runs, NEW p,
           \/ p \in Pairs(r) /\ TagOne(r, p)
           \/ p \in Pairs(r) /\ TagMissed(r, p)
           \/ TagsEnd(r) /\ missed[r] = {}
    PROVE  LedgerInv'
  <1>1. /\ UNCHANGED <<published, pushed, referrers, ledger, holder, family, draft, recorded>>
        /\ job[r] = "tag"
    BY DEF TagOne, TagMissed, TagsEnd, workerVars, releaseVars, groupVars
  <1>2. LedgerHoldsMoves'
    BY <1>1, MovesStand DEF LedgerInv
  <1>3. \A s \in Runs \ {r} : job'[s] = job[s] /\ tagged'[s] = tagged[s]
    BY DEF TagOne, TagMissed, TagsEnd, releaseVars, Inv, TypeOK
  <1>4. \A s \in Runs \ {r} : ReleaseInv(s)'
    BY <1>1, <1>3, OneRelease, ReleaseStays DEF LedgerInv, Before
  <1>5. recorded[r] = {} /\ family[r] = NoFamily /\ holder = r /\ TagsStand(r)
    BY <1>1 DEF LedgerInv, ReleaseInv
  <1>6. ReleaseInv(r)'
    <2>1. CASE p \in Pairs(r) /\ TagOne(r, p)
      <3>1. /\ job'[r] = "tag" /\ tagged'[r] = tagged[r] \cup {p}
            /\ tags' = [tags EXCEPT ![p[2]] = Built[r][p[1]]]
        BY <1>1, <2>1 DEF TagOne, Inv, TypeOK
      <3>2. \A q \in Pairs(r) : q[2] \in Tags
        BY DEF Pairs
      <3>3. \A q \in tagged'[r] \cap Pairs(r) : OneImage(r, q) => tags'[q[2]] = Built[r][q[1]]
        <4> TAKE q \in tagged'[r] \cap Pairs(r)
        <4> HAVE OneImage(r, q)
        <4>1. CASE q = p
          BY <3>1, <3>2, <4>1 DEF Inv, TypeOK
        <4>2. CASE q # p
          BY <1>5, <2>1, <3>1, <3>2, <4>2 DEF OneImage, TagsStand, Inv, TypeOK
        <4> QED
          BY <4>1, <4>2
      <3>4. TagsStand(r)'
        BY <1>1, <3>3, PairsStay DEF TagsStand
      <3> QED
        BY <1>1, <1>5, <3>1, <3>4 DEF ReleaseInv, Before
    <2>2. CASE p \in Pairs(r) /\ TagMissed(r, p)
      <3>1. job'[r] = "tag" /\ tagged' = tagged /\ tags' = tags
        BY <1>1, <2>2 DEF TagMissed
      <3>2. TagsStand(r)'
        BY <1>1, <1>5, <3>1, PairsStay DEF TagsStand
      <3> QED
        BY <1>1, <1>5, <3>1, <3>2 DEF ReleaseInv, Before
    <2>3. CASE TagsEnd(r) /\ missed[r] = {}
      <3>1. /\ job'[r] = "record" /\ tagged' = tagged /\ tags' = tags
            /\ Pairs(r) \subseteq tagged[r]
        BY <2>3 DEF TagsEnd, releaseVars, Inv, TypeOK
      <3>2. TagsStand(r)'
        BY <1>1, <1>5, <3>1, PairsStay DEF TagsStand
      <3>3. Pairs(r)' = Pairs(r)
        BY <1>1, PairsStay
      <3> QED
        BY <1>1, <1>5, <3>1, <3>2, <3>3 DEF ReleaseInv, Before
    <2> QED
      BY <2>1, <2>2, <2>3
  <1> QED
    BY <1>2, <1>4, <1>6 DEF LedgerInv

\* A run that pulls a ledger has what the ledger says, as it alone writes.
LEMMA PullStep ==
    ASSUME Inv, LedgerInv, NEW r \in Runs, NEW f \in Families, PullLedger(r, f)
    PROVE  LedgerInv'
  <1>1. /\ UNCHANGED <<job, published, pushed, referrers, tags, tagged, ledger, holder, recorded>>
        /\ job[r] = "record"
    BY DEF PullLedger, workerVars, groupVars
  <1>2. LedgerHoldsMoves'
    BY <1>1, MovesStand DEF LedgerInv
  <1>3. \A s \in Runs \ {r} : family'[s] = family[s] /\ draft'[s] = draft[s]
    BY DEF PullLedger, Inv, TypeOK
  <1>4. \A s \in Runs \ {r} : ReleaseInv(s)'
    BY <1>1, <1>3, ReleaseStays DEF LedgerInv
  <1>5. family'[r] = f /\ draft'[r] = ledger[f]
    BY DEF PullLedger, Inv, TypeOK
  <1>6. ReleaseInv(r)'
    <2>1. TagsStand(r)' /\ \A g \in recorded[r] : Recorded(r, g)'
      BY <1>1, PairsStay DEF LedgerInv, ReleaseInv, TagsStand, Recorded
    <2>2. Pairs(r)' \subseteq tagged'[r]
      BY <1>1, PairsStay DEF LedgerInv, ReleaseInv
    <2> QED
      BY <1>1, <1>5, <2>1, <2>2 DEF LedgerInv, ReleaseInv, Before
  <1> QED
    BY <1>2, <1>4, <1>6 DEF LedgerInv

\* What ledger.jq records differs from the last event, and was proven by verify.
LEMMA MovesAreMoves ==
    ASSUME Inv, NEW r \in Runs, job[r] = "record", NEW f, NEW events,
           NEW t \in DOMAIN Moves(r, f, events)
    PROVE  /\ Moves(r, f, events)[t] # Current(events, t)
           /\ Proven(Moves(r, f, events)[t])
  <1> DEFINE A == {u \in Tags : Applying(r, f, u) # {}}
             image(u) == CHOOSE i \in Applying(r, f, u) : TRUE
             applied == [u \in A |-> Built[r][image(u)]]
  <1>1. t \in A /\ Current(events, t) # applied[t] /\ Moves(r, f, events)[t] = applied[t]
    BY DEF Moves
  <1>2. image(t) \in Applying(r, f, t) /\ applied[t] = Built[r][image(t)]
    BY <1>1
  <1>3. image(t) \in published[r] /\ image(t) \in Images
    <2> HIDE DEF image
    <2> QED
      BY <1>2 DEF Applying, Inv, TypeOK
  <1>4. Passes(r)
    BY DEF Inv, RunInv, Cleared
  <1>5. \A i \in published[r] : Proven(Built[r][i])
    <2>1. \A i \in published[r] : Built[r][i] \in pushed
      BY DEF Inv, WorkerInv, TypeOK
    <2>2. \A i \in published[r] : \A k \in Kinds \ {"openvex"} : Has(k, Built[r][i])
      BY <1>4 DEF Passes, Kinds, AttestationTypes
    <2> QED
      BY <2>1, <2>2 DEF Proven
  <1> QED
    BY <1>1, <1>2, <1>3, <1>5

\* And it names what the release applied.
LEMMA MovesComplete ==
    ASSUME Inv, NEW r \in Runs, NEW events \in Seq(Entry), NEW f,
           ~AppliedTwice(r, f), NEW p \in Pairs(r), Family[p[1]] = f
    PROVE  IF p[2] \in DOMAIN Moves(r, f, events)
           THEN Moves(r, f, events)[p[2]] = Built[r][p[1]]
           ELSE Current(events, p[2]) = Built[r][p[1]]
  <1> DEFINE A == {u \in Tags : Applying(r, f, u) # {}}
             image(u) == CHOOSE i \in Applying(r, f, u) : TRUE
             applied == [u \in A |-> Built[r][image(u)]]
  <1>1. p[1] \in Applying(r, f, p[2]) /\ p[2] \in Tags
    BY DEF Pairs, Applying
  <1>2. p[2] \in A /\ image(p[2]) \in Applying(r, f, p[2])
    BY <1>1
  <1>3. image(p[2]) = p[1]
    <2> HIDE DEF image
    <2> QED
      BY <1>1, <1>2 DEF AppliedTwice
  <1>4. applied[p[2]] = Built[r][p[1]]
    BY <1>2, <1>3
  <1>5. /\ DOMAIN Moves(r, f, events) = {u \in A : Current(events, u) # applied[u]}
        /\ \A u \in DOMAIN Moves(r, f, events) : Moves(r, f, events)[u] = applied[u]
    BY DEF Moves
  <1> HIDE DEF applied, A
  <1> QED
    BY <1>2, <1>4, <1>5

\* What PushLedger does to the ledgers: nothing, or one event more in one.
LEMMA PushAppends ==
    ASSUME Inv, LedgerInv, NEW r \in Runs, PushLedger(r), NEW f, f = family[r]
    PROVE  LET e == [run |-> r, moves |-> Moves(r, f, ledger[f])]
           IN  /\ f \in Families /\ e \in Entry /\ ledger[f] \in Seq(Entry)
               /\ \/ DOMAIN e.moves = {} /\ ledger' = ledger
                  \/ DOMAIN e.moves # {} /\ ledger' = [ledger EXCEPT ![f] = Append(ledger[f], e)]
  <1> DEFINE e == [run |-> r, moves |-> Moves(r, f, ledger[f])]
  <1>1. f \in Families /\ draft[r] = ledger[f] /\ ledger[f] \in Seq(Entry)
    BY DEF PushLedger, LedgerInv, ReleaseInv, Inv, TypeOK
  <1>2. e \in Entry
    BY MovesType DEF Entry, Inv
  <1> QED
    BY <1>1, <1>2 DEF PushLedger

\* A run that pushes a ledger appends moves to proven refs, and nothing is lost.
LEMMA PushStep ==
    ASSUME Inv, LedgerInv, NEW r \in Runs, PushLedger(r), NEW f, f = family[r]
    PROVE  LedgerInv'
  <1> DEFINE L == ledger[f]
             e == [run |-> r, moves |-> Moves(r, f, L)]
  <1>1. /\ UNCHANGED <<job, published, pushed, referrers, tags, tagged, holder>>
        /\ job[r] = "record" /\ ~AppliedTwice(r, f) /\ f # NoFamily
    BY DEF PushLedger, workerVars, groupVars
  <1>2. /\ f \in Families /\ e \in Entry /\ L \in Seq(Entry)
        /\ \/ DOMAIN e.moves = {} /\ ledger' = ledger
           \/ DOMAIN e.moves # {} /\ ledger' = [ledger EXCEPT ![f] = Append(L, e)]
    BY PushAppends
  <1>3. /\ recorded'[r] = recorded[r] \cup {f} /\ family'[r] = NoFamily
        /\ \A s \in Runs \ {r} : /\ recorded'[s] = recorded[s] /\ family'[s] = family[s]
                                 /\ draft'[s] = draft[s]
    BY DEF PushLedger, Inv, TypeOK
  <1>4. \A g \in Families \ {f} : ledger'[g] = ledger[g]
    BY <1>2 DEF Inv, TypeOK
  <1>5. ledger'[f] = L \/ (DOMAIN e.moves # {} /\ ledger'[f] = Append(L, e))
    BY <1>2 DEF Inv, TypeOK
  <1>6. LedgerHoldsMoves'
    <2> SUFFICES ASSUME NEW g \in Families, NEW n \in DOMAIN ledger'[g]
                 PROVE  /\ DOMAIN ledger'[g][n].moves # {}
                        /\ \A t \in DOMAIN ledger'[g][n].moves :
                              /\ ledger'[g][n].moves[t] # Current(SubSeq(ledger'[g], 1, n - 1), t)
                              /\ Proven(ledger'[g][n].moves[t])
      BY <1>1 DEF LedgerHoldsMoves, Proven, Has
    <2>1. CASE ledger'[g] = ledger[g]
      BY <2>1 DEF LedgerInv, LedgerHoldsMoves
    <2>2. CASE g = f /\ ledger'[f] = Append(L, e) /\ DOMAIN e.moves # {}
      <3>1. /\ Len(L) \in Nat /\ DOMAIN L = 1 .. Len(L) /\ n \in 1 .. Len(L) + 1
            /\ Append(L, e)[Len(L) + 1] = e /\ \A m \in 1 .. Len(L) : Append(L, e)[m] = L[m]
        BY <1>2, <2>2, AppendProperties
      <3>2. \A m \in 0 .. Len(L) : SubSeq(Append(L, e), 1, m) = SubSeq(L, 1, m)
        BY <1>2, <3>1
      <3>3. CASE n \in 1 .. Len(L)
        <4>1. n - 1 \in 0 .. Len(L) /\ ledger'[g][n] = L[n]
          BY <2>2, <3>1, <3>3
        <4>2. SubSeq(ledger'[g], 1, n - 1) = SubSeq(L, 1, n - 1)
          BY <2>2, <3>2, <4>1
        <4>3. n \in DOMAIN ledger[f]
          BY <3>1, <3>3
        <4>4. /\ DOMAIN L[n].moves # {}
              /\ \A t \in DOMAIN L[n].moves :
                    L[n].moves[t] # Current(SubSeq(L, 1, n - 1), t) /\ Proven(L[n].moves[t])
          BY <1>2, <4>3 DEF LedgerInv, LedgerHoldsMoves
        <4> HIDE DEF L
        <4> QED
          BY <4>1, <4>2, <4>4
      <3>4. CASE n = Len(L) + 1
        <4>1. ledger'[g][n] = e /\ n - 1 = Len(L) /\ Len(L) \in 0 .. Len(L)
          BY <2>2, <3>1, <3>4
        <4>2. SubSeq(ledger'[g], 1, n - 1) = L
          <5>1. SubSeq(L, 1, Len(L)) = L
            BY <1>2, SubSeqFull
          <5> QED
            BY <2>2, <3>2, <4>1, <5>1
        <4>3. \A t \in DOMAIN e.moves : e.moves[t] # Current(L, t) /\ Proven(e.moves[t])
          BY <1>1, MovesAreMoves
        <4> QED
          BY <2>2, <4>1, <4>2, <4>3
      <3> QED
        BY <3>1, <3>3, <3>4
    <2> QED
      BY <1>4, <1>5, <2>1, <2>2
  <1>7. \A s \in Runs \ {r} : ReleaseInv(s)'
    BY <1>1, <1>3, OneRelease, ReleaseStays DEF LedgerInv
  <1>8. Recorded(r, f)'
    <2> SUFFICES ASSUME NEW p \in Pairs(r), Family[p[1]] = f
                 PROVE  Current(ledger'[f], p[2]) = Built[r][p[1]]
      BY <1>1, PairsStay DEF Recorded
    <2>1. IF p[2] \in DOMAIN e.moves THEN e.moves[p[2]] = Built[r][p[1]]
                                     ELSE Current(L, p[2]) = Built[r][p[1]]
      BY <1>1, <1>2, MovesComplete
    <2>2. CASE ledger'[f] = Append(L, e)
      BY <1>2, <2>1, <2>2, CurrentAppend
    <2>3. CASE ledger'[f] = L
      <3>1. CASE DOMAIN e.moves = {}
        BY <2>1, <2>3, <3>1
      <3>2. CASE DOMAIN e.moves # {}
        <4>1. ledger'[f] = Append(L, e)
          BY <1>2, <3>2 DEF Inv, TypeOK
        <4> QED
          BY <2>2, <4>1
      <3> QED
        BY <3>1, <3>2
    <2> QED
      BY <1>5, <2>2, <2>3
  <1>9. \A g \in recorded[r] \ {f} : Recorded(r, g)'
    <2>1. \A g \in recorded[r] : g \in Families /\ Recorded(r, g)
      BY <1>1 DEF LedgerInv, ReleaseInv, Inv, TypeOK
    <2> QED
      BY <1>1, <1>4, <2>1, PairsStay DEF Recorded
  <1>10. TagsStand(r)' /\ Pairs(r)' \subseteq tagged'[r] /\ holder' = r
    BY <1>1, PairsStay DEF LedgerInv, ReleaseInv, TagsStand
  <1>11. ReleaseInv(r)'
    BY <1>1, <1>3, <1>8, <1>9, <1>10 DEF ReleaseInv, Before
  <1> QED
    BY <1>6, <1>7, <1>11 DEF LedgerInv

-----------------------------------------------------------------------------
\* Empty ledgers satisfy the invariant, ...
LEMMA LedgerInit ==
    ASSUME Init
    PROVE  LedgerInv
  BY DEF Init, LedgerInv, LedgerHoldsMoves, ReleaseInv, Before

\* ... and every step keeps it.
LEMMA LedgerStep ==
    ASSUME Inv, LedgerInv, [Next]_vars
    PROVE  LedgerInv'
  <1>1. CASE UNCHANGED vars
    <2>1. UNCHANGED <<job, published, pushed, referrers, tags, ledger, holder, tagged, family,
                      draft, recorded>>
      BY <1>1 DEF vars, workerVars, releaseVars, groupVars
    <2> QED
      BY <2>1, MovesStand, ReleaseStays DEF LedgerInv
  <1>2. ASSUME NEW r \in Runs,
               \/ StartRun(r) \/ ParallelEnds(r) \/ PublishLost(r) \/ LegsEnd(r) \/ VerifyFails(r)
        PROVE  LedgerInv'
    <2>1. UNCHANGED <<tagged, family, draft, recorded, holder, tags, ledger, published, pushed,
                      referrers>>
      BY <1>2 DEF StartRun, ParallelEnds, PublishLost, LegsEnd, VerifyFails, releaseVars,
                  groupVars, workerVars
    <2>2. \A s \in Runs :
             /\ job'[s] = job[s] \/ job'[s] \in {"publish", "provenance", "verify", "failed"}
             /\ job'[s] \in Before => job[s] \in Before
      BY <1>2 DEF Inv, TypeOK, Before, StartRun, ParallelEnds, PublishLost, LegsEnd, VerifyFails
    <2>3. \A s \in Runs : ReleaseInv(s)'
      BY <2>1, <2>2, ReleaseStays DEF LedgerInv, Before, Ended
    <2> QED
      BY <2>1, <2>3, MovesStand DEF LedgerInv
  <1>3. ASSUME NEW r \in Runs, NEW i \in Images,
               \/ StartWorker(r, i) \/ Push(r, i) \/ NoTarget(r, i)
               \/ ArtifactPresent(r, i) \/ ArtifactAbsent(r, i)
               \/ Judge(r, i) \/ AddArtifact(r, i)
               \/ AppendPublished(r, i) \/ CheckProvenance(r, i)
               \/ WorkerFails(r, i) \/ LegAttests(r, i) \/ LegFails(r, i)
        PROVE  LedgerInv'
    BY <1>3, OutsideStep
  <1>4. ASSUME NEW r \in Runs, VerifyPasses(r)
        PROVE  LedgerInv'
    BY <1>4, EnterStep
  <1>5. ASSUME NEW r \in Runs, TagsEnd(r) \/ ReleaseEnds(r) \/ ReleaseLost(r)
        PROVE  LedgerInv'
    <2>1. CASE TagsEnd(r) /\ missed[r] = {}
      BY <2>1, TagSteps
    <2>2. CASE (TagsEnd(r) /\ missed[r] # {}) \/ ReleaseEnds(r) \/ ReleaseLost(r)
      <3>1. /\ job[r] \in {"tag", "record"}
            /\ LeaveRelease(r, "failed") \/ LeaveRelease(r, "released")
            /\ UNCHANGED <<workerVars, releaseVars, pushed, referrers, tags, ledger>>
        BY <2>2 DEF TagsEnd, ReleaseEnds, ReleaseLost
      <3> QED
        BY <3>1, LeaveStep
    <2> QED
      BY <1>5, <2>1, <2>2
  <1>6. ASSUME NEW r \in Runs, NEW p \in Pairs(r), TagOne(r, p) \/ TagMissed(r, p)
        PROVE  LedgerInv'
    BY <1>6, TagSteps
  <1>7. ASSUME NEW r \in Runs, NEW f \in Families, PullLedger(r, f)
        PROVE  LedgerInv'
    BY <1>7, PullStep
  <1>8. ASSUME NEW r \in Runs, PushLedger(r)
        PROVE  LedgerInv'
    <2>1. family[r] = family[r]
      OBVIOUS
    <2> QED
      BY <1>8, <2>1, PushStep
  <1> QED
    BY StepCases, <1>1, <1>2, <1>3, <1>4, <1>5, <1>6, <1>7, <1>8

\* No two releases are at a ledger at once, and what one pulled is what it
\* appends to.
THEOREM LedgerCorrect == Spec => []LedgerInv
  BY LedgerInit, LedgerStep, InvCorrect, PTL DEF Spec

\* The ledger holds moves and nothing else, each to a ref that was proven
\* (ledger.jq), for any number of runs, failures and tags.
THEOREM OnlyMovesRecorded == Spec => []LedgerHoldsMoves
  <1>1. LedgerInv => LedgerHoldsMoves
    BY DEF LedgerInv
  <1> QED
    BY <1>1, LedgerCorrect, PTL

\* No release ever writes over another's events (concurrency of job release;
\* ADR 0017, "One release at a time").
THEOREM LedgerIsAppendOnly == Spec => LedgerAppendOnly
  <1> DEFINE Grows == \A f \in Families :
                          /\ Len(ledger[f]) <= Len(ledger'[f])
                          /\ SubSeq(ledger'[f], 1, Len(ledger[f])) = ledger[f]
  <1>1. Inv /\ LedgerInv /\ [Next]_vars => [Grows]_ledger
    <2> SUFFICES ASSUME Inv, LedgerInv, [Next]_vars, ledger' # ledger
                 PROVE  Grows
      OBVIOUS
    <2>1. PICK r \in Runs : PushLedger(r)
      <3>1. ASSUME NEW r \in Runs,
                   \/ StartRun(r) \/ ParallelEnds(r) \/ PublishLost(r) \/ LegsEnd(r)
                   \/ VerifyPasses(r) \/ VerifyFails(r) \/ TagsEnd(r)
                   \/ ReleaseEnds(r) \/ ReleaseLost(r) \/ \E f \in Families : PullLedger(r, f)
            PROVE  FALSE
        BY <3>1 DEF StartRun, ParallelEnds, PublishLost, LegsEnd, VerifyPasses, VerifyFails,
                    TagsEnd, ReleaseEnds, ReleaseLost, PullLedger
      <3>2. ASSUME NEW r \in Runs, NEW i \in Images,
                   \/ StartWorker(r, i) \/ Push(r, i) \/ NoTarget(r, i)
                   \/ ArtifactPresent(r, i) \/ ArtifactAbsent(r, i)
                   \/ Judge(r, i) \/ AddArtifact(r, i)
                   \/ AppendPublished(r, i) \/ CheckProvenance(r, i)
                   \/ WorkerFails(r, i) \/ LegAttests(r, i) \/ LegFails(r, i)
            PROVE  FALSE
        BY <3>2 DEF StartWorker, Push, NoTarget, ArtifactPresent, ArtifactAbsent, Judge,
                    AddArtifact, AppendPublished, CheckProvenance, WorkerFails, LegAttests, LegFails
      <3>3. ASSUME NEW r \in Runs, NEW p \in Pairs(r), TagOne(r, p) \/ TagMissed(r, p)
            PROVE  FALSE
        BY <3>3 DEF TagOne, TagMissed
      <3>4. CASE UNCHANGED vars
        BY <3>4 DEF vars
      <3> QED
        BY StepCases, <3>1, <3>2, <3>3, <3>4
    <2>2. ASSUME NEW f \in Families
          PROVE  /\ Len(ledger[f]) <= Len(ledger'[f])
                 /\ SubSeq(ledger'[f], 1, Len(ledger[f])) = ledger[f]
      <3>1. ledger[f] \in Seq(Entry)
        BY DEF Inv, TypeOK
      <3>2. ledger'[f] = ledger[f] \/ \E e \in Entry : ledger'[f] = Append(ledger[f], e)
        <4> DEFINE g == family[r]
                   new == [run |-> r, moves |-> Moves(r, g, ledger[g])]
        <4>1. /\ g \in Families /\ new \in Entry
              /\ ledger' = ledger \/ ledger' = [ledger EXCEPT ![g] = Append(ledger[g], new)]
          BY <2>1, PushAppends
        <4> HIDE DEF g, new
        <4> QED
          BY <4>1 DEF Inv, TypeOK
      <3>3. CASE ledger'[f] = ledger[f]
        BY <3>1, <3>3, SubSeqFull
      <3>4. ASSUME NEW e \in Entry, ledger'[f] = Append(ledger[f], e)
            PROVE  /\ Len(ledger[f]) <= Len(ledger'[f])
                   /\ SubSeq(ledger'[f], 1, Len(ledger[f])) = ledger[f]
        <4>1. SubSeq(Append(ledger[f], e), 1, Len(ledger[f])) = SubSeq(ledger[f], 1, Len(ledger[f]))
          BY <3>1
        <4> QED
          BY <3>1, <3>4, <4>1, SubSeqFull
      <3> QED
        BY <3>2, <3>3, <3>4
    <2> QED
      BY <2>2
  <1> QED
    BY <1>1, InvCorrect, LedgerCorrect, PTL DEF Spec, LedgerAppendOnly

\* A release that ends well leaves every ledger it wrote naming what its tags
\* name on the registry.
THEOREM ReleasesRecordTags ==
    ASSUME TagsOfOneRepository
    PROVE  Spec => ReleaseRecordsTags
  <1> DEFINE Records == \A r \in Runs : job[r] = "record" /\ job'[r] = "released" =>
                \A p \in Pairs(r) : Current(ledger'[Family[p[1]]], p[2]) = tags'[p[2]]
  <1>1. Inv /\ LedgerInv /\ [Next]_vars => [Records]_job
    <2> SUFFICES ASSUME Inv, LedgerInv, [Next]_vars, NEW r \in Runs,
                        job[r] = "record", job'[r] = "released", NEW p \in Pairs(r)
                 PROVE  Current(ledger'[Family[p[1]]], p[2]) = tags'[p[2]]
      OBVIOUS
    <2>1. ReleaseEnds(r)
      <3>1. ASSUME NEW s \in Runs,
                   \/ StartRun(s) \/ ParallelEnds(s) \/ PublishLost(s) \/ LegsEnd(s)
                   \/ VerifyPasses(s) \/ VerifyFails(s)
            PROVE  FALSE
        BY <3>1 DEF StartRun, ParallelEnds, PublishLost, LegsEnd, VerifyPasses, VerifyFails,
                    Inv, TypeOK
      <3>2. ASSUME NEW s \in Runs, TagsEnd(s) \/ ReleaseLost(s)
            PROVE  FALSE
        BY <3>2 DEF TagsEnd, ReleaseLost, LeaveRelease, Inv, TypeOK
      <3>3. ASSUME NEW s \in Runs \ {r}, ReleaseEnds(s)
            PROVE  FALSE
        BY <3>3, OneRelease DEF ReleaseEnds
      <3>4. ASSUME NEW s \in Runs, PushLedger(s) \/ \E f \in Families : PullLedger(s, f)
            PROVE  FALSE
        BY <3>4 DEF PushLedger, PullLedger
      <3>5. ASSUME NEW s \in Runs, NEW i \in Images,
                   \/ StartWorker(s, i) \/ Push(s, i) \/ NoTarget(s, i)
                   \/ ArtifactPresent(s, i) \/ ArtifactAbsent(s, i)
                   \/ Judge(s, i) \/ AddArtifact(s, i)
                   \/ AppendPublished(s, i) \/ CheckProvenance(s, i)
                   \/ WorkerFails(s, i) \/ LegAttests(s, i) \/ LegFails(s, i)
            PROVE  FALSE
        BY <3>5 DEF StartWorker, Push, NoTarget, ArtifactPresent, ArtifactAbsent, Judge,
                    AddArtifact, AppendPublished, CheckProvenance, WorkerFails, LegAttests, LegFails
      <3>6. ASSUME NEW s \in Runs, NEW q \in Pairs(s), TagOne(s, q) \/ TagMissed(s, q)
            PROVE  FALSE
        BY <3>6 DEF TagOne, TagMissed
      <3>7. CASE UNCHANGED vars
        BY <3>7 DEF vars
      <3> QED
        BY StepCases, <3>1, <3>2, <3>3, <3>4, <3>5, <3>6, <3>7
    <2>2. ledger' = ledger /\ tags' = tags /\ Family[p[1]] \in recorded[r]
      BY <2>1 DEF ReleaseEnds, Pairs
    <2>3. Recorded(r, Family[p[1]]) /\ p \in tagged[r] /\ TagsStand(r)
      BY <2>2 DEF LedgerInv, ReleaseInv
    <2>4. OneImage(r, p)
      <3> SUFFICES ASSUME NEW q \in Pairs(r), q[2] = p[2]
                   PROVE  q = p
        BY DEF OneImage
      <3>1. /\ p \in Images \X Tags /\ q \in Images \X Tags
            /\ p[2] \in TagsOf[r][p[1]] /\ p[2] \in TagsOf[r][q[1]]
            /\ p[1] \in published[r] /\ q[1] \in published[r]
        BY DEF Pairs, Inv, TypeOK
      <3>2. Family[q[1]] = Family[p[1]]
        BY <3>1, TagsOfOneRepository DEF TagsOfOneRepository
      <3>3. q[1] = p[1]
        BY <2>3, <3>1, <3>2 DEF Recorded, AppliedTwice, Applying
      <3> QED
        BY <3>1, <3>3
    <2> QED
      BY <2>2, <2>3, <2>4 DEF Recorded, TagsStand
  <1> QED
    BY <1>1, InvCorrect, LedgerCorrect, PTL DEF Spec, ReleaseRecordsTags
=============================================================================
