--------------------------- MODULE MirrorPipeline ---------------------------
(***************************************************************************)
(* The mirror pipeline of .github/workflows/ci.yaml: the jobs publish,     *)
(* provenance, verify and release of every push to main, run by several    *)
(* CI runs at once against one registry.                                   *)
(*                                                                         *)
(* A ref is a repository at a digest.  What the build of a run fixes (its  *)
(* digests, tags, attestation targets, database pin and VEX statements) is *)
(* a constant of the run; what the jobs read and write is a variable.      *)
(* A referrer carries the run and image that attached it, and its content  *)
(* is read off them: Db[run] ranks a scan, Vex[run][image] is a document.  *)
(* The registry only ever gains referrers (nothing in the workflow deletes *)
(* one), which is why verify's loop over the images is one step here.      *)
(***************************************************************************)
EXTENDS Naturals, FiniteSets, Sequences

CONSTANTS
    Runs,        \* CI runs, one per push to main
    Images,      \* the mirror targets, one publish worker each
    Refs,        \* repository@digest
    Tags,        \* repository:tag
    Families,    \* repositories, one tag ledger each
    VexDocs,     \* canonical statement lists of VEX documents
    Built,       \* Built[r][i]: the ref run r's publish runner builds
    Tested,      \* Tested[r][i]: the ref run r's test runner built
    Types,       \* Types[r][i]: the _attest_* targets mirror_push emitted
    Db,          \* Db[r]: rank of the pinned vulnerability database
    Vex,         \* Vex[r][i]: the VEX document run r would attest
    TagsOf,      \* TagsOf[r][i]: the expanded tag list of image i
    Family,      \* Family[i]: the repository image i is pushed to
    Width,       \* parallel.sh -P
    MaxLive,     \* bound: runs between their start and their end at once
    NoRun, NoRef, NoFamily

AttestationTypes == {"cyclonedx", "vuln", "openvex"}
Kinds == AttestationTypes \cup {"signature", "provenance"}

ASSUME ConstantsAssumption ==
    /\ IsFiniteSet(Runs) /\ IsFiniteSet(Images)
    /\ Built \in [Runs -> [Images -> Refs]]
    /\ Tested \in [Runs -> [Images -> Refs]]
    /\ Types \in [Runs -> [Images -> SUBSET AttestationTypes]]
    /\ Db \in [Runs -> Nat]
    /\ Vex \in [Runs -> [Images -> VexDocs]]
    /\ TagsOf \in [Runs -> [Images -> SUBSET Tags]]
    /\ Family \in [Images -> Families]
    /\ Width \in Nat \ {0} /\ MaxLive \in Nat \ {0}
    /\ NoRun \notin Runs /\ NoRef \notin Refs /\ NoFamily \notin Families

VARIABLES
    job,         \* job[r]: where run r is
    at,          \* at[r][i]: where its worker for image i is
    kind,        \* kind[r][i]: the artifact that worker is at
    types,       \* types[r][i]: the worker's TYPES array
    published,   \* published[r]: the images in published.jsonl
    pending,     \* pending[r]: the images in pending.jsonl
    legs,        \* legs[r]: provenance matrix legs still to end
    broken,      \* broken[r]: provenance legs that failed
    tagged,      \* tagged[r]: (image, tag) pairs release applied
    missed,      \* missed[r]: (image, tag) pairs in failed.txt
    family,      \* family[r]: the ledger release r is appending to
    draft,       \* draft[r]: that ledger as oras pull returned it
    recorded,    \* recorded[r]: families release r has finished
    holder,      \* the run inside concurrency group `release`
    waiting,     \* the one pending entry of that group
    pushed,      \* refs whose manifest is on the registry
    referrers,   \* signatures and attestations on the registry
    tags,        \* tags[t]: the ref tag t names on the registry
    ledger       \* ledger[f]: the tag ledger of family f

workerVars == <<at, kind, types, published, pending>>
legVars == <<legs, broken>>
releaseVars == <<tagged, missed, family, draft, recorded>>
groupVars == <<holder, waiting>>
vars == <<job, workerVars, legVars, releaseVars, groupVars,
          pushed, referrers, tags, ledger>>

-----------------------------------------------------------------------------
(***************************************************************************)
(* The registry.                                                           *)
(***************************************************************************)

Referrer == [ref : Refs, kind : Kinds, run : Runs, image : Images]

\* What cosign verify, verify-attestation and slsa-verifier find under the
\* production policy: the artifacts of kind k on ref.  A foreign one is absent.
Attached(k, ref) == {a \in referrers : a.kind = k /\ a.ref = ref}

Has(k, ref) == \E a \in referrers : a.kind = k /\ a.ref = ref

\* A ledger entry is the moves one release recorded in one family.  Their
\* order within the release is left out: the tags of a release are distinct.
Entry == [run : Runs, moves : UNION {[T -> Refs] : T \in SUBSET Tags}]

\* The digest the last event about tag t names, by file order.
Current(events, t) ==
    LET about == {n \in DOMAIN events : t \in DOMAIN events[n].moves}
        last == CHOOSE n \in about : \A m \in about : m <= n
    IN  IF about = {} THEN NoRef ELSE events[last].moves[t]

-----------------------------------------------------------------------------
(***************************************************************************)
(* Job publish: one worker per image, Width at a time.                     *)
(***************************************************************************)

Ended == {"released", "failed", "cancelled"}
Live(r) == job[r] \notin Ended \cup {"new"}
Busy(r, i) == at[r][i] \notin {"queued", "ok", "failed"}

\* Mutant: the attestation loop runs on to provenance.
AfterRunsOn(k) ==
    CASE k = "signature" -> "cyclonedx"
      [] k = "cyclonedx" -> "vuln"
      [] k = "vuln" -> "openvex"
      [] OTHER -> "provenance"

\* The order of publish_one: the signature, then the attestation loop.
After(k) ==
    CASE k = "signature" -> "cyclonedx"
      [] k = "cyclonedx" -> "vuln"
      [] OTHER -> "openvex"

\* Mutant: the comparison of stale.jq the wrong way round.
StaleVulnReversed(r, ref) == \A a \in Attached("vuln", ref) : Db[a.run] > Db[r]

\* The scan about to be attested outranks every one attached.
StaleVuln(r, ref) == \A a \in Attached("vuln", ref) : Db[a.run] < Db[r]

\* The statements about to be attested differ from every document attached.
StaleOpenvex(r, i, ref) ==
    \A a \in Attached("openvex", ref) : Vex[a.run][a.image] # Vex[r][i]

Stale(r, i, k) ==
    \/ k = "vuln" /\ StaleVuln(r, Built[r][i])
    \/ k = "openvex" /\ StaleOpenvex(r, i, Built[r][i])

Goto(r, i, phase) == at' = [at EXCEPT ![r][i] = phase]

\* On to the next artifact, or out of the loop; T is what TYPES gains.
StepDone(r, i, T) ==
    /\ Goto(r, i, IF kind[r][i] = "openvex" THEN "record" ELSE "check")
    /\ kind' = [kind EXCEPT ![r][i] = After(@)]
    /\ types' = [types EXCEPT ![r][i] = @ \cup (T \cap AttestationTypes)]

\* A push to main; its test job passed and publish begins.
StartRun(r) ==
    /\ job[r] = "new"
    /\ Cardinality({s \in Runs : Live(s)}) < MaxLive
    /\ job' = [job EXCEPT ![r] = "publish"]
    /\ UNCHANGED <<workerVars, legVars, releaseVars, groupVars, pushed,
                   referrers, tags, ledger>>

StartWorker(r, i) ==
    /\ job[r] = "publish" /\ at[r][i] = "queued"
    /\ Cardinality({j \in Images : Busy(r, j)}) < Width
    /\ Goto(r, i, "push")
    /\ UNCHANGED <<job, kind, types, published, pending, legVars, releaseVars,
                   groupVars, pushed, referrers, tags, ledger>>

\* Mutant: the image is pushed with its tags, as before ADR 0014.
PushWithTags(r, i) ==
    /\ job[r] = "publish" /\ at[r][i] = "push"
    /\ Built[r][i] = Tested[r][i]
    /\ pushed' = pushed \cup {Built[r][i]}
    /\ tags' = [t \in Tags |-> IF t \in TagsOf[r][i] THEN Built[r][i] ELSE tags[t]]
    /\ Goto(r, i, "check")
    /\ UNCHANGED <<job, kind, types, published, pending, legVars, releaseVars,
                   groupVars, referrers, ledger>>

\* same_digest_as_test, then the push by digest.
Push(r, i) ==
    /\ job[r] = "publish" /\ at[r][i] = "push"
    /\ Built[r][i] = Tested[r][i]
    /\ pushed' = pushed \cup {Built[r][i]}
    /\ Goto(r, i, "check")
    /\ UNCHANGED <<job, kind, types, published, pending, legVars, releaseVars,
                   groupVars, referrers, tags, ledger>>

\* No _attest_<step> target: `continue`.
NoTarget(r, i) ==
    /\ job[r] = "publish" /\ at[r][i] = "check"
    /\ kind[r][i] \in AttestationTypes \ Types[r][i]
    /\ StepDone(r, i, {})
    /\ UNCHANGED <<job, published, pending, legVars, releaseVars, groupVars,
                   pushed, referrers, tags, ledger>>

Checks(r, i) ==
    /\ job[r] = "publish" /\ at[r][i] = "check"
    /\ kind[r][i] \in Types[r][i] \cup {"signature"}

\* needs_artifact returns 0: a signature is skipped, an attestation judged.
ArtifactPresent(r, i) ==
    /\ Checks(r, i)
    /\ Has(kind[r][i], Built[r][i])
    /\ IF kind[r][i] = "signature"
       THEN StepDone(r, i, {})
       ELSE Goto(r, i, "stale") /\ UNCHANGED <<kind, types>>
    /\ UNCHANGED <<job, published, pending, legVars, releaseVars, groupVars,
                   pushed, referrers, tags, ledger>>

\* Mutant: any failure of the verifier reads as "absent".
OutageReadsAsAbsent(r, i) ==
    /\ Checks(r, i)
    /\ Goto(r, i, "add")
    /\ UNCHANGED <<job, kind, types, published, pending, legVars, releaseVars,
                   groupVars, pushed, referrers, tags, ledger>>

\* needs_artifact returns 1: the artifact is to be added.
ArtifactAbsent(r, i) ==
    /\ Checks(r, i)
    /\ ~Has(kind[r][i], Built[r][i])
    /\ Goto(r, i, "add")
    /\ UNCHANGED <<job, kind, types, published, pending, legVars, releaseVars,
                   groupVars, pushed, referrers, tags, ledger>>

\* The second read, by `attested`, and the verdict of stale.jq on it.
Judge(r, i) ==
    /\ job[r] = "publish" /\ at[r][i] = "stale"
    /\ IF Stale(r, i, kind[r][i])
       THEN Goto(r, i, "add") /\ UNCHANGED <<kind, types>>
       ELSE StepDone(r, i, {kind[r][i]})
    /\ UNCHANGED <<job, published, pending, legVars, releaseVars, groupVars,
                   pushed, referrers, tags, ledger>>

\* run_built _sign or _attest_<step>.
AddArtifact(r, i) ==
    /\ job[r] = "publish" /\ at[r][i] = "add"
    /\ referrers' = referrers \cup {[ref |-> Built[r][i], kind |-> kind[r][i],
                                     run |-> r, image |-> i]}
    /\ StepDone(r, i, {kind[r][i]})
    /\ UNCHANGED <<job, published, pending, legVars, releaseVars, groupVars,
                   pushed, tags, ledger>>

\* The line in published.jsonl, written before provenance is looked at.
AppendPublished(r, i) ==
    /\ job[r] = "publish" /\ at[r][i] = "record"
    /\ published' = [published EXCEPT ![r] = @ \cup {i}]
    /\ Goto(r, i, "provenance")
    /\ UNCHANGED <<job, kind, types, pending, legVars, releaseVars, groupVars,
                   pushed, referrers, tags, ledger>>

\* slsa-verifier: a digest without provenance is handed to the matrix.
CheckProvenance(r, i) ==
    /\ job[r] = "publish" /\ at[r][i] = "provenance"
    /\ pending' = [pending EXCEPT
            ![r] = IF Has("provenance", Built[r][i]) THEN @ ELSE @ \cup {i}]
    /\ Goto(r, i, "ok")
    /\ UNCHANGED <<job, kind, types, published, legVars, releaseVars,
                   groupVars, pushed, referrers, tags, ledger>>

\* A worker exits non-zero or is killed: the digest differs from the test
\* runner's, a push or a signing failed, a verifier failed for a reason that
\* is no statement about the registry ("refusing to guess").
WorkerFails(r, i) ==
    /\ job[r] = "publish" /\ Busy(r, i)
    /\ Goto(r, i, "failed")
    /\ UNCHANGED <<job, kind, types, published, pending, legVars, releaseVars,
                   groupVars, pushed, referrers, tags, ledger>>

\* parallel.sh: every item got its turn; any status but 0 fails the step.
EveryStatusZero(r) == \A i \in Images : at[r][i] = "ok"

ParallelEnds(r) ==
    /\ job[r] = "publish"
    /\ \A i \in Images : at[r][i] \in {"ok", "failed"}
    /\ job' = [job EXCEPT ![r] =
            IF Images = {} \/ ~EveryStatusZero(r) THEN "failed"
            ELSE IF pending[r] = {} THEN "verify" ELSE "provenance"]
    /\ legs' = [legs EXCEPT ![r] = pending[r]]
    /\ UNCHANGED <<workerVars, broken, releaseVars, groupVars, pushed,
                   referrers, tags, ledger>>

\* The job fails outside its workers: the build, the TUF probe, the runner.
PublishLost(r) ==
    /\ job[r] = "publish"
    /\ job' = [job EXCEPT ![r] = "failed"]
    /\ UNCHANGED <<workerVars, legVars, releaseVars, groupVars, pushed,
                   referrers, tags, ledger>>

-----------------------------------------------------------------------------
(***************************************************************************)
(* Jobs provenance (a matrix with fail-fast off) and verify (read-only).   *)
(***************************************************************************)

LegAttests(r, i) ==
    /\ job[r] = "provenance" /\ i \in legs[r]
    /\ referrers' = referrers \cup {[ref |-> Built[r][i], kind |-> "provenance",
                                     run |-> r, image |-> i]}
    /\ legs' = [legs EXCEPT ![r] = @ \ {i}]
    /\ UNCHANGED <<job, workerVars, broken, releaseVars, groupVars, pushed,
                   tags, ledger>>

LegFails(r, i) ==
    /\ job[r] = "provenance" /\ i \in legs[r]
    /\ legs' = [legs EXCEPT ![r] = @ \ {i}]
    /\ broken' = [broken EXCEPT ![r] = @ \cup {i}]
    /\ UNCHANGED <<job, workerVars, releaseVars, groupVars, pushed, referrers,
                   tags, ledger>>

LegsEnd(r) ==
    /\ job[r] = "provenance" /\ legs[r] = {}
    /\ job' = [job EXCEPT ![r] = IF broken[r] = {} THEN "verify" ELSE "failed"]
    /\ UNCHANGED <<workerVars, legVars, releaseVars, groupVars, pushed,
                   referrers, tags, ledger>>

\* The positive test: a non-empty list, the two types no image may lack, and
\* every artifact publish says is there, under the production policy.
Passes(r) ==
    /\ published[r] # {}
    /\ \A i \in published[r] :
        /\ {"cyclonedx", "vuln"} \subseteq types[r][i]
        /\ \A k \in types[r][i] \cup {"signature", "provenance"} :
              Has(k, Built[r][i])

\* Mutant: job release without its concurrency group.
VerifyPassesUngrouped(r) ==
    /\ job[r] = "verify" /\ Passes(r)
    /\ job' = [job EXCEPT ![r] = "tag"]
    /\ UNCHANGED <<workerVars, legVars, releaseVars, groupVars, pushed,
                   referrers, tags, ledger>>

\* Concurrency group `release`, cancel-in-progress false: the group runs one
\* entry and keeps one pending entry; a newly queued one evicts the pending.
VerifyPasses(r) ==
    /\ job[r] = "verify" /\ Passes(r)
    /\ IF holder = NoRun
       THEN /\ holder' = r
            /\ job' = [job EXCEPT ![r] = "tag"]
            /\ UNCHANGED waiting
       ELSE /\ waiting' = r
            /\ job' = [s \in Runs |-> IF s = r THEN "waiting"
                                      ELSE IF s = waiting THEN "cancelled"
                                      ELSE job[s]]
            /\ UNCHANGED holder
    /\ UNCHANGED <<workerVars, legVars, releaseVars, pushed, referrers, tags,
                   ledger>>

\* An artifact is missing, or a verifier or the runner failed.
VerifyFails(r) ==
    /\ job[r] = "verify"
    /\ job' = [job EXCEPT ![r] = "failed"]
    /\ UNCHANGED <<workerVars, legVars, releaseVars, groupVars, pushed,
                   referrers, tags, ledger>>

-----------------------------------------------------------------------------
(***************************************************************************)
(* Job release: tag every pair, then append the moves to the ledgers.      *)
(***************************************************************************)

Pairs(r) == {p \in published[r] \X Tags : p[2] \in TagsOf[r][p[1]]}

\* Mutant: the pending entry is not taken up when the group is left.
LeaveReleaseEmpty(r, end) ==
    /\ job' = [job EXCEPT ![r] = end]
    /\ holder' = NoRun
    /\ waiting' = NoRun

\* The job ends and the pending entry of the group, if any, begins.
LeaveRelease(r, end) ==
    /\ job' = [s \in Runs |-> IF s = r THEN end
                              ELSE IF s = waiting THEN "tag"
                              ELSE job[s]]
    /\ holder' = waiting
    /\ waiting' = NoRun

\* crane tag, eight requests at a time in no particular order.
TagOne(r, p) ==
    /\ job[r] = "tag" /\ p \in Pairs(r) \ (tagged[r] \cup missed[r])
    /\ tags' = [tags EXCEPT ![p[2]] = Built[r][p[1]]]
    /\ tagged' = [tagged EXCEPT ![r] = @ \cup {p}]
    /\ UNCHANGED <<job, workerVars, legVars, missed, family, draft, recorded,
                   groupVars, pushed, referrers, ledger>>

\* A failed request is collected in failed.txt; the others still run.
TagMissed(r, p) ==
    /\ job[r] = "tag" /\ p \in Pairs(r) \ (tagged[r] \cup missed[r])
    /\ missed' = [missed EXCEPT ![r] = @ \cup {p}]
    /\ UNCHANGED <<job, workerVars, legVars, tagged, family, draft, recorded,
                   groupVars, pushed, referrers, tags, ledger>>

\* The end of the Tag step: one missed tag fails the job, and the step that
\* records the moves is skipped.
TagsEnd(r) ==
    /\ job[r] = "tag" /\ Pairs(r) \subseteq tagged[r] \cup missed[r]
    /\ IF missed[r] = {}
       THEN /\ job' = [job EXCEPT ![r] = "record"]
            /\ UNCHANGED groupVars
       ELSE LeaveRelease(r, "failed")
    /\ UNCHANGED <<workerVars, legVars, releaseVars, pushed, referrers, tags,
                   ledger>>

\* The images of run r in family f that apply tag t.
Applying(r, f, t) ==
    {i \in published[r] : Family[i] = f /\ t \in TagsOf[r][i]}

\* Mutant: every applied tag counts as moved.
MovesAllApplied(r, f, events) ==
    [t \in {u \in Tags : Applying(r, f, u) # {}} |->
        Built[r][CHOOSE i \in Applying(r, f, t) : TRUE]]

\* Mutant: a digest the tag named at any time before is not a move.
MovesNeverBack(r, f, events) ==
    LET all == MovesAllApplied(r, f, events)
    IN  [t \in {u \in DOMAIN all : \A n \in DOMAIN events :
                    u \in DOMAIN events[n].moves => events[n].moves[u] # all[u]}
            |-> all[t]]

\* ledger.jq moves: the applied tags whose last recorded digest differs.
Moves(r, f, events) ==
    LET applied == [t \in {u \in Tags : Applying(r, f, u) # {}} |->
                        Built[r][CHOOSE i \in Applying(r, f, t) : TRUE]]
    IN  [t \in {u \in DOMAIN applied : Current(events, u) # applied[u]} |->
            applied[t]]

\* ledger.jq refuses a release that applied one tag twice.
AppliedTwice(r, f) ==
    \E t \in Tags : \E i, j \in Applying(r, f, t) : i # j

\* oras pull of the next family's ledger; not found is empty.
PullLedger(r, f) ==
    /\ job[r] = "record" /\ family[r] = NoFamily
    /\ f \in {Family[i] : i \in published[r]} \ recorded[r]
    /\ family' = [family EXCEPT ![r] = f]
    /\ draft' = [draft EXCEPT ![r] = ledger[f]]
    /\ UNCHANGED <<job, workerVars, legVars, tagged, missed, recorded,
                   groupVars, pushed, referrers, tags, ledger>>

\* The moves appended and the whole ledger pushed back; nothing when none.
PushLedger(r) ==
    /\ job[r] = "record" /\ family[r] # NoFamily
    /\ ~AppliedTwice(r, family[r])
    /\ LET moves == Moves(r, family[r], draft[r])
       IN  ledger' = IF DOMAIN moves = {} THEN ledger
                     ELSE [ledger EXCEPT ![family[r]] =
                             Append(draft[r], [run |-> r, moves |-> moves])]
    /\ recorded' = [recorded EXCEPT ![r] = @ \cup {family[r]}]
    /\ family' = [family EXCEPT ![r] = NoFamily]
    /\ draft' = [draft EXCEPT ![r] = <<>>]
    /\ UNCHANGED <<job, workerVars, legVars, tagged, missed, groupVars, pushed,
                   referrers, tags>>

ReleaseEnds(r) ==
    /\ job[r] = "record" /\ family[r] = NoFamily
    /\ {Family[i] : i \in published[r]} \subseteq recorded[r]
    /\ LeaveRelease(r, "released")
    /\ UNCHANGED <<workerVars, legVars, releaseVars, pushed, referrers, tags,
                   ledger>>

\* A login, an install, a ledger that cannot be read or written, the runner.
ReleaseLost(r) ==
    /\ job[r] \in {"tag", "record"}
    /\ LeaveRelease(r, "failed")
    /\ UNCHANGED <<workerVars, legVars, releaseVars, pushed, referrers, tags,
                   ledger>>

-----------------------------------------------------------------------------
Init ==
    /\ job = [r \in Runs |-> "new"]
    /\ at = [r \in Runs |-> [i \in Images |-> "queued"]]
    /\ kind = [r \in Runs |-> [i \in Images |-> "signature"]]
    /\ types = [r \in Runs |-> [i \in Images |-> {}]]
    /\ published = [r \in Runs |-> {}]
    /\ pending = [r \in Runs |-> {}]
    /\ legs = [r \in Runs |-> {}]
    /\ broken = [r \in Runs |-> {}]
    /\ tagged = [r \in Runs |-> {}]
    /\ missed = [r \in Runs |-> {}]
    /\ family = [r \in Runs |-> NoFamily]
    /\ draft = [r \in Runs |-> <<>>]
    /\ recorded = [r \in Runs |-> {}]
    /\ holder = NoRun
    /\ waiting = NoRun
    /\ pushed = {}
    /\ referrers = {}
    /\ tags = [t \in Tags |-> NoRef]
    /\ ledger = [f \in Families |-> <<>>]

\* The steps a run takes by itself, apart from failing.
WorkerStep(r, i) ==
    \/ StartWorker(r, i) \/ Push(r, i) \/ NoTarget(r, i)
    \/ ArtifactPresent(r, i) \/ ArtifactAbsent(r, i) \/ Judge(r, i)
    \/ AddArtifact(r, i) \/ AppendPublished(r, i) \/ CheckProvenance(r, i)

Publish(r) == ParallelEnds(r) \/ \E i \in Images : WorkerStep(r, i)

Provenance(r) == LegsEnd(r) \/ \E i \in Images : LegAttests(r, i)

Release(r) ==
    \/ \E p \in Pairs(r) : TagOne(r, p)
    \/ TagsEnd(r)
    \/ \E f \in Families : PullLedger(r, f)
    \/ PushLedger(r)
    \/ ReleaseEnds(r)

Fails(r) ==
    \/ \E i \in Images : WorkerFails(r, i) \/ LegFails(r, i)
    \/ PublishLost(r) \/ VerifyFails(r) \/ ReleaseLost(r)
    \/ \E p \in Pairs(r) : TagMissed(r, p)

Next ==
    \E r \in Runs :
        \/ StartRun(r) \/ Publish(r) \/ Provenance(r) \/ VerifyPasses(r)
        \/ Release(r) \/ Fails(r)

Spec == Init /\ [][Next]_vars

\* A job GitHub has started keeps running until it ends or fails: each job of
\* a run has a runner (and a time limit) of its own.
Fairness ==
    \A r \in Runs :
        /\ WF_vars(Publish(r) \/ \E i \in Images : WorkerFails(r, i))
        /\ WF_vars(Provenance(r))
        /\ WF_vars(VerifyPasses(r) \/ VerifyFails(r))
        /\ WF_vars(Release(r) \/ ReleaseLost(r))

-----------------------------------------------------------------------------
(***************************************************************************)
(* Properties.                                                             *)
(***************************************************************************)

Jobs == {"new", "publish", "provenance", "verify", "waiting", "tag", "record"}
            \cup Ended
WorkerPhases == {"queued", "push", "check", "stale", "add", "record",
                 "provenance", "ok", "failed"}

\* Every variable of the pipeline has its type.
TypeOK ==
    /\ job \in [Runs -> Jobs]
    /\ at \in [Runs -> [Images -> WorkerPhases]]
    /\ kind \in [Runs -> [Images -> AttestationTypes \cup {"signature"}]]
    /\ types \in [Runs -> [Images -> SUBSET AttestationTypes]]
    /\ published \in [Runs -> SUBSET Images]
    /\ pending \in [Runs -> SUBSET Images]
    /\ legs \in [Runs -> SUBSET Images]
    /\ broken \in [Runs -> SUBSET Images]
    /\ tagged \in [Runs -> SUBSET (Images \X Tags)]
    /\ missed \in [Runs -> SUBSET (Images \X Tags)]
    /\ family \in [Runs -> Families \cup {NoFamily}]
    /\ draft \in [Runs -> Seq(Entry)]
    /\ recorded \in [Runs -> SUBSET Families]
    /\ holder \in Runs \cup {NoRun}
    /\ waiting \in Runs \cup {NoRun}
    /\ pushed \in SUBSET Refs
    /\ referrers \in SUBSET Referrer
    /\ tags \in [Tags -> Refs \cup {NoRef}]
    /\ ledger \in [Families -> Seq(Entry)]

\* The evidence the policy asks of every mirror image.
Proven(ref) ==
    /\ ref \in pushed
    /\ \A k \in Kinds \ {"openvex"} : Has(k, ref)

\* A consumer following a tag never resolves to a digest that has not passed
\* the full policy: it is on the registry, signed by us, with its SBOM, a scan
\* and platform provenance (ci.yaml, comment on job release).  Failures at any
\* step of any run, and runs racing each other, do not change that.
TaggedIsProven == \A t \in Tags : tags[t] # NoRef => Proven(tags[t])

\* The pipeline implements the promise of ProvenTags: every step that moves a
\* tag moves it to a ref proven before the step, and nothing proven is undone.
Promise == INSTANCE ProvenTags WITH proven <- {ref \in Refs : Proven(ref)}
PromiseKept == Promise!Spec

\* A run that got to move tags skipped no image and published each with
\* current evidence: a scan ranked at least as its own database, and its own
\* VEX statements, whoever attached them (ci.yaml publish_one, parallel.sh:
\* "refusing to guess" never becomes "skip this image").
Cleared(r) == job[r] \in {"waiting", "tag", "record", "released"}

ClearedIsCurrent ==
    \A r \in Runs : Cleared(r) =>
        /\ published[r] = Images
        /\ \A i \in Images :
            /\ \E a \in Attached("vuln", Built[r][i]) : Db[a.run] >= Db[r]
            /\ "openvex" \in Types[r][i] =>
                 \E a \in Attached("openvex", Built[r][i]) :
                     Vex[a.run][a.image] = Vex[r][i]

\* The tag ledger is append-only: no release ever writes over another's events
\* (ci.yaml, concurrency of job release; ADR 0017, "One release at a time").
LedgerAppendOnly ==
    [][\A f \in Families :
          /\ Len(ledger[f]) <= Len(ledger'[f])
          /\ SubSeq(ledger'[f], 1, Len(ledger[f])) = ledger[f]]_ledger

\* The ledger holds moves and nothing else: what an event records differs from
\* what the ledger said of the tag before it, and is a ref that was proven.
LedgerHoldsMoves ==
    \A f \in Families : \A n \in DOMAIN ledger[f] :
        LET moves == ledger[f][n].moves
        IN  /\ DOMAIN moves # {}
            /\ \A t \in DOMAIN moves :
                /\ moves[t] # Current(SubSeq(ledger[f], 1, n - 1), t)
                /\ Proven(moves[t])

\* A release that ends well leaves every ledger it wrote naming exactly what
\* its tags name on the registry.
ReleaseRecordsTags ==
    [][\A r \in Runs : job[r] = "record" /\ job'[r] = "released" =>
          \A p \in Pairs(r) :
              Current(ledger'[Family[p[1]]], p[2]) = tags'[p[2]]]_job

\* "an append-only record of which Digest each of its tags was pointed at"
\* (ADR 0017): while no release runs, the ledger names what the tags name.
LedgerNamesEveryTag ==
    holder = NoRun =>
        \A r \in Runs : \A p \in tagged[r] :
            Current(ledger[Family[p[1]]], p[2]) = tags[p[2]]

\* Every run ends: no order of events leaves a release pending for ever behind
\* a group nobody holds, or a job waiting on a worker that is gone.
RunsEnd == \A r \in Runs : job[r] = "publish" ~> job[r] \in Ended
=============================================================================
