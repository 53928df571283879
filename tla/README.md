# Formal model of the distroless mirror

TLA+ modules, TLC configurations and TLAPS proofs for the parts of this
repository that publish container images, attach evidence to them, move their
tags, deploy the services, and serve images and evidence to readers, and for
the tools that pin and unpack what the images are made of.

1. [The system](#1-the-system)
2. [Modules and the code they model](#2-modules-and-the-code-they-model)
3. [Runs](#3-runs)
4. [Fairness](#4-fairness)
5. [Proofs](#5-proofs)
6. [Where the code and what is said of it disagree](#6-where-the-code-and-what-is-said-of-it-disagree)
7. [What is not modelled](#7-what-is-not-modelled)
8. [Plan](#8-plan)

`PROJECT.json` holds the components, the runs, the lines each definition
models, the hazards the properties are for, a broken variant of a definition
for every property (it makes TLC report the property violated) and the
findings.

## 1. The system

| Component | Where | State it keeps | Operations |
| --- | --- | --- | --- |
| Mirror pipeline | `.github/workflows/ci.yaml` jobs `publish`, `provenance`, `verify`, `release`; `oci/publish/*` | manifests, referrers, tags and ledgers on the registry; `published.jsonl`, `pending.jsonl` per run | push by digest, sign, attest, verify, tag, record |
| Rollout | `ci.yaml` jobs `push-gar`, `deploy-registry`, `deploy-web` | the revision each region serves | replace a service, one region at a time |
| Evidence rules | `oci/publish/stale.jq`, `oci/supply_chain.bzl` on one side, `newestScan` and `newestStatement` in `web/internal/mirror` on the other | the scans and VEX documents on a digest, never removed | decide what to attach; decide which speaks |
| Mirror client | `web/internal/mirror` | LRU and expiring caches by digest | resolve a tag, walk referrers, project, cache |
| Directory pages | `web/internal/directory` | none of its own; ETag and Cache-Control drive the reader's cache | versions, SBOM, vulnerabilities, history, documents |
| Registry proxy | `oci/proxy` | token transports by repository, in an LRU; Cache-Control drives the CDN | route, authorise, forward, set the lifetime |
| RPM lockfiles | `rules_rpm/rpm/tools/pin`, `update-rpm-packages` | lockfiles on `main`, a pull request | fetch and check metadata, close over dependencies, gate, merge |
| RPM extraction | `rules_rpm/rpm/tools/rpm-extract` | links waiting for their bytes | cpio entries to tar entries |
| Debian lockfiles | `oci/debian/snapshot`, `knife apt update` and `licenses`, `update-debian-packages` | manifests with a snapshot per archive, locks, a licence table | find the newest snapshot, lock, read licences with concurrent downloads, merge |
| Tarball lockfiles | `bazel/tarballs`, `knife tarballs update`, `update-tarballs` | a lockfile of lines, each some archives of one release | resolve each line, write, tidy, merge |
| Vulnerability database | `bazel/grypedb`, `knife grype update`, `update-grype-db` | a call in a module file, and its lock | rewrite the call's arguments, tidy, merge |
| CA bundle | `rules_rpm/rpm/tools/ca-bundle` | objects read so far | parse the trust file, select the anchors for servers |
| ELF check | `oci/tools/elfneeds` | none | find what each ELF of a root loads |
| Build events | `bazel/bep`, `knife bep digests` | file sets and roots seen so far | reduce an event stream to a hash per label |

How they interact: a push to `main` starts a CI run. Its `publish` job works on
the images in parallel, pushing each by digest and adding the signature, SBOM,
scan and VEX statements that are not there yet. `provenance` attests the digests
that lack provenance, `verify` checks the whole policy, and only then `release`
moves the tags and appends to the ledger. Runs of several pushes overlap; only
`release` is in a concurrency group, which runs one job, keeps one pending and
drops the rest. The Directory reads tags, referrers and ledgers of the same
registry while all this goes on, keeps what it computed for a while, and its
readers keep what they got for a while. The proxy does the same for images, with
a CDN in front. The four update jobs read upstreams that
publish while they read, each with a gate that says whether there is anything to
propose, and a pull request that merges itself while the next job may be running.

What is hard about it:

* runs race on one digest, with checks and additions in different jobs;
* any request, worker, runner or job can fail between two effects on the
  registry, which has no transactions;
* concurrency groups drop pending entries, and enter runs in the order their
  tests end, not the order of commits;
* three caches in a row (server, CDN or HTTP, reader), filled by racing requests
  from a registry that changes in between;
* readers disconnect in the middle of a walk whose result is cached for others;
* what the ledger, the tag and the referrers say is read at different moments;
* several upstream files that belong together are fetched one after the other;
* a pull request merges while the job that will replace it has an older checkout,
  and upstream takes back what is about to merge;
* objects, entries, events and tags come in any order, refer to each other in
  cycles, and one that is left out changes a bundle, a layer, a verdict or a page
  without an error.

What makes each component correct is stated as its properties, in section 3.

## 2. Modules and the code they model

| Module | Models | State | Actions |
| --- | --- | --- | --- |
| `MirrorPipeline` | the four jobs for any set of runs | per run: `job`; per worker: `at`, `kind`, `types`; files `published`, `pending`; matrix `legs`, `broken`; release: `tagged`, `missed`, `family`, `draft`, `recorded`; the group: `holder`, `waiting`; registry: `pushed`, `referrers`, `tags`, `ledger` | one per step of `publish_one` (`Push`, `ArtifactPresent`, `ArtifactAbsent`, `Judge`, `AddArtifact`, `AppendPublished`, `CheckProvenance`), of `parallel.sh`, of the provenance matrix, of `verify`, and of `release` (`TagOne`, `TagMissed`, `TagsEnd`, `PullLedger`, `PushLedger`, `ReleaseEnds`), with the ways each is lost |
| `ProvenTags` | what the pipeline promises: tags move to proven refs, proofs stay | `proven`, `tags` | `Prove`, `Move` |
| `Rollout` | `push-gar` and one deploy job | per run and region `leg`; group `holder`, `waiting`; `live` | `PushGar`, `Queue`, `Replace`, `RolloutFails`, ... |
| `Evidence` | one digest over its commits: what is attached and what is chosen | `commits`, `finished`, `scans`, `documents` | judge and attest, per predicate; a run failing |
| `MirrorClient` | `Client.SBOM`, `Document`, `Scan`, `ScanDocument`, `Scans` | caches; per request its place in the walk | `Call`, `Resolve`, `Hit`, `Miss`, `List`, `Read`, `Skip`, `Fill`, `Fail`, `Return` |
| `VersionsPage` | `Client.Versions`, `describe`, `serveVersions` | lookups and slots, rows, cache of builds, reader's copy | `List`, `TakeSlot`, `Head`, `Skip`, `Resolved`, `Describe`, `Respond` |
| `PageCache` | ETag, Cache-Control and 304 of every view, `defaultScanTTL` | `names` and when it `left` a build, `evidence`; per instance the `answers` it remembers; the reader's `copies` | a visit that some instance answers with 304 (`NotModified`) or with a body (`Served`), `MoveTag`, `Rescan`, `Restart` |
| `TagHistory` | `release`'s moves and record, `serveHistory`, `tagEras`, `NewHistory` | ledger, eras, the page's reads | one per registry read of the page |
| `VersionOrder` | `CompareVersion`, loop by loop, and deb-version(7) next to it | two indices | one per turn of a loop |
| `RegistryProxy` | `ServeHTTP`, `findOp`, `getTransport`, `cacheControl`, `proxyRequest` | `transports`, per request `conn`, the CDN | `Begin`, `LookupHit`, `LookupMiss`, `Granted`, `Found`, `Deliver`, ... |
| `RpmUpdate` | the update action and the fetching half of `resolve` | fetch position, `listed`, `tree`, `pr`, `main` | `GetRepomd`, `GetAsc`, `GetPrimary`, `Retry`, `WriteLock`, `Gate`, `Merge`, ... |
| `DebianUpdate` | `fetchLatestSnapshotAt`, `knife apt update`, the action's locks and gate, `knife apt licenses` | loops `at`, `clock`, `newest`; `downloads`; `tree`, `pr`, `main` | `ThisMonth`, `LastMonth`, `Write`, `RunLock`, `Skip`, `Licenses`, `Take`, `Resolve`, `NextURL`, `WrongDigest`, `Finish`, `Merge` |
| `TarballPins` | `Update`, `Temurin.Latest`, `NodeJS.Latest`, the command and the action | `line`, `asset`, `release`, `got`, `lock`; `tree`, `pr`, `main` | `ReadIndex`, `ReadSums`, `ReadAsset`, `Write`, `Tidy`, `Gate`, `Merge` |
| `DatabasePin` | `UpdateModuleFile`, `knife grype update`, the action | `latest`; module file and lock in `tree`, `pr`, `main` | `Latest`, `Update`, `Tidy`, `Compare`, `Merge` |
| `RpmClosure` | `closeDeps`, `pickProvider`, `validate` | `worklist`, `closure` | `Seed`, `Visit`, `ArchDone`, `Validate` |
| `RpmExtract` | `writePayloadAsTar` | `pending`, `order`, `tar` | `Strip`, `HandOver`, `Hold`, `Write`, `Flush`, ... |
| `TrustBundle` | `parseP11Kit`, `extractServerAnchors`, `subjectPublicKeyInfo` | `at` (the next line, as an object and a line of it), `objects`, `pemLines`, `bundle` | one per kind of line, and the extraction |
| `EvidenceTables` | `decodeScan`, `suppress`, `Fingerprint`, `NewReport` | a scan, a VEX document, an architecture | `Render` |
| `ReleaseList` | `NewVersions`, `compareTag`, `compareRelease` | the tags as listed | `Group` |
| `ElfNeeds` | `check`, `needsOf`, `fileInRoot`, `ldSoConfDirs` | a root, its configuration, allow lists | `Check` |
| `BuildEvents` | `OutputDigests`, `hashOutputs` | `sets`, `roots`, the walk | `NamedSet`, `Completed`, and one per turn of the walk |

Four modules compose others. `MirrorOverlap` adds to the pipeline a history
variable, `before`, that tells runs that overlapped from runs that followed one
another. `Directory` puts together the evidence, the history of a tag, the caches
of each reader and the versions page, and `Delivery` the rollout and the four
update workflows. Their parts share no state beyond what the composing module
says, so a behaviour is about one of them, its `subject`, chosen in `Init` and
never changed, and what the subject does not use is `Off`. `Tools` does the same for the
sequential algorithms: a behaviour is one run of one of them, its `tool`, on any input, and
they share the registers `v1` to `v7`. `Reachability` has the definition that three of them
are held to, everything reached from some nodes along their successors, within a number
of steps or at all. `Sorting` says what a filter and a stable sort make of a sequence
without an algorithm, from who stands before whom; the pages and the bundle use it.

The modules named `...MC` are the instances TLC runs. They only give constants their values, so that what TLC checks is what the
proofs are about. What a behaviour of `RegistryProxy` or of `MirrorClient` is about, its
`setup`, is chosen in `Init` from the constant `Setups`: the times that matter to a tag,
to a redirect and to a token differ too much for one clock, and so do racing readers
from readers that disconnect. TLC evaluates the assumptions of each.

Abstractions worth knowing:

* A ref is a repository at a digest, and its content is what the build of a run
  fixes: constants of the run. Evidence is a record of who attached what; a
  scan's rank and a VEX document's statements are read off the run.
* `verify`'s loop is one step, because the registry only gains referrers.
* The worklist of the closure is a set, because a second visit is settled by
  the `closure` check whatever the order.
* What a source of Debian packages offers never goes back to an earlier version
  (`VersionsRise`): the archives accept only newer ones, and a snapshot is of the
  archive as it was. Merging is of whole lockfiles, so without it the model has a
  behaviour in which an earlier pull request merges while a job reads a version
  that was withdrawn since, and locks and licences come apart.
* The eviction of the LRU in `MirrorClient` takes any entry, so the bound is
  shown for every order of use; in `RegistryProxy` it is the least recent one.
* Time is a counter in the unit that matters (the TTL; the minute of a signed
  redirect; a quarter of an hour for a tag behind the CDN). For the pages it is the max-age at
  a tag, 300 s, and the TTL is two of it instead of twelve: it is the longer of the two and
  they add up, and the theorem is for any lifetimes.

## 3. Runs

| Run | Distinct states | What it checks |
| --- | --- | --- |
| `mirror_pair` | 52,627 | two runs of one digest with all attestations, the second with a newer database, other VEX statements and one more tag |
| `mirror_trio` | 2,144,788 | three runs of which the middle one builds another digest: the tag goes there and back, and the group evicts |
| `delivery` | 480,122 | five workflows, one per behaviour: the rollout of three pushes to two regions, and the updates of the rpm, Debian and tarball lockfiles and of the vulnerability database |
| `client` | 2,178,276 | two racing requests on one digest over four ticks of the clock; two requests on two digests and a moving tag with faults and disconnects |
| `directory` | 3,051,957 | five instances: evidence, history, two readers of pages, the versions page |
| `proxy` | 698,833 | nested repositories, one named like an operation, with room for one transport; a tag behind the CDN; a signed redirect by the minute |
| `tools` | 1,072,974 | eight algorithms, each on every input of a bounded set |
| `mirror_lost_move`, `client_cancelled`, `evidence_withdrawn`, `closure_every`, `report_arch` | | violations, section 6 |

**mirror_pair.** `TaggedIsProven`: a tag never names a ref that lacks the push,
the signature, the SBOM, a scan or provenance. `ClearedIsCurrent`: a run past
`verify` published every image, each with a scan of a database at least as good
as its own, and with its own VEX statements, whoever attached them.
`OneOfEachPerDigest`: the same thing is attached twice only by runs that
overlapped, whatever a failed run left behind and whatever the registry failed to
answer. `PromiseKept`: the pipeline implements `ProvenTags`. `RunsEnd`: every
run is released, failed or cancelled in the end. One image is enough for what
races on a digest, and the first four are also proved for any runs and any set of
images (section 5), like the properties of `mirror_trio`. Two runs are what it
takes for one to skip what the other attached, and to be pending behind the
other's release.

**mirror_trio.** `LedgerAppendOnly`, `LedgerHoldsMoves` (every event changes what
the ledger said of the tag, to a proven ref) and `ReleaseRecordsTags` (a release
that ends well leaves the ledger naming what its tags name). Three runs are
needed for an eviction from the group and for a tag that comes back. `Width` is
1, as there is one image.

**delivery**, the rollout. `RolloutsSerialised`, `LastQueuedWins`, `FailureStopsRun`
and `RolloutsEnd`. Three runs are needed for an eviction while another run rolls;
two regions for fail-fast and for a matrix that is under way in one region and
queued in another.

**delivery**, the updates. `TrustAnchored`: nothing of a revision the mirror had
not signed is in a lockfile of a repository pinned with the signature required.
`FlakesRiddenOut`: with fewer faults (2) than attempts (3), no retry ends the job,
whatever fetches the flakes hit. `WholeRelease`: no line of a tarball lockfile
mixes releases, whether it is the checkout's, the pull request's or main's, with
upstream's rollout anywhere between the requests. `LicensesInStep`: the licences
that go to `main` are those of the locks that go with them. `BinariesReachMain` and
`PinsReachMain`: from some point on `main` has what upstream ended with. The
revisions of the rpm mirror are a, b and a again: one bump has packages, and the
mirror takes it back while its pull request is open. Debian publishes a
version, a security archive a snapshot without one, nginx.org has no snapshots
at all, and all this happens around the turn of a month; packages have two
locations, and downloads two workers. Tarballs have two lines of two archives, so
that one line can be mid-rollout while the other has moved, and the last archive is
published a second time under the same release. The module file starts with the
database's arguments there, in part or not at all. The safety properties of this
run, `FlakesRiddenOut` among them, are also proved for any bounds.

**client.** `SeenWithinTTL`: while readers wait for their answers and the
registry answers, an answer about scans takes in all evidence older than the TTL
and a walk, whichever of the racing requests wrote the cache last.
`NeverEmptyByAccident`: no answer and no cache entry lacks the statement it is
about, with faults and disconnects anywhere, two builds and room for one of
them in a cache. Four ticks span an entry's life, its expiry and a slow
walk across it. Both are also proved.

**directory.** `BestScanShown`, `NewDocumentSpeaks`: while runs do not overlap,
the rule that attaches and the rule that chooses agree. `HistoryExact`: every scan
of the present build and of a recorded tenure is on the history page, and no scan
made after the tag left for good, with a ledger that lags, fails, or already holds a
move newer than the page's first read. `RescanSeenAtTag`: what a reader at a tag is
shown misses no re-scan that is older than the TTL and the max-age together, and its
build is one the tag named within the max-age, whichever of two instances filled the
copy and which renewed it with 304, with a restart in between. `RowsWereTrue`, `CalmPageIsExact`: the versions page while
tags move and lookups fail. The bounds leave room for a tag that goes away
and back (three releases), for statements that are added, withdrawn and put back
(four commits), for a copy that expires, and for a fault in a request followed
by a request without. The TTL is two ticks and the max-age at a tag one, so a copy
filled from an answer about to expire outlives it. The instances are symmetric: they run the same
code. All six are also proved for any bounds.

**proxy.** `TokenScoped`: the token a request goes out with is for its own
repository, with one repository inside the other and named like an operation (`go/tags`),
and a cache for one. `SeenWithinWindow`: what a client gets of a tag is no older than
max-age and stale-while-revalidate, or stale-if-error during an outage.
`SignatureValid`: no redirect is handed out after its signature expired, at any
phase of the rounding. `Conns` is symmetric: the two requests are alike. All three are
also proved.

**tools.** `ContentKept`: every shipped path is in the tar once, links look back to
a regular entry, and every path has its file's bytes, over every assignment of
five paths to two files in every order of entries, with stripped, legacy and
over-long paths. `ClosureExact`, over every repository of three packages and two
architectures with up to two requirements each, against a definition of
reachability. `PlainAgrees`, over versions of up to four characters, against
deb-version(7). `AnchorsExact`, over trust files of up to three objects out of
sixteen, among them restrictions before and after the certificate they are about,
distrust dates on either side of the limit, certificates with and without a
version field, and malformed ones, without a block or with an empty one. `ReportExact`, over up to three of eight
matches and four VEX documents: every match is in one row, once, open or set aside
as it should be, and a document that changes the page changes its validator.
`ListExact`, over every way five tags name two builds or none: each published tag has
one place, a build's tags and the releases are in order, and the page is the same
whatever the order of listing. `VerdictExact`, over roots in which a library is there, of another
machine, linked to in a chain or a cycle, or not there, with several configurations
and allow lists, of globs that match a path alone, overlap, or match nothing; the limits of
40 links and 8 includes are those of the code, with chains that just reach one and chains that
go one past it, and an ELF that does not parse ends the check without a verdict. Past a limit,
a file may fail that would load, never the reverse. `DigestsExact`, over every order of the events of builds
whose file sets are shared, cyclic or never announced. `ToolsEnd`: the loops of the
tools modelled step by step end, on cyclic requirements, cyclic file sets and malformed
versions. It says nothing of the tools that are functions here (`EvidenceTables`,
`ReleaseList`, `ElfNeeds`), whose loops are bounded in the code. All eight exactness
properties are also proved for any inputs.

`TypeOK` is stated where it is proved, in `MirrorPipeline` and `Rollout`.

Deadlock is not checked, because every model really may stop: runs are
finite in number, the tools return, upstreams publish a bounded number of times,
and the clocks of the others run out. `RunsEnd`, `RolloutsEnd`, `ToolsEnd`,
`BinariesReachMain` and `PinsReachMain` say where the jobs and the tools must have
got to by then.

## 4. Fairness

* Pipeline and rollout: weak fairness per job of a run. GitHub starts a job
  whose needs are met, each job has a runner of its own, and a time limit ends
  what hangs. Failing is an alternative within each fair action, so nothing
  assumes success.
* Update jobs: the cron fires every day and a started job goes on (`AJobGoesOn`);
  checks finish and the auto-merge goes through (`AMerge`); the mirror signs what
  it published and an upstream that began a release finishes it
  (`UpstreamCompletes`). None is assumed to publish. A behaviour is about one
  workflow, and the rollout's steps are finite in number and in a fixed order of
  dependence, so one weak condition for all the jobs is enough.
* `Tools`: a sequential program takes its next step.

The safety properties use no fairness.

## 5. Proofs

All constants are arbitrary within the named assumptions of the modules.

`MirrorProofs`, the pipeline (from `ConstantsAssumption`: finite sets, well-typed
tables, distinct null values):

* `TypeCorrect`: `Spec => []TypeOK`.
* `InvCorrect`: the inductive invariant `Inv`. `TaggedIsProven` alone is not
  inductive: the step that moves a tag reads only that the run holds the release
  group. `Inv` carries the evidence from where it is added to there.
  `WorkerInv` says what a worker has already seen or attached by its place in
  the sequence of artifacts; `RunInv` what a run that is past `publish`, and a run
  past `verify`, knows of every image it published; `GroupInv` ties the release
  group to the jobs of the runs. As referrers are never removed, what one run
  established stays, whatever other runs do (`WorkerInvStays`, `RunInvStays`,
  `TaggedStays`), so that each action is checked for its own run only.
* `TagsAreProven`, `ClearedRunsAreCurrent`: the two invariants, from `Inv`.
* `PipelineKeepsPromise`: `Spec => Promise!Spec`, by the refinement mapping that
  takes `proven` to the refs with complete evidence: a `TagOne` step is a move to
  a ref proven before the step, a step that completes a ref's evidence is a
  `Prove`, and every other step leaves both unchanged.

`MirrorProofs`, the overlap (adds `OverlapInv` to `Inv`, from `ImagesDiffer`: the mirror
targets of one run are different images):

* `AttachedOnce`: that is `OneOfEachPerDigest`. A worker decides to attach from what
  the referrers were when it looked, so the invariant says what it may have missed:
  what it is about to add is news to every run that had ended when its own began
  (`AddInv`), and that stays so, because a run that has ended attaches nothing more
  (`EndedStays`). `ReferrersInv` says the same of what is attached, `NewInv` that a
  run which has not begun has done nothing, and `BeforeInv` that those before a run
  have ended.

`MirrorProofs`, the ledger (adds `LedgerInv` to `Inv`):

* `OnlyMovesRecorded`, `LedgerIsAppendOnly`: the two properties of the ledger. A
  release downloads a ledger, appends to its copy and uploads it, so the copy
  must not be stale. `ReleaseInv` says why it is not: a run between `tag` and
  `record` holds the release group, so nobody else writes, and what it pulled is
  still the ledger when it pushes. That the events it appends are moves to
  proven refs is `ClearedIsCurrent`'s invariant again. What a ledger says of a
  tag after an append is `CurrentAppend`; that a set of places in a ledger has a
  last one comes from the library's theorem on well-founded relations.
* `ReleasesRecordTags`: assumes `TagsOfOneRepository`, that no tag is applied to images
  of two repositories (a tag is `repository:tag`). The invariant also keeps, per
  run, that the pairs it has tagged stand (`TagsStand`), and that the families it
  has recorded name what it applied (`Recorded`).

`MirrorClientProofs` (from `ClientAssumption`; requests, capacity and lifetimes, and the
digests, bounds and faults of every `setup`, are arbitrary):

* `NeverEmpty`: faults, disconnects and evictions included. `DigestInv` says
  that a request walks the digest it will cache under; an entry is written only by
  a walk that found the statement.
* `SeenInTime`: in a setup where readers wait (`~Impatient`) and the registry answers
  (`~Flaky`), an answer about scans is at most a TTL and a walk old. The walk of a request only
  knows what was there when it listed, and a slow walk may write over the entry of
  a quicker one. `FreshInv` bounds both: `WalkInv` says that what a walk has not
  read is newer than its start, and `EntryInv` that an entry lacks nothing older than
  the listing of the walk that wrote it, and expires no later than a TTL and a walk
  after that listing, however late it was written. `client_cancelled` shows that `~Impatient` is needed.

`DirectoryProofs` (from `DirectoryAssumption`, the assumptions of the four parts; any
number of commits, scans, moves, tags, readers and failing calls). `SubjectSteps`
makes a step of a behaviour a step of its subject, and each part has an invariant:

* `BestEvidence`, `NewDocumentHeard`: the scans on a digest rise in rank and in the time
  they finished (`ScansRise`), because the run that is under way judged those there
  before it attaches another (`ScansKnown`, `OneLive`); each document is that of a
  commit whose run is done (`DocumentsDone`).
* `HistoryFaithful`: the eras of a page follow the moves of the ledger as it was read
  (`ErasFollow`), the current build's era closes the list (`EndsWithCurrent`), and
  ledger and moves rise in time, so that sorting the eras moves none.
* `RescanSeen`, for any lifetimes and any number of instances: what an instance remembers
  lacks no re-scan older than its expiry less the TTL (`AnswersKnow`). A copy at a tag lacks
  none older than its own expiry less both lifetimes, and the tag named its build
  until the max-age before that expiry (`CopiesKnow`). A 304 from any instance
  keeps this, because the copy it renews equals what that instance would write
  (`RequestKeeps`).
* `RowsNeverInvented`, `CalmPageExact`: a row is a build its tag named during the request
  (`RowsHeld`); in a calm request a row whose lookup is done is what the tag names
  (`CalmRows`), and the validator tells any two mappings apart (`MappingDigestTells`).

`DeliveryProofs` (from `DeliveryAssumption`: those of the parts, and fewer faults of
the rpm mirror than attempts). `DeliveryInv` is the invariant of the subject; that of the
Debian update is proved in `DebianUpdateProofs`.

* `RolloutTyped`, `OneRolloutPerRegion`, `LatestEntryServed`, `FirstFailureStops`: the
  invariant adds to the properties that a run has at most one leg inside a group
  (`OneLegAtATime`, from max-parallel 1) and that the latest run to enter a busy
  group is its pending entry, or runs in it (`LastIsInGroup`): without the second an
  eviction could drop the latest.
* `LinesAreWhole`: every lockfile (the one in memory, the checkout's, the pull request's
  and main's) is made of whole lines (`WholeInv`), and the archives read so far of a line
  are of the release whose name was read first (`GotInv`). The second is what an
  archive replaced mid-rollout would break.
* `LockfilesAnchored`. There are four copies of
  the lockfile (the checkout as it was and as it is written, the pull request, main), and
  each must be anchored: what it has of a repository with a required signature comes
  from revisions that were signed. `FetchInv` carries that through the loop that writes
  one: past the signature check the repomd in hand is of a signed revision, and so is
  what was read for the architectures before this one. A revision that upstream
  withdraws was still signed, which is why it may be on main.
* `FlakesAreRetried`, an action property: each attempt but the first is paid for by a
  fault (`FlakesInv`), so a retry never is the last.
* `LicencesAreCurrent`, from `LicencesFollowLocks` of `DebianUpdateProofs`. The step that
  merges pairs a lockfile and a table that were written at different times, and the job
  that wrote them may have started from a main that has moved since. The invariant orders
  all of it: every lock is what apt resolved at snapshots that were published
  (`Resolved`); the checkout's locks are no newer than main's, main's no newer than the
  pull request's, and those no newer than what the job has read so far
  (`LocksInv`, `Behind`), which needs that months and versions rise. So the table, which
  only has to be right about the first manifest that locks a package, is in step with the
  locks it merges with (`TablesInv`).

`RpmExtractProofs` (from `ExtractAssumption`): `ContentShipped`, the three conjuncts
of the run's `ContentKept`. A path that is shipped is always to come, held or in
the tar (`NoneLost`); what is held under a file is a set of shipped links of that
file, and if the file has bytes one of its links is still to come (`HeldInv`), which
is why the walk may drop a stripped entry only when nobody waits; every entry of
a path has its content or is a link back to one that has (`GoodInv`). The three
steps that write a set have one lemma (`Delivered`). A walk that is refused keeps
only what is said of the tar it has written so far.

`RegistryProxyProofs` (from `ProxyAssumption`, for each setup: a repository may be named like
an operation, no tag is; a step of the clock is at least half a minute, as the server's
write timeout ends a request within one, and at most an hour, or at most a minute where
there are blobs, so that the clock tells a signature's last minutes apart):

* `TokensAreScoped`. In the cache, what is kept under a repository is a token of that
  repository, through additions, hits and evictions (`TransportInv`); a request that looks
  for a transport, asks for a token or is about to be sent is about a repository, and one
  that is about to be sent has the scope `ExtractRepo` reads from its path (`ConnInv`). The
  rest is about paths: `RepoOfPath` shows that the last operation segment of a path is the
  first of its target, so that `ExtractRepo` gives the repository whatever it is called.
* `TagsWithinWindow`, `RedirectsStillSigned`. What a client gets was written by one
  request, possibly renewed by another and served by a third, so `AnswersInv` bounds the
  age at each place. An answer on its way is as it was after its request began
  (`Answered`), and a request began a step ago at most (`Timely`); so what the CDN holds
  was right a step before it was stored (`CdnInv`). A 304 renews an entry only if the entry
  has the body the request asked about; if another answer came in since, that entry is
  newer than the request (`Validated`), which is why a late 304 does no harm. `Policies` reads
  the lifetimes off `cacheControl`, and `SignedNow` and `StillGood` do the arithmetic of the
  rounding.

`ToolsProofs` (from `ToolsAssumption`, those of the parts: a package has finitely many
paths, a build finitely many file sets, a root finitely many files; each of `pin`'s
architectures is one of those declared; a VEX status is one of the four of
`oci/vex.bzl:85`; a family of images has one `latest` and no two versions that are
written differently and compare equal; an object of the trust file has one block, as
p11-kit writes it, and a certificate no field after its key; versions are texts, of any
length, over the characters of the model). `ToolsInv` is the
invariant of the tool. First what a worklist arrives at: `Reached` is defined as the
last of as many steps as there are nodes, and `ReachedCloses` shows that this is enough
(a step that adds no node is the last, and with every other there is one more), so that it
holds its nodes' successors, and `ReachedIsLeast` that no smaller set does.

Several of these arguments are inductions. The provers cannot instantiate the
library's induction theorems, which take an operator, so `Induction` and `LeastOne`
state them for sets of numbers, from the well-foundedness of <, and `Recursion`
gives the function that a step-by-step definition describes.

* `LayersAreWhole`, from the invariant of `RpmExtractProofs`.
* `ClosureIsExact`. While the first architecture is worked off, its roots and the edges of
  everything locked so far are locked or in the worklist (`ClosureInv`); so the set that is
  locked when the worklist is empty is closed. That argument is only about the first: a
  later pass does not expand what an earlier one locked, which is the violation of
  `closure_every`.
* `DigestsAreExact`. Each label's roots are those of the completions read so far
  (`ReadInv`), so the order of the events leaves no trace; a walk has in hand or behind it
  everything below what it has visited (`Walked`), and a finished one is all of `Reached`.

* `VerdictsAreExact`. The code follows a link or an include a number of times, the
  property asks what is reached at all: what the code finds is reached (so nothing that
  cannot load passes), and `WithinIsAll` has the two equal when the last step adds
  nothing (`WithinLimits`, a condition on the image and not an assumption). `FileInRootExact`, `LdSoConfExact` and `NeedsExact` lift that to
  the file that a path leads to, to the configured directories and to what an ELF
  needs. `VerdictIs` then reads the verdict: each failing path is reported with all that
  it lacks, and an entry of the allow list is of use if it is the first to match
  some failing path, as the code takes the first.
* `ReportsAreExact`. `NewReport` folds the matches one by one into rows. `Folded` is what
  the first n matches have made of the rows: no two rows are of one key, each is of a
  match that belongs to the architecture, and every such match has its package in the
  row of its key. The counts are then the sizes of disjoint sets. The order
  of the page is a strict weak order (`Before`), for which `SortArranges` shows
  that sorting loses and doubles nothing. `SameFingerprint`: two documents with one validator
  silence the same matches.
* `ListsAreExact`. A set of numbers has one increasing sequence (`OnlyOne`), so a page that is
  sorted by an order without ties does not depend on how the registry lists the
  tags. That `compareTag` and `compareRelease` are such orders is where the
  assumption on `latest` and on versions is needed.
* `AnchorsAreExact`. `ReadUpTo` is what the first lines of a file have made of the parser's
  state, inside a block and between objects, so that at the end the objects read are those
  written and the parser has failed only at a flaw. A restriction may stand
  before or after its certificate: `RestrictedIs` shows that the map the code builds
  in a first pass holds the last word on each key.
* `PlainVersionsAgree`. The code walks both fragments with two indices, deb-version(7) is
  about the first pair of a separator and a number in which the fragments differ. `OnPair` relates
  them: the pairs before the n-th are equal, and both indices stand in the n-th, at the
  same phase of it. `AtRuns`, `AtZeros` and `AtDigits` say where, loop by loop. The third
  is the interesting one: the code decides by the first digit that differs unless
  one of the numbers is longer. So far, the sign of that difference is the sign of
  the difference of the two numbers, and both are below a bound that a number
  which goes on reaches (`Bounded` in `AtDigits`, from `NumberGrows`); so the longer is the larger, whatever came
  first. A pair then decides, passes on to the next, or ends both fragments
  (`PairDecides`, `PairPasses`, `PairsEnd`).

Every invariant that a run expects to hold is stated by a theorem, and so are the
action properties and the refinement. Only model-checked: the liveness properties (`RunsEnd`,
`RolloutsEnd`, `BinariesReachMain`, `PinsReachMain`, `ToolsEnd`), because fairness and
ENABLED are beyond the prover.

## 6. Where the code and what is said of it disagree

Five disagreements have a run whose counterexample shows them.

* `mirror_lost_move`, `LedgerNamesEveryTag`: one tag request that fails, or a lost
  runner, ends `release` before the ledger step (`ci.yaml:977`), and tags that did
  move are not in the ledger. ADR 0017 calls it a record of "which Digest each of
  its tags was pointed at".
* `client_cancelled`, `SeenByWhoeverWaits`: a reader who disconnects in the middle of a
  walk makes the remaining reads fail, the walk skips what it cannot read, and the
  partial answer is cached for everybody (`mirror.go:260`). `defaultScanTTL` is
  there so that "a reader should see it within the hour".
* `evidence_withdrawn`, `WithdrawnStopsSilencing`: withdrawing the last statement,
  or returning to an earlier document, attaches nothing, so what was withdrawn
  goes on silencing (`supply_chain.bzl:160`, `stale.jq:49`). The comment in `Scan`
  says that "a withdrawn statement must stop silencing".
* `closure_every`, `EveryArchClosed`: a noarch package walked for the first
  architecture is not expanded for the second (`pin/main.go:465`), so that what it
  requires there can be missing from the lockfile. `resolve` says "the lockfile
  carries every transitively reachable package".
* `report_arch`, `AskedIsShown`: the architectures of the vulnerabilities page come
  from the findings (`scan.go:247`), so that for an architecture without any, the
  page shows another one's. Its comment says that `Architectures` "is every one the
  Index carries [...] The same arrangement as the SBOM page".

Others were met while modelling and are kept here as prose; the properties that
hold in spite of them are in brackets.

* Two overlapping runs of one digest both attach provenance: `publish` reads that
  there is none (`ci.yaml:597`), a later job attaches it. ADR 0014:64 says "One
  provenance statement per digest, ever" [`OneOfEachPerDigest`].
* The Tag step applies tags by a request each (`ci.yaml:970`), so a failure leaves a
  run's tags half moved; ADR 0014:127 says "all-or-nothing per run"
  [`TaggedIsProven`].
* An older commit whose tests take longer enters the rollout group last, and the
  region serves it; the comment at `ci.yaml:1232` says that a burst of pushes
  "settles on the newest commit" [`LastQueuedWins`].
* Overlapping runs can attach scans in the opposite order to the one they ran in,
  so that `newestScan` (`mirror.go:828`) prefers another than `publish` meant; the
  comment at 818 says of the two clocks that they "agree in practice"
  [`BestScanShown`].
* A build that a tag named twice has its early scans in both eras
  (`directory/history.go:231`), and "every scan" (line 180) is counted twice
  [`HistoryExact`].
* `vulnerabilities.json` at a digest is `immutable` for a year (`page.go:541`),
  though "a scan record can be replaced by a re-scan" (line 532)
  [`RescanSeenAtTag`].
* At a tag, the reader's copy may be filled from an answer that the server has
  remembered for an hour, and is then kept for another 300 s (`page.go:477`), so that a
  re-scan may take 65 minutes to be seen; `mirror.go:49` says "within the hour"
  [`RescanSeenAtTag`, which has the sum].
* `ScanDocument` reads the registry on each request, and says it returns "the same
  record Scan was rendered from" (`mirror.go:265`); the page next to it may be
  rendered from a scan an hour older.
* The template and the sibling tags are on a page and not in its ETag
  (`page.go:470`), which line 465 says stands for all of the page's content, so a
  304 can renew a copy whose links are out of date. The model's page is the build and
  its evidence.
* An upstream body without a Content-Length that breaks off is finished towards the
  CDN as a complete, immutable answer (`proxy.go:326`); the comment at 145 says
  "Content-addressed; never changes".
* `resolve` takes the lockfile's revision from the first architecture
  (`pin/main.go:319`) and packages from each, so that a mirror that publishes in
  between leaves a mixture; ADR 0007:110 calls the lockfile the snapshot
  [`TrustAnchored`].
* `compareFragment` ranks a digit as a character where only the other version is at
  a non-digit (`version.go:55`): `1+a` sorts before `1+1`, and dpkg says the
  reverse; line 8 says "the way dpkg does". As a digit then ranks above a letter, and the
  end of a version below it, the order is not transitive: `1` < `1-alpha` < `1-0~rc1` < `1`;
  what a sort by it makes of three such versions depends on the order they come in
  [`PlainAgrees`].
* The licence table has one entry per package name, read off the first lock with it
  (`apt/licenses.go:91`). Manifests with other sources, or a snapshot
  published between two of them, can lock two versions of one package, and the
  second is labelled with the licence of the first; the code's premise is that a
  package "declares the same license wherever it is pulled from" [`LicensesInStep`].
* `Versions` drops a tag on any error (`mirror.go:341`), not only for "a tag that
  vanished", and a page without it is served as complete [`CalmPageIsExact`].

## 7. What is not modelled

* Bazel: image assembly, layers, what a build computes. It is a constant of a run.
* Signature and certificate checks (`web/internal/attestation`, `policy`, the
  keyring): a statement is readable and verified, or it is not.
* Presentation: templates, chart geometry, sizes and links of a row, the SBOM table
  (the selection of `NewReport` without its folding), error bodies, header copying.
* Processes: start-up, shutdown, compression, command line parsing.
* Encodings: rpmdb-merge's SQLite, the lockfiles' JSON, tar and cpio headers, ELF,
  DER below the fields of a certificate. A `Close` error of a writer at the end of
  rpmdb-merge's tar is among them.
* Text processing: the copyright parser, tool versions, `.deb` unpacking.
* Version selection among several builds of one package in `pin`, and apt's
  resolution; the models take one candidate per name and architecture.
* A tag named like an operation (`findOp` would take it for one; the mirror
  publishes none). A repository of such a name is in the instance.
* Links in the directories of a path, in elfneeds: only the last component of a path
  may be a link in `ElfNeeds`.
* An archive that publishes nothing for a whole calendar month: `knife apt update`
  then ends with an error until it does.
* The order of two releases of the CLI: `release-cli.yaml` has no concurrency group,
  and two pushes may release in either order. Each is one job with no state but the
  release.
* The body of a broken connection behind the CDN (section 6): the CDN is outside of
  the repository, and what it keeps of an unframed body is its affair.

## 8. Plan

Worth modelling next:

1. the attestation policy as a predicate over certificate fields, and its use by
   `eachStatement`;
2. rpmdb-merge as one transaction over packages of several layers;
3. version selection in `pin`;
4. the SBOM table and the catalog.

Worth proving next: the properties of what is modelled next. Of the present runs only
the liveness properties have no theorem, and those stay with TLC.
