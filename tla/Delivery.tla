------------------------------ MODULE Delivery ------------------------------
(***************************************************************************)
(* The scheduled and the triggered workflows around the mirror, one        *)
(* `subject` per behaviour: the rollout of a service, the re-pin of the    *)
(* rpm lockfiles, the update of a tarball lockfile, of the Debian          *)
(* lockfiles or of the vulnerability database.  They share no state but    *)
(* what every update job has, and what a subject does not use is Off.      *)
(***************************************************************************)
EXTENDS Rollout, Sequences

CONSTANTS
    Repos, Arches, Signed, Required, MaxAttempts, Binaries, RpmFaults,   \* RpmUpdate's
    Lines, Assets, MaxRelease, MaxSpin, TarballFaults,                   \* TarballPins'
    Manifests, Offers, URLs, Workers, MaxMonth, DebianFaults,            \* DebianUpdate's
    Files, MaxDb, DatabaseFaults,                                        \* DatabasePin's
    Off

VARIABLES
    subject,
    published, faults, pc, head, tree, main, pr,   \* of every update job
    asc, repo, arch, attempt, repomd, listed,      \* RpmUpdate's
    kind, line, asset, release, got, lock,         \* TarballPins'
    month, at, clock, newest, downloads,           \* DebianUpdate's
    latest                                         \* DatabasePin's

rollout == <<gar, leg, holder, waiting, live, last>>
shared == <<published, faults, pc, head, tree, main, pr>>
rpm == <<asc, repo, arch, attempt, repomd, listed>>
tarballs == <<kind, line, asset, release, got, lock>>
debian == <<month, at, clock, newest, downloads>>
all == <<subject, rollout, shared, rpm, tarballs, debian, latest>>

Rpm == INSTANCE RpmUpdate WITH MaxFaults <- RpmFaults
Tarballs == INSTANCE TarballPins WITH MaxFaults <- TarballFaults, upstream <- published
Debian == INSTANCE DebianUpdate WITH MaxFaults <- DebianFaults
Database == INSTANCE DatabasePin WITH MaxFaults <- DatabaseFaults

\* The flakes of a behaviour are fewer than httpGet's attempts.
ASSUME DeliveryAssumption ==
    /\ Rpm!UpdateAssumption /\ RpmFaults < MaxAttempts
    /\ Tarballs!PinsAssumption /\ Debian!DebianAssumption /\ Database!PinAssumption

-----------------------------------------------------------------------------
IdleRollout ==
    /\ gar = [r \in Runs |-> "failed"] /\ leg = [r \in Runs |-> [g \in Regions |-> "held"]]
    /\ holder = [g \in Regions |-> NoRun] /\ waiting = [g \in Regions |-> NoRun]
    /\ live = [g \in Regions |-> NoRun] /\ last = [g \in Regions |-> NoRun]

NoJob ==
    /\ published = Off /\ faults = Off /\ pc = Off /\ head = Off /\ tree = Off
    /\ main = Off /\ pr = Off
NoRpm == asc = Off /\ repo = Off /\ arch = Off /\ attempt = Off /\ repomd = Off /\ listed = Off
NoTarballs == kind = Off /\ line = Off /\ asset = Off /\ release = Off /\ got = Off /\ lock = Off
NoDebian == month = Off /\ at = Off /\ clock = Off /\ newest = Off /\ downloads = Off
NoDatabase == latest = Off

DeliveryInit ==
    \/ subject = "rollout" /\ Init /\ NoJob /\ NoRpm /\ NoTarballs /\ NoDebian /\ NoDatabase
    \/ subject = "rpm" /\ Rpm!Init /\ IdleRollout /\ NoTarballs /\ NoDebian /\ NoDatabase
    \/ subject = "tarballs" /\ Tarballs!Init /\ IdleRollout /\ NoRpm /\ NoDebian /\ NoDatabase
    \/ subject = "debian" /\ Debian!Init /\ IdleRollout /\ NoRpm /\ NoTarballs /\ NoDatabase
    \/ subject = "database" /\ Database!Init /\ IdleRollout /\ NoRpm /\ NoTarballs /\ NoDebian

On(name, A) == subject = name /\ A /\ UNCHANGED subject
OnRollout(A) == On("rollout", A) /\ UNCHANGED <<shared, rpm, tarballs, debian, latest>>
OnRpm(A) == On("rpm", A) /\ UNCHANGED <<rollout, tarballs, debian, latest>>
OnTarballs(A) == On("tarballs", A) /\ UNCHANGED <<rollout, rpm, debian, latest>>
OnDebian(A) == On("debian", A) /\ UNCHANGED <<rollout, rpm, tarballs, latest>>
OnDatabase(A) == On("database", A) /\ UNCHANGED <<rollout, rpm, tarballs, debian>>

DeliveryNext ==
    \/ OnRollout(Next)
    \/ OnRpm(Rpm!Next)
    \/ OnTarballs(Tarballs!Next)
    \/ OnDebian(Debian!Next)
    \/ OnDatabase(Database!Next)

\* A behaviour has one subject, so one condition of fairness serves them all.
AJobGoesOn ==
    \/ OnRollout(Next) \/ OnRpm(Rpm!StartJob \/ Rpm!Pin \/ Rpm!Gate) \/ OnTarballs(Tarballs!Job)
    \/ OnDebian(Debian!Job) \/ OnDatabase(Database!Job)
AMerge ==
    OnRpm(Rpm!Merge) \/ OnTarballs(Tarballs!Merge) \/ OnDebian(Debian!Merge) \/ OnDatabase(Database!Merge)
UpstreamCompletes == OnRpm(\E r \in Rpm!RepoSet : Rpm!Sign(r)) \/ OnTarballs(Tarballs!Rollout)

\* GitHub starts a job whose turn has come and a started job ends, if only by
\* its time limit.  The crons fire every day, a pull request's checks finish and
\* its auto-merge goes through; a mirror signs what it publishes, and upstream
\* does not leave a release half published.
DeliverySpec ==
    /\ DeliveryInit /\ [][DeliveryNext]_all
    /\ WF_all(AJobGoesOn) /\ WF_all(AMerge) /\ WF_all(UpstreamCompletes)

-----------------------------------------------------------------------------
\* With the signature required, nothing unsigned gets into a lockfile (pin).
TrustAnchored == subject = "rpm" => Rpm!TrustAnchored

\* "a single transient flake [...] should not break the run" (httpGet): with
\* fewer flakes than attempts, no flake ends the job, whichever fetches they hit
\* and whatever else fails besides.
FlakesRiddenOut == [][subject = "rpm" /\ Rpm!Retry => pc' # "idle"]_all

\* What the mirror and the archives list reaches main for every architecture and
\* manifest, with its licence, although revisions and snapshots change between
\* two fetches, months turn, jobs fail, the gate discards bumps, and upstream
\* takes back what an open pull request is about to merge.
BinariesReachMain ==
    <>[](/\ subject = "rpm" => Rpm!MainIsCurrent
         /\ subject = "debian" => Debian!MainIsCurrent)

\* "keeps the table in step with the locks in a single commit": the licences on
\* main and in the pull request are those of the packages locked there, whatever
\* downloads fail and whatever merges meanwhile (knife apt licenses).
LicensesInStep == subject = "debian" => Debian!LicensesInStep

\* "All four assets must belong to the same release": no line on main, in the
\* checkout or in the pull request mixes two (Temurin.Latest, NodeJS.Latest).
WholeRelease == subject = "tarballs" => Tarballs!WholeRelease

\* Main ends with every line at upstream's newest release and spin, although one
\* line that is still rolling out fails the whole update (Update), and "a
\* checksum change without a version change [...] is picked up too"; and with the
\* newest vulnerability database in the module file and its lock alike.
PinsReachMain ==
    <>[](/\ subject = "tarballs" => Tarballs!PinsAreCurrent
         /\ subject = "database" => Database!PinIsCurrent)
=============================================================================
