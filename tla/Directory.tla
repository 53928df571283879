----------------------------- MODULE Directory -----------------------------
(***************************************************************************)
(* The Directory's pages: the evidence a page chooses from, the history of *)
(* a tag, the caches in front of a page, for several kinds of reader, and  *)
(* the versions page.  They share no state; a behaviour is about one of    *)
(* them, `subject`, chosen at the start, and the variables of the others   *)
(* are Off.                                                                *)
(***************************************************************************)
EXTENDS Naturals, FiniteSets, Sequences

CONSTANTS
    Vulns, MaxCommits, MaxDb,                         \* of Evidence
    HistoryTime, HistoryMoves, Flaky,                 \* of TagHistory
    Readers,                                          \* the readers of PageCache,
    Visited, Refs,                                    \* functions of the reader
    Tag, Instances, TTL, TagAge, DigestAge, DocumentAge, PageTime, MaxChanges,  \* of PageCache
    Tags, Fallback, MaxLookups, MaxBuilds, MaxMoves, MaxFaults,  \* of VersionsPage
    Digests, NoCopy, None, Off

VARIABLES
    subject,
    clock, names, pc, moves,
    commits, finished, scans, documents,
    ledger, moved, recording, scanned, digest, series, eras, skipped,
    left, evidence, changed, answers, copies,
    phase, lookup, versions, todo, detail, builds, copy, held, vouched, calm, faults

ofEvidence == <<commits, finished, scans, documents>>
ofHistory == <<ledger, moved, recording, scanned, digest, series, eras, skipped>>
ofPages == <<left, evidence, changed, answers, copies>>
ofVersions == <<phase, lookup, versions, todo, detail, builds, copy, held, vouched,
                calm, faults>>
vars == <<subject, clock, names, pc, moves, ofEvidence, ofHistory, ofPages, ofVersions>>

\* The commits of one digest whose runs do not overlap.
Evid == INSTANCE Evidence WITH Overlap <- FALSE

Hist == INSTANCE TagHistory WITH MaxTime <- HistoryTime, MaxMoves <- HistoryMoves

Pages(reader) == INSTANCE PageCache WITH
    Visited <- Visited[reader], Refs <- Refs[reader],
    MaxTime <- PageTime

Vers == INSTANCE VersionsPage

ASSUME DirectoryAssumption ==
    /\ Evid!EvidenceAssumption /\ Hist!HistoryAssumption /\ Vers!VersionsAssumption
    /\ \A reader \in Readers : Pages(reader)!CacheAssumption
    /\ Readers \cap {"evidence", "history", "versions"} = {}

-----------------------------------------------------------------------------
EvidenceOff == commits = Off /\ finished = Off /\ scans = Off /\ documents = Off
HistoryOff ==
    /\ ledger = Off /\ moved = Off /\ recording = Off /\ scanned = Off
    /\ digest = Off /\ series = Off /\ eras = Off /\ skipped = Off
PagesOff ==
    /\ left = Off /\ evidence = Off /\ changed = Off
    /\ answers = Off /\ copies = Off
VersionsOff ==
    /\ phase = Off /\ lookup = Off /\ versions = Off /\ todo = Off /\ detail = Off
    /\ builds = Off /\ copy = Off /\ held = Off /\ vouched = Off
    /\ calm = Off /\ faults = Off

Init ==
    \/ /\ subject = "evidence" /\ Evid!Init
       /\ names = Off /\ moves = Off /\ HistoryOff /\ PagesOff /\ VersionsOff
    \/ /\ subject = "history" /\ Hist!Init
       /\ EvidenceOff /\ PagesOff /\ VersionsOff
    \/ /\ \E reader \in Readers : subject = reader /\ Pages(reader)!Init
       /\ pc = Off /\ moves = Off /\ EvidenceOff /\ HistoryOff /\ VersionsOff
    \/ /\ subject = "versions" /\ Vers!Init
       /\ clock = Off /\ pc = Off /\ EvidenceOff /\ HistoryOff /\ PagesOff

Next ==
    \/ /\ subject = "evidence" /\ Evid!Next
       /\ UNCHANGED <<subject, names, moves, ofHistory, ofPages, ofVersions>>
    \/ /\ subject = "history" /\ Hist!Next
       /\ UNCHANGED <<subject, ofEvidence, ofPages, ofVersions>>
    \/ /\ \E reader \in Readers : subject = reader /\ Pages(reader)!Next
       /\ UNCHANGED <<subject, pc, moves, ofEvidence, ofHistory, ofVersions>>
    \/ /\ subject = "versions" /\ Vers!Next
       /\ UNCHANGED <<subject, clock, pc, ofEvidence, ofHistory, ofPages>>

Spec == Init /\ [][Next]_vars

-----------------------------------------------------------------------------
\* While runs do not overlap, a page shows a scan of the best database any
\* finished run had (newestScan against stale_vuln).
BestScanShown == subject = "evidence" => Evid!BestScanShown

\* While runs do not overlap, a VEX document no earlier commit carried speaks
\* once its run is done (newestStatement against stale_openvex).
NewDocumentSpeaks == subject = "evidence" => Evid!NewDocumentSpeaks

\* Every scan read of the current build, and every scan in a tenure the ledger
\* records, is on the history page, whatever the ledger lags behind or runs
\* ahead of; and no point of the history is a scan made after the tag left the
\* build for good (serveHistory, NewHistory).
HistoryExact ==
    subject = "history" =>
        Hist!PresentIsKept /\ Hist!TenureIsKept /\ Hist!NoScanAfterTheTagLeft

\* A reader at a tag is shown a build that the tag named less than the max-age ago,
\* at most the TTL and the max-age behind its scans, through the memory of the
\* instances and the reader's cache (defaultScanTTL, revalidated, serveDocument).
RescanSeenAtTag ==
    \A reader \in Readers : subject = reader => Pages(reader)!RescanSeenAtTag

\* Each row of the versions page is a build its own tag named while the
\* request ran (Versions).
RowsWereTrue == subject = "versions" => Vers!RowsWereTrue

\* A request during which nothing moved and nothing failed leaves the reader
\* with exactly what is published (serveVersions, mappingDigest).
CalmPageIsExact == subject = "versions" => Vers!CalmPageIsExact
=============================================================================
