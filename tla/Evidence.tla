------------------------------ MODULE Evidence ------------------------------
(***************************************************************************)
(* The evidence on one digest over its life, from both sides: `publish`    *)
(* decides which scans and VEX documents to attach (oci/publish/stale.jq), *)
(* and the Directory decides which of the attached ones speak              *)
(* (web/internal/mirror, newestScan and newestStatement).  Nothing is ever *)
(* detached, so the two rules have to agree for a page to say what the     *)
(* newest commit says.                                                     *)
(*                                                                         *)
(* Commits are numbered in the order of main; each has a run, and the run  *)
(* of commit c is c.  A VEX document is the set of vulnerabilities it      *)
(* silences.  Attachment order is the order of SignedAt.                   *)
(***************************************************************************)
EXTENDS Naturals, Sequences, FiniteSets

CONSTANTS
    Vulns,       \* vulnerability identifiers
    MaxCommits,  \* bound: commits that rebuild this digest
    MaxDb,       \* bound: the rank of a database pin
    Overlap      \* runs of several commits may be live at once

EvidenceAssumption ==
    /\ MaxCommits \in Nat /\ MaxDb \in Nat /\ Overlap \in BOOLEAN

VARIABLES
    commits,     \* commits[c]: the database pin and VEX sources of commit c
    pc,          \* pc[c]: where the run of commit c is
    finished,    \* finished[c]: when its scan ran, 0 before it has
    clock,
    scans,       \* the scan records attached, [db, finished], oldest signature first
    documents    \* the VEX documents attached, oldest signature first

vars == <<commits, pc, finished, clock, scans, documents>>

Pins == [db : 0..MaxDb, vex : SUBSET Vulns]
Commits == DOMAIN commits
Ended == {"done", "failed"}
-----------------------------------------------------------------------------
(***************************************************************************)
(* The publishing side.                                                    *)
(***************************************************************************)

\* A commit on main: the database pin only moves forward, and the VEX sources
\* are edited at will.  Its run starts when the workflow is scheduled.
Commit(pin) ==
    /\ Len(commits) < MaxCommits
    /\ commits # <<>> => pin.db >= commits[Len(commits)].db
    /\ Overlap \/ \A c \in Commits : pc[c] \in Ended
    /\ commits' = Append(commits, pin)
    /\ pc' = Append(pc, "build")
    /\ finished' = Append(finished, 0)
    /\ UNCHANGED <<clock, scans, documents>>

At(c, step) == c \in Commits /\ pc[c] = step
Goto(c, step) == pc' = [pc EXCEPT ![c] = step]

\* bazel build of <base>_vuln: grype runs and stamps the record.
Build(c) ==
    /\ At(c, "build")
    /\ clock' = clock + 1
    /\ finished' = [finished EXCEPT ![c] = clock + 1]
    /\ Goto(c, "judge vuln")
    /\ UNCHANGED <<commits, scans, documents>>

\* Mutant: a scan is never superseded.
StaleVulnOnce(c) == scans = <<>>

\* needs_artifact or stale: none attached, or all rank below.
StaleVuln(c) == \A n \in DOMAIN scans : scans[n].db < commits[c].db

JudgeVuln(c) ==
    /\ At(c, "judge vuln")
    /\ Goto(c, IF StaleVuln(c) THEN "attest vuln" ELSE "judge vex")
    /\ UNCHANGED <<commits, finished, clock, scans, documents>>

AttestVuln(c) ==
    /\ At(c, "attest vuln")
    /\ scans' = Append(scans, [db |-> commits[c].db, finished |-> finished[c]])
    /\ Goto(c, "judge vex")
    /\ UNCHANGED <<commits, finished, clock, documents>>

\* vulnerability_attestation: no documents, no <base>_vex target.
HasTarget(c) == commits[c].vex # {}

StaleOpenvex(c) == \A n \in DOMAIN documents : documents[n] # commits[c].vex

JudgeVex(c) ==
    /\ At(c, "judge vex")
    /\ Goto(c, IF HasTarget(c) /\ StaleOpenvex(c) THEN "attest vex" ELSE "done")
    /\ UNCHANGED <<commits, finished, clock, scans, documents>>

AttestVex(c) ==
    /\ At(c, "attest vex")
    /\ documents' = Append(documents, commits[c].vex)
    /\ Goto(c, "done")
    /\ UNCHANGED <<commits, finished, clock, scans>>

\* The job fails or is lost; what it attached stays.
RunFails(c) ==
    /\ c \in Commits /\ pc[c] \notin Ended
    /\ Goto(c, "failed")
    /\ UNCHANGED <<commits, finished, clock, scans, documents>>

-----------------------------------------------------------------------------
(***************************************************************************)
(* The reading side.                                                       *)
(***************************************************************************)

\* The record that finished last; the first of those on a tie.
NewestScan ==
    CHOOSE n \in DOMAIN scans : \A m \in DOMAIN scans :
        \/ scans[n].finished > scans[m].finished
        \/ scans[n].finished = scans[m].finished /\ n <= m

\* Mutant: a later document does not replace an earlier one.
NewestStatementFirst == documents[1]

\* The document signed last.
NewestStatement == documents[Len(documents)]

\* What the page silences.
Silenced == IF documents = <<>> THEN {} ELSE NewestStatement

-----------------------------------------------------------------------------
Init ==
    /\ commits = <<>> /\ pc = <<>> /\ finished = <<>>
    /\ clock = 0
    /\ scans = <<>> /\ documents = <<>>

RunStep(c) ==
    \/ Build(c) \/ JudgeVuln(c) \/ AttestVuln(c) \/ JudgeVex(c) \/ AttestVex(c)
    \/ RunFails(c)

Next ==
    \/ \E pin \in Pins : Commit(pin)
    \/ \E c \in 1..MaxCommits : RunStep(c)

Spec == Init /\ [][Next]_vars

-----------------------------------------------------------------------------
\* publish ranks scans by their database and the Directory by when they ran
\* (stale.jq and newestScan).  While runs do not overlap the two rules agree:
\* once a run is done, a page shows a scan whose database is the best any
\* finished run had, whatever failed in between.
BestScanShown ==
    \A c \in Commits : pc[c] = "done" => scans[NewestScan].db >= commits[c].db

\* While runs do not overlap, a document no earlier commit carried speaks as
\* soon as its run is done, and until a later run attaches another.
NewDocumentSpeaks ==
    \A c \in Commits :
        /\ pc[c] = "done" /\ HasTarget(c)
        /\ \A b \in 1..(c - 1) : commits[b].vex # commits[c].vex
        /\ \A b \in Commits : b > c => pc[b] = "build"
        => Silenced = commits[c].vex

\* "a withdrawn statement must stop silencing" (mirror.go, Scan): once the
\* run of the newest commit is done and no other is live, a page silences
\* nothing that commit does not.
WithdrawnStopsSilencing ==
    commits # <<>> /\ pc[Len(commits)] = "done" /\ (\A c \in Commits : pc[c] \in Ended)
        => Silenced \subseteq commits[Len(commits)].vex

=============================================================================
