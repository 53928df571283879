------------------------------- MODULE Tools -------------------------------
(***************************************************************************)
(* The sequential algorithms.  A behaviour is one run of one of them,      *)
(* `tool`, on an input chosen with it at the start; each keeps its         *)
(* variables in the registers v1 to v7, and those it does not use are Off. *)
(***************************************************************************)
EXTENDS Naturals

CONSTANTS
    Paths, Others, Nodes, Unshipped, Legacy, Long, Devices, Inos,   \* RpmExtract's
    NPkgs, Arches, Declared, Offers, MaxRequires, Virtual,          \* RpmClosure's
    Texts,                                                          \* VersionOrder's
    Objects, MaxObjects, Now, Lifetime,                             \* TrustBundle's
    Matches, MaxMatches, Statements, Carried,                       \* EvidenceTables'
    Tags, Digests, ArchesOf,                                        \* ReleaseList's
    Roots, Confs, AllowLists, Matched, MaxHops, MaxDepth, DefaultDirs, \* ElfNeeds'
    SetIds, Labels, Graphs, Completions,                            \* BuildEvents'
    Off

VARIABLES tool, pc, v1, v2, v3, v4, v5, v6, v7

vars == <<tool, pc, v1, v2, v3, v4, v5, v6, v7>>

Extract == INSTANCE RpmExtract WITH
    file <- v1, full <- v2, left <- v3, pending <- v4, order <- v5, tar <- v6
Closure == INSTANCE RpmClosure WITH
    offered <- v1, requires <- v2, pass <- v3, worklist <- v4, closure <- v5
Compare == INSTANCE VersionOrder WITH
    a <- v1, b <- v2, part <- v3, i <- v4, j <- v5, firstDiff <- v6, result <- v7
Bundle == INSTANCE TrustBundle WITH
    source <- v1, at <- v2, objects <- v3, pemLines <- v4, bundle <- v5
Tables == INSTANCE EvidenceTables WITH scan <- v1, vex <- v2, asked <- v3, report <- v4
List == INSTANCE ReleaseList WITH versions <- v1, list <- v2
Needs == INSTANCE ElfNeeds WITH root <- v1, conf <- v2, allows <- v3, verdict <- v4
Events == INSTANCE BuildEvents WITH
    build <- v1, unread <- v2, sets <- v3, roots <- v4, walk <- v5, digests <- v6

ASSUME ToolsAssumption ==
    /\ Extract!ExtractAssumption /\ Closure!ClosureAssumption /\ Compare!TextsAssumption
    /\ Bundle!BundleAssumption /\ Tables!ScanAssumption /\ List!ListAssumption
    /\ Needs!NeedsAssumption /\ Events!EventsAssumption

-----------------------------------------------------------------------------
Init ==
    \/ tool = "extract" /\ Extract!Init /\ v7 = Off
    \/ tool = "closure" /\ Closure!Init /\ v6 = Off /\ v7 = Off
    \/ tool = "compare" /\ Compare!Init
    \/ tool = "bundle" /\ Bundle!Init /\ v6 = Off /\ v7 = Off
    \/ tool = "report" /\ Tables!Init /\ v5 = Off /\ v6 = Off /\ v7 = Off
    \/ tool = "list" /\ List!Init /\ v3 = Off /\ v4 = Off /\ v5 = Off /\ v6 = Off /\ v7 = Off
    \/ tool = "needs" /\ Needs!Init /\ v5 = Off /\ v6 = Off /\ v7 = Off
    \/ tool = "events" /\ Events!Init /\ v7 = Off

\* The tools that are modelled loop by loop.
Loop ==
    /\ \/ tool = "extract" /\ Extract!Next /\ UNCHANGED v7
       \/ tool = "closure" /\ Closure!Next /\ UNCHANGED <<v6, v7>>
       \/ tool = "compare" /\ Compare!Next
       \/ tool = "bundle" /\ Bundle!Next /\ UNCHANGED <<v6, v7>>
       \/ tool = "events" /\ Events!Next /\ UNCHANGED v7
    /\ UNCHANGED tool

\* The tools that are modelled as functions of their input.
Function ==
    /\ \/ tool = "report" /\ Tables!Render /\ UNCHANGED <<v5, v6, v7>>
       \/ tool = "list" /\ List!Group /\ UNCHANGED <<v3, v4, v5, v6, v7>>
       \/ tool = "needs" /\ Needs!Check /\ UNCHANGED <<v5, v6, v7>>
    /\ UNCHANGED tool

Next == Loop \/ Function

\* A sequential program goes on until it returns.
Spec == Init /\ [][Next]_vars /\ WF_vars(Loop)

-----------------------------------------------------------------------------
\* Every shipped path is in the tar once and no other is, every hardlink names an
\* earlier regular entry, and when the walk is done a path has the bytes of its
\* file, whoever carried them (writePayloadAsTar, writeHardlinkAsTar).
ContentKept ==
    tool = "extract" => Extract!ShippedOnce /\ Extract!LinksLookBack /\ Extract!ContentKept

\* Everything the declared packages reach on the first architecture is locked,
\* and nothing that they need on none (closeDeps, pickProvider).
ClosureExact ==
    tool = "closure" => Closure!FirstArchClosed /\ Closure!ClosureIsNeeded

\* Versions whose fragments are numbers with single separators compare as
\* deb-version(7) says (CompareVersion).
PlainAgrees == tool = "compare" => Compare!PlainAgrees

\* The bundle has exactly the anchors for servers, whichever side of its
\* certificate a restriction stands on (extractServerAnchors).
AnchorsExact == tool = "bundle" => Bundle!AnchorsExact

\* Every match of the architecture shown is in exactly one row, as its own
\* vulnerability, fix and package, open unless a statement sets it aside; and a
\* VEX document that changes the page changes its validator (NewReport, suppress,
\* Fingerprint).
ReportExact == tool = "report" => Tables!ReportExact /\ Tables!FingerprintTells

\* "Architectures is every one the Index carries, sorted. The same arrangement as
\* the SBOM page": who asks for an architecture the Index carries is shown
\* the findings of no other.
AskedIsShown == tool = "report" => Tables!AskedIsShown

\* Every tag is listed once under its build, in an order that the registry's
\* order of tags does not change (NewVersions, compareRelease).
ListExact == tool = "list" => List!ListExact

\* Every file that cannot load fails, and another only where a limit cuts off a
\* chain of links or includes; an image passes exactly when its allow list names
\* those that fail, and every allow is needed (check).
VerdictExact == tool = "needs" => Needs!VerdictExact

\* The hash of a label is over exactly the outputs of its successful
\* configurations, in whatever order the events arrive (OutputDigests).
DigestsExact == tool = "events" => Events!DigestsExact

\* Every loop ends, on cyclic requirements and file sets, on empty and stripped
\* entries and on versions of any form: "Self-references [...] terminate via the
\* closure-seen check" (writePayloadAsTar, closeDeps, compareFragment,
\* parseP11Kit, hashOutputs).  The tools that are functions of their input have
\* no loop here.
ToolsEnd ==
    <>(tool \in {"report", "list", "needs"} \/ pc \in {"done", "refused", "locked", "failed"})
=============================================================================
