---------------------------- MODULE EvidenceTables ----------------------------
(***************************************************************************)
(* From a scan record and a VEX document to the vulnerabilities page of    *)
(* one architecture: decodeScan, suppress, Fingerprint, NewReport.         *)
(*                                                                         *)
(* A match is what grype reports: a vulnerability, its severity's label    *)
(* and fix, and the package with its source (0 for none) and the arch      *)
(* qualifier of its purl ("" when there is none or it does not parse).     *)
(* Identifiers, packages and versions are numbers in their own order.      *)
(***************************************************************************)
EXTENDS Integers, Sequences, FiniteSets, Sorting

CONSTANTS
    Matches,      \* bound: the matches a scan may hold
    MaxMatches,   \* bound
    Statements,   \* bound: the VEX documents, sets of statements
    Carried       \* the architectures of the Index, in order

Index == {Carried[n] : n \in DOMAIN Carried}
Statuses == {"not_affected", "affected", "fixed", "under_investigation"}

ScanAssumption ==
    /\ MaxMatches \in Nat
    /\ \A m \in Matches : /\ m.arch \in Index \cup {"", "all"}
                          /\ m.id \in Int /\ m.package \in Int /\ m.upstream \in Int
    /\ \A d \in Statements : \A s \in d : s.status \in Statuses

VARIABLES
    scan,         \* the record's matches
    vex,          \* the newest VEX document
    asked,        \* the ?arch= of the request, "" when absent
    report,
    pc            \* "report", then "done"

vars == <<scan, vex, asked, report, pc>>

-----------------------------------------------------------------------------
(* decodeScan and suppress *)

Scale == <<"critical", "high", "medium", "low", "negligible", "unknown">>
Severities == {Scale[n] : n \in DOMAIN Scale}
ParseSeverity(label) == IF label \in Severities THEN label ELSE "unknown"
Rank(severity) == CHOOSE n \in DOMAIN Scale : Scale[n] = severity

\* Only not_affected and fixed silence, whatever package the finding is in.
Silenced(id, document) == \E s \in document : s.id = id /\ s.status \in {"not_affected", "fixed"}

Decode(match, document) ==
    [id |-> match.id, severity |-> ParseSeverity(match.label), package |-> match.package,
     upstream |-> match.upstream, version |-> match.version, arch |-> match.arch,
     fix |-> match.fix, suppressed |-> Silenced(match.id, document)]

Findings(matches, document) == [n \in DOMAIN matches |-> Decode(matches[n], document)]

\* What the page's validator is made of; the purl holds package, version and
\* architecture, and nothing of the upstream.
Fingerprint(findings) ==
    [n \in DOMAIN findings |-> LET f == findings[n] IN
        <<f.id, f.package, f.version, f.arch, f.severity, f.fix, f.suppressed>>]

-----------------------------------------------------------------------------
(* NewReport *)

Available(findings) == Index \cap {findings[n].arch : n \in DOMAIN findings}

\* The one asked for, or amd64, or the first in order.
ResolveArch(requested, available) ==
    CASE requested \in available -> requested
      [] requested \notin available /\ "amd64" \in available -> "amd64"
      [] OTHER ->
            IF available = {} THEN ""
            ELSE Carried[CHOOSE n \in DOMAIN Carried :
                             /\ Carried[n] \in available
                             /\ \A m \in 1..(n - 1) : Carried[m] \notin available]

BelongsTo(own, arch) == own \in {arch, "", "all"}

Component(f) == IF f.upstream # 0 THEN f.upstream ELSE f.package

\* Mutant: the fix is left out of the key.
KeyWithoutFix(f) == <<f.id, Component(f), f.version>>

\* What makes two findings one row.
Key(f) == <<f.id, Component(f), f.version, f.fix>>

\* The first finding of a key makes the row, the others add their package.
Fold(findings, arch) ==
    LET rows[n \in 0..Len(findings)] ==
            IF n = 0 THEN <<>>
            ELSE LET f == findings[n]
                     earlier == rows[n - 1]
                     seen == {r \in DOMAIN earlier : Key(earlier[r].finding) = Key(f)}
                 IN  IF ~BelongsTo(f.arch, arch) THEN earlier
                     ELSE IF seen = {}
                          THEN Append(earlier, [finding |-> f, packages |-> <<f.package>>, met |-> n])
                     ELSE [earlier EXCEPT ![CHOOSE r \in seen : TRUE].packages = Append(@, f.package)]
    IN  rows[Len(findings)]

\* Packages in name order; dropped when the component is the only one.
Tidy(row) ==
    LET names == row.packages
        sorted == SortBy(names, {p \in (DOMAIN names) \X (DOMAIN names) :
                      \/ names[p[1]] < names[p[2]]
                      \/ names[p[1]] = names[p[2]] /\ p[1] < p[2]})
    IN  [row EXCEPT !.packages = IF sorted = <<Component(row.finding)>> THEN <<>> ELSE sorted]

\* Open before suppressed, the worst severity first, the newest identifier
\* first, then by component.
Before(a, b) ==
    LET f == a.finding
        g == b.finding
    IN  IF f.suppressed # g.suppressed THEN g.suppressed
        ELSE IF f.severity # g.severity THEN Rank(f.severity) < Rank(g.severity)
        ELSE IF f.id # g.id THEN f.id > g.id
        ELSE Component(f) < Component(g)

\* Rows that compare equal stay in the order in which they were met.
StableSort(rows) ==
    SortBy(rows, {p \in (DOMAIN rows) \X (DOMAIN rows) :
        LET a == rows[p[1]]
            b == rows[p[2]]
        IN  Before(a, b) \/ (~Before(b, a) /\ a.met < b.met)})

NewReport(requested, findings) ==
    LET available == Available(findings)
        arch == ResolveArch(requested, available)
        folded == Fold(findings, arch)
        rows == StableSort([n \in DOMAIN folded |-> Tidy(folded[n])])
        Open(severities) ==
            {n \in DOMAIN rows : ~rows[n].finding.suppressed /\ rows[n].finding.severity \in severities}
    IN  [arch |-> arch, architectures |-> available, rows |-> rows,
         open |-> Cardinality(Open(Severities)),
         suppressed |-> Cardinality({n \in DOMAIN rows : rows[n].finding.suppressed}),
         summary |-> [s \in Severities |-> Cardinality(Open({s}))]]

Render ==
    /\ pc = "report"
    /\ report' = NewReport(asked, Findings(scan, vex))
    /\ pc' = "done"
    /\ UNCHANGED <<scan, vex, asked>>

Init ==
    /\ scan \in UNION {[1..n -> Matches] : n \in 0..MaxMatches}
    /\ vex \in Statements /\ asked \in {""} \cup Index
    /\ report = <<>> /\ pc = "report"

-----------------------------------------------------------------------------
\* The matches a row stands for.
Names(row, match) ==
    LET f == Decode(match, vex)
    IN  /\ Key(row.finding) = Key(f)
        /\ f.package \in IF row.packages = <<>> THEN {Component(f)}
                         ELSE {row.packages[n] : n \in DOMAIN row.packages}

\* Every match of the architecture shown is named by exactly one row, with its
\* own fix and package, and a row stands open exactly when no statement sets its
\* vulnerability aside; no row is about a match of another architecture, and the
\* summary adds up (NewReport, suppress).
ReportExact ==
    pc = "done" =>
        LET shown == {n \in DOMAIN scan : BelongsTo(scan[n].arch, report.arch)}
            rows == report.rows
        IN  /\ \A n \in shown :
                \E r \in DOMAIN rows :
                    /\ Names(rows[r], scan[n]) /\ rows[r].finding.fix = scan[n].fix
                    /\ \A s \in DOMAIN rows : Names(rows[s], scan[n]) => s = r
                    /\ rows[r].finding.suppressed <=>
                        \E v \in vex : v.id = scan[n].id /\ v.status \notin {"affected", "under_investigation"}
            /\ \A r \in DOMAIN rows : \E n \in shown : Names(rows[r], scan[n])
            /\ \A r \in 1..(Len(rows) - 1) : ~Before(rows[r + 1], rows[r])
            /\ report.open + report.suppressed = Len(rows)
            /\ report.open = report.summary.critical + report.summary.high
                                 + report.summary.medium + report.summary.low
                                 + report.summary.negligible + report.summary.unknown

\* A VEX document that changes what the page says changes the page's validator
\* ("the digest cannot be a page's cache validator on its own", Fingerprint).
FingerprintTells ==
    \A other \in Statements :
        Fingerprint(Findings(scan, other)) = Fingerprint(Findings(scan, vex)) =>
            NewReport(asked, Findings(scan, other)) = NewReport(asked, Findings(scan, vex))

\* "Architectures is every one the Index carries, sorted. The same arrangement
\* as the SBOM page" (Report): who asks for an architecture that the Index
\* carries is shown findings of no other.
AskedIsShown ==
    pc = "done" /\ asked \in Index =>
        \A n \in DOMAIN report.rows : BelongsTo(report.rows[n].finding.arch, asked)
=============================================================================
