---------------------------- MODULE ReleaseList ----------------------------
(***************************************************************************)
(* The versions page's list: the tags a family publishes, grouped by the   *)
(* build they name, both newest first (NewVersions).                       *)
(*                                                                         *)
(* A tag is a name (`latest`, or a channel at its place in the alphabet)   *)
(* or a version: an upstream number, and a variant's number, 0 for the     *)
(* plain build.  VersionOrder is about the comparison of the fragments.    *)
(***************************************************************************)
EXTENDS Integers, Sequences, FiniteSets, Sorting

CONSTANTS
    Tags,         \* bound: the tags of the family
    Digests,      \* bound: the builds they may name
    ArchesOf      \* the architectures of each build

VARIABLES
    versions,     \* [tag, digest] in the order the registry listed the tags
    list,         \* Versions: architectures and releases
    pc            \* "list", then "done"

vars == <<versions, list, pc>>

-----------------------------------------------------------------------------
\* tagLatest, tagName, tagVersion
TagRank(tag) == CASE tag.kind = "latest" -> 0 [] tag.kind = "name" -> 1 [] tag.kind = "version" -> 2

\* Mutant: the dpkg order reversed.
CompareVersionTagDpkg(a, b) == IF a.upstream # b.upstream THEN b.upstream - a.upstream ELSE b.variant - a.variant

\* Newer upstream first, and the plain build before its variants.
CompareVersionTag(a, b) == IF a.upstream # b.upstream THEN b.upstream - a.upstream ELSE a.variant - b.variant

CompareTag(a, b) ==
    IF TagRank(a) # TagRank(b) THEN TagRank(a) - TagRank(b)
    ELSE IF TagRank(a) = 2 THEN CompareVersionTag(a, b)
    ELSE a.place - b.place

\* A family has one `latest`, and no two versions that are written differently and
\* compare equal (as 1.0 and 1.00 would).
ListAssumption ==
    /\ DOMAIN ArchesOf = Digests /\ IsFiniteSet(Tags)
    /\ \A t \in Tags : /\ t.kind \in {"latest", "name", "version"}
                       /\ t.upstream \in Nat /\ t.variant \in Nat /\ t.place \in Nat
    /\ \A t, u \in Tags : CompareTag(t, u) = 0 \/ {t.kind, u.kind} = {"latest"} => t = u

\* Release.version: the first version tag; the empty version is the lowest.
NoVersion == [kind |-> "version", upstream |-> -1, variant |-> 0, place |-> 0]
VersionOf(release) ==
    LET pinned == {n \in DOMAIN release.tags : TagRank(release.tags[n]) = 2}
    IN  IF pinned = {} THEN NoVersion
        ELSE release.tags[CHOOSE n \in pinned : \A m \in pinned : n <= m]
NamesLatest(release) == release.tags[1].kind = "latest"

CompareRelease(a, b) ==
    IF NamesLatest(a) # NamesLatest(b) THEN (IF NamesLatest(a) THEN -1 ELSE 1)
    ELSE IF CompareVersionTag(VersionOf(a), VersionOf(b)) # 0
         THEN CompareVersionTag(VersionOf(a), VersionOf(b))
    ELSE CompareTag(a.tags[1], b.tags[1])

\* A build's tags: those listed with its digest, sorted; stable.
TagsOf(listed, digest) ==
    LET own == {n \in DOMAIN listed : listed[n].digest = digest}
    IN  Arrange([n \in DOMAIN listed |-> listed[n].tag], own,
                {p \in own \X own : LET c == CompareTag(listed[p[1]].tag, listed[p[2]].tag)
                                    IN  c < 0 \/ (c = 0 /\ p[1] < p[2])})

\* The builds in the order they were first met, each with its tags in order,
\* then the builds in order; one size column per architecture of any build.
NewVersions(listed) ==
    LET met == {n \in DOMAIN listed : \A m \in 1..(n - 1) : listed[m].digest # listed[n].digest}
        built == [n \in met |-> [digest |-> listed[n].digest,
                                 tags |-> TagsOf(listed, listed[n].digest)]]
    IN  [architectures |-> UNION {ArchesOf[listed[n].digest] : n \in DOMAIN listed},
         releases |-> Arrange(built, met,
                          {p \in met \X met : LET c == CompareRelease(built[p[1]], built[p[2]])
                                              IN  c < 0 \/ (c = 0 /\ p[1] < p[2])})]

Group ==
    /\ pc = "list"
    /\ list' = NewVersions(versions) /\ pc' = "done"
    /\ UNCHANGED versions

Init ==
    /\ \E names \in [Tags -> Digests \cup {"absent"}] :
        LET there == {t \in Tags : names[t] \in Digests}
        IN  \E order \in [1..Cardinality(there) -> there] :
                /\ \A m, n \in DOMAIN order : order[m] = order[n] => m = n
                /\ versions = [n \in DOMAIN order |-> [tag |-> order[n], digest |-> names[order[n]]]]
    /\ list = <<>> /\ pc = "list"

-----------------------------------------------------------------------------
\* The page is the same whatever order the registry lists the tags in; every tag
\* is there once, under its own build, and nothing else; the build a bare pull gets
\* is the first, the others go from the newest version they pin to the oldest, and a
\* build comes before the variants of the same version (NewVersions, compareRelease).
ListExact ==
    pc = "done" =>
        LET releases == list.releases
            Holds(r) == {releases[r].tags[n] : n \in DOMAIN releases[r].tags}
            Newest(r) == {t \in Holds(r) : TagRank(t) = 2}
        IN  /\ NewVersions([n \in DOMAIN versions |-> versions[Len(versions) + 1 - n]]) = list
            /\ \A n \in DOMAIN versions :
                \E r \in DOMAIN releases : /\ releases[r].digest = versions[n].digest
                                           /\ versions[n].tag \in Holds(r)
                                           /\ \A s \in DOMAIN releases :
                                                versions[n].tag \in Holds(s) => s = r
            /\ \A r \in DOMAIN releases : \A m \in DOMAIN releases[r].tags :
                /\ \A n \in DOMAIN releases[r].tags : releases[r].tags[m] = releases[r].tags[n] => m = n
                /\ \E n \in DOMAIN versions :
                    versions[n] = [tag |-> releases[r].tags[m], digest |-> releases[r].digest]
            /\ \A r, s \in DOMAIN releases : r < s =>
                /\ ~NamesLatest(releases[s])
                /\ NamesLatest(releases[r]) \/ \A t \in Newest(s) : \E u \in Newest(r) :
                    u.upstream > t.upstream \/ (u.upstream = t.upstream /\ u.variant <= t.variant)
=============================================================================
