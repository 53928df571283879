---------------------------- MODULE DebianUpdate ----------------------------
(***************************************************************************)
(* The daily update of the Debian lockfiles: knife apt update and the lock *)
(* of every manifest in turn, against archives that publish snapshots      *)
(* meanwhile and index them by month; the gate; knife apt licenses, which  *)
(* reads the licence of every locked package with concurrent downloads;    *)
(* and the pull request that carries locks and licences together.          *)
(*                                                                         *)
(* A snapshot is its number in its archive, and Offers gives the version   *)
(* it has of each package.  A version stands for the package's digest and  *)
(* for the licence it declares.                                            *)
(***************************************************************************)
EXTENDS Naturals, Sequences, FiniteSets

CONSTANTS
    Manifests,    \* [sources, packages] of each manifest, in order
    Offers,       \* bound: Offers[a][n][p], the version in snapshot n of source a
    URLs,         \* download locations of a package
    Workers,      \* --workers
    MaxMonth,     \* bound
    MaxFaults     \* bound

Archives == <<"debian", "debian-security">>
ArchiveSet == {"debian", "debian-security"}
Live == "nginx.org"     \* a source without snapshots
Sources == ArchiveSet \cup {Live}
Names == UNION {Manifests[i].packages : i \in DOMAIN Manifests}

\* A source has versions of every package, 0 where it has none, and never goes
\* back to an earlier one.
VersionsRise ==
    \A a \in Sources, p \in Names : \A n \in DOMAIN Offers[a] :
        /\ Offers[a][n][p] \in Nat
        /\ \A m \in 1..n : Offers[a][m][p] <= Offers[a][n][p]

DebianAssumption ==
    /\ Len(Manifests) \in Nat \ {0} /\ DOMAIN Manifests = 1..Len(Manifests)
    /\ \A i \in DOMAIN Manifests : Manifests[i].sources \subseteq Sources /\ Manifests[i].sources # {}
    /\ DOMAIN Offers = Sources
    /\ \A a \in Sources : Len(Offers[a]) \in Nat \ {0} /\ DOMAIN Offers[a] = 1..Len(Offers[a])
    /\ VersionsRise
    /\ URLs \in Nat \ {0} /\ Workers \in Nat \ {0} /\ MaxMonth \in Nat /\ MaxFaults \in Nat

VARIABLES
    month,        \* now
    published,    \* published[a][n]: the month snapshot n of archive a is from
    faults,
    pc,           \* "idle", "this", "last", "write", "lock", "gate", "licenses"
    at,           \* [manifest, archive]: where the loops are
    clock,        \* the month it was when the archive was first asked
    newest,       \* newest[a]: the timestamp found
    downloads,    \* [todo, url, resolved, failed] of knife apt licenses, or <<>>
    head, tree,   \* of the commit checked out, and in the checkout
    main,         \* on the main branch
    pr            \* the open pull request's, or <<>>

world == <<month, published>>
knife == <<pc, at, clock, newest, downloads>>
repo == <<head, tree, main, pr>>
vars == <<world, faults, knife, repo>>

\* What apt resolves: the newest version that the manifest's sources have, each
\* read at the given snapshot.
Candidate(i, snapshots, p) ==
    LET versions == {Offers[a][snapshots[a]][p] : a \in Manifests[i].sources}
    IN  CHOOSE v \in versions : \A w \in versions : w <= v
Lock(i, snapshots) == [p \in Manifests[i].packages |-> Candidate(i, snapshots, p)]
Pinned(snapshots) == [a \in Sources |-> IF a = Live THEN Len(published[a]) ELSE snapshots[a]]

\* The first lock that mentions a package (licensesOptions.Run).
Unique(locks) ==
    [p \in Names |-> LET in == {i \in DOMAIN locks : p \in Manifests[i].packages}
                     IN  locks[CHOOSE i \in in : \A j \in in : i <= j][p]]

FirstTree ==
    LET locks == [i \in DOMAIN Manifests |-> Lock(i, [a \in Sources |-> 1])]
    IN  [manifests |-> [i \in DOMAIN Manifests |-> [a \in ArchiveSet |-> 1]], locks |-> locks,
         licenses |-> Unique(locks)]

-----------------------------------------------------------------------------
(* The archives, and nginx.org *)

Publish(a) ==
    /\ Len(published[a]) < Len(Offers[a])
    /\ published' = [published EXCEPT ![a] = Append(@, month)]
    /\ UNCHANGED <<month, faults, knife, repo>>

\* An archive may be quiet early in a month, but not for a whole one.
NextMonth ==
    /\ month < MaxMonth /\ \A a \in ArchiveSet : published[a][Len(published[a])] = month
    /\ month' = month + 1
    /\ UNCHANGED <<published, faults, knife, repo>>

-----------------------------------------------------------------------------
(* knife apt update *)

Here == Archives[at.archive]
Ask == pc' = "this" /\ clock' = month

StartJob ==
    /\ pc = "idle"
    /\ head' = main /\ tree' = main
    /\ at' = [manifest |-> 1, archive |-> 1] /\ Ask
    /\ UNCHANGED <<world, faults, newest, downloads, main, pr>>

EndJob ==
    /\ pc' = "idle" /\ at' = [manifest |-> 1, archive |-> 1] /\ clock' = 1
    /\ newest' = [a \in ArchiveSet |-> 1] /\ downloads' = <<>>
    /\ head' = main /\ tree' = main

\* An answer that is neither an index nor a 404, a package that no longer
\* resolves: whatever step it is, the job ends.
Fails ==
    /\ pc \in {"this", "last", "lock"} /\ faults < MaxFaults
    /\ faults' = faults + 1 /\ EndJob
    /\ UNCHANGED <<world, main, pr>>

\* fetchMonth: the last timestamp of a month's index, 0 when there is no index or
\* nothing in it.
FetchMonth(a, m) ==
    LET in == {n \in DOMAIN published[a] : published[a][n] = m}
    IN  IF in = {} THEN 0 ELSE CHOOSE n \in in : \A k \in in : k <= n

Found(n) ==
    /\ newest' = [newest EXCEPT ![Here] = n]
    /\ IF at.archive < Len(Archives)
       THEN at' = [at EXCEPT !.archive = @ + 1] /\ Ask
       ELSE pc' = "write" /\ UNCHANGED <<at, clock>>
    /\ UNCHANGED <<downloads, head, tree>>

ThisMonth ==
    /\ pc = "this"
    /\ LET n == FetchMonth(Here, clock)
       IN  IF n # 0 THEN Found(n)
           ELSE pc' = "last" /\ UNCHANGED <<at, clock, newest, downloads, head, tree>>
    /\ UNCHANGED <<world, faults, main, pr>>

LastMonth ==
    /\ pc = "last"
    /\ LET n == FetchMonth(Here, clock - 1)
       IN  IF n # 0 THEN Found(n) ELSE EndJob
    /\ UNCHANGED <<world, faults, main, pr>>

\* UpdateTimestampsInFile
Write ==
    /\ pc = "write"
    /\ tree' = [tree EXCEPT !.manifests[at.manifest] = newest]
    /\ pc' = "lock"
    /\ UNCHANGED <<world, faults, at, clock, newest, downloads, head, main, pr>>

-----------------------------------------------------------------------------
(* The action *)

\* bazel run @repo//:lock, and on to the next manifest.
RunLock ==
    /\ pc = "lock"
    /\ LET i == at.manifest
       IN  /\ tree' = [tree EXCEPT !.locks[i] = Lock(i, Pinned(tree.manifests[i]))]
           /\ IF i < Len(Manifests) THEN at' = [manifest |-> i + 1, archive |-> 1] /\ Ask
              ELSE pc' = "gate" /\ UNCHANGED <<at, clock>>
    /\ UNCHANGED <<world, faults, newest, downloads, head, main, pr>>

\* Only snapshot URLs changed, or not even these: git checkout, and no more.
Skip ==
    /\ pc = "gate" /\ tree.locks = head.locks
    /\ EndJob
    /\ UNCHANGED <<world, faults, main, pr>>

\* A package's digest changed: read the licences of what is locked now.
Licenses ==
    /\ pc = "gate" /\ tree.locks # head.locks
    /\ downloads' = [todo |-> Names, url |-> <<>>, resolved |-> <<>>, failed |-> {}]
    /\ pc' = "licenses"
    /\ UNCHANGED <<world, faults, at, clock, newest, repo>>

-----------------------------------------------------------------------------
(* knife apt licenses *)

With(f, x, y) == [z \in DOMAIN f \cup {x} |-> IF z = x THEN y ELSE f[z]]
Without(f, x) == [z \in DOMAIN f \ {x} |-> f[z]]

\* A worker that is free takes a name off the channel.
Take(p) ==
    /\ pc = "licenses" /\ p \in downloads.todo /\ Cardinality(DOMAIN downloads.url) < Workers
    /\ downloads' = [downloads EXCEPT !.todo = @ \ {p}, !.url = With(@, p, 1)]
    /\ UNCHANGED <<world, faults, pc, at, clock, newest, repo>>

\* The package arrived and has the digest the lock pins.
Resolve(p) ==
    /\ pc = "licenses" /\ p \in DOMAIN downloads.url
    /\ downloads' = [downloads EXCEPT !.url = Without(@, p),
                                      !.resolved = With(@, p, Unique(tree.locks)[p])]
    /\ UNCHANGED <<world, faults, pc, at, clock, newest, repo>>

\* No answer or not a 200: the next location, or the last error.
NextURL(p) ==
    /\ pc = "licenses" /\ p \in DOMAIN downloads.url /\ faults < MaxFaults
    /\ faults' = faults + 1
    /\ downloads' =
        IF downloads.url[p] < URLs THEN [downloads EXCEPT !.url[p] = @ + 1]
        ELSE [downloads EXCEPT !.url = Without(@, p), !.failed = @ \cup {p}]
    /\ UNCHANGED <<world, pc, at, clock, newest, repo>>

\* Other bytes than the lock pins: an error, whatever locations are left.
WrongDigest(p) ==
    /\ pc = "licenses" /\ p \in DOMAIN downloads.url /\ faults < MaxFaults
    /\ faults' = faults + 1
    /\ downloads' = [downloads EXCEPT !.url = Without(@, p), !.failed = @ \cup {p}]
    /\ UNCHANGED <<world, pc, at, clock, newest, repo>>

\* Mutant: what could be read is written, with what was there for the rest.
TablePartial == [p \in Names |-> IF p \in DOMAIN downloads.resolved THEN downloads.resolved[p]
                                 ELSE head.licenses[p]]

\* The table is what the workers resolved; a failure is fatal.
Table == IF downloads.failed = {} THEN downloads.resolved ELSE <<>>

\* create-pull-request: the files the job changed, on top of main as it is by now;
\* nothing is left to propose when main has them already.
Proposed(files) ==
    LET Merged(f, h, m) == [x \in DOMAIN f |-> IF f[x] # h[x] THEN f[x] ELSE m[x]]
        merged == [manifests |-> Merged(files.manifests, head.manifests, main.manifests),
                   locks |-> Merged(files.locks, head.locks, main.locks),
                   licenses |-> Merged(files.licenses, head.licenses, main.licenses)]
    IN  IF merged = main THEN <<>> ELSE merged

\* wg.Wait, and then the file or an error; with the file, the pull request.
Finish ==
    /\ pc = "licenses" /\ downloads.todo = {} /\ DOMAIN downloads.url = {}
    /\ pr' = IF Table = <<>> THEN pr ELSE Proposed([tree EXCEPT !.licenses = Table])
    /\ EndJob
    /\ UNCHANGED <<world, faults, main>>

\* gh pr merge --auto: its checks passed.
Merge ==
    /\ pr # <<>>
    /\ main' = pr /\ pr' = <<>>
    /\ IF pc = "idle" THEN head' = pr /\ tree' = pr ELSE UNCHANGED <<head, tree>>
    /\ UNCHANGED <<world, faults, knife>>

-----------------------------------------------------------------------------
Init ==
    /\ month = 1 /\ published = [a \in Sources |-> <<1>>]
    /\ faults = 0
    /\ pc = "idle" /\ at = [manifest |-> 1, archive |-> 1] /\ clock = 1
    /\ newest = [a \in ArchiveSet |-> 1] /\ downloads = <<>>
    /\ main = FirstTree /\ head = main /\ tree = main /\ pr = <<>>

Job ==
    \/ StartJob \/ Fails \/ ThisMonth \/ LastMonth \/ Write \/ RunLock \/ Skip \/ Licenses \/ Finish
    \/ \E p \in Names : Take(p) \/ Resolve(p) \/ NextURL(p) \/ WrongDigest(p)

Next == (\E a \in Sources : Publish(a)) \/ NextMonth \/ Job \/ Merge

Spec == Init /\ [][Next]_vars

-----------------------------------------------------------------------------
\* "keeps the table in step with the locks in a single commit: a stale table
\* mislabels components" (update-debian-packages): on main and in the pull
\* request every locked package has the licence of the version that the first
\* lock with it pins, whatever downloads failed and whatever merged meanwhile.
LicensesInStep ==
    \A files \in {main} \cup (IF pr = <<>> THEN {} ELSE {pr}) :
        files.licenses = Unique(files.locks)

\* Every lock on main has the newest versions, and the table their licences.
MainIsCurrent ==
    \A i \in DOMAIN Manifests :
        /\ main.locks[i] = Lock(i, [a \in Sources |-> Len(published[a])])
        /\ \A p \in Manifests[i].packages : main.licenses[p] = main.locks[i][p]
=============================================================================
