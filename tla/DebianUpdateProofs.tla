-------------------------- MODULE DebianUpdateProofs --------------------------
(***************************************************************************)
(* Proofs about DebianUpdate, for any manifests, archives' snapshots,      *)
(* workers and faults.                                                     *)
(***************************************************************************)
EXTENDS DebianUpdate, WellFoundedInduction, TLAPS

All == DOMAIN Manifests
Working == {"this", "last", "write", "lock"}

\* Snapshots that the archives and nginx.org have published by now.
Reached(t) == t \in [Sources -> Nat] /\ \A a \in Sources : t[a] \in DOMAIN published[a]

\* What the job has read of the archives so far is not older than t.
Passed(t, n) ==
    LET a == Archives[n]
    IN  /\ n < at.archive \/ pc \in {"write", "lock"} => t[a] <= newest[a]
        /\ n = at.archive /\ pc = "this" => published[a][t[a]] <= clock
        /\ n = at.archive /\ pc = "last" => published[a][t[a]] < clock
Before(t) == Passed(t, 1) /\ Passed(t, 2)

\* A lock is what apt resolved at some snapshots.
Resolved(files) == \A i \in All : \E t : Reached(t) /\ files.locks[i] = Lock(i, t)

\* No package of the one lock is newer than in the other.
AtMost(old, new, i) == \A p \in Manifests[i].packages : old.locks[i][p] <= new.locks[i][p]

\* A lockfile that the job did not write is older than what it has read.
Behind(files) ==
    \A i \in All :
        /\ pc \in Working /\ i = at.manifest =>
              \E t : Reached(t) /\ files.locks[i] = Lock(i, t) /\ Before(t)
        /\ (pc \in Working /\ i < at.manifest) \/ pc \in {"gate", "licenses"} =>
              AtMost(files, tree, i)

\* The first manifest that has a package, and the table with the licence of the
\* version locked there.
First(j, p) ==
    p \in Manifests[j].packages /\ \A k \in All : p \in Manifests[k].packages => j <= k
InStep(files) ==
    /\ files.licenses = [p \in Names |-> files.licenses[p]]
    /\ \A p \in Names, j \in All : First(j, p) => files.licenses[p] = files.locks[j][p]

Checkout(files) ==
    /\ files = [manifests |-> files.manifests, locks |-> files.locks, licenses |-> files.licenses]
    /\ files.manifests \in [All -> [ArchiveSet -> Nat]]
    /\ files.locks = [i \in All |-> files.locks[i]]

TypeInv ==
    /\ month \in Nat \ {0} /\ published \in [Sources -> Seq(Nat)]
    /\ \A a \in Sources : Len(published[a]) \in 1..Len(Offers[a])
    /\ pc \in Working \cup {"idle", "gate", "licenses"}
    /\ at \in [manifest : All, archive : 1..2] /\ clock \in 1..month
    /\ newest \in [ArchiveSet -> Nat] /\ \A a \in ArchiveSet : newest[a] \in DOMAIN published[a]
    /\ pc = "lock" => tree.manifests[at.manifest] = newest
    /\ Checkout(head) /\ Checkout(tree) /\ Checkout(main)
    /\ pr # <<>> => Checkout(pr)

\* Snapshots come in the order of the months.
MonthsInv ==
    \A a \in Sources : \A n \in DOMAIN published[a] :
        /\ published[a][n] <= month
        /\ \A m \in 1..n : published[a][m] <= published[a][n]

\* Locks only get newer: from the checkout to main to the pull request, and from
\* there to what the job resolves.
LocksInv ==
    /\ Resolved(head) /\ Resolved(tree) /\ Resolved(main) /\ Behind(main)
    /\ pr # <<>> => Resolved(pr) /\ Behind(pr)
    /\ \A i \in All : AtMost(head, main, i) /\ (pr # <<>> => AtMost(main, pr, i))

\* The tables are in step, and the workers read what the checkout locks.
TablesInv ==
    /\ InStep(head) /\ InStep(main) /\ (pr # <<>> => InStep(pr))
    /\ pc = "licenses" =>
          /\ downloads = [todo |-> downloads.todo, url |-> downloads.url,
                          resolved |-> downloads.resolved, failed |-> downloads.failed]
          /\ downloads.todo \cup DOMAIN downloads.url \cup DOMAIN downloads.resolved
                \cup downloads.failed = Names
          /\ \A p \in DOMAIN downloads.resolved, j \in All :
                First(j, p) => downloads.resolved[p] = tree.locks[j][p]

\* The inductive invariant.
DebianInv == TypeInv /\ MonthsInv /\ LocksInv /\ TablesInv

-----------------------------------------------------------------------------
(* What apt resolves. *)

\* One of a manifest's sources has the newest version.
LEMMA NewestSource ==
    ASSUME NEW f \in [Sources -> Nat], NEW S \in SUBSET Sources, S # {}
    PROVE  \E a \in S : \A b \in S : f[b] <= f[a]
  <1> SUFFICES ASSUME \A a \in S : \E b \in S : f[a] < f[b]
               PROVE  FALSE
    OBVIOUS
  <1>1. PICK a \in S : TRUE
    OBVIOUS
  <1>2. PICK b \in S : f[a] < f[b]
    BY <1>1
  <1>3. PICK c \in S : f[b] < f[c]
    BY <1>2
  <1>4. PICK d \in S : f[c] < f[d]
    BY <1>3
  <1>5. f[a] \in Nat /\ f[b] \in Nat /\ f[c] \in Nat /\ f[d] \in Nat
    OBVIOUS
  <1>6. a # b /\ a # c /\ a # d /\ b # c /\ b # d /\ c # d
    BY <1>2, <1>3, <1>4, <1>5
  <1> QED
    BY <1>6 DEF Sources, ArchiveSet, Live

\* apt resolves a version that a source has, and none has a newer one.
LEMMA CandidateIsNewest ==
    ASSUME DebianAssumption, NEW i \in All, NEW p \in Manifests[i].packages,
           NEW t \in [Sources -> Nat], \A a \in Sources : t[a] \in DOMAIN Offers[a]
    PROVE  /\ Candidate(i, t, p) \in Nat
           /\ \E a \in Manifests[i].sources : Candidate(i, t, p) = Offers[a][t[a]][p]
           /\ \A a \in Manifests[i].sources : Offers[a][t[a]][p] <= Candidate(i, t, p)
  <1> DEFINE f == [a \in Sources |-> Offers[a][t[a]][p]]
             S == Manifests[i].sources
             versions == {Offers[a][t[a]][p] : a \in S}
  <1>1. S \subseteq Sources /\ S # {} /\ p \in Names
    BY DEF DebianAssumption, Names, All
  <1>2. f \in [Sources -> Nat]
    BY <1>1 DEF DebianAssumption, VersionsRise
  <1>3. PICK a \in S : \A b \in S : f[b] <= f[a]
    BY <1>1, <1>2, NewestSource
  <1>4. f[a] \in versions /\ \A w \in versions : w <= f[a]
    BY <1>1, <1>3
  <1>5. Candidate(i, t, p) = CHOOSE v \in versions : \A w \in versions : w <= v
    BY DEF Candidate
  <1>6. Candidate(i, t, p) \in versions /\ \A w \in versions : w <= Candidate(i, t, p)
    BY <1>4, <1>5
  <1>7. versions \subseteq Nat
    BY <1>1, <1>2
  <1> QED
    BY <1>6, <1>7

\* Later snapshots lock nothing older.
LEMMA LocksRise ==
    ASSUME DebianAssumption, NEW i \in All, NEW s \in [Sources -> Nat], NEW t \in [Sources -> Nat],
           \A a \in Sources : s[a] \in DOMAIN Offers[a] /\ t[a] \in DOMAIN Offers[a] /\ s[a] <= t[a]
    PROVE  \A p \in Manifests[i].packages : Lock(i, s)[p] \in Nat /\ Lock(i, s)[p] <= Lock(i, t)[p]
  <1> SUFFICES ASSUME NEW p \in Manifests[i].packages
               PROVE  /\ Candidate(i, s, p) \in Nat
                      /\ Candidate(i, s, p) <= Candidate(i, t, p)
    BY DEF Lock
  <1>1. PICK a \in Manifests[i].sources : Candidate(i, s, p) = Offers[a][s[a]][p]
    BY CandidateIsNewest
  <1>2. a \in Sources /\ p \in Names
    BY DEF DebianAssumption, Names, All
  <1>3. Offers[a][t[a]][p] <= Candidate(i, t, p)
    BY CandidateIsNewest
  <1>4. s[a] \in 1..t[a]
    BY <1>2 DEF DebianAssumption
  <1>5. /\ Offers[a][s[a]][p] <= Offers[a][t[a]][p]
        /\ Offers[a][s[a]][p] \in Nat /\ Offers[a][t[a]][p] \in Nat
    BY <1>2, <1>4 DEF DebianAssumption, VersionsRise
  <1>6. Candidate(i, s, p) \in Nat /\ Candidate(i, t, p) \in Nat
    BY CandidateIsNewest
  <1> QED
    BY <1>1, <1>3, <1>5, <1>6

\* A set of places of a sequence has a last one, and a set of numbers a first.
LEMMA LastPlace ==
    ASSUME NEW n \in Nat, NEW S \in SUBSET (1..n), S # {}
    PROVE  \E m \in S : \A k \in S : k <= m
  <1> DEFINE T == {n - k : k \in S}
  <1>1. T \subseteq Nat /\ T # {}
    <2>1. \A k \in 1..n : n - k \in Nat
      OBVIOUS
    <2> QED
      BY <2>1
  <1> HIDE DEF T
  <1>2. \E x \in T : \A y \in T : ~ (<<y, x>> \in OpToRel(<, Nat))
    BY <1>1, NatLessThanWellFounded, WFMin
  <1>3. PICK x \in T : \A y \in T : ~ (y < x)
    BY <1>1, <1>2 DEF OpToRel
  <1>4. PICK m \in S : x = n - m
    BY <1>3 DEF T
  <1>5. \A k \in S : ~ (n - k < n - m)
    BY <1>3, <1>4 DEF T
  <1> QED
    BY <1>5

\* A package's licence is read for the first manifest that has it (Unique).
LEMMA FirstManifest ==
    ASSUME DebianAssumption, NEW p \in Names
    PROVE  /\ \E j \in All : First(j, p)
           /\ \A files : \A j \in All :
                 Checkout(files) /\ First(j, p) => Unique(files.locks)[p] = files.locks[j][p]
  <1> DEFINE in == {i \in All : p \in Manifests[i].packages}
             first == CHOOSE i \in in : \A k \in in : i <= k
  <1>1. in # {} /\ in \subseteq Nat
    BY DEF Names, DebianAssumption, All
  <1>2. \E x \in in : \A y \in in : ~ (<<y, x>> \in OpToRel(<, Nat))
    <2> HIDE DEF in
    <2> QED
      BY <1>1, NatLessThanWellFounded, WFMin
  <1>3. \E x \in in : \A y \in in : x <= y
    <2> HIDE DEF in
    <2>1. PICK x \in in : \A y \in in : ~ (y < x)
      BY <1>1, <1>2 DEF OpToRel
    <2>2. x \in Nat /\ \A y \in in : y \in Nat
      BY <1>1
    <2> QED
      BY <2>1, <2>2
  <1>4. first \in in /\ \A k \in in : first <= k
    BY <1>3
  <1>5. ASSUME NEW j \in All, First(j, p)
        PROVE  j = first
    <2>1. j \in in /\ \A k \in in : j <= k
      BY <1>5 DEF First
    <2> HIDE DEF in, first
    <2> QED
      BY <1>1, <1>4, <2>1
  <1>6. ASSUME NEW files, Checkout(files)
        PROVE  Unique(files.locks)[p] = files.locks[first][p]
    <2>1. DOMAIN files.locks = All
      BY <1>6 DEF Checkout
    <2>2. Unique(files.locks)[p] =
             files.locks[CHOOSE i \in {k \in DOMAIN files.locks : p \in Manifests[k].packages} :
                            \A k \in {m \in DOMAIN files.locks : p \in Manifests[m].packages} : i <= k][p]
      BY DEF Unique
    <2> QED
      BY <2>1, <2>2, Zenon
  <1>7. first \in All /\ First(first, p)
    BY <1>4 DEF First
  <1> HIDE DEF in, first
  <1> QED
    BY <1>5, <1>6, <1>7, Zenon

\* The table of a checkout agrees with the first locks just where it is theirs.
LEMMA InStepMeans ==
    ASSUME DebianAssumption, NEW files, Checkout(files)
    PROVE  InStep(files) <=> files.licenses = Unique(files.locks)
  <1> DEFINE table == Unique(files.locks)
  <1>1. table = [p \in Names |-> table[p]]
    BY DEF Unique
  <1>2. \A p \in Names, j \in All : First(j, p) => table[p] = files.locks[j][p]
    <2> SUFFICES ASSUME NEW p \in Names, NEW j \in All, First(j, p)
                 PROVE  table[p] = files.locks[j][p]
      OBVIOUS
    <2>1. \A f : \A k \in All :
             Checkout(f) /\ First(k, p) => Unique(f.locks)[p] = f.locks[k][p]
      BY FirstManifest
    <2>2. Unique(files.locks)[p] = files.locks[j][p]
      BY <2>1
    <2> QED
      BY <2>2
  <1>3. \A p \in Names : \E j \in All : First(j, p)
    BY FirstManifest, Zenon
  <1> HIDE DEF table
  <1>4. ASSUME InStep(files)
        PROVE  files.licenses = table
    <2>1. \A p \in Names : files.licenses[p] = table[p]
      BY <1>2, <1>3, <1>4 DEF InStep
    <2> QED
      BY <1>1, <1>4, <2>1 DEF InStep
  <1>5. ASSUME files.licenses = table
        PROVE  InStep(files)
    BY <1>1, <1>2, <1>5, Zenon DEF InStep
  <1> QED
    BY <1>4, <1>5 DEF table

-----------------------------------------------------------------------------
(* What the archives have published. *)

\* Snapshots are numbered from 1 and none is published that is not offered.
LEMMA Places ==
    ASSUME DebianAssumption, TypeInv
    PROVE  /\ \A a \in Sources :
                 /\ Len(published[a]) \in Nat \ {0}
                 /\ DOMAIN published[a] = 1..Len(published[a])
                 /\ DOMAIN published[a] \subseteq DOMAIN Offers[a]
                 /\ \A n \in DOMAIN published[a] : published[a][n] \in Nat
           /\ Archives[1] \in ArchiveSet /\ Archives[2] \in ArchiveSet /\ Len(Archives) = 2
           /\ Archives[1] # Archives[2] /\ ArchiveSet \subseteq Sources
           /\ Live \in Sources /\ Live \notin ArchiveSet
           /\ ArchiveSet = {Archives[1], Archives[2]}
           /\ at.manifest \in All /\ at.archive \in 1..2 /\ All = 1..Len(Manifests)
           /\ Len(Manifests) \in Nat \ {0} /\ Here \in ArchiveSet
           /\ month \in Nat /\ clock \in Nat /\ clock <= month
  <1>1. ASSUME NEW a \in Sources
        PROVE  /\ Len(published[a]) \in Nat \ {0}
               /\ DOMAIN published[a] = 1..Len(published[a])
               /\ DOMAIN published[a] \subseteq DOMAIN Offers[a]
               /\ \A n \in DOMAIN published[a] : published[a][n] \in Nat
    <2>1. published[a] \in Seq(Nat) /\ Len(published[a]) \in 1..Len(Offers[a])
      BY DEF TypeInv
    <2>2. Len(Offers[a]) \in Nat /\ DOMAIN Offers[a] = 1..Len(Offers[a])
      BY DEF DebianAssumption
    <2> QED
      BY <2>1, <2>2
  <1>2. /\ Archives[1] = "debian" /\ Archives[2] = "debian-security" /\ Len(Archives) = 2
    BY DEF Archives
  <1>3. at.manifest \in All /\ at.archive \in 1..2
    BY DEF TypeInv
  <1>4. Here \in ArchiveSet
    BY <1>2, <1>3 DEF Here, ArchiveSet
  <1>5. Len(Manifests) \in Nat \ {0} /\ All = 1..Len(Manifests)
    BY DEF All, DebianAssumption
  <1>6. month \in Nat /\ clock \in Nat /\ clock <= month
    BY DEF TypeInv
  <1> QED
    BY <1>1, <1>2, <1>3, <1>4, <1>5, <1>6 DEF ArchiveSet, Sources, Live

\* Snapshots that were reached are offered.
LEMMA ReachedOffered ==
    ASSUME DebianAssumption, TypeInv, NEW t, Reached(t)
    PROVE  t \in [Sources -> Nat] /\ \A a \in Sources : t[a] \in DOMAIN Offers[a] /\ t[a] \in DOMAIN published[a]
  BY Places DEF Reached

\* fetchMonth: the last snapshot up to the month, or no snapshot of that month.
LEMMA FetchedLast ==
    ASSUME DebianAssumption, TypeInv, MonthsInv, NEW a \in ArchiveSet, NEW m \in Nat
    PROVE  /\ FetchMonth(a, m) = 0 => \A k \in DOMAIN published[a] : published[a][k] # m
           /\ FetchMonth(a, m) # 0 =>
                 /\ FetchMonth(a, m) \in DOMAIN published[a]
                 /\ \A k \in DOMAIN published[a] : published[a][k] <= m => k <= FetchMonth(a, m)
  <1> DEFINE in == {n \in DOMAIN published[a] : published[a][n] = m}
             N == Len(published[a])
  <1>1. a \in Sources /\ N \in Nat /\ DOMAIN published[a] = 1..N /\ \A n \in 1..N : published[a][n] \in Nat
    BY Places
  <1>2. CASE in = {}
    BY <1>2 DEF FetchMonth
  <1>3. CASE in # {}
    <2>1. FetchMonth(a, m) = CHOOSE n \in in : \A k \in in : k <= n
      BY <1>3 DEF FetchMonth
    <2>2. in \in SUBSET (1..N)
      BY <1>1
    <2> HIDE DEF in
    <2>3. \E n \in in : \A k \in in : k <= n
      BY <1>1, <1>3, <2>2, LastPlace
    <2>4. FetchMonth(a, m) \in in /\ \A k \in in : k <= FetchMonth(a, m)
      BY <2>1, <2>3
    <2> DEFINE f == FetchMonth(a, m)
    <2>5. f \in 1..N /\ published[a][f] = m
      BY <1>1, <2>4 DEF in
    <2>6. ASSUME NEW k \in 1..N, published[a][k] <= m
          PROVE  k <= f
      <3>1. CASE published[a][k] = m
        BY <1>1, <2>4, <3>1 DEF in
      <3>2. CASE published[a][k] # m
        <4>1. SUFFICES ASSUME f < k PROVE FALSE
          BY <1>1, <2>5
        <4>2. f \in 1..k
          BY <1>1, <2>5, <4>1
        <4>3. published[a][f] <= published[a][k]
          BY <1>1, <4>2 DEF MonthsInv
        <4> QED
          BY <1>1, <2>5, <2>6, <3>2, <4>3
      <3> QED
        BY <3>1, <3>2
    <2>7. f # 0
      BY <2>5
    <2> QED
      BY <1>1, <2>5, <2>6, <2>7
  <1> QED
    BY <1>2, <1>3

-----------------------------------------------------------------------------
(* What the job has read is not older than what was reached before it. *)

\* A manifest's first archive is asked: nothing is from a later month than this.
LEMMA AskFirst ==
    ASSUME DebianAssumption, TypeInv, MonthsInv, UNCHANGED published,
           Ask, at'.archive = 1, NEW t, Reached(t)
    PROVE  (Before(t))'
  <1>1. \A a \in Sources : t[a] \in DOMAIN published[a]
    BY ReachedOffered
  <1>2. \A a \in Sources : published[a][t[a]] <= month
    BY <1>1 DEF MonthsInv
  <1>3. Archives[1] \in Sources
    BY Places
  <1>4. pc' = "this" /\ clock' = month
    BY DEF Ask
  <1> QED
    BY <1>2, <1>3, <1>4 DEF Before, Passed

\* A timestamp is found, and the next archive is asked or the file written.
LEMMA FoundLater ==
    ASSUME DebianAssumption, TypeInv, MonthsInv, UNCHANGED published, pc \in {"this", "last"},
           NEW n, Found(n), NEW t, Reached(t), Before(t), t[Here] <= n
    PROVE  (Before(t))'
  <1>1. \A a \in Sources : t[a] \in DOMAIN published[a]
    BY ReachedOffered
  <1>2. \A a \in Sources : published[a][t[a]] <= month
    BY <1>1 DEF MonthsInv
  <1>3. newest' = [newest EXCEPT ![Here] = n] /\ DOMAIN newest = ArchiveSet
    BY DEF Found, TypeInv
  <1>4. CASE at.archive = 1
    <2> at.archive < Len(Archives)
      <3>1. Len(Archives) = 2
        BY Places
      <3> QED
        BY <1>4, <3>1
    <2>1. /\ at' = [at EXCEPT !.archive = @ + 1] /\ pc' = "this" /\ clock' = month
      BY DEF Found, Ask
    <2>2. at'.archive = 2
      BY <1>4, <2>1 DEF TypeInv
    <2>3. Here = Archives[1]
      BY <1>4 DEF Here
    <2>4. t[Archives[1]] <= newest'[Archives[1]]
      BY <1>3, <2>3, Places
    <2>5. published[Archives[2]][t[Archives[2]]] <= month
      BY <1>2, Places
    <2>6. pc' = "this" /\ clock' = month /\ published' = published
      BY <2>1
    <2>7. (Passed(t, 1))'
      BY <2>2, <2>4, <2>6 DEF Passed
    <2>8. (Passed(t, 2))'
      BY <2>2, <2>5, <2>6 DEF Passed
    <2> QED
      BY <2>7, <2>8 DEF Before
  <1>5. CASE at.archive = 2
    <2> ~ (at.archive < Len(Archives))
      <3>1. Len(Archives) = 2
        BY Places
      <3> QED
        BY <1>5, <3>1
    <2>1. pc' = "write" /\ at' = at
      BY DEF Found
    <2>2. Here = Archives[2]
      BY <1>5 DEF Here
    <2>3. t[Archives[2]] <= newest'[Archives[2]]
      BY <1>3, <2>2, Places
    <2>4. t[Archives[1]] <= newest[Archives[1]]
      BY <1>5 DEF Before, Passed
    <2>5. newest'[Archives[1]] = newest[Archives[1]]
      BY <1>3, <2>2, Places
    <2>6. (Passed(t, 1))'
      BY <1>5, <2>1, <2>4, <2>5 DEF Passed
    <2>7. (Passed(t, 2))'
      BY <1>5, <2>1, <2>3 DEF Passed
    <2> QED
      BY <2>6, <2>7 DEF Before
  <1> QED
    BY <1>4, <1>5, Places

\* The index of the month has a snapshot, which is the last one there is up to it,
\* or has none, and then last month's is as good.
LEMMA FetchLater ==
    ASSUME DebianAssumption, TypeInv, MonthsInv, UNCHANGED published,
           ThisMonth \/ LastMonth, pc' # "idle", NEW t, Reached(t), Before(t)
    PROVE  (Before(t))'
  <1>1. \A a \in Sources : t[a] \in DOMAIN published[a]
    BY ReachedOffered
  <1>2. /\ Here \in ArchiveSet /\ Here \in Sources /\ t[Here] \in DOMAIN published[Here]
        /\ published[Here][t[Here]] \in Nat
    BY <1>1, Places
  <1>3. clock \in Nat /\ clock >= 1
    BY DEF TypeInv
  <1>4. Passed(t, at.archive)
    BY Places DEF Before
  <1>5. CASE ThisMonth
    <2> DEFINE n == FetchMonth(Here, clock)
    <2>1. pc = "this"
      BY <1>5 DEF ThisMonth
    <2>2. published[Here][t[Here]] <= clock
      BY <1>4, <2>1 DEF Passed, Here
    <2>3. CASE n # 0
      <3>1. t[Here] <= n
        BY <1>2, <1>3, <2>2, <2>3, FetchedLast
      <3>2. Found(n)
        BY <1>5, <2>3 DEF ThisMonth
      <3> QED
        BY <2>1, <3>1, <3>2, FoundLater
    <2>4. CASE n = 0
      <3>1. published[Here][t[Here]] # clock
        BY <1>2, <1>3, <2>4, FetchedLast
      <3>2. published[Here][t[Here]] < clock
        BY <1>2, <1>3, <2>2, <3>1
      <3>3. pc' = "last" /\ UNCHANGED <<at, clock, newest>>
        BY <1>5, <2>4 DEF ThisMonth
      <3> QED
        BY <2>1, <3>2, <3>3 DEF Before, Passed, Here
    <2> QED
      BY <2>3, <2>4
  <1>6. CASE LastMonth
    <2> DEFINE n == FetchMonth(Here, clock - 1)
    <2>1. pc = "last"
      BY <1>6 DEF LastMonth
    <2>2. published[Here][t[Here]] < clock
      BY <1>4, <2>1 DEF Passed, Here
    <2>3. n # 0 /\ Found(n)
      BY <1>6 DEF LastMonth, EndJob
    <2>4. clock - 1 \in Nat /\ published[Here][t[Here]] <= clock - 1
      BY <1>2, <1>3, <2>2
    <2>5. t[Here] <= n
      BY <1>2, <2>3, <2>4, FetchedLast
    <2> QED
      BY <2>1, <2>3, <2>5, FoundLater
  <1> QED
    BY <1>5, <1>6

\* What is locked now is not older than what was locked before (bazel run lock).
LEMMA LockedLater ==
    ASSUME DebianAssumption, TypeInv, pc = "lock", NEW t, Reached(t), Before(t)
    PROVE  LET now == Pinned(tree.manifests[at.manifest])
           IN  /\ Reached(now)
               /\ \A p \in Manifests[at.manifest].packages :
                     Lock(at.manifest, t)[p] <= Lock(at.manifest, now)[p]
  <1> DEFINE now == Pinned(tree.manifests[at.manifest])
  <1>1. tree.manifests[at.manifest] = newest
    BY DEF TypeInv
  <1>2. \A a \in Sources : now[a] = IF a = Live THEN Len(published[a]) ELSE newest[a]
    BY <1>1 DEF Pinned
  <1>3. DOMAIN now = Sources /\ now = [a \in Sources |-> now[a]]
    BY DEF Pinned
  <1>4. \A a \in Sources : a # Live => a \in ArchiveSet
    BY DEF Sources
  <1>5. \A a \in Sources : now[a] \in DOMAIN published[a] /\ now[a] \in Nat
    <2> SUFFICES ASSUME NEW a \in Sources
                 PROVE  now[a] \in DOMAIN published[a] /\ now[a] \in Nat
      OBVIOUS
    <2>1. CASE a = Live
      BY <1>2, <2>1, Places
    <2>2. CASE a # Live
      <3>1. a \in ArchiveSet /\ now[a] = newest[a]
        BY <1>2, <1>4, <2>2
      <3> QED
        BY <3>1 DEF TypeInv
    <2> QED
      BY <2>1, <2>2
  <1> HIDE DEF now
  <1>6. Reached(now)
    BY <1>3, <1>5 DEF Reached
  <1>7. \A a \in ArchiveSet : t[a] <= newest[a]
    BY Places DEF Before, Passed
  <1>8. \A a \in Sources : t[a] <= now[a]
    <2> SUFFICES ASSUME NEW a \in Sources
                 PROVE  t[a] <= now[a]
      OBVIOUS
    <2>1. CASE a = Live
      BY <1>2, <2>1, Places, ReachedOffered
    <2>2. CASE a # Live
      BY <1>2, <1>4, <1>7, <2>2
    <2> QED
      BY <2>1, <2>2
  <1>9. \A p \in Manifests[at.manifest].packages :
           Lock(at.manifest, t)[p] <= Lock(at.manifest, now)[p]
    BY <1>6, <1>8, Places, ReachedOffered, LocksRise
  <1> QED
    BY <1>6, <1>9 DEF now

-----------------------------------------------------------------------------
(* A lockfile that the job has not written stays older than what it has read. *)

\* Steps that are not the job's reading.
LEMMA BehindQuiet ==
    ASSUME DebianAssumption, TypeInv, NEW files, Behind(files),
           UNCHANGED <<pc, at, clock, newest, tree>>,
           \A a \in Sources : \A n \in DOMAIN published[a] :
              n \in DOMAIN published'[a] /\ published'[a][n] = published[a][n]
    PROVE  (Behind(files))'
  <1> SUFFICES ASSUME NEW i \in All
               PROVE  /\ pc \in Working /\ i = at.manifest =>
                            (\E t : Reached(t) /\ files.locks[i] = Lock(i, t) /\ Before(t))'
                      /\ (pc \in Working /\ i < at.manifest) \/ pc \in {"gate", "licenses"} =>
                            AtMost(files, tree, i)
    BY DEF Behind, AtMost
  <1>1. ASSUME pc \in Working, i = at.manifest
        PROVE  (\E t : Reached(t) /\ files.locks[i] = Lock(i, t) /\ Before(t))'
    <2>1. PICK t : Reached(t) /\ files.locks[i] = Lock(i, t) /\ Before(t)
      BY <1>1 DEF Behind
    <2>2. \A a \in Sources : t[a] \in DOMAIN published'[a] /\ published'[a][t[a]] = published[a][t[a]]
      BY <2>1 DEF Reached
    <2>3. (Reached(t))'
      BY <2>1, <2>2 DEF Reached
    <2>4. published'[Archives[1]][t[Archives[1]]] = published[Archives[1]][t[Archives[1]]]
      BY <2>2, Places
    <2>5. published'[Archives[2]][t[Archives[2]]] = published[Archives[2]][t[Archives[2]]]
      BY <2>2, Places
    <2>6. (Before(t))'
      BY <2>1, <2>4, <2>5 DEF Before, Passed
    <2> QED
      BY <2>1, <2>3, <2>6 DEF Lock, Candidate
  <1>2. (pc \in Working /\ i < at.manifest) \/ pc \in {"gate", "licenses"} => AtMost(files, tree, i)
    BY DEF Behind
  <1> QED
    BY <1>1, <1>2

\* A manifest's archives are asked from the first one on.
LEMMA BehindAsk ==
    ASSUME DebianAssumption, TypeInv, MonthsInv, NEW files, Resolved(files), UNCHANGED published,
           Ask, at'.archive = 1, at'.manifest \in All,
           \A i \in All : i < at'.manifest => (AtMost(files, tree, i))'
    PROVE  (Behind(files))'
  <1> SUFFICES ASSUME NEW i \in All, i = at'.manifest
               PROVE  (\E t : Reached(t) /\ files.locks[i] = Lock(i, t) /\ Before(t))'
    BY DEF Ask, Behind
  <1>1. PICK t : Reached(t) /\ files.locks[i] = Lock(i, t)
    BY DEF Resolved
  <1>2. (Before(t))'
    BY <1>1, AskFirst
  <1>3. (Reached(t))'
    BY <1>1 DEF Reached
  <1> QED
    BY <1>1, <1>2, <1>3 DEF Lock, Candidate

\* Reading an index, and writing the timestamps.
LEMMA BehindFetch ==
    ASSUME DebianAssumption, TypeInv, MonthsInv, NEW files, Behind(files),
           ThisMonth \/ LastMonth \/ Write, pc' # "idle"
    PROVE  (Behind(files))'
  <1>1. /\ pc \in {"this", "last", "write"} /\ pc' \in Working
        /\ published' = published /\ at'.manifest = at.manifest
    <2>1. /\ pc \in {"this", "last", "write"} /\ published' = published
          /\ \/ \E n : Found(n)
             \/ pc' \in {"last", "lock"} /\ at' = at
      <3>1. ASSUME ThisMonth
            PROVE  pc = "this" /\ published' = published /\ ((\E n : Found(n)) \/ (pc' = "last" /\ at' = at))
        BY <3>1, Zenon DEF ThisMonth, world
      <3>2. ASSUME LastMonth
            PROVE  pc = "last" /\ published' = published /\ (\E n : Found(n))
        BY <3>2, Zenon DEF LastMonth, EndJob, world
      <3>3. ASSUME Write
            PROVE  pc = "write" /\ published' = published /\ pc' = "lock" /\ at' = at
        BY <3>3, Zenon DEF Write, world
      <3> QED
        BY <3>1, <3>2, <3>3
    <2>2. ASSUME NEW n, Found(n)
          PROVE  pc' \in {"this", "write"} /\ at'.manifest = at.manifest
      <3>1. at' = [at EXCEPT !.archive = at.archive + 1] \/ at' = at
        BY <2>2, Zenon DEF Found
      <3>2. pc' = "this" \/ pc' = "write"
        BY <2>2, Zenon DEF Found, Ask
      <3>3. at'.manifest = at.manifest
        BY <3>1 DEF TypeInv
      <3> QED
        BY <3>2, <3>3
    <2> QED
      BY <2>1, <2>2 DEF Working
  <1>2. tree'.locks = tree.locks
    <2>1. CASE ThisMonth
      BY <2>1 DEF ThisMonth, Found
    <2>2. CASE LastMonth
      BY <2>2 DEF LastMonth, Found, EndJob
    <2>3. CASE Write
      BY <2>3 DEF Write, TypeInv, Checkout
    <2> QED
      BY <2>1, <2>2, <2>3
  <1>3. ASSUME NEW t, Reached(t), Before(t)
        PROVE  (Reached(t))' /\ (Before(t))'
    <2>1. (Reached(t))'
      BY <1>1, <1>3 DEF Reached
    <2>2. CASE ThisMonth \/ LastMonth
      BY <1>1, <1>3, <2>1, <2>2, FetchLater
    <2>3. CASE Write
      <3>1. pc = "write" /\ pc' = "lock" /\ UNCHANGED <<at, clock, newest>>
        BY <2>3 DEF Write
      <3> QED
        BY <1>1, <1>3, <2>1, <3>1 DEF Before, Passed
    <2> QED
      BY <2>2, <2>3, Zenon
  <1> SUFFICES ASSUME NEW i \in All
               PROVE  /\ i = at.manifest =>
                            (\E t : Reached(t) /\ files.locks[i] = Lock(i, t) /\ Before(t))'
                      /\ i < at.manifest => AtMost(files, tree, i)
    BY <1>1, <1>2 DEF Behind, AtMost, Working
  <1>4. ASSUME i = at.manifest
        PROVE  (\E t : Reached(t) /\ files.locks[i] = Lock(i, t) /\ Before(t))'
    <2>1. PICK t : Reached(t) /\ files.locks[i] = Lock(i, t) /\ Before(t)
      BY <1>1, <1>4 DEF Behind, Working
    <2> QED
      BY <1>3, <2>1 DEF Lock, Candidate
  <1>5. i < at.manifest => AtMost(files, tree, i)
    BY <1>1 DEF Behind, Working
  <1> QED
    BY <1>4, <1>5

-----------------------------------------------------------------------------
(* The steps keep the invariant. *)

\* What was reached stays resolved.
LEMMA ResolvedKept ==
    ASSUME \A t : Reached(t) => (Reached(t))', NEW files, Resolved(files)
    PROVE  (Resolved(files))'
  <1> SUFFICES ASSUME NEW i \in All
               PROVE  (\E t : Reached(t) /\ files.locks[i] = Lock(i, t))'
    BY DEF Resolved
  <1>1. PICK t : Reached(t) /\ files.locks[i] = Lock(i, t)
    BY DEF Resolved
  <1>2. (Reached(t))'
    BY <1>1
  <1>3. (files.locks[i] = Lock(i, t))'
    BY <1>1 DEF Lock, Candidate
  <1> QED
    BY <1>2, <1>3, Zenon

\* Tables stay in step where neither they nor the locks change.
LEMMA TablesKept ==
    ASSUME TablesInv, UNCHANGED <<head, main, pr>>,
           pc' = "licenses" => UNCHANGED <<pc, downloads, tree>>
    PROVE  TablesInv'
  <1>1. (InStep(head))' /\ (InStep(main))' /\ (pr' # <<>> => (InStep(pr))')
    BY DEF TablesInv, InStep
  <1>2. CASE pc' = "licenses"
    BY <1>1, <1>2 DEF TablesInv
  <1>3. CASE pc' # "licenses"
    BY <1>1, <1>3 DEF TablesInv
  <1> QED
    BY <1>2, <1>3

\* Main and the pull request stay behind in a step that leaves them as they are.
LEMMA LocksKept ==
    ASSUME DebianAssumption, TypeInv, LocksInv, UNCHANGED <<head, main, pr>>,
           \A t : Reached(t) => (Reached(t))',
           (Resolved(tree))',
           \A files : Resolved(files) /\ Behind(files) => (Behind(files))'
    PROVE  LocksInv'
  <1>1. ASSUME NEW files, Resolved(files)
        PROVE  (Resolved(files))'
    BY <1>1, ResolvedKept
  <1>2. (Resolved(head))' /\ (Resolved(main))' /\ (Behind(main))'
    <2>1. PICK h : h = head
      OBVIOUS
    <2>2. PICK m : m = main
      OBVIOUS
    <2>3. Resolved(h) /\ Resolved(m) /\ Behind(m)
      BY <2>1, <2>2 DEF LocksInv
    <2>4. (Resolved(h))' /\ (Resolved(m))' /\ (Behind(m))'
      BY <1>1, <2>3
    <2>5. h = head' /\ m = main'
      BY <2>1, <2>2
    <2> QED
      BY <2>4, <2>5 DEF Resolved, Behind, AtMost
  <1>3. pr' # <<>> => (Resolved(pr))' /\ (Behind(pr))'
    <2>1. PICK p : p = pr
      OBVIOUS
    <2>2. p # <<>> => Resolved(p) /\ Behind(p)
      BY <2>1 DEF LocksInv
    <2>3. p # <<>> => (Resolved(p))' /\ (Behind(p))'
      BY <1>1, <2>2
    <2>4. p = pr'
      BY <2>1
    <2> QED
      BY <2>3, <2>4 DEF Resolved, Behind, AtMost
  <1>4. (\A i \in All : AtMost(head, main, i) /\ (pr # <<>> => AtMost(main, pr, i)))'
    BY DEF LocksInv, AtMost
  <1> QED
    BY <1>2, <1>3, <1>4 DEF LocksInv

\* The first tree is resolved from the first snapshots.
LEMMA DebianInit ==
    ASSUME DebianAssumption, Init
    PROVE  DebianInv
  <1> DEFINE one == [a \in Sources |-> 1]
             locks == [i \in All |-> Lock(i, one)]
  <1>1. /\ FirstTree.locks = locks /\ FirstTree.licenses = Unique(locks)
        /\ FirstTree.manifests = [i \in All |-> [a \in ArchiveSet |-> 1]]
        /\ Checkout(FirstTree)
    BY DEF FirstTree, All, Checkout
  <1>2. head = FirstTree /\ tree = FirstTree /\ main = FirstTree /\ pr = <<>>
    BY DEF Init
  <1>3. \A a \in Sources : published[a] = <<1>> /\ Len(Offers[a]) \in Nat \ {0}
    BY DEF Init, DebianAssumption
  <1>4. TypeInv
    <2>1. /\ month = 1 /\ pc = "idle" /\ clock = 1 /\ at = [manifest |-> 1, archive |-> 1]
          /\ newest = [a \in ArchiveSet |-> 1] /\ published = [a \in Sources |-> <<1>>]
      BY DEF Init
    <2>2. 1 \in All
      BY DEF DebianAssumption, All
    <2>3. ArchiveSet \subseteq Sources
      BY DEF Sources
    <2>4. at \in [manifest : All, archive : 1..2]
      BY <2>1, <2>2
    <2>5. published \in [Sources -> Seq(Nat)]
      BY <2>1
    <2>6. \A a \in Sources : Len(published[a]) \in 1..Len(Offers[a])
      <3> SUFFICES ASSUME NEW a \in Sources
                   PROVE  Len(published[a]) \in 1..Len(Offers[a])
        OBVIOUS
      <3>1. published[a] = <<1>> /\ Len(Offers[a]) \in Nat \ {0}
        BY <1>3
      <3>2. Len(published[a]) = 1
        BY <3>1
      <3> HIDE DEF Init
      <3> QED
        BY <3>1, <3>2
    <2>7. \A a \in ArchiveSet : newest[a] \in DOMAIN published[a]
      BY <1>3, <2>1, <2>3
    <2>8. newest \in [ArchiveSet -> Nat] /\ clock \in 1..month /\ month \in Nat \ {0}
      BY <2>1
    <2> QED
      BY <1>1, <1>2, <2>1, <2>4, <2>5, <2>6, <2>7, <2>8 DEF TypeInv, Working
  <1>5. MonthsInv
    BY <1>3 DEF MonthsInv, Init
  <1>6. LocksInv
    <2>1. Reached(one)
      BY <1>3 DEF Reached
    <2>2. Resolved(FirstTree)
      <3> HIDE DEF one
      <3> QED
        BY <1>1, <2>1 DEF Resolved
    <2>3. Behind(main)
      BY DEF Behind, Init, Working
    <2>4. \A i \in All : AtMost(FirstTree, FirstTree, i)
      <3> SUFFICES ASSUME NEW i \in All, NEW p \in Manifests[i].packages
                   PROVE  FirstTree.locks[i][p] <= FirstTree.locks[i][p]
        BY DEF AtMost
      <3>1. \A a \in Sources : one[a] \in DOMAIN Offers[a]
        BY DEF DebianAssumption
      <3>2. one \in [Sources -> Nat]
        OBVIOUS
      <3> HIDE DEF one
      <3>3. Candidate(i, one, p) \in Nat
        BY <3>1, <3>2, CandidateIsNewest
      <3>4. FirstTree.locks[i][p] = Candidate(i, one, p)
        BY <1>1 DEF Lock
      <3> QED
        BY <3>3, <3>4
    <2> QED
      BY <1>2, <2>2, <2>3, <2>4 DEF LocksInv
  <1>7. TablesInv
    BY <1>1, <1>2, InStepMeans DEF TablesInv, Init
  <1> QED
    BY <1>4, <1>5, <1>6, <1>7 DEF DebianInv

\* The archives publish, in the month it is, and the months pass.
LEMMA ArchiveStep ==
    ASSUME DebianAssumption, DebianInv, (\E a \in Sources : Publish(a)) \/ NextMonth
    PROVE  DebianInv'
  <1> USE DEF DebianInv
  <1>1. UNCHANGED <<knife, repo>>
    BY DEF Publish, NextMonth
  <1>2. /\ month' \in Nat \ {0} /\ month <= month' /\ published' \in [Sources -> Seq(Nat)]
        /\ \A b \in Sources : Len(published'[b]) \in 1..Len(Offers[b])
        /\ \A b \in Sources : \A n \in DOMAIN published[b] :
              n \in DOMAIN published'[b] /\ published'[b][n] = published[b][n]
        /\ MonthsInv'
    <2>1. ASSUME NEW a \in Sources, Publish(a)
          PROVE  <1>2!:
      <3> DEFINE N == Len(published[a])
      <3>1. /\ published' = [published EXCEPT ![a] = Append(published[a], month)]
            /\ N < Len(Offers[a]) /\ month' = month
        BY <2>1 DEF Publish
      <3>2. /\ published[a] \in Seq(Nat) /\ N \in Nat \ {0} /\ month \in Nat /\ Len(Offers[a]) \in Nat
            /\ DOMAIN published[a] = 1..N
        BY Places DEF TypeInv, DebianAssumption
      <3>3. /\ published'[a] \in Seq(Nat) /\ Len(published'[a]) = N + 1
            /\ DOMAIN published'[a] = 1..N + 1 /\ published'[a][N + 1] = month
            /\ \A n \in 1..N : published'[a][n] = published[a][n]
        BY <3>1, <3>2 DEF TypeInv
      <3>4. \A b \in Sources : b # a => published'[b] = published[b]
        BY <3>1 DEF TypeInv
      <3>5. published' \in [Sources -> Seq(Nat)]
        BY <3>1, <3>2 DEF TypeInv
      <3>6. \A b \in Sources : Len(published'[b]) \in 1..Len(Offers[b])
        <4>1. Len(published'[a]) \in 1..Len(Offers[a])
          BY <3>1, <3>2, <3>3
        <4>2. \A b \in Sources : b # a => Len(published'[b]) \in 1..Len(Offers[b])
          BY <3>4 DEF TypeInv
        <4> QED
          BY <4>1, <4>2
      <3>7. \A b \in Sources : \A n \in DOMAIN published[b] :
               n \in DOMAIN published'[b] /\ published'[b][n] = published[b][n]
        <4>1. \A n \in 1..N : n \in DOMAIN published'[a] /\ published'[a][n] = published[a][n]
          <5>1. \A n \in 1..N : n \in 1..N + 1
            BY <3>2
          <5> QED
            BY <3>3, <5>1
        <4>2. \A b \in Sources : b # a => published'[b] = published[b]
          BY <3>4
        <4> HIDE DEF N
        <4> QED
          BY <3>2, <4>1, <4>2
      <3>8. MonthsInv'
        <4> SUFFICES ASSUME NEW b \in Sources, NEW n \in DOMAIN published'[b]
                     PROVE  /\ published'[b][n] <= month
                            /\ \A m \in 1..n : published'[b][m] <= published'[b][n]
          BY <3>1 DEF MonthsInv
        <4>1. CASE b # a
          <5>1. published'[b] = published[b]
            BY <3>4, <4>1
          <5> QED
            BY <5>1 DEF MonthsInv
        <4>2. CASE b = a /\ n \in 1..N
          <5>1. /\ published[a][n] <= month
                /\ \A m \in 1..n : published[a][m] <= published[a][n]
            BY <3>2, <4>2 DEF MonthsInv
          <5>2. \A m \in 1..n : m \in 1..N
            BY <3>2, <4>2
          <5> QED
            BY <3>3, <4>2, <5>1, <5>2
        <4>3. CASE b = a /\ n = N + 1
          <5>1. \A m \in 1..N : published[a][m] <= month
            BY <3>2 DEF MonthsInv
          <5>2. published'[b][n] = month
            BY <3>3, <4>3
          <5>3. \A m \in 1..n : m \in 1..N \/ m = N + 1
            BY <3>2, <4>3
          <5>4. ASSUME NEW m \in 1..n
                PROVE  published'[b][m] <= month
            <6>1. CASE m \in 1..N
              BY <3>3, <4>3, <5>1, <6>1
            <6>2. CASE m = N + 1
              BY <3>2, <3>3, <4>3, <6>2
            <6> QED
              BY <5>3, <6>1, <6>2
          <5> QED
            BY <3>2, <5>2, <5>4
        <4>4. b = a => n \in 1..N \/ n = N + 1
          <5>1. b = a => n \in 1..N + 1
            BY <3>3
          <5> QED
            BY <3>2, <5>1
        <4> QED
          BY <4>1, <4>2, <4>3, <4>4
      <3> QED
        BY <3>1, <3>2, <3>5, <3>6, <3>7, <3>8 DEF TypeInv
    <2>2. CASE NextMonth
      <3>1. published' = published /\ month' = month + 1 /\ month \in Nat
        BY <2>2 DEF NextMonth, TypeInv
      <3>2. MonthsInv'
        BY <3>1, Places DEF MonthsInv
      <3> QED
        BY <3>1, <3>2 DEF TypeInv
    <2> QED
      BY <2>1, <2>2
  <1>3. TypeInv'
    <2>1. UNCHANGED <<pc, at, clock, newest, head, tree, main, pr>>
      BY <1>1 DEF knife, repo
    <2>2. clock' \in 1..month'
      BY <1>2, <2>1, Places DEF TypeInv
    <2>3. \A a \in ArchiveSet : newest'[a] \in DOMAIN published'[a]
      BY <1>2, <2>1, Places DEF TypeInv
    <2>4. pc' = "lock" => tree'.manifests[at'.manifest] = newest'
      BY <2>1 DEF TypeInv
    <2>5. (Checkout(head))' /\ (Checkout(tree))' /\ (Checkout(main))' /\ (pr' # <<>> => (Checkout(pr))')
      BY <2>1 DEF TypeInv, Checkout
    <2>6. /\ pc' \in Working \cup {"idle", "gate", "licenses"}
          /\ at' \in [manifest : All, archive : 1..2] /\ newest' \in [ArchiveSet -> Nat]
      BY <2>1 DEF TypeInv
    <2> QED
      BY <1>2, <2>2, <2>3, <2>4, <2>5, <2>6 DEF TypeInv
  <1>4. LocksInv'
    <2>1. ASSUME NEW t, Reached(t)
          PROVE  (Reached(t))'
      BY <1>2, <2>1 DEF Reached
    <2>2. \A files : Behind(files) => (Behind(files))'
      BY <1>1, <1>2, BehindQuiet DEF knife, repo
    <2>3. (Resolved(tree))'
      <3>1. PICK f : f = tree
        OBVIOUS
      <3>2. Resolved(f) /\ f = tree'
        BY <1>1, <3>1 DEF LocksInv, repo
      <3>3. (Resolved(f))'
        BY <2>1, <3>2, ResolvedKept
      <3> QED
        BY <3>2, <3>3 DEF Resolved
    <2> QED
      BY <1>1, <2>1, <2>2, <2>3, LocksKept DEF repo
  <1>5. TablesInv'
    BY <1>1, TablesKept DEF knife, repo
  <1> QED
    BY <1>2, <1>3, <1>4, <1>5

\* A lock is not newer than itself.
LEMMA SameLocks ==
    ASSUME DebianAssumption, TypeInv, NEW files, Resolved(files)
    PROVE  \A i \in All : AtMost(files, files, i)
  <1> SUFFICES ASSUME NEW i \in All, NEW p \in Manifests[i].packages
               PROVE  files.locks[i][p] <= files.locks[i][p]
    BY DEF AtMost
  <1>1. PICK t : Reached(t) /\ files.locks[i] = Lock(i, t)
    BY DEF Resolved
  <1>2. Lock(i, t)[p] \in Nat
    BY <1>1, ReachedOffered, CandidateIsNewest DEF Lock
  <1> QED
    BY <1>1, <1>2

\* The end of a job, whatever it leaves in the pull request, if that is resolved,
\* in step and newer than main.
LEMMA EndStep ==
    ASSUME DebianAssumption, DebianInv, EndJob, UNCHANGED <<world, main>>,
           pr' # <<>> => /\ Checkout(pr') /\ Resolved(pr') /\ InStep(pr')
                         /\ \A i \in All : AtMost(main, pr', i)
    PROVE  DebianInv'
  <1> USE DEF DebianInv
  <1>1. /\ month' = month /\ published' = published /\ main' = main
        /\ pc' = "idle" /\ at' = [manifest |-> 1, archive |-> 1] /\ clock' = 1
        /\ newest' = [a \in ArchiveSet |-> 1] /\ head' = main /\ tree' = main
    BY DEF EndJob, world
  <1>2. TypeInv'
    <2>1. 1 \in All /\ month \in Nat \ {0}
      BY DEF DebianAssumption, All, TypeInv
    <2>2. \A a \in ArchiveSet : newest'[a] \in DOMAIN published'[a]
      BY <1>1, Places
    <2>3. at' \in [manifest : All, archive : 1..2]
      BY <1>1, <2>1
    <2>4. clock' \in 1..month' /\ newest' \in [ArchiveSet -> Nat]
      BY <1>1, <2>1
    <2>5. pc' \in Working \cup {"idle", "gate", "licenses"} /\ pc' # "lock"
      BY <1>1
    <2>6. (Checkout(head))' /\ (Checkout(tree))' /\ (Checkout(main))' /\ (pr' # <<>> => (Checkout(pr))')
      BY <1>1 DEF TypeInv, Checkout
    <2>7. /\ month' \in Nat \ {0} /\ published' \in [Sources -> Seq(Nat)]
          /\ \A a \in Sources : Len(published'[a]) \in 1..Len(Offers[a])
      BY <1>1 DEF TypeInv
    <2> QED
      BY <2>2, <2>3, <2>4, <2>5, <2>6, <2>7 DEF TypeInv
  <1>3. MonthsInv'
    BY <1>1 DEF MonthsInv
  <1>4. LocksInv'
    <2>1. Resolved(main)
      BY DEF LocksInv
    <2>2. ASSUME NEW files, Resolved(files)
          PROVE  (Resolved(files))'
      BY <1>1, <2>2, ResolvedKept DEF Reached
    <2>3. (Resolved(main))' /\ (Resolved(head))' /\ (Resolved(tree))'
      <3>1. PICK m : m = main
        OBVIOUS
      <3>2. (Resolved(m))' /\ m = main' /\ m = head' /\ m = tree'
        BY <1>1, <2>1, <2>2, <3>1
      <3> QED
        BY <3>2 DEF Resolved
    <2>4. pr' # <<>> => (Resolved(pr))'
      <3>1. PICK q : q = pr'
        OBVIOUS
      <3>2. q # <<>> => Resolved(q)
        BY <3>1
      <3>3. q # <<>> => (Resolved(q))'
        BY <2>2, <3>2
      <3> QED
        BY <3>1, <3>3 DEF Resolved
    <2>5. (Behind(main))' /\ (Behind(pr))'
      BY <1>1 DEF Behind, Working
    <2>6. \A i \in All : AtMost(main, main, i)
      BY SameLocks DEF LocksInv
    <2>7. (\A i \in All : AtMost(head, main, i) /\ (pr # <<>> => AtMost(main, pr, i)))'
      BY <1>1, <2>6 DEF AtMost
    <2> QED
      BY <2>3, <2>4, <2>5, <2>7 DEF LocksInv
  <1>5. TablesInv'
    BY <1>1 DEF TablesInv, InStep
  <1> QED
    BY <1>2, <1>3, <1>4, <1>5

\* A job that ends without a pull request of its own.
LEMMA EndEarly ==
    ASSUME DebianAssumption, DebianInv, EndJob, UNCHANGED <<world, main, pr>>
    PROVE  DebianInv'
  <1>1. pr' = pr
    OBVIOUS
  <1>2. pr # <<>> => /\ Checkout(pr) /\ Resolved(pr) /\ InStep(pr)
                     /\ \A i \in All : AtMost(main, pr, i)
    BY DEF DebianInv, TypeInv, LocksInv, TablesInv
  <1> QED
    BY <1>1, <1>2, EndStep

\* A job starts from what main has.
LEMMA StartStep ==
    ASSUME DebianAssumption, DebianInv, StartJob
    PROVE  DebianInv'
  <1> USE DEF DebianInv
  <1>1. /\ month' = month /\ published' = published /\ main' = main /\ pr' = pr /\ newest' = newest
        /\ Ask /\ at' = [manifest |-> 1, archive |-> 1] /\ head' = main /\ tree' = main
    BY DEF StartJob, world
  <1>2. pc' = "this" /\ clock' = month
    BY <1>1 DEF Ask
  <1>3. 1 \in All /\ month \in Nat \ {0}
    BY DEF DebianAssumption, All, TypeInv
  <1>4. TypeInv'
    <2>1. at' \in [manifest : All, archive : 1..2]
      BY <1>1, <1>3
    <2>2. clock' \in 1..month'
      BY <1>1, <1>2, <1>3
    <2>3. pc' \in Working \cup {"idle", "gate", "licenses"} /\ pc' # "lock"
      BY <1>2 DEF Working
    <2>4. (Checkout(head))' /\ (Checkout(tree))' /\ (Checkout(main))' /\ (pr' # <<>> => (Checkout(pr))')
      BY <1>1 DEF TypeInv, Checkout
    <2>5. /\ month' \in Nat \ {0} /\ published' \in [Sources -> Seq(Nat)]
          /\ \A a \in Sources : Len(published'[a]) \in 1..Len(Offers[a])
          /\ newest' \in [ArchiveSet -> Nat] /\ \A a \in ArchiveSet : newest'[a] \in DOMAIN published'[a]
      BY <1>1 DEF TypeInv
    <2> QED
      BY <2>1, <2>2, <2>3, <2>4, <2>5 DEF TypeInv
  <1>5. MonthsInv'
    BY <1>1 DEF MonthsInv
  <1>6. LocksInv'
    <2>1. ASSUME NEW files, Resolved(files)
          PROVE  (Resolved(files))' /\ (Behind(files))'
      <3>1. (Resolved(files))'
        BY <1>1, <2>1, ResolvedKept DEF Reached
      <3>2. at'.archive = 1 /\ at'.manifest = 1 /\ \A i \in All : ~ (i < 1)
        BY <1>1 DEF DebianAssumption, All
      <3>3. (Behind(files))'
        BY <1>1, <1>3, <2>1, <3>2, BehindAsk
      <3> QED
        BY <3>1, <3>3
    <2>2. (Resolved(main))' /\ (Resolved(head))' /\ (Resolved(tree))' /\ (Behind(main))'
      <3>1. PICK m : m = main
        OBVIOUS
      <3>2. Resolved(m)
        BY <3>1 DEF LocksInv
      <3>3. (Resolved(m))' /\ (Behind(m))' /\ m = main' /\ m = head' /\ m = tree'
        BY <1>1, <2>1, <3>1, <3>2
      <3> QED
        BY <3>3 DEF Resolved, Behind, AtMost
    <2>3. pr' # <<>> => (Resolved(pr))' /\ (Behind(pr))'
      <3>1. PICK q : q = pr
        OBVIOUS
      <3>2. q # <<>> => Resolved(q)
        BY <3>1 DEF LocksInv
      <3>3. q # <<>> => (Resolved(q))' /\ (Behind(q))'
        BY <2>1, <3>2
      <3>4. q = pr'
        BY <1>1, <3>1
      <3> QED
        BY <3>3, <3>4 DEF Resolved, Behind, AtMost
    <2>4. \A i \in All : AtMost(main, main, i)
      BY SameLocks DEF LocksInv
    <2>5. (\A i \in All : AtMost(head, main, i) /\ (pr # <<>> => AtMost(main, pr, i)))'
      BY <1>1, <2>4 DEF AtMost, LocksInv
    <2> QED
      BY <2>2, <2>3, <2>5 DEF LocksInv
  <1>7. TablesInv'
    BY <1>1, <1>2 DEF TablesInv, InStep
  <1> QED
    BY <1>4, <1>5, <1>6, <1>7

\* Indexes are read and the timestamps written.
LEMMA FetchStep ==
    ASSUME DebianAssumption, DebianInv, ThisMonth \/ LastMonth \/ Write, pc' # "idle"
    PROVE  DebianInv'
  <1> USE DEF DebianInv
  <1>1. UNCHANGED <<month, published, head, main, pr>>
    <2>1. CASE ThisMonth
      BY <2>1, Zenon DEF ThisMonth, Found, world
    <2>2. CASE LastMonth
      BY <2>2, Zenon DEF LastMonth, Found, EndJob, world
    <2>3. CASE Write
      BY <2>3, Zenon DEF Write, world
    <2> QED
      BY <2>1, <2>2, <2>3
  <1>2. clock \in Nat /\ clock \in 1..month /\ month \in Nat \ {0} /\ at \in [manifest : All, archive : 1..2]
    BY DEF TypeInv
  <1>3. /\ pc' \in Working \cup {"idle", "gate", "licenses"}
        /\ at' \in [manifest : All, archive : 1..2] /\ clock' \in 1..month'
        /\ newest' \in [ArchiveSet -> Nat] /\ \A a \in ArchiveSet : newest'[a] \in DOMAIN published'[a]
        /\ tree'.locks = tree.locks /\ (Checkout(tree))'
        /\ pc' = "lock" => tree'.manifests[at'.manifest] = newest'
    <2>1. ASSUME NEW n \in DOMAIN published[Here], Found(n)
          PROVE  <1>3!:
      <3>1. newest' = [newest EXCEPT ![Here] = n] /\ tree' = tree
        BY <2>1 DEF Found
      <3>2. n \in Nat /\ Here \in ArchiveSet
        BY Places
      <3>3. newest' \in [ArchiveSet -> Nat] /\ \A a \in ArchiveSet : newest'[a] \in DOMAIN published'[a]
        BY <1>1, <3>1, <3>2 DEF TypeInv
      <3>4. /\ at.archive < 2 => at' = [at EXCEPT !.archive = at.archive + 1] /\ pc' = "this" /\ clock' = month
            /\ ~ (at.archive < 2) => pc' = "write" /\ at' = at /\ clock' = clock
        <4>1. Len(Archives) = 2
          BY Places
        <4> QED
          BY <2>1, <4>1, Zenon DEF Found, Ask
      <3>5. at' \in [manifest : All, archive : 1..2] /\ clock' \in 1..month'
        <4>1. CASE at.archive < 2
          BY <1>1, <1>2, <3>4, <4>1
        <4>2. CASE ~ (at.archive < 2)
          BY <1>1, <1>2, <3>4, <4>2
        <4> QED
          BY <4>1, <4>2
      <3>6. pc' \in Working /\ pc' # "lock"
        BY <3>4 DEF Working
      <3>7. (Checkout(tree))'
        BY <3>1 DEF TypeInv, Checkout
      <3> QED
        BY <3>1, <3>3, <3>5, <3>6, <3>7
    <2>2. ASSUME NEW m \in Nat, FetchMonth(Here, m) # 0
          PROVE  FetchMonth(Here, m) \in DOMAIN published[Here]
      BY <2>2, Places, FetchedLast
    <2>3. CASE ThisMonth /\ FetchMonth(Here, clock) # 0
      <3>1. Found(FetchMonth(Here, clock))
        BY <2>3 DEF ThisMonth
      <3> QED
        BY <1>2, <2>1, <2>2, <2>3, <3>1, Zenon
    <2>4. CASE ThisMonth /\ FetchMonth(Here, clock) = 0
      <3>1. pc' = "last" /\ UNCHANGED <<at, clock, newest, tree>>
        BY <2>4 DEF ThisMonth
      <3> QED
        BY <1>1, <3>1 DEF TypeInv, Working, Checkout
    <2>5. CASE LastMonth
      <3>1. Found(FetchMonth(Here, clock - 1)) /\ FetchMonth(Here, clock - 1) # 0
        BY <2>5 DEF LastMonth, EndJob
      <3>2. clock - 1 \in Nat
        BY <1>2
      <3> QED
        BY <2>1, <2>2, <3>1, <3>2, Zenon
    <2>6. CASE Write
      <3>1. /\ tree' = [tree EXCEPT !.manifests[at.manifest] = newest] /\ pc' = "lock"
            /\ UNCHANGED <<at, clock, newest>>
        BY <2>6 DEF Write
      <3>2. Checkout(tree) /\ at.manifest \in All /\ newest \in [ArchiveSet -> Nat]
        BY DEF TypeInv
      <3>3. /\ tree'.manifests = [tree.manifests EXCEPT ![at.manifest] = newest]
            /\ tree'.locks = tree.locks /\ tree'.licenses = tree.licenses
            /\ tree' = [manifests |-> tree'.manifests, locks |-> tree'.locks, licenses |-> tree'.licenses]
        BY <3>1, <3>2 DEF Checkout
      <3>4. tree'.manifests \in [All -> [ArchiveSet -> Nat]] /\ tree'.manifests[at.manifest] = newest
        BY <3>2, <3>3 DEF Checkout
      <3>5. tree'.locks = [i \in All |-> tree'.locks[i]]
        BY <3>2, <3>3 DEF Checkout
      <3>6. (Checkout(tree))'
        BY <3>3, <3>4, <3>5 DEF Checkout
      <3> QED
        BY <1>1, <3>1, <3>3, <3>4, <3>6 DEF TypeInv, Working
    <2> QED
      BY <2>3, <2>4, <2>5, <2>6
  <1>4. TypeInv'
    <2>1. (Checkout(head))' /\ (Checkout(main))' /\ (pr' # <<>> => (Checkout(pr))')
      BY <1>1 DEF TypeInv, Checkout
    <2>2. /\ month' \in Nat \ {0} /\ published' \in [Sources -> Seq(Nat)]
          /\ \A a \in Sources : Len(published'[a]) \in 1..Len(Offers[a])
      BY <1>1 DEF TypeInv
    <2> QED
      BY <1>3, <2>1, <2>2 DEF TypeInv
  <1>5. MonthsInv'
    BY <1>1 DEF MonthsInv
  <1>6. LocksInv'
    <2>1. \A t : Reached(t) => (Reached(t))'
      BY <1>1 DEF Reached
    <2>2. (Resolved(tree))'
      <3>1. PICK f : f = tree
        OBVIOUS
      <3>2. (Resolved(f))'
        BY <2>1, <3>1, ResolvedKept DEF LocksInv
      <3>3. f.locks = tree'.locks
        BY <1>3, <3>1
      <3> QED
        BY <3>2, <3>3 DEF Resolved
    <2>3. \A files : Behind(files) => (Behind(files))'
      BY BehindFetch
    <2> QED
      BY <1>1, <2>1, <2>2, <2>3, LocksKept
  <1>7. TablesInv'
    <2>1. pc' # "licenses"
      <3>1. pc' \in {"this", "last", "write", "lock"}
        <4>1. CASE ThisMonth
          BY <4>1, Zenon DEF ThisMonth, Found, Ask
        <4>2. CASE LastMonth
          BY <4>2, Zenon DEF LastMonth, Found, Ask, EndJob
        <4>3. CASE Write
          BY <4>3, Zenon DEF Write
        <4> QED
          BY <4>1, <4>2, <4>3
      <3> QED
        BY <3>1
    <2> QED
      BY <1>1, <2>1, TablesKept
  <1> QED
    BY <1>4, <1>5, <1>6, <1>7

\* A manifest is locked, and the next one's archives are asked, or it was the last.
LEMMA LockStep ==
    ASSUME DebianAssumption, DebianInv, RunLock
    PROVE  DebianInv'
  <1> USE DEF DebianInv
  <1> DEFINE i == at.manifest
             now == Pinned(tree.manifests[i])
             N == Len(Manifests)
  <1>1. /\ pc = "lock" /\ tree' = [tree EXCEPT !.locks[i] = Lock(i, now)]
        /\ UNCHANGED <<month, published, newest, head, main, pr>>
    BY DEF RunLock, world
  <1>2. /\ i < N => at' = [manifest |-> i + 1, archive |-> 1] /\ Ask
        /\ ~ (i < N) => pc' = "gate" /\ at' = at /\ clock' = clock
    BY Zenon DEF RunLock
  <1>3. i \in All /\ All = 1..N /\ N \in Nat \ {0} /\ Checkout(tree)
    BY Places DEF TypeInv
  <1>4. /\ tree'.manifests = tree.manifests /\ tree'.locks = [tree.locks EXCEPT ![i] = Lock(i, now)]
        /\ tree' = [manifests |-> tree'.manifests, locks |-> tree'.locks, licenses |-> tree'.licenses]
    BY <1>1, <1>3 DEF Checkout
  <1>5. /\ tree'.locks[i] = Lock(i, now) /\ \A k \in All : k # i => tree'.locks[k] = tree.locks[k]
        /\ tree'.locks = [k \in All |-> tree'.locks[k]]
    BY <1>3, <1>4 DEF Checkout
  <1> HIDE DEF now
  <1>6. TypeInv'
    <2>1. (Checkout(tree))'
      BY <1>3, <1>4, <1>5 DEF Checkout
    <2>2. (Checkout(head))' /\ (Checkout(main))' /\ (pr' # <<>> => (Checkout(pr))')
      BY <1>1 DEF TypeInv, Checkout
    <2>3. /\ month' \in Nat \ {0} /\ published' \in [Sources -> Seq(Nat)]
          /\ \A a \in Sources : Len(published'[a]) \in 1..Len(Offers[a])
          /\ newest' \in [ArchiveSet -> Nat] /\ \A a \in ArchiveSet : newest'[a] \in DOMAIN published'[a]
      BY <1>1 DEF TypeInv
    <2>4. month \in Nat \ {0} /\ clock \in 1..month /\ at \in [manifest : All, archive : 1..2]
      BY DEF TypeInv
    <2>5. /\ pc' \in Working \cup {"idle", "gate", "licenses"} /\ pc' # "lock"
          /\ at' \in [manifest : All, archive : 1..2] /\ clock' \in 1..month'
      <3>1. CASE i < N
        <4>1. i + 1 \in All
          BY <1>3, <3>1
        <4>2. at' \in [manifest : All, archive : 1..2]
          BY <1>2, <3>1, <4>1
        <4>3. pc' = "this" /\ clock' = month
          BY <1>2, <3>1 DEF Ask
        <4> QED
          BY <1>1, <2>4, <4>2, <4>3 DEF Working
      <3>2. CASE ~ (i < N)
        <4>1. pc' = "gate" /\ at' = at /\ clock' = clock
          BY <1>2, <3>2
        <4> QED
          BY <1>1, <2>4, <4>1
      <3> QED
        BY <3>1, <3>2
    <2> QED
      BY <2>1, <2>2, <2>3, <2>5 DEF TypeInv
  <1>7. MonthsInv'
    BY <1>1 DEF MonthsInv
  <1>8. \A t : Reached(t) => (Reached(t))'
    BY <1>1 DEF Reached
  <1>9. ASSUME NEW files, Resolved(files), Behind(files)
        PROVE  (Behind(files))'
    <2>1. PICK t : Reached(t) /\ files.locks[i] = Lock(i, t) /\ Before(t)
      BY <1>1, <1>3, <1>9 DEF Behind, Working
    <2>2. \A p \in Manifests[i].packages : files.locks[i][p] <= tree'.locks[i][p]
      BY <1>1, <1>5, <2>1, LockedLater DEF now
    <2>3. \A k \in All : k < i => AtMost(files, tree, k)
      BY <1>1, <1>9 DEF Behind, Working
    <2>4. \A k \in All : k <= i => \A p \in Manifests[k].packages : files.locks[k][p] <= tree'.locks[k][p]
      <3> SUFFICES ASSUME NEW k \in All, k <= i, NEW p \in Manifests[k].packages
                   PROVE  files.locks[k][p] <= tree'.locks[k][p]
        OBVIOUS
      <3>1. CASE k = i
        BY <2>2, <3>1
      <3>2. CASE k < i
        <4>1. tree'.locks[k] = tree.locks[k]
          BY <1>3, <1>5, <3>2
        <4> QED
          BY <2>3, <3>2, <4>1 DEF AtMost
      <3> QED
        BY <1>3, <3>1, <3>2
    <2>5. CASE i < N
      <3>1. Ask /\ at'.archive = 1 /\ at'.manifest = i + 1
        BY <1>2, <2>5
      <3>2. at'.manifest \in All
        BY <1>3, <2>5, <3>1
      <3>3. \A k \in All : k < at'.manifest => k <= i
        BY <1>3, <3>1
      <3>4. \A k \in All : k < at'.manifest => (AtMost(files, tree, k))'
        BY <2>4, <3>3 DEF AtMost
      <3> QED
        BY <1>1, <1>9, <3>1, <3>2, <3>4, BehindAsk
    <2>6. CASE ~ (i < N)
      <3>1. \A k \in All : k <= i
        BY <1>3, <2>6
      <3>2. pc' = "gate"
        BY <1>2, <2>6
      <3> QED
        BY <2>4, <3>1, <3>2 DEF Behind, Working, AtMost
    <2> QED
      BY <2>5, <2>6
  <1>10. LocksInv'
    <2>1. (Resolved(tree))'
      <3> SUFFICES ASSUME NEW k \in All
                   PROVE  \E t : (Reached(t))' /\ tree'.locks[k] = Lock(k, t)
        BY DEF Resolved, Lock, Candidate
      <3>1. CASE k = i
        <4>1. PICK t : Reached(t) /\ Before(t)
          BY <1>1, <1>3 DEF LocksInv, Behind, Working
        <4>2. PICK s : s = now
          OBVIOUS
        <4>3. Reached(s)
          BY <1>1, <4>1, <4>2, LockedLater DEF now
        <4>4. (Reached(s))'
          BY <1>8, <4>3
        <4> QED
          BY <1>5, <3>1, <4>2, <4>4
      <3>2. CASE k # i
        <4>1. PICK t : Reached(t) /\ tree.locks[k] = Lock(k, t)
          BY DEF LocksInv, Resolved
        <4>2. (Reached(t))'
          BY <1>8, <4>1
        <4> QED
          BY <1>5, <3>2, <4>1, <4>2
      <3> QED
        BY <3>1, <3>2
    <2> QED
      BY <1>1, <1>8, <1>9, <2>1, LocksKept
  <1>11. TablesInv'
    <2>1. pc' # "licenses"
      BY <1>2 DEF Ask
    <2> QED
      BY <1>1, <2>1, TablesKept
  <1> QED
    BY <1>6, <1>7, <1>10, <1>11

\* Steps that touch neither the archives nor what is locked, but for the table.
LEMMA QuietStep ==
    ASSUME DebianAssumption, DebianInv,
           UNCHANGED <<month, published, at, clock, newest, head, tree, main, pr>>,
           \/ pc \in {"gate", "licenses"} /\ pc' = "licenses"
           \/ pc' = pc,
           TablesInv'
    PROVE  DebianInv'
  <1> USE DEF DebianInv
  <1>1. TypeInv'
    BY DEF TypeInv, Working, Checkout
  <1>2. MonthsInv'
    BY DEF MonthsInv
  <1>3. \A t : Reached(t) => (Reached(t))'
    BY DEF Reached
  <1>4. \A files : Behind(files) => (Behind(files))'
    <2> SUFFICES ASSUME NEW files, Behind(files)
                 PROVE  (Behind(files))'
      OBVIOUS
    <2>1. CASE pc' = pc
      BY <2>1, BehindQuiet
    <2>2. CASE pc \in {"gate", "licenses"} /\ pc' = "licenses"
      <3>1. \A i \in All : AtMost(files, tree, i)
        BY <2>2 DEF Behind
      <3> QED
        BY <2>2, <3>1 DEF Behind, Working, AtMost
    <2> QED
      BY <2>1, <2>2
  <1>5. (Resolved(tree))'
    <2>1. PICK f : f = tree
      OBVIOUS
    <2>2. (Resolved(f))' /\ f = tree'
      BY <1>3, <2>1, ResolvedKept DEF LocksInv
    <2> QED
      BY <2>2 DEF Resolved
  <1>6. LocksInv'
    BY <1>3, <1>4, <1>5, LocksKept
  <1> QED
    BY <1>1, <1>2, <1>6

\* The licences are read, of all that is locked and as it is locked.
LEMMA LicensesStep ==
    ASSUME DebianAssumption, DebianInv,
           Licenses \/ \E p \in Names : Take(p) \/ Resolve(p) \/ NextURL(p) \/ WrongDigest(p)
    PROVE  DebianInv'
  <1>1. /\ UNCHANGED <<month, published, at, clock, newest, head, tree, main, pr>>
        /\ pc' = "licenses"
        /\ pc \in {"gate", "licenses"}
    BY DEF Licenses, Take, Resolve, NextURL, WrongDigest, world, repo
  <1>2. /\ downloads' = [todo |-> downloads'.todo, url |-> downloads'.url,
                         resolved |-> downloads'.resolved, failed |-> downloads'.failed]
        /\ downloads'.todo \cup DOMAIN downloads'.url \cup DOMAIN downloads'.resolved
              \cup downloads'.failed = Names
        /\ \A p \in DOMAIN downloads'.resolved, j \in All :
              First(j, p) => downloads'.resolved[p] = tree.locks[j][p]
    <2>1. CASE Licenses
      <3>1. downloads' = [todo |-> Names, url |-> <<>>, resolved |-> <<>>, failed |-> {}]
        BY <2>1 DEF Licenses
      <3> QED
        BY <3>1
    <2>2. ASSUME NEW p \in Names, Take(p) \/ Resolve(p) \/ NextURL(p) \/ WrongDigest(p)
          PROVE  <1>2!:
      <3> DEFINE d == downloads
      <3>1. /\ d = [todo |-> d.todo, url |-> d.url, resolved |-> d.resolved, failed |-> d.failed]
            /\ d.todo \cup DOMAIN d.url \cup DOMAIN d.resolved \cup d.failed = Names
            /\ \A q \in DOMAIN d.resolved, j \in All :
                  First(j, q) => d.resolved[q] = tree.locks[j][q]
        BY <2>2 DEF DebianInv, TablesInv, Take, Resolve, NextURL, WrongDigest
      <3>2. CASE Take(p)
        <4>1. /\ downloads' = [d EXCEPT !.todo = d.todo \ {p}, !.url = With(d.url, p, 1)]
              /\ p \in d.todo
          BY <3>2 DEF Take
        <4>2. DOMAIN With(d.url, p, 1) = DOMAIN d.url \cup {p}
          BY DEF With
        <4>3. /\ downloads'.todo = d.todo \ {p} /\ downloads'.url = With(d.url, p, 1)
              /\ downloads'.resolved = d.resolved /\ downloads'.failed = d.failed
              /\ downloads' = [todo |-> downloads'.todo, url |-> downloads'.url,
                               resolved |-> downloads'.resolved, failed |-> downloads'.failed]
          BY <3>1, <4>1
        <4> QED
          BY <3>1, <4>1, <4>2, <4>3
      <3>3. CASE Resolve(p)
        <4>1. /\ downloads' = [d EXCEPT !.url = Without(d.url, p),
                                        !.resolved = With(d.resolved, p, Unique(tree.locks)[p])]
          BY <3>3 DEF Resolve
        <4>2. /\ DOMAIN Without(d.url, p) = DOMAIN d.url \ {p}
              /\ DOMAIN With(d.resolved, p, Unique(tree.locks)[p]) = DOMAIN d.resolved \cup {p}
              /\ With(d.resolved, p, Unique(tree.locks)[p])[p] = Unique(tree.locks)[p]
              /\ \A q \in DOMAIN d.resolved :
                    q # p => With(d.resolved, p, Unique(tree.locks)[p])[q] = d.resolved[q]
          BY DEF With, Without
        <4>3. /\ downloads'.todo = d.todo /\ downloads'.url = Without(d.url, p)
              /\ downloads'.resolved = With(d.resolved, p, Unique(tree.locks)[p])
              /\ downloads'.failed = d.failed
              /\ downloads' = [todo |-> downloads'.todo, url |-> downloads'.url,
                               resolved |-> downloads'.resolved, failed |-> downloads'.failed]
          BY <3>1, <4>1
        <4>4. \A j \in All : First(j, p) => Unique(tree.locks)[p] = tree.locks[j][p]
          BY FirstManifest DEF DebianInv, TypeInv
        <4> QED
          BY <3>1, <4>2, <4>3, <4>4
      <3>4. CASE NextURL(p) \/ WrongDigest(p)
        <4>1. \/ downloads' = [d EXCEPT !.url[p] = d.url[p] + 1]
              \/ downloads' = [d EXCEPT !.url = Without(d.url, p), !.failed = d.failed \cup {p}]
          BY <3>4 DEF NextURL, WrongDigest
        <4>2. DOMAIN Without(d.url, p) = DOMAIN d.url \ {p}
          BY DEF Without
        <4>3. CASE downloads' = [d EXCEPT !.url[p] = d.url[p] + 1]
          <5>1. /\ downloads'.todo = d.todo /\ downloads'.url = [d.url EXCEPT ![p] = d.url[p] + 1]
                /\ downloads'.resolved = d.resolved /\ downloads'.failed = d.failed
                /\ downloads' = [todo |-> downloads'.todo, url |-> downloads'.url,
                                 resolved |-> downloads'.resolved, failed |-> downloads'.failed]
            BY <3>1, <4>3
          <5>2. DOMAIN downloads'.url = DOMAIN d.url
            BY <5>1
          <5> QED
            BY <3>1, <5>1, <5>2
        <4>4. CASE downloads' = [d EXCEPT !.url = Without(d.url, p), !.failed = d.failed \cup {p}]
          <5>1. /\ downloads'.todo = d.todo /\ downloads'.url = Without(d.url, p)
                /\ downloads'.resolved = d.resolved /\ downloads'.failed = d.failed \cup {p}
                /\ downloads' = [todo |-> downloads'.todo, url |-> downloads'.url,
                                 resolved |-> downloads'.resolved, failed |-> downloads'.failed]
            BY <3>1, <4>4
          <5> QED
            BY <3>1, <4>2, <5>1
        <4> QED
          BY <4>1, <4>3, <4>4
      <3> QED
        BY <2>2, <3>2, <3>3, <3>4
    <2> QED
      BY <2>1, <2>2
  <1>3. TablesInv'
    <2>1. (InStep(head))' /\ (InStep(main))' /\ (pr' # <<>> => (InStep(pr))')
      BY <1>1 DEF DebianInv, TablesInv, InStep
    <2> QED
      BY <1>1, <1>2, <2>1 DEF TablesInv
  <1> QED
    BY <1>1, <1>3, QuietStep

\* The pull request of a job: locks from the checkout or from main, and the table
\* merged package by package.  A lock of the checkout whose version of a package
\* is still the one that the job started from has main's too, since main lies
\* between the two.
LEMMA ProposedInStep ==
    ASSUME DebianAssumption, DebianInv, pc = "licenses",
           downloads.todo = {}, DOMAIN downloads.url = {}, downloads.failed = {},
           NEW new, new = Proposed([tree EXCEPT !.licenses = downloads.resolved]), new # <<>>
    PROVE  /\ Checkout(new) /\ Resolved(new) /\ InStep(new)
           /\ \A i \in All : AtMost(main, new, i)
  <1> USE DEF DebianInv
  <1> DEFINE table == downloads.resolved
             files == [tree EXCEPT !.licenses = table]
  <1>1. /\ Checkout(head) /\ Checkout(tree) /\ Checkout(main)
    BY DEF TypeInv
  <1>2. /\ files.manifests = tree.manifests /\ files.locks = tree.locks /\ files.licenses = table
    BY <1>1 DEF Checkout
  <1>3. DOMAIN table = Names
    BY DEF TablesInv
  <1>4. /\ DOMAIN tree.manifests = All /\ DOMAIN tree.locks = All
    BY <1>1 DEF Checkout
  <1> DEFINE manifests == [x \in All |-> IF tree.manifests[x] # head.manifests[x]
                                         THEN tree.manifests[x] ELSE main.manifests[x]]
             locks == [x \in All |-> IF tree.locks[x] # head.locks[x]
                                     THEN tree.locks[x] ELSE main.locks[x]]
             licenses == [x \in Names |-> IF table[x] # head.licenses[x]
                                          THEN table[x] ELSE main.licenses[x]]
  <1>5. new = [manifests |-> manifests, locks |-> locks, licenses |-> licenses]
    <2>1. Proposed(files) # <<>>
      OBVIOUS
    <2> HIDE DEF files
    <2>2. new = [manifests |-> [x \in DOMAIN files.manifests |->
                                   IF files.manifests[x] # head.manifests[x]
                                   THEN files.manifests[x] ELSE main.manifests[x]],
                 locks |-> [x \in DOMAIN files.locks |->
                                   IF files.locks[x] # head.locks[x]
                                   THEN files.locks[x] ELSE main.locks[x]],
                 licenses |-> [x \in DOMAIN files.licenses |->
                                   IF files.licenses[x] # head.licenses[x]
                                   THEN files.licenses[x] ELSE main.licenses[x]]]
      BY <2>1, Zenon DEF Proposed, files
    <2> QED
      BY <1>2, <1>3, <1>4, <2>2
  <1>6. new.manifests = manifests /\ new.locks = locks /\ new.licenses = licenses
    BY <1>5
  <1>7. \A i \in All : AtMost(head, main, i) /\ AtMost(main, tree, i)
    BY DEF LocksInv, Behind
  <1>8. Checkout(new)
    <2>1. manifests \in [All -> [ArchiveSet -> Nat]]
      BY <1>1 DEF Checkout
    <2>2. locks = [i \in All |-> locks[i]]
      OBVIOUS
    <2> HIDE DEF manifests, locks, licenses
    <2> QED
      BY <1>5, <1>6, <2>1, <2>2 DEF Checkout
  <1>9. Resolved(new)
    BY <1>6 DEF Resolved, LocksInv
  <1>10. \A i \in All : AtMost(main, new, i)
    <2>1. \A i \in All : AtMost(main, main, i)
      BY SameLocks DEF LocksInv
    <2> QED
      BY <1>6, <1>7, <2>1 DEF AtMost
  <1>11. InStep(new)
    <2>1. ASSUME NEW p \in Names, NEW j \in All, First(j, p)
          PROVE  licenses[p] = locks[j][p]
      <3>1. /\ table[p] = tree.locks[j][p] /\ head.licenses[p] = head.locks[j][p]
            /\ main.licenses[p] = main.locks[j][p]
        BY <1>3, <2>1 DEF TablesInv, InStep
      <3>2. p \in Manifests[j].packages
        BY <2>1 DEF First
      <3>3. /\ head.locks[j][p] \in Nat /\ main.locks[j][p] \in Nat /\ tree.locks[j][p] \in Nat
        <4>1. ASSUME NEW f, Resolved(f)
              PROVE  f.locks[j][p] \in Nat
          <5>1. PICK t : Reached(t) /\ f.locks[j] = Lock(j, t)
            BY <4>1 DEF Resolved
          <5> QED
            BY <3>2, <5>1, ReachedOffered, CandidateIsNewest DEF Lock
        <4> QED
          BY <4>1 DEF LocksInv
      <3>4. head.locks[j][p] <= main.locks[j][p] /\ main.locks[j][p] <= tree.locks[j][p]
        BY <1>7, <3>2 DEF AtMost
      <3>5. CASE tree.locks[j][p] # head.locks[j][p]
        BY <3>1, <3>5
      <3>6. CASE tree.locks[j][p] = head.locks[j][p]
        <4>1. main.locks[j][p] = tree.locks[j][p]
          BY <3>3, <3>4, <3>6
        <4> QED
          BY <3>1, <3>6, <4>1
      <3> QED
        BY <3>5, <3>6
    <2>2. licenses = [p \in Names |-> licenses[p]]
      OBVIOUS
    <2> HIDE DEF licenses, locks
    <2> QED
      BY <1>6, <2>1, <2>2 DEF InStep
  <1> QED
    BY <1>8, <1>9, <1>10, <1>11

\* The job ends with a pull request, or with an error.
LEMMA FinishStep ==
    ASSUME DebianAssumption, DebianInv, Finish
    PROVE  DebianInv'
  <1>1. /\ pc = "licenses" /\ downloads.todo = {} /\ DOMAIN downloads.url = {}
        /\ pr' = IF Table = <<>> THEN pr ELSE Proposed([tree EXCEPT !.licenses = Table])
        /\ EndJob /\ UNCHANGED <<world, main>>
    BY DEF Finish
  <1>2. CASE pr' = pr
    BY <1>1, <1>2, EndEarly
  <1>3. CASE pr' # pr
    <2>1. downloads.failed = {} /\ Table = downloads.resolved
      BY <1>1, <1>3 DEF Table
    <2>2. pr' = Proposed([tree EXCEPT !.licenses = downloads.resolved])
      BY <1>1, <1>3, <2>1
    <2>3. PICK new : new = pr'
      OBVIOUS
    <2>4. new # <<>> => /\ Checkout(new) /\ Resolved(new) /\ InStep(new)
                        /\ \A i \in All : AtMost(main, new, i)
      BY <1>1, <2>1, <2>2, <2>3, ProposedInStep
    <2> QED
      BY <1>1, <2>3, <2>4, EndStep
  <1> QED
    BY <1>2, <1>3

\* Main takes the pull request, which is newer than what it had.
LEMMA MergeStep ==
    ASSUME DebianAssumption, DebianInv, Merge
    PROVE  DebianInv'
  <1> USE DEF DebianInv
  <1>1. /\ pr # <<>> /\ main' = pr /\ pr' = <<>>
        /\ UNCHANGED <<month, published, pc, at, clock, newest, downloads>>
        /\ \/ pc = "idle" /\ head' = pr /\ tree' = pr
           \/ pc # "idle" /\ head' = head /\ tree' = tree
    BY DEF Merge, world, knife
  <1>2. Checkout(pr) /\ Resolved(pr) /\ Behind(pr) /\ InStep(pr)
        /\ \A i \in All : AtMost(head, main, i) /\ AtMost(main, pr, i)
    BY <1>1 DEF TypeInv, LocksInv, TablesInv
  <1>3. TypeInv'
    <2>1. (Checkout(main))' /\ (Checkout(head))' /\ (Checkout(tree))'
      BY <1>1, <1>2 DEF TypeInv, Checkout
    <2>2. pc' = "lock" => tree'.manifests[at'.manifest] = newest'
      BY <1>1 DEF TypeInv
    <2> QED
      BY <1>1, <2>1, <2>2 DEF TypeInv
  <1>4. MonthsInv'
    BY <1>1 DEF MonthsInv
  <1>5. \A t : Reached(t) => (Reached(t))'
    BY <1>1 DEF Reached
  <1>6. (Resolved(head))' /\ (Resolved(tree))' /\ (Resolved(main))'
    <2>1. PICK q : q = pr
      OBVIOUS
    <2>2. PICK h : h = head
      OBVIOUS
    <2>3. PICK f : f = tree
      OBVIOUS
    <2>4. (Resolved(q))' /\ (Resolved(h))' /\ (Resolved(f))'
      BY <1>2, <1>5, <2>1, <2>2, <2>3, ResolvedKept DEF LocksInv
    <2>5. /\ q = main' /\ head' \in {h, q} /\ tree' \in {f, q}
      BY <1>1, <2>1, <2>2, <2>3
    <2>6. CASE head' = h /\ tree' = f
      BY <2>4, <2>5, <2>6 DEF Resolved
    <2>7. CASE head' = q /\ tree' = q
      BY <2>4, <2>5, <2>7 DEF Resolved
    <2> QED
      BY <1>1, <2>1, <2>2, <2>3, <2>6, <2>7
  <1>7. (Behind(main))'
    <2>1. CASE pc = "idle"
      BY <1>1, <2>1 DEF Behind, Working
    <2>2. CASE pc # "idle"
      <3>1. tree' = tree
        BY <1>1, <2>2
      <3>2. PICK q : q = pr
        OBVIOUS
      <3>3. (Behind(q))' /\ q = main'
        BY <1>1, <1>2, <3>1, <3>2, BehindQuiet
      <3> QED
        BY <3>3 DEF Behind, AtMost
    <2> QED
      BY <2>1, <2>2
  <1>8. \A i \in All : (AtMost(head, main, i))'
    <2>1. CASE head' = pr
      <3>1. \A i \in All : AtMost(pr, pr, i)
        BY <1>2, SameLocks
      <3> QED
        BY <1>1, <2>1, <3>1 DEF AtMost
    <2>2. CASE head' = head
      <3> SUFFICES ASSUME NEW i \in All, NEW p \in Manifests[i].packages
                   PROVE  head.locks[i][p] <= pr.locks[i][p]
        BY <1>1, <2>2 DEF AtMost
      <3>1. head.locks[i][p] <= main.locks[i][p] /\ main.locks[i][p] <= pr.locks[i][p]
        BY <1>2 DEF AtMost
      <3>2. ASSUME NEW f, Resolved(f)
            PROVE  f.locks[i][p] \in Nat
        <4>1. PICK t : Reached(t) /\ f.locks[i] = Lock(i, t)
          BY <3>2 DEF Resolved
        <4> QED
          BY <4>1, ReachedOffered, CandidateIsNewest DEF Lock
      <3>3. head.locks[i][p] \in Nat /\ main.locks[i][p] \in Nat /\ pr.locks[i][p] \in Nat
        BY <1>2, <3>2 DEF LocksInv
      <3> QED
        BY <3>1, <3>3
    <2> QED
      BY <1>1, <2>1, <2>2
  <1>9. LocksInv'
    BY <1>1, <1>6, <1>7, <1>8 DEF LocksInv
  <1>10. TablesInv'
    <2>1. (InStep(main))' /\ (InStep(head))'
      BY <1>1, <1>2 DEF TablesInv, InStep
    <2>2. CASE pc' = "licenses"
      <3>1. tree' = tree /\ downloads' = downloads /\ pc = "licenses"
        BY <1>1, <2>2
      <3> QED
        BY <1>1, <2>1, <3>1 DEF TablesInv
    <2>3. CASE pc' # "licenses"
      BY <1>1, <2>1, <2>3 DEF TablesInv
    <2> QED
      BY <2>2, <2>3
  <1> QED
    BY <1>3, <1>4, <1>9, <1>10

\* Every step keeps the invariant.
LEMMA DebianStep ==
    ASSUME DebianAssumption, DebianInv, [Next]_vars
    PROVE  DebianInv'
  <1>1. CASE UNCHANGED vars
    <2>1. UNCHANGED <<head, main, pr, pc, downloads, tree, month, published, at, clock, newest>>
      BY <1>1 DEF vars, world, knife, repo
    <2>2. TablesInv'
      BY <2>1, TablesKept DEF DebianInv
    <2> QED
      BY <2>1, <2>2, QuietStep
  <1>2. CASE (\E a \in Sources : Publish(a)) \/ NextMonth
    BY <1>2, ArchiveStep
  <1>3. CASE Fails \/ Skip
    BY <1>3, EndEarly DEF Fails, Skip
  <1>4. CASE ThisMonth \/ LastMonth \/ Write
    <2>1. CASE pc' # "idle"
      BY <1>4, <2>1, FetchStep
    <2>2. CASE pc' = "idle"
      <3>1. EndJob /\ UNCHANGED <<world, main, pr>>
        <4>1. CASE ThisMonth
          BY <2>2, <4>1, Zenon DEF ThisMonth, Found, Ask
        <4>2. CASE LastMonth
          BY <2>2, <4>2, Zenon DEF LastMonth, Found, Ask
        <4>3. CASE Write
          BY <2>2, <4>3, Zenon DEF Write
        <4> QED
          BY <1>4, <4>1, <4>2, <4>3
      <3> QED
        BY <3>1, EndEarly
    <2> QED
      BY <2>1, <2>2
  <1> QED
    BY <1>1, <1>2, <1>3, <1>4, StartStep, LockStep, LicensesStep, FinishStep, MergeStep
    DEF Next, Job

\* What the invariant says of main and of the pull request is what is promised.
LEMMA InvInStep == DebianAssumption /\ DebianInv => LicensesInStep
  BY InStepMeans DEF DebianInv, TypeInv, TablesInv, LicensesInStep

-----------------------------------------------------------------------------
\* The licences on main and in the pull request are those of the packages locked
\* there, for any manifests, archives and workers, whatever downloads fail and
\* whatever merges meanwhile (knife apt licenses, update-debian-packages).
THEOREM LicencesFollowLocks ==
    ASSUME DebianAssumption
    PROVE  Spec => []LicensesInStep
  <1>1. Init => DebianInv
    BY DebianInit
  <1>2. DebianInv /\ [Next]_vars => DebianInv'
    BY DebianStep
  <1>3. DebianInv => LicensesInStep
    BY InvInStep
  <1> QED
    BY <1>1, <1>2, <1>3, PTL DEF Spec
=============================================================================
