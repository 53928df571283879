--------------------------- MODULE RpmExtractProofs ---------------------------
(***************************************************************************)
(* Proofs about RpmExtract, for any package: any paths, links, empty files *)
(* and order of the entries.                                               *)
(***************************************************************************)
EXTENDS RpmExtract, FiniteSetTheorems, SequenceTheorems, TLAPS

Content(p) == IF full[file[p]] THEN file[p] ELSE <<>>
TarEntry == [name : TarNames, type : {"reg", "link", "other"},
             of : Files \cup {<<>>} \cup TarNames]

TypeInv ==
    /\ file \in [Paths -> Files] /\ full \in [Files -> BOOLEAN] /\ left \in SUBSET Names
    /\ DOMAIN pending \subseteq Files
    /\ \A id \in DOMAIN pending : pending[id] \in Seq(TarNames) /\ pending[id] # <<>>
    /\ order \in Seq(Files) /\ tar \in Seq(TarEntry)
    /\ pc \in {"walk", "flush", "done", "refused"}

InTar(name) == \E n \in DOMAIN tar : tar[n].name = name
IsHeld(p) == /\ file[p] \in DOMAIN pending
             /\ \E k \in DOMAIN pending[file[p]] : pending[file[p]][k] = MergedUsr(p)

\* What waits in pendingLinks is shipped, of the set it is filed under, once, and
\* its bytes are still to come if its file has any; the flush will come by it.
HeldInv ==
    \A id \in DOMAIN pending :
        /\ \A k \in DOMAIN pending[id] : \E p \in Paths \ Unshipped :
              pending[id][k] = MergedUsr(p) /\ file[p] = id /\ p \notin left /\ Linked(p)
        /\ \A k, l \in DOMAIN pending[id] : pending[id][k] = pending[id][l] => k = l
        /\ full[id] => \E q \in left \cap Paths : file[q] = id
        /\ \E k \in DOMAIN order : order[k] = id

\* A shipped path is still to come, waits, or is in the tar.
NoneLost == \A p \in (Paths \cup Others) \ Unshipped :
    p \in left \/ (p \in Paths /\ IsHeld(p)) \/ InTar(MergedUsr(p))

\* Names are in the tar once, and not before their time.
OnceInv ==
    /\ \A m, n \in DOMAIN tar : tar[m].name = tar[n].name => m = n
    /\ \A p \in Names : InTar(MergedUsr(p)) => p \notin left
    /\ \A p \in Paths : InTar(MergedUsr(p)) => ~IsHeld(p)

\* An entry of a path has its content, or links back to one that has.
Good(n, p) ==
    \/ tar[n].type = "reg" /\ tar[n].of = Content(p)
    \/ tar[n].type = "link" /\ \E m \in 1 .. n - 1 :
          tar[m].name = tar[n].of /\ tar[m].type = "reg" /\ tar[m].of = Content(p)

GoodInv == \A p \in Paths : \A n \in DOMAIN tar : tar[n].name = MergedUsr(p) => Good(n, p)

\* Of every walk, refused ones included: nothing is in the tar twice, or unshipped.
ShippedInv ==
    /\ \A m, n \in DOMAIN tar : tar[m].name = tar[n].name => m = n
    /\ \A n \in DOMAIN tar : tar[n].name \in Shipped

EndInv ==
    /\ pc \in {"flush", "done"} => left = {}
    /\ pc = "done" => order = <<>>

\* The inductive invariant; a walk that was refused promises nothing but its tar.
ExtractInv ==
    /\ TypeInv /\ LinksLookBack /\ ShippedInv
    /\ pc # "refused" => HeldInv /\ NoneLost /\ OnceInv /\ GoodInv /\ EndInv

-----------------------------------------------------------------------------
\* No two paths are written under one name.
LEMMA NamesDiffer ==
    ASSUME NEW p, NEW q, MergedUsr(p) = MergedUsr(q)
    PROVE  p = q
  <1>1. Len(<<p>>) = 1 /\ Len(<<"usr", p>>) = 2 /\ Len(<<q>>) = 1 /\ Len(<<"usr", q>>) = 2
    OBVIOUS
  <1>2. <<p>>[1] = p /\ <<q>>[1] = q /\ <<"usr", p>>[2] = p /\ <<"usr", q>>[2] = q
    OBVIOUS
  <1>3. MergedUsr(p) \in {<<p>>, <<"usr", p>>} /\ MergedUsr(q) \in {<<q>>, <<"usr", q>>}
    BY DEF MergedUsr
  <1> QED
    BY <1>1, <1>2, <1>3

\* One more at the end of a sequence.
LEMMA AppendFacts ==
    ASSUME NEW S, NEW s \in Seq(S), NEW e \in S
    PROVE  /\ Append(s, e) \in Seq(S) /\ Append(s, e) # <<>>
           /\ Len(s) \in Nat /\ DOMAIN s = 1 .. Len(s)
           /\ DOMAIN Append(s, e) = 1 .. Len(s) + 1
           /\ \A k \in 1 .. Len(s) : Append(s, e)[k] = s[k]
           /\ Append(s, e)[Len(s) + 1] = e
  <1>1. /\ Append(s, e) \in Seq(S) /\ Len(Append(s, e)) = Len(s) + 1
        /\ \A k \in 1 .. Len(s) : Append(s, e)[k] = s[k]
        /\ Append(s, e)[Len(s) + 1] = e
    BY AppendProperties
  <1>2. Len(s) \in Nat /\ DOMAIN s = 1 .. Len(s)
    OBVIOUS
  <1>3. DOMAIN Append(s, e) = 1 .. Len(s) + 1
    BY <1>1
  <1>4. 1 \in DOMAIN Append(s, e)
    BY <1>2, <1>3
  <1> QED
    BY <1>1, <1>2, <1>3, <1>4

\* The links of a path are those of its file, and one that is not linked is alone.
LEMMA LinksOf ==
    ASSUME ExtractAssumption, NEW p \in Paths
    PROVE  /\ \A q \in Paths : file[q] = file[p] => Links(q) = Links(p) /\ Linked(q) = Linked(p)
           /\ ~Linked(p) => Links(p) = {p}
  <1>1. \A q \in Paths : file[q] = file[p] => Links(q) = Links(p)
    BY DEF Links
  <1>2. ASSUME ~Linked(p)
        PROVE  Links(p) = {p}
    <2>1. p \in Links(p) /\ Links(p) \subseteq Paths
      BY DEF Links
    <2>2. IsFiniteSet(Links(p)) /\ Cardinality(Links(p)) \in Nat
      BY <2>1, FS_Subset, FS_CardinalityType DEF ExtractAssumption
    <2>3. Cardinality(Links(p)) <= 1
      BY <1>2, <2>2 DEF Linked
    <2>4. ASSUME NEW q \in Links(p), q # p
          PROVE  FALSE
      <3>1. {p, q} \subseteq Links(p)
        BY <2>1
      <3>2. IsFiniteSet({p}) /\ Cardinality({p}) = 1
        BY FS_Singleton
      <3>3. IsFiniteSet({p} \cup {q}) /\ Cardinality({p} \cup {q}) = 2
        BY <2>4, <3>2, FS_AddElement
      <3>4. {p} \cup {q} = {p, q}
        OBVIOUS
      <3>5. Cardinality({p, q}) <= Cardinality(Links(p))
        BY <2>2, <3>1, FS_Subset
      <3> QED
        BY <2>2, <2>3, <3>3, <3>4, <3>5
    <2> QED
      BY <2>1, <2>4
  <1> QED
    BY <1>1, <1>2 DEF Linked

-----------------------------------------------------------------------------
(* What WriteSet does to the tar. *)

Extends(target, of, links) ==
    /\ tar' \in Seq(TarEntry)
    /\ Len(tar') = Len(tar) + 1 + Len(links)
    /\ \A n \in 1 .. Len(tar) : tar'[n] = tar[n]
    /\ tar'[Len(tar) + 1] = Regular(target, of)
    /\ \A k \in 1 .. Len(links) :
          tar'[Len(tar) + 1 + k] = [name |-> links[k], type |-> "link", of |-> target]

\* Writing a set of links adds the file and its links to the tar, or the file alone
\* when the walk is refused for a name that is too long to link to.
LEMMA WriteExtends ==
    ASSUME TypeInv, NEW target \in TarNames, NEW of \in Files \cup {<<>>},
           NEW links \in Seq(TarNames), WriteSet(target, of, links)
    PROVE  \/ pc' = pc /\ Extends(target, of, links)
           \/ pc' = "refused" /\ Extends(target, of, <<>>)
  <1> DEFINE t == Append(tar, Regular(target, of))
             l == [n \in DOMAIN links |-> [name |-> links[n], type |-> "link", of |-> target]]
  <1>1. Regular(target, of) \in TarEntry /\ tar \in Seq(TarEntry)
    BY DEF TypeInv, Regular, TarEntry
  <1>2. /\ t \in Seq(TarEntry) /\ Len(t) = Len(tar) + 1
        /\ \A n \in 1 .. Len(tar) : t[n] = tar[n]
        /\ t[Len(tar) + 1] = Regular(target, of)
    BY <1>1, AppendProperties
  <1>3. CASE tar' = t /\ pc' = "refused"
    BY <1>2, <1>3 DEF Extends
  <1>4. CASE tar' = t \o l /\ pc' = pc
    <2>1. /\ DOMAIN links = 1 .. Len(links) /\ Len(links) \in Nat
          /\ \A n \in 1 .. Len(links) : links[n] \in TarNames
      OBVIOUS
    <2>2. \A n \in DOMAIN links : l[n] \in TarEntry
      BY <2>1 DEF TarEntry
    <2>3. l \in Seq(TarEntry) /\ Len(l) = Len(links)
      BY <2>1, <2>2
    <2>4. \A k \in 1 .. Len(links) : l[k] = [name |-> links[k], type |-> "link", of |-> target]
      BY <2>1
    <2> HIDE DEF t, l
    <2>5. /\ t \o l \in Seq(TarEntry) /\ Len(t \o l) = Len(t) + Len(l)
          /\ \A n \in 1 .. Len(t) : (t \o l)[n] = t[n]
          /\ \A k \in 1 .. Len(l) : (t \o l)[Len(t) + k] = l[k]
      BY <1>2, <2>3
    <2>6. Len(tar) \in Nat
      BY <1>1
    <2>7. \A n \in 1 .. Len(tar) + 1 : tar'[n] = t[n]
      BY <1>2, <1>4, <2>5
    <2>8. Len(tar) + 1 \in 1 .. Len(tar) + 1 /\ \A n \in 1 .. Len(tar) : n \in 1 .. Len(tar) + 1
      BY <2>6
    <2>9. \A k \in 1 .. Len(links) : tar'[Len(tar) + 1 + k] = l[k]
      BY <1>2, <1>4, <2>3, <2>5
    <2> QED
      BY <1>2, <1>4, <2>3, <2>4, <2>5, <2>7, <2>8, <2>9 DEF Extends
  <1> QED
    BY <1>3, <1>4 DEF WriteSet

\* A place in the new tar is one in the old, the bytes, or a link.
LEMMA Places ==
    ASSUME TypeInv, NEW target, NEW of, NEW links \in Seq(TarNames), Extends(target, of, links),
           NEW n \in DOMAIN tar'
    PROVE  \/ n \in DOMAIN tar /\ tar'[n] = tar[n]
           \/ n = Len(tar) + 1 /\ tar'[n] = Regular(target, of)
           \/ \E k \in DOMAIN links : n = Len(tar) + 1 + k
                 /\ tar'[n] = [name |-> links[k], type |-> "link", of |-> target]
  <1>1. /\ Len(tar) \in Nat /\ DOMAIN tar = 1 .. Len(tar)
        /\ Len(links) \in Nat /\ DOMAIN links = 1 .. Len(links)
    BY DEF TypeInv
  <1>2. DOMAIN tar' = 1 .. Len(tar) + 1 + Len(links)
    BY DEF Extends
  <1>3. CASE n \in 1 .. Len(tar)
    BY <1>1, <1>3 DEF Extends
  <1>4. CASE n = Len(tar) + 1
    BY <1>4 DEF Extends
  <1>5. CASE n > Len(tar) + 1
    <2> DEFINE k == n - (Len(tar) + 1)
    <2>1. k \in 1 .. Len(links) /\ n = Len(tar) + 1 + k
      BY <1>1, <1>2, <1>5
    <2> HIDE DEF k
    <2> QED
      BY <1>1, <2>1 DEF Extends
  <1> QED
    BY <1>1, <1>2, <1>3, <1>4, <1>5

\* What is in the tar then is what was, the file and its links.
LEMMA InTarGrows ==
    ASSUME TypeInv, NEW target, NEW of, NEW links \in Seq(TarNames), Extends(target, of, links),
           NEW name
    PROVE  InTar(name)' <=> \/ InTar(name) \/ name = target
                            \/ \E k \in DOMAIN links : name = links[k]
  <1>1. /\ Len(tar) \in Nat /\ DOMAIN tar = 1 .. Len(tar)
        /\ Len(links) \in Nat /\ DOMAIN links = 1 .. Len(links)
    BY DEF TypeInv
  <1>2. DOMAIN tar' = 1 .. Len(tar) + 1 + Len(links)
    BY DEF Extends
  <1>3. ASSUME InTar(name)
        PROVE  InTar(name)'
    BY <1>1, <1>2, <1>3 DEF InTar, Extends
  <1>4. ASSUME name = target
        PROVE  InTar(name)'
    <2>1. Len(tar) + 1 \in DOMAIN tar' /\ tar'[Len(tar) + 1].name = target
      BY <1>1, <1>2 DEF Extends, Regular
    <2> QED
      BY <1>4, <2>1 DEF InTar
  <1>5. ASSUME NEW k \in DOMAIN links, name = links[k]
        PROVE  InTar(name)'
    <2>1. k \in 1 .. Len(links) /\ Len(tar) + 1 + k \in DOMAIN tar'
      BY <1>1, <1>2
    <2>2. tar'[Len(tar) + 1 + k] = [name |-> links[k], type |-> "link", of |-> target]
      BY <2>1 DEF Extends
    <2> QED
      BY <1>5, <2>1, <2>2 DEF InTar
  <1>6. ASSUME InTar(name)'
        PROVE  InTar(name) \/ name = target \/ \E k \in DOMAIN links : name = links[k]
    <2>1. PICK n \in DOMAIN tar' : tar'[n].name = name
      BY <1>6 DEF InTar
    <2>2. \/ n \in DOMAIN tar /\ tar'[n] = tar[n]
          \/ tar'[n] = Regular(target, of)
          \/ \E k \in DOMAIN links :
                tar'[n] = [name |-> links[k], type |-> "link", of |-> target]
      BY Places
    <2>3. CASE tar'[n] = Regular(target, of)
      <3>1. tar'[n].name = target
        BY <2>3 DEF Regular
      <3> QED
        BY <2>1, <3>1
    <2>4. CASE n \in DOMAIN tar /\ tar'[n] = tar[n]
      BY <2>1, <2>4 DEF InTar
    <2>5. ASSUME NEW k \in DOMAIN links,
                 tar'[n] = [name |-> links[k], type |-> "link", of |-> target]
          PROVE  \E j \in DOMAIN links : name = links[j]
      BY <2>1, <2>5
    <2> QED
      BY <2>2, <2>3, <2>4, <2>5
  <1> QED
    BY <1>3, <1>4, <1>5, <1>6

\* A strict extractor finds the target of every link before it.
LEMMA LooksBack ==
    ASSUME TypeInv, LinksLookBack, NEW target, NEW of, NEW links \in Seq(TarNames),
           Extends(target, of, links)
    PROVE  LinksLookBack'
  <1>1. /\ Len(tar) \in Nat /\ DOMAIN tar = 1 .. Len(tar)
        /\ Len(links) \in Nat /\ DOMAIN links = 1 .. Len(links)
    BY DEF TypeInv
  <1> SUFFICES ASSUME NEW n \in DOMAIN tar', tar'[n].type = "link"
               PROVE  \E m \in 1 .. n - 1 : tar'[m].name = tar'[n].of /\ tar'[m].type = "reg"
    BY DEF LinksLookBack
  <1>2. CASE n \in DOMAIN tar /\ tar'[n] = tar[n]
    <2>1. PICK m \in 1 .. n - 1 : tar[m].name = tar[n].of /\ tar[m].type = "reg"
      BY <1>2 DEF LinksLookBack
    <2>2. m \in 1 .. Len(tar) /\ tar'[m] = tar[m]
      BY <1>1, <1>2, <2>1 DEF Extends
    <2> QED
      BY <1>2, <2>1, <2>2
  <1>3. CASE n = Len(tar) + 1 /\ tar'[n] = Regular(target, of)
    BY <1>3 DEF Regular
  <1>4. ASSUME NEW k \in DOMAIN links, n = Len(tar) + 1 + k,
               tar'[n] = [name |-> links[k], type |-> "link", of |-> target]
        PROVE  \E m \in 1 .. n - 1 : tar'[m].name = tar'[n].of /\ tar'[m].type = "reg"
    <2>1. Len(tar) + 1 \in 1 .. n - 1
      BY <1>1, <1>4
    <2>2. tar'[Len(tar) + 1] = Regular(target, of)
      BY DEF Extends
    <2> QED
      BY <1>4, <2>1, <2>2 DEF Regular
  <1> QED
    BY <1>2, <1>3, <1>4, Places

\* What one call of WriteSet may write: the paths of one set, all with the same
\* content, none of them in the tar.
Written(target, links) == {target} \cup {links[k] : k \in DOMAIN links}

OneSet(target, of, links) ==
    /\ \A k \in DOMAIN links : links[k] # target
    /\ \A k, l \in DOMAIN links : links[k] = links[l] => k = l
    /\ \A name \in Written(target, links) :
          ~InTar(name) /\ \E p \in Paths \ Unshipped : name = MergedUsr(p) /\ Content(p) = of

\* A set whose names are new leaves no name twice.
LEMMA WritesOnce ==
    ASSUME TypeInv, NEW target, NEW of, NEW links \in Seq(TarNames), Extends(target, of, links),
           OneSet(target, of, links),
           \A m, n \in DOMAIN tar : tar[m].name = tar[n].name => m = n
    PROVE  \A m, n \in DOMAIN tar' : tar'[m].name = tar'[n].name => m = n
  <1> SUFFICES ASSUME NEW m \in DOMAIN tar', NEW n \in DOMAIN tar', tar'[m].name = tar'[n].name
               PROVE  m = n
    OBVIOUS
  <1> DEFINE At1(x) == /\ x \in DOMAIN tar /\ tar'[x] = tar[x]
             At2(x) == x = Len(tar) + 1 /\ tar'[x].name = target
             At3(x) == \E k \in DOMAIN links : x = Len(tar) + 1 + k /\ tar'[x].name = links[k]
  <1>1. \A x \in DOMAIN tar' : At1(x) \/ At2(x) \/ At3(x)
    <2> TAKE x \in DOMAIN tar'
    <2>1. \/ x \in DOMAIN tar /\ tar'[x] = tar[x]
          \/ x = Len(tar) + 1 /\ tar'[x] = Regular(target, of)
          \/ \E k \in DOMAIN links : x = Len(tar) + 1 + k
                /\ tar'[x] = [name |-> links[k], type |-> "link", of |-> target]
      BY Places
    <2> QED
      BY <2>1 DEF Regular
  <1>2. \A x \in DOMAIN tar' : At1(x) => InTar(tar'[x].name)
    BY DEF InTar
  <1>3. \A x \in DOMAIN tar' : At2(x) \/ At3(x) => ~InTar(tar'[x].name)
    BY DEF OneSet, Written
  <1>4. CASE At1(m)
    <2>1. At1(n)
      BY <1>1, <1>2, <1>3, <1>4
    <2> QED
      BY <1>4, <2>1
  <1>5. CASE At2(m)
    <2>1. ~At1(n) /\ ~At3(n)
      BY <1>2, <1>3, <1>5 DEF OneSet, Written
    <2> QED
      BY <1>1, <1>5, <2>1
  <1>6. CASE At3(m)
    <2>1. ~At1(n) /\ ~At2(n)
      BY <1>2, <1>3, <1>6 DEF OneSet, Written
    <2>2. At3(n)
      BY <1>1, <2>1
    <2> QED
      BY <1>6, <2>2 DEF OneSet, Written
  <1> QED
    BY <1>1, <1>4, <1>5, <1>6

\* A set of shipped names leaves only shipped ones in the tar, ...
LEMMA WritesShipped ==
    ASSUME TypeInv, NEW target, NEW of, NEW links \in Seq(TarNames), Extends(target, of, links),
           OneSet(target, of, links), ShippedInv
    PROVE  ShippedInv'
  <1>1. \A m, n \in DOMAIN tar' : tar'[m].name = tar'[n].name => m = n
    BY WritesOnce DEF ShippedInv
  <1>2. ASSUME NEW n \in DOMAIN tar'
        PROVE  tar'[n].name \in Shipped
    <2>1. \A name \in Written(target, links) : name \in Shipped
      BY DEF OneSet, Shipped
    <2>2. CASE n \in DOMAIN tar /\ tar'[n] = tar[n]
      BY <2>2 DEF ShippedInv
    <2>3. CASE tar'[n] = Regular(target, of)
      BY <2>1, <2>3 DEF Regular, Written
    <2>4. ASSUME NEW k \in DOMAIN links,
                 tar'[n] = [name |-> links[k], type |-> "link", of |-> target]
          PROVE  tar'[n].name \in Shipped
      BY <2>1, <2>4 DEF Written
    <2> QED
      BY <2>2, <2>3, <2>4, Places
  <1> QED
    BY <1>1, <1>2 DEF ShippedInv, Shipped

\* ... each with its content.
LEMMA WritesGood ==
    ASSUME TypeInv, NEW target, NEW of, NEW links \in Seq(TarNames), Extends(target, of, links),
           OneSet(target, of, links), GoodInv, UNCHANGED package
    PROVE  GoodInv'
  <1>1. /\ Len(tar) \in Nat /\ DOMAIN tar = 1 .. Len(tar)
        /\ Len(links) \in Nat /\ DOMAIN links = 1 .. Len(links)
    BY DEF TypeInv
  <1>2. \A p : Content(p)' = Content(p)
    BY DEF Content, package
  <1> SUFFICES ASSUME NEW p \in Paths, NEW n \in DOMAIN tar', tar'[n].name = MergedUsr(p)
               PROVE  Good(n, p)'
    BY DEF GoodInv
  <1>3. CASE n \in DOMAIN tar /\ tar'[n] = tar[n]
    <2>1. Good(n, p)
      BY <1>3 DEF GoodInv
    <2>2. \A m \in 1 .. n - 1 : tar'[m] = tar[m]
      BY <1>1, <1>3 DEF Extends
    <2> QED
      BY <1>2, <1>3, <2>1, <2>2 DEF Good
  <1>4. CASE tar'[n] = Regular(target, of)
    <2>1. tar'[n].type = "reg" /\ tar'[n].of = of /\ MergedUsr(p) = target
      BY <1>4 DEF Regular
    <2>2. Content(p) = of
      BY <2>1, NamesDiffer DEF OneSet, Written
    <2> QED
      BY <1>2, <2>1, <2>2 DEF Good
  <1>5. ASSUME NEW k \in DOMAIN links, n = Len(tar) + 1 + k,
               tar'[n] = [name |-> links[k], type |-> "link", of |-> target]
        PROVE  Good(n, p)'
    <2>1. MergedUsr(p) = links[k] /\ tar'[n].type = "link" /\ tar'[n].of = target
      BY <1>5
    <2>2. Content(p) = of
      BY <2>1, NamesDiffer DEF OneSet, Written
    <2>3. Len(tar) + 1 \in 1 .. n - 1
      BY <1>1, <1>5
    <2>4. /\ tar'[Len(tar) + 1].name = target /\ tar'[Len(tar) + 1].type = "reg"
          /\ tar'[Len(tar) + 1].of = of
      BY DEF Extends, Regular
    <2> QED
      BY <1>2, <2>1, <2>2, <2>3, <2>4 DEF Good
  <1> QED
    BY <1>3, <1>4, <1>5, Places

-----------------------------------------------------------------------------
(* The steps of the walk. *)

\* With all paths to come, the invariant holds.
LEMMA ExtractInit ==
    ASSUME ExtractAssumption, Init
    PROVE  ExtractInv
  <1> USE DEF Init
  <1>1. TypeInv
    BY DEF TypeInv
  <1>2. LinksLookBack /\ ShippedInv /\ HeldInv /\ OnceInv /\ GoodInv /\ EndInv
    BY DEF LinksLookBack, ShippedInv, HeldInv, OnceInv, GoodInv, EndInv, InTar
  <1>3. NoneLost
    BY DEF NoneLost, Names
  <1> QED
    BY <1>1, <1>2, <1>3 DEF ExtractInv

\* A stripped path takes no bytes with it that anyone waits for.
LEMMA StripStep ==
    ASSUME ExtractAssumption, ExtractInv, NEW p \in Names, Strip(p)
    PROVE  ExtractInv'
  <1>1. /\ UNCHANGED <<file, full, pending, order, tar, pc>> /\ pc = "walk"
        /\ left' = left \ {p} /\ p \in left /\ p \in Unshipped
    BY DEF Strip, Consume, package
  <1>2. TypeInv' /\ LinksLookBack' /\ ShippedInv' /\ EndInv'
    BY <1>1 DEF ExtractInv, TypeInv, LinksLookBack, ShippedInv, Shipped, EndInv
  <1>3. TypeInv /\ HeldInv /\ NoneLost /\ OnceInv /\ GoodInv
    BY <1>1 DEF ExtractInv
  <1>4. \A q : Links(q)' = Links(q) /\ Linked(q)' = Linked(q) /\ IsHeld(q)' = IsHeld(q)
    BY <1>1 DEF Links, Linked, IsHeld
  <1>5. \A name : InTar(name)' = InTar(name)
    BY <1>1 DEF InTar
  <1>6. HeldInv'
    <2> SUFFICES ASSUME NEW id \in DOMAIN pending, full[id]
                 PROVE  \E q \in left' \cap Paths : file[q] = id
      BY <1>1, <1>3, <1>4 DEF HeldInv
    <2>1. PICK q \in left \cap Paths : file[q] = id
      BY <1>3 DEF HeldInv
    <2>2. CASE q # p
      BY <1>1, <2>1, <2>2
    <2>3. CASE q = p
      <3>1. Held(Identify(p)) # <<>>
        BY <1>3, <2>1, <2>3 DEF Held, Identify, TypeInv
      <3>2. 1 \in DOMAIN pending[id]
        BY <1>3 DEF TypeInv
      <3>3. PICK r \in Paths : file[r] = id /\ Linked(r)
        BY <1>3, <3>2 DEF HeldInv
      <3>4. Linked(p)
        BY <2>1, <2>3, <3>3, LinksOf
      <3>5. ~HasBytes(p)
        BY <2>3, <3>1, <3>4 DEF Strip
      <3>6. Links(p) \cap left # {p}
        BY <2>1, <2>3, <3>5 DEF HasBytes
      <3>7. p \in Links(p) \cap left
        BY <2>1, <2>3 DEF Links
      <3>8. PICK r2 \in Links(p) \cap left : r2 # p
        BY <3>6, <3>7
      <3> QED
        BY <1>1, <2>1, <2>3, <3>8 DEF Links
    <2> QED
      BY <2>2, <2>3
  <1>7. NoneLost' /\ OnceInv' /\ GoodInv'
    BY <1>1, <1>3, <1>4, <1>5 DEF NoneLost, OnceInv, GoodInv, Good, Content
  <1> QED
    BY <1>2, <1>6, <1>7 DEF ExtractInv

\* A path that waits is remembered, with the bytes of its set still to come.
LEMMA HoldStep ==
    ASSUME ExtractAssumption, ExtractInv, NEW p \in Paths, Hold(p)
    PROVE  ExtractInv'
  <1> DEFINE id == file[p]
             held == IF id \in DOMAIN pending THEN pending[id] ELSE <<>>
  <1>1. /\ UNCHANGED <<file, full, tar, pc>> /\ pc = "walk" /\ left' = left \ {p} /\ p \in left
        /\ p \notin Unshipped /\ Linked(p) /\ ~HasBytes(p)
        /\ order' = IF held = <<>> THEN Append(order, id) ELSE order
        /\ pending' = [x \in DOMAIN pending \cup {id} |->
                          IF x = id THEN Append(held, MergedUsr(p)) ELSE pending[x]]
    BY DEF Hold, Consume, package, Held, Identify
  <1>2. TypeInv /\ HeldInv /\ NoneLost /\ OnceInv /\ GoodInv /\ LinksLookBack /\ ShippedInv
    BY <1>1 DEF ExtractInv
  <1>3. id \in Files /\ held \in Seq(TarNames) /\ MergedUsr(p) \in TarNames
    BY <1>2 DEF TypeInv, TarNames, Names
  <1>4. /\ Append(held, MergedUsr(p)) \in Seq(TarNames) /\ Append(held, MergedUsr(p)) # <<>>
        /\ Len(held) \in Nat /\ DOMAIN held = 1 .. Len(held)
        /\ DOMAIN Append(held, MergedUsr(p)) = 1 .. Len(held) + 1
        /\ \A k \in 1 .. Len(held) : Append(held, MergedUsr(p))[k] = held[k]
        /\ Append(held, MergedUsr(p))[Len(held) + 1] = MergedUsr(p)
    BY <1>3, AppendFacts
  <1>5. /\ DOMAIN pending' = DOMAIN pending \cup {id} /\ pending'[id] = Append(held, MergedUsr(p))
        /\ \A x \in DOMAIN pending \ {id} : pending'[x] = pending[x]
    BY <1>1
  <1>6. \A q : Links(q)' = Links(q) /\ Linked(q)' = Linked(q) /\ Content(q)' = Content(q)
    BY <1>1 DEF Links, Linked, Content
  <1>7. \A name : InTar(name)' = InTar(name)
    BY <1>1 DEF InTar
  <1>8. Append(order, id) \in Seq(Files)
    BY <1>2, <1>3, AppendProperties DEF TypeInv
  <1>9. \A x \in DOMAIN pending \cup {id} : \E k \in DOMAIN order' : order'[k] = x
    <2>1. order \in Seq(Files) /\ \A x \in DOMAIN pending : \E k \in DOMAIN order : order[k] = x
      BY <1>2 DEF HeldInv, TypeInv
    <2>2. /\ Len(order) \in Nat /\ DOMAIN order = 1 .. Len(order)
          /\ DOMAIN Append(order, id) = 1 .. Len(order) + 1
          /\ \A k \in 1 .. Len(order) : Append(order, id)[k] = order[k]
          /\ Append(order, id)[Len(order) + 1] = id
      BY <1>3, <2>1, AppendFacts
    <2>3. CASE held = <<>>
      <3>1. \A k \in 1 .. Len(order) : k \in DOMAIN Append(order, id)
        BY <2>2
      <3>2. Len(order) + 1 \in DOMAIN Append(order, id)
        BY <2>2
      <3> QED
        BY <1>1, <2>1, <2>2, <2>3, <3>1, <3>2
    <2>4. CASE held # <<>>
      <3>1. id \in DOMAIN pending /\ order' = order
        BY <1>1, <2>4
      <3> QED
        BY <2>1, <3>1
    <2> QED
      BY <2>3, <2>4
  <1> HIDE DEF id, held
  <1>10. TypeInv' /\ LinksLookBack' /\ ShippedInv' /\ EndInv'
    BY <1>1, <1>2, <1>3, <1>4, <1>5, <1>8
    DEF TypeInv, LinksLookBack, ShippedInv, Shipped, EndInv
  <1>11. \A x \in DOMAIN pending' : \A k \in DOMAIN pending'[x] :
            \/ x \in DOMAIN pending /\ k \in DOMAIN pending[x] /\ pending'[x][k] = pending[x][k]
            \/ x = id /\ k = Len(held) + 1 /\ pending'[x][k] = MergedUsr(p)
    BY <1>4, <1>5 DEF held
  <1>12. HeldInv'
    <2> SUFFICES ASSUME NEW x \in DOMAIN pending'
                 PROVE  /\ \A k \in DOMAIN pending'[x] : \E q \in Paths \ Unshipped :
                              /\ pending'[x][k] = MergedUsr(q) /\ file'[q] = x /\ q \notin left'
                              /\ Linked(q)'
                        /\ \A k, l \in DOMAIN pending'[x] : pending'[x][k] = pending'[x][l] => k = l
                        /\ full'[x] => \E q \in left' \cap Paths : file'[q] = x
                        /\ \E k \in DOMAIN order' : order'[k] = x
      BY DEF HeldInv
    <2>1. \A k \in DOMAIN pending'[x] : \E q \in Paths \ Unshipped :
              /\ pending'[x][k] = MergedUsr(q) /\ file[q] = x /\ q \notin left' /\ Linked(q)
      <3> TAKE k \in DOMAIN pending'[x]
      <3>1. CASE x \in DOMAIN pending /\ k \in DOMAIN pending[x] /\ pending'[x][k] = pending[x][k]
        BY <1>1, <1>2, <3>1 DEF HeldInv
      <3>2. CASE x = id /\ pending'[x][k] = MergedUsr(p)
        BY <1>1, <3>2 DEF id
      <3> QED
        BY <1>11, <3>1, <3>2
    <2>2. ASSUME NEW k \in DOMAIN pending'[x], NEW l \in DOMAIN pending'[x],
                 pending'[x][k] = pending'[x][l]
          PROVE  k = l
      <3>1. \A j \in DOMAIN pending'[x] :
               x \in DOMAIN pending /\ j \in DOMAIN pending[x] /\ pending'[x][j] = pending[x][j] =>
                  pending'[x][j] # MergedUsr(p)
        BY <1>1, <1>2, NamesDiffer DEF HeldInv
      <3> QED
        BY <1>2, <1>11, <2>2, <3>1 DEF HeldInv
    <2>3. ASSUME full[x]
          PROVE  \E q \in left' \cap Paths : file[q] = x
      <3>1. CASE x = id
        <4>1. Links(p) \cap left # {p}
          BY <1>1, <2>3, <3>1 DEF HasBytes, id
        <4>2. p \in Links(p) \cap left
          BY <1>1 DEF Links
        <4>3. PICK q \in Links(p) \cap left : q # p
          BY <4>1, <4>2
        <4> QED
          BY <1>1, <3>1, <4>3 DEF Links, id
      <3>2. CASE x # id
        BY <1>1, <1>2, <1>5, <2>3, <3>2 DEF HeldInv, id
      <3> QED
        BY <3>1, <3>2
    <2>4. \E k \in DOMAIN order' : order'[k] = x
      BY <1>5, <1>9
    <2> QED
      BY <1>1, <1>6, <2>1, <2>2, <2>3, <2>4
  <1>13. \A q \in Paths : IsHeld(q)' <=> IsHeld(q) \/ q = p
    <2> TAKE q \in Paths
    <2>1. ASSUME IsHeld(q)
          PROVE  IsHeld(q)'
      <3>1. CASE file[q] = id
        <4>1. held = pending[id] /\ id \in DOMAIN pending
          BY <2>1, <3>1 DEF IsHeld, held
        <4>2. PICK k \in DOMAIN held : held[k] = MergedUsr(q)
          BY <2>1, <3>1, <4>1 DEF IsHeld
        <4>3. k \in DOMAIN pending'[id] /\ pending'[id][k] = MergedUsr(q)
          BY <1>4, <1>5, <4>2
        <4> QED
          BY <1>1, <1>5, <3>1, <4>3 DEF IsHeld
      <3>2. CASE file[q] # id
        BY <1>1, <1>5, <2>1, <3>2 DEF IsHeld
      <3> QED
        BY <3>1, <3>2
    <2>2. IsHeld(p)'
      <3>1. Len(held) + 1 \in DOMAIN pending'[id]
        BY <1>4, <1>5
      <3> QED
        BY <1>1, <1>4, <1>5, <3>1 DEF IsHeld, id
    <2>3. ASSUME IsHeld(q)'
          PROVE  IsHeld(q) \/ q = p
      <3>1. PICK k \in DOMAIN pending'[file[q]] : pending'[file[q]][k] = MergedUsr(q)
        BY <1>1, <2>3 DEF IsHeld
      <3>2. file[q] \in DOMAIN pending'
        BY <1>1, <2>3 DEF IsHeld
      <3> QED
        BY <1>11, <3>1, <3>2, NamesDiffer DEF IsHeld
    <2> QED
      BY <2>1, <2>2, <2>3
  <1>14. NoneLost' /\ OnceInv' /\ GoodInv'
    BY <1>1, <1>2, <1>6, <1>7, <1>13 DEF NoneLost, OnceInv, GoodInv, Good, Names
  <1> QED
    BY <1>10, <1>12, <1>14 DEF ExtractInv

-----------------------------------------------------------------------------
\* Directories and symlinks.
LEMMA CopyStep ==
    ASSUME ExtractAssumption, ExtractInv, NEW p \in Names, Copy(p)
    PROVE  ExtractInv'
  <1> DEFINE e == [name |-> MergedUsr(p), type |-> "other", of |-> <<>>]
  <1>1. /\ UNCHANGED <<file, full, pending, order, pc>> /\ pc = "walk"
        /\ left' = left \ {p} /\ p \in left /\ p \notin Paths /\ p \notin Unshipped
        /\ tar' = IF p \in Nodes THEN tar ELSE Append(tar, e)
    BY DEF Copy, Consume, package
  <1>2. TypeInv /\ LinksLookBack /\ ShippedInv /\ HeldInv /\ NoneLost /\ OnceInv /\ GoodInv
    BY <1>1 DEF ExtractInv
  <1>3. e \in TarEntry /\ tar \in Seq(TarEntry)
    BY <1>2 DEF TarEntry, TypeInv, TarNames
  <1>4. e.name = MergedUsr(p) /\ e.type = "other"
    OBVIOUS
  <1> HIDE DEF e
  <1>5. /\ Len(tar) \in Nat /\ DOMAIN tar = 1 .. Len(tar) /\ tar' \in Seq(TarEntry)
        /\ \A n \in 1 .. Len(tar) : n \in DOMAIN tar' /\ tar'[n] = tar[n]
        /\ \A n \in DOMAIN tar' :
              n \in 1 .. Len(tar) \/ (n = Len(tar) + 1 /\ tar'[n] = e /\ p \notin Nodes)
        /\ p \notin Nodes => \E n \in DOMAIN tar' : tar'[n] = e
    <2>1. /\ Append(tar, e) \in Seq(TarEntry) /\ Len(tar) \in Nat /\ DOMAIN tar = 1 .. Len(tar)
          /\ DOMAIN Append(tar, e) = 1 .. Len(tar) + 1
          /\ \A k \in 1 .. Len(tar) : Append(tar, e)[k] = tar[k]
          /\ Append(tar, e)[Len(tar) + 1] = e
      BY <1>3, AppendFacts
    <2>2. CASE p \in Nodes
      BY <1>1, <1>3, <2>1, <2>2
    <2>3. CASE p \notin Nodes
      <3>1. tar' = Append(tar, e) /\ Len(tar) + 1 \in DOMAIN tar'
        BY <1>1, <2>1, <2>3
      <3> QED
        BY <2>1, <2>3, <3>1
    <2> QED
      BY <1>1, <2>2, <2>3
  <1>6. TypeInv' /\ EndInv'
    BY <1>1, <1>2, <1>5 DEF TypeInv, EndInv
  <1>7. /\ \A q : Links(q)' = Links(q) /\ Linked(q)' = Linked(q) /\ Content(q)' = Content(q)
        /\ \A q : IsHeld(q)' = IsHeld(q)
    BY <1>1 DEF Links, Linked, Content, IsHeld
  <1>8. /\ \A name : InTar(name) => InTar(name)'
        /\ \A name : InTar(name)' => InTar(name) \/ name = MergedUsr(p)
        /\ p \notin Nodes => InTar(MergedUsr(p))'
    BY <1>4, <1>5 DEF InTar
  <1>9. ~InTar(MergedUsr(p))
    BY <1>1, <1>2 DEF OnceInv
  <1>10. LinksLookBack'
    <2> SUFFICES ASSUME NEW n \in DOMAIN tar', tar'[n].type = "link"
                 PROVE  \E m \in 1 .. n - 1 : tar'[m].name = tar'[n].of /\ tar'[m].type = "reg"
      BY DEF LinksLookBack
    <2>1. n \in 1 .. Len(tar) /\ tar'[n] = tar[n]
      BY <1>4, <1>5
    <2>2. PICK m \in 1 .. n - 1 : tar[m].name = tar[n].of /\ tar[m].type = "reg"
      BY <1>2, <1>5, <2>1 DEF LinksLookBack
    <2>3. tar'[m] = tar[m]
      BY <1>5, <2>1, <2>2
    <2> QED
      BY <2>1, <2>2, <2>3
  <1>11. HeldInv'
    BY <1>1, <1>2, <1>7 DEF HeldInv
  <1>12. NoneLost'
    BY <1>1, <1>2, <1>7, <1>8 DEF NoneLost, ExtractAssumption
  <1>13. OnceInv'
    <2>1. \A m, n \in DOMAIN tar' : tar'[m].name = tar'[n].name => m = n
      <3>1. \A n \in 1 .. Len(tar) : InTar(tar'[n].name)
        BY <1>5 DEF InTar
      <3>2. \A n \in 1 .. Len(tar) : tar'[n].name # MergedUsr(p)
        BY <1>9, <3>1
      <3> QED
        BY <1>2, <1>4, <1>5, <3>2 DEF OnceInv
    <2>2. \A q \in Names : InTar(MergedUsr(q))' => q \notin left'
      BY <1>1, <1>2, <1>8, NamesDiffer DEF OnceInv
    <2>3. \A q \in Paths : InTar(MergedUsr(q))' => ~IsHeld(q)'
      BY <1>1, <1>2, <1>7, <1>8, NamesDiffer DEF OnceInv
    <2> QED
      BY <2>1, <2>2, <2>3 DEF OnceInv
  <1>14. GoodInv'
    <2> SUFFICES ASSUME NEW q \in Paths, NEW n \in DOMAIN tar', tar'[n].name = MergedUsr(q)
                 PROVE  Good(n, q)'
      BY DEF GoodInv
    <2>1. n \in 1 .. Len(tar) /\ tar'[n] = tar[n]
      BY <1>1, <1>4, <1>5, NamesDiffer
    <2>2. Good(n, q)
      BY <1>2, <1>5, <2>1 DEF GoodInv
    <2>3. \A m \in 1 .. n - 1 : tar'[m] = tar[m]
      BY <1>5, <2>1
    <2> QED
      BY <1>7, <2>1, <2>2, <2>3 DEF Good
  <1>15. ShippedInv'
    <2>1. p \notin Nodes => MergedUsr(p) \in Shipped
      BY <1>1 DEF Shipped, Names
    <2>2. \A n \in DOMAIN tar' : tar'[n].name \in Shipped
      BY <1>2, <1>4, <1>5, <2>1 DEF ShippedInv
    <2>3. OnceInv'
      BY <1>13
    <2> QED
      BY <2>2, <2>3 DEF ShippedInv, Shipped, OnceInv
  <1> QED
    BY <1>6, <1>10, <1>11, <1>12, <1>13, <1>14, <1>15 DEF ExtractInv

\* What the three steps that write a set (HandOver, Write, Flush) have in common:
\* what is taken out of pendingLinks is written, and what is written was in neither
\* and has the set's content.
Delivery(id, target, of, links) ==
    /\ WriteSet(target, of, links) /\ OneSet(target, of, links)
    /\ UNCHANGED package /\ pc \in {"walk", "flush"} /\ left' \subseteq left
    /\ DOMAIN pending' = DOMAIN pending \ {id}
    /\ \A x \in DOMAIN pending' : pending'[x] = pending[x]
    /\ order' \in Seq(Files)
    /\ \A x \in DOMAIN pending' : \E k \in DOMAIN order' : order'[k] = x
    /\ \A q \in Paths : IsHeld(q) /\ file[q] = id => MergedUsr(q) \in Written(target, links)
    /\ \A q \in left \ left' : /\ q \in Paths /\ file[q] = id
                               /\ q \in Unshipped \/ MergedUsr(q) \in Written(target, links)
    /\ \A q \in Names : MergedUsr(q) \in Written(target, links) =>
           q \notin left' /\ q \in Paths /\ file[q] = id

\* A step that writes one set, whose links are no longer held or to come, keeps the
\* invariant.
LEMMA Delivered ==
    ASSUME ExtractAssumption, ExtractInv, NEW id, NEW target \in TarNames,
           NEW of \in Files \cup {<<>>}, NEW links \in Seq(TarNames),
           Delivery(id, target, of, links)
    PROVE  ExtractInv'
  <1> USE DEF Delivery
  <1>1. /\ TypeInv /\ LinksLookBack /\ ShippedInv
        /\ HeldInv /\ NoneLost /\ OnceInv /\ GoodInv /\ EndInv
    BY DEF ExtractInv
  <1>2. UNCHANGED <<file, full>>
    BY DEF package
  <1>3. CASE pc' = "refused" /\ Extends(target, of, <<>>)
    <2>1. <<>> \in Seq(TarNames)
      OBVIOUS
    <2>2. LinksLookBack'
      BY <1>1, <1>3, <2>1, LooksBack
    <2>3. TypeInv'
      BY <1>1, <1>2, <1>3 DEF TypeInv, Extends
    <2>4. OneSet(target, of, <<>>)
      BY DEF OneSet, Written
    <2>5. ShippedInv'
      BY <1>1, <1>3, <2>1, <2>4, WritesShipped
    <2> QED
      BY <1>3, <2>2, <2>3, <2>5 DEF ExtractInv
  <1>4. CASE pc' = pc /\ Extends(target, of, links)
    <2>1. LinksLookBack'
      BY <1>1, <1>4, LooksBack
    <2>2. TypeInv' /\ EndInv'
      BY <1>1, <1>2, <1>4 DEF TypeInv, EndInv, Extends
    <2>3. GoodInv'
      BY <1>1, <1>4, WritesGood
    <2>4. \A m, n \in DOMAIN tar' : tar'[m].name = tar'[n].name => m = n
      BY <1>1, <1>4, WritesOnce DEF OnceInv
    <2>5. \A name : InTar(name)' <=> InTar(name) \/ name \in Written(target, links)
      BY <1>1, <1>4, InTarGrows DEF Written
    <2>6. \A q \in Paths : IsHeld(q)' <=> IsHeld(q) /\ file[q] # id
      BY <1>2 DEF IsHeld
    <2>7. \A q : Links(q)' = Links(q) /\ Linked(q)' = Linked(q)
      BY <1>2 DEF Links, Linked
    <2>8. HeldInv'
      <3> SUFFICES ASSUME NEW x \in DOMAIN pending'
                   PROVE  /\ \A k \in DOMAIN pending'[x] : \E q \in Paths \ Unshipped :
                                /\ pending'[x][k] = MergedUsr(q) /\ file'[q] = x /\ q \notin left'
                                /\ Linked(q)'
                          /\ \A k, l \in DOMAIN pending'[x] :
                                pending'[x][k] = pending'[x][l] => k = l
                          /\ full'[x] => \E q \in left' \cap Paths : file'[q] = x
                          /\ \E k \in DOMAIN order' : order'[k] = x
        BY DEF HeldInv
      <3>1. x \in DOMAIN pending /\ x # id /\ pending'[x] = pending[x]
        OBVIOUS
      <3>2. \A k \in DOMAIN pending[x] : \E q \in Paths \ Unshipped :
               pending[x][k] = MergedUsr(q) /\ file[q] = x /\ q \notin left /\ Linked(q)
        BY <1>1, <3>1 DEF HeldInv
      <3>3. \A k, l \in DOMAIN pending[x] : pending[x][k] = pending[x][l] => k = l
        BY <1>1, <3>1 DEF HeldInv
      <3>4. full[x] => \E q \in left' \cap Paths : file[q] = x
        BY <1>1, <3>1 DEF HeldInv
      <3> QED
        BY <1>2, <2>7, <3>1, <3>2, <3>3, <3>4
    <2>9. NoneLost'
      BY <1>1, <1>2, <2>5, <2>6 DEF NoneLost, ExtractAssumption
    <2>10. OnceInv'
      <3>1. \A q \in Names : InTar(MergedUsr(q))' => q \notin left'
        BY <1>1, <2>5 DEF OnceInv
      <3>2. \A q \in Paths : InTar(MergedUsr(q))' => ~IsHeld(q)'
        BY <1>1, <2>5, <2>6 DEF OnceInv, Names
      <3> QED
        BY <2>4, <3>1, <3>2 DEF OnceInv
    <2>11. ShippedInv'
      BY <1>1, <1>4, WritesShipped
    <2> QED
      BY <2>1, <2>2, <2>3, <2>8, <2>9, <2>10, <2>11 DEF ExtractInv
  <1> QED
    BY <1>1, <1>3, <1>4, WriteExtends

\* What is said of a set whose paths all wait: they are written with the bytes of
\* their file, and nothing else is.
LEMMA HeldSet ==
    ASSUME ExtractInv, pc # "refused", NEW id \in DOMAIN pending,
           NEW of, of = IF full[id] THEN id ELSE <<>>
    PROVE  LET target == pending[id][1]
               links == Tail(pending[id])
           IN  /\ target \in TarNames /\ links \in Seq(TarNames) /\ OneSet(target, of, links)
               /\ \A q \in Paths : IsHeld(q) /\ file[q] = id => MergedUsr(q) \in Written(target, links)
               /\ \A q \in Names : MergedUsr(q) \in Written(target, links) =>
                      q \notin left /\ q \in Paths /\ file[q] = id
  <1> DEFINE held == pending[id]
             target == held[1]
             links == Tail(held)
  <1>1. TypeInv /\ HeldInv /\ OnceInv
    BY DEF ExtractInv
  <1>2. held \in Seq(TarNames) /\ held # <<>>
    BY <1>1 DEF TypeInv
  <1>3. /\ \A k \in DOMAIN held : \E p \in Paths \ Unshipped :
              held[k] = MergedUsr(p) /\ file[p] = id /\ p \notin left
        /\ \A k, l \in DOMAIN held : held[k] = held[l] => k = l
    BY <1>1 DEF HeldInv
  <1>4. \A k \in DOMAIN held : ~InTar(held[k])
    <2> TAKE k \in DOMAIN held
    <2>1. PICK p \in Paths : held[k] = MergedUsr(p) /\ file[p] = id
      BY <1>3
    <2>2. IsHeld(p)
      BY <2>1 DEF IsHeld
    <2> QED
      BY <1>1, <2>1, <2>2 DEF OnceInv
  <1>5. \A q \in Paths : IsHeld(q) /\ file[q] = id => \E k \in DOMAIN held : held[k] = MergedUsr(q)
    BY DEF IsHeld
  <1>6. \A q : file[q] = id => Content(q) = of
    BY DEF Content
  <1> HIDE DEF held
  <1>7. /\ Len(held) \in Nat /\ DOMAIN held = 1 .. Len(held) /\ Len(held) >= 1
        /\ links \in Seq(TarNames) /\ DOMAIN links = 1 .. Len(held) - 1
        /\ \A k \in 1 .. Len(held) - 1 : links[k] = held[k + 1]
    <2>1. /\ Len(held) \in Nat /\ DOMAIN held = 1 .. Len(held) /\ Len(held) # 0
      BY <1>2, EmptySeq
    <2>2. links \in Seq(TarNames) /\ Len(links) = Len(held) - 1
      BY <1>2, HeadTailProperties
    <2>3. \A k \in 1 .. Len(held) - 1 : links[k] = held[k + 1]
      BY <1>2, HeadTailProperties
    <2> QED
      BY <2>1, <2>2, <2>3
  <1>8. 1 \in DOMAIN held /\ \A k \in DOMAIN links : k + 1 \in DOMAIN held /\ links[k] = held[k + 1]
    BY <1>7
  <1>9. \A name : name \in Written(target, links) <=> \E k \in DOMAIN held : held[k] = name
    <2> TAKE name
    <2>1. ASSUME NEW k \in DOMAIN held, held[k] = name, k # 1
          PROVE  name \in {links[l] : l \in DOMAIN links}
      <3>1. k - 1 \in DOMAIN links /\ (k - 1) + 1 = k
        BY <1>7, <2>1
      <3>2. links[k - 1] = held[(k - 1) + 1]
        BY <1>8, <3>1
      <3> HIDE DEF links
      <3> QED
        BY <2>1, <3>1, <3>2
    <2> QED
      BY <1>8, <2>1 DEF Written
  <1>10. target \in TarNames
    BY <1>2, <1>8
  <1>11. OneSet(target, of, links)
    <2>1. \A k \in DOMAIN links : links[k] # target
      <3> TAKE k \in DOMAIN links
      <3>1. k + 1 # 1
        BY <1>7
      <3> QED
        BY <1>3, <1>8, <3>1 DEF held
    <2>2. \A k, l \in DOMAIN links : links[k] = links[l] => k = l
      <3> TAKE k, l \in DOMAIN links
      <3>1. k + 1 = l + 1 => k = l
        BY <1>7
      <3> QED
        BY <1>3, <1>8, <3>1
    <2>3. \A name \in Written(target, links) :
             ~InTar(name) /\ \E p \in Paths \ Unshipped : name = MergedUsr(p) /\ Content(p) = of
      BY <1>3, <1>4, <1>6, <1>9
    <2> QED
      BY <2>1, <2>2, <2>3 DEF OneSet
  <1>12. \A q \in Names : MergedUsr(q) \in Written(target, links) =>
            q \notin left /\ q \in Paths /\ file[q] = id
    BY <1>3, <1>9, NamesDiffer
  <1> QED
    BY <1>5, <1>7, <1>9, <1>10, <1>11, <1>12 DEF held

\* A stripped path hands its bytes to those that wait for them.
LEMMA HandOverStep ==
    ASSUME ExtractAssumption, ExtractInv, NEW p \in Paths, HandOver(p)
    PROVE  ExtractInv'
  <1> DEFINE id == file[p]
             held == pending[id]
             target == held[1]
             links == Tail(held)
  <1>1. /\ UNCHANGED package /\ UNCHANGED order /\ pc = "walk" /\ HasBytes(p)
        /\ left' = left \ {p} /\ p \in left /\ p \in Unshipped /\ Held(id) # <<>>
        /\ pending' = [x \in DOMAIN pending \ {id} |-> pending[x]]
        /\ WriteSet(Held(id)[1], Bytes(p), Tail(Held(id)))
    BY DEF HandOver, Consume, Release, Identify
  <1>2. TypeInv /\ HeldInv
    BY <1>1 DEF ExtractInv
  <1>3. id \in DOMAIN pending /\ Held(id) = held
    BY <1>1 DEF Held
  <1>4. full[id] /\ Bytes(p) = id /\ id \in Files
    BY <1>1, <1>2 DEF HasBytes, Bytes, TypeInv
  <1>5. /\ target \in TarNames /\ links \in Seq(TarNames) /\ OneSet(target, id, links)
        /\ \A q \in Paths : IsHeld(q) /\ file[q] = id => MergedUsr(q) \in Written(target, links)
        /\ \A q \in Names : MergedUsr(q) \in Written(target, links) =>
               q \notin left /\ q \in Paths /\ file[q] = id
    BY <1>1, <1>3, <1>4, HeldSet
  <1>6. WriteSet(target, id, links)
    BY <1>1, <1>3, <1>4
  <1>7. /\ DOMAIN pending' = DOMAIN pending \ {id}
        /\ \A x \in DOMAIN pending' : pending'[x] = pending[x]
    BY <1>1
  <1>8. order' \in Seq(Files) /\ \A x \in DOMAIN pending' : \E k \in DOMAIN order' : order'[k] = x
    BY <1>1, <1>2, <1>7 DEF TypeInv, HeldInv
  <1>9. \A q \in left \ left' : q \in Paths /\ file[q] = id /\ q \in Unshipped
    BY <1>1
  <1>10. \A q \in Names : MergedUsr(q) \in Written(target, links) =>
             q \notin left' /\ q \in Paths /\ file[q] = id
    BY <1>1, <1>5
  <1> HIDE DEF id, held, target, links
  <1>11. Delivery(id, target, id, links)
    BY <1>1, <1>5, <1>6, <1>7, <1>8, <1>9, <1>10 DEF Delivery
  <1> QED
    BY <1>4, <1>5, <1>11, Delivered

\* A file is written with its bytes and the links that waited for it.
LEMMA WriteStep ==
    ASSUME ExtractAssumption, ExtractInv, NEW p \in Paths, Write(p)
    PROVE  ExtractInv'
  <1> DEFINE id == file[p]
             held == IF id \in DOMAIN pending THEN pending[id] ELSE <<>>
             target == MergedUsr(p)
             links == IF Linked(p) THEN held ELSE <<>>
  <1>1. /\ UNCHANGED package /\ UNCHANGED order /\ pc = "walk" /\ (Linked(p) => HasBytes(p))
        /\ left' = left \ {p} /\ p \in left /\ p \notin Unshipped
        /\ pending' = IF Linked(p) THEN [x \in DOMAIN pending \ {id} |-> pending[x]] ELSE pending
        /\ WriteSet(target, Bytes(p), links)
    BY DEF Write, Consume, Release, Identify, Held
  <1>2. TypeInv /\ HeldInv /\ OnceInv
    BY <1>1 DEF ExtractInv
  <1>3. id \in Files /\ target \in TarNames /\ Bytes(p) \in Files \cup {<<>>}
    BY <1>2 DEF TypeInv, TarNames, Names, Bytes
  <1>4. \A q \in Paths : file[q] = id => Linked(q) = Linked(p)
    BY LinksOf
  <1>5. ~Linked(p) => id \notin DOMAIN pending
    <2> SUFFICES ASSUME id \in DOMAIN pending
                 PROVE  Linked(p)
      OBVIOUS
    <2>1. 1 \in DOMAIN pending[id]
      BY <1>2 DEF TypeInv
    <2> QED
      BY <1>2, <1>4, <2>1 DEF HeldInv
  <1>6. links = held /\ held \in Seq(TarNames)
    BY <1>2, <1>5 DEF TypeInv
  <1>7. /\ DOMAIN pending' = DOMAIN pending \ {id}
        /\ \A x \in DOMAIN pending' : pending'[x] = pending[x]
    BY <1>1, <1>5
  <1>8. \A q : file[q] = id => Content(q) = Bytes(p)
    <2>1. CASE Linked(p)
      BY <1>1, <2>1 DEF HasBytes, Bytes, Content
    <2>2. CASE ~Linked(p)
      <3>1. Links(p) \cap left = {p}
        BY <1>1, <2>2, LinksOf
      <3> QED
        BY <3>1 DEF HasBytes, Bytes, Content
    <2> QED
      BY <2>1, <2>2
  <1>9. /\ \A k \in DOMAIN held : \E q \in Paths \ Unshipped :
              held[k] = MergedUsr(q) /\ file[q] = id /\ q \notin left
        /\ \A k, l \in DOMAIN held : held[k] = held[l] => k = l
    BY <1>2 DEF HeldInv
  <1>10. \A k \in DOMAIN held : ~InTar(held[k])
    <2> TAKE k \in DOMAIN held
    <2>1. id \in DOMAIN pending /\ k \in DOMAIN pending[id] /\ held[k] = pending[id][k]
      OBVIOUS
    <2>2. PICK q \in Paths : held[k] = MergedUsr(q) /\ file[q] = id
      BY <1>9
    <2>3. IsHeld(q)
      BY <2>1, <2>2 DEF IsHeld
    <2> QED
      BY <1>2, <2>2, <2>3 DEF OnceInv
  <1>11. \A q \in Paths : IsHeld(q) /\ file[q] = id => \E k \in DOMAIN held : held[k] = MergedUsr(q)
    BY DEF IsHeld
  <1>12. ~InTar(target)
    BY <1>1, <1>2 DEF OnceInv, Names
  <1> HIDE DEF id, held
  <1>13. OneSet(target, Bytes(p), held)
    <2>1. \A k \in DOMAIN held : held[k] # target
      BY <1>1, <1>9, NamesDiffer
    <2>2. Content(p) = Bytes(p)
      BY <1>8 DEF id
    <2> QED
      BY <1>1, <1>8, <1>9, <1>10, <1>12, <2>1, <2>2 DEF OneSet, Written
  <1>14. \A q \in Paths : IsHeld(q) /\ file[q] = id => MergedUsr(q) \in Written(target, held)
    BY <1>11 DEF Written
  <1>15. \A q \in left \ left' : q \in Paths /\ file[q] = id /\ MergedUsr(q) \in Written(target, held)
    BY <1>1 DEF Written, id
  <1>16. \A q \in Names : MergedUsr(q) \in Written(target, held) =>
             q \notin left' /\ q \in Paths /\ file[q] = id
    BY <1>1, <1>9, NamesDiffer DEF Written, id
  <1>17. order' \in Seq(Files) /\ \A x \in DOMAIN pending' : \E k \in DOMAIN order' : order'[k] = x
    BY <1>1, <1>2, <1>7 DEF TypeInv, HeldInv
  <1>18. WriteSet(target, Bytes(p), held)
    BY <1>1, <1>6
  <1>19. /\ UNCHANGED package /\ pc \in {"walk", "flush"} /\ left' \subseteq left
         /\ \A q \in left \ left' : /\ q \in Paths /\ file[q] = id
                                    /\ q \in Unshipped \/ MergedUsr(q) \in Written(target, held)
    BY <1>1, <1>15
  <1> DEFINE of == Bytes(p)
  <1>20. /\ of \in Files \cup {<<>>} /\ WriteSet(target, of, held) /\ OneSet(target, of, held)
         /\ target \in TarNames /\ held \in Seq(TarNames)
    BY <1>3, <1>6, <1>13, <1>18
  <1> HIDE DEF target, links, of
  <1>21. Delivery(id, target, of, held)
    BY <1>7, <1>14, <1>16, <1>17, <1>19, <1>20 DEF Delivery
  <1> QED
    BY <1>20, <1>21, Delivered

\* At the end of the payload what is not in the tar is held.
LEMMA PayloadEndsStep ==
    ASSUME ExtractInv, PayloadEnds
    PROVE  ExtractInv'
  <1>1. /\ UNCHANGED <<file, full, left, pending, order, tar>> /\ pc = "walk" /\ pc' = "flush"
        /\ left = {}
    BY DEF PayloadEnds, package
  <1>2. TypeInv' /\ LinksLookBack' /\ ShippedInv' /\ EndInv'
    BY <1>1 DEF ExtractInv, TypeInv, LinksLookBack, ShippedInv, Shipped, EndInv
  <1>3. /\ \A q : Links(q)' = Links(q) /\ Linked(q)' = Linked(q) /\ Content(q)' = Content(q)
        /\ \A q : IsHeld(q)' = IsHeld(q) /\ InTar(q)' = InTar(q)
    BY <1>1 DEF Links, Linked, Content, IsHeld, InTar
  <1> QED
    BY <1>1, <1>2, <1>3 DEF ExtractInv, HeldInv, NoneLost, OnceInv, GoodInv, Good

\* Who still waits when the payload has ended waits for an empty file.
LEMMA FlushStep ==
    ASSUME ExtractAssumption, ExtractInv, Flush
    PROVE  ExtractInv'
  <1>1. UNCHANGED <<file, full, left>> /\ UNCHANGED package /\ pc = "flush"
    BY DEF Flush, package
  <1>2. /\ TypeInv /\ LinksLookBack /\ ShippedInv
        /\ HeldInv /\ NoneLost /\ OnceInv /\ GoodInv /\ left = {}
    BY <1>1 DEF ExtractInv, EndInv
  <1>3. /\ \A q : Links(q)' = Links(q) /\ Linked(q)' = Linked(q) /\ Content(q)' = Content(q)
    BY <1>1 DEF Links, Linked, Content
  <1>4. CASE order = <<>>
    <2>1. UNCHANGED <<pending, order, tar>> /\ pc' = "done"
      BY <1>4 DEF Flush
    <2>2. TypeInv' /\ LinksLookBack' /\ ShippedInv' /\ EndInv'
      BY <1>1, <1>2, <1>4, <2>1 DEF TypeInv, LinksLookBack, ShippedInv, Shipped, EndInv
    <2>3. \A q : IsHeld(q)' = IsHeld(q) /\ InTar(q)' = InTar(q)
      BY <1>1, <2>1 DEF IsHeld, InTar
    <2> QED
      BY <1>1, <1>2, <1>3, <2>1, <2>2, <2>3
      DEF ExtractInv, HeldInv, NoneLost, OnceInv, GoodInv, Good
  <1>5. CASE order # <<>>
    <2> DEFINE id == Head(order)
    <2>1. /\ order' = Tail(order) /\ pending' = [x \in DOMAIN pending \ {id} |-> pending[x]]
          /\ IF Held(id) = <<>> THEN UNCHANGED <<tar, pc>>
             ELSE WriteSet(Held(id)[1], <<>>, Tail(Held(id)))
      BY <1>5 DEF Flush, Release
    <2>2. id \in Files /\ order' \in Seq(Files)
      BY <1>2, <1>5, <2>1, HeadTailProperties DEF TypeInv
    <2>3. \A k \in DOMAIN order : order[k] = id \/ \E l \in DOMAIN order' : order'[l] = order[k]
      <3>1. /\ order \in Seq(Files) /\ Len(order) \in Nat /\ DOMAIN order = 1 .. Len(order)
            /\ id = order[1]
        BY <1>2, <1>5 DEF TypeInv
      <3>2. /\ Len(Tail(order)) = Len(order) - 1 /\ Tail(order) \in Seq(Files)
            /\ \A i \in 1 .. Len(Tail(order)) : Tail(order)[i] = order[i + 1]
        BY <1>5, <3>1, HeadTailProperties
      <3> HIDE DEF id
      <3> TAKE k \in DOMAIN order
      <3>3. CASE k = 1
        BY <3>1, <3>3
      <3>4. CASE k # 1
        <4>1. k - 1 \in 1 .. Len(Tail(order)) /\ (k - 1) + 1 = k
          BY <3>1, <3>2, <3>4
        <4>2. k - 1 \in DOMAIN Tail(order) /\ Tail(order)[k - 1] = order[k]
          BY <3>2, <4>1
        <4> QED
          BY <2>1, <4>2
      <3> QED
        BY <3>3, <3>4
    <2> HIDE DEF id
    <2>4. /\ DOMAIN pending' = DOMAIN pending \ {id}
          /\ \A x \in DOMAIN pending' : pending'[x] = pending[x]
      BY <2>1
    <2>5. \A x \in DOMAIN pending' : \E k \in DOMAIN order' : order'[k] = x
      BY <1>2, <2>3, <2>4 DEF HeldInv
    <2>6. CASE id \notin DOMAIN pending
      <3>1. UNCHANGED <<tar, pc>>
        BY <2>1, <2>6 DEF Held
      <3>2. DOMAIN pending' = DOMAIN pending /\ \A x \in DOMAIN pending : pending'[x] = pending[x]
        BY <2>4, <2>6
      <3>3. TypeInv' /\ LinksLookBack' /\ ShippedInv' /\ EndInv'
        BY <1>1, <1>2, <2>2, <3>1, <3>2
        DEF TypeInv, LinksLookBack, ShippedInv, Shipped, EndInv
      <3>4. \A q \in Paths : IsHeld(q)' <=> IsHeld(q)
        BY <1>1, <3>2 DEF IsHeld
      <3>5. \A name : InTar(name)' = InTar(name)
        BY <3>1 DEF InTar
      <3>6. HeldInv'
        BY <1>1, <1>2, <1>3, <2>5, <3>2 DEF HeldInv
      <3> QED
        BY <1>1, <1>2, <1>3, <3>1, <3>3, <3>4, <3>5, <3>6
        DEF ExtractInv, NoneLost, OnceInv, GoodInv, Good
    <2>7. CASE id \in DOMAIN pending
      <3> DEFINE target == pending[id][1]
                 links == Tail(pending[id])
      <3>1. Held(id) = pending[id] /\ pending[id] # <<>>
        BY <1>2, <2>7 DEF Held, TypeInv
      <3>2. WriteSet(target, <<>>, links)
        BY <2>1, <3>1
      <3>3. ~full[id]
        BY <1>2, <2>7 DEF HeldInv
      <3>4. /\ target \in TarNames /\ links \in Seq(TarNames) /\ OneSet(target, <<>>, links)
            /\ \A q \in Paths : IsHeld(q) /\ file[q] = id => MergedUsr(q) \in Written(target, links)
            /\ \A q \in Names : MergedUsr(q) \in Written(target, links) =>
                   q \notin left /\ q \in Paths /\ file[q] = id
        BY <1>1, <2>7, <3>3, HeldSet
      <3> HIDE DEF target, links
      <3>5. Delivery(id, target, <<>>, links)
        BY <1>1, <1>2, <2>2, <2>4, <2>5, <3>2, <3>4 DEF Delivery
      <3> QED
        BY <3>4, <3>5, Delivered
    <2> QED
      BY <2>6, <2>7
  <1> QED
    BY <1>4, <1>5

\* Every step keeps the invariant.
LEMMA ExtractNext ==
    ASSUME ExtractAssumption, ExtractInv, [Next]_vars
    PROVE  ExtractInv'
  <1>1. CASE UNCHANGED vars
    <2>1. UNCHANGED <<file, full, left, pending, order, tar, pc>>
      BY <1>1 DEF vars, package
    <2>2. TypeInv' /\ LinksLookBack' /\ ShippedInv' /\ (pc # "refused" => EndInv')
      BY <2>1 DEF ExtractInv, TypeInv, LinksLookBack, ShippedInv, Shipped, EndInv
    <2>3. \A q : /\ Links(q)' = Links(q) /\ Linked(q)' = Linked(q) /\ Content(q)' = Content(q)
                 /\ IsHeld(q)' = IsHeld(q) /\ InTar(q)' = InTar(q)
      BY <2>1 DEF Links, Linked, Content, IsHeld, InTar
    <2> QED
      BY <2>1, <2>2, <2>3 DEF ExtractInv, HeldInv, NoneLost, OnceInv, GoodInv, Good
  <1>2. ASSUME NEW p \in Names, Strip(p) \/ Copy(p)
        PROVE  ExtractInv'
    BY <1>2, StripStep, CopyStep
  <1>3. ASSUME NEW p \in Paths, HandOver(p) \/ Hold(p) \/ Write(p)
        PROVE  ExtractInv'
    BY <1>3, HandOverStep, HoldStep, WriteStep
  <1>4. CASE PayloadEnds
    BY <1>4, PayloadEndsStep
  <1>5. CASE Flush
    BY <1>5, FlushStep
  <1> QED
    BY <1>1, <1>2, <1>3, <1>4, <1>5 DEF Next

\* Of every package: a path that is shipped is unpacked with the bytes of its file,
\* whichever of its links were stripped and whoever carried them.
LEMMA InvKeepsContent ==
    ASSUME ExtractInv
    PROVE  ContentKept
  <1> SUFFICES ASSUME pc = "done", NEW p \in Paths \ Unshipped
               PROVE  /\ InTar(MergedUsr(p))
                      /\ Unpacked(MergedUsr(p)) = Content(p)
    BY DEF ContentKept, InTar, Content
  <1>1. TypeInv /\ HeldInv /\ NoneLost /\ OnceInv /\ GoodInv /\ left = {} /\ order = <<>>
    BY DEF ExtractInv, EndInv
  <1>2. DOMAIN pending = {}
    <2>1. DOMAIN order = {}
      BY <1>1
    <2> QED
      BY <1>1, <2>1 DEF HeldInv
  <1>3. InTar(MergedUsr(p))
    BY <1>1, <1>2 DEF NoneLost, IsHeld
  <1>4. \A n \in DOMAIN tar : At(tar[n].name) = n
    BY <1>1 DEF OnceInv, At
  <1>5. PICK n \in DOMAIN tar : tar[n].name = MergedUsr(p)
    BY <1>3 DEF InTar
  <1>6. At(MergedUsr(p)) = n /\ Good(n, p)
    BY <1>1, <1>4, <1>5 DEF GoodInv
  <1>7. CASE tar[n].type = "reg" /\ tar[n].of = Content(p)
    BY <1>3, <1>6, <1>7 DEF Unpacked
  <1>8. ASSUME tar[n].type = "link", NEW m \in 1 .. n - 1,
               tar[m].name = tar[n].of, tar[m].type = "reg", tar[m].of = Content(p)
        PROVE  Unpacked(MergedUsr(p)) = Content(p)
    <2>1. DOMAIN tar = 1 .. Len(tar) /\ Len(tar) \in Nat
      BY <1>1 DEF TypeInv
    <2>2. m \in DOMAIN tar
      BY <1>8, <2>1
    <2>3. At(tar[n].of) = m
      BY <1>4, <1>8, <2>2
    <2> QED
      BY <1>6, <1>8, <2>3 DEF Unpacked
  <1> QED
    BY <1>3, <1>6, <1>7, <1>8 DEF Good

\* At the end of a walk every shipped path is in the tar, once.
LEMMA InvShipsOnce ==
    ASSUME ExtractInv
    PROVE  ShippedOnce
  <1>1. ShippedInv
    BY DEF ExtractInv
  <1>2. ASSUME pc = "done", NEW p \in (Paths \cup Others) \ Unshipped
        PROVE  InTar(MergedUsr(p))
    <2>1. HeldInv /\ NoneLost /\ left = {} /\ order = <<>>
      BY <1>2 DEF ExtractInv, EndInv
    <2>2. DOMAIN order = {}
      BY <2>1
    <2>3. DOMAIN pending = {}
      BY <2>1, <2>2 DEF HeldInv
    <2> QED
      BY <1>2, <2>1, <2>3 DEF NoneLost, IsHeld
  <1>3. pc = "done" => Shipped \subseteq {tar[n].name : n \in DOMAIN tar}
    BY <1>2 DEF Shipped, InTar
  <1>4. {tar[n].name : n \in DOMAIN tar} \subseteq Shipped
    BY <1>1 DEF ShippedInv
  <1> QED
    BY <1>1, <1>3, <1>4 DEF ShippedInv, ShippedOnce

\* ContentKept for every package and every order of its entries
\* (writePayloadAsTar); every path that is shipped is in the tar once, and the
\* target of a link is there before it, so that one pass unpacks the tar.  The
\* last holds of a walk that is refused as well.
THEOREM ContentShipped ==
    ASSUME ExtractAssumption
    PROVE  Spec => [](ContentKept /\ ShippedOnce /\ LinksLookBack)
  <1>1. Init => ExtractInv
    BY ExtractInit
  <1>2. ExtractInv /\ [Next]_vars => ExtractInv'
    BY ExtractNext
  <1>3. ExtractInv => ContentKept /\ ShippedOnce /\ LinksLookBack
    BY InvKeepsContent, InvShipsOnce DEF ExtractInv
  <1> QED
    BY <1>1, <1>2, <1>3, PTL DEF Spec
=============================================================================
