-------------------------- MODULE MirrorClientProofs --------------------------
(***************************************************************************)
(* Proofs about MirrorClient, for any requests, digests, tags, capacity    *)
(* and lifetimes, with no bound on the clock or on the referrers.          *)
(***************************************************************************)
EXTENDS MirrorClient, TLAPS

Places == {"idle", "resolve", "lookup", "list", "walk", "fill", "answered", "failed"}
Referrer == [kind : Kinds, at : Nat]
Entry == [from : SUBSET Nat, listed : Nat, expires : Nat]

\* What is assumed of the setup.
Setting ==
    /\ Capacity \in Nat \ {0} /\ TTL \in Nat /\ Slowest \in Nat
    /\ Asked \subseteq Methods /\ NoRef \notin Tags \cup Digests

\* What a step leaves of it.
Same == Digests' = Digests /\ Tags' = Tags

TypeInv ==
    /\ clock \in Nat /\ names \in [Tags -> Digests]
    /\ attached \in [Digests -> Seq(Referrer)]
    /\ cache \in [Cached -> [Digests -> Entry \cup {NoEntry}]]
    /\ pc \in [Requests -> Places] /\ method \in [Requests -> Methods]
    /\ ref \in [Requests -> Tags \cup Digests \cup {NoRef}]
    /\ digest \in [Requests -> Digests \cup {NoRef}]
    /\ gone \in [Requests -> BOOLEAN]
    /\ listed \in [Requests -> Nat] /\ size \in [Requests -> Nat]
    /\ pos \in [Requests -> Nat] /\ when \in [Requests -> Nat]
    /\ read \in [Requests -> SUBSET Nat]

\* A request has its digest from the lookup on.
DigestInv ==
    \A q \in Requests :
        /\ pc[q] = "resolve" => ref[q] \in Tags
        /\ pc[q] \in {"lookup", "list", "walk", "fill", "answered"} => digest[q] \in Digests

\* The inductive invariant.
ClientInv == TypeInv /\ DigestInv /\ NeverEmptyByAccident

-----------------------------------------------------------------------------
\* The setup of a behaviour is one of those assumed, and stays.
LEMMA SetupHolds ==
    ASSUME setup \in Setups
    PROVE  Setting /\ (UNCHANGED setup => Same)
  BY ClientAssumption DEF Setting, Same, Digests, Tags, Asked

\* The client starts with empty caches.
LEMMA ClientInit ==
    ASSUME Setting, Init
    PROVE  ClientInv
  <1> USE DEF Init
  <1>1. attached \in [Digests -> Seq(Referrer)]
    BY DEF Referrer, Kinds
  <1>2. TypeInv
    BY <1>1 DEF TypeInv, Places, Methods
  <1>3. DigestInv
    BY DEF DigestInv
  <1>4. NeverEmptyByAccident
    BY DEF NeverEmptyByAccident
  <1> QED
    BY <1>2, <1>3, <1>4 DEF ClientInv

\* What lru.Add leaves: the new entry, and of the others what was there or nothing.
LEMMA AddKeeps ==
    ASSUME TypeInv, NEW m \in Cached, NEW d \in Digests, NEW e \in Entry, Add(m, d, e)
    PROVE  /\ cache' \in [Cached -> [Digests -> Entry \cup {NoEntry}]]
           /\ \A n \in Cached, x \in Digests :
                 \/ n = m /\ x = d /\ cache'[n][x] = e
                 \/ cache'[n][x] = cache[n][x]
                 \/ cache'[n][x] = NoEntry
  <1>1. CASE cache' = [cache EXCEPT ![m][d] = e]
    BY <1>1 DEF TypeInv
  <1>2. ASSUME NEW x \in Digests,
               cache' = [cache EXCEPT ![m] =
                   [y \in Digests |-> IF y = d THEN e ELSE IF y = x THEN NoEntry ELSE @[y]]]
        PROVE  /\ cache' \in [Cached -> [Digests -> Entry \cup {NoEntry}]]
               /\ \A n \in Cached, y \in Digests :
                     \/ n = m /\ y = d /\ cache'[n][y] = e
                     \/ cache'[n][y] = cache[n][y]
                     \/ cache'[n][y] = NoEntry
    BY <1>2 DEF TypeInv
  <1> QED
    BY <1>1, <1>2 DEF Add

\* The steps of a request that neither answer nor fill.
Moves(q) ==
    \/ \E m \in Asked, r \in Tags \cup Digests : Call(q, m, r)
    \/ Resolve(q) \/ Miss(q) \/ List(q) \/ Read(q) \/ Skip(q) \/ WalkEnds(q) \/ Fail(q)
    \/ Return(q) \/ Disconnect(q)

\* What one step of request q leaves alone.
Alone(q) ==
    \A p \in Requests \ {q} :
        /\ pc'[p] = pc[p] /\ method'[p] = method[p] /\ ref'[p] = ref[p] /\ digest'[p] = digest[p]
        /\ gone'[p] = gone[p] /\ listed'[p] = listed[p] /\ size'[p] = size[p]
        /\ pos'[p] = pos[p] /\ read'[p] = read[p] /\ when'[p] = when[p]

\* They keep the types, and leave the registry, the caches and other requests alone.
LEMMA MovesStep ==
    ASSUME Setting, Same, TypeInv, DigestInv, NEW q \in Requests, Moves(q)
    PROVE  TypeInv' /\ DigestInv' /\ Alone(q) /\ pc'[q] # "answered" /\ UNCHANGED <<clock, registry, cache>>
  <1> USE DEF Same
  <1> DEFINE Goal == TypeInv' /\ DigestInv' /\ Alone(q) /\ pc'[q] # "answered"
                     /\ UNCHANGED <<clock, registry, cache>>
  <1> USE DEF TypeInv, DigestInv, Alone, Goto, request, registry, Places
  <1>1. ASSUME NEW m \in Asked, NEW r \in Tags \cup Digests, Call(q, m, r)
        PROVE  Goal
    <2> USE DEF Call
    <2>1. CASE r \in Digests
      <3>1. /\ pc' = [pc EXCEPT ![q] = "lookup"] /\ digest' = [digest EXCEPT ![q] = r]
            /\ method' = [method EXCEPT ![q] = m] /\ ref' = [ref EXCEPT ![q] = r]
            /\ UNCHANGED <<clock, registry, cache, gone, listed, size, pos, read, when>>
        BY <1>1, <2>1
      <3>2. TypeInv'
        BY <3>1, <2>1 DEF Setting
      <3>3. DigestInv'
        BY <3>1, <2>1
      <3> QED
        BY <3>1, <3>2, <3>3
    <2>2. CASE r \notin Digests
        BY <1>1, <2>2 DEF Setting
    <2> QED
        BY <2>1, <2>2
  <1>2. ASSUME Resolve(q)
        PROVE  Goal
    BY <1>2 DEF Resolve
  <1>3. ASSUME Miss(q)
        PROVE  Goal
    BY <1>3 DEF Miss
  <1>4. ASSUME List(q)
        PROVE  Goal
    BY <1>4 DEF List
  <1>5. ASSUME Read(q)
        PROVE  Goal
    BY <1>5 DEF Read
  <1>6. ASSUME Skip(q)
        PROVE  Goal
    BY <1>6 DEF Skip
  <1>7. ASSUME WalkEnds(q)
        PROVE  Goal
    BY <1>7 DEF WalkEnds
  <1>8. ASSUME Fail(q)
        PROVE  Goal
    BY <1>8 DEF Fail
  <1>9. ASSUME Return(q)
        PROVE  Goal
    BY <1>9 DEF Return, Methods
  <1>10. ASSUME Disconnect(q)
        PROVE  Goal
    BY <1>10 DEF Disconnect
  <1> QED
    BY <1>1, <1>2, <1>3, <1>4, <1>5, <1>6, <1>7, <1>8, <1>9, <1>10 DEF Moves

\* A hit answers with what was cached.
LEMMA HitStep ==
    ASSUME Same, ClientInv, NEW q \in Requests, Hit(q)
    PROVE  ClientInv' /\ Alone(q)
  <1> USE DEF ClientInv, Same
  <1>1. /\ method[q] \in Cached /\ digest[q] \in Digests
        /\ cache[method[q]][digest[q]] # NoEntry
        /\ cache[method[q]][digest[q]] \in Entry
    BY DEF Hit, Valid, TypeInv, DigestInv
  <1>2. TypeInv' /\ DigestInv' /\ Alone(q)
    BY <1>1 DEF Hit, TypeInv, DigestInv, Alone, Goto, registry, Places, Entry
  <1>3. Found(q)'
    <2>1. Of(Needed(method[q]), digest[q], cache[method[q]][digest[q]].from) # {}
      BY <1>1 DEF NeverEmptyByAccident
    <2>2. /\ UNCHANGED <<attached, method, digest>>
          /\ read'[q] = cache[method[q]][digest[q]].from
      BY DEF Hit, registry, TypeInv
    <2> QED
      BY <2>1, <2>2 DEF Found, Of
  <1>4. \A p \in Requests \ {q} : pc'[p] = "answered" => Found(p)'
    BY <1>2 DEF Hit, Alone, Found, Of, registry, NeverEmptyByAccident
  <1>5. NeverEmptyByAccident'
    BY <1>3, <1>4 DEF Hit, NeverEmptyByAccident, Of, registry
  <1> QED
    BY <1>2, <1>5

\* An answer caches the statements it was found in, and nothing else enters a cache.
LEMMA FillStep ==
    ASSUME Setting, Same, ClientInv, NEW q \in Requests, Fill(q)
    PROVE  /\ ClientInv' /\ Alone(q)
           /\ \A m \in Cached, d \in Digests :
                 \/ /\ m = method[q] /\ d = digest[q]
                    /\ cache'[m][d] = [from |-> read[q], listed |-> listed[q],
                                       expires |-> clock + TTL]
                 \/ cache'[m][d] = cache[m][d]
                 \/ cache'[m][d] = NoEntry
  <1> DEFINE e == [from |-> read[q], listed |-> listed[q], expires |-> clock + TTL]
  <1> USE DEF ClientInv, Same
  <1>1. e \in Entry
    BY DEF TypeInv, Entry, Setting
  <1>2. digest[q] \in Digests
    BY DEF Fill, DigestInv
  <1>3. /\ cache' \in [Cached -> [Digests -> Entry \cup {NoEntry}]]
        /\ \A m \in Cached, d \in Digests :
              \/ m = method[q] /\ d = digest[q] /\ cache'[m][d] = e
              \/ cache'[m][d] = cache[m][d]
              \/ cache'[m][d] = NoEntry
    <2> HIDE DEF e
    <2>1. CASE method[q] \in Cached
      <3>1. Add(method[q], digest[q], e)
        BY <2>1 DEF Fill, e
      <3> QED
        BY <3>1, <2>1, <1>1, <1>2, AddKeeps
    <2>2. CASE method[q] \notin Cached
      BY <2>2 DEF Fill, TypeInv
    <2> QED
      BY <2>1, <2>2
  <1>4. TypeInv' /\ DigestInv' /\ Alone(q)
    BY <1>3 DEF Fill, TypeInv, DigestInv, Alone, Goto, registry, Places
  <1>5. \A p \in Requests : pc'[p] = "answered" => Found(p)'
    <2>1. Found(q)'
      BY DEF Fill, Found, Of, registry
    <2>2. \A p \in Requests \ {q} : pc'[p] = "answered" => Found(p)'
      BY <1>4 DEF Fill, Alone, Found, Of, registry, NeverEmptyByAccident
    <2> QED
      BY <2>1, <2>2
  <1>6. \A m \in Cached, d \in Digests : cache'[m][d] # NoEntry =>
           Of(Needed(m), d, cache[m][d].from)' # {}
    <2> TAKE m \in Cached, d \in Digests
    <2>1. CASE m = method[q] /\ d = digest[q] /\ cache'[m][d] = e
      BY <2>1 DEF Fill, Found, Of, registry
    <2>2. CASE cache'[m][d] = cache[m][d]
      BY <2>2 DEF Fill, Of, registry, NeverEmptyByAccident
    <2> QED
      BY <2>1, <2>2, <1>3
  <1> QED
    BY <1>3, <1>4, <1>5, <1>6 DEF NeverEmptyByAccident

\* What was attached stays attached.
LEMMA AttachKeeps ==
    ASSUME TypeInv, NEW d \in Digests, NEW k \in {"scan", "vex"}, Attach(d, k)
    PROVE  /\ attached' \in [Digests -> Seq(Referrer)]
           /\ \A x \in Digests : \A n \in DOMAIN attached[x] :
                 n \in DOMAIN attached'[x] /\ attached'[x][n] = attached[x][n]
           /\ \A x \in Digests : \A n \in DOMAIN attached'[x] :
                 n \in DOMAIN attached[x] \/ attached'[x][n].at = clock
  <1>1. attached[d] \in Seq(Referrer) /\ [kind |-> k, at |-> clock] \in Referrer
    BY DEF TypeInv, Referrer, Kinds
  <1>2. attached' = [attached EXCEPT ![d] = Append(attached[d], [kind |-> k, at |-> clock])]
    BY DEF Attach
  <1>3. attached' \in [Digests -> Seq(Referrer)]
    BY <1>1, <1>2 DEF TypeInv
  <1>4. \A x \in Digests \ {d} : attached'[x] = attached[x]
    BY <1>2 DEF TypeInv
  <1>5. attached'[d] = Append(attached[d], [kind |-> k, at |-> clock])
    BY <1>2 DEF TypeInv
  <1>6. /\ \A n \in DOMAIN attached[d] :
              n \in DOMAIN attached'[d] /\ attached'[d][n] = attached[d][n]
        /\ \A n \in DOMAIN attached'[d] :
              n \in DOMAIN attached[d] \/ attached'[d][n].at = clock
    BY <1>1, <1>5
  <1> QED
    BY <1>3, <1>4, <1>6

\* The steps of the world: a referrer, a tag, the time.
World ==
    \/ \E d \in Digests, k \in {"scan", "vex"} : Attach(d, k)
    \/ \E t \in Tags, d \in Digests : MoveTag(t, d)
    \/ Tick

\* New evidence, a moving tag and the clock keep the invariant and touch no request
\* and no cache.
LEMMA WorldStep ==
    ASSUME Same, ClientInv, World
    PROVE  ClientInv' /\ UNCHANGED <<cache, pc, request>>
  <1> USE DEF ClientInv, TypeInv, DigestInv, request, Same
  <1>1. ASSUME NEW d \in Digests, NEW k \in {"scan", "vex"}, Attach(d, k)
        PROVE  ClientInv' /\ UNCHANGED <<cache, pc, request>>
    <2>1. /\ TypeInv' /\ DigestInv' /\ UNCHANGED <<cache, pc, request>>
      BY <1>1, AttachKeeps DEF Attach
    <2>2. \A x \in Digests, j \in {"sbom", "scan"}, S \in SUBSET Nat :
             Of(j, x, S) # {} => Of(j, x, S)' # {}
      BY <1>1, AttachKeeps DEF Of
    <2>3. \A p \in Requests : pc'[p] = "answered" => Found(p)'
      BY <2>1, <2>2 DEF NeverEmptyByAccident, Found, Needed
    <2>4. \A m \in Cached, x \in Digests : cache'[m][x] # NoEntry =>
             Of(Needed(m), x, cache[m][x].from)' # {}
      <3> TAKE m \in Cached, x \in Digests
      <3> HAVE cache'[m][x] # NoEntry
      <3>1. cache[m][x] \in Entry /\ cache[m][x].from \in SUBSET Nat
        BY <2>1 DEF Entry
      <3>2. Of(Needed(m), x, cache[m][x].from) # {}
        BY <2>1 DEF NeverEmptyByAccident
      <3>3. Needed(m) \in {"sbom", "scan"}
        BY DEF Needed
      <3> QED
        BY <2>1, <2>2, <3>1, <3>2, <3>3 DEF Of
    <2> QED
      BY <2>1, <2>3, <2>4 DEF NeverEmptyByAccident
  <1>2. ASSUME NEW t \in Tags, NEW d \in Digests, MoveTag(t, d)
        PROVE  ClientInv' /\ UNCHANGED <<cache, pc, request>>
    BY <1>2 DEF MoveTag, NeverEmptyByAccident, Found, Of
  <1>3. ASSUME Tick
        PROVE  ClientInv' /\ UNCHANGED <<cache, pc, request>>
    BY <1>3 DEF Tick, registry, NeverEmptyByAccident, Found, Of
  <1> QED
    BY <1>1, <1>2, <1>3 DEF World

\* Every step is one of these.
LEMMA StepKinds ==
    ASSUME Next
    PROVE  World \/ \E q \in Requests : Moves(q) \/ Hit(q) \/ Fill(q)
  BY DEF Next, Serve, World, Moves

\* Every step keeps the invariant.
LEMMA ClientStep ==
    ASSUME Setting, Same, ClientInv, [Next]_vars
    PROVE  ClientInv'
  <1> USE DEF Same
  <1>1. ASSUME NEW q \in Requests, Moves(q)
        PROVE  ClientInv'
    <2>1. TypeInv' /\ DigestInv' /\ Alone(q) /\ pc'[q] # "answered" /\ UNCHANGED <<registry, cache>>
      BY <1>1, MovesStep DEF ClientInv
    <2>2. NeverEmptyByAccident'
      BY <2>1 DEF ClientInv, Alone, NeverEmptyByAccident, Found, Of, registry
    <2> QED
      BY <2>1, <2>2 DEF ClientInv
  <1>2. ASSUME NEW q \in Requests, Hit(q)
        PROVE  ClientInv'
    BY <1>2, HitStep
  <1>3. ASSUME NEW q \in Requests, Fill(q)
        PROVE  ClientInv'
    BY <1>3, FillStep
  <1>4. CASE World
    BY <1>4, WorldStep
  <1>5. CASE UNCHANGED vars
    BY <1>5 DEF vars, registry, request, ClientInv, TypeInv, DigestInv, NeverEmptyByAccident, Found, Of
  <1> QED
    BY <1>1, <1>2, <1>3, <1>4, <1>5, StepKinds

\* "an empty table reads as a clean result": whatever disconnects, failed reads
\* and evictions do, nothing that lacks the statement it is about is answered or
\* cached (Scan, SBOM, eachStatement).
THEOREM NeverEmpty == Spec => []NeverEmptyByAccident
  <1> DEFINE Inv == setup \in Setups /\ ClientInv
  <1>1. Init => Inv
    BY SetupHolds, ClientInit DEF Init
  <1>2. Inv /\ [Next]_vars => Inv'
    <2> SUFFICES ASSUME Inv, [Next]_vars
                 PROVE  Inv'
      OBVIOUS
    <2>1. setup' = setup
      BY DEF Next, vars
    <2>2. Setting /\ Same
      BY <2>1, SetupHolds
    <2> QED
      BY <2>1, <2>2, ClientStep
  <1>3. Inv => NeverEmptyByAccident
    BY DEF ClientInv
  <1> QED
    BY <1>1, <1>2, <1>3, PTL DEF Spec

-----------------------------------------------------------------------------
(***************************************************************************)
(* How old an answer about scans can be, when the registry answers and     *)
(* readers wait.                                                           *)
(***************************************************************************)

\* S has every referrer attached to d before t.
SawAll(d, S, t) == \A n \in DOMAIN attached[d] : attached[d][n].at < t => n \in S

PastInv == \A d \in Digests : \A n \in DOMAIN attached[d] : attached[d][n].at <= clock

\* A referrer was attached at a time.
LEMMA AtIsATime ==
    ASSUME TypeInv, NEW d \in Digests, NEW n \in DOMAIN attached[d]
    PROVE  attached[d][n].at \in Nat
  <1>1. attached[d] \in Seq(Referrer)
    BY DEF TypeInv
  <1>2. attached[d] \in [1 .. Len(attached[d]) -> Referrer] /\ n \in 1 .. Len(attached[d])
    BY <1>1
  <1>3. attached[d][n] \in Referrer
    BY <1>2
  <1> QED
    BY <1>3 DEF Referrer

\* A walk reads all it visits, visits all the listing had, and ends in time.
WalkInv ==
    \A q \in Requests : Walking(q) /\ method[q] \in Scanning =>
        /\ listed[q] <= clock /\ clock <= listed[q] + Slowest
        /\ pos[q] <= size[q] /\ 1 .. pos[q] \subseteq read[q]
        /\ pc[q] = "fill" => pos[q] = size[q]
        /\ SawAll(digest[q], 1 .. size[q], listed[q])

\* A scan entry has all its listing had, and expires a TTL after the walk.
EntryInv ==
    \A m \in Cached \ {"SBOM"}, d \in Digests : cache[m][d] # NoEntry =>
        /\ cache[m][d].listed <= clock
        /\ cache[m][d].expires <= cache[m][d].listed + TTL + Slowest
        /\ SawAll(d, cache[m][d].from, cache[m][d].listed)

\* SawLate(q): the answer of q has all that was attached TTL + Slowest before it.
SawLate(q) ==
    \A n \in DOMAIN attached[digest[q]] :
        attached[digest[q]][n].at + TTL + Slowest < when[q] => n \in read[q]

AnswerInv ==
    \A q \in Requests : pc[q] = "answered" /\ method[q] \in Scanning =>
        when[q] <= clock /\ SawLate(q)

FreshInv == PastInv /\ WalkInv /\ EntryInv /\ AnswerInv /\ \A q \in Requests : ~gone[q]

\* With no walk, no entry and no answer, nothing is stale.
LEMMA FreshInit ==
    ASSUME Setting, Init
    PROVE  FreshInv
  BY DEF Setting, Init, FreshInv, PastInv, WalkInv, EntryInv, AnswerInv, Walking

\* A request that neither answers nor fills.
LEMMA FreshMoves ==
    ASSUME Setting, Same, ~Impatient, ~Flaky, ClientInv, FreshInv,
           NEW q \in Requests, Moves(q)
    PROVE  FreshInv'
  <1> USE DEF ClientInv, Same
  <1>1. /\ TypeInv' /\ DigestInv' /\ Alone(q) /\ pc'[q] # "answered"
        /\ UNCHANGED <<clock, registry, cache>>
    BY MovesStep
  <1>2. PastInv' /\ EntryInv'
    BY <1>1 DEF registry, FreshInv, PastInv, EntryInv, SawAll
  <1>3. AnswerInv'
    BY <1>1 DEF registry, FreshInv, AnswerInv, SawLate, Alone
  <1>4. \A p \in Requests : ~gone'[p]
    BY DEF FreshInv, TypeInv, Moves, Call, Resolve, Miss, List, Read, Skip, WalkEnds, Fail,
           Return, Disconnect, request
  <1>5. WalkInv'
    <2> SUFFICES ASSUME Walking(q)', method'[q] \in Scanning
                 PROVE  /\ listed'[q] <= clock' /\ clock' <= listed'[q] + Slowest
                        /\ pos'[q] <= size'[q] /\ 1 .. pos'[q] \subseteq read'[q]
                        /\ pc'[q] = "fill" => pos'[q] = size'[q]
                        /\ SawAll(digest[q], 1 .. size[q], listed[q])'
      BY <1>1 DEF FreshInv, WalkInv, Walking, SawAll, Alone, registry
    <2>1. CASE List(q)
      <3>1. /\ listed'[q] = clock /\ pos'[q] = 0 /\ pc'[q] = "walk" /\ digest'[q] = digest[q]
            /\ size'[q] = Len(attached[digest[q]]) /\ digest[q] \in Digests
            /\ UNCHANGED <<clock, attached>>
        BY <2>1 DEF List, Goto, TypeInv, DigestInv, registry
      <3>2. attached[digest[q]] \in Seq(Referrer)
        BY <3>1 DEF TypeInv
      <3>3. DOMAIN attached[digest[q]] = 1 .. size'[q] /\ size'[q] \in Nat
        BY <3>1, <3>2
      <3>4. SawAll(digest[q], 1 .. size[q], listed[q])'
        BY <3>1, <3>3 DEF SawAll
      <3>5. clock \in Nat /\ Slowest \in Nat
        BY DEF TypeInv, Setting
      <3> QED
        BY <3>1, <3>3, <3>4, <3>5
    <2>2. CASE Read(q)
      <3>1. /\ pos'[q] = pos[q] + 1 /\ read'[q] = read[q] \cup {pos[q] + 1} /\ pos[q] < size[q]
            /\ UNCHANGED <<clock, attached, digest, size, listed, method>>
            /\ Walking(q) /\ pos[q] \in Nat /\ size[q] \in Nat
        BY <2>2 DEF Read, TypeInv, registry, Walking
      <3>2. pc'[q] = "walk"
        BY <2>2, <3>1 DEF Read, Goto, Stops, Scanning, TypeInv
      <3>3. SawAll(digest[q], 1 .. size[q], listed[q])'
        BY <3>1 DEF FreshInv, WalkInv, SawAll
      <3>4. listed[q] <= clock /\ clock <= listed[q] + Slowest /\ 1 .. pos[q] \subseteq read[q]
        BY <3>1 DEF FreshInv, WalkInv
      <3> QED
        BY <3>1, <3>2, <3>3, <3>4
    <2>3. CASE WalkEnds(q)
      <3>1. /\ pos[q] = size[q] /\ Walking(q)
            /\ UNCHANGED <<clock, attached, digest, size, listed, method, pos, read>>
        BY <2>3 DEF WalkEnds, registry, request, Walking
      <3> QED
        BY <3>1 DEF FreshInv, WalkInv, SawAll
    <2>4. CASE Skip(q)
      BY <2>4 DEF Skip, FreshInv
    <2> QED
      <3>1. pc'[q] \in {"walk", "fill"}
        BY DEF Walking
      <3>2. List(q) \/ Read(q) \/ WalkEnds(q) \/ Skip(q)
        BY <3>1 DEF Moves, Call, Resolve, Miss, Fail, Return, Disconnect, Goto, TypeInv
      <3> QED
        BY <3>2, <2>1, <2>2, <2>3, <2>4
  <1> QED
    BY <1>2, <1>3, <1>4, <1>5 DEF FreshInv

\* A hit is no older than its entry may be.
LEMMA FreshHit ==
    ASSUME Setting, Same, ClientInv, FreshInv, NEW q \in Requests, Hit(q)
    PROVE  FreshInv'
  <1> USE DEF ClientInv, Same
  <1>1. TypeInv' /\ Alone(q) /\ UNCHANGED <<clock, registry, cache, gone, digest, method>>
    BY HitStep DEF Hit
  <1>2. PastInv' /\ EntryInv' /\ \A p \in Requests : ~gone'[p]
    BY <1>1 DEF registry, FreshInv, PastInv, EntryInv, SawAll
  <1>3. pc'[q] = "answered" /\ when'[q] = clock /\ read'[q] = cache[method[q]][digest[q]].from
    BY DEF Hit, Goto, TypeInv
  <1>4. WalkInv'
    BY <1>1, <1>3 DEF FreshInv, WalkInv, Walking, SawAll, Alone, registry
  <1>5. ASSUME method'[q] \in Scanning
        PROVE  when'[q] <= clock' /\ SawLate(q)'
    <2> DEFINE e == cache[method[q]][digest[q]]
    <2>1. /\ method[q] \in Cached \ {"SBOM"} /\ digest[q] \in Digests
          /\ e # NoEntry /\ e \in Entry /\ clock <= e.expires
      BY <1>1, <1>5 DEF Hit, Valid, TypeInv, DigestInv, Scanning
    <2>2. e.expires <= e.listed + TTL + Slowest /\ SawAll(digest[q], e.from, e.listed)
      BY <2>1 DEF FreshInv, EntryInv
    <2>3. clock \in Nat /\ e.expires \in Nat /\ e.listed \in Nat /\ TTL \in Nat /\ Slowest \in Nat
      BY <2>1 DEF Entry, TypeInv, Setting
    <2>4. \A n \in DOMAIN attached[digest[q]] : attached[digest[q]][n].at \in Nat
      BY <2>1, AtIsATime
    <2>5. \A n \in DOMAIN attached[digest[q]] :
             attached[digest[q]][n].at + TTL + Slowest < clock => n \in e.from
      <3> HIDE DEF e
      <3> TAKE n \in DOMAIN attached[digest[q]]
      <3> DEFINE a == attached[digest[q]][n].at
      <3>1. a \in Nat /\ (a < e.listed => n \in e.from)
        BY <2>2, <2>4 DEF SawAll
      <3> HIDE DEF a
      <3>2. a + TTL + Slowest < clock => a < e.listed
        BY <3>1, <2>1, <2>2, <2>3
      <3> QED
        BY <3>1, <3>2 DEF a
    <2> QED
      BY <1>1, <1>3, <2>3, <2>5 DEF SawLate, registry
  <1>6. AnswerInv'
    BY <1>1, <1>3, <1>5 DEF FreshInv, AnswerInv, SawLate, Alone, registry
  <1> QED
    BY <1>2, <1>4, <1>6 DEF FreshInv

\* What is filled has all its listing had.
LEMMA FreshFill ==
    ASSUME Setting, Same, ClientInv, FreshInv, NEW q \in Requests, Fill(q)
    PROVE  FreshInv'
  <1> USE DEF ClientInv, Same
  <1>1. TypeInv' /\ Alone(q) /\ UNCHANGED <<clock, registry, gone, digest, method, listed, read>>
    BY FillStep DEF Fill
  <1>2. PastInv' /\ \A p \in Requests : ~gone'[p]
    BY <1>1 DEF registry, FreshInv, PastInv
  <1>3. pc'[q] = "answered" /\ when'[q] = clock /\ Walking(q) /\ digest[q] \in Digests /\ pc[q] = "fill"
    BY DEF Fill, Goto, TypeInv, DigestInv, Walking
  <1>4. WalkInv'
    BY <1>1, <1>3 DEF FreshInv, WalkInv, Walking, SawAll, Alone, registry
  <1>5. ASSUME method[q] \in Scanning
        PROVE  /\ listed[q] <= clock /\ clock <= listed[q] + Slowest
               /\ SawAll(digest[q], read[q], listed[q])
    BY <1>3, <1>5 DEF FreshInv, WalkInv, SawAll
  <1>6. EntryInv'
    <2> SUFFICES ASSUME NEW m \in Cached \ {"SBOM"}, NEW d \in Digests, cache'[m][d] # NoEntry
                 PROVE  /\ cache'[m][d].listed <= clock
                        /\ cache'[m][d].expires <= cache'[m][d].listed + TTL + Slowest
                        /\ SawAll(d, cache'[m][d].from, cache'[m][d].listed)
      BY <1>1 DEF EntryInv, SawAll, registry
    <2>1. CASE /\ m = method[q] /\ d = digest[q]
               /\ cache'[m][d] = [from |-> read[q], listed |-> listed[q], expires |-> clock + TTL]
      <3>1. clock \in Nat /\ listed[q] \in Nat /\ TTL \in Nat /\ Slowest \in Nat
        BY DEF TypeInv, Setting
      <3>2. method[q] \in Scanning
        BY <2>1 DEF Cached, Scanning
      <3>3. listed[q] <= clock /\ clock + TTL <= listed[q] + TTL + Slowest
        BY <3>1, <3>2, <1>5
      <3> QED
        BY <2>1, <3>2, <3>3, <1>5
    <2>2. CASE cache'[m][d] = cache[m][d]
      BY <2>2 DEF FreshInv, EntryInv
    <2> QED
      BY <2>1, <2>2, FillStep
  <1>7. method[q] \in Scanning => SawLate(q)'
    <2> SUFFICES ASSUME method[q] \in Scanning, NEW n \in DOMAIN attached[digest[q]],
                        attached[digest[q]][n].at + TTL + Slowest < clock
                 PROVE  n \in read[q]
      BY <1>1, <1>3 DEF SawLate, registry
    <2> DEFINE a == attached[digest[q]][n].at
    <2>1. a \in Nat
      BY <1>3, AtIsATime
    <2>2. clock \in Nat /\ listed[q] \in Nat /\ TTL \in Nat /\ Slowest \in Nat
      BY DEF TypeInv, Setting
    <2>3. a + TTL + Slowest < clock /\ clock <= listed[q] + Slowest
      BY <1>5
    <2> HIDE DEF a
    <2>4. a < listed[q]
      BY <2>1, <2>2, <2>3
    <2> QED
      BY <2>4, <1>5 DEF SawAll, a
  <1>8. AnswerInv'
    <2>1. clock \in Nat
      BY DEF TypeInv
    <2> QED
      BY <2>1, <1>1, <1>3, <1>7 DEF FreshInv, AnswerInv, SawLate, Alone, registry
  <1> QED
    BY <1>2, <1>4, <1>6, <1>8 DEF FreshInv

\* What arrives now is newer than any listing and any answer.
LEMMA FreshAttach ==
    ASSUME Setting, Same, ClientInv, FreshInv,
           NEW d \in Digests, NEW k \in {"scan", "vex"}, Attach(d, k)
    PROVE  FreshInv'
  <1> USE DEF ClientInv, Same
  <1>1. UNCHANGED <<clock, cache, pc, request>>
    BY DEF Attach
  <1>2. clock \in Nat /\ TTL \in Nat /\ Slowest \in Nat
    BY DEF TypeInv, Setting
  <1>3. \A x \in Digests : \A n \in DOMAIN attached'[x] :
           \/ n \in DOMAIN attached[x] /\ attached'[x][n] = attached[x][n]
           \/ attached'[x][n].at = clock
    BY AttachKeeps
  <1>4. ASSUME NEW x \in Digests, NEW S, NEW t \in Nat, t <= clock, SawAll(x, S, t)
        PROVE  SawAll(x, S, t)'
    BY <1>2, <1>3, <1>4 DEF SawAll
  <1>5. PastInv'
    BY <1>1, <1>2, <1>3 DEF FreshInv, PastInv
  <1>6. WalkInv'
    <2> SUFFICES ASSUME NEW q \in Requests, Walking(q), method[q] \in Scanning
                 PROVE  SawAll(digest[q], 1 .. size[q], listed[q])'
      BY <1>1 DEF FreshInv, WalkInv, Walking, request
    <2>1. digest[q] \in Digests /\ listed[q] \in Nat
      BY DEF TypeInv, DigestInv, Walking
    <2>2. listed[q] <= clock /\ SawAll(digest[q], 1 .. size[q], listed[q])
      BY DEF FreshInv, WalkInv
    <2> QED
      BY <1>1, <1>4, <2>1, <2>2 DEF SawAll, request
  <1>7. EntryInv'
    <2> SUFFICES ASSUME NEW m \in Cached \ {"SBOM"}, NEW x \in Digests, cache[m][x] # NoEntry
                 PROVE  SawAll(x, cache[m][x].from, cache[m][x].listed)'
      BY <1>1 DEF FreshInv, EntryInv, SawAll
    <2>1. cache[m][x] \in Entry
      BY DEF TypeInv
    <2>2. cache[m][x].listed \in Nat
      BY <2>1 DEF Entry
    <2>3. cache[m][x].listed <= clock /\ SawAll(x, cache[m][x].from, cache[m][x].listed)
      BY DEF FreshInv, EntryInv
    <2> QED
      BY <1>1, <1>4, <2>2, <2>3 DEF SawAll
  <1>8. AnswerInv'
    <2> SUFFICES ASSUME NEW q \in Requests, pc[q] = "answered", method[q] \in Scanning,
                        NEW n \in DOMAIN attached'[digest[q]],
                        attached'[digest[q]][n].at + TTL + Slowest < when[q]
                 PROVE  n \in read[q]
      BY <1>1 DEF FreshInv, AnswerInv, SawLate, request
    <2>1. digest[q] \in Digests /\ when[q] \in Nat
      BY DEF TypeInv, DigestInv
    <2>2. when[q] <= clock /\ SawLate(q)
      BY DEF FreshInv, AnswerInv
    <2>3. CASE attached'[digest[q]][n].at = clock
      BY <2>1, <2>2, <2>3, <1>2
    <2>4. CASE n \in DOMAIN attached[digest[q]] /\ attached'[digest[q]][n] = attached[digest[q]][n]
      BY <2>2, <2>4 DEF SawLate
    <2> QED
      BY <2>1, <2>3, <2>4, <1>3
  <1> QED
    BY <1>1, <1>5, <1>6, <1>7, <1>8 DEF FreshInv, request

\* Evidence that arrives and time that passes make a walk, an entry and an answer no
\* staler than their bounds.
LEMMA FreshWorld ==
    ASSUME Setting, Same, ClientInv, FreshInv, World
    PROVE  FreshInv'
  <1> USE DEF Same
  <1>1. ASSUME NEW t \in Tags, NEW d \in Digests, MoveTag(t, d)
        PROVE  FreshInv'
    BY <1>1 DEF MoveTag, request, FreshInv, PastInv, WalkInv, EntryInv, AnswerInv, SawAll,
                SawLate, Walking
  <1>2. ASSUME Tick
        PROVE  FreshInv'
    <2> USE <1>2 DEF ClientInv
    <2>1. UNCHANGED <<attached, cache, pc, request>> /\ clock' = clock + 1 /\ clock \in Nat
      BY DEF Tick, registry, TypeInv
    <2>2. PastInv'
      <3> SUFFICES ASSUME NEW d \in Digests, NEW n \in DOMAIN attached[d]
                   PROVE  attached[d][n].at <= clock + 1
        BY <2>1 DEF PastInv
      <3>1. attached[d][n].at \in Nat /\ attached[d][n].at <= clock
        BY AtIsATime DEF FreshInv, PastInv
      <3> QED
        BY <3>1, <2>1
    <2>3. WalkInv'
      <3> SUFFICES ASSUME NEW q \in Requests, Walking(q), method[q] \in Scanning
                   PROVE  listed[q] <= clock + 1 /\ clock + 1 <= listed[q] + Slowest
        BY <2>1 DEF FreshInv, WalkInv, Walking, SawAll, request
      <3>1. listed[q] \in Nat /\ Slowest \in Nat /\ listed[q] <= clock /\ clock < listed[q] + Slowest
        BY DEF FreshInv, WalkInv, Tick, TypeInv, Setting
      <3> QED
        BY <3>1, <2>1
    <2>4. EntryInv'
      <3> SUFFICES ASSUME NEW m \in Cached \ {"SBOM"}, NEW d \in Digests, cache[m][d] # NoEntry
                   PROVE  cache[m][d].listed <= clock + 1
        BY <2>1 DEF FreshInv, EntryInv, SawAll
      <3>1. cache[m][d] \in Entry
        BY DEF TypeInv
      <3>2. cache[m][d].listed \in Nat /\ cache[m][d].listed <= clock
        BY <3>1 DEF Entry, FreshInv, EntryInv
      <3> QED
        BY <3>2, <2>1
    <2>5. AnswerInv'
      <3> SUFFICES ASSUME NEW q \in Requests, pc[q] = "answered", method[q] \in Scanning
                   PROVE  when[q] <= clock + 1
        BY <2>1 DEF FreshInv, AnswerInv, SawLate, request
      <3>1. when[q] \in Nat /\ when[q] <= clock
        BY DEF FreshInv, AnswerInv, TypeInv
      <3> QED
        BY <3>1, <2>1
    <2> QED
      BY <2>1, <2>2, <2>3, <2>4, <2>5 DEF FreshInv, request
  <1> QED
    BY <1>1, <1>2, FreshAttach DEF World

\* "a reader should see it within the hour": with a registry that answers and
\* readers that wait, whatever requests race to fill the caches, an answer about
\* scans has every scan and VEX document attached longer ago than the TTL and the
\* time of a walk (Scan, defaultScanTTL).
THEOREM SeenInTime == Spec => []SeenWithinTTL
  <1> DEFINE Calm == ~Impatient /\ ~Flaky
  <1> DEFINE Inv == setup \in Setups /\ ClientInv /\ (Calm => FreshInv)
  <1>1. Init => Inv
    BY SetupHolds, ClientInit, FreshInit DEF Init
  <1>2. Inv /\ [Next]_vars => Inv'
    <2> SUFFICES ASSUME Inv, [Next]_vars
                 PROVE  Inv'
      OBVIOUS
    <2>1. setup' = setup /\ (Calm' => Calm)
      BY DEF Next, vars, Impatient, Flaky
    <2>2. Setting /\ Same
      BY <2>1, SetupHolds
    <2>3. ClientInv'
      BY <2>2, ClientStep
    <2>4. ASSUME Calm, Next
          PROVE  FreshInv'
      <3> USE <2>4
      <3>1. FreshInv
        OBVIOUS
      <3>2. CASE World
        BY <3>1, <3>2, <2>2, FreshWorld
      <3>3. ASSUME NEW q \in Requests, Moves(q) \/ Hit(q) \/ Fill(q)
            PROVE  FreshInv'
        BY <3>1, <3>3, <2>2, FreshMoves, FreshHit, FreshFill
      <3> QED
        BY <3>2, <3>3, StepKinds
    <2>5. ASSUME Calm, UNCHANGED vars
          PROVE  FreshInv'
      BY <2>2, <2>5 DEF Same, vars, registry, request, FreshInv, PastInv, WalkInv, EntryInv,
                        AnswerInv, SawAll, SawLate, Walking
    <2> QED
      BY <2>1, <2>3, <2>4, <2>5
  <1>3. Inv => SeenWithinTTL
    BY DEF FreshInv, AnswerInv, SawLate, SeenWithinTTL, InTime
  <1> QED
    BY <1>1, <1>2, <1>3, PTL DEF Spec
=============================================================================
