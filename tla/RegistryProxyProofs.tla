------------------------- MODULE RegistryProxyProofs -------------------------
(***************************************************************************)
(* Proofs about RegistryProxy, for any repositories, requests, size of the *)
(* cache, moves and steps of the clock.                                    *)
(***************************************************************************)
EXTENDS RegistryProxy, SequenceTheorems, TLAPS

\* What Begin makes of a request.
Fields == {"pc", "path", "method", "waiting", "etag", "since", "scope", "status", "body"}

\* A transport's token is for the repository it is cached under.
Transport == {[key |-> repo, scope |-> repo] : repo \in Repos}
TransportInv == transports \in Seq(Transport)

\* What goes upstream is about a repository, with the token of that repository.
Scoped(request) ==
    \/ request = Idle
    \/ /\ DOMAIN request = Fields
       /\ request.pc \in {"lookup", "token", "send"} => request.path \in Named
       /\ request.pc = "send" => request.scope = ExtractRepo(request.path)

ConnInv ==
    /\ conn = [c \in Conns |-> conn[c]]
    /\ \A c \in Conns : Scoped(conn[c])

SetupInv == setup \in Setups

\* The inductive invariant of the tokens.
ProxyInv == SetupInv /\ TransportInv /\ ConnInv

-----------------------------------------------------------------------------
\* What is assumed of a setup holds of the one that a behaviour is about.
LEMMA Setting ==
    ASSUME SetupInv
    PROVE  /\ MaxTransports \in Nat \ {0} /\ TickSeconds \in 30 .. 3600
           /\ (\E target \in Targets : target[1] = "blobs") => TickSeconds \in {30, 50, 60}
           /\ Repos \subseteq Seq(STRING) \ {<<>>}
           /\ \A target \in Targets :
                 /\ target \in Seq(STRING) /\ target # <<>> /\ target[1] \in Ops
                 /\ \A i \in 2 .. Len(target) : target[i] \notin Ops
           /\ \A p \in Locals : p \in {V2, Catalog} \/ p[1] # "v2"
  BY ProxyAssumption
  DEF SetupInv, Sound, MaxTransports, TickSeconds, Targets, Repos, Locals

\* A behaviour keeps its setup, and what is defined by it.
LEMMA SameSetup ==
    ASSUME UNCHANGED setup
    PROVE  /\ Repos' = Repos /\ Targets' = Targets /\ Named' = Named /\ Locals' = Locals
           /\ Transport' = Transport /\ TickSeconds' = TickSeconds
  BY DEF Repos, Targets, Named, Locals, Transport, TickSeconds

-----------------------------------------------------------------------------
\* What is in a sequence that was put together from two.
LEMMA Joined ==
    ASSUME NEW S, NEW s \in Seq(S), NEW t \in Seq(S)
    PROVE  /\ s \o t \in Seq(S) /\ Len(s \o t) = Len(s) + Len(t)
           /\ \A i \in 1 .. Len(s) : (s \o t)[i] = s[i]
           /\ \A i \in 1 .. Len(t) : (s \o t)[Len(s) + i] = t[i]
  <1>1. Len(s) \in Nat /\ Len(t) \in Nat
    OBVIOUS
  <1>2. \A i \in 1 .. Len(s) + Len(t) : (s \o t)[i] = IF i <= Len(s) THEN s[i] ELSE t[i - Len(s)]
    BY ConcatProperties
  <1>3. ASSUME NEW i \in 1 .. Len(t)
        PROVE  (s \o t)[Len(s) + i] = t[i]
    <2>1. Len(s) + i \in 1 .. Len(s) + Len(t) /\ ~(Len(s) + i <= Len(s)) /\ (Len(s) + i) - Len(s) = i
      BY <1>1
    <2> QED
      BY <1>2, <2>1
  <1> QED
    BY <1>1, <1>2, <1>3, ConcatProperties

\* The segments of a path; the last operation among them begins the target.
LEMMA PathParts ==
    ASSUME SetupInv, NEW repo \in Repos, NEW target \in Targets
    PROVE  LET p == V2 \o repo \o target
               n == Len(repo)
               m == Len(target)
           IN  /\ n \in Nat /\ n >= 1 /\ m \in Nat /\ m >= 1
               /\ p \in Seq(STRING \cup {"v2"}) /\ Len(p) = 1 + n + m
               /\ Rest(p) \in Seq(STRING \cup {"v2"}) /\ Len(Rest(p)) = n + m
               /\ \A i \in 1 .. n + m : Rest(p)[i] = p[i + 1]
               /\ \A i \in 1 .. n : Rest(p)[i] = repo[i]
               /\ \A i \in 1 .. m : Rest(p)[n + i] = target[i]
               /\ FindOp(Rest(p)) = n + 1
               /\ \A i \in 1 .. n + m : Rest(p)[i] \in Ops => i <= n + 1
  <1> DEFINE S == STRING \cup {"v2"}
             n == Len(repo)
             m == Len(target)
             q == V2 \o repo
             p == q \o target
             rest == Tail(p)
             ops == {i \in DOMAIN rest : rest[i] \in Ops}
  <1>1. repo \in Seq(S) /\ repo # <<>> /\ target \in Seq(S) /\ target # <<>>
    <2>1. repo \in Seq(STRING) /\ target \in Seq(STRING) /\ repo # <<>> /\ target # <<>>
      BY Setting
    <2>2. \A s \in Seq(STRING) : s \in Seq(S)
      OBVIOUS
    <2> QED
      BY <2>1, <2>2
  <1>2. target[1] \in Ops /\ \A i \in 2 .. m : target[i] \notin Ops
    BY Setting
  <1>3. V2 \in Seq(S) /\ Len(V2) = 1
    <2>1. "v2" \in S
      OBVIOUS
    <2> HIDE DEF S
    <2> QED
      BY <2>1 DEF V2
  <1> HIDE DEF S
  <1>4. n \in Nat /\ n >= 1 /\ m \in Nat /\ m >= 1
    <2>1. Len(repo) \in Nat /\ Len(repo) # 0 /\ Len(target) \in Nat /\ Len(target) # 0
      BY <1>1, EmptySeq
    <2> QED
      BY <2>1
  <1>5. /\ q \in Seq(S) /\ Len(q) = 1 + n
        /\ \A i \in 1 .. n : q[1 + i] = repo[i]
    <2>0. V2 \in Seq(S)
      BY <1>3
    <2>1. /\ q \in Seq(S) /\ Len(q) = Len(V2) + Len(repo)
          /\ \A i \in 1 .. Len(repo) : q[Len(V2) + i] = repo[i]
      <3> HIDE DEF p, rest, ops, n, m
      <3> QED
        BY <1>1, <2>0, Joined
    <2> HIDE DEF q, p, rest, ops
    <2> QED
      BY <1>3, <2>1
  <1> HIDE DEF q
  <1>6. /\ p \in Seq(S) /\ Len(p) = 1 + n + m
        /\ \A i \in 1 .. 1 + n : p[i] = q[i]
        /\ \A i \in 1 .. m : p[1 + n + i] = target[i]
    <2>0. q \in Seq(S)
      BY <1>5
    <2>1. /\ p \in Seq(S) /\ Len(p) = Len(q) + Len(target)
          /\ \A i \in 1 .. Len(q) : p[i] = q[i]
          /\ \A i \in 1 .. Len(target) : p[Len(q) + i] = target[i]
      <3> HIDE DEF rest, ops, n, m
      <3> QED
        BY <1>1, <2>0, Joined
    <2> HIDE DEF p, rest, ops
    <2> QED
      BY <1>5, <2>1
  <1> HIDE DEF p, n, m
  <1>7. p # <<>>
    BY <1>4, <1>6
  <1>8. /\ rest \in Seq(S) /\ Len(rest) = n + m
        /\ \A i \in 1 .. n + m : rest[i] = p[i + 1]
    BY <1>4, <1>6, <1>7, HeadTailProperties
  <1> HIDE DEF rest
  <1>9. /\ DOMAIN rest = 1 .. n + m
        /\ \A i \in 1 .. n : rest[i] = repo[i]
        /\ \A i \in 1 .. m : rest[n + i] = target[i]
    <2>1. DOMAIN rest = 1 .. n + m
      BY <1>8
    <2>2. ASSUME NEW i \in 1 .. n
          PROVE  rest[i] = repo[i]
      <3>1. i \in 1 .. n + m /\ i + 1 \in 1 .. 1 + n /\ i + 1 = 1 + i
        BY <1>4
      <3> QED
        BY <1>5, <1>6, <1>8, <3>1
    <2>3. ASSUME NEW i \in 1 .. m
          PROVE  rest[n + i] = target[i]
      <3>1. n + i \in 1 .. n + m /\ (n + i) + 1 = 1 + n + i
        BY <1>4
      <3> QED
        BY <1>6, <1>8, <3>1
    <2> QED
      BY <2>1, <2>2, <2>3
  <1>10. n + 1 \in ops
    <2>1. n + 1 \in 1 .. n + m /\ 1 \in 1 .. m
      BY <1>4
    <2> QED
      BY <1>2, <1>9, <2>1
  <1>11. ops \subseteq Nat /\ \A i \in ops : i <= n + 1
    <2>1. \A i \in ops : i \in 1 .. n + m /\ rest[i] \in Ops
      BY <1>9
    <2>2. ASSUME NEW i \in ops, i > n + 1
          PROVE  FALSE
      <3>1. i \in 1 .. n + m /\ rest[i] \in Ops
        BY <2>1
      <3> HIDE DEF ops
      <3>2. i - n \in 2 .. m /\ i - n \in 1 .. m /\ n + (i - n) = i
        BY <1>4, <2>2, <3>1
      <3> QED
        BY <1>2, <1>9, <3>1, <3>2
    <2> HIDE DEF ops
    <2>3. \A i \in ops : i \in Nat
      BY <1>4, <2>1
    <2>4. \A i \in ops : i <= n + 1
      BY <1>4, <2>2, <2>3
    <2> QED
      BY <2>3, <2>4
  <1>12. FindOp(rest) = n + 1
    <2>1. FindOp(rest) = CHOOSE i \in ops : \A j \in ops : j <= i
      BY <1>10 DEF FindOp
    <2> HIDE DEF ops
    <2>2. \A i \in ops : (\A j \in ops : j <= i) => i = n + 1
      BY <1>4, <1>10, <1>11
    <2> QED
      BY <1>10, <1>11, <2>1, <2>2
  <1>13. Rest(p) = rest
    BY DEF Rest, rest
  <1>14. \A i \in 1 .. n + m : rest[i] \in Ops => i <= n + 1
    BY <1>9, <1>11
  <1> QED
    BY <1>4, <1>6, <1>8, <1>9, <1>12, <1>13, <1>14 DEF p, q, S, n, m

\* ExtractRepo finds the repository of a path, whatever the repository is called.
LEMMA RepoOfPath ==
    ASSUME SetupInv, NEW repo \in Repos, NEW target \in Targets
    PROVE  ExtractRepo(V2 \o repo \o target) = repo
  <1> DEFINE S == STRING \cup {"v2"}
             n == Len(repo)
             m == Len(target)
             p == V2 \o repo \o target
             rest == Rest(p)
  <1>1. /\ n \in Nat /\ n >= 1 /\ m \in Nat /\ m >= 1
        /\ rest \in Seq(S) /\ Len(rest) = n + m
        /\ \A i \in 1 .. n : rest[i] = repo[i]
        /\ FindOp(rest) = n + 1
    BY PathParts
  <1>2. repo \in Seq(S)
    <2>1. repo \in Seq(STRING)
      BY Setting
    <2> QED
      BY <2>1
  <1> HIDE DEF p, S, rest, m
  <1>3. SubSeq(rest, 1, n) = repo
    <2> HIDE DEF n
    <2>1. \A i \in 1 .. n : rest[i] \in S
      BY <1>1
    <2>2. /\ SubSeq(rest, 1, n) \in Seq(S) /\ Len(SubSeq(rest, 1, n)) = n
          /\ \A i \in 1 .. n : SubSeq(rest, 1, n)[i] = rest[i]
      BY <1>1, <2>1, SubSeqProperties
    <2>3. \A i \in 1 .. n : SubSeq(rest, 1, n)[i] = repo[i]
      BY <1>1, <2>2
    <2>4. Len(repo) = n
      BY DEF n
    <2> QED
      BY <1>2, <2>2, <2>3, <2>4, SeqEqual
  <1>4. ExtractRepo(p) = SubSeq(rest, 1, n)
    BY <1>1 DEF ExtractRepo, rest
  <1> QED
    BY <1>3, <1>4 DEF p

\* What upstream is asked is about a repository, whose name ExtractRepo finds.
LEMMA RepoOfNamed ==
    ASSUME SetupInv, NEW p \in Named
    PROVE  /\ ExtractRepo(p) \in Repos
           /\ \E target \in Targets : p = V2 \o ExtractRepo(p) \o target
  <1>1. PICK repo \in Repos, target \in Targets : p = V2 \o repo \o target
    BY DEF Named
  <1>2. ExtractRepo(p) = repo
    BY <1>1, RepoOfPath
  <1> QED
    BY <1>1, <1>2

-----------------------------------------------------------------------------
(* The steps *)

\* A step that changes one request.
LEMMA OneRequest ==
    ASSUME ConnInv, NEW c \in Conns, NEW request, conn' = [conn EXCEPT ![c] = request],
           Scoped(request), UNCHANGED setup
    PROVE  ConnInv'
  <1>1. conn' = [d \in Conns |-> IF d = c THEN request ELSE conn[d]]
    BY DEF ConnInv
  <1>2. \A d \in Conns : conn'[d] = IF d = c THEN request ELSE conn[d]
    BY <1>1
  <1>3. conn' = [d \in Conns |-> conn'[d]]
    BY <1>1, <1>2
  <1>4. \A d \in Conns : Scoped(conn'[d])
    BY <1>2 DEF ConnInv
  <1> QED
    BY <1>3, <1>4, SameSetup DEF ConnInv, Scoped

\* What the proxy does not answer itself is about a repository (ServeHTTP).
LEMMA BeginStep ==
    ASSUME SetupInv, ConnInv, NEW c \in Conns, NEW p \in Paths, NEW method, NEW waiting,
           Begin(c, p, method, waiting), UNCHANGED setup
    PROVE  ConnInv'
  <1> DEFINE request == [pc |-> "lookup", path |-> p, method |-> method, waiting |-> waiting,
                         etag |-> IF Holds(p) /\ method = "GET" THEN cdn[p].body ELSE 0,
                         since |-> now, scope |-> <<>>, status |-> 0, body |-> 0]
             answered(status) == [request EXCEPT !.pc = "answer", !.status = status]
  <1>1. /\ DOMAIN request = Fields /\ request.pc = "lookup" /\ request.path = p
        /\ \A status : DOMAIN answered(status) = Fields /\ answered(status).pc = "answer"
    BY DEF Fields
  <1>2. \/ \E status : conn' = [conn EXCEPT ![c] = answered(status)]
        \/ conn' = [conn EXCEPT ![c] = request] /\ p \notin {V2, Catalog} /\ p[1] = "v2"
    <2> DEFINE next == IF method # "GET" THEN answered(405)
                       ELSE IF p \in {V2, Catalog} THEN answered(200)
                       ELSE IF p[1] # "v2" THEN answered(404) ELSE request
    <2>1. conn' = [conn EXCEPT ![c] = next]
      BY DEF Begin
    <2> HIDE DEF request, answered
    <2>2. \/ next \in {answered(405), answered(200), answered(404)}
          \/ next = request /\ p \notin {V2, Catalog} /\ p[1] = "v2"
      OBVIOUS
    <2> HIDE DEF next
    <2> QED
      BY <2>1, <2>2
  <1> HIDE DEF request, answered
  <1>3. \A status : Scoped(answered(status))
    BY <1>1 DEF Scoped
  <1>4. p \notin {V2, Catalog} /\ p[1] = "v2" => Scoped(request)
    BY <1>1, Setting DEF Scoped, Paths
  <1> QED
    BY <1>2, <1>3, <1>4, OneRequest

\* An answer is not sent upstream.
LEMMA GiveStep ==
    ASSUME ConnInv, NEW c \in Conns, conn[c].pc \in {"token", "send"}, NEW status, NEW body,
           Give(c, status, body), UNCHANGED setup
    PROVE  ConnInv'
  <1> DEFINE request == [conn[c] EXCEPT !.pc = "answer", !.status = status, !.body = body]
  <1>1. DOMAIN conn[c] = Fields
    BY DEF ConnInv, Scoped, Idle
  <1>2. DOMAIN request = Fields /\ request.pc = "answer"
    BY <1>1 DEF Fields
  <1>3. conn' = [conn EXCEPT ![c] = request]
    BY DEF Give
  <1> HIDE DEF request
  <1>4. Scoped(request)
    BY <1>2 DEF Scoped
  <1> QED
    BY <1>3, <1>4, OneRequest

\* What is left of the cache when one is taken out.
LEMMA WithoutOne ==
    ASSUME TransportInv, NEW n \in DOMAIN transports
    PROVE  Without(n) \in Seq(Transport)
  <1>1. Len(transports) \in Nat /\ DOMAIN transports = 1 .. Len(transports)
    BY DEF TransportInv
  <1>2. \A i \in 1 .. Len(transports) : transports[i] \in Transport
    BY DEF TransportInv
  <1>3. n \in 1 .. Len(transports)
    BY <1>1
  <1>4. \A i \in 1 .. Len(transports) - 1 : (IF i < n THEN i ELSE i + 1) \in 1 .. Len(transports)
    BY <1>1, <1>3
  <1>5. Without(n) \in [1 .. Len(transports) - 1 -> Transport]
    BY <1>2, <1>4 DEF Without
  <1>6. Len(transports) - 1 \in Nat
    BY <1>1, <1>3
  <1> QED
    BY <1>5, <1>6

\* A transport that is found has the token of the repository that asked.
LEMMA LookupHitStep ==
    ASSUME ProxyInv, NEW c \in Conns, LookupHit(c), UNCHANGED setup
    PROVE  ProxyInv'
  <1>1. PICK n \in DOMAIN transports :
           /\ transports[n].key = ExtractRepo(conn[c].path)
           /\ conn' = [conn EXCEPT ![c].pc = "send", ![c].scope = transports[n].scope]
           /\ transports' = Append(Without(n), transports[n])
    BY DEF LookupHit
  <1>2. transports[n] \in Transport
    <2>1. transports \in Seq(Transport)
      BY DEF ProxyInv, TransportInv
    <2> QED
      BY <2>1
  <1>3. TransportInv'
    BY <1>1, <1>2, WithoutOne, AppendProperties, SameSetup DEF ProxyInv, TransportInv
  <1>4. transports[n].scope = transports[n].key
    BY <1>2 DEF Transport
  <1> DEFINE request == [conn[c] EXCEPT !.pc = "send", !.scope = transports[n].scope]
  <1>5. conn[c].pc = "lookup"
    BY DEF LookupHit
  <1>6. DOMAIN conn[c] = Fields /\ conn[c].path \in Named
    BY <1>5 DEF ProxyInv, ConnInv, Scoped, Idle
  <1>7. /\ DOMAIN request = Fields /\ request.pc = "send" /\ request.path = conn[c].path
        /\ request.scope = transports[n].scope
    BY <1>6 DEF Fields
  <1>8. conn' = [conn EXCEPT ![c] = request]
    BY <1>1
  <1> HIDE DEF request
  <1>9. Scoped(request)
    BY <1>1, <1>4, <1>6, <1>7 DEF Scoped
  <1> QED
    BY <1>3, <1>8, <1>9, OneRequest DEF ProxyInv, SetupInv

\* A request that finds no transport asks for a token.
LEMMA LookupMissStep ==
    ASSUME ProxyInv, NEW c \in Conns, LookupMiss(c), UNCHANGED setup
    PROVE  ProxyInv'
  <1> DEFINE request == [conn[c] EXCEPT !.pc = "token"]
  <1>1. /\ conn[c].pc = "lookup" /\ UNCHANGED transports
        /\ conn' = [conn EXCEPT ![c] = request]
    BY DEF LookupMiss
  <1>2. DOMAIN conn[c] = Fields /\ conn[c].path \in Named
    BY <1>1 DEF ProxyInv, ConnInv, Scoped, Idle
  <1>3. DOMAIN request = Fields /\ request.pc = "token" /\ request.path = conn[c].path
    BY <1>2 DEF Fields
  <1> HIDE DEF request
  <1>4. Scoped(request)
    BY <1>2, <1>3 DEF Scoped
  <1>5. TransportInv'
    BY <1>1, SameSetup DEF ProxyInv, TransportInv
  <1> QED
    BY <1>1, <1>4, <1>5, OneRequest DEF ProxyInv, SetupInv

\* A transport is cached under the repository its token is for, whoever evicted or
\* added what in the meantime.
LEMMA GrantedStep ==
    ASSUME ProxyInv, NEW c \in Conns, Granted(c), UNCHANGED setup
    PROVE  ProxyInv'
  <1> DEFINE repo == ExtractRepo(conn[c].path)
             request == [conn[c] EXCEPT !.pc = "send", !.scope = repo]
             old == {n \in DOMAIN transports : transports[n].key = repo}
             others == IF old = {} THEN transports ELSE Without(CHOOSE n \in old : TRUE)
             entry == [key |-> repo, scope |-> repo]
             all == Append(others, entry)
  <1>1. /\ conn[c].pc = "token" /\ conn' = [conn EXCEPT ![c] = request]
        /\ transports' = IF Len(all) > MaxTransports THEN Tail(all) ELSE all
    BY DEF Granted, Add
  <1>2. DOMAIN conn[c] = Fields /\ conn[c].path \in Named
    BY <1>1 DEF ProxyInv, ConnInv, Scoped, Idle
  <1>3. repo \in Repos
    BY <1>2, RepoOfNamed DEF ProxyInv
  <1>4. /\ DOMAIN request = Fields /\ request.pc = "send" /\ request.path = conn[c].path
        /\ request.scope = ExtractRepo(conn[c].path)
    BY <1>2 DEF Fields
  <1>5. entry \in Transport
    BY <1>3 DEF Transport
  <1>6. others \in Seq(Transport)
    <2>1. CASE old = {}
      BY <2>1 DEF ProxyInv, TransportInv
    <2>2. CASE old # {}
      <3>1. (CHOOSE n \in old : TRUE) \in old
        BY <2>2
      <3> HIDE DEF repo
      <3>2. (CHOOSE n \in old : TRUE) \in DOMAIN transports
        BY <3>1
      <3> HIDE DEF old
      <3> QED
        BY <2>2, <3>2, WithoutOne DEF ProxyInv
    <2> QED
      BY <2>1, <2>2
  <1> HIDE DEF repo, request, old, others, entry
  <1>7. all \in Seq(Transport) /\ all # <<>>
    BY <1>5, <1>6, AppendProperties
  <1> HIDE DEF all
  <1>8. Tail(all) \in Seq(Transport)
    BY <1>7, HeadTailProperties
  <1>9. TransportInv'
    BY <1>1, <1>7, <1>8, SameSetup DEF TransportInv
  <1>10. Scoped(request)
    BY <1>2, <1>4 DEF Scoped
  <1> QED
    BY <1>1, <1>9, <1>10, OneRequest DEF ProxyInv, SetupInv

\* An answer that is delivered ends its request.
LEMMA DeliverStep ==
    ASSUME ProxyInv, NEW c \in Conns, NEW torn, Deliver(c, torn), UNCHANGED setup
    PROVE  ProxyInv'
  <1>1. conn' = [conn EXCEPT ![c] = Idle] /\ UNCHANGED transports
    BY DEF Deliver
  <1>2. Scoped(Idle)
    BY DEF Scoped
  <1>3. TransportInv'
    BY <1>1, SameSetup DEF ProxyInv, TransportInv
  <1> QED
    BY <1>1, <1>2, <1>3, OneRequest DEF ProxyInv, SetupInv

\* At first there are no transports and no requests.
LEMMA ProxyInit ==
    ASSUME Init
    PROVE  ProxyInv
  <1>1. TransportInv
    BY DEF Init, TransportInv
  <1>2. \A c \in Conns : conn[c] = Idle
    BY DEF Init
  <1>3. conn = [c \in Conns |-> conn[c]]
    BY DEF Init
  <1> QED
    BY <1>1, <1>2, <1>3 DEF Init, SetupInv, ProxyInv, ConnInv, Scoped

\* Every step keeps the invariant.
LEMMA ProxyNext ==
    ASSUME ProxyInv, [Next]_vars
    PROVE  ProxyInv'
  <1>0. UNCHANGED setup
    BY DEF Next, vars
  <1>1. CASE UNCHANGED <<transports, conn>>
    BY <1>0, <1>1, SameSetup DEF ProxyInv, SetupInv, TransportInv, ConnInv, Scoped
  <1>2. ASSUME NEW c \in Conns, NEW p \in Paths, NEW method, NEW waiting,
               Begin(c, p, method, waiting), UNCHANGED transports
        PROVE  ProxyInv'
    BY <1>0, <1>2, BeginStep, SameSetup DEF ProxyInv, SetupInv, TransportInv
  <1>3. ASSUME NEW c \in Conns, NEW status, NEW body, conn[c].pc \in {"token", "send"},
               Give(c, status, body), UNCHANGED transports
        PROVE  ProxyInv'
    BY <1>0, <1>3, GiveStep, SameSetup DEF ProxyInv, SetupInv, TransportInv
  <1>4. ASSUME NEW p \in Paths, Hit(p)
        PROVE  ProxyInv'
    BY <1>1, <1>4 DEF Hit
  <1>5. ASSUME NEW p \in Paths, NEW c \in Conns, HitStale(c, p)
        PROVE  ProxyInv'
    BY <1>2, <1>5 DEF HitStale
  <1>6. ASSUME NEW p \in Paths, NEW c \in Conns, NEW method \in Methods, Forward(c, p, method)
        PROVE  ProxyInv'
    BY <1>2, <1>6 DEF Forward
  <1>7. ASSUME NEW c \in Conns, LookupHit(c) \/ LookupMiss(c) \/ Granted(c)
        PROVE  ProxyInv'
    BY <1>0, <1>7, LookupHitStep, LookupMissStep, GrantedStep
  <1>8. ASSUME NEW c \in Conns, Found(c)
        PROVE  ProxyInv'
    BY <1>3, <1>8 DEF Found
  <1>9. ASSUME NEW c \in Conns, BlobDirect(c)
        PROVE  ProxyInv'
    BY <1>3, <1>9 DEF BlobDirect
  <1>10. ASSUME NEW c \in Conns, NEW status, Denied(c, status)
         PROVE  ProxyInv'
    BY <1>3, <1>10 DEF Denied
  <1>11. ASSUME NEW c \in Conns, NEW status, NotFound(c, status)
         PROVE  ProxyInv'
    BY <1>3, <1>11 DEF NotFound
  <1>12. ASSUME NEW c \in Conns, NEW torn \in BOOLEAN, Deliver(c, torn)
         PROVE  ProxyInv'
    BY <1>0, <1>12, DeliverStep
  <1>13. CASE Tick \/ \E p \in Named : Move(p)
    BY <1>1, <1>13 DEF Tick, Move
  <1>14. CASE UNCHANGED vars
    BY <1>1, <1>14 DEF vars
  <1> QED
    BY <1>4, <1>5, <1>6, <1>7, <1>8, <1>9, <1>10, <1>11, <1>12, <1>13, <1>14 DEF Next

-----------------------------------------------------------------------------
\* TokenScoped for any repositories, one inside another or named like an operation,
\* any number of requests at once and any size of the cache (getTransport).
THEOREM TokensAreScoped == Spec => []TokenScoped
  <1>1. Init => ProxyInv
    BY ProxyInit
  <1>2. ProxyInv /\ [Next]_vars => ProxyInv'
    BY ProxyNext
  <1>3. ProxyInv => TokenScoped
    <2> SUFFICES ASSUME ProxyInv, NEW c \in Conns, conn[c].pc = "send"
                 PROVE  \E target \in Targets : conn[c].path = V2 \o conn[c].scope \o target
      BY DEF TokenScoped
    <2>1. conn[c].path \in Named /\ conn[c].scope = ExtractRepo(conn[c].path)
      BY DEF ProxyInv, ConnInv, Scoped, Idle
    <2> QED
      BY <2>1, RepoOfNamed DEF ProxyInv
  <1> QED
    BY <1>1, <1>2, <1>3, PTL DEF Spec
-----------------------------------------------------------------------------
(* What clients get, and when *)

\* A version that was replaced at time t or later, or not yet.
Current(p, v, t) == v \in Nat \ {0} /\ (v <= Len(until[p]) => until[p][v] >= t)

\* A redirect signed at time t or later.
Signed(body, t) == body \in Int /\ body >= t * TickSeconds + 300 + TickSeconds

\* What an answer about a repository carries is of the time of its request.
Answered(r) ==
    /\ r.status \in {200, 304} => ~IsBlob(r.path) /\ Current(r.path, r.body, r.since)
    /\ r.status = 304 => r.body = r.etag
    /\ r.status = 307 => IsBlob(r.path) /\ Signed(r.body, r.since)

\* The validator a request carries is the one the CDN has, unless an answer came
\* in since then.
Validated(r) ==
    r.etag = 0 \/ (Holds(r.path) /\ (cdn[r.path].body = r.etag \/ cdn[r.path].stored >= r.since))

Timely(r) ==
    r = Idle \/
        /\ r.since \in Nat /\ r.since <= now /\ now <= r.since + 1
        /\ r.path \in Paths /\ r.pc \in {"lookup", "token", "send", "answer"}
        /\ r.path \in Named => Validated(r) /\ (r.pc = "answer" => Answered(r))
        /\ r.path \notin Named =>
              r.pc = "answer" /\ r.status \notin {304, 307}
              /\ (r.status = 200 => r.path \in {V2, Catalog})

RequestsInv == \A c \in Conns : Timely(conn[c])

\* What the CDN holds arrived at most a step of the clock after it was current.
CdnInv ==
    \A p \in DOMAIN cdn :
        /\ p \in Named \cup {V2, Catalog} /\ DOMAIN cdn[p] = {"body", "stored"}
        /\ cdn[p].stored \in Nat /\ cdn[p].stored <= now
        /\ p \in Named => IF IsBlob(p) THEN Signed(cdn[p].body, cdn[p].stored - 1)
                          ELSE Current(p, cdn[p].body, cdn[p].stored - 1)

ClockInv == now \in Nat /\ until \in [Named -> Seq(Nat)]

\* The inductive invariant of the answers.
AnswersInv == ProxyInv /\ ClockInv /\ RequestsInv /\ CdnInv

-----------------------------------------------------------------------------
\* cacheControl by what a path is about: how long the CDN keeps a redirect, and
\* what may change.
LEMMA Policies ==
    ASSUME SetupInv, NEW p \in Named
    PROVE  LET policy == CacheControl(p)
           IN  /\ policy.fresh \in Int /\ policy.swr \in Nat /\ policy.sie \in Nat
               /\ IsBlob(p) => policy.fresh + policy.swr <= 240 /\ policy.fresh + policy.sie <= 240
               /\ ~IsBlob(p) /\ ~Fixed(p) =>
                     policy.fresh + policy.swr <= 4500 /\ policy.fresh + policy.sie <= 87300
  <1>1. PICK repo \in Repos, target \in Targets : p = V2 \o repo \o target
    BY DEF Named
  <1> DEFINE n == Len(repo)
             m == Len(target)
             rest == Rest(p)
             i == FindOp(rest)
  <1>2. /\ n \in Nat /\ n >= 1 /\ m \in Nat /\ m >= 1
        /\ p \in Seq(STRING \cup {"v2"}) /\ Len(p) = 1 + n + m
        /\ rest \in Seq(STRING \cup {"v2"}) /\ Len(rest) = n + m
        /\ \A k \in 1 .. n + m : rest[k] = p[k + 1]
        /\ \A k \in 1 .. m : rest[n + k] = target[k]
        /\ i = n + 1
        /\ \A k \in 1 .. n + m : rest[k] \in Ops => k <= n + 1
    BY <1>1, PathParts
  <1>3. rest[i] = target[1] /\ (m >= 2 => rest[i + 1] = target[2]) /\ (i = Len(rest) <=> m = 1)
    <2> HIDE DEF n, m, rest, i
    <2>1. 1 \in 1 .. m /\ (m >= 2 => 2 \in 1 .. m)
      BY <1>2
    <2>2. i + 1 = n + 2
      BY <1>2
    <2> QED
      BY <1>2, <2>1, <2>2
  <1>4. p # V2 /\ p # Catalog
    <2>1. Len(V2) = 1 /\ Len(Catalog) = 2
      BY DEF V2, Catalog
    <2> HIDE DEF n, m, rest, i
    <2> QED
      BY <1>2, <2>1
  <1>5. IsTagsList(p) => target[1] = "tags"
    <2> SUFFICES ASSUME IsTagsList(p) PROVE target[1] = "tags"
      OBVIOUS
    <2> DEFINE last == SubSeq(p, Len(p) - 1, Len(p))
    <2>1. Len(last) = 2 /\ last[1] = p[Len(p) - 1] /\ last[2] = p[Len(p)]
      <3> HIDE DEF n, m, rest, i
      <3>1. Len(p) \in Nat /\ Len(p) - 1 \in 1 .. Len(p) + 1 /\ Len(p) >= 3
        BY <1>2
      <3> QED
        BY <1>2, <3>1
    <2>2. last = <<"tags", "list">>
      BY DEF IsTagsList
    <2> HIDE DEF last, n, m, rest, i
    <2>3. p[n + m] = "tags" /\ p[n + m + 1] = "list"
      BY <1>2, <2>1, <2>2
    <2>4. rest[n + m] = "list" /\ rest[n + m - 1] = "tags"
      BY <1>2, <2>3
    <2>5. m # 1
      <3>1. target[1] \in Ops
        BY Setting
      <3> QED
        BY <1>2, <1>3, <2>4, <3>1 DEF Ops
    <2>6. n + m - 1 <= n + 1
      <3>1. n + m - 1 \in 1 .. n + m /\ "tags" \in Ops
        BY <1>2 DEF Ops
      <3> QED
        BY <1>2, <2>4, <3>1
    <2>7. n + m - 1 = i
      BY <1>2, <2>5, <2>6
    <2> QED
      BY <1>3, <2>4, <2>7
  <1>6. IsBlob(p) <=> target[1] = "blobs"
    <2>1. IsBlob(p) <=> (i > 0 /\ rest[i] = "blobs")
      BY DEF IsBlob
    <2> HIDE DEF n, m, rest, i
    <2> QED
      BY <1>2, <1>3, <2>1
  <1>7. m >= 2 /\ target[1] = "manifests" /\ target[2] \in Digests => Fixed(p)
    BY <1>1 DEF Fixed
  <1> DEFINE op == IF m >= 2 THEN target[1] ELSE "none"
  <1>8. CacheControl(p) =
           CASE p = V2 -> Policy(86400, 0, 86400)
             [] p = Catalog \/ IsTagsList(p) -> MutableShort
             [] op = "manifests" -> IF target[2] \in Digests THEN Immutable ELSE MutableShort
             [] op = "referrers" -> MutableShort
             [] op = "blobs" -> Policy(120, 120, 120)
             [] OTHER -> Uncached
    <2>1. op = IF i \in 1 .. Len(rest) - 1 THEN rest[i] ELSE "none"
      <3> HIDE DEF n, m, rest, i
      <3>1. i \in 1 .. Len(rest) - 1 <=> m >= 2
        BY <1>2
      <3> QED
        BY <1>3, <3>1
    <2>2. op = "manifests" => rest[i + 1] = target[2]
      BY <1>3
    <2> HIDE DEF op
    <2>3. CacheControl(p) =
             CASE p = V2 -> Policy(86400, 0, 86400)
               [] p = Catalog \/ IsTagsList(p) -> MutableShort
               [] op = "manifests" -> IF rest[i + 1] \in Digests THEN Immutable ELSE MutableShort
               [] op = "referrers" -> MutableShort
               [] op = "blobs" -> Policy(120, 120, 120)
               [] OTHER -> Uncached
      BY <2>1 DEF CacheControl, PolicyOf
    <2> QED
      BY <2>2, <2>3
  <1>9. /\ CacheControl(p) \in {MutableShort, Uncached, Immutable, Policy(120, 120, 120)}
        /\ IsBlob(p) => CacheControl(p) \in {Uncached, Policy(120, 120, 120)}
        /\ ~IsBlob(p) /\ ~Fixed(p) => CacheControl(p) \in {MutableShort, Uncached}
    <2>1. target[1] = "tags" => op \in {"tags", "none"}
      OBVIOUS
    <2>2. op = "manifests" /\ target[2] \in Digests => Fixed(p)
      BY <1>7
    <2>3. (op = "blobs" => IsBlob(p)) /\ (IsBlob(p) => op \in {"blobs", "none"} /\ target[1] = "blobs")
      BY <1>6
    <2> HIDE DEF op, n, m, rest, i
    <2>4. CASE IsTagsList(p)
      <3>1. CacheControl(p) = MutableShort /\ ~IsBlob(p)
        BY <1>4, <1>5, <1>6, <1>8, <2>1, <2>4
      <3> QED
        BY <3>1
    <2>5. CASE ~IsTagsList(p)
      BY <1>4, <1>8, <2>2, <2>3, <2>5
    <2> QED
      BY <2>4, <2>5
  <1> QED
    BY <1>9 DEF MutableShort, Uncached, Immutable, Policy

\* Paths that the proxy answers itself are not those of a repository.
LEMMA LocalPaths ==
    ASSUME SetupInv
    PROVE  V2 \notin Named /\ Catalog \notin Named /\ ~IsBlob(V2) /\ ~IsBlob(Catalog)
  <1>1. ASSUME NEW p \in Named
        PROVE  p # V2 /\ p # Catalog
    <2>1. PICK repo \in Repos, target \in Targets : p = V2 \o repo \o target
      BY DEF Named
    <2> DEFINE n == Len(repo)
               m == Len(target)
    <2>2. n \in Nat /\ n >= 1 /\ m \in Nat /\ m >= 1 /\ Len(p) = 1 + n + m
      BY <2>1, PathParts
    <2>3. Len(V2) = 1 /\ Len(Catalog) = 2
      BY DEF V2, Catalog
    <2> HIDE DEF n, m
    <2>4. Len(p) # 1 /\ Len(p) # 2
      BY <2>2
    <2> QED
      BY <2>3, <2>4
  <1>2. Rest(V2) = <<>> /\ Rest(Catalog) = <<"_catalog">>
    BY DEF Rest, V2, Catalog
  <1>3. FindOp(Rest(V2)) = 0 /\ FindOp(Rest(Catalog)) = 0
    <2>1. {i \in DOMAIN <<>> : <<>>[i] \in Ops} = {}
      OBVIOUS
    <2>2. {i \in DOMAIN <<"_catalog">> : <<"_catalog">>[i] \in Ops} = {}
      BY DEF Ops
    <2> QED
      BY <1>2, <2>1, <2>2 DEF FindOp
  <1> QED
    BY <1>1, <1>3 DEF IsBlob

\* The clock's step is at least as long as a request, and at most an hour.
LEMMA TickTyped ==
    ASSUME SetupInv
    PROVE  TickSeconds \in Nat /\ TickSeconds >= 30 /\ TickSeconds <= 3600
  <1>1. TickSeconds \in 30 .. 3600
    BY Setting
  <1> QED
    BY <1>1

\* A redirect is signed for ten minutes, rounded down to five.
LEMMA SignedNow ==
    ASSUME SetupInv, now \in Nat, TickSeconds \in {30, 50, 60}
    PROVE  Signed(SignedUntil, now)
  <1> SUFFICES ASSUME NEW T \in {30, 50, 60}, T = TickSeconds
               PROVE  /\ ((now * T + 600) \div 300) * 300 \in Int
                      /\ ((now * T + 600) \div 300) * 300 >= now * T + 300 + T
    BY DEF Signed, SignedUntil
  <1>1. CASE T = 30
    BY <1>1
  <1>2. CASE T = 50
    BY <1>2
  <1>3. CASE T = 60
    BY <1>3
  <1> QED
    BY <1>1, <1>2, <1>3

\* Of a blob's redirect, kept for 240 seconds, 60 are left at the end of the step.
LEMMA StillGood ==
    ASSUME NEW T \in {30, 50, 60}, NEW body \in Int, NEW stored \in Nat, NEW at \in Nat,
           body >= (stored - 1) * T + 300 + T, (at - stored) * T <= 240
    PROVE  body >= (at + 1) * T
  <1>1. CASE T = 30
    BY <1>1
  <1>2. CASE T = 50
    BY <1>2
  <1>3. CASE T = 60
    BY <1>3
  <1> QED
    BY <1>1, <1>2, <1>3

\* A version replaced a step of the clock before it was stored is a step older.
LEMMA StepOlder ==
    ASSUME NEW T \in Nat, NEW stored \in Int, NEW replaced \in Int, NEW at \in Int, NEW window \in Int,
           replaced >= stored - 1, (at - stored) * T <= window
    PROVE  (at - replaced) * T <= window + T
  <1> DEFINE d == replaced - (stored - 1)
  <1>1. d \in Nat /\ at - replaced = (at - stored) + 1 - d
    OBVIOUS
  <1> HIDE DEF d
  <1>2. (at - replaced) * T = (at - stored) * T + T - d * T
    BY <1>1
  <1>3. d * T >= 0
    BY <1>1
  <1>4. /\ (at - replaced) * T \in Int /\ (at - stored) * T \in Int /\ d * T \in Int
    BY <1>1
  <1> QED
    BY <1>2, <1>3, <1>4

\* An instant's version is still that of an earlier one.
LEMMA CurrentBefore ==
    ASSUME ClockInv, NEW p \in Named, NEW v, NEW t \in Int, NEW s \in Int, s <= t, Current(p, v, t)
    PROVE  Current(p, v, s)
  <1>1. v \in Nat \ {0} /\ until[p] \in Seq(Nat)
    BY DEF Current, ClockInv
  <1>2. ASSUME v <= Len(until[p])
        PROVE  until[p][v] >= s
    <2>1. v \in 1 .. Len(until[p])
      BY <1>1, <1>2
    <2>2. until[p][v] \in Nat
      BY <1>1, <2>1
    <2>3. until[p][v] >= t
      BY <1>2 DEF Current
    <2> QED
      BY <2>2, <2>3
  <1> QED
    BY <1>1, <1>2 DEF Current

\* So is a signature.
LEMMA SignedBefore ==
    ASSUME SetupInv, NEW body, NEW t \in Int, NEW s \in Int, s <= t, Signed(body, t)
    PROVE  Signed(body, s)
  <1>0. TickSeconds \in Nat
    BY TickTyped
  <1> SUFFICES ASSUME NEW T \in Nat, T = TickSeconds, body \in Int, body >= t * T + 300 + T
               PROVE  body >= s * T + 300 + T
    BY <1>0 DEF Signed
  <1>1. PICK d \in Nat : t = s + d
    <2>1. t - s \in Nat /\ t = s + (t - s)
      OBVIOUS
    <2> QED
      BY <2>1
  <1>2. t * T = s * T + d * T /\ d * T \in Nat /\ s * T \in Int
    BY <1>1
  <1> QED
    BY <1>2

\* Before the first request nothing is held or on its way.
LEMMA AnswersInit ==
    ASSUME Init
    PROVE  AnswersInv /\ SeenWithinWindow /\ SignatureValid
  <1>1. ProxyInv
    BY ProxyInit
  <1>2. ClockInv
    <2>1. <<>> \in Seq(Nat)
      OBVIOUS
    <2> QED
      BY <2>1 DEF Init, ClockInv
  <1>3. RequestsInv
    BY DEF Init, RequestsInv, Timely
  <1>4. CdnInv
    BY DEF Init, CdnInv
  <1>5. served = <<>>
    BY DEF Init
  <1> QED
    BY <1>1, <1>2, <1>3, <1>4, <1>5 DEF AnswersInv, SeenWithinWindow, SignatureValid

\* A step that changes one request, and nothing that its answer may depend on.
LEMMA OneAnswer ==
    ASSUME AnswersInv, ProxyInv', UNCHANGED <<setup, now, until, cdn>>,
           NEW c \in Conns, NEW request, conn' = [conn EXCEPT ![c] = request], Timely(request)
    PROVE  AnswersInv'
  <1>1. ClockInv' /\ CdnInv'
    BY SameSetup DEF AnswersInv, ClockInv, CdnInv, Signed, Current
  <1>2. \A d \in Conns : conn'[d] = IF d = c THEN request ELSE conn[d]
    BY DEF AnswersInv, ProxyInv, ConnInv
  <1>3. \A r : Timely(r) => Timely(r)'
    BY SameSetup DEF Timely, Validated, Answered, Holds, Current, Signed, Paths
  <1>4. ASSUME NEW d \in Conns
        PROVE  (Timely(conn[d]))'
    <2>1. PICK r : r = conn'[d]
      OBVIOUS
    <2>2. Timely(r)
      BY <1>2, <2>1 DEF AnswersInv, RequestsInv
    <2>3. Timely(r)'
      BY <1>3, <2>2
    <2> QED
      BY <2>1, <2>3
  <1> QED
    BY <1>1, <1>4 DEF AnswersInv, RequestsInv

\* A request begins now, with what the CDN has (ServeHTTP).
LEMMA BeginAnswer ==
    ASSUME AnswersInv, ProxyInv', UNCHANGED <<setup, now, until, cdn>>,
           NEW c \in Conns, NEW p \in Paths, NEW method, NEW waiting, Begin(c, p, method, waiting)
    PROVE  AnswersInv'
  <1> DEFINE request == [pc |-> "lookup", path |-> p, method |-> method, waiting |-> waiting,
                         etag |-> IF Holds(p) /\ method = "GET" THEN cdn[p].body ELSE 0,
                         since |-> now, scope |-> <<>>, status |-> 0, body |-> 0]
             answered(status) == [request EXCEPT !.pc = "answer", !.status = status]
  <1>1. \/ conn' = [conn EXCEPT ![c] = answered(405)]
        \/ conn' = [conn EXCEPT ![c] = answered(200)] /\ p \in {V2, Catalog}
        \/ conn' = [conn EXCEPT ![c] = answered(404)] /\ p[1] # "v2"
        \/ conn' = [conn EXCEPT ![c] = request] /\ p \notin {V2, Catalog} /\ p[1] = "v2"
    <2> DEFINE next == IF method # "GET" THEN answered(405)
                       ELSE IF p \in {V2, Catalog} THEN answered(200)
                       ELSE IF p[1] # "v2" THEN answered(404) ELSE request
    <2>1. conn' = [conn EXCEPT ![c] = next]
      BY DEF Begin
    <2> HIDE DEF request, answered
    <2>2. \/ next = answered(405)
          \/ next = answered(200) /\ p \in {V2, Catalog}
          \/ next = answered(404) /\ p[1] # "v2"
          \/ next = request /\ p \notin {V2, Catalog} /\ p[1] = "v2"
      OBVIOUS
    <2> HIDE DEF next
    <2>3. \A x : next = x => conn' = [conn EXCEPT ![c] = x]
      BY <2>1
    <2> QED
      BY <2>2, <2>3
  <1>2. /\ request.pc = "lookup" /\ request.path = p /\ request.since = now
        /\ \A status : /\ answered(status).pc = "answer" /\ answered(status).path = p
                       /\ answered(status).since = now /\ answered(status).status = status
    OBVIOUS
  <1>3. Validated(request) /\ \A status : Validated(answered(status))
    <2>1. /\ request.path = p /\ request.since = now
          /\ request.etag = IF Holds(p) /\ method = "GET" THEN cdn[p].body ELSE 0
      OBVIOUS
    <2>2. \A status : /\ answered(status).path = p /\ answered(status).since = now
                      /\ answered(status).etag = request.etag
      OBVIOUS
    <2> HIDE DEF request, answered
    <2> QED
      BY <2>1, <2>2 DEF Validated
  <1> HIDE DEF request, answered
  <1>4. now \in Nat
    BY DEF AnswersInv, ClockInv
  <1>5. SetupInv
    BY DEF AnswersInv, ProxyInv
  <1>6. p \notin Named => p \in {V2, Catalog} \/ p[1] # "v2"
    BY <1>5, Setting DEF Paths
  <1>7. Timely(answered(405))
    BY <1>2, <1>3, <1>4 DEF Timely, Answered
  <1>8. Timely(answered(404))
    BY <1>2, <1>3, <1>4 DEF Timely, Answered
  <1>9. p \in {V2, Catalog} => Timely(answered(200))
    <2>1. p \in {V2, Catalog} => p \notin Named
      BY <1>5, LocalPaths
    <2> QED
      BY <1>2, <1>4, <2>1 DEF Timely
  <1>10. p \notin {V2, Catalog} /\ p[1] = "v2" => Timely(request)
    BY <1>2, <1>3, <1>4, <1>6 DEF Timely
  <1> QED
    BY <1>1, <1>7, <1>8, <1>9, <1>10, OneAnswer

\* A request that is not answered yet is about a repository.
LEMMA BusyRequest ==
    ASSUME AnswersInv, NEW c \in Conns, conn[c].pc \in {"lookup", "token", "send"}
    PROVE  /\ DOMAIN conn[c] = Fields /\ conn[c] # Idle /\ conn[c].path \in Named
           /\ Timely(conn[c])
  <1>1. Scoped(conn[c]) /\ Timely(conn[c])
    BY DEF AnswersInv, ProxyInv, ConnInv, RequestsInv
  <1>2. conn[c] # Idle
    BY DEF Idle
  <1> QED
    BY <1>1, <1>2 DEF Scoped

\* Looking for a transport answers nothing yet.
LEMMA AskingAnswer ==
    ASSUME AnswersInv, ProxyInv', NEW c \in Conns, LookupHit(c) \/ LookupMiss(c) \/ Granted(c),
           UNCHANGED setup
    PROVE  AnswersInv'
  <1>1. /\ UNCHANGED <<now, until, cdn>> /\ conn[c].pc \in {"lookup", "token"}
        /\ \/ \E scope : conn' = [conn EXCEPT ![c].pc = "send", ![c].scope = scope]
           \/ conn' = [conn EXCEPT ![c].pc = "token"]
    BY DEF LookupHit, LookupMiss, Granted
  <1>2. DOMAIN conn[c] = Fields /\ Timely(conn[c]) /\ conn[c] # Idle /\ conn[c].path \in Named
    BY <1>1, BusyRequest
  <1>3. ASSUME NEW r, DOMAIN r = Fields, r.pc \in {"send", "token"}, r.path = conn[c].path,
               r.since = conn[c].since, r.etag = conn[c].etag
        PROVE  Timely(r)
    BY <1>2, <1>3 DEF Timely, Validated
  <1>4. ASSUME NEW scope, conn' = [conn EXCEPT ![c].pc = "send", ![c].scope = scope]
        PROVE  AnswersInv'
    <2> DEFINE r == [conn[c] EXCEPT !.pc = "send", !.scope = scope]
    <2>1. /\ DOMAIN r = Fields /\ r.pc = "send" /\ r.path = conn[c].path
          /\ r.since = conn[c].since /\ r.etag = conn[c].etag
      BY <1>2 DEF Fields
    <2>2. conn' = [conn EXCEPT ![c] = r]
      BY <1>4
    <2> HIDE DEF r
    <2>3. Timely(r)
      BY <1>3, <2>1
    <2> QED
      BY <1>1, <2>2, <2>3, OneAnswer
  <1>5. CASE conn' = [conn EXCEPT ![c].pc = "token"]
    <2> DEFINE r == [conn[c] EXCEPT !.pc = "token"]
    <2>1. /\ DOMAIN r = Fields /\ r.pc = "token" /\ r.path = conn[c].path
          /\ r.since = conn[c].since /\ r.etag = conn[c].etag
      BY <1>2 DEF Fields
    <2>2. conn' = [conn EXCEPT ![c] = r]
      BY <1>5
    <2> HIDE DEF r
    <2>3. Timely(r)
      BY <1>3, <2>1
    <2> QED
      BY <1>1, <2>2, <2>3, OneAnswer
  <1> QED
    BY <1>1, <1>4, <1>5

\* What upstream said is given to the request, as of now.
LEMMA GiveAnswer ==
    ASSUME AnswersInv, ProxyInv', UNCHANGED <<setup, now, until, cdn>>,
           NEW c \in Conns, conn[c].pc \in {"token", "send"}, NEW status, NEW body,
           Give(c, status, body),
           \/ status \notin {200, 304, 307}
           \/ /\ status \in {200, 304} => ~IsBlob(conn[c].path) /\ Current(conn[c].path, body, conn[c].since)
              /\ status = 304 => body = conn[c].etag
              /\ status = 307 => IsBlob(conn[c].path) /\ Signed(body, conn[c].since)
    PROVE  AnswersInv'
  <1> DEFINE r == [conn[c] EXCEPT !.pc = "answer", !.status = status, !.body = body]
  <1>1. DOMAIN conn[c] = Fields /\ Timely(conn[c]) /\ conn[c] # Idle /\ conn[c].path \in Named
    BY BusyRequest
  <1>2. /\ r.pc = "answer" /\ r.path = conn[c].path /\ r.since = conn[c].since
        /\ r.etag = conn[c].etag /\ r.status = status /\ r.body = body
    BY <1>1 DEF Fields
  <1>3. conn' = [conn EXCEPT ![c] = r]
    BY DEF Give
  <1> HIDE DEF r
  <1>4. Answered(r)
    BY <1>2 DEF Answered
  <1>5. Timely(r)
    BY <1>1, <1>2, <1>4 DEF Timely, Validated
  <1> QED
    BY <1>3, <1>5, OneAnswer

\* A path to a blob is in the setup's targets.
LEMMA BlobTarget ==
    ASSUME SetupInv, NEW p \in Named, IsBlob(p)
    PROVE  \E target \in Targets : target[1] = "blobs"
  <1>1. PICK repo \in Repos, target \in Targets : p = V2 \o repo \o target
    BY DEF Named
  <1> DEFINE n == Len(repo)
             m == Len(target)
             rest == Rest(p)
             i == FindOp(rest)
  <1>2. /\ n \in Nat /\ n >= 1 /\ m \in Nat /\ m >= 1
        /\ \A k \in 1 .. m : rest[n + k] = target[k]
        /\ i = n + 1
    BY <1>1, PathParts
  <1>3. rest[i] = "blobs"
    BY DEF IsBlob
  <1> HIDE DEF n, m, rest, i
  <1>4. 1 \in 1 .. m
    BY <1>2
  <1>5. rest[n + 1] = target[1]
    BY <1>2, <1>4
  <1> QED
    BY <1>2, <1>3, <1>5

\* The round trip (proxyRequest).
LEMMA FoundAnswer ==
    ASSUME AnswersInv, ProxyInv', NEW c \in Conns, Found(c), UNCHANGED setup
    PROVE  AnswersInv'
  <1> DEFINE p == conn[c].path
             status == IF IsBlob(p) THEN 307 ELSE IF conn[c].etag = Body(p) THEN 304 ELSE 200
  <1>1. /\ conn[c].pc = "send" /\ Give(c, status, Body(p)) /\ UNCHANGED <<now, until, cdn>>
    BY DEF Found
  <1>2. Timely(conn[c]) /\ conn[c] # Idle /\ p \in Named
    BY <1>1, BusyRequest
  <1>3. conn[c].since \in Nat /\ conn[c].since <= now /\ now \in Nat
    BY <1>2 DEF Timely, AnswersInv, ClockInv
  <1>4. SetupInv /\ ClockInv
    BY DEF AnswersInv, ProxyInv
  <1> HIDE DEF p
  <1>5. CASE IsBlob(p)
    <2>1. Body(p) = SignedUntil
      BY <1>5 DEF Body
    <2>2. TickSeconds \in {30, 50, 60}
      BY <1>2, <1>4, <1>5, BlobTarget, Setting
    <2>3. Signed(SignedUntil, conn[c].since)
      BY <1>3, <1>4, <2>2, SignedNow, SignedBefore
    <2>4. status = 307
      BY <1>5
    <2> HIDE DEF status
    <2> QED
      BY <1>1, <1>5, <2>1, <2>3, <2>4, GiveAnswer DEF p
  <1>6. CASE ~IsBlob(p)
    <2>1. Body(p) = Len(until[p]) + 1
      BY <1>6 DEF Body, Version
    <2>2. until[p] \in Seq(Nat)
      BY <1>2, <1>4 DEF ClockInv
    <2>3. Len(until[p]) \in Nat
      BY <2>2
    <2>4. Current(p, Body(p), conn[c].since)
      BY <2>1, <2>3 DEF Current
    <2>5. (status = 304 /\ conn[c].etag = Body(p)) \/ status = 200
      BY <1>6
    <2> HIDE DEF status
    <2> QED
      BY <1>1, <1>6, <2>4, <2>5, GiveAnswer DEF p
  <1> QED
    BY <1>5, <1>6

\* An entry of the CDN is written or renewed when an answer comes in.
LEMMA EntryAnswer ==
    ASSUME AnswersInv, ProxyInv', UNCHANGED <<setup, now, until>>,
           NEW c \in Conns, conn' = [conn EXCEPT ![c] = Idle],
           NEW p \in Named \cup {V2, Catalog}, NEW entry,
           DOMAIN cdn' = DOMAIN cdn \cup {p}, cdn'[p] = entry,
           \A q \in DOMAIN cdn : q # p => cdn'[q] = cdn[q],
           DOMAIN entry = {"body", "stored"}, entry.stored = now,
           p \in Named => IF IsBlob(p) THEN Signed(entry.body, now - 1)
                          ELSE Current(p, entry.body, now - 1)
    PROVE  AnswersInv'
  <1>1. now \in Nat /\ now' = now /\ ClockInv'
    BY SameSetup DEF AnswersInv, ClockInv
  <1>2. \A q, v, t : (Current(q, v, t) => Current(q, v, t)') /\ (Signed(v, t) => Signed(v, t)')
    BY SameSetup DEF Current, Signed
  <1>3. ASSUME NEW r, Timely(r)
        PROVE  Timely(r)'
    <2>1. CASE r = Idle
      BY <2>1 DEF Timely
    <2>2. CASE r # Idle
      <3>1. r.path \in Named => Validated(r)'
        <4> SUFFICES ASSUME Validated(r), r.etag # 0, r.since <= now
                     PROVE  Validated(r)'
          BY <2>2, <1>3 DEF Timely, Validated
        <4>1. Holds(r.path) /\ (cdn[r.path].body = r.etag \/ cdn[r.path].stored >= r.since)
          BY DEF Validated
        <4>2. r.path \in DOMAIN cdn'
          BY <4>1 DEF Holds
        <4>3. cdn'[r.path].body = r.etag \/ cdn'[r.path].stored >= r.since
          BY <1>3, <4>1 DEF Holds
        <4> QED
          BY <4>2, <4>3 DEF Validated, Holds
      <3>2. Answered(r) => Answered(r)'
        BY <1>2 DEF Answered
      <3> QED
        BY <1>1, <1>3, <2>2, <3>1, <3>2, SameSetup DEF Timely, Paths
    <2> QED
      BY <2>1, <2>2
  <1>4. RequestsInv'
    <2>1. \A d \in Conns : conn'[d] = IF d = c THEN Idle ELSE conn[d]
      BY DEF AnswersInv, ProxyInv, ConnInv
    <2>2. Timely(Idle)
      BY DEF Timely
    <2>3. ASSUME NEW d \in Conns
          PROVE  (Timely(conn[d]))'
      <3>1. PICK r : r = conn'[d]
        OBVIOUS
      <3>2. Timely(r)
        BY <2>1, <2>2, <3>1 DEF AnswersInv, RequestsInv
      <3>3. Timely(r)'
        BY <1>3, <3>2
      <3> QED
        BY <3>1, <3>3
    <2> QED
      BY <2>3 DEF RequestsInv
  <1>5. CdnInv'
    <2>1. ASSUME NEW q \in DOMAIN cdn'
          PROVE  /\ q \in Named' \cup {V2, Catalog} /\ DOMAIN cdn'[q] = {"body", "stored"}
                 /\ cdn'[q].stored \in Nat /\ cdn'[q].stored <= now'
                 /\ q \in Named' => IF IsBlob(q) THEN Signed(cdn'[q].body, cdn'[q].stored - 1)
                                    ELSE Current(q, cdn'[q].body, cdn'[q].stored - 1)
      <3>1. CASE q = p
        BY <1>1, <3>1, SameSetup
      <3>2. CASE q # p
        <4>1. q \in DOMAIN cdn /\ cdn'[q] = cdn[q]
          BY <3>2
        <4> QED
          BY <1>1, <4>1, SameSetup DEF AnswersInv, CdnInv
      <3> QED
        BY <3>1, <3>2
    <2>2. ASSUME NEW q \in DOMAIN cdn', q \in Named'
          PROVE  (IF IsBlob(q) THEN Signed(cdn[q].body, cdn[q].stored - 1)
                  ELSE Current(q, cdn[q].body, cdn[q].stored - 1))'
      <3>1. PICK v : v = cdn'[q].body
        OBVIOUS
      <3>2. PICK t : t = cdn'[q].stored - 1
        OBVIOUS
      <3>3. IF IsBlob(q) THEN Signed(v, t) ELSE Current(q, v, t)
        BY <2>1, <2>2, <3>1, <3>2
      <3>4. IF IsBlob(q) THEN Signed(v, t)' ELSE Current(q, v, t)'
        BY <1>2, <3>3
      <3> QED
        BY <3>1, <3>2, <3>4 DEF IsBlob
    <2> QED
      BY <2>1, <2>2 DEF CdnInv
  <1> QED
    BY <1>1, <1>4, <1>5 DEF AnswersInv

\* What an answer makes of the CDN: the entry of its path, or nothing.
LEMMA DeliverAnswer ==
    ASSUME AnswersInv, ProxyInv', NEW c \in Conns, NEW torn, Deliver(c, torn), UNCHANGED setup
    PROVE  AnswersInv'
  <1> DEFINE r == conn[c]
             p == r.path
  <1>1. /\ r.pc = "answer" /\ conn' = [conn EXCEPT ![c] = Idle] /\ UNCHANGED <<now, until>>
        /\ \/ r.status \in {200, 307} /\ cdn' = Storing(p, r.body)
           \/ r.status = 304 /\ cdn' = Storing(p, r.etag)
           \/ cdn' = cdn
    BY DEF Deliver
  <1>2. Timely(r) /\ r # Idle /\ now \in Nat /\ SetupInv
    BY <1>1 DEF AnswersInv, ProxyInv, RequestsInv, ClockInv, Idle
  <1>3. r.since \in Nat /\ now - 1 <= r.since
    BY <1>2 DEF Timely
  <1>4. /\ r.status \in {200, 304, 307} => p \in Named \cup {V2, Catalog}
        /\ p \in Named => Answered(r)
        /\ p \notin Named => r.status \notin {304, 307}
    BY <1>1, <1>2 DEF Timely
  <1>5. p \in Named /\ r.status \in {200, 304, 307} =>
            IF IsBlob(p) THEN Signed(r.body, now - 1) ELSE Current(p, r.body, now - 1)
    <2> SUFFICES ASSUME p \in Named, r.status \in {200, 304, 307}
                 PROVE  IF IsBlob(p) THEN Signed(r.body, now - 1) ELSE Current(p, r.body, now - 1)
      OBVIOUS
    <2>1. now - 1 \in Int /\ r.since \in Int /\ ClockInv
      BY <1>2, <1>3 DEF AnswersInv
    <2>2. Answered(r)
      BY <1>4
    <2>3. CASE r.status = 307
      BY <1>2, <1>3, <2>1, <2>2, <2>3, SignedBefore DEF Answered
    <2>4. CASE r.status \in {200, 304}
      BY <1>3, <2>1, <2>2, <2>4, CurrentBefore DEF Answered
    <2> QED
      BY <2>3, <2>4
  <1>6. ASSUME NEW body, cdn' = Storing(p, body), body = r.body, r.status \in {200, 304, 307}
        PROVE  AnswersInv'
    <2> DEFINE entry == [body |-> body, stored |-> now]
    <2>1. /\ DOMAIN cdn' = DOMAIN cdn \cup {p} /\ cdn'[p] = entry
          /\ \A q \in DOMAIN cdn : q # p => cdn'[q] = cdn[q]
      BY <1>6 DEF Storing
    <2>2. DOMAIN entry = {"body", "stored"} /\ entry.stored = now /\ entry.body = r.body
      BY <1>6
    <2> HIDE DEF entry
    <2> HIDE DEF p
    <2>3. p \in Named \cup {V2, Catalog}
      BY <1>4, <1>6
    <2>4. p \in Named => IF IsBlob(p) THEN Signed(entry.body, now - 1)
                         ELSE Current(p, entry.body, now - 1)
      BY <1>5, <1>6, <2>2
    <2>5. PICK e : e = entry
      OBVIOUS
    <2> QED
      BY <1>1, <2>1, <2>2, <2>3, <2>4, <2>5, EntryAnswer
  <1>7. r.status = 304 => r.body = r.etag
    BY <1>4 DEF Answered
  <1>8. CASE cdn' = cdn
    <2>1. Timely(Idle)
      BY DEF Timely
    <2> QED
      BY <1>1, <1>8, <2>1, OneAnswer
  <1> QED
    BY <1>1, <1>6, <1>7, <1>8

\* A version that was current at an earlier time is one that was not replaced
\* before then, also after a move.
LEMMA MoveAnswer ==
    ASSUME AnswersInv, ProxyInv', NEW p \in Named, Move(p), UNCHANGED setup
    PROVE  AnswersInv'
  <1>1. /\ UNCHANGED <<now, conn, cdn>> /\ now \in Nat
        /\ until' = [until EXCEPT ![p] = Append(until[p], now)]
        /\ until \in [Named -> Seq(Nat)] /\ Named' = Named /\ Paths' = Paths /\ TickSeconds' = TickSeconds
    BY SameSetup DEF Move, AnswersInv, ClockInv, Paths
  <1>2. \A q \in Named : until'[q] = IF q = p THEN Append(until[p], now) ELSE until[q]
    BY <1>1
  <1>3. until[p] \in Seq(Nat) /\ Append(until[p], now) \in Seq(Nat)
    BY <1>1
  <1>4. ClockInv'
    BY <1>1, <1>3 DEF ClockInv
  <1>5. ASSUME NEW q \in Named, NEW v, NEW t \in Int, t <= now, Current(q, v, t)
        PROVE  Current(q, v, t)'
    <2>1. CASE q # p
      BY <1>2, <1>5, <2>1 DEF Current
    <2>2. CASE q = p
      <3>1. v \in Nat \ {0} /\ (v <= Len(until[p]) => until[p][v] >= t)
        BY <1>5, <2>2 DEF Current
      <3> DEFINE s == Append(until[p], now)
                 n == Len(until[p])
      <3>2. n \in Nat /\ Len(s) = n + 1 /\ s[n + 1] = now /\ \A i \in 1 .. n : s[i] = until[p][i]
        BY <1>1, <1>3
      <3> HIDE DEF s, n
      <3>3. ASSUME v <= Len(s)
            PROVE  s[v] >= t
        <4>1. CASE v = n + 1
          BY <1>1, <1>5, <3>2, <4>1
        <4>2. CASE v # n + 1
          <5>1. v \in 1 .. n
            BY <3>1, <3>2, <3>3, <4>2
          <5> QED
            BY <3>1, <3>2, <5>1 DEF n
        <4> QED
          BY <4>1, <4>2
      <3>4. until'[q] = s
        BY <1>2, <2>2 DEF s
      <3> QED
        BY <3>1, <3>3, <3>4 DEF Current
    <2> QED
      BY <2>1, <2>2
  <1>6. RequestsInv'
    <2>1. ASSUME NEW r, Timely(r)
          PROVE  Timely(r)'
      <3>1. CASE r = Idle
        BY <3>1 DEF Timely
      <3>2. CASE r # Idle
        <4>1. r.since \in Int /\ r.since <= now
          BY <2>1, <3>2 DEF Timely
        <4>2. r.path \in Named /\ Answered(r) => Answered(r)'
          BY <1>1, <1>5, <4>1 DEF Answered, Signed
        <4>3. Validated(r) => Validated(r)'
          BY <1>1 DEF Validated, Holds
        <4> QED
          BY <1>1, <2>1, <3>2, <4>2, <4>3 DEF Timely
      <3> QED
        BY <3>1, <3>2
    <2>2. ASSUME NEW d \in Conns
          PROVE  (Timely(conn[d]))'
      <3>1. PICK r : r = conn[d]
        OBVIOUS
      <3>2. Timely(r)'
        BY <2>1, <3>1 DEF AnswersInv, RequestsInv
      <3>3. r = conn'[d]
        BY <1>1, <3>1
      <3> QED
        BY <3>2, <3>3
    <2> QED
      BY <2>2 DEF RequestsInv
  <1>7. CdnInv'
    <2>1. ASSUME NEW q \in DOMAIN cdn', q \in Named'
          PROVE  (IF IsBlob(q) THEN Signed(cdn[q].body, cdn[q].stored - 1)
                  ELSE Current(q, cdn[q].body, cdn[q].stored - 1))'
      <3>1. PICK v : v = cdn[q].body
        OBVIOUS
      <3>2. PICK t : t = cdn[q].stored - 1
        OBVIOUS
      <3>3. q \in DOMAIN cdn /\ q \in Named /\ cdn[q].stored \in Nat /\ cdn[q].stored <= now
        BY <1>1, <2>1 DEF AnswersInv, CdnInv
      <3>4. t \in Int /\ t <= now
        BY <1>1, <3>2, <3>3
      <3>5. IF IsBlob(q) THEN Signed(v, t) ELSE Current(q, v, t)
        BY <3>1, <3>2, <3>3 DEF AnswersInv, CdnInv
      <3>6. IF IsBlob(q) THEN Signed(v, t)' ELSE Current(q, v, t)'
        BY <1>1, <1>5, <3>3, <3>4, <3>5 DEF Signed
      <3>7. v = cdn'[q].body /\ t = cdn'[q].stored - 1
        BY <1>1, <3>1, <3>2
      <3> QED
        BY <3>6, <3>7 DEF IsBlob
    <2> QED
      BY <1>1, <2>1 DEF AnswersInv, CdnInv
  <1> QED
    BY <1>4, <1>6, <1>7 DEF AnswersInv

\* No request outlives a second step of the clock.
LEMMA TickAnswer ==
    ASSUME AnswersInv, ProxyInv', Tick, UNCHANGED setup
    PROVE  AnswersInv'
  <1>1. /\ UNCHANGED <<until, conn, cdn>> /\ now \in Nat /\ now' = now + 1
        /\ \A c \in Conns : conn[c].pc # "idle" => conn[c].since = now
    BY DEF Tick, AnswersInv, ClockInv
  <1>2. ClockInv'
    BY <1>1, SameSetup DEF AnswersInv, ClockInv
  <1>3. \A q, v, t : (Current(q, v, t) => Current(q, v, t)') /\ (Signed(v, t) => Signed(v, t)')
    BY <1>1, SameSetup DEF Current, Signed
  <1>4. RequestsInv'
    <2>1. ASSUME NEW r, Timely(r), r.pc # "idle" => r.since = now
          PROVE  Timely(r)'
      <3>1. CASE r = Idle
        BY <3>1 DEF Timely
      <3>2. CASE r # Idle
        <4>1. r.pc \in {"lookup", "token", "send", "answer"}
          BY <2>1, <3>2 DEF Timely
        <4>2. r.since = now
          BY <2>1, <4>1
        <4>3. r.since \in Nat /\ r.since <= now' /\ now' <= r.since + 1
          BY <1>1, <4>2
        <4>4. Answered(r) => Answered(r)'
          BY <1>3 DEF Answered
        <4>5. Validated(r) => Validated(r)'
          BY <1>1 DEF Validated, Holds
        <4> QED
          BY <2>1, <3>2, <4>3, <4>4, <4>5, SameSetup DEF Timely, Paths
      <3> QED
        BY <3>1, <3>2
    <2>2. ASSUME NEW d \in Conns
          PROVE  (Timely(conn[d]))'
      <3>1. PICK r : r = conn[d]
        OBVIOUS
      <3>2. Timely(r)'
        BY <1>1, <2>1, <3>1 DEF AnswersInv, RequestsInv
      <3>3. r = conn'[d]
        BY <1>1, <3>1
      <3> QED
        BY <3>2, <3>3
    <2> QED
      BY <2>2 DEF RequestsInv
  <1>5. CdnInv'
    <2>1. ASSUME NEW q \in DOMAIN cdn', q \in Named'
          PROVE  (IF IsBlob(q) THEN Signed(cdn[q].body, cdn[q].stored - 1)
                  ELSE Current(q, cdn[q].body, cdn[q].stored - 1))'
      <3>1. PICK v : v = cdn[q].body
        OBVIOUS
      <3>2. PICK t : t = cdn[q].stored - 1
        OBVIOUS
      <3>3. IF IsBlob(q) THEN Signed(v, t) ELSE Current(q, v, t)
        BY <1>1, <2>1, <3>1, <3>2, SameSetup DEF AnswersInv, CdnInv
      <3>4. IF IsBlob(q) THEN Signed(v, t)' ELSE Current(q, v, t)'
        BY <1>3, <3>3
      <3>5. v = cdn'[q].body /\ t = cdn'[q].stored - 1
        BY <1>1, <3>1, <3>2
      <3> QED
        BY <3>4, <3>5 DEF IsBlob
    <2>2. \A q \in DOMAIN cdn : cdn[q].stored \in Nat /\ cdn[q].stored <= now + 1
      BY <1>1 DEF AnswersInv, CdnInv
    <2> QED
      BY <1>1, <2>1, <2>2, SameSetup DEF AnswersInv, CdnInv
  <1> QED
    BY <1>2, <1>4, <1>5 DEF AnswersInv

\* Every step keeps the invariant of the answers.
LEMMA AnswersStep ==
    ASSUME AnswersInv, [Next]_vars
    PROVE  AnswersInv'
  <1>0. UNCHANGED setup /\ ProxyInv'
    BY ProxyNext DEF Next, vars, AnswersInv
  <1>1. CASE UNCHANGED <<setup, now, until, conn, cdn>>
    BY <1>0, <1>1, SameSetup
    DEF AnswersInv, ClockInv, RequestsInv, CdnInv, Timely, Validated, Answered, Holds,
        Current, Signed, Paths
  <1>2. ASSUME NEW p \in Paths, Hit(p)
        PROVE  AnswersInv'
    BY <1>0, <1>1, <1>2 DEF Hit
  <1>3. ASSUME NEW p \in Paths, NEW c \in Conns, HitStale(c, p)
        PROVE  AnswersInv'
    BY <1>0, <1>3, BeginAnswer DEF HitStale
  <1>4. ASSUME NEW p \in Paths, NEW c \in Conns, NEW method \in Methods, Forward(c, p, method)
        PROVE  AnswersInv'
    BY <1>0, <1>4, BeginAnswer DEF Forward
  <1>5. ASSUME NEW c \in Conns, LookupHit(c) \/ LookupMiss(c) \/ Granted(c)
        PROVE  AnswersInv'
    BY <1>0, <1>5, AskingAnswer
  <1>6. ASSUME NEW c \in Conns, Found(c)
        PROVE  AnswersInv'
    BY <1>0, <1>6, FoundAnswer
  <1>7. ASSUME NEW c \in Conns, NEW status, status \notin {200, 304, 307},
               conn[c].pc \in {"token", "send"}, Give(c, status, 0), UNCHANGED <<now, until, cdn>>
        PROVE  AnswersInv'
    BY <1>0, <1>7, GiveAnswer
  <1>8. ASSUME NEW c \in Conns, BlobDirect(c)
        PROVE  AnswersInv'
    BY <1>7, <1>8 DEF BlobDirect
  <1>9. ASSUME NEW c \in Conns, NEW status \in {403, 502}, Denied(c, status)
        PROVE  AnswersInv'
    BY <1>7, <1>9 DEF Denied
  <1>10. ASSUME NEW c \in Conns, NEW status \in {404, 500, 502}, NotFound(c, status)
         PROVE  AnswersInv'
    BY <1>7, <1>10 DEF NotFound
  <1>11. ASSUME NEW c \in Conns, NEW torn \in BOOLEAN, Deliver(c, torn)
         PROVE  AnswersInv'
    BY <1>0, <1>11, DeliverAnswer
  <1>12. ASSUME NEW p \in Named, Move(p)
         PROVE  AnswersInv'
    BY <1>0, <1>12, MoveAnswer
  <1>13. CASE Tick
    BY <1>0, <1>13, TickAnswer
  <1>14. CASE UNCHANGED vars
    BY <1>1, <1>14 DEF vars
  <1> QED
    BY <1>2, <1>3, <1>4, <1>5, <1>6, <1>8, <1>9, <1>10, <1>11, <1>12, <1>13, <1>14 DEF Next

-----------------------------------------------------------------------------
(* What a client is given *)

Window(how) == 900 + (IF how = "error" THEN 86400 ELSE 3600)

\* What the properties ask of one answer.
Good(a) ==
    /\ a.path \in Named /\ a.status = 200 /\ ~Fixed(a.path) =>
          \E t \in Int : /\ Current(a.path, a.body, t)
                         /\ (a.at - t) * TickSeconds <= Window(a.how) + TickSeconds
    /\ a.status = 307 => a.body >= (a.at + 1) * TickSeconds

\* An answer that is good has the two properties.
LEMMA GoodSuffices ==
    ASSUME ClockInv, SetupInv, served = <<>> \/ (Good(served) /\ served.at \in Int)
    PROVE  SeenWithinWindow /\ SignatureValid
  <1>1. CASE served = <<>>
    BY <1>1 DEF SeenWithinWindow, SignatureValid
  <1>2. CASE Good(served) /\ served.at \in Int
    <2>1. ASSUME served.path \in Named, served.status = 200, ~Fixed(served.path),
                 served.body <= Len(until[served.path])
          PROVE  (served.at - until[served.path][served.body]) * TickSeconds
                     <= Window(served.how) + TickSeconds
      <3>1. PICK t \in Int : /\ Current(served.path, served.body, t)
                             /\ (served.at - t) * TickSeconds <= Window(served.how) + TickSeconds
        BY <1>2, <2>1 DEF Good
      <3> DEFINE s == until[served.path]
                 v == served.body
      <3>2. s \in Seq(Nat) /\ v \in Nat \ {0} /\ s[v] >= t /\ v <= Len(s)
        BY <2>1, <3>1 DEF ClockInv, Current
      <3>3. v \in 1 .. Len(s)
        BY <3>2
      <3>4. s[v] \in Nat
        BY <3>2, <3>3
      <3>5. TickSeconds \in Nat
        BY TickTyped
      <3>6. Window(served.how) \in Int
        BY DEF Window
      <3>7. ASSUME NEW at \in Int, NEW T \in Nat, NEW w \in Int, NEW x \in Nat, x >= t,
                   (at - t) * T <= w + T
            PROVE  (at - x) * T <= w + T
        <4>1. PICK d \in Nat : x = t + d
          <5>1. x - t \in Nat /\ x = t + (x - t)
            BY <3>7
          <5> QED
            BY <5>1
        <4>2. (at - x) * T = (at - t) * T - d * T /\ d * T \in Nat /\ (at - t) * T \in Int
          BY <4>1
        <4> QED
          BY <3>7, <4>2
      <3> HIDE DEF s, v
      <3>8. (served.at - s[v]) * TickSeconds <= Window(served.how) + TickSeconds
        BY <1>2, <3>1, <3>2, <3>4, <3>5, <3>6, <3>7
      <3> QED
        BY <3>8 DEF s, v
    <2>2. SeenWithinWindow
      BY <2>1 DEF SeenWithinWindow, Window
    <2> QED
      BY <1>2, <2>2 DEF SignatureValid, Good
  <1> QED
    BY <1>1, <1>2

\* What the CDN holds is good for as long as cacheControl lets it serve it.
LEMMA KeptGood ==
    ASSUME AnswersInv, NEW p, NEW how, NEW w \in Nat, Within(p, w),
           w \in {0, CacheControl(p).swr} \/ (w = CacheControl(p).sie /\ how = "error")
    PROVE  Good(Kept(p, how))
  <1> DEFINE a == Kept(p, how)
             T == TickSeconds
  <1> SUFFICES Good(a)
    OBVIOUS
  <1>1. /\ a.path = p /\ a.status = IF IsBlob(p) THEN 307 ELSE 200
        /\ a.body = cdn[p].body /\ a.at = now /\ a.how = how
    BY DEF Kept
  <1>2. /\ p \in Named \cup {V2, Catalog} /\ cdn[p].stored \in Nat /\ now \in Nat
        /\ p \in Named => IF IsBlob(p) THEN Signed(cdn[p].body, cdn[p].stored - 1)
                          ELSE Current(p, cdn[p].body, cdn[p].stored - 1)
    BY DEF Within, Holds, AnswersInv, CdnInv, ClockInv
  <1>3. SetupInv
    BY DEF AnswersInv, ProxyInv
  <1>4. T \in Nat /\ T >= 30 /\ T <= 3600
    BY <1>3, TickTyped
  <1>5. (now - cdn[p].stored) * T <= CacheControl(p).fresh + w
    BY DEF Within, Age
  <1> HIDE DEF a, T
  <1>6. CASE p \notin Named
    BY <1>1, <1>2, <1>3, <1>6, LocalPaths DEF Good
  <1>7. CASE p \in Named /\ IsBlob(p)
    <2>1. T \in {30, 50, 60}
      BY <1>3, <1>7, BlobTarget, Setting DEF T
    <2>2. CacheControl(p).fresh + w <= 240 /\ CacheControl(p).fresh \in Int
      BY <1>3, <1>7, Policies
    <2>3. (now - cdn[p].stored) * T <= 240
      BY <1>2, <1>4, <1>5, <2>2
    <2>4. cdn[p].body \in Int /\ cdn[p].body >= (cdn[p].stored - 1) * T + 300 + T
      BY <1>2, <1>7 DEF Signed, T
    <2>5. cdn[p].body >= (now + 1) * T
      BY <1>2, <2>1, <2>3, <2>4, StillGood
    <2>6. a.status = 307
      BY <1>1, <1>7
    <2> QED
      BY <1>1, <2>5, <2>6 DEF Good, T
  <1>8. CASE p \in Named /\ ~IsBlob(p) /\ Fixed(p)
    BY <1>1, <1>8 DEF Good
  <1>9. CASE p \in Named /\ ~IsBlob(p) /\ ~Fixed(p)
    <2>1. CacheControl(p).fresh + w <= Window(how) /\ CacheControl(p).fresh \in Int
      <3>1. /\ CacheControl(p).fresh \in Int /\ CacheControl(p).swr \in Nat
            /\ CacheControl(p).fresh + CacheControl(p).swr <= 4500
            /\ CacheControl(p).fresh + CacheControl(p).sie <= 87300
        BY <1>3, <1>9, Policies
      <3>2. CASE w \in {0, CacheControl(p).swr}
        <4>1. Window(how) \in {4500, 87300}
          BY DEF Window
        <4> QED
          BY <3>1, <3>2, <4>1
      <3>3. CASE w = CacheControl(p).sie /\ how = "error"
        <4>1. Window(how) = 87300
          BY <3>3 DEF Window
        <4> QED
          BY <3>1, <3>3, <4>1
      <3> QED
        BY <3>2, <3>3
    <2>2. Window(how) \in Int
      BY DEF Window
    <2>3. (now - cdn[p].stored) * T <= Window(how)
      BY <1>2, <1>4, <1>5, <2>1, <2>2
    <2>4. (now - (cdn[p].stored - 1)) * T <= Window(how) + T
      BY <1>2, <1>4, <2>2, <2>3, StepOlder
    <2>5. cdn[p].stored - 1 \in Int /\ Current(p, cdn[p].body, cdn[p].stored - 1)
      BY <1>2, <1>9
    <2>6. a.status = 200
      BY <1>1, <1>9
    <2> QED
      BY <1>1, <2>4, <2>5, <2>6 DEF Good, T
  <1> QED
    BY <1>6, <1>7, <1>8, <1>9

\* An answer of the origin is a step of the clock old, or of the entry it confirms two.
LEMMA OriginGood ==
    ASSUME AnswersInv, NEW p \in Named, NEW a, a.path = p, a.at = now, a.how = "origin",
           a.status = 200, ~IsBlob(p), NEW t \in Int, now - 2 <= t, Current(p, a.body, t)
    PROVE  Good(a)
  <1>1. now \in Nat /\ SetupInv
    BY DEF AnswersInv, ClockInv, ProxyInv
  <1>2. PICK T \in Nat : T = TickSeconds /\ T <= 3600
    BY <1>1, TickTyped
  <1>3. Window("origin") = 4500
    BY DEF Window
  <1>4. (now - t) * T <= 4500 + T
    <2>1. now - t <= 2 /\ now - t \in Int
      BY <1>1
    <2>2. PICK d \in Nat : now - t = 2 - d
      <3>1. 2 - (now - t) \in Nat /\ now - t = 2 - (2 - (now - t))
        BY <2>1
      <3> QED
        BY <3>1
    <2>3. (now - t) * T = 2 * T - d * T /\ d * T \in Nat
      BY <2>2
    <2> QED
      BY <1>2, <2>3
  <1> QED
    BY <1>2, <1>3, <1>4 DEF Good

\* A client is given what is good, or nothing.
LEMMA DeliverGood ==
    ASSUME AnswersInv, NEW c \in Conns, NEW torn, Deliver(c, torn)
    PROVE  \E a : served' = a /\ (a = <<>> \/ (Good(a) /\ a.at = now))
  <1> DEFINE r == conn[c]
             p == r.path
             fresh == [path |-> p, status |-> r.status, body |-> r.body, at |-> now,
                       how |-> "origin"]
  <1>1. /\ r.pc = "answer"
        /\ \/ served' = <<>>
           \/ r.status = 304 /\ Holds(p) /\ served' = Kept(p, "origin")
           \/ Within(p, CacheControl(p).sie) /\ served' = Kept(p, "error")
           \/ r.status # 304 /\ served' = fresh
    BY DEF Deliver
  <1>2. Timely(r) /\ r # Idle /\ now \in Nat /\ SetupInv
    BY <1>1 DEF AnswersInv, ProxyInv, RequestsInv, ClockInv, Idle
  <1>3. /\ r.since \in Nat /\ now <= r.since + 1 /\ r.since <= now
        /\ p \in Named => Validated(r) /\ Answered(r)
        /\ p \notin Named => r.status \notin {304, 307}
    BY <1>1, <1>2 DEF Timely
  <1>4. \A q, how : Kept(q, how).at = now
    BY DEF Kept
  <1>5. CASE Within(p, CacheControl(p).sie) /\ served' = Kept(p, "error")
    <2>1. p \in Named \cup {V2, Catalog}
      BY <1>5 DEF Within, Holds, AnswersInv, CdnInv
    <2>2. CASE p \in Named
      <3>1. CacheControl(p).sie \in Nat
        BY <1>2, <2>2, Policies
      <3>2. Good(Kept(p, "error"))
        BY <1>5, <3>1, KeptGood
      <3> QED
        BY <1>4, <1>5, <3>2
    <2>3. CASE p \notin Named
      <3>1. ~IsBlob(p)
        BY <1>2, <2>1, <2>3, LocalPaths
      <3>2. Good(Kept(p, "error"))
        BY <2>3, <3>1 DEF Good, Kept
      <3> QED
        BY <1>4, <1>5, <3>2
    <2> QED
      BY <2>2, <2>3
  <1>6. CASE r.status = 304 /\ Holds(p) /\ served' = Kept(p, "origin")
    <2> DEFINE a == Kept(p, "origin")
    <2>1. p \in Named /\ Validated(r) /\ ~IsBlob(p) /\ Current(p, r.etag, r.since)
      BY <1>3, <1>6 DEF Answered
    <2>2. a.path = p /\ a.status = 200 /\ a.body = cdn[p].body /\ a.at = now /\ a.how = "origin"
      BY <2>1 DEF Kept
    <2> HIDE DEF a
    <2>3. r.etag # 0
      BY <2>1 DEF Current
    <2>4. CASE cdn[p].body = r.etag
      <3>1. now - 2 <= r.since /\ r.since \in Int
        BY <1>2, <1>3
      <3> QED
        BY <1>6, <2>1, <2>2, <2>4, <3>1, OriginGood DEF a
    <2>5. CASE cdn[p].stored >= r.since
      <3>1. /\ Current(p, cdn[p].body, cdn[p].stored - 1) /\ cdn[p].stored \in Nat
        BY <1>6, <2>1 DEF Holds, AnswersInv, CdnInv
      <3>2. now - 2 <= cdn[p].stored - 1 /\ cdn[p].stored - 1 \in Int
        BY <1>2, <1>3, <2>5, <3>1
      <3> HIDE DEF p
      <3> QED
        BY <1>6, <2>1, <2>2, <3>1, <3>2, OriginGood DEF a
    <2> QED
      BY <2>1, <2>3, <2>4, <2>5 DEF Validated
  <1>7. CASE r.status # 304 /\ served' = fresh
    <2>1. /\ fresh.path = p /\ fresh.status = r.status /\ fresh.body = r.body
          /\ fresh.at = now /\ fresh.how = "origin"
      OBVIOUS
    <2> HIDE DEF fresh
    <2>2. CASE p \notin Named \/ r.status \notin {200, 307}
      <3>1. Good(fresh)
        BY <1>3, <2>1, <2>2 DEF Good
      <3> QED
        BY <1>7, <2>1, <3>1
    <2>3. CASE p \in Named /\ r.status = 200
      <3>1. ~IsBlob(p) /\ Current(p, r.body, r.since)
        BY <1>3, <2>3 DEF Answered
      <3>2. now - 2 <= r.since /\ r.since \in Int
        BY <1>2, <1>3
      <3>3. Good(fresh)
        BY <2>1, <2>3, <3>1, <3>2, OriginGood
      <3> QED
        BY <1>7, <2>1, <3>3
    <2>4. CASE p \in Named /\ r.status = 307
      <3>1. IsBlob(p) /\ Signed(r.body, r.since)
        BY <1>3, <2>4 DEF Answered
      <3>2. PICK T : T = TickSeconds /\ T \in {30, 50, 60}
        BY <1>2, <2>4, <3>1, BlobTarget, Setting
      <3>3. r.body \in Int /\ r.body >= r.since * T + 300 + T
        BY <3>1, <3>2 DEF Signed
      <3>4. ASSUME NEW since \in Nat, now <= since + 1, NEW body \in Int,
                   body >= since * T + 300 + T
            PROVE  body >= (now + 1) * T
        <4>1. CASE T = 30
          BY <1>2, <3>4, <4>1
        <4>2. CASE T = 50
          BY <1>2, <3>4, <4>2
        <4>3. CASE T = 60
          BY <1>2, <3>4, <4>3
        <4> QED
          BY <3>2, <4>1, <4>2, <4>3
      <3>5. r.body >= (now + 1) * T
        BY <1>3, <3>3, <3>4
      <3>6. Good(fresh)
        BY <2>1, <2>4, <3>2, <3>5 DEF Good
      <3> QED
        BY <1>7, <2>1, <3>6
    <2> QED
      BY <2>2, <2>3, <2>4
  <1> QED
    BY <1>1, <1>5, <1>6, <1>7

\* Every step leaves the client with what is good, or nothing.
LEMMA ServedStep ==
    ASSUME AnswersInv, SeenWithinWindow, SignatureValid, [Next]_vars
    PROVE  (SeenWithinWindow /\ SignatureValid)'
  <1>1. UNCHANGED setup /\ AnswersInv'
    BY AnswersStep DEF Next, vars
  <1>2. ASSUME NEW a, served' = a, a = <<>> \/ (Good(a) /\ a.at = now), UNCHANGED <<now, until>>
        PROVE  (SeenWithinWindow /\ SignatureValid)'
    <2>1. \A q, v, t : Current(q, v, t) => Current(q, v, t)'
      BY <1>2 DEF Current
    <2>2. Fixed(a.path)' <=> Fixed(a.path)
      BY <1>1, SameSetup DEF Fixed
    <2>3. Good(a) => Good(a)'
      BY <1>1, <2>1, <2>2, SameSetup DEF Good
    <2>4. now \in Nat
      BY DEF AnswersInv, ClockInv
    <2>5. (served = <<>> \/ (Good(served) /\ served.at \in Int))'
      <3>1. a = <<>> \/ (Good(a)' /\ a.at \in Int)
        BY <1>2, <2>3, <2>4
      <3> QED
        BY <1>2, <3>1 DEF Good
    <2>6. (ClockInv /\ SetupInv)'
      BY <1>1 DEF AnswersInv, ProxyInv
    <2> QED
      BY <2>5, <2>6, GoodSuffices, PTL
  <1>3. ASSUME NEW a, served' = a, a = <<>>
        PROVE  (SeenWithinWindow /\ SignatureValid)'
    BY <1>3 DEF SeenWithinWindow, SignatureValid
  <1>4. ASSUME NEW p \in Paths, Within(p, 0), served' = Kept(p, "kept"), UNCHANGED <<now, until>>
        PROVE  (SeenWithinWindow /\ SignatureValid)'
    <2>1. Good(Kept(p, "kept")) /\ Kept(p, "kept").at = now
      BY <1>4, KeptGood DEF Kept
    <2> QED
      BY <1>2, <1>4, <2>1
  <1>5. ASSUME NEW p \in Paths, NEW c \in Conns, HitStale(c, p)
        PROVE  (SeenWithinWindow /\ SignatureValid)'
    <2>1. /\ Within(p, CacheControl(p).swr) /\ served' = Kept(p, "kept") /\ UNCHANGED <<now, until>>
      BY <1>5 DEF HitStale
    <2>2. p \in Named \cup {V2, Catalog} /\ SetupInv
      BY <2>1 DEF Within, Holds, AnswersInv, CdnInv, ProxyInv
    <2>3. Good(Kept(p, "kept"))
      <3>1. CASE p \in Named
        <4>1. CacheControl(p).swr \in Nat
          BY <2>2, <3>1, Policies
        <4> QED
          BY <2>1, <4>1, KeptGood
      <3>2. CASE p \notin Named
        <4>1. ~IsBlob(p)
          BY <2>2, <3>2, LocalPaths
        <4> QED
          BY <3>2, <4>1 DEF Good, Kept
      <3> QED
        BY <3>1, <3>2
    <2>4. Kept(p, "kept").at = now
      BY DEF Kept
    <2> QED
      BY <1>2, <2>1, <2>3, <2>4
  <1>6. ASSUME NEW c \in Conns, NEW torn \in BOOLEAN, Deliver(c, torn)
        PROVE  (SeenWithinWindow /\ SignatureValid)'
    <2>1. UNCHANGED <<now, until>>
      BY <1>6 DEF Deliver
    <2>2. PICK a : served' = a /\ (a = <<>> \/ (Good(a) /\ a.at = now))
      BY <1>6, DeliverGood
    <2> QED
      BY <1>2, <2>1, <2>2
  <1>7. CASE UNCHANGED vars
    BY <1>7, SameSetup DEF vars, SeenWithinWindow, SignatureValid, Fixed
  <1>8. CASE served' = <<>>
    BY <1>3, <1>8
  <1>9. CASE Next
    <2>1. \/ served' = <<>>
          \/ \E p \in Paths : Within(p, 0) /\ served' = Kept(p, "kept") /\ UNCHANGED <<now, until>>
          \/ \E p \in Paths, c \in Conns : HitStale(c, p)
          \/ \E c \in Conns, torn \in BOOLEAN : Deliver(c, torn)
      BY <1>9 DEF Next, Hit, Forward, LookupHit, LookupMiss, Granted, Found, BlobDirect, Denied,
                  NotFound, Move, Tick
    <2> QED
      BY <1>4, <1>5, <1>6, <1>8, <2>1
  <1> QED
    BY <1>7, <1>9

\* SeenWithinWindow for any repositories, number of requests and moves, and any step
\* of the clock up to an hour (cacheControl, MutableShort): whatever overtakes
\* what, a client is never given a tag that was replaced longer ago than the windows.
THEOREM TagsWithinWindow == Spec => []SeenWithinWindow
  <1>1. Init => AnswersInv /\ SeenWithinWindow /\ SignatureValid
    BY AnswersInit
  <1>2. AnswersInv /\ SeenWithinWindow /\ SignatureValid /\ [Next]_vars
            => (AnswersInv /\ SeenWithinWindow /\ SignatureValid)'
    BY AnswersStep, ServedStep
  <1> QED
    BY <1>1, <1>2, PTL DEF Spec

\* SignatureValid for steps of the clock of half a minute to a minute: the two minutes
\* and two more of a redirect in the CDN, and the request's own time, are less than
\* what the rounding leaves of a signature (cacheControl).
THEOREM RedirectsStillSigned == Spec => []SignatureValid
  <1>1. Init => AnswersInv /\ SeenWithinWindow /\ SignatureValid
    BY AnswersInit
  <1>2. AnswersInv /\ SeenWithinWindow /\ SignatureValid /\ [Next]_vars
            => (AnswersInv /\ SeenWithinWindow /\ SignatureValid)'
    BY AnswersStep, ServedStep
  <1> QED
    BY <1>1, <1>2, PTL DEF Spec
=============================================================================
