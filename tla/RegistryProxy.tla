---------------------------- MODULE RegistryProxy ----------------------------
(***************************************************************************)
(* The registry front (oci/proxy): a pull-through proxy that puts the      *)
(* repository prefix in front of a path, sends it upstream with a token    *)
(* scoped to the repository, and tells the CDN in front of it how long the *)
(* answer may be kept.                                                     *)
(*                                                                         *)
(* A path is the sequence of its segments.  The upstream registry and the  *)
(* CDN are outside the repository: the registry moves what is mutable and  *)
(* signs the redirect of a blob, and the CDN does what max-age,            *)
(* stale-while-revalidate and stale-if-error tell it to.                   *)
(***************************************************************************)
EXTENDS Integers, Sequences, FiniteSets

CONSTANTS
    Conns,           \* requests the proxy serves at once
    Digests,         \* the references that start with "sha256:"
    Setups           \* what a behaviour may be about, see setup

VARIABLES
    setup,       \* [repos, targets, locals, methods, room, tick, framed, time, moves]
    now,
    until,       \* until[p][v]: when version v of p was replaced
    transports,  \* the LRU cache, least recently used first
    conn,        \* conn[c]: a request in the proxy, with what Begin and Give put in it
    cdn,         \* what the CDN holds, [body, stored] by path
    served       \* the answer a client gets in this step, [path, status, body, at, how]

vars == <<setup, now, until, transports, conn, cdn, served>>

\* Of the setup:
Repos == setup.repos             \* repositories, each a sequence of segments
Targets == setup.targets         \* what is asked of one: <<"manifests", "latest">>, ...
Locals == setup.locals           \* paths the proxy answers itself: /v2/, the catalog, no /v2 at all
Methods == setup.methods         \* "GET", and "PUT" for what is not allowed
MaxTransports == setup.room      \* MaxCacheEntries
TickSeconds == setup.tick        \* seconds in a step of the clock
Framed == setup.framed           \* upstream sends a Content-Length
MaxTime == setup.time            \* bound: steps of the clock
MaxMoves == setup.moves          \* bound: moves of one mutable thing

V2 == <<"v2">>
Catalog == <<"v2", "_catalog">>
Named == {V2 \o repo \o target : repo \in Repos, target \in Targets}
Paths == Named \cup Locals

Ops == {"manifests", "blobs", "tags", "referrers"}

Sound(s) ==
    /\ s.room \in Nat \ {0} /\ s.time \in Nat /\ s.moves \in Nat /\ s.framed \in BOOLEAN
    \* WriteTimeout: a request outlives one step of the clock at most.
    /\ s.tick \in 30 .. 3600
    \* The clock tells the minutes of a signature's last moments apart.
    /\ (\E target \in s.targets : target[1] = "blobs") => s.tick \in {30, 50, 60}
    \* A repository may be named like an operation; no tag is.
    /\ s.repos \subseteq Seq(STRING) \ {<<>>}
    /\ \A target \in s.targets :
          /\ target \in Seq(STRING) /\ target # <<>> /\ target[1] \in Ops
          /\ \A i \in 2 .. Len(target) : target[i] \notin Ops
    /\ \A p \in s.locals : p \in {V2, Catalog} \/ p[1] # "v2"

ASSUME ProxyAssumption == \A s \in Setups : Sound(s)

-----------------------------------------------------------------------------
(* Paths *)

Rest(p) == Tail(p)

\* The last operation segment, or 0.
FindOp(segments) ==
    LET ops == {i \in DOMAIN segments : segments[i] \in Ops}
    IN  IF ops = {} THEN 0 ELSE CHOOSE i \in ops : \A j \in ops : j <= i

\* Mutant: the repository is the first segment.
ExtractRepoFirst(p) == SubSeq(Rest(p), 1, 1)

ExtractRepo(p) ==
    LET i == FindOp(Rest(p)) IN IF i > 1 THEN SubSeq(Rest(p), 1, i - 1) ELSE Rest(p)

IsBlob(p) == LET i == FindOp(Rest(p)) IN i > 0 /\ Rest(p)[i] = "blobs"
IsTagsList(p) == Len(p) > 2 /\ SubSeq(p, Len(p) - 1, Len(p)) = <<"tags", "list">>

Policy(fresh, swr, sie) == [fresh |-> fresh, swr |-> swr, sie |-> sie]
Uncached == Policy(-1, 0, 0)
MutableShort == Policy(900, 3600, 86400)

\* By the operation of a path; the last segment is no operation.
PolicyOf(p, digestManifest, blob) ==
    LET rest == Rest(p)
        i == FindOp(rest)
        op == IF i \in 1 .. Len(rest) - 1 THEN rest[i] ELSE "none"
    IN  CASE p = V2 -> Policy(86400, 0, 86400)
          [] p = Catalog \/ IsTagsList(p) -> MutableShort
          [] op = "manifests" -> IF rest[i + 1] \in Digests THEN digestManifest ELSE MutableShort
          [] op = "referrers" -> MutableShort
          [] op = "blobs" -> blob
          [] OTHER -> Uncached

Immutable == Policy(31536000, 0, 0)

\* Mutant: a redirect is kept as long as a tag.
CacheControlLongBlobs(p) == PolicyOf(p, Immutable, MutableShort)

\* Mutant: every manifest is immutable.
CacheControlImmutable(p) ==
    IF p \in Named /\ FindOp(Rest(p)) = Len(Rest(p)) - 1 /\ "manifests" \in {p[i] : i \in DOMAIN p}
    THEN Immutable ELSE PolicyOf(p, Immutable, Policy(120, 120, 120))

CacheControl(p) == PolicyOf(p, Immutable, Policy(120, 120, 120))

-----------------------------------------------------------------------------
(* The upstream registry *)

\* A manifest or a blob that is named by its digest.
Fixed(p) ==
    \E repo \in Repos, target \in Targets :
        p = V2 \o repo \o target /\ target[1] \in {"manifests", "blobs"} /\ target[2] \in Digests
Version(p) == Len(until[p]) + 1

\* The expiry of a signed redirect: ten minutes on, "rounded down to the next
\* 5-min wall-clock boundary".
SignedUntil == ((now * TickSeconds + 600) \div 300) * 300

Body(p) == IF IsBlob(p) THEN SignedUntil ELSE Version(p)

-----------------------------------------------------------------------------
(* State *)

Idle == [pc |-> "idle"]
Give(c, status, body) ==
    conn' = [conn EXCEPT ![c].pc = "answer", ![c].status = status, ![c].body = body]

Holds(p) == p \in DOMAIN cdn
Age(p) == (now - cdn[p].stored) * TickSeconds
Within(p, window) == Holds(p) /\ Age(p) <= CacheControl(p).fresh + window

Kept(p, how) ==
    [path |-> p, status |-> IF IsBlob(p) THEN 307 ELSE 200, body |-> cdn[p].body,
     at |-> now, how |-> how]

\* What the CDN holds once it has the body of p as of now.
Storing(p, body) ==
    [q \in DOMAIN cdn \cup {p} |-> IF q = p THEN [body |-> body, stored |-> now] ELSE cdn[q]]

-----------------------------------------------------------------------------
(* The CDN takes a request *)

\* A request that reaches the proxy (ServeHTTP): what needs no upstream is
\* answered at once.
Begin(c, p, method, waiting) ==
    LET request == [pc |-> "lookup", path |-> p, method |-> method, waiting |-> waiting,
                    etag |-> IF Holds(p) /\ method = "GET" THEN cdn[p].body ELSE 0,
                    since |-> now, scope |-> <<>>, status |-> 0, body |-> 0]
        answered(status) == [request EXCEPT !.pc = "answer", !.status = status]
    IN  conn' = [conn EXCEPT ![c] =
            IF method # "GET" THEN answered(405)
            ELSE IF p \in {V2, Catalog} THEN answered(200)
            ELSE IF p[1] # "v2" THEN answered(404) ELSE request]

Hit(p) ==
    /\ Within(p, 0)
    /\ served' = Kept(p, "kept")
    /\ UNCHANGED <<now, until, transports, conn, cdn>>

\* Stale but within the window: served, and revalidated behind the answer.
HitStale(c, p) ==
    /\ Within(p, CacheControl(p).swr) /\ ~Within(p, 0)
    /\ conn[c].pc = "idle"
    /\ served' = Kept(p, "kept")
    /\ Begin(c, p, "GET", FALSE)
    /\ UNCHANGED <<now, until, transports, cdn>>

Forward(c, p, method) ==
    /\ conn[c].pc = "idle"
    /\ method = "GET" => ~Within(p, CacheControl(p).swr)
    /\ Begin(c, p, method, TRUE)
    /\ served' = <<>>
    /\ UNCHANGED <<now, until, transports, cdn>>

-----------------------------------------------------------------------------
(* The proxy *)

\* The cache without its n-th transport; there is one at most for a key.
Without(n) ==
    [i \in 1 .. Len(transports) - 1 |-> transports[IF i < n THEN i ELSE i + 1]]

\* lru.Add: the newest goes last, and one too many is the oldest's eviction.
Add(repo, scope) ==
    LET old == {n \in DOMAIN transports : transports[n].key = repo}
        others == IF old = {} THEN transports ELSE Without(CHOOSE n \in old : TRUE)
        all == Append(others, [key |-> repo, scope |-> scope])
    IN  IF Len(all) > MaxTransports THEN Tail(all) ELSE all

\* getTransport finds a transport, which becomes the most recently used one.
LookupHit(c) ==
    /\ conn[c].pc = "lookup"
    /\ \E n \in DOMAIN transports :
        /\ transports[n].key = ExtractRepo(conn[c].path)
        /\ conn' = [conn EXCEPT ![c].pc = "send", ![c].scope = transports[n].scope]
        /\ transports' = Append(Without(n), transports[n])
    /\ served' = <<>>
    /\ UNCHANGED <<now, until, cdn>>

LookupMiss(c) ==
    /\ conn[c].pc = "lookup"
    /\ \A n \in DOMAIN transports : transports[n].key # ExtractRepo(conn[c].path)
    /\ conn' = [conn EXCEPT ![c].pc = "token"]
    /\ served' = <<>>
    /\ UNCHANGED <<now, until, transports, cdn>>

\* The token exchange of transport.New: granted, and the transport is cached
\* whoever else was asking for one ...
Granted(c) ==
    /\ conn[c].pc = "token"
    /\ LET repo == ExtractRepo(conn[c].path)
       IN  /\ transports' = Add(repo, repo)
           /\ conn' = [conn EXCEPT ![c].pc = "send", ![c].scope = repo]
    /\ served' = <<>>
    /\ UNCHANGED <<now, until, cdn>>

\* ... or refused, with the registry's own 4xx or a 502.
Denied(c, status) ==
    /\ conn[c].pc = "token"
    /\ Give(c, status, 0)
    /\ served' = <<>>
    /\ UNCHANGED <<now, until, transports, cdn>>

\* The round trip: a 200, a redirect, or a 304 to the CDN's If-None-Match.
Found(c) ==
    LET p == conn[c].path
    IN  /\ conn[c].pc = "send"
        /\ Give(c, IF IsBlob(p) THEN 307 ELSE IF conn[c].etag = Body(p) THEN 304 ELSE 200,
                Body(p))
        /\ served' = <<>>
        /\ UNCHANGED <<now, until, transports, cdn>>

\* A registry that answers a blob with its bytes is refused.
BlobDirect(c) ==
    /\ conn[c].pc = "send" /\ IsBlob(conn[c].path)
    /\ Give(c, 502, 0)
    /\ served' = <<>>
    /\ UNCHANGED <<now, until, transports, cdn>>

\* 404, the registry's 5xx, or a round trip that failed.
NotFound(c, status) ==
    /\ conn[c].pc = "send"
    /\ Give(c, status, 0)
    /\ served' = <<>>
    /\ UNCHANGED <<now, until, transports, cdn>>

\* The answer, with its Cache-Control, reaches the CDN; copying an upstream
\* body may break off.  A break shows when the length was announced.
Deliver(c, torn) ==
    LET r == conn[c]
        p == r.path
        body == r.status = 200 /\ p \in Named
        ok == ~torn \/ ~Framed
    IN  /\ r.pc = "answer" /\ (torn => body)
        /\ cdn' = CASE r.status \in {200, 307} /\ CacheControl(p) # Uncached /\ ok ->
                         Storing(p, r.body)
                    [] r.status = 304 /\ Holds(p) /\ r.etag = cdn[p].body ->
                         Storing(p, r.etag)
                    [] OTHER -> cdn
        /\ served' = IF ~r.waiting \/ ~ok THEN <<>>
                     ELSE CASE r.status = 304 -> IF Holds(p) THEN Kept(p, "origin") ELSE <<>>
                            [] r.status >= 500 /\ r.method = "GET" /\ Within(p, CacheControl(p).sie) ->
                                   Kept(p, "error")
                            [] OTHER -> [path |-> p, status |-> r.status, body |-> r.body,
                                         at |-> now, how |-> "origin"]
        /\ conn' = [conn EXCEPT ![c] = Idle]
        /\ UNCHANGED <<now, until, transports>>

-----------------------------------------------------------------------------
(* The world *)

Move(p) ==
    /\ p \in Named /\ ~Fixed(p) /\ ~IsBlob(p) /\ Len(until[p]) < MaxMoves
    /\ until' = [until EXCEPT ![p] = Append(@, now)]
    /\ served' = <<>>
    /\ UNCHANGED <<now, transports, conn, cdn>>

Tick ==
    /\ now < MaxTime
    /\ \A c \in Conns : conn[c].pc # "idle" => conn[c].since = now
    /\ now' = now + 1
    /\ served' = <<>>
    /\ UNCHANGED <<until, transports, conn, cdn>>

-----------------------------------------------------------------------------
Init ==
    /\ setup \in Setups
    /\ now = 0
    /\ until = [p \in Named |-> <<>>]
    /\ transports = <<>>
    /\ conn = [c \in Conns |-> Idle]
    /\ cdn = <<>>
    /\ served = <<>>

Next ==
    /\ UNCHANGED setup
    /\ \/ \E p \in Paths : Hit(p)
       \/ \E p \in Paths, c \in Conns :
           HitStale(c, p) \/ \E method \in Methods : Forward(c, p, method)
       \/ \E c \in Conns :
           \/ LookupHit(c) \/ LookupMiss(c) \/ Granted(c) \/ Found(c) \/ BlobDirect(c)
           \/ \E status \in {403, 502} : Denied(c, status)
           \/ \E status \in {404, 500, 502} : NotFound(c, status)
           \/ \E torn \in BOOLEAN : Deliver(c, torn)
       \/ \E p \in Named : Move(p)
       \/ Tick

Spec == Init /\ [][Next]_vars

-----------------------------------------------------------------------------
\* A request goes upstream with the token of the repository it is about
\* (getTransport), with repositories inside repositories, two requests asking
\* for a token at once and transports being evicted.
TokenScoped ==
    \A c \in Conns : conn[c].pc = "send" =>
        \E target \in Targets : conn[c].path = V2 \o conn[c].scope \o target

\* A client never gets a tag, a tag list or a referrers list that was replaced
\* longer ago than cacheControl's "15-minute fresh window + 1-hour SWR", late
\* answers included; it may be older only because the registry failed.
SeenWithinWindow ==
    served # <<>> /\ served.path \in Named /\ served.status = 200 /\ ~Fixed(served.path) =>
        LET window == 900 + (IF served.how = "error" THEN 86400 ELSE 3600)
        IN  served.body <= Len(until[served.path]) =>
                (served.at - until[served.path][served.body]) * TickSeconds
                    <= window + TickSeconds

\* "the cache never serves an expired signature even at the SWR boundary"
\* (cacheControl): a redirect is still good at the end of the step it is
\* served in.
SignatureValid ==
    served # <<>> /\ served.status = 307 => served.body >= (served.at + 1) * TickSeconds

=============================================================================
