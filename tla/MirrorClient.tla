---------------------------- MODULE MirrorClient ----------------------------
(***************************************************************************)
(* The Directory's reader of the Mirror, web/internal/mirror: concurrent   *)
(* requests that resolve a reference, consult a cache keyed by digest,     *)
(* walk the referrers of the digest and fill the cache.  No request waits  *)
(* for another: two that miss both walk and both fill.                     *)
(*                                                                         *)
(* The referrers of a digest are numbered in the order they were attached, *)
(* which is the order they were signed in and the order scans finished in; *)
(* "newest" is the greatest number.  What an answer or a cache entry says  *)
(* is a function of which referrers it was computed from, so that set is   *)
(* what the model keeps.                                                   *)
(***************************************************************************)
EXTENDS Naturals, FiniteSets, Sequences

CONSTANTS
    Requests,    \* HTTP requests in flight at once
    Capacity,    \* maxCachedImages
    TTL,         \* defaultScanTTL
    Slowest,     \* assumption: the longest a walk of the referrers takes
    Setups,      \* what a behaviour may be about, see setup
    NoEntry, NoRef

VARIABLES
    setup,       \* [digests, tags, asked, impatient, flaky, time, referrers]
    clock,
    names,       \* names[t]: the digest tag t names on the registry
    attached,    \* attached[d]: the referrers of d, [kind, at], oldest first
    cache,       \* cache[m][d]: the caches of the Client, [from, listed, expires], by method
    pc,          \* pc[q]: where request q is
    method, ref, digest,
    gone,        \* gone[q]: the request's context is cancelled
    listed,      \* listed[q]: when the referrers were listed
    size,        \* size[q]: how many the listing had
    pos,         \* pos[q]: how many have been visited
    read,        \* read[q]: those whose statement was read and verified
    when         \* when[q]: when the answer was given (history)

registry == <<names, attached>>
request == <<method, ref, digest, gone, listed, size, pos, read, when>>
vars == <<setup, clock, registry, cache, pc, request>>

\* Of the setup:
Digests == setup.digests
Tags == setup.tags
Asked == setup.asked               \* the Client methods requests call
Impatient == setup.impatient       \* readers may disconnect
Flaky == setup.flaky               \* a read of one referrer may fail
MaxTime == setup.time              \* bound: the clock
MaxReferrers == setup.referrers    \* bound: referrers of one digest

Methods == {"SBOM", "Document", "Scan", "ScanDocument", "Scans"}
Cached == {"SBOM", "Scan", "Scans"}
Kinds == {"sbom", "scan", "vex"}

ASSUME ClientAssumption ==
    /\ Capacity \in Nat \ {0} /\ TTL \in Nat /\ Slowest \in Nat
    /\ \A s \in Setups :
          /\ IsFiniteSet(s.digests) /\ s.asked \subseteq Methods
          /\ s.impatient \in BOOLEAN /\ s.flaky \in BOOLEAN
          /\ s.time \in Nat /\ s.referrers \in Nat
          /\ NoRef \notin s.tags \cup s.digests

-----------------------------------------------------------------------------
Goto(q, label) == pc' = [pc EXCEPT ![q] = label]

\* A Client method is called with a tag or a digest; resolve skips the lookup
\* for a digest, which names itself.
Call(q, m, r) ==
    /\ pc[q] = "idle"
    /\ method' = [method EXCEPT ![q] = m]
    /\ ref' = [ref EXCEPT ![q] = r]
    /\ IF r \in Digests
       THEN Goto(q, "lookup") /\ digest' = [digest EXCEPT ![q] = r]
       ELSE Goto(q, "resolve") /\ UNCHANGED digest
    /\ UNCHANGED <<clock, registry, cache, gone, listed, size, pos, read, when>>

\* The HEAD request for a tag: "tags move".
Resolve(q) ==
    /\ pc[q] = "resolve" /\ ~gone[q]
    /\ digest' = [digest EXCEPT ![q] = names[ref[q]]]
    /\ Goto(q, "lookup")
    /\ UNCHANGED <<clock, registry, cache, method, ref, gone, listed, size,
                   pos, read, when>>

\* Mutant: an expired entry still answers.
ValidForever(m, d) == m \in Cached /\ cache[m][d] # NoEntry

\* The component cache never expires; the two scan caches do.
Valid(m, d) ==
    /\ m \in Cached /\ cache[m][d] # NoEntry
    /\ m = "SBOM" \/ clock <= cache[m][d].expires

\* A hit answers without a registry call, even for a cancelled request.
Hit(q) ==
    /\ pc[q] = "lookup" /\ Valid(method[q], digest[q])
    /\ read' = [read EXCEPT ![q] = cache[method[q]][digest[q]].from]
    /\ when' = [when EXCEPT ![q] = clock]
    /\ Goto(q, "answered")
    /\ UNCHANGED <<clock, registry, cache, method, ref, digest, gone, listed,
                   size, pos>>

Miss(q) ==
    /\ pc[q] = "lookup" /\ ~Valid(method[q], digest[q])
    /\ Goto(q, "list")
    /\ UNCHANGED <<clock, registry, cache, request>>

\* eachStatement: the listing fixes what the walk will visit.
List(q) ==
    /\ pc[q] = "list" /\ ~gone[q]
    /\ listed' = [listed EXCEPT ![q] = clock]
    /\ size' = [size EXCEPT ![q] = Len(attached[digest[q]])]
    /\ pos' = [pos EXCEPT ![q] = 0]
    /\ read' = [read EXCEPT ![q] = {}]
    /\ Goto(q, "walk")
    /\ UNCHANGED <<clock, registry, cache, method, ref, digest, gone, when>>

\* predicate stops at the first CycloneDX statement; predicates never stops.
Stops(q, n) ==
    method[q] \in {"SBOM", "Document"} /\ attached[digest[q]][n].kind = "sbom"

Read(q) ==
    /\ pc[q] = "walk" /\ pos[q] < size[q] /\ ~gone[q]
    /\ pos' = [pos EXCEPT ![q] = @ + 1]
    /\ read' = [read EXCEPT ![q] = @ \cup {pos[q] + 1}]
    /\ Goto(q, IF Stops(q, pos[q] + 1) THEN "fill" ELSE "walk")
    /\ UNCHANGED <<clock, registry, cache, method, ref, digest, gone, listed,
                   size, when>>
\* "One unreadable referrer must not hide an attestation behind it": an error
\* that is not errUnverified is logged and the walk goes on.  A cancelled
\* context makes every further read such an error.
Skip(q) ==
    /\ pc[q] = "walk" /\ pos[q] < size[q] /\ (gone[q] \/ Flaky)
    /\ pos' = [pos EXCEPT ![q] = @ + 1]
    /\ UNCHANGED <<clock, registry, cache, pc, method, ref, digest, gone,
                   listed, size, read, when>>

WalkEnds(q) ==
    /\ pc[q] = "walk" /\ pos[q] = size[q]
    /\ Goto(q, "fill")
    /\ UNCHANGED <<clock, registry, cache, request>>

\* The statements of kind k on d among those numbered S.
Of(k, d, S) == {n \in S : n \in DOMAIN attached[d] /\ attached[d][n].kind = k}

\* What the method cannot answer without: a BOM, or a scan.
Needed(m) == IF m \in {"SBOM", "Document"} THEN "sbom" ELSE "scan"

\* Mutant: a walk that found nothing is an answer too.
FoundAnything(q) == TRUE

Found(q) == Of(Needed(method[q]), digest[q], read[q]) # {}

\* lru.Add: over Capacity the least recently used entry goes; which one that
\* is, is left open.
Add(m, d, e) ==
    LET others == {x \in Digests \ {d} : cache[m][x] # NoEntry}
    IN  \/ /\ Cardinality(others) < Capacity
           /\ cache' = [cache EXCEPT ![m][d] = e]
        \/ /\ Cardinality(others) >= Capacity
           /\ \E x \in others : cache' = [cache EXCEPT ![m] =
                [y \in Digests |-> IF y = d THEN e
                                   ELSE IF y = x THEN NoEntry ELSE @[y]]]

\* The answer, cached under the digest for whoever asks next.
Fill(q) ==
    /\ pc[q] = "fill" /\ Found(q)
    /\ IF method[q] \in Cached
       THEN Add(method[q], digest[q], [from |-> read[q], listed |-> listed[q],
                                       expires |-> clock + TTL])
       ELSE UNCHANGED cache
    /\ when' = [when EXCEPT ![q] = clock]
    /\ Goto(q, "answered")
    /\ UNCHANGED <<clock, registry, method, ref, digest, gone, listed, size,
                   pos, read>>

\* An error: nothing found, or a call that failed.  Errors are not cached.
Fail(q) ==
    /\ \/ pc[q] = "fill" /\ ~Found(q)
       \/ pc[q] \in {"resolve", "list"} /\ (gone[q] \/ Flaky)
    /\ Goto(q, "failed")
    /\ UNCHANGED <<clock, registry, cache, request>>

\* The handler returns; the next request may come.
Return(q) ==
    /\ pc[q] \in {"answered", "failed"}
    /\ Goto(q, "idle")
    /\ method' = [method EXCEPT ![q] = "SBOM"]
    /\ ref' = [ref EXCEPT ![q] = NoRef]
    /\ digest' = [digest EXCEPT ![q] = NoRef]
    /\ gone' = [gone EXCEPT ![q] = FALSE]
    /\ listed' = [listed EXCEPT ![q] = 0]
    /\ size' = [size EXCEPT ![q] = 0]
    /\ pos' = [pos EXCEPT ![q] = 0]
    /\ read' = [read EXCEPT ![q] = {}]
    /\ when' = [when EXCEPT ![q] = 0]
    /\ UNCHANGED <<clock, registry, cache>>

-----------------------------------------------------------------------------
(***************************************************************************)
(* The world outside the process.                                          *)
(***************************************************************************)

\* The reader closes the connection, and net/http cancels the context.
Disconnect(q) ==
    /\ Impatient /\ ~gone[q]
    /\ pc[q] \in {"resolve", "lookup", "list", "walk"}
    /\ gone' = [gone EXCEPT ![q] = TRUE]
    /\ UNCHANGED <<clock, registry, cache, pc, method, ref, digest, listed,
                   size, pos, read, when>>

\* publish attaches a scan or a VEX document to a digest.
Attach(d, k) ==
    /\ Len(attached[d]) < MaxReferrers
    /\ attached' = [attached EXCEPT ![d] = Append(@, [kind |-> k, at |-> clock])]
    /\ UNCHANGED <<clock, names, cache, pc, request>>

\* release moves a tag.
MoveTag(t, d) ==
    /\ names[t] # d
    /\ names' = [names EXCEPT ![t] = d]
    /\ UNCHANGED <<clock, attached, cache, pc, request>>

Walking(q) == pc[q] \in {"walk", "fill"}

Tick ==
    /\ clock < MaxTime
    /\ \A q \in Requests : Walking(q) => clock < listed[q] + Slowest
    /\ clock' = clock + 1
    /\ UNCHANGED <<registry, cache, pc, request>>

-----------------------------------------------------------------------------
Init ==
    /\ setup \in Setups
    /\ clock = 0
    /\ names \in [Tags -> Digests]
    /\ attached = [d \in Digests |-> <<[kind |-> "sbom", at |-> 0],
                                       [kind |-> "scan", at |-> 0]>>]
    /\ cache = [m \in Cached |-> [d \in Digests |-> NoEntry]]
    /\ pc = [q \in Requests |-> "idle"]
    /\ method = [q \in Requests |-> "SBOM"]
    /\ ref = [q \in Requests |-> NoRef]
    /\ digest = [q \in Requests |-> NoRef]
    /\ gone = [q \in Requests |-> FALSE]
    /\ listed = [q \in Requests |-> 0]
    /\ size = [q \in Requests |-> 0]
    /\ pos = [q \in Requests |-> 0]
    /\ read = [q \in Requests |-> {}]
    /\ when = [q \in Requests |-> 0]

Serve(q) ==
    \/ Resolve(q) \/ Hit(q) \/ Miss(q) \/ List(q) \/ Read(q) \/ Skip(q)
    \/ WalkEnds(q) \/ Fill(q) \/ Fail(q)

Next ==
    /\ UNCHANGED setup
    /\ \/ \E q \in Requests :
           \/ \E m \in Asked, r \in Tags \cup Digests : Call(q, m, r)
           \/ Serve(q) \/ Return(q) \/ Disconnect(q)
       \/ \E d \in Digests, k \in {"scan", "vex"} : Attach(d, k)
       \/ \E t \in Tags, d \in Digests : MoveTag(t, d)
       \/ Tick

Spec == Init /\ [][Next]_vars

-----------------------------------------------------------------------------
\* The answers that are about evidence still being added to.
Scanning == {"Scan", "ScanDocument", "Scans"}

\* An answer about scans that a reader is still waiting for is computed from
\* every scan and VEX document attached longer ago than the TTL and the time a
\* walk takes.
InTime(q) ==
    pc[q] = "answered" /\ ~gone[q] /\ method[q] \in Scanning =>
        \A n \in DOMAIN attached[digest[q]] :
            attached[digest[q]][n].at + TTL + Slowest < when[q] => n \in read[q]

\* "a reader should see it within the hour rather than when this process
\* happens to restart" (mirror.go, defaultScanTTL): whatever requests raced to
\* fill the cache, as long as readers wait and the registry answers.
SeenWithinTTL == ~Impatient /\ ~Flaky => \A q \in Requests : InTime(q)

\* The same, whatever other readers do.
SeenByWhoeverWaits == \A q \in Requests : InTime(q)

\* "an empty table reads as a clean result, and 'not scanned' is the opposite
\* of one" (page.go, serveVulnerabilities): nothing that lacks the statement
\* it is about is ever answered, or cached for others to be answered with.
NeverEmptyByAccident ==
    /\ \A q \in Requests : pc[q] = "answered" => Found(q)
    /\ \A m \in Cached, d \in Digests : cache[m][d] # NoEntry =>
         Of(Needed(m), d, cache[m][d].from) # {}

=============================================================================
