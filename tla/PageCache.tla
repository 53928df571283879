------------------------------ MODULE PageCache ------------------------------
(***************************************************************************)
(* What a reader of the Directory is shown, through the caches between the *)
(* registry and the screen: the answers about scans that each instance of  *)
(* the server keeps in memory (web/internal/mirror) and the reader's HTTP  *)
(* cache, driven by the ETag and Cache-Control headers of                  *)
(* web/internal/directory.  The service runs up to three instances in each *)
(* of its regions, and none when idle (web/cmd/server/service.yaml).       *)
(*                                                                         *)
(* A page is a function of the build it names and of the scans and VEX     *)
(* documents on that build, a counter here: its value changes whenever     *)
(* the real content would.  The versions page is in VersionsPage.          *)
(***************************************************************************)
EXTENDS Naturals, FiniteSets

CONSTANTS
    Digests,
    Tag,         \* the one tag
    Instances,   \* of the server
    TTL,         \* defaultScanTTL, 3600 s
    TagAge,      \* max-age of a page or a document at a tag: 300 s
    DigestAge,   \* max-age of a page at a digest: 86400 s
    DocumentAge, \* max-age of a document at a digest: 31536000 s
    Visited,     \* the views the reader opens
    Refs,        \* at these references
    MaxTime,     \* bound: the clock
    MaxChanges,  \* bound: re-scans of a build
    NoCopy

Views == {"sbom", "vulnerabilities", "history", "sbom.json", "vulnerabilities.json"}
Documents == {"sbom.json", "vulnerabilities.json"}
OfScans == {"vulnerabilities", "history", "vulnerabilities.json"}

\* The views that are answered from memory, each from a cache of its own.
Remembered == {"vulnerabilities", "history"}

\* The URLs the reader opens.
Viewed == Visited \X Refs

CacheAssumption ==
    /\ Tag \notin Digests /\ Visited \subseteq Views /\ Refs \subseteq Digests \cup {Tag}
    /\ TTL \in Nat \ {0} /\ TagAge \in Nat \ {0} /\ DigestAge \in Nat /\ DocumentAge \in Nat
    /\ MaxTime \in Nat /\ MaxChanges \in Nat

VARIABLES
    clock,
    names,       \* the digest the tag names
    left,        \* left[d]: when the tag last left d
    evidence,    \* evidence[d]: how often d has been re-scanned
    changed,     \* changed[d][n]: when the n-th re-scan was attached
    answers,     \* answers[s][view][d]: what instance s remembers, [evidence, expires]
    copies       \* copies[u]: the reader's copy of u, [body, expires]

vars == <<clock, names, left, evidence, changed, answers, copies>>

-----------------------------------------------------------------------------
(***************************************************************************)
(* The server.                                                             *)
(***************************************************************************)

Resolve(ref) == IF ref = Tag THEN names ELSE ref

\* Scan and Scans answer from memory for the TTL; ScanDocument never does.
Fresh(s, view, d) ==
    view \in Remembered /\ answers[s][view][d] # NoCopy /\ clock <= answers[s][view][d].expires

Current(s, view, d) ==
    IF Fresh(s, view, d) THEN answers[s][view][d].evidence ELSE evidence[d]

Remember(s, view, d) ==
    answers' = IF view \in Remembered /\ ~Fresh(s, view, d)
               THEN [answers EXCEPT ![s][view][d] = [evidence |-> evidence[d],
                                                     expires |-> clock + TTL]]
               ELSE answers

\* What instance s would write now.  An SBOM says nothing of scans.
Render(s, u) ==
    LET d == Resolve(u[2])
    IN  [digest |-> d, evidence |-> IF u[1] \in OfScans THEN Current(s, u[1], d) ELSE 0]

\* Mutant: the digest is the validator of every page.
ValidatorDigestOnly(b) == <<b.digest>>

\* The ETag: the digest and a fingerprint of the scans, or of the document.
Validator(b) == <<b.digest, b.evidence>>

\* Cache-Control.
MaxAge(u) ==
    IF u[2] = Tag THEN TagAge
    ELSE IF u[1] \in Documents THEN DocumentAge
    ELSE DigestAge

-----------------------------------------------------------------------------
(***************************************************************************)
(* The reader.  Within max-age its copy is what it is shown, and no state  *)
(* changes; after that a request reaches any instance.                     *)
(***************************************************************************)

Live(u) == copies[u] # NoCopy /\ clock < copies[u].expires

Keep(u, b) ==
    copies' = [copies EXCEPT ![u] = [body |-> b, expires |-> clock + MaxAge(u)]]

\* The copy went stale and the validator still matches: 304, no body.
NotModified(s, u) ==
    /\ copies[u] # NoCopy /\ ~Live(u)
    /\ Validator(copies[u].body) = Validator(Render(s, u))
    /\ Keep(u, copies[u].body)
    /\ Remember(s, u[1], Resolve(u[2]))
    /\ UNCHANGED <<clock, names, left, evidence, changed>>

\* No copy, or another validator: 200 and the page.
Served(s, u) ==
    /\ ~Live(u)
    /\ copies[u] # NoCopy => Validator(copies[u].body) # Validator(Render(s, u))
    /\ Keep(u, Render(s, u))
    /\ Remember(s, u[1], Resolve(u[2]))
    /\ UNCHANGED <<clock, names, left, evidence, changed>>

-----------------------------------------------------------------------------
(***************************************************************************)
(* The world.                                                              *)
(***************************************************************************)

MoveTag(d) ==
    /\ names # d
    /\ names' = d
    /\ left' = [left EXCEPT ![names] = clock]
    /\ UNCHANGED <<clock, evidence, changed, answers, copies>>

Rescan(d) ==
    /\ evidence[d] < MaxChanges
    /\ evidence' = [evidence EXCEPT ![d] = @ + 1]
    /\ changed' = [changed EXCEPT ![d][evidence[d] + 1] = clock]
    /\ UNCHANGED <<clock, names, left, answers, copies>>

Forgotten == [view \in Remembered |-> [d \in Digests |-> NoCopy]]

\* An instance is replaced, by a deploy or by scaling down and up again.
Restart(s) ==
    /\ answers[s] # Forgotten
    /\ answers' = [answers EXCEPT ![s] = Forgotten]
    /\ UNCHANGED <<clock, names, left, evidence, changed, copies>>

Tick ==
    /\ clock < MaxTime
    /\ clock' = clock + 1
    /\ UNCHANGED <<names, left, evidence, changed, answers, copies>>

-----------------------------------------------------------------------------
Init ==
    /\ clock = 0 /\ names \in Digests
    /\ left = [d \in Digests |-> 0]
    /\ evidence = [d \in Digests |-> 0]
    /\ changed = [d \in Digests |-> [n \in 1..MaxChanges |-> 0]]
    /\ answers = [s \in Instances |-> Forgotten]
    /\ copies = [u \in Viewed |-> NoCopy]

Next ==
    \/ \E s \in Instances, u \in Viewed : NotModified(s, u) \/ Served(s, u)
    \/ \E d \in Digests : MoveTag(d) \/ Rescan(d)
    \/ \E s \in Instances : Restart(s)
    \/ Tick

Spec == Init /\ [][Next]_vars

-----------------------------------------------------------------------------
\* How long a re-scan may stay unseen at a tag: the lifetime of an answer in
\* memory and that of the reader's copy add up.
Window(u) == IF u[1] \in Remembered THEN TTL + TagAge ELSE TagAge

\* The re-scans of d that whoever opens u should be shown by now.
Due(u, d) == {n \in 1..evidence[d] : changed[d][n] + Window(u) <= clock}

\* What a reader who opens u now may be shown.
Shown(u) == IF Live(u) THEN {copies[u].body} ELSE {Render(s, u) : s \in Instances}

\* "Unlike components, a scan is not immutable for a digest: [...] a reader should
\* see it" (mirror.go, defaultScanTTL): what a reader at a tag is shown is a build
\* that the tag names, or named less than the max-age ago, with every re-scan
\* attached at least the TTL and the max-age ago, whichever instances have
\* answered and renewed the copy with 304, restarted, or filled their caches in
\* between.  A document, which no instance remembers, is behind by the max-age
\* alone.
RescanSeenAtTag ==
    \A u \in Viewed : u[2] = Tag /\ u[1] \in OfScans =>
        \A b \in Shown(u) :
            /\ b.digest = names \/ clock < left[b.digest] + TagAge
            /\ \A n \in Due(u, b.digest) : n <= b.evidence

=============================================================================
