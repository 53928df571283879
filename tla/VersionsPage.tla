---------------------------- MODULE VersionsPage ----------------------------
(***************************************************************************)
(* The versions page of a family: Client.Versions lists the tags, looks    *)
(* each one up in a goroutine of its own through a bounded number of slots *)
(* and reads the detail of each distinct build; serveVersions answers with *)
(* the page, or with 304 when the reader's copy has the same mapping of    *)
(* tags to builds.  Tags move and disappear while a request is under way,  *)
(* and any single call of the registry may fail.                           *)
(*                                                                         *)
(* One request is in flight at a time: two requests share only the cache   *)
(* of builds, which holds immutable facts about a digest.                  *)
(***************************************************************************)
EXTENDS Naturals, FiniteSets

CONSTANTS
    Tags,
    Fallback,    \* those of them that are cosign's fallback tags
    Digests,
    MaxLookups,  \* maxTagLookups: 8
    MaxBuilds,   \* the size of the cache of builds
    MaxMoves,    \* bound: pushes, moves and removals of tags
    MaxFaults,   \* bound: calls of the registry that fail
    None

VersionsAssumption ==
    /\ Fallback \subseteq Tags /\ None \notin Digests
    /\ MaxLookups \in Nat \ {0} /\ MaxBuilds \in Nat \ {0}
    /\ MaxMoves \in Nat /\ MaxFaults \in Nat

VARIABLES
    names,       \* names[t]: the build the tag names in the registry
    phase,       \* how far the request has come
    lookup,      \* lookup[t]: the goroutine of t
    versions,    \* versions[t]: the digest its lookup wrote
    todo,        \* the builds describe has still to read
    detail,      \* the builds whose columns were filled in
    builds,      \* Client.builds, the cache of build details
    copy,        \* the reader's copy of the page
    held,        \* history: the builds each tag named during this request
    vouched,     \* history: the same, for the last request answered
    calm,        \* history: no tag moved and no call failed since the listing
    moves, faults

registry == <<names, moves>>
request == <<phase, lookup, versions, todo, detail, builds, held, calm>>
reader == <<copy, vouched>>
vars == <<registry, request, reader, faults>>

NoRows == [t \in Tags |-> None]
Named(rows) == {rows[t] : t \in Tags} \ {None}
Slots == {t \in Tags : lookup[t] = "slot"}

-----------------------------------------------------------------------------
(***************************************************************************)
(* The registry.                                                           *)
(***************************************************************************)

Fault == faults < MaxFaults /\ faults' = faults + 1 /\ calm' = FALSE

\* A push, a move or the removal of a tag.
Move(t, d) ==
    /\ moves < MaxMoves /\ d # names[t]
    /\ names' = [names EXCEPT ![t] = d]
    /\ held' = [held EXCEPT ![t] = @ \cup {d}]
    /\ moves' = moves + 1 /\ calm' = FALSE
    /\ UNCHANGED <<phase, lookup, versions, todo, detail, builds, reader, faults>>

-----------------------------------------------------------------------------
(***************************************************************************)
(* Client.Versions.                                                        *)
(***************************************************************************)

\* published: cosign's attachments are not versions.
Published == {t \in Tags \ Fallback : names[t] # None}

List ==
    /\ phase = "idle"
    /\ phase' = "lookup"
    /\ lookup' = [t \in Tags |-> IF t \in Published THEN "wait" ELSE "done"]
    /\ versions' = NoRows /\ detail' = {}
    /\ held' = [t \in Tags |-> {names[t]}] /\ calm' = TRUE
    /\ UNCHANGED <<registry, todo, builds, reader, faults>>

\* The family cannot be listed: 404, and the reader has no page of it.
ListFails ==
    /\ phase = "idle" /\ Fault
    /\ copy' = NoRows /\ vouched' = [t \in Tags |-> {names[t]}]
    /\ UNCHANGED <<registry, phase, lookup, versions, todo, detail, builds, held>>

TakeSlot(t) ==
    /\ phase = "lookup" /\ lookup[t] = "wait"
    /\ Cardinality(Slots) < MaxLookups
    /\ lookup' = [lookup EXCEPT ![t] = "slot"]
    /\ UNCHANGED <<registry, phase, versions, todo, detail, builds, held, calm, reader, faults>>

\* Mutant: the goroutines share the loop variable.
HeadShared(t) ==
    /\ lookup[t] = "slot" /\ names[t] # None
    /\ \E u \in Tags : /\ lookup[u] # "done"
                       /\ versions' = [versions EXCEPT ![u] = names[t]]
    /\ lookup' = [lookup EXCEPT ![t] = "done"]
    /\ UNCHANGED <<registry, phase, todo, detail, builds, held, calm, reader, faults>>

\* Head: each goroutine writes the row of its own tag.
Head(t) ==
    /\ lookup[t] = "slot" /\ names[t] # None
    /\ versions' = [versions EXCEPT ![t] = names[t]]
    /\ lookup' = [lookup EXCEPT ![t] = "done"]
    /\ UNCHANGED <<registry, phase, todo, detail, builds, held, calm, reader, faults>>

\* The tag is gone, or the registry did not answer: the row stays empty.
Skip(t) ==
    /\ lookup[t] = "slot"
    /\ (names[t] = None /\ UNCHANGED <<faults, calm>>) \/ Fault
    /\ lookup' = [lookup EXCEPT ![t] = "done"]
    /\ UNCHANGED <<registry, phase, versions, todo, detail, builds, held, reader>>

\* wait.Wait, then the rows that were found.
Resolved ==
    /\ phase = "lookup" /\ \A t \in Tags : lookup[t] = "done"
    /\ phase' = "describe" /\ todo' = Named(versions)
    /\ UNCHANGED <<registry, lookup, versions, detail, builds, held, calm, reader, faults>>

\* builds.Add: beyond its size, the cache forgets a build.
Remember(d) == {b \in SUBSET (builds \cup {d}) :
                   /\ d \in b
                   /\ \/ b = builds \cup {d}
                      \/ d \notin builds /\ Cardinality(b) = MaxBuilds
                   /\ Cardinality(b) <= MaxBuilds}

\* describe, once for each distinct build.
Describe(d) ==
    /\ phase = "describe" /\ d \in todo
    /\ todo' = todo \ {d}
    /\ \/ /\ detail' = detail \cup {d} /\ builds' \in Remember(d)
          /\ UNCHANGED <<faults, calm>>
       \/ d \notin builds /\ Fault /\ UNCHANGED <<detail, builds>>
    /\ UNCHANGED <<registry, phase, lookup, versions, held, reader>>

-----------------------------------------------------------------------------
(***************************************************************************)
(* serveVersions.                                                          *)
(***************************************************************************)

\* Mutant: the validator names the builds and not the tags.
mappingDigestOfBuilds(rows) == Named(rows)

\* The mapping itself is the validator.
mappingDigest(rows) == {<<t, rows[t]>> : t \in {u \in Tags : rows[u] # None}}

\* 304 leaves the reader the copy it has.
Respond ==
    /\ phase = "describe" /\ todo = {}
    /\ phase' = "idle"
    /\ copy' = IF mappingDigest(copy) = mappingDigest(versions) THEN copy ELSE versions
    /\ vouched' = held
    /\ UNCHANGED <<registry, lookup, versions, todo, detail, builds, held, calm, faults>>

-----------------------------------------------------------------------------
Init ==
    /\ names \in [Tags -> Digests \cup {None}]
    /\ phase = "idle" /\ lookup = [t \in Tags |-> "done"]
    /\ versions = NoRows /\ todo = {} /\ detail = {} /\ builds = {}
    /\ copy = NoRows
    /\ held = [t \in Tags |-> {names[t]}] /\ vouched = held
    /\ calm = FALSE /\ moves = 0 /\ faults = 0

LookUp(t) == TakeSlot(t) \/ Head(t) \/ Skip(t)

Next ==
    \/ List \/ ListFails \/ Resolved \/ Respond
    \/ \E d \in Digests : Describe(d)
    \/ \E t \in Tags : LookUp(t)
    \/ \E t \in Tags, d \in Digests \cup {None} : Move(t, d)

Spec == Init /\ [][Next]_vars

-----------------------------------------------------------------------------
(***************************************************************************)
(* Properties.                                                             *)
(***************************************************************************)

\* Once a request is answered, with the page or with 304 (serveVersions),
\* each row of the reader's page is a build the tag did name while that
\* request ran, for its own tag and not a neighbour's, whatever moved
\* meanwhile and in whichever order the lookups came back (Versions).
RowsWereTrue ==
    phase = "idle" => \A t \in Tags : copy[t] # None => copy[t] \in vouched[t]

\* What a reader should see: the tags as they are, cosign's left out.
Settled == [t \in Tags |-> IF t \in Fallback THEN None ELSE names[t]]

\* "a tag that moved must not be served from a cache" (serveVersions): a
\* request during which no tag moved and no call failed leaves the reader with
\* exactly what is published, whatever copy it came with, whatever the request
\* before it had missed, and whether it was answered with the page or 304.
CalmPageIsExact == phase = "idle" /\ calm => copy = Settled
=============================================================================
