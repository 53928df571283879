----------------------------- MODULE TagHistory -----------------------------
(***************************************************************************)
(* The history page of one tag (web/internal/directory, serveHistory),     *)
(* read while `release` moves the tag and records the move, and while the  *)
(* builds go on being scanned.  The page makes several registry reads: the *)
(* scans of the build the tag names, the ledger, and the scans of every    *)
(* earlier build; the registry changes between any two of them.            *)
(*                                                                         *)
(* A scan is the time it finished; no two events share a time.  The time 0 *)
(* is Go's zero time, "unknown".                                           *)
(***************************************************************************)
EXTENDS Naturals, Sequences, FiniteSets

CONSTANTS
    Digests,
    MaxTime,     \* bound: scans and ledger events
    MaxMoves,    \* bound: releases
    Flaky        \* a registry read of the page may fail

HistoryAssumption ==
    MaxTime \in Nat /\ MaxMoves \in Nat /\ Flaky \in BOOLEAN

VARIABLES
    clock,
    names,       \* the digest the tag names
    ledger,      \* the moves recorded for the tag, [digest, at], oldest first
    moved,       \* how often release has moved the tag
    recording,   \* release is between the tag request and the ledger
    scanned,     \* scanned[d]: the scan records on d
    pc,          \* where the page is
    digest,      \* the build the page was rendered from
    series,      \* the scans of that build, as read
    moves,       \* the ledger, as read
    eras,        \* the eras built so far, [digest, from, scans]
    skipped      \* some earlier build could not be read

world == <<clock, names, ledger, moved, recording, scanned>>
page == <<pc, digest, series, moves, eras, skipped>>
vars == <<world, page>>

-----------------------------------------------------------------------------
(***************************************************************************)
(* The registry: scans are added, and release moves the tag and then       *)
(* appends to the ledger unless it already ends with that digest.          *)
(***************************************************************************)

Rescan(d) ==
    /\ clock < MaxTime
    /\ clock' = clock + 1
    /\ scanned' = [scanned EXCEPT ![d] = @ \cup {clock + 1}]
    /\ UNCHANGED <<names, ledger, moved, recording, page>>

MoveTag(d) ==
    /\ ~recording /\ moved < MaxMoves
    /\ names' = d
    /\ moved' = moved + 1
    /\ recording' = TRUE
    /\ UNCHANGED <<clock, ledger, scanned, page>>

Record ==
    /\ recording /\ clock < MaxTime
    /\ recording' = FALSE
    /\ IF ledger # <<>> /\ ledger[Len(ledger)].digest = names
       THEN UNCHANGED <<clock, ledger>>
       ELSE /\ clock' = clock + 1
            /\ ledger' = Append(ledger, [digest |-> names, at |-> clock + 1])
    /\ UNCHANGED <<names, moved, scanned, page>>

RecordFails ==
    /\ recording
    /\ recording' = FALSE
    /\ UNCHANGED <<clock, names, ledger, moved, scanned, page>>

-----------------------------------------------------------------------------
(***************************************************************************)
(* serveHistory and tagEras.                                               *)
(***************************************************************************)

\* source.Scans(family, tag): "the current build is read first and is the
\* page's floor".  A build without a scan is a 404.
ReadCurrent ==
    /\ pc = "start"
    /\ digest' = names
    /\ series' = scanned[names]
    /\ pc' = IF scanned[names] = {} THEN "404" ELSE "ledger"
    /\ UNCHANGED <<world, moves, eras, skipped>>

\* source.Moves, filtered to the tag.
ReadMoves ==
    /\ pc = "ledger"
    /\ moves' = ledger
    /\ pc' = "eras"
    /\ UNCHANGED <<world, digest, series, eras, skipped>>

\* "a ledger that cannot be read [...] costs the page its past"
MovesFail ==
    /\ pc = "ledger" /\ Flaky
    /\ eras' = <<[digest |-> digest, from |-> 0, scans |-> series]>>
    /\ pc' = "drawn"
    /\ UNCHANGED <<world, digest, series, moves, skipped>>

AddEra(scans) ==
    LET move == moves[Len(eras) + 1]
    IN  eras' = Append(eras, [digest |-> move.digest, from |-> move.at,
                              scans |-> scans])

\* The next move's build: the series in hand, or another registry read.
ReadEra ==
    /\ pc = "eras" /\ Len(eras) < Len(moves)
    /\ LET d == moves[Len(eras) + 1].digest
       IN  /\ d = digest \/ scanned[d] # {}
           /\ AddEra(IF d = digest THEN series ELSE scanned[d])
    /\ UNCHANGED <<world, pc, digest, series, moves, skipped>>

\* An earlier build whose scans cannot be read, or that has none.
SkipEra ==
    /\ pc = "eras" /\ Len(eras) < Len(moves)
    /\ moves[Len(eras) + 1].digest # digest
    /\ Flaky \/ scanned[moves[Len(eras) + 1].digest] = {}
    /\ AddEra({})
    /\ skipped' = TRUE
    /\ UNCHANGED <<world, pc, digest, series, moves>>

\* Mutant: the ledger alone says what the tag has named.
CloseErasByLedger ==
    /\ pc = "eras" /\ Len(eras) = Len(moves)
    /\ pc' = "drawn"
    /\ UNCHANGED <<world, digest, series, moves, eras, skipped>>

\* "The current build, already read, closes the list whether or not the
\* ledger has caught up with it."
CloseEras ==
    /\ pc = "eras" /\ Len(eras) = Len(moves)
    /\ eras' = IF eras = <<>> \/ eras[Len(eras)].digest # digest
               THEN Append(eras, [digest |-> digest, from |-> 0, scans |-> series])
               ELSE eras
    /\ pc' = "drawn"
    /\ UNCHANGED <<world, digest, series, moves, skipped>>

-----------------------------------------------------------------------------
(***************************************************************************)
(* NewHistory.                                                             *)
(***************************************************************************)

\* Eras are ordered by when they began, unknown last, stably.
Before(a, b) == a.from # 0 /\ (b.from = 0 \/ a.from < b.from)

Sorted(es) ==
    LET Rank(i) == Cardinality({j \in DOMAIN es :
            Before(es[j], es[i]) \/ (j < i /\ ~Before(es[i], es[j]))})
    IN  [k \in DOMAIN es |-> es[CHOOSE i \in DOMAIN es : Rank(i) = k - 1]]

\* A scan of the k-th era is left out where the next era begins.
Cut(es, k, t) == k < Len(es) /\ es[k + 1].from # 0 /\ t >= es[k + 1].from

\* The points of the page, each with the era it came from.
Points ==
    LET es == Sorted(eras)
    IN  UNION {{[era |-> k, digest |-> es[k].digest, finished |-> t] :
                   t \in {u \in es[k].scans : ~Cut(es, k, u)}} : k \in DOMAIN es}

-----------------------------------------------------------------------------
Init ==
    /\ clock = 0
    /\ names \in Digests
    /\ ledger = <<>> /\ moved = 0 /\ recording = FALSE
    /\ scanned = [d \in Digests |-> {}]
    /\ pc = "start" /\ digest = names /\ series = {}
    /\ moves = <<>> /\ eras = <<>> /\ skipped = FALSE

Next ==
    \/ \E d \in Digests : Rescan(d) \/ MoveTag(d)
    \/ Record \/ RecordFails
    \/ ReadCurrent \/ ReadMoves \/ MovesFail \/ ReadEra \/ SkipEra \/ CloseEras

Spec == Init /\ [][Next]_vars

-----------------------------------------------------------------------------
\* "a ledger that cannot be read, or an earlier build whose scans cannot,
\* costs the page its past rather than its present" (page.go, serveHistory):
\* every scan read of the current build is on the page, whatever the ledger
\* lags behind or runs ahead of.
PresentIsKept ==
    pc = "drawn" => \A t \in series :
        \E p \in Points : p.digest = digest /\ p.finished = t

\* The scans of a build that fall in a tenure the ledger records are on the
\* page (NewHistory), unless the build was skipped.
TenureIsKept ==
    pc = "drawn" /\ ~skipped => \A n \in DOMAIN moves : \A t \in eras[n].scans :
        /\ moves[n].at <= t
        /\ n < Len(moves) => t < moves[n + 1].at
        => \E p \in Points : p.digest = moves[n].digest /\ p.finished = t

\* "those scans are not this tag's history" (history_test.go): no point is a
\* scan made after the tag left the build for good.
NoScanAfterTheTagLeft ==
    pc = "drawn" => \A p \in Points, n \in DOMAIN moves :
        /\ p.digest = moves[n].digest /\ p.digest # digest /\ n < Len(moves)
        /\ \A m \in (n + 1)..Len(moves) : moves[m].digest # p.digest
        => p.finished < moves[n + 1].at

=============================================================================
