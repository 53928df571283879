------------------------------- MODULE Rollout -------------------------------
(***************************************************************************)
(* The deployment of one service by .github/workflows/ci.yaml: job         *)
(* push-gar, then job deploy-registry or deploy-web, a matrix over the     *)
(* regions with max-parallel 1 and fail-fast, each leg in a concurrency    *)
(* group of its region.  The two deploy jobs are the same but for names    *)
(* and share no group, so one instance of this module is either of them.   *)
(* Runs are numbered in the order their commits were pushed to main.       *)
(***************************************************************************)
EXTENDS Naturals

CONSTANTS
    Runs,        \* CI runs: the commits, in order
    Regions,     \* positions in the service's regions.json
    NoRun

ASSUME RolloutAssumption ==
    Runs \subseteq Nat /\ Regions \subseteq Nat /\ NoRun \notin Runs

VARIABLES
    gar,         \* gar[r]: job push-gar of run r
    leg,         \* leg[r][g]: the matrix leg of run r for region g
    holder,      \* holder[g]: the run inside group deploy-<service>-g
    waiting,     \* waiting[g]: the one pending entry of that group
    live,        \* live[g]: the run whose revision region g serves
    last         \* last[g]: the latest run to enter group g (history)

vars == <<gar, leg, holder, waiting, live, last>>

Finished == {"done", "failed", "cancelled"}

-----------------------------------------------------------------------------
\* The image is pushed by digest and the plan names it.
PushGar(r) ==
    /\ gar[r] = "running"
    /\ gar' = [gar EXCEPT ![r] = "pushed"]
    /\ UNCHANGED <<leg, holder, waiting, live, last>>

\* A failed test, push or plan: the deploy jobs are skipped.
PushGarFails(r) ==
    /\ gar[r] = "running"
    /\ gar' = [gar EXCEPT ![r] = "failed"]
    /\ UNCHANGED <<leg, holder, waiting, live, last>>

\* Mutant: an evicted leg keeps its run's one slot.
TurnAfterEviction(r, g) ==
    /\ gar[r] = "pushed" /\ leg[r][g] = "held"
    /\ \A h \in Regions : leg[r][h] \notin {"waiting", "rolling", "cancelled"}
    /\ \A h \in Regions : h < g => leg[r][h] # "held"

\* max-parallel 1, in the order of regions.json.
Turn(r, g) ==
    /\ gar[r] = "pushed" /\ leg[r][g] = "held"
    /\ \A h \in Regions : leg[r][h] \notin {"waiting", "rolling"}
    /\ \A h \in Regions : h < g => leg[r][h] # "held"

\* Mutant: no concurrency group around the rollout.
QueueUngrouped(r, g) ==
    /\ Turn(r, g)
    /\ holder' = [holder EXCEPT ![g] = r]
    /\ leg' = [leg EXCEPT ![r][g] = "rolling"]
    /\ last' = [last EXCEPT ![g] = r]
    /\ UNCHANGED <<gar, waiting, live>>

\* Mutant: a full group turns the newcomer away and keeps its pending entry.
QueueKeepsPending(r, g) ==
    /\ Turn(r, g)
    /\ last' = [last EXCEPT ![g] = r]
    /\ IF holder[g] = NoRun
       THEN /\ holder' = [holder EXCEPT ![g] = r]
            /\ leg' = [leg EXCEPT ![r][g] = "rolling"]
            /\ UNCHANGED waiting
       ELSE IF waiting[g] = NoRun
            THEN /\ waiting' = [waiting EXCEPT ![g] = r]
                 /\ leg' = [leg EXCEPT ![r][g] = "waiting"]
                 /\ UNCHANGED holder
            ELSE /\ leg' = [leg EXCEPT ![r][g] = "cancelled"]
                 /\ UNCHANGED <<holder, waiting>>
    /\ UNCHANGED <<gar, live>>

\* The leg enters its region's group, which runs one entry and keeps one
\* pending; a newly queued entry evicts the pending one.
Queue(r, g) ==
    /\ Turn(r, g)
    /\ last' = [last EXCEPT ![g] = r]
    /\ IF holder[g] = NoRun
       THEN /\ holder' = [holder EXCEPT ![g] = r]
            /\ leg' = [leg EXCEPT ![r][g] = "rolling"]
            /\ UNCHANGED waiting
       ELSE /\ waiting' = [waiting EXCEPT ![g] = r]
            /\ leg' = [s \in Runs |-> [h \in Regions |->
                          IF s = r /\ h = g THEN "waiting"
                          ELSE IF s = waiting[g] /\ h = g THEN "cancelled"
                          ELSE leg[s][h]]]
            /\ UNCHANGED holder
    /\ UNCHANGED <<gar, live>>

\* The leg ends with `end`, the legs `drop` of its run are cancelled, and the
\* pending entry of the group, if any, begins.
Leave(r, g, end, drop) ==
    /\ holder' = [holder EXCEPT ![g] = waiting[g]]
    /\ waiting' = [waiting EXCEPT ![g] = NoRun]
    /\ leg' = [s \in Runs |-> [h \in Regions |->
                  IF s = r /\ h = g THEN end
                  ELSE IF s = r /\ h \in drop THEN "cancelled"
                  ELSE IF s = waiting[g] /\ h = g THEN "rolling"
                  ELSE leg[s][h]]]

\* gcloud run services replace: last writer wins.
Replace(r, g) ==
    /\ leg[r][g] = "rolling"
    /\ live' = [live EXCEPT ![g] = r]
    /\ Leave(r, g, "done", {})
    /\ UNCHANGED <<gar, last>>

\* Mutant: fail-fast off.
RolloutFailsSlow(r, g) ==
    /\ leg[r][g] = "rolling"
    /\ live' \in {live, [live EXCEPT ![g] = r]}
    /\ Leave(r, g, "failed", {})
    /\ UNCHANGED <<gar, last>>

\* The replace is refused, or the runner is lost before or after it took
\* effect.  fail-fast cancels the legs of the run that have not begun.
RolloutFails(r, g) ==
    /\ leg[r][g] = "rolling"
    /\ live' \in {live, [live EXCEPT ![g] = r]}
    /\ Leave(r, g, "failed", {h \in Regions : leg[r][h] = "held"})
    /\ UNCHANGED <<gar, last>>

-----------------------------------------------------------------------------
Init ==
    /\ gar = [r \in Runs |-> "running"]
    /\ leg = [r \in Runs |-> [g \in Regions |-> "held"]]
    /\ holder = [g \in Regions |-> NoRun]
    /\ waiting = [g \in Regions |-> NoRun]
    /\ live = [g \in Regions |-> NoRun]
    /\ last = [g \in Regions |-> NoRun]

Next ==
    \E r \in Runs :
        \/ PushGar(r) \/ PushGarFails(r)
        \/ \E g \in Regions : Queue(r, g) \/ Replace(r, g) \/ RolloutFails(r, g)

Spec == Init /\ [][Next]_vars

-----------------------------------------------------------------------------
\* Every variable has its type.
TypeOK ==
    /\ gar \in [Runs -> {"running", "pushed", "failed"}]
    /\ leg \in [Runs -> [Regions -> {"held", "waiting", "rolling"} \cup Finished]]
    /\ holder \in [Regions -> Runs \cup {NoRun}]
    /\ waiting \in [Regions -> Runs \cup {NoRun}]
    /\ live \in [Regions -> Runs \cup {NoRun}]
    /\ last \in [Regions -> Runs \cup {NoRun}]

\* No two rollouts talk to one region at once, and a group with a pending
\* entry is one that runs something ("Only the rollout needs ordering",
\* concurrency of deploy-registry): a leg is rolling exactly while its run
\* holds the group, and pending exactly while it has the group's one slot.
RolloutsSerialised ==
    \A r \in Runs, g \in Regions :
        /\ leg[r][g] = "rolling" <=> holder[g] = r
        /\ leg[r][g] = "waiting" <=> waiting[g] = r
        /\ waiting[g] # NoRun => holder[g] # NoRun

\* What the group does guarantee a burst of pushes: once a region is quiet it
\* serves the run that entered the group last, unless that very rollout
\* failed.  An eviction never drops the latest entry.
LastQueuedWins ==
    \A g \in Regions :
        holder[g] = NoRun /\ last[g] # NoRun =>
            live[g] = last[g] \/ leg[last[g]][g] = "failed"

\* "let the first failure cancel the rest, so a bad image stops at the first
\* region instead of all three": once a rollout of a run failed, no other
\* region of that run rolls, waits or can still begin.
FailureStopsRun ==
    \A r \in Runs, g, h \in Regions :
        leg[r][g] = "failed" /\ h # g => leg[r][h] \in {"done", "cancelled"}

\* Every rollout ends: from some point on, each region of a run that has its plan
\* is served, failed or dropped, and none is left pending behind a group nobody
\* holds.
RolloutsEnd ==
    <>[](\A r \in Runs : gar[r] = "pushed" => \A g \in Regions : leg[r][g] \in Finished)
=============================================================================
