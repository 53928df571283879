----------------------------- MODULE BuildEvents -----------------------------
(***************************************************************************)
(* knife bep digests: a stream of build events reduced to one hash per     *)
(* label over the outputs it produced (OutputDigests, hashOutputs).  File  *)
(* sets are a graph that targets share; events come in any order.  A hash  *)
(* is the set of the (name, digest) pairs it is taken over.                *)
(***************************************************************************)
EXTENDS Reachability

CONSTANTS
    SetIds, Labels,
    Graphs,       \* bound: functions from some set ids to [files, fileSets]
    Completions   \* bound: sets of [n, label, success, group, fileSets]

EventsAssumption ==
    /\ IsFiniteSet(SetIds) /\ \A g \in Graphs : DOMAIN g \subseteq SetIds
    /\ \A c \in Completions : \A e \in c : e.label \in Labels

VARIABLES
    build,        \* [graph, completed]: what the build did
    unread,       \* events still to come
    sets, roots,  \* the maps of OutputDigests
    walk,         \* hashOutputs of a label: what is to visit, visited, seen
    digests,
    pc            \* "read", "walk", then "done"

vars == <<build, unread, sets, roots, walk, digests, pc>>

-----------------------------------------------------------------------------
NamedSet(id) ==
    /\ pc = "read" /\ id \in unread.sets
    /\ sets' = sets \cup {id}
    /\ unread' = [unread EXCEPT !.sets = @ \ {id}]
    /\ UNCHANGED <<build, roots, walk, digests, pc>>

\* Mutant: a second completion of a label takes the place of the first.
CompletedReplaces(e) ==
    /\ pc = "read" /\ e \in unread.completed
    /\ roots' = IF e.success /\ e.group = "default"
                THEN [roots EXCEPT ![e.label] = e.fileSets] ELSE roots
    /\ unread' = [unread EXCEPT !.completed = @ \ {e}]
    /\ UNCHANGED <<build, sets, walk, digests, pc>>

\* A label completes once per configuration: the roots accumulate.
Completed(e) ==
    /\ pc = "read" /\ e \in unread.completed
    /\ roots' = IF e.success /\ e.group = "default"
                THEN [roots EXCEPT ![e.label] = @ \cup e.fileSets] ELSE roots
    /\ unread' = [unread EXCEPT !.completed = @ \ {e}]
    /\ UNCHANGED <<build, sets, walk, digests, pc>>

\* hashOutputs of the next label.
Hash(label) ==
    /\ pc \in {"read", "walk"} /\ unread.sets = {} /\ unread.completed = {}
    /\ walk = <<>> /\ label \notin DOMAIN digests
    /\ walk' = [label |-> label, todo |-> roots[label], visited |-> {}, seen |-> {}]
    /\ pc' = "walk"
    /\ UNCHANGED <<build, unread, sets, roots, digests>>

\* A set is visited once, whether the stream had it or not.
Visit(id) ==
    /\ pc = "walk" /\ walk # <<>> /\ id \in walk.todo
    /\ LET known == id \in sets /\ id \notin walk.visited
           set == build.graph[id]
       IN  walk' = [walk EXCEPT !.todo = (@ \ {id}) \cup (IF known THEN set.fileSets ELSE {}),
                                !.visited = @ \cup {id},
                                !.seen = @ \cup (IF known THEN set.files ELSE {})]
    /\ UNCHANGED <<build, unread, sets, roots, digests, pc>>

\* The entries are sorted and hashed; no entries is no hash.
Sum ==
    /\ pc = "walk" /\ walk # <<>> /\ walk.todo = {}
    /\ digests' = [label \in DOMAIN digests \cup {walk.label} |->
                      IF label = walk.label THEN walk.seen ELSE digests[label]]
    /\ walk' = <<>>
    /\ pc' = IF DOMAIN digests' = Labels THEN "done" ELSE pc
    /\ UNCHANGED <<build, unread, sets, roots>>

Init ==
    /\ build \in [graph : Graphs, completed : Completions]
    /\ unread = [sets |-> DOMAIN build.graph, completed |-> build.completed]
    /\ sets = {} /\ roots = [l \in Labels |-> {}] /\ walk = <<>> /\ digests = <<>>
    /\ pc = "read"

Next ==
    \/ \E id \in SetIds : NamedSet(id) \/ Visit(id)
    \/ \E e \in unread.completed : Completed(e)
    \/ \E label \in Labels : Hash(label)
    \/ Sum

-----------------------------------------------------------------------------
\* id holds the file itself or through the sets below it.
Holds(id, file) ==
    LET graph == build.graph
        below == [s \in DOMAIN graph |-> graph[s].fileSets]
    IN  \E s \in Reached(DOMAIN graph, below, {id}) \cap DOMAIN graph : file \in graph[s].files

\* The hash of a label is over exactly the outputs of all its successful
\* configurations, in whatever order sets and completions arrive, however the
\* sets are shared, and on a graph with a cycle too (OutputDigests).
DigestsExact ==
    pc = "done" =>
        \A label \in Labels, file \in UNION {build.graph[s].files : s \in DOMAIN build.graph} :
            file \in digests[label] <=>
                \E e \in build.completed :
                    /\ e.label = label /\ e.success /\ e.group = "default"
                    /\ \E id \in e.fileSets : Holds(id, file)
=============================================================================
