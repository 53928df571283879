----------------------------- MODULE RpmClosure -----------------------------
(***************************************************************************)
(* The dependency closure of the rpm lockfile (pin's resolve, closeDeps,   *)
(* pickProvider and validate).  The repository is arbitrary: which         *)
(* candidates exist for which architectures, what each requires, and who   *)
(* offers the virtual capability.                                          *)
(*                                                                         *)
(* Packages are numbered in the lexical order of their names, and a        *)
(* capability is the number of the package that has that name, or 0 for a  *)
(* capability that is nobody's name.  A requirement that skipRequire drops *)
(* is no edge, so there is none here.  The worklist is a set: the order in *)
(* which it is worked off, and a key standing in it twice, change nothing  *)
(* that the loop's seen check does not settle.                             *)
(***************************************************************************)
EXTENDS Reachability, Sequences

CONSTANTS
    NPkgs,       \* package names
    Arches,      \* declaredArches, in order
    Declared,    \* declaredPkgs
    Offers,      \* bound: the sets of architectures a name may exist for
    MaxRequires, \* bound: capabilities one package requires
    Virtual      \* the packages that provide capability 0

Names == 1..NPkgs
ArchSet == {Arches[n] : n \in DOMAIN Arches}
Requirements == {r \in SUBSET (0..NPkgs) : Cardinality(r) <= MaxRequires}
Keys == Names \X (ArchSet \cup {"noarch"})

ClosureAssumption ==
    /\ NPkgs \in Nat /\ MaxRequires \in Nat /\ Declared \subseteq Names /\ Virtual \subseteq Names
    /\ Arches \in Seq(ArchSet) /\ "noarch" \notin ArchSet
    /\ \A o \in Offers : o \subseteq ArchSet \cup {"noarch"}

VARIABLES
    offered,     \* offered[n]: the architectures name n exists for
    requires,    \* requires[n]: the capabilities package n requires
    pass,        \* how many architectures have been begun
    worklist,    \* of the current architecture
    closure,
    pc           \* "seed", "close", "validate", then "locked" or "failed"

repo == <<offered, requires>>
vars == <<repo, pass, worklist, closure, pc>>

-----------------------------------------------------------------------------
Candidates == {k \in Keys : k[2] \in offered[k[1]]}

\* providesIndex: by name, and by what the package provides.
Providers(cap) == {k \in Candidates : k[1] = cap \/ (cap = 0 /\ k[1] \in Virtual)}

Compatible(cap, arch) == {k \in Providers(cap) : k[2] \in {arch, "noarch"}}

\* pickProvider: the lexically first name, its own architecture before noarch.
PickProvider(cap, arch) ==
    CHOOSE k \in Compatible(cap, arch) : \A other \in Compatible(cap, arch) :
        k[1] < other[1] \/ (k[1] = other[1] /\ (k[2] = arch \/ k = other))

\* The edges out of a package, walked for an architecture; a requirement
\* nobody offers is warned about and skipped.
Edges(k, arch) ==
    {PickProvider(cap, arch) : cap \in {c \in requires[k[1]] : Compatible(c, arch) # {}}}

\* A declared package resolved for an architecture.
Root(n, arch) == IF arch \in offered[n] THEN <<n, arch>> ELSE <<n, "noarch">>
Resolvable(n, arch) == arch \in offered[n] \/ "noarch" \in offered[n]

-----------------------------------------------------------------------------
\* The roots of the next architecture.
Seed ==
    /\ pc = "seed" /\ pass < Len(Arches)
    /\ IF \A n \in Declared : Resolvable(n, Arches[pass + 1])
       THEN /\ worklist' = {Root(n, Arches[pass + 1]) : n \in Declared}
            /\ pc' = "close"
       ELSE pc' = "failed" /\ UNCHANGED worklist
    /\ pass' = pass + 1
    /\ UNCHANGED <<repo, closure>>

\* Mutant: a package is expanded however often it comes up.
VisitAlways(k) ==
    /\ pc = "close" /\ k \in worklist
    /\ closure' = closure \cup {k}
    /\ worklist' = (worklist \ {k}) \cup Edges(k, Arches[pass])
    /\ UNCHANGED <<repo, pass, pc>>

\* Mutant: only the first requirement of a package is followed.
VisitOneEdge(k) ==
    /\ pc = "close" /\ k \in worklist
    /\ closure' = closure \cup {k}
    /\ worklist' = IF k \in closure \/ Edges(k, Arches[pass]) = {} THEN worklist \ {k}
                   ELSE (worklist \ {k}) \cup {CHOOSE e \in Edges(k, Arches[pass]) : TRUE}
    /\ UNCHANGED <<repo, pass, pc>>

\* One turn of the worklist loop.
Visit(k) ==
    /\ pc = "close" /\ k \in worklist
    /\ closure' = closure \cup {k}
    /\ worklist' = IF k \in closure THEN worklist \ {k}
                   ELSE (worklist \ {k}) \cup Edges(k, Arches[pass])
    /\ UNCHANGED <<repo, pass, pc>>

ArchDone ==
    /\ pc = "close" /\ worklist = {}
    /\ pc' = IF pass < Len(Arches) THEN "seed" ELSE "validate"
    /\ UNCHANGED <<repo, pass, worklist, closure>>

\* Every declared package is there, for every architecture or as noarch.
Complete ==
    \A n \in Declared :
        \/ <<n, "noarch">> \in closure
        \/ \A arch \in ArchSet : <<n, arch>> \in closure

Validate ==
    /\ pc = "validate"
    /\ pc' = IF Complete THEN "locked" ELSE "failed"
    /\ UNCHANGED <<repo, pass, worklist, closure>>

-----------------------------------------------------------------------------
Init ==
    /\ offered \in [Names -> Offers]
    /\ requires \in [Names -> Requirements]
    /\ pass = 0 /\ worklist = {} /\ closure = {} /\ pc = "seed"

Next == Seed \/ (\E k \in Keys : Visit(k)) \/ ArchDone \/ Validate

Spec == Init /\ [][Next]_vars

-----------------------------------------------------------------------------
\* What is reachable from the declared packages on an architecture.
Reachable(arch) ==
    Reached(Keys, [k \in Keys |-> Edges(k, arch)], {Root(n, arch) : n \in Declared})

\* Nothing is locked that no declared package needs on some architecture
\* (closeDeps): one provider is taken for a requirement, however many offer it.
ClosureIsNeeded ==
    pc = "validate" => closure \subseteq UNION {Reachable(arch) : arch \in ArchSet}

\* The closure of the first architecture is whole once its worklist is empty,
\* with cycles, self-references and shared requirements in the graph.
FirstArchClosed ==
    pc = "validate" => Reachable(Arches[1]) \subseteq closure

\* "the lockfile carries every transitively reachable package" (resolve), on
\* every declared architecture.
EveryArchClosed ==
    pc = "locked" => \A arch \in ArchSet : Reachable(arch) \subseteq closure
=============================================================================
