---------------------------- MODULE DatabasePin ----------------------------
(***************************************************************************)
(* The daily update of the vulnerability database: knife grype update      *)
(* rewrites the database call of a MODULE.bazel file and lets bazel mod    *)
(* tidy carry it into the lockfile; the update-grype-db action proposes    *)
(* the two files when the lockfile's digest has changed.                   *)
(*                                                                         *)
(* A database is its number.  The module file is the proxies of the grype  *)
(* extension, those of regular use_extension calls before the development  *)
(* ones, and the calls in the file, each with its keyword arguments.       *)
(***************************************************************************)
EXTENDS Naturals, Sequences, SequencesExt

CONSTANTS
    Files,        \* bound: the module files to start from
    MaxDb,        \* bound: databases are 1, 2, ...
    MaxFaults     \* bound: failed requests and failed runs of bazel mod tidy

PinAssumption == MaxDb \in Nat \ {0} /\ MaxFaults \in Nat

VARIABLES
    published,    \* the database that latest.json names
    faults,
    pc,           \* "idle", "latest", "update", "tidy", "compare"
    latest,       \* what knife was told, 0 before
    head, tree,   \* [module, lock] of the commit checked out, and in the checkout
    main,         \* on the main branch
    pr            \* the open pull request's, or <<>>

repo == <<head, tree, main, pr>>
vars == <<published, faults, pc, latest, repo>>

\* What the arguments pin, 0 when they leave it out.
Values(args, name) == {args[n].value : n \in {m \in DOMAIN args : args[m].name = name}}
Sha256(args) == IF Values(args, "sha256") = {} THEN 0 ELSE CHOOSE v \in Values(args, "sha256") : TRUE
URL(args) == IF Values(args, "url") = {} THEN 0 ELSE CHOOSE v \in Values(args, "url") : TRUE

\* The calls that updateGrypeDatabaseCall looks for, on findGrypeExtensionProxy.
Calls(module) ==
    LET proxies == module.proxies \o module.devProxies
    IN  IF proxies = <<>> THEN {}
        ELSE {n \in DOMAIN module.calls :
                 module.calls[n].proxy = proxies[1] /\ module.calls[n].tag = "database"}

\* bazel mod tidy evaluates the extension: its one database call.
Evaluated(module) ==
    LET call == CHOOSE n \in DOMAIN module.calls : module.calls[n].tag = "database"
    IN  [url |-> URL(module.calls[call].args), sha256 |-> Sha256(module.calls[call].args)]

-----------------------------------------------------------------------------
Publish ==
    /\ published < MaxDb
    /\ published' = published + 1
    /\ UNCHANGED <<faults, pc, latest, repo>>

StartJob ==
    /\ pc = "idle"
    /\ head' = main /\ tree' = main /\ pc' = "latest"
    /\ UNCHANGED <<published, faults, latest, main, pr>>

EndJob == pc' = "idle" /\ latest' = 0 /\ head' = main /\ tree' = main

\* client.Latest or bazel mod tidy.
Fails ==
    /\ pc \in {"latest", "tidy"} /\ faults < MaxFaults
    /\ faults' = faults + 1 /\ EndJob
    /\ UNCHANGED <<published, main, pr>>

Latest ==
    /\ pc = "latest"
    /\ latest' = published /\ pc' = "update"
    /\ UNCHANGED <<published, faults, repo>>

\* An argument that is there gets the new value, the others are appended.
UpdateCallArguments(args, db) ==
    LET Arg(name) == [name |-> name, value |-> db]
    IN  [n \in DOMAIN args |-> IF args[n].name \in {"sha256", "url"} THEN Arg(args[n].name) ELSE args[n]]
        \o (IF Values(args, "sha256") = {} THEN <<Arg("sha256")>> ELSE <<>>)
        \o (IF Values(args, "url") = {} THEN <<Arg("url")>> ELSE <<>>)

\* UpdateModuleFile: the first such call of the file, or an error.
Update ==
    /\ pc = "update"
    /\ LET calls == Calls(tree.module)
       IN  IF calls = {} THEN EndJob
           ELSE LET first == CHOOSE n \in calls : \A m \in calls : n <= m
                IN  /\ tree' = [tree EXCEPT !.module.calls[first].args = UpdateCallArguments(@, latest)]
                    /\ pc' = "tidy" /\ UNCHANGED <<latest, head>>
    /\ UNCHANGED <<published, faults, main, pr>>

Tidy ==
    /\ pc = "tidy"
    /\ tree' = [tree EXCEPT !.lock = Evaluated(tree.module)] /\ pc' = "compare"
    /\ UNCHANGED <<published, faults, latest, head, main, pr>>

\* create-pull-request: both files on top of main, unless main has them already.
Proposed == IF tree = main THEN <<>> ELSE tree

\* The lockfile's digest before and after.
Compare ==
    /\ pc = "compare"
    /\ pr' = IF tree.lock.sha256 # head.lock.sha256 THEN Proposed ELSE pr
    /\ EndJob
    /\ UNCHANGED <<published, faults, main>>

\* gh pr merge --auto: its checks passed.
Merge ==
    /\ pr # <<>>
    /\ main' = pr /\ pr' = <<>>
    /\ IF pc = "idle" THEN head' = pr /\ tree' = pr ELSE UNCHANGED <<head, tree>>
    /\ UNCHANGED <<published, faults, pc, latest>>

Init ==
    /\ \E module \in Files : main = [module |-> module, lock |-> Evaluated(module)]
    /\ published = 1 /\ faults = 0 /\ pc = "idle" /\ latest = 0
    /\ head = main /\ tree = main /\ pr = <<>>

Job == StartJob \/ Fails \/ Latest \/ Update \/ Tidy \/ Compare

Next == Publish \/ Job \/ Merge

-----------------------------------------------------------------------------
\* What main should end with, once upstream is quiet: the newest database in both
\* files, and what else the module file said.
PinIsCurrent ==
    /\ main.lock = [url |-> published, sha256 |-> published]
    /\ Evaluated(main.module) = main.lock
=============================================================================
