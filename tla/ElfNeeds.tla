------------------------------ MODULE ElfNeeds ------------------------------
(***************************************************************************)
(* elfneeds: does every ELF of an image root find what it loads, as the    *)
(* loader will look for it (check).                                        *)
(*                                                                         *)
(* A path is a directory and a name.  A file is an ELF with its machine,   *)
(* interpreter (<<>> for none), needed sonames and run path, a malformed   *)
(* ELF (the magic number and no more), a symbolic link with its target, or *)
(* something else.  The directories are searched in order, but the answer  *)
(* is only whether one of them has the library, so they are sets.          *)
(***************************************************************************)
EXTENDS Integers, Sequences, Reachability

CONSTANTS
    Roots,        \* bound: the image roots, functions from paths to files
    Confs,        \* bound: the configurations, functions from conf files to their lines
    AllowLists,   \* bound: sequences of globs
    Matched,      \* the paths a glob matches
    MaxHops,      \* of fileInRoot, 40
    MaxDepth,     \* of ldSoConfDirs, 8
    DefaultDirs   \* defaultDirs

\* What follows a path, and what a file of the configuration includes.
Links(files) == [p \in DOMAIN files |-> IF files[p].kind = "link" THEN {files[p].target} ELSE {}]
Includes(config) == [c \in DOMAIN config |-> config[c].includes]

NeedsAssumption ==
    /\ MaxHops \in Nat \ {0} /\ MaxDepth \in Nat
    /\ \A r \in Roots : IsFiniteSet(DOMAIN r)
    /\ \A c \in Confs : IsFiniteSet(DOMAIN c)
    /\ \A a \in AllowLists : a \in Seq(DOMAIN Matched)

VARIABLES
    root, conf, allows,
    verdict,      \* [ok, missing]: missing[p] of each failing path
    pc            \* "check", then "done" or "failed"

vars == <<root, conf, allows, verdict, pc>>

-----------------------------------------------------------------------------
IsLink(p) == p \in DOMAIN root /\ root[p].kind = "link"
Regular(p) == p \in DOMAIN root /\ root[p].kind \in {"elf", "malformed", "other"}

\* Mutant: one link fewer is followed.
FileInRootShort(path) ==
    LET at[n \in 0..(MaxHops - 2)] ==
            IF n = 0 THEN path
            ELSE LET p == at[n - 1] IN IF IsLink(p) THEN root[p].target ELSE p
        end == at[MaxHops - 2]
    IN  IF Regular(end) THEN <<end>> ELSE <<>>

\* fileInRoot: the regular file a path leads to, or <<>>.
FileInRoot(path) ==
    LET at[n \in 0..(MaxHops - 1)] ==
            IF n = 0 THEN path
            ELSE LET p == at[n - 1] IN IF IsLink(p) THEN root[p].target ELSE p
        end == at[MaxHops - 1]
    IN  IF Regular(end) THEN <<end>> ELSE <<>>

\* ldSoConfDirs: the directories of ld.so.conf and of what it includes, level
\* by level; an include may name files that are read already.
LdSoConfDirs ==
    LET read[depth \in 0..MaxDepth] ==
            IF depth = 0 THEN {"ld.so.conf"}
            ELSE UNION {conf[c].includes : c \in read[depth - 1] \cap DOMAIN conf}
    IN  UNION {conf[c].dirs : c \in (UNION {read[d] : d \in 0..MaxDepth}) \cap DOMAIN conf}

\* runpath: DT_RUNPATH, or DT_RPATH when there is none; $ORIGIN is the directory
\* of the file itself.
Runpath(p) ==
    {IF d = "$ORIGIN" THEN p[1] ELSE d :
        d \in IF root[p].runpath # {} THEN root[p].runpath ELSE root[p].rpath}

\* resolves, machineOf: a library for another machine, or a file that is none,
\* does not count.
Resolves(soname, dirs, machine) ==
    \E d \in dirs :
        LET real == FileInRoot(<<d, soname>>)
        IN  real # <<>> /\ root[real[1]].kind = "elf" /\ root[real[1]].machine = machine

NeedsOf(p) ==
    LET file == root[p]
        dirs == Runpath(p) \cup LdSoConfDirs \cup DefaultDirs
    IN  {<<"interpreter", i[1]>> : i \in {j \in {file.interp} : j # <<>> /\ FileInRoot(j[1]) = <<>>}}
        \cup {<<"needs", s>> : s \in {t \in file.needed : ~Resolves(t, dirs, file.machine)}}

\* The regular files outside /usr/lib/debug that begin as an ELF does.
Walked == {p \in DOMAIN root : root[p].kind \in {"elf", "malformed"} /\ p[1] # "debug"}

\* The first allow that matches a failing file is the one used.
Uses(p) == {n \in DOMAIN allows :
               p \in Matched[allows[n]] /\ \A m \in 1..(n - 1) : p \notin Matched[allows[m]]}

Verdict ==
    LET failures == {p \in Walked : NeedsOf(p) # {}}
        used == {allows[n] : n \in UNION {Uses(p) : p \in failures}}
    IN  [ok |-> (\A p \in failures : Uses(p) # {}) /\ \A n \in DOMAIN allows : allows[n] \in used,
         missing |-> [p \in failures |-> NeedsOf(p)]]

\* One ELF that does not parse, and there is no verdict.
Check ==
    /\ pc = "check"
    /\ IF \E p \in Walked : root[p].kind = "malformed"
       THEN pc' = "failed" /\ UNCHANGED verdict
       ELSE pc' = "done" /\ verdict' = Verdict
    /\ UNCHANGED <<root, conf, allows>>

Init ==
    /\ root \in Roots /\ conf \in Confs /\ allows \in AllowLists
    /\ verdict = <<>> /\ pc = "check"
-----------------------------------------------------------------------------
(* What the loader would find, by reachability *)

Holds(path, machine) ==
    \E q \in Reached(DOMAIN root, Links(root), {path}) \cap DOMAIN root :
        root[q].kind = "elf" /\ root[q].machine = machine
Included == Reached(DOMAIN conf, Includes(conf), {"ld.so.conf"})
Loads(p) ==
    /\ root[p].kind = "elf"
    /\ root[p].interp # <<>> =>
        \E q \in Reached(DOMAIN root, Links(root), {root[p].interp[1]}) : Regular(q)
    /\ \A s \in root[p].needed :
        \E d \in Runpath(p) \cup DefaultDirs
                     \cup UNION {conf[c].dirs : c \in Included \cap DOMAIN conf} :
            Holds(<<d, s>>, root[p].machine)

\* Past the limits on links and on includes there is nothing that was not there
\* before.
WithinLimits ==
    /\ \A p \in DOMAIN root :
        Within(MaxHops, DOMAIN root, Links(root), {p})
            = Within(MaxHops - 1, DOMAIN root, Links(root), {p})
    /\ Within(MaxDepth + 1, DOMAIN conf, Includes(conf), {"ld.so.conf"})
           = Within(MaxDepth, DOMAIN conf, Includes(conf), {"ld.so.conf"})

\* "An unresolved need is a failure unless --allow names the file with a reason,
\* and an --allow that silences nothing is a failure too": every file that cannot
\* load fails, through chains and cycles of links and includes, and so does
\* another only where a limit cuts one off; an image passes exactly when all that
\* fail are on the list and each allow is the first that matches one (check).
VerdictExact ==
    pc = "done" =>
        LET broken == {p \in Walked : ~Loads(p)}
            failing == DOMAIN verdict.missing
        IN  /\ broken \subseteq failing
            /\ WithinLimits => failing \subseteq broken
            /\ verdict.ok <=>
                /\ \A p \in failing : \E n \in DOMAIN allows : p \in Matched[allows[n]]
                /\ \A n \in DOMAIN allows : \E p \in failing :
                    /\ p \in Matched[allows[n]]
                    /\ \A m \in DOMAIN allows : p \in Matched[allows[m]] =>
                        \E l \in 1..m : allows[l] = allows[n]
=============================================================================
