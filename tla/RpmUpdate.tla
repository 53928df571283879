------------------------------ MODULE RpmUpdate ------------------------------
(***************************************************************************)
(* The daily re-pin of the rpm lockfiles (the update-rpm-packages action   *)
(* and the fetching half of pin's resolve).  The job pins one repository   *)
(* after another against a live mirror: for each architecture it fetches   *)
(* repomd.xml, checks its detached signature, and fetches the primary.xml  *)
(* that repomd.xml names by digest.  If a binary changed, the lockfiles go *)
(* to main through a pull request that merges itself.                      *)
(*                                                                         *)
(* A repository's metadata is its revision; Binaries gives the packages a  *)
(* revision lists.  The mirror is outside the repository: it publishes new *)
(* revisions, all architectures at once, while pin is reading.             *)
(***************************************************************************)
EXTENDS Naturals, Sequences

CONSTANTS
    Repos,        \* the action's `repos`, in order
    Arches,       \* declaredArches, in order
    Signed,       \* repositories that publish repomd.xml.asc
    Required,     \* repositories pinned with --repomd-signature=required
    MaxAttempts,  \* httpGetMaxAttempts
    Binaries,     \* bound: what each revision lists; revisions are 1, 2, ...
    MaxFaults     \* bound: 5xx, transport failures and the terminal ones

Indexes(s) == DOMAIN s
RepoSet == {Repos[n] : n \in Indexes(Repos)}
ArchSet == {Arches[n] : n \in Indexes(Arches)}
Revisions == Indexes(Binaries)

UpdateAssumption ==
    /\ Signed \subseteq RepoSet /\ Required \subseteq RepoSet
    /\ MaxAttempts \in Nat \ {0} /\ MaxFaults \in Nat
    /\ Repos \in Seq(RepoSet) /\ Arches \in Seq(ArchSet)
    /\ Repos # <<>> /\ Arches # <<>> /\ Binaries # <<>>

VARIABLES
    published,    \* published[r]: the revision of repomd.xml
    asc,          \* asc[r]: the revisions signed so far; the mirror serves the last
    faults,
    pc,           \* "idle", "repomd", "asc", "primary", "gate"
    repo, arch,   \* where the loops are
    attempt,
    repomd,       \* the repomd.xml in hand; 0 is one that was damaged
    listed,       \* listed[a]: the revision whose packages are candidates
    head, tree,   \* lockfiles of the commit checked out, and in the checkout
    main,         \* on the main branch
    pr            \* lockfiles of the open pull request, or <<>>

mirror == <<published, asc>>
job == <<pc, repo, arch, attempt, repomd, listed, head, tree>>
vars == <<mirror, faults, job, main, pr>>

\* A lockfile: repo.revision, and the revision each architecture's packages
\* were read from.
FirstLock == [revision |-> 1, from |-> [a \in ArchSet |-> 1]]

\* The revision that the repomd.xml.asc served now signs.
Asc(r) == CHOOSE rev \in asc[r] : \A other \in asc[r] : other <= rev

Here == Repos[repo]
ThisArch == Arches[arch]
Shas(lock) == [a \in ArchSet |-> Binaries[lock.from[a]]]

-----------------------------------------------------------------------------
(* The mirror *)

Publish(r) ==
    /\ published[r] + 1 \in Revisions
    /\ published' = [published EXCEPT ![r] = @ + 1]
    /\ UNCHANGED <<asc, faults, job, main, pr>>

\* The signature follows the file it signs.
Sign(r) ==
    /\ r \in Signed /\ published[r] \notin asc[r]
    /\ asc' = [asc EXCEPT ![r] = @ \cup {published[r]}]
    /\ UNCHANGED <<published, faults, job, main, pr>>

-----------------------------------------------------------------------------
(* pin *)

StartJob ==
    /\ pc = "idle"
    /\ pc' = "repomd" /\ repo' = 1 /\ arch' = 1 /\ attempt' = 1
    /\ head' = main /\ tree' = main
    /\ UNCHANGED <<mirror, faults, repomd, listed, main, pr>>

Goto(next) == pc' = next /\ attempt' = 1

\* The job is over and its checkout gone, after an error in pin or at the end.
EndJob ==
    /\ pc' = "idle" /\ repo' = 1 /\ arch' = 1 /\ attempt' = 1 /\ repomd' = 0
    /\ listed' = [a \in ArchSet |-> 1]
    /\ head' = main /\ tree' = main

Fault == faults < MaxFaults /\ faults' = faults + 1

\* Mutant: the loop gives up one attempt early.
RetryEarly ==
    /\ pc \in {"repomd", "asc", "primary"} /\ Fault
    /\ IF attempt + 1 = MaxAttempts THEN EndJob
       ELSE attempt' = attempt + 1 /\ UNCHANGED <<pc, repo, arch, repomd, listed, head, tree>>
    /\ UNCHANGED <<mirror, main, pr>>

\* httpGet, a 5xx or a transport failure: again, or give up.
Retry ==
    /\ pc \in {"repomd", "asc", "primary"} /\ Fault
    /\ IF attempt = MaxAttempts THEN EndJob
       ELSE attempt' = attempt + 1 /\ UNCHANGED <<pc, repo, arch, repomd, listed, head, tree>>
    /\ UNCHANGED <<mirror, main, pr>>

\* httpGet, a 4xx, or a declared package that primary.xml does not list.
Refused ==
    /\ pc \in {"repomd", "asc", "primary"} /\ Fault /\ EndJob
    /\ UNCHANGED <<mirror, main, pr>>

\* repomd.xml, whole or damaged on the way; its first-architecture copy gives
\* the lockfile its revision.
GetRepomd(whole) ==
    /\ pc = "repomd"
    /\ IF whole THEN UNCHANGED faults ELSE Fault
    /\ repomd' = IF whole THEN published[Here] ELSE 0
    /\ Goto("asc")
    /\ UNCHANGED <<mirror, repo, arch, listed, head, tree, main, pr>>

\* Mutant: a signature only has to be there.
GetAscPresent ==
    /\ pc = "asc" /\ Here \in Signed /\ repomd # 0
    /\ Goto("primary")
    /\ UNCHANGED <<mirror, faults, repo, arch, repomd, listed, head, tree, main, pr>>

\* The detached signature verifies the repomd.xml in hand ...
GetAsc ==
    /\ pc = "asc" /\ Here \in Signed /\ Asc(Here) = repomd
    /\ Goto("primary")
    /\ UNCHANGED <<mirror, faults, repo, arch, repomd, listed, head, tree, main, pr>>

\* ... or does not, which is an error under either policy.
BadAsc ==
    /\ pc = "asc" /\ Here \in Signed /\ Asc(Here) # repomd
    /\ EndJob
    /\ UNCHANGED <<mirror, faults, main, pr>>

\* 404 on the signature: tolerated when optional.  A repomd.xml that was
\* damaged does not parse.
NoAsc ==
    /\ pc = "asc" /\ Here \notin Signed
    /\ IF Here \in Required \/ repomd = 0 THEN EndJob
       ELSE Goto("primary") /\ UNCHANGED <<repo, arch, repomd, listed, head, tree>>
    /\ UNCHANGED <<mirror, faults, main, pr>>

\* The lockfile closeDeps and validate leave, written over the old one.
WriteLock(read) == tree' = [tree EXCEPT ![Here] = [revision |-> read[Arches[1]], from |-> read]]

\* The next architecture, the next repository, or the end of the loop.
Onwards(read) ==
    \/ /\ arch < Len(Arches)
       /\ arch' = arch + 1 /\ Goto("repomd")
       /\ UNCHANGED <<repo, tree>>
    \/ /\ arch = Len(Arches) /\ repo < Len(Repos)
       /\ WriteLock(read)
       /\ arch' = 1 /\ repo' = repo + 1 /\ Goto("repomd")
    \/ /\ arch = Len(Arches) /\ repo = Len(Repos)
       /\ WriteLock(read)
       /\ Goto("gate") /\ UNCHANGED <<repo, arch>>

\* primary.xml has the digest repomd.xml names.
GetPrimary(got) ==
    /\ pc = "primary" /\ got = repomd
    /\ listed' = [listed EXCEPT ![ThisArch] = got]
    /\ Onwards(listed')
    /\ UNCHANGED <<mirror, faults, repomd, head, main, pr>>

\* It has been replaced since, and is another one or gone.
WrongPrimary ==
    /\ pc = "primary" /\ published[Here] # repomd
    /\ EndJob
    /\ UNCHANGED <<mirror, faults, main, pr>>

-----------------------------------------------------------------------------
(* The gate and the pull request *)

\* create-pull-request: the lockfiles the job changed, on top of main as it is by
\* now; nothing is left to propose when main has them already.
Proposed ==
    LET files == [r \in RepoSet |-> IF tree[r] # head[r] THEN tree[r] ELSE main[r]]
    IN  IF files = main THEN <<>> ELSE files

\* Mutant: only the first lockfile is looked at.
GateFirst ==
    /\ pc = "gate"
    /\ pr' = IF Shas(tree[Repos[1]]) # Shas(head[Repos[1]]) THEN Proposed ELSE pr
    /\ EndJob
    /\ UNCHANGED <<mirror, faults, main>>

\* git diff: a changed package digest opens the pull request, or replaces what it
\* holds; a bump of the revision alone is discarded and the pull request left as
\* it is, although main may have moved since the checkout.
Gate ==
    /\ pc = "gate"
    /\ pr' = IF \E r \in RepoSet : Shas(tree[r]) # Shas(head[r]) THEN Proposed ELSE pr
    /\ EndJob
    /\ UNCHANGED <<mirror, faults, main>>

\* gh pr merge --auto: its checks passed.
Merge ==
    /\ pr # <<>>
    /\ main' = pr /\ pr' = <<>>
    /\ IF pc = "idle" THEN head' = pr /\ tree' = pr ELSE UNCHANGED <<head, tree>>
    /\ UNCHANGED <<mirror, faults, pc, repo, arch, attempt, repomd, listed>>

-----------------------------------------------------------------------------
Init ==
    /\ published = [r \in RepoSet |-> 1]
    /\ asc = [r \in RepoSet |-> {1}]
    /\ faults = 0
    /\ pc = "idle" /\ repo = 1 /\ arch = 1 /\ attempt = 1 /\ repomd = 0
    /\ listed = [a \in ArchSet |-> 1]
    /\ main = [r \in RepoSet |-> FirstLock]
    /\ head = main /\ tree = main
    /\ pr = <<>>

Pin ==
    \/ Retry \/ Refused \/ GetAsc \/ BadAsc \/ NoAsc \/ WrongPrimary
    \/ \E whole \in BOOLEAN : GetRepomd(whole)
    \/ \E got \in Revisions : GetPrimary(got)

Next ==
    \/ \E r \in RepoSet : Publish(r) \/ Sign(r)
    \/ StartJob \/ Pin \/ Gate \/ Merge

Spec == Init /\ [][Next]_vars

-----------------------------------------------------------------------------
\* "every digest we pin downstream chains back to it" (pin): with the signature
\* required, nothing gets into a lockfile from a revision the mirror had not
\* signed, however far its files are apart while pin reads them.
TrustAnchored ==
    \A r \in Required, a \in ArchSet : tree[r].from[a] \in asc[r]

\* Every architecture of every repository on main has what the mirror lists.
MainIsCurrent ==
    \A r \in RepoSet, a \in ArchSet : Binaries[main[r].from[a]] = Binaries[published[r]]
=============================================================================
