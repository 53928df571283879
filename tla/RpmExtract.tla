----------------------------- MODULE RpmExtract -----------------------------
(***************************************************************************)
(* rpm-extract's walk of an rpm's cpio payload into a tar                  *)
(* (writePayloadAsTar).  rpm writes a set of hardlinked paths as entries   *)
(* of size zero and the bytes once, on the set's last entry; the walk      *)
(* holds the early paths back until the bytes arrive, strips paths the     *)
(* images do not ship, and must not lose the bytes with a stripped path.   *)
(*                                                                         *)
(* The package is arbitrary: which paths it has, which file each is a link *)
(* of, which files are empty, and in which order the entries come.         *)
(***************************************************************************)
EXTENDS Naturals, Sequences, FiniteSets

CONSTANTS
    Paths,       \* the paths of regular files
    Others,      \* directories and symlinks
    Nodes,       \* devices, fifos, sockets
    Unshipped,   \* paths shouldStrip or mergedUsr drops
    Legacy,      \* paths under /lib, /lib64, /bin or /sbin
    Long,        \* paths longer than ustarLinknameMax
    Devices, Inos

Files == Devices \X Inos
Names == Paths \cup Others \cup Nodes

\* The name an entry is written under: a legacy root goes under /usr.  No
\* package has a path under both roots.
MergedUsr(p) == IF p \in Legacy THEN <<"usr", p>> ELSE <<p>>

TarNames == {MergedUsr(p) : p \in Names}

ExtractAssumption ==
    /\ IsFiniteSet(Paths)
    /\ Unshipped \cup Legacy \subseteq Names /\ Long \subseteq Names
    /\ Paths \cap Others = {} /\ (Paths \cup Others) \cap Nodes = {}

VARIABLES
    file,        \* file[p]: the (device, inode) path p is a link of
    full,        \* full[f]: file f has bytes
    left,        \* entries the payload has still to give
    pending,     \* pendingLinks
    order,       \* pendingOrder
    tar,         \* the entries written: a regular file `of` a file's bytes or of none, a link
                 \* `of` an earlier name, or something without content
    pc           \* "walk", "flush", then "done" or "refused"

package == <<file, full>>
vars == <<package, left, pending, order, tar, pc>>

-----------------------------------------------------------------------------
Links(p) == {q \in Paths : file[q] = file[p]}     \* Nlink is their number
Linked(p) == Cardinality(Links(p)) > 1

\* Filesize: the bytes come with the last entry of the set.
HasBytes(p) == full[file[p]] /\ Links(p) \cap left = {p}

Identify(p) == file[p]

Held(id) == IF id \in DOMAIN pending THEN pending[id] ELSE <<>>
Release(id) == [x \in DOMAIN pending \ {id} |-> pending[x]]

\* What a regular entry written from p's cpio entry contains.
Bytes(p) == IF HasBytes(p) THEN file[p] ELSE <<>>

Regular(name, of) == [name |-> name, type |-> "reg", of |-> of]

\* A target USTAR cannot hold.
TooLong(target) == \E p \in Long : target = MergedUsr(p)

\* The bytes under one name, and writeHardlinkAsTar for every other: the first
\* link to a target that is too long fails the walk.
WriteSet(target, of, links) ==
    IF TooLong(target) /\ links # <<>>
    THEN tar' = Append(tar, Regular(target, of)) /\ pc' = "refused"
    ELSE /\ tar' = Append(tar, Regular(target, of)) \o
                     [n \in DOMAIN links |->
                         [name |-> links[n], type |-> "link", of |-> target]]
         /\ UNCHANGED pc

Consume(p) == left' = left \ {p}

-----------------------------------------------------------------------------
\* Mutant: a stripped entry is drained whatever it carries.
StripAlways(p) ==
    /\ pc = "walk" /\ p \in left /\ p \in Unshipped
    /\ Consume(p)
    /\ UNCHANGED <<package, pending, order, tar, pc>>

\* A path that is not shipped and carries nothing anyone waits for.
Strip(p) ==
    /\ pc = "walk" /\ p \in left /\ p \in Unshipped
    /\ ~(p \in Paths /\ Linked(p) /\ HasBytes(p) /\ Held(Identify(p)) # <<>>)
    /\ Consume(p)
    /\ UNCHANGED <<package, pending, order, tar, pc>>

\* A path that is not shipped but carries the bytes of paths that are: the
\* first of them is written with the bytes, the rest as links to it.
HandOver(p) ==
    /\ pc = "walk" /\ p \in left \cap Paths /\ p \in Unshipped
    /\ Linked(p) /\ HasBytes(p)
    /\ LET held == Held(Identify(p))
       IN  held # <<>> /\ WriteSet(held[1], Bytes(p), Tail(held))
    /\ pending' = Release(Identify(p))
    /\ Consume(p)
    /\ UNCHANGED <<package, order>>

\* A link without bytes waits for its set's.
Hold(p) ==
    /\ pc = "walk" /\ p \in left \cap Paths /\ p \notin Unshipped
    /\ Linked(p) /\ ~HasBytes(p)
    /\ LET id == Identify(p)
       IN  /\ order' = IF Held(id) = <<>> THEN Append(order, id) ELSE order
           /\ pending' = [x \in DOMAIN pending \cup {id} |->
                             IF x = id THEN Append(Held(id), MergedUsr(p)) ELSE pending[x]]
    /\ Consume(p)
    /\ UNCHANGED <<package, tar, pc>>

\* A file with its bytes, and the paths that waited for them.
Write(p) ==
    /\ pc = "walk" /\ p \in left \cap Paths /\ p \notin Unshipped
    /\ Linked(p) => HasBytes(p)
    /\ WriteSet(MergedUsr(p), Bytes(p), IF Linked(p) THEN Held(Identify(p)) ELSE <<>>)
    /\ pending' = IF Linked(p) THEN Release(Identify(p)) ELSE pending
    /\ Consume(p)
    /\ UNCHANGED <<package, order>>

\* Directories and symlinks are copied; device nodes are left out.
Copy(p) ==
    /\ pc = "walk" /\ p \in left \ (Paths \cup Unshipped)
    /\ tar' = IF p \in Nodes THEN tar
              ELSE Append(tar, [name |-> MergedUsr(p), type |-> "other", of |-> <<>>])
    /\ Consume(p)
    /\ UNCHANGED <<package, pending, order, pc>>

PayloadEnds ==
    /\ pc = "walk" /\ left = {}
    /\ pc' = "flush"
    /\ UNCHANGED <<package, left, pending, order, tar>>

\* Whatever is still pending is a set of empty files.
Flush ==
    /\ pc = "flush"
    /\ IF order = <<>>
       THEN pc' = "done" /\ UNCHANGED <<pending, order, tar>>
       ELSE LET held == Held(Head(order))
            IN  /\ order' = Tail(order)
                /\ pending' = Release(Head(order))
                /\ IF held = <<>> THEN UNCHANGED <<tar, pc>>
                   ELSE WriteSet(held[1], <<>>, Tail(held))
    /\ UNCHANGED <<package, left>>

-----------------------------------------------------------------------------
Init ==
    /\ file \in [Paths -> Files]
    /\ full \in [Files -> BOOLEAN]
    /\ left = Names
    /\ pending = <<>> /\ order = <<>> /\ tar = <<>>
    /\ pc = "walk"

Next ==
    \/ \E p \in Names : Strip(p) \/ Copy(p)
    \/ \E p \in Paths : HandOver(p) \/ Hold(p) \/ Write(p)
    \/ PayloadEnds \/ Flush

Spec == Init /\ [][Next]_vars

-----------------------------------------------------------------------------
Shipped == {MergedUsr(p) : p \in (Paths \cup Others) \ Unshipped}

\* What an extractor that unpacks the tar finds at a name.
At(name) == CHOOSE n \in DOMAIN tar : tar[n].name = name
Unpacked(name) == LET entry == tar[At(name)]
                  IN  IF entry.type = "link" THEN tar[At(entry.of)].of ELSE entry.of

\* "copying the entries one by one shipped them empty" (writePayloadAsTar):
\* when the walk is done every shipped path has the bytes of its file, whoever
\* carried them and whichever of its links were stripped.
ContentKept ==
    pc = "done" => \A p \in Paths \ Unshipped :
        /\ \E n \in DOMAIN tar : tar[n].name = MergedUsr(p)
        /\ Unpacked(MergedUsr(p)) = IF full[file[p]] THEN file[p] ELSE <<>>

\* A target "must already be in the archive" (writeHardlinkAsTar): a strict
\* extractor can unpack the tar in one pass.
LinksLookBack ==
    \A n \in DOMAIN tar : tar[n].type = "link" =>
        \E m \in 1..(n - 1) : tar[m].name = tar[n].of /\ tar[m].type = "reg"

\* Every path that is shipped is in the tar once, and none that is not.
ShippedOnce ==
    /\ \A m, n \in DOMAIN tar : tar[m].name = tar[n].name => m = n
    /\ \A n \in DOMAIN tar : tar[n].name \in Shipped
    /\ pc = "done" => {tar[n].name : n \in DOMAIN tar} = Shipped
=============================================================================
