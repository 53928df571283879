---------------------------- MODULE DirectoryMC ----------------------------
(***************************************************************************)
(* The Directory on small instances.  Evidence: four commits, two          *)
(* vulnerabilities, two databases.  History: three releases between two    *)
(* builds, five scans and recorded moves, and reads that fail.  Versions:  *)
(* two tags and a fallback tag through one slot, with room for one build.  *)
(***************************************************************************)
EXTENDS Directory, TLC

\* One reader opens the vulnerabilities at a tag and at a digest, which share what
\* the instances remember; the other the signed document and the history at a tag.
\* The TTL is twice the max-age of a page at a tag.
MCReaders == {"pages", "documents"}
MCVisited == [reader \in MCReaders |->
                 IF reader = "pages" THEN {"vulnerabilities"}
                 ELSE {"vulnerabilities.json", "history"}]
MCRefs == [reader \in MCReaders |-> IF reader = "pages" THEN {"tag", "d1"} ELSE {"tag"}]

\* The instances are alike.
MCSymmetry == Permutations(Instances)
=============================================================================
