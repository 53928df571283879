-------------------------- MODULE MirrorPipelineMC --------------------------
(***************************************************************************)
(* Instances of MirrorPipeline for TLC.  Runs are numbered in the order    *)
(* their commits were pushed.                                              *)
(***************************************************************************)
EXTENDS MirrorPipeline, TLC

CONSTANTS i1, ref1, ref2, t1, t2, f1, v1, v2

AllTypes == AttestationTypes

(***************************************************************************)
(* Pair: two runs of one image with every attestation.  Both build the     *)
(* same digest; the second has a newer database and other VEX statements,  *)
(* and applies one tag more.                                               *)
(***************************************************************************)
PairRuns == 1..2
PairImages == {i1}
PairRefs == {ref1}
PairTags == {t1, t2}
PairBuilt == [r \in PairRuns |-> [i \in PairImages |-> ref1]]
PairTypes == [r \in PairRuns |-> [i \in PairImages |-> AllTypes]]
PairDb == [r \in PairRuns |-> r]
PairVex == [r \in PairRuns |-> [i \in PairImages |-> IF r = 1 THEN v1 ELSE v2]]
PairTagsOf == [r \in PairRuns |->
                [i \in PairImages |-> IF r = 1 THEN {t1} ELSE {t1, t2}]]
PairFamily == [i \in PairImages |-> f1]

(***************************************************************************)
(* Trio: three runs of one image without VEX statements.  Run 2 rebuilds   *)
(* it to another digest, run 3 back to the first, so its tag goes there    *)
(* and back, in whichever order the runs reach the release group.          *)
(***************************************************************************)
TrioRuns == 1..3
TrioRefs == {ref1, ref2}
TrioBuilt == [r \in TrioRuns |->
                [i \in PairImages |-> IF r = 2 THEN ref2 ELSE ref1]]
TrioTypes == [r \in TrioRuns |-> [i \in PairImages |-> {"cyclonedx", "vuln"}]]
TrioDb == [r \in TrioRuns |-> 1]
TrioVex == [r \in TrioRuns |-> [i \in PairImages |-> v1]]
TrioTagsOf == [r \in TrioRuns |-> [i \in PairImages |-> {t1}]]
=============================================================================
