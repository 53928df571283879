---------------------------- MODULE MirrorOverlap ----------------------------
(***************************************************************************)
(* MirrorPipeline with a history variable that tells runs that overlapped  *)
(* from runs that followed one another, under the fairness of the jobs.    *)
(***************************************************************************)
EXTENDS MirrorPipeline

\* The mirror targets of one run are different images: no two are one digest of
\* one repository, so no two workers attach to the same ref at once.
ASSUME ImagesDiffer ==
    \A r \in Runs : \A i, j \in Images : Built[r][i] = Built[r][j] => i = j

\* before[r]: the runs that had ended when run r started.
VARIABLE before

OverlapInit == Init /\ before = [r \in Runs |-> {}]

OverlapNext ==
    /\ Next
    /\ before' = [r \in Runs |->
                    IF job[r] = "new" /\ job'[r] # "new"
                      THEN {q \in Runs : job[q] \in Ended}
                      ELSE before[r]]

OverlapSafety == OverlapInit /\ [][OverlapNext]_<<vars, before>>
OverlapSpec == OverlapSafety /\ Fairness

\* Two runs overlapped: neither had ended when the other started.
Overlapped(q, r) == q \notin before[r] /\ r \notin before[q]

\* One signature, one SBOM and one provenance statement per digest, and no two
\* scans or VEX documents with the same content, but for runs that overlapped
\* (ci.yaml, comment on publish; ADR 0014, "One provenance statement per
\* digest, ever"): whatever a failed run left behind, and whichever of its
\* questions to the registry went unanswered, no later run adds it again.
OneOfEachPerDigest ==
    \A a, b \in referrers :
        a.ref = b.ref /\ a.kind = b.kind /\ a # b =>
            \/ a.kind = "vuln" /\ Db[a.run] # Db[b.run]
            \/ a.kind = "openvex" /\ Vex[a.run][a.image] # Vex[b.run][b.image]
            \/ a.run # b.run /\ Overlapped(a.run, b.run)
=============================================================================
