--------------------------- MODULE MirrorClientMC ---------------------------
(***************************************************************************)
(* MirrorClient with small setups: two requests that race to fill the scan *)
(* cache while time passes and evidence arrives; and two builds with room  *)
(* for one in a cache, a moving tag, disconnects and failing reads.        *)
(***************************************************************************)
EXTENDS MirrorClient

Fresh ==
    [digests |-> {"d1"}, tags |-> {}, asked |-> {"Scan", "ScanDocument"},
     impatient |-> FALSE, flaky |-> FALSE, time |-> 4, referrers |-> 3]

Faulty ==
    [digests |-> {"d1", "d2"}, tags |-> {"t1"}, asked |-> {"SBOM", "Scan"},
     impatient |-> TRUE, flaky |-> TRUE, time |-> 0, referrers |-> 2]

MCSetups == {Fresh, Faulty}

\* Readers that may disconnect from a registry that answers.
Cancelled == {[Fresh EXCEPT !.asked = {"Scan"}, !.impatient = TRUE, !.time = 2]}
=============================================================================
