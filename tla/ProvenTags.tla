----------------------------- MODULE ProvenTags -----------------------------
(***************************************************************************)
(* What the mirror promises whoever follows a tag, apart from how CI       *)
(* delivers it (ci.yaml's header and the comment on job release): refs     *)
(* gather evidence and never lose it, and a tag, once it names anything,   *)
(* names a ref whose evidence is complete.                                 *)
(***************************************************************************)
CONSTANTS Refs, Tags, NoRef

VARIABLES
    proven,      \* refs that carry every artifact of the policy
    tags         \* tags[t]: the ref tag t names, NoRef before the first

Init ==
    /\ proven = {}
    /\ tags = [t \in Tags |-> NoRef]

\* Evidence is attached; some refs may become complete, none becomes less.
Prove ==
    /\ proven' \in SUBSET Refs
    /\ proven \subseteq proven'
    /\ UNCHANGED tags

\* A tag moves, to a ref proven before the move.
Move(t, ref) ==
    /\ ref \in proven
    /\ tags' = [tags EXCEPT ![t] = ref]
    /\ UNCHANGED proven

Next == Prove \/ \E t \in Tags, ref \in Refs : Move(t, ref)

Spec == Init /\ [][Next]_<<proven, tags>>
=============================================================================
