--------------------------- MODULE MCLspSession ----------------------------
(* Small sessions for TLC. *)
EXTENDS LspSession, TLC

CONSTANTS u1, u2, s1, s2, s3, a, b, x, crash

OneUri   == {u1}
TwoUris  == {u1, u2}
OneLoad  == [u \in {u1} |-> {u1}]
TwoLoads == [u \in {u1, u2} |-> {u1, u2}]

\* Slots are interchangeable: the transport takes any free one.
SlotSymmetry == Permutations(Slots)

SessionBudget == [open |-> 2, change |-> 2, save |-> 1, request |-> 0]
RequestBudget == [open |-> 2, change |-> 1, save |-> 0, request |-> 1]
LiveBudget    == [open |-> 1, change |-> 2, save |-> 1, request |-> 1]
StaleBudget   == [open |-> 1, change |-> 1, save |-> 1, request |-> 0]
=============================================================================
