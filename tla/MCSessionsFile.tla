--------------------------- MODULE MCSessionsFile ---------------------------
(* Instances of SessionsFile for TLC.                                       *)
EXTENDS SessionsFile, TLC

CONSTANTS w1, w2, i1, i2, i3, l1, l2, l3

OneWriter == {w1}
TwoWriters == {w1, w2}
ThreeInodes == {i1, i2, i3}
TwoLists == {l1, l2}
ThreeLists == {l1, l2, l3}

=============================================================================
