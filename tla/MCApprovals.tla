---------------------------- MODULE MCApprovals ----------------------------
(* Instances of Approvals for TLC.                                          *)
EXTENDS Approvals, TLC

CONSTANTS r1, r2, t1, t2

TwoRequests == {r1, r2}
TwoTabs == {t1, t2}

=============================================================================
