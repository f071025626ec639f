----------------------------- MODULE MCManager -----------------------------
(* Instances of Manager for TLC.                                            *)
EXTENDS Manager, TLC

CONSTANTS s1, s2, s3, w1, w2, u1, u2, i1, i2, i3

TwoSessions == {s1, s2}
ThreeSessions == {s1, s2, s3}
OneWorker == {w1}
TwoWorkers == {w1, w2}
OneConvoId == {u1}
TwoConvos == {u1, u2}
TwoInodes == {i1, i2}
AnyCrash == {"process", "pod"}
PodOnly == {"pod"}
NoCrash == {}
NoOption == <<>>
ThreeInodes == {i1, i2, i3}
OneOption == <<"mode">>

\* Ids, goroutines and inodes are interchangeable.
Symmetry ==
  Permutations(Sessions) \cup Permutations(Workers) \cup Permutations(Convos) \cup Permutations(Inodes)

=============================================================================
