------------------------------ MODULE FolderMC ------------------------------
(* Values of the constants of FolderTree for the model checker. *)
EXTENDS FolderTree
CONSTANTS f1, f2, f3, a, b, odd, q1, q2
TwoIds == {f1, f2}
ThreeIds == {f1, f2, f3}
OneName == {a}
TwoNames == {a, b}
ThreeNames == {a, b, odd}
OneOrTwo == {{a, b}, {a, odd}}
JustOne == {{a}}
OneRequest == {q1}
TwoRequests == {q1, q2}
=============================================================================
