---------------------------- MODULE MCRepository ----------------------------
(* Repository for TLC: three calls at a time, on two tasks at most. *)
EXTENDS Repository, TLC

CONSTANTS c1, c2, c3, t1, t2, s

ThreeClients == {c1, c2, c3}
TwoIds       == {t1, t2}

CallerSymmetry == Permutations(ThreeClients) \cup Permutations(TwoIds)
=============================================================================
