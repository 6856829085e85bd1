--------------------------- MODULE MCCacheAdapters ---------------------------
(* CacheAdapters for TLC: one key more than the Map has room for. *)
EXTENDS CacheAdapters

CONSTANTS k1, k2, k3, v1, v2

ThreeKeys == {k1, k2, k3}
TwoValues == {v1, v2}
Lives     == {<<>>, <<"seconds", 1>>, <<"milliseconds", 1>>}

KeySymmetry == Permutations(ThreeKeys) \cup Permutations(TwoValues)
=============================================================================
