---------------------------- MODULE MCTaskQueue ----------------------------
(* Instances of TaskQueue for TLC: two writes of different keys, or one     *)
(* update, the key that can also end in FAILED by itself.                   *)
EXTENDS TaskQueue, TLC

CONSTANTS m1, m2, s1, s2

TwoMsgs   == {m1, m2}
TwoKinds  == m1 :> "update" @@ m2 :> "delete"
OneMsg    == {m1}
OneKind   == m1 :> "update"
TwoSlots  == {s1, s2}

SlotSymmetry == Permutations(TwoSlots)
=============================================================================
