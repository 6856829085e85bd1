---------------------------- MODULE MCTaskCache ----------------------------
(* Instances of TaskCache for TLC: one request at a time in one process, or *)
(* two at a time, in one process or in the API and the worker.              *)
EXTENDS TaskCache

CONSTANTS c1, c2, api, worker

OneClient  == {c1}
TwoClients == {c1, c2}
ApiOnly    == {api}
Both       == {api, worker}

OneAtApi   == [c \in OneClient |-> api]
ApiAndWorker == [c \in TwoClients |-> IF c = c1 THEN api ELSE worker]

AllButDeleteAll == [c \in OneClient |-> (Reads \cup Writes) \ {"deleteAll"}]
(* The worker runs queued writes only. *)
OpsByProcess    ==
  [c \in TwoClients |->
     IF c = c1 THEN Reads \cup Writes ELSE {"createOne", "updateOne", "deleteOne"}]
=============================================================================
