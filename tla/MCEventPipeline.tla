--------------------------- MODULE MCEventPipeline ---------------------------
(***************************************************************************)
(* Instances of EventPipeline for TLC.                                     *)
(***************************************************************************)
EXTENDS EventPipeline

\* Every request asks for the same title: the worst case for the UNIQUE
\* constraint.
SameTitle == [e \in CreateEvents |-> "title"]

\* A run with several kinds of requests, one of them at a time: the calls for
\* the others died with an earlier API process.
OneCallInit ==
  /\ \E e \in Events : svc = [x \in Events |-> IF x = e THEN "idle" ELSE "lost"]
  /\ Empty

OneCallSpec ==
  OneCallInit /\ [][Next]_vars /\ WF_vars(ApiStep) /\ OperatorKeepsWorker
=============================================================================
