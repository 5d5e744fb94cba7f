---------------------------- MODULE MCParallelFor ----------------------------
(* Model-checking instances of ParallelFor. *)
EXTENDS ParallelFor, TLC

(* All helpers are extra threads, all are the client's, or both come. *)
AllSetups ==
  LET some == {CHOOSE h \in Helpers : TRUE}
  IN  {[extra |-> Helpers, provider |-> "internal"], [extra |-> {}, provider |-> "external"],
       [extra |-> some, provider |-> "external"]}

ClientSetup == {[extra |-> {}, provider |-> "external"]}
==============================================================================
