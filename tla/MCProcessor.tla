----------------------------- MODULE MCProcessor -----------------------------
(* The events are interchangeable: where one is blocked from the start, it   *)
(* may be any one of them.                                                   *)
EXTENDS Processor

MCInit ==
    Init /\ \A k \in DOMAIN published : published[k] = CHOOSE e \in Events : TRUE

MCSpec == MCInit /\ [][Next]_vars /\ Fairness
=============================================================================
