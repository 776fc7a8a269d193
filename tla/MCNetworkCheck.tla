--------------------------- MODULE MCNetworkCheck ---------------------------
(* Instances of NetworkCheck for TLC.                                      *)
EXTENDS NetworkCheck, TLC

MCChecks == {"c1", "c2"}

\* Either kind of command next to no command and next to the other: what one
\* does to another is to inherit its pipe, and either can.
MCInit == Init /\ <<kind["c1"], kind["c2"]>> \in
              {<<"single", "none">>, <<"pipeline", "none">>, <<"single", "pipeline">>}
MCSpec == MCInit /\ [][Next]_vars /\ Fairness
=============================================================================
