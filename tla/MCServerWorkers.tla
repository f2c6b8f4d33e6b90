-------------------------- MODULE MCServerWorkers ---------------------------
(* Three writing threads with six tickets, so that each goes round twice;  *)
(* one character, and one row whose task competes with itself; one key and *)
(* two gateways, for the time of a life and a grace.                       *)
EXTENDS ServerWorkers

CONSTANTS t1, t2, t3, k1, g1, g2

MCThreads == {t1, t2, t3}

MCRows == {k1}

MCGateways == {g1, g2}
=============================================================================
