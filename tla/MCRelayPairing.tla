--------------------------- MODULE MCRelayPairing ----------------------------
(* RelayPairing on a small instance: two grants, one of which expires before *)
(* the other, and enough connections to park twice under one of them; all of *)
(* them come from one address, which the sockets have in its mapped form.    *)
EXTENDS RelayPairing

CONSTANTS conn1, conn2, conn3, grant1, grant2, plain, mapped

MCExpiry == [x \in Grants |-> IF x = grant1 THEN 2 ELSE 1]
MCRawIp == [c \in Conns |-> mapped]
MCV4Ip == [c \in Conns |-> plain]
=============================================================================
