---------------------------- MODULE MCMonitoring ----------------------------
(* Values for the constants of Monitoring that a .cfg cannot write.         *)
EXTENDS Monitoring

CONSTANTS v1, v2

Report(x, b, c) == [xrayUp |-> x, blocked |-> b, cpuHigh |-> c, memHigh |-> FALSE]

\* Healthy; two targets blocked, which alone scores 70; and a score below 60:
\* one on each side of every threshold.
KeyReports == {Report(TRUE, 0, FALSE), Report(TRUE, 2, FALSE), Report(FALSE, 0, TRUE)}

\* A migration does not tell a score below 60 from one above.
BlockedOrNot == {Report(TRUE, 0, FALSE), Report(TRUE, 2, FALSE)}

\* The reserve takes one of two clients.
SmallReserve == [v \in Servers |-> IF v = v1 THEN 2 ELSE 1]
=============================================================================
