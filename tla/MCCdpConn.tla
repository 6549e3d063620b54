----------------------------- MODULE MCCdpConn -----------------------------
(* Two goroutines that send commands on one connection.                    *)
EXTENDS CdpConn

CONSTANTS c1, c2

MCCallers == {c1, c2}
=============================================================================
