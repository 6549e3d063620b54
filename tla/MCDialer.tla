------------------------------ MODULE MCDialer ------------------------------
(* Dialer on two goroutines, with tokens that say nothing and that run out    *)
(* before the certificate does.                                               *)
EXTENDS Dialer

TwoTokens == {0, 1}
=============================================================================
