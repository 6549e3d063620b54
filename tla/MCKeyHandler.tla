---------------------------- MODULE MCKeyHandler ----------------------------
(* Callers and key ids as model values.                                    *)
EXTENDS KeyHandler

CONSTANTS c1, c2, k1

\* Expired on arrival, and good for one second.
MCMaxAges == {-1, 1}

TwoCallers == {c1, c2}
OneKey == {k1}
=============================================================================
