--------------------------- MODULE MCCoordination ---------------------------
(* Small instances of the components of Coordination. *)
EXTENDS Coordination

\* Three files in walk order, out of it, and two of them equal.
ThreeFiles == {<<1, 2, 3>>, <<2, 3, 1>>, <<2, 1, 1>>}
=============================================================================
