--------------------------- MODULE MCServerChannel ---------------------------
(* Instances of ServerChannel for TLC. *)
EXTENDS ServerChannel, TLC

CONSTANTS c1, c2, c3, I, R

MCTypes   == {I, R}
TwoConn   == {c1, c2}
ThreeConn == {c1, c2, c3}

OneFd    == {6}
TwoFds   == {6, 7}
ThreeFds == {6, 7, 8}

(* Single packets; a read that yields nothing. *)
Singles  == {<<I>>, <<R>>}
Unheeded == {<< >>, <<I>>}
(* Packets on both sides of the INIT in one read. *)
Mixed == {<< >>, <<I>>, <<R, I, R>>}

ConnSymmetry == Permutations(Conn)
=============================================================================
