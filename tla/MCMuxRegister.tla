--------------------------- MODULE MCMuxRegister ---------------------------
(* Three backends, two of which use the same id; lists with the version of *)
(* the library first, second, and not at all.                              *)
EXTENDS MuxRegister

Ids == [p \in Proc |-> IF p = "c" THEN 0 ELSE 1]
Lists == {<< >>, << 3 >>, << 2, 3 >>, << 2 >>}
=============================================================================
