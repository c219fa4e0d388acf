------------------------------ MODULE MCSlices ------------------------------
(* Instances of Slices for TLC: a unit of input is worth two of output, or half of one. *)
EXTENDS Slices

MCPrices == {<<2, 1>>, <<1, 2>>}

=============================================================================
