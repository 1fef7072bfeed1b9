------------------------------ MODULE MCSideBook ------------------------------
(***************************************************************************)
(* A ladder of three slots in words of two bits, with a price below it and *)
(* one above it in the far map.                                            *)
(***************************************************************************)
EXTENDS SideBook

McPrices == {2, 4, 6, 8, 10}
=============================================================================
