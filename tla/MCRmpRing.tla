------------------------------ MODULE MCRmpRing ------------------------------
(* Small instances of RmpRing: one module with its inductive invariant and *)
(* with the stream it implements.                                          *)
EXTENDS RmpRingInv, RmpRingRefines
==============================================================================
