------------------------------ MODULE MC_BitVec ------------------------------
(***************************************************************************)
(* BitVec_T for TLC: two objects, three heap addresses, and 2-bit words    *)
(* with STATICBITS 2, so an object of up to two elements uses m_dStatic    *)
(* and a larger one a heap array of several words.  The objects and the    *)
(* addresses are interchangeable: symmetry.                                *)
(***************************************************************************)
EXTENDS BitVec, TLC

Sym == Permutations(Addrs) \cup Permutations(Vecs)
=============================================================================
