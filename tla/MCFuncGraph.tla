---------------------------- MODULE MCFuncGraph ----------------------------
(***************************************************************************)
(* FuncGraph for TLC: a producer, a consumer and up to two wrappers.  The  *)
(* declared Funcs are interchangeable, and so are the wrappers.            *)
(***************************************************************************)
EXTENDS FuncGraph, TLC

CONSTANTS f1, g1, w1, w2, global

TwoFuncs == {f1, g1}
TwoWrappers == {w1, w2}

Symmetry == Permutations(Funcs)
=============================================================================
