------------------------------ MODULE MC_VfsIO ------------------------------
(* Two opens of one file of at most three bytes.                           *)
EXTENDS VfsIO, TLC

CONSTANTS o1, o2

MCOpens == {o1, o2}

(* The two opens are interchangeable.                                      *)
MCSymmetry == Permutations(MCOpens)
=============================================================================
