----------------------------- MODULE MCSession -----------------------------
(***************************************************************************)
(* Instances of Session for TLC.                                           *)
(***************************************************************************)
EXTENDS Session, TLC

CONSTANTS t1, t2

TwoThreads == {t1, t2}
OneThread  == {t1}
ThreadSymmetry == Permutations(TwoThreads)
=============================================================================
