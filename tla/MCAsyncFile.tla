---------------------------- MODULE MCAsyncFile ----------------------------
(* Instances of AsyncFile for TLC.                                         *)
EXTENDS AsyncFile, TLC

CONSTANTS f1, f2

(* Everything can go wrong at once.                                        *)
EnvHostile == Behaviours

(* Calls succeed, and the callbacks of writes return false.                *)
EnvPolite == {}

AllCalls == Functions

WriteOnly == {"write"}

OffsetsDefault == {0, 1}

OffsetsNone == {-1}

FileSymmetry == Permutations(Files)
=============================================================================
