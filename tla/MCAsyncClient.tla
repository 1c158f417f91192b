--------------------------- MODULE MCAsyncClient ----------------------------
(* An instance of AsyncClient for TLC.                                     *)
EXTENDS AsyncClient

(* Everything can go wrong at once.                                        *)
EnvHostile == Behaviours
=============================================================================
