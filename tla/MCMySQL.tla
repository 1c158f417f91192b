------------------------------ MODULE MCMySQL ------------------------------
(* Instances of MySQL for TLC.                                             *)
EXTENDS MySQL

(* Everything can go wrong at once.                                        *)
EnvHostile == Behaviours

(* A server that may refuse, by any of its ways to authenticate.           *)
EnvRefusing == {"sha2", "refuses"}

(* Servers that close, and a script that connects again.                   *)
EnvReconnecting == {"peerCloses", "reconnects"}
=============================================================================
