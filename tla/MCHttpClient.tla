---------------------------- MODULE MCHttpClient ----------------------------
(* Instances of HttpClient for TLC.                                        *)
EXTENDS HttpClient

(* Everything can go wrong at once.                                        *)
EnvHostile == Behaviours

(* A script that uses the object outside onConnect and waits for it, a     *)
(* system whose calls succeed, and a server that only answers.             *)
EnvPolite == {"untilClose"}
=============================================================================
