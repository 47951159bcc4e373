---- MODULE MCStartContainer ----
(* StartContainer for TLC, with a start message of two symbols.            *)
EXTENDS StartContainer

MCHeader == <<"g", "o">>
====
