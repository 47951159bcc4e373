---- MODULE MCFrontend ----
(* Frontend for TLC: the kinds of requests that clients make.  They are     *)
(* every way through the handlers and every way to ask for one program.     *)
EXTENDS Frontend

CONSTANTS b1, b2

Ask(cmd, vet, body) == [cmd |-> cmd, vet |-> vet, body |-> body]

MCAsks == {Ask("compile", FALSE, b1), Ask("compile", TRUE, b1),
           Ask("vet", FALSE, b1), Ask("health", FALSE, b2)}
====
