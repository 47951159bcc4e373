---- MODULE MCOutputStream ----
(***************************************************************************)
(* OutputStream for TLC.  The header of four symbols repeats its first one *)
(* the way "golang-gvisor-..." does, so that a false start of it can       *)
(* overlap the real one.                                                   *)
(***************************************************************************)
EXTENDS OutputStream

MCHeader == <<"g", "o", "g", "n">>

\* Chunks up to the bound on what is sent.
MCNext ==
    \E k \in 1..(MaxSent - Len(sent)) : \E p \in [1..k -> Alphabet] : Copy(p)

MCSpec == Init /\ [][MCNext]_vars
====
