---- MODULE OutputStream ----
(***************************************************************************)
(* The standard output of one container: os/exec copies what the process   *)
(* writes, in chunks of any size, into a switchWriter over the pipe to the *)
(* header reader and a limitedWriter (sandbox/sandbox.go:469-472), and     *)
(* stops copying when a write fails.                                       *)
(***************************************************************************)
EXTENDS Writers

CONSTANTS
    Alphabet,   \* the symbols a process writes
    Cap,        \* n of the new limitedWriter
    MaxSent     \* bound: symbols written in a behaviour

ASSUME StreamAssumption == Cap \in Nat \ {0} /\ MaxSent \in Nat

VARIABLES
    sent,      \* history: everything passed to switchWriter.Write
    sw,        \* the switchWriter
    toPipe,    \* what dst1 (the pipe) was given
    toStdout,  \* history: what dst2 (the limitedWriter) was given
    stdout,    \* the limitedWriter
    copying    \* os/exec's copying goroutine has not failed

vars == <<sent, sw, toPipe, toStdout, stdout, copying>>

TypeOK ==
    /\ sent \in Seq(Alphabet)
    /\ sw \in [buf : Seq(Alphabet), found : BOOLEAN]
    /\ Len(sw.buf) < Len(Header)   \* it does not grow with the output
    /\ toPipe \in Seq(Alphabet)
    /\ toStdout \in Seq(Alphabet)
    /\ stdout \in [dst : Seq(Alphabet), n : Int]
    /\ copying \in BOOLEAN

Init ==
    /\ sent = <<>>
    /\ sw = NewSwitch
    /\ toPipe = <<>>
    /\ toStdout = <<>>
    /\ stdout = NewLimited(Cap)
    /\ copying = TRUE

\* The copying goroutine hands over a chunk.
Copy(p) ==
    /\ copying
    /\ Len(p) > 0
    /\ sent' = sent \o p
    /\ sw' = SwitchWrite(sw, p)
    /\ toPipe' = toPipe \o ToFirst(sw, p)
    /\ toStdout' = toStdout \o ToSecond(sw, p)
    /\ IF WritesSecond(sw, p)
         THEN /\ stdout' = LimitedWrite(stdout, ToSecond(sw, p))
              /\ copying' = ~LimitedFails(stdout, ToSecond(sw, p))
         ELSE UNCHANGED <<stdout, copying>>

Next == \E p \in Seq(Alphabet) : Copy(p)

Spec == Init /\ [][Next]_vars

---------------------------------------------------------------------------
(* Properties.                                                             *)

\* However the output is cut into chunks, the header reader is given exactly
\* what precedes the end of the first header, or everything while there has
\* been none, and the container's stdout exactly the rest: a header split
\* over two writes is found, and none of it leaks (sandbox.go:684-702).
SplitAtHeader ==
    IF Occurs(Header, sent)
      THEN LET e == EndOfFirst(Header, sent)
           IN  /\ toPipe = SubSeq(sent, 1, e)
               /\ toStdout = SubSeq(sent, e + 1, Len(sent))
      ELSE toPipe = sent /\ toStdout = <<>>

\* limitedWriter holds the first Cap bytes it was given, none skipped and
\* none twice, however the writes straddle the limit (sandbox.go:655-667).
KeepsFirst == stdout.dst = Longest(toStdout, Cap)

\* A negative n is exactly how runHandler learns that output is missing
\* (sandbox.go:626): n < 0 if and only if a byte was dropped, and then copying
\* has stopped with an error, so that cmd.Wait cannot report success.
LossIsSeen ==
    /\ stdout.n < 0 <=> stdout.dst # toStdout
    /\ stdout.dst # toStdout => ~copying
====
