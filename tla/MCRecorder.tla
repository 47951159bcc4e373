---- MODULE MCRecorder ----
(* Recorder for TLC: outputs made of up to three pieces, whole or cut off.  *)
EXTENDS Recorder, TLC

\* Text without a header, and writes whose length is that of their data, less,
\* or more.
MCText == {<<0>>, <<1, 2>>}
MCWrites ==
    {<<Magic, t, n>> \o SubSeq(<<1, 2>>, 1, len) :
        t \in {1, 2}, n \in 0 .. 2, len \in {1, 2}}
MCPieces == {<<>>} \union MCText \union MCWrites

MCCuts(output) == {SubSeq(output, 1, n) : n \in 0 .. Len(output)}
MCStdout ==
    UNION {MCCuts(a \o b \o c) : a \in MCPieces, b \in MCPieces, c \in MCPieces}
MCStderr == {<<>>, <<0, 1>>, <<Magic, 1, 1, 2, Magic, 2, 1, 0, Magic, 1>>,
             <<Magic, 1, 1, 2, Magic, 1, 1, 0, Magic, 2, 2, 1>>}
MCOutputs == [stdout : MCStdout, stderr : MCStderr]
====
