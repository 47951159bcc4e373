---- MODULE MCFileSet ----
(* Names of every kind splitFiles tells apart, and limits that are met.     *)
EXTENDS FileSet

MCNames ==
    {<<"prog.go">>, <<"go.mod">>, <<"a">>, <<"a", "b.go">>,
     <<"..", "x">>, <<"a", "..", "x">>, <<"a", "">>, <<"", "x">>, <<".">>,
     <<"a", "bogus">>, <<"a", "a", "x">>}
MCGoParts == {"prog.go", "b.go"}
MCBogusParts == {"bogus"}

====
