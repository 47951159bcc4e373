---- MODULE FileSet ----
(***************************************************************************)
(* The files of a program (txtar.go): the text a user sends is an archive  *)
(* in which lines "-- name --" start files, and what precedes the first    *)
(* one is an implicit prog.go.  /fmt (fmt.go) takes it apart, formats each *)
(* file and puts it together again; sandboxBuild (sandbox.go:423-466) takes *)
(* it apart to write the files it builds.                                  *)
(*                                                                         *)
(* A line is a record: of a marker line the name, as its parts between     *)
(* slashes; of another line what matters of it: whether it is blank, is    *)
(* formatted, or makes its file one that does not parse, belongs to        *)
(* another package than main, or consists of tests.                        *)
(***************************************************************************)
EXTENDS Naturals, SequencesExt

CONSTANTS
    Names,      \* names in marker lines, sequences of parts
    GoParts,    \* parts that end in ".go"
    BogusParts, \* parts with a bogus rune, or too long
    MaxFiles,   \* limitNumFiles
    MaxDepth,   \* the most parts a name may have
    MaxLines    \* bound: lines the user types

progName == <<"prog.go">>
goMod == "go.mod"

\* Parts of names that are not names of files.
empty == ""
dot == "."
dotDot == ".."

Source(s) == [name |-> <<>>, src |-> s]
Marker(n) == [name |-> n, src |-> "marker"]
Sources == {"blank", "code", "mess", "bad", "other", "test"}
Lines == {Source(s) : s \in Sources} \union {Marker(n) : n \in Names}

ASSUME FileSetAssumption ==
    /\ \A n \in Names : n # <<>> /\ n \in Seq(Range(n))
    /\ MaxFiles \in Nat /\ MaxDepth \in Nat
    /\ "prog.go" \in GoParts /\ goMod \notin GoParts

NoAnswer == [of |-> "none"]
Error == [of |-> "error"]        \* a message for the user
Internal == [of |-> "internal"]  \* the handler fails

VARIABLES
    body,     \* the text in the editor
    answer    \* what /fmt or sandboxBuild made of it

vars == <<body, answer>>

Has(data, s) == \E i \in DOMAIN data : data[i].src = s
Blank(data) == \A i \in DOMAIN data : data[i].src = "blank"

---------------------------------------------------------------------------
(* Archives, paths and formatters: libraries.                              *)

\* txtar.Parse, line by line: the comment, and the files with their lines.
ParseLine(a, l) ==
    IF l.name # <<>>
      THEN [a EXCEPT !.files = Append(@, [name |-> l.name, data |-> <<>>])]
    ELSE IF a.files = <<>> THEN [a EXCEPT !.comment = Append(@, l)]
    ELSE [a EXCEPT !.files[Len(a.files)].data = Append(@, l)]

Parse(text) ==
    LET upTo[i \in 0 .. Len(text)] ==
          IF i = 0 THEN [comment |-> <<>>, files |-> <<>>]
                   ELSE ParseLine(upTo[i - 1], text[i])
    IN  upTo[Len(text)]

\* path.Clean, on the parts of a name: empty parts and "." go, ".." takes the
\* part before it away; a first part that is empty makes the path absolute.
IsAbs(n) == n[1] = empty
CleanPart(n, out, part) ==
    IF part \in {empty, dot} THEN out
    ELSE IF part # dotDot THEN Append(out, part)
    ELSE IF out # <<>> /\ Last(out) # dotDot THEN Front(out)
    ELSE IF IsAbs(n) THEN out ELSE Append(out, dotDot)

Clean(n) ==
    LET upTo[i \in 0 .. Len(n)] ==
          IF i = 0 THEN <<>> ELSE CleanPart(n, upTo[i - 1], n[i])
        parts == upTo[Len(n)]
    IN  IF IsAbs(n) THEN <<empty>> \o parts
        ELSE IF parts = <<>> THEN <<dot>> ELSE parts

\* The formatters have no result for what does not parse; else the same lines,
\* laid out, without blank ones around them.  imports.Process refuses a Go file
\* without a package clause, format.Source leaves a blank one as it is.
Tidy(data) ==
    LET kept == {i \in DOMAIN data : data[i].src # "blank"}
        laidOut(l) == IF l.src = "mess" THEN Source("code") ELSE l
    IN  IF kept = {} THEN <<>>
        ELSE [i \in 1 .. Max(kept) - Min(kept) + 1 |->
                laidOut(data[Min(kept) + i - 1])]
GoFails(data, fixImports) == Has(data, "bad") \/ (fixImports /\ Blank(data))
GoTidy(data) == IF Blank(data) THEN data ELSE Tidy(data)
ModFails(data) == \E s \in Sources \ {"blank", "code", "mess"} : Has(data, s)

---------------------------------------------------------------------------
(* fileSet and splitFiles.                                                 *)

NewFileSet ==
    [ok |-> TRUE, files |-> <<>>, m |-> [n \in {} |-> <<>>], noHeader |-> FALSE]
Refused == [NewFileSet EXCEPT !.ok = FALSE]

Num(fs) == Cardinality(DOMAIN fs.m)
Holds(fs, n) == n \in DOMAIN fs.m

Put(m, n, data) ==
    [k \in DOMAIN m \union {n} |-> IF k = n THEN data ELSE m[k]]

\* Mistake: a file that is there already is listed again.
AddFileTwice(fs, n, data) ==
    [fs EXCEPT !.m = Put(@, n, data), !.files = Append(@, n)]

AddFile(fs, n, data) ==
    [fs EXCEPT !.m = Put(@, n, data),
               !.files = IF Holds(fs, n) THEN @ ELSE Append(@, n)]

\* Mistake: parts ".." are not looked for.
ValidIfClean(n) ==
    /\ \A i \in DOMAIN n : n[i] \notin BogusParts
    /\ n = Clean(n) /\ ~IsAbs(n)
    /\ Len(n) <= MaxDepth

Valid(n) ==
    /\ \A i \in DOMAIN n : n[i] \notin BogusParts
    /\ n = Clean(n) /\ ~IsAbs(n)
    /\ Len(n) <= MaxDepth
    /\ \A i \in DOMAIN n : n[i] \notin {dot, dotDot}

\* The turn of the loop for the file f of the archive.
SplitFile(fs, f) ==
    IF ~fs.ok \/ ~Valid(f.name) \/ Holds(fs, f.name) THEN Refused
    ELSE AddFile(fs, f.name, f.data)

splitFiles(text) ==
    LET a == Parse(text)
        first == IF Blank(a.comment) THEN NewFileSet
                 ELSE AddFile([NewFileSet EXCEPT !.noHeader = TRUE],
                              progName, a.comment)
        upTo[i \in 0 .. Len(a.files)] ==
          IF i = 0 THEN first ELSE SplitFile(upTo[i - 1], a.files[i])
    IN  IF Len(a.files) + Num(first) > MaxFiles
          THEN Refused ELSE upTo[Len(a.files)]

\* fileSet.Format: an implicit prog.go goes first, without a marker.
FileText(fs, i) ==
    IF i = 1 /\ fs.files[i] = progName /\ fs.noHeader THEN <<>>
    ELSE <<Marker(fs.files[i])>> \o fs.m[fs.files[i]]

Format(fs) ==
    LET upTo[i \in 0 .. Len(fs.files)] ==
          IF i = 0 THEN IF fs.noHeader THEN fs.m[progName] ELSE <<>>
          ELSE upTo[i - 1] \o FileText(fs, i)
    IN  upTo[Len(fs.files)]

---------------------------------------------------------------------------
(* handleFmt, as its Body or an Error.                                     *)

\* The turn of the loop for the file n.
FmtFile(fs, n, fixImports) ==
    LET data == fs.m[n] IN
    IF ~fs.ok THEN fs
    ELSE IF Last(n) \in GoParts
      THEN IF GoFails(data, fixImports) THEN Refused ELSE AddFile(fs, n, GoTidy(data))
    ELSE IF Last(n) = goMod
      THEN IF ModFails(data) THEN Refused ELSE AddFile(fs, n, Tidy(data))
    ELSE fs

FmtFiles(split, fixImports) ==
    LET upTo[i \in 0 .. Len(split.files)] ==
          IF i = 0 THEN split
          ELSE FmtFile(upTo[i - 1], split.files[i], fixImports)
    IN  upTo[Len(split.files)]

handleFmt(fixImports) ==
    /\ answer.of = "none"
    /\ LET fs == FmtFiles(splitFiles(body), fixImports)
       IN  answer' = IF fs.ok THEN [of |-> "fmt", body |-> Format(fs)] ELSE Error
    /\ UNCHANGED body

---------------------------------------------------------------------------
(* sandboxBuild, as far as the files are concerned.                        *)

\* A lone prog.go is built by its name, and turned into a program that runs its
\* tests if it has some and no main.
Alone(fs) == Num(fs) = 1 /\ Holds(fs, progName) /\ fs.m[progName] # <<>>
Tests(fs) == Alone(fs) /\ Has(fs.m[progName], "test")

\* The files that are written: go.mod is added if there is none.
Written(fs) == IF Holds(fs, <<goMod>>) THEN fs
               ELSE AddFile(fs, <<goMod>>, <<Source("code")>>)

\* A file outside subdirectories that names another package is refused.
OtherPackage(fs) ==
    \E n \in DOMAIN fs.m : Len(n) = 1 /\ Last(n) # goMod /\ Has(fs.m[n], "other")

\* A file cannot be written where another one needs a directory.
Clash(fs) ==
    \E n, d \in DOMAIN fs.m : n # d /\ Len(d) < Len(n) /\ SubSeq(n, 1, Len(d)) = d

\* The files are written in the order of a map: of two mistakes either is met
\* first.
Builds(fs) ==
    IF ~fs.ok THEN {Error}
    ELSE IF OtherPackage(fs) \/ Clash(fs)
      THEN {a \in {Error, Internal} :
              IF a = Error THEN OtherPackage(fs) ELSE Clash(fs)}
    ELSE {[of |-> "build", files |-> Written(fs), test |-> Tests(fs),
           arg |-> IF Alone(fs) THEN progName ELSE <<".">>]}

sandboxBuild ==
    /\ answer.of = "none"
    /\ answer' \in Builds(splitFiles(body))
    /\ UNCHANGED body

---------------------------------------------------------------------------
(* The user types a line, or takes over what /fmt returned.                *)

Init == body = <<>> /\ answer = NoAnswer

Types(l) ==
    /\ answer.of = "none" /\ Len(body) < MaxLines
    /\ body' = Append(body, l)
    /\ UNCHANGED answer

TakesOver ==
    /\ answer.of # "none"
    /\ body' = IF answer.of = "fmt" THEN answer.body ELSE body
    /\ answer' = NoAnswer

Next == (\E l \in Lines : Types(l)) \/ TakesOver
        \/ (\E fixImports \in BOOLEAN : handleFmt(fixImports)) \/ sandboxBuild

Spec == Init /\ [][Next]_vars

---------------------------------------------------------------------------
(* Properties.                                                             *)

\* The lines of the file whose marker is line i.
FileAt(text, i) ==
    LET ends == {j \in i + 1 .. Len(text) : text[j].name # <<>>} IN
    SubSeq(text, i + 1, IF ends = {} THEN Len(text) ELSE Min(ends) - 1)

\* txtar.go:66-79 in one piece: a text is accepted exactly if every name is a
\* relative path in canonical form, not too deep, without ".." and bogus
\* characters, no name comes twice, prog.go is not both implicit and explicit,
\* and there are not too many files; and then each file holds exactly the lines
\* below its marker, in the order of the markers, and prog.go what is above all.
SplitAsDocumented ==
    LET fs == splitFiles(body)
        marks == {i \in DOMAIN body : body[i].name # <<>>}
        above == SubSeq(body, 1, IF marks = {} THEN Len(body) ELSE Min(marks) - 1)
        implicit == \E i \in DOMAIN above : above[i].src # "blank"
        files == {body[i].name : i \in marks}
                   \union IF implicit THEN {progName} ELSE {}
        number == Cardinality(marks) + IF implicit THEN 1 ELSE 0
        proper(n) == /\ Len(n) <= MaxDepth
                     /\ \A k \in DOMAIN n :
                          n[k] \notin BogusParts \union {empty, dot, dotDot}
    IN  /\ fs.ok <=> /\ \A i \in marks : proper(body[i].name)
                     /\ Cardinality(files) = number /\ number <= MaxFiles
        /\ fs.ok => /\ DOMAIN fs.m = files /\ fs.noHeader = implicit
                    /\ Len(fs.files) = number
                    /\ implicit => fs.m[progName] = above /\ fs.files[1] = progName
                    /\ \A i, j \in marks : i < j =>
                         \E k, l \in DOMAIN fs.files :
                            k < l /\ fs.files[k] = body[i].name
                                 /\ fs.files[l] = body[j].name
                    /\ \A i \in marks : fs.m[body[i].name] = FileAt(body, i)

\* What /fmt returns, which the page puts in place of the program, is the same
\* program: it splits into the same files in the same order, with the same
\* prog.go implicit, each the same but for its layout, and sandboxBuild does the
\* same with it, the built package and the run of tests included (fmt.go:38-72,
\* txtar.go:51-64, sandbox.go:432-459).
FormatKeepsProgram ==
    answer.of = "fmt" =>
      LET old == splitFiles(body)
          new == splitFiles(answer.body)
      IN  /\ new.ok /\ new.files = old.files /\ new.noHeader = old.noHeader
          /\ \A n \in DOMAIN old.m : Tidy(new.m[n]) = Tidy(old.m[n])
          /\ {a.of : a \in Builds(new)} = {a.of : a \in Builds(old)}
          /\ Alone(new) = Alone(old) /\ Tests(new) = Tests(old)

---------------------------------------------------------------------------
(* An inductive invariant: what an answer of /fmt was made from.           *)

IInv ==
    /\ body \in Seq(Lines)
    /\ answer.of = "fmt" =>
         \E fixImports \in BOOLEAN :
            LET fs == FmtFiles(splitFiles(body), fixImports)
            IN  fs.ok /\ answer.body = Format(fs)

====
