------------------------------ MODULE Excerpts ------------------------------
(***************************************************************************)
(* How much of a text a tool answers: the window of lines of file_read     *)
(* (readText), which a client moves through the file page by page, the     *)
(* first lines of a grep (head_limit), and the two ends of a long output   *)
(* (truncateOutput), which every command goes through, grep included.      *)
(*                                                                         *)
(* Offsets and limits are Go ints, they come from the client and are not   *)
(* checked; a slice whose bounds are out of order panics.  Output is       *)
(* measured in lines here, where truncateOutput counts bytes, and the note *)
(* that it puts in place of the middle is one line.                        *)
(***************************************************************************)
EXTENDS Integers, Sequences, FiniteSetsExt

CONSTANTS
    Line,              \* lines of a text
    Empty,             \* the line after the last newline of a text
    Asked,             \* the offsets and limits that clients send; 0 when omitted
    DefaultLimit,      \* 2000 lines of a file
    DefaultHeadLimit,  \* 200 lines of a grep
    MaxOutput,         \* maxOutputBytes
    MaxInt,            \* the largest int
    MaxLines           \* bound: how long texts grow

ASSUME ExcerptsAssumption ==
    /\ Empty \in Line
    /\ MaxInt \in Nat /\ Asked \subseteq - MaxInt - 1 .. MaxInt
    /\ DefaultLimit \in Nat \ {0} /\ DefaultHeadLimit \in Nat \ {0}
    /\ MaxOutput \in Nat /\ MaxOutput % 2 = 0
    /\ MaxLines \in Nat \ {0} /\ MaxLines + DefaultLimit <= MaxInt /\ 2 * MaxLines <= MaxInt
    /\ \A n \in 1 .. MaxLines : [omitted |-> n] \notin Line

VARIABLES
    lines,     \* the file, or the output of the command, as strings.Split gives it
    tool,      \* what the client calls
    offset,    \* its offset,
    limit,     \* and its limit or head_limit
    shown,     \* the lines it was answered so far
    end,       \* where its last page ended
    reader,    \* "idle", or how the last answer ended
    original   \* history: the text when it was last read

call         == <<tool, offset, limit>>
excerptsVars == <<lines, tool, offset, limit, shown, end, reader, original>>

-----------------------------------------------------------------------------
\* The sum i of two ints as an int.
Wrapped(i) == ((i + MaxInt + 1) % (2 * (MaxInt + 1))) - MaxInt - 1

Least(i, j) == Min({i, j})

\* cmp.Or
Or(i, default) == IF i = 0 THEN default ELSE i

\* Mutant: the offset is bounded by the number of lines after the end is computed.
LateWindow(from, most, total) ==
    [from |-> from, to |-> Least(Wrapped(from + Or(most, DefaultLimit)), total)]

(* The lines that readText takes of a file of that many lines.             *)
Window(from, most, total) ==
    LET first == Least(from, total)
    IN  [from |-> first, to |-> Least(Wrapped(first + Or(most, DefaultLimit)), total)]

\* lines[from:to] does not panic.
InOrder(window) == 0 <= window.from /\ window.from <= window.to

Omitted(n) == [omitted |-> n]

\* Mutant: what one half of the limit leaves is said to be omitted.
TruncatedByHalf(text) ==
    LET half == MaxOutput \div 2
        n    == Len(text)
    IN  IF n <= MaxOutput THEN text
        ELSE SubSeq(text, 1, half) \o <<Omitted(n - half)>> \o SubSeq(text, n - half + 1, n)

(* truncateOutput                                                          *)
Truncated(text) ==
    LET half == MaxOutput \div 2
        n    == Len(text)
    IN  IF n <= MaxOutput THEN text
        ELSE SubSeq(text, 1, half) \o <<Omitted(n - MaxOutput)>> \o SubSeq(text, n - half + 1, n)

-----------------------------------------------------------------------------
ExcerptsInit ==
    /\ lines \in {<<l>> : l \in Line}
    /\ tool = "none" /\ offset = 0 /\ limit = 0
    /\ shown = <<>> /\ end = 0 /\ reader = "idle"
    /\ original = lines

(* Another command appends to the text: the last line goes on, and others  *)
(* may follow.                                                             *)
AppendLines(more) ==
    /\ Len(lines) - 1 + Len(more) <= MaxLines
    /\ lines' = SubSeq(lines, 1, Len(lines) - 1) \o more
    /\ UNCHANGED <<call, shown, end, reader, original>>

\* Mutant: no note when only the last line is left.
PageButLast(from, most, before) ==
    LET window == Window(from, most, Len(lines)) IN
    /\ original' = lines
    /\ \/ /\ InOrder(window)
          /\ shown' = before \o SubSeq(lines, window.from + 1, window.to)
          /\ end' = window.to
          /\ reader' = IF Len(lines) > window.to + 1 THEN "more" ELSE "done"
       \/ ~ InOrder(window) /\ reader' = "panic" /\ UNCHANGED <<shown, end>>
    /\ UNCHANGED lines

\* The page of the file that begins at line `from', added to the answers `before' it.
Page(from, most, before) ==
    LET window == Window(from, most, Len(lines)) IN
    /\ original' = lines
    /\ \/ /\ InOrder(window)
          /\ shown' = before \o SubSeq(lines, window.from + 1, window.to)
          /\ end' = window.to
          /\ reader' = IF Len(lines) > window.to THEN "more" ELSE "done"
       \/ ~ InOrder(window) /\ reader' = "panic" /\ UNCHANGED <<shown, end>>
    /\ UNCHANGED lines

(* readText                                                                *)
ReadText(from, most) ==
    /\ reader = "idle"
    /\ tool' = "file_read" /\ offset' = from /\ limit' = most
    /\ Page(from, most, <<>>)

(* readText once more: "Use offset/limit to read more."                    *)
ReadMore ==
    /\ reader = "more" /\ tool = "file_read"
    /\ Page(end, limit, shown)
    /\ UNCHANGED call

\* A command ends with this answer, cut short or not.
AnswerOutput(name, most, answer, ending) ==
    /\ reader = "idle"
    /\ tool' = name /\ offset' = 0 /\ limit' = most
    /\ shown' = answer /\ end' = Len(answer)
    /\ reader' = ending
    /\ original' = lines
    /\ UNCHANGED lines

(* runCommand for bash: its output as it is answered.                      *)
Bash == AnswerOutput("bash", 0, Truncated(lines), "done")

(* Grep, from the output of its command on.                                *)
Grep(most) ==
    LET output == Truncated(lines)
        head   == Or(most, DefaultHeadLimit)
    IN  \/ /\ output = <<Empty>> \/ Len(output) <= head
           /\ AnswerOutput("grep", most, output, "done")
        \/ /\ output # <<Empty>> /\ Len(output) > head
           /\ \/ head >= 0 /\ AnswerOutput("grep", most, SubSeq(output, 1, head), "cut")
              \/ head < 0 /\ AnswerOutput("grep", most, <<>>, "panic")

ExcerptsNext ==
    \/ \E l \in Line : AppendLines(<<l>>) \/ \E m \in Line : AppendLines(<<l, m>>)
    \/ \E from, most \in Asked : ReadText(from, most)
    \/ \E most \in Asked : Grep(most)
    \/ ReadMore
    \/ Bash

ExcerptsSpec == ExcerptsInit /\ [][ExcerptsNext]_excerptsVars

-----------------------------------------------------------------------------
(* No offset past the end of a file, and no limit past it, is a fault: a   *)
(* slice panics only when the client sent a negative number, or numbers    *)
(* whose sum is no int.                                                    *)
PanicsHaveACause ==
    reader = "panic" => offset < 0 \/ limit < 0 \/ offset + limit > MaxInt

(* A client that asks for page after page, as the note under a page tells  *)
(* it to, has at every page what one long read at that moment would have   *)
(* shown, no line missing or repeated, although the file grows meanwhile;  *)
(* and the page without a note is the one that reaches the end.            *)
PagesCoverFile ==
    tool = "file_read" /\ reader \in {"more", "done"} =>
        /\ shown = SubSeq(original, offset + 1, end)
        /\ reader = "done" <=> end = Len(original)

(* The answer of a command is its output, with an omission exactly where   *)
(* one is noted and of the length that is noted, and the end of it is left *)
(* out only where grep says so.                                            *)
OmissionsAreTold ==
    tool \in {"bash", "grep"} /\ reader \in {"cut", "done"} =>
        LET notes == {i \in DOMAIN shown : shown[i] \notin Line}
            skipped(i) == SumSet({shown[j].omitted - 1 : j \in {k \in notes : k < i}})
        IN  /\ \A i \in DOMAIN shown \ notes :
                  i + skipped(i) \in DOMAIN original /\ shown[i] = original[i + skipped(i)]
            /\ reader = "done" => Len(shown) + skipped(Len(shown) + 1) = Len(original)
=============================================================================
