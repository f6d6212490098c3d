--------------------------- MODULE PropertiesFile ---------------------------
(***************************************************************************)
(* The text of a configuration file in the format of Java's properties:    *)
(* what writePropertiesWithTimestamp makes of a map, and what              *)
(* parseProperties makes of a text (internal/config/properties.go).        *)
(*                                                                         *)
(* A text is a sequence of characters, one for each way they are treated:  *)
(* "nl" stands for the control characters that have a letter as escape,    *)
(* "wide" for those that are written \uXXXX, "00e9" for the four digits of *)
(* that escape, "=" and "#" for the signs of their sort, "blank" for       *)
(* blanks.                                                                 *)
(***************************************************************************)
EXTENDS Integers, SequencesExt, FiniteSetsExt, TLC

Letter == {"k", "v", "n", "u", "00e9"}
Char == Letter \cup {"\\", "blank", "=", "#", "nl", "wide"}
Text == Seq(Char)

-----------------------------------------------------------------------------
EscapeOf(c, blankToo) ==
  CASE c = "nl" -> <<"\\", "n">>
    [] c = "wide" -> <<"\\", "u", "00e9">>
    [] c \in {"\\", "=", "#"} \/ (c = "blank" /\ blankToo) -> <<"\\", c>>
    [] OTHER -> <<c>>

\* Mutant: no difference is made between keys and values.
EscapedAsValue(s, isKey) == FlattenSeq([i \in DOMAIN s |-> EscapeOf(s[i], i = 1)])

\* A blank in a value is escaped when it is the first character.
Escaped(s, isKey) == FlattenSeq([i \in DOMAIN s |-> EscapeOf(s[i], isKey \/ i = 1)])

LineOf(k, v) == Escaped(k, TRUE) \o <<"=">> \o Escaped(v, FALSE) \o <<"nl">>

\* Two comments, then a line for each key, whose order does not matter here.
PropertiesText(props) ==
  LET add(k, text) == text \o LineOf(k, props[k])
  IN  FoldSet(add, <<"#", "v", "nl", "#", "v", "nl">>, DOMAIN props)

-----------------------------------------------------------------------------
\* A loop of the parser: so many turns of step, from the state first.
Loop(step, first, turns) ==
  LET after[n \in Nat] == IF n = 0 THEN first ELSE step[after[n - 1]]
  IN  after[turns]

\* The place of the first character from i on that is no blank.
NotBlank(s, i) ==
  CHOOSE j \in i .. Len(s) + 1 :
    (j <= Len(s) => s[j] # "blank") /\ \A h \in i .. j - 1 : s[h] = "blank"

\* The place of the end of the line that begins at i.
LineEnd(s, i) ==
  CHOOSE j \in i .. Len(s) + 1 :
    (j <= Len(s) => s[j] = "nl") /\ \A h \in i .. j - 1 : s[h] # "nl"

From(s, i) == SubSeq(s, i, Len(s))

\* Whether an odd number of backslashes ends the line.
Continued(line) ==
  \E n \in 0 .. Len(line) :
    /\ n % 2 = 1 /\ \A j \in Len(line) - n + 1 .. Len(line) : line[j] = "\\"
    /\ n < Len(line) => line[Len(line) - n] # "\\"

\* A continued line loses its last backslash, and the blanks at the head of the
\* next one go, comments not excepted.
NextLine(text) ==
  [l \in [at : Nat \ {0}, open : Text, done : Seq(Text)] |->
     LET end == LineEnd(text, l.at)
         raw == SubSeq(text, l.at, end - 1)
         line == IF l.open = <<>> THEN raw ELSE From(raw, NotBlank(raw, 1))
     IN  CASE l.at > Len(text) + 1 -> l
           [] l.at <= Len(text) + 1 /\ Continued(line) ->
                [l EXCEPT !.at = end + 1, !.open = @ \o Front(line)]
           [] OTHER -> [at |-> end + 1, open |-> <<>>, done |-> Append(l.done, l.open \o line)]]

LogicalLines(text) ==
  LET end == Loop(NextLine(text), [at |-> 1, open |-> <<>>, done |-> <<>>], Len(text) + 1)
  IN  IF end.open = <<>> THEN end.done ELSE Append(end.done, end.open)

NextUnescaped(s) ==
  [l \in [at : Nat \ {0}, out : Text] |->
     LET is(i, c) == l.at + i <= Len(s) /\ s[l.at + i] = c
         give(n, text) == [at |-> l.at + n, out |-> l.out \o text]
     IN  CASE l.at > Len(s) -> l
           [] l.at = Len(s) \/ (l.at < Len(s) /\ s[l.at] # "\\") -> give(1, <<s[l.at]>>)
           [] l.at < Len(s) /\ is(0, "\\") /\ is(1, "n") -> give(2, <<"nl">>)
           [] l.at < Len(s) /\ is(0, "\\") /\ is(1, "u") /\ is(2, "00e9") -> give(3, <<"wide">>)
           [] l.at < Len(s) /\ is(0, "\\") /\ is(1, "u") /\ ~is(2, "00e9") -> give(2, <<"\\", "u">>)
           [] OTHER -> give(2, <<s[l.at + 1]>>)]

Unescaped(s) == Loop(NextUnescaped(s), [at |-> 1, out |-> <<>>], Len(s)).out

\* Where the key that begins at i ends: at a separator that is not escaped.
KeyEnd(s, i) ==
  LET ends == {j \in i .. Len(s) : s[j] \in {"=", "blank"} /\ ~Continued(SubSeq(s, i, j - 1))}
  IN  Min(ends \cup {Len(s) + 1})

\* After a blank no other separator is looked for.
ValueStart(s, end) ==
  IF end > Len(s) THEN end ELSE NotBlank(s, IF s[end] = "=" THEN end + 1 ELSE end)

Skipped(s) == LET start == NotBlank(s, 1) IN start > Len(s) \/ s[start] = "#"
KeyOf(s) == LET start == NotBlank(s, 1) IN Unescaped(SubSeq(s, start, KeyEnd(s, start) - 1))
ValueOf(s) == Unescaped(From(s, ValueStart(s, KeyEnd(s, NotBlank(s, 1)))))

\* The last line of a key counts.
ReadProperties(text) ==
  LET lines == LogicalLines(text)
      entries == {i \in DOMAIN lines : ~Skipped(lines[i])}
  IN  [k \in {KeyOf(lines[i]) : i \in entries} |->
         ValueOf(lines[Max({i \in entries : KeyOf(lines[i]) = k})])]
=============================================================================
