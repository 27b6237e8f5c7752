----------------------------- MODULE LineProto -----------------------------
(***************************************************************************)
(* The text of a batch: the encoder of internal/lineproto/lineproto.go as  *)
(* operators, and a reader of line protocol as the reference.              *)
(*                                                                         *)
(* A text is a sequence of characters.  A value is a record of its kind    *)
(* and the text strconv makes of it: "float", "int", "uint", "huge" (a     *)
(* uint64 above MaxInt64), "bool", "string", "nan" (or infinite), "nil".   *)
(***************************************************************************)
EXTENDS Sequences, SequencesExt, Naturals

CONSTANT Alphabet       \* the characters of all texts, in the order of their codes

Newlines == {"\n", "\r"}

-----------------------------------------------------------------------------
(* The encoder *)

New(base) == [buf |-> <<>>, points |-> 0, base |-> base]
Reset(e) == [e EXCEPT !.buf = <<>>, !.points = 0]

\* Fault: a backslash is taken for a character like any other.
EscapesNoBackslash(class) ==
    CASE class = "measurement" -> {",", " "}
      [] class = "tag" -> {",", " ", "="}
      [] class = "string" -> {"\""}

Escapes(class) ==
    CASE class = "measurement" -> {",", " ", "\\"}
      [] class = "tag" -> {",", " ", "=", "\\"}
      [] class = "string" -> {"\"", "\\"}

\* A newline would end the line and is replaced.
Escaped(char, class) ==
    IF char \in Newlines THEN <<" ">>
    ELSE IF char \in Escapes(class) THEN <<"\\", char>> ELSE <<char>>

writeEscaped(text, class) == FlattenSeq([i \in DOMAIN text |-> Escaped(text[i], class)])

writeValue(v) ==
    CASE v.kind \in {"float", "huge", "bool"} -> v.text
      [] v.kind \in {"int", "uint"} -> v.text \o <<"i">>
      [] v.kind = "string" -> <<"\"">> \o writeEscaped(v.text, "string") \o <<"\"">>

fieldValid(f) == f.key # <<>> /\ f.value.kind \notin {"nan", "nil"}

Code(char) == CHOOSE i \in DOMAIN Alphabet : Alphabet[i] = char
Before(s, t) ==
    \/ Len(s) < Len(t) /\ s = SubSeq(t, 1, Len(s))
    \/ \E i \in DOMAIN s \intersect DOMAIN t :
        SubSeq(s, 1, i - 1) = SubSeq(t, 1, i - 1) /\ Code(s[i]) < Code(t[i])

\* The tags that are written: none is empty, a key is there once, and of two values
\* for it the later one, which is that of the point.
Tags(base, tags) ==
    LET scratch == SelectSeq(base \o tags, LAMBDA t : t.key # <<>> /\ t.value # <<>>)
        last(key) == CHOOSE i \in DOMAIN scratch :
                        /\ scratch[i].key = key
                        /\ \A j \in i + 1 .. Len(scratch) : scratch[j].key # key
        keys == SetToSortSeq({scratch[i].key : i \in DOMAIN scratch}, Before)
    IN [i \in DOMAIN keys |-> scratch[last(keys[i])]]

Pair(key, text) == writeEscaped(key, "tag") \o <<"=">> \o text

TagsText(tags) ==
    FlattenSeq([i \in DOMAIN tags |->
        <<",">> \o Pair(tags[i].key, writeEscaped(tags[i].value, "tag"))])

FieldsText(fields) ==
    FlattenSeq([i \in DOMAIN fields |->
        (IF i > 1 THEN <<",">> ELSE <<>>) \o Pair(fields[i].key, writeValue(fields[i].value))])

\* An empty time is the zero time.
Line(measurement, tags, fields, time) ==
    writeEscaped(measurement, "measurement") \o TagsText(tags)
        \o <<" ">> \o FieldsText(fields)
        \o (IF time = <<>> THEN <<>> ELSE <<" ">> \o time) \o <<"\n">>

Point(e, p) ==
    LET fields == SelectSeq(p.fields, fieldValid)
    IN IF p.measurement = <<>> \/ fields = <<>> THEN e
       ELSE [e EXCEPT !.buf = @ \o Line(p.measurement, Tags(e.base, p.tags), fields, p.time),
                      !.points = @ + 1]

-----------------------------------------------------------------------------
(* The reader.  It collects lines of words of items of parts, each ended by *)
(* its delimiter; parts are made of tokens.  A character after a backslash  *)
(* ("pending") stands for itself, and so does one in a string; a quote      *)
(* opens a string where the value of a field begins.                        *)

\* A token: a raw one is the character, another one only stands for it.
Raw(char) == [char |-> char, raw |-> TRUE]
Literal(char) == [char |-> char, raw |-> FALSE]

Start == [lines |-> <<>>, words |-> <<>>, items |-> <<>>, parts |-> <<>>, text |-> <<>>,
          mode |-> "line", escape |-> "none"]

Takes(s, token) == [s EXCEPT !.text = Append(@, token), !.escape = "none"]

EndPart(s) == [s EXCEPT !.parts = Append(@, s.text), !.text = <<>>]
EndItem(s) == LET e == EndPart(s) IN [e EXCEPT !.items = Append(@, e.parts), !.parts = <<>>]
EndWord(s) == LET e == EndItem(s) IN [e EXCEPT !.words = Append(@, e.items), !.items = <<>>]
EndLine(s) == LET e == EndWord(s) IN [e EXCEPT !.lines = Append(@, e.words), !.words = <<>>]

InMeasurement(s) == s.words = <<>> /\ s.items = <<>>
AtFieldValue(s) == Len(s.words) = 1 /\ Len(s.parts) = 1 /\ s.text = <<>>

Lex(s, char) ==
    IF s.escape = "pending" THEN Takes(s, Literal(char))
    ELSE IF char = "\\" THEN [s EXCEPT !.escape = "pending"]
    ELSE IF s.mode = "string"
         THEN IF char = "\"" THEN [Takes(s, Raw(char)) EXCEPT !.mode = "line"]
              ELSE Takes(s, Literal(char))
    ELSE CASE char = "\"" -> IF AtFieldValue(s) THEN [Takes(s, Raw(char)) EXCEPT !.mode = "string"]
                             ELSE Takes(s, Literal(char))
           [] char = "=" -> IF InMeasurement(s) THEN Takes(s, Raw(char)) ELSE EndPart(s)
           [] char = "," -> EndItem(s)
           [] char = " " -> EndWord(s)
           [] char = "\n" -> EndLine(s)
           [] OTHER -> Takes(s, Raw(char))

Text(tokens) == [i \in DOMAIN tokens |-> tokens[i].char]

ReadValue(tokens) ==
    IF tokens = <<>> THEN [kind |-> "nil", text |-> <<>>]
    ELSE IF Head(tokens) = Raw("\"")
         THEN [kind |-> "string", text |-> Text(SubSeq(tokens, 2, Len(tokens) - 1))]
    ELSE IF Last(tokens) = Raw("i")
         THEN [kind |-> "int", text |-> Text(Front(tokens))]
    ELSE [kind |-> IF Last(tokens).char \in {"T", "F"} THEN "bool" ELSE "float",
          text |-> Text(tokens)]

Malformed == [measurement |-> <<>>, tags |-> {}, fields |-> <<>>, time |-> <<>>]

ReadLine(words) ==
    LET head   == words[1]
        fields == words[2]
    IN IF \/ Len(words) \notin {2, 3}
          \/ Len(head[1]) # 1 \/ \E i \in 2 .. Len(head) : Len(head[i]) # 2
          \/ \E i \in DOMAIN fields : Len(fields[i]) # 2
          \/ \E i \in 3 .. Len(words) : Len(words[i]) # 1 \/ Len(words[i][1]) # 1
       THEN Malformed
       ELSE [measurement |-> Text(head[1][1]),
             tags        |-> {<<Text(head[i][1]), Text(head[i][2])>> : i \in 2 .. Len(head)},
             fields      |-> [i \in DOMAIN fields |-> <<Text(fields[i][1]), ReadValue(fields[i][2])>>],
             time        |-> IF Len(words) = 3 THEN Text(words[3][1][1]) ELSE <<>>]

Read(text) ==
    LET lines == FoldLeft(Lex, Start, text).lines
    IN [i \in DOMAIN lines |-> ReadLine(lines[i])]

-----------------------------------------------------------------------------
(* What the reader should find *)

Meant(v) ==
    CASE v.kind = "uint" -> [v EXCEPT !.kind = "int"]
      [] v.kind = "huge" -> [v EXCEPT !.kind = "float"]
      [] v.kind = "string" ->
            [v EXCEPT !.text = [i \in DOMAIN @ |-> IF @[i] \in Newlines THEN " " ELSE @[i]]]
      [] OTHER -> v

Kept(p) == p.measurement # <<>> /\ \E i \in DOMAIN p.fields : fieldValid(p.fields[i])

\* A later tag takes the place of an earlier one, a tag of the point that of a base tag.
Assign(labels, t) ==
    IF t.key = <<>> \/ t.value = <<>> THEN labels
    ELSE [key \in DOMAIN labels \union {t.key} |-> IF key = t.key THEN t.value ELSE labels[key]]

\* A line with these pairs of a tag's key and its value.
MeantLine(measurement, pairs, fields, time) ==
    [measurement |-> measurement,
     tags        |-> pairs,
     fields      |-> [i \in DOMAIN fields |-> <<fields[i].key, Meant(fields[i].value)>>],
     time        |-> time]

MeantPoint(base, p) ==
    LET labels == FoldLeft(Assign, [key \in {} |-> <<>>], base \o p.tags)
    IN MeantLine(p.measurement, {<<key, labels[key]>> : key \in DOMAIN labels},
                 SelectSeq(p.fields, fieldValid), p.time)

Encoded(base, points) ==
    LET after[i \in 0 .. Len(points)] ==
            IF i = 0 THEN New(base) ELSE Point(after[i - 1], points[i])
    IN after[Len(points)]

\* The points of a batch can be read back from its text: no name or value, and none
\* next to it, changes what the other ones mean, and every line is counted.
ReadsBack(base, points) ==
    LET kept == SelectSeq(points, Kept)
        e    == Encoded(base, points)
    IN /\ Read(e.buf) = [i \in DOMAIN kept |-> MeantPoint(base, kept[i])]
       /\ e.points = Len(kept)
=============================================================================
