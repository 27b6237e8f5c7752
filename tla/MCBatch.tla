------------------------------ MODULE MCBatch ------------------------------
(***************************************************************************)
(* Batch with two sections, and the text that LineProto makes of a batch   *)
(* for every choice of two awkward names.                                  *)
(***************************************************************************)
EXTENDS Batch, LineProto

MCAlphabet == <<"\n", " ", "\"", ",", "=", "\\", "a">>

\* Names of one character, and of two with a backslash among them.  A newline in a name is left out: the space
\* that is written for it is a delimiter, see the README.
Letter == {MCAlphabet[i] : i \in 2 .. Len(MCAlphabet)}
Word == {<<>>} \union {<<c>> : c \in Letter}
            \union {<<c, "\\">> : c \in Letter} \union {<<"\\", c>> : c \in Letter}

Value(kind, text) == [kind |-> kind, text |-> text]
Base == <<[key |-> <<"a">>, value |-> <<"=", " ">>], [key |-> <<" ">>, value |-> <<"a">>]>>

\* One point of each section: every name next to every other one, a tag that
\* replaces a base tag, values of all kinds.
PointOf(s, x, y) ==
    CASE s = "cpu" ->
            [measurement |-> x,
             tags   |-> <<[key |-> y, value |-> x], [key |-> <<"a">>, value |-> y]>>,
             fields |-> <<[key |-> y, value |-> Value("uint", <<"1">>)],
                          [key |-> x, value |-> Value("bool", <<"T">>)]>>,
             time   |-> <<"1">>]
      [] s = "host" ->
            [measurement |-> <<"a">>,
             tags   |-> <<>>,
             fields |-> <<[key |-> y, value |-> Value("nan", <<"1">>)],
                          [key |-> x, value |-> Value("huge", <<"1">>)]>>,
             time   |-> <<>>]
      [] s = "agent" ->
            [measurement |-> y,
             tags   |-> <<>>,
             fields |-> <<[key |-> <<"a">>, value |-> Value("string", x \o <<"\n">> \o y)],
                          [key |-> <<"=">>, value |-> Value("int", <<"1">>)]>>,
             time   |-> <<"1">>]

Points(b, x, y) ==
    LET present == SelectSeq(<<"cpu", "host", "agent">>, LAMBDA s : s \in b)
    IN [i \in DOMAIN present |-> PointOf(present[i], x, y)]

\* Whether a batch is read back, whatever the names.
Verdicts ==
    {<<b, \A x \in Word, y \in Word : ReadsBack(Base, Points(b, x, y))>> :
        b \in SUBSET (Section \union {"agent"})}

\* The text of every batch can be read back (lineproto.go): whatever the names and
\* the texts in it, the reader finds the points that were collected, and as many
\* as the summary counts.
BatchReadsBack == <<batch, TRUE>> \in Verdicts
=============================================================================
