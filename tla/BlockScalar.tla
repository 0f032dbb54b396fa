----------------------------- MODULE BlockScalar -----------------------------
(***************************************************************************)
(* Block scalars of gconfig_v2/gconfig.go: parseBlockScalarHeader,         *)
(* collectBlockScalar, normalizeBlockLines, renderBlockScalar and          *)
(* applyBlockChomp.                                                        *)
(*                                                                         *)
(* A line is an indentation and a number of characters; the characters of  *)
(* line n are <<n, 1>>, <<n, 2>>, ..., so that a value shows which of them *)
(* it has kept.  A line without characters is blank.                       *)
(***************************************************************************)
EXTENDS Integers, Sequences, SequencesExt, FiniteSetsExt

CONSTANTS BlockParents,   \* indentations of the line with the header
          MaxBlockIndent, \* bound: indentation of a line of text
          MaxBlockLines,  \* bound: lines below the header
          MaxHeaderLength \* bound: characters of the header after the style

VARIABLES bheader,  \* the characters of the header
          bparent,  \* parentIndent
          blines,   \* the lines below it that collectBlockScalar has taken
          bvalue    \* the value once it is rendered, before that Unrendered

blockVars == <<bheader, bparent, blines, bvalue>>

Unrendered == <<<<0, 4>>>>
Refused == <<<<0, 5>>>>

\* The characters of a value that are not text.
Space == <<0, 1>>
FoldSpace == <<0, 2>>   \* the space that replaces a break
Break == <<0, 3>>

HeaderChars == {"-", "+", "1", "2", "0", "x"}
Digit == [c \in {"1", "2"} |-> IF c = "1" THEN 1 ELSE 2]

-----------------------------------------------------------------------------
(* parseBlockScalarHeader *)

NoHeader == [ok |-> FALSE, chomp |-> "", indicator |-> 0]

HeaderChar(h, c) ==
    CASE ~h.ok                                       -> h
      [] c \in {"-", "+"} /\ h.chomp = ""            -> [h EXCEPT !.chomp = c]
      [] c \in DOMAIN Digit /\ h.indicator = 0       -> [h EXCEPT !.indicator = Digit[c]]
      [] OTHER                                       -> NoHeader

ParseHeader(chars) ==
    FoldLeft(HeaderChar, [ok |-> TRUE, chomp |-> "", indicator |-> 0], Tail(chars))

Header == ParseHeader(bheader)
Folded == Head(bheader) = ">"

-----------------------------------------------------------------------------
(* collectBlockScalar *)

BlockInit ==
    /\ bheader \in {<<style>> \o rest : style \in {"|", ">"},
                                        rest \in SeqOf(HeaderChars, MaxHeaderLength)}
    /\ bparent \in BlockParents
    /\ blines = <<>>
    /\ bvalue = Unrendered

Blank(line) == line.chars = 0

\* A line is taken when it is blank or further in than the header.
TakeLine ==
    /\ bvalue = Unrendered
    /\ Header.ok
    /\ Len(blines) < MaxBlockLines
    /\ \E line \in [indent : 0..MaxBlockIndent, chars : 0..2] :
          /\ Blank(line) => line.indent = 0
          /\ Blank(line) \/ line.indent > bparent
          /\ blines' = Append(blines, line)
    /\ UNCHANGED <<bheader, bparent, bvalue>>

Indents == {blines[n].indent : n \in {n \in DOMAIN blines : ~Blank(blines[n])}}

\* Mutant: the first line of text decides.
MinIndent_First ==
    LET text == {n \in DOMAIN blines : ~Blank(blines[n])}
    IN  IF Header.indicator > 0 THEN bparent + Header.indicator
        ELSE IF text = {} THEN bparent + 1
        ELSE blines[Min(text)].indent

MinIndent ==
    IF Header.indicator > 0 THEN bparent + Header.indicator
    ELSE IF Indents = {} THEN bparent + 1
    ELSE Min(Indents)

\* The line as the characters it has.
Chars(n) == [i \in 1..blines[n].indent |-> Space] \o [c \in 1..blines[n].chars |-> <<n, c>>]

\* normalizeBlockLines
Normalized(n) ==
    IF Blank(blines[n]) THEN <<>>
    ELSE IF Len(Chars(n)) >= MinIndent THEN SubSeq(Chars(n), MinIndent + 1, Len(Chars(n)))
    ELSE SelectSeq(Chars(n), LAMBDA c : c # Space)

-----------------------------------------------------------------------------
(* renderBlockScalar, applyBlockChomp *)

Literal == FoldLeft(LAMBDA v, n : v \o Normalized(n) \o <<Break>>, <<>>,
                    [n \in DOMAIN blines |-> n])

\* A break before a line of text is a space when text came before it.
FoldedLine(acc, n) ==
    IF Normalized(n) = <<>> THEN [value |-> Append(acc.value, Break), prevText |-> FALSE]
    ELSE [value    |-> acc.value \o (IF acc.prevText THEN <<FoldSpace>> ELSE <<>>) \o Normalized(n),
          prevText |-> TRUE]

FoldedValue ==
    Append(FoldLeft(FoldedLine, [value |-> <<>>, prevText |-> FALSE],
                    [n \in DOMAIN blines |-> n]).value, Break)

WithoutBreaks(v) ==
    SubSeq(v, 1, Max({0} \cup {i \in DOMAIN v : v[i] # Break}))

Chomped(v) ==
    CASE Header.chomp = "-" -> WithoutBreaks(v)
      [] Header.chomp = "+" -> v
      [] OTHER              -> IF v = <<>> THEN v ELSE Append(WithoutBreaks(v), Break)

\* The lines end, or the next one is not further in; or the header is refused.
RenderBlock ==
    /\ bvalue = Unrendered
    /\ bvalue' = IF ~Header.ok THEN Refused
                 ELSE IF blines = <<>> THEN <<>>
                 ELSE Chomped(IF Folded THEN FoldedValue ELSE Literal)
    /\ UNCHANGED <<bheader, bparent, blines>>

BlockNext == TakeLine \/ RenderBlock

-----------------------------------------------------------------------------
(* What the value should be *)

Count(x, s) == Cardinality({i \in DOMAIN s : s[i] \in x})

\* The style, then at most one chomping sign and at most one digit from 1 to 9.
WellFormed == /\ ToSet(Tail(bheader)) \subseteq {"-", "+", "1", "2"}
              /\ Count({"-", "+"}, Tail(bheader)) <= 1
              /\ Count({"1", "2"}, Tail(bheader)) <= 1

\* The indentation of the text as a whole: what the indicator says, or that of
\* the least indented line.
TextIndent == IF \E c \in ToSet(Tail(bheader)) : c \in DOMAIN Digit
              THEN bparent + Digit[CHOOSE c \in ToSet(Tail(bheader)) : c \in DOMAIN Digit]
              ELSE Min({blines[n].indent : n \in {n \in DOMAIN blines : ~Blank(blines[n])}})

\* The characters of line n left of the column the indicator asks for; none when
\* the whole line is left of it.
LeftOfColumn(n) == IF blines[n].indent + blines[n].chars < TextIndent THEN 0
          ELSE Max({0, TextIndent - blines[n].indent})

TextChars(n) == IF Blank(blines[n]) THEN <<>>
           ELSE [c \in 1..(blines[n].chars - LeftOfColumn(n)) |-> <<n, LeftOfColumn(n) + c>>]

TextLines == {n \in DOMAIN blines : TextChars(n) # <<>>}

\* The place of the first character of line n in v.
Start(v, n) == CHOOSE i \in DOMAIN v : v[i] = Head(TextChars(n))

\* The spaces just before place i.
SpacesBefore(v, i) == Cardinality({j \in 1..(i - 1) : \A k \in j..(i - 1) : v[k] = Space})

\* The breaks at the end of v.
EndBreaks(v) == Len(v) - Len(WithoutBreaks(v))

\* How many breaks the chomping sign leaves of those at the end.
EndsWith(v, written) ==
    EndBreaks(v) = CASE Header.chomp = "-" -> 0
                     [] Header.chomp = "+" -> written
                     [] OTHER              -> 1

\* A block scalar keeps its text: a header is accepted exactly when it is
\* well-formed, and then every character of every line is in the value, once and
\* in order; a line keeps the indentation it has beyond that of the text as a whole;
\* the literal style keeps every break between lines of text and the folded one
\* turns a single break into a space; and the breaks at the end are none, one or
\* all of them as the chomping sign says.  Where the code keeps less: an indicator
\* that asks for more than a line's indentation cuts the characters left of its
\* column, unless the whole line is left of it.  Without any text a value is its
\* breaks, of which the folded style has one more than lines.
BlockKeepsText ==
    bvalue # Unrendered =>
    /\ (bvalue = Refused) = ~WellFormed
    /\ blines = <<>> /\ WellFormed => bvalue = <<>>
    /\ bvalue # Refused /\ blines # <<>> /\ TextLines = {} =>
        /\ ToSet(bvalue) \subseteq {Break}
        /\ EndsWith(bvalue, Len(blines) + (IF Folded THEN 1 ELSE 0))
    /\ bvalue # Refused /\ TextLines # {} =>
        /\ SelectSeq(bvalue, LAMBDA c : c \notin {Space, FoldSpace, Break})
              = FlattenSeq([n \in DOMAIN blines |-> TextChars(n)])
        /\ \A n \in TextLines :
              SpacesBefore(bvalue, Start(bvalue, n)) = Max({0, blines[n].indent - TextIndent})
        /\ \A n \in TextLines : \A k \in TextLines :
              (n < k /\ (n + 1)..(k - 1) \cap TextLines = {}) =>
                 LET gap == SubSeq(bvalue, Start(bvalue, n), Start(bvalue, k))
                 IN  /\ Count({Break}, gap) = (k - n) - (IF Folded THEN 1 ELSE 0)
                     /\ Count({FoldSpace}, gap) = IF Folded /\ k = n + 1 THEN 1 ELSE 0
        /\ EndsWith(bvalue, Len(blines) - Max(TextLines) + 1)
=============================================================================
