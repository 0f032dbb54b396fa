------------------------------ MODULE YamlScalar -----------------------------
(***************************************************************************)
(* parseScalar of gconfig_v2/token.go: the type of a plain text.           *)
(*                                                                         *)
(* A text is a sequence of characters up to what the tests tell apart: "d" *)
(* a digit, "+" a sign, ".", "e", "x" any other letter, and "9" a digit    *)
(* that makes an integer or an exponent too large.  Null, booleans, times  *)
(* and durations are recognised by comparison or by the time package: they *)
(* are the texts of one special character.                                 *)
(***************************************************************************)
EXTENDS Integers, Sequences, SequencesExt, FiniteSets

CONSTANT MaxTextLength   \* bound: characters of a text

VARIABLES ytext,    \* the plain text
          yscalar   \* what parseScalar made of it, or Untyped

scalarVars == <<ytext, yscalar>>

Untyped == "untyped"
Special == {"null", "bool", "timestamp", "duration"}
NumberChars == {"d", "9", "+", ".", "e", "x"}
Digits == {"d", "9"}

Texts == (SeqOf(NumberChars, MaxTextLength) \ {<<>>}) \cup {<<c>> : c \in Special}

-----------------------------------------------------------------------------
(* strconv (external) *)

AllDigits(t) == t # <<>> /\ ToSet(t) \subseteq Digits
Unsigned(t) == IF t # <<>> /\ Head(t) = "+" THEN Tail(t) ELSE t

\* A mantissa: digits with at most one point, at least one digit.
Mantissa(t) == /\ ToSet(t) \subseteq Digits \cup {"."}
               /\ Cardinality({i \in DOMAIN t : t[i] = "."}) <= 1
               /\ \E i \in DOMAIN t : t[i] \in Digits

\* ParseFloat accepts a mantissa and an exponent of digits with a sign or not.
ParsesAsFloat(text) ==
    LET t == Unsigned(text)
    IN  \/ Mantissa(t)
        \/ \E i \in DOMAIN t : /\ t[i] = "e"
                               /\ Mantissa(SubSeq(t, 1, i - 1))
                               /\ AllDigits(Unsigned(SubSeq(t, i + 1, Len(t))))
                               /\ "9" \notin ToSet(SubSeq(t, i + 1, Len(t)))

\* ParseInt fails when the value is out of range.
ParsesAsInt(text) == AllDigits(Unsigned(text)) /\ "9" \notin ToSet(text)

-----------------------------------------------------------------------------
(* IsInteger, IsFloat *)

IsInteger(text) == AllDigits(Unsigned(text))

\* One turn of the loop of IsFloat at index i of the text without its sign; the
\* character after "e" and its sign is stepped over unseen.
RECURSIVE FloatFrom(_, _, _, _)
FloatFrom(t, i, hasDot, hasExp) ==
    IF i > Len(t) THEN hasDot \/ hasExp
    ELSE CASE t[i] = "."      -> ~hasDot /\ ~hasExp /\ FloatFrom(t, i + 1, TRUE, hasExp)
           [] t[i] = "e"      -> /\ ~hasExp
                                 /\ i + 1 <= Len(t)
                                 /\ IF t[i + 1] = "+"
                                    THEN i + 2 <= Len(t) /\ FloatFrom(t, i + 3, hasDot, TRUE)
                                    ELSE FloatFrom(t, i + 2, hasDot, TRUE)
           [] t[i] \in Digits -> FloatFrom(t, i + 1, hasDot, hasExp)
           [] OTHER           -> FALSE

IsFloat(text) == Unsigned(text) # <<>> /\ FloatFrom(Unsigned(text), 1, FALSE, FALSE)

-----------------------------------------------------------------------------
(* parseScalar *)

\* Mutant: floats are tried first.
ParseScalar_FloatFirst(text) ==
    CASE Len(text) = 1 /\ text[1] \in Special -> text[1]
      [] ParsesAsFloat(text)                  -> "float"
      [] IsInteger(text)                      -> IF ParsesAsInt(text) THEN "int" ELSE "refused"
      [] OTHER                                -> "string"

ParseScalar(text) ==
    CASE Len(text) = 1 /\ text[1] \in Special -> text[1]
      [] IsInteger(text)                      -> IF ParsesAsInt(text) THEN "int" ELSE "refused"
      [] IsFloat(text)                        -> IF ParsesAsFloat(text) THEN "float" ELSE "refused"
      [] OTHER                                -> "string"

ScalarInit == ytext \in Texts /\ yscalar = Untyped

TypeScalar ==
    /\ yscalar = Untyped
    /\ yscalar' = ParseScalar(ytext)
    /\ UNCHANGED ytext

-----------------------------------------------------------------------------
\* A number is never read as text and a text never as a number: what strconv
\* accepts as a float with a point or an exponent is a float, what is all digits
\* is an int or refused when it does not fit, and anything else stays a string.
\* IsFloat looks too little at an exponent, so a text with an "e" or without any
\* digit can be refused; no other text is.
ScalarTyped ==
    yscalar # Untyped /\ ytext[1] \notin Special =>
        /\ (yscalar = "int") = ParsesAsInt(ytext)
        /\ (yscalar = "float") = (ParsesAsFloat(ytext) /\ ~IsInteger(ytext))
        /\ yscalar = "refused" =>
              \/ IsInteger(ytext) /\ "9" \in ToSet(ytext)
              \/ "e" \in ToSet(ytext) \/ ToSet(ytext) \subseteq {"+", "."}
=============================================================================
