------------------------------ MODULE FlowParser -----------------------------
(***************************************************************************)
(* Values on one line, gconfig_v2/token.go: the lexer, the recursive       *)
(* descent of parseValue over "{...}", "[...]" and quoted strings, and     *)
(* TokenParse.                                                             *)
(*                                                                         *)
(* The tokens are chosen as they are read.  A plain string ends at a colon *)
(* only where a key is read, so a value may hold colons.  An activation    *)
(* of parseValue is a frame: what it has collected, and the token it waits *)
(* for.                                                                    *)
(***************************************************************************)
EXTENDS YamlScalar, FiniteSetsExt, TLC

CONSTANT MaxTokens   \* bound: tokens of a value

VARIABLES ftoks,    \* history: the tokens read
          fstack,   \* the activations of parseValue, the innermost last; <<>> after an error
          fvalue    \* Unread, Malformed for an error, or the value

flowVars == <<ftoks, fstack, fvalue>>

Unread == [is |-> "unread"]
Malformed == [is |-> "error"]

Quoted == {"'a'", "'d'"}
\* Texts that no bracket, comma or space is in.  "big" overflows an int, "colon"
\* has a colon in it, "&" stands for the features that are not supported.
Plain == [a |-> <<"x">>, d |-> <<"d">>, big |-> <<"9">>, colon |-> <<"x", "x", "x">>]
Strings == Quoted \cup DOMAIN Plain \cup {"!!str", "&"}
KeyTokens == Strings \ {"colon"}
\* The strings that are told apart where a value, a key or none is awaited; a
\* plain key ends before its colon.
StringsFor(what) == CASE what = "key"                -> {"a", "'a'", "!!str"}
                      [] what \in {"value", "tagged"} -> Strings
                      [] OTHER                       -> {"a"}
\* Brackets, and a quote that is not closed.
FlowTokens == Strings \cup {"{", "}", "[", "]", ":", ",", "'"}

NameOf(tok) == IF tok = "'a'" THEN "a" ELSE IF tok = "'d'" THEN "d" ELSE tok
Str(tok) == [is |-> "string", text |-> NameOf(tok)]
PlainValue(tok) == [is |-> ParseScalar(Plain[tok]), text |-> tok]
IsScalar(tok) == \/ tok \in Quoted
                 \/ tok \in DOMAIN Plain /\ PlainValue(tok).is # "refused"
ScalarOf(tok) == IF tok \in Quoted THEN Str(tok) ELSE PlainValue(tok)

TopFrame == [kind |-> "top", waits |-> "value"]
MapFrame == [kind |-> "map", m |-> <<>>, key |-> "", waits |-> "key"]
SeqFrame == [kind |-> "seq", s |-> <<>>, waits |-> "value"]

FlowInit ==
    /\ ftoks = <<>>
    /\ fstack = <<TopFrame>>
    /\ fvalue = Unread

-----------------------------------------------------------------------------
(* parseValue, token by token *)

Frame == Last(fstack)
Outer == Front(fstack)

\* The value an activation asked for is complete.
Filled(f, v) ==
    CASE f.kind = "map" -> [f EXCEPT !.m = @ @@ (f.key :> v), !.waits = "after"]
      [] f.kind = "seq" -> [f EXCEPT !.s = Append(@, v), !.waits = "after"]
      [] f.kind = "top" -> [kind |-> "top", waits |-> "end", v |-> v]

Return(frames, v) == Append(Front(frames), Filled(Last(frames), v))
Waiting(what) == Append(Outer, [Frame EXCEPT !.waits = what])

IsNewKey(tok) == tok \in KeyTokens /\ NameOf(tok) \notin DOMAIN Frame.m

\* The activations after a token, or <<>> for an error.  A closing bracket may
\* follow the opening one or a comma.
ParseValue(tok) ==
    LET waits(what) == Frame.waits = what
        may(kind, bracket) ==
            /\ Frame.kind = kind
            /\ tok = bracket
            /\ waits("after") \/ waits(IF kind = "map" THEN "key" ELSE "value")
    IN  CASE waits("value") /\ tok = "{"         -> Append(fstack, MapFrame)
          [] waits("value") /\ tok = "["         -> Append(fstack, SeqFrame)
          [] waits("value") /\ tok = "!!str"     -> Waiting("tagged")
          [] waits("value") /\ IsScalar(tok)     -> Return(fstack, ScalarOf(tok))
          [] waits("tagged") /\ tok \in Strings  -> Return(fstack, Str(tok))
          [] waits("key") /\ IsNewKey(tok)       ->
                Append(Outer, [Frame EXCEPT !.key = NameOf(tok), !.waits = "colon"])
          [] waits("colon") /\ tok = ":"         -> Waiting("value")
          [] waits("after") /\ tok = ","         ->
                Waiting(IF Frame.kind = "map" THEN "key" ELSE "value")
          [] may("map", "}")                     -> Return(Outer, [is |-> "map", m |-> Frame.m])
          [] may("seq", "]")                     -> Return(Outer, [is |-> "seq", s |-> Frame.s])
          [] OTHER                               -> <<>>

\* TokenParse comes here only for a value that starts with a bracket or a quote.
ReadToken ==
    \E tok \in FlowTokens :
        /\ fvalue = Unread
        /\ Len(ftoks) < MaxTokens
        /\ ftoks = <<>> => tok \in {"{", "[", "'"} \cup Quoted
        /\ tok \in Strings => tok \in StringsFor(Frame.waits)
        /\ ftoks' = Append(ftoks, tok)
        /\ fstack' = ParseValue(tok)
        /\ fvalue' = IF fstack' = <<>> THEN Malformed ELSE Unread

\* TokenEOF: a complete value is the result, an open one is an error.
EndOfValue ==
    /\ fvalue = Unread
    /\ ftoks # <<>>
    /\ fvalue' = IF Frame.waits = "end" THEN Frame.v ELSE Malformed
    /\ UNCHANGED <<ftoks, fstack>>

FlowNext == ReadToken \/ EndOfValue

-----------------------------------------------------------------------------
(* What a text of tokens means, by its brackets *)

Depth(s, i) == Cardinality({j \in 1..i : s[j] \in {"{", "["}})
               - Cardinality({j \in 1..i : s[j] \in {"}", "]"}})

\* The parts of s between the commas outside of brackets; a last part that is
\* empty does not count.
Parts(s) ==
    LET cuts  == {i \in DOMAIN s : s[i] = "," /\ Depth(s, i) = 0}
        ends  == SetToSortSeq(cuts \cup {Len(s) + 1}, <)
        all   == [k \in DOMAIN ends |->
                    SubSeq(s, IF k = 1 THEN 1 ELSE ends[k - 1] + 1, ends[k] - 1)]
    IN  IF Last(all) = <<>> THEN Front(all) ELSE all

RECURSIVE Denotes(_)
Denotes(s) ==
    LET inner    == Parts(SubSeq(s, 2, Len(s) - 1))
        value(p) == IF Len(p) > 2 /\ p[2] = ":" /\ p[1] \in KeyTokens
                    THEN Denotes(SubSeq(p, 3, Len(p))) ELSE Malformed
        name(i)  == NameOf(inner[i][1])
        bracketed(open, close) == Len(s) > 1 /\ s[1] = open /\ Last(s) = close
        allItems == \A i \in DOMAIN inner : Denotes(inner[i]) # Malformed
        allPairs == /\ \A i \in DOMAIN inner : value(inner[i]) # Malformed
                    /\ \A i, j \in DOMAIN inner : i # j => name(i) # name(j)
    IN  CASE Len(s) = 1 /\ IsScalar(s[1])                     -> ScalarOf(s[1])
          [] Len(s) = 2 /\ s[1] = "!!str" /\ s[2] \in Strings -> Str(s[2])
          [] bracketed("[", "]") /\ allItems ->
                [is |-> "seq", s |-> [i \in DOMAIN inner |-> Denotes(inner[i])]]
          [] bracketed("{", "}") /\ allPairs ->
                [is |-> "map", m |-> [k \in {name(i) : i \in DOMAIN inner} |->
                    value(inner[CHOOSE i \in DOMAIN inner : name(i) = k])]]
          [] OTHER -> Malformed

\* A value on one line is read as its brackets say, with every key once and
\* every text of its own type, or is refused; and a value is refused at a token
\* only when nothing that could follow would make it one.
FlowMeansTokens ==
    /\ fvalue # Unread => fvalue = Denotes(ftoks)
    /\ fvalue = Malformed /\ fstack = <<>> =>
          \A rest \in SeqOf({"]", "}", "a", ":"}, 2) : Denotes(ftoks \o rest) = Malformed
=============================================================================
