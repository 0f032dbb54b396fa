------------------------------ MODULE ConfParse ------------------------------
(***************************************************************************)
(* confparse: CparseGo fills the fields of a struct from a parsed          *)
(* configuration by their tags, then calls the user's functions;           *)
(* CparseGoWithCtx is a second copy of the same code.  ParseExtStru looks  *)
(* up one of the lines that extend an entry and has MapToStruct fill a     *)
(* struct from it.                                                         *)
(*                                                                         *)
(* A value of the configuration is a word: a sequence of items (what       *)
(* item_split separates), each a sequence of parts (what kv_split          *)
(* separates).  A part is a text; "x" is no number.  Integers are written  *)
(* without a range check, so they wrap at the width of the field.          *)
(***************************************************************************)
EXTENDS Integers, Sequences, SequencesExt, FiniteSets, TLC

CONSTANT IntWidth   \* bits of an integer field

VARIABLES centry,   \* the function called
          cfields,  \* the fields of the struct: kind, elem (of a map or slice), tag
          cwords,   \* for each field, the words its key has in the configuration
          clines,   \* GlineExtend: whether Sk and Key are there, and the lines' words
          cindex,   \* ExtendConf.Index
          cstruct,  \* the fields' values
          cdefault, \* history: the values before
          cfuncs,   \* Funcs not called yet
          cnext,    \* index of the next field
          cend      \* "running", "ok", "error" or "panic"

confVars == <<centry, cfields, cwords, clines, cindex, cstruct, cdefault, cfuncs, cnext, cend>>

Numbers == [one |-> 1, two |-> 2, minus |-> -1]

\* reflect's SetInt and SetUint keep the low bits.
Span == 2 ^ IntWidth
WrapInt(n) == ((n + (Span \div 2)) % Span) - (Span \div 2)
WrapUint(n) == n % Span

-----------------------------------------------------------------------------
(* The setters: a set with the value written, or {} for an error *)

SetNumber(part, least, Wrap(_)) ==
    IF part \in DOMAIN Numbers /\ Numbers[part] >= least THEN {Wrap(Numbers[part])} ELSE {}

\* Durations and booleans are texts of their own, here "one".
SetBase(kind, word) ==
    LET part == IF Len(word) = 1 /\ Len(word[1]) = 1 THEN word[1][1] ELSE "x"
    IN  CASE kind = "string" -> {word}
          [] kind = "int"    -> SetNumber(part, -Span, WrapInt)
          [] kind = "uint"   -> SetNumber(part, 0, WrapUint)
          [] kind = "float"  -> SetNumber(part, -Span, LAMBDA n : n)
          [] kind \in {"bool", "duration"} -> IF part = "one" THEN {1} ELSE {}

\* getBaseValue: an element of a map or a slice.  It calls setInt for the
\* unsigned kinds with a size, which panics once the text is a number; for uint it
\* returns an int, whatever the text, which the container does not take.
ElemPanics(f, item) ==
    \/ f.elem = "uint"
    \/ f.elem = "uint8" /\ SetBase("int", <<item>>) # {}
GetBaseValue(f, item) ==
    IF f.elem \in {"uint", "uint8"} THEN {} ELSE SetBase(f.elem, <<item>>)

\* Mutant: the last of the values.
GetDatafromIni_Last(words) == Last(words)

\* getDatafromIni: the first of the values that the key was given.
GetDatafromIni(words) == Head(words)

-----------------------------------------------------------------------------
(* parseSlice, parseMap: an item that does not parse is left out *)

ParseSlice(f, old, word) ==
    FoldLeft(LAMBDA s, item : s \o SetToSeq(GetBaseValue(f, item)), old, word)

\* SetMapIndex of a map that is not nil; a later item with the same key wins.
FillMap(f, old, items) ==
    FoldLeft(LAMBDA m, item : (item[1] :> CHOOSE v \in GetBaseValue(f, <<item[2]>>) : TRUE) @@ m, old, items)

\* A nil map, an item without its separator and an unsigned element panic.
ItemPanics(f, old, item) ==
    \/ Len(item) = 1
    \/ ElemPanics(f, <<item[2]>>)
    \/ old.isNil /\ GetBaseValue(f, <<item[2]>>) # {}

ParseMap(f, old, word) ==
    LET stops == {i \in DOMAIN word : ItemPanics(f, old, word[i])}
        upto  == IF stops = {} THEN Len(word) ELSE (CHOOSE i \in stops : \A j \in stops : i <= j) - 1
        taken == SelectSeq(SubSeq(word, 1, upto), LAMBDA item : GetBaseValue(f, <<item[2]>>) # {})
    IN  [v |-> [old EXCEPT !.m = FillMap(f, @, taken)], how |-> IF stops = {} THEN "ok" ELSE "panic"]

-----------------------------------------------------------------------------
(* One field: its value and "ok", "error" or "panic" *)

Kept(old, how) == [v |-> old, how |-> how]

\* The tag: "skip" for no dtype or "complex", "junk" for another dtype, "none"
\* without a confpos or a separator and for a map whose key is not a string, "odd"
\* for a confpos without its colon.
ParseField(f, words, old) ==
    CASE f.tag = "skip"              -> Kept(old, "ok")
      [] f.tag \in {"junk", "none"}  -> Kept(old, "error")
      [] f.tag = "odd"               -> Kept(old, "panic")
      [] f.kind = "other"            -> Kept(old, "ok")
      [] words = <<>>                -> Kept(old, "error")
      [] f.kind = "map"   -> ParseMap(f, old, GetDatafromIni(words))
      [] f.kind = "slice" ->
            LET word == GetDatafromIni(words)
            IN  IF \E i \in DOMAIN word : ElemPanics(f, word[i]) THEN Kept(old, "panic")
                ELSE Kept(ParseSlice(f, old, word), "ok")
      [] OTHER ->
            LET vs == SetBase(f.kind, GetDatafromIni(words))
            IN  IF vs = {} THEN Kept(old, "error") ELSE Kept(CHOOSE v \in vs : TRUE, "ok")

\* The copy in confparse_ctx.go.
ParseFieldWithCtx(f, words, old) == ParseField(f, words, old)

\* setFieldValue: a duration that does not parse is passed over.
SetFieldValue(f, words, old) ==
    LET vs == SetBase(f.kind, GetDatafromIni(words))
    IN  CASE words = <<>> \/ f.tag = "skip"       -> Kept(old, "ok")
          [] f.kind \in {"map", "slice", "other"} -> Kept(old, "error")
          [] vs = {}                              -> Kept(old, IF f.kind = "duration" THEN "ok" ELSE "error")
          [] OTHER                                -> Kept(CHOOSE v \in vs : TRUE, "ok")

-----------------------------------------------------------------------------
ConfField(kind, elem, tag) == [kind |-> kind, elem |-> elem, tag |-> tag]
ConfKinds == {ConfField(k, "", "base") : k \in {"int", "uint", "float", "bool", "duration", "string", "other"}}
          \cup {ConfField("int", "", t) : t \in {"skip", "junk", "none", "odd"}}
          \cup {ConfField(k, e, "base") : k \in {"slice", "map"}, e \in {"int", "string", "uint", "uint8"}}
Defaults(f) ==
    CASE f.kind = "slice"  -> {<<>>} \cup {<<v>> : v \in GetBaseValue(f, <<"one">>)}
      [] f.kind = "map"    -> {[isNil |-> n, m |-> <<>>] : n \in BOOLEAN}
      [] f.kind = "string" -> {<<>>}
      [] OTHER             -> {0}
Words == {<<<<p>>>> : p \in {"one", "two", "minus", "x"}}
         \cup {<<<<"one">>, <<"x">>, <<"two">>>>, <<<<"a", "one">>, <<"b", "x">>>>,
               <<<<"a", "one">>, <<"a", "two">>>>, <<<<"b", "minus">>, <<"one">>>>}

ExtLines(section, key, lines) == [section |-> section, key |-> key, lines |-> lines]

ConfInit ==
    /\ centry \in {"CparseGo", "CparseGoWithCtx", "ParseExtStru"}
    /\ \E f \in ConfKinds, g \in {ConfField("int", "", "base"), ConfField("slice", "int", "base")} :
          /\ cfields = <<f, g>>
          /\ \E u \in Defaults(f), v \in Defaults(g) : cdefault = <<u, v>>
    /\ \E w \in Words, v \in {<<<<"minus">>>>, <<<<"x">>>>} :
          \E ws \in {<<>>, <<w>>, <<w, <<<<"two">>>>>>} :
             LET said  == <<ws, <<v>>>>
                 other == <<<<<<<<"two">>>>>>, <<>>>>
             IN  IF centry = "ParseExtStru"
                 THEN /\ cwords = <<<<>>, <<>>>>
                      /\ clines \in {ExtLines(TRUE, TRUE, <<other, said>>),
                                     ExtLines(TRUE, FALSE, <<>>), ExtLines(FALSE, FALSE, <<>>)}
                      /\ cindex \in {-1, 0, 1, 2}
                 ELSE /\ cwords = said
                      /\ clines = ExtLines(FALSE, FALSE, <<>>)
                      /\ cindex = 0
    /\ cstruct = cdefault
    /\ cfuncs \in IF centry = "ParseExtStru" THEN {{}} ELSE {{}, {"good", "fails", "lost"}}
    /\ cnext = 1
    /\ cend = "running"

\* One turn of the loop over the fields.
FillField(entry, Parse(_, _, _)) ==
    /\ centry = entry
    /\ cend = "running"
    /\ cnext <= Len(cfields)
    /\ LET r == Parse(cfields[cnext], cwords[cnext], cstruct[cnext])
       IN  /\ cstruct' = [cstruct EXCEPT ![cnext] = r.v]
           /\ cend' = IF r.how = "ok" THEN cend ELSE r.how
           /\ cnext' = IF r.how = "ok" THEN cnext + 1 ELSE cnext
    /\ UNCHANGED <<centry, cfields, cwords, clines, cindex, cdefault, cfuncs>>

\* The line asked for goes to MapToStruct; a negative index is a panic.
ParseExtStru ==
    /\ centry = "ParseExtStru"
    /\ cend = "running"
    /\ LET found == clines.section /\ clines.key /\ cindex < Len(clines.lines)
       IN  /\ cend' = IF ~found THEN "error" ELSE IF cindex < 0 THEN "panic" ELSE cend
           /\ IF found /\ cindex >= 0
              THEN centry' = "MapToStruct" /\ cwords' = clines.lines[cindex + 1]
              ELSE UNCHANGED <<centry, cwords>>
    /\ UNCHANGED <<cfields, clines, cindex, cstruct, cdefault, cfuncs, cnext>>

CparseGo == FillField("CparseGo", ParseField)
CparseGoWithCtx == FillField("CparseGoWithCtx", ParseFieldWithCtx)
MapToStruct == FillField("MapToStruct", SetFieldValue)

\* The functions, in any order; "fails" returns an error, "lost" is for a section
\* that is not there.
CallFunc ==
    /\ cend = "running"
    /\ cnext > Len(cfields)
    /\ \E f \in cfuncs :
          /\ cfuncs' = cfuncs \ {f}
          /\ cend' = IF f = "good" THEN cend ELSE "error"
    /\ UNCHANGED <<centry, cfields, cwords, clines, cindex, cstruct, cdefault, cnext>>

ConfReturn ==
    /\ cend = "running"
    /\ cnext > Len(cfields)
    /\ cfuncs = {}
    /\ cend' = "ok"
    /\ UNCHANGED <<centry, cfields, cwords, clines, cindex, cstruct, cdefault, cfuncs, cnext>>

ConfNext == CparseGo \/ CparseGoWithCtx \/ ParseExtStru \/ MapToStruct \/ CallFunc \/ ConfReturn

-----------------------------------------------------------------------------
\* The first of a key's values is what its field holds: a number exactly or
\* wrapped at the field's width, of a list every number in order after what the
\* slice held, of a map the last number under each key; a struct for extension
\* lines is filled from the line with the index asked for.  After an error or a
\* panic the fields that follow, and unless it is a map the failing one, hold
\* what they held; the user's functions run only after every field is filled.
ConfFieldsAsWritten ==
    LET isNumber(p)  == p \in DOMAIN Numbers
        same(v, p)   == isNumber(p) /\ (v - Numbers[p]) % Span = 0
        written      == IF centry = "MapToStruct" THEN clines.lines[cindex + 1] ELSE cwords
        says(i)      == written[i][1]
        filled(i, k) == cfields[i].kind = k /\ cfields[i].tag = "base" /\ cfields[i].elem \in {"", "int"}
        bare(i)      == Len(says(i)) = 1 /\ Len(says(i)[1]) = 1
    IN  /\ \A i \in DOMAIN cfields : i > cnext => cstruct[i] = cdefault[i]
        /\ cend \in {"error", "panic"} /\ cnext <= Len(cfields) =>
              cstruct[cnext] = cdefault[cnext] \/ (cend = "panic" /\ cfields[cnext].kind = "map")
        /\ \A i \in DOMAIN cfields :
              /\ i < cnext
              /\ written[i] # <<>>
              =>
              /\ filled(i, "int") => bare(i) /\ same(cstruct[i], says(i)[1][1])
              /\ filled(i, "uint") => bare(i) /\ same(cstruct[i], says(i)[1][1]) /\ cstruct[i] >= 0
              /\ filled(i, "slice") =>
                    LET nums  == SelectSeq(says(i), LAMBDA item : Len(item) = 1 /\ isNumber(item[1]))
                        added == SubSeq(cstruct[i], Len(cdefault[i]) + 1, Len(cstruct[i]))
                    IN  /\ IsPrefix(cdefault[i], cstruct[i])
                        /\ Len(added) = Len(nums)
                        /\ \A j \in DOMAIN nums : same(added[j], nums[j][1])
              /\ filled(i, "map") =>
                    \A k \in {"a", "b"} :
                        LET at == {j \in DOMAIN says(i) : says(i)[j][1] = k /\ isNumber(says(i)[j][2])}
                        IN  /\ (k \in DOMAIN cstruct[i].m) = (at # {})
                            /\ at # {} => same(cstruct[i].m[k],
                                              says(i)[CHOOSE j \in at : \A l \in at : l <= j][2])
        /\ cfuncs \notin {{}, {"good", "fails", "lost"}} => cnext > Len(cfields)
=============================================================================
