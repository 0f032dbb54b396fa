------------------------------ MODULE YamlDecode -----------------------------
(***************************************************************************)
(* Unmarshal's second half, gconfig_v2/gconfig.go: decode writes a parsed  *)
(* document into the caller's map or struct.                               *)
(*                                                                         *)
(* Values are records: a leaf [is, n], nil, or a container.  A type is a   *)
(* record with its kind k.  The destination has the kinds of fields that   *)
(* decode tells apart; int and uint are two bits wide and a float32 holds  *)
(* the even numbers up to 8, and the small ones exactly.  A map is walked in any   *)
(* order, so an error can leave any of its other keys written: the setters *)
(* give the set of their possible outcomes.                                *)
(***************************************************************************)
EXTENDS Integers, Sequences, SequencesExt, FiniteSets, FiniteSetsExt, TLC

VARIABLES ddoc,   \* the parsed document, a map
          dtype,  \* the name of the type of the destination
          dold,   \* history: the destination before
          dnew,   \* the destination
          dend    \* "running", "ok" or "error"

decodeVars == <<ddoc, dtype, dold, dnew, dend>>

NilValue == [is |-> "nil"]
Num(n) == [is |-> "int", n |-> n]
TextLeaf == [is |-> "string", n |-> 1]
Duration == [is |-> "duration", n |-> 1]   \* n: its nanoseconds
Float(n) == [is |-> "float", n |-> n]
MapOf(m) == [is |-> "map", m |-> m]
SliceOf(s) == [is |-> "slice", s |-> s]
StructOf(f) == [is |-> "struct", f |-> f]
PtrTo(v) == [is |-> "ptr", v |-> v]

IntType == [k |-> "int", lo |-> -2, hi |-> 1]
UintType == [k |-> "uint", lo |-> 0, hi |-> 3]
AnyType == [k |-> "any"]
\* key "" is a field whose tag is "-" or that is not exported; the second key is
\* the one with its first letter in lower case.
Field(key, lower, t) == [key |-> key, lower |-> lower, t |-> t, embedded |-> FALSE]
Embedded(t) == [key |-> "E", lower |-> "e", t |-> t, embedded |-> TRUE]
Inner == [k |-> "struct", fields |-> <<Field("n", "n", IntType)>>]
Pointer == [k |-> "ptr", e |-> Inner]
Float32 == [k |-> "float32", max |-> 8]
Float64 == [k |-> "float64", max |-> 99]
MapType(key, e) == [k |-> "map", key |-> key, e |-> e]
Typed == MapType("string", IntType)
UntypedMap == MapType("string", AnyType)
IntKeys == MapType("int", IntType)
ConfigType ==
    [k |-> "struct",
     fields |-> <<Field("", "", IntType), Field("B", "b", IntType),
                  Field("u", "u", UintType), Field("f", "f", Float32), Field("g", "g", Float64),
                  Field("s", "s", [k |-> "string"]), Field("d", "d", [k |-> "duration"]),
                  Field("P", "p", Pointer), Field("m", "m", Typed),
                  Field("i", "i", IntKeys), Field("a", "a", UntypedMap), Field("l", "l", [k |-> "slice", e |-> IntType]),
                  Field("r", "r", [k |-> "array", e |-> IntType, len |-> 2]),
                  Embedded(Pointer)>>]
Dst == [config |-> ConfigType, typed |-> Typed, untyped |-> UntypedMap, intkeys |-> IntKeys,
        int |-> IntType][dtype]

RECURSIVE Zero(_)
Zero(t) ==
    CASE t.k \in {"int", "uint"}              -> Num(0)
      [] t.k \in {"float32", "float64"}       -> Float(0)
      [] t.k = "string"                       -> [TextLeaf EXCEPT !.n = 0]
      [] t.k = "duration"                     -> [Duration EXCEPT !.n = 0]
      [] t.k \in {"any", "ptr", "map", "slice"} -> NilValue
      [] t.k = "array"                        -> SliceOf([i \in 1..t.len |-> Zero(t.e)])
      [] t.k = "struct"                       -> StructOf([i \in DOMAIN t.fields |-> Zero(t.fields[i].t)])

\* The nearest number that the float type t holds.
Rounded(t, n) == IF t.k = "float32" /\ n > 2 THEN n - (n % 2) ELSE n

-----------------------------------------------------------------------------
(* decode *)

Outcome(ok, v) == [ok |-> ok, v |-> v]

\* The value of the key, or of the key with its first letter in lower case.
HasKey(f, m) == f.key \in DOMAIN m \/ f.lower \in DOMAIN m
LookupMapValue(f, m) == IF f.key \in DOMAIN m THEN m[f.key] ELSE m[f.lower]

\* setIntValue and setUintValue: a duration is not a number.
SetIntValue(t, dst, src) ==
    IF src.is = "int" /\ src.n \in t.lo..t.hi THEN {Outcome(TRUE, src)} ELSE {Outcome(FALSE, dst)}

\* A float that is too large is refused.  A duration is of an integer kind and no
\* one asks for its type: its nanoseconds are the number.
SetFloatValue(t, dst, src) ==
    IF src.is \in {"int", "duration"} \/ (src.is = "float" /\ src.n <= t.max)
    THEN {Outcome(TRUE, Float(Rounded(t, src.n)))} ELSE {Outcome(FALSE, dst)}

\* Go can assign the parsed value as it is.
AssignableTo(t, src) ==
    \/ t.k = "any"
    \/ t.k \in {"map", "slice"} /\ t.e = AnyType /\ src.is = t.k
    \/ t.k = src.is /\ t.k \in {"string", "duration"}
    \/ t.k = "float64" /\ src.is = "float"

\* Mutant: the map is made anew.
Entries_Fresh(dst) == <<>>

Entries(dst) == IF dst = NilValue THEN <<>> ELSE dst.m

RECURSIVE SetValue(_, _, _), SetMapValue(_, _, _), SetElems(_, _, _, _), SetFields(_, _, _, _)
SetValue(t, dst, src) ==
    CASE src = NilValue            -> {Outcome(TRUE, Zero(t))}
      [] t.k = "ptr"          -> {Outcome(o.ok, PtrTo(o.v)) :
                                    o \in SetValue(t.e, IF dst = NilValue THEN Zero(t.e) ELSE dst.v, src)}
      [] AssignableTo(t, src) -> {Outcome(TRUE, src)}
      [] t.k = "struct" /\ src.is = "map"  -> SetFields(t, dst, src.m, 1)
      [] t.k = "map" /\ src.is = "map"     -> SetMapValue(t, dst, src)
      [] t.k = "slice" /\ src.is = "slice" ->
            LET made == SliceOf([i \in DOMAIN src.s |-> Zero(t.e)])
            IN  {IF o.ok THEN o ELSE Outcome(FALSE, dst) : o \in SetElems(t, made, src, 1)}
      [] t.k = "array" /\ src.is = "slice" /\ Len(src.s) <= t.len -> SetElems(t, dst, src, 1)
      [] t.k \in {"int", "uint"} -> SetIntValue(t, dst, src)
      [] t.k \in {"float32", "float64"} -> SetFloatValue(t, dst, src)
      [] OTHER                   -> {Outcome(FALSE, dst)}

\* The keys of the destination are strings, or it is refused.  A map that is not
\* nil keeps its other keys.
SetMapValue(t, dst, src) ==
    LET m       == src.m
        elem(k) == CHOOSE o \in SetValue(t.e, Zero(t.e), m[k]) : TRUE
        good    == {k \in DOMAIN m : elem(k).ok}
        with(ks) == MapOf([k \in ks |-> elem(k).v] @@ Entries(dst))
    IN  IF t.key # "string" THEN {Outcome(FALSE, dst)}
        ELSE IF good = DOMAIN m THEN {Outcome(TRUE, with(good))}
        ELSE {Outcome(FALSE, with(ks)) : ks \in SUBSET good}

\* The elements of a slice or an array in order, up to the first error.
SetElems(t, dst, src, i) ==
    IF i > Len(src.s) THEN {Outcome(TRUE, dst)}
    ELSE UNION {LET now == [dst EXCEPT !.s[i] = o.v]
                IN  IF o.ok THEN SetElems(t, now, src, i + 1) ELSE {Outcome(FALSE, now)} :
                o \in SetValue(t.e, dst.s[i], src.s[i])}

\* setStructValue: the fields in order, up to the first error.  An embedded
\* struct takes its fields from the same map, and a nil one is made.
SetFields(t, dst, m, i) ==
    IF i > Len(t.fields) THEN {Outcome(TRUE, dst)}
    ELSE LET f    == t.fields[i]
             outs == IF f.embedded THEN SetValue(f.t, dst.f[i], MapOf(m))
                     ELSE SetValue(f.t, dst.f[i], LookupMapValue(f, m))
         IN  IF ~f.embedded /\ (f.key = "" \/ ~HasKey(f, m))
             THEN SetFields(t, dst, m, i + 1)
             ELSE UNION {LET now == [dst EXCEPT !.f[i] = o.v]
                         IN  IF o.ok THEN SetFields(t, now, m, i + 1) ELSE {Outcome(FALSE, now)} :
                         o \in outs}

-----------------------------------------------------------------------------
Leaves == {NilValue, TextLeaf, Duration} \cup {Num(n) : n \in {-3, -1, 1, 2, 3}}
          \cup {Float(n) : n \in {1, 3, 9}}
SmallLeaves == {NilValue, TextLeaf, Num(1), Num(3)}
Maps == {MapOf(m) : m \in UNION {[ks -> SmallLeaves] : ks \in {{}, {"n"}, {"x"}, {"x", "y"}}}}
Slices == {SliceOf(s) : s \in SeqOf({NilValue, Num(1), Num(3)}, 3)}
DocKeys == {"B", "b", "u", "f", "g", "s", "d", "p", "P", "m", "i", "a", "l", "r", "n", "other"}

Documents ==
    {<<>>}
    \cup {k :> v : k \in DocKeys, v \in Leaves \cup Maps \cup Slices}
    \cup UNION {[{k, "m"} -> SmallLeaves \cup {MapOf([x |-> Num(1)])}] : k \in DocKeys}
    \cup UNION {[{k, "B"} -> SmallLeaves] : k \in DocKeys}

\* A struct with its fields set by a document before.
FilledConfig ==
    LET m    == MapOf([x |-> Num(-1), z |-> Num(-1)])
        s    == SliceOf(<<Num(-1), Num(-2)>>)
        vals == <<Num(-1), Num(-1), Num(2), Float(2), Float(2), TextLeaf, Duration,
                  PtrTo(StructOf(<<Num(-1)>>)), m, m, m, s, s, PtrTo(StructOf(<<Num(-1)>>))>>
    IN  StructOf(vals)

DecodeInit ==
    /\ ddoc \in Documents
    /\ \/ dtype = "config" /\ dold \in {Zero(ConfigType), FilledConfig}
       \/ dtype \in {"typed", "untyped", "intkeys"} /\ dold \in {NilValue, MapOf([x |-> Num(-1), z |-> Num(-1)])}
       \/ dtype = "int" /\ dold = Num(1)
    /\ dnew = dold
    /\ dend = "running"

\* A root that is a map is always merged into; other kinds are refused.
Decode ==
    /\ dend = "running"
    /\ \E o \in CASE Dst.k = "map"    -> SetMapValue(Dst, dold, MapOf(ddoc))
                  [] Dst.k = "struct" -> SetFields(Dst, dold, ddoc, 1)
                  [] OTHER              -> {Outcome(FALSE, dold)} :
          /\ dnew' = o.v
          /\ dend' = IF o.ok THEN "ok" ELSE "error"
    /\ UNCHANGED <<ddoc, dtype, dold>>

-----------------------------------------------------------------------------
(* What the document and the destination say, as leaves on paths of keys *)

Index == <<"1", "2", "3">>

RECURSIVE Said(_, _)
Said(v, p) ==
    CASE v.is = "map"   -> UNION {Said(v.m[k], Append(p, k)) : k \in DOMAIN v.m}
      [] v.is = "slice" -> UNION {Said(v.s[i], Append(p, Index[i])) : i \in DOMAIN v.s}
      [] OTHER          -> {<<p, v>>}

RECURSIVE Held(_, _, _)
Held(t, v, p) ==
    CASE v = NilValue \/ t.k = "any" -> Said(v, p)
      [] t.k = "ptr"    -> Held(t.e, v.v, p)
      [] t.k = "map"    -> UNION {Held(t.e, v.m[k], Append(p, k)) : k \in DOMAIN v.m}
      [] t.k = "struct" ->
            UNION {LET f == t.fields[i]
                   IN  Held(f.t, v.f[i], IF f.embedded THEN p ELSE Append(p, f.lower)) :
                   i \in DOMAIN t.fields}
      [] OTHER          -> Said(v, p)

\* The document with "B" for "b" and "P" for "p" when it has both.
Written ==
    LET lower(k) == IF k = "B" THEN "b" ELSE IF k = "P" THEN "p" ELSE k
        upper(k) == IF k = "b" THEN "B" ELSE IF k = "p" THEN "P" ELSE k
    IN  IF dtype # "config" THEN ddoc
        ELSE [k \in {lower(j) : j \in DOMAIN ddoc} |->
                IF upper(k) \in DOMAIN ddoc THEN ddoc[upper(k)] ELSE ddoc[k]]

\* Only a struct has keys it does not know.
Known(path) ==
    dtype = "config" => path[1] # "other" /\ (path[1] = "p" => path = <<"p", "n">>)
IsZero(leaf) == leaf = NilValue \/ leaf.n = 0

\* A document that decodes is in the destination with every value exact and null
\* as the zero value.  In a float field a number is rounded to what the field
\* holds, and a duration becomes its number of nanoseconds.  Whether it
\* decodes or fails half way, nothing is in the destination that was not there
\* or in the document, and what the document does not speak of stays: a map with
\* a type and an array are merged into, a slice and a map of any are replaced.
DecodedAsWritten ==
    LET number(v) == v.is \in {"int", "float", "duration"}
        exact(x) == CASE dtype # "config" \/ ~number(x[2]) -> x
                      [] x[1] = <<"f">> -> <<x[1], Float(Rounded(Float32, x[2].n))>>
                      [] x[1] = <<"g">> -> <<x[1], Float(x[2].n)>>
                      [] OTHER          -> x
        said == {exact(x) : x \in Said(MapOf(Written), <<>>)}
        new  == Held(Dst, dnew, <<>>)
        old  == Held(Dst, dold, <<>>)
        merged(h) == h \in {"m", "i", "r", "p"} /\ Written[h].is \in {"map", "slice"}
        spoken(p) == \E x \in said : IsPrefix(x[1], p)
    IN  /\ dend = "ok" =>
              /\ \A x \in said :
                    Known(x[1]) =>
                        IF x[2] = NilValue THEN \A y \in new : IsPrefix(x[1], y[1]) => IsZero(y[2])
                        ELSE x \in new
              /\ \A y \in new : /\ dtype = "config" /\ y[1] # <<>>
                                /\ y[1][1] \in {"a", "l"} \cap DOMAIN Written
                                => y \in said \/ IsZero(y[2])
        /\ dend # "running" =>
              /\ \A y \in new : y \in old \cup said \/ IsZero(y[2])
              /\ \A x \in old :
                    /\ x[2] # NilValue /\ x[1] # <<>>
                    /\ x[1][1] \in DOMAIN Written => merged(x[1][1]) /\ ~spoken(x[1])
                    => x \in new
=============================================================================
