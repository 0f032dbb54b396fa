------------------------------ MODULE Desensitize ----------------------------
(***************************************************************************)
(* logger/desensitize.go: DesensitizeReplaceAttr masks the sensitive       *)
(* fields of a log attribute, through maps, structs, slices, pointers and  *)
(* JSON or XML texts, or only embeds JSON when no field is sensitive.      *)
(*                                                                         *)
(* A value is a tree: a leaf, or a container with one child, which is what *)
(* the walk tells apart, or a slice of two, or a map with two keys that    *)
(* are not strings.  Texts of JSON and XML are the tree they encode.       *)
(* A Go map is walked in any order, so Mask gives the set of the values it *)
(* may return.  An error value and a text that is not valid JSON are       *)
(* leaves that nothing looks into.                                         *)
(***************************************************************************)
EXTENDS Integers, Sequences, SequencesExt, FiniteSets

CONSTANT TreeDepth   \* bound: containers inside one another

VARIABLES akey,      \* the key of the attribute
          ain,       \* its value
          masking,   \* Logconf.DesensitizeField is not empty
          aout       \* the value that is logged; NotYet before, Panic if none is

attrVars == <<akey, ain, masking, aout>>

\* Sensitive keys: one masked, one with a function of its own, and one whose
\* function returns what is no text and what JSON cannot encode.
Sensitive == {"pin", "card", "odd"}
AttrKeys == {"a", "pin", "card", "request_id"}
Ignored == {"request_id"}
TreeKeys == {"a", "pin", "odd"}

Leaf == [is |-> "leaf"]
NotYet == [is |-> "not yet"]
MaskStr == [is |-> "mask"]
Unencodable == [is |-> "unencodable"]
Panic == [is |-> "panic"]
On(kind, e) == [is |-> kind, e |-> e]
At(kind, k, e) == [is |-> kind, k |-> k, e |-> e]
Pair(x, y) == [is |-> "slice", s |-> <<x, y>>]
IntMap(x, y) == [is |-> "intmap", s |-> <<x, y>>]   \* a map[int]any

Opaque == {"error", "text"}                  \* looked into by nothing
\* Other kinds: ptr, slice, json (a text or a RawMessage), log (a jsonLogValue), xml.
Keyed == {"map", "struct", "private"}      \* private: a field that is not exported

-----------------------------------------------------------------------------
(* Desensitize *)

MaskedBy(k) == IF k = "odd" THEN Unencodable ELSE MaskStr

RECURSIVE Encodable(_)
Encodable(v) ==
    CASE v.is = "unencodable" -> FALSE
      [] v.is = "slice"       -> \A i \in DOMAIN v.s : Encodable(v.s[i])
      [] v.is \in Keyed \cup {"log"} -> Encodable(v.e)
      [] OTHER                -> TRUE

\* Mutant: the fields of a struct are walked without a look at their names.
IsSensitive_NotStruct(kind, k) == kind = "map" /\ k \in Sensitive

IsSensitive(kind, k) == k \in Sensitive

\* An XML element that is sensitive loses its text; its children are not visited.
\* A mask that is no text is a panic.
RECURSIVE DesensitizeXMLNode(_)
DesensitizeXMLNode(n) ==
    LET below == [i \in DOMAIN n.nodes |-> DesensitizeXMLNode(n.nodes[i])]
    IN  CASE n.k \in Sensitive /\ MaskedBy(n.k) = MaskStr -> [n EXCEPT !.text = MaskStr]
          [] n.k \in Sensitive                            -> Panic
          [] Panic \in ToSet(below)                       -> Panic
          [] OTHER                                        -> [n EXCEPT !.nodes = below]

\* The name k.String() of a key that is not a string: that of its type.
TypeName == "<int Value>"

Through(rs, Build(_)) == {IF r = Panic THEN Panic ELSE Build(r) : r \in rs}

\* A map whose keys all have one name keeps the entry that was walked last.
RECURSIVE Mask(_)
Mask(v) ==
    LET masked == {s \in [DOMAIN v.s -> UNION {Mask(v.s[i]) : i \in DOMAIN v.s}] :
                      \A i \in DOMAIN v.s : s[i] \in Mask(v.s[i])}
    IN  CASE v.is \in {"leaf", "private"} \cup Opaque -> {v}
          [] v.is = "ptr"             -> Mask(v.e)
          [] v.is \in {"json", "log"} ->
                Through(Mask(v.e), LAMBDA r : IF Encodable(r) THEN On("log", r) ELSE MaskStr)
          [] v.is = "xml"             -> {DesensitizeXMLNode(v)}
          [] v.is = "slice"           ->
                {IF Panic \in ToSet(s) THEN Panic ELSE [v EXCEPT !.s = s] : s \in masked}
          [] v.is = "intmap"          ->
                UNION {IF Panic \in ToSet(s) THEN {Panic}
                       ELSE {At("map", TypeName, s[i]) : i \in DOMAIN s} : s \in masked}
          [] v.is \in Keyed           ->
                IF IsSensitive(v.is, v.k) THEN {[v EXCEPT !.e = MaskedBy(v.k)]}
                ELSE Through(Mask(v.e), LAMBDA r : [v EXCEPT !.e = r])

-----------------------------------------------------------------------------
(* jsonAttrValue: JSON texts are embedded, nothing is masked *)

\* What encoding/json makes of a container: no private fields, errors or pointers.
RECURSIVE Encoded(_)
Encoded(v) ==
    CASE v.is = "ptr"     -> Encoded(v.e)
      [] v.is \in {"private", "error"} -> [is |-> "slice", s |-> <<>>]
      [] v.is \in {"slice", "intmap"} -> [v EXCEPT !.s = [i \in DOMAIN @ |-> Encoded(@[i])]]
      [] v.is \in Keyed   -> [v EXCEPT !.e = Encoded(@)]
      [] OTHER            -> v

RECURSIVE HasJson(_)
HasJson(v) == \/ v.is = "json"
              \/ v.is \in {"slice", "intmap"} /\ \E i \in DOMAIN v.s : HasJson(v.s[i])
              \/ v.is \in Keyed /\ HasJson(v.e)

RECURSIVE Expand(_)
Expand(v) ==
    CASE v.is = "json"   -> On("log", v.e)
      [] v.is \in {"slice", "intmap"} -> [v EXCEPT !.s = [i \in DOMAIN @ |-> Expand(@[i])]]
      [] v.is \in Keyed  -> [v EXCEPT !.e = Expand(@)]
      [] OTHER           -> v

RECURSIVE JsonAttrValue(_)
JsonAttrValue(v) ==
    CASE v.is = "ptr"  -> LET r == JsonAttrValue(v.e) IN IF r = v.e THEN v ELSE r
      [] v.is = "json" -> On("log", v.e)
      [] v.is \in Keyed \cup {"slice", "intmap"} /\ HasJson(Encoded(v)) -> On("log", Expand(Encoded(v)))
      [] OTHER         -> v

-----------------------------------------------------------------------------
XmlTree(k, nodes) == [is |-> "xml", k |-> k, text |-> Leaf, nodes |-> nodes]
Xmls == LET flat == {XmlTree(k, <<>>) : k \in TreeKeys}
        IN  flat \cup {XmlTree(k, <<n>>) : k \in {"a", "pin"}, n \in flat}

\* JSON encodes maps, slices, leaves and texts.
RECURSIVE Jsonable(_)
Jsonable(v) == \/ v.is \in {"leaf", "text", "xml", "json"}
               \/ v.is = "map" /\ Jsonable(v.e)
               \/ v.is = "slice" /\ \A i \in DOMAIN v.s : Jsonable(v.s[i])

RECURSIVE Trees(_)
Trees(n) ==
    IF n = 0 THEN {Leaf} \cup Xmls \cup {On(k, Leaf) : k \in Opaque}
    ELSE LET below == Trees(n - 1)
         IN  below
             \cup {At(k, key, v) : k \in Keyed, key \in TreeKeys, v \in below}
             \cup {Pair(Leaf, v) : v \in below} \cup {IntMap(Leaf, v) : v \in below}
             \cup {On("ptr", v) : v \in below}
             \cup {On("json", v) : v \in {u \in below : u.is \in {"map", "slice"} /\ Jsonable(u)}}

AttrInit ==
    /\ akey \in AttrKeys
    /\ ain \in IF akey = "a" THEN Trees(TreeDepth) ELSE {Leaf, On("json", Pair(Leaf, Leaf))}
    /\ masking \in BOOLEAN
    /\ aout = NotYet

DesensitizeReplaceAttr ==
    /\ aout = NotYet
    /\ aout' \in CASE akey \in Ignored   -> {ain}
                   [] ~masking           -> {JsonAttrValue(ain)}
                   [] akey \in Sensitive -> {MaskedBy(akey)}
                   [] OTHER              -> Mask(ain)
    /\ UNCHANGED <<akey, ain, masking>>

-----------------------------------------------------------------------------
(* The paths of keys to the leaves that can be read *)

\* The first sensitive key of a path on which the walk goes.
FirstSensitive(p) ==
    LET stops == {i \in DOMAIN p : p[i] \in Sensitive \cup {"!"}}
        first == CHOOSE i \in stops : \A j \in stops : i <= j
    IN  IF stops = {} \/ p[first] = "!" THEN "none" ELSE p[first]

\* "!" stands where the walk does not go on: at an error, below a private field
\* and below a sensitive XML element.  With masks, a JSON text in which a mask
\* cannot be encoded has nothing to read.
RECURSIVE Readable(_, _, _)
Readable(v, p, masks) ==
    CASE v.is \in {"leaf", "text"} -> {p}
      [] v.is = "error"            -> {Append(p, "!")}
      [] v.is = "private"          -> Readable(v.e, p \o <<"!", v.k>>, masks)
      [] v.is \in Keyed            -> Readable(v.e, Append(p, v.k), masks)
      [] v.is = "slice"            -> UNION {Readable(v.s[i], p, masks) : i \in DOMAIN v.s}
      [] v.is = "intmap"           ->
            UNION {Readable(v.s[i], Append(p, TypeName), masks) : i \in DOMAIN v.s}
      [] v.is \in {"ptr", "log"}   -> Readable(v.e, p, masks)
      [] v.is = "json"             ->
            IF masks /\ \E q \in Readable(v.e, <<>>, masks) : FirstSensitive(q) = "odd" THEN {}
            ELSE Readable(v.e, p, masks)
      [] v.is = "xml"              ->
            Readable(v.text, p \o <<"<", v.k>>, masks)
            \cup UNION {Readable(v.nodes[i], Append(p, IF v.k \in Sensitive THEN "!" ELSE "<"), masks) :
                        i \in DOMAIN v.nodes}
      [] OTHER                     -> {}

\* The path leads to the text of an XML element whose mask is no text.
PanicsAt(p) ==
    /\ IsSuffix(<<"<", "odd">>, p)
    /\ \A i \in 1..(Len(p) - 1) : p[i] \notin Sensitive \cup {"!"}

\* With masks, a log line shows exactly the values that are under no sensitive
\* key, however they are nested and encoded: none is left readable and no other
\* is hidden, but for what the walk does not enter, a JSON text it cannot encode
\* again, and all but one of the entries of a map whose keys are not strings
\* (such keys have one name).  Logging panics exactly when a mask that is no text
\* meets an XML element.  Without masks, and under a key of the logger's own,
\* nothing is hidden but what encoding/json leaves out.
MaskedExactly ==
    LET masks  == masking /\ akey \notin Ignored
        before == Readable(ain, <<akey>>, masking)
        after  == Readable(aout, <<akey>>, masking)
        shown  == {p \in before : FirstSensitive(p) = "none"}
    IN  aout # NotYet =>
            /\ (aout = Panic) = (masks /\ \E p \in Readable(ain, <<akey>>, FALSE) : PanicsAt(p))
            /\ masks /\ aout # Panic =>
                  after \subseteq shown /\ {p \in shown : TypeName \notin ToSet(p)} \subseteq after
            /\ ~masks =>
                  after \subseteq before /\ {p \in before : "!" \notin ToSet(p)} \subseteq after
=============================================================================
