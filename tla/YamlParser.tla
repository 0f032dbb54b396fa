------------------------------ MODULE YamlParser -----------------------------
(***************************************************************************)
(* ParseYaml.parse of gconfig_v2/gconfig.go: the tree of a block-style     *)
(* document is built line by line, on a stack of the nodes that are open.  *)
(*                                                                         *)
(* A line is what parse tells lines apart by: its indentation, "- " or     *)
(* not, a key or none, and the kind of its value.  The value itself is     *)
(* FlowParser.tla and BlockScalar.tla; here it is the number of the line   *)
(* it is written on.  Blank lines and comments are no step.                *)
(***************************************************************************)
EXTENDS Integers, Sequences, SequencesExt, FiniteSetsExt, TLC

CONSTANTS YamlKeys, NoKey,
          MaxIndent,   \* bound: indentation of a line
          MaxLines     \* bound: lines of a document

ASSUME YamlAssumption == NoKey \notin YamlKeys /\ MaxIndent \in Nat /\ MaxLines \in Nat

VARIABLES ydoc,         \* history: the lines read
          ynodes,       \* the AstNodes; the first is rootNode
          ystack,       \* py.stack
          lastIndent,
          lastMayNest,
          blockIndent,  \* indentation of the header of an open block scalar, or NoBlock
          taken,        \* lines that collectBlockScalar took as text
          ystate        \* "reading", "parsed", or "refused": parse returned an error

yamlVars == <<ydoc, ynodes, ystack, lastIndent, lastMayNest, blockIndent, taken, ystate>>

NoBlock == MaxIndent + 1
Root == 1

\* val: nothing after the colon, a value, a block scalar header, or something
\* that is refused wherever it stands (a feature that is not supported, an
\* invalid header, a value that does not parse).  A line with neither "- " nor a
\* key is refused too.
YamlLines == [indent : 0..MaxIndent, dash : BOOLEAN, key : YamlKeys \cup {NoKey},
              val : {"none", "value", "block"}]
             \cup [indent : 0..MaxIndent, dash : {FALSE}, key : {NoKey}, val : {"bad"}]

\* An entry of m or s is the index of a node, or -n for the TokenNode of line n.
NewNode(type, indent, name, m) ==
    [type |-> type, indent |-> indent, name |-> name, m |-> m, s |-> <<>>]

YamlInit ==
    /\ ydoc = <<>>
    /\ ynodes = <<NewNode("MAP", -1, NoKey, <<>>)>>
    /\ ystack = <<Root>>
    /\ lastIndent = -1
    /\ lastMayNest = FALSE
    /\ blockIndent = NoBlock
    /\ taken = {}
    /\ ystate = "reading"

-----------------------------------------------------------------------------
(* The place of a line *)

\* Mutant: a node of the same indentation stays open.
Popped_KeepsEqual(indent) ==
    SubSeq(ystack, 1, Max({j \in DOMAIN ystack : ynodes[ystack[j]].indent <= indent}))

\* The stack after the nodes that are not above a line of this indentation are
\* popped.
Popped(indent) ==
    SubSeq(ystack, 1, Max({j \in DOMAIN ystack : ynodes[ystack[j]].indent < indent}))

Parent(l) == Last(Popped(l.indent))

UnexpectedIndent(l) ==
    IF lastIndent < 0 THEN l.indent > 0 ELSE l.indent > lastIndent /\ ~lastMayNest

\* The node whose map takes a key: the parent, or the last item of a slice when
\* it is a node further out.  0: errMixedNode or errLine.
MapNode(l) ==
    LET p == Parent(l)
        s == ynodes[p].s
    IN  IF ynodes[p].type # "SLICE" THEN p
        ELSE IF s # <<>> /\ Last(s) > 0 /\ ynodes[Last(s)].indent < l.indent THEN Last(s)
        ELSE 0

\* putMapItem refuses a key that is there.
KeyFits(l) == MapNode(l) # 0 /\ l.key \notin DOMAIN ynodes[MapNode(l)].m

\* A node without entries becomes what its first entry needs.
AsType(node, type) == IF node.type = "UNKNOWN" THEN [node EXCEPT !.type = type] ELSE node

WithKey(l, entry) ==
    LET p == Parent(l)
        typed == [ynodes EXCEPT ![p] = AsType(@, "MAP")]
    IN  [typed EXCEPT ![MapNode(l)].m = @ @@ (l.key :> entry)]

\* feedSlice: the parent is a slice, or becomes one, and a scalar item has
\* nothing below it.
ItemFits(l) ==
    LET node == ynodes[Parent(l)]
    IN  /\ node.type # "MAP"
        /\ (node.s # <<>> /\ Last(node.s) < 0) => l.indent <= ydoc[-Last(node.s)].indent

WithItem(l, entry) ==
    [ynodes EXCEPT ![Parent(l)] = [AsType(@, "SLICE") EXCEPT !.s = Append(@, entry)]]

-----------------------------------------------------------------------------
(* One line *)

\* The line l is the next one, and not text of a block scalar.
Line(l) ==
    /\ ystate = "reading"
    /\ Len(ydoc) < MaxLines
    /\ blockIndent = NoBlock \/ l.indent <= blockIndent
    /\ ydoc' = Append(ydoc, l)

Accepted(l, mayNest) ==
    /\ ~UnexpectedIndent(l)
    /\ l.val # "bad"
    /\ lastIndent' = l.indent
    /\ lastMayNest' = mayNest
    /\ blockIndent' = IF l.val = "block" THEN l.indent ELSE NoBlock
    /\ UNCHANGED <<taken, ystate>>

Number == Len(ydoc) + 1     \* of the line being read
Fresh == Len(ynodes) + 1    \* the next node

\* feedMap: "k:" opens a node.
FeedMapNode(l) ==
    /\ ~l.dash /\ l.key # NoKey /\ l.val = "none"
    /\ Line(l)
    /\ KeyFits(l)
    /\ ynodes' = Append(WithKey(l, Fresh), NewNode("UNKNOWN", l.indent, l.key, <<>>))
    /\ ystack' = Append(Popped(l.indent), Fresh)
    /\ Accepted(l, TRUE)

\* feedMapValue: "k: v" and "k: |".
FeedMapValue(l) ==
    /\ ~l.dash /\ l.key # NoKey /\ l.val \in {"value", "block"}
    /\ Line(l)
    /\ KeyFits(l)
    /\ ynodes' = WithKey(l, -Number)
    /\ ystack' = Popped(l.indent)
    /\ Accepted(l, FALSE)

\* feedSlice: "- k:" opens a node that later lines fill.
FeedSliceNode(l) ==
    /\ l.dash /\ l.key # NoKey /\ l.val = "none"
    /\ Line(l)
    /\ ItemFits(l)
    /\ ynodes' = Append(WithItem(l, Fresh), NewNode("UNKNOWN", l.indent, l.key, <<>>))
    /\ ystack' = Append(Popped(l.indent), Fresh)
    /\ Accepted(l, TRUE)

\* feedSlice: "- k: v" is a map that is not put on the stack.
FeedSliceMap(l) ==
    /\ l.dash /\ l.key # NoKey /\ l.val = "value"
    /\ Line(l)
    /\ ItemFits(l)
    /\ ynodes' = Append(WithItem(l, Fresh), NewNode("MAP", l.indent, NoKey, l.key :> -Number))
    /\ ystack' = Popped(l.indent)
    /\ Accepted(l, TRUE)

\* "- k: |": the same without the checks of feedSlice.
SliceBlockMap(l) ==
    /\ l.dash /\ l.key # NoKey /\ l.val = "block"
    /\ Line(l)
    /\ ynodes' = Append(WithItem(l, Fresh), NewNode("MAP", l.indent, NoKey, l.key :> -Number))
    /\ ystack' = Popped(l.indent)
    /\ Accepted(l, FALSE)

\* feedSlice: "- v".
FeedSliceScalar(l) ==
    /\ l.dash /\ l.key = NoKey /\ l.val = "value"
    /\ Line(l)
    /\ ItemFits(l)
    /\ ynodes' = WithItem(l, -Number)
    /\ ystack' = Popped(l.indent)
    /\ Accepted(l, FALSE)

\* feedSliceScalar: "- |".  parse goes on whatever it returns.
SliceBlockScalar(l) ==
    /\ l.dash /\ l.key = NoKey /\ l.val = "block"
    /\ Line(l)
    /\ ynodes' = IF ynodes[Parent(l)].type = "MAP" THEN ynodes ELSE WithItem(l, -Number)
    /\ ystack' = Popped(l.indent)
    /\ Accepted(l, FALSE)

\* collectBlockScalar takes a line that is further in than the header; it looks
\* at nothing but the indentation, so one kind of line stands for all.
BlockLine(l) ==
    /\ l.val = "bad"
    /\ ystate = "reading"
    /\ Len(ydoc) < MaxLines
    /\ blockIndent # NoBlock /\ l.indent > blockIndent
    /\ ydoc' = Append(ydoc, l)
    /\ taken' = taken \cup {Number}
    /\ UNCHANGED <<ynodes, ystack, lastIndent, lastMayNest, blockIndent, ystate>>

\* parse returns an error and drops the tree.
RefuseLine(l) ==
    /\ ystate = "reading"
    /\ Len(ydoc) < MaxLines
    /\ blockIndent = NoBlock \/ l.indent <= blockIndent
    /\ \/ UnexpectedIndent(l)
       \/ l.val = "bad"
       \/ l.key = NoKey /\ (~l.dash \/ l.val = "none")
       \/ ~l.dash /\ ~KeyFits(l)
       \/ l.dash /\ l.val # "block" /\ ~ItemFits(l)
    /\ ystate' = "refused"
    /\ ynodes' = <<NewNode("MAP", -1, NoKey, <<>>)>>
    /\ ystack' = <<Root>>
    /\ ydoc' = <<>> /\ taken' = {}
    /\ lastIndent' = -1 /\ lastMayNest' = FALSE /\ blockIndent' = NoBlock

EndOfDocument ==
    /\ ystate = "reading"
    /\ ystate' = "parsed"
    /\ UNCHANGED <<ydoc, ynodes, ystack, lastIndent, lastMayNest, blockIndent, taken>>

YamlNext ==
    \/ EndOfDocument
    \/ \E l \in YamlLines :
          \/ FeedMapNode(l) \/ FeedMapValue(l)
          \/ FeedSliceNode(l) \/ FeedSliceMap(l) \/ FeedSliceScalar(l)
          \/ SliceBlockMap(l) \/ SliceBlockScalar(l)
          \/ BlockLine(l) \/ RefuseLine(l)

-----------------------------------------------------------------------------
(* parseToMap: the value of the tree *)

\* toAny, toMap, toSlice: a node named by "- k:" is wrapped in a map of its own.
RECURSIVE ToAny(_)
ToAny(e) ==
    LET node == ynodes[e]
        Item(i) == IF node.s[i] > 0 /\ ynodes[node.s[i]].name # NoKey
                   THEN [map |-> ynodes[node.s[i]].name :> ToAny(node.s[i])]
                   ELSE ToAny(node.s[i])
    IN  IF e < 0 THEN [line |-> -e]
        ELSE CASE node.type = "MAP"   -> [map |-> [k \in DOMAIN node.m |-> ToAny(node.m[k])]]
               [] node.type = "SLICE" -> [seq |-> [i \in DOMAIN node.s |-> Item(i)]]
               [] OTHER               -> [null |-> TRUE]

-----------------------------------------------------------------------------
(* What the indentation says, without a stack *)

\* The lines that are text: those below a header and further in than it.
TextUpTo[n \in 0..MaxLines] ==
    IF n = 0 THEN {}
    ELSE LET before == TextUpTo[n - 1]
             IsText == \E j \in 1..(n - 1) :
                          /\ j \notin before /\ ydoc[j].val = "block"
                          /\ \A i \in (j + 1)..n : ydoc[i].indent > ydoc[j].indent
         IN  IF IsText THEN before \cup {n} ELSE before

Text == TextUpTo[Len(ydoc)]
Content == (1..Len(ydoc)) \ Text

\* The line a line belongs to: the nearest one before it that is further out.
Above(n) == Max({0} \cup {j \in Content : j < n /\ ydoc[j].indent < ydoc[n].indent})
Below(n) == {j \in Content : Above(j) = n}

RECURSIVE Means(_), Lists(_)

\* The map of the keys on the lines ns.
Keys(ns) == [k \in {ydoc[j].key : j \in ns} |->
                Means(CHOOSE j \in ns : ydoc[j].key = k)]

\* The value of what is written below line n.
Lists(n) ==
    IF Below(n) = {} THEN [null |-> TRUE]
    ELSE IF \A j \in Below(n) : ydoc[j].dash
    THEN LET items == SetToSortSeq(Below(n), <)
         IN  [seq |-> [i \in DOMAIN items |->
                LET j == items[i]
                IN  IF ydoc[j].key = NoKey THEN [line |-> j]
                    ELSE IF ydoc[j].val = "none" THEN [map |-> ydoc[j].key :> Lists(j)]
                    ELSE [map |-> (ydoc[j].key :> [line |-> j]) @@ Keys(Below(j))]]]
    ELSE [map |-> Keys(Below(n))]

Means(n) == IF ydoc[n].val = "none" THEN Lists(n) ELSE [line |-> n]

\* A list item written below an item that has a value of its own: parse puts it
\* beside that item.
ItemBelowItem ==
    \E n \in Content : ydoc[n].dash /\ Above(n) # 0 /\ ydoc[Above(n)].dash
                                    /\ ydoc[Above(n)].val # "none"

\* No key is written twice below line n, nor on it and below it.
UniqueKeys(n) ==
    LET keyed == {j \in Below(n) : ~ydoc[j].dash}
    IN  /\ \A i, j \in keyed : ydoc[i].key = ydoc[j].key => i = j
        /\ (n # 0 /\ ydoc[n].dash /\ ydoc[n].val # "none") =>
              \A j \in keyed : ydoc[j].key # ydoc[n].key

MixedBelow(n) == \E i, j \in Below(n) : ydoc[i].dash /\ ~ydoc[j].dash
Mixed == (\E n \in Content : MixedBelow(n)) \/ (\E n \in Below(0) : ydoc[n].dash)

-----------------------------------------------------------------------------
(* Properties *)

\* A document that is accepted means what its indentation says, whatever was
\* opened and left before: every key and item is in the node of the nearest line
\* further out, in the order of the lines, no key is there twice and none is
\* lost, and a block scalar takes exactly the lines further in than its header.
\* The exceptions are documents that mix keys and items (MixedIsRefused) and
\* items below an item.
ParsedAsIndented ==
    ystate = "parsed" /\ ~Mixed /\ ~ItemBelowItem =>
        /\ taken = Text
        /\ \A n \in {0} \cup Content : UniqueKeys(n)
        /\ ToAny(Root) = (IF ydoc = <<>> THEN [map |-> <<>>] ELSE Lists(0))

\* TestUnmarshalInvalidYAML, "mixed map then list" and "top level list": keys and
\* items in one node are refused with "can not mix map and slice items".
MixedIsRefused == ystate = "parsed" => ~Mixed
=============================================================================
