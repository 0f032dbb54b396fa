------------------------------ MODULE IniConfig ------------------------------
(***************************************************************************)
(* gconfig: DoConfParse reads sections, "k = v" lines and the indented     *)
(* lines that extend them (rule, Salience, limits) into Gcf and            *)
(* GlineExtend; GConfRule builds the rules of a server from the extensions *)
(* and picks one; confparse.ParseExt looks the extensions of an entry up.  *)
(*                                                                         *)
(* Gcf is keyed by section and key, GlineExtend by key and by the text of  *)
(* the whole line.  A text is the value and how its "=" is spaced.         *)
(***************************************************************************)
EXTENDS Integers, Sequences, SequencesExt, FiniteSets, FiniteSetsExt, TLC

CONSTANTS IniSections, IniValues, MaxIniLines   \* MaxIniLines: bound on a file

VARIABLES ilines,   \* history: the lines read
          gcf,      \* Gcf: section -> key -> values
          lineExt,  \* GlineExtend, of the one key "k": text -> list of maps
          imap,     \* the open section, or NoSection
          lastText, \* ex_key, or NoText
          newLine,  \* newLinetag
          rules,    \* the rules of AddRule, NotBuilt, or Panicked
          picked    \* the server of the last SvrSelectFromJson, or NoText

iniVars == <<ilines, gcf, lineExt, imap, lastText, newLine, rules, picked>>

NoSection == "no section"
NoText == [v |-> "none", spaced |-> TRUE]
NotBuilt == {[text |-> NoText, when |-> "unbuilt", salience |-> 0]}
Panicked == {[text |-> NoText, when |-> "panic", salience |-> 0]}

ItemTexts == [v : IniValues, spaced : BOOLEAN]
\* Extension lines: a rule or a salience; "x" is a salience that is no number.
Extensions == {<<"rule", "odd">>, <<"rule", "any">>, <<"Salience", "1">>,
               <<"Salience", "2">>, <<"Salience", "x">>}

IniInit ==
    /\ ilines = <<>>
    /\ gcf = <<>>
    /\ lineExt = <<>>
    /\ imap = NoSection
    /\ lastText = NoText
    /\ newLine = FALSE
    /\ rules = NotBuilt
    /\ picked = NoText

-----------------------------------------------------------------------------
(* DoConfParse, one action per form of line *)

Reading == rules = NotBuilt /\ Len(ilines) < MaxIniLines

\* "[section]": the section starts empty even if it was there.
SectionLine ==
    /\ Reading
    /\ \E s \in IniSections :
          /\ ilines' = Append(ilines, [is |-> "section", s |-> s])
          /\ gcf' = (s :> <<>>) @@ gcf
          /\ imap' = s
    /\ UNCHANGED <<lineExt, lastText, newLine, rules, picked>>

\* "k = v": outside of a section it is passed over.
ItemLine ==
    /\ Reading
    /\ \E t \in ItemTexts :
          /\ ilines' = Append(ilines, [is |-> "item", t |-> t])
          /\ IF imap = NoSection THEN UNCHANGED <<gcf, lastText, newLine>>
             ELSE /\ gcf' = [gcf EXCEPT ![imap] = Append(@, t.v)]
                  /\ lastText' = t
                  /\ newLine' = TRUE
    /\ UNCHANGED <<lineExt, imap, rules, picked>>

\* getIkExd: the first extension after an entry starts a map of its own, the
\* ones that follow are put into the last map of that text.
GetIkExd(k, v) ==
    IF lastText \in DOMAIN lineExt
    THEN [lineExt EXCEPT ![lastText] = IF newLine THEN Append(@, k :> v)
                                       ELSE [@ EXCEPT ![Len(@)] = (k :> v) @@ @]]
    ELSE (lastText :> <<k :> v>>) @@ lineExt

ExtensionLine ==
    /\ Reading
    /\ \E e \in Extensions :
          /\ ilines' = Append(ilines, [is |-> "ext", e |-> e])
          /\ lineExt' = GetIkExd(e[1], e[2])
    /\ newLine' = FALSE
    /\ UNCHANGED <<gcf, imap, lastText, rules, picked>>

OtherLine ==
    /\ Reading
    /\ ilines' = Append(ilines, [is |-> "other"])
    /\ UNCHANGED <<gcf, lineExt, imap, lastText, newLine, rules, picked>>

\* confparse.ParseExt: the line is put together again from the key and the value.
ParseExt(s, i) ==
    LET qk == [v |-> gcf[s][i], spaced |-> TRUE]
    IN  IF qk \in DOMAIN lineExt THEN lineExt[qk] ELSE <<>>

-----------------------------------------------------------------------------
(* GConfRule *)

Salience == [n \in {"1", "2"} |-> IF n = "1" THEN 1 ELSE 2]

\* AddRule: a rule for every map that has both a condition and a salience; a
\* salience that is not a number panics.  Without any extension of the key it is
\* an error and nothing is built.
AddRule ==
    LET texts == DOMAIN lineExt \ {NoText}
        maps == UNION {{<<t, m>> : m \in ToSet(lineExt[t])} : t \in texts}
        both == {x \in maps : {"rule", "Salience"} \subseteq DOMAIN x[2]}
    IN  /\ rules = NotBuilt
        /\ texts # {}
        /\ rules' = IF \E x \in both : x[2]["Salience"] = "x" THEN Panicked
                    ELSE {[text |-> x[1], when |-> x[2]["rule"],
                           salience |-> Salience[x[2]["Salience"]]] : x \in both}
        /\ UNCHANGED <<ilines, gcf, lineExt, imap, lastText, newLine, picked>>

\* grule runs the rule with the highest salience among those that match.
RuleMatches(r, input) == r.when = "any" \/ r.when = input

SvrSelect ==
    /\ rules \notin {NotBuilt, Panicked}
    /\ \E input \in {"odd", "even"} :
          LET m == {r \in rules : RuleMatches(r, input)}
          IN  IF m = {} THEN picked' = NoText
              ELSE \E r \in m : /\ \A q \in m : q.salience <= r.salience
                                /\ picked' = r.text
    /\ UNCHANGED <<ilines, gcf, lineExt, imap, lastText, newLine, rules>>

IniNext == SectionLine \/ ItemLine \/ ExtensionLine \/ OtherLine \/ AddRule \/ SvrSelect

-----------------------------------------------------------------------------
(* What the lines say *)

Form(f) == {i \in DOMAIN ilines : ilines[i].is = f}
Taken == {i \in Form("item") : \E h \in Form("section") : h < i}
HeaderOf(i) == Max({h \in Form("section") : h < i})
\* The entry a line belongs to; 0 before the first one.
EntryOf(i) == Max({0} \cup {j \in Taken : j < i})
TextAt(i) == IF i = 0 THEN NoText ELSE ilines[i].t
ExtsOf(i) == {j \in Form("ext") : EntryOf(j) = i}
ExtMap(i) == [k \in {ilines[j].e[1] : j \in ExtsOf(i)} |->
                ilines[Max({j \in ExtsOf(i) : ilines[j].e[1] = k})].e[2]]
InOrder(S, Op(_)) == LET seq == SetToSortSeq(S, <) IN [n \in DOMAIN seq |-> Op(seq[n])]
ExtsFor(t) == InOrder({i \in Taken \cup {0} : TextAt(i) = t /\ ExtsOf(i) # {}}, ExtMap)

\* The configuration is what the lines say: a section has the values below its
\* last header in order, and the extensions of an entry are the lines up to the
\* next entry, even past a header, one map per entry that has any.  ParseExt
\* gives the extensions of the entries spelled "k = v".  A server that a rule
\* picks has its condition and its salience from one and the same entry.
IniAsRead ==
    /\ DOMAIN gcf = {ilines[h].s : h \in Form("section")}
    /\ \A s \in DOMAIN gcf :
          LET last  == Max({h \in Form("section") : ilines[h].s = s})
              items == {i \in Taken : HeaderOf(i) = last}
          IN  /\ gcf[s] = InOrder(items, LAMBDA i : ilines[i].t.v)
              /\ \A n \in DOMAIN gcf[s] : ParseExt(s, n) = ExtsFor([v |-> gcf[s][n], spaced |-> TRUE])
    /\ DOMAIN lineExt = {TextAt(EntryOf(j)) : j \in Form("ext")}
    /\ \A t \in DOMAIN lineExt : lineExt[t] = ExtsFor(t)
    /\ picked # NoText =>
          \E i \in Taken : TextAt(i) = picked /\ {"rule", "Salience"} \subseteq DOMAIN ExtMap(i)
=============================================================================
