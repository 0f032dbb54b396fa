------------------------------ MODULE Sequential -----------------------------
(***************************************************************************)
(* The components whose calls run alone on data of their own: the YAML and *)
(* INI readers and what fills structs from them, the masking of log        *)
(* attributes, the token codec, the Thrift extension header and the ring   *)
(* of idle connections.  A behaviour is one of the component "alone"; the  *)
(* others stay in their initial states.                                    *)
(***************************************************************************)
EXTENDS YamlParser, BlockScalar, FlowParser, YamlDecode, ConfParse, IniConfig,
        Desensitize, TokenCodec, ThriftExt, IdleRing

VARIABLE alone

sequentialVars == <<alone, yamlVars, blockVars, scalarVars, flowVars, decodeVars, confVars,
                    iniVars, attrVars, tokenVars, extVars, ringVars>>

\* One input for each component that has a choice of them.
Components ==
    {"yaml", "block", "scalar", "flow", "decode", "conf", "ini", "attr", "token", "ext", "ring"}

Unless(c, rest) == IF alone = c THEN TRUE ELSE rest

AtRest ==
    /\ Unless("conf", /\ centry = "CparseGo" /\ cfuncs = {}
                      /\ cfields = <<ConfField("int", "", "base"), ConfField("int", "", "base")>>
                      /\ cwords = <<<<<<<<"one">>>>>>, <<<<<<"x">>>>>>>>)
    /\ Unless("block", bheader = <<"|">> /\ bparent = 0)
    /\ Unless("scalar", ytext = <<"d">>)
    /\ Unless("decode", ddoc = <<>> /\ dtype = "int")
    /\ Unless("attr", akey = "pin" /\ ain = Leaf /\ masking = TRUE)
    /\ Unless("token", tk = [idc |-> 0, flag |-> <<1>>, uid |-> 0, opuid |-> 2, expire |-> 1,
                             deadline |-> 0, udid |-> <<>>])
    /\ Unless("ext", extKeys = {})

Init ==
    /\ alone \in Components
    /\ AtRest
    /\ ConfInit /\ YamlInit /\ BlockInit /\ ScalarInit /\ FlowInit /\ DecodeInit
    /\ IniInit /\ AttrInit /\ TokenInit /\ ExtInit /\ RInit

\* A step of c alone.
Others(c) ==
    /\ alone = c /\ UNCHANGED alone
    /\ IF c = "yaml" THEN TRUE ELSE UNCHANGED yamlVars
    /\ IF c = "block" THEN TRUE ELSE UNCHANGED blockVars
    /\ IF c = "scalar" THEN TRUE ELSE UNCHANGED scalarVars
    /\ IF c = "flow" THEN TRUE ELSE UNCHANGED flowVars
    /\ IF c = "decode" THEN TRUE ELSE UNCHANGED decodeVars
    /\ IF c = "conf" THEN TRUE ELSE UNCHANGED confVars
    /\ IF c = "ini" THEN TRUE ELSE UNCHANGED iniVars
    /\ IF c = "attr" THEN TRUE ELSE UNCHANGED attrVars
    /\ IF c = "token" THEN TRUE ELSE UNCHANGED tokenVars
    /\ IF c = "ext" THEN TRUE ELSE UNCHANGED extVars
    /\ IF c = "ring" THEN TRUE ELSE UNCHANGED ringVars

Next ==
    \/ Others("yaml") /\ YamlNext
    \/ Others("block") /\ BlockNext
    \/ Others("scalar") /\ TypeScalar
    \/ Others("flow") /\ FlowNext
    \/ Others("decode") /\ Decode
    \/ Others("conf") /\ ConfNext
    \/ Others("ini") /\ IniNext
    \/ Others("attr") /\ DesensitizeReplaceAttr
    \/ Others("token") /\ TokenNext
    \/ Others("ext") /\ ExtNext
    \/ Others("ring") /\ RNext

Spec == Init /\ [][Next]_sequentialVars

-----------------------------------------------------------------------------
\* What token.go makes of a value on one line: a plain text has the type YAML
\* gives it, and a flow collection the members it is written with.
ValuesAsWritten == ScalarTyped /\ FlowMeansTokens

\* What gconfig and confparse make of an INI file: sections, values and extension
\* lines as read, and fields of a struct as the words of their keys say.
IniIntoStructs == IniAsRead /\ ConfFieldsAsWritten
=============================================================================
