------------------------------ MODULE TokenCodec -----------------------------
(***************************************************************************)
(* token: Pack writes the fields of a Token into bytes and a header, and   *)
(* UnPack reads them back; UnPackOld reads the layout without the magic.   *)
(*                                                                         *)
(* A byte has Base values, a short integer (32 bits in the code) is one    *)
(* byte here and a long one (64 bits) is two.  Encryption is opaque: the   *)
(* body opens under the random bytes it was closed with, and its check     *)
(* fails under others.  Base64 is one of a few texts.                      *)
(***************************************************************************)
EXTENDS Integers, Sequences, SequencesExt, FiniteSets, FiniteSetsExt

CONSTANTS Base,      \* values of a byte
          UdidMax,   \* 21: bytes of a udid that are packed
          Packs      \* bound: calls of Pack on one Token

VARIABLES tk,        \* the Token that is packed
          tkVer,     \* its Ver: the two width bits and the random bits
          packed,    \* the packed token, or NoPacket
          packs,     \* history: calls of Pack
          opened     \* what UnPack made of it, or NotOpened

tokenVars == <<tk, tkVer, packed, packs, opened>>

Short == Base - 1    \* 0xFFFFFFFF
RandomBits == SUBSET {1, 2}
Base64Texts == {<<"A", "+", "/", "A">>, <<"A", "/", "=", "=">>, <<"+", "A", "A", "=">>}

NoPacket == [magic |-> FALSE, body |-> <<>>]
NotOpened == [ok |-> "no"]
BadToken == [ok |-> "error"]
Broken == [ok |-> "panic"]

TokenInit ==
    /\ tk \in [idc : {0, 1}, flag : {<<1>>, <<2>>, <<>>, <<1, 0>>}, uid : {0, Short, Short + 1, Base * Base - 2},
               opuid : {2}, expire : {1, 3}, deadline : {0, Short, Short + 2},
               udid : {<<>>, <<1>>, <<3, 2>>, <<1, 2, 3>>, <<1, 1, 1, 1>>, <<3, 1, 1, 1, 1>>}]
    /\ tkVer = [uid64 |-> FALSE, dl64 |-> FALSE, rand |-> {}]
    /\ packed = NoPacket
    /\ packs = 0
    /\ opened = NotOpened

-----------------------------------------------------------------------------
(* Pack *)

\* PackReplace and UnpackReplace: the URL alphabet, without the padding.
PackReplace(text) ==
    LET url == [i \in DOMAIN text |-> CASE text[i] = "+" -> "-" [] text[i] = "/" -> "_" [] OTHER -> text[i]]
    IN  SelectSeq(url, LAMBDA c : c # "=")

UnpackReplace(text) ==
    LET std == [i \in DOMAIN text |-> CASE text[i] = "-" -> "+" [] text[i] = "_" -> "/" [] OTHER -> text[i]]
        pad == IF Len(text) % 4 = 0 THEN 0 ELSE 4 - (Len(text) % 4)
    IN  std \o [i \in 1..pad |-> "="]

\* An integer in little endian, long when it does not fit a short one.
LittleEndian(n, long) == IF long THEN <<n % Base, n \div Base>> ELSE <<n>>
IsLong(n) == n > Short

\* The length is a byte before it is compared with the maximum.
UdidLen(udid) == Min({Len(udid) % Base, UdidMax})

\* FlagUC is a string and goes in as it is, whatever its length.
Body(t) ==
    <<t.idc>> \o t.flag \o LittleEndian(t.uid, IsLong(t.uid)) \o <<t.opuid, t.expire>>
    \o LittleEndian(t.deadline, IsLong(t.deadline))
    \o <<UdidLen(t.udid)>> \o SubSeq(t.udid, 1, UdidLen(t.udid))

\* Ver only gains bits: what an earlier Pack set in it stays.
Pack ==
    /\ packs < Packs
    /\ packs' = packs + 1
    /\ \E r \in RandomBits, text \in Base64Texts :
          /\ tkVer' = [uid64 |-> tkVer.uid64 \/ IsLong(tk.uid),
                       dl64  |-> tkVer.dl64 \/ IsLong(tk.deadline),
                       rand  |-> tkVer.rand \cup r]
          /\ packed' = [magic |-> TRUE, ver |-> tkVer', rand |-> r, body |-> Body(tk),
                        text |-> text, wire |-> PackReplace(text)]
    /\ opened' = NotOpened
    /\ UNCHANGED tk

\* The program changes the Token between two calls.
Change ==
    /\ packs \in 1..(Packs - 1)
    /\ opened # NotOpened
    /\ tk' \in {[tk EXCEPT !.uid = u, !.deadline = d] : u \in {1, Short + 1}, d \in {1, Short + 2}}
    /\ packed' = NoPacket
    /\ opened' = NotOpened
    /\ UNCHANGED <<tkVer, packs>>

-----------------------------------------------------------------------------
(* UnPack *)

BytesValue(bytes) == FoldRight(LAMBDA b, n : b + Base * n, bytes, 0)

\* Mutant: a long field does not move the fields behind it.
Beyond_Short(at, long) == at + 1

Beyond(at, long) == at + IF long THEN 2 ELSE 1

\* Where the fields behind the uid start.
OpAt(ver) == Beyond(3, ver.uid64)
LenAt(ver) == Beyond(OpAt(ver) + 2, ver.dl64)

\* string(b) of a byte is the UTF-8 text of that character: two bytes from the
\* upper half of the bytes.
ByteText(b) == IF b < Base \div 2 THEN <<b>> ELSE <<Base - 1, b>>

\* The fields one after the other; a long uid is read from the front of the body.
Parsed(ver, b) ==
    [ok |-> "yes", idc |-> b[1], flag |-> ByteText(b[2]),
     uid |-> IF ver.uid64 THEN BytesValue(SubSeq(b, 1, 2)) ELSE b[3],
     opuid |-> b[OpAt(ver)], expire |-> b[OpAt(ver) + 1],
     deadline |-> BytesValue(SubSeq(b, OpAt(ver) + 2, LenAt(ver) - 1)),
     udid |-> SubSeq(b, LenAt(ver) + 1, LenAt(ver) + b[LenAt(ver)])]

\* Behind the body, in the same array, is the padding of the cipher's last block.
Padding == [i \in 1..Base |-> 1]

\* An index behind the body is a panic; a slice that ends there has bytes of the
\* padding, or is a panic when it goes beyond the block.
ParseBody(ver, b) ==
    CASE LenAt(ver) > Len(b)                   -> {Broken}
      [] LenAt(ver) + b[LenAt(ver)] <= Len(b) -> {Parsed(ver, b)}
      [] OTHER                                 -> {Broken, Parsed(ver, b \o Padding)}

UnPack ==
    /\ packed.magic
    /\ opened = NotOpened
    /\ opened' \in IF \/ UnpackReplace(packed.wire) # packed.text
                      \/ packed.ver.rand # packed.rand
                   THEN {BadToken} ELSE ParseBody(packed.ver, packed.body)
    /\ UNCHANGED <<tk, tkVer, packed, packs>>

\* A token without the magic is in the old layout: a version, short integers,
\* and a udid that may be shorter than its length says.
OldBody(t) == <<1, t.idc, t.flag[1], t.uid, t.opuid, t.expire, t.deadline, Len(t.udid)>> \o t.udid

PackedElsewhere ==
    /\ packs = 0
    /\ packed = NoPacket
    /\ ~IsLong(tk.uid) /\ ~IsLong(tk.deadline) /\ Len(tk.flag) = 1 /\ Len(tk.udid) < Base
    /\ \E cut \in {0, 1} : packed' = [magic |-> FALSE, body |-> SubSeq(OldBody(tk), 1, Len(OldBody(tk)) - cut)]
    /\ UNCHANGED <<tk, tkVer, packs, opened>>

UnPackOld ==
    LET b == packed.body
    IN  /\ ~packed.magic
        /\ Len(b) >= 8
        /\ opened = NotOpened
        /\ opened' = [ok |-> "yes", idc |-> b[2], flag |-> ByteText(b[3]), uid |-> b[4], opuid |-> b[5],
                      expire |-> b[6], deadline |-> b[7],
                      udid |-> SubSeq(b, 9, Min({Len(b), 8 + b[8]}))]
        /\ UNCHANGED <<tk, tkVer, packed, packs>>

TokenNext == Pack \/ Change \/ UnPack \/ PackedElsewhere \/ UnPackOld

-----------------------------------------------------------------------------
TokenFields == {"idc", "flag", "uid", "opuid", "expire", "deadline"}
Same(f) == opened[f] = tk[f]

\* The flag is one ASCII character, the only flags UnPack reads as they were.
PlainFlag == Len(tk.flag) = 1 /\ tk.flag[1] < Base \div 2

\* What a Token packs is what it unpacks to: every field, and the udid up to the
\* longest one allowed; and the first Pack of a Token is never refused.  Where the
\* code does less: a flag that is not one character moves the fields behind it,
\* and one outside ASCII comes back as two bytes; a udid of 256 bytes or more
\* keeps only as many as its length modulo 256; UnPack reads a uid of 8 bytes
\* from the front of the body (Parsed); and a Token that is packed again keeps
\* the bits of the packing before, so that it may be refused, and is read right
\* only when the width bits still are those of its fields.
TokenRoundTrip ==
    /\ opened.ok \in {"error", "panic"} => packs > 1 \/ Len(tk.flag) # 1
    /\ /\ opened.ok = "yes" /\ packed.magic /\ Len(tk.flag) = 1
       /\ ~packed.ver.uid64 /\ packed.ver.dl64 = IsLong(tk.deadline)
       =>
       /\ \A f \in TokenFields \ {"flag"} : Same(f)
       /\ PlainFlag => Same("flag")
       /\ IsPrefix(opened.udid, tk.udid)
       /\ Len(tk.udid) < Base => Len(opened.udid) = Min({Len(tk.udid), UdidMax})
    /\ opened.ok = "yes" /\ ~packed.magic =>
          /\ \A f \in TokenFields \ {"flag"} : Same(f)
          /\ PlainFlag => Same("flag")
          /\ IsPrefix(opened.udid, tk.udid)
=============================================================================
