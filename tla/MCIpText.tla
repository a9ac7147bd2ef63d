------------------------------ MODULE MCIpText ------------------------------
(***************************************************************************)
(* The instance of IpText for TLC.  Texts: every sequence of up to six     *)
(* tokens, and every list of groups with or without a double colon up to   *)
(* more than an address can hold.  Addresses: words that are zero, small   *)
(* or all ones, in every arrangement.  Dotted parts: three to five fields, *)
(* one of them any digits around the limit of an octet.                    *)
(***************************************************************************)
EXTENDS IpText

Good4 == <<<<1, 2, 7>>, <<0>>, <<2, 5, 5>>, <<9>>>>

MCTokens == {Colon, Other, Hex(0), Hex(10), Hex(65536),
             Dotted(Good4), Dotted(<<<<1>>, <<2>>, <<>>, <<3>>>>)}

ShortTexts ==
  {s \in UNION {[1 .. n -> MCTokens] : n \in 0 .. 6} :
     \A n \in 1 .. Len(s) - 1 :
       s[n].kind \in {"hex", "dotted"} => s[n + 1].kind \in {"colon", "other"}}

\* k groups with the values v + 1 .. v + k.
List(v, k) == [n \in 1 .. IF k = 0 THEN 0 ELSE 2 * k - 1 |->
                 IF n % 2 = 1 THEN Hex(v + (n + 1) \div 2) ELSE Colon]

LongTexts ==
  UNION {
    LET a == List(0, i)
        b == List(20, j)
        gap == <<Colon, Colon>>
        end == IF j = 0 THEN <<Dotted(Good4)>> ELSE <<Colon, Dotted(Good4)>>
    IN  {a, a \o gap \o b, a \o <<Colon>> \o b, a \o gap \o b \o end,
         a \o gap \o b \o gap, a \o gap \o b \o <<Colon>>, b \o end} :
    i \in 0 .. 9, j \in 0 .. 9}

MCTexts == ShortTexts \cup LongTexts

Field == UNION {[1 .. n -> {0, 2, 5, 6}] : n \in 0 .. 4}

MCTexts4 ==
  {[n \in 1 .. k |-> IF n = place THEN f ELSE <<7>>] :
     k \in 3 .. 5, place \in 1 .. 4, f \in Field}

MCAddresses == [1 .. 8 -> {0, 1, 65535}]
=============================================================================
