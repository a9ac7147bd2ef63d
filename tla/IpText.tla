------------------------------- MODULE IpText -------------------------------
(***************************************************************************)
(* Internet addresses and their written form: ts_inet_pton and             *)
(* ts_inet_ntop of both families (src/tinysocket_parser.inl), behind       *)
(* ip_address::from_string, ip_address_v6::from_string and the stream      *)
(* operators.                                                              *)
(*                                                                         *)
(* A text is a sequence of tokens: a colon, a maximal run of hexadecimal   *)
(* digits (its value is what counts), a dotted part (its fields, each a    *)
(* sequence of decimal digits), or anything else.  An address of the       *)
(* sixth version is eight 16-bit words: two bytes of the code are a word.  *)
(* The reader of the sixth version is a state machine, one step for each   *)
(* turn of its loop that a token ends; the rest are operators.             *)
(***************************************************************************)
EXTENDS Naturals, Sequences

CONSTANTS Texts,        \* texts to read
          Texts4,       \* dotted parts to read as an address of version 4
          Addresses     \* addresses to print and read again

Words == 0 .. 65535
Octets == 0 .. 255

Colon == [kind |-> "colon"]
Hex(v) == [kind |-> "hex", val |-> v]
Dotted(fs) == [kind |-> "dotted", fields |-> fs]
Other == [kind |-> "other"]

Tokens == {Colon, Other} \cup [kind : {"hex"}, val : Nat]
            \cup [kind : {"dotted"}, fields : Seq(Seq(0 .. 9))]

\* Runs of digits are maximal, and a dotted part begins with its first digit.
Lexed(s) == \A n \in 1 .. Len(s) - 1 :
              s[n].kind = "hex" => s[n + 1].kind \in {"colon", "other"}

ASSUME TextsAssumption ==
  /\ \A s \in Texts : s \in Seq(Tokens) /\ Lexed(s)
  /\ Texts4 \subseteq Seq(Seq(0 .. 9))
  /\ Addresses \subseteq [1 .. 8 -> Words]

Bad == 256      \* no octet

-----------------------------------------------------------------------------
(* Version 4.                                                              *)

\* sprintf of an octet with %u.
Decimal(n) ==
  IF n < 10 THEN <<n>>
  ELSE IF n < 100 THEN <<n \div 10, n % 10>>
  ELSE <<n \div 100, (n \div 10) % 10, n % 10>>

\* ts_inet_ntop4: the fields it prints.
Ntop4(a) == [n \in 1 .. 4 |-> Decimal(a[n])]

\* Defect for mutation testing: a leading zero is read.
OctetLeadingZero(f) ==
  LET v[n \in 0 .. Len(f)] ==
        IF n = 0 THEN 0
        ELSE IF v[n - 1] * 10 + f[n] > 255 THEN Bad
        ELSE v[n - 1] * 10 + f[n]
  IN  v[Len(f)]

\* The octet the digits of a field add up to: one digit at a time, none after
\* a zero that stands first, none that leads beyond 255.
Octet(f) ==
  LET v[n \in 0 .. Len(f)] ==
        IF n = 0 THEN 0
        ELSE IF \/ n > 1 /\ v[n - 1] = 0
                \/ v[n - 1] * 10 + f[n] > 255
             THEN Bad
             ELSE v[n - 1] * 10 + f[n]
  IN  v[Len(f)]

\* ts_inet_pton4 returns 1: four fields, none empty, each an octet.
Pton4Reads(fs) ==
  /\ Len(fs) = 4
  /\ \A n \in 1 .. 4 : fs[n] # <<>> /\ Octet(fs[n]) # Bad

\* The words of a dotted part that Pton4Reads.
WordsOf4(fs) == <<Octet(fs[1]) * 256 + Octet(fs[2]),
                  Octet(fs[3]) * 256 + Octet(fs[4])>>

-----------------------------------------------------------------------------
(* Version 6: printing.  Positions 1 .. 8 are i = 0 .. 7 of the code.      *)

\* A maximal run of zero words from position b on, of length l.
IsZeroRun(w, b, l) ==
  /\ l > 0
  /\ \A i \in b .. b + l - 1 : w[i] = 0
  /\ b > 1 => w[b - 1] # 0
  /\ b + l <= 8 => w[b + l] # 0

\* The longest, and of two the first; a single zero is written as it is.
IsBest(w, b, l) ==
  /\ l >= 2
  /\ IsZeroRun(w, b, l)
  /\ \A c, m \in 1 .. 8 : c + m <= 9 /\ IsZeroRun(w, c, m) =>
       m < l \/ (m = l /\ b <= c)

\* The last 32 bits are printed as an address of version 4.
Encapsulates4(w, b, l) == b = 1 /\ (l = 6 \/ (l = 5 /\ w[6] = 65535))

\* Defect for mutation testing: a trailing run ends in a single colon.
TrailerNever(b, l) == <<>>

Trailer(b, l) == IF b + l = 9 THEN <<Colon>> ELSE <<>>

\* What turn i of the loop prints; b = 9 if no run is left out.
Printed(w, b, l, i) ==
  LET last4 == Encapsulates4(w, b, l)
      octets == [n \in 1 .. 4 |-> IF n % 2 = 1 THEN w[6 + (n + 1) \div 2] \div 256
                                  ELSE w[6 + (n + 1) \div 2] % 256]
  IN  IF i \in b .. b + l - 1 THEN IF i = b THEN <<Colon>> ELSE <<>>
      ELSE IF last4 /\ i = 8 THEN <<>>
      ELSE (IF i = 1 THEN <<>> ELSE <<Colon>>)
             \o (IF last4 /\ i = 7 THEN <<Dotted(Ntop4(octets))>> ELSE <<Hex(w[i])>>)

NoRun == <<9, 0>>

BestRun(w) ==
  IF \E b, l \in 1 .. 8 : b + l <= 9 /\ IsBest(w, b, l)
  THEN CHOOSE r \in (1 .. 8) \X (1 .. 8) : r[1] + r[2] <= 9 /\ IsBest(w, r[1], r[2])
  ELSE NoRun

Ntop6(w) ==
  LET b == BestRun(w)[1]
      l == BestRun(w)[2]
      p(i) == Printed(w, b, l, i)
  IN  p(1) \o p(2) \o p(3) \o p(4) \o p(5) \o p(6) \o p(7) \o p(8)
        \o (IF b = 9 THEN <<>> ELSE Trailer(b, l))

-----------------------------------------------------------------------------
(* Version 6: reading.                                                     *)

VARIABLES
  text,        \* the string
  origin,      \* history: the address it was printed from, if it was
  pos,         \* src: the next token
  words,       \* tmp up to tp
  colonp,      \* words before the double colon, or NoColon
  saw_xdigit,
  val,
  result,      \* "start", "reading", "end" of the loop, 0, 1
  dst          \* the address read

vars == <<text, origin, pos, words, colonp, saw_xdigit, val, result, dst>>

NoColon == 9

Init ==
  /\ \/ text \in Texts /\ origin = <<>>
     \/ origin \in Addresses /\ text = Ntop6(origin)
     \/ \E fs \in Texts4 : text = <<Dotted(fs)>> /\ origin = <<>>
  /\ pos = 1
  /\ words = <<>>
  /\ colonp = NoColon
  /\ saw_xdigit = FALSE
  /\ val = 0
  /\ result = "start"
  /\ dst = <<>>

Return0 == /\ result' = "0"
           /\ UNCHANGED <<text, origin, pos, words, colonp, saw_xdigit, val, dst>>

\* A leading colon must be the first of two; the loop begins at the second.
Start ==
  /\ result = "start"
  /\ IF Len(text) >= 1 /\ text[1] = Colon
     THEN IF Len(text) >= 2 /\ text[2] = Colon
          THEN /\ pos' = 2
               /\ result' = "reading"
               /\ UNCHANGED <<text, origin, words, colonp, saw_xdigit, val, dst>>
          ELSE Return0
     ELSE /\ result' = "reading"
          /\ UNCHANGED <<text, origin, pos, words, colonp, saw_xdigit, val, dst>>

At(kind) == /\ result = "reading"
            /\ pos <= Len(text)
            /\ text[pos].kind = kind

ReadDigits ==
  /\ At("hex")
  /\ IF text[pos].val > 65535
     THEN Return0
     ELSE /\ val' = text[pos].val
          /\ saw_xdigit' = TRUE
          /\ pos' = pos + 1
          /\ UNCHANGED <<text, origin, words, colonp, result, dst>>

\* A colon without digits before it: the double colon.
ReadDoubleColon ==
  /\ At("colon")
  /\ ~saw_xdigit
  /\ IF colonp # NoColon
     THEN Return0
     ELSE /\ colonp' = Len(words)
          /\ pos' = pos + 1
          /\ UNCHANGED <<text, origin, words, saw_xdigit, val, result, dst>>

\* Defect for mutation testing: a colon may be the last character.
ReadColonAnywhere ==
  /\ At("colon")
  /\ saw_xdigit
  /\ IF Len(words) + 1 > 8
     THEN Return0
     ELSE /\ words' = Append(words, val)
          /\ saw_xdigit' = FALSE
          /\ val' = 0
          /\ pos' = pos + 1
          /\ UNCHANGED <<text, origin, colonp, result, dst>>

\* A colon after digits: the word is stored, unless the text ends or the
\* address is full.
ReadColon ==
  /\ At("colon")
  /\ saw_xdigit
  /\ IF pos = Len(text) \/ Len(words) + 1 > 8
     THEN Return0
     ELSE /\ words' = Append(words, val)
          /\ saw_xdigit' = FALSE
          /\ val' = 0
          /\ pos' = pos + 1
          /\ UNCHANGED <<text, origin, colonp, result, dst>>

\* Defect for mutation testing: four bytes are written without asking for room.
ReadDottedAnywhere ==
  /\ At("dotted")
  /\ IF pos = Len(text) /\ Pton4Reads(text[pos].fields)
     THEN /\ words' = words \o WordsOf4(text[pos].fields)
          /\ saw_xdigit' = FALSE
          /\ result' = "end"
          /\ UNCHANGED <<text, origin, pos, colonp, val, dst>>
     ELSE Return0

\* A dot: ts_inet_pton4 reads all that follows the last colon.
ReadDotted ==
  /\ At("dotted")
  /\ IF Len(words) + 2 <= 8 /\ pos = Len(text) /\ Pton4Reads(text[pos].fields)
     THEN /\ words' = words \o WordsOf4(text[pos].fields)
          /\ saw_xdigit' = FALSE
          /\ result' = "end"
          /\ UNCHANGED <<text, origin, pos, colonp, val, dst>>
     ELSE Return0

ReadOther == At("other") /\ Return0

EndOfText ==
  /\ result = "reading"
  /\ pos > Len(text)
  /\ result' = "end"
  /\ UNCHANGED <<text, origin, pos, words, colonp, saw_xdigit, val, dst>>

\* The words, those after the double colon shifted to the end.
Shifted(w) ==
  IF colonp = NoColon THEN w
  ELSE [i \in 1 .. 8 |->
          IF i <= colonp THEN w[i]
          ELSE IF i > 8 - (Len(w) - colonp) THEN w[i - (8 - Len(w))]
          ELSE 0]

\* After the loop: the last word, the shift, and the test for eight words.  A
\* double colon in an address that is full already stands for nothing: 0.
Finish ==
  /\ result = "end"
  /\ LET w == IF saw_xdigit THEN Append(words, val) ELSE words
     IN  IF Len(w) > 8 \/ (colonp # NoColon /\ Len(w) = 8)
            \/ Len(Shifted(w)) # 8
         THEN Return0
         ELSE /\ dst' = Shifted(w)
              /\ result' = "1"
              /\ UNCHANGED <<text, origin, pos, words, colonp, saw_xdigit, val>>

Next == \/ Start
        \/ ReadDigits \/ ReadDoubleColon \/ ReadColon \/ ReadDotted \/ ReadOther
        \/ EndOfText \/ Finish

Spec == Init /\ [][Next]_vars

-----------------------------------------------------------------------------
TypeOK ==
  /\ pos \in Nat \ {0}
  /\ words \in Seq(Words)
  /\ Len(words) <= 8
  /\ colonp \in 0 .. 8 \cup {NoColon}
  /\ colonp # NoColon => colonp <= Len(words)
  /\ saw_xdigit \in BOOLEAN
  /\ val \in Words
  /\ result \in {"start", "reading", "end", "0", "1"}
  /\ dst \in [1 .. 8 -> Words] \cup {<<>>}

\* What a text means, whatever the way it is read: a list of groups is groups
\* with single colons between them; the last may be dotted and is two words.
IsGroup(t) == \/ t.kind = "hex" /\ t.val \in Words
              \/ t.kind = "dotted"

IsList(s) ==
  \/ s = <<>>
  \/ /\ Len(s) % 2 = 1
     /\ \A n \in DOMAIN s : IF n % 2 = 1 THEN IsGroup(s[n]) ELSE s[n] = Colon
     /\ \A n \in DOMAIN s : s[n].kind = "dotted" =>
          /\ n = Len(s)
          /\ \E a \in [1 .. 4 -> {Octet(s[n].fields[k]) : k \in DOMAIN s[n].fields}
                                   \cap Octets] : s[n].fields = Ntop4(a)

ListWords(s) ==
  LET k == (Len(s) + 1) \div 2
      hexes == [n \in 1 .. k |-> s[2 * n - 1].val]
  IN  IF s = <<>> THEN <<>>
      ELSE IF s[Len(s)].kind = "hex" THEN hexes
      ELSE [n \in 1 .. k - 1 |-> s[2 * n - 1].val] \o WordsOf4(s[Len(s)].fields)

\* The addresses text s denotes: eight words, or fewer around one double colon
\* that stands for at least one zero word.
Meaning(s) ==
  {ListWords(t) : t \in {u \in {s} : IsList(u) /\ Len(ListWords(u)) = 8}}
  \cup
  {LET l == ListWords(SubSeq(s, 1, n - 1))
       r == ListWords(SubSeq(s, n + 2, Len(s)))
   IN  l \o [i \in 1 .. 8 - Len(l) - Len(r) |-> 0] \o r :
     n \in {m \in 1 .. Len(s) - 1 :
       /\ s[m] = Colon /\ s[m + 1] = Colon
       /\ IsList(SubSeq(s, 1, m - 1))
       /\ \A k \in 1 .. m - 1 : s[k].kind # "dotted"
       /\ IsList(SubSeq(s, m + 2, Len(s)))
       /\ Len(ListWords(SubSeq(s, 1, m - 1)))
            + Len(ListWords(SubSeq(s, m + 2, Len(s)))) <= 7}}

\* ts_inet_pton6 reads the address a text denotes and refuses every other text,
\* whatever the place of the double colon and of the dotted part.
ReadsTheMeaning ==
  /\ result = "1" => Meaning(text) = {dst}
  /\ result = "0" => Meaning(text) = {}

\* What ts_inet_ntop6 prints, with its run of zeros left out and its dotted
\* end, ts_inet_pton6 reads as the same address.
RoundTrip == origin # <<>> /\ result \in {"0", "1"} => result = "1" /\ dst = origin

\* ts_inet_pton4 reads exactly the texts ts_inet_ntop4 prints, each as the
\* address it was printed from.
ReadsWhatPrints4 ==
  \A n \in DOMAIN text : text[n].kind = "dotted" =>
    LET fs == text[n].fields
    IN  /\ Pton4Reads(fs) => fs = Ntop4([k \in 1 .. 4 |-> Octet(fs[k])])
        /\ ~Pton4Reads(fs) =>
             Len(fs) # 4 \/ \E k \in 1 .. 4 : \A o \in Octets : fs[k] # Decimal(o)
=============================================================================
