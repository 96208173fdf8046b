----------------------------- MODULE StringUtils -----------------------------
(***************************************************************************)
(* The text functions of stringutils.C and split.H.  Text is a sequence of *)
(* bytes.  The functions that append to a string are given as what they    *)
(* append; those that first count the space they need and then fill it     *)
(* have both halves, because nothing in the code compares the two.         *)
(***************************************************************************)
EXTENDS Integers, Sequences, SequencesExt, Bitwise

Byte == 0..255

Percent == 37
Plus    == 43
Space   == 32
Amp     == 38
Equal   == 61
Less    == 60
Greater == 62
Quote   == 34
Apos    == 39

Digits    == 48..57
Uppercase == 65..90
Lowercase == 97..122
Alnum     == Digits \cup Uppercase \cup Lowercase

(* Every byte replaced by a text.                                          *)
Expand(text, Replacement(_)) == FoldLeft(LAMBDA done, c : done \o Replacement(c), << >>, text)

SumOf(text, Size(_)) == FoldLeft(LAMBDA sum, c : sum + Size(c), 0, text)

-----------------------------------------------------------------------------
(***************************************************************************)
(* urlDecode, urlEncode.                                                   *)
(***************************************************************************)
(* A char is unsigned; other characters than hexadecimal digits are not    *)
(* refused.                                                                *)
HexCharToInt(c) ==
  (IF c <= 57 THEN c - 48 ELSE IF c <= 90 THEN c - 65 + 10 ELSE c - 97 + 10) % 256

IntToHexChar(i) == IF i < 10 THEN i + 48 ELSE i - 10 + 65

(* _urldecode_memcpy().                                                    *)
Unplus(text) == [i \in DOMAIN text |-> IF text[i] = Plus THEN Space ELSE text[i]]

(* Mutation: an escape at the very end of the text is not seen.            *)
NoRoomForEscape(text, i) == i + 3 > Len(text)

(* next + 2 >= end: there are no two bytes behind the % at i.              *)
Incomplete(text, i) == i + 2 > Len(text)

(* hexCharToInt(c) << 4, as a char.                                        *)
UpperNibble(c) == (HexCharToInt(c) * 16) % 256

(* doURLDecode(), from the read position on.                               *)
DoURLDecode(text) ==
  LET n == Len(text)
      escape(i) == UpperNibble(text[i + 1]) | HexCharToInt(text[i + 2])
      from[i \in 1..(n + 1)] ==
        IF i > n THEN << >>
        ELSE IF text[i] # Percent THEN Unplus(<<text[i]>>) \o from[i + 1]
        ELSE IF Incomplete(text, i) THEN Unplus(SubSeq(text, i, n))
        ELSE <<escape(i)>> \o from[i + 3]
  IN  from[1]

(* What urlEncode() leaves as it is: alphanumerics and ~ ! * ( ) '         *)
Unreserved == Alnum \cup {126, 33, 42, 40, 41, 39}

UrlEscape(c) ==
  IF c \in Unreserved THEN <<c>> ELSE <<Percent, IntToHexChar(c \div 16), IntToHexChar(c % 16)>>

UrlEncode(text) == Expand(text, UrlEscape)

(* Its return value.                                                       *)
UrlEncodedLen(text) == Len(text) + SumOf(text, LAMBDA c : IF c \in Unreserved THEN 0 ELSE 2)

-----------------------------------------------------------------------------
(***************************************************************************)
(* htmlEscape, htmlAttributeEscape, jsEscape.                              *)
(***************************************************************************)
AmpEntity  == <<38, 97, 109, 112, 59>>        (* &amp;  *)
LtEntity   == <<38, 108, 116, 59>>            (* &lt;   *)
GtEntity   == <<38, 103, 116, 59>>            (* &gt;   *)
QuotEntity == <<38, 113, 117, 111, 116, 59>>  (* &quot; *)
AposEntity == <<38, 97, 112, 111, 115, 59>>   (* &apos; *)

(* Mutation: an ampersand needs no escape.                                 *)
HtmlMarkup(c) ==
  CASE c = Less -> LtEntity
    [] c = Greater -> GtEntity
    [] OTHER -> <<c>>

HtmlEntity(c) ==
  CASE c = Amp -> AmpEntity
    [] c = Less -> LtEntity
    [] c = Greater -> GtEntity
    [] OTHER -> <<c>>

HtmlEscape(text) == Expand(text, HtmlEntity)

(* Mutation: the size of one entity is counted for all.                    *)
HtmlSizeUniform(c) == IF c \in {Amp, Less, Greater} THEN 4 ELSE 1

(* The first loop of htmlEscape(): the space it makes.                     *)
HtmlSize(c) == IF c = Amp THEN 5 ELSE IF c \in {Less, Greater} THEN 4 ELSE 1

HtmlEscapedLen(text) == SumOf(text, HtmlSize)

AttributeEntity(c) ==
  CASE c = Quote -> QuotEntity
    [] c = Apos -> AposEntity
    [] OTHER -> HtmlEntity(c)

HtmlAttributeEscape(text) == Expand(text, AttributeEntity)

(* \u00XX for everything but alphanumerics.                                *)
JsUnicode(c) ==
  IF c \in Alnum THEN <<c>>
  ELSE <<92, 117, 48, 48, IntToHexChar(c \div 16), IntToHexChar(c % 16)>>

JsEscape(text) == Expand(text, JsUnicode)

JsEscapedLen(text) == SumOf(text, LAMBDA c : IF c \in Alnum THEN 1 ELSE 6)

-----------------------------------------------------------------------------
(***************************************************************************)
(* split and parseQueryString.                                             *)
(***************************************************************************)
(* memchr(): the first c in text, or 0.                                    *)
IndexOf(text, c) == SelectInSeq(text, LAMBDA d : d = c)

(* split: the values that successive calls of read() return.  A delimiter  *)
(* at the very end ends the last value.                                    *)
Split(text, delim) ==
  LET n == Len(text)
      from[i \in 1..(n + 1)] ==
        IF i > n THEN << >>
        ELSE LET k == IndexOf(SubSeq(text, i, n), delim)
             IN  IF k = 0 THEN <<SubSeq(text, i, n)>>
                 ELSE <<SubSeq(text, i, i + k - 2)>> \o from[i + k]
  IN  from[1]

(* One part of a query string, decoded into the pool: the pool and the     *)
(* indices <<nS, nE, vS, vE>> of name and value.                           *)
ParsedPart(pool, part) ==
  LET eq == IndexOf(part, Equal) IN
  IF eq = 0
  THEN LET named == pool \o DoURLDecode(part)
       IN  [pool |-> named, indices |-> <<Len(pool), Len(named), -1, -1>>]
  ELSE LET named  == pool \o DoURLDecode(SubSeq(part, 1, eq - 1))
           valued == named \o DoURLDecode(SubSeq(part, eq + 1, Len(part)))
       IN  [pool |-> valued, indices |-> <<Len(pool), Len(named), Len(named), Len(valued)>>]

(* Empty parts are skipped.                                                *)
Parts(text) == SelectSeq(Split(text, Amp), LAMBDA part : part # << >>)

ParseQueryString(text, pool, indices) ==
  FoldLeft(LAMBDA done, part :
             LET parsed == ParsedPart(done.pool, part)
             IN  [pool |-> parsed.pool, indices |-> Append(done.indices, parsed.indices)],
           [pool |-> pool, indices |-> indices],
           Parts(text))

=============================================================================
