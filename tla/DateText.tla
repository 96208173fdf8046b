------------------------------- MODULE DateText -------------------------------
(***************************************************************************)
(* rfctime2() of stringutils.C, which puts the text of the Date header     *)
(* together from 32-bit words of four characters, and rfctime(), which     *)
(* writes it character by character.                                       *)
(*                                                                         *)
(* A word is the sequence of its four bytes in memory; LITTLE_ENDIAN is    *)
(* defined by the C library whatever the machine.  A byte is a character   *)
(* or NUL.  The disjunction of bytes that the code needs is that with NUL, *)
(* and that of a blank (0x20) and a digit (0x30 to 0x39), which is the     *)
(* digit.  "  GM" % EN(0x00ffffff) is "  GM" as it stands, because the     *)
(* modulus is the larger number: the mask that was probably meant would    *)
(* have cleared the first blank.                                           *)
(***************************************************************************)
EXTENDS Integers, Sequences

NUL == "NUL"

Digit(i) == <<"0", "1", "2", "3", "4", "5", "6", "7", "8", "9">>[i + 1]

DayNames == <<<<"S", "u", "n">>, <<"M", "o", "n">>, <<"T", "u", "e">>, <<"W", "e", "d">>,
              <<"T", "h", "u">>, <<"F", "r", "i">>, <<"S", "a", "t">>>>

MonthNames == <<<<"J", "a", "n">>, <<"F", "e", "b">>, <<"M", "a", "r">>, <<"A", "p", "r">>,
                <<"M", "a", "y">>, <<"J", "u", "n">>, <<"J", "u", "l">>, <<"A", "u", "g">>,
                <<"S", "e", "p">>, <<"O", "c", "t">>, <<"N", "o", "v">>, <<"D", "e", "c">>>>

dayOfWeek(wday) == DayNames[wday + 1] \o <<",">>
ddigits(n)      == <<" ", Digit(n \div 10), Digit(n % 10), " ">>
months(mon)     == MonthNames[mon + 1] \o <<" ">>

-----------------------------------------------------------------------------
OrByte(a, b) == IF a = NUL \/ (a = " " /\ b # NUL) THEN b ELSE a

OrWord(v, w) == [i \in 1..4 |-> OrByte(v[i], w[i])]

(* & EN(mask), where the bytes of the mask are FF from i to j and else 00. *)
Masked(w, i, j) == [k \in 1..4 |-> IF k \in i..j THEN w[k] ELSE NUL]

(* CTW(ch, 3 - k), EN(ch << ...): one character at place k.                *)
CharAt(ch, k) == [i \in 1..4 |-> IF i = k THEN ch ELSE NUL]

(* SHL(w, 1): one character is shifted out at the front.                   *)
SHL(w) == Tail(w) \o <<NUL>>

itoa4(x) == <<Digit((x \div 1000) % 10), Digit((x \div 100) % 10),
              Digit((x \div 10) % 10), Digit(x % 10)>>

(* Mutation: the tens and the units of the seconds change places.          *)
SecondsSwapped(time) ==
  LET minutes == OrWord(Masked(SHL(ddigits(time.min)), 1, 2), CharAt(":", 3)) IN
  <<OrWord(minutes, CharAt(Digit(time.sec % 10), 4)),
    OrWord(CharAt(Digit(time.sec \div 10), 1), <<" ", " ", "G", "M">>)>>

(* buf[5] and buf[6].                                                      *)
MinutesSeconds(time) ==
  LET minutes == OrWord(Masked(SHL(ddigits(time.min)), 1, 2), CharAt(":", 3)) IN
  <<OrWord(minutes, CharAt(Digit(time.sec \div 10), 4)),
    OrWord(CharAt(Digit(time.sec % 10), 1), <<" ", " ", "G", "M">>)>>

rfctime2(time) ==
  LET buf == dayOfWeek(time.wday) \o ddigits(time.mday) \o months(time.mon)
             \o itoa4(time.year + 1900)
             \o OrWord(Masked(ddigits(time.hour), 1, 3), CharAt(":", 4))
             \o MinutesSeconds(time)[1] \o MinutesSeconds(time)[2]
             \o <<"T", NUL, NUL, NUL>>
  IN  SubSeq(buf, 1, 29)

-----------------------------------------------------------------------------
(* itoa1(): no padding; itoa2(): exactly d digits.                         *)
itoa1(i) ==
  LET digits[k \in Nat] == IF k < 10 THEN <<Digit(k)>> ELSE Append(digits[k \div 10], Digit(k % 10))
  IN  digits[i]

itoa2(i) == <<Digit((i \div 10) % 10), Digit(i % 10)>>

rfctime(time) ==
  DayNames[time.wday + 1] \o <<",", " ">> \o itoa1(time.mday) \o <<" ">>
  \o MonthNames[time.mon + 1] \o <<" ">> \o itoa1(time.year + 1900) \o <<" ">>
  \o itoa2(time.hour) \o <<":">> \o itoa2(time.min) \o <<":">> \o itoa2(time.sec)
  \o <<" ", "G", "M", "T">>

=============================================================================
