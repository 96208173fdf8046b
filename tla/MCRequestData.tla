---------------------------- MODULE MCRequestData ----------------------------
(* RequestData for TLC.                                                    *)
EXTENDS RequestData

(* Letters and digits, the characters of query strings and of markup, and  *)
(* bytes whose hexadecimal digits lie on both sides of 9 and A.            *)
Chars == {97, 53, Percent, Plus, Space, Amp, Equal, Less, Quote, Apos, Question, 0, 175, 255}

Values == {<< >>} \cup {<<c>> : c \in Chars} \cup {<<Percent, 53, 97>>, <<Space, 126>>, LtEntity}

MCForms ==
  {<<<<<<97>>, v>>>> : v \in Values} \cup {<<<<v, << >>>>>> : v \in Values}
  \cup {<<<<<<97>>, u>>, <<<<97>>, v>>>> : u \in {<< >>, <<Amp>>, <<Greater, 97>>}, v \in {<< >>, <<Plus>>, <<Equal>>}}
  \cup {<<<<<<97>>, <<53>>>>, <<<< >>, <<Amp>>>>, <<<<Equal, 97>>, << >>>>>>}

(* Strings of the characters that matter, complete or cut off anywhere;    *)
(* the letter z (122) is no hexadecimal digit.                             *)
MCRawQueries ==
  BoundedSeq({Percent, Amp, Equal, 53}, 3)
  \cup {<<Percent, 122, 47>>, <<Percent, 57, 122, 97>>, <<Percent, Percent, 53, 53>>,
        <<Amp, Amp, 97, Equal, 97, Equal, Amp>>, <<97, Plus, Percent, 53>>, <<97, Amp, Percent, 53, 97>>,
        <<Question, Equal, Question>>}

(* Twelve times that visit every month, every day of the week, and each    *)
(* number of hours, minutes and seconds at its limits.                     *)
MCTimes ==
  {[wday |-> m % 7, mday |-> <<1, 31, 9, 10, 29, 30, 11, 19, 20, 2, 28, 25>>[m + 1], mon |-> m,
    year |-> <<70, 99, 100, 126, 138, 199, 124, 0, 116, 1000, 110, 8099>>[m + 1],
    hour |-> (23 * m) % 24, min |-> (59 * m) % 60, sec |-> <<0, 60, 9, 10, 59, 5, 50, 19, 1, 20, 30, 55>>[m + 1]]
     : m \in 0..11}

=============================================================================
