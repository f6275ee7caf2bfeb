-------------------------------- MODULE Money --------------------------------
(***************************************************************************)
(* Amounts of money (types/money/money.go, of which types/money.go is a    *)
(* copy).  An amount is a float64 that every operation rounds to cents; it *)
(* is modelled by its thousandths, which tells the cases of the rounding   *)
(* apart, and is multiplied and divided by small numbers only.  ToUpper    *)
(* writes an amount in Chinese capitals; it is modelled on the decimal     *)
(* digits of the amount in cents, as sequences of signs: "0".."9" for the  *)
(* capital digits and a letter for a unit.                                 *)
(***************************************************************************)
EXTENDS Integers, Sequences

CONSTANTS MnAmounts, \* amounts in thousandths
          MnDigits   \* the digits of amounts in cents, without leading zeros

VARIABLES mnIn, mnOut \* a call, and its result

moneyVars == <<mnIn, mnOut>>

\* round(val, 2) of an amount x / d, in cents: halves go away from zero.
roundUp(x, d) == LET t == (x + d - 1) \div d IN IF 2 * (d * t - x) > d THEN t - 1 ELSE t
round(x, d) == IF x >= 0 THEN roundUp(x, d) ELSE -roundUp(-x, d)

Val(m) == 10 * round(m, 10)
NewMoney(x) == 10 * round(x, 10)

\* An amount that rounds to zero from below keeps its sign when it is printed.
MoneyString(m) == [neg |-> m < 0, cents |-> roundUp(IF m < 0 THEN -m ELSE m, 10)]

AddMoney(m, a) == NewMoney(Val(m) + Val(a))
SubMoney(m, a) == NewMoney(Val(m) - Val(a))
MulMoney(m, k) == NewMoney(m * k)
DivMoney(m, k) == 10 * round(m, 10 * k)
LessMoney(m, a) == Val(m) < Val(a)
EqualMoney(m, a) == Val(m) = Val(a)
IsZero(m) == Val(m) = 0
LessZero(m) == Val(m) < 0
GreaterZero(m) == Val(m) > 0

\* Abs, Ceil and Floor work on the amount as it is, not on its cents.
Abs(m) == IF m < 0 THEN -m ELSE m
Floor(m) == 1000 * (m \div 1000)
Ceil(m) == -Floor(-m)

-----------------------------------------------------------------------------
(* ToUpper, of an amount that is not negative and has at most 14 digits. *)

\* From the right: fen, jiao, yuan, ten, hundred and thousand, ten thousand, ...
Units == <<"q", "b", "s", "Y", "q", "b", "s", "W", "q", "b", "s", "R", "j", "f">>

\* Every digit with its unit.
Spelled(ds) ==
  [i \in 1..(2 * Len(ds)) |->
     IF i % 2 = 1 THEN ds[(i + 1) \div 2] ELSE Units[Len(Units) - Len(ds) + i \div 2]]

MatchesAt(s, i, pat) ==
  i + Len(pat) - 1 =< Len(s) /\ \A k \in DOMAIN pat : s[i + k - 1] \in pat[k]

\* ReplaceAllString for a pattern that is a sequence of classes of signs.
RECURSIVE Rewritten(_, _, _)
Rewritten(s, pat, new) ==
  CASE s = << >> -> << >>
    [] s # << >> /\ MatchesAt(s, 1, pat) ->
         new \o Rewritten(SubSeq(s, Len(pat) + 1, Len(s)), pat, new)
    [] OTHER -> <<Head(s)>> \o Rewritten(Tail(s), pat, new)

\* The same for a pattern that ends in $.
RewrittenAtEnd(s, pat, new) ==
  LET n == Len(s) - Len(pat) IN
  IF n >= 0 /\ MatchesAt(s, n + 1, pat) THEN SubSeq(s, 1, n) \o new ELSE s

\* Two zeros or more become one.
RECURSIVE OneZero(_)
OneZero(s) ==
  CASE Len(s) < 2 -> s
    [] Len(s) >= 2 /\ s[1] = "0" /\ s[2] = "0" -> OneZero(Tail(s))
    [] OTHER -> <<Head(s)>> \o OneZero(Tail(s))

\* The replacements in their order.  The one for "Y...W" never matches, its
\* bound being written with a space, nor does the one for a zero before "R"
\* after those are gone.
ToUpper(ds) ==
  LET s1 == RewrittenAtEnd(Spelled(ds), <<{"0"}, {"j"}, {"0"}, {"f"}>>, <<"z">>)
      s2 == Rewritten(s1, <<{"0"}, {"j"}>>, <<"0">>)
      s3 == RewrittenAtEnd(s2, <<{"0"}, {"f"}>>, <<"z">>)
      s4 == OneZero(Rewritten(s3, <<{"0"}, {"q", "b", "s"}>>, <<"0">>))
      s5 == Rewritten(Rewritten(s4, <<{"0"}, {"Y"}>>, <<"Y">>), <<{"0"}, {"W"}>>, <<"W">>)
      s6 == Rewritten(s5, <<{"0"}, {"R"}>>, <<"R">>)
      small == \E i \in DOMAIN s6 : s6[i] \in {"j", "f"}
  IN  IF ds = <<"0">> THEN <<"0", "R", "z">>
      ELSE IF small THEN SelectSeq(s6, LAMBDA c : c # "z") ELSE s6

-----------------------------------------------------------------------------
NotAsked == [op |-> "none"]

MnTypeOK == mnIn.op \in {"none", "pair", "upper"} /\ mnOut.op \in {"none", mnIn.op}

MnInit ==
  /\ mnOut = NotAsked
  /\ \/ \E a, b \in MnAmounts : mnIn = [op |-> "pair", a |-> a, b |-> b]
     \/ \E ds \in MnDigits : mnIn = [op |-> "upper", ds |-> ds]

MnNext ==
  /\ mnOut = NotAsked /\ UNCHANGED mnIn
  /\ mnOut' =
       IF mnIn.op = "upper" THEN [op |-> "upper", text |-> ToUpper(mnIn.ds)]
       ELSE LET a == mnIn.a
                b == mnIn.b
            IN  [op |-> "pair", sum |-> AddMoney(a, b), diff |-> SubMoney(a, b),
                 less |-> LessMoney(a, b), equal |-> EqualMoney(a, b),
                 sign |-> <<LessZero(a), IsZero(a), GreaterZero(a)>>,
                 parts |-> IF b > 0 THEN MulMoney(DivMoney(a, b), b) ELSE a,
                 near |-> <<Floor(a), Abs(a), Ceil(a)>>,
                 text |-> <<MoneyString(a), MoneyString(b)>>]

MnSpec == MnInit /\ [][MnNext]_moneyVars

\* How the capitals are read: a digit counts for the unit after it, within the
\* section that the next "R", "W" or "Y" ends.  The result is the set of
\* <<place, digit>> that are not zero, fen being place 1.
ReadCapitals(s) ==
  LET Base == [R |-> 3, W |-> 7, Y |-> 11]
      Step == [s |-> 1, b |-> 2, q |-> 3]
      isDigit(c) == c \in {"1", "2", "3", "4", "5", "6", "7", "8", "9"}
      section(i) == LET J == {j \in i..Len(s) : s[j] \in DOMAIN Base}
                    IN  Base[s[CHOOSE j \in J : \A k \in J : j =< k]]
      place(i) == CASE s[i + 1] = "f" -> 1 [] s[i + 1] = "j" -> 2
                    [] s[i + 1] \in DOMAIN Step -> section(i + 1) + Step[s[i + 1]]
                    [] OTHER -> section(i + 1)
  IN  {<<place(i), s[i]>> : i \in {j \in DOMAIN s : isDigit(s[j])}}

Placed(ds) == {<<Len(ds) - i + 1, ds[i]>> : i \in {j \in DOMAIN ds : ds[j] # "0"}}

\* Capitals say the amount they are made from: read back, they have the same
\* digits in the same places, no zero is doubled or left before a section, and
\* the text ends with "z" exactly if there are no jiao and no fen.  They are not
\* always well formed: "亿万" stays in the text exactly if all the ten thousands
\* under a hundred million are zero, because the replacement that is to remove it,
\* 亿零{0, 3}万 (money.go:130), never matches, its bound being written with a space
\* (money.go:94-147).
CapitalsRight ==
  mnOut.op = "upper" =>
    LET s == mnOut.text
        ds == mnIn.ds
    IN  /\ ReadCapitals(s) = Placed(ds)
        /\ ds # <<"0">> => ~\E i \in 1..(Len(s) - 1) : s[i] = "0" /\ s[i + 1] \in {"0", "R", "W", "Y"}
        /\ (\E i \in 1..(Len(s) - 1) : s[i] = "Y" /\ s[i + 1] = "W") =
             (Len(ds) > 10 /\ \A p \in Placed(ds) : p[1] \notin 7..10)
        /\ (s[Len(s)] = "z") = (Placed(ds) \cap ({1, 2} \X {ds[i] : i \in DOMAIN ds}) = {})

\* Rounding does not make the comparisons disagree: of less, equal and greater
\* one holds, equal amounts print the same cents, less is what the difference
\* says, a sum minus one part is the other, b parts of an amount miss it by half
\* a cent each at most, and it lies between its floor and its ceiling
\* (money.go:17-90).
AmountsAgree ==
  mnOut.op = "pair" =>
    LET a == mnIn.a
        b == mnIn.b
    IN  /\ mnOut.less = LessZero(mnOut.diff) /\ mnOut.equal = IsZero(mnOut.diff)
        /\ mnOut.equal = (mnOut.text[1].cents = mnOut.text[2].cents
                          /\ (mnOut.text[1].cents = 0 \/ mnOut.text[1].neg = mnOut.text[2].neg))
        /\ (\E i \in 1..3 : \A k \in 1..3 : mnOut.sign[k] = (k = i)) /\ EqualMoney(SubMoney(mnOut.sum, b), a)
        /\ b > 0 => Abs(mnOut.parts - a) =< 5 * b
        /\ mnOut.near[1] =< a /\ a =< mnOut.near[3] /\ ~LessZero(mnOut.near[2])

\* Both: capitals and comparisons.
MoneyRight == CapitalsRight /\ AmountsAgree
=============================================================================
