------------------------------- MODULE Decimal -------------------------------
(***************************************************************************)
(* Natural numbers as decimal digits (strconv.FormatUint and ParseUint),   *)
(* which metainfo files and announces carry.                               *)
(***************************************************************************)
EXTENDS Integers, Sequences, SequencesExt

Digits == <<"0", "1", "2", "3", "4", "5", "6", "7", "8", "9">>

\* What a parser returns that fails.
Failed == [ok |-> FALSE]

\* From the lowest digit on, until nothing is left; zero has a digit, too.
FormatUint(n) ==
  LET shifted[k \in 0 .. n + 1] == IF k = 0 THEN n ELSE shifted[k - 1] \div 10
      length == CHOOSE k \in 1 .. n + 1 : shifted[k] = 0 /\ \A j \in 1 .. k - 1 : shifted[j] # 0
  IN  [k \in 1 .. length |-> Digits[(shifted[length - k] % 10) + 1]]

AllDigits(s) == \A k \in DOMAIN s : s[k] \in ToSet(Digits)

DigitValue(d) == CHOOSE v \in 0 .. 9 : Digits[v + 1] = d

ParseUint(s) ==
  LET value[k \in 0 .. Len(s)] == IF k = 0 THEN 0 ELSE value[k - 1] * 10 + DigitValue(s[k])
  IN  value[Len(s)]
=============================================================================
