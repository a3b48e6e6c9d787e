-------------------------------- MODULE Tokens --------------------------------
(***************************************************************************)
(* Text (src/phonemizer.c): how it is cut into words and punctuation, how  *)
(* numbers are read, and the letter tests that choose how a word is said.  *)
(* A text is a sequence of characters, a word one of letters, digits,      *)
(* apostrophes, hyphens and the periods of an abbreviation.                *)
(***************************************************************************)
EXTENDS Codes

Small == Chars("abcdefghijklmnopqrstuvwxyz")
Capital == Chars("ABCDEFGHIJKLMNOPQRSTUVWXYZ")
Numerals == <<"0", "1", "2", "3", "4", "5", "6", "7", "8", "9">>
Uppers == ToSet(Capital)
Lowers == ToSet(Small)
Digits == ToSet(Numerals)
isupper(c) == c \in Uppers
islower(c) == c \in Lowers
isalpha(c) == isupper(c) \/ islower(c)
isdigit(c) == c \in Digits
tolower(c) == IF isupper(c) THEN Small[First(Capital, c)] ELSE c
to_lower(text) == Evaluated([i \in DOMAIN text |-> tolower(text[i])])
All(text, Test(_)) == \A i \in DOMAIN text : Test(text[i])
Some(text, Test(_)) == \E i \in DOMAIN text : Test(text[i])

-----------------------------------------------------------------------------
(* Tokens.                                                                 *)

Token(text, word, space) == [text |-> text, is_word |-> word, needs_space |-> space]

flush_word(out, cur) == IF cur = <<>> THEN out ELSE Append(out, Token(cur, TRUE, out # <<>>))
emit_punct(out, cur, c) == Append(flush_word(out, cur), Token(<<c>>, FALSE, FALSE))

starts_abbreviation(text, i, cur) ==
  Len(cur) = 1 /\ isupper(cur[1]) /\ isupper(At(text, i + 1))
hyphen_joins_word(text, i, cur) == cur # <<>> /\ isalpha(At(text, i + 1))

(* One character onto the word in cur, or the end of that word.            *)
Joins(text, i, cur) ==
  \/ isalpha(text[i]) \/ isdigit(text[i]) \/ text[i] = "'"
  \/ text[i] = "." /\ starts_abbreviation(text, i, cur)
  \/ text[i] = "-" /\ hyphen_joins_word(text, i, cur)

(* What is not part of a word ends the one in cur: a period belongs to an  *)
(* abbreviation, a space to nothing, the rest is punctuation.              *)
ends_word(text, i, cur, out) ==
  IF text[i] = " " THEN flush_word(out, cur)
  ELSE IF text[i] = "." /\ Has(cur, ".") THEN flush_word(out, Append(cur, text[i]))
  ELSE emit_punct(out, cur, text[i])

tokenize(text) ==
  LET Step(s, i) == IF Joins(text, i, s.cur) THEN [s EXCEPT !.cur = Append(@, text[i])]
                    ELSE [cur |-> <<>>, out |-> ends_word(text, i, s.cur, s.out)]
      read == Walk(Len(text), [cur |-> <<>>, out |-> <<>>], Step)
  IN  flush_word(read.out, read.cur)

-----------------------------------------------------------------------------
(* Numbers.                                                                *)

NUM_ONES == <<"one", "two", "three", "four", "five", "six", "seven", "eight", "nine", "ten",
              "eleven", "twelve", "thirteen", "fourteen", "fifteen", "sixteen", "seventeen",
              "eighteen", "nineteen">>
NUM_TENS == <<"ten", "twenty", "thirty", "forty", "fifty", "sixty", "seventy", "eighty", "ninety">>

(* The words of a number, group by group; none for a group that is 0.      *)
Ones(n) == IF n = 0 THEN <<>> ELSE <<NUM_ONES[n]>>
Tens(n) == IF n < 20 THEN Ones(n) ELSE <<NUM_TENS[n \div 10]>> \o Ones(n % 10)
Hundreds(n) == (IF n < 100 THEN <<>> ELSE <<NUM_ONES[n \div 100], "hundred">>) \o Tens(n % 100)
Thousands(n) ==
  (IF n < 1000 THEN <<>> ELSE Hundreds(n \div 1000) \o <<"thousand">>) \o Hundreds(n % 1000)
Millions(n) ==
  (IF n < 1000000 THEN <<>> ELSE Ones(n \div 1000000) \o <<"million">>) \o Thousands(n % 1000000)
int_to_words(n) == IF n = 0 THEN <<"zero">> ELSE Millions(n)

Digit(c) == CHOOSE d \in 0 .. 9 : Numerals[d + 1] = c
Value(text) == Walk(Len(text), 0, LAMBDA n, i : 10 * n + Digit(text[i]))

MaxSpoken == 9999999
Number(text) == text # <<>> /\ All(text, isdigit)
Spoken(text) == Number(text) /\ Value(text) <= MaxSpoken

-----------------------------------------------------------------------------
(* Letters.                                                                *)

is_plain_vowel(c) == c \in {"a", "e", "i", "o", "u"}
is_all_upper(text) == Len(text) >= 2 /\ All(text, isupper)
is_mixed_case_no_vowel(text) ==
  /\ Some(text, isupper) /\ Some(text, islower)
  /\ ~Some(to_lower(text), is_plain_vowel)
  /\ \E i \in DOMAIN text : tolower(text[i]) \notin {"m", "h", "n"}

(* The groups of a word with capitals inside: each ends before a capital   *)
(* that follows a small letter.                                            *)
Groups(text, split) ==
  LET Begins(i) == i = 1 \/ (split /\ islower(text[i - 1]) /\ isupper(text[i]))
      Step(groups, i) == IF Begins(i) THEN Append(groups, <<text[i]>>)
                         ELSE Append(Front(groups), Append(Last(groups), text[i]))
  IN  Walk(Len(text), <<>>, Step)
=============================================================================
