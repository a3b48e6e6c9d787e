------------------------------ MODULE RuleMatch ------------------------------
(***************************************************************************)
(* The rules of src/phonemizer.c: does a rule of en_rules match a word at  *)
(* a place, what does it score, and which rule is the best there.          *)
(*                                                                         *)
(* A word is a sequence of lower-case characters; places count from 0, as  *)
(* in the code.  A context is the sequence of its tokens: [op, arg], where *)
(* a run of '@' and the digits behind L, S and N belong to one token and   *)
(* what stands behind a P is left out.                                     *)
(***************************************************************************)
EXTENDS Integers, Sequences, FiniteSets, SequencesExt, FiniteSetsExt

CONSTANTS
  Vowels, Digits, Letters,   \* the characters of each kind
  Group,    \* letter_groups: from A, B, C, F, G, H, Y to characters
  Items,    \* lgroups: from the number of an L-group to its words
  Rules     \* rule_groups: from one or two characters to their rules

(* A rule: [left, match, right, cond, ph, prefix, suffix, strip, flags].   *)
(* Of its phonemes ph the scan asks whether there are any, how many groups *)
(* of vowels they hold, whether one is stressed, and whether they are the  *)
(* plural s; a prefix rule asks for a stress mark and a full vowel.        *)
Sounds == [some : BOOLEAN, groups : Nat, stressed : BOOLEAN, mark : BOOLEAN,
           full : BOOLEAN, s : BOOLEAN]

TokensOf(plain) ==
  [op : {"lit"}, arg : STRING] \cup [op : {"group"}, arg : DOMAIN Group]
    \cup [op : {"L"}, arg : DOMAIN Items] \cup [op : plain, arg : Nat]
LeftOps == {"D", "Z", "%", "+", "<", "!", "_", "&", "@", "X", "E", "K"}
LeftTokens == TokensOf(LeftOps)
RightTokens == TokensOf(LeftOps \cup {"#", "$", "N", "P", "S"})

RuleSet ==
  [left : Seq(LeftTokens), match : Seq(STRING), right : Seq(RightTokens),
   cond : BOOLEAN, ph : Sounds, prefix : BOOLEAN, suffix : BOOLEAN, strip : Nat,
   flags : SUBSET STRING]

(* store_rule_in_group() drops a rule with nothing to match.               *)
ASSUME RulesAssumption ==
  \A key \in DOMAIN Rules :
    Rules[key] \in Seq(RuleSet) /\ \A i \in DOMAIN Rules[key] : Rules[key][i].match # <<>>
ASSUME ItemsAssumption == \A id \in DOMAIN Items : Items[id] \subseteq Seq(STRING)

(* The character at a place; outside the word, whatever the memory holds.  *)
Within(w, at) == 0 <= at /\ at < Len(w)
CharAt(w, at) == IF Within(w, at) THEN w[at + 1] ELSE "?"

IsVowel(w, at) == Within(w, at) /\ w[at + 1] \in Vowels

(* A bug: what is left of the word may be shorter than the item.           *)
IsPlaceOpen(w, item, at) ==
  LET rest == SubSeq(w, at + 1, Len(w))
  IN  at >= 0 /\ (IsPrefix(item, rest) \/ IsPrefix(rest, item))

IsPlace(w, item, at) == at >= 0 /\ IsPrefix(item, SubSeq(w, at + 1, Len(w)))

(* Groups of adjacent vowel letters in places lo .. hi - 1.                *)
VowelGroups(w, lo, hi) ==
  Cardinality({at \in lo .. hi - 1 :
                 IsVowel(w, at) /\ (at = lo \/ ~IsVowel(w, at - 1))})

(* The phonemes so far: a boundary byte behind each rule's phonemes keeps  *)
(* their vowels apart.                                                     *)
SoundGroups(sofar) == FoldSeq(LAMBDA ph, n : ph.groups + n, 0, sofar)
SoundStressed(sofar) == \E i \in DOMAIN sofar : sofar[i].stressed

-----------------------------------------------------------------------------
(* Contexts.  A scan is [score, at, far, prev, ok, del].                   *)

Capped(n) == IF n > 19 THEN 19 ELSE n
Fail(s) == [s EXCEPT !.ok = FALSE]
Unless(failed, s, t) == IF failed THEN Fail(s) ELSE t
Scored(s, pts) == [s EXCEPT !.score = @ + pts]
Advance(s, step, pts) ==
  Scored([s EXCEPT !.far = Capped(@ + step)], pts - Capped(s.far + step))

(* Take the character under the cursor and move on.                        *)
Take(s, w, step, taken, pts) ==
  Unless(~(Within(w, s.at) /\ taken), s,
         Advance([s EXCEPT !.prev = CharAt(w, s.at),
                           !.at = @ + (IF step = 2 THEN 0 - 1 ELSE 1)], step, pts))

(* The tokens both sides share; step is 2 on the left and 6 on the right.  *)
Shared(s, t, w, step) ==
  LET c == CharAt(w, s.at)
  IN  CASE t.op = "lit"   -> Take(s, w, step, c = t.arg, 21)
        [] t.op = "group" -> Take(s, w, step, c \in Group[t.arg],
                                  IF t.arg = "C" THEN 19 ELSE 20)
        [] t.op = "D" -> Take(s, w, step, c \in Digits, 21)
        [] t.op = "Z" -> Take(s, w, step, c \notin Letters, 21)
        [] t.op = "%" -> Take(s, w, step, c = s.prev, 21)
        [] t.op = "+" -> Scored(s, 20)
        [] t.op = "<" -> Scored(s, -20)
        [] t.op = "!" -> s

(* match_lgroup_at(): the longest item of the group that begins here.      *)
ItemLengths(id, w, at) ==
  {Len(item) : item \in {x \in Items[id] : Within(w, at) /\ IsPlace(w, x, at)}}
LongestItem(id, w, at) ==
  LET lengths == ItemLengths(id, w, at) IN IF lengths = {} THEN 0 ELSE Max(lengths)

LeftGroup(s, id, w) ==
  LET n == LongestItem(id, w, s.at)
  IN  Unless(n = 0, s,
             Advance([s EXCEPT !.prev = CharAt(w, s.at - n + 1), !.at = @ - n], 2, 20))

LeftSyllables(s, n, w, pos, sofar) ==
  LET groups == IF sofar # <<>> THEN SoundGroups(sofar) ELSE VowelGroups(w, 0, pos)
  IN  Unless(n > groups, s, Scored(s, 18 + n - Capped(s.far + 2)))

StressBefore(w, pos, sofar) ==
  IF sofar # <<>> THEN SoundStressed(sofar) ELSE VowelGroups(w, 0, pos) > 0

LeftToken(s, t, w, pos, sofar) ==
  IF ~s.ok THEN s ELSE
  CASE t.op = "_" -> Unless(s.at >= 0, s, Scored(s, 4))
    [] t.op = "&" -> Unless(~StressBefore(w, pos, sofar), s, Scored(s, 19))
    [] t.op = "@" -> LeftSyllables(s, t.arg, w, pos, sofar)
    [] t.op = "X" -> Unless(\E at \in 0 .. s.at : IsVowel(w, at), s, Scored(s, 3))
    [] t.op = "E" -> Fail(s)
    [] t.op = "K" -> Take(s, w, 2, ~IsVowel(w, s.at), 20)
    [] t.op = "L" -> LeftGroup(s, t.arg, w)
    [] OTHER      -> Shared(s, t, w, 2)

(* match_left_context_score(): from the last token to the first.           *)
LeftContext(ctx, w, pos, sofar) ==
  FoldLeft(LAMBDA s, t : LeftToken(s, t, w, pos, sofar),
           [score |-> 0, at |-> pos - 1, far |-> -2, ok |-> TRUE, del |-> -1,
            prev |-> IF pos > 0 THEN CharAt(w, pos) ELSE "?"],
           Reverse(ctx))

RightGroup(s, id, w) ==
  LET n == LongestItem(id, w, s.at)
  IN  IF Items[id] = {} THEN s
      ELSE Unless(n = 0, s,
                  Advance([s EXCEPT !.prev = CharAt(w, s.at + n - 1), !.at = @ + n], 6, 20))

(* RULE_DEL_FWD: the first e between the match and the cursor.             *)
DelForward(s, w, pos) ==
  LET es == {at \in pos .. s.at - 1 : CharAt(w, at) = "e"}
  IN  IF s.del >= 0 \/ es = {} THEN s ELSE [s EXCEPT !.del = Min(es)]

(* K takes the end of the word for a consonant, and moves on.              *)
RightNonVowel(s, w) ==
  Unless(IsVowel(w, s.at), s,
         Advance([s EXCEPT !.prev = IF Within(w, s.at) THEN CharAt(w, s.at) ELSE @,
                           !.at = @ + 1], 6, 20))

(* scan is the rules frame: flags, silenced letters, suffix removed.       *)
RightToken(s, t, w, pos, scan) ==
  IF ~s.ok THEN s ELSE
  CASE t.op = "_" -> Unless(s.at < Len(w), s, Advance(s, 6, 21))
    [] t.op = "#" -> DelForward(s, w, pos)
    [] t.op = "&" -> Fail(s)
    [] t.op = "$" -> Unless(t.arg \notin scan.alt, s, s)
    [] t.op = "N" -> IF t.arg > 0 THEN s ELSE Unless(scan.removed, s, Scored(s, 1))
    [] t.op \in {"P", "S"} -> s
    [] t.op = "X" -> Unless(\E at \in s.at .. Len(w) - 1 : IsVowel(w, at), s,
                            Advance(s, 6, 19))
    [] t.op = "@" -> Unless(t.arg > VowelGroups(w, s.at, Len(w)), s,
                            Advance(s, 6, 18 + t.arg))
    [] t.op = "E" -> Take(s, w, 6, s.at \in scan.rep, 21)
    [] t.op = "K" -> RightNonVowel(s, w)
    [] t.op = "L" -> RightGroup(s, t.arg, w)
    [] OTHER      -> Shared(s, t, w, 6)

(* match_right_context_score(): from the first token to the last.          *)
RightContext(ctx, w, pos, scan) ==
  FoldLeft(LAMBDA s, t : RightToken(s, t, w, pos, scan),
           [score |-> 0, at |-> pos, far |-> -6, ok |-> TRUE, del |-> -1,
            prev |-> CharAt(w, pos - 1)],
           ctx)

-----------------------------------------------------------------------------
(* Rules.                                                                  *)

NoMatch == [score |-> -1, rule |-> <<>>, del |-> -1]

(* match_rule(), with the bonus try_group() adds for the group's length.   *)
MatchRule(rule, w, pos, length, scan) ==
  LET n     == Len(rule.match)
      extra == IF n > length THEN n - length ELSE 0
      left  == LeftContext(rule.left, w, pos, scan.sofar)
      right == RightContext(rule.right, w, pos + n, scan)
      total == 1 + 21 * extra + left.score + right.score + (IF rule.cond THEN 1 ELSE 0)
  IN  IF IsPlace(w, rule.match, pos) /\ left.ok /\ right.ok /\ total >= 0
      THEN [score |-> total + (IF length = 2 THEN 35 ELSE 0), rule |-> rule,
            del |-> right.del]
      ELSE NoMatch

(* An ending is not read where it may neither be stripped nor spoken.      *)
EndingSkip(m, w, pos, scan) ==
  /\ ~scan.allow /\ ~scan.only
  /\ m.rule.suffix /\ pos + Len(m.rule.match) = Len(w)

KeyChar(w, pos, scan) == IF pos \in scan.rep THEN "E" ELSE CharAt(w, pos)
KeysAt(w, pos, scan) ==
  (IF pos + 1 < Len(w) THEN << <<KeyChar(w, pos, scan), CharAt(w, pos + 1)>> >> ELSE <<>>)
    \o << <<KeyChar(w, pos, scan)>> >>

Better(best, m, w, pos, scan) ==
  IF m.score >= 0 /\ ~EndingSkip(m, w, pos, scan) /\ m.score >= best.score
  THEN m ELSE best

(* A bug: a tie goes to the first rule.                                    *)
TryGroupFirst(best, key, w, pos, scan) ==
  IF key \notin DOMAIN Rules THEN best
  ELSE FoldLeft(LAMBDA b, rule :
                  LET m == MatchRule(rule, w, pos, Len(key), scan)
                  IN  IF m.score = b.score THEN b ELSE Better(b, m, w, pos, scan),
                best, Rules[key])

TryGroup(best, key, w, pos, scan) ==
  IF key \notin DOMAIN Rules THEN best
  ELSE FoldLeft(LAMBDA b, rule :
                  Better(b, MatchRule(rule, w, pos, Len(key), scan), w, pos, scan),
                best, Rules[key])

(* find_best_rule(): the two-letter group, then the one-letter group.      *)
FindBestRule(w, pos, scan) ==
  LET char == KeyChar(w, pos, scan)
      two  == IF pos + 1 < Len(w)
              THEN TryGroup(NoMatch, <<char, CharAt(w, pos + 1)>>, w, pos, scan)
              ELSE NoMatch
  IN  TryGroup(two, <<char>>, w, pos, scan)

(* prefix_match_in_group(): a prefix rule at the start, not of all of it.  *)
NoScan == [alt |-> {}, rep |-> {}, removed |-> FALSE, sofar |-> <<>>]
HasPrefixAtStart(w) ==
  \E key \in ToSet(KeysAt(w, 0, NoScan)) : key \in DOMAIN Rules /\
    \E i \in DOMAIN Rules[key] :
      LET rule == Rules[key][i]
      IN  /\ rule.prefix /\ Len(rule.match) < Len(w)
          /\ MatchRule(rule, w, 0, Len(key), NoScan) # NoMatch

=============================================================================
