------------------------------- MODULE MCWords -------------------------------
(***************************************************************************)
(* Words for TLC: rules of en_rules, a few entries in the shapes of        *)
(* en_list, and words that bring every arm and every kind of rule to work. *)
(***************************************************************************)
EXTENDS Words

(* The characters of a string.                                             *)
W(s) == [i \in 1 .. Len(s) |-> SubSeq(s, i, i)]
Ws(strings) == {W(s) : s \in strings}

MCVowels == ToSet(W("aeiouy"))
MCDigits == ToSet(W("0123456789"))
MCLetters == ToSet(W("abcdefghijklmnopqrstuvwxyz"))
MCGroup ==
  [g \in ToSet(W("ABCFGHY")) |->
     ToSet(W(CASE g = "A" -> "aeiou" [] g = "B" -> "bcdfgjklmnpqstvxz"
               [] g = "C" -> "bcdfghjklmnpqrstvwxz" [] g = "F" -> "cfhkpqstx"
               [] g = "G" -> "bdgjlmnrvwyz" [] g = "H" -> "hlmnr"
               [] g = "Y" -> "aeiouy"))]
MCItems == <<Ws({"l", "r"}), Ws({"b", "d", "g", "m", "n", "r", "be", "de", "le", "ne"})>>

(* Tokens by their names.                                                  *)
Token(t) ==
  CASE t \in DOMAIN MCGroup -> [op |-> "group", arg |-> t]
    [] t \in {"@", "@@"}    -> [op |-> "@", arg |-> Len(t)]
    [] t \in {"L1", "L2"}   -> [op |-> "L", arg |-> IF t = "L1" THEN 1 ELSE 2]
    [] t \in ToSet(W("_&#+NPS")) -> [op |-> t, arg |-> 0]
    [] OTHER                -> [op |-> "lit", arg |-> t]
Tokens(ctx) == [i \in DOMAIN ctx |-> Token(ctx[i])]

Ph(groups, stressed, mark) ==
  [some |-> TRUE, groups |-> groups, stressed |-> stressed, mark |-> mark,
   full |-> stressed, s |-> FALSE]
Mute == [Ph(0, FALSE, FALSE) EXCEPT !.some = FALSE]
Hard == Ph(0, FALSE, FALSE)
Plural == [Hard EXCEPT !.s = TRUE]
Weak == Ph(1, FALSE, FALSE)
Full == Ph(1, TRUE, FALSE)
Marked(groups) == Ph(groups, FALSE, TRUE)

R(left, match, right, ph) ==
  [left |-> Tokens(left), match |-> W(match), right |-> Tokens(right), cond |-> FALSE,
   ph |-> ph, prefix |-> FALSE, suffix |-> FALSE, strip |-> 0, flags |-> {}]
Suffix(rule, strip, flags) ==
  [rule EXCEPT !.suffix = TRUE, !.strip = strip, !.flags = ToSet(W(flags))]
Prefix(rule) == [rule EXCEPT !.prefix = TRUE]

None == <<>>
Start == <<"_">>
End == <<"_">>

(* A letter's own rule.                                                    *)
Plain(c) == R(None, c, None, IF c \in MCVowels THEN Full ELSE Hard)

MCRules ==
  [key \in {<<c>> : c \in MCLetters \cup {"E"}}
           \cup Ws({"ab", "al", "an", "ed", "Ed", "in", "ov"}) |->
     CASE key = W("a") -> <<Plain("a"), R(None, "a", <<"B", "e", "#">>, Full)>>
       [] key = W("b") -> <<Plain("b"), Suffix(R(<<"&">>, "box", <<"_", "S">>, Full), 3, "")>>
       [] key = W("d") -> <<Plain("d"),
                            Suffix(R(<<"@", "@", "e">>, "d", <<"_", "S">>, Hard), 1, "")>>
       [] key = W("e") -> <<Plain("e"), R(<<"&">>, "e", End, Mute)>>
       [] key = W("E") -> <<R(None, "e", None, Mute), R(None, "e", <<"B", "_">>, Weak)>>
       [] key = W("n") -> <<Plain("n"),
                            Suffix(R(<<"&">>, "name", <<"_", "S">>, Full), 4, ""),
                            Suffix(R(<<"&">>, "ness", <<"_", "S">>, Weak), 4, "im")>>
       [] key = W("ov") -> <<Prefix(R(Start, "over", <<"@", "P">>, Marked(2)))>>
       [] key = W("p") -> <<Plain("p"), R(None, "p", <<"p">>, Mute)>>
       [] key = W("s") -> <<Plain("s"), R(None, "s", <<"_", "N">>, Plural),
                            Suffix(R(<<"@">>, "s", <<"_", "N", "S">>, Plural), 1, "m"),
                            R(None, "s", End, Plural),
                            R(<<"L2">>, "s", W("man") \o End, Plural)>>
       [] key = W("u") -> <<Plain("u"), R(<<"L1">>, "u", End, Full)>>
       [] key = W("y") -> <<R(None, "y", None, Hard), R(None, "y", <<"C">>, Full),
                            R(<<"C">>, "y", None, Marked(1)), R(None, "y", End, Full),
                            R(<<"&">>, "y", End, Marked(1))>>
       [] key = W("ab") -> <<R(None, "able", None, Ph(2, TRUE, FALSE)),
                             Suffix(R(<<"&">>, "able", <<"_", "S">>, Ph(2, FALSE, FALSE)),
                                    4, "iev")>>
       [] key = W("al") -> <<Prefix(R(Start, "all", <<"C", "@", "P">>, Full))>>
       [] key = W("an") -> <<Prefix(R(Start, "anti", <<"@", "P">>, Marked(2)))>>
       [] key = W("ed") -> <<Suffix(R(<<"@@">>, "ed", <<"_", "S">>, Hard), 2, "dvei"),
                             Suffix(R(<<"@", "C">>, "ed", <<"_", "S">>, Hard), 2, "dvei")>>
       [] key = W("Ed") -> <<Suffix(R(<<"@@">>, "ed", <<"_", "S">>, Hard), 2, "vei"),
                             Suffix(R(<<"&", "C">>, "ed", <<"_", "S">>, Hard), 2, "veim")>>
       [] key = W("in") -> <<Prefix(R(Start, "infra", <<"P">>, Marked(2))),
                             Suffix(R(<<"@">>, "ing", <<"_", "+", "S">>, Marked(1)), 3, "dve")>>
       [] OTHER -> <<Plain(key[1])>>]

Text(s) == [w |-> W(s), cap |-> FALSE]
MCTexts ==
  {Text(s) : s \in {"cities", "boxes", "dishes", "dogs", "well-made", "b-", "dog's", "b",
                    "primarily", "antihero", "allspice", "toolbox", "surnames", "blogs",
                    "hymns", "used", "tradesman", "overcast", "antidotes"}}
    \cup {[w |-> W("polish"), cap |-> TRUE]}
    \cup {[w |-> W(first) \o W(root) \o W(ending), cap |-> FALSE] :
            first  \in {"", "over", "infra"},
            root   \in {"mak", "run", "runn", "plann", "controll", "heat", "happi", "tri"},
            ending \in {"", "es", "ed", "ing", "ness", "eable"}}

MCdict == Ws({"_b", "well", "made", "make", "city", "dog", "happy", "over", "plan", "dishe"})
MCverb_dict == Ws({"use"})
MConlys_bare_dict == Ws({"use", "box"})
MCcapital_dict == Ws({"polish"})
MCdull == Ws({"_b"})
MConlys_words == Ws({"use"})
MConly_words == Ws({"over"})
MCnoun_form_stress == Ws({"cast"})
MCverb_flag_words == Ws({"heat"})
MCstrend_words == Ws({"over", "bake"})
MCstress_pos == Ws({"control", "box"})
MCword_alt_flags == W("control") :> {2} @@ W("heat") :> {1}
MCcompound_prefixes == <<W("tool"), W("over")>>

=============================================================================
