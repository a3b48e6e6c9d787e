------------------------------- MODULE MCText -------------------------------
(***************************************************************************)
(* Utterances for TLC.  The words of the sentences are entries of en_list, *)
(* or words with the codes that en_rules gives them; the words of Coined   *)
(* are put together from syllables so that every pass finds its cases.     *)
(***************************************************************************)
EXTENDS Utterance

Table(pairs) ==
  Tabled([word \in {Chars(p[1]) : p \in pairs} |->
            Chars((CHOOSE p \in pairs : Chars(p[1]) = word)[2])])

(* The phonemes of a rule end at ^; a suffix rule's are what is behind the *)
(* last one.                                                               *)
Rules(chars) ==
  FoldLeft(LAMBDA phonemes, c : IF c = "^" THEN Append(phonemes, <<>>)
                                ELSE Append(Front(phonemes), Append(Last(phonemes), c)),
           << <<>> >>, chars)

-----------------------------------------------------------------------------
(* Coined words: how they are looked up (by the rules, as an entry, as an  *)
(* entry with $strend), and four syllables, any three next to each other.  *)

First4 == Table({<<"a", "@">>, <<"b", "E">>, <<"c", ",E">>, <<"d", "'a">>, <<"e", "%In">>,
                 <<"f", "0">>, <<"g", "aI">>, <<"h", "oU#">>})
Second4 == Table({<<"a", "t0">>, <<"b", "n,e@">>, <<"c", "r'i:">>, <<"d", "dI2">>, <<"e", "3:">>,
                  <<"f", "k=I">>, <<"g", "mA@">>})
Third4 == Table({<<"a", "">>, <<"b", "l@">>, <<"c", "t,aI">>, <<"d", "n0#">>})
Fourth4 == Table({<<"a", "t">>, <<"b", "S@n">>, <<"c", "0l@dZi">>, <<"d", "Ik@L">>, <<"e", "nEs">>,
                  <<"f", "n,Es">>, <<"g", "d%I">>, <<"h", "=Ik">>})

CoinedFrom(kinds) ==
  {<<kind, Small[a], Small[b], Small[c], Small[1 + half + ((a + b + c) % 4)]>> :
     kind \in kinds, a \in 1 .. 8, b \in 1 .. 7, c \in 1 .. 4, half \in {0, 4}}
Coined == CoinedFrom({"q", "x", "z"})
Syllables4(word) ==
  <<First4[<<word[2]>>], Second4[<<word[3]>>], Third4[<<word[4]>>], Fourth4[<<word[5]>>]>>

-----------------------------------------------------------------------------
(* The dictionary, and what the rules say.                                 *)

Entries == Table({
  <<"the", "D@2">>, <<"an", "a#2n">>, <<"to", "t@5">>, <<"use", "ju:s">>, <<"of", "02v">>,
  <<"in", "%In">>, <<"on", ",O2n">>, <<"it", "It#">>, <<"at", "at#">>, <<"is", "%Iz">>,
  <<"have", "hav">>, <<"has", "%ha#z">>, <<"been", ",bIn">>, <<"we", "wi:">>, <<"our", "aU3">>,
  <<"over", "oUv3">>, <<"make", "m,eIk">>, <<"read", "ri:d">>, <<"sofa", "soUf@">>,
  <<"and", "and">>, <<"la", ",la">>, <<"be", "bi:">>, <<"u", "ju:">>, <<"_s", "E2s">>,
  <<"f", "E2f">>, <<"b", "bi:">>, <<"i", "aI">>, <<"p", "pi:">>, <<"h", "eItS">>, <<"d", "di:">>,
  <<"with", "wID">>, <<"or", "O@">>,
  <<"within", "wIDIn">>, <<"because", "bIk02z">>, <<"two", "tu:">>, <<"one", "w02n">>, <<"ten", "tEn">>, <<"while", "w,aIl">>})
Spellings == Table({
  <<"conduct", "k%0#n^d^V^k^t^">>, <<"brigade", "b^r^I^g^eI^d^^">>, <<"italic", "I^t^a^l^=I^k^">>,
  <<"unionization", "ju:n^=i@n^I#zeI^S=@n^">>, <<"a", "a#">>, <<"am", "%am^">>, <<"better", "b^E^t^3">>, <<"making", "m^eI^k^^%IN">>, <<"wind", "w^I^n^d^">>,
  <<"red", "rE^d^">>, <<"utility", "ju:^t^I^l^=I#t%i^">>, <<"apple", "ap^@L^">>,
  <<"zero", "z^i@r^oU^">>, <<"three", "T^r^i:^">>, <<"nine", "n^aI^n^^">>,
  <<"twenty", "t^w^E^n^t^%i^">>, <<"hundred", "h^V^n^d^rI2d^">>, <<"thousand", "TaUz@nd^">>,
  <<"million", "mIl^=i@n^">>, <<"ninety", "n^aI^n^t^i^">>, <<"dog's", "d^0#^g^z">>})

MCdict(word) ==
  IF word \in Coined /\ word[1] # "q" THEN FlattenSeq(Syllables4(word))
  ELSE IF word \in DOMAIN Entries THEN Entries[word] ELSE <<>>
MCrules(word) ==
  IF word \in Coined
  THEN Append(SelectSeq(Syllables4(word), LAMBDA syllable : syllable # <<>>), <<>>)
  ELSE IF word \in DOMAIN Spellings THEN Rules(Spellings[word]) ELSE << <<>> >>
MCstress_pos == Chars("because") :> 2 @@ Chars("conduct") :> 1 @@ Chars("brigade") :> 2

MCpast_dict == Table({<<"read", "rEd">>})
MCnoun_dict == Table({<<"wind", "wInd">>})
MCverb_dict == Table({<<"use", "ju:z">>, <<"wind", "waInd">>})
MCatstart_dict == Table({<<"on", "0n">>})
MCatend_dict == Table({<<"to", "tu:">>, <<"a", "eI">>, <<"has", "haz">>})
MCphrase_dict == Table({<<"a la", "%,A#la">>, <<"to to", "%tU_t@5">>, <<"with the", "w%IDD@2">>,
                        <<"at it", "at#I2t">>, <<"the la", "D@2l,A">>})
MCphrase_split_dict ==
  Chars("wind over") :> <<Chars("w'aInd"), Chars("oUv3")>>
    @@ Chars("the while") :> <<Chars("D@2"), Chars("waIl")>>

MCstrend_words == Codes({"make", "over", "have", "within"}) \cup CoinedFrom({"z"})
MCabbrev_words == Codes({"it", "la"})
MCunstressed_words == Codes({"an", "to", "of", "it", "at", "have", "we", "over", "our", "be", "i"})
MCpastf_words == Codes({"is", "have", "has", "been", "be"})
MCnounf_words == Codes({"the", "a", "an", "in", "our", "at", "one"})
MCverbf_words == Codes({"to", "we", "i"})
MCcomma_strend2_words == Codes({"on"})
MCu2_strend2_words == Codes({"within"})
MCu_plus_secondary_words == Codes({"be"})
MCunstressend_words == Codes({"one"})
MCkeep_sec_phrase_keys == Codes({"at it"})

-----------------------------------------------------------------------------
(* The texts.                                                              *)

Firsts == {"better", "Sofa", "The", "a", "an", "to", "use", "of", "in", "On", "it", "at", "has",
           "we", "our", "over", "making", "Wind", "FBI", "PhD", "U.S.", "have", "with", "21"}
Paused == {"better", "The", "Sofa", "to", "it", "of", "use"}
Seconds == {"better", "the", "a", "use", "in", "on", "it", "been", "over", "red", "read", "utility",
            "wind", "apple", "one", "FBI", "U.S.", "IT", "and", "la", "to", "while", "within", "90"}
Triples == {"I am", "we have the use of it", "is wind read", "better and apple", "to be", "our, of, the apple",
            "because", "conduct it", "brigade", "italic", "unionization", "better or", "a la apple", "within it", "12345678 red", "(make it)",
            "have our read", "be it", "the la apple", "the la red",
            "better zzz a", "XtB red"}
Numbers == {"0", "20", "21", "101", "3000", "90020", "1000000", "9002103"}

Words3 == <<{"is", "the", "to", "better", "at", "we"}, {"a", "in", "have", "sofa", "use"},
            {"wind", "apple", "read", "use", "to", "on"}>>

MCTexts ==
  {Chars(a) \o Chars(" ") \o Chars(b) : a \in Firsts, b \in Seconds}
    \cup {Chars(a) \o Chars(", ") \o Chars(b) : a \in Paused, b \in Seconds}
    \cup {Chars(a) \o Chars(" ") \o Chars(b) \o Chars(" ") \o Chars(c) :
            a \in Words3[1], b \in Words3[2], c \in Words3[3]}
    \cup Codes(Firsts \cup Seconds \cup Triples \cup Numbers) \cup Coined
=============================================================================
