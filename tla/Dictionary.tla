----------------------------- MODULE Dictionary -----------------------------
(***************************************************************************)
(* load_dictionary() of src/phonemizer.c: the lines of en_list become      *)
(* entries of the dictionaries and word sets of struct phonemizer.         *)
(*                                                                         *)
(* A line is the sequence of its fields: a dialect mark or none, then a    *)
(* word, its phonemes and flags, or a phrase in parentheses.  Of a field   *)
(* only what the loader asks of its characters is kept: the constants      *)
(* below.  dict is a hash table, because it is the one that entries are    *)
(* removed from; the other maps are functions, the sets are sets.          *)
(***************************************************************************)
EXTENDS HashMap, Sequences, SequencesExt

CONSTANTS
  Lower,      \* to_lower(): from fields and words to keys
  Opening,    \* the word behind a field's opening parenthesis
  Closing,    \* the word before a field's closing parenthesis
  Dialects,   \* what "?3", "?!3" ... say: [cond, negated]
  Dotted,     \* the words with a '.'
  Size,       \* the length of each key
  Lead,       \* the stress mark each phoneme string begins with, or "none"
  Marks,      \* the marks anywhere in it
  Halves,     \* the strings with "||": the parts before and after it
  Lines,      \* the lines a file may hold
  MaxLines,   \* bound on the length of the file
  IsEnUs,     \* the dialect asked for is en-us
  Splits      \* the words no entry has: where each can be split, as [prefix, rest]

VARIABLES
  p,          \* struct phonemizer
  read,       \* the lines read so far
  phase       \* "loading", "loaded", or "hung" in a probe without end

vars == <<p, read, phase>>

StressFlags == <<"$1", "$2", "$3", "$4", "$5", "$6">>
AltFlags == <<"$alt1", "$alt2", "$alt3", "$alt4", "$alt5", "$alt6">>
Flags == ToSet(StressFlags) \cup ToSet(AltFlags) \cup
  {"$noun", "$verb", "$past", "$pastf", "$nounf", "$verbf", "$atend",
   "$allcaps", "$sentence", "$capital", "$atstart", "$strend2", "$only",
   "$onlys", "$u2", "$u2+", "$u", "$u+", "$unstressend", "$abbrev", "$pause"}

Has(ph, mark) == ph \in DOMAIN Marks /\ mark \in Marks[ph]

(* smap_set(), smap_emplace() and set_add() on maps that nothing is        *)
(* removed from.                                                           *)
Set(f, k, v) == [x \in DOMAIN f \cup {k} |-> IF x = k THEN v ELSE f[x]]
Emplace(f, k, v) == IF k \in DOMAIN f THEN f ELSE Set(f, k, v)
AddIf(c, set, k) == IF c THEN set \cup {k} ELSE set

Nothing == [x \in {} |-> NULL]

Init ==
  /\ p = [dict |-> NewTable(0),
          verb_dict |-> Nothing, past_dict |-> Nothing, noun_dict |-> Nothing,
          atstart_dict |-> Nothing, atend_dict |-> Nothing,
          capital_dict |-> Nothing, onlys_bare_dict |-> Nothing,
          phrase_dict |-> Nothing, phrase_split_dict |-> Nothing,
          pastf_words |-> {}, nounf_words |-> {}, verbf_words |-> {},
          unstressed_words |-> {}, unstressend_words |-> {},
          abbrev_words |-> {}, onlys_words |-> {}, only_words |-> {},
          noun_form_stress |-> {}, verb_flag_words |-> {},
          strend_words |-> {}, u2_strend2_words |-> {},
          comma_strend2_words |-> {}, u_plus_secondary_words |-> {},
          keep_sec_phrase_keys |-> {},
          stress_pos |-> Nothing,
          word_alt_flags |-> [w \in Keys |-> {}],
          compound_prefixes |-> <<>>,
          hung |-> FALSE]
  /\ read = <<>>
  /\ phase = "loading"

-----------------------------------------------------------------------------
(* The dictionary proper: each access is a probe, which may not end.       *)
SetDict(q, w, ph) ==
  IF PutEnds(q.dict, w) THEN [q EXCEPT !.dict = Put(@, w, ph)]
  ELSE [q EXCEPT !.hung = TRUE]

EraseDict(q, w) ==
  IF GetEnds(q.dict, w) THEN [q EXCEPT !.dict = Delete(@, w)]
  ELSE [q EXCEPT !.hung = TRUE]

(***************************************************************************)
(* Word entries.  An entry is [w, ph, flags, stress, cond]: ph may itself  *)
(* be a flag, and then counts as one for some purposes and not for others. *)
(***************************************************************************)
IsFlag(ph) == ph \in Flags
InFlags(e, f) == f \in e.flags
AsFlag(e, f) == e.ph = f \/ f \in e.flags

(* The first "$1" .. "$6", the phonemes column read first.                 *)
StressN(fields) ==
  LET is == {i \in DOMAIN fields : fields[i] \in ToSet(StressFlags)}
  IN  IF is = {} THEN 0
      ELSE CHOOSE n \in 1 .. 6 : StressFlags[n] = fields[Min(is)]

Entry(fields, cond) ==
  [w |-> Lower[fields[1]], ph |-> fields[2], cond |-> cond,
   flags |-> {fields[i] : i \in 3 .. Len(fields)},
   stress |-> StressN(Tail(fields))]

Grammar(e) ==
  \/ \E f \in {"$verb", "$verbf", "$nounf", "$only"} : AsFlag(e, f)
  \/ \E f \in {"$strend2", "$alt2", "$alt3"} : InFlags(e, f)
  \/ e.ph \in {"$pastf", "$u"}
AtEnd(e) == \E f \in {"$atend", "$allcaps", "$sentence"} : InFlags(e, f)
Verb(e) == AsFlag(e, "$verb")

(* parse_entry_flags(): what a flag does at once, stored or not.           *)
FlagSets(q, e) ==
  [q EXCEPT
     !.unstressed_words = AddIf(AsFlag(e, "$u") \/ AsFlag(e, "$u+"), @, e.w),
     !.u_plus_secondary_words =
        AddIf(InFlags(e, "$u+") /\ Has(e.ph, ",") /\ ~Has(e.ph, "'"), @, e.w),
     !.unstressend_words = AddIf(InFlags(e, "$unstressend"), @, e.w),
     !.abbrev_words = AddIf(AsFlag(e, "$abbrev"), @, e.w),
     !.word_alt_flags[e.w] = @ \cup {n \in 1 .. 6 : AsFlag(e, AltFlags[n])}]

(* store_entry_pos_sets() and store_entry_stress_pos()                     *)
PosSets(q, e) ==
  LET stressed == /\ e.stress > 0 /\ ~InFlags(e, "$noun") /\ ~Verb(e)
                  /\ Grammar(e) => IsFlag(e.ph)
  IN  [q EXCEPT
         !.pastf_words = AddIf(AsFlag(e, "$pastf"), @, e.w),
         !.nounf_words = AddIf(AsFlag(e, "$nounf"), @, e.w),
         !.verbf_words = AddIf(AsFlag(e, "$verbf"), @, e.w),
         !.stress_pos = IF stressed THEN Emplace(@, e.w, e.stress) ELSE @,
         !.noun_form_stress =
            AddIf(stressed /\ IsFlag(e.ph) /\ InFlags(e, "$onlys"), @, e.w)]

(* store_flag_only_entry(): "$altN" retracts an earlier plain entry.       *)
Retracts(e) == e.ph \in ToSet(AltFlags)
FlagOnlyEntry(q, e) ==
  LET r == IF Retracts(e) THEN EraseDict(q, e.w) ELSE q
  IN  [r EXCEPT !.verb_flag_words = AddIf(Verb(e), @, e.w)]

(* Mutant: an $onlys entry replaces what stood before it.                  *)
OnlysEntryOver(q, e) ==
  [SetDict(q, e.w, e.ph) EXCEPT !.onlys_words = @ \cup {e.w}]

(* store_onlys_entry(): under a dialect condition it overwrites, without   *)
(* one it yields to what is there and goes to the bare dictionary.         *)
OnlysEntry(q, e) ==
  IF e.cond # 0
  THEN [SetDict(q, e.w, e.ph) EXCEPT !.onlys_words = @ \cup {e.w}]
  ELSE IF ~GetEnds(q.dict, e.w) THEN [q EXCEPT !.hung = TRUE]
  ELSE IF Get(q.dict, e.w) = NULL
  THEN [SetDict(q, e.w, e.ph) EXCEPT !.onlys_words = @ \cup {e.w}]
  ELSE [q EXCEPT !.onlys_bare_dict = Set(@, e.w, e.ph)]

Compound(e) == /\ InFlags(e, "$strend2") /\ Size[e.w] >= 2
               /\ Lead[e.ph] \notin {",", "'", "%"}

(* store_plain_entry()                                                     *)
PlainEntry(q, e) ==
  LET strend == InFlags(e, "$strend2")
  IN  [SetDict(q, e.w, e.ph) EXCEPT
         !.only_words = AddIf(InFlags(e, "$only"), @, e.w),
         !.compound_prefixes =
            IF Compound(e) THEN Append(@, <<e.w, e.ph>>) ELSE @,
         !.strend_words = AddIf(Compound(e), @, e.w),
         !.comma_strend2_words = AddIf(strend /\ Lead[e.ph] = ",", @, e.w),
         !.u2_strend2_words = AddIf(strend /\ InFlags(e, "$u2"), @, e.w)]

(* store_dictionary_entry(): the first rule that fits an entry routes it.  *)
Routes(e) ==
  <<[to |-> "flag",    fits |-> IsFlag(e.ph)],
    [to |-> "noun",    fits |-> InFlags(e, "$noun")],
    [to |-> "verb",    fits |-> Verb(e)],
    [to |-> "atend",   fits |-> AtEnd(e)],
    [to |-> "capital", fits |-> InFlags(e, "$capital")],
    [to |-> "atstart", fits |-> InFlags(e, "$atstart")],
    [to |-> "past",    fits |-> InFlags(e, "$past")],
    [to |-> "onlys",   fits |-> InFlags(e, "$onlys")],
    [to |-> "plain",   fits |-> TRUE]>>

(* Mutant: a flag in the phonemes column is taken for phonemes.            *)
RouteUnflagged(e) ==
  Routes(e)[Min({i \in 2 .. 9 : Routes(e)[i].fits})].to
Route(e) == Routes(e)[Min({i \in 1 .. 9 : Routes(e)[i].fits})].to

StoreEntry(q, e) ==
  LET r == PosSets(FlagSets(q, e), e)
      route == Route(e)
  IN  CASE route = "flag"    -> FlagOnlyEntry(r, e)
        [] route = "noun"    -> [r EXCEPT !.noun_dict = Emplace(@, e.w, e.ph)]
        [] route = "verb"    -> [r EXCEPT !.verb_dict = Emplace(@, e.w, e.ph)]
        [] route = "atend"   -> IF InFlags(e, "$atstart") THEN r
                                ELSE [r EXCEPT !.atend_dict = Set(@, e.w, e.ph)]
        [] route = "capital" -> [r EXCEPT !.capital_dict = Set(@, e.w, e.ph)]
        [] route = "atstart" -> [r EXCEPT !.atstart_dict = Set(@, e.w, e.ph)]
        [] route = "past"    -> [r EXCEPT !.past_dict = Emplace(@, e.w, e.ph)]
        [] route = "onlys"   -> OnlysEntry(r, e)
        [] OTHER             -> PlainEntry(r, e)

-----------------------------------------------------------------------------
(* Phrases.  parse_phrase_entry() takes every line that begins with a      *)
(* parenthesis, before the dialect is looked at, and stores the two-word   *)
(* ones that have neither a '.' nor $atend nor $pause.                     *)
IsPhrase(line) == line[1] \in DOMAIN Opening

PhraseEntry(q, line) ==
  LET last == SelectInSeq(line, LAMBDA f : f \in DOMAIN Closing)
      words == <<Opening[line[1]], Closing[line[last]]>>
      rest == SubSeq(line, last + 1, Len(line))
      flags == {rest[i] : i \in 2 .. Len(rest)}
      key == <<Lower[words[1]], Lower[words[2]]>>
      ph == rest[1]
      own == Has(ph, "'") \/ Lead[ph] = "%"
  IN  IF \/ last # 2 \/ rest = <<>> \/ IsFlag(rest[1])
         \/ flags \cap {"$atend", "$pause"} # {}
         \/ ToSet(words) \cap Dotted # {}
      THEN q
      ELSE IF ph \in DOMAIN Halves
      THEN [q EXCEPT !.phrase_split_dict = Emplace(@, key, Halves[ph])]
      ELSE [q EXCEPT
              !.phrase_dict = Emplace(@, key, [weak |-> ~own, ph |-> ph]),
              !.keep_sec_phrase_keys = AddIf("$u2+" \in flags, @, key)]

(* dialect_condition_applies(): [cond, applies, fields], the mark gone.    *)
Dialect(line) ==
  IF line[1] \in DOMAIN Dialects /\ Len(line) > 1
  THEN LET d == Dialects[line[1]]
           match == d.cond \in {3, 6} /\ IsEnUs
       IN  [cond |-> d.cond, fields |-> Tail(line),
            applies |-> d.cond = 0 \/ match # d.negated]
  ELSE [cond |-> 0, fields |-> line, applies |-> TRUE]

(* load_dictionary_line(), of a line that is more than a comment.          *)
LoadLine(q, line) ==
  IF IsPhrase(line) THEN PhraseEntry(q, line)
  ELSE LET d == Dialect(line)
       IN  IF d.applies /\ Len(d.fields) >= 2
           THEN StoreEntry(q, Entry(d.fields, d.cond))
           ELSE q

(* Fields are strings; a line that is an entry has a word and phonemes or  *)
(* a flag.                                                                 *)
ASSUME LinesAssumption ==
  /\ MaxLines \in Nat /\ Size \in [Keys -> Nat]
  /\ Lines \subseteq Seq(STRING)
  /\ \A line \in Lines :
       LET d == Dialect(line)
       IN  ~IsPhrase(line) /\ Len(d.fields) >= 2 =>
             /\ Lower[d.fields[1]] \in Keys
             /\ d.fields[2] \in Values \cup Flags

(* A rest of less than four letters is a key, one of four or more is NULL; *)
(* each has a vowel.                                                       *)
ASSUME SplitsAssumption ==
  \A word \in DOMAIN Splits : Splits[word] \subseteq [prefix : Keys, rest : Keys \cup {NULL}]

ReadLine ==
  /\ phase = "loading"
  /\ Len(read) < MaxLines
  /\ \E line \in Lines :
       LET q == LoadLine(p, line)
       IN  /\ read' = Append(read, line)
           /\ IF q.hung THEN p' = p /\ phase' = "hung"
              ELSE p' = q /\ UNCHANGED phase

(* Mutant: the comparison is the other way round.                          *)
SortedUp(s, t) ==
  /\ \E order \in [1 .. Len(s) -> 1 .. Len(s)] :
       /\ \A i, j \in 1 .. Len(s) : order[i] = order[j] => i = j
       /\ t = [i \in 1 .. Len(s) |-> s[order[i]]]
  /\ \A i \in 1 .. Len(t) - 1 : Size[t[i][1]] <= Size[t[i + 1][1]]

(* The end of the file: qsort() by length, which leaves equals in any      *)
(* order, and "made" taken from the unstressed words.                      *)
Sorted(s, t) ==
  /\ \E order \in [1 .. Len(s) -> 1 .. Len(s)] :
       /\ \A i, j \in 1 .. Len(s) : order[i] = order[j] => i = j
       /\ t = [i \in 1 .. Len(s) |-> s[order[i]]]
  /\ \A i \in 1 .. Len(t) - 1 : Size[t[i][1]] >= Size[t[i + 1][1]]

EndOfFile ==
  /\ phase = "loading"
  /\ \E t \in [1 .. Len(p.compound_prefixes) -> ToSet(p.compound_prefixes)] :
       /\ Sorted(p.compound_prefixes, t)
       /\ p' = [p EXCEPT !.compound_prefixes = t,
                         !.unstressed_words = @ \ {"made"}]
  /\ phase' = "loaded"
  /\ UNCHANGED read

Next == ReadLine \/ EndOfFile

Spec == Init /\ [][Next]_vars

-----------------------------------------------------------------------------
(* compound_prefix_fits() and check_compound_prefixes(): a word that no    *)
(* entry has takes the first prefix of the list that fits it, of four      *)
(* letters or more, and a short rest must itself be in the dictionary.     *)
PrefixFits(q, split) ==
  /\ Size[split.prefix] >= 4
  /\ split.rest # NULL =>
       Get(q.dict, split.rest) # NULL \/ split.rest \in DOMAIN q.verb_dict

CompoundScan(q, word) ==
  LET fit == {i \in 1 .. Len(q.compound_prefixes) :
                \E split \in Splits[word] :
                  split.prefix = q.compound_prefixes[i][1] /\ PrefixFits(q, split)}
  IN  IF fit = {} THEN NULL ELSE q.compound_prefixes[Min(fit)]

-----------------------------------------------------------------------------
SetFields == {"pastf_words", "nounf_words", "verbf_words",
  "unstressed_words", "unstressend_words", "abbrev_words", "onlys_words",
  "only_words", "noun_form_stress", "verb_flag_words", "strend_words",
  "u2_strend2_words", "comma_strend2_words", "u_plus_secondary_words"}
MapFields == {"verb_dict", "past_dict", "noun_dict", "atstart_dict",
  "atend_dict", "capital_dict", "onlys_bare_dict"}

(* The state keeps its types: every map holds phonemes under lower-case    *)
(* words, never the flag that stood in the phonemes column.                *)
TypeOK ==
  /\ phase \in {"loading", "loaded", "hung"}
  /\ read \in Seq(Lines) /\ Len(read) <= MaxLines
  /\ p.dict.slots \in [0 .. p.dict.capacity - 1 -> Slots]
  /\ p.dict.count \in Nat /\ p.dict.capacity \in Nat
  /\ \A f \in SetFields : p[f] \subseteq Keys
  /\ \A f \in MapFields : /\ DOMAIN p[f] \subseteq Keys
                           /\ \A w \in DOMAIN p[f] : p[f][w] \in Values
  /\ DOMAIN p.stress_pos \subseteq Keys
  /\ \A w \in DOMAIN p.stress_pos : p.stress_pos[w] \in 1 .. 6
  /\ p.word_alt_flags \in [Keys -> SUBSET (1 .. 6)]
  /\ p.compound_prefixes \in Seq(Keys \X Values)
  /\ p.hung = FALSE

(* Whatever was put, replaced, retracted and moved by growing, a probe for *)
(* a word that the dictionary holds reaches it, and no word is held twice  *)
(* (map_put() searches past the tombstones before it reuses one).          *)
DictChains == ChainsWhole(p.dict)

(* The load leaves a quarter of the table to empty slots and tombstones    *)
(* (map_put()): only when tombstones have taken all of that quarter can a  *)
(* probe run for ever.                                                     *)
HangNeedsTombstones ==
  LET tombs == {i \in 0 .. p.dict.capacity - 1 :
                  p.dict.slots[i] = TOMBSTONE}
  IN  /\ LoadBounded(p.dict)
      /\ phase = "hung" => Cardinality(tombs) * 4 >= p.dict.capacity

(* What the lines say, whatever the maps went through: of each line the    *)
(* word, its phonemes and what it does to that word.                       *)
Entries(line) ==
  IF IsPhrase(line) THEN {}
  ELSE LET d == Dialect(line)
       IN  IF d.applies /\ Len(d.fields) >= 2 THEN {Entry(d.fields, d.cond)}
           ELSE {}

Deeds == {"retracts", "overwrites", "yields", "noun", "verb", "past", "prefix"}
Does(e) ==
  {what \in Deeds :
     CASE what = "retracts"   -> Retracts(e)
       [] what = "overwrites" -> \/ Route(e) = "plain"
                                 \/ Route(e) = "onlys" /\ e.cond # 0
       [] what = "yields"     -> Route(e) = "onlys" /\ e.cond = 0
       [] what = "prefix"     -> Route(e) = "plain" /\ Compound(e)
       [] OTHER               -> Route(e) = what}
Says == [line \in Lines |->
           {[w |-> e.w, ph |-> e.ph, does |-> Does(e)] : e \in Entries(line)}]

(* Which of the first n lines do it to w, and the phonemes of a line.      *)
Of(lines, w, n, what) ==
  {i \in 1 .. n : \E e \in Says[lines[i]] : e.w = w /\ what \in e.does}
Spoken(lines, i) == (CHOOSE e \in Says[lines[i]] : TRUE).ph
Earliest(is) == CHOOSE i \in is : \A j \in is : i <= j
Latest(is) == CHOOSE i \in is : \A j \in is : i >= j

(* Those since the word was last retracted.                                *)
Since(lines, w, n, what) ==
  LET gone == Of(lines, w, n, "retracts")
  IN  {i \in Of(lines, w, n, what) : gone # {} => i > Latest(gone)}

(* The latest entry that overwrites, or else the earliest that yields.     *)
DictMeaning(lines, w, n) ==
  LET over == Since(lines, w, n, "overwrites")
      yield == Since(lines, w, n, "yields")
  IN  IF over # {} THEN Spoken(lines, Latest(over))
      ELSE IF yield # {} THEN Spoken(lines, Earliest(yield)) ELSE NULL

(* The latest entry that yielded to another.                               *)
Yielded(lines, w, n) ==
  {i \in Of(lines, w, n, "yields") : DictMeaning(lines, w, i - 1) # NULL}
BareMeaning(lines, w, n) ==
  LET late == Yielded(lines, w, n)
  IN  IF late = {} THEN NULL ELSE Spoken(lines, Latest(late))

FirstMeaning(lines, w, n, what) ==
  LET is == Of(lines, w, n, what)
  IN  IF is = {} THEN NULL ELSE Spoken(lines, Earliest(is))

At(f, w) == IF w \in DOMAIN f THEN f[w] ELSE NULL

(* A line at which a probe hung is read, but not stored.                   *)
Stored == IF phase = "hung" THEN Len(read) - 1 ELSE Len(read)

(* What word_to_phonemes() will find for a word is what the file says of   *)
(* it: later plain entries replace earlier ones, $noun, $verb and $past    *)
(* keep the first, a $altN retracts what stood before it and nothing else, *)
(* and an unconditional $onlys never replaces an entry.                    *)
EntriesMeanLines ==
  \A w \in Keys :
    /\ GetEnds(p.dict, w) => Get(p.dict, w) = DictMeaning(read, w, Stored)
    /\ GetEnds(p.dict, w) \/ DictMeaning(read, w, Stored) = NULL
    /\ At(p.onlys_bare_dict, w) = BareMeaning(read, w, Stored)
    /\ At(p.noun_dict, w) = FirstMeaning(read, w, Stored, "noun")
    /\ At(p.verb_dict, w) = FirstMeaning(read, w, Stored, "verb")
    /\ At(p.past_dict, w) = FirstMeaning(read, w, Stored, "past")

(* The splits of a word into a prefix some line makes one, retracted later *)
(* or not, and a rest that is long or that the lines mean something by.    *)
SplitsMeant(lines, word, n) ==
  {split \in Splits[word] :
     /\ Size[split.prefix] >= 4
     /\ Of(lines, split.prefix, n, "prefix") # {}
     /\ split.rest # NULL =>
          \/ DictMeaning(lines, split.rest, n) # NULL
          \/ FirstMeaning(lines, split.rest, n, "verb") # NULL}
PrefixPhonemes(lines, w, n) == {Spoken(lines, i) : i \in Of(lines, w, n, "prefix")}

(* What check_compound_prefixes() takes for a word that has no entry is    *)
(* what the file says, in whatever order its lines stand and whatever      *)
(* order qsort() leaves equals in: the longest prefix of all that fit, and *)
(* none only if none fits.  Its phonemes are those of a line that made it  *)
(* a prefix: of which one is qsort()'s choice when there are several, and  *)
(* they stay when a $altN takes the prefix out of the dictionary.          *)
CompoundsMeanLines ==
  phase = "loaded" =>
    \A word \in DOMAIN Splits :
      LET meant == SplitsMeant(read, word, Stored)
          found == CompoundScan(p, word)
      IN  (\A split \in Splits[word] : split.rest # NULL => GetEnds(p.dict, split.rest)) =>
            IF meant = {} THEN found = NULL
            ELSE \E split \in meant :
                   /\ \A other \in meant : Size[other.prefix] <= Size[split.prefix]
                   /\ found[1] = split.prefix
                   /\ found[2] \in PrefixPhonemes(read, split.prefix, Stored)

=============================================================================
