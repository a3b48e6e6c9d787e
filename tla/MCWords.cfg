SPECIFICATION Spec
CONSTANTS
  Vowels <- MCVowels
  Digits <- MCDigits
  Letters <- MCLetters
  Group <- MCGroup
  Items <- MCItems
  Rules <- MCRules
  Texts <- MCTexts
  dict <- MCdict
  verb_dict <- MCverb_dict
  onlys_bare_dict <- MConlys_bare_dict
  capital_dict <- MCcapital_dict
  dull <- MCdull
  onlys_words <- MConlys_words
  only_words <- MConly_words
  noun_form_stress <- MCnoun_form_stress
  verb_flag_words <- MCverb_flag_words
  strend_words <- MCstrend_words
  stress_pos <- MCstress_pos
  word_alt_flags <- MCword_alt_flags
  compound_prefixes <- MCcompound_prefixes
INVARIANTS
  TypeOK
  CallsShorten
  BestRuleTaken
PROPERTIES
  WordsEnd
