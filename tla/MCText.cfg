SPECIFICATION Spec
CONSTANTS
  Texts <- MCTexts
  rules <- MCrules
  stress_pos <- MCstress_pos
  dict <- MCdict
  past_dict <- MCpast_dict
  noun_dict <- MCnoun_dict
  verb_dict <- MCverb_dict
  atstart_dict <- MCatstart_dict
  atend_dict <- MCatend_dict
  phrase_dict <- MCphrase_dict
  phrase_split_dict <- MCphrase_split_dict
  strend_words <- MCstrend_words
  abbrev_words <- MCabbrev_words
  unstressed_words <- MCunstressed_words
  pastf_words <- MCpastf_words
  nounf_words <- MCnounf_words
  verbf_words <- MCverbf_words
  comma_strend2_words <- MCcomma_strend2_words
  u2_strend2_words <- MCu2_strend2_words
  u_plus_secondary_words <- MCu_plus_secondary_words
  unstressend_words <- MCunstressend_words
  keep_sec_phrase_keys <- MCkeep_sec_phrase_keys
INVARIANTS
  TypeOK
  MarksHeard
  Said
  WindowsAsFlagged
  LinkedBeforeVowel
  WordStress
PROPERTIES
  MarksOnly
  StressedKept
