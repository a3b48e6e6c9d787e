# Verification of kittens-tts-cli

TLA+ models of this repository, the TLC runs that check them and the theorems
TLAPS proves about them. Paths are relative to the repository's root.

## 1. The system

`kittens-tts-cli` turns a text into speech in one process:

    arguments ─ run() ─┬─ spill_temp ─ phonemizer_create ─ kittens_create ─ unlink
                       ├─ synth_document ─ per sentence:
                       │     phonemizer_phonemize ─ sentence_to_ids ─ kittens_synthesize
                       └─ write_output: a WAV file, or a pipe to ffmpeg
    kittens_create ─ gguf_open, gguf_load_tensor        every part ─ trace() ─ ring, stderr, observer
    phonemizer_create ─ rules and dictionaries from resources/en_rules and en_list

| component | source | state | operations | hard because |
|---|---|---|---|---|
| Trace ring | `src/trace.c`, `include/trace/trace.h` | ring of entries with heap messages, head, spinlock, observer slot, minimum level | `trace`, `trace_at`, `trace_message`, `trace_subscribe`, `trace_set_min_level` | several writer threads, lock-free readers, callbacks that trace |
| Command line driver | `kittens_tts_cli.c` | temporary files, handles, exit code, pipe to a child process | `run`, `spill_temp`, `write_output` | every call may fail; what was obtained before must be released; the child is a process of its own |
| Document walk | `kittens_tts_cli.c` | position in the text, `emitted`, audio buffer | `synth_document`, `synth_paragraph`, `synth_sentence` | pauses depend on what was emitted earlier; failures are silent |
| Symbols | `kittens_tts_cli.c`, `src/kitten_symbols.h` | table from code point to id | `symbol_map_build`, `sentence_to_ids` | limits of the table and of the id buffer |
| Voices | `kittens_tts_cli.c` | none | `voice_lookup`, `voice_embedding` | a scan of an embedded header |
| GGUF reader | `src/gguf_reader.c` | file descriptor, mapping, cursor, tensor table | `gguf_open`, `gguf_get_tensor`, `gguf_release_mmap`, `gguf_close` | every count comes from the file; partial failure; pointers into a mapping that is given back |
| Model binding | `src/kittens.c` | context, weights, cache of named weights, two arenas | `kittens_create`, `named`, `kittens_destroy` | a load that fails half way; weights that point into the file |
| Synthesis | `src/kittens.c` | scratch arena, heap and page buffers, segment cursors, carry mode | `kittens_synthesize` and its stages | buffers that must outlive arena resets; segments computed in place, with overlaps; pages given back early |
| Tensor operations | `src/tensor.c` | bump arena | `arena_*`, `tensor_*` | lifetimes in the arena |
| Phonemizer data | `src/phonemizer.c` | hash maps, word sets, dictionaries | `phonemizer_create`, `map_*`, `load_dictionary` | a hand-written open-addressing map, entries erased while loading; later lines change earlier ones |
| Phonemizer rules | `src/phonemizer.c` | rule groups by first letters; cursors of a scan | `match_rule`, `find_best_rule`, `apply_rules`, `word_to_phonemes` | nested cursors, scores that depend on distance, recursion on stems |
| Phonemizer prosody | `src/phonemizer.c` | the codes of one word, flags between passes | `process_phoneme_string` and its passes | thirty passes in a fixed order; places found in a string that a pass then edits |
| Phonemizer text | `src/phonemizer.c` | tokens, cursor, windows for past, noun and verb, the pair at hand | `phonemize_text`, the handlers of a token, `phonemes_to_ipa` | five handlers that take two tokens; what a word becomes depends on the words around it, looked up in different ways |

The model file, the voices, the rule and list files under `resources/` and the
Makefile are data and build files and have no behaviour of their own.

### What makes each component correct

* Trace ring: no entry is seen half-written, no message leaks or is freed
  twice, the lines reach stderr in the ring's order, the lock is always
  released.
* Driver: every way out releases everything once and leaves no temporary file;
  the exit code tells the truth; a child that dies or waits does not hang it.
* Document walk: each letter is spoken once and in order; a unit is one sentence
  with its terminator; pauses stand between sentences only.
* Symbols: the ids fit their array and the vocabulary; no symbol that fits is lost.
* GGUF reader: whatever the file says, no byte outside it is read and no tensor
  outside it is delivered; an open that fails gives back what it had.
* Model binding: a context that exists has all its weights, and they stay
  readable while it lives.
* Synthesis: computing by segments gives what computing the whole would; no
  tensor or page is used after it was reset, freed or taken over, none is kept.
* Phonemizer rules: the best rule is taken at every place, no letter outside the
  word is read or silenced, and the recursion of words, stems and rules ends.
* Phonemizer prosody: passes about stress leave the sounds alone, passes about
  sounds leave the stressed vowels alone, and no stress is lost on the way.
* Phonemizer text: every word of the text is spoken once, in order, numbers with
  their value; what a word does to the next one is what stands between them.
* Phonemizer data: what the dictionaries hold afterwards is what the lines say,
  in their order; no word is lost in the table or held twice.

## 2. Modules

| module | models | built on |
|---|---|---|
| `TraceLog` | the abstract log the ring promises | |
| `TraceRing` | `src/trace.c`, step by step | instantiates `TraceLog` |
| `TraceRingProofs` | the theorems about `TraceRing` | extends `TraceRing` |
| `Document` | the walk over paragraphs and sentences | |
| `Driver` | `run()`, the loaders' failures, ffmpeg | extends `Document` |
| `DriverProofs` | the theorems about the walk and the run, and about the symbols | extends `Driver`, `Symbols` |
| `Symbols` | the symbol table, the UTF-8 reader, `sentence_to_ids()`, as operators | |
| `Numbers` | least and greatest members of sets of numbers, remainders, for the proofs | |
| `GgufReader` | `src/gguf_reader.c`: cursor, tables, mapping | |
| `Model` | the two clients of the reader: the network's weights, and a caller that maps regions | extends `GgufReader` |
| `ModelProofs` | the theorems about both | extends `Model`, `Numbers` |
| `Windows` | the row and page arithmetic of the segment loops, as operators | |
| `Synthesis` | `kittens_synthesize()`: what is alive when, and which rows each row comes from | extends `Windows` |
| `SynthesisProofs` | the theorems about both | extends `Synthesis` |
| `HashMap` | `struct map` of the phonemizer, as operators on a table | |
| `Dictionary` | `load_dictionary()` | extends `HashMap` |
| `DictionaryProofs` | the theorems about `HashMap` and `Dictionary` | extends `Dictionary`, `Numbers` |
| `RuleMatch` | one rule at one place of a word, its score, the best rule | |
| `Words` | `word_to_phonemes()`, its arms and `apply_rules()`, as a stack of calls | extends `RuleMatch` |
| `WordsProofs` | the theorems about both | extends `Words`, `Numbers` |
| `Codes` | strings of phoneme codes: reading, syllables, editing | |
| `Segmental` | the passes on sounds | extends `Codes` |
| `Stress` | the passes that place, move and take out marks | extends `Codes` |
| `Reductions` | the passes that reduce vowels and flap a t | extends `Codes` |
| `Prosody` | `process_phoneme_string()` as a function, and the stress that rules and entries ask for | extends the three |
| `Ipa` | `phonemes_to_ipa()` and what is asked of its sounds | extends `Codes` |
| `Passes` | `process_phoneme_string()` pass by pass | extends `Prosody`, `Ipa` |
| `Tokens` | `tokenize()`, numbers, the groups of an acronym | |
| `Sentence` | what the handlers of a token ask of the sentence and the dictionary | extends `Passes`, `Tokens` |
| `Utterance` | `phonemize_text()`, token by token | extends `Sentence` |
| `UtteranceProofs` | the theorems about the windows, the numbers and what is heard | extends `Utterance`, `Numbers` |
| `MCTraceRing`, `MCDriver`, `MCModel`, `MCSynthesis`, `MCDictionary`, `MCWords`, `MCText` | instances for TLC | |

Some definitions are followed or preceded by a variant whose comment begins
with "A bug": the same definition with one plausible mistake. They are used
nowhere; each shows that the property it belongs to notices the mistake.

### 2.1 TraceRing

One step is one access to shared memory, in program order; the atomics are taken
as sequentially consistent. A writer goes through `_trace_()` (`Acquire`, `LoadHead`,
`FreeOld`, `Clear`, `Allocate` or `NoMessage`, `Format`, `Mirror`, `Publish`,
`Unlock`), then notifies the observer (`LoadObserver`, `TestCallback`, `Call`,
`ReadContext`, `CallbackReturns`), whose callback may trace again (`Reenter`
pushes the caller's entry). A reader calls `trace_at()` and copies the entry; a
subscriber copies its observer into the static slot one field at a time. A
message is its heap block, so that a block freed twice, leaked or read after it
was freed can be told. The history fields `gen` (whose entry it is) and the
variable `mirrored` (the indices of the lines on stderr, in the order they were
written) exist for the properties only.

### 2.2 Document and Driver

A text is a sequence over four classes of characters (a letter, white space, a
terminator, a newline), the only ones the walk tells apart. The audio buffer is
the sequence of the pauses and sentences appended to it. A sentence may fail to
be phonemized or synthesized and each growth of the buffer may fail, all in
silence; `faults` remembers what failed and at which sentence, so that the
properties can say what a failure may take with it. A speed that is not positive
is refused by `kittens_synthesize()`.

`Driver` takes `run()` from the arguments to the exit code: each temporary file,
each handle, the input text and the audio buffer is counted, every call may fail,
and ffmpeg is a process that reads a bounded pipe, may fail at any time and
answers the parent's `pclose()`. `Unlink` hands all three path buffers to
`unlink()` as the code does; for one that `spill_temp()` never filled `stray` says
what became of that: there was no such file, or one of someone else's is gone.

`Symbols` is what happens to the sounds of a sentence on their way to the
network. It takes the ids of the whole string and then keeps the first of them;
the loop of the code stops when the array is full. `LoopAgrees` of `MCDriver`
compares the two over all strings of up to four bytes that start, continue or
break a sequence, and arrays of four to seven ids.

### 2.3 GgufReader and Model

A file is a sequence of cells; a number of any width, a type code and a character
take one cell. The cursor is added to modulo `Word`, and `cur.far` remembers the
furthest cell it made the code read. `gguf_open()` is one action per table entry:
`ReadHeader`, `AllocKvs`, `ParseOneKv`, `ApplyAlignment`, `AllocTensors`,
`ParseOneTensor`, `PlaceData`, or `Malformed` from any of them; allocations fail
by `Abort` (`gg_oom()` ends the process).
A value is skipped by as many calls and turns as it takes: `Skip` follows them to a
depth of one more than the file's length, which no value in the file reaches, as each
call and turn takes a cell before the next begins. The mask of the alignment is a parameter,
`BitAnd`, of which `AndAssumption` says what is used: a mask leaves no more bits than
it has, and that of a power of two the remainder. The instances give it the `&` of the
community modules, and TLC evaluates the assumption on it.

`Model` drives it. `kittens` is what the program does: `Create`, `Opening`,
`MakeArenas`, `LoadArch`, `BindWeight` per required name, `Created`, then
`Named` for the weights looked up by name at run time, and `Destroy`. `region` is
the rest of the reader's interface, which the program does not use: it opens,
loads a tensor through the shared or a second mapping, releases the mapping and
closes. A weight keeps its whole extent (`Spread`); what is compared with the
mapping is that number modulo `Word` (`SizeOf`), as in `kt_load_tensor()`.

### 2.4 Windows and Synthesis

`Windows` holds the arithmetic as the code writes it: where a segment ends, which
rows before and behind it a convolution is given (`Back`, `Ahead`), the rows a
convolved row needs (`Near`, `Under`), the frames that add to a sample
(`FramesOf`), the window of the last stage (`FirstFrame`, `FirstRow`,
`FirstSample`, `SamplesEnd`) and the pages retired before it (`PagesBefore`).

`Synthesis` runs the stages in the code's order. `fresh` is the set of tensors
made since the last `arena_reset()`, `heap` the allocated buffers, `host` the
page buffers with the pages still mapped and their element size; a use of
something gone, or of the wrong width, is recorded in `faults`. Of the numbers,
each row keeps only how often it was updated, or `Wrong` when it was computed from
a row the window lacked or that was already updated in place: the residual
blocks update their rows segment by segment in the same buffer. The frames of a
row's statistics are checked the same way (`stats`).

### 2.5 HashMap and Dictionary

A table is a record of its slots, count and capacity; `Put`, `Get`, `Delete`,
`Rehash` follow the probes of the code, tombstones included. The loops that
probe have no bound in the code: `PutEnds` and `GetEnds` say whether one ends.

`Dictionary` reads a file line by line. A line is its fields; what the loader
asks of the characters of a field (a parenthesis, a stress mark, `||`, a dialect
mark) is given by constants. `Routes` lists the arms of
`store_dictionary_entry()` in order and `Route` takes the first that fits. The
dictionary that entries are erased from is a `HashMap`; the other maps are
functions and the sets are sets. A load whose probe does not end is `hung`.
`CompoundScan` is the scan of `check_compound_prefixes()` over the prefixes as
`qsort()` left them; where a word can be split (`Splits`) is a constant, and what
becomes of the rest of the word is in `Words`.

### 2.6 RuleMatch and Words

`RuleMatch` is pure: a rule has a left context, a match and a right context;
`LeftContext` and `RightContext` fold the tokens into a score, a cursor and a
distance, `MatchRule` adds them up and `FindBestRule` takes the best of the
two-letter and then the one-letter group, the last of equals.

In `Words` each call is a frame of `stack`. A word's frame takes the plan of one
arm after the other (`TakePlan`), asks its questions of the dictionaries or of
other calls (`Ask`, `HearStep`) and returns when an arm claimed the word
(`Claim`). A rules frame goes from rule to rule (`Scan`): it skips a letter,
speaks the rule, strips an ending and calls for the stem, or splits off a prefix
and calls for the rest.

Phonemes are abstracted to none, some, or some with a vowel. Where the code looks
at the phonemes themselves (is the stem's end a schwa, a sibilant, unvoiced) the
arm has a plan for each outcome. Left out: `.replace` lines; where the stress goes
is in `Prosody`. A stem asked for twice is asked twice
in the model also where `-ing` keeps the first answer.

### 2.7 Codes, Segmental, Stress, Reductions, Prosody, Passes

A phoneme string is a sequence of characters and is read as the code reads it:
by the longest code of a table, one to four characters (`find_phoneme_code`),
with marks of stress in front of vowels. Each `apply_...`, `reduce_...` or
`..._stress` of the code is an operator of its name from a string to a string;
a loop that edits the string it walks over is a `Sweep`, whose step gives the
string and the place to go on from, so that a place that has become stale is
stale in the model too. What one pass leaves for later ones (where rules ended,
whether a secondary led, which passes were switched off) are arguments in
`Prosody` and variables in `Passes`, which takes one step per pass for the word
at hand; the dictionary words that handlers look up on the side go through
`process_phoneme_string` in one piece.

`apply_matched_rule` joins the phonemes of the rules that matched; one that
begins with `=` stresses the vowel before it (`apply_stress_prev`).

### 2.8 Ipa, Tokens, Sentence, Utterance

The sounds that `phonemes_to_ipa()` writes are the codes they stand for: the
table from codes to UTF-8 is data. `Tokens` splits the text and spells numbers;
letters are ASCII. Where `Tokens` loops over a string the model has a `Walk`: a
state, and a step for each place. `int_to_words()` calls itself for the thousands and the
millions of a number up to 9999999; the model names the levels instead (`Ones`,
`Tens`, `Hundreds`, `Thousands`, `Millions`).

`Utterance` has an action for each way a token is spoken: at once
(`ExpandNumber`, `SpellAcronym`, `EmitClitic`, `EmitSplitPhrase`,
`ExpandAbbreviation`) or as codes (`LookUp`, `MatchStaticPhrase`,
`MatchLoadedPhrase`) that go through the passes (`PassOver`), may be replaced by
what the open window or the place asks for (`SwapByWindow`, `SwapByPlace`, the
fixed forms of five words), get the stress the sentence leaves them
(`StressInSentence`), are joined to the next word (`JoinToNext`), and are spoken
(`Speak`); then the windows are counted (`UpdateCounters`). `Way` is the order in
which the handlers are tried. `says`, `handled` and `mute` exist for the properties
only: which tokens the codes at hand speak, which had a handler, and which have no
sound.

`Said` asks of every word before the cursor that it was heard (`Heard`): its parts
put together are the word; for a number, the words spoken read back to its value
(`ReadBack`). Two kinds of words are heard otherwise, and no others. A word that
gets no sounds from its dictionary, rules and passes is `mute`, and of an acronym
only the groups of letters that have sounds are heard. And the second word of a
pair of the tables is not spoken when the first is one of five words that have a
fixed form in that place (`Replaced`); then nothing else is spoken for it either.

The dictionary is a set of constants: what `load_dictionary()` fills them with
is the subject of `Dictionary`, which arm of `word_to_phonemes()` finds a word is
the subject of `Words`.

## 3. Runs

| run | instance | what it shows |
|---|---|---|
| `trace_readers` | 2 writers, 1 reader, 1 observer that may trace once from its callback, ring of 2, 3 calls | safety of the ring and the refinement of the log |
| `trace_calls` | 2 writers, 1 observer, ring of 2, 3 calls | every call returns |
| `trace_at` | 1 writer, 1 reader | **violated**: `trace_at()` gives out the slot being rewritten |
| `trace_subscribe` | 1 writer, 2 observers | **violated**: an observer is replaced field by field |
| `driver` | every text of up to 4 characters, a sentence buffer of 3 characters, every failure | what is spoken whatever fails, pauses, lifetimes and the files removed, exit codes, termination |
| `wav_written` | texts of one character | **violated**: exit code 0 for a WAV file that was cut |
| `model` | three well-formed files, each whole, cut anywhere, or with one cell replaced | reads, failures and lifetimes of the reader and of the weights |
| `region_after_release` | the same files | **violated**: nothing is loaded by region once the mapping is released |
| `synthesis` | inputs of 1, 2, 6 and 12 frames, the three carry modes, one call after another | segments, samples, lifetimes of every buffer |
| `dictionary` | every file of up to 4 of 20 lines, every order of equal prefixes | what the dictionaries hold, where compounds are taken apart, the table's chains, when a load hangs |
| `words` | 164 words: 20 chosen ones and 3 beginnings x 8 roots x 6 endings; 30 letters and groups with rules of `en_rules` | calls get shorter, every word ends, the best rule is taken, the scan stays within the word |
| `text` | 992 utterances of one to six words of `en_list` and `en_rules`, and 1344 coined words of four syllables, looked up in three ways | every word is said once, stress and sounds survive the passes, windows and links are what the text says |

Bounds.

* `MaxHead` (calls to `trace()`) of 3 lets a ring of two entries wrap and
  overwrite its first; `MaxDepth` of 1 is a callback that traces, whose own
  notification does not.
* Four characters hold two sentences, two paragraphs, a lone terminator before a
  sentence or a sentence that is cut. `PipeSize` 1 and `MaxFlush` 3 make the
  parent wait for the child.
* `Word` 128 and `MaxCell` 127 let a length wrap the cursor; a damaged cell
  takes every small number, every type code, the largest number and 64, which
  makes the size of a tensor of 64 floats wrap to 0 and pass the check. The files
  have up to four key/value pairs and two tensors, so both tables are cut and
  damaged at their first and at a later entry.
* Segments are 3 to 6 rows, the overlap 3, a page 8 bytes (2 or 4 rows), a half
  frame 15 samples instead of 300: 12 frames make each loop run several times,
  with a last segment that is full and one that is not, one frame none. The
  kernels and strides of the noise convolutions (20/10, 12/6) are the code's.
  The theorems of `SynthesisProofs` hold for every size.
* `FirstCapacity` 2 instead of 16: four lines then grow the table once and fill
  a quarter of it with tombstones. The twenty lines are the shapes of
  `resources/en_list` about five words, two of which share a home slot. Three
  compounds have a short rest, two prefixes to choose from, and a prefix too short.
* The words bring each of the fifteen arms to a claim or to a refusal behind
  calls of its own, and prefixes before endings before endings; what the
  dictionaries know is a few words in each of their sets.
* The utterances pair 24 first words (every kind of function word, acronyms, an
  abbreviation, a number) with 24 second ones, some of them over a comma, and
  have triples for windows of two words and for links; the entries and rules are
  those of `resources`. The coined words bring together every three neighbours
  of 8, 7 and 4 syllables and 8 ends, so that each pass meets the marks, weak
  vowels, diphthongs and rule ends it looks for, and those of the other passes.
  The operators were compared with the program on thousands of random sentences
  while they were written; the run checks properties, not that agreement.

Fairness. `CallsReturn` assumes that a thread inside `trace()` keeps running
(weak fairness of each writer) and nothing of who gets the spinlock next: with
finitely many calls everyone gets it. `Terminates` assumes that the process and
ffmpeg run. `WordsEnd` assumes that the one thread keeps running.

The carry modes other than 0 are set only through
`kittens_set_carry_fp16()`; the command line never calls it.

## 4. Theorems

`TraceRingProofs` proves, for any sets of writers, readers and observers, any
capacity and any bounds, that the ring keeps its types, that the inductive
invariant `IInv` holds, and from it `PublishedIntact`, `HeapOwned`, `CopyValid`,
`NotifiedEntryIntact`, `MirrorInOrder` and the refinement `ImplementsLog`.
`MirrorInOrder` needs `MirrorInv`: no line is of an index the head has not come
to, and that of the head is written only by the one who is about to publish it.

The invariant says who is in the critical section (`LockInv`), which index each
writer, its callers and each reader hold (`IndexInv`), that the window of the
log is complete (`WindowInv`), what the slot about to be taken holds
(`OldestInv`, `FreshInv`), how far the writer in the critical section has filled
it (`StageInv`) and that no other slot can hold the block it will allocate
(`BlockInv`). `HeapOwned` is inductive only together with all of these: the
block a slot gives back is the one the entry a lap earlier put there.

`SynthesisProofs` proves, for every length, segment and kernel, that the window of
a segment holds all the rows its rows depend on (`HifiWindow`, given that the
kernel's reach is at most the overlap of 128; the kernels come from the model
file and the code compares them with nothing), that
the frames and rows of the last stage are complete (`IstftFrames`, `IstftRows`),
that no retired page is read again (`RetiredNotRead`) and that a slice of the
strided convolution is exact (`SliceExact`).

It then proves, for inputs of every length, segments, kernels and pages
of every size and any stop of the caller, that `IInv` holds (`StagesHold`), and
from it `TypeOK`, `ReadsLive`, `FreedOnce` and `WholeSignal`. None of these is
inductive: a read is of a live tensor because of what was mapped, computed and
not yet reset at that place of the program, several stages earlier. The invariant
says for each stage

* where the program stands (`Place`): the stage, the residual block and where it
  returns to, the dilation;
* what is held outside the arena (`HostHeld`): which buffers have pages, of how
  many rows in which width, and from which page on in the last stage, which gives
  pages back as it goes;
* that no fault has happened, which buffers of the heap exist and which tensor
  of the arena the next stage still needs (`Clean`);
* how far the segments have come and what the rows before that are (`Rows`):
  those of the whole signal, or updated once too often or not yet;
* which samples are written and which pages may be gone (`Samples`).

The steps that read across a segment's border rest on the theorems about the
windows. Assumed are `SegmentAssumption` (sizes are positive, the kernels'
reach is within the overlap, and the samples trimmed from both ends fit in one
frame's: the code asserts that the trimmed signal is not empty, `kittens.c:1791`)
and `DurationsAssumption` (a signal has at least one frame, as each duration is
one or more, `kittens.c:1962`).

`DictionaryProofs` proves first, for any keys, hashes and capacities, that a lookup
answers by the bindings (`GetAnswers`) and that a deletion, an insertion over
tombstones and a growth change the binding of their own key only and keep every
chain whole (`DeleteSound`, `PutHereSound`, `RehashSound`, `PutSound`). The
invariant is `Sound`: no key twice, and no empty slot between the home of a key
and its place. Growing is a fold over the old slots; it is proved by looking at
the least slot at which the invariant of the move would fail (`LeastNumber`)
rather than by an induction principle. With the count (`Counted`: as many live
slots as the count says, at most three quarters of the table; `PutCounted`,
`DeleteCounted`) it follows that a probe that never ends has a table without an
empty slot (`HangsFull`), a quarter of which is tombstones (`FullOfTombstones`).

It then lifts this to `load_dictionary()`, for files of any lines in
any order: the invariant `IInv` (`LoadHolds`), and from it `TypeOK`,
`DictChains`, `HangNeedsTombstones`, `EntriesMeanLines` and
`CompoundsMeanLines`. What the lines say (`DictMeaning`, `BareMeaning`,
`FirstMeaning`) is defined from the lines alone, without the maps and without
running the loader. The proof has two halves that meet in `StoredMeant`:
`LineOutcome` says what one line does to the maps, through every arm of
`store_dictionary_entry()` (`Outcome`); `DictNext`, `BareNext` and `FirstNext` say
what one line more changes in what the lines say. `IInv` holds the types and the
count of the table (`Typed`), that a hang came of a full table, and for every
word that bindings, maps and the phonemes listed for it as a prefix are what the
lines stored so far say (`Meant`); a line at which a probe hung is read but not stored, so
`Stored` and `Len(read)` differ by one there. The bindings, not the answers of the
table, stand in `Meant`, because in a full table a lookup of an absent word has no
answer. Sorting is any permutation whose neighbours are in order: it lists of each
word what was listed before (`ListedPermuted`), and neighbours suffice
(`NeighboursSuffice`). That is why the order `qsort()` leaves equals in does not
matter to where a compound is taken apart (`CompoundsDecide`): a prefix fits by
what the lines mean by the rest (`FitMeant`), the first that fits is a longest one,
and only a word listed twice with different phonemes leaves anything to the sort.
Assumed are `HomeAssumption`, `CapacityAssumption` (the
first capacity is a power of two, the mask of the code), `NullAssumption`,
`LinesAssumption` (lines are sequences of strings; what is neither a phrase nor too short
has a word and phonemes or a flag) and `SplitsAssumption` (the prefix and the short
rest of a split are words).

`WordsProofs` proves, for any rules, any dictionaries and words of any length,
that `IInv` holds (`WordsHold`), and from it `TypeOK`, `CallsShorten` and
`BestRuleTaken` (`WordsTyped`, `RecursionShortens`, `BestIsTaken`). It goes
through the model from the inside out:

* A scan over a context never leaves its types, whatever the tokens and even
  where it reads outside the word: a lemma for each kind of token, then over the
  fold of all of them (`FoldClimbs`; that the folds of the library exist as
  functions is `FoldExists`). A rule that matches consumes at least one letter of
  what is left of the word and deletes only a place in it (`MatchSound`).
* A fold over a group keeps the best so far, the last of equals (`GroupBest`), and
  the two-letter group's best is what the one-letter group starts from
  (`BestFound`). This is `BestRuleTaken`, once the scan is known to stand in a word.
* Each arm's plans ask only about shorter words or about the word's own rules
  (`PlansShort`, one lemma for each arm). The hard cases are those that put
  letters back: a stem that loses `ing`, `ed`, a plural's ending or an apostrophe and
  gets an `e` or a `y`, and a stem behind a rule's ending (`StemOfShort`), which is
  shorter only because an ending that gives back an `e` has two letters or more.
* `CallsShorten` is not inductive: the call that is made comes from a plan chosen
  several steps before, and a frame below the top must not change its word while it
  waits. `IInv` therefore says that every plan in a frame is one about less
  (`Frames`), that the words along the stack get shorter, or stay the same from a
  word to its rules (`Stacked`), and that a frame with another above it, or one
  that is being answered, waits for something (`Awaits`).

Assumed are `RulesAssumption` (rules are typed, and a rule's match is not empty:
`store_rule_in_group()` drops the others, `phonemizer.c:1936`), `ItemsAssumption`,
`EndingsAssumption` (an ending that may give back an `e` has two letters or more, as
those of `en_rules` have; with one letter the stem would be as long as the word) and
`WordsAssumption` (the words are sequences of strings).

`DriverProofs` proves, for any set of documents of any length, any sentence
buffer of two bytes or more and any size of the pipe, that `RunInv` is an
invariant, and from it `TypeOK`, `Lifetimes`, `SuccessThroughFfmpeg`,
`DocumentSpoken` and `PausesBetween`. `RunInv` says for each place in `run()`
which temporary files may exist (`Files`), whether `unlink()` was given a path that
was never filled (`Straying`: only in a run that could not spill its files, speaks
nothing and ends with exit code 1), which handles are held (`Holding`),
where the walk is (`Walking`) and what is in the pipe (`Piping`), and contains
the invariant of the walk, `WalkInv`: the positions are at
boundaries of paragraphs and segments (`Standing`); what was spoken lies before
the place reached, in order, each piece within one sentence and with its
terminator (`InOrder`, `SpokenWhole`); of the letters before that place each was
spoken once unless the buffer cut it or its own sentence failed (`LettersSpoken`,
`FaultsBehind`); the buffer alternates between speech and pause as long as nothing
failed (`Paused`); and whatever failed, a newline was passed between what is spoken
before a long pause and what is spoken after it (`LongPauses`).
What the text alone defines as a sentence (`SentenceStart`) has nothing to do
with the cursors of the code; that they agree (`SegmentStarts`) needs
`Standing`, and that no letter is spoken twice needs the frontier `Reached`: this
is why the properties are not inductive by themselves. Assumed are
`CharactersAssumption` (the four classes are distinct), `TextsAssumption`,
`BufAssumption`, `SilenceAssumption` (the pause between sentences is shorter than
the one between paragraphs and neither is negative) and `PipeAssumption`.

`DriverProofs` also proves, for any table of symbols, that the reader of UTF-8 always moves on
and stays inside the string (`ReaderMovesOn`), that it reads the code point it
stands before (`ReaderReads`), and that the ids of a sentence fit any array of
four or more, lie in the vocabulary whose rows the network reads, and hold all
symbols that fit, the terminator last and once (`IdsFramed`). The symbols of a
string (`symbols_of`) are a recursion over it: the theorem is about any
sequence of ids, and that `symbols_of` gives one is left to TLC.

`ModelProofs` proves, for files of every length and content, any required and
optional names and both clients, that `IInv` holds (`ReaderHolds`), and from it
`TypeOK`, `WithinFile`, `WeightsHeld`, `NothingLeft` and `DeliveredInside`. That
nothing past the end is read is not inductive: the code reads a table's entries
later, by offsets it took while parsing, and adds lengths of the file to the cursor
without looking at the sum. The invariant says

* of the cursor, that it is inside the file at the head of each loop and that no
  read made so far went past the end (`Typed`, `Placed`). A length may wrap the
  cursor, but only to a place from which `gr_have()` is asked again: a file is
  shorter than half the address space, so one length added to a place in the file
  wraps at most once (`WordAssumption`);
* of the tables, that each entry's name and value lie in the file, that a tensor
  has at most four extents, that its data begin in the file and that the data
  section does not begin before the tables end, and on a multiple of the alignment
  when that is a power of two (`Tables`);
* of a context, which of the file, the arenas and the weights it has at each stage
  of `kittens_create()` (`Context`), and that the whole shape of each weight bound
  lies in the file, or is so large that its size wraps (`WeightsBound`, `Enclosed`);
* of a callback, that what it was given lies in the file (`Delivered`). After
  `gguf_release_mmap()` nothing is delivered: the size is 0 then, and the data
  section begins behind the header, so that no extent fits.

The values nested in arrays are proved by the depth of the nesting: what `Skip`
gives at one depth is a function of what it gives at the depth before
(`SomeValues`), and the least depth at which a cursor is out of reach cannot exist
(`PastSound`). Assumed are `WordAssumption` (cells and lengths are numbers below
`Word`), `AndAssumption` and `RequiredAssumption` (the names are a sequence). The
sizes are computed modulo `Word` in the model as in the code. What a callback is
given is of the size that was checked, so `DeliveredInside` holds whatever the
extents multiply to; a weight is used with its whole shape, so `WeightsHeld` holds
of all but those whose size wraps (section 5).

`UtteranceProofs` proves three things about `phonemize_text()`, for any texts, any
dictionaries, any tables of pairs and any rules.

* `WindowsOpen` (`WindowsAsFlagged`): the windows are open as long as the words
  before say. A step counts down what is open, the property looks back for the last
  flag word; the invariant `WindowsInv` gives the counters as a function of the kinds of
  the words that had a handler (`Counted`), and a word more shifts it by one.
* `NumberReadBack`: every number up to 9999999 is said in words that read back to
  it. `Read(words, from, to)` is what a piece of the spelling does to the sum; pieces put one
  behind the other compose (`ReadBoth`), so that each level of the spelling is
  proved from the one below it.
* `EveryWordHeard` (`Said`): every word is heard whole, once and in its place. By
  itself this says nothing while a word is between its handler and its pieces, and a
  handler that takes two tokens moves the cursor at once but speaks several steps
  later. The inductive invariant `SaidInv` therefore has a frontier (`Frontier`):
  the cursor between two words, the token at hand until it is spoken. It says
  - that everything before the frontier is behind: what was said is of tokens before
    it and in order, and each word there was heard by a handler that has taken it
    (`BehindInv`, `Past`);
  - what the codes at hand speak: the word, or both of the pair until a form takes
    the place of its codes, and the first alone from then on (`HandInv`,
    `CodesSpeak`); this is what makes the mistake of speaking a pair and leaving
    its second word to be taken again visible;
  - that a space stands between the pieces so far and `first_word` knows whether
    there is one (`SpaceInv`).

  Each handler then appends pieces that speak the tokens it takes (`Spends`): the
  digits of a number through `NumberReadBack`, an acronym in groups that put together
  give its letters (`GroupsWhole`), a pair in one piece or in two. What was said of earlier
  tokens is not changed by what is appended, as the parts of a token in a
  concatenation are the concatenation of its parts.

These need that `tokenize()` gives non-empty words of characters
(`TokensListed`) and that `FlattenSeq` and `Walk` are what their recursive
definitions say for sequences of any length. There is no induction principle for
that here; as elsewhere the least number at which they would differ is shown not to
exist (`Climbs`, `RecursExists`). The passes over codes do not matter to any of this:
whatever codes they give, the piece is for the tokens of `says`. Assumed is
`TextsAreSequences`: a text is a sequence of characters.

Other assumptions: the ring's capacity is a positive number, the levels are
numbers, and `NULL` is no block and no observer.

Model-checked only:

* Liveness (`CallsReturn`, `Terminates`, `WordsEnd`), which is beyond the prover; of
  `WordsEnd` the safety half, that no call is about as much as the one that made it, is
  proved.
* `MarksHeard`, `MarksOnly`, `StressedKept` and the typing of codes in `Utterance`'s `TypeOK`: they
  are about what some fifty edits do to a string of any length, each of them a loop
  over places found in it, and need a theorem for each edit.
* `LinkedBeforeVowel` and `WordStress`: they hold of the entries and rules of the
  instance and not of every dictionary. An r links to the next word because its
  codes begin with a vowel when it is looked up alone; that it is also spoken with one
  in the sentence is so unless a window, the place or a pair gives it other codes.

## 5. What was noticed

Besides the findings, which a run shows:

* When the first or the second temporary file cannot be spilled, the `&&` of
  `kittens_tts_cli.c:619` stops there and `unlink()` is handed path buffers nothing
  was ever written to (`kittens_tts_cli.c:630`). What they hold is whatever lay on
  the stack: most likely no name, in principle that of any file. `Lifetimes` says
  exactly when it happens (`StrayUnlink`).
* The product of a tensor's extents wraps (`kittens.c:156-159`), so that one whose
  floats would fill the address space several times over passes the check of
  `gguf_reader.c:312` with a small size; `kt_build_tensor()` then wraps the data
  with the full extents, or converts that many halves (`kittens.c:126-141`), although
  "every length and offset it carries is untrusted" (`gguf_reader.c:170-171`).
  `WeightsHeld` excepts these tensors; the model file the program embeds has none.
* `emitted` is set when a sentence was tried, not when it was heard: when the first
  sentence fails the audio begins with a pause, against the comment at
  `kittens_tts_cli.c:277`. `--speed 0` is accepted (`kittens_tts_cli.c:541`):
  the pauses are divided by it (`kittens_tts_cli.c:301`) and `kittens_synthesize()`
  refuses every sentence (`kittens.c:1911`).
* `trace.h:59` gives the default minimum level as warn, `trace.c:73` sets it to error.
* A paragraph whose first segment is dropped (a lone terminator, white space)
  gets the pause of a sentence: the grade is told from the offset of the segment
  (`kittens_tts_cli.c:341`). `PausesBetween` allows for it.
* When the first word of a pair of the phrase table is `the`, `a`, `an`, `to` or
  `use`, the fixed form of that word replaces the pair's codes and the second
  word is not spoken (`apply_lemma_override()`; "a la carte", "to to"). `Said`
  names the exception.
* The comment at `kittens_tts_cli.c:115` calls U+2192 the greatest code point; the
  table also holds U+2197, U+2198 and U+2C71, and the last lies beyond the map's
  0x2300 entries, so that it has an id that nothing is ever given.
* A sentence is cut at 2047 bytes of text but its ids at 4092: a long sentence of
  numbers loses its end there, and its terminator with it.
* A number above 9999999 is not spoken, nor are its digits.
* Pairs are recognised over punctuation ("of, the"), and `the` and `to` look at the
  next word's first letter: "the one" has the form before a vowel.
* An r does not link to an acronym in mixed case ("better MSc"), whose first
  sound is asked of the word and not of its first letter.
* A comma in front of the primary that is put next to it stays in the codes and
  is dropped when the sounds are written; `-ology` may leave a word with a second
  primary; the short form of `3:` is counted over codes that the same loop
  shortens; `reduce_bare_zero_before_primary` looks at rule ends by places that
  earlier passes have moved.
* `find_last_stressable_vowel()` asks `strchr()` for the byte 0 at the start of a
  word and is told yes: a first `I`, `U` or `@` is never the vowel that a rule
  beginning with `=` stresses.
* The comment at `phonemizer.c:10193` calls one table a subset of the other;
  `despite`, `except`, `inside`, `outside`, `toward`, `along`, `around` are in the
  first only.

## 6. Not modelled

* `voice_lookup()`'s scan of an embedded header (it reads constants and keeps no
  state), the slabs of the arena.
* UTF-8 in the text and in the sounds, `.replace` lines of the rules, dialects
  other than `en-us`, the limits of the passes' tables (256 syllables, 512 codes).
* The arithmetic of the network (floating point), products of sizes in
  `tensor.c` and in the stages of the synthesis that overflow `size_t` (those of the
  reader and of `kt_load_tensor()` are modelled), a failing `malloc` where the code does not test it, the bytes of a WAV
  header, the wording of messages, weak memory orderings beyond the races named
  above.
* Makefile, model file, voices, rule and list files: build files and data.

Worth proving next: that each pass of `Stress` only puts, moves or takes out marks
(`MarksOnly`), one lemma for each pass over `Splice` and `Sweep`, and from it the
typing of the codes.
