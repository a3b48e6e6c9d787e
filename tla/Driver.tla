-------------------------------- MODULE Driver --------------------------------
(***************************************************************************)
(* run() of kittens_tts_cli.c, from the arguments to the exit code: the    *)
(* embedded files are spilled to temporary files for the loaders, the      *)
(* document is synthesized (module Document) and the audio is written to a *)
(* file or piped through ffmpeg, a process of its own.  Any library call   *)
(* may fail; some of the loaders' failures abort the process.              *)
(***************************************************************************)
EXTENDS Document, TLC

CONSTANTS
  Texts,     \* the documents
  PipeSize,  \* how many buffers of samples fit the pipe
  MaxFlush   \* bound: buffers of samples one output fills

ASSUME TextsAssumption == Texts \subseteq Seq(Characters)
ASSUME PipeAssumption == PipeSize \in Nat \ {0} /\ MaxFlush \in Nat \ {0}

Temps == {"en_rules", "en_list", "model.gguf"}
Order == <<"en_rules", "en_list", "model.gguf">>
Resources == {"text", "phon", "tts", "audio"}
Final == {"done", "aborted", "killed"}

VARIABLES
  pc,        \* place in run()
  rc,        \* exit code
  fromFile,  \* -f rather than -p
  wav,       \* the output path ends with .wav
  named,     \* the path buffers spill_temp() has filled
  disk,      \* temporary file -> "absent", "whole" or "cut"
  spilled,   \* result of the three spill_temp()
  stray,     \* history: unlink() of a path never filled did "nothing", or it
             \* "removed" some file; "none" before, or when there was no such call
  owned,     \* resource -> how often it is allocated less how often freed
  result,    \* the output file: "none", "partial" or "whole"
  left,      \* buffers of samples not yet handed to the pipe
  pipe,      \* buffers in the pipe
  ffmpeg     \* "none", "running", "eof" (stdin closed), "ok" or "failed"

runVars  == <<pc, rc, fromFile, wav, named, disk, spilled, stray, owned>>
sinkVars == <<result, left, pipe, ffmpeg>>
vars == <<docVars, runVars, sinkVars>>

TypeOK ==
  /\ pc \in {"args", "input", "spill", "phonemizer", "model", "unlink", "voice",
             "synth", "output", "feed", "close", "wait", "free_audio",
             "destroy_tts", "destroy_phon", "free_text"} \cup Final
  /\ rc \in 0 .. 2
  /\ fromFile \in BOOLEAN /\ wav \in BOOLEAN /\ spilled \in BOOLEAN
  /\ named \subseteq Temps
  /\ disk \in [Temps -> {"absent", "whole", "cut"}]
  /\ stray \in {"none", "nothing", "removed"}
  /\ owned \in [Resources -> 0 .. 1]
  /\ result \in {"none", "partial", "whole"}
  /\ left \in 0 .. MaxFlush
  /\ pipe \in 0 .. PipeSize
  /\ ffmpeg \in {"none", "running", "eof", "ok", "failed"}
  /\ doc \in {"off", "between", "inside", "end"}
  /\ pos \in 0 .. Size /\ seg \in 0 .. Size

Init ==
  /\ DocInit
  /\ pc = "args" /\ rc = 0
  /\ fromFile \in BOOLEAN /\ wav \in BOOLEAN
  /\ named = {}
  /\ disk = [t \in Temps |-> "absent"]
  /\ spilled = FALSE /\ stray = "none"
  /\ owned = [r \in Resources |-> 0]
  /\ result = "none" /\ left = 0 /\ pipe = 0 /\ ffmpeg = "none"

Goto(from, to) == pc = from /\ pc' = to
Alloc(r) == owned' = [owned EXCEPT ![r] = @ + 1]
Free(r)  == owned' = [owned EXCEPT ![r] = @ - 1]

-----------------------------------------------------------------------------
(* Arguments and input.                                                    *)

(* --help and --voices succeed; a flag that is unknown or lacks its value, *)
(* or no text at all, is a usage error.                                    *)
Arguments ==
  /\ pc = "args"
  /\ \/ pc' = "done" /\ rc' \in {0, 2}
     \/ pc' = "input" /\ rc' = rc
  /\ UNCHANGED <<fromFile, wav, named, disk, spilled, stray, owned, docVars, sinkVars>>

(* The voice is looked up first, but the file is read in any case.         *)
Input ==
  /\ pc = "input"
  /\ \E voiceKnown \in BOOLEAN, slurped \in BOOLEAN :
       /\ slurped => fromFile
       /\ IF slurped THEN Alloc("text") ELSE UNCHANGED owned
       /\ IF ~voiceKnown THEN pc' = "free_text" /\ rc' = 2
          ELSE IF fromFile /\ ~slurped THEN pc' = "free_text" /\ rc' = 1
          ELSE pc' = "spill" /\ rc' = rc
  /\ UNCHANGED <<fromFile, wav, named, disk, spilled, stray, docVars, sinkVars>>

-----------------------------------------------------------------------------
(* Temporary files and loaders.                                            *)

(* spill_temp() of the next file.  The open may fail, the write may fall   *)
(* short, and what fclose() reports is not looked at: the file may then be *)
(* cut although all of it "was written".  && stops at the first failure.   *)
SpillTemp ==
  /\ pc = "spill"
  /\ LET t == Order[Cardinality(named) + 1]
     IN  /\ named' = named \cup {t}
         /\ \E o \in {[file |-> "whole",  ok |-> TRUE],
                      [file |-> "cut",    ok |-> TRUE],
                      [file |-> "cut",    ok |-> FALSE],
                      [file |-> "absent", ok |-> FALSE]} :
              /\ disk' = [disk EXCEPT ![t] = o.file]
              /\ IF ~o.ok
                 THEN pc' = "phonemizer" /\ UNCHANGED spilled
                 ELSE IF named' = Temps THEN pc' = "phonemizer" /\ spilled' = TRUE
                 ELSE UNCHANGED <<pc, spilled>>
  /\ UNCHANGED <<rc, fromFile, wav, stray, owned, docVars, sinkVars>>

(* phonemizer_create() and kittens_create() return a handle or NULL, or    *)
(* abort(): oom() and gg_oom(), bind_req() on a tensor that is missing.    *)
Load(r, here, next) ==
  /\ pc = here
  /\ \/ spilled /\ pc' = next /\ Alloc(r)
     \/ pc' = next /\ UNCHANGED owned
     \/ spilled /\ pc' = "aborted" /\ UNCHANGED owned
  /\ UNCHANGED <<rc, fromFile, wav, named, disk, spilled, stray, docVars, sinkVars>>

LoadPhonemizer == Load("phon", "phonemizer", "model")
LoadModel == Load("tts", "model", "unlink")

(* A bug: the files are removed only when the loaders could be run.        *)
UnlinkIfSpilled ==
  /\ Goto("unlink", "voice")
  /\ disk' = [t \in Temps |-> IF spilled THEN "absent" ELSE disk[t]]
  /\ UNCHANGED <<rc, fromFile, wav, named, spilled, stray, owned, docVars, sinkVars>>

(* All three are unlinked, whatever happened.  A path that spill_temp()    *)
(* never filled is read uninitialized: what it spells, and whether there   *)
(* is such a file, is anyone's guess.                                      *)
Unlink ==
  /\ Goto("unlink", "voice")
  /\ disk' = [t \in Temps |-> IF t \in named THEN "absent" ELSE disk[t]]
  /\ stray' \in IF named = Temps THEN {"none"} ELSE {"nothing", "removed"}
  /\ UNCHANGED <<rc, fromFile, wav, named, spilled, owned, docVars, sinkVars>>

(* What cannot go on is released all the same, what there is of it.        *)
CheckInit ==
  /\ pc = "voice"
  /\ \E voice \in BOOLEAN :
       IF spilled /\ owned["phon"] = 1 /\ owned["tts"] = 1 /\ voice
       THEN pc' = "synth" /\ UNCHANGED rc
       ELSE pc' = "destroy_tts" /\ rc' = 1
  /\ UNCHANGED <<fromFile, wav, named, disk, spilled, stray, owned, docVars, sinkVars>>

-----------------------------------------------------------------------------
(* The document, then its audio.                                           *)

Begin ==
  /\ pc = "synth"
  /\ \E t \in Texts, s \in BOOLEAN : DocBegin(t, s)
  /\ UNCHANGED <<runVars, sinkVars>>

(* The buffer is allocated by the first growth.                            *)
Synthesize ==
  /\ pc = "synth"
  /\ DocStep
  /\ IF out = <<>> /\ out' # <<>> THEN Alloc("audio") ELSE UNCHANGED owned
  /\ IF doc' = "end" THEN pc' = "output" ELSE UNCHANGED pc
  /\ UNCHANGED <<rc, fromFile, wav, named, disk, spilled, stray, sinkVars>>

NoAudio ==
  /\ pc = "output" /\ out = <<>>
  /\ pc' = "free_audio" /\ rc' = 1
  /\ UNCHANGED <<fromFile, wav, named, disk, spilled, stray, owned, docVars, sinkVars>>

(* write_wav_file(): only the open is checked.                             *)
WriteWav ==
  /\ pc = "output" /\ out # <<>> /\ wav
  /\ pc' = "free_audio"
  /\ \/ result' = "none" /\ rc' = 1
     \/ result' \in {"partial", "whole"} /\ rc' = rc
  /\ UNCHANGED <<fromFile, wav, named, disk, spilled, stray, owned, docVars>>
  /\ UNCHANGED <<left, pipe, ffmpeg>>

(* write_via_ffmpeg(): popen() may fail.                                   *)
OpenPipe ==
  /\ pc = "output" /\ out # <<>> /\ ~wav
  /\ \/ /\ pc' = "free_audio" /\ rc' = 1
        /\ UNCHANGED <<left, ffmpeg>>
     \/ /\ pc' = "feed" /\ rc' = rc
        /\ left' \in 1 .. MaxFlush
        /\ ffmpeg' = "running"
  /\ UNCHANGED <<fromFile, wav, named, disk, spilled, stray, owned, docVars>>
  /\ UNCHANGED <<result, pipe>>

(* stdio flushes a full buffer: it waits for room in the pipe, and dies of *)
(* SIGPIPE when there is no reader any more.                               *)
Feed ==
  /\ pc = "feed" /\ left > 0
  /\ IF ffmpeg = "running"
     THEN /\ pipe < PipeSize
          /\ pipe' = pipe + 1 /\ left' = left - 1
          /\ UNCHANGED pc
     ELSE pc' = "killed" /\ UNCHANGED <<pipe, left>>
  /\ UNCHANGED <<rc, fromFile, wav, named, disk, spilled, stray, owned, docVars>>
  /\ UNCHANGED <<result, ffmpeg>>

(* A bug: pclose() waits for ffmpeg before it closes its input.            *)
WaitOnly ==
  /\ pc = "feed" /\ left = 0
  /\ pc' = "wait"
  /\ UNCHANGED <<rc, fromFile, wav, named, disk, spilled, stray, owned, docVars>>
  /\ UNCHANGED sinkVars

(* pclose(): end of file for ffmpeg, ...                                   *)
ClosePipe ==
  /\ pc = "feed" /\ left = 0
  /\ pc' = "wait"
  /\ ffmpeg' = IF ffmpeg = "running" THEN "eof" ELSE ffmpeg
  /\ UNCHANGED <<rc, fromFile, wav, named, disk, spilled, stray, owned, docVars>>
  /\ UNCHANGED <<result, left, pipe>>

(* A bug: the status of ffmpeg is not looked at.                           *)
StatusIgnored ==
  /\ pc = "wait" /\ ffmpeg \in {"ok", "failed"}
  /\ pc' = "free_audio"
  /\ UNCHANGED <<rc, fromFile, wav, named, disk, spilled, stray, owned, docVars, sinkVars>>

(* ... then its exit status.                                               *)
WaitPipe ==
  /\ pc = "wait" /\ ffmpeg \in {"ok", "failed"}
  /\ pc' = "free_audio"
  /\ rc' = IF ffmpeg = "ok" THEN rc ELSE 1
  /\ UNCHANGED <<fromFile, wav, named, disk, spilled, stray, owned, docVars, sinkVars>>

(* ffmpeg, external: it reads its input to the end, then writes the file   *)
(* and succeeds; it may fail at any time (a format it does not know).      *)
FfmpegReads ==
  /\ ffmpeg \in {"running", "eof"} /\ pipe > 0
  /\ pipe' = pipe - 1
  /\ UNCHANGED <<docVars, runVars, result, left, ffmpeg>>

FfmpegSucceeds ==
  /\ ffmpeg = "eof" /\ pipe = 0
  /\ ffmpeg' = "ok" /\ result' = "whole"
  /\ UNCHANGED <<docVars, runVars, left, pipe>>

FfmpegFails ==
  /\ ffmpeg \in {"running", "eof"}
  /\ ffmpeg' = "failed" /\ result' \in {"none", "partial"}
  /\ pipe' = 0
  /\ UNCHANGED <<docVars, runVars, left>>

-----------------------------------------------------------------------------
(* The way out.                                                            *)

(* A bug: a handle that was never obtained is destroyed.                   *)
ReleaseUntested(r, here, next) ==
  /\ Goto(here, next)
  /\ Free(r)
  /\ UNCHANGED <<rc, fromFile, wav, named, disk, spilled, stray, docVars, sinkVars>>

Release(r, here, next) ==
  /\ Goto(here, next)
  /\ IF owned[r] > 0 THEN Free(r) ELSE UNCHANGED owned
  /\ UNCHANGED <<rc, fromFile, wav, named, disk, spilled, stray, docVars, sinkVars>>

FreeAudio    == Release("audio", "free_audio", "destroy_tts")
DestroyModel == Release("tts", "destroy_tts", "destroy_phon")
DestroyPhon  == Release("phon", "destroy_phon", "free_text")
FreeText     == Release("text", "free_text", "done")

RunStep ==
  \/ Arguments \/ Input
  \/ SpillTemp \/ LoadPhonemizer \/ LoadModel \/ Unlink \/ CheckInit
  \/ Begin \/ Synthesize
  \/ NoAudio \/ WriteWav \/ OpenPipe \/ Feed \/ ClosePipe \/ WaitPipe
  \/ FreeAudio \/ DestroyModel \/ DestroyPhon \/ FreeText

Ffmpeg == FfmpegReads \/ FfmpegSucceeds

Finished == pc \in Final /\ UNCHANGED vars

Next == RunStep \/ Ffmpeg \/ FfmpegFails \/ Finished

(* The process runs, and so does ffmpeg, which need not fail.              *)
Spec == Init /\ [][Next]_vars
LiveSpec == Spec /\ WF_vars(RunStep) /\ WF_vars(Ffmpeg)

-----------------------------------------------------------------------------
(* Every way out of run() releases every resource, once, and leaves no     *)
(* temporary file: "nothing lingers on disk" (cli:475).  An abort() in a   *)
(* loader is not a way out of run().                                       *)
CleanExit ==
  pc \in {"done", "killed"} =>
    /\ \A t \in Temps : disk[t] = "absent"
    /\ pc = "done" => \A r \in Resources : owned[r] = 0

(* Nothing but a path is used after it was given back or before it was     *)
(* obtained: the loaders read files that are there, the synthesis has both *)
(* its engines, and the temporary files are gone before the first          *)
(* sentence.                                                               *)
UseInLifetime ==
  /\ pc = "phonemizer" /\ spilled => \A t \in Temps : disk[t] # "absent"
  /\ pc = "model" /\ spilled => disk["model.gguf"] # "absent"
  /\ pc \in {"synth", "output", "feed", "wait", "free_audio"} =>
       /\ owned["phon"] = 1 /\ owned["tts"] = 1
       /\ owned["audio"] = (IF out = <<>> THEN 0 ELSE 1)
       /\ \A t \in Temps : disk[t] = "absent"
       /\ fromFile => owned["text"] = 1

(* The exception is a defect: unlink() is handed path buffers that were    *)
(* never filled (cli:630) exactly when the first or the second file could  *)
(* not be spilled (cli:619).  A run in which this happens speaks nothing   *)
(* and ends with exit code 1, so one that succeeds removed its own files   *)
(* and no others.                                                          *)
StrayUnlink ==
  /\ pc \in {"voice", "synth", "output", "free_audio", "done"} =>
       (stray = "none" <=> named \in {{}, Temps})
  /\ stray # "none" => doc = "off" /\ (pc = "done" => rc = 1)

(* Every resource is there from when it is obtained to when it is released *)
(* and no longer, on every way through run(); but for the paths of files   *)
(* that could not be spilled.                                              *)
Lifetimes == CleanExit /\ UseInLifetime /\ StrayUnlink

(* "`1` runtime failure (model init, write error)" (README.md:70): what    *)
(* goes through ffmpeg is whole when the exit code is 0.                   *)
SuccessThroughFfmpeg ==
  pc = "done" /\ rc = 0 /\ ~wav /\ doc = "end" => result = "whole"

(* The same of every output; write_wav_stream() looks at no write.         *)
SuccessMeansWritten ==
  pc = "done" /\ rc = 0 /\ doc = "end" => result = "whole"

(* run() never waits for ever, not even for an ffmpeg that waits for it.   *)
Terminates == <>(pc \in Final)

=============================================================================
