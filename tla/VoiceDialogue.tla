--------------------------- MODULE VoiceDialogue ---------------------------
(***************************************************************************)
(* The voice dialogue of the web client, whose two halves only meet in the *)
(* user.                                                                   *)
(*                                                                         *)
(* The player of createTtsPlayer: sentences of a streamed reply are sent   *)
(* to the voice engine at once and read one after the other by pump(),     *)
(* while the user mutes, closes and reopens the dialogue.                  *)
(*                                                                         *)
(* The microphone: startListening and its await of getUserMedia, the       *)
(* recorder and its silence detector, the transcription, and the timer of  *)
(* hands-free mode that listens again after a reply.                       *)
(*                                                                         *)
(* The player knows of the voice engine (VoiceEngine) only its answers.    *)
(***************************************************************************)
EXTENDS VoiceEngine, FiniteSetsExt

CONSTANT MaxPhrases   \* bound: sentences said in a behaviour

ASSUME PhraseAssumption == MaxPhrases \in Nat

VARIABLES
  stage,      \* how far each sentence is; the queued ones are the queue
  blob,       \* the promise of its sound: null when the engine failed
  said,       \* how many sentences were enqueued
  residue,    \* does buf hold an unfinished sentence?
  cancelled, pumping,
  backend,    \* useBackend
  quiet       \* is the dialogue closed or muted, so that tokens are left out?

voiceVars == <<stage, blob, said, residue, cancelled, pumping, backend, quiet>>

Phrase == 1 .. MaxPhrases

\* "paused" is a sound that cancel() stopped while it played: its promise waits for
\* an "ended" that does not come.  One stopped before it played rejects play().
InPump == {"waiting", "opening", "playing", "uttered", "aborted", "paused", "hushed"}
Stage == InPump \cup {"none", "queued", "done", "dropped"}
Blob == {"none", "pending", "ok", "null"}

VoiceTypeOK ==
  /\ stage \in [Phrase -> Stage] /\ blob \in [Phrase -> Blob]
  /\ said \in 0 .. MaxPhrases
  /\ {residue, cancelled, pumping, backend, quiet} \subseteq BOOLEAN

VoiceInit ==
  /\ stage = [p \in Phrase |-> "none"] /\ blob = [p \in Phrase |-> "none"]
  /\ said = 0
  /\ residue = FALSE /\ cancelled = FALSE /\ pumping = FALSE
  /\ backend = TRUE /\ quiet = FALSE

\* What pump() does with a sentence it took: await its sound, play it, or
\* leave it to the synthesis of the browser.
Taken(sound) ==
  CASE sound = "pending" -> "waiting"
    [] sound = "ok" -> "opening"
    [] sound = "null" -> "uttered"

\* The loop of pump() over the stages and the sounds of this moment.
Pump(stages, sounds, stopped) ==
  LET queued == {p \in Phrase : stages[p] = "queued"} IN
  IF queued # {} /\ ~stopped
  THEN /\ stage' = [stages EXCEPT ![Min(queued)] = Taken(sounds[Min(queued)])]
       /\ pumping' = TRUE
  ELSE stage' = stages /\ pumping' = FALSE

\* Mutant: no test of pumping.
MutEnqueue(stopped) ==
  LET p == said + 1
      sounds == [blob EXCEPT ![p] = IF backend THEN "pending" ELSE "null"] IN
  /\ said < MaxPhrases /\ said' = p
  /\ blob' = sounds
  /\ Pump([stage EXCEPT ![p] = "queued"], sounds, stopped)

\* enqueue: the synthesis starts now, and pump() when it does not run.
Enqueue(stopped) ==
  LET p == said + 1
      sounds == [blob EXCEPT ![p] = IF backend THEN "pending" ELSE "null"]
      stages == [stage EXCEPT ![p] = "queued"] IN
  /\ said < MaxPhrases /\ said' = p
  /\ blob' = sounds
  /\ IF pumping THEN stage' = stages /\ pumping' = pumping
     ELSE Pump(stages, sounds, stopped)

\* A token of the stream that ends no sentence, or one.
SpeakPart ==
  /\ ~quiet
  /\ cancelled' = FALSE /\ residue' = TRUE
  /\ UNCHANGED <<stage, blob, said, pumping, backend, quiet>>

SpeakSentence ==
  /\ ~quiet
  /\ cancelled' = FALSE /\ residue' \in BOOLEAN
  /\ Enqueue(FALSE)
  /\ UNCHANGED <<backend, quiet>>

\* The end of the stream: what is left of buf is a sentence.
Flush ==
  /\ ~quiet /\ residue
  /\ residue' = FALSE
  /\ Enqueue(cancelled)
  /\ UNCHANGED <<cancelled, backend, quiet>>

\* cancel(), by the button that mutes, by closing the dialogue or on leaving the page.
Hush(s) ==
  CASE s = "queued" -> "dropped"
    [] s = "opening" -> "aborted"
    [] s = "playing" -> "paused"
    [] s = "uttered" -> "hushed"
    [] OTHER -> s
CancelSpeech ==
  /\ cancelled' = TRUE /\ residue' = FALSE
  /\ stage' = [p \in Phrase |-> Hush(stage[p])]
  /\ quiet' = TRUE
  /\ UNCHANGED <<blob, said, pumping, backend>>

\* The dialogue is opened again, or no longer muted: the player hears nothing of it.
Listen ==
  /\ quiet /\ quiet' = FALSE
  /\ UNCHANGED <<stage, blob, said, residue, cancelled, pumping, backend>>

\* Mutant: the failure of the engine leaves pump() by an exception.
MutSynthEnds(p) ==
  /\ blob[p] = "pending"
  /\ \E sound \in {"ok", "null"} :
       /\ blob' = [blob EXCEPT ![p] = sound]
       /\ backend' = (backend /\ sound = "ok")
       /\ stage' = [stage EXCEPT ![p] =
            IF @ # "waiting" THEN @
            ELSE IF sound = "ok" /\ ~cancelled THEN Taken(sound) ELSE "dropped"]
       /\ pumping' = (pumping /\ ~(stage[p] = "waiting" /\ sound = "ok" /\ cancelled))
  /\ UNCHANGED <<said, residue, cancelled, quiet>>

\* The engine answers or fails, in any order of the sentences; a failure turns to
\* the browser for the sentences to come.
SynthEnds(p) ==
  /\ blob[p] = "pending"
  /\ \E sound \in {"ok", "null"} :
       /\ blob' = [blob EXCEPT ![p] = sound]
       /\ backend' = (backend /\ sound = "ok")
       /\ CASE stage[p] # "waiting" -> UNCHANGED <<stage, pumping>>
            [] stage[p] = "waiting" /\ cancelled ->
                 stage' = [stage EXCEPT ![p] = "dropped"] /\ pumping' = FALSE
            [] OTHER -> stage' = [stage EXCEPT ![p] = Taken(sound)] /\ UNCHANGED pumping
  /\ UNCHANGED <<said, residue, cancelled, quiet>>

PlayStarts(p) ==
  /\ stage[p] = "opening"
  /\ stage' = [stage EXCEPT ![p] = "playing"]
  /\ UNCHANGED <<blob, said, residue, cancelled, pumping, backend, quiet>>

\* The sound ended, failed, was refused or was aborted before it began: done(), and
\* pump() goes on.
SoundEnds(p) ==
  /\ stage[p] \in {"opening", "playing", "uttered", "aborted", "hushed"}
  /\ Pump([stage EXCEPT ![p] = "done"], blob, cancelled)
  /\ UNCHANGED <<blob, said, residue, cancelled, backend, quiet>>

VoiceNext ==
  \/ SpeakPart \/ SpeakSentence \/ Flush \/ CancelSpeech \/ Listen
  \/ \E p \in Phrase : SynthEnds(p) \/ PlayStarts(p) \/ SoundEnds(p)

-----------------------------------------------------------------------------

\* The sounds are read in sequence (the head of voice.ts): a sentence is taken only
\* when the earlier ones were read or dropped, whatever the order in which
\* the engine answers and however often the user mutes.
ReadInSequence ==
  \A p, q \in Phrase :
    p < q /\ stage[q] \in InPump \cup {"done"} => stage[p] \in {"done", "dropped"}

\* What is said is read or dropped in the end, unless a sound that was playing when the
\* user muted holds the player for ever.
SpeechAtRest ==
  \/ \A p \in Phrase : stage[p] \in {"none", "done", "dropped"}
  \/ \E p \in Phrase : stage[p] = "paused"
SpeechEnds == []<>SpeechAtRest

-----------------------------------------------------------------------------

CONSTANTS
  Mic,       \* recorders of a behaviour
  NoMic,
  MaxTicks   \* bound: ticks of the timer, 150 in the code

ASSUME MicAssumption == NoMic \notin Mic /\ MaxTicks \in Nat

VARIABLES
  mic,   \* the recorders: "spent" once its detector has fired
  rec,   \* the recorder that the component knows
  ui     \* its flags, and the ticks of its timer

recorderVars == <<mic, rec, ui>>

MicState == {"free", "asking", "on", "spent", "stopping", "closing", "transcribing"}
Recording == {"on", "spent"}
NoTimer == MaxTicks + 2

RecorderTypeOK ==
  /\ mic \in [Mic -> MicState]
  /\ rec \in Mic \cup {NoMic}
  /\ ui \in [open : BOOLEAN, listening : BOOLEAN, transcribing : BOOLEAN,
             streaming : BOOLEAN, handsFree : BOOLEAN, timer : 0 .. NoTimer]

RecorderInit ==
  /\ mic = [s \in Mic |-> "free"] /\ rec = NoMic
  /\ ui = [open |-> TRUE, listening |-> FALSE, transcribing |-> FALSE,
           streaming |-> FALSE, handsFree |-> FALSE, timer |-> NoTimer]

MayListen == ~ui.streaming /\ ~ui.listening /\ ~ui.transcribing

\* startListening: the flags are read before the permission is asked for.
StartListening(s, ticks) ==
  /\ mic[s] = "free"
  /\ mic' = [mic EXCEPT ![s] = "asking"]
  /\ ui' = [ui EXCEPT !.timer = ticks]
  /\ rec' = rec

ToggleOn(s) == ui.open /\ MayListen /\ StartListening(s, ui.timer)

\* getUserMedia answers, whatever happened to the dialogue meanwhile.
Granted(s) ==
  /\ mic[s] = "asking"
  /\ mic' = [mic EXCEPT ![s] = "on"]
  /\ rec' = s /\ ui' = [ui EXCEPT !.listening = TRUE]

Denied(s) ==
  /\ mic[s] = "asking"
  /\ mic' = [mic EXCEPT ![s] = "free"]
  /\ ui' = [ui EXCEPT !.listening = FALSE]
  /\ rec' = rec

\* finishRecording up to its await of stop().
FinishRecording(states) ==
  IF rec # NoMic /\ ui.listening
  THEN /\ mic' = [states EXCEPT ![rec] = IF @ \in Recording THEN "stopping" ELSE @]
       /\ rec' = NoMic /\ ui' = [ui EXCEPT !.listening = FALSE]
  ELSE mic' = states /\ UNCHANGED <<rec, ui>>

ToggleOff == ui.open /\ ui.listening /\ FinishRecording(mic)

\* Speech, then a silence: onSilence fires once, and stops the recorder that the
\* component knows, which need not be the one that heard it.
Silence(s) ==
  /\ mic[s] = "on"
  /\ FinishRecording([mic EXCEPT ![s] = "spent"])

\* onstop releases the microphone; a sound is transcribed unless it is
\* empty or the recorder was cancelled.
Stopped(s) ==
  \/ /\ mic[s] = "stopping"
     /\ mic' = [mic EXCEPT ![s] = "transcribing"]
     /\ ui' = [ui EXCEPT !.transcribing = TRUE]
     /\ rec' = rec
  \/ /\ mic[s] \in {"stopping", "closing"}
     /\ mic' = [mic EXCEPT ![s] = "free"]
     /\ UNCHANGED <<rec, ui>>

\* The text is sent, even when the dialogue was closed meanwhile; or there is none.
Transcribed(s) ==
  /\ mic[s] = "transcribing"
  /\ mic' = [mic EXCEPT ![s] = "free"]
  /\ \E text \in BOOLEAN :
       ui' = [ui EXCEPT !.transcribing = FALSE, !.streaming = @ \/ text]
  /\ rec' = rec

\* close() cancels the recorder that the component knows and keeps it.
Close ==
  /\ ui.open
  /\ mic' = [s \in Mic |-> IF s = rec /\ mic[s] \in Recording THEN "closing" ELSE mic[s]]
  /\ ui' = [ui EXCEPT !.open = FALSE, !.listening = FALSE, !.transcribing = FALSE,
                      !.timer = NoTimer]
  /\ rec' = rec

Open ==
  /\ ~ui.open /\ ui' = [ui EXCEPT !.open = TRUE]
  /\ UNCHANGED <<mic, rec>>

ToggleHandsFree ==
  /\ ui.open
  /\ ui' = [ui EXCEPT !.handsFree = ~@, !.timer = IF ui.handsFree THEN NoTimer ELSE @]
  /\ UNCHANGED <<mic, rec>>

\* A reply is asked for by the keyboard.
StreamStarts ==
  /\ ~ui.streaming /\ ui' = [ui EXCEPT !.streaming = TRUE]
  /\ UNCHANGED <<mic, rec>>

\* The end of a reply starts the timer of hands-free mode.
StreamEnds ==
  /\ ui.streaming
  /\ ui' = [ui EXCEPT !.streaming = FALSE,
                      !.timer = IF ui.handsFree /\ ui.open THEN 0 ELSE @]
  /\ UNCHANGED <<mic, rec>>

\* The timer waits for the end of the reading, but not for ever; then it listens, unless
\* the dialogue changed meanwhile (or the bound of recorders is reached).
RelistenWaits ==
  /\ ui.timer < MaxTicks
  /\ ui' = [ui EXCEPT !.timer = @ + 1] /\ UNCHANGED <<mic, rec>>
Relisten(muted) ==
  LET ready == {s \in Mic : mic[s] = "free" /\ ui.handsFree /\ ui.open /\ ~muted /\ MayListen} IN
  \/ \E s \in ready : StartListening(s, NoTimer)
  \/ ready = {} /\ ui' = [ui EXCEPT !.timer = NoTimer] /\ UNCHANGED <<mic, rec>>
RelistenTick ==
  /\ ui.timer # NoTimer
  /\ RelistenWaits \/ \E muted \in BOOLEAN : Relisten(muted)

RecorderNext ==
  \/ ToggleOff \/ Close \/ Open \/ ToggleHandsFree
  \/ StreamStarts \/ StreamEnds \/ RelistenTick
  \/ \E s \in Mic :
       ToggleOn(s) \/ Granted(s) \/ Denied(s) \/ Silence(s) \/ Stopped(s) \/ Transcribed(s)

-----------------------------------------------------------------------------

\* When the dialogue says that it listens, the recorder it would stop is recording:
\* no overlap of two permissions, a refusal, a silence, a stop or a
\* closing leaves the user talking to nothing.
ListeningIsReal ==
  ui.listening => rec # NoMic /\ mic[rec] \in Recording

(***************************************************************************)
(* The dialogue reads in order, listens when it says so, and is served by  *)
(* models that are loaded once.                                            *)
(***************************************************************************)
DialogueIsSound == ReadInSequence /\ ListeningIsReal /\ ModelsAreKept

=============================================================================
