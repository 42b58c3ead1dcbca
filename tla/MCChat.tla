------------------------------- MODULE MCChat -------------------------------
(***************************************************************************)
(* What stands around an answer of the assistant, each in a scene of its   *)
(* own: the loop that makes it, the stream of a node it comes from, the    *)
(* name the conversation gets, the dialogue that speaks and listens, and   *)
(* the engine behind the dialogue.                                         *)
(***************************************************************************)
EXTENDS ChatReply, TokenStream, ConversationNames, VoiceDialogue

CONSTANTS Scenes, Untitled

VARIABLE scene

\* One reply at a time, with every fault, or with those after which the prompt still has to
\* end with the user or a tool; or two that overlap, on nodes that break or in a conversation
\* that is cancelled and deleted: a refusal changes nothing that the other stream sees.
Serially == {"refused", "cancel", "unloadable"}
Overlapping == {"overlap", "cancel", "delete"}
SerialOrMany ==
  {Serially, Serially \cup {"broken", "delete"}, Overlapping, {"overlap", "broken"}}

\* Two structured calls after some text, two calls written into the text, and one of each.
Of(kind, call) == [kind |-> kind, call |-> call]
MCScript ==
  {<<Of("text", 0), Of("name", 1), Of("args", 1), Of("args", 1), Of("name", 2), Of("args", 2)>>,
   <<Of("text", 0), Of("written", 1), Of("written", 1), Of("text", 0), Of("written", 2)>>,
   <<Of("written", 2), Of("name", 1), Of("text", 0), Of("args", 1)>>}
MCTitle == {Untitled, "trip"}
MCDefaultTitle == {Untitled}

MCInit ==
  /\ scene \in Scenes
  /\ Init /\ StreamInit /\ NamesInit /\ VoiceInit /\ RecorderInit /\ EngineInit
  /\ scene # "reply" => faults = Overlapping
  /\ scene # "stream" => Len(script) = 5

DialogueVars == <<voiceVars, recorderVars, engineVars>>
MCVars == <<vars, streamVars, nameVars, DialogueVars, scene>>

MCNext ==
  /\ \/ scene = "reply" /\ Next /\ UNCHANGED <<streamVars, nameVars, DialogueVars>>
     \/ scene = "stream" /\ StreamNext /\ UNCHANGED <<vars, nameVars, DialogueVars>>
     \/ scene = "names" /\ NamesNext /\ UNCHANGED <<vars, streamVars, DialogueVars>>
     \/ /\ UNCHANGED <<vars, streamVars, nameVars>>
        /\ \/ scene = "speech" /\ VoiceNext /\ UNCHANGED <<recorderVars, engineVars>>
           \/ scene = "microphone" /\ RecorderNext /\ UNCHANGED <<voiceVars, engineVars>>
           \/ scene = "engine" /\ EngineNext /\ UNCHANGED <<voiceVars, recorderVars>>
  /\ scene' = scene

\* Generators that are consumed go on, one at least of them at a time; the voice engine
\* answers or fails, and a sound that plays comes to its end; threads go on.
MCFair ==
  /\ WF_vars(scene = "reply" /\ \E s \in Stream : Step(s))
  /\ WF_voiceVars(scene = "speech" /\ \E p \in Phrase : SynthEnds(p) \/ PlayStarts(p) \/ SoundEnds(p))
  /\ WF_engineVars(scene = "engine" /\ \E d \in Demand : EngineStep(d))

MCSpec == MCInit /\ [][MCNext]_MCVars /\ MCFair

\* Every stream of the chat ends (StreamsEnd), every sentence is read or dropped (SpeechEnds)
\* and every request of the engine comes to its end (EngineEnds): as at most one of the three
\* is in action in a behaviour, the three at once are one recurrence.
ChatWorkEnds == []<>(StreamsAtRest /\ SpeechAtRest /\ EngineAtRest)

=============================================================================
