----------------------------- MODULE VoiceEngine -----------------------------
(***************************************************************************)
(* The voice engine: requests in threads, which load models on demand      *)
(* under one lock and use them under another, both for transcriptions and  *)
(* for voices; the backend in front of it gives up after a while.          *)
(***************************************************************************)
EXTENDS Naturals

CONSTANTS
  Demand, NoDemand,       \* the requests of a behaviour
  Whisper,                \* the model of transcriptions
  Voice, DefaultVoice     \* the voices of Piper

ASSUME EngineAssumption ==
  NoDemand \notin Demand /\ Whisper \notin Voice /\ DefaultVoice \in Voice

VARIABLES
  loaded,     \* how many copies of each model were kept in memory: _model, _voices
  loading,    \* who holds _load_lock, in stt and in tts
  inferring,  \* who holds _infer_lock
  demand      \* what each request is for, and how far it is
engineVars == <<loaded, loading, inferring, demand>>

Part == {"stt", "tts"}
Speech == Voice \cup {Whisper}
PartOf(m) == IF m = Whisper THEN "stt" ELSE "tts"
DemandPCs == {"none", "looking", "locking", "loading", "queued", "inferring", "ended"}

EngineTypeOK ==
  /\ loaded \in [Speech -> Nat]
  /\ {loading, inferring} \subseteq [Part -> Demand \cup {NoDemand}]
  /\ demand \in [Demand -> [pc : DemandPCs, model : Speech, caller : {"waits", "heard", "failed"}]]

\* lifespan: the models are preloaded or not; what fails ends the preloading.
EngineInit ==
  /\ \E ready \in {{}, {Whisper}, {Whisper, DefaultVoice}} :
       loaded = [m \in Speech |-> IF m \in ready THEN 1 ELSE 0]
  /\ loading = [t \in Part |-> NoDemand] /\ inferring = [t \in Part |-> NoDemand]
  /\ demand = [d \in Demand |-> [pc |-> "none", model |-> Whisper, caller |-> "waits"]]

Goto(d, pc) == demand' = [demand EXCEPT ![d].pc = pc]

\* The request ends; its caller gets the answer, unless it gave up.
Reply(d, answer) ==
  demand' = [demand EXCEPT ![d].pc = "ended",
                           ![d].caller = IF demand[d].caller = "waits" THEN answer ELSE @]

\* POST /stt, or POST /tts with a voice.
Ask(d) ==
  /\ demand[d].pc = "none"
  /\ \E m \in Speech : demand' = [demand EXCEPT ![d] = [pc |-> "looking", model |-> m, caller |-> "waits"]]
  /\ UNCHANGED <<loaded, loading, inferring>>

\* The look without the lock.
Look(d) ==
  /\ demand[d].pc = "looking"
  /\ Goto(d, IF loaded[demand[d].model] > 0 THEN "queued" ELSE "locking")
  /\ UNCHANGED <<loaded, loading, inferring>>

\* The second look, under the lock.
LockModel(d) ==
  /\ demand[d].pc = "locking" /\ loading[PartOf(demand[d].model)] = NoDemand
  /\ IF loaded[demand[d].model] > 0 THEN Goto(d, "queued") /\ UNCHANGED loading
     ELSE Goto(d, "loading") /\ loading' = [loading EXCEPT ![PartOf(demand[d].model)] = d]
  /\ UNCHANGED <<loaded, inferring>>

\* The download and the load; a failure releases the lock and answers 500.
LoadModel(d) ==
  /\ demand[d].pc = "loading"
  /\ loading' = [loading EXCEPT ![PartOf(demand[d].model)] = NoDemand]
  /\ \/ Goto(d, "queued") /\ loaded' = [loaded EXCEPT ![demand[d].model] = @ + 1]
     \/ Reply(d, "failed") /\ UNCHANGED loaded
  /\ UNCHANGED inferring

Infer(d) ==
  /\ demand[d].pc = "queued" /\ inferring[PartOf(demand[d].model)] = NoDemand
  /\ Goto(d, "inferring") /\ inferring' = [inferring EXCEPT ![PartOf(demand[d].model)] = d]
  /\ UNCHANGED <<loaded, loading>>
InferEnds(d) ==
  /\ demand[d].pc = "inferring"
  /\ inferring' = [inferring EXCEPT ![PartOf(demand[d].model)] = NoDemand]
  /\ \E answer \in {"heard", "failed"} : Reply(d, answer)
  /\ UNCHANGED <<loaded, loading>>

\* voice_timeout_s: the backend answers 502, and the thread goes on.
CallerLeaves(d) ==
  /\ demand[d].pc \notin {"none", "ended"} /\ demand[d].caller = "waits"
  /\ demand' = [demand EXCEPT ![d].caller = "failed"]
  /\ UNCHANGED <<loaded, loading, inferring>>

EngineStep(d) == Look(d) \/ LockModel(d) \/ LoadModel(d) \/ Infer(d) \/ InferEnds(d)
EngineNext == \E d \in Demand : Ask(d) \/ EngineStep(d) \/ CallerLeaves(d)

-----------------------------------------------------------------------------

\* Whatever requests come at once, fail or are given up: a model is kept in memory once, and
\* is there for every request past its load; the locks are those of requests
\* that work, so that none is kept by one that ended.
ModelsAreKept ==
  /\ \A m \in Speech : loaded[m] <= 1
  /\ \A d \in Demand : demand[d].pc \in {"queued", "inferring"} => loaded[demand[d].model] = 1
  /\ \A t \in Part :
       /\ loading[t] # NoDemand => demand[loading[t]].pc = "loading"
       /\ inferring[t] # NoDemand => demand[inferring[t]].pc = "inferring"

\* Every request comes to its end, though others fail under the locks it waits for.
EngineAtRest == \A d \in Demand : demand[d].pc \in {"none", "ended"}
EngineEnds == []<>EngineAtRest

=============================================================================
