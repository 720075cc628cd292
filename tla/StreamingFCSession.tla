-------------------------- MODULE StreamingFCSession --------------------------
(***************************************************************************)
(* The stepwise driver of DuplexSTTModel with live function calling        *)
(* (nemo/collections/speechlm2/models/streaming_fc_session.py).            *)
(*                                                                         *)
(* One session owns one preallocated timeline of T LM positions.  Two      *)
(* clocks run over it: tLm advances on every model step, tAudio only when  *)
(* the step consumed a frame of user audio.  The difference is made of     *)
(* function-channel tokens the driver injects as the answer of a tool      *)
(* call.  The client calls start(), push_audio() and push_tool_result()    *)
(* from one thread; push_audio() is split here at its loops (pc), so that  *)
(* each model step is a step of its own with the tokens the model picked.  *)
(*                                                                         *)
(* The model is external: at every step it may pick any text token and, in *)
(* a slot of the function channel the driver left PAD, any function token. *)
(***************************************************************************)
EXTENDS Integers, Sequences, FiniteSets

CONSTANTS
  PromptLen,        \* positions the system prompt occupies (start_gen_pos)
  MaxAudioFrames,   \* int(max_audio_seconds / 0.08)
  MaxFcTokens,      \* max_fc_tokens
  SamplesPerFrame,  \* samples in one 80 ms frame
  StallAfterEotc,   \* stop consuming audio between <EOTC> and the tool result
  ForceEotr,        \* append <EOTR> to every injected response
  TickSizes,        \* how many samples one push_audio() may bring
  ResponseLens,     \* how many tokens a tool result may tokenise to
  MaxBuffered       \* bound of the model: samples buffered at most

ASSUME SessionAssumption ==
  /\ PromptLen \in Nat \ {0}
  /\ MaxAudioFrames \in Nat
  /\ MaxFcTokens \in Nat
  /\ SamplesPerFrame \in Nat \ {0}
  /\ StallAfterEotc \in BOOLEAN
  /\ ForceEotr \in BOOLEAN
  /\ TickSizes \subseteq Nat
  /\ ResponseLens \subseteq Nat
  /\ MaxBuffered \in Nat

VARIABLES
  pc,            \* where push_audio() is: new, idle (between calls), drain, frames
  tLm,           \* t_lm
  tAudio,        \* t_audio
  residual,      \* samples of _residual
  finished,      \* _finished
  turnEnded,     \* _turn_ended
  inCall,        \* _in_call
  awaiting,      \* _awaiting_result
  pendingCalls,  \* _pending_calls, by call number
  callCounter,   \* _call_counter
  injectQueue,   \* _inject_queue
  injectedSpans, \* _injected_spans
  genFunction,   \* state["gen_function"]
  textIds,       \* how many tokens _text_ids holds
  emitted,       \* how many of them were returned in a text_delta
  framesLeft,    \* what remains of n_frames in push_audio()'s loop
  spanStart,     \* `start` in _drain_injection()
  \* The client's side and what the properties remember.
  open,          \* calls handed to the client, not answered yet
  answered,      \* calls the client pushed a result for
  audioAt,       \* positions whose audio embedding is a real frame
  pushed         \* samples given to push_audio() so far

clocks  == <<tLm, tAudio, genFunction, audioAt>>
text    == <<textIds, emitted, turnEnded>>
calls   == <<inCall, awaiting, pendingCalls, callCounter>>
client  == <<open, answered>>
vars == <<pc, clocks, text, calls, client, residual, finished, injectQueue,
          injectedSpans, framesLeft, spanStart, pushed>>

-----------------------------------------------------------------------------
(* The preallocated timeline.                                              *)

Horizon == MaxAudioFrames + MaxFcTokens

T == PromptLen + Horizon

Positions == 0 .. T - 1

FcPositionsUsed == tLm - tAudio - PromptLen

CanStep(n) == tLm + n <= T

TextToken     == {"PAD", "BOS", "EOS", "WORD"}
ModelFunction == {"PAD", "SOTC", "EOTC", "TOK"}
Injected      == {"RSP", "EOTR"}

-----------------------------------------------------------------------------
Init ==
  /\ pc = "new"
  /\ tLm = 0 /\ tAudio = 0 /\ residual = 0
  /\ finished = FALSE /\ turnEnded = FALSE
  /\ inCall = FALSE /\ awaiting = FALSE
  /\ pendingCalls = <<>> /\ callCounter = 0
  /\ injectQueue = <<>> /\ injectedSpans = <<>>
  /\ genFunction = [t \in Positions |-> "PAD"]
  /\ textIds = 0 /\ emitted = 0
  /\ framesLeft = 0 /\ spanStart = 0
  /\ open = {} /\ answered = {} /\ audioAt = {} /\ pushed = 0

(* start(): the prompt occupies the first positions, no audio consumed.    *)
Start ==
  /\ pc = "new"
  /\ pc' = "idle"
  /\ tLm' = PromptLen
  /\ tAudio' = 0
  /\ UNCHANGED <<genFunction, audioAt, text, calls, client, residual, finished,
                 injectQueue, injectedSpans, framesLeft, spanStart, pushed>>

-----------------------------------------------------------------------------
(* What the driver reads back after a step.                                *)

(* _observe_text_only(): a BOS starts the utterance afresh.                *)
ObserveText(x) ==
  /\ turnEnded' = (turnEnded \/ x = "EOS")
  /\ textIds' = IF x = "BOS" THEN 0
                ELSE IF x = "WORD" THEN textIds + 1 ELSE textIds
  /\ emitted' = IF x = "BOS" THEN 0 ELSE emitted

\* Mutant of CloseCall: a second call of the tick replaces the first.
CloseCallLastOnly ==
  /\ callCounter' = callCounter + 1
  /\ pendingCalls' = <<callCounter + 1>>
  /\ awaiting' = TRUE

(* _close_call(): numbered, queued for the client, parsed or not.          *)
CloseCall ==
  /\ callCounter' = callCounter + 1
  /\ pendingCalls' = Append(pendingCalls, callCounter + 1)
  /\ awaiting' = TRUE

\* Mutant of ObserveFunction: an <EOTC> outside a call closes one.
ObserveFunctionStrayEotc(f) ==
  \/ f = "SOTC" /\ inCall' = TRUE /\ UNCHANGED <<awaiting, pendingCalls, callCounter>>
  \/ f = "EOTC" /\ inCall' = FALSE /\ CloseCall
  \/ f \notin {"SOTC", "EOTC"} /\ UNCHANGED calls

(* The function-channel half of _observe().                                *)
ObserveFunction(f) ==
  \/ /\ f = "SOTC"
     /\ inCall' = TRUE
     /\ UNCHANGED <<awaiting, pendingCalls, callCounter>>
  \/ /\ f = "EOTC" /\ inCall
     /\ inCall' = FALSE
     /\ CloseCall
  \/ /\ f # "SOTC" /\ ~(f = "EOTC" /\ inCall)
     /\ UNCHANGED calls

\* Mutant of StepInference: the prediction is written over an injected token.
StepInferenceOverwrites(slot, predicted) ==
  /\ genFunction' = [genFunction EXCEPT ![tLm] = predicted]
  /\ tLm' = tLm + 1

(* _step_inference() keeps a slot of the function channel that is already  *)
(* written and predicts into one that is PAD.                              *)
StepInference(slot, predicted) ==
  LET tok == IF slot # "PAD" THEN slot ELSE predicted
  IN  /\ genFunction' = [genFunction EXCEPT ![tLm] = tok]
      /\ tLm' = tLm + 1

-----------------------------------------------------------------------------
(* push_audio()                                                            *)

PushAudio(samples) ==
  /\ pc = "idle"
  /\ residual + samples <= MaxBuffered
  /\ residual' = residual + samples
  /\ pushed' = pushed + samples
  /\ spanStart' = tLm
  /\ pc' = "drain"
  /\ UNCHANGED <<clocks, text, calls, client, finished, injectQueue,
                 injectedSpans, framesLeft>>

\* Mutant of DrainOver: one token per tick.
DrainOverAfterOne == injectQueue = <<>> \/ ~CanStep(1) \/ tLm > spanStart

(* The loop of _drain_injection() ends: nothing queued, or no position.    *)
DrainOver == injectQueue = <<>> \/ ~CanStep(1)

(* One turn of _drain_injection()'s loop.                                  *)
DrainToken(x) ==
  /\ pc = "drain"
  /\ ~DrainOver
  /\ StepInference(Head(injectQueue), "PAD")
  /\ injectQueue' = Tail(injectQueue)
  /\ ObserveText(x)
  /\ UNCHANGED <<pc, tAudio, audioAt, calls, client, residual, finished,
                 injectedSpans, framesLeft, spanStart, pushed>>

(* _take_calls() and _take_text() at either return.                        *)
TakeCallsAndText ==
  /\ pendingCalls' = <<>>
  /\ open' = open \cup {pendingCalls[i] : i \in 1 .. Len(pendingCalls)}
  /\ emitted' = IF textIds > emitted THEN textIds ELSE emitted

Stalled == awaiting /\ StallAfterEotc

\* Mutant of FinishedAfterDrain: tokens left over go unnoticed.
FinishedAfterDrainNever == finished

FinishedAfterDrain == finished \/ injectQueue # <<>>

SpansAfterDrain ==
  IF tLm > spanStart THEN Append(injectedSpans, <<spanStart, tLm>>)
                     ELSE injectedSpans

\* Mutant of WholeFrames: a partial frame counts.
WholeFramesRoundedUp(samples) ==
  (samples + SamplesPerFrame - 1) \div SamplesPerFrame

WholeFrames(samples) == samples \div SamplesPerFrame

(* The end of the drain, and the early return of a stalled session, which  *)
(* leaves turn_ended for a later tick.                                     *)
DrainDone ==
  /\ pc = "drain"
  /\ DrainOver
  /\ finished' = FinishedAfterDrain
  /\ injectedSpans' = SpansAfterDrain
  /\ IF Stalled
     THEN /\ pc' = "idle"
          /\ TakeCallsAndText
          /\ UNCHANGED framesLeft
     ELSE /\ pc' = "frames"
          /\ framesLeft' = WholeFrames(residual)
          /\ UNCHANGED <<pendingCalls, open, emitted>>
  /\ UNCHANGED <<clocks, textIds, turnEnded, inCall, awaiting, callCounter,
                 answered, residual, injectQueue, spanStart, pushed>>

(* A call that closes mid-tick stops the audio of this tick.               *)
FramesAfter(awaits) == IF awaits /\ StallAfterEotc THEN 0 ELSE framesLeft - 1

(* One frame: the newest audio goes to position t_lm, the model steps, the *)
(* channels are read back.                                                 *)
AudioFrame(x, f) ==
  /\ pc = "frames"
  /\ framesLeft > 0
  /\ CanStep(1)
  /\ residual' = residual - SamplesPerFrame
  /\ audioAt' = audioAt \cup {tLm}
  /\ StepInference(genFunction[tLm], f)
  /\ tAudio' = tAudio + 1
  /\ ObserveText(x)
  /\ ObserveFunction(genFunction'[tLm])
  /\ framesLeft' = FramesAfter(awaiting')
  /\ UNCHANGED <<pc, client, finished, injectQueue, injectedSpans, spanStart,
                 pushed>>

\* Mutant of HorizonExhausted: the remaining audio really is dropped.
HorizonExhaustedDrops ==
  /\ pc = "frames" /\ framesLeft > 0 /\ ~CanStep(1)
  /\ finished' = TRUE /\ framesLeft' = 0 /\ residual' = 0
  /\ UNCHANGED <<pc, clocks, text, calls, client, injectQueue, injectedSpans,
                 spanStart, pushed>>

(* No position left: a warning, and the loop ends.                         *)
HorizonExhausted ==
  /\ pc = "frames"
  /\ framesLeft > 0
  /\ ~CanStep(1)
  /\ finished' = TRUE
  /\ framesLeft' = 0
  /\ UNCHANGED <<pc, clocks, text, calls, client, residual, injectQueue,
                 injectedSpans, spanStart, pushed>>

ReturnTick ==
  /\ pc = "frames"
  /\ framesLeft = 0
  /\ pc' = "idle"
  /\ TakeCallsAndText
  /\ turnEnded' = FALSE
  /\ UNCHANGED <<clocks, textIds, inCall, awaiting, callCounter, answered,
                 residual, finished, injectQueue, injectedSpans, framesLeft,
                 spanStart, pushed>>

-----------------------------------------------------------------------------
(* push_tool_result(): a result of `len` tokens for call c.  The budget    *)
(* counts positions already stepped, not tokens still queued.              *)

ResponseTokens(len) ==
  [i \in 1 .. len + (IF ForceEotr THEN 1 ELSE 0) |->
     IF i > len THEN "EOTR" ELSE "RSP"]

Budget == MaxFcTokens - FcPositionsUsed

\* Mutant of Truncate: the budget is only warned about.
TruncateNever(ids) == ids

Truncate(ids) ==
  IF Len(ids) > Budget
  THEN SubSeq(ids, 1, IF Budget > 0 THEN Budget ELSE 0)
  ELSE ids

\* Mutant of AwaitingAfterResult: the flag is not cleared.
AwaitingAfterResultKept == awaiting

AwaitingAfterResult == FALSE

PushToolResult(c, len) ==
  /\ pc = "idle"
  /\ c \in open
  /\ injectQueue' = injectQueue \o Truncate(ResponseTokens(len))
  /\ awaiting' = AwaitingAfterResult
  /\ open' = open \ {c}
  /\ answered' = answered \cup {c}
  /\ UNCHANGED <<pc, clocks, text, inCall, pendingCalls, callCounter, residual,
                 finished, injectedSpans, framesLeft, spanStart, pushed>>

-----------------------------------------------------------------------------
Tick ==
  \/ \E x \in TextToken : DrainToken(x)
  \/ DrainDone
  \/ \E x \in TextToken, f \in ModelFunction : AudioFrame(x, f)
  \/ HorizonExhausted
  \/ ReturnTick

Next ==
  \/ Start
  \/ \E s \in TickSizes : PushAudio(s)
  \/ Tick
  \/ \E len \in ResponseLens : \E c \in open : PushToolResult(c, len)

Spec == Init /\ [][Next]_vars

(* The client keeps ticking (a tick may be empty); a call of push_audio()  *)
(* runs to its end.  The client answers the calls it is given: it can only *)
(* do so between two ticks, which is why this takes strong fairness, and   *)
(* drive() in scripts/check_streaming_driver.py does so after every tick.  *)
Fairness ==
  /\ WF_vars(Start)
  /\ WF_vars(\E s \in TickSizes : PushAudio(s))
  /\ WF_vars(Tick)
  /\ SF_vars(\E len \in ResponseLens : \E c \in open : PushToolResult(c, len))

FairSpec == Spec /\ Fairness

-----------------------------------------------------------------------------
(* Properties                                                              *)

(* Every variable stays in its type; the clocks stay on the timeline.      *)
TypeOK ==
  /\ pc \in {"new", "idle", "drain", "frames"}
  /\ tLm \in 0 .. T /\ tAudio \in Nat /\ residual \in Nat /\ pushed \in Nat
  /\ finished \in BOOLEAN /\ turnEnded \in BOOLEAN
  /\ inCall \in BOOLEAN /\ awaiting \in BOOLEAN
  /\ callCounter \in Nat /\ pendingCalls \in Seq(1 .. callCounter)
  /\ injectQueue \in Seq(Injected)
  /\ injectedSpans \in Seq((0 .. T) \X (0 .. T))
  /\ genFunction \in [Positions -> ModelFunction \cup Injected]
  /\ textIds \in Nat /\ emitted \in Nat
  /\ framesLeft \in Nat /\ spanStart \in 0 .. T
  /\ open \subseteq 1 .. callCounter /\ answered \subseteq 1 .. callCounter
  /\ audioAt \subseteq Positions

(* The two-clock invariant: every position stepped since the prompt is     *)
(* either an audio frame or a token of a recorded injected span (or of the *)
(* drain under way), never both, and the model never wrote over a token    *)
(* the driver injected.                                                    *)
InSpan(p) ==
  \/ \E i \in 1 .. Len(injectedSpans) :
       injectedSpans[i][1] <= p /\ p < injectedSpans[i][2]
  \/ pc = "drain" /\ spanStart <= p

TwoClocks ==
  pc # "new" =>
    /\ audioAt \subseteq PromptLen .. tLm - 1
    /\ Cardinality(audioAt) = tAudio
    /\ \A p \in PromptLen .. tLm - 1 :
         /\ p \notin audioAt <=> InSpan(p)
         /\ p \notin audioAt <=> genFunction[p] \in Injected

(* No user speech is lost: every sample pushed was consumed as part of a   *)
(* frame or is still buffered, also across a stall and a spent horizon.    *)
AudioConserved == pushed = residual + SamplesPerFrame * tAudio

(* What is not yet written of the function channel is PAD, which is what   *)
(* lets the model predict there and the driver inject there.               *)
FutureIsPad == \A p \in Positions : p >= tLm => genFunction[p] = "PAD"

(* Every call the model closed is at exactly one place: waiting for the    *)
(* tick to return, with the client, or answered; no call stays behind in   *)
(* the session when a tick has returned.                                   *)
CallsAccounted ==
  LET pending == {pendingCalls[i] : i \in 1 .. Len(pendingCalls)}
  IN  /\ pending \cup open \cup answered = 1 .. callCounter
      /\ pending \cap open = {} /\ pending \cap answered = {}
      /\ open \cap answered = {}
      /\ Cardinality(pending) = Len(pendingCalls)
      /\ pc = "idle" => pendingCalls = <<>>

(* An agent EOS is reported by the tick it happened in: the early return   *)
(* of a stalled tick never sits on one.                                    *)
TurnEndReported == pc = "idle" => ~turnEnded

(* Injected tokens, those still queued included, fit the positions         *)
(* reserved for them by max_fc_tokens.                                     *)
FcBudget == pc # "new" => FcPositionsUsed + Len(injectQueue) <= MaxFcTokens

(* A response is never injected into the middle of a call the model is     *)
(* still writing: call tokens, then the response, as in training.          *)
NoInjectionInsideCall == inCall => injectQueue = <<>>

(* Between <EOTC> and the client's answer no audio frame is consumed.      *)
NoAudioWhileUnanswered ==
  [][tAudio' # tAudio => answered = 1 .. callCounter]_vars

(* Audio and injection keep apart: while response tokens are queued and    *)
(* positions remain, no audio frame takes one of them.                     *)
ResponseBeforeAudio ==
  [][tAudio' # tAudio => injectQueue = <<>>]_vars

(* A session that reported a call and was given its result resumes, and a  *)
(* queued response is stepped over unless the horizon ends first.          *)
CallReachesAnswer == awaiting ~> ~awaiting
ResponseInjected == injectQueue # <<>> ~> (injectQueue = <<>> \/ finished)

-----------------------------------------------------------------------------
(* With StallAfterEotc the session implements the function-calling         *)
(* protocol the model was trained on.                                      *)

phase ==
  IF inCall THEN "calling"
  ELSE IF awaiting THEN "awaiting"
  ELSE IF injectQueue # <<>> THEN "responding"
  ELSE "listening"

Protocol == INSTANCE FunctionChannel WITH
  Budget   <- MaxFcTokens,
  phase    <- phase,
  heard    <- tAudio,
  injected <- IF pc = "new" THEN 0 ELSE FcPositionsUsed,
  closed   <- callCounter

ProtocolSpec == Protocol!Spec
=============================================================================
