----------------------------- MODULE TurnTaking -----------------------------
(***************************************************************************)
(* Turn taking of the Triton server, frame by frame                        *)
(* (inference/model_wrappers/nemotron_voicechat_inference_wrapper.py).     *)
(*                                                                         *)
(* The language model opens and closes the agent's turns with BOS and EOS  *)
(* on the text channel.  Two drivers overwrite its tokens: forced turn     *)
(* taking looks at the pauses of the ASR channel, and the RNNT rules count *)
(* frames with and without speech, ending the user's turn (EOU) or the     *)
(* agent's (barge-in).  Both look back over a window of the text channel,  *)
(* so what they believe may lag behind what was written.                   *)
(*                                                                         *)
(* The model writes any token, the ASR channel and the RNNT hear anything. *)
(* The text window is kept as the distances to the last BOS and EOS, the   *)
(* ASR window as the length of its last run of PADs and the token before.  *)
(* No rule compares a counter with more than Cap: they stop there.         *)
(*                                                                         *)
(* rnnt_self_play_suppression is switched off when the wrapper is built    *)
(* (:543), so the branch that suppresses a BOS, and with it forced_bos and *)
(* _post_tc_bos_exempt, has no effect and no definition.                   *)
(***************************************************************************)
EXTENDS Integers, Sequences

CONSTANTS
  Threshold,        \* force_turn_taking_threshold, both drivers' text window
  PadWindow,        \* force_turn_taking_pad_window
  PadWindowFirst,   \* force_turn_taking_pad_window_first_turn
  Eou, EouFirst,    \* rnnt_eou_frames, asr_eou_first_turn
  Bou,              \* user_bos_frames, frames of a barge-in
  MinSpeech,        \* asr_min_speech_frames
  MinSpeechFirst,   \* asr_min_speech_frames_first_turn
  MinSpeechLow,     \* density_low_min_speech
  NoiseReset,       \* nonblank_reset_after_silence
  Fallback,         \* first_turn_fallback_frames
  Ratio, MinTokens, \* tts_text_token_ratio_cap, tts_text_token_min
  Redirect,         \* _max_response_redirect_tokens
  Options,          \* settings that may be off: records of three limits
  Cap               \* bound of the counters

LLMTokens  == {"pad", "word", "bos", "eos"}
AsrTokens  == {"pad", "word", "user_bos"}

ASSUME TurnTakingAssumption ==
  /\ Cap \in Nat
  /\ {Threshold, PadWindow, PadWindowFirst, Eou, EouFirst, Bou, MinSpeech,
      MinSpeechFirst, MinSpeechLow, NoiseReset, Fallback} \subseteq 1..Cap
  /\ Options \subseteq [maxResponse : 0..Cap, forceEos : 0..Cap, postEos : 0..Cap]
  /\ Ratio \in Nat /\ MinTokens \in 1..Cap
  /\ Redirect \in Seq(LLMTokens)
  /\ Redirect # <<>> => Redirect[Len(Redirect)] = "eos"

(* The pause of the first turn is not shorter by more than the text window *)
(* (s2s_streaming.yaml: 38, 10 and 40).                                     *)
ASSUME WindowAssumption == Threshold >= PadWindow - PadWindowFirst

VARIABLES
  opt,         \* the settings, fixed
  t,           \* the frame, up to Cap
  sinceBos,    \* distance to the last BOS of gen_text, 0 if there is none
  sinceEos,    \* distance to the last EOS of gen_text, 0 if there is none
  padRun,      \* PADs at the end of gen_asr
  afterWord,   \* the last token of gen_asr before them is a word
  rnnt,        \* rnnt_state
  talking,     \* _agent_talking_frames
  textTokens,  \* _turn_text_tokens
  queue,       \* _redirect_tokens_queue
  idle,        \* agent_idle, read by the speech synthesis
  writtenBy,   \* what wrote the last frame's token
  \* What the properties remember of the turn and the pause under way.
  called,      \* a function call silenced frames since the turn's last BOS
  openFor,     \* frames of the agent's turn without a call, up to OpenCap
  forcedHere   \* forced turn taking opened a turn in this pause of the user

window == <<t, sinceBos, sinceEos, padRun, afterWord>>
caps   == <<talking, textTokens, queue>>
vars   == <<opt, window, rnnt, caps, idle, writtenBy, called, openFor, forcedHere>>

Upto(bound, n) == IF n > bound THEN bound ELSE n
OpenCap == Threshold + Cap + 1

InWindow(distance) == distance \in 1..Threshold

RnntState == [blank_count : 0..Cap, nonblank_consec : 0..Cap,
              nonblank_total : 0..Cap, speech_confirmed : BOOLEAN,
              agent_speaking : BOOLEAN, first_turn : BOOLEAN,
              user_first_turn : BOOLEAN, post_eos_fired : BOOLEAN]

RnntInitState ==
  [blank_count |-> 0, nonblank_consec |-> 0, nonblank_total |-> 0,
   speech_confirmed |-> FALSE, agent_speaking |-> FALSE, first_turn |-> TRUE,
   user_first_turn |-> TRUE, post_eos_fired |-> FALSE]

Init ==
  /\ opt \in Options
  /\ t = 0 /\ sinceBos = 0 /\ sinceEos = 0
  /\ padRun = 0 /\ afterWord = FALSE
  /\ rnnt = RnntInitState
  /\ talking = 0 /\ textTokens = 0 /\ queue = <<>>
  /\ idle = TRUE /\ writtenBy = "start"
  /\ called = FALSE /\ openFor = 0 /\ forcedHere = FALSE

-----------------------------------------------------------------------------
(* Forced turn taking.                                                     *)

PadWindowNow == IF sinceBos = 0 THEN PadWindowFirst ELSE PadWindow

\* Mutant of PauseOver: the token before the window may be a PAD as well.
PauseOverOrLonger == t >= PadWindowNow /\ padRun >= PadWindowNow
                     /\ afterWord

(* The window holds nothing but PADs and the token before it is a word.    *)
PauseOver == padRun = PadWindowNow /\ afterWord

(* _maybe_apply_forced_turn_taking(): the token left by the language model *)
(* and the forced one.                                                     *)
Forced(llm, asr) ==
  IF t >= PadWindowNow /\ PauseOver
  THEN IF InWindow(sinceBos) THEN llm ELSE "bos"
  ELSE IF t >= PadWindowNow /\ asr = "user_bos" /\ ~InWindow(sinceEos)
       THEN "eos" ELSE llm

OpensForcedTurn == t >= PadWindowNow /\ PauseOver /\ ~InWindow(sinceBos)

-----------------------------------------------------------------------------
(* The RNNT rules.                                                         *)

(* _rnnt_step(): one frame without (blank) or with speech.                 *)
RnntStep(blank) ==
  IF blank
  THEN [rnnt EXCEPT !.blank_count = Upto(Cap, @ + 1), !.nonblank_consec = 0]
  ELSE [rnnt EXCEPT !.blank_count = 0,
                    !.nonblank_consec = Upto(Cap, @ + 1),
                    !.nonblank_total = Upto(Cap, @ + 1)]

MinSpeechNow(low) ==
  IF low THEN MinSpeechLow
  ELSE IF rnnt.user_first_turn THEN MinSpeechFirst ELSE MinSpeech

EouNow == IF rnnt.user_first_turn THEN EouFirst ELSE Eou

SeeBos(s, token) ==
  IF InWindow(sinceBos) \/ token = "bos"
  THEN [s EXCEPT !.agent_speaking = TRUE, !.first_turn = FALSE,
                 !.speech_confirmed = @ /\ token # "bos",
                 !.nonblank_total = IF token = "bos" THEN 0 ELSE @]
  ELSE s

\* Mutant of SeeEos: only an EOS of this frame ends the agent's turn.
SeeEosNow(s, token) ==
  IF token = "eos"
  THEN [s EXCEPT !.agent_speaking = FALSE, !.speech_confirmed = FALSE,
                 !.nonblank_total = 0]
  ELSE s

SeeEos(s, token) ==
  IF InWindow(sinceEos) \/ token = "eos"
  THEN [s EXCEPT !.agent_speaking = FALSE, !.speech_confirmed = FALSE,
                 !.nonblank_total = 0]
  ELSE s

ForgetNoise(s) ==
  IF s.blank_count >= NoiseReset /\ ~s.speech_confirmed /\ ~s.agent_speaking
  THEN [s EXCEPT !.nonblank_total = 0] ELSE s

ConfirmSpeech(s, min) ==
  IF (s.nonblank_consec >= min \/ s.nonblank_total >= min) /\ ~s.agent_speaking
  THEN [s EXCEPT !.speech_confirmed = TRUE] ELSE s

(* What _apply_rnnt_turn_taking() establishes before its rules: who talks. *)
Listen(s, token, low) ==
  ConfirmSpeech(ForgetNoise(SeeEos(SeeBos(s, token), token)), MinSpeechNow(low))

(* The agent goes on talking: no EOS in sight.                             *)
Talks(h, token) == h.agent_speaking /\ token # "eos" /\ ~InWindow(sinceEos)

\* Mutant of TalkingNow: the counter is not carried to the next frame.
TalkingNowForgotten(h, token) ==
  IF opt.maxResponse > 0 /\ Talks(h, token) THEN 1 ELSE 0

TalkingNow(h, token) ==
  IF opt.maxResponse > 0 /\ Talks(h, token) THEN talking + 1
  ELSE IF h.agent_speaking THEN talking ELSE 0

TokensSoFar(token) == IF token = "bos" THEN 0 ELSE textTokens

TokensNow(h, token) ==
  IF Ratio > 0 /\ Talks(h, token) /\ token = "word"
  THEN Upto(Cap, TokensSoFar(token) + 1) ELSE TokensSoFar(token)

(* The rules' conditions, in the order in which they are tried.            *)
FallbackDue(h) ==
  h.first_turn /\ t >= Fallback /\ h.speech_confirmed /\ ~InWindow(sinceBos)

\* Mutants of EouDue: only in the user's first turn; also while the agent talks.
EouDueAnyway(h) == h.blank_count >= EouNow /\ h.speech_confirmed

EouDueFirst(h) == h.blank_count >= EouNow /\ h.speech_confirmed
                  /\ ~h.agent_speaking /\ h.user_first_turn

EouDue(h) == h.blank_count >= EouNow /\ h.speech_confirmed /\ ~h.agent_speaking

ForceEosDue(h) ==
  /\ opt.forceEos > 0 /\ h.blank_count >= opt.forceEos
  /\ h.agent_speaking /\ ~h.speech_confirmed /\ ~h.first_turn
  /\ ~InWindow(sinceEos)

PostEosDue(h) ==
  /\ opt.postEos > 0 /\ h.blank_count >= opt.postEos
  /\ ~h.first_turn /\ ~h.agent_speaking /\ ~h.speech_confirmed
  /\ ~h.post_eos_fired

PostEosPads(h, token) ==
  /\ opt.postEos > 0 /\ token = "bos"
  /\ ~h.first_turn /\ ~h.speech_confirmed /\ h.post_eos_fired

\* Mutant of MaxResponseDue: off by one.
MaxResponseDueLate(h, token) ==
  opt.maxResponse > 0 /\ Talks(h, token) /\ talking > opt.maxResponse

MaxResponseDue(h, token) ==
  /\ opt.maxResponse > 0 /\ Talks(h, token)
  /\ TalkingNow(h, token) >= opt.maxResponse

RatioCapDue(h, token) ==
  /\ Ratio > 0 /\ Talks(h, token)
  /\ TokensNow(h, token) >= MinTokens
  /\ TalkingNow(h, token) >= Ratio * TokensNow(h, token)

\* Mutant of BargeInDue: a barge-in needs the user's first turn to be over.
BargeInDueLater(h, token) ==
  Talks(h, token) /\ h.nonblank_consec >= Bou /\ ~h.user_first_turn

BargeInDue(h, token) == Talks(h, token) /\ h.nonblank_consec >= Bou

(* The first rule that applies; "llm" leaves the token as it is.            *)
Rule(h, token) ==
  IF FallbackDue(h) THEN "fallback"
  ELSE IF EouDue(h)
       THEN IF InWindow(sinceBos) \/ token = "bos" THEN "eou_suppressed" ELSE "eou"
  ELSE IF ForceEosDue(h) THEN "force_eos"
  ELSE IF PostEosDue(h) THEN "post_eos"
  ELSE IF PostEosPads(h, token) THEN "post_eos_pad"
  ELSE IF MaxResponseDue(h, token) THEN "max_response"
  ELSE IF RatioCapDue(h, token) THEN "ratio_cap"
  ELSE IF BargeInDue(h, token) THEN "barge_in"
  ELSE "llm"

BosRules == {"fallback", "eou", "post_eos"}
EosRules == {"force_eos", "max_response", "ratio_cap", "barge_in"}
Rules    == BosRules \cup EosRules \cup {"llm", "eou_suppressed", "post_eos_pad"}
Writers  == Rules \cup {"start", "forced", "redirect", "call"}

TokenOf(rule, token) ==
  CASE rule \in BosRules      -> "bos"
    [] rule \in EosRules      -> "eos"
    [] rule = "post_eos_pad"  -> "pad"
    [] OTHER                  -> token

OpenTurn(h, rule) ==
  [h EXCEPT !.agent_speaking = TRUE, !.speech_confirmed = FALSE,
            !.nonblank_total = 0, !.first_turn = FALSE,
            !.user_first_turn = @ /\ rule = "post_eos",
            !.post_eos_fired = @ \/ rule = "post_eos"]

CloseTurn(h, rule) ==
  [h EXCEPT !.agent_speaking = FALSE,
            !.speech_confirmed = @ /\ rule # "force_eos",
            !.nonblank_total = IF rule \in {"force_eos", "barge_in"} THEN 0 ELSE @,
            !.nonblank_consec = IF rule = "barge_in" THEN 0 ELSE @]

StateOf(rule, h) ==
  CASE rule \in BosRules                      -> OpenTurn(h, rule)
    [] rule \in EosRules \cup {"post_eos_pad"} -> CloseTurn(h, rule)
    [] OTHER                                  -> h

(* The caps' counters, which the rules before them do not reach.           *)
CountersOf(rule, h, token) ==
  CASE rule = "max_response" -> <<0, TokensSoFar(token)>>
    [] rule = "ratio_cap"    -> <<0, 0>>
    [] rule \in {"barge_in", "llm"} -> <<TalkingNow(h, token), TokensNow(h, token)>>
    [] OTHER                 -> <<talking, TokensSoFar(token)>>

QueueOf(rule) ==
  CASE rule = "max_response" -> Redirect
    [] rule = "barge_in"     -> <<>>
    [] OTHER                 -> queue

-----------------------------------------------------------------------------
Later(distance, here) ==
  IF here THEN 1 ELSE IF distance = 0 THEN 0 ELSE Upto(Threshold + 1, distance + 1)

(* Both channels and the synthesis flag at the end of a frame.             *)
Write(token, by, asr) ==
  /\ t' = Upto(Cap, t + 1)
  /\ sinceBos' = Later(sinceBos, token = "bos")
  /\ sinceEos' = Later(sinceEos, token = "eos")
  /\ padRun' = (IF asr = "pad" THEN Upto(Cap + 1, padRun + 1) ELSE 0)
  /\ afterWord' = (IF asr = "pad" THEN afterWord ELSE asr = "word")
  /\ idle' = (IF token = "bos" THEN FALSE ELSE IF token = "eos" THEN TRUE ELSE idle)
  /\ writtenBy' = by

Remember(token, forced, asr) ==
  /\ called' = (called /\ token \notin {"bos", "eos"})
  /\ openFor' = (IF token = "eos" \/ called' THEN 0
                 ELSE IF token = "bos" \/ ~idle THEN Upto(OpenCap, openFor + 1)
                 ELSE 0)
  /\ forcedHere' = (asr = "pad" /\ (forcedHere \/ forced))

(* What the frame writes when rule has been chosen for token.              *)
Apply(rule, h, token, asr) ==
  LET final == TokenOf(rule, token)
      by    == IF rule = "llm" /\ OpensForcedTurn THEN "forced" ELSE rule
  IN /\ Write(final, by, asr)
     /\ rnnt' = StateOf(rule, h)
     /\ talking' = CountersOf(rule, h, token)[1]
     /\ textTokens' = CountersOf(rule, h, token)[2]
     /\ queue' = QueueOf(rule)
     /\ Remember(final, OpensForcedTurn, asr)

(* A frame of infer_one_step() with no function call in progress: the      *)
(* model's token, forced turn taking, then the RNNT rules.                 *)
Frame(llm, asr, blank, low) ==
  /\ queue = <<>>
  /\ low => ~rnnt.first_turn
  /\ \E token \in {Forced(llm, asr)} :
       \E h \in {Listen(RnntStep(blank), token, low)} :
         \E rule \in {Rule(h, token)} : Apply(rule, h, token, asr)
  /\ UNCHANGED opt

(* A frame in which the next redirect token replaces whatever was written. *)
RedirectFrame(asr, blank) ==
  LET token == Head(queue)
  IN /\ queue # <<>>
     /\ queue' = Tail(queue)
     /\ Write(token, "redirect", asr)
     /\ rnnt' = [RnntStep(blank) EXCEPT
                   !.agent_speaking = token = "bos" \/ (@ /\ token # "eos")]
     /\ Remember(token, FALSE, asr)
     /\ UNCHANGED <<opt, talking, textTokens>>

(* A position of a function call, in infer_one_step() or in the background *)
(* thread: the text is silenced and no rule runs.  The thread takes no ASR *)
(* token and hears only the frames that arrived in time.                   *)
SilencedFrame(asr, heard) ==
  /\ Write("pad", "call", asr)
  /\ rnnt' = (IF heard = "nothing" THEN rnnt ELSE RnntStep(heard = "blank"))
  /\ called' = (called \/ ~idle) /\ openFor' = 0
  /\ forcedHere' = (asr = "pad" /\ forcedHere)
  /\ UNCHANGED <<opt, caps>>

(* The pipeline takes up the main loop after a call the user interrupted:  *)
(* an EOS replaces the last position's token unless the model itself went  *)
(* on to answer, and the wrapper forgets what it had queued.  The flag of  *)
(* the synthesis is not touched.                                           *)
InterruptCall(eos) ==
  /\ writtenBy = "call"
  /\ sinceEos' = (IF eos THEN 1 ELSE sinceEos)
  /\ queue' = <<>>
  /\ UNCHANGED <<opt, t, sinceBos, padRun, afterWord, rnnt, talking, textTokens,
                 idle, writtenBy, called, openFor, forcedHere>>

(* The next stream has a new context and state.  The queue belongs to the  *)
(* wrapper and is emptied only by the prefill.                             *)
NewStream(prefilled) ==
  /\ writtenBy # "start"
  /\ t' = 0 /\ sinceBos' = 0 /\ sinceEos' = 0
  /\ padRun' = 0 /\ afterWord' = FALSE
  /\ rnnt' = RnntInitState
  /\ talking' = 0 /\ textTokens' = 0
  /\ queue' = (IF prefilled THEN <<>> ELSE queue)
  /\ idle' = TRUE /\ writtenBy' = "start"
  /\ called' = FALSE /\ openFor' = 0 /\ forcedHere' = FALSE
  /\ UNCHANGED opt

Next ==
  \/ \E llm \in LLMTokens, asr \in AsrTokens, blank, low \in BOOLEAN :
       Frame(llm, asr, blank, low)
  \/ \E asr \in AsrTokens, blank \in BOOLEAN : RedirectFrame(asr, blank)
  \/ \E asr \in AsrTokens, heard \in {"blank", "speech", "nothing"} :
       SilencedFrame(asr, heard)
  \/ \E eos \in BOOLEAN : InterruptCall(eos)
  \/ \E prefilled \in BOOLEAN : NewStream(prefilled)

Spec == Init /\ [][Next]_vars

-----------------------------------------------------------------------------
TypeOK ==
  /\ opt \in Options
  /\ t \in 0..Cap /\ padRun \in 0..Cap + 1
  /\ sinceBos \in 0..Threshold + 1 /\ sinceEos \in 0..Threshold + 1
  /\ afterWord \in BOOLEAN
  /\ rnnt \in RnntState
  /\ talking \in 0..Cap /\ textTokens \in 0..Cap
  /\ queue \in Seq(LLMTokens)
  /\ idle \in BOOLEAN /\ called \in BOOLEAN /\ forcedHere \in BOOLEAN
  /\ openFor \in 0..OpenCap
  /\ writtenBy \in Writers

(* The driver never takes the agent to be speaking when its turn is over:  *)
(* its look back over gen_text and the flags its rules leave agree with    *)
(* the BOS and EOS the speech synthesis was given.                         *)
DriverNotAhead == rnnt.agent_speaking => ~idle

(* An answer is never overdue: when the rules have seen a frame, the user  *)
(* was heard and the agent is silent, the pause is shorter than the EOU    *)
(* window.  Only the frame in which a rule ends a turn is exempt.          *)
AnswerDue ==
  (writtenBy \notin EosRules \cup {"start", "redirect", "call"}
     /\ rnnt.speech_confirmed /\ ~rnnt.agent_speaking)
  => rnnt.blank_count < EouNow

(* The EOU branch for a BOS that is already in the window (:3158) is dead: *)
(* speech confirmed with the agent silent means no BOS in the window.      *)
EouNeverSuppressed == writtenBy # "eou_suppressed"

(* The user can always interrupt: in a turn without a function call, once  *)
(* no EOS is left in the window, a frame that opens no turn leaves the     *)
(* driver aware that the agent speaks and no run of Bou speech frames      *)
(* unanswered.                                                             *)
BargeInHeard ==
  [][(~idle' /\ ~called' /\ ~InWindow(sinceEos) /\ opt.postEos = 0
        /\ writtenBy' \notin BosRules \cup {"redirect", "call"})
     => rnnt'.agent_speaking /\ rnnt'.nonblank_consec < Bou]_vars

(* With a maximal response a turn without a call ends after that many      *)
(* frames and at most the window it takes to see the turn begin.           *)
MaxResponseKept ==
  opt.maxResponse > 0 => openFor <= Threshold + opt.maxResponse

(* Forced turn taking answers a pause of the user once.                    *)
OneForcedTurnPerPause == [][writtenBy' = "forced" => ~forcedHere]_vars

(* EOU and the first-turn fallback open a turn only when none is open, so  *)
(* a user who pauses while the agent talks does not restart it.            *)
EouOpensIdleTurn ==
  [][writtenBy' \in {"eou", "fallback"}
       => idle \/ called \/ opt.postEos > 0]_vars

(* s2s_streaming.yaml:141: an EOS is forced after ratio x token count      *)
(* frames when the model's own EOS is missing.                             *)
RatioCapKept ==
  textTokens \in MinTokens..Cap - 1 => openFor <= Threshold + Ratio * textTokens

=============================================================================
