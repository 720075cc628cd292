-------------------------- MODULE TurnTaking_proofs --------------------------
(***************************************************************************)
(* Proofs about turn taking, for any windows, thresholds and redirect      *)
(* tokens.                                                                 *)
(***************************************************************************)
EXTENDS TurnTaking, SequenceTheorems, TLAPS

USE TurnTakingAssumption

-----------------------------------------------------------------------------
(* What listening to a frame does to the record.                           *)

LEMMA ZeroIsCount == 0 \in 0..Cap
  OBVIOUS

LEMMA RnntStepFacts ==
  ASSUME rnnt \in RnntState, NEW blank \in BOOLEAN
  PROVE  /\ RnntStep(blank) \in RnntState
         /\ RnntStep(blank).agent_speaking = rnnt.agent_speaking
         /\ RnntStep(blank).first_turn = rnnt.first_turn
         /\ RnntStep(blank).user_first_turn = rnnt.user_first_turn
         /\ RnntStep(blank).blank_count = 0 \/ RnntStep(blank).nonblank_consec = 0
<1>1. RnntStep(blank) \in RnntState
  <2>1. \A n \in 0..Cap : Upto(Cap, n + 1) \in 0..Cap
    BY DEF Upto
  <2>2. /\ rnnt.blank_count \in 0..Cap
        /\ rnnt.nonblank_consec \in 0..Cap
        /\ rnnt.nonblank_total \in 0..Cap
    BY DEF RnntState
  <2> QED
    BY <2>1, <2>2, ZeroIsCount, Zenon DEF RnntStep, RnntState
<1> QED
  BY <1>1 DEF RnntStep, RnntState, Upto

LEMMA SeeBosFacts ==
  ASSUME NEW s \in RnntState, NEW token \in LLMTokens
  PROVE  LET r == SeeBos(s, token)
             bos == InWindow(sinceBos) \/ token = "bos"
         IN /\ r \in RnntState
            /\ r.agent_speaking <=> (s.agent_speaking \/ bos)
            /\ r.first_turn <=> (s.first_turn /\ ~bos)
            /\ r.user_first_turn = s.user_first_turn
            /\ r.blank_count = s.blank_count
            /\ r.nonblank_consec = s.nonblank_consec
<1>1. [s EXCEPT !.agent_speaking = TRUE, !.first_turn = FALSE,
                !.speech_confirmed = @ /\ token # "bos",
                !.nonblank_total = IF token = "bos" THEN 0 ELSE @] \in RnntState
  BY ZeroIsCount, Zenon DEF RnntState
<1>2. SeeBos(s, token) \in RnntState
  BY <1>1, Zenon DEF SeeBos
<1> QED
  BY <1>2 DEF SeeBos, RnntState

LEMMA SeeEosFacts ==
  ASSUME NEW s \in RnntState, NEW token \in LLMTokens
  PROVE  LET r == SeeEos(s, token)
             eos == InWindow(sinceEos) \/ token = "eos"
         IN /\ r \in RnntState
            /\ r.agent_speaking <=> (s.agent_speaking /\ ~eos)
            /\ eos => ~r.speech_confirmed /\ r.nonblank_total = 0
            /\ r.first_turn = s.first_turn
            /\ r.user_first_turn = s.user_first_turn
            /\ r.blank_count = s.blank_count
            /\ r.nonblank_consec = s.nonblank_consec
<1>1. [s EXCEPT !.agent_speaking = FALSE, !.speech_confirmed = FALSE,
                !.nonblank_total = 0] \in RnntState
  BY ZeroIsCount, Zenon DEF RnntState
<1>2. SeeEos(s, token) \in RnntState
  BY <1>1, Zenon DEF SeeEos
<1> QED
  BY <1>2 DEF SeeEos, RnntState

LEMMA ForgetNoiseFacts ==
  ASSUME NEW s \in RnntState
  PROVE  LET r == ForgetNoise(s)
         IN /\ r \in RnntState
            /\ r.agent_speaking = s.agent_speaking
            /\ r.speech_confirmed = s.speech_confirmed
            /\ r.nonblank_total \in {0, s.nonblank_total}
            /\ r.first_turn = s.first_turn
            /\ r.user_first_turn = s.user_first_turn
            /\ r.blank_count = s.blank_count
            /\ r.nonblank_consec = s.nonblank_consec
<1>1. [s EXCEPT !.nonblank_total = 0] \in RnntState
  BY ZeroIsCount, Zenon DEF RnntState
<1>2. ForgetNoise(s) \in RnntState
  BY <1>1, Zenon DEF ForgetNoise
<1> QED
  BY <1>2 DEF ForgetNoise, RnntState

LEMMA ConfirmSpeechFacts ==
  ASSUME NEW s \in RnntState, NEW min \in Nat
  PROVE  LET r == ConfirmSpeech(s, min)
         IN /\ r \in RnntState
            /\ r.agent_speaking = s.agent_speaking
            /\ r.speech_confirmed =>
                 \/ s.speech_confirmed
                 \/ s.nonblank_consec >= min \/ s.nonblank_total >= min
            /\ r.first_turn = s.first_turn
            /\ r.user_first_turn = s.user_first_turn
            /\ r.blank_count = s.blank_count
            /\ r.nonblank_consec = s.nonblank_consec
<1>1. [s EXCEPT !.speech_confirmed = TRUE] \in RnntState
  BY Zenon DEF RnntState
<1>2. ConfirmSpeech(s, min) \in RnntState
  BY <1>1, Zenon DEF ConfirmSpeech
<1> QED
  BY <1>2 DEF ConfirmSpeech, RnntState

(* Who talks, as the rules see it: an EOS in sight silences the agent, and *)
(* then speech is confirmed only while it is heard.                        *)
Heard(h, token) ==
  LET bos == InWindow(sinceBos) \/ token = "bos"
      eos == InWindow(sinceEos) \/ token = "eos"
  IN /\ h.agent_speaking <=> ((rnnt.agent_speaking \/ bos) /\ ~eos)
     /\ h.first_turn <=> (rnnt.first_turn /\ ~bos)
     /\ h.user_first_turn = rnnt.user_first_turn
     /\ eos /\ h.speech_confirmed => h.blank_count = 0

LEMMA ListenFacts ==
  ASSUME rnnt \in RnntState, NEW blank \in BOOLEAN, NEW low \in BOOLEAN,
         NEW token \in LLMTokens
  PROVE  /\ Listen(RnntStep(blank), token, low) \in RnntState
         /\ Heard(Listen(RnntStep(blank), token, low), token)
<1> DEFINE r0 == RnntStep(blank)
           r1 == SeeBos(r0, token)
           r2 == SeeEos(r1, token)
           r3 == ForgetNoise(r2)
           min == MinSpeechNow(low)
           h  == ConfirmSpeech(r3, min)
<1>1. min \in Nat /\ min >= 1
  BY DEF MinSpeechNow
<1>2. r0 \in RnntState
  BY RnntStepFacts
<1>3. r1 \in RnntState
  BY <1>2, SeeBosFacts
<1>4. r2 \in RnntState
  BY <1>3, SeeEosFacts
<1>5. r3 \in RnntState
  BY <1>4, ForgetNoiseFacts
<1>6. h = Listen(RnntStep(blank), token, low)
  BY DEF Listen
<1>7. h \in RnntState
  BY <1>1, <1>5, ConfirmSpeechFacts
<1>8. h.agent_speaking = r2.agent_speaking /\ h.first_turn = r2.first_turn
      /\ h.user_first_turn = r2.user_first_turn /\ h.blank_count = r2.blank_count
  <2>1. r3.agent_speaking = r2.agent_speaking /\ r3.first_turn = r2.first_turn
        /\ r3.user_first_turn = r2.user_first_turn /\ r3.blank_count = r2.blank_count
    BY <1>4, ForgetNoiseFacts
  <2> HIDE DEF r3
  <2>2. h.agent_speaking = r3.agent_speaking /\ h.first_turn = r3.first_turn
        /\ h.user_first_turn = r3.user_first_turn /\ h.blank_count = r3.blank_count
    BY <1>1, <1>5, ConfirmSpeechFacts
  <2> QED
    BY <2>1, <2>2
<1> HIDE DEF h, r3
<1>9. (r2.agent_speaking <=> r1.agent_speaking /\ ~(InWindow(sinceEos) \/ token = "eos"))
      /\ r2.first_turn = r1.first_turn /\ r2.user_first_turn = r1.user_first_turn
      /\ r2.blank_count = r1.blank_count /\ r2.nonblank_consec = r1.nonblank_consec
      /\ ((InWindow(sinceEos) \/ token = "eos")
            => ~r2.speech_confirmed /\ r2.nonblank_total = 0)
  BY <1>3, SeeEosFacts
<1>10. (r1.agent_speaking <=> r0.agent_speaking \/ InWindow(sinceBos) \/ token = "bos")
       /\ (r1.first_turn <=> r0.first_turn /\ ~(InWindow(sinceBos) \/ token = "bos"))
       /\ r1.user_first_turn = r0.user_first_turn
       /\ r1.blank_count = r0.blank_count /\ r1.nonblank_consec = r0.nonblank_consec
  BY <1>2, SeeBosFacts
<1>11. h.speech_confirmed => \/ r2.speech_confirmed \/ r2.nonblank_consec >= min
                             \/ r2.nonblank_total >= min \/ 0 >= min
  <2>1. h.speech_confirmed => \/ r3.speech_confirmed \/ r3.nonblank_consec >= min
                              \/ r3.nonblank_total >= min
    BY <1>1, <1>5, ConfirmSpeechFacts DEF h
  <2>2. r3.speech_confirmed = r2.speech_confirmed
        /\ r3.nonblank_consec = r2.nonblank_consec
        /\ r3.nonblank_total \in {0, r2.nonblank_total}
    BY <1>4, ForgetNoiseFacts DEF r3
  <2> QED
    BY <2>1, <2>2
<1>12. (InWindow(sinceEos) \/ token = "eos") /\ h.speech_confirmed => h.blank_count = 0
  <2> SUFFICES ASSUME InWindow(sinceEos) \/ token = "eos", h.speech_confirmed
               PROVE  h.blank_count = 0
    OBVIOUS
  <2>1. r0.nonblank_consec >= min
    BY <1>1, <1>9, <1>10, <1>11
  <2>2. r0.blank_count = 0
    BY <1>1, <2>1, RnntStepFacts
  <2> QED
    BY <2>2, <1>8, <1>9, <1>10
<1> HIDE DEF r2, r1, r0, min
<1>13. r0.agent_speaking = rnnt.agent_speaking /\ r0.first_turn = rnnt.first_turn
       /\ r0.user_first_turn = rnnt.user_first_turn
  BY RnntStepFacts DEF r0
<1> QED
  BY <1>6, <1>7, <1>8, <1>9, <1>10, <1>12, <1>13 DEF Heard
(* What the rule that is chosen says of the frame.                         *)
Chosen(rule, h, token) ==
  /\ rule = "fallback" => FallbackDue(h)
  /\ rule \in {"eou", "eou_suppressed"} => EouDue(h)
  /\ rule = "eou_suppressed" => InWindow(sinceBos) \/ token = "bos"
  /\ rule \notin {"fallback", "eou", "eou_suppressed"} => ~EouDue(h)
  /\ rule = "post_eos" => opt.postEos > 0
  /\ rule = "post_eos_pad" => PostEosPads(h, token)
  /\ rule \in {"llm", "barge_in"} => ~MaxResponseDue(h, token)
  /\ rule = "llm" => ~BargeInDue(h, token)

LEMMA RuleFacts ==
  ASSUME NEW h, NEW token
  PROVE  Rule(h, token) \in Rules /\ Chosen(Rule(h, token), h, token)
<1>1. Rule(h, token) \in Rules
  BY Zenon DEF Rule, Rules, BosRules, EosRules
<1>2. PostEosDue(h) => opt.postEos > 0
  BY DEF PostEosDue
<1> QED
  BY <1>1, <1>2, Zenon DEF Rule, Chosen

LEMMA ForcedType ==
  ASSUME NEW llm \in LLMTokens, NEW asr PROVE Forced(llm, asr) \in LLMTokens
  BY DEF Forced, LLMTokens

(* A frame of the main loop, in the terms of the two facts above.          *)
LEMMA FrameFacts ==
  ASSUME rnnt \in RnntState, NEW llm \in LLMTokens, NEW asr \in AsrTokens,
         NEW blank \in BOOLEAN, NEW low \in BOOLEAN, Frame(llm, asr, blank, low)
  PROVE  \E token \in LLMTokens, h \in RnntState, rule \in Rules :
           /\ Heard(h, token) /\ Chosen(rule, h, token)
           /\ Apply(rule, h, token, asr)
           /\ queue = <<>> /\ opt' = opt
<1> DEFINE token == Forced(llm, asr)
           h == Listen(RnntStep(blank), token, low)
           rule == Rule(h, token)
<1>1. token \in LLMTokens
  BY ForcedType
<1>2. h \in RnntState /\ Heard(h, token)
  BY <1>1, ListenFacts
<1>3. rule \in Rules /\ Chosen(rule, h, token)
  BY RuleFacts
<1>4. Apply(rule, h, token, asr) /\ queue = <<>> /\ opt' = opt
  BY Zenon DEF Frame
<1> QED
  BY <1>1, <1>2, <1>3, <1>4, Zenon

(* What a rule makes of the record and of the token.                       *)
LEMMA StateFacts ==
  ASSUME NEW h \in RnntState, NEW rule \in Rules
  PROVE  /\ StateOf(rule, h) \in RnntState
         /\ StateOf(rule, h).agent_speaking <=>
              \/ rule \in BosRules
              \/ h.agent_speaking /\ rule \in {"llm", "eou_suppressed"}
         /\ StateOf(rule, h).first_turn <=> (h.first_turn /\ rule \notin BosRules)
         /\ rule \in {"llm", "eou_suppressed"} => StateOf(rule, h) = h
         /\ rule = "post_eos_pad" =>
              (StateOf(rule, h).speech_confirmed <=> h.speech_confirmed)
<1>1. OpenTurn(h, rule) \in RnntState
  BY ZeroIsCount, Zenon DEF OpenTurn, RnntState
<1>2. CloseTurn(h, rule) \in RnntState
  BY ZeroIsCount, Zenon DEF CloseTurn, RnntState
<1>3. CASE rule \in BosRules
  <2>1. StateOf(rule, h) = OpenTurn(h, rule)
    BY <1>3 DEF StateOf, BosRules, EosRules
  <2>2. OpenTurn(h, rule).agent_speaking /\ ~OpenTurn(h, rule).first_turn
    BY Zenon DEF OpenTurn, RnntState
  <2>3. rule \notin {"llm", "eou_suppressed", "post_eos_pad"}
    BY <1>3 DEF BosRules
  <2> QED
    BY <1>1, <1>3, <2>1, <2>2, <2>3
<1>4. CASE rule \in EosRules \cup {"post_eos_pad"}
  <2>1. StateOf(rule, h) = CloseTurn(h, rule)
    BY <1>4 DEF StateOf, BosRules, EosRules
  <2>2. ~CloseTurn(h, rule).agent_speaking
        /\ CloseTurn(h, rule).first_turn = h.first_turn
    BY DEF CloseTurn, RnntState
  <2>3. CloseTurn(h, rule).speech_confirmed
          <=> h.speech_confirmed /\ rule # "force_eos"
    BY Zenon DEF CloseTurn, RnntState
  <2>4. rule \notin BosRules /\ rule \notin {"llm", "eou_suppressed"}
    BY <1>4 DEF BosRules, EosRules
  <2> QED
    BY <1>2, <2>1, <2>2, <2>3, <2>4
<1>5. CASE rule \in {"llm", "eou_suppressed"}
  <2>1. StateOf(rule, h) = h
    BY <1>5 DEF StateOf, BosRules, EosRules
  <2> QED
    BY <1>5, <2>1 DEF BosRules
<1> QED
  BY <1>3, <1>4, <1>5 DEF Rules

LEMMA TokenFacts ==
  ASSUME NEW token \in LLMTokens, NEW rule \in Rules
  PROVE  /\ TokenOf(rule, token) \in LLMTokens
         /\ rule \in BosRules => TokenOf(rule, token) = "bos"
         /\ rule \in EosRules => TokenOf(rule, token) = "eos"
         /\ rule = "post_eos_pad" => TokenOf(rule, token) = "pad"
         /\ rule \in {"llm", "eou_suppressed"} => TokenOf(rule, token) = token
  BY DEF TokenOf, Rules, BosRules, EosRules, LLMTokens
-----------------------------------------------------------------------------
(* Types.                                                                  *)

LEMMA WriteType ==
  ASSUME TypeOK, NEW token \in LLMTokens, NEW by \in Writers,
         NEW asr \in AsrTokens, Write(token, by, asr)
  PROVE  /\ t' \in 0..Cap /\ padRun' \in 0..Cap + 1
         /\ sinceBos' \in 0..Threshold + 1 /\ sinceEos' \in 0..Threshold + 1
         /\ afterWord' \in BOOLEAN /\ idle' \in BOOLEAN /\ writtenBy' \in Writers
<1>1. t' \in 0..Cap /\ padRun' \in 0..Cap + 1
  <2>1. t \in 0..Cap /\ padRun \in 0..Cap + 1
    BY DEF TypeOK
  <2> QED
    BY <2>1 DEF Write, Upto
<1>2. \A d \in 0..Threshold + 1, here \in BOOLEAN : Later(d, here) \in 0..Threshold + 1
  BY SMTT(40) DEF Later, Upto
<1>3. sinceBos' \in 0..Threshold + 1 /\ sinceEos' \in 0..Threshold + 1
  BY <1>2 DEF Write, TypeOK
<1>4. afterWord' \in BOOLEAN /\ idle' \in BOOLEAN /\ writtenBy' \in Writers
  BY Zenon DEF Write, TypeOK
<1> QED
  BY <1>1, <1>3, <1>4

LEMMA RememberType ==
  ASSUME TypeOK, NEW token, NEW asr, NEW forced \in BOOLEAN,
         Remember(token, forced, asr)
  PROVE  called' \in BOOLEAN /\ forcedHere' \in BOOLEAN /\ openFor' \in 0..OpenCap
<1>1. openFor' \in 0..OpenCap
  <2>1. openFor \in 0..OpenCap
    BY DEF TypeOK
  <2>2. OpenCap \in Nat
    BY TurnTakingAssumption, SMTT(40) DEF OpenCap
  <2>3. Upto(OpenCap, openFor + 1) \in 0..OpenCap
    BY <2>1, <2>2, SMTT(40) DEF Upto
  <2>4. openFor' \in {0, Upto(OpenCap, openFor + 1)}
    BY Zenon DEF Remember
  <2>5. 0 \in 0..OpenCap
    BY <2>2
  <2> QED
    BY <2>3, <2>4, <2>5, Zenon
<1>2. called' \in BOOLEAN /\ forcedHere' \in BOOLEAN
  BY Zenon DEF Remember, TypeOK
<1> QED
  BY <1>1, <1>2

(* The counter of the maximal response never passes that limit: the rule   *)
(* fires before it does.                                                   *)
LEMMA CountersType ==
  ASSUME TypeOK, NEW h \in RnntState, NEW token \in LLMTokens,
         NEW rule \in Rules, Chosen(rule, h, token)
  PROVE  /\ CountersOf(rule, h, token)[1] \in 0..Cap
         /\ CountersOf(rule, h, token)[2] \in 0..Cap
<1>1. TokensSoFar(token) \in 0..Cap
  BY DEF TokensSoFar, TypeOK
<1>2. TokensNow(h, token) \in 0..Cap
  BY <1>1, SMTT(40) DEF TokensNow, Upto
<1>3. ASSUME ~MaxResponseDue(h, token) PROVE TalkingNow(h, token) \in 0..Cap
  <2>1. opt.maxResponse \in 0..Cap
    BY DEF TypeOK
  <2>2. TalkingNow(h, token) \in Nat
    BY DEF TypeOK, TalkingNow
  <2>3. TalkingNow(h, token) \in {talking, 0}
          \/ TalkingNow(h, token) < opt.maxResponse
    BY <1>3, <2>1, <2>2, SMTT(40) DEF MaxResponseDue, TalkingNow
  <2>4. talking \in 0..Cap
    BY DEF TypeOK
  <2> QED
    BY <2>1, <2>2, <2>3, <2>4, SMTT(40)
<1>4. rule \in {"llm", "barge_in"} => ~MaxResponseDue(h, token)
  BY DEF Chosen
<1>5. talking \in 0..Cap
  BY DEF TypeOK
<1> QED
  BY <1>1, <1>2, <1>3, <1>4, <1>5, ZeroIsCount DEF CountersOf

LEMMA TypeStep == TypeOK /\ [Next]_vars => TypeOK'
<1> SUFFICES ASSUME TypeOK, [Next]_vars PROVE TypeOK'
  OBVIOUS
<1>1. ASSUME NEW llm \in LLMTokens, NEW asr \in AsrTokens, NEW blank \in BOOLEAN,
             NEW low \in BOOLEAN, Frame(llm, asr, blank, low)
      PROVE  TypeOK'
  <2>1. PICK token \in LLMTokens, h \in RnntState, rule \in Rules :
          /\ Chosen(rule, h, token) /\ Apply(rule, h, token, asr) /\ opt' = opt
    BY <1>1, FrameFacts DEF TypeOK
  <2> DEFINE final == TokenOf(rule, token)
             by == IF rule = "llm" /\ OpensForcedTurn THEN "forced" ELSE rule
  <2>2. final \in LLMTokens /\ by \in Writers
    BY TokenFacts DEF Writers
  <2>3. OpensForcedTurn \in BOOLEAN
    BY DEF OpensForcedTurn
  <2>4. Write(final, by, asr) /\ Remember(final, OpensForcedTurn, asr)
    BY <2>1, Zenon DEF Apply
  <2>5. rnnt' \in RnntState
    BY <2>1, StateFacts, Zenon DEF Apply
  <2>6. talking' \in 0..Cap /\ textTokens' \in 0..Cap
    BY <2>1, CountersType, Zenon DEF Apply
  <2>7. queue' \in Seq(LLMTokens)
    BY <2>1 DEF Apply, QueueOf, TypeOK
  <2> HIDE DEF final, by
  <2> QED
    BY <2>1, <2>2, <2>3, <2>4, <2>5, <2>6, <2>7, WriteType, RememberType, ZenonT(60)
       DEF TypeOK
<1>2. ASSUME NEW asr \in AsrTokens, NEW blank \in BOOLEAN, RedirectFrame(asr, blank)
      PROVE  TypeOK'
  <2> DEFINE token == Head(queue)
  <2>1. token \in LLMTokens /\ queue' \in Seq(LLMTokens)
    <3>1. queue \in Seq(LLMTokens) /\ queue # <<>> /\ queue' = Tail(queue)
      BY <1>2 DEF RedirectFrame, TypeOK
    <3> QED
      BY <3>1, HeadTailProperties
  <2>2. Write(token, "redirect", asr) /\ Remember(token, FALSE, asr)
        /\ UNCHANGED <<opt, talking, textTokens>>
        /\ rnnt' = [RnntStep(blank) EXCEPT
                      !.agent_speaking = token = "bos" \/ (@ /\ token # "eos")]
    BY <1>2, Zenon DEF RedirectFrame
  <2>3. "redirect" \in Writers
    BY DEF Writers
  <2> HIDE DEF token
  <2>4. rnnt' \in RnntState
    <3>1. RnntStep(blank) \in RnntState
      BY RnntStepFacts DEF TypeOK
    <3> QED
      BY <2>2, <3>1, Zenon DEF RnntState
  <2> QED
    BY <2>1, <2>2, <2>3, <2>4, WriteType, RememberType, Zenon DEF TypeOK
<1>3. ASSUME NEW asr \in AsrTokens, NEW heard \in {"blank", "speech", "nothing"},
             SilencedFrame(asr, heard)
      PROVE  TypeOK'
  <2>1. "call" \in Writers /\ "pad" \in LLMTokens
    BY DEF Writers, LLMTokens
  <2>2. rnnt' \in RnntState
    BY <1>3, RnntStepFacts DEF SilencedFrame, TypeOK
  <2>3. called' \in BOOLEAN /\ forcedHere' \in BOOLEAN
    BY <1>3, Zenon DEF SilencedFrame, TypeOK
  <2>4. openFor' \in 0..OpenCap
    BY <1>3 DEF SilencedFrame, OpenCap
  <2>5. Write("pad", "call", asr) /\ UNCHANGED <<opt, caps>>
    BY <1>3, Zenon DEF SilencedFrame
  <2> QED
    BY <2>1, <2>2, <2>3, <2>4, <2>5, WriteType, Zenon DEF TypeOK, caps
<1>4. ASSUME NEW eos \in BOOLEAN, InterruptCall(eos) PROVE TypeOK'
  <2>1. queue' \in Seq(LLMTokens)
    BY <1>4, EmptySeq DEF InterruptCall
  <2>2. sinceEos' \in 0..Threshold + 1
    <3>1. sinceEos' \in {sinceEos, 1}
      BY <1>4 DEF InterruptCall
    <3>2. sinceEos \in 0..Threshold + 1
      BY DEF TypeOK
    <3>3. 1 \in 0..Threshold + 1
      OBVIOUS
    <3> QED
      BY <3>1, <3>2, <3>3
  <2>3. /\ opt' = opt /\ t' = t /\ sinceBos' = sinceBos /\ padRun' = padRun
        /\ afterWord' = afterWord /\ rnnt' = rnnt /\ talking' = talking
        /\ textTokens' = textTokens /\ idle' = idle /\ writtenBy' = writtenBy
        /\ called' = called /\ openFor' = openFor /\ forcedHere' = forcedHere
    BY <1>4 DEF InterruptCall
  <2> QED
    BY <2>1, <2>2, <2>3, Zenon DEF TypeOK
<1>5. ASSUME NEW prefilled \in BOOLEAN, NewStream(prefilled) PROVE TypeOK'
  <2>1. RnntInitState \in RnntState
    BY DEF RnntInitState, RnntState
  <2>2. "start" \in Writers
    BY DEF Writers
  <2>3. queue' \in Seq(LLMTokens)
    BY <1>5, EmptySeq DEF NewStream, TypeOK
  <2>4. 0 \in 0..Cap + 1 /\ 0 \in 0..Threshold + 1 /\ 0 \in 0..OpenCap
    BY DEF OpenCap
  <2> QED
    BY <1>5, <2>1, <2>2, <2>3, <2>4, ZeroIsCount, Zenon DEF NewStream, TypeOK
<1>6. CASE UNCHANGED vars
  BY <1>6 DEF vars, window, caps, TypeOK
<1> QED
  BY <1>1, <1>2, <1>3, <1>4, <1>5, <1>6, Zenon DEF Next
-----------------------------------------------------------------------------
(* The look back over the text and the flag of the synthesis.              *)

(* A BOS in the window with no EOS after it means an open turn, and, unless *)
(* a call interfered, an open turn has its BOS after the last EOS.          *)
Windows ==
  /\ (InWindow(sinceBos) /\ (sinceEos = 0 \/ sinceBos < sinceEos)) => ~idle
  /\ (~idle /\ ~called) => sinceBos > 0
  /\ (~idle /\ ~called) =>
       (sinceEos = 0 \/ sinceBos < sinceEos \/ sinceEos = Threshold + 1)

LEMMA Scalars ==
  ASSUME TypeOK
  PROVE  /\ sinceBos \in 0..Threshold + 1 /\ sinceEos \in 0..Threshold + 1
         /\ padRun \in 0..Cap + 1
         /\ idle \in BOOLEAN /\ called \in BOOLEAN /\ forcedHere \in BOOLEAN
         /\ rnnt \in RnntState
  BY DEF TypeOK

LEMMA WriteFacts ==
  ASSUME TypeOK, NEW token, NEW by, NEW asr, Write(token, by, asr)
  PROVE  /\ token = "bos" => sinceBos' = 1 /\ ~idle'
         /\ token # "bos" =>
              sinceBos' = IF sinceBos \in 1..Threshold THEN sinceBos + 1 ELSE sinceBos
         /\ token = "eos" => sinceEos' = 1 /\ idle'
         /\ token # "eos" =>
              sinceEos' = IF sinceEos \in 1..Threshold THEN sinceEos + 1 ELSE sinceEos
         /\ token \notin {"bos", "eos"} => idle' = idle
         /\ writtenBy' = by
         /\ padRun' = (IF asr = "pad"
                       THEN IF padRun = Cap + 1 THEN padRun ELSE padRun + 1 ELSE 0)
<1>1. ASSUME NEW d \in 0..Threshold + 1
      PROVE  /\ Later(d, TRUE) = 1
             /\ Later(d, FALSE) = IF d \in 1..Threshold THEN d + 1 ELSE d
  BY SMTT(40) DEF Later, Upto
<1>2. /\ sinceBos' = Later(sinceBos, token = "bos")
      /\ sinceEos' = Later(sinceEos, token = "eos")
      /\ idle' = (IF token = "bos" THEN FALSE ELSE IF token = "eos" THEN TRUE ELSE idle)
      /\ writtenBy' = by
  BY DEF Write
<1>3. /\ token = "bos" => sinceBos' = Later(sinceBos, TRUE)
      /\ token # "bos" => sinceBos' = Later(sinceBos, FALSE)
      /\ token = "eos" => sinceEos' = Later(sinceEos, TRUE)
      /\ token # "eos" => sinceEos' = Later(sinceEos, FALSE)
  BY <1>2
<1>4. /\ token = "bos" => ~idle'
      /\ token = "eos" => idle'
      /\ token \notin {"bos", "eos"} => idle' = idle
  BY <1>2
<1>5. padRun' = (IF asr = "pad"
                 THEN IF padRun = Cap + 1 THEN padRun ELSE padRun + 1 ELSE 0)
  <2>1. padRun' = (IF asr = "pad" THEN Upto(Cap + 1, padRun + 1) ELSE 0)
    BY DEF Write
  <2>2. padRun \in 0..Cap + 1
    BY Scalars
  <2>3. Upto(Cap + 1, padRun + 1) = IF padRun = Cap + 1 THEN padRun ELSE padRun + 1
    BY <2>2 DEF Upto
  <2> QED
    BY <2>1, <2>3
<1> QED
  BY <1>1, <1>2, <1>3, <1>4, <1>5, Scalars

LEMMA WindowsWrite ==
  ASSUME TypeOK, Windows, NEW token, NEW by, NEW asr, Write(token, by, asr),
         (~idle' /\ ~called') => (token = "bos" \/ (~idle /\ ~called))
  PROVE  Windows'
<1> USE DEF Windows, InWindow
<1>1. CASE token = "bos"
  <2>1. sinceBos' = 1 /\ ~idle'
    BY <1>1, WriteFacts
  <2>2. sinceEos' = IF sinceEos \in 1..Threshold THEN sinceEos + 1 ELSE sinceEos
    BY <1>1, WriteFacts
  <2>3. sinceEos \in 0..Threshold + 1
    BY Scalars
  <2>4. sinceEos' = 0 \/ 1 < sinceEos' \/ sinceEos' = Threshold + 1
    BY <2>2, <2>3
  <2> QED
    BY <2>1, <2>4
<1>2. CASE token = "eos"
  <2>1. sinceEos' = 1 /\ idle'
    BY <1>2, WriteFacts
  <2>2. sinceBos' = IF sinceBos \in 1..Threshold THEN sinceBos + 1 ELSE sinceBos
    BY <1>2, WriteFacts
  <2>3. sinceBos \in 0..Threshold + 1
    BY Scalars
  <2>4. ~(sinceBos' \in 1..Threshold /\ (1 = 0 \/ sinceBos' < 1))
    BY <2>2, <2>3
  <2> QED
    BY <2>1, <2>4
<1>3. CASE token \notin {"bos", "eos"}
  <2>1. idle' = idle /\ ((~idle' /\ ~called') => (~idle /\ ~called))
    BY <1>3, WriteFacts
  <2>2. /\ sinceBos' = IF sinceBos \in 1..Threshold THEN sinceBos + 1 ELSE sinceBos
        /\ sinceEos' = IF sinceEos \in 1..Threshold THEN sinceEos + 1 ELSE sinceEos
        /\ sinceBos \in 0..Threshold + 1 /\ sinceEos \in 0..Threshold + 1
    BY <1>3, WriteFacts, Scalars
  <2>3. (sinceBos' \in 1..Threshold /\ (sinceEos' = 0 \/ sinceBos' < sinceEos'))
          => (sinceBos \in 1..Threshold /\ (sinceEos = 0 \/ sinceBos < sinceEos))
    BY <2>2, SMTT(40)
  <2>4. (sinceBos > 0 => sinceBos' > 0)
        /\ ((sinceEos = 0 \/ sinceBos < sinceEos \/ sinceEos = Threshold + 1) =>
              (sinceEos' = 0 \/ sinceBos' < sinceEos' \/ sinceEos' = Threshold + 1))
    BY <2>2, SMTT(40)
  <2> QED
    BY <2>1, <2>3, <2>4, Zenon
<1> QED
  BY <1>1, <1>2, <1>3
-----------------------------------------------------------------------------
(* Who the driver takes to be speaking.                                    *)

Aware ==
  /\ DriverNotAhead
  /\ (~idle /\ ~called /\ opt.postEos = 0)
       => (rnnt.agent_speaking \/ sinceBos < sinceEos)
  /\ queue # <<>> => (idle \/ called \/ rnnt.agent_speaking)
  /\ writtenBy = "call" => (idle \/ called)

(* A due EOU finds the agent silent for a reason: nothing in the window.   *)
LEMMA EouFacts ==
  ASSUME TypeOK, NEW token \in LLMTokens, NEW h \in RnntState, Heard(h, token),
         EouDue(h)
  PROVE  /\ ~InWindow(sinceBos) /\ token # "bos"
         /\ ~InWindow(sinceEos) /\ token # "eos" /\ ~rnnt.agent_speaking
<1>1. EouNow >= 1 /\ h.blank_count >= EouNow /\ h.speech_confirmed
      /\ ~h.agent_speaking
  BY DEF EouDue, EouNow
<1>2. ~(InWindow(sinceEos) \/ token = "eos")
  <2>1. h.blank_count # 0
    BY <1>1 DEF EouNow
  <2> QED
    BY <1>1, <2>1, Zenon DEF Heard
<1> QED
  BY <1>1, <1>2, Zenon DEF Heard

LEMMA NotSuppressed ==
  ASSUME TypeOK, NEW token \in LLMTokens, NEW h \in RnntState, NEW rule \in Rules,
         Heard(h, token), Chosen(rule, h, token)
  PROVE  rule # "eou_suppressed"
  BY EouFacts DEF Chosen

(* How a frame of the main loop leaves the turn.                           *)
LEMMA FrameTurn ==
  ASSUME TypeOK, NEW token \in LLMTokens, NEW h \in RnntState, NEW rule \in Rules,
         NEW asr, Heard(h, token), Chosen(rule, h, token), Apply(rule, h, token, asr)
  PROVE  LET final == TokenOf(rule, token)
         IN /\ Write(final, writtenBy', asr)
            /\ called' <=> (called /\ final \notin {"bos", "eos"})
            /\ forcedHere' <=> (asr = "pad" /\ (forcedHere \/ OpensForcedTurn))
            /\ rule \in BosRules => (final = "bos" /\ rnnt'.agent_speaking)
            /\ rule \in EosRules => (final = "eos" /\ ~rnnt'.agent_speaking)
            /\ rule = "post_eos_pad" =>
                 (final = "pad" /\ ~rnnt'.agent_speaking
                    /\ ~rnnt'.speech_confirmed /\ opt.postEos > 0)
            /\ rule \notin BosRules \cup EosRules \cup {"post_eos_pad"} =>
                 (rule = "llm" /\ final = token /\ rnnt' = h)
            /\ writtenBy' = (IF rule = "llm" /\ OpensForcedTurn THEN "forced" ELSE rule)
            /\ queue' = QueueOf(rule)
<1> DEFINE final == TokenOf(rule, token)
<1>1. /\ Write(final, IF rule = "llm" /\ OpensForcedTurn THEN "forced" ELSE rule, asr)
      /\ rnnt' = StateOf(rule, h) /\ queue' = QueueOf(rule)
      /\ Remember(final, OpensForcedTurn, asr)
  BY Zenon DEF Apply
<1>2. writtenBy' = (IF rule = "llm" /\ OpensForcedTurn THEN "forced" ELSE rule)
  BY <1>1 DEF Write
<1>3. /\ called' <=> (called /\ final \notin {"bos", "eos"})
      /\ forcedHere' <=> (asr = "pad" /\ (forcedHere \/ OpensForcedTurn))
  BY <1>1, Zenon DEF Remember
<1>4. rule # "eou_suppressed"
  BY NotSuppressed
<1>5. rule = "post_eos_pad" => (~h.speech_confirmed /\ opt.postEos > 0)
  BY Zenon DEF Chosen, PostEosPads
<1>6. CASE rule \in BosRules
  BY <1>1, <1>2, <1>3, <1>6, TokenFacts, StateFacts DEF BosRules, EosRules
<1>7. CASE rule \in EosRules
  BY <1>1, <1>2, <1>3, <1>7, TokenFacts, StateFacts DEF BosRules, EosRules
<1>8. CASE rule = "post_eos_pad"
  BY <1>1, <1>2, <1>3, <1>5, <1>8, TokenFacts, StateFacts DEF BosRules, EosRules
<1>9. CASE rule = "llm"
  BY <1>1, <1>2, <1>3, <1>9, TokenFacts, StateFacts DEF BosRules, EosRules
<1> QED
  BY <1>4, <1>6, <1>7, <1>8, <1>9 DEF Rules
(* Before the user is answered for the first time only queued tokens, which *)
(* end in an EOS, hold a turn open.                                        *)
FirstTurn ==
  /\ queue # <<>> => queue[Len(queue)] = "eos"
  /\ (rnnt.first_turn /\ ~idle /\ ~called) => queue # <<>>

TurnInv == TypeOK /\ Windows /\ Aware /\ FirstTurn

LEMMA TurnFrame ==
  ASSUME TurnInv, NEW token \in LLMTokens, NEW h \in RnntState, NEW rule \in Rules,
         NEW asr, Heard(h, token), Chosen(rule, h, token),
         Apply(rule, h, token, asr), queue = <<>>, opt' = opt
  PROVE  Windows' /\ Aware' /\ FirstTurn'
<1> USE DEF TurnInv
<1> DEFINE final == TokenOf(rule, token)
<1>1. /\ Write(final, writtenBy', asr)
      /\ called' <=> (called /\ final \notin {"bos", "eos"})
      /\ rule \in BosRules => (final = "bos" /\ rnnt'.agent_speaking)
      /\ rule \in EosRules => (final = "eos" /\ ~rnnt'.agent_speaking)
      /\ rule = "post_eos_pad" =>
           (final = "pad" /\ ~rnnt'.agent_speaking /\ opt.postEos > 0)
      /\ rule \notin BosRules \cup EosRules \cup {"post_eos_pad"} =>
           (rule = "llm" /\ final = token /\ rnnt' = h)
      /\ queue' = QueueOf(rule)
  BY FrameTurn
<1> HIDE DEF final
<1>2. /\ final = "bos" => (sinceBos' = 1 /\ ~idle')
      /\ final # "bos" => sinceBos' = IF sinceBos \in 1..Threshold
                                      THEN sinceBos + 1 ELSE sinceBos
      /\ final = "eos" => idle'
      /\ final # "eos" => sinceEos' = IF sinceEos \in 1..Threshold
                                      THEN sinceEos + 1 ELSE sinceEos
      /\ final \notin {"bos", "eos"} => idle' = idle
  BY <1>1, WriteFacts
<1>3. (~idle' /\ ~called') => (final = "bos" \/ (~idle /\ ~called))
  BY <1>1, <1>2
<1>4. Windows'
  BY <1>1, <1>3, WindowsWrite
<1>5. sinceBos \in 0..Threshold + 1 /\ sinceEos \in 0..Threshold + 1
  BY Scalars
<1>6. rule = "llm" =>
        /\ h.agent_speaking => (token # "eos" /\ ~InWindow(sinceEos))
        /\ h.agent_speaking =>
             (rnnt.agent_speaking \/ InWindow(sinceBos) \/ token = "bos")
        /\ ~h.agent_speaking =>
             \/ token = "eos" \/ InWindow(sinceEos)
             \/ (~rnnt.agent_speaking /\ ~InWindow(sinceBos) /\ token # "bos")
  BY Zenon DEF Heard
<1>7. DriverNotAhead'
  <2> SUFFICES ASSUME rnnt'.agent_speaking PROVE ~idle'
    BY DEF DriverNotAhead
  <2>1. CASE final = "bos"
    BY <1>2, <2>1
  <2>2. CASE final # "bos"
    <3>1. rule = "llm" /\ final = token /\ h.agent_speaking
      BY <1>1, <2>2
    <3>2. token # "eos" /\ idle' = idle /\ ~InWindow(sinceEos)
            /\ (rnnt.agent_speaking \/ InWindow(sinceBos))
      BY <1>2, <1>6, <2>2, <3>1
    <3>3. CASE rnnt.agent_speaking
      BY <3>2, <3>3 DEF Aware, DriverNotAhead
    <3>4. CASE InWindow(sinceBos)
      <4>1. sinceEos = 0 \/ sinceBos < sinceEos
        BY <1>5, <3>2, <3>4, SMTT(40) DEF InWindow
      <4> QED
        BY <3>2, <3>4, <4>1 DEF Windows
    <3> QED
      BY <3>2, <3>3, <3>4
  <2> QED
    BY <2>1, <2>2
<1>8. (~idle' /\ ~called' /\ opt'.postEos = 0)
        => (rnnt'.agent_speaking \/ sinceBos' < sinceEos')
  <2> SUFFICES ASSUME ~idle', ~called', opt.postEos = 0, ~rnnt'.agent_speaking
               PROVE  sinceBos' < sinceEos'
    OBVIOUS
  <2>1. rule = "llm" /\ final = token /\ ~h.agent_speaking /\ token # "eos"
    BY <1>1, <1>2
  <2>2. CASE token = "bos"
    <3>1. InWindow(sinceEos)
      BY <1>6, <2>1, <2>2
    <3> QED
      BY <1>2, <1>5, <2>1, <2>2, <3>1 DEF InWindow
  <2>3. CASE token # "bos"
    <3>1. ~idle /\ ~called
      BY <1>3, <2>1, <2>3
    <3>2. sinceBos > 0
            /\ (sinceEos = 0 \/ sinceBos < sinceEos \/ sinceEos = Threshold + 1)
      BY <3>1 DEF Windows
    <3>3. rnnt.agent_speaking \/ sinceBos < sinceEos
      BY <3>1 DEF Aware
    <3>4. InWindow(sinceEos) \/ (~rnnt.agent_speaking /\ ~InWindow(sinceBos))
      BY <1>6, <2>1
    <3>5. InWindow(sinceEos)
      <4>1. CASE ~rnnt.agent_speaking /\ ~InWindow(sinceBos)
        BY <1>5, <3>2, <3>3, <4>1, SMTT(40) DEF InWindow
      <4> QED
        BY <3>4, <4>1
    <3> QED
      BY <1>2, <1>5, <2>1, <2>3, <3>2, <3>5, SMTT(40) DEF InWindow
  <2> QED
    BY <2>2, <2>3
<1>9. queue' # <<>> => (rule = "max_response" /\ queue' = Redirect)
  BY <1>1 DEF QueueOf
<1>10. queue' # <<>> => idle'
  BY <1>1, <1>2, <1>9 DEF EosRules
<1>11. queue' # <<>> => queue'[Len(queue')] = "eos"
  BY <1>9
<1>12. (rnnt'.first_turn /\ ~idle' /\ ~called') => queue' # <<>>
  <2> SUFFICES ASSUME rnnt'.first_turn, ~idle', ~called' PROVE FALSE
    OBVIOUS
  <2>1. rnnt' = StateOf(rule, h)
    BY Zenon DEF Apply
  <2>2. h.first_turn /\ rule \notin BosRules
    BY <2>1, StateFacts
  <2>3. rnnt.first_turn /\ token # "bos"
    BY <2>2, Zenon DEF Heard
  <2>4. final # "bos"
    BY <1>1, <2>2, <2>3
  <2> QED
    BY <1>3, <2>3, <2>4 DEF FirstTurn
<1>13. writtenBy' # "call"
  <2>1. writtenBy' = (IF rule = "llm" /\ OpensForcedTurn THEN "forced" ELSE rule)
    BY FrameTurn
  <2> QED
    BY <2>1 DEF Rules, BosRules, EosRules
<1> QED
  BY <1>4, <1>7, <1>8, <1>10, <1>11, <1>12, <1>13 DEF Aware, FirstTurn

(* Taking a token leaves the EOS at the end of the queue, or is that EOS.  *)
LEMMA LastIsEos ==
  ASSUME TypeOK, queue # <<>>, queue[Len(queue)] = "eos"
  PROVE  /\ Tail(queue) # <<>> => Tail(queue)[Len(Tail(queue))] = "eos"
         /\ Tail(queue) = <<>> => Head(queue) = "eos"
<1>1. queue \in Seq(LLMTokens)
  BY DEF TypeOK
<1>2. /\ Len(queue) \in Nat \ {0} /\ Tail(queue) \in Seq(LLMTokens)
      /\ Len(Tail(queue)) = Len(queue) - 1
      /\ \A i \in 1..Len(Tail(queue)) : Tail(queue)[i] = queue[i + 1]
  BY <1>1, HeadTailProperties, EmptySeq
<1>3. ASSUME Tail(queue) # <<>> PROVE Tail(queue)[Len(Tail(queue))] = "eos"
  <2>1. Len(Tail(queue)) \in Nat \ {0}
    BY <1>2, <1>3, EmptySeq
  <2>2. \A n \in Nat \ {0} : n \in 1..n
    OBVIOUS
  <2>3. Len(Tail(queue)) \in 1..Len(Tail(queue))
    BY <2>1, <2>2, Zenon
  <2> QED
    BY <1>2, <2>1, <2>3
<1>4. ASSUME Tail(queue) = <<>> PROVE Head(queue) = "eos"
  <2>1. Len(<<>>) = 0
    OBVIOUS
  <2>2. Len(Tail(queue)) = 0
    BY <1>4, <2>1, Zenon
  <2>3. \A n \in Nat \ {0} : \A m : m = n - 1 /\ m = 0 => n = 1
    OBVIOUS
  <2>4. Len(queue) = 1
    BY <1>2, <2>2, <2>3, Zenon
  <2>5. Head(queue) = queue[1]
    BY <1>1
  <2> QED
    BY <2>4, <2>5, Zenon
<1> QED
  BY <1>3, <1>4

LEMMA TurnRedirect ==
  ASSUME TurnInv, NEW asr, NEW blank \in BOOLEAN, RedirectFrame(asr, blank)
  PROVE  Windows' /\ Aware' /\ FirstTurn'
<1> USE DEF TurnInv
<1> DEFINE token == Head(queue)
<1>1. /\ queue # <<>> /\ queue' = Tail(queue) /\ opt' = opt
      /\ Write(token, "redirect", asr) /\ Remember(token, FALSE, asr)
      /\ rnnt' = [RnntStep(blank) EXCEPT
                    !.agent_speaking = token = "bos" \/ (@ /\ token # "eos")]
  BY Zenon DEF RedirectFrame
<1>2. called' <=> (called /\ token \notin {"bos", "eos"})
  BY <1>1, Zenon DEF Remember
<1>3. /\ rnnt'.agent_speaking <=> (token = "bos" \/ (rnnt.agent_speaking /\ token # "eos"))
      /\ rnnt'.first_turn = rnnt.first_turn
  <2>1. /\ RnntStep(blank) \in RnntState
        /\ RnntStep(blank).agent_speaking = rnnt.agent_speaking
        /\ RnntStep(blank).first_turn = rnnt.first_turn
    BY RnntStepFacts, Scalars
  <2>2. ASSUME NEW r \in RnntState, NEW x
        PROVE  /\ [r EXCEPT !.agent_speaking = x].agent_speaking = x
               /\ [r EXCEPT !.agent_speaking = x].first_turn = r.first_turn
    BY Zenon DEF RnntState
  <2> QED
    BY <1>1, <2>1, <2>2
<1>4. /\ queue' # <<>> => queue'[Len(queue')] = "eos"
      /\ queue' = <<>> => token = "eos"
  BY <1>1, LastIsEos DEF FirstTurn
<1>5. idle \/ called \/ rnnt.agent_speaking
  BY <1>1 DEF Aware
<1> HIDE DEF token
<1>6. /\ token = "bos" => ~idle'
      /\ token = "eos" => idle'
      /\ token \notin {"bos", "eos"} => idle' = idle
  BY <1>1, WriteFacts
<1>7. (~idle' /\ ~called') => (token = "bos" \/ (~idle /\ ~called))
  BY <1>2, <1>6
<1>8. Windows'
  BY <1>1, <1>7, WindowsWrite
<1>9. DriverNotAhead'
  BY <1>3, <1>6 DEF DriverNotAhead, Aware
<1>10. (~idle' /\ ~called') => rnnt'.agent_speaking
  BY <1>3, <1>5, <1>6, <1>7
<1>11. (~idle' /\ ~called') => queue' # <<>>
  BY <1>4, <1>6
<1>12. writtenBy' # "call"
  BY <1>1 DEF Write
<1> QED
  BY <1>4, <1>8, <1>9, <1>10, <1>11, <1>12 DEF Aware, FirstTurn

LEMMA TurnStep == TurnInv /\ [Next]_vars => TurnInv'
<1> SUFFICES ASSUME TurnInv, [Next]_vars PROVE Windows' /\ Aware' /\ FirstTurn'
  BY TypeStep DEF TurnInv
<1>1. ASSUME NEW llm \in LLMTokens, NEW asr \in AsrTokens, NEW blank \in BOOLEAN,
             NEW low \in BOOLEAN, Frame(llm, asr, blank, low)
      PROVE  Windows' /\ Aware' /\ FirstTurn'
  <2>1. PICK token \in LLMTokens, h \in RnntState, rule \in Rules :
          /\ Heard(h, token) /\ Chosen(rule, h, token)
          /\ Apply(rule, h, token, asr) /\ queue = <<>> /\ opt' = opt
    BY <1>1, FrameFacts DEF TurnInv, TypeOK
  <2> QED
    BY <2>1, TurnFrame
<1>2. ASSUME NEW asr \in AsrTokens, NEW blank \in BOOLEAN, RedirectFrame(asr, blank)
      PROVE  Windows' /\ Aware' /\ FirstTurn'
  BY <1>2, TurnRedirect
<1>3. ASSUME NEW asr \in AsrTokens, NEW heard \in {"blank", "speech", "nothing"},
             SilencedFrame(asr, heard)
      PROVE  Windows' /\ Aware' /\ FirstTurn'
  <2>1. /\ Write("pad", "call", asr)
        /\ called' <=> (called \/ ~idle)
        /\ opt' = opt /\ queue' = queue
    BY <1>3, Zenon DEF SilencedFrame, caps
  <2>2. rnnt'.agent_speaking = rnnt.agent_speaking
        /\ rnnt'.first_turn = rnnt.first_turn
    BY <1>3, RnntStepFacts DEF SilencedFrame, TurnInv, TypeOK
  <2>3. idle' = idle
    BY <2>1 DEF Write
  <2>4. ~(~idle' /\ ~called')
    BY <2>1, <2>3
  <2>5. Windows'
    <3>1. TypeOK /\ Windows
      BY DEF TurnInv
    <3> QED
      BY <2>1, <2>4, <3>1, WindowsWrite
  <2> QED
    BY <2>1, <2>2, <2>3, <2>4, <2>5
       DEF TurnInv, Aware, DriverNotAhead, FirstTurn
<1>4. ASSUME NEW eos \in BOOLEAN, InterruptCall(eos)
      PROVE  Windows' /\ Aware' /\ FirstTurn'
  <2>1. /\ writtenBy = "call" /\ queue' = <<>> /\ sinceEos' \in {sinceEos, 1}
        /\ opt' = opt /\ sinceBos' = sinceBos /\ rnnt' = rnnt /\ idle' = idle
        /\ called' = called /\ writtenBy' = writtenBy
    BY <1>4 DEF InterruptCall
  <2> QED
    BY <2>1, Scalars, SMTT(40) DEF TurnInv, Windows, Aware, DriverNotAhead, FirstTurn, InWindow
<1>5. ASSUME NEW prefilled \in BOOLEAN, NewStream(prefilled)
      PROVE  Windows' /\ Aware' /\ FirstTurn'
  <2>1. /\ sinceBos' = 0 /\ idle' /\ ~rnnt'.agent_speaking
        /\ queue' \in {queue, <<>>} /\ writtenBy' = "start"
    BY <1>5 DEF NewStream, RnntInitState
  <2> QED
    BY <2>1, SMTT(40) DEF TurnInv, Windows, Aware, DriverNotAhead, FirstTurn, InWindow
<1>6. CASE UNCHANGED vars
  BY <1>6 DEF vars, window, caps, TurnInv, Windows, Aware, DriverNotAhead,
              FirstTurn, InWindow
<1> QED
  BY <1>1, <1>2, <1>3, <1>4, <1>5, <1>6, Zenon DEF Next

LEMMA TurnInit == Init => TurnInv
<1> SUFFICES ASSUME Init PROVE TurnInv
  OBVIOUS
<1>1. 0 \in 0..Cap + 1 /\ 0 \in 0..Threshold + 1 /\ 0 \in 0..OpenCap
  BY SMTT(40) DEF OpenCap
<1>2. RnntInitState \in RnntState
  BY DEF RnntInitState, RnntState
<1>3. queue \in Seq(LLMTokens) /\ "start" \in Writers
  BY EmptySeq DEF Init, Writers
<1>4. TypeOK
  BY <1>1, <1>2, <1>3, ZeroIsCount, Zenon DEF Init, TypeOK
<1>5. Windows /\ Aware /\ FirstTurn
  BY DEF Init, Windows, InWindow, Aware, DriverNotAhead, FirstTurn, RnntInitState
<1> QED
  BY <1>4, <1>5 DEF TurnInv

LEMMA TurnInvariant == Spec => []TurnInv
  BY TurnInit, TurnStep, PTL DEF Spec

(* No counter passes its bound; in particular the driver ends a turn no    *)
(* later than its counter of talking frames reaches the maximal response.  *)
THEOREM TypeCorrect == Spec => []TypeOK
  BY TurnInvariant, PTL DEF TurnInv

(* The driver's record and the synthesis agree about an ended turn.        *)
THEOREM DriverFollowsTheText == Spec => []DriverNotAhead
<1>1. TurnInv => DriverNotAhead
  BY DEF TurnInv, Aware
<1> QED
  BY <1>1, TurnInvariant, PTL
-----------------------------------------------------------------------------
(* What each frame decides.                                                *)

(* The EOU branch for a BOS in the window is never taken, whatever the     *)
(* thresholds.                                                             *)
THEOREM EouIsNeverSuppressed == Spec => []EouNeverSuppressed
<1>1. Init => EouNeverSuppressed
  BY DEF Init, EouNeverSuppressed
<1>2. ASSUME TurnInv, EouNeverSuppressed, [Next]_vars PROVE EouNeverSuppressed'
  <2>1. ASSUME NEW llm \in LLMTokens, NEW asr \in AsrTokens, NEW blank \in BOOLEAN,
               NEW low \in BOOLEAN, Frame(llm, asr, blank, low)
        PROVE  writtenBy' # "eou_suppressed"
    <3>1. PICK token \in LLMTokens, h \in RnntState, rule \in Rules :
            Heard(h, token) /\ Chosen(rule, h, token) /\ Apply(rule, h, token, asr)
      BY <1>2, <2>1, FrameFacts, Zenon DEF TurnInv, TypeOK
    <3>2. rule # "eou_suppressed"
      BY <1>2, <3>1, NotSuppressed DEF TurnInv
    <3>3. writtenBy' = (IF rule = "llm" /\ OpensForcedTurn THEN "forced" ELSE rule)
      BY <1>2, <3>1, FrameTurn DEF TurnInv
    <3> QED
      BY <3>2, <3>3
  <2>2. CASE UNCHANGED vars
    BY <1>2, <2>2 DEF vars, EouNeverSuppressed
  <2> QED
    BY <1>2, <2>1, <2>2
       DEF EouNeverSuppressed, Next, RedirectFrame, SilencedFrame, Write,
           InterruptCall, NewStream
<1> QED
  BY <1>1, <1>2, TurnInvariant, PTL DEF Spec

(* When the rules leave a frame alone no answer is overdue, and the window *)
(* that decides is the one the next frame uses.                            *)
THEOREM AnswersInTime == Spec => []AnswerDue
<1>1. Init => AnswerDue
  BY DEF Init, AnswerDue
<1>2. ASSUME TurnInv, AnswerDue, [Next]_vars PROVE AnswerDue'
  <2>1. ASSUME NEW llm \in LLMTokens, NEW asr \in AsrTokens, NEW blank \in BOOLEAN,
               NEW low \in BOOLEAN, Frame(llm, asr, blank, low)
        PROVE  AnswerDue'
    <3>1. PICK token \in LLMTokens, h \in RnntState, rule \in Rules :
            Heard(h, token) /\ Chosen(rule, h, token) /\ Apply(rule, h, token, asr)
      BY <1>2, <2>1, FrameFacts, Zenon DEF TurnInv, TypeOK
    <3>2. /\ rule \in BosRules => rnnt'.agent_speaking
          /\ rule = "post_eos_pad" => ~rnnt'.speech_confirmed
          /\ rule \notin BosRules \cup EosRules \cup {"post_eos_pad"} =>
               (rule = "llm" /\ rnnt' = h)
          /\ writtenBy' = (IF rule = "llm" /\ OpensForcedTurn THEN "forced" ELSE rule)
      BY <1>2, <3>1, FrameTurn DEF TurnInv
    <3>3. ASSUME writtenBy' \notin EosRules, rnnt'.speech_confirmed,
                 ~rnnt'.agent_speaking
          PROVE  rnnt'.blank_count < EouNow'
      <4>1. rule = "llm" /\ rnnt' = h
        BY <3>2, <3>3 DEF EosRules
      <4>2. ~EouDue(h)
        BY <3>1, <4>1 DEF Chosen
      <4>3. rnnt'.user_first_turn = rnnt.user_first_turn
        BY <3>1, <4>1 DEF Heard
      <4>4. h.blank_count \in 0..Cap /\ EouNow \in Nat
        BY SMTT(40) DEF EouNow, RnntState
      <4>5. ~(h.blank_count >= EouNow)
        BY <3>3, <4>1, <4>2, Zenon DEF EouDue
      <4>6. EouNow' = EouNow
        BY <4>3 DEF EouNow
      <4> QED
        BY <4>1, <4>4, <4>5, <4>6, SMTT(40)
    <3> QED
      BY <3>3, Zenon DEF AnswerDue
  <2>2. CASE UNCHANGED vars
    BY <1>2, <2>2 DEF vars, AnswerDue, EouNow
  <2>3. ASSUME NEW eos, InterruptCall(eos) PROVE writtenBy' = "call"
    BY <2>3 DEF InterruptCall
  <2>4. writtenBy' \in {"start", "redirect", "call"} => AnswerDue'
    BY DEF AnswerDue
  <2> QED
    BY <1>2, <2>1, <2>2, <2>3, <2>4
       DEF Next, RedirectFrame, SilencedFrame, Write, NewStream
<1> QED
  BY <1>1, <1>2, TurnInvariant, PTL DEF Spec

(* EOU and the fallback of the first turn find no turn open.               *)
LEMMA IdleOpening ==
  ASSUME TurnInv, NEW token \in LLMTokens, NEW h \in RnntState,
         NEW rule \in {"eou", "fallback"}, Heard(h, token), Chosen(rule, h, token),
         queue = <<>>
  PROVE  idle \/ called \/ opt.postEos > 0
<1>1. CASE rule = "fallback"
  <2>1. rnnt.first_turn
    BY <1>1, Zenon DEF Chosen, FallbackDue, Heard
  <2> QED
    BY <2>1, Zenon DEF TurnInv, FirstTurn
<1>2. CASE rule = "eou"
  <2>1. EouDue(h)
    BY <1>2 DEF Chosen
  <2>2. ~InWindow(sinceBos) /\ ~InWindow(sinceEos) /\ ~rnnt.agent_speaking
    BY <2>1, EouFacts DEF TurnInv
  <2>3. opt.postEos \in Nat
    BY DEF TurnInv, TypeOK
  <2>4. sinceBos \in 0..Threshold + 1 /\ sinceEos \in 0..Threshold + 1
    BY Scalars DEF TurnInv
  <2>5. ASSUME ~idle, ~called, opt.postEos = 0 PROVE FALSE
    <3>1. sinceBos < sinceEos /\ sinceBos > 0
      BY <2>2, <2>5 DEF TurnInv, Aware, Windows
    <3> QED
      BY <2>2, <2>4, <3>1, SMTT(40) DEF InWindow
  <2> QED
    BY <2>3, <2>5
<1> QED
  BY <1>1, <1>2

(* EOU and the fallback of the first turn never open a turn inside another *)
(* one: the look back over the text is long enough for that.               *)
THEOREM OpensOnlyIdleTurns == Spec => EouOpensIdleTurn
<1>1. ASSUME TurnInv, [Next]_vars
      PROVE  [writtenBy' \in {"eou", "fallback"}
                => idle \/ called \/ opt.postEos > 0]_vars
  <2>1. ASSUME NEW llm \in LLMTokens, NEW asr \in AsrTokens, NEW blank \in BOOLEAN,
               NEW low \in BOOLEAN, Frame(llm, asr, blank, low),
               writtenBy' \in {"eou", "fallback"}
        PROVE  idle \/ called \/ opt.postEos > 0
    <3>1. PICK token \in LLMTokens, h \in RnntState, rule \in Rules :
            /\ Heard(h, token) /\ Chosen(rule, h, token)
            /\ Apply(rule, h, token, asr) /\ queue = <<>>
      BY <1>1, <2>1, FrameFacts, Zenon DEF TurnInv, TypeOK
    <3>2. writtenBy' = (IF rule = "llm" /\ OpensForcedTurn THEN "forced" ELSE rule)
      BY <1>1, <3>1, FrameTurn DEF TurnInv
    <3> QED
      BY <1>1, <2>1, <3>1, <3>2, IdleOpening
  <2>2. ASSUME NEW eos, InterruptCall(eos) PROVE writtenBy' = "call"
    BY <2>2 DEF InterruptCall
  <2> QED
    BY <1>1, <2>1, <2>2
       DEF Next, RedirectFrame, SilencedFrame, Write, NewStream
<1> QED
  BY <1>1, TurnInvariant, PTL DEF Spec, EouOpensIdleTurn

(* A barge-in is heard: the driver knows that the agent talks, and a run   *)
(* of Bou frames of speech has ended the turn.                             *)
THEOREM HearsBargeIn == Spec => BargeInHeard
<1>1. ASSUME TurnInv, [Next]_vars
      PROVE  [(~idle' /\ ~called' /\ ~InWindow(sinceEos) /\ opt.postEos = 0
                 /\ writtenBy' \notin BosRules \cup {"redirect", "call"})
               => rnnt'.agent_speaking /\ rnnt'.nonblank_consec < Bou]_vars
  <2>1. ASSUME NEW llm \in LLMTokens, NEW asr \in AsrTokens, NEW blank \in BOOLEAN,
               NEW low \in BOOLEAN, Frame(llm, asr, blank, low),
               ~idle', ~called', ~InWindow(sinceEos), opt.postEos = 0,
               writtenBy' \notin BosRules \cup {"redirect", "call"}
        PROVE  rnnt'.agent_speaking /\ rnnt'.nonblank_consec < Bou
    <3>1. PICK token \in LLMTokens, h \in RnntState, rule \in Rules :
            /\ Heard(h, token) /\ Chosen(rule, h, token)
            /\ Apply(rule, h, token, asr)
      BY <1>1, <2>1, FrameFacts, Zenon DEF TurnInv, TypeOK
    <3> DEFINE final == TokenOf(rule, token)
    <3>2. /\ Write(final, writtenBy', asr)
          /\ called' <=> (called /\ final \notin {"bos", "eos"})
          /\ rule \in EosRules => final = "eos"
          /\ rule = "post_eos_pad" => opt.postEos > 0
          /\ rule \notin BosRules \cup EosRules \cup {"post_eos_pad"} =>
               (rule = "llm" /\ final = token /\ rnnt' = h)
          /\ writtenBy' = (IF rule = "llm" /\ OpensForcedTurn THEN "forced" ELSE rule)
      BY <1>1, <3>1, FrameTurn DEF TurnInv
    <3> HIDE DEF final
    <3>3. /\ final = "eos" => idle'
          /\ final \notin {"bos", "eos"} => idle' = idle
      BY <1>1, <3>2, WriteFacts DEF TurnInv
    <3>4. rule \notin BosRules
      BY <2>1, <3>2 DEF BosRules
    <3>5. rule \notin EosRules /\ rule # "post_eos_pad"
      BY <2>1, <3>2, <3>3
    <3>6. rule = "llm" /\ final = token /\ rnnt' = h
      BY <3>2, <3>4, <3>5
    <3>7. token # "eos" /\ (token = "bos" \/ (~idle /\ ~called))
      BY <2>1, <3>2, <3>3, <3>6
    <3>8. ASSUME ~idle, ~called PROVE rnnt.agent_speaking \/ InWindow(sinceBos)
      <4>1. sinceBos \in 0..Threshold + 1 /\ sinceEos \in 0..Threshold + 1
        BY <1>1, Scalars DEF TurnInv
      <4>2. (rnnt.agent_speaking \/ sinceBos < sinceEos) /\ sinceBos > 0
        BY <1>1, <2>1, <3>8 DEF TurnInv, Aware, Windows
      <4> QED
        BY <4>1, <4>2, <2>1, SMTT(40) DEF InWindow
    <3>9. h.agent_speaking
      BY <2>1, <3>1, <3>7, <3>8, Zenon DEF Heard
    <3>10. ~(h.nonblank_consec >= Bou)
      BY <2>1, <3>1, <3>6, <3>7, <3>9, Zenon DEF Chosen, BargeInDue, Talks
    <3>11. h.nonblank_consec \in Nat
      BY DEF RnntState
    <3> QED
      BY <3>6, <3>9, <3>10, <3>11
  <2>2. ASSUME NEW eos, InterruptCall(eos) PROVE writtenBy' = "call"
    BY <2>2 DEF InterruptCall
  <2> QED
    BY <1>1, <2>1, <2>2
       DEF Next, RedirectFrame, SilencedFrame, Write, NewStream
<1> QED
  BY <1>1, TurnInvariant, PTL DEF Spec, BargeInHeard

-----------------------------------------------------------------------------
(* One forced turn for a pause.                                            *)

(* A pause that has been answered is past the length at which it would be  *)
(* answered again: the length only changes with the first BOS, which is    *)
(* the answer, and while that BOS is in the window nothing is forced.      *)
Pause ==
  forcedHere =>
    /\ sinceBos = 0 => padRun > PadWindowFirst
    /\ sinceBos > 0 => \/ padRun > PadWindow
                       \/ padRun >= PadWindowFirst + sinceBos

LEMMA PauseWrite ==
  ASSUME TypeOK, Pause, NEW token, NEW by, NEW asr, Write(token, by, asr),
         forcedHere' => (asr = "pad" /\ (forcedHere \/ OpensForcedTurn))
  PROVE  Pause'
<1> SUFFICES ASSUME forcedHere'
             PROVE  /\ sinceBos' = 0 => padRun' > PadWindowFirst
                    /\ sinceBos' > 0 => \/ padRun' > PadWindow
                                        \/ padRun' >= PadWindowFirst + sinceBos'
  BY DEF Pause
<1>1. sinceBos \in 0..Threshold + 1 /\ padRun \in 0..Cap + 1
  BY Scalars
<1>2. padRun' = IF padRun = Cap + 1 THEN padRun ELSE padRun + 1
  BY WriteFacts
<1>3. /\ token = "bos" => sinceBos' = 1
      /\ token # "bos" =>
           sinceBos' = IF sinceBos \in 1..Threshold THEN sinceBos + 1 ELSE sinceBos
  BY WriteFacts
<1>4. CASE forcedHere
  <2>1. /\ sinceBos = 0 => padRun > PadWindowFirst
        /\ sinceBos > 0 => \/ padRun > PadWindow
                           \/ padRun >= PadWindowFirst + sinceBos
    BY <1>4 DEF Pause
  <2>2. PadWindow \in 1..Cap /\ PadWindowFirst \in 1..Cap
    OBVIOUS
  <2>3. padRun > PadWindow => padRun' > PadWindow
    BY <1>1, <1>2, <2>2
  <2>4. CASE sinceBos = 0
    <3>1. padRun' > PadWindowFirst /\ padRun' >= PadWindowFirst + 1
      BY <1>1, <1>2, <2>1, <2>2, <2>4
    <3> QED
      BY <1>3, <2>4, <3>1
  <2>5. CASE sinceBos > 0 /\ padRun >= PadWindowFirst + sinceBos
    <3>1. padRun' = padRun + 1 \/ padRun' > PadWindow
      BY <1>1, <1>2, <2>2
    <3>2. sinceBos' \in 1..sinceBos + 1
      BY <1>1, <1>3, <2>5, SMTT(40)
    <3> QED
      BY <1>1, <2>2, <2>5, <3>1, <3>2, SMTT(40)
  <2>6. CASE sinceBos > 0 /\ padRun > PadWindow
    <3>1. sinceBos' > 0
      BY <1>1, <1>3, <2>6, SMTT(40)
    <3> QED
      BY <2>3, <2>6, <3>1
  <2> QED
    BY <1>1, <2>1, <2>4, <2>5, <2>6
<1>5. CASE OpensForcedTurn
  <2>1. /\ sinceBos = 0 => padRun = PadWindowFirst
        /\ sinceBos > 0 => padRun = PadWindow
        /\ sinceBos \notin 1..Threshold
    BY <1>1, <1>5 DEF OpensForcedTurn, PauseOver, PadWindowNow, InWindow
  <2>2. padRun' = padRun + 1
    BY <1>1, <1>2, <2>1, SMTT(40)
  <2> QED
    BY <1>1, <1>3, <2>1, <2>2, SMTT(40)
<1> QED
  BY <1>4, <1>5

LEMMA PauseStep == TypeOK /\ Pause /\ [Next]_vars => Pause'
<1> SUFFICES ASSUME TypeOK, Pause, [Next]_vars PROVE Pause'
  OBVIOUS
<1>1. ASSUME NEW llm \in LLMTokens, NEW asr \in AsrTokens, NEW blank \in BOOLEAN,
             NEW low \in BOOLEAN, Frame(llm, asr, blank, low)
      PROVE  Pause'
  <2>1. PICK token \in LLMTokens, h \in RnntState, rule \in Rules :
          Heard(h, token) /\ Chosen(rule, h, token) /\ Apply(rule, h, token, asr)
    BY <1>1, FrameFacts, Zenon DEF TypeOK
  <2>2. /\ Write(TokenOf(rule, token), writtenBy', asr)
        /\ forcedHere' <=> (asr = "pad" /\ (forcedHere \/ OpensForcedTurn))
    BY <2>1, FrameTurn
  <2> QED
    BY <2>2, PauseWrite
<1>2. ASSUME NEW asr \in AsrTokens, NEW blank \in BOOLEAN, RedirectFrame(asr, blank)
      PROVE  Pause'
  <2>1. /\ Write(Head(queue), "redirect", asr)
        /\ forcedHere' = (asr = "pad" /\ (forcedHere \/ FALSE))
    BY <1>2, Zenon DEF RedirectFrame, Remember
  <2> QED
    BY <2>1, PauseWrite
<1>3. ASSUME NEW asr \in AsrTokens, NEW heard, SilencedFrame(asr, heard)
      PROVE  Pause'
  <2>1. Write("pad", "call", asr) /\ forcedHere' = (asr = "pad" /\ forcedHere)
    BY <1>3, Zenon DEF SilencedFrame
  <2> QED
    BY <2>1, PauseWrite
<1>4. ASSUME NEW eos, InterruptCall(eos) PROVE Pause'
  BY <1>4 DEF InterruptCall, Pause
<1>5. ASSUME NEW prefilled, NewStream(prefilled) PROVE Pause'
  BY <1>5 DEF NewStream, Pause
<1>6. CASE UNCHANGED vars
  BY <1>6 DEF vars, window, Pause
<1> QED
  BY <1>1, <1>2, <1>3, <1>4, <1>5, <1>6, Zenon DEF Next

(* Forced turn taking answers a pause once, provided that its pause of the *)
(* first turn is not shorter than the later ones by more than the window.  *)
THEOREM ForcesOneTurnPerPause == Spec => OneForcedTurnPerPause
<1>1. Init => Pause
  BY DEF Init, Pause
<1>2. ASSUME TypeOK, Pause, [Next]_vars
      PROVE  [writtenBy' = "forced" => ~forcedHere]_vars
  <2>1. ASSUME NEW llm \in LLMTokens, NEW asr \in AsrTokens, NEW blank \in BOOLEAN,
               NEW low \in BOOLEAN, Frame(llm, asr, blank, low),
               writtenBy' = "forced", forcedHere
        PROVE  FALSE
    <3>1. PICK token \in LLMTokens, h \in RnntState, rule \in Rules :
            Heard(h, token) /\ Chosen(rule, h, token) /\ Apply(rule, h, token, asr)
      BY <1>2, <2>1, FrameFacts, Zenon DEF TypeOK
    <3>2. writtenBy' = (IF rule = "llm" /\ OpensForcedTurn THEN "forced" ELSE rule)
      BY <1>2, <3>1, FrameTurn
    <3>3. OpensForcedTurn
      BY <2>1, <3>2 DEF Rules, BosRules, EosRules
    <3>4. sinceBos \in 0..Threshold + 1 /\ padRun \in 0..Cap + 1
      BY <1>2, Scalars
    <3>5. /\ sinceBos = 0 => padRun = PadWindowFirst
          /\ sinceBos > 0 => padRun = PadWindow
          /\ sinceBos \notin 1..Threshold
      BY <3>3, <3>4 DEF OpensForcedTurn, PauseOver, PadWindowNow, InWindow
    <3>6. /\ sinceBos = 0 => padRun > PadWindowFirst
          /\ sinceBos > 0 => \/ padRun > PadWindow
                             \/ padRun >= PadWindowFirst + sinceBos
      BY <1>2, <2>1 DEF Pause
    <3> QED
      BY <3>4, <3>5, <3>6, WindowAssumption, SMTT(40)
  <2>2. ASSUME NEW eos, InterruptCall(eos) PROVE writtenBy' = writtenBy /\ writtenBy = "call"
    BY <2>2 DEF InterruptCall
  <2> QED
    BY <1>2, <2>1, <2>2
       DEF Next, RedirectFrame, SilencedFrame, Write, NewStream
<1>3. Spec => []Pause
  BY <1>1, PauseStep, TypeCorrect, PTL DEF Spec
<1> QED
  BY <1>2, <1>3, TypeCorrect, PTL DEF Spec, OneForcedTurnPerPause
-----------------------------------------------------------------------------
(* The maximal response.                                                   *)

HIDE TurnTakingAssumption

(* The cap needs the rule after a forced EOS switched off, because its     *)
(* PADs make the driver take an open turn for an ended one, and redirect   *)
(* tokens that are not themselves longer than the cap.                     *)
CapSettings ==
  \A o \in Options :
    o.maxResponse > 0 => o.postEos = 0 /\ Len(Redirect) <= Threshold + o.maxResponse

(* The frames of an open turn are those the counter has counted and those  *)
(* it has not: the frames in which the last turn's EOS was in the window,  *)
(* or, while redirect tokens are written, the tokens so far.               *)
OpenBound ==
  opt.maxResponse > 0 =>
    /\ talking < opt.maxResponse
    /\ idle \/ called \/ writtenBy = "call" => openFor = 0
    /\ queue # <<>> => openFor + Len(queue) <= Threshold + opt.maxResponse
    /\ queue = <<>> /\ InWindow(sinceEos) => openFor < sinceEos
    /\ queue = <<>> /\ ~InWindow(sinceEos) => openFor <= Threshold + talking

CapInv == TurnInv /\ OpenBound

LEMMA CapNumbers ==
  ASSUME TypeOK
  PROVE  /\ openFor \in Nat /\ talking \in Nat /\ Threshold \in Nat \ {0}
         /\ opt.maxResponse \in Nat /\ opt.postEos \in Nat
         /\ sinceEos \in 0..Threshold + 1 /\ sinceBos \in 0..Threshold + 1
         /\ queue \in Seq(LLMTokens) /\ Len(queue) \in Nat
<1>1. opt \in [maxResponse : 0..Cap, forceEos : 0..Cap, postEos : 0..Cap]
  BY TurnTakingAssumption DEF TypeOK
<1>2. queue \in Seq(LLMTokens) /\ Len(queue) \in Nat
  BY LenProperties DEF TypeOK
<1>3. Threshold \in Nat \ {0}
  BY TurnTakingAssumption
<1> QED
  BY <1>1, <1>2, <1>3 DEF TypeOK

(* A sum is above each of its parts.                                       *)
LEMMA SumAbove ==
  ASSUME NEW a \in Nat, NEW b \in Nat, NEW c \in Nat, c <= a
  PROVE  c <= a + b
  OBVIOUS

(* A frame adds at most itself to the open turn.                           *)
LEMMA RememberOpen ==
  ASSUME TypeOK, NEW token, NEW asr, NEW forced, Remember(token, forced, asr)
  PROVE  /\ openFor' \in Nat /\ openFor' <= openFor + 1
         /\ token = "eos" \/ called' => openFor' = 0
         /\ token # "bos" /\ idle => openFor' = 0
<1>1. openFor \in 0..OpenCap /\ OpenCap \in Nat
  <2>1. Threshold \in Nat /\ Cap \in Nat
    BY TurnTakingAssumption
  <2> QED
    BY <2>1, SMTT(40) DEF TypeOK, OpenCap
<1>2. /\ Upto(OpenCap, openFor + 1) \in Nat
      /\ Upto(OpenCap, openFor + 1) <= openFor + 1
  BY <1>1, SMTT(40) DEF Upto
<1>3. openFor' \in {0, Upto(OpenCap, openFor + 1)}
  BY Zenon DEF Remember
<1>4. /\ token = "eos" \/ called' => openFor' = 0
      /\ token # "bos" /\ idle => openFor' = 0
  BY Zenon DEF Remember
<1>5. 0 \in Nat /\ 0 <= openFor + 1
  BY <1>1
<1> QED
  BY <1>2, <1>3, <1>4, <1>5, Zenon

(* A frame that leaves the cap alone has not reached it.                   *)
LEMMA BelowCap ==
  ASSUME TypeOK, NEW h, NEW token, opt.maxResponse > 0, talking < opt.maxResponse,
         ~MaxResponseDue(h, token)
  PROVE  /\ TalkingNow(h, token) \in Nat /\ TalkingNow(h, token) < opt.maxResponse
         /\ Talks(h, token) => TalkingNow(h, token) = talking + 1
<1>1. opt.maxResponse \in Nat /\ talking \in Nat
  BY CapNumbers
<1>2. CASE Talks(h, token)
  <2>1. TalkingNow(h, token) = talking + 1
    BY <1>2 DEF TalkingNow
  <2>2. ~(TalkingNow(h, token) >= opt.maxResponse)
    BY <1>2 DEF MaxResponseDue
  <2> QED
    BY <1>1, <2>1, <2>2
<1>3. CASE ~Talks(h, token)
  <2>1. TalkingNow(h, token) \in {talking, 0}
    BY <1>3 DEF TalkingNow
  <2> QED
    BY <1>1, <1>3, <2>1
<1> QED
  BY <1>2, <1>3

LEMMA OpenFrame ==
  ASSUME CapSettings, CapInv, NEW token \in LLMTokens, NEW h \in RnntState,
         NEW rule \in Rules, NEW asr, Heard(h, token), Chosen(rule, h, token),
         Apply(rule, h, token, asr), queue = <<>>, opt' = opt
  PROVE  OpenBound'
<1> USE DEF CapInv, TurnInv
<1> DEFINE final == TokenOf(rule, token)
<1> SUFFICES ASSUME opt.maxResponse > 0
             PROVE  /\ talking' < opt.maxResponse
                    /\ idle' \/ called' \/ writtenBy' = "call" => openFor' = 0
                    /\ queue' # <<>> =>
                         openFor' + Len(queue') <= Threshold + opt.maxResponse
                    /\ queue' = <<>> /\ InWindow(sinceEos') => openFor' < sinceEos'
                    /\ queue' = <<>> /\ ~InWindow(sinceEos') =>
                         openFor' <= Threshold + talking'
  BY DEF OpenBound, InWindow
<1>1. /\ opt.postEos = 0 /\ Len(Redirect) <= Threshold + opt.maxResponse
      /\ Len(Redirect) \in Nat
  BY TurnTakingAssumption, LenProperties DEF CapSettings, TypeOK
<1>2. /\ openFor \in Nat /\ talking \in Nat /\ Threshold \in Nat \ {0}
      /\ opt.maxResponse \in Nat
      /\ sinceEos \in 0..Threshold + 1 /\ sinceBos \in 0..Threshold + 1
  BY CapNumbers
<1>3. /\ Write(final, writtenBy', asr)
      /\ called' <=> (called /\ final \notin {"bos", "eos"})
      /\ rule \in BosRules => final = "bos"
      /\ rule \in EosRules => final = "eos"
      /\ rule = "post_eos_pad" => opt.postEos > 0
      /\ rule \notin BosRules \cup EosRules \cup {"post_eos_pad"} =>
           (rule = "llm" /\ final = token /\ rnnt' = h)
      /\ writtenBy' = (IF rule = "llm" /\ OpensForcedTurn THEN "forced" ELSE rule)
      /\ queue' = QueueOf(rule)
  BY FrameTurn
<1>4. /\ talking' = CountersOf(rule, h, token)[1]
      /\ Remember(final, OpensForcedTurn, asr)
  BY Zenon DEF Apply
<1>5. /\ openFor' \in Nat /\ openFor' <= openFor + 1
      /\ final = "eos" \/ called' => openFor' = 0
      /\ final # "bos" /\ idle => openFor' = 0
  BY <1>4, RememberOpen
<1> HIDE DEF final
<1>6. /\ final = "bos" => ~idle'
      /\ final = "eos" => sinceEos' = 1
      /\ final # "eos" => sinceEos' = IF sinceEos \in 1..Threshold
                                      THEN sinceEos + 1 ELSE sinceEos
      /\ final \notin {"bos", "eos"} => idle' = idle
  BY <1>3, WriteFacts
<1>7. idle' \/ called' \/ writtenBy' = "call" => openFor' = 0
  <2>1. writtenBy' # "call"
    BY <1>3 DEF Rules, BosRules, EosRules
  <2> QED
    BY <1>5, <1>6, <2>1
<1>8. /\ talking < opt.maxResponse
      /\ InWindow(sinceEos) => openFor < sinceEos
      /\ ~InWindow(sinceEos) => openFor <= Threshold + talking
      /\ idle \/ called => openFor = 0
  BY DEF OpenBound
<1>9. rule \notin {"post_eos", "post_eos_pad"}
  BY <1>1, <1>2, <1>3 DEF Chosen
<1>10. CASE rule \in EosRules
  <2>1. openFor' = 0 /\ sinceEos' = 1
    BY <1>3, <1>5, <1>6, <1>10
  <2>2. talking' \in Nat /\ talking' < opt.maxResponse
    <3>1. rule = "barge_in" => talking' = TalkingNow(h, token) /\ ~MaxResponseDue(h, token)
      BY <1>4 DEF CountersOf, Chosen
    <3>2. rule # "barge_in" => talking' \in {0, talking}
      BY <1>4, <1>10 DEF CountersOf, EosRules
    <3> QED
      BY <1>2, <1>8, <3>1, <3>2, BelowCap
  <2>3. queue' \in {<<>>, Redirect}
    BY <1>3 DEF QueueOf
  <2>4. queue' # <<>> => openFor' + Len(queue') <= Threshold + opt.maxResponse
    BY <1>1, <1>2, <2>1, <2>3
  <2>5. openFor' < sinceEos'
    BY <2>1
  <2>6. openFor' <= Threshold + talking'
    <3>1. /\ Threshold \in Nat /\ talking' \in Nat /\ openFor' \in Nat
          /\ openFor' <= Threshold
      BY <1>2, <2>1, <2>2
    <3> QED
      BY <3>1, SumAbove, Zenon
  <2> QED
    BY <1>7, <2>2, <2>4, <2>5, <2>6
<1>11. CASE rule \in BosRules
  <2>1. openFor = 0
    BY <1>1, <1>8, <1>9, <1>11, IdleOpening DEF BosRules
  <2>2. openFor' \in Nat /\ openFor' <= 1
    BY <1>5, <2>1
  <2>3. talking' = talking /\ queue' = <<>>
    BY <1>3, <1>4, <1>11 DEF CountersOf, QueueOf, BosRules
  <2>4. sinceEos' = IF sinceEos \in 1..Threshold THEN sinceEos + 1 ELSE sinceEos
    BY <1>3, <1>6, <1>11
  <2>5. InWindow(sinceEos') => openFor' < sinceEos'
    BY <1>2, <2>2, <2>4, SMTT(40) DEF InWindow
  <2>6. openFor' <= Threshold + talking'
    BY <1>2, <2>2, <2>3
  <2> QED
    BY <1>7, <1>8, <2>3, <2>5, <2>6
<1>12. CASE rule = "llm"
  <2>1. /\ talking' = TalkingNow(h, token) /\ queue' = <<>> /\ final = token
        /\ ~MaxResponseDue(h, token)
    BY <1>3, <1>4, <1>12 DEF CountersOf, QueueOf, Chosen, BosRules, EosRules
  <2>2. /\ talking' \in Nat /\ talking' < opt.maxResponse
        /\ Talks(h, token) => talking' = talking + 1
    BY <1>8, <2>1, BelowCap
  <2>3. sinceEos' \in 0..Threshold + 1
    BY <1>2, <1>6, SMTT(40)
  <2>4. CASE openFor' = 0
    BY <1>2, <1>7, <2>1, <2>2, <2>3, <2>4 DEF InWindow
  <2>5. CASE openFor' # 0 /\ InWindow(sinceEos)
    <3>1. sinceEos' = sinceEos + 1 /\ openFor' < sinceEos' /\ openFor' <= Threshold
      BY <1>2, <1>5, <1>6, <1>8, <2>5, SMTT(40) DEF InWindow
    <3>2. openFor' <= Threshold + talking'
      <4>1. /\ Threshold \in Nat /\ talking' \in Nat /\ openFor' \in Nat
            /\ openFor' <= Threshold
        BY <1>2, <1>5, <2>2, <3>1
      <4> QED
        BY <4>1, SumAbove, Zenon
    <3> QED
      BY <1>7, <2>1, <2>2, <3>1, <3>2
  <2>6. CASE openFor' # 0 /\ ~InWindow(sinceEos)
    <3>1. sinceEos' = sinceEos /\ ~InWindow(sinceEos') /\ token # "eos" /\ ~called'
      BY <1>5, <1>6, <2>1, <2>6 DEF InWindow
    <3>2. CASE idle \/ called
      <4>1. openFor' <= 1
        BY <1>5, <1>8, <3>2
      <4> QED
        BY <1>2, <1>5, <1>7, <2>1, <2>2, <3>1, <4>1
    <3>3. CASE ~idle /\ ~called
      <4>1. rnnt.agent_speaking \/ InWindow(sinceBos)
        <5>1. (rnnt.agent_speaking \/ sinceBos < sinceEos) /\ sinceBos > 0
          BY <1>1, <3>3 DEF Aware, Windows
        <5> QED
          BY <1>2, <2>6, <5>1, SMTT(40) DEF InWindow
      <4>2. Talks(h, token)
        BY <2>6, <3>1, <4>1, Zenon DEF Heard, Talks
      <4>3. openFor' <= Threshold + talking'
        BY <1>2, <1>5, <1>8, <2>2, <2>6, <4>2, SMTT(40)
      <4> QED
        BY <1>7, <2>1, <2>2, <3>1, <4>3
    <3> QED
      BY <3>2, <3>3
  <2> QED
    BY <2>4, <2>5, <2>6
<1> QED
  BY <1>3, <1>9, <1>10, <1>11, <1>12

(* A token taken off the queue makes room for one more frame.              *)
LEMMA OneLess ==
  ASSUME NEW k \in Nat, NEW m \in Nat, NEW n \in Nat, NEW next \in Nat,
         next <= k + 1, k + n <= m
  PROVE  next + (n - 1) <= m
  OBVIOUS

LEMMA OpenStep ==
  ASSUME CapSettings, CapInv, [Next]_vars PROVE CapInv'
<1> SUFFICES OpenBound'
  BY TurnStep DEF CapInv
<1> USE DEF CapInv, TurnInv
<1>0. /\ openFor \in Nat /\ talking \in Nat /\ Threshold \in Nat \ {0}
      /\ opt.maxResponse \in Nat
      /\ sinceEos \in 0..Threshold + 1 /\ sinceBos \in 0..Threshold + 1
      /\ queue \in Seq(LLMTokens) /\ Len(queue) \in Nat
  BY CapNumbers
<1>1. ASSUME NEW llm \in LLMTokens, NEW asr \in AsrTokens, NEW blank \in BOOLEAN,
             NEW low \in BOOLEAN, Frame(llm, asr, blank, low)
      PROVE  OpenBound'
  <2>1. PICK token \in LLMTokens, h \in RnntState, rule \in Rules :
          /\ Heard(h, token) /\ Chosen(rule, h, token)
          /\ Apply(rule, h, token, asr) /\ queue = <<>> /\ opt' = opt
    BY <1>1, FrameFacts DEF TypeOK
  <2> QED
    BY <2>1, OpenFrame
<1>2. ASSUME NEW asr \in AsrTokens, NEW blank \in BOOLEAN, RedirectFrame(asr, blank)
      PROVE  OpenBound'
  <2> DEFINE token == Head(queue)
  <2>1. /\ queue # <<>> /\ queue' = Tail(queue) /\ opt' = opt /\ talking' = talking
        /\ Write(token, "redirect", asr) /\ Remember(token, FALSE, asr)
    BY <1>2, Zenon DEF RedirectFrame
  <2>2. /\ openFor' \in Nat /\ openFor' <= openFor + 1
        /\ token = "eos" \/ called' => openFor' = 0
        /\ token # "bos" /\ idle => openFor' = 0
    BY <2>1, RememberOpen
  <2>3. queue' = <<>> => token = "eos"
    BY <2>1, LastIsEos DEF FirstTurn
  <2>4. Len(queue') = Len(queue) - 1
    BY <1>0, <2>1, HeadTailProperties
  <2> HIDE DEF token
  <2>5. /\ token = "bos" => ~idle'
        /\ token = "eos" => sinceEos' = 1
        /\ token \notin {"bos", "eos"} => idle' = idle
        /\ writtenBy' = "redirect"
    BY <2>1, WriteFacts
  <2>6. idle' \/ called' \/ writtenBy' = "call" => openFor' = 0
    BY <2>2, <2>5
  <2>7. opt.maxResponse > 0 =>
          /\ talking < opt.maxResponse
          /\ openFor + Len(queue) <= Threshold + opt.maxResponse
    BY <2>1 DEF OpenBound
  <2>8. opt.maxResponse > 0 =>
          openFor' + Len(queue') <= Threshold + opt.maxResponse
    <3>1. Threshold + opt.maxResponse \in Nat
      BY <1>0
    <3> QED
      BY <1>0, <2>2, <2>4, <2>7, <3>1, OneLess
  <2>9. queue' = <<>> => openFor' = 0 /\ sinceEos' = 1
    BY <2>2, <2>3, <2>5
  <2>10. InWindow(1) /\ 0 < 1
    BY <1>0 DEF InWindow
  <2> QED
    BY <2>1, <2>6, <2>7, <2>8, <2>9, <2>10 DEF OpenBound, InWindow
<1>3. ASSUME NEW asr \in AsrTokens, NEW heard \in {"blank", "speech", "nothing"},
             SilencedFrame(asr, heard)
      PROVE  OpenBound'
  <2>1. /\ Write("pad", "call", asr) /\ openFor' = 0
        /\ opt' = opt /\ queue' = queue /\ talking' = talking
    BY <1>3, Zenon DEF SilencedFrame, caps
  <2>2. sinceEos' = IF sinceEos \in 1..Threshold THEN sinceEos + 1 ELSE sinceEos
    BY <2>1, WriteFacts
  <2>3. InWindow(sinceEos') => 0 < sinceEos'
    BY <1>0, <2>2 DEF InWindow
  <2>4. opt.maxResponse > 0 =>
          /\ talking < opt.maxResponse
          /\ queue # <<>> => Len(queue) <= Threshold + opt.maxResponse
    BY <1>0 DEF OpenBound
  <2> QED
    BY <1>0, <2>1, <2>3, <2>4 DEF OpenBound, InWindow
<1>4. ASSUME NEW eos \in BOOLEAN, InterruptCall(eos) PROVE OpenBound'
  <2>1. /\ writtenBy = "call" /\ queue' = <<>> /\ sinceEos' \in {sinceEos, 1}
        /\ opt' = opt /\ openFor' = openFor /\ talking' = talking
    BY <1>4 DEF InterruptCall
  <2>2. opt.maxResponse > 0 => openFor = 0 /\ talking < opt.maxResponse
    BY <2>1 DEF OpenBound
  <2>3. InWindow(sinceEos') => 0 < sinceEos'
    BY <1>0, <2>1 DEF InWindow
  <2> QED
    BY <1>0, <2>1, <2>2, <2>3 DEF OpenBound, InWindow
<1>5. ASSUME NEW prefilled \in BOOLEAN, NewStream(prefilled) PROVE OpenBound'
  <2>1. /\ openFor' = 0 /\ talking' = 0 /\ sinceEos' = 0 /\ opt' = opt
        /\ queue' \in {queue, <<>>}
    BY <1>5 DEF NewStream
  <2>2. opt.maxResponse > 0 /\ queue # <<>> => Len(queue) <= Threshold + opt.maxResponse
    BY <1>0 DEF OpenBound
  <2> QED
    BY <1>0, <2>1, <2>2 DEF OpenBound, InWindow
<1>6. CASE UNCHANGED vars
  BY <1>6 DEF vars, window, caps, OpenBound, InWindow
<1> QED
  BY <1>1, <1>2, <1>3, <1>4, <1>5, <1>6, Zenon DEF Next

(* A turn without a call ends after the maximal response and the window,   *)
(* also when it is opened while the last turn's EOS is still in sight, so  *)
(* that the driver does not see it and does not count.                     *)
THEOREM LimitsResponses ==
  ASSUME CapSettings
  PROVE  Spec => []MaxResponseKept
<1>1. Init => CapInv
  <2> SUFFICES ASSUME Init PROVE OpenBound
    BY TurnInit DEF CapInv
  <2>1. TypeOK
    BY TurnInit DEF TurnInv
  <2> QED
    BY <2>1, CapNumbers DEF Init, OpenBound, InWindow
<1>2. CapInv /\ [Next]_vars => CapInv'
  BY OpenStep
<1>3. CapInv => MaxResponseKept
  <2> SUFFICES ASSUME CapInv, opt.maxResponse > 0
               PROVE  openFor <= Threshold + opt.maxResponse
    BY DEF MaxResponseKept
  <2>1. /\ openFor \in Nat /\ talking \in Nat /\ Threshold \in Nat
        /\ opt.maxResponse \in Nat /\ sinceEos \in 0..Threshold + 1
        /\ Len(queue) \in Nat
    BY CapNumbers DEF CapInv, TurnInv
  <2> QED
    BY <2>1, SMTT(40) DEF CapInv, OpenBound, InWindow
<1> QED
  BY <1>1, <1>2, <1>3, PTL DEF Spec
=============================================================================
