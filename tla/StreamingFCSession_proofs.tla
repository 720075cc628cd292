----------------------- MODULE StreamingFCSession_proofs -----------------------
(***************************************************************************)
(* Proofs about StreamingFCSession, for every prompt, horizon, budget,     *)
(* frame size, tick and response length.                                   *)
(*                                                                         *)
(* The invariants the runs check are not inductive: why a stalled tick     *)
(* returns no lost turn_ended, or why the budget holds although it ignores *)
(* the queue, depends on where a call is.  Stall says it: while a call is  *)
(* unanswered it is the only one, nothing is queued and no call is open.   *)
(***************************************************************************)
EXTENDS StreamingFCSession, SequenceTheorems, FiniteSetTheorems, TLAPS

(* Before start() nothing has happened.                                    *)
Fresh ==
  pc = "new" =>
    /\ tLm = 0 /\ tAudio = 0 /\ residual = 0 /\ pushed = 0
    /\ injectQueue = <<>> /\ ~inCall /\ ~awaiting /\ ~turnEnded
    /\ callCounter = 0

(* push_audio()'s loop never asks for more frames than are buffered.       *)
FramesBuffered == framesLeft * SamplesPerFrame <= residual

(* Audio starts only after the queue is drained or the horizon is spent.   *)
Drained == pc = "frames" => (injectQueue = <<>> \/ ~CanStep(1))

(* The part that holds with and without the stall.                         *)
Base ==
  TypeOK /\ Fresh /\ FutureIsPad /\ FramesBuffered /\ AudioConserved /\ Drained

(* Where the call is, when the session stalls on it.                       *)
Stall ==
  /\ awaiting => /\ callCounter >= 1
                 /\ answered = 1 .. callCounter - 1
                 /\ \/ pendingCalls = <<callCounter>> /\ open = {} /\ pc = "frames"
                    \/ pendingCalls = <<>> /\ open = {callCounter}
                 /\ injectQueue = <<>> /\ ~inCall /\ framesLeft = 0
  /\ ~awaiting => answered = 1 .. callCounter /\ pendingCalls = <<>> /\ open = {}
  /\ inCall => injectQueue = <<>>
  /\ pc = "drain" /\ awaiting => ~turnEnded

IInv == Base /\ Stall /\ FcBudget /\ TurnEndReported

-----------------------------------------------------------------------------
(* Arithmetic and sequence facts the steps rest on.                        *)

(* The timeline is a natural number of positions, longer than the prompt.  *)
LEMMA TimelineNat == T \in Nat /\ PromptLen \in Nat /\ T >= PromptLen /\ T > 0
  BY SessionAssumption DEF T, Horizon

(* The whole frames in the buffer take no more samples than it holds.      *)
LEMMA WholeFramesFit ==
  ASSUME NEW r \in Nat
  PROVE  WholeFrames(r) \in Nat /\ WholeFrames(r) * SamplesPerFrame <= r
  BY SessionAssumption DEF WholeFrames

(* Taking one of n whole frames leaves room for the other n - 1.           *)
LEMMA TakeFrame ==
  ASSUME NEW n \in Nat, NEW r \in Nat, n > 0, n * SamplesPerFrame <= r
  PROVE  /\ r - SamplesPerFrame \in Nat
         /\ (n - 1) * SamplesPerFrame <= r - SamplesPerFrame
<1>1. SamplesPerFrame \in Nat /\ SamplesPerFrame > 0
  BY SessionAssumption
<1>2. n * SamplesPerFrame = (n - 1) * SamplesPerFrame + SamplesPerFrame
  BY <1>1
<1>3. (n - 1) * SamplesPerFrame >= 0
  BY <1>1
<1>. QED BY <1>1, <1>2, <1>3

(* Truncating keeps a response a response, and within the budget left.     *)
LEMMA TruncateFits ==
  ASSUME NEW ids \in Seq(Injected), Budget \in Int
  PROVE  /\ Truncate(ids) \in Seq(Injected)
         /\ Len(Truncate(ids)) <= (IF Budget > 0 THEN Budget ELSE 0)
<1>1. CASE Len(ids) > Budget /\ Budget > 0
  BY <1>1 DEF Truncate
<1>2. CASE Len(ids) > Budget /\ ~(Budget > 0)
  BY <1>2 DEF Truncate
<1>3. CASE ~(Len(ids) > Budget)
  BY <1>3 DEF Truncate
<1>. QED BY <1>1, <1>2, <1>3

(* A tokenised result is a sequence of injected tokens.                    *)
LEMMA ResponseTokensType ==
  ASSUME NEW len \in ResponseLens
  PROVE  ResponseTokens(len) \in Seq(Injected)
<1>1. len \in Nat
  BY SessionAssumption
<1>2. len + (IF ForceEotr THEN 1 ELSE 0) \in Nat
  BY <1>1
<1>. QED BY <1>2 DEF ResponseTokens, Injected

-----------------------------------------------------------------------------
(* Type correctness, and the audio that is never lost.                     *)

LEMMA BaseInit == Init => Base
<1>. SUFFICES ASSUME Init PROVE Base
  OBVIOUS
<1>1. TypeOK
  <2>1. \A S : <<>> \in Seq(S)
    BY EmptySeq
  <2>2. genFunction \in [Positions -> ModelFunction \cup Injected]
    BY DEF Init, ModelFunction
  <2>3. /\ injectQueue \in Seq(Injected) /\ pendingCalls \in Seq(1 .. callCounter)
        /\ injectedSpans \in Seq((0 .. T) \X (0 .. T))
    BY <2>1 DEF Init
  <2>4. /\ tLm \in 0 .. T /\ spanStart \in 0 .. T
        /\ tAudio \in Nat /\ residual \in Nat /\ pushed \in Nat /\ callCounter \in Nat
        /\ textIds \in Nat /\ emitted \in Nat /\ framesLeft \in Nat
    BY TimelineNat DEF Init
  <2>5. /\ pc \in {"new", "idle", "drain", "frames"}
        /\ finished \in BOOLEAN /\ turnEnded \in BOOLEAN
        /\ inCall \in BOOLEAN /\ awaiting \in BOOLEAN
        /\ open \subseteq 1 .. callCounter /\ answered \subseteq 1 .. callCounter
        /\ audioAt \subseteq Positions
    BY DEF Init
  <2>. QED BY <2>2, <2>3, <2>4, <2>5 DEF TypeOK
<1>2. SamplesPerFrame * 0 = 0 /\ 0 * SamplesPerFrame = 0
  BY SessionAssumption
<1>3. Fresh /\ FutureIsPad
  BY DEF Init, Fresh, FutureIsPad
<1>4. FramesBuffered /\ AudioConserved
  BY <1>2 DEF Init, FramesBuffered, AudioConserved
<1>5. Drained
  BY DEF Init, Drained
<1>. QED BY <1>1, <1>3, <1>4, <1>5 DEF Base

(* Writing the next position keeps the channel typed and its future PAD.   *)
LEMMA StepType ==
  ASSUME TypeOK, FutureIsPad, CanStep(1), NEW slot \in Injected \cup ModelFunction,
         NEW f \in ModelFunction, StepInference(slot, f)
  PROVE  /\ tLm' \in 0 .. T /\ tLm' = tLm + 1 /\ tLm \in Positions
         /\ genFunction' \in [Positions -> ModelFunction \cup Injected]
         /\ FutureIsPad'
BY TimelineNat DEF TypeOK, FutureIsPad, CanStep, StepInference, Positions

(* What either return of push_audio() hands over is typed.                 *)
LEMMA TakenType ==
  ASSUME TypeOK, TakeCallsAndText
  PROVE  /\ pendingCalls' \in Seq(1 .. callCounter)
         /\ open' \subseteq 1 .. callCounter
         /\ emitted' \in Nat
<1>1. {pendingCalls[i] : i \in 1 .. Len(pendingCalls)} \subseteq 1 .. callCounter
  BY ElementOfSeq DEF TypeOK
<1>2. pendingCalls' \in Seq(1 .. callCounter)
  BY EmptySeq DEF TakeCallsAndText
<1>. QED BY <1>1, <1>2 DEF TakeCallsAndText, TypeOK

(* Reading back the function channel keeps the calls typed.                *)
LEMMA ObserveType ==
  ASSUME TypeOK, NEW g, ObserveFunction(g)
  PROVE  /\ inCall' \in BOOLEAN /\ awaiting' \in BOOLEAN
         /\ callCounter' \in Nat /\ callCounter <= callCounter'
         /\ pendingCalls' \in Seq(1 .. callCounter')
<1>1. CASE CloseCall /\ inCall' = FALSE
  <2>1. callCounter' = callCounter + 1 /\ callCounter \in Nat
    BY <1>1 DEF CloseCall, TypeOK
  <2>2. pendingCalls \in Seq(1 .. callCounter + 1)
    <3>1. 1 .. callCounter \subseteq 1 .. callCounter + 1
      BY <2>1
    <3>. QED BY <3>1, SeqMonotonic DEF TypeOK
  <2>3. Append(pendingCalls, callCounter + 1) \in Seq(1 .. callCounter + 1)
    BY <2>1, <2>2, AppendProperties
  <2>4. pendingCalls' \in Seq(1 .. callCounter')
    BY <1>1, <2>1, <2>3 DEF CloseCall
  <2>5. callCounter' \in Nat /\ callCounter <= callCounter'
    BY <2>1
  <2>6. inCall' \in BOOLEAN /\ awaiting' \in BOOLEAN
    BY <1>1 DEF CloseCall
  <2>. QED BY <2>4, <2>5, <2>6
<1>2. CASE /\ inCall' = TRUE \/ inCall' = inCall
           /\ awaiting' = awaiting /\ pendingCalls' = pendingCalls
           /\ callCounter' = callCounter
  <2>1. inCall \in BOOLEAN /\ awaiting \in BOOLEAN /\ callCounter \in Nat
    BY DEF TypeOK
  <2>2. pendingCalls' \in Seq(1 .. callCounter')
    BY <1>2 DEF TypeOK
  <2>3. inCall' \in BOOLEAN
    BY <1>2, <2>1
  <2>4. callCounter' \in Nat /\ callCounter <= callCounter'
    BY <1>2, <2>1
  <2>5. awaiting' \in BOOLEAN
    BY <1>2, <2>1
  <2>. QED BY <2>2, <2>3, <2>4, <2>5
<1>3. \/ CloseCall /\ inCall' = FALSE
      \/ /\ inCall' = TRUE \/ inCall' = inCall
         /\ awaiting' = awaiting /\ pendingCalls' = pendingCalls
         /\ callCounter' = callCounter
  BY Zenon DEF ObserveFunction, calls
<1>. QED BY <1>1, <1>2, <1>3, Zenon

LEMMA BaseStep == Base /\ [Next]_vars => Base'
<1>. SUFFICES ASSUME Base, [Next]_vars PROVE Base'
  OBVIOUS
<1>. USE TimelineNat DEF Base
<1>0. SamplesPerFrame \in Nat /\ SamplesPerFrame > 0 /\ TickSizes \subseteq Nat
  BY SessionAssumption
<1>1. CASE Start
  BY <1>1 DEF Start, TypeOK, Fresh, FutureIsPad, FramesBuffered, AudioConserved,
              Drained, Positions, text, calls, client
<1>2. ASSUME NEW s \in TickSizes, PushAudio(s) PROVE Base'
  <2>1. s \in Nat
    BY <1>0
  <2>2. TypeOK'
    BY <1>2, <2>1 DEF PushAudio, TypeOK, clocks, text, calls, client
  <2>3. Fresh' /\ FutureIsPad' /\ Drained'
    BY <1>2 DEF PushAudio, Fresh, FutureIsPad, Drained, clocks, text, calls, client
  <2>4. FramesBuffered'
    <3>1. framesLeft * SamplesPerFrame \in Int
      BY <1>0 DEF TypeOK
    <3>. QED BY <1>2, <2>1, <3>1 DEF PushAudio, FramesBuffered, TypeOK
  <2>5. AudioConserved'
    <3>1. SamplesPerFrame * tAudio \in Int
      BY <1>0 DEF TypeOK
    <3>. QED BY <1>2, <2>1, <3>1 DEF PushAudio, AudioConserved, TypeOK, clocks
  <2>. QED BY <2>2, <2>3, <2>4, <2>5
<1>3. ASSUME NEW x \in TextToken, DrainToken(x) PROVE Base'
  <2>1. Head(injectQueue) \in Injected /\ Tail(injectQueue) \in Seq(Injected)
    BY <1>3 DEF DrainToken, DrainOver, TypeOK
  <2>2. /\ tLm' \in 0 .. T
        /\ genFunction' \in [Positions -> ModelFunction \cup Injected]
        /\ FutureIsPad'
    BY <1>3, <2>1, StepType DEF DrainToken, DrainOver, ModelFunction
  <2>3. turnEnded' \in BOOLEAN /\ textIds' \in Nat /\ emitted' \in Nat
    BY <1>3 DEF DrainToken, ObserveText, TypeOK
  <2>4. TypeOK'
    BY <1>3, <2>1, <2>2, <2>3 DEF DrainToken, TypeOK, calls, client
  <2>5. Fresh' /\ FramesBuffered' /\ AudioConserved' /\ Drained'
    BY <1>3 DEF DrainToken, Fresh, FramesBuffered, AudioConserved, Drained
  <2>. QED BY <2>2, <2>4, <2>5
<1>4. CASE DrainDone
  <2>1. TypeOK'
    <3>1. injectedSpans' \in Seq((0 .. T) \X (0 .. T))
      <4>1. <<spanStart, tLm>> \in (0 .. T) \X (0 .. T)
        BY DEF TypeOK
      <4>2. Append(injectedSpans, <<spanStart, tLm>>) \in Seq((0 .. T) \X (0 .. T))
        BY <4>1, AppendProperties DEF TypeOK
      <4>. QED BY <1>4, <4>2 DEF DrainDone, SpansAfterDrain, TypeOK
    <3>2. framesLeft' \in Nat /\ pc' \in {"idle", "frames"}
      BY <1>4, WholeFramesFit DEF DrainDone, TypeOK
    <3>3. /\ pendingCalls' \in Seq(1 .. callCounter)
          /\ open' \subseteq 1 .. callCounter
          /\ emitted' \in Nat
      BY <1>4, TakenType DEF DrainDone, TypeOK
    <3>4. finished' \in BOOLEAN
      BY <1>4 DEF DrainDone, FinishedAfterDrain, TypeOK
    <3>. QED BY <1>4, <3>1, <3>2, <3>3, <3>4 DEF DrainDone, TypeOK, clocks
  <2>2. Fresh' /\ FutureIsPad' /\ AudioConserved' /\ Drained'
    BY <1>4 DEF DrainDone, DrainOver, Fresh, FutureIsPad, AudioConserved, Drained,
                CanStep, clocks
  <2>3. FramesBuffered'
    BY <1>4, WholeFramesFit DEF DrainDone, FramesBuffered, TypeOK
  <2>. QED BY <2>1, <2>2, <2>3
<1>5. ASSUME NEW x \in TextToken, NEW f \in ModelFunction, AudioFrame(x, f)
      PROVE  Base'
  <2>1. /\ tLm' \in 0 .. T /\ tLm \in Positions
        /\ genFunction' \in [Positions -> ModelFunction \cup Injected]
        /\ FutureIsPad'
    <3>1. genFunction[tLm] \in ModelFunction \cup Injected
      BY <1>5 DEF AudioFrame, CanStep, TypeOK, Positions
    <3>. QED BY <1>5, <3>1, StepType DEF AudioFrame
  <2>2. turnEnded' \in BOOLEAN /\ textIds' \in Nat /\ emitted' \in Nat
    BY <1>5 DEF AudioFrame, ObserveText, TypeOK
  <2>3. /\ inCall' \in BOOLEAN /\ awaiting' \in BOOLEAN
        /\ callCounter' \in Nat /\ callCounter <= callCounter'
        /\ pendingCalls' \in Seq(1 .. callCounter')
    BY <1>5, ObserveType DEF AudioFrame
  <2>4. /\ framesLeft' \in Nat /\ residual' \in Nat
        /\ FramesBuffered'
    <3>1. /\ residual - SamplesPerFrame \in Nat
          /\ (framesLeft - 1) * SamplesPerFrame <= residual - SamplesPerFrame
      BY <1>5, TakeFrame DEF AudioFrame, TypeOK, FramesBuffered
    <3>2. framesLeft' = 0 \/ framesLeft' = framesLeft - 1
      BY <1>5 DEF AudioFrame, FramesAfter
    <3>3. 0 * SamplesPerFrame = 0
      BY <1>0
    <3>. QED BY <1>5, <3>1, <3>2, <3>3 DEF AudioFrame, TypeOK, FramesBuffered
  <2>5. AudioConserved' /\ tAudio' \in Nat
    <3>1. SamplesPerFrame * (tAudio + 1) = SamplesPerFrame * tAudio + SamplesPerFrame
      BY <1>0 DEF TypeOK
    <3>2. SamplesPerFrame * tAudio \in Int
      BY <1>0 DEF TypeOK
    <3>. QED BY <1>0, <1>5, <3>1, <3>2 DEF AudioFrame, AudioConserved, TypeOK
  <2>6. TypeOK'
    BY <1>5, <2>1, <2>2, <2>3, <2>4, <2>5, SMTT(40) DEF AudioFrame, TypeOK, client
  <2>7. Fresh' /\ Drained'
    BY <1>5 DEF AudioFrame, Fresh, Drained
  <2>. QED BY <2>1, <2>4, <2>5, <2>6, <2>7
<1>6. CASE HorizonExhausted
  <2>1. 0 * SamplesPerFrame = 0
    BY <1>0
  <2>2. TypeOK' /\ Fresh' /\ FutureIsPad' /\ AudioConserved' /\ Drained'
    BY <1>6 DEF HorizonExhausted, TypeOK, Fresh, FutureIsPad, AudioConserved,
                Drained, CanStep, clocks, text, calls, client
  <2>. QED BY <1>6, <2>1, <2>2, SMTT(40) DEF HorizonExhausted, FramesBuffered, TypeOK
<1>7. CASE ReturnTick
  <2>1. TypeOK'
    BY <1>7, TakenType DEF ReturnTick, TypeOK, clocks
  <2>. QED BY <1>7, <2>1 DEF ReturnTick, Fresh, FutureIsPad, FramesBuffered,
                             AudioConserved, Drained, clocks
<1>8. ASSUME NEW len \in ResponseLens, NEW c \in open, PushToolResult(c, len)
      PROVE  Base'
  <2>1. Budget \in Int
    BY SessionAssumption DEF Budget, FcPositionsUsed, TypeOK
  <2>2. injectQueue' \in Seq(Injected)
    BY <1>8, <2>1, ResponseTokensType, TruncateFits DEF PushToolResult, TypeOK
  <2>3. TypeOK'
    BY <1>8, <2>2 DEF PushToolResult, AwaitingAfterResult, TypeOK, clocks, text
  <2>4. Fresh' /\ FutureIsPad' /\ FramesBuffered' /\ AudioConserved' /\ Drained'
    BY <1>8 DEF PushToolResult, Fresh, FutureIsPad, FramesBuffered,
                AudioConserved, Drained, clocks, text
  <2>. QED BY <2>3, <2>4
<1>9. CASE UNCHANGED vars
  BY <1>9 DEF vars, clocks, text, calls, client, TypeOK, Fresh, FutureIsPad,
              FramesBuffered, AudioConserved, Drained, CanStep
<1>. QED
  BY <1>1, <1>2, <1>3, <1>4, <1>5, <1>6, <1>7, <1>8, <1>9 DEF Next, Tick

(* The state of a session is well formed, and its clocks never leave the   *)
(* preallocated timeline.                                                  *)
THEOREM SessionTypes == Spec => []TypeOK
<1>1. Base => TypeOK
  BY DEF Base
<1>. QED BY <1>1, BaseInit, BaseStep, PTL DEF Spec

(* Whatever the tick sizes, the stalls and the horizon, every sample given *)
(* to push_audio() is in a consumed frame or still buffered.               *)
THEOREM NoAudioLost == Spec => []AudioConserved
<1>1. Base => AudioConserved
  BY DEF Base
<1>. QED BY <1>1, BaseInit, BaseStep, PTL DEF Spec

(* Response tokens come before audio, with and without the stall: no frame *)
(* takes a position while a token is queued.                               *)
THEOREM ResponseFirst == Spec => ResponseBeforeAudio
<1>1. Base /\ [Next]_vars => [tAudio' # tAudio => injectQueue = <<>>]_vars
  <2>. SUFFICES ASSUME Base, Next, tAudio' # tAudio PROVE injectQueue = <<>>
    BY DEF vars
  <2>1. ASSUME NEW x \in TextToken, NEW f \in ModelFunction, AudioFrame(x, f)
        PROVE  injectQueue = <<>>
    BY <2>1 DEF AudioFrame, Base, Drained
  <2>2. CASE Start
    BY <2>2 DEF Start, Base, Fresh
  <2>3. ASSUME NEW s \in TickSizes, PushAudio(s) PROVE FALSE
    BY <2>3 DEF PushAudio, clocks
  <2>4. ASSUME NEW x \in TextToken, DrainToken(x) PROVE FALSE
    BY <2>4 DEF DrainToken
  <2>5. CASE DrainDone \/ HorizonExhausted \/ ReturnTick
    BY <2>5 DEF DrainDone, HorizonExhausted, ReturnTick, clocks
  <2>6. ASSUME NEW len \in ResponseLens, NEW c \in open, PushToolResult(c, len)
        PROVE  FALSE
    BY <2>6 DEF PushToolResult, clocks
  <2>. QED BY <2>1, <2>2, <2>3, <2>4, <2>5, <2>6 DEF Next, Tick
<1>. QED BY <1>1, BaseInit, BaseStep, PTL DEF Spec, ResponseBeforeAudio

-----------------------------------------------------------------------------
(* The two clocks.                                                         *)

(* What TwoClocks rests on: nothing is recorded before start(), a span and *)
(* a drain under way lie before the next position, audio is finite.        *)
Clocks ==
  /\ pc = "new" => audioAt = {} /\ injectedSpans = <<>>
  /\ pc # "new" => PromptLen <= tLm
  /\ pc = "drain" => PromptLen <= spanStart /\ spanStart <= tLm
  /\ IsFiniteSet(audioAt)
  /\ \A i \in 1 .. Len(injectedSpans) : injectedSpans[i][2] <= tLm

ClockInv == Base /\ Clocks /\ TwoClocks

(* The clocks, the spans and the positions are integers.                   *)
LEMMA ClockTypes ==
  ASSUME TypeOK
  PROVE  /\ tLm \in Int /\ tAudio \in Nat /\ spanStart \in Int /\ PromptLen \in Nat
         /\ T \in Nat /\ Len(injectedSpans) \in Nat
         /\ \A i \in 1 .. Len(injectedSpans) :
              injectedSpans[i][1] \in Int /\ injectedSpans[i][2] \in Int
<1>1. \A i \in 1 .. Len(injectedSpans) : injectedSpans[i] \in (0 .. T) \X (0 .. T)
  BY ElementOfSeq DEF TypeOK
<1>2. \A i \in 1 .. Len(injectedSpans) :
        injectedSpans[i][1] \in Int /\ injectedSpans[i][2] \in Int
  BY <1>1, TimelineNat
<1>3. Len(injectedSpans) \in Nat
  BY LenProperties DEF TypeOK
<1>. QED BY <1>2, <1>3, TimelineNat DEF TypeOK

LEMMA ClockInit == Init => ClockInv
<1>. SUFFICES ASSUME Init PROVE ClockInv
  OBVIOUS
<1>1. \A i \in 1 .. Len(injectedSpans) : injectedSpans[i][2] <= tLm
  BY DEF Init
<1>2. Clocks /\ TwoClocks
  BY <1>1, FS_EmptySet DEF Init, Clocks, TwoClocks
<1>. QED BY <1>2, BaseInit DEF ClockInv

(* A token of the queue takes a position of the drain's span.              *)
LEMMA DrainTokenClocks ==
  ASSUME ClockInv, NEW x \in TextToken, DrainToken(x)
  PROVE  Clocks' /\ TwoClocks'
<1>. USE DEF ClockInv, Base
<1>1. /\ pc = "drain" /\ pc' = "drain" /\ tLm' = tLm + 1
      /\ UNCHANGED <<tAudio, audioAt, injectedSpans, spanStart>>
      /\ genFunction' = [genFunction EXCEPT ![tLm] = Head(injectQueue)]
      /\ Head(injectQueue) \in Injected /\ tLm \in Positions
  <2>1. Head(injectQueue) \in Injected
    BY DEF DrainToken, DrainOver, TypeOK
  <2>2. tLm \in Positions
    BY ClockTypes DEF DrainToken, DrainOver, CanStep, TypeOK, Positions
  <2>3. Head(injectQueue) # "PAD"
    BY <2>1 DEF Injected
  <2>. QED BY <2>1, <2>2, <2>3 DEF DrainToken, StepInference
<1>2. Clocks'
  BY <1>1, ClockTypes DEF Clocks
<1>3. /\ audioAt' \subseteq PromptLen .. tLm' - 1
      /\ Cardinality(audioAt') = tAudio'
  BY <1>1, ClockTypes DEF TwoClocks
<1>4. ASSUME NEW p \in PromptLen .. tLm' - 1
      PROVE  /\ p \notin audioAt' <=> InSpan(p)'
             /\ p \notin audioAt' <=> genFunction'[p] \in Injected
  <2>1. CASE p = tLm
    <3>1. p \notin audioAt'
      BY <1>1, <2>1, ClockTypes DEF TwoClocks
    <3>2. InSpan(p)'
      BY <1>1, <2>1, ClockTypes DEF InSpan, Clocks
    <3>3. genFunction'[p] \in Injected
      BY <1>1, <2>1 DEF TypeOK
    <3>. QED BY <3>1, <3>2, <3>3
  <2>2. CASE p # tLm
    <3>1. p \in PromptLen .. tLm - 1
      BY <1>1, <2>2, ClockTypes
    <3>2. InSpan(p)' <=> InSpan(p)
      BY <1>1 DEF InSpan
    <3>3. genFunction'[p] = genFunction[p]
      <4>1. p \in Positions
        BY <1>1, <3>1, ClockTypes DEF Positions
      <4>. QED BY <1>1, <2>2, <4>1 DEF TypeOK
    <3>. QED BY <1>1, <3>1, <3>2, <3>3 DEF TwoClocks
  <2>. QED BY <2>1, <2>2
<1>. QED BY <1>2, <1>3, <1>4 DEF TwoClocks

(* The span recorded at the end of the drain is what the drain stepped.    *)
LEMMA DrainDoneClocks ==
  ASSUME ClockInv, DrainDone
  PROVE  Clocks' /\ TwoClocks'
<1>. USE DEF ClockInv, Base
<1>1. /\ pc = "drain" /\ pc' \in {"idle", "frames"}
      /\ UNCHANGED <<tLm, tAudio, genFunction, audioAt, spanStart>>
      /\ injectedSpans' = SpansAfterDrain
  BY DEF DrainDone, clocks
<1>2. injectedSpans \in Seq((0 .. T) \X (0 .. T))
      /\ <<spanStart, tLm>> \in (0 .. T) \X (0 .. T)
  BY DEF TypeOK
<1>3. ASSUME NEW p \in PromptLen .. tLm - 1
      PROVE  InSpan(p)' <=> InSpan(p)
  <2>1. CASE tLm > spanStart
    <3>1. injectedSpans' = Append(injectedSpans, <<spanStart, tLm>>)
      BY <1>1, <2>1 DEF SpansAfterDrain
    <3>2. /\ Len(injectedSpans') = Len(injectedSpans) + 1
          /\ \A i \in 1 .. Len(injectedSpans) : injectedSpans'[i] = injectedSpans[i]
          /\ injectedSpans'[Len(injectedSpans) + 1] = <<spanStart, tLm>>
      BY <1>2, <3>1, AppendProperties
    <3>3. InSpan(p) => InSpan(p)'
      <4>1. ASSUME NEW i \in 1 .. Len(injectedSpans),
                   injectedSpans[i][1] <= p, p < injectedSpans[i][2]
            PROVE  InSpan(p)'
        <5>1. i \in 1 .. Len(injectedSpans') /\ injectedSpans'[i] = injectedSpans[i]
          BY <3>2, ClockTypes
        <5>. QED BY <4>1, <5>1 DEF InSpan
      <4>2. ASSUME spanStart <= p
            PROVE  InSpan(p)'
        <5>1. Len(injectedSpans) + 1 \in 1 .. Len(injectedSpans') /\ p < tLm
          BY <3>2, ClockTypes
        <5>. QED BY <3>2, <4>2, <5>1 DEF InSpan
      <4>. QED BY <4>1, <4>2 DEF InSpan
    <3>4. InSpan(p)' => InSpan(p)
      <4>1. ASSUME NEW i \in 1 .. Len(injectedSpans'),
                   injectedSpans'[i][1] <= p, p < injectedSpans'[i][2]
            PROVE  InSpan(p)
        <5>1. CASE i = Len(injectedSpans) + 1
          BY <1>1, <3>2, <4>1, <5>1 DEF InSpan
        <5>2. CASE i # Len(injectedSpans) + 1
          <6>1. i \in 1 .. Len(injectedSpans) /\ injectedSpans'[i] = injectedSpans[i]
            BY <3>2, <5>2, ClockTypes
          <6>. QED BY <4>1, <6>1 DEF InSpan
        <5>. QED BY <5>1, <5>2
      <4>. QED BY <1>1, <4>1 DEF InSpan
    <3>. QED BY <3>3, <3>4
  <2>2. CASE ~(tLm > spanStart)
    <3>1. injectedSpans' = injectedSpans
      BY <1>1, <2>2 DEF SpansAfterDrain
    <3>2. ~(spanStart <= p)
      BY <2>2, ClockTypes
    <3>. QED BY <1>1, <3>1, <3>2 DEF InSpan
  <2>. QED BY <2>1, <2>2
<1>4. \A i \in 1 .. Len(injectedSpans') : injectedSpans'[i][2] <= tLm
  <2>1. CASE tLm > spanStart
    <3>1. injectedSpans' = Append(injectedSpans, <<spanStart, tLm>>)
      BY <1>1, <2>1 DEF SpansAfterDrain
    <3>2. /\ Len(injectedSpans') = Len(injectedSpans) + 1
          /\ \A i \in 1 .. Len(injectedSpans) : injectedSpans'[i] = injectedSpans[i]
          /\ injectedSpans'[Len(injectedSpans) + 1] = <<spanStart, tLm>>
      BY <1>2, <3>1, AppendProperties
    <3>. QED BY <3>2, ClockTypes DEF Clocks
  <2>2. CASE ~(tLm > spanStart)
    BY <1>1, <2>2 DEF Clocks, SpansAfterDrain
  <2>. QED BY <2>1, <2>2
<1>5. Clocks'
  BY <1>1, <1>4 DEF Clocks
<1>6. TwoClocks'
  BY <1>1, <1>3 DEF TwoClocks
<1>. QED BY <1>5, <1>6

(* A frame takes the next position, which is PAD and in no span.           *)
LEMMA AudioFrameClocks ==
  ASSUME ClockInv, NEW x \in TextToken, NEW f \in ModelFunction, AudioFrame(x, f)
  PROVE  Clocks' /\ TwoClocks'
<1>. USE DEF ClockInv, Base
<1>1. /\ pc = "frames" /\ pc' = "frames" /\ tLm' = tLm + 1 /\ tLm \in Positions
      /\ UNCHANGED <<injectedSpans, spanStart>>
      /\ tAudio' = tAudio + 1 /\ audioAt' = audioAt \cup {tLm}
      /\ genFunction' = [genFunction EXCEPT ![tLm] = f]
  <2>1. tLm \in Positions
    BY ClockTypes DEF AudioFrame, CanStep, TypeOK, Positions
  <2>2. genFunction[tLm] = "PAD"
    BY <2>1, ClockTypes DEF FutureIsPad
  <2>. QED BY <2>1, <2>2 DEF AudioFrame, StepInference
<1>2. tLm \notin audioAt
  BY <1>1, ClockTypes DEF TwoClocks
<1>3. IsFiniteSet(audioAt') /\ Cardinality(audioAt') = tAudio'
  BY <1>1, <1>2, FS_AddElement DEF Clocks, TwoClocks
<1>4. Clocks'
  BY <1>1, <1>3, ClockTypes DEF Clocks
<1>5. audioAt' \subseteq PromptLen .. tLm' - 1
  BY <1>1, ClockTypes DEF Clocks, TwoClocks
<1>6. ASSUME NEW p \in PromptLen .. tLm' - 1
      PROVE  /\ p \notin audioAt' <=> InSpan(p)'
             /\ p \notin audioAt' <=> genFunction'[p] \in Injected
  <2>1. CASE p = tLm
    <3>1. p \in audioAt'
      BY <1>1, <2>1
    <3>2. ~InSpan(p)'
      BY <1>1, <2>1, ClockTypes DEF InSpan, Clocks
    <3>3. genFunction'[p] \notin Injected
      BY <1>1, <2>1 DEF TypeOK, ModelFunction, Injected
    <3>. QED BY <3>1, <3>2, <3>3
  <2>2. CASE p # tLm
    <3>1. p \in PromptLen .. tLm - 1
      BY <1>1, <2>2, ClockTypes
    <3>2. InSpan(p)' <=> InSpan(p)
      BY <1>1 DEF InSpan
    <3>3. genFunction'[p] = genFunction[p]
      <4>1. p \in Positions
        BY <1>1, <3>1, ClockTypes DEF Positions
      <4>. QED BY <1>1, <2>2, <4>1 DEF TypeOK
    <3>4. p \notin audioAt' <=> p \notin audioAt
      BY <1>1, <2>2
    <3>. QED BY <1>1, <3>1, <3>2, <3>3, <3>4 DEF TwoClocks
  <2>. QED BY <2>1, <2>2
<1>. QED BY <1>3, <1>4, <1>5, <1>6 DEF TwoClocks

LEMMA ClockStep == ClockInv /\ [Next]_vars => ClockInv'
<1>. SUFFICES ASSUME ClockInv, [Next]_vars PROVE ClockInv'
  OBVIOUS
<1>0. Base'
  BY BaseStep DEF ClockInv
<1>. USE DEF ClockInv, Base
<1>1. CASE Start
  <2>1. /\ pc = "new" /\ pc' = "idle" /\ tLm' = PromptLen /\ tAudio' = 0
        /\ UNCHANGED <<audioAt, injectedSpans>>
    BY <1>1 DEF Start
  <2>2. audioAt' = {} /\ injectedSpans' = <<>>
    BY <2>1 DEF Clocks
  <2>3. Clocks'
    BY <2>1, <2>2, FS_EmptySet, TimelineNat DEF Clocks
  <2>4. PromptLen .. tLm' - 1 = {}
    BY <2>1, TimelineNat
  <2>5. TwoClocks'
    BY <2>1, <2>2, <2>4, FS_EmptySet DEF TwoClocks
  <2>. QED BY <1>0, <2>3, <2>5
<1>2. ASSUME NEW s \in TickSizes, PushAudio(s) PROVE ClockInv'
  <2>1. /\ pc = "idle" /\ pc' = "drain" /\ spanStart' = tLm
        /\ UNCHANGED <<tLm, tAudio, genFunction, audioAt, injectedSpans>>
    BY <1>2 DEF PushAudio, clocks
  <2>2. Clocks'
    BY <2>1, ClockTypes DEF Clocks
  <2>3. ASSUME NEW p \in PromptLen .. tLm - 1 PROVE InSpan(p)' <=> InSpan(p)
    <3>1. ~(tLm <= p)
      BY ClockTypes
    <3>2. InSpan(p)' <=> \/ \E i \in 1 .. Len(injectedSpans) :
                               injectedSpans[i][1] <= p /\ p < injectedSpans[i][2]
                         \/ tLm <= p
      BY <2>1 DEF InSpan
    <3>. QED BY <2>1, <3>1, <3>2 DEF InSpan
  <2>4. TwoClocks'
    BY <2>1, <2>3 DEF TwoClocks
  <2>. QED BY <1>0, <2>2, <2>4
<1>3. ASSUME NEW x \in TextToken, DrainToken(x) PROVE ClockInv'
  BY <1>0, <1>3, DrainTokenClocks
<1>4. CASE DrainDone
  BY <1>0, <1>4, DrainDoneClocks
<1>5. ASSUME NEW x \in TextToken, NEW f \in ModelFunction, AudioFrame(x, f)
      PROVE  ClockInv'
  BY <1>0, <1>5, AudioFrameClocks
<1>6. CASE \/ HorizonExhausted \/ ReturnTick \/ UNCHANGED vars
           \/ \E len \in ResponseLens : \E c \in open : PushToolResult(c, len)
  <2>1. /\ \/ pc \in {"idle", "frames"} /\ pc' \in {"idle", "frames"}
           \/ pc' = pc
        /\ UNCHANGED <<tLm, tAudio, genFunction, audioAt, injectedSpans, spanStart>>
    BY <1>6 DEF HorizonExhausted, ReturnTick, PushToolResult, vars, clocks
  <2>2. Clocks'
    BY <2>1 DEF Clocks
  <2>3. ASSUME NEW p PROVE InSpan(p)' <=> InSpan(p)
    BY <2>1 DEF InSpan
  <2>4. TwoClocks'
    BY <2>1, <2>3 DEF TwoClocks
  <2>. QED BY <1>0, <2>2, <2>4
<1>. QED
  BY <1>1, <1>2, <1>3, <1>4, <1>5, <1>6 DEF Next, Tick

(* The two-clock invariant of the session, for every horizon and prompt:   *)
(* what was stepped since the prompt is audio or recorded as injected, no  *)
(* position is both, and t_audio counts the audio positions.               *)
THEOREM ClocksAgree == Spec => []TwoClocks
<1>1. ClockInv => TwoClocks
  BY DEF ClockInv
<1>. QED BY <1>1, ClockInit, ClockStep, PTL DEF Spec

-----------------------------------------------------------------------------
(* A session that stalls on its calls.                                     *)

LEMMA StallInit == Init => IInv
<1>. SUFFICES ASSUME Init PROVE Stall /\ FcBudget /\ TurnEndReported
  BY BaseInit DEF IInv
<1>1. answered = 1 .. callCounter
  BY DEF Init
<1>. QED BY <1>1 DEF Init, Stall, FcBudget, TurnEndReported

(* A call is closed only while none is unanswered; then it is the one.     *)
LEMMA ObserveStall ==
  ASSUME TypeOK, Stall, ~awaiting, injectQueue = <<>>,
         NEW g, ObserveFunction(g)
  PROVE  \/ /\ awaiting' = TRUE /\ inCall' = FALSE
            /\ callCounter' = callCounter + 1
            /\ pendingCalls' = <<callCounter'>>
         \/ /\ awaiting' = FALSE /\ UNCHANGED <<callCounter, pendingCalls>>
<1>1. pendingCalls = <<>> /\ awaiting \in BOOLEAN
  BY DEF Stall, TypeOK
<1>2. CASE CloseCall /\ inCall' = FALSE
  BY <1>1, <1>2 DEF CloseCall
<1>3. CASE UNCHANGED <<awaiting, pendingCalls, callCounter>>
  BY <1>1, <1>3
<1>4. (CloseCall /\ inCall' = FALSE) \/ UNCHANGED <<awaiting, pendingCalls, callCounter>>
  BY Zenon DEF ObserveFunction, calls
<1>. QED BY <1>2, <1>3, <1>4, Zenon

LEMMA StallStep ==
  ASSUME StallAfterEotc
  PROVE  IInv /\ [Next]_vars => IInv'
<1>. SUFFICES ASSUME IInv, [Next]_vars
              PROVE  Stall' /\ FcBudget' /\ TurnEndReported'
  BY BaseStep DEF IInv
<1>0. TypeOK /\ Base /\ Stall /\ FcBudget /\ TurnEndReported
  BY DEF IInv, Base
<1>. USE <1>0, TimelineNat
<1>a. MaxFcTokens \in Nat /\ FcPositionsUsed \in Int /\ Budget \in Int
  BY SessionAssumption DEF FcPositionsUsed, Budget, TypeOK
<1>1. CASE Start
  BY <1>1, <1>a, SessionAssumption
     DEF Start, Stall, FcBudget, TurnEndReported, FcPositionsUsed, Base, Fresh,
         text, calls, client
<1>2. ASSUME NEW s \in TickSizes, PushAudio(s)
      PROVE  Stall' /\ FcBudget' /\ TurnEndReported'
  BY <1>2 DEF PushAudio, Stall, FcBudget, TurnEndReported, FcPositionsUsed,
              clocks, text, calls, client
<1>3. ASSUME NEW x \in TextToken, DrainToken(x)
      PROVE  Stall' /\ FcBudget' /\ TurnEndReported'
  <2>1. injectQueue # <<>> /\ Len(Tail(injectQueue)) = Len(injectQueue) - 1
    BY <1>3 DEF DrainToken, DrainOver, TypeOK
  <2>2. ~awaiting /\ ~inCall
    BY <2>1 DEF Stall
  <2>3. Stall'
    BY <1>3, <2>2 DEF DrainToken, Stall, calls, client
  <2>4. FcBudget'
    <3>1. tLm' = tLm + 1 /\ tAudio' = tAudio /\ pc' = pc /\ pc # "new"
          /\ injectQueue' = Tail(injectQueue)
      BY <1>3 DEF DrainToken, StepInference
    <3>2. Len(injectQueue) \in Nat
      BY DEF TypeOK
    <3>. QED BY <1>a, <2>1, <3>1, <3>2, SessionAssumption
             DEF FcBudget, FcPositionsUsed, TypeOK
  <2>5. TurnEndReported'
    BY <1>3 DEF DrainToken, TurnEndReported
  <2>. QED BY <2>3, <2>4, <2>5
<1>4. CASE DrainDone
  <2>1. FcBudget'
    BY <1>4 DEF DrainDone, FcBudget, FcPositionsUsed, clocks
  <2>2. CASE awaiting
    <3>1. pendingCalls = <<>> /\ open = {callCounter} /\ ~turnEnded
      BY <1>4, <2>2 DEF DrainDone, Stall
    <3>2. {pendingCalls[i] : i \in 1 .. Len(pendingCalls)} = {}
      BY <3>1
    <3>3. Stall' /\ TurnEndReported'
      BY <1>4, <2>2, <3>1, <3>2
         DEF DrainDone, Stalled, TakeCallsAndText, Stall, TurnEndReported, clocks
    <3>. QED BY <2>1, <3>3
  <2>3. CASE ~awaiting
    <3>1. Stall' /\ TurnEndReported'
      BY <1>4, <2>3 DEF DrainDone, Stalled, Stall, TurnEndReported, clocks
    <3>. QED BY <2>1, <3>1
  <2>. QED BY <2>2, <2>3
<1>5. ASSUME NEW x \in TextToken, NEW f \in ModelFunction, AudioFrame(x, f)
      PROVE  Stall' /\ FcBudget' /\ TurnEndReported'
  <2>1. injectQueue = <<>> /\ ~awaiting
    BY <1>5 DEF AudioFrame, Base, Drained, Stall
  <2>2. FcBudget' /\ TurnEndReported'
    <3>1. /\ tLm' = tLm + 1 /\ tAudio' = tAudio + 1 /\ pc' = pc /\ pc = "frames"
          /\ injectQueue' = injectQueue
      BY <1>5 DEF AudioFrame, StepInference
    <3>. QED BY <3>1, SessionAssumption
             DEF FcBudget, TurnEndReported, FcPositionsUsed, TypeOK
  <2>3. ObserveFunction(genFunction'[tLm])
    BY <1>5 DEF AudioFrame
  <2>4. CASE /\ awaiting' = TRUE /\ inCall' = FALSE
             /\ callCounter' = callCounter + 1
             /\ pendingCalls' = <<callCounter'>>
    <3>1. answered' = 1 .. callCounter' - 1 /\ callCounter' >= 1 /\ open' = {}
      BY <1>5, <2>1, <2>4 DEF AudioFrame, Stall, TypeOK, client
    <3>2. framesLeft' = 0 /\ injectQueue' = <<>> /\ pc' = "frames"
      BY <1>5, <2>1, <2>4 DEF AudioFrame, FramesAfter
    <3>. QED BY <2>2, <2>4, <3>1, <3>2 DEF Stall
  <2>5. CASE awaiting' = FALSE /\ UNCHANGED <<callCounter, pendingCalls>>
    <3>1. Stall'
      BY <1>5, <2>1, <2>5 DEF AudioFrame, Stall, client
    <3>. QED BY <2>2, <3>1
  <2>. QED BY <2>1, <2>3, <2>4, <2>5, ObserveStall
<1>6. CASE HorizonExhausted
  BY <1>6 DEF HorizonExhausted, Stall, FcBudget, TurnEndReported, FcPositionsUsed,
              clocks, text, calls, client
<1>7. CASE ReturnTick
  <2>1. FcBudget' /\ TurnEndReported'
    BY <1>7 DEF ReturnTick, FcBudget, TurnEndReported, FcPositionsUsed, clocks
  <2>2. CASE pendingCalls = <<callCounter>>
    <3>1. {pendingCalls[i] : i \in 1 .. Len(pendingCalls)} = {callCounter}
      BY <2>2
    <3>2. awaiting /\ open = {}
      BY <2>2 DEF Stall, TypeOK
    <3>. QED BY <1>7, <2>1, <3>1, <3>2 DEF ReturnTick, TakeCallsAndText, Stall
  <2>3. CASE pendingCalls = <<>>
    <3>1. {pendingCalls[i] : i \in 1 .. Len(pendingCalls)} = {}
      BY <2>3
    <3>. QED BY <1>7, <2>1, <2>3, <3>1 DEF ReturnTick, TakeCallsAndText, Stall
  <2>. QED BY <2>2, <2>3 DEF Stall
<1>8. ASSUME NEW len \in ResponseLens, NEW c \in open, PushToolResult(c, len)
      PROVE  Stall' /\ FcBudget' /\ TurnEndReported'
  <2>1. /\ awaiting /\ c = callCounter /\ open = {callCounter}
        /\ pendingCalls = <<>> /\ injectQueue = <<>> /\ ~inCall
        /\ callCounter >= 1 /\ answered = 1 .. callCounter - 1
    BY <1>8 DEF PushToolResult, Stall
  <2>2. open' = {} /\ answered' = 1 .. callCounter
    <3>1. (1 .. callCounter - 1) \cup {callCounter} = 1 .. callCounter
      BY <2>1 DEF TypeOK
    <3>. QED BY <1>8, <2>1, <3>1 DEF PushToolResult
  <2>3. Stall' /\ TurnEndReported'
    BY <1>8, <2>1, <2>2
       DEF PushToolResult, AwaitingAfterResult, Stall, TurnEndReported, text
  <2>4. FcBudget'
    <3>. DEFINE r == Truncate(ResponseTokens(len))
    <3>1. r \in Seq(Injected) /\ Len(r) <= (IF Budget > 0 THEN Budget ELSE 0)
      BY <1>a, ResponseTokensType, TruncateFits
    <3>2. injectQueue' = r
      BY <1>8, <2>1, <3>1, ConcatEmptySeq DEF PushToolResult
    <3>3. FcPositionsUsed' = FcPositionsUsed /\ pc' = pc /\ pc # "new"
      BY <1>8 DEF PushToolResult, FcPositionsUsed, clocks
    <3>4. Len(r) \in Nat /\ FcPositionsUsed <= MaxFcTokens
      <4>1. Len(injectQueue) = 0
        BY <2>1
      <4>. QED BY <1>a, <3>1, <3>3, <4>1 DEF FcBudget
    <3>. HIDE DEF r
    <3>. QED BY <1>a, <3>1, <3>2, <3>3, <3>4 DEF FcBudget, Budget
  <2>. QED BY <2>3, <2>4
<1>9. CASE UNCHANGED vars
  BY <1>9 DEF vars, clocks, text, calls, client, Stall, FcBudget,
              TurnEndReported, FcPositionsUsed
<1>. QED
  BY <1>1, <1>2, <1>3, <1>4, <1>5, <1>6, <1>7, <1>8, <1>9 DEF Next, Tick

LEMMA StallInvariant ==
  ASSUME StallAfterEotc
  PROVE  Spec => []IInv
BY StallInit, StallStep, PTL DEF Spec

(* Injected tokens, queued ones included, never exceed max_fc_tokens.      *)
THEOREM BudgetKept ==
  ASSUME StallAfterEotc
  PROVE  Spec => []FcBudget
<1>1. IInv => FcBudget
  BY DEF IInv
<1>. QED BY <1>1, StallInvariant, PTL

(* A response never lands inside a call the model is still writing.        *)
THEOREM CallsNotInterrupted ==
  ASSUME StallAfterEotc
  PROVE  Spec => []NoInjectionInsideCall
<1>1. IInv => NoInjectionInsideCall
  BY DEF IInv, Stall, NoInjectionInsideCall
<1>. QED BY <1>1, StallInvariant, PTL

(* Between <EOTC> and the client's answer no audio frame is consumed.      *)
THEOREM NoAudioDuringCall ==
  ASSUME StallAfterEotc
  PROVE  Spec => NoAudioWhileUnanswered
<1>1. IInv /\ [Next]_vars => [tAudio' # tAudio => answered = 1 .. callCounter]_vars
  <2>. SUFFICES ASSUME IInv, Next, tAudio' # tAudio
                PROVE  answered = 1 .. callCounter
    BY DEF vars
  <2>0. Stall /\ Fresh
    BY DEF IInv, Base
  <2>1. ASSUME NEW x \in TextToken, NEW f \in ModelFunction, AudioFrame(x, f)
        PROVE  answered = 1 .. callCounter
    BY <2>0, <2>1 DEF AudioFrame, Stall
  <2>2. CASE Start
    BY <2>0, <2>2 DEF Start, Fresh, Stall
  <2>3. ASSUME NEW s \in TickSizes, PushAudio(s) PROVE FALSE
    BY <2>3 DEF PushAudio, clocks
  <2>4. ASSUME NEW x \in TextToken, DrainToken(x) PROVE FALSE
    BY <2>4 DEF DrainToken
  <2>5. CASE DrainDone \/ HorizonExhausted \/ ReturnTick
    BY <2>5 DEF DrainDone, HorizonExhausted, ReturnTick, clocks
  <2>6. ASSUME NEW len \in ResponseLens, NEW c \in open, PushToolResult(c, len)
        PROVE  FALSE
    BY <2>6 DEF PushToolResult, clocks
  <2>. QED BY <2>1, <2>2, <2>3, <2>4, <2>5, <2>6 DEF Next, Tick
<1>. QED BY <1>1, StallInvariant, PTL DEF Spec, NoAudioWhileUnanswered

-----------------------------------------------------------------------------
(* The calls, with and without the stall: the pending ones are the newest, *)
(* in order, and the others were handed to the client, each once.          *)
Handed == callCounter - Len(pendingCalls)

CallOrder ==
  /\ Len(pendingCalls) <= callCounter
  /\ \A i \in 1 .. Len(pendingCalls) : pendingCalls[i] = Handed + i
  /\ open \cup answered = 1 .. Handed
  /\ open \cap answered = {}
  /\ pc # "frames" => pendingCalls = <<>>

LEMMA CallTypes ==
  ASSUME TypeOK
  PROVE  /\ callCounter \in Nat /\ Len(pendingCalls) \in Nat
         /\ pendingCalls \in Seq(1 .. callCounter)
  BY LenProperties DEF TypeOK

(* The calls that are pending are an interval of numbers.                  *)
LEMMA PendingInterval ==
  ASSUME TypeOK, CallOrder
  PROVE  {pendingCalls[i] : i \in 1 .. Len(pendingCalls)} = Handed + 1 .. callCounter
<1>. DEFINE n == Len(pendingCalls)
            c == callCounter
            pending == {pendingCalls[i] : i \in 1 .. n}
<1>1. n \in Nat /\ c \in Nat /\ n <= c /\ Handed = c - n
      /\ \A i \in 1 .. n : pendingCalls[i] = c - n + i
  BY CallTypes DEF CallOrder, Handed
<1>. HIDE DEF n, c
<1>2. ASSUME NEW k \in pending PROVE k \in c - n + 1 .. c
  BY <1>1
<1>3. ASSUME NEW k \in c - n + 1 .. c PROVE k \in pending
  <2>1. k - (c - n) \in 1 .. n /\ c - n + (k - (c - n)) = k
    BY <1>1
  <2>2. pendingCalls[k - (c - n)] = k
    BY <1>1, <2>1
  <2>. QED BY <2>1, <2>2
<1>4. pending = c - n + 1 .. c
  BY <1>2, <1>3
<1>. QED BY <1>1, <1>4 DEF n, c

LEMMA OrderInit == Init => CallOrder
<1>. SUFFICES ASSUME Init PROVE CallOrder
  OBVIOUS
<1>1. Len(<<>>) = 0 /\ 1 .. 0 - 0 = {}
  OBVIOUS
<1>. QED BY <1>1 DEF Init, CallOrder, Handed

(* A step that leaves the calls alone and does not end the tick.           *)
LEMMA OrderKept ==
  ASSUME CallOrder, UNCHANGED <<pendingCalls, callCounter, client>>,
         pc' # "frames" => pc # "frames"
  PROVE  CallOrder'
  BY DEF CallOrder, Handed, client

(* At either return of a tick the client takes the calls that are pending. *)
LEMMA OrderTaken ==
  ASSUME TypeOK, CallOrder, TakeCallsAndText, UNCHANGED <<callCounter, answered>>
  PROVE  CallOrder'
<1>1. /\ open' = open \cup (Handed + 1 .. callCounter)
      /\ pendingCalls' = <<>> /\ answered' = answered /\ callCounter' = callCounter
  BY PendingInterval DEF TakeCallsAndText
<1>. DEFINE h == Handed
            c == callCounter
<1>2. c \in Nat /\ h \in Int /\ 0 <= h /\ h <= c
  BY CallTypes DEF CallOrder, Handed
<1>3. open \cup answered = 1 .. h /\ open \cap answered = {}
  BY DEF CallOrder
<1>4. open' = open \cup (h + 1 .. c)
  BY <1>1
<1>. HIDE DEF h, c
<1>5. open' \cup answered = 1 .. c
  <2>1. (1 .. h) \cup (h + 1 .. c) = 1 .. c
    BY <1>2
  <2>. QED BY <1>3, <1>4, <2>1
<1>6. open' \cap answered = {}
  <2>1. (h + 1 .. c) \cap (1 .. h) = {}
    BY <1>2
  <2>. QED BY <1>3, <1>4, <2>1
<1>7. Handed' = c /\ Len(pendingCalls') = 0
  BY <1>1, <1>2 DEF Handed, c
<1>. QED BY <1>1, <1>2, <1>5, <1>6, <1>7 DEF CallOrder, c

(* A closed call is put behind the others of its tick.                     *)
LEMMA OrderClosed ==
  ASSUME TypeOK, CallOrder, pc' = "frames", CloseCall, UNCHANGED client
  PROVE  CallOrder'
<1>. DEFINE n == Len(pendingCalls)
            c == callCounter
            q == pendingCalls
            r == Append(q, c + 1)
<1>1. n \in Nat /\ c \in Nat /\ n <= c /\ Handed = c - n
      /\ \A i \in 1 .. n : q[i] = c - n + i
  BY CallTypes DEF CallOrder, Handed
<1>2. callCounter' = c + 1 /\ pendingCalls' = r
  BY DEF CloseCall
<1>3. /\ Len(r) = n + 1
      /\ \A i \in 1 .. n : r[i] = q[i]
      /\ r[n + 1] = c + 1
  <2>1. q \in Seq(Nat)
    BY SeqMonotonic DEF TypeOK
  <2>. QED BY <1>1, <2>1, AppendProperties
<1>. HIDE DEF n, c, q, r
<1>4. Len(r) <= c + 1 /\ c + 1 - Len(r) = c - n
  BY <1>1, <1>3
<1>5. ASSUME NEW i \in 1 .. Len(r) PROVE r[i] = c - n + i
  <2>1. i \in 1 .. n \/ i = n + 1
    BY <1>1, <1>3
  <2>. QED BY <1>1, <1>3, <2>1
<1>6. Handed' = Handed
  BY <1>1, <1>2, <1>4 DEF Handed
<1>7. Len(pendingCalls') <= callCounter'
  BY <1>2, <1>4
<1>8. \A i \in 1 .. Len(pendingCalls') : pendingCalls'[i] = Handed' + i
  BY <1>1, <1>2, <1>5, <1>6
<1>. QED BY <1>6, <1>7, <1>8 DEF CallOrder, client

LEMMA OrderStep == Base /\ CallOrder /\ [Next]_vars => CallOrder'
<1>. SUFFICES ASSUME Base, CallOrder, [Next]_vars PROVE CallOrder'
  OBVIOUS
<1>0. TypeOK
  BY DEF Base
<1>. USE DEF calls, client
<1>1. CASE Start
  BY <1>1, OrderKept DEF Start
<1>2. ASSUME NEW s \in TickSizes, PushAudio(s) PROVE CallOrder'
  BY <1>2, OrderKept DEF PushAudio
<1>3. ASSUME NEW x \in TextToken, DrainToken(x) PROVE CallOrder'
  BY <1>3, OrderKept DEF DrainToken
<1>4. CASE DrainDone
  <2>1. CASE Stalled
    BY <1>0, <1>4, <2>1, OrderTaken DEF DrainDone
  <2>2. CASE ~Stalled
    BY <1>4, <2>2, OrderKept DEF DrainDone
  <2>. QED BY <2>1, <2>2
<1>5. ASSUME NEW x \in TextToken, NEW f \in ModelFunction, AudioFrame(x, f)
      PROVE  CallOrder'
  <2>1. pc = "frames" /\ pc' = "frames" /\ UNCHANGED client
    BY <1>5 DEF AudioFrame
  <2>2. CloseCall \/ UNCHANGED <<pendingCalls, callCounter>>
    BY <1>5, Zenon DEF AudioFrame, ObserveFunction
  <2>. QED BY <1>0, <2>1, <2>2, OrderClosed, OrderKept
<1>6. CASE HorizonExhausted
  BY <1>6, OrderKept DEF HorizonExhausted
<1>7. CASE ReturnTick
  BY <1>0, <1>7, OrderTaken DEF ReturnTick
<1>8. ASSUME NEW len \in ResponseLens, NEW c \in open, PushToolResult(c, len)
      PROVE  CallOrder'
  <2>1. /\ open' = open \ {c} /\ answered' = answered \cup {c}
        /\ UNCHANGED <<pc, pendingCalls, callCounter>>
    BY <1>8 DEF PushToolResult
  <2>. QED BY <2>1 DEF CallOrder, Handed
<1>9. CASE UNCHANGED vars
  BY <1>9, OrderKept DEF vars
<1>. QED
  BY <1>1, <1>2, <1>3, <1>4, <1>5, <1>6, <1>7, <1>8, <1>9 DEF Next, Tick

(* Every call the model closed is in exactly one place, and none stays in  *)
(* the session when a tick has returned, also when several calls close in  *)
(* one tick because the session does not stall.                            *)
THEOREM EveryCallAccounted == Spec => []CallsAccounted
<1>1. Base /\ CallOrder => CallsAccounted
  <2>. SUFFICES ASSUME Base, CallOrder PROVE CallsAccounted
    OBVIOUS
  <2>. DEFINE n == Len(pendingCalls)
              c == callCounter
              h == Handed
              pending == {pendingCalls[i] : i \in 1 .. Len(pendingCalls)}
  <2>1. TypeOK
    BY DEF Base
  <2>2. n \in Nat /\ c \in Nat /\ n <= c /\ h = c - n /\ h \in Nat
    BY <2>1, CallTypes DEF CallOrder, Handed
  <2>3. pending = h + 1 .. c
    BY <2>1, PendingInterval
  <2>4. open \cup answered = 1 .. h /\ open \cap answered = {}
    BY DEF CallOrder
  <2>5. pc = "idle" => pendingCalls = <<>>
    BY DEF CallOrder
  <2>. HIDE DEF n, c, h, pending
  <2>6. Cardinality(pending) = n
    <3>1. h + 1 \in Int /\ c \in Int
      BY <2>2
    <3>2. Cardinality(h + 1 .. c) = IF h + 1 > c THEN 0 ELSE c - (h + 1) + 1
      BY <3>1, FS_Interval
    <3>. QED BY <2>2, <2>3, <3>2
  <2>7. pending \cup open \cup answered = 1 .. c
    <3>1. (h + 1 .. c) \cup (1 .. h) = 1 .. c
      BY <2>2
    <3>. QED BY <2>3, <2>4, <3>1
  <2>8. pending \cap open = {} /\ pending \cap answered = {}
    <3>1. (h + 1 .. c) \cap (1 .. h) = {}
      BY <2>2
    <3>. QED BY <2>3, <2>4, <3>1
  <2>. QED BY <2>4, <2>5, <2>6, <2>7, <2>8 DEF CallsAccounted, n, c, pending
<1>2. Init => Base /\ CallOrder
  BY BaseInit, OrderInit
<1>3. Base /\ CallOrder /\ [Next]_vars => (Base /\ CallOrder)'
  BY BaseStep, OrderStep
<1>. QED BY <1>1, <1>2, <1>3, PTL DEF Spec

(* Without the stall every tick reaches its last return, which resets      *)
(* turn_ended.                                                             *)
LEMMA TurnStep ==
  ASSUME ~StallAfterEotc
  PROVE  Base /\ TurnEndReported /\ [Next]_vars => TurnEndReported'
<1>. SUFFICES ASSUME Base, TurnEndReported, [Next]_vars PROVE TurnEndReported'
  OBVIOUS
<1>. USE DEF TurnEndReported
<1>1. CASE Start
  BY <1>1 DEF Start, Base, Fresh, text
<1>2. ASSUME NEW s \in TickSizes, PushAudio(s) PROVE TurnEndReported'
  BY <1>2 DEF PushAudio
<1>3. ASSUME NEW x \in TextToken, DrainToken(x) PROVE TurnEndReported'
  BY <1>3 DEF DrainToken
<1>4. CASE DrainDone
  BY <1>4 DEF DrainDone, Stalled
<1>5. ASSUME NEW x \in TextToken, NEW f \in ModelFunction, AudioFrame(x, f)
      PROVE  TurnEndReported'
  BY <1>5 DEF AudioFrame
<1>6. CASE HorizonExhausted \/ ReturnTick
  BY <1>6 DEF HorizonExhausted, ReturnTick
<1>7. ASSUME NEW len \in ResponseLens, NEW c \in open, PushToolResult(c, len)
      PROVE  TurnEndReported'
  BY <1>7 DEF PushToolResult, text
<1>8. CASE UNCHANGED vars
  BY <1>8 DEF vars, text
<1>. QED BY <1>1, <1>2, <1>3, <1>4, <1>5, <1>6, <1>7, <1>8 DEF Next, Tick

(* No tick returns with an agent EOS it did not report: without the stall  *)
(* because every tick resets it, with the stall because the call that      *)
(* makes a tick return early had ended the tick before.                    *)
THEOREM TurnEndNotLost == Spec => []TurnEndReported
<1>1. CASE StallAfterEotc
  <2>1. IInv => TurnEndReported
    BY DEF IInv
  <2>. QED BY <1>1, <2>1, StallInvariant, PTL
<1>2. CASE ~StallAfterEotc
  <2>1. Init => Base /\ TurnEndReported
    BY BaseInit DEF Init, TurnEndReported
  <2>2. Base /\ TurnEndReported /\ [Next]_vars => (Base /\ TurnEndReported)'
    BY <1>2, BaseStep, TurnStep
  <2>. QED BY <2>1, <2>2, PTL DEF Spec
<1>. QED BY <1>1, <1>2

-----------------------------------------------------------------------------
(* The session implements FunctionChannel.                                 *)

LEMMA ProtocolInit == Init => Protocol!Init
BY DEF Init, Protocol!Init, phase

(* Audio frames map to Hear, results to Answer, drained tokens to Inject,  *)
(* every other step leaves the protocol where it is.                       *)
LEMMA ProtocolStep ==
  ASSUME StallAfterEotc, IInv, [Next]_vars
  PROVE  [Protocol!Next]_(Protocol!fcvars)
<1>0. TypeOK /\ Stall /\ Fresh /\ FcBudget
  BY DEF IInv, Base
<1>. USE <1>0, SessionAssumption
<1>. DEFINE injected == IF pc = "new" THEN 0 ELSE FcPositionsUsed
<1>1. CASE Start
  <2>1. injected' = injected
    BY <1>1 DEF Start, FcPositionsUsed
  <2>. QED BY <1>1, <2>1 DEF Start, Fresh, phase, Protocol!fcvars, calls
<1>2. ASSUME NEW s \in TickSizes, PushAudio(s)
      PROVE  UNCHANGED Protocol!fcvars
  BY <1>2 DEF PushAudio, FcPositionsUsed, phase, Protocol!fcvars, clocks, calls
<1>3. ASSUME NEW x \in TextToken, DrainToken(x) PROVE Protocol!Inject
  <2>1. injectQueue # <<>> /\ ~awaiting /\ ~inCall /\ pc # "new" /\ Len(injectQueue) \in Nat
        /\ Len(injectQueue) > 0
    BY <1>3 DEF DrainToken, DrainOver, Stall, TypeOK
  <2>2. injected' = injected + 1 /\ injected < MaxFcTokens
    BY <1>3, <2>1 DEF DrainToken, StepInference, FcPositionsUsed, FcBudget, TypeOK
  <2>3. phase = "responding" /\ phase' \in {"responding", "listening"}
    BY <1>3, <2>1 DEF DrainToken, phase, calls
  <2>4. tAudio' = tAudio /\ callCounter' = callCounter
    BY <1>3 DEF DrainToken, calls
  <2>. QED BY <2>2, <2>3, <2>4 DEF Protocol!Inject
<1>4. CASE DrainDone
  BY <1>4 DEF DrainDone, FcPositionsUsed, phase, Protocol!fcvars, clocks
<1>5. ASSUME NEW x \in TextToken, NEW f \in ModelFunction, AudioFrame(x, f)
      PROVE  Protocol!Hear
  <2>1. injectQueue = <<>> /\ ~awaiting /\ pc = "frames"
    BY <1>5 DEF AudioFrame, IInv, Base, Drained, Stall
  <2>2. tAudio' = tAudio + 1 /\ injected' = injected /\ injectQueue' = <<>>
    BY <1>5, <2>1 DEF AudioFrame, StepInference, FcPositionsUsed, TypeOK
  <2>3. phase = (IF inCall THEN "calling" ELSE "listening")
    BY <2>1 DEF phase
  <2>4. phase' = (IF inCall' THEN "calling" ELSE IF awaiting' THEN "awaiting" ELSE "listening")
    BY <2>2 DEF phase
  <2>5. \/ inCall' = TRUE /\ UNCHANGED <<awaiting, callCounter>>
        \/ inCall /\ inCall' = FALSE /\ awaiting' = TRUE /\ callCounter' = callCounter + 1
        \/ UNCHANGED <<inCall, awaiting, callCounter>>
    BY <1>5, Zenon DEF AudioFrame, ObserveFunction, CloseCall, calls
  <2>6. \/ phase' \in {phase, "calling"} /\ callCounter' = callCounter
        \/ phase = "calling" /\ phase' = "awaiting" /\ callCounter' = callCounter + 1
    BY <2>1, <2>3, <2>4, <2>5
  <2>. QED BY <2>2, <2>3, <2>6 DEF Protocol!Hear
<1>6. CASE HorizonExhausted
  BY <1>6 DEF HorizonExhausted, FcPositionsUsed, phase, Protocol!fcvars, clocks, calls
<1>7. CASE ReturnTick
  BY <1>7 DEF ReturnTick, FcPositionsUsed, phase, Protocol!fcvars, clocks
<1>8. ASSUME NEW len \in ResponseLens, NEW c \in open, PushToolResult(c, len)
      PROVE  Protocol!Answer
  <2>1. awaiting /\ ~inCall
    BY <1>8 DEF PushToolResult, Stall
  <2>2. phase = "awaiting" /\ phase' \in {"responding", "listening"}
    BY <1>8, <2>1 DEF PushToolResult, AwaitingAfterResult, phase
  <2>3. injected' = injected /\ tAudio' = tAudio /\ callCounter' = callCounter
    BY <1>8 DEF PushToolResult, FcPositionsUsed, clocks
  <2>. QED BY <2>2, <2>3 DEF Protocol!Answer
<1>9. CASE UNCHANGED vars
  BY <1>9 DEF vars, FcPositionsUsed, phase, Protocol!fcvars, clocks, calls
<1>. QED
  BY <1>1, <1>2, <1>3, <1>4, <1>5, <1>6, <1>7, <1>8, <1>9
     DEF Next, Tick, Protocol!Next

(* A stalling session, whatever its model emits, runs the function-calling *)
(* protocol: call, silence until the answer, the answer, then audio.       *)
THEOREM SessionImplementsProtocol ==
  ASSUME StallAfterEotc
  PROVE  Spec => ProtocolSpec
<1>1. Init => Protocol!Init
  BY ProtocolInit
<1>2. IInv /\ [Next]_vars => [Protocol!Next]_(Protocol!fcvars)
  BY ProtocolStep
<1>. QED BY <1>1, <1>2, StallInvariant, PTL DEF Spec, ProtocolSpec, Protocol!Spec
=============================================================================
