---------------------------- MODULE Delivery_proofs ----------------------------
(***************************************************************************)
(* Proofs about what the clients of the server receive: for any number of  *)
(* pieces, any recogniser and any timing of the thread.                    *)
(***************************************************************************)
EXTENDS Delivery, FiniteSetTheorems, SequenceTheorems, TLAPS

State    == [agent : Seq(Nat), fn : Seq(Nat), audio : Seq(Nat),
             asr : Seq(Token), lastSent : Seq(Token)]
Received == [agent : Seq(Nat), fn : Seq(Nat), audio : Seq(Nat),
             asr : Seq(Token \cup {Sep})]
Counts   == [agent : Nat, fn : Nat, audio : Nat, asr : Nat]
Reasons  == {"leftover", "interrupted", "repeated", "rewritten", "cut"}

-----------------------------------------------------------------------------
(* What the operators return.                                              *)

LEMMA MarkOf ==
  ASSUME NEW name, NEW holds PROVE Mark(name, holds) \subseteq {name}
  BY DEF Mark

LEMMA RestType ==
  ASSUME NEW S, NEW text \in Seq(S), NEW n \in Nat
  PROVE  Rest(text, n) \in Seq(S)
<1>1. \A i \in n + 1 .. Len(text) : text[i] \in S
  BY ElementOfSeq
<1> QED
  BY <1>1, SubSeqProperties DEF Rest

(* Leading full stops are counted, so a text without them is a text.       *)
LEMMA LStripType ==
  ASSUME NEW S, NEW text \in Seq(S)
  PROVE  LStrip(text) \in Seq(S)
<1> DEFINE I == {i \in 1..Len(text) : \A j \in 1..i : text[j] = Dot}
<1>1. IsFiniteSet(I)
  <2>1. IsFiniteSet(1..Len(text))
    BY FS_Interval
  <2> QED
    BY <2>1, FS_Subset
<1>2. LeadingDots(text) \in Nat
  BY <1>1, FS_CardinalityType DEF LeadingDots
<1> QED
  BY <1>2, RestType DEF LStrip, Rest

LEMMA HeardType ==
  ASSUME NEW e \in Heard PROVE e \in Seq(Token)
<1>1. CASE e = <<>>
  BY <1>1
<1>2. CASE e # <<>>
  <2>1. PICK c \in Token : e = <<c>>
    BY <1>2 DEF Heard
  <2> QED
    BY <2>1
<1> QED
  BY <1>1, <1>2

LEMMA MoreType ==
  ASSUME made \in Counts, NEW kinds
  PROVE  More(kinds) \in Counts
  BY DEF More, Counts

LEMMA TranscriptOf ==
  ASSUME NEW s \in State, NEW text \in Seq(Token)
  PROVE  /\ Transcript(s, text) \in State
         /\ Transcript(s, text).agent = s.agent
         /\ Transcript(s, text).fn = s.fn
         /\ Transcript(s, text).audio = s.audio
  BY DEF Transcript, State

LEMMA LatestOf ==
  ASSUME NEW s \in State, rnntQ \in Seq(Token)
  PROVE  /\ Latest(s) \in State
         /\ Latest(s).agent = s.agent
         /\ Latest(s).fn = s.fn
         /\ Latest(s).audio = s.audio
<1>1. LStrip(rnntQ) \in Seq(Token)
  BY LStripType
<1> QED
  BY <1>1 DEF Latest, State

LEMMA FlushOf ==
  ASSUME NEW s \in State, audioQ \in Seq(Nat)
  PROVE  /\ Flush(s) \in State
         /\ Flush(s).agent = s.agent
         /\ Flush(s).fn = s.fn
         /\ Flush(s).audio = IF result = "quit" THEN s.audio ELSE s.audio \o audioQ
<1>1. s.audio \o audioQ \in Seq(Nat)
  BY ConcatProperties DEF State
<1>2. CASE result = "quit"
  BY <1>2 DEF Flush
<1>3. CASE result # "quit"
  <2>1. Flush(s) = [s EXCEPT !.audio = s.audio \o audioQ]
    BY <1>3 DEF Flush
  <2> QED
    BY <1>1, <1>3, <2>1 DEF State
<1> QED
  BY <1>2, <1>3

LEMMA LogOutputOf ==
  ASSUME NEW s \in State, made \in Counts, NEW fn \in BOOLEAN
  PROVE  /\ LogOutput(s, fn) \in State
         /\ LogOutput(s, fn).agent = Append(s.agent, made.agent + 1)
         /\ LogOutput(s, fn).fn = IF fn THEN Append(s.fn, made.fn + 1) ELSE s.fn
         /\ LogOutput(s, fn).audio = Append(s.audio, made.audio + 1)
<1>1. /\ Append(s.agent, made.agent + 1) \in Seq(Nat)
      /\ Append(s.audio, made.audio + 1) \in Seq(Nat)
      /\ Append(s.fn, made.fn + 1) \in Seq(Nat)
      /\ s.fn \in Seq(Nat)
  BY DEF State, Counts
<1>2. (IF fn THEN Append(s.fn, made.fn + 1) ELSE s.fn) \in Seq(Nat)
  BY <1>1
<1>3. LogOutput(s, fn) =
        [s EXCEPT !.audio = Append(s.audio, made.audio + 1),
                  !.agent = Append(s.agent, made.agent + 1),
                  !.fn    = IF fn THEN Append(s.fn, made.fn + 1) ELSE s.fn]
  BY DEF LogOutput, State
<1> QED
  BY <1>1, <1>2, <1>3 DEF State

(* A state with another text in one of its fields.                         *)
LEMMA FieldsOf ==
  ASSUME NEW s \in State
  PROVE  /\ \A q \in Seq(Nat) :
              /\ [s EXCEPT !.fn = q] \in State
              /\ [s EXCEPT !.fn = q].fn = q
              /\ [s EXCEPT !.fn = q].agent = s.agent
              /\ [s EXCEPT !.fn = q].audio = s.audio
         /\ \A q \in Seq(Nat) :
              /\ [s EXCEPT !.audio = q] \in State
              /\ [s EXCEPT !.audio = q].audio = q
              /\ [s EXCEPT !.audio = q].agent = s.agent
              /\ [s EXCEPT !.audio = q].fn = s.fn
         /\ \A q \in Seq(Token) :
              /\ [s EXCEPT !.asr = q] \in State
              /\ [s EXCEPT !.asr = q].agent = s.agent
              /\ [s EXCEPT !.asr = q].fn = s.fn
              /\ [s EXCEPT !.asr = q].audio = s.audio
  BY DEF State

LEMMA CountsOf ==
  ASSUME NEW c \in Counts
  PROVE  /\ c.agent \in Nat /\ c.fn \in Nat /\ c.audio \in Nat
         /\ c.agent + 1 \in Nat /\ c.fn + 1 \in Nat /\ c.audio + 1 \in Nat
  BY DEF Counts

LEMMA AppendType ==
  ASSUME NEW text \in Seq(Nat), NEW n \in Nat
  PROVE  Append(text, n) \in Seq(Nat)
  BY AppendProperties

-----------------------------------------------------------------------------
(* Types                                                                   *)

Types ==
  /\ st \in State /\ got \in Received /\ made \in Counts /\ base \in Counts
  /\ pos \in [agent : Nat, fn : Nat, asr : Nat]
  /\ fnRead \in Seq(Nat) /\ audioQ \in Seq(Nat)
  /\ y \in Seq(Token) /\ bgY \in Seq(Token) /\ rnntQ \in Seq(Token)
  /\ past \in Seq(Token \cup {Sep})
  /\ marred \subseteq Reasons

Modes ==
  /\ pc \in {"idle", "chunk", "answer", "sending"}
  /\ open \in BOOLEAN /\ isLast \in BOOLEAN /\ quit \in BOOLEAN
  /\ blanks \in 0..ClearBlanks /\ bgBlanks \in 0..ClearBlanks
  /\ bg \in {"none", "running", "dying", "dead"}
  /\ result \in {"ok", "quit", "failed"}
  /\ fnRef \in {"none", "pool", "gone"}

LEMMA TypeOKParts == TypeOK <=> Types /\ Modes
  BY DEF TypeOK, Types, Modes, State, Received, Counts, Reasons

LEMMA InitType ==
  ASSUME Init PROVE Types /\ Modes
<1> USE DeliveryAssumption
<1>1. EmptyState \in State /\ Nothing \in Received /\ Zero \in Counts
      /\ NoPositions \in [agent : Nat, fn : Nat, asr : Nat]
  BY DEF EmptyState, Nothing, Zero, NoPositions, State, Received, Counts
<1>2. Types
  BY <1>1 DEF Init, Types, Reasons
<1>3. 0 \in 0..ClearBlanks
  BY DEF DeliveryAssumption
<1>4. Modes
  BY <1>3 DEF Init, Modes
<1> QED
  BY <1>2, <1>4

LEMMA CountBlanksType ==
  ASSUME NEW n \in 0..ClearBlanks, NEW quiet \in BOOLEAN
  PROVE  CountBlanks(n, quiet) \in 0..ClearBlanks
  BY DeliveryAssumption DEF CountBlanks

LEMMA ModesStep ==
  ASSUME Modes, [Next]_vars PROVE Modes'
<1> USE DeliveryAssumption DEF Modes, server, context, queues, thread, client, ghosts
<1>1. ASSUME StartStream PROVE Modes'
  BY <1>1 DEF StartStream
<1>2. ASSUME NEW last \in BOOLEAN, BeginChunk(last) PROVE Modes'
  BY <1>2 DEF BeginChunk
<1>3. ASSUME NEW last \in BOOLEAN, TakeResult(last) PROVE Modes'
  <2>1. blanks' \in 0..ClearBlanks
    <3>1. CASE UNCHANGED context
      BY <3>1
    <3>2. CASE blanks' = bgBlanks
      BY <3>2
    <3> QED
      BY <1>3, <3>1, <3>2 DEF TakeResult
  <2>2. 0 \in 0..ClearBlanks
    BY DEF DeliveryAssumption
  <2> QED
    BY <1>3, <2>1, <2>2 DEF TakeResult
<1>4. ASSUME NEW last \in BOOLEAN, NEW eos \in BOOLEAN, DuringCall(last, eos)
      PROVE  Modes'
  BY <1>4 DEF DuringCall
<1>5. ASSUME NEW e \in Heard, NEW quiet \in BOOLEAN, NEW fn \in BOOLEAN,
             NEW sotc \in BOOLEAN, Decode(e, quiet, fn, sotc)
      PROVE  Modes'
  <2>1. blanks' \in 0..ClearBlanks
    BY <1>5, CountBlanksType DEF Decode
  <2>2. CASE sotc
    BY <1>5, <2>1, <2>2 DEF Decode, StartThread
  <2>3. CASE ~sotc
    BY <1>5, <2>1, <2>3 DEF Decode
  <2> QED
    BY <2>2, <2>3
<1>6. CASE StepRaises
  BY <1>6 DEF StepRaises
<1>7. CASE ReadTexts
  BY <1>7 DEF ReadTexts
<1>8. CASE Send
  BY <1>8 DEF Send
<1>9. ASSUME NEW e \in Heard, NEW quiet \in BOOLEAN, ThreadHears(e, quiet)
      PROVE  Modes'
  BY <1>9, CountBlanksType DEF ThreadHears
<1>10. CASE ThreadSpeaks
  BY <1>10 DEF ThreadSpeaks
<1>11. CASE ThreadWrites
  BY <1>11 DEF ThreadWrites
<1>12. ASSUME NEW failed \in BOOLEAN, ThreadPublishes(failed) PROVE Modes'
  BY <1>12 DEF ThreadPublishes
<1>13. CASE ThreadDies
  BY <1>13 DEF ThreadDies
<1>14. CASE UNCHANGED vars
  BY <1>14 DEF vars
<1> QED
  BY <1>1, <1>2, <1>3, <1>4, <1>5, <1>6, <1>7, <1>8, <1>9, <1>10, <1>11, <1>12,
     <1>13, <1>14 DEF Next, Server, Thread

(* The pieces of audio that leave the queue, and those that stay.          *)
LEMMA DrainOf ==
  ASSUME Types, NEW s \in State, DrainAudio(s)
  PROVE  \E n \in 0..Len(audioQ) :
           /\ audioQ' = SubSeq(audioQ, n + 1, Len(audioQ))
           /\ st' = [s EXCEPT !.audio = s.audio \o SubSeq(audioQ, 1, n)]
           /\ audioQ' \in Seq(Nat) /\ SubSeq(audioQ, 1, n) \in Seq(Nat)
           /\ s.audio \o SubSeq(audioQ, 1, n) \in Seq(Nat)
           /\ st'.audio = s.audio \o SubSeq(audioQ, 1, n)
<1> DEFINE n == IF Len(audioQ) < DrainMax THEN Len(audioQ) ELSE DrainMax
<1>1. n \in 0..Len(audioQ) /\ audioQ \in Seq(Nat)
  BY DeliveryAssumption DEF Types
<1>2. /\ SubSeq(audioQ, 1, n) \in Seq(Nat)
      /\ SubSeq(audioQ, n + 1, Len(audioQ)) \in Seq(Nat)
  <2>1. \A i \in 1..Len(audioQ) : audioQ[i] \in Nat
    BY <1>1, ElementOfSeq
  <2> QED
    BY <1>1, <2>1, SubSeqProperties
<1>3. s.audio \o SubSeq(audioQ, 1, n) \in Seq(Nat)
  BY <1>2, ConcatProperties DEF State
<1>4. /\ st' = [s EXCEPT !.audio = s.audio \o SubSeq(audioQ, 1, n)]
      /\ audioQ' = SubSeq(audioQ, n + 1, Len(audioQ))
  BY DEF DrainAudio, State
<1> HIDE DEF n
<1>5. st'.audio = s.audio \o SubSeq(audioQ, 1, n)
  <2>1. \A q \in Seq(Nat) : [s EXCEPT !.audio = q].audio = q
    BY FieldsOf, Zenon
  <2> QED
    BY <1>3, <1>4, <2>1, Zenon
<1>6. audioQ' \in Seq(Nat)
  BY <1>2, <1>4, Zenon
<1> QED
  BY <1>1, <1>2, <1>3, <1>4, <1>5, <1>6, Zenon

LEMMA TypesStep ==
  ASSUME Types, [Next]_vars PROVE Types'
<1> USE DEF server, context, queues, thread, client, ghosts
<1>a. EmptyState \in State /\ Nothing \in Received
      /\ NoPositions \in [agent : Nat, fn : Nat, asr : Nat]
  BY DEF EmptyState, Nothing, NoPositions, State, Received
<1>b. \A name \in Reasons, holds \in BOOLEAN : Mark(name, holds) \subseteq Reasons
  BY DEF Mark
<1>1. ASSUME StartStream PROVE Types'
  BY <1>1, <1>a DEF StartStream, Types
<1>2. ASSUME NEW last \in BOOLEAN, BeginChunk(last) PROVE Types'
  BY <1>2 DEF BeginChunk, Types
<1>3. ASSUME NEW last \in BOOLEAN, TakeResult(last) PROVE Types'
  <2>1. Flush(st) \in State
    BY FlushOf DEF Types
  <2>2. st' \in State
    BY <1>3, <2>1, LatestOf DEF TakeResult, Types
  <2>3. marred' \subseteq Reasons
    BY <1>3 DEF TakeResult, Types, Rewritten, Mark, Reasons
  <2>4. y' \in Seq(Token)
    BY <1>3 DEF TakeResult, Types
  <2> QED
    BY <1>3, <2>2, <2>3, <2>4 DEF TakeResult, Types
<1>4. ASSUME NEW last \in BOOLEAN, NEW eos \in BOOLEAN, DuringCall(last, eos)
      PROVE  Types'
  <2>1. Latest(st) \in State
    BY LatestOf DEF Types
  <2>2. st' \in State /\ audioQ' \in Seq(Nat)
    <3>1. CASE quit' /\ audioQ' = <<>> /\ st' = Latest(st)
      BY <2>1, <3>1
    <3>2. CASE DrainAudio(Latest(st))
      BY <2>1, <3>2, DrainOf DEF State
    <3> QED
      BY <1>4, <3>1, <3>2 DEF DuringCall
  <2>3. marred' \subseteq Reasons
    BY <1>4 DEF DuringCall, Types, Rewritten, Mark, Reasons
  <2> QED
    BY <1>4, <2>2, <2>3 DEF DuringCall, Types
<1>5. ASSUME NEW e \in Heard, NEW quiet \in BOOLEAN, NEW fn \in BOOLEAN,
             NEW sotc \in BOOLEAN, Decode(e, quiet, fn, sotc)
      PROVE  Types'
  <2> DEFINE text == y \o e
             s    == Transcript(LogOutput(st, fn), text)
  <2>1. text \in Seq(Token)
    BY HeardType, ConcatProperties DEF Types
  <2>2. s \in State
    BY <2>1, LogOutputOf, TranscriptOf DEF Types
  <2>3. st' \in State /\ y' \in Seq(Token)
    <3>1. CASE Cleared(s, text)
      <4>1. st' = [s EXCEPT !.asr = <<>>] /\ y' = <<>>
        BY <3>1 DEF Cleared
      <4>2. <<>> \in Seq(Token)
        OBVIOUS
      <4> HIDE DEF s, text
      <4> QED
        BY <2>2, <4>1, <4>2, FieldsOf
    <3>2. CASE st' = s /\ y' = text
      BY <2>1, <2>2, <3>2
    <3> QED
      BY <1>5, <3>1, <3>2 DEF Decode
  <2>4. made' \in Counts
    BY <1>5, MoreType DEF Decode, Types
  <2>5. past' \in Seq(Token \cup {Sep})
    <3>1. text \in Seq(Token \cup {Sep}) /\ <<Sep>> \in Seq(Token \cup {Sep})
      BY <2>1
    <3>2. past \o text \o <<Sep>> \in Seq(Token \cup {Sep})
      BY <3>1, ConcatProperties DEF Types
    <3> QED
      BY <1>5, <3>2 DEF Decode, Types
  <2>6. marred' \subseteq Reasons
    BY <1>5 DEF Decode, Types, Mark, Reasons
  <2>7. bgY' \in Seq(Token) /\ rnntQ' \in Seq(Token) /\ audioQ' \in Seq(Nat)
    <3>1. CASE sotc
      BY <1>5, <2>3, <3>1 DEF Decode, StartThread
    <3>2. CASE ~sotc
      BY <1>5, <3>2 DEF Decode, Types
    <3> QED
      BY <3>1, <3>2
  <2> QED
    BY <1>5, <2>3, <2>4, <2>5, <2>6, <2>7 DEF Decode, Types
<1>6. CASE StepRaises
  BY <1>6 DEF StepRaises, Types, Mark, Reasons
<1>7. CASE ReadTexts
  BY <1>7 DEF ReadTexts, Types, State
<1>8. CASE Send
  <2>1. st' \in State /\ pos' \in [agent : Nat, fn : Nat, asr : Nat]
    <3>1. CASE DeleteState
      BY <1>a, <3>1 DEF DeleteState
    <3>2. CASE st' = CleanupAfterResponse /\ pos' = NewPositions
      <4>1. st \in State /\ fnRead \in Seq(Nat) /\ <<>> \in Seq(Nat)
        BY DEF Types
      <4>2. st' \in State
        BY <3>2, <4>1, FieldsOf DEF CleanupAfterResponse
      <4>3. st.agent \in Seq(Nat) /\ st.asr \in Seq(Token)
        BY <4>1 DEF State
      <4>4. Len(st.agent) \in Nat /\ Len(fnRead) \in Nat /\ Len(st.asr) \in Nat
        BY <4>1, <4>3, LenProperties
      <4> QED
        BY <3>2, <4>2, <4>4 DEF NewPositions
    <3> QED
      BY <1>8, <3>1, <3>2 DEF Send
  <2>2. got' \in Received
    <3>1. AsrDelta \in Seq(Token \cup {Sep})
      <4>1. Rest(st.asr, pos.asr) \in Seq(Token)
        BY RestType DEF Types, State
      <4> QED
        <5>1. Rest(st.asr, pos.asr) \in Seq(Token \cup {Sep})
          BY <4>1
        <5>2. <<Sep>> \in Seq(Token \cup {Sep})
          OBVIOUS
        <5> QED
          BY <5>1, <5>2 DEF AsrDelta
    <3>2. /\ Rest(st.agent, pos.agent) \in Seq(Nat)
          /\ Rest(fnRead, pos.fn) \in Seq(Nat)
      BY RestType DEF Types, State
    <3>3. /\ got.agent \o Rest(st.agent, pos.agent) \in Seq(Nat)
          /\ got.fn \o Rest(fnRead, pos.fn) \in Seq(Nat)
          /\ got.audio \o st.audio \in Seq(Nat)
          /\ got.asr \o AsrDelta \in Seq(Token \cup {Sep})
      BY <3>1, <3>2, ConcatProperties DEF Types, State, Received
    <3> QED
      BY <1>8, <3>3 DEF Send, Received
  <2>3. marred' \subseteq Reasons
    BY <1>8 DEF Send, Types, Mark, Reasons
  <2> QED
    BY <1>8, <2>1, <2>2, <2>3 DEF Send, Types
<1>9. ASSUME NEW e \in Heard, NEW quiet \in BOOLEAN, ThreadHears(e, quiet)
      PROVE  Types'
  <2>1. bgY' \in Seq(Token)
    BY <1>9, HeardType, ConcatProperties DEF ThreadHears, Types
  <2>2. made' \in Counts
    BY <1>9, MoreType DEF ThreadHears, Types
  <2> QED
    BY <1>9, <2>1, <2>2 DEF ThreadHears, Types
<1>10. CASE ThreadSpeaks
  <2>1. made' \in Counts
    BY <1>10, MoreType DEF ThreadSpeaks, Types
  <2>2. Append(audioQ, made.audio + 1) \in Seq(Nat)
    BY CountsOf, AppendType DEF Types
  <2> QED
    BY <1>10, <2>1, <2>2 DEF ThreadSpeaks, Types
<1>11. CASE ThreadWrites
  <2>1. made' \in Counts
    BY <1>11, MoreType DEF ThreadWrites, Types
  <2>2. st' \in State
    <3>1. st \in State /\ st.fn \in Seq(Nat)
      BY DEF Types, State
    <3>2. Append(st.fn, made.fn + 1) \in Seq(Nat)
      BY <3>1, CountsOf, AppendType DEF Types
    <3>3. CASE fnRef' = "pool"
      BY <1>11, <3>1, <3>2, <3>3, FieldsOf DEF ThreadWrites
    <3>4. CASE fnRef' # "pool"
      BY <1>11, <3>1, <3>4 DEF ThreadWrites
    <3> QED
      BY <3>3, <3>4
  <2> QED
    BY <1>11, <2>1, <2>2 DEF ThreadWrites, Types
<1>12. ASSUME NEW failed \in BOOLEAN, ThreadPublishes(failed) PROVE Types'
  BY <1>12 DEF ThreadPublishes, Types
<1>13. CASE ThreadDies
  BY <1>13 DEF ThreadDies, Types
<1>14. CASE UNCHANGED vars
  BY <1>14 DEF vars, Types
<1> QED
  BY <1>1, <1>2, <1>3, <1>4, <1>5, <1>6, <1>7, <1>8, <1>9, <1>10, <1>11, <1>12,
     <1>13, <1>14 DEF Next, Server, Thread

-----------------------------------------------------------------------------
(* The life of a stream id: between a stream and the next one with its id  *)
(* nothing is kept, unless an end was missed.                              *)

Life ==
  /\ pc # "idle" => open
  /\ "leftover" \in marred => ~open
  /\ pc = "chunk" => bg = "none"
  /\ bg = "none" => fnRef = "none" /\ audioQ = <<>>
  /\ fnRef = "gone" => "leftover" \in marred
  /\ ~open /\ "leftover" \notin marred
       => st = EmptyState /\ pos = NoPositions /\ bg = "none"

(* The mark "leftover" is only set when a stream ends, and only a new      *)
(* stream takes a mark away.                                               *)
LEMMA MarksStep ==
  ASSUME [Next]_vars
  PROVE  /\ StartStream \/ marred \subseteq marred'
         /\ "leftover" \in marred' /\ "leftover" \notin marred
              => StepRaises \/ Send
<1> USE DEF server, context, queues, thread, client, ghosts
<1>1. CASE StartStream
  BY <1>1 DEF StartStream
<1>2. ASSUME NEW last \in BOOLEAN, BeginChunk(last) PROVE marred' = marred
  BY <1>2 DEF BeginChunk
<1>3. ASSUME NEW last \in BOOLEAN, TakeResult(last)
      PROVE  marred \subseteq marred' /\ marred' \subseteq marred \cup (Reasons \ {"leftover"})
  BY <1>3 DEF TakeResult, Rewritten, Mark, Reasons
<1>4. ASSUME NEW last \in BOOLEAN, NEW eos \in BOOLEAN, DuringCall(last, eos)
      PROVE  marred \subseteq marred' /\ marred' \subseteq marred \cup (Reasons \ {"leftover"})
  BY <1>4 DEF DuringCall, Rewritten, Mark, Reasons
<1>5. ASSUME NEW e \in Heard, NEW quiet \in BOOLEAN, NEW fn \in BOOLEAN,
             NEW sotc \in BOOLEAN, Decode(e, quiet, fn, sotc)
      PROVE  marred \subseteq marred' /\ marred' \subseteq marred \cup (Reasons \ {"leftover"})
  BY <1>5 DEF Decode, Mark, Reasons
<1>6. CASE StepRaises
  BY <1>6 DEF StepRaises
<1>7. CASE ReadTexts
  BY <1>7 DEF ReadTexts
<1>8. CASE Send
  BY <1>8 DEF Send
<1>9. ASSUME NEW e \in Heard, NEW quiet \in BOOLEAN, ThreadHears(e, quiet)
      PROVE  marred' = marred
  BY <1>9 DEF ThreadHears
<1>10. CASE ThreadSpeaks
  BY <1>10 DEF ThreadSpeaks
<1>11. CASE ThreadWrites
  BY <1>11 DEF ThreadWrites
<1>12. ASSUME NEW failed \in BOOLEAN, ThreadPublishes(failed) PROVE marred' = marred
  BY <1>12 DEF ThreadPublishes
<1>13. CASE ThreadDies
  BY <1>13 DEF ThreadDies
<1>14. CASE UNCHANGED vars
  BY <1>14 DEF vars
<1> QED
  BY <1>1, <1>2, <1>3, <1>4, <1>5, <1>6, <1>7, <1>8, <1>9, <1>10, <1>11, <1>12,
     <1>13, <1>14 DEF Next, Server, Thread

LEMMA LifeStep ==
  ASSUME Types, Life, [Next]_vars PROVE Life'
<1> USE DEF server, context, queues, thread, client, ghosts
<1>m. /\ StartStream \/ marred \subseteq marred'
      /\ "leftover" \in marred' /\ "leftover" \notin marred => StepRaises \/ Send
  BY MarksStep
<1>1. ASSUME StartStream PROVE Life'
  BY <1>1 DEF StartStream, Life
<1>2. ASSUME NEW last \in BOOLEAN, BeginChunk(last) PROVE Life'
  BY <1>2 DEF BeginChunk, Life, Tracked
<1>3. ASSUME NEW last \in BOOLEAN, TakeResult(last) PROVE Life'
  <2>1. ~StepRaises /\ ~Send /\ ~StartStream
    BY <1>3 DEF TakeResult, StepRaises, Send, StartStream
  <2>2. "leftover" \in marred' <=> "leftover" \in marred
    BY <1>m, <2>1
  <2>3. /\ open /\ open' /\ pc' = "chunk" /\ bg' = "none" /\ fnRef' = "none"
        /\ audioQ' = <<>>
    BY <1>3 DEF TakeResult
  <2> QED
    BY <2>2, <2>3 DEF Life
<1>4. ASSUME NEW last \in BOOLEAN, NEW eos \in BOOLEAN, DuringCall(last, eos)
      PROVE  Life'
  <2>1. ~StepRaises /\ ~Send /\ ~StartStream
    BY <1>4 DEF DuringCall, StepRaises, Send, StartStream
  <2>2. "leftover" \in marred' <=> "leftover" \in marred
    BY <1>m, <2>1
  <2>3. /\ open /\ open' /\ pc' = "answer" /\ bg' = bg /\ bg # "none"
        /\ fnRef' = fnRef
    BY <1>4 DEF DuringCall
  <2> QED
    BY <2>2, <2>3 DEF Life
<1>5. ASSUME NEW e \in Heard, NEW quiet \in BOOLEAN, NEW fn \in BOOLEAN,
             NEW sotc \in BOOLEAN, Decode(e, quiet, fn, sotc)
      PROVE  Life'
  <2>1. ~StepRaises /\ ~Send /\ ~StartStream
    BY <1>5 DEF Decode, StepRaises, Send, StartStream
  <2>2. "leftover" \in marred' <=> "leftover" \in marred
    BY <1>m, <2>1
  <2>3. open /\ open' /\ pc' = "answer"
    BY <1>5 DEF Decode, Life
  <2>4. \/ bg' = "running" /\ fnRef' = "none"
        \/ bg' = bg /\ fnRef' = fnRef /\ audioQ' = audioQ
    BY <1>5 DEF Decode, StartThread
  <2> QED
    BY <2>2, <2>3, <2>4 DEF Life
<1>6. CASE StepRaises
  BY <1>6 DEF StepRaises, Life, Mark
<1>7. CASE ReadTexts
  BY <1>7 DEF ReadTexts, Life
<1>8. CASE Send
  <2>1. CASE isLast
    BY <1>8, <2>1 DEF Send, Life, DeleteState, Tracked, Mark
  <2>2. CASE ~isLast
    BY <1>8, <2>2 DEF Send, Life, Mark
  <2> QED
    BY <2>1, <2>2
<1>9. ASSUME NEW e \in Heard, NEW quiet \in BOOLEAN, ThreadHears(e, quiet)
      PROVE  Life'
  BY <1>9 DEF ThreadHears, Life
<1>10. CASE ThreadSpeaks
  BY <1>10 DEF ThreadSpeaks, Life
<1>11. CASE ThreadWrites
  BY <1>11 DEF ThreadWrites, Life
<1>12. ASSUME NEW failed \in BOOLEAN, ThreadPublishes(failed) PROVE Life'
  BY <1>12 DEF ThreadPublishes, Life
<1>13. CASE ThreadDies
  BY <1>13 DEF ThreadDies, Life
<1>14. CASE UNCHANGED vars
  BY <1>14 DEF vars, Life
<1> QED
  BY <1>1, <1>2, <1>3, <1>4, <1>5, <1>6, <1>7, <1>8, <1>9, <1>10, <1>11, <1>12,
     <1>13, <1>14 DEF Next, Server, Thread

-----------------------------------------------------------------------------
(* Sequences that are sent piece by piece.                                 *)

(* Predicates over sequences, so that a lemma is found by its name.        *)
Associates(s, t, u) == (s \o t) \o u = s \o (t \o u)

LEMMA Assoc ==
  ASSUME NEW s \in Seq(Nat), NEW t \in Seq(Nat), NEW u \in Seq(Nat)
  PROVE  Associates(s, t, u)
  BY SMTT(40) DEF Associates

LEMMA RestOf ==
  ASSUME NEW text \in Seq(Nat), NEW n \in 0..Len(text)
  PROVE  /\ Rest(text, n) \in Seq(Nat)
         /\ Len(Rest(text, n)) = Len(text) - n
         /\ \A i \in 1 .. Len(text) - n : Rest(text, n)[i] = text[i + n]
<1>1. \A i \in n + 1 .. Len(text) : text[i] \in Nat
  BY ElementOfSeq
<1>2. Len(text) \in Nat
  BY LenProperties
<1>3. n + 1 \in Int /\ Len(text) \in Int
  BY <1>2
<1>4. /\ Rest(text, n) \in Seq(Nat)
      /\ Len(Rest(text, n))
           = IF n + 1 <= Len(text) THEN Len(text) - (n + 1) + 1 ELSE 0
      /\ \A i \in 1 .. Len(text) - (n + 1) + 1 :
           Rest(text, n)[i] = text[(n + 1) + i - 1]
  BY <1>1, <1>3, SubSeqProperties DEF Rest
<1>5. n \in Int /\ n <= Len(text)
  BY <1>2
<1>6. /\ (IF n + 1 <= Len(text) THEN Len(text) - (n + 1) + 1 ELSE 0) = Len(text) - n
      /\ Len(text) - (n + 1) + 1 = Len(text) - n
      /\ \A i \in 1 .. Len(text) - n : (n + 1) + i - 1 = i + n
  <2> DEFINE k == Len(text)
  <2>1. k \in Int /\ n \in Int /\ n <= k
    BY <1>2, <1>5
  <2> HIDE DEF k
  <2>2. k - (n + 1) + 1 = k - n
    BY <2>1, SMTT(40)
  <2>3. (IF n + 1 <= k THEN k - (n + 1) + 1 ELSE 0) = k - n
    <3>1. CASE n + 1 <= k
      BY <2>2, <3>1
    <3>2. CASE ~(n + 1 <= k)
      BY <2>1, <3>2, SMTT(40)
    <3> QED
      BY <3>1, <3>2
  <2>4. ASSUME NEW i \in 1 .. k - n
        PROVE  (n + 1) + i - 1 = i + n
    BY <2>1, SMTT(40)
  <2> QED
    BY <2>2, <2>3, <2>4 DEF k
<1>7. Len(Rest(text, n)) = Len(text) - n
  BY <1>4, <1>6, Zenon
<1>8. ASSUME NEW i \in 1 .. Len(text) - n
      PROVE  Rest(text, n)[i] = text[i + n]
  <2>1. i \in 1 .. Len(text) - (n + 1) + 1
    BY <1>6, Zenon
  <2>2. Rest(text, n)[i] = text[(n + 1) + i - 1]
    BY <1>4, <2>1, Zenon
  <2>3. (n + 1) + i - 1 = i + n
    BY <1>6, Zenon
  <2> QED
    BY <2>2, <2>3, Zenon
<1> QED
  BY <1>4, <1>7, <1>8, Zenon

LEMMA CountedUpOf ==
  ASSUME NEW b \in Nat, NEW m \in Nat, b <= m
  PROVE  /\ CountedUp(b, m) \in Seq(Nat)
         /\ Len(CountedUp(b, m)) = m - b
         /\ \A i \in 1 .. m - b : CountedUp(b, m)[i] = b + i
<1>1. m - b \in Nat
  OBVIOUS
<1>2. CountedUp(b, m) \in [1 .. m - b -> Nat]
  BY DEF CountedUp
<1> QED
  BY <1>1, <1>2 DEF CountedUp

LEMMA CountedUpNext ==
  ASSUME NEW b \in Nat, NEW m \in Nat, b <= m
  PROVE  CountedUp(b, m + 1) = Append(CountedUp(b, m), m + 1)
<1>1. /\ CountedUp(b, m) \in Seq(Nat) /\ Len(CountedUp(b, m)) = m - b
      /\ \A i \in 1 .. m - b : CountedUp(b, m)[i] = b + i
  BY CountedUpOf
<1>2. /\ CountedUp(b, m + 1) \in Seq(Nat) /\ Len(CountedUp(b, m + 1)) = m + 1 - b
      /\ \A i \in 1 .. m + 1 - b : CountedUp(b, m + 1)[i] = b + i
  BY CountedUpOf
<1> DEFINE l == CountedUp(b, m)
           r == CountedUp(b, m + 1)
<1>3. /\ Append(l, m + 1) \in Seq(Nat) /\ Len(Append(l, m + 1)) = m - b + 1
      /\ \A i \in 1 .. m - b : Append(l, m + 1)[i] = b + i
      /\ Append(l, m + 1)[m - b + 1] = m + 1
  BY <1>1, AppendProperties
<1> HIDE DEF l, r
<1>4. \A i \in 1 .. m - b + 1 : Append(l, m + 1)[i] = b + i
  BY <1>3
<1>5. r \in Seq(Nat) /\ Len(r) = m - b + 1 /\ \A i \in 1 .. m - b + 1 : r[i] = b + i
  BY <1>2 DEF r
<1>6. r = Append(l, m + 1)
  BY <1>3, <1>4, <1>5, SeqEqual, SMTT(40)
<1> QED
  BY <1>6 DEF l, r

LEMMA RestAppend ==
  ASSUME NEW text \in Seq(Nat), NEW n \in 0..Len(text), NEW x \in Nat
  PROVE  Rest(Append(text, x), n) = Append(Rest(text, n), x)
<1> DEFINE long == Append(text, x)
           rest == Rest(text, n)
           more == Append(rest, x)
           N    == Len(text) - n
<1>1. Len(text) \in Nat /\ N \in Nat /\ n \in Nat
  BY LenProperties
<1>2. /\ long \in Seq(Nat) /\ Len(long) = Len(text) + 1
      /\ \A i \in 1..Len(text) : long[i] = text[i]
      /\ long[Len(text) + 1] = x
  BY AppendProperties
<1>3. /\ rest \in Seq(Nat) /\ Len(rest) = N
      /\ \A i \in 1..N : rest[i] = text[i + n]
  BY RestOf
<1> HIDE DEF long, rest
<1>4. /\ Rest(long, n) \in Seq(Nat) /\ Len(Rest(long, n)) = N + 1
      /\ \A i \in 1 .. N + 1 : Rest(long, n)[i] = long[i + n]
  <2>1. n \in 0..Len(long) /\ Len(long) - n = N + 1
    BY <1>1, <1>2
  <2>2. /\ Rest(long, n) \in Seq(Nat) /\ Len(Rest(long, n)) = Len(long) - n
        /\ \A i \in 1 .. Len(long) - n : Rest(long, n)[i] = long[i + n]
    BY <1>2, <2>1, RestOf
  <2> HIDE DEF N
  <2> QED
    BY <2>1, <2>2
<1>5. /\ more \in Seq(Nat) /\ Len(more) = N + 1
      /\ \A i \in 1..N : more[i] = rest[i]
      /\ more[N + 1] = x
  BY <1>3, AppendProperties
<1>6. N + 1 + n = Len(text) + 1 /\ \A i \in 1..N : i + n \in 1..Len(text)
  BY <1>1
<1> HIDE DEF more, N
<1>7. ASSUME NEW i \in 1 .. N + 1 PROVE Rest(long, n)[i] = more[i]
  <2>1. CASE i \in 1..N
    <3>1. long[i + n] = text[i + n]
      BY <1>2, <1>6, <2>1
    <3> QED
      BY <1>3, <1>4, <1>5, <2>1, <3>1
  <2>2. CASE i = N + 1
    <3>1. long[i + n] = x
      BY <1>2, <1>6, <2>2
    <3> QED
      BY <1>4, <1>5, <2>2, <3>1
  <2> QED
    BY <1>1, <2>1, <2>2
<1>8. Rest(long, n) = more
  BY <1>4, <1>5, <1>7, SeqEqual
<1> QED
  BY <1>8 DEF long, rest, more

LEMMA ConcatAppend ==
  ASSUME NEW a \in Seq(Nat), NEW b \in Seq(Nat), NEW x \in Nat
  PROVE  a \o Append(b, x) = Append(a \o b, x)
<1>1. <<x>> \in Seq(Nat) /\ a \o b \in Seq(Nat)
  BY ConcatProperties
<1>2. Append(b, x) = b \o <<x>> /\ Append(a \o b, x) = (a \o b) \o <<x>>
  BY <1>1, AppendIsConcat
<1>3. Associates(a, b, <<x>>)
  BY <1>1, Assoc, Zenon
<1> QED
  BY <1>2, <1>3, Zenon DEF Associates

(* A response sends what was read of the text; more may be written to it   *)
(* while it does.                                                          *)
LEMMA SentSoFar ==
  ASSUME NEW sent \in Seq(Nat), NEW text \in Seq(Nat), NEW k \in 0..Len(text),
         NEW p \in 0..k
  PROVE  (sent \o Rest(SubSeq(text, 1, k), p)) \o Rest(text, k) = sent \o Rest(text, p)
<1> DEFINE read == SubSeq(text, 1, k)
           new  == Rest(read, p)
           late == Rest(text, k)
           all  == Rest(text, p)
           M    == k - p
           N    == Len(text) - p
<1>1. /\ Len(text) \in Nat /\ p \in 0..Len(text) /\ k \in Nat /\ p \in Nat
      /\ M \in Nat /\ N \in Nat /\ M <= N /\ N - M = Len(text) - k
  BY LenProperties
<1>2. read \in Seq(Nat) /\ Len(read) = k /\ \A i \in 1..k : read[i] = text[i]
  <2>1. \A i \in 1..k : text[i] \in Nat
    BY <1>1, ElementOfSeq
  <2> QED
    BY <1>1, <2>1, SubSeqProperties
<1> HIDE DEF read
<1>3. new \in Seq(Nat) /\ Len(new) = M /\ \A i \in 1..M : new[i] = read[i + p]
  <2>1. p \in 0..Len(read)
    BY <1>2
  <2>2. /\ new \in Seq(Nat) /\ Len(new) = Len(read) - p
        /\ \A i \in 1 .. Len(read) - p : new[i] = read[i + p]
    BY <1>2, <2>1, RestOf
  <2> QED
    BY <1>2, <2>2
<1>4. /\ late \in Seq(Nat) /\ Len(late) = Len(text) - k
      /\ \A i \in 1 .. Len(text) - k : late[i] = text[i + k]
  BY RestOf
<1>5. all \in Seq(Nat) /\ Len(all) = N /\ \A i \in 1..N : all[i] = text[i + p]
  BY <1>1, RestOf
<1>6. \A i \in 1..M : i + p \in 1..k
  BY <1>1
<1>7. \A i \in 1..N : i > M =>
        i - M \in 1 .. Len(text) - k /\ (i - M) + k = i + p
  BY <1>1
<1> HIDE DEF new, late, all, M, N
<1>8. /\ new \o late \in Seq(Nat) /\ Len(new \o late) = N
      /\ \A i \in 1..N : (new \o late)[i] = IF i <= M THEN new[i] ELSE late[i - M]
  <2>1. /\ new \o late \in Seq(Nat) /\ Len(new \o late) = Len(new) + Len(late)
        /\ \A i \in 1 .. Len(new) + Len(late) :
             (new \o late)[i] = IF i <= Len(new) THEN new[i] ELSE late[i - Len(new)]
    BY <1>3, <1>4, ConcatProperties
  <2>2. Len(new) = M /\ Len(new) + Len(late) = N
    BY <1>1, <1>3, <1>4
  <2> QED
    BY <2>1, <2>2
<1>9. ASSUME NEW i \in 1..N PROVE (new \o late)[i] = all[i]
  <2>1. CASE i <= M
    <3>1. i \in 1..M
      BY <1>1, <2>1
    <3> QED
      BY <1>2, <1>3, <1>5, <1>6, <1>8, <2>1, <3>1
  <2>2. CASE i > M
    <3>1. late[i - M] = text[i + p]
      BY <1>4, <1>7, <2>2
    <3>2. ~(i <= M)
      BY <1>1, <2>2
    <3> QED
      BY <1>5, <1>8, <3>1, <3>2
  <2>3. i <= M \/ i > M
    BY <1>1
  <2> QED
    BY <2>1, <2>2, <2>3
<1>10. new \o late = all
  BY <1>5, <1>8, <1>9, SeqEqual
<1>11. Associates(sent, new, late)
  BY <1>3, <1>4, Assoc, Zenon
<1> QED
  BY <1>10, <1>11, Zenon DEF Associates, new, late, all, read

-----------------------------------------------------------------------------
(* What a step does to the agent's text, the function text and the audio.  *)

Decoded(fn) ==
  /\ pc # "sending" /\ pc' # "sending"
  /\ UNCHANGED <<pos, fnRead, got, base>> /\ marred \subseteq marred'
  /\ st'.agent = Append(st.agent, made.agent + 1) /\ made'.agent = made.agent + 1
  /\ st'.audio = Append(st.audio, made.audio + 1) /\ made'.audio = made.audio + 1
  /\ audioQ = <<>> /\ audioQ' = <<>>
  /\ IF fn
     THEN st'.fn = Append(st.fn, made.fn + 1) /\ made'.fn = made.fn + 1
     ELSE st'.fn = st.fn /\ made'.fn = made.fn

Wrote ==
  /\ UNCHANGED <<pc, bg, pos, fnRead, got, base, marred, audioQ>>
  /\ st'.agent = st.agent /\ st'.audio = st.audio
  /\ made'.agent = made.agent /\ made'.audio = made.audio
  /\ made'.fn = made.fn + 1
  /\ \/ st'.fn = Append(st.fn, made.fn + 1)
     \/ st'.fn = st.fn /\ fnRef = "gone"
  /\ bg # "none"

TextsKept ==
  /\ UNCHANGED <<pos, fnRead, got, base>> /\ marred \subseteq marred'
  /\ st'.agent = st.agent /\ st'.fn = st.fn
  /\ made'.agent = made.agent /\ made'.fn = made.fn
  /\ made.audio <= made'.audio
  /\ pc' = "sending" => pc = "sending" /\ (bg' = "none" => bg = "none")

LEMMA MoreOf ==
  ASSUME made \in Counts, NEW kinds
  PROVE  /\ More(kinds).agent = IF "agent" \in kinds THEN made.agent + 1 ELSE made.agent
         /\ More(kinds).fn    = IF "fn" \in kinds THEN made.fn + 1 ELSE made.fn
         /\ More(kinds).audio = IF "audio" \in kinds THEN made.audio + 1 ELSE made.audio
<1>1. /\ made.agent \in Nat /\ made.fn \in Nat /\ made.audio \in Nat
      /\ DOMAIN made = {"agent", "fn", "audio", "asr"}
  BY DEF Counts
<1>2. /\ More(kinds).agent = made.agent + (IF "agent" \in kinds THEN 1 ELSE 0)
      /\ More(kinds).fn    = made.fn + (IF "fn" \in kinds THEN 1 ELSE 0)
      /\ More(kinds).audio = made.audio + (IF "audio" \in kinds THEN 1 ELSE 0)
  BY <1>1 DEF More
<1> QED
  BY <1>1, <1>2

LEMMA DecodeChanges ==
  ASSUME Types, Life, NEW e \in Heard, NEW quiet \in BOOLEAN, NEW fn \in BOOLEAN,
         NEW sotc \in BOOLEAN, Decode(e, quiet, fn, sotc)
  PROVE  Decoded(fn)
<1> USE DEF server, context, queues, thread, client, ghosts
<1> DEFINE log == LogOutput(st, fn)
           s   == Transcript(log, y \o e)
<1>1. y \o e \in Seq(Token) /\ st \in State /\ made \in Counts
  BY HeardType, ConcatProperties DEF Types
<1>2. /\ log \in State
      /\ log.agent = Append(st.agent, made.agent + 1)
      /\ log.fn = IF fn THEN Append(st.fn, made.fn + 1) ELSE st.fn
      /\ log.audio = Append(st.audio, made.audio + 1)
  BY <1>1, LogOutputOf
<1> HIDE DEF log
<1>3. /\ s \in State /\ s.agent = log.agent /\ s.fn = log.fn /\ s.audio = log.audio
  BY <1>1, <1>2, TranscriptOf
<1>4. st' = s \/ st' = [s EXCEPT !.asr = <<>>]
  BY DEF Decode, Cleared, log
<1> HIDE DEF s
<1>5. /\ st'.agent = log.agent /\ st'.fn = log.fn /\ st'.audio = log.audio
  <2>1. CASE st' = s
    BY <1>3, <2>1
  <2>2. CASE st' = [s EXCEPT !.asr = <<>>]
    <3>1. <<>> \in Seq(Token)
      OBVIOUS
    <3>2. /\ st'.agent = s.agent /\ st'.fn = s.fn /\ st'.audio = s.audio
      BY <1>3, <2>2, <3>1, FieldsOf
    <3> QED
      BY <1>3, <3>2
  <2> QED
    BY <1>4, <2>1, <2>2
<1>6. made' = More({"audio", "agent"} \cup Mark("fn", fn) \cup Mark("asr", e # <<>>))
  BY DEF Decode
<1>7. /\ made'.agent = made.agent + 1 /\ made'.audio = made.audio + 1
      /\ made'.fn = IF fn THEN made.fn + 1 ELSE made.fn
  <2> DEFINE kinds == {"audio", "agent"} \cup Mark("fn", fn) \cup Mark("asr", e # <<>>)
  <2>1. "agent" \in kinds /\ "audio" \in kinds /\ ("fn" \in kinds <=> fn)
    BY DEF Mark
  <2> HIDE DEF kinds
  <2>2. made' = More(kinds)
    BY <1>6 DEF kinds
  <2> QED
    BY <1>1, <2>1, <2>2, MoreOf
<1>8. audioQ = <<>> /\ audioQ' = <<>>
  <2>1. audioQ = <<>>
    BY DEF Decode, Life
  <2> QED
    BY <2>1 DEF Decode, StartThread
<1>9. /\ pc # "sending" /\ pc' # "sending"
      /\ UNCHANGED <<pos, fnRead, got, base>> /\ marred \subseteq marred'
  BY DEF Decode
<1> QED
  BY <1>2, <1>5, <1>7, <1>8, <1>9 DEF Decoded

LEMMA WriteChanges ==
  ASSUME Types, Modes, ThreadWrites PROVE Wrote
<1> USE DEF server, context, queues, thread, client, ghosts
<1>1. st \in State /\ made \in Counts /\ Append(st.fn, made.fn + 1) \in Seq(Nat)
  <2>1. st \in State /\ st.fn \in Seq(Nat) /\ made \in Counts
    BY DEF Types, State
  <2> QED
    BY <2>1, CountsOf, AppendType
<1>2. /\ made'.agent = made.agent /\ made'.audio = made.audio
      /\ made'.fn = made.fn + 1
  BY <1>1, MoreOf DEF ThreadWrites
<1>3. \/ st' = [st EXCEPT !.fn = Append(st.fn, made.fn + 1)]
      \/ st' = st /\ fnRef' # "pool"
  BY DEF ThreadWrites
<1>4. fnRef' # "pool" => fnRef = "gone"
  BY DEF ThreadWrites, Modes
<1>5. /\ st'.agent = st.agent /\ st'.audio = st.audio
      /\ \/ st'.fn = Append(st.fn, made.fn + 1)
         \/ st'.fn = st.fn /\ fnRef = "gone"
  <2>1. CASE st' = [st EXCEPT !.fn = Append(st.fn, made.fn + 1)]
    BY <1>1, <2>1, FieldsOf
  <2>2. CASE st' = st /\ fnRef' # "pool"
    BY <1>4, <2>2
  <2> QED
    BY <1>3, <2>1, <2>2
<1> QED
  BY <1>2, <1>5 DEF ThreadWrites, Wrote

LEMMA OtherChanges ==
  ASSUME Types, [Next]_vars,
         ~StartStream, ~Send, ~ReadTexts, ~ThreadWrites,
         ~ \E e \in Heard, quiet, fn, sotc \in BOOLEAN : Decode(e, quiet, fn, sotc)
  PROVE  TextsKept
<1> USE DEF server, context, queues, thread, client, ghosts
<1>a. st \in State /\ made \in Counts /\ rnntQ \in Seq(Token) /\ audioQ \in Seq(Nat)
  BY DEF Types
<1>b. made.audio <= made.audio
  BY <1>a, CountsOf
<1>m. marred \subseteq marred'
  BY MarksStep
<1>2. ASSUME NEW last \in BOOLEAN, BeginChunk(last) PROVE TextsKept
  BY <1>2, <1>b, <1>m DEF BeginChunk, TextsKept
<1>3. ASSUME NEW last \in BOOLEAN, TakeResult(last) PROVE TextsKept
  <2>1. /\ Flush(st) \in State /\ Flush(st).agent = st.agent /\ Flush(st).fn = st.fn
    BY <1>a, FlushOf
  <2>2. st'.agent = st.agent /\ st'.fn = st.fn
    BY <1>3, <1>a, <2>1, LatestOf DEF TakeResult
  <2> QED
    BY <1>3, <1>b, <1>m, <2>2 DEF TakeResult, TextsKept
<1>4. ASSUME NEW last \in BOOLEAN, NEW eos \in BOOLEAN, DuringCall(last, eos)
      PROVE  TextsKept
  <2>1. Latest(st) \in State /\ Latest(st).agent = st.agent /\ Latest(st).fn = st.fn
    BY <1>a, LatestOf
  <2>2. st'.agent = st.agent /\ st'.fn = st.fn
    <3>1. CASE st' = Latest(st)
      BY <2>1, <3>1
    <3>2. CASE DrainAudio(Latest(st))
      <4>1. PICK n \in 0..Len(audioQ) :
              /\ st' = [Latest(st) EXCEPT
                          !.audio = Latest(st).audio \o SubSeq(audioQ, 1, n)]
              /\ Latest(st).audio \o SubSeq(audioQ, 1, n) \in Seq(Nat)
        BY <2>1, <3>2, DrainOf
      <4> QED
        BY <2>1, <4>1, FieldsOf
    <3> QED
      BY <1>4, <3>1, <3>2 DEF DuringCall
  <2> QED
    BY <1>4, <1>b, <1>m, <2>2 DEF DuringCall, TextsKept
<1>6. CASE StepRaises
  BY <1>6, <1>b, <1>m DEF StepRaises, TextsKept
<1>9. ASSUME NEW e \in Heard, NEW quiet \in BOOLEAN, ThreadHears(e, quiet)
      PROVE  TextsKept
  <2>1. /\ made'.agent = made.agent /\ made'.fn = made.fn
        /\ made'.audio = made.audio
    <3>1. /\ "agent" \notin Mark("asr", e # <<>>)
          /\ "fn" \notin Mark("asr", e # <<>>)
          /\ "audio" \notin Mark("asr", e # <<>>)
      BY DEF Mark
    <3> QED
      BY <1>9, <1>a, <3>1, MoreOf DEF ThreadHears
  <2> QED
    BY <1>9, <1>b, <1>m, <2>1 DEF ThreadHears, TextsKept
<1>10. CASE ThreadSpeaks
  <2>1. /\ made'.agent = made.agent /\ made'.fn = made.fn
        /\ made'.audio = made.audio + 1
    BY <1>10, <1>a, MoreOf DEF ThreadSpeaks
  <2>2. made.audio <= made'.audio
    BY <1>a, <2>1, CountsOf
  <2> QED
    BY <1>10, <1>m, <2>1, <2>2 DEF ThreadSpeaks, TextsKept
<1>12. ASSUME NEW failed \in BOOLEAN, ThreadPublishes(failed) PROVE TextsKept
  BY <1>12, <1>b, <1>m DEF ThreadPublishes, TextsKept
<1>13. CASE ThreadDies
  BY <1>13, <1>b, <1>m DEF ThreadDies, TextsKept
<1>14. CASE UNCHANGED vars
  BY <1>14, <1>b, <1>m DEF vars, TextsKept
<1> QED
  BY <1>2, <1>3, <1>4, <1>6, <1>9, <1>10, <1>12, <1>13, <1>14 DEF Next, Server, Thread

LEMMA Changes ==
  ASSUME Types, Modes, Life, [Next]_vars
  PROVE  \/ StartStream \/ Send \/ ReadTexts \/ Wrote \/ TextsKept
         \/ \E fn \in BOOLEAN : Decoded(fn)
  BY DecodeChanges, WriteChanges, OtherChanges

-----------------------------------------------------------------------------
(* Texts: positions stay inside the texts, and what a response read of the *)
(* function text is a prefix of it.                                        *)

Cursor ==
  /\ pos.agent <= Len(st.agent) /\ pos.fn <= Len(st.fn)
  /\ pc = "sending" =>
       /\ pos.fn <= Len(fnRead) /\ Len(fnRead) <= Len(st.fn)
       /\ fnRead = SubSeq(st.fn, 1, Len(fnRead))
       /\ bg = "none" => fnRead = st.fn
  /\ base.agent <= made.agent /\ base.fn <= made.fn /\ base.audio <= made.audio

LEMMA TypesNumbers ==
  ASSUME Types
  PROVE  /\ st.agent \in Seq(Nat) /\ st.fn \in Seq(Nat) /\ st.audio \in Seq(Nat)
         /\ got.agent \in Seq(Nat) /\ got.fn \in Seq(Nat) /\ got.audio \in Seq(Nat)
         /\ fnRead \in Seq(Nat) /\ audioQ \in Seq(Nat)
         /\ Len(st.agent) \in Nat /\ Len(st.fn) \in Nat /\ Len(fnRead) \in Nat
         /\ pos.agent \in Nat /\ pos.fn \in Nat
         /\ made.agent \in Nat /\ made.fn \in Nat /\ made.audio \in Nat
         /\ base.agent \in Nat /\ base.fn \in Nat /\ base.audio \in Nat
<1>1. /\ st \in State /\ got \in Received /\ made \in Counts /\ base \in Counts
      /\ fnRead \in Seq(Nat) /\ audioQ \in Seq(Nat)
      /\ pos \in [agent : Nat, fn : Nat, asr : Nat]
  BY DEF Types
<1>2. st.agent \in Seq(Nat) /\ st.fn \in Seq(Nat) /\ st.audio \in Seq(Nat)
  BY <1>1 DEF State
<1>3. got.agent \in Seq(Nat) /\ got.fn \in Seq(Nat) /\ got.audio \in Seq(Nat)
  BY <1>1 DEF Received
<1>4. Len(st.agent) \in Nat /\ Len(st.fn) \in Nat /\ Len(fnRead) \in Nat
  BY <1>1, <1>2, LenProperties
<1> QED
  BY <1>1, <1>2, <1>3, <1>4, CountsOf

(* One more piece leaves a prefix a prefix.                                *)
LEMMA PrefixOfLonger ==
  ASSUME NEW text \in Seq(Nat), NEW k \in 0..Len(text), NEW x \in Nat
  PROVE  /\ SubSeq(Append(text, x), 1, k) = SubSeq(text, 1, k)
         /\ Len(Append(text, x)) = Len(text) + 1
<1> DEFINE long == Append(text, x)
<1>1. /\ Len(text) \in Nat /\ k \in Nat
      /\ long \in Seq(Nat) /\ Len(long) = Len(text) + 1
      /\ \A i \in 1..Len(text) : long[i] = text[i]
  BY LenProperties, AppendProperties
<1>2. \A i \in 1..k : text[i] \in Nat /\ long[i] = text[i]
  BY <1>1, ElementOfSeq
<1> HIDE DEF long
<1>3. /\ SubSeq(text, 1, k) \in Seq(Nat) /\ Len(SubSeq(text, 1, k)) = k
      /\ \A i \in 1..k : SubSeq(text, 1, k)[i] = text[i]
  BY <1>1, <1>2, SubSeqProperties
<1>4. /\ SubSeq(long, 1, k) \in Seq(Nat) /\ Len(SubSeq(long, 1, k)) = k
      /\ \A i \in 1..k : SubSeq(long, 1, k)[i] = long[i]
  <2>1. \A i \in 1..k : long[i] \in Nat
    BY <1>2
  <2> QED
    BY <1>1, <2>1, SubSeqProperties
<1>5. SubSeq(long, 1, k) = SubSeq(text, 1, k)
  BY <1>2, <1>3, <1>4, SeqEqual
<1> QED
  BY <1>1, <1>5 DEF long

(* The fields after a response.                                            *)
LEMMA SendChanges ==
  ASSUME Types, Send
  PROVE  /\ got'.agent = got.agent \o Rest(st.agent, pos.agent)
         /\ got'.fn = got.fn \o Rest(fnRead, pos.fn)
         /\ got'.audio = got.audio \o st.audio
         /\ pc = "sending" /\ pc' = "idle"
         /\ UNCHANGED <<made, base, bg, audioQ>> /\ marred \subseteq marred'
         /\ st'.audio = <<>>
         /\ \/ /\ isLast
               /\ st'.agent = <<>> /\ pos'.agent = 0 /\ st'.fn = <<>> /\ pos'.fn = 0
               /\ bg # "none" => "leftover" \in marred'
            \/ /\ ~isLast
               /\ st'.agent = st.agent /\ pos'.agent = Len(st.agent)
               /\ st'.fn = st.fn /\ pos'.fn = Len(fnRead)
<1> USE DEF queues, client, context
<1>1. /\ got'.agent = got.agent \o Rest(st.agent, pos.agent)
      /\ got'.fn = got.fn \o Rest(fnRead, pos.fn)
      /\ got'.audio = got.audio \o st.audio
  BY DEF Send
<1>2. /\ pc = "sending" /\ pc' = "idle"
      /\ UNCHANGED <<made, base, bg, audioQ>> /\ marred \subseteq marred'
  BY DEF Send
<1>3. CASE isLast
  <2>1. st' = EmptyState /\ pos' = NoPositions
    BY <1>3 DEF Send, DeleteState
  <2>2. bg # "none" => "leftover" \in marred'
    BY <1>3 DEF Send, Tracked, Mark
  <2> QED
    BY <1>1, <1>2, <1>3, <2>1, <2>2 DEF EmptyState, NoPositions
<1>4. CASE ~isLast
  <2>1. st' = [st EXCEPT !.audio = <<>>] /\ pos' = NewPositions
    BY <1>4 DEF Send, CleanupAfterResponse
  <2>2. st \in State /\ <<>> \in Seq(Nat)
    BY DEF Types
  <2>3. st'.audio = <<>> /\ st'.agent = st.agent /\ st'.fn = st.fn
    BY <2>1, <2>2, FieldsOf
  <2>4. pos'.agent = Len(st.agent) /\ pos'.fn = Len(fnRead)
    BY <2>1 DEF NewPositions
  <2> QED
    BY <1>1, <1>2, <1>4, <2>3, <2>4
<1> QED
  BY <1>3, <1>4

LEMMA CursorStep ==
  ASSUME Types, Modes, Types', Life, Cursor, [Next]_vars PROVE Cursor'
<1> USE DEF server, context, queues, thread, client, ghosts
<1>t. /\ st.agent \in Seq(Nat) /\ st.fn \in Seq(Nat)
      /\ fnRead \in Seq(Nat)
      /\ Len(st.agent) \in Nat /\ Len(st.fn) \in Nat /\ Len(fnRead) \in Nat
      /\ pos.agent \in Nat /\ pos.fn \in Nat
      /\ made.agent \in Nat /\ made.fn \in Nat /\ made.audio \in Nat
      /\ base.agent \in Nat /\ base.fn \in Nat /\ base.audio \in Nat
  BY TypesNumbers
<1>n. made'.audio \in Nat
  BY TypesNumbers DEF Types, Counts
<1>1. CASE StartStream
  BY <1>1, <1>t DEF StartStream, Cursor
<1>2. CASE Send
  <2>0. /\ pc' # "sending" /\ UNCHANGED <<made, base>> /\ Len(<<>>) = 0
        /\ \/ st'.agent = <<>> /\ pos'.agent = 0 /\ st'.fn = <<>> /\ pos'.fn = 0
           \/ /\ st'.agent = st.agent /\ pos'.agent = Len(st.agent)
              /\ st'.fn = st.fn /\ pos'.fn = Len(fnRead)
        /\ pc = "sending"
    BY <1>2, SendChanges
  <2>1. CASE st'.agent = <<>> /\ pos'.agent = 0 /\ st'.fn = <<>> /\ pos'.fn = 0
    BY <2>0, <2>1 DEF Cursor
  <2>2. CASE /\ st'.agent = st.agent /\ pos'.agent = Len(st.agent)
             /\ st'.fn = st.fn /\ pos'.fn = Len(fnRead)
    <3>1. Len(fnRead) <= Len(st.fn)
      BY <2>0 DEF Cursor
    <3> QED
      BY <1>t, <2>0, <2>2, <3>1 DEF Cursor
  <2> QED
    BY <2>0, <2>1, <2>2
<1>3. CASE ReadTexts
  <2>1. /\ fnRead' = st.fn /\ UNCHANGED <<st, pos, made, base>>
    BY <1>3 DEF ReadTexts
  <2>2. SubSeq(st.fn, 1, Len(st.fn)) = st.fn
    BY <1>t, SubSeqFull
  <2> QED
    BY <1>t, <2>1, <2>2 DEF Cursor
<1>4. CASE Wrote
  <2>1. UNCHANGED <<pc, bg, pos, fnRead, base>> /\ bg # "none"
    BY <1>4 DEF Wrote
  <2>2. CASE st'.fn = st.fn
    BY <1>4, <1>t, <2>2 DEF Wrote, Cursor
  <2>3. CASE st'.fn = Append(st.fn, made.fn + 1)
    <3>1. made.fn + 1 \in Nat /\ pos.fn \in 0..Len(st.fn)
      BY <1>t DEF Cursor
    <3>2. Len(st'.fn) = Len(st.fn) + 1
      BY <1>t, <2>3, <3>1, PrefixOfLonger
    <3>3. pc = "sending" => SubSeq(st'.fn, 1, Len(fnRead)) = SubSeq(st.fn, 1, Len(fnRead))
      <4>1. pc = "sending" => Len(fnRead) \in 0..Len(st.fn)
        BY <1>t DEF Cursor
      <4> QED
        BY <1>t, <2>3, <3>1, <4>1, PrefixOfLonger
    <3>4. /\ st'.agent = st.agent /\ made'.agent = made.agent
          /\ made'.audio = made.audio /\ made'.fn = made.fn + 1
      BY <1>4 DEF Wrote
    <3> QED
      BY <1>t, <2>1, <3>2, <3>3, <3>4, SMTT(60) DEF Cursor
  <2> QED
    BY <1>4, <2>2, <2>3 DEF Wrote
<1>5. CASE TextsKept
  <2>1. base.audio <= made'.audio
    BY <1>5, <1>t, <1>n DEF TextsKept, Cursor
  <2> QED
    BY <1>5, <2>1 DEF TextsKept, Cursor
<1>6. ASSUME NEW fn \in BOOLEAN, Decoded(fn) PROVE Cursor'
  <2>1. made.agent + 1 \in Nat /\ made.fn + 1 \in Nat
    BY <1>t, SMTT(40)
  <2>2. Len(st'.agent) = Len(st.agent) + 1
    BY <1>6, <1>t, <2>1, AppendProperties DEF Decoded
  <2>3. Len(st'.fn) = Len(st.fn) + 1 \/ Len(st'.fn) = Len(st.fn)
    BY <1>6, <1>t, <2>1, AppendProperties, SMTT(40) DEF Decoded
  <2>4. /\ made'.agent = made.agent + 1 /\ made'.audio = made.audio + 1
        /\ made'.fn = made.fn + 1 \/ made'.fn = made.fn
        /\ UNCHANGED <<pos, base>> /\ pc' # "sending"
    BY <1>6 DEF Decoded
  <2>5. pos'.agent <= Len(st'.agent) /\ pos'.fn <= Len(st'.fn)
    BY <1>t, <2>2, <2>3, <2>4, SMTT(40) DEF Cursor
  <2>6. /\ base'.agent <= made'.agent /\ base'.fn <= made'.fn
        /\ base'.audio <= made'.audio
    BY <1>t, <2>4, SMTT(40) DEF Cursor
  <2> QED
    BY <2>4, <2>5, <2>6 DEF Cursor
<1> QED
  BY <1>1, <1>2, <1>3, <1>4, <1>5, <1>6, Changes

LEMMA NothingSent ==
  ASSUME NEW n \in Nat
  PROVE  /\ Rest(<<>>, 0) = <<>> /\ <<>> \o <<>> = <<>>
         /\ CountedUp(n, n) = <<>>
         /\ <<>> \in Seq(Nat)
<1>1. <<>> \in Seq(Nat) /\ Len(<<>>) = 0
  OBVIOUS
<1>2. Rest(<<>>, 0) = <<>>
  BY <1>1, SubSeqEmpty DEF Rest
<1>3. CountedUp(n, n) \in Seq(Nat) /\ Len(CountedUp(n, n)) = 0
  BY CountedUpOf
<1>4. \A s \in Seq(Nat) : Len(s) = 0 => s = <<>>
  BY EmptySeq
<1> QED
  BY <1>1, <1>2, <1>3, <1>4, ConcatEmptySeq

LEMMA AllSent ==
  ASSUME NEW text \in Seq(Nat), NEW sent \in Seq(Nat)
  PROVE  Rest(text, Len(text)) = <<>> /\ sent \o <<>> = sent
<1>1. Len(text) \in Nat
  BY LenProperties
<1>2. Len(text) + 1 \in Int /\ Len(text) \in Int /\ Len(text) < Len(text) + 1
  BY <1>1
<1> QED
  BY <1>2, SubSeqEmpty, ConcatEmptySeq DEF Rest

LEMMA TextOnceStep ==
  ASSUME Types, Modes, Life, Cursor, TextOnce, [Next]_vars PROVE TextOnce'
<1> USE DEF server, context, queues, thread, client, ghosts
<1>t. /\ st.agent \in Seq(Nat) /\ st.fn \in Seq(Nat)
      /\ got.agent \in Seq(Nat) /\ got.fn \in Seq(Nat)
      /\ fnRead \in Seq(Nat)
      /\ Len(st.agent) \in Nat /\ Len(st.fn) \in Nat /\ Len(fnRead) \in Nat
      /\ pos.agent \in Nat /\ pos.fn \in Nat
      /\ made.agent \in Nat /\ made.fn \in Nat
      /\ base.agent \in Nat /\ base.fn \in Nat
  BY TypesNumbers
<1>c. /\ pos.agent \in 0..Len(st.agent) /\ pos.fn \in 0..Len(st.fn)
      /\ base.agent <= made.agent /\ base.fn <= made.fn
  BY <1>t DEF Cursor
<1>1. CASE StartStream
  <2>1. /\ st' = EmptyState /\ pos' = NoPositions
        /\ got' = Nothing /\ base' = made /\ made' = made
    BY <1>1 DEF StartStream, Life
  <2>2. /\ got'.agent = <<>> /\ got'.fn = <<>> /\ st'.agent = <<>> /\ st'.fn = <<>>
        /\ pos'.agent = 0 /\ pos'.fn = 0
    BY <2>1 DEF EmptyState, NoPositions, Nothing
  <2>3. /\ got'.agent \o Rest(st'.agent, pos'.agent) = CountedUp(base'.agent, made'.agent)
        /\ got'.fn \o Rest(st'.fn, pos'.fn) = CountedUp(base'.fn, made'.fn)
    BY <1>t, <2>1, <2>2, NothingSent
  <2> QED
    BY <2>3 DEF TextOnce
<1>k. SUFFICES ASSUME ~StartStream, "leftover" \notin marred'
               PROVE  TextOnce'
  BY <1>1 DEF TextOnce, Excused
<1>e. "leftover" \notin marred
  BY <1>k, MarksStep
<1>h. /\ got.agent \o Rest(st.agent, pos.agent) = CountedUp(base.agent, made.agent)
      /\ got.fn \o Rest(st.fn, pos.fn) = CountedUp(base.fn, made.fn)
  BY <1>e DEF TextOnce, Excused
<1>o. /\ got.agent \o Rest(Append(st.agent, made.agent + 1), pos.agent)
           = CountedUp(base.agent, made.agent + 1)
      /\ got.fn \o Rest(Append(st.fn, made.fn + 1), pos.fn)
           = CountedUp(base.fn, made.fn + 1)
  <2> DEFINE x == made.agent + 1
             z == made.fn + 1
  <2>1. x \in Nat /\ x = made.agent + 1 /\ z \in Nat /\ z = made.fn + 1
    BY <1>t
  <2> HIDE DEF x, z
  <2>2. /\ got.agent \o Rest(Append(st.agent, x), pos.agent)
             = Append(got.agent \o Rest(st.agent, pos.agent), x)
        /\ got.fn \o Rest(Append(st.fn, z), pos.fn)
             = Append(got.fn \o Rest(st.fn, pos.fn), z)
    <3>1. Rest(st.agent, pos.agent) \in Seq(Nat) /\ Rest(st.fn, pos.fn) \in Seq(Nat)
      BY <1>t, <1>c, RestOf
    <3>2. /\ Rest(Append(st.agent, x), pos.agent) = Append(Rest(st.agent, pos.agent), x)
          /\ Rest(Append(st.fn, z), pos.fn) = Append(Rest(st.fn, pos.fn), z)
      <4>1. /\ st.agent \in Seq(Nat) /\ pos.agent \in 0..Len(st.agent)
            /\ st.fn \in Seq(Nat) /\ pos.fn \in 0..Len(st.fn)
        BY <1>t, <1>c
      <4>2. Rest(Append(st.agent, x), pos.agent) = Append(Rest(st.agent, pos.agent), x)
        BY <2>1, <4>1, RestAppend, Zenon
      <4>3. Rest(Append(st.fn, z), pos.fn) = Append(Rest(st.fn, pos.fn), z)
        BY <2>1, <4>1, RestAppend, Zenon
      <4> QED
        BY <4>2, <4>3
    <3>3. /\ got.agent \o Append(Rest(st.agent, pos.agent), x)
               = Append(got.agent \o Rest(st.agent, pos.agent), x)
          /\ got.fn \o Append(Rest(st.fn, pos.fn), z)
               = Append(got.fn \o Rest(st.fn, pos.fn), z)
      <4> DEFINE a == got.agent
                 f == got.fn
                 c == Rest(st.agent, pos.agent)
                 d == Rest(st.fn, pos.fn)
      <4>1. /\ a \in Seq(Nat) /\ f \in Seq(Nat) /\ c \in Seq(Nat) /\ d \in Seq(Nat)
            /\ x \in Nat /\ z \in Nat
        BY <1>t, <2>1, <3>1
      <4> HIDE DEF a, f, c, d
      <4>2. a \o Append(c, x) = Append(a \o c, x) /\ f \o Append(d, z) = Append(f \o d, z)
        BY <4>1, ConcatAppend
      <4> QED
        BY <4>2 DEF a, f, c, d
    <3> QED
      BY <3>2, <3>3
  <2>3. /\ CountedUp(base.agent, x) = Append(CountedUp(base.agent, made.agent), x)
        /\ CountedUp(base.fn, z) = Append(CountedUp(base.fn, made.fn), z)
    BY <1>t, <1>c, CountedUpNext DEF x, z
  <2>4. /\ got.agent \o Rest(Append(st.agent, x), pos.agent) = CountedUp(base.agent, x)
        /\ got.fn \o Rest(Append(st.fn, z), pos.fn) = CountedUp(base.fn, z)
    BY <1>h, <2>2, <2>3
  <2> QED
    BY <2>4 DEF x, z
<1>2. CASE Send
  <2>1. /\ got'.agent = got.agent \o Rest(st.agent, pos.agent)
        /\ got'.fn = got.fn \o Rest(fnRead, pos.fn)
        /\ pc = "sending" /\ UNCHANGED <<made, base, bg>>
    BY <1>2, SendChanges
  <2>2. \/ /\ st'.agent = <<>> /\ pos'.agent = 0 /\ st'.fn = <<>> /\ pos'.fn = 0
           /\ bg = "none"
        \/ /\ st'.agent = st.agent /\ pos'.agent = Len(st.agent)
           /\ st'.fn = st.fn /\ pos'.fn = Len(fnRead)
    BY <1>2, <1>k, SendChanges
  <2>3. /\ Len(fnRead) \in 0..Len(st.fn) /\ pos.fn \in 0..Len(fnRead)
        /\ fnRead = SubSeq(st.fn, 1, Len(fnRead))
        /\ bg = "none" => fnRead = st.fn
    BY <1>t, <2>1 DEF Cursor
  <2>4. /\ Rest(st.agent, pos.agent) \in Seq(Nat) /\ Rest(fnRead, pos.fn) \in Seq(Nat)
    BY <1>c, <1>t, <2>3, RestOf
  <2>5. got'.agent \in Seq(Nat) /\ got'.fn \in Seq(Nat)
    BY <1>t, <2>1, <2>4, ConcatProperties
  <2>6. Rest(st'.agent, pos'.agent) = <<>>
    <3>1. Rest(<<>>, 0) = <<>> /\ Rest(st.agent, Len(st.agent)) = <<>>
      BY <1>t, NothingSent, AllSent
    <3> QED
      BY <2>2, <3>1
  <2>7. got'.agent \o Rest(st'.agent, pos'.agent) = CountedUp(base'.agent, made'.agent)
    <3>1. got'.agent \o <<>> = got'.agent
      BY <2>5, AllSent
    <3> QED
      BY <1>h, <2>1, <2>6, <3>1
  <2>8. got'.fn \o Rest(st'.fn, pos'.fn) = got.fn \o Rest(st.fn, pos.fn)
    <3>1. CASE st'.fn = <<>> /\ pos'.fn = 0 /\ bg = "none"
      <4>1. Rest(<<>>, 0) = <<>> /\ got'.fn \o <<>> = got'.fn
        BY <2>5, NothingSent, AllSent
      <4>2. got'.fn = got.fn \o Rest(st.fn, pos.fn)
        BY <2>1, <2>3, <3>1
      <4> QED
        BY <3>1, <4>1, <4>2
    <3>2. CASE st'.fn = st.fn /\ pos'.fn = Len(fnRead)
      <4> DEFINE k == Len(fnRead)
      <4>1. k \in 0..Len(st.fn) /\ pos.fn \in 0..k /\ fnRead = SubSeq(st.fn, 1, k)
        BY <2>3
      <4> HIDE DEF k
      <4>2. (got.fn \o Rest(SubSeq(st.fn, 1, k), pos.fn)) \o Rest(st.fn, k)
              = got.fn \o Rest(st.fn, pos.fn)
        BY <1>t, <4>1, SentSoFar
      <4>3. got'.fn = got.fn \o Rest(SubSeq(st.fn, 1, k), pos.fn)
        BY <2>1, <4>1
      <4> QED
        BY <3>2, <4>2, <4>3 DEF k
    <3> QED
      BY <2>2, <3>1, <3>2
  <2>9. CountedUp(base'.fn, made'.fn) = CountedUp(base.fn, made.fn)
    BY <2>1
  <2> QED
    BY <1>h, <2>7, <2>8, <2>9 DEF TextOnce
<1>3. CASE ReadTexts
  BY <1>3, <1>h DEF ReadTexts, TextOnce
<1>4. CASE Wrote
  <2>1. /\ UNCHANGED <<pos, got, base>> /\ st'.agent = st.agent
        /\ made'.agent = made.agent /\ made'.fn = made.fn + 1
        /\ st'.fn = Append(st.fn, made.fn + 1)
    BY <1>4, <1>e DEF Wrote, Life
  <2>2. /\ got'.agent \o Rest(st'.agent, pos'.agent) = CountedUp(base'.agent, made'.agent)
        /\ got'.fn \o Rest(st'.fn, pos'.fn) = CountedUp(base'.fn, made'.fn)
    BY <1>h, <1>o, <2>1
  <2> QED
    BY <2>2 DEF TextOnce
<1>5. CASE TextsKept
  <2>1. /\ got'.agent \o Rest(st'.agent, pos'.agent) = CountedUp(base'.agent, made'.agent)
        /\ got'.fn \o Rest(st'.fn, pos'.fn) = CountedUp(base'.fn, made'.fn)
    BY <1>5, <1>h DEF TextsKept
  <2> QED
    BY <2>1 DEF TextOnce
<1>6. ASSUME NEW fn \in BOOLEAN, Decoded(fn) PROVE TextOnce'
  <2>1. UNCHANGED <<pos, got, base>>
    BY <1>6 DEF Decoded
  <2>2. /\ st'.agent = Append(st.agent, made.agent + 1)
        /\ made'.agent = made.agent + 1
    BY <1>6 DEF Decoded
  <2>3. \/ st'.fn = Append(st.fn, made.fn + 1) /\ made'.fn = made.fn + 1
        \/ st'.fn = st.fn /\ made'.fn = made.fn
    BY <1>6 DEF Decoded
  <2>4. got'.agent \o Rest(st'.agent, pos'.agent) = CountedUp(base'.agent, made'.agent)
    BY <1>o, <2>1, <2>2
  <2>5. got'.fn \o Rest(st'.fn, pos'.fn) = CountedUp(base'.fn, made'.fn)
    BY <1>h, <1>o, <2>1, <2>3
  <2> QED
    BY <2>4, <2>5 DEF TextOnce
<1> QED
  BY <1>1, <1>2, <1>3, <1>4, <1>5, <1>6, Changes

-----------------------------------------------------------------------------
(* Audio: what the client has, what is in the buffer, and what is queued.  *)

All == got.audio \o st.audio \o audioQ

AudioKept ==
  /\ All' = All /\ made'.audio = made.audio
  /\ UNCHANGED base /\ marred \subseteq marred'

AudioMade ==
  /\ All' = Append(All, made.audio + 1) /\ made'.audio = made.audio + 1
  /\ UNCHANGED base /\ marred \subseteq marred'

AudioDropped ==
  /\ \E q \in Seq(Nat) : All = All' \o q
  /\ made'.audio = made.audio
  /\ UNCHANGED base /\ marred \subseteq marred' /\ "interrupted" \in marred'

LEMMA AllType ==
  ASSUME Types
  PROVE  /\ got.audio \in Seq(Nat) /\ st.audio \in Seq(Nat) /\ audioQ \in Seq(Nat)
         /\ got.audio \o st.audio \in Seq(Nat) /\ All \in Seq(Nat)
         /\ All \o <<>> = All /\ (got.audio \o st.audio) \o <<>> = got.audio \o st.audio
         /\ made.audio \in Nat /\ base.audio \in Nat
<1>1. /\ got.audio \in Seq(Nat) /\ st.audio \in Seq(Nat) /\ audioQ \in Seq(Nat)
      /\ made.audio \in Nat /\ base.audio \in Nat
  BY TypesNumbers
<1>2. got.audio \o st.audio \in Seq(Nat)
  BY <1>1, ConcatProperties
<1>3. All \in Seq(Nat)
  BY <1>1, <1>2, ConcatProperties DEF All
<1>4. All \o <<>> = All /\ (got.audio \o st.audio) \o <<>> = got.audio \o st.audio
  BY <1>2, <1>3, ConcatEmptySeq
<1> QED
  BY <1>1, <1>2, <1>3, <1>4

(* Pieces a move from the head of the queue to the end of the buffer s.    *)
MovesOn(g, s, a, b) == g \o (s \o a) \o b = g \o s \o (a \o b)

LEMMA Moved ==
  ASSUME NEW g \in Seq(Nat), NEW s \in Seq(Nat), NEW a \in Seq(Nat), NEW b \in Seq(Nat)
  PROVE  MovesOn(g, s, a, b)
<1>1. g \o s \in Seq(Nat)
  BY ConcatProperties
<1>2. Associates(g, s, a)
  BY Assoc, Zenon
<1>3. Associates(g \o s, a, b)
  BY <1>1, Assoc, Zenon
<1> QED
  BY <1>2, <1>3, Zenon DEF Associates, MovesOn

LEMMA Split ==
  ASSUME NEW q \in Seq(Nat), NEW n \in 0..Len(q)
  PROVE  SubSeq(q, 1, n) \o SubSeq(q, n + 1, Len(q)) = q
<1>1. Len(q) \in Nat
  BY LenProperties
<1>2. 1 \in 1 .. Len(q) + 1 /\ n \in 1 - 1 .. Len(q) /\ Len(q) \in n .. Len(q)
  BY <1>1
<1>3. SubSeq(q, 1, n) \o SubSeq(q, n + 1, Len(q)) = SubSeq(q, 1, Len(q))
  BY <1>2, ConcatAdjacentSubSeq
<1> QED
  BY <1>3, SubSeqFull

LEMMA TakeResultAudio ==
  ASSUME Types, NEW last \in BOOLEAN, TakeResult(last)
  PROVE  AudioKept \/ AudioDropped
<1> USE DEF server, context, queues, thread, client, ghosts
<1>1. /\ got.audio \in Seq(Nat) /\ st.audio \in Seq(Nat) /\ audioQ \in Seq(Nat)
      /\ got.audio \o st.audio \in Seq(Nat)
      /\ (got.audio \o st.audio) \o <<>> = got.audio \o st.audio
      /\ <<>> \in Seq(Nat)
  BY AllType
<1>2. st \in State /\ rnntQ \in Seq(Token)
  BY DEF Types
<1>3. /\ Flush(st) \in State
      /\ Flush(st).audio = IF result = "quit" THEN st.audio ELSE st.audio \o audioQ
  BY <1>1, <1>2, FlushOf
<1>4. /\ st'.audio = IF result = "quit" THEN st.audio ELSE st.audio \o audioQ
      /\ audioQ' = <<>> /\ got' = got
  BY <1>2, <1>3, LatestOf DEF TakeResult
<1>5. /\ made' = made /\ base' = base /\ marred \subseteq marred'
      /\ result = "quit" /\ audioQ # <<>> => "interrupted" \in marred'
  BY DEF TakeResult, Mark
<1>6. CASE result = "quit" /\ audioQ # <<>>
  <2>1. All' = got.audio \o st.audio
    BY <1>1, <1>4, <1>6 DEF All
  <2>2. All = All' \o audioQ
    BY <2>1 DEF All
  <2> QED
    BY <1>1, <1>5, <1>6, <2>2 DEF AudioDropped
<1>7. CASE result = "quit" /\ audioQ = <<>>
  <2>1. All' = All
    BY <1>4, <1>7 DEF All
  <2> QED
    BY <1>5, <2>1 DEF AudioKept
<1>8. CASE result # "quit"
  <2>1. All' = got.audio \o (st.audio \o audioQ) \o <<>>
    BY <1>4, <1>8 DEF All
  <2>2. got.audio \o (st.audio \o audioQ) \o <<>> = got.audio \o st.audio \o (audioQ \o <<>>)
    <3>1. MovesOn(got.audio, st.audio, audioQ, <<>>)
      <4>1. <<>> \in Seq(Nat)
        OBVIOUS
      <4> QED
        BY <1>1, <4>1, Moved, Zenon
    <3> QED
      BY <3>1, Zenon DEF MovesOn
  <2>3. audioQ \o <<>> = audioQ
    BY <1>1, ConcatEmptySeq
  <2>4. All' = All
    BY <2>1, <2>2, <2>3 DEF All
  <2> QED
    BY <1>5, <2>4 DEF AudioKept
<1> QED
  BY <1>6, <1>7, <1>8

LEMMA DuringCallAudio ==
  ASSUME Types, NEW last \in BOOLEAN, NEW eos \in BOOLEAN, DuringCall(last, eos)
  PROVE  AudioKept \/ AudioDropped
<1> USE DEF server, context, queues, thread, client, ghosts
<1>1. /\ got.audio \in Seq(Nat) /\ st.audio \in Seq(Nat) /\ audioQ \in Seq(Nat)
      /\ got.audio \o st.audio \in Seq(Nat)
      /\ (got.audio \o st.audio) \o <<>> = got.audio \o st.audio
  BY AllType
<1>2. st \in State /\ rnntQ \in Seq(Token)
  BY DEF Types
<1>3. Latest(st) \in State /\ Latest(st).audio = st.audio
  BY <1>2, LatestOf
<1>4. /\ got' = got /\ made' = made /\ base' = base /\ marred \subseteq marred'
      /\ quit' /\ audioQ # <<>> => "interrupted" \in marred'
  BY DEF DuringCall, Mark
<1>5. CASE quit' /\ audioQ' = <<>> /\ st' = Latest(st)
  <2>1. CASE audioQ # <<>>
    <3>1. All' = got.audio \o st.audio
      BY <1>1, <1>3, <1>4, <1>5 DEF All
    <3>2. All = All' \o audioQ
      BY <3>1 DEF All
    <3> QED
      BY <1>1, <1>4, <1>5, <2>1, <3>2 DEF AudioDropped
  <2>2. CASE audioQ = <<>>
    <3>1. All' = All
      BY <1>3, <1>4, <1>5, <2>2 DEF All
    <3> QED
      BY <1>4, <3>1 DEF AudioKept
  <2> QED
    BY <2>1, <2>2
<1>6. CASE DrainAudio(Latest(st))
  <2>1. PICK n \in 0..Len(audioQ) :
          /\ audioQ' = SubSeq(audioQ, n + 1, Len(audioQ))
          /\ audioQ' \in Seq(Nat) /\ SubSeq(audioQ, 1, n) \in Seq(Nat)
          /\ st'.audio = Latest(st).audio \o SubSeq(audioQ, 1, n)
    BY <1>3, <1>6, DrainOf, Zenon
  <2>2. st'.audio = st.audio \o SubSeq(audioQ, 1, n)
    BY <1>3, <2>1, Zenon
  <2>3. SubSeq(audioQ, 1, n) \o audioQ' = audioQ
    <3>1. audioQ \in Seq(Nat) /\ n \in 0..Len(audioQ)
      BY <1>1, <2>1, Zenon
    <3>2. SubSeq(audioQ, 1, n) \o SubSeq(audioQ, n + 1, Len(audioQ)) = audioQ
      BY <3>1, Split, Zenon
    <3> QED
      BY <2>1, <3>2, Zenon
  <2>4. All' = got.audio \o (st.audio \o SubSeq(audioQ, 1, n)) \o audioQ'
    BY <1>4, <2>2 DEF All
  <2>5. got.audio \o (st.audio \o SubSeq(audioQ, 1, n)) \o audioQ'
          = got.audio \o st.audio \o (SubSeq(audioQ, 1, n) \o audioQ')
    <3>1. MovesOn(got.audio, st.audio, SubSeq(audioQ, 1, n), audioQ')
      BY <1>1, <2>1, Moved, Zenon
    <3> QED
      BY <3>1, Zenon DEF MovesOn
  <2>6. All' = All
    BY <2>3, <2>4, <2>5 DEF All
  <2> QED
    BY <1>4, <2>6 DEF AudioKept
<1> QED
  BY <1>5, <1>6 DEF DuringCall

LEMMA MadeAudio ==
  ASSUME Types,
         \/ \E fn \in BOOLEAN : Decoded(fn)
         \/ ThreadSpeaks
  PROVE  AudioMade
<1> USE DEF server, context, queues, thread, client, ghosts
<1>1. /\ got.audio \in Seq(Nat) /\ st.audio \in Seq(Nat) /\ audioQ \in Seq(Nat)
      /\ got.audio \o st.audio \in Seq(Nat)
      /\ made.audio + 1 \in Nat
  BY AllType
<1> DEFINE x == made.audio + 1
           g == got.audio
           s == st.audio
<1>2. x \in Nat /\ g \in Seq(Nat) /\ s \in Seq(Nat) /\ g \o s \in Seq(Nat)
  BY <1>1
<1>3. ASSUME NEW fn \in BOOLEAN, Decoded(fn) PROVE AudioMade
  <2>1. /\ got' = got /\ base' = base /\ marred \subseteq marred'
        /\ st'.audio = Append(s, x) /\ audioQ = <<>> /\ audioQ' = <<>>
        /\ made'.audio = x
    BY <1>3 DEF Decoded
  <2>2. All' = g \o Append(s, x) \o <<>> /\ All = g \o s \o <<>>
    BY <2>1 DEF All
  <2> HIDE DEF x, g, s
  <2>3. g \o Append(s, x) = Append(g \o s, x)
    BY <1>2, ConcatAppend
  <2>4. Append(g \o s, x) \in Seq(Nat)
    BY <1>2, AppendType
  <2>5. Append(g \o s, x) \o <<>> = Append(g \o s, x) /\ g \o s \o <<>> = g \o s
    BY <1>2, <2>4, ConcatEmptySeq
  <2>6. All' = Append(All, x)
    BY <2>2, <2>3, <2>5
  <2> QED
    BY <2>1, <2>6 DEF AudioMade, x
<1>4. CASE ThreadSpeaks
  <2>1. /\ got' = got /\ base' = base /\ marred' = marred /\ st' = st
        /\ audioQ' = Append(audioQ, x)
    BY <1>4 DEF ThreadSpeaks
  <2>2. made'.audio = x
    BY <1>4, MoreOf DEF ThreadSpeaks, Types
  <2>3. All' = g \o s \o Append(audioQ, x) /\ All = g \o s \o audioQ
    BY <2>1 DEF All
  <2> DEFINE l == g \o s
  <2>4. l \in Seq(Nat) /\ All' = l \o Append(audioQ, x) /\ All = l \o audioQ
    BY <1>2, <2>3
  <2> HIDE DEF x, g, s, l
  <2>5. l \o Append(audioQ, x) = Append(l \o audioQ, x)
    BY <1>1, <1>2, <2>4, ConcatAppend
  <2>6. All' = Append(All, x)
    BY <2>4, <2>5
  <2> QED
    BY <2>1, <2>2, <2>6 DEF AudioMade, x
<1> QED
  BY <1>3, <1>4

LEMMA AudioChanges ==
  ASSUME Types, Modes, Life, [Next]_vars
  PROVE  \/ StartStream \/ AudioKept \/ AudioMade \/ AudioDropped
<1> USE DEF server, context, queues, thread, client, ghosts
<1>m. StartStream \/ marred \subseteq marred'
  BY MarksStep
<1>t. made \in Counts
  BY DEF Types
<1>2. ASSUME NEW last \in BOOLEAN, BeginChunk(last) PROVE AudioKept
  BY <1>2 DEF BeginChunk, AudioKept, All
<1>6. CASE StepRaises
  BY <1>6 DEF StepRaises, AudioKept, All
<1>7. CASE ReadTexts
  BY <1>7 DEF ReadTexts, AudioKept, All
<1>8. CASE Send
  <2>1. /\ got'.audio = got.audio \o st.audio /\ st'.audio = <<>>
        /\ UNCHANGED <<made, base, audioQ>> /\ marred \subseteq marred'
    BY <1>8, SendChanges
  <2>2. All' = got.audio \o st.audio \o <<>> \o audioQ
    BY <2>1 DEF All
  <2>3. got.audio \o st.audio \o <<>> = got.audio \o st.audio
    BY AllType
  <2>4. All' = All
    BY <2>2, <2>3 DEF All
  <2> QED
    BY <2>1, <2>4 DEF AudioKept
<1>9. ASSUME NEW e \in Heard, NEW quiet \in BOOLEAN, ThreadHears(e, quiet)
      PROVE  AudioKept
  <2>1. made'.audio = made.audio
    <3>1. "audio" \notin Mark("asr", e # <<>>)
      BY DEF Mark
    <3> QED
      BY <1>9, <1>t, <3>1, MoreOf DEF ThreadHears
  <2>2. UNCHANGED <<got, st, audioQ, base, marred>>
    BY <1>9 DEF ThreadHears
  <2> QED
    BY <2>1, <2>2 DEF AudioKept, All
<1>11. CASE ThreadWrites
  BY <1>11, WriteChanges DEF Wrote, AudioKept, All
<1>12. ASSUME NEW failed \in BOOLEAN, ThreadPublishes(failed) PROVE AudioKept
  BY <1>12 DEF ThreadPublishes, AudioKept, All
<1>13. CASE ThreadDies
  BY <1>13 DEF ThreadDies, AudioKept, All
<1>14. CASE UNCHANGED vars
  BY <1>14 DEF vars, AudioKept, All
<1> QED
  BY <1>2, <1>6, <1>7, <1>8, <1>9, <1>11, <1>12, <1>13, <1>14,
     TakeResultAudio, DuringCallAudio, MadeAudio, DecodeChanges
     DEF Next, Server, Thread

(* The pieces are in order, and none is newer than the newest.             *)
InOrder(q, m) ==
  /\ \A i, j \in 1..Len(q) : i < j => q[i] < q[j]
  /\ \A i \in 1..Len(q) : q[i] <= m

LEMMA InOrderLonger ==
  ASSUME NEW q \in Seq(Nat), NEW m \in Nat, InOrder(q, m)
  PROVE  InOrder(Append(q, m + 1), m + 1)
<1> DEFINE r == Append(q, m + 1)
<1>1. /\ Len(q) \in Nat /\ Len(r) = Len(q) + 1
      /\ \A i \in 1..Len(q) : r[i] = q[i]
      /\ r[Len(q) + 1] = m + 1
  BY LenProperties, AppendProperties
<1>2. \A i \in 1..Len(q) : q[i] \in Nat /\ q[i] <= m
  BY ElementOfSeq DEF InOrder
<1> HIDE DEF r
<1>3. ASSUME NEW i \in 1..Len(r) PROVE r[i] <= m + 1
  <2>1. i \in 1..Len(q) \/ i = Len(q) + 1
    BY <1>1
  <2> QED
    BY <1>1, <1>2, <2>1
<1>4. ASSUME NEW i \in 1..Len(r), NEW j \in 1..Len(r), i < j PROVE r[i] < r[j]
  <2>1. i \in 1..Len(q) /\ (j \in 1..Len(q) \/ j = Len(q) + 1)
    BY <1>1, <1>4
  <2>2. CASE j \in 1..Len(q)
    BY <1>1, <1>4, <2>1, <2>2 DEF InOrder
  <2>3. CASE j = Len(q) + 1
    <3>1. r[j] = m + 1 /\ r[i] = q[i] /\ q[i] \in Nat /\ q[i] <= m
      BY <1>1, <1>2, <2>1, <2>3
    <3> QED
      BY <3>1
  <2> QED
    BY <2>1, <2>2, <2>3
<1> QED
  BY <1>3, <1>4 DEF InOrder, r

LEMMA InOrderShorter ==
  ASSUME NEW q \in Seq(Nat), NEW r \in Seq(Nat), NEW m \in Nat, InOrder(q \o r, m)
  PROVE  InOrder(q, m)
<1> DEFINE l == q \o r
<1>1. /\ Len(q) \in Nat /\ Len(r) \in Nat /\ Len(l) = Len(q) + Len(r)
      /\ \A i \in 1 .. Len(q) + Len(r) :
           l[i] = IF i <= Len(q) THEN q[i] ELSE r[i - Len(q)]
  BY LenProperties, ConcatProperties
<1> HIDE DEF l
<1>2. \A i \in 1..Len(q) : i \in 1..Len(l) /\ l[i] = q[i]
  BY <1>1
<1>3. InOrder(l, m)
  BY DEF l
<1> QED
  BY <1>2, <1>3 DEF InOrder

AudioInv == AudioOnce /\ InOrder(All, made.audio)

LEMMA AudioInvParts ==
  AudioInv <=>
    /\ InOrder(All, made.audio)
    /\ ~Excused({"leftover", "interrupted"}) => All = CountedUp(base.audio, made.audio)
  BY DEF AudioInv, AudioOnce, All, InOrder

LEMMA AudioInvStep ==
  ASSUME Types, Types', Modes, Life, Cursor, AudioInv, [Next]_vars PROVE AudioInv'
<1>t. /\ All \in Seq(Nat) /\ All' \in Seq(Nat)
      /\ made.audio \in Nat /\ base.audio \in Nat /\ base.audio <= made.audio
  <2>1. All \in Seq(Nat) /\ made.audio \in Nat /\ base.audio \in Nat
    BY AllType
  <2>2. All' \in Seq(Nat)
    <3>1. got.audio' \in Seq(Nat) /\ st.audio' \in Seq(Nat) /\ audioQ' \in Seq(Nat)
      BY DEF Types, State, Received
    <3>2. (got.audio \o st.audio)' \in Seq(Nat)
      BY <3>1, ConcatProperties
    <3> QED
      BY <3>1, <3>2, ConcatProperties DEF All
  <2> QED
    BY <2>1, <2>2 DEF Cursor
<1>h. /\ InOrder(All, made.audio)
      /\ ~Excused({"leftover", "interrupted"}) => All = CountedUp(base.audio, made.audio)
  BY AudioInvParts
<1>s. SUFFICES /\ InOrder(All', made'.audio)
               /\ marred' \cap {"leftover", "interrupted"} = {}
                    => All' = CountedUp(base'.audio, made'.audio)
  BY DEF AudioInv, AudioOnce, All, InOrder, Excused
<1>1. CASE StartStream
  <2>1. /\ st = EmptyState /\ bg = "none" /\ audioQ = <<>>
        /\ st' = st /\ audioQ' = audioQ /\ got' = Nothing
        /\ base' = made /\ made' = made
    BY <1>1 DEF StartStream, Life, thread, queues
  <2>2. All' = <<>> \o <<>> \o <<>>
    BY <2>1 DEF All, EmptyState, Nothing
  <2>3. All' = <<>> /\ CountedUp(made.audio, made.audio) = <<>>
    BY <1>t, <2>2, NothingSent
  <2>4. InOrder(<<>>, made.audio)
    BY DEF InOrder
  <2> QED
    BY <2>1, <2>3, <2>4
<1>2. CASE AudioKept
  BY <1>2, <1>h DEF AudioKept, Excused
<1>3. CASE AudioMade
  <2>1. InOrder(Append(All, made.audio + 1), made.audio + 1)
    BY <1>h, <1>t, InOrderLonger
  <2>2. CountedUp(base.audio, made.audio + 1)
          = Append(CountedUp(base.audio, made.audio), made.audio + 1)
    BY <1>t, CountedUpNext
  <2> QED
    BY <1>3, <1>h, <2>1, <2>2 DEF AudioMade, Excused
<1>4. CASE AudioDropped
  <2>1. PICK q \in Seq(Nat) : All = All' \o q
    BY <1>4 DEF AudioDropped
  <2>2. InOrder(All', made.audio)
    BY <1>h, <1>t, <2>1, InOrderShorter
  <2> QED
    BY <1>4, <2>2 DEF AudioDropped
<1> QED
  BY <1>1, <1>2, <1>3, <1>4, AudioChanges

-----------------------------------------------------------------------------
(* The theorems.                                                           *)

DeliveryInv == Types /\ Modes /\ Life /\ Cursor /\ TextOnce /\ AudioInv

LEMMA InvInit ==
  ASSUME Init PROVE DeliveryInv
<1>1. Types /\ Modes
  BY InitType
<1>2. Life
  BY DEF Init, Life
<1>3. /\ st.agent = <<>> /\ st.fn = <<>> /\ st.audio = <<>> /\ audioQ = <<>>
      /\ got.agent = <<>> /\ got.fn = <<>> /\ got.audio = <<>>
      /\ pos.agent = 0 /\ pos.fn = 0
      /\ made.agent = 0 /\ made.fn = 0 /\ made.audio = 0
      /\ base.agent = 0 /\ base.fn = 0 /\ base.audio = 0
      /\ pc = "idle"
  BY DEF Init, EmptyState, Nothing, NoPositions, Zero
<1>4. Len(<<>>) = 0 /\ 0 \in Nat
  OBVIOUS
<1>5. Cursor
  BY <1>3, <1>4 DEF Cursor
<1>6. /\ Rest(<<>>, 0) = <<>> /\ <<>> \o <<>> = <<>> /\ CountedUp(0, 0) = <<>>
  BY <1>4, NothingSent
<1>7. TextOnce
  BY <1>3, <1>6 DEF TextOnce
<1>8. All = <<>>
  BY <1>3, <1>6 DEF All
<1>9. InOrder(<<>>, 0)
  BY DEF InOrder
<1>10. AudioInv
  BY <1>3, <1>6, <1>8, <1>9, AudioInvParts
<1> QED
  BY <1>1, <1>2, <1>5, <1>7, <1>10 DEF DeliveryInv

LEMMA InvStep ==
  ASSUME DeliveryInv, [Next]_vars PROVE DeliveryInv'
<1>1. Types' /\ Modes'
  BY TypesStep, ModesStep DEF DeliveryInv
<1>2. Life' /\ Cursor'
  BY <1>1, LifeStep, CursorStep DEF DeliveryInv
<1>3. TextOnce' /\ AudioInv'
  BY <1>1, TextOnceStep, AudioInvStep DEF DeliveryInv
<1> QED
  BY <1>1, <1>2, <1>3 DEF DeliveryInv

THEOREM Delivered == Spec => []DeliveryInv
  BY InvInit, InvStep, PTL DEF Spec

(* Every variable stays in its type, with any number of pieces.            *)
THEOREM TypeCorrect == Spec => []TypeOK
<1>1. DeliveryInv => TypeOK
  BY TypeOKParts DEF DeliveryInv
<1> QED
  BY <1>1, Delivered, PTL

(* get_generations: agent text and function text reach the client once and *)
(* in order, whatever the background thread writes while a response is     *)
(* being made.                                                             *)
THEOREM TextReachesOnce == Spec => []TextOnce
<1>1. DeliveryInv => TextOnce
  BY DEF DeliveryInv
<1> QED
  BY <1>1, Delivered, PTL

(* Audio reaches the client once and in the order it was made, through the *)
(* buffer or through the queue of a call; only an interrupted call loses   *)
(* any.                                                                    *)
THEOREM AudioReachesOnce == Spec => []AudioOnce
<1>1. DeliveryInv => AudioOnce
  BY DEF DeliveryInv, AudioInv
<1> QED
  BY <1>1, Delivered, PTL

(* A stream that was answered to its end leaves neither state nor          *)
(* positions to the next one with its id.                                  *)
THEOREM EndedStreamIsForgotten == Spec => []EndedStreamForgotten
<1>1. DeliveryInv => EndedStreamForgotten
  BY DEF DeliveryInv, Life, EndedStreamForgotten, Excused
<1> QED
  BY <1>1, Delivered, PTL
=============================================================================
