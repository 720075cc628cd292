------------------------------- MODULE Delivery -------------------------------
(***************************************************************************)
(* What the clients of the Triton server receive of one stream id          *)
(* (infer_streaming.py get_generations, streaming/state/s2s_state.py, and  *)
(* the output side of pipelines/streaming_s2s_pipeline.py).                *)
(*                                                                         *)
(* Per stream id the pipeline keeps a state: audio that is cleared with    *)
(* every response, and texts of which a response sends what is past the    *)
(* server's positions.  The agent's text and the function channel's only   *)
(* grow; the user's transcript is replaced as a whole with every chunk and *)
(* emptied after a silence, which the server finds out by its length.      *)
(* During a function call a background thread adds to the function text at *)
(* any moment, and audio and transcript come through its queues.  A stream *)
(* id may be used again once its last chunk was answered.                  *)
(*                                                                         *)
(* Pieces of audio and text are numbers that count up, so that an order is *)
(* visible.  The transcript is a sequence of words and full stops; the     *)
(* recogniser has one frame per chunk.  Spaces at the ends of a transcript *)
(* and the line breaks added for the user interface are left out.          *)
(***************************************************************************)
EXTENDS Integers, Sequences, FiniteSets, SequencesExt

CONSTANTS
  Words,         \* what the recogniser may hear
  ClearBlanks,   \* silent frames after which the transcript is emptied
  DrainMax,      \* pieces of queued audio that fill a response
  MaxPieces,     \* bound: pieces of audio and of function text
  MaxTokens      \* bound: tokens of transcript

Dot == "."
Sep == "|"

ASSUME DeliveryAssumption ==
  /\ Dot \notin Words /\ Sep \notin Words
  /\ ClearBlanks \in Nat \ {0} /\ DrainMax \in Nat \ {0}
  /\ MaxPieces \in Nat /\ MaxTokens \in Nat

Token == Words \cup {Dot}

VARIABLES
  \* The server and the main thread.
  pc,         \* between calls, chunk under way, to be answered, answering
  open,       \* the client has begun the stream and not ended it
  isLast,     \* is_last of the chunk under way
  st,         \* the S2SStreamingState of the stream id
  pos,        \* the three position dictionaries at the stream id
  fnRead,     \* full_function_text of the response under way
  y, blanks,  \* y_sequence and blank_count of the context
  \* The background thread and its entry in _fc_async_bg.
  bg,         \* none, running, dying (the result is there), dead
  bgY, bgBlanks, rnntQ, audioQ,
  quit,       \* quit_async_event
  result,     \* bg_result: ok, quit or failed
  fnRef,      \* fc_state_obj: none, pool (that of the stream id), gone
  \* The client, and what the properties remember.
  got,        \* what it received since its stream began
  made,       \* how many pieces of each kind were produced
  base,       \* the same when its stream began
  past,       \* the utterances that are over, as they were recognised
  marred      \* what makes the properties excuse the stream

server  == <<pc, open, isLast, pos, fnRead>>
context == <<y, blanks>>
queues  == <<rnntQ, audioQ>>
thread  == <<bg, bgY, bgBlanks, queues, quit, result, fnRef>>
client  == <<got, base>>
ghosts  == <<made, past, marred>>
vars == <<server, st, context, thread, client, ghosts>>

EmptyState == [agent |-> <<>>, fn |-> <<>>, audio |-> <<>>,
               asr |-> <<>>, lastSent |-> <<>>]
NoPositions == [agent |-> 0, fn |-> 0, asr |-> 0]
Nothing     == [agent |-> <<>>, fn |-> <<>>, audio |-> <<>>, asr |-> <<>>]
Zero        == [agent |-> 0, fn |-> 0, audio |-> 0, asr |-> 0]

(* One more piece of each of the kinds.                                    *)
More(kinds) ==
  [k \in DOMAIN made |-> made[k] + (IF k \in kinds THEN 1 ELSE 0)]
WithinBound == made'.fn + made'.audio <= MaxPieces /\ made'.asr <= MaxTokens

Tracked  == bg # "none"
HasWord(text) == \E i \in 1..Len(text) : text[i] # Dot
Mark(name, holds) == IF holds THEN {name} ELSE {}

(* str.lstrip('. ')                                                        *)
LeadingDots(text) ==
  Cardinality({i \in 1..Len(text) : \A j \in 1..i : text[j] = Dot})

LStrip(text) == SubSeq(text, LeadingDots(text) + 1, Len(text))

(* The frame's tokens: silence, a word, or a full stop, which is also put  *)
(* in on a silent frame.                                                   *)
Hears(e, quiet) ==
  /\ e \in {<<>>} \cup {<<c>> : c \in Token}
  /\ e = <<>> => quiet
  /\ quiet => e \in {<<>>, <<Dot>>}

CountBlanks(n, quiet) ==
  IF ~quiet THEN 0 ELSE IF n < ClearBlanks THEN n + 1 ELSE n

-----------------------------------------------------------------------------
Init ==
  /\ pc = "idle" /\ open = FALSE /\ isLast = FALSE
  /\ st = EmptyState /\ pos = NoPositions /\ fnRead = <<>>
  /\ y = <<>> /\ blanks = 0
  /\ bg = "none" /\ bgY = <<>> /\ bgBlanks = 0 /\ rnntQ = <<>> /\ audioQ = <<>>
  /\ quit = FALSE /\ result = "ok" /\ fnRef = "none"
  /\ got = Nothing /\ base = Zero /\ made = Zero
  /\ past = <<>> /\ marred = {}

(* The first chunk, or the prefill-only one, of a stream with this id: the *)
(* context is new, the rest is what an earlier stream left.  A client does *)
(* not use an id again whose last chunk failed or met a call.              *)
StartStream ==
  /\ pc = "idle" /\ ~open /\ "leftover" \notin marred
  /\ open' = TRUE
  /\ y' = <<>> /\ blanks' = 0
  /\ got' = Nothing /\ base' = made /\ past' = <<>>
  /\ marred' = {}
  /\ UNCHANGED <<pc, isLast, st, pos, fnRead, thread, made>>

(* A chunk with audio while no call is under way.                          *)
BeginChunk(last) ==
  /\ pc = "idle" /\ open /\ ~Tracked
  /\ pc' = "chunk" /\ isLast' = last
  /\ UNCHANGED <<open, pos, fnRead, st, context, thread, client, ghosts>>

(* The recognised text replaces the transcript, unless it was the last to. *)
Transcript(s, text) ==
  IF HasWord(text) /\ text # s.lastSent
  THEN [s EXCEPT !.asr = text, !.lastSent = text] ELSE s

\* Mutant of Cleared: only the transcript is emptied.
ClearedTextOnly(s, text) ==
  /\ st' = [s EXCEPT !.asr = <<>>]
  /\ y' = text

(* 800 ms of silence: transcript, y_sequence and predictor start afresh.   *)
Cleared(s, text) ==
  /\ st' = [s EXCEPT !.asr = <<>>]
  /\ y' = <<>>

(* log_output() appends the chunk's audio and text, an empty text changes  *)
(* nothing; the function channel often has none.                           *)
LogOutput(s, fn) ==
  [s EXCEPT !.audio = Append(@, made.audio + 1),
            !.agent = Append(@, made.agent + 1),
            !.fn    = IF fn THEN Append(@, made.fn + 1) ELSE @]

(* The thread starts from the recogniser's state of the context.           *)
StartThread ==
  /\ bg' = "running" /\ bgY' = y' /\ bgBlanks' = blanks'
  /\ rnntQ' = <<>> /\ audioQ' = <<>> /\ quit' = FALSE /\ result' = "ok"
  /\ fnRef' = "none"

(* infer_one_step() and what follows it, for a chunk in which the          *)
(* recogniser hears e; fn: it has function text, sotc: it starts a call.   *)
Decode(e, quiet, fn, sotc) ==
  LET text  == y \o e
      s     == Transcript(LogOutput(st, fn), text)
      n     == CountBlanks(blanks, quiet)
      clear == n >= ClearBlanks
  IN
  /\ pc = "chunk" /\ Hears(e, quiet)
  /\ made' = More({"audio", "agent"} \cup Mark("fn", fn) \cup Mark("asr", e # <<>>))
  /\ WithinBound
  /\ blanks' = n
  /\ \/ clear /\ Cleared(s, text)
     \/ ~clear /\ st' = s /\ y' = text
  /\ past' = IF clear /\ HasWord(text) THEN past \o text \o <<Sep>> ELSE past
  /\ marred' = marred
       \cup Mark("repeated", HasWord(text) /\ text = st.lastSent /\ text # st.asr)
       \cup Mark("rewritten", ~IsPrefix(st.asr, s.asr))
       \cup Mark("cut", clear /\ e # <<>>)
  /\ IF sotc THEN StartThread ELSE UNCHANGED thread
  /\ pc' = "answer"
  /\ UNCHANGED <<open, isLast, pos, fnRead, client>>

(* generate_step() raises; the server answers the chunk with an error and  *)
(* keeps what it has of the stream, also if the chunk was its last.        *)
StepRaises ==
  /\ pc = "chunk"
  /\ pc' = "idle" /\ open' = ~isLast /\ isLast' = FALSE
  /\ marred' = marred \cup Mark("leftover", isLast)
  /\ UNCHANGED <<pos, fnRead, st, context, thread, client, made, past>>

(* The newest of the queued transcripts, without leading full stops.       *)
Latest(s) == IF rnntQ = <<>> THEN s ELSE [s EXCEPT !.asr = LStrip(rnntQ)]

Rewritten(s) ==
  Mark("rewritten", ~IsPrefix(st.asr, s.asr) \/ LStrip(rnntQ) # rnntQ)

(* One response's worth of audio leaves the queue.                         *)
DrainAudio(s) ==
  LET n == IF Len(audioQ) < DrainMax THEN Len(audioQ) ELSE DrainMax
  IN  /\ st' = [s EXCEPT !.audio = @ \o SubSeq(audioQ, 1, n)]
      /\ audioQ' = SubSeq(audioQ, n + 1, Len(audioQ))

(* A chunk while the thread is alive.  The agent-EOS flag may stop the     *)
(* call, and then its audio is thrown away.  It returns before anything    *)
(* that is done for a last chunk.                                          *)
DuringCall(last, eos) ==
  /\ pc = "idle" /\ open /\ bg \in {"running", "dying"}
  /\ quit' = (quit \/ eos)
  /\ \/ quit' /\ audioQ' = <<>> /\ st' = Latest(st)
     \/ ~quit' /\ DrainAudio(Latest(st))
  /\ rnntQ' = <<>>
  /\ marred' = marred \cup Rewritten(Latest(st))
                      \cup Mark("interrupted", quit' /\ audioQ # <<>>)
  /\ pc' = "answer" /\ isLast' = last
  /\ UNCHANGED <<open, pos, fnRead, context, bg, bgY, bgBlanks, result, fnRef,
                 client, made, past>>

(* The rest of the audio goes out unless the call was interrupted.         *)
Flush(s) == IF result = "quit" THEN s ELSE [s EXCEPT !.audio = @ \o audioQ]

(* A chunk that finds the thread dead: queues and recogniser are taken     *)
(* over, the entry is deleted, and the chunk goes the normal way.          *)
TakeResult(last) ==
  /\ pc = "idle" /\ open /\ bg = "dead"
  /\ st' = Latest(Flush(st))
  /\ rnntQ' = <<>> /\ audioQ' = <<>>
  /\ \/ result = "failed" /\ UNCHANGED context
     \/ result # "failed" /\ y' = bgY /\ blanks' = bgBlanks
  /\ bg' = "none" /\ bgY' = <<>> /\ bgBlanks' = 0
  /\ quit' = FALSE /\ result' = "ok" /\ fnRef' = "none"
  /\ marred' = marred
       \cup Rewritten(Latest(st))
       \cup Mark("interrupted", result = "quit" /\ audioQ # <<>>)
       \cup Mark("cut", result = "failed" /\ bgY # y)
       \cup Mark("cut", blanks' + 1 >= ClearBlanks /\ Len(st'.asr) > pos.asr)
  /\ pc' = "chunk" /\ isLast' = last
  /\ UNCHANGED <<open, pos, fnRead, client, made, past>>

-----------------------------------------------------------------------------
(* get_generations() after generate_step().                                *)

(* The texts are read; the thread may be writing.                          *)
ReadTexts ==
  /\ pc = "answer"
  /\ fnRead' = st.fn
  /\ pc' = "sending"
  /\ UNCHANGED <<open, isLast, pos, st, context, thread, client, ghosts>>

\* Mutant of NewPositions: the lengths are taken once more.
NewPositionsReread ==
  [agent |-> Len(st.agent), fn |-> Len(st.fn), asr |-> Len(st.asr)]

\* Mutant of NewPositions: the transcript's is moved by what was sent.
NewPositionsOfDelta ==
  [agent |-> Len(st.agent), fn |-> Len(fnRead), asr |-> Len(st.asr) - pos.asr]

NewPositions ==
  [agent |-> Len(st.agent), fn |-> Len(fnRead), asr |-> Len(st.asr)]

Rest(text, position) == SubSeq(text, position + 1, Len(text))

\* Mutant of AsrDelta: a transcript that shrank sends nothing.
AsrDeltaNoSeparator == Rest(st.asr, pos.asr)

(* A transcript that is shorter than what was sent of it was emptied, and  *)
(* a separator is sent; otherwise what is new of it.                       *)
AsrDelta == IF Len(st.asr) < pos.asr THEN <<Sep>> ELSE Rest(st.asr, pos.asr)

\* Mutant of CleanupAfterResponse: the audio stays in the buffer.
CleanupAfterResponseNothing == st

CleanupAfterResponse == [st EXCEPT !.audio = <<>>]

\* Mutant of DeleteState: the positions of the stream id are kept.
DeleteStateOnly == st' = EmptyState /\ pos' = NewPositions

(* delete_state() and the positions' pop() for a last chunk.               *)
DeleteState == st' = EmptyState /\ pos' = NoPositions

Send ==
  /\ pc = "sending"
  /\ got' = [agent |-> got.agent \o Rest(st.agent, pos.agent),
             fn    |-> got.fn \o Rest(fnRead, pos.fn),
             audio |-> got.audio \o st.audio,
             asr   |-> got.asr \o AsrDelta]
  /\ \/ isLast /\ DeleteState
     \/ ~isLast /\ st' = CleanupAfterResponse /\ pos' = NewPositions
  /\ fnRef' = IF isLast /\ fnRef = "pool" THEN "gone" ELSE fnRef
  /\ open' = ~isLast
  /\ marred' = marred \cup Mark("leftover", isLast /\ Tracked)
  /\ fnRead' = <<>> /\ isLast' = FALSE
  /\ pc' = "idle"
  /\ UNCHANGED <<context, bg, bgY, bgBlanks, queues, quit, result,
                 base, made, past>>

-----------------------------------------------------------------------------
(* The background thread.                                                  *)

(* _run_fc_async_steps() on a live frame: every transcript is queued, of   *)
(* which the main thread will only use the newest.                         *)
ThreadHears(e, quiet) ==
  /\ bg = "running" /\ Hears(e, quiet)
  /\ made' = More(Mark("asr", e # <<>>)) /\ WithinBound
  /\ bgY' = bgY \o e
  /\ bgBlanks' = CountBlanks(bgBlanks, quiet)
  /\ rnntQ' = IF bgY' = <<>> THEN rnntQ ELSE bgY'
  /\ UNCHANGED <<server, st, context, bg, audioQ, quit, result, fnRef, client,
                 past, marred>>

(* Acknowledgement and on-hold audio.                                      *)
ThreadSpeaks ==
  /\ bg = "running"
  /\ audioQ' = Append(audioQ, made.audio + 1)
  /\ made' = More({"audio"}) /\ WithinBound
  /\ UNCHANGED <<server, st, context, bg, bgY, bgBlanks, rnntQ, quit, result,
                 fnRef, client, past, marred>>

(* The call's text, and then that of its response, goes to the state that  *)
(* get_or_create_state() returned when the call was complete.              *)
ThreadWrites ==
  /\ bg = "running"
  /\ fnRef' = IF fnRef = "none" THEN "pool" ELSE fnRef
  /\ made' = More({"fn"}) /\ WithinBound
  /\ st' = IF fnRef' = "pool" THEN [st EXCEPT !.fn = Append(@, made.fn + 1)]
                              ELSE st
  /\ UNCHANGED <<server, context, bg, bgY, bgBlanks, queues, quit, result,
                 client, past, marred>>

ThreadPublishes(failed) ==
  /\ bg = "running"
  /\ bg' = "dying"
  /\ result' = IF failed THEN "failed" ELSE IF quit THEN "quit" ELSE "ok"
  /\ UNCHANGED <<server, st, context, bgY, bgBlanks, queues, quit, fnRef,
                 client, ghosts>>

ThreadDies ==
  /\ bg = "dying"
  /\ bg' = "dead"
  /\ UNCHANGED <<server, st, context, bgY, bgBlanks, queues, quit, result,
                 fnRef, client, ghosts>>

-----------------------------------------------------------------------------
Heard == {<<>>} \cup {<<c>> : c \in Token}

Server ==
  \/ StartStream
  \/ \E last \in BOOLEAN : BeginChunk(last) \/ TakeResult(last)
  \/ \E last, eos \in BOOLEAN : DuringCall(last, eos)
  \/ \E e \in Heard, quiet, fn, sotc \in BOOLEAN : Decode(e, quiet, fn, sotc)
  \/ StepRaises
  \/ ReadTexts
  \/ Send

Thread ==
  \/ \E e \in Heard, quiet \in BOOLEAN : ThreadHears(e, quiet)
  \/ ThreadSpeaks
  \/ ThreadWrites
  \/ \E failed \in BOOLEAN : ThreadPublishes(failed)
  \/ ThreadDies

Next == Server \/ Thread

Spec == Init /\ [][Next]_vars
-----------------------------------------------------------------------------
(* Properties                                                              *)

Excused(reasons) == marred \cap reasons # {}

(* i + 1 .. n as a sequence.                                               *)
CountedUp(i, n) == [k \in 1 .. n - i |-> i + k]

(* Every variable stays in its type.                                       *)
TypeOK ==
  /\ pc \in {"idle", "chunk", "answer", "sending"}
  /\ open \in BOOLEAN /\ isLast \in BOOLEAN /\ quit \in BOOLEAN
  /\ st \in [agent : Seq(Nat), fn : Seq(Nat), audio : Seq(Nat),
             asr : Seq(Token), lastSent : Seq(Token)]
  /\ pos \in [agent : Nat, fn : Nat, asr : Nat]
  /\ fnRead \in Seq(Nat) /\ audioQ \in Seq(Nat)
  /\ y \in Seq(Token) /\ bgY \in Seq(Token) /\ rnntQ \in Seq(Token)
  /\ blanks \in 0..ClearBlanks /\ bgBlanks \in 0..ClearBlanks
  /\ bg \in {"none", "running", "dying", "dead"}
  /\ result \in {"ok", "quit", "failed"}
  /\ fnRef \in {"none", "pool", "gone"}
  /\ got \in [agent : Seq(Nat), fn : Seq(Nat), audio : Seq(Nat),
              asr : Seq(Token \cup {Sep})]
  /\ made \in [agent : Nat, fn : Nat, audio : Nat, asr : Nat]
  /\ base \in [agent : Nat, fn : Nat, audio : Nat, asr : Nat]
  /\ past \in Seq(Token \cup {Sep})
  /\ marred \subseteq {"leftover", "interrupted", "repeated", "rewritten", "cut"}

(* Every piece of audio reaches the client once and in the order it was    *)
(* made, through the buffer or through the queue of a call; only an        *)
(* interrupted call loses some.                                            *)
AudioOnce ==
  LET all == got.audio \o st.audio \o audioQ
  IN  /\ \A i, j \in 1..Len(all) : i < j => all[i] < all[j]
      /\ ~Excused({"leftover", "interrupted"})
           => all = CountedUp(base.audio, made.audio)

(* Agent text and function text reach the client once and in order, also   *)
(* what the thread writes while a response is being made.                  *)
TextOnce ==
  ~Excused({"leftover"}) =>
    /\ got.agent \o Rest(st.agent, pos.agent) = CountedUp(base.agent, made.agent)
    /\ got.fn \o Rest(st.fn, pos.fn) = CountedUp(base.fn, made.fn)

SinceSep(text) ==
  SubSeq(text, SelectLastInSeq(text, LAMBDA c : c = Sep) + 1, Len(text))

(* The utterance the client shows is what was sent of the transcript: an   *)
(* emptied transcript is never overlooked, and no delta is cut at a wrong  *)
(* place, as long as a transcript only grows or is emptied.                *)
ShowsTranscript ==
  pc = "idle" /\ open /\ ~Excused({"leftover", "rewritten"}) =>
    SinceSep(got.asr) = SubSeq(st.asr, 1, pos.asr) /\ pos.asr <= Len(st.asr)

(* "incremental, only new ASR text since last response": together the      *)
(* responses are all that was recognised, utterance by utterance.          *)
TranscriptComplete ==
  /\ pc = "idle" /\ open /\ ~Tracked /\ pos.asr = Len(st.asr)
  /\ ~Excused({"leftover", "rewritten", "repeated", "cut"})
  => got.asr = past \o (IF HasWord(y) THEN y ELSE <<>>)

(* Nothing of a stream that was answered to its end is left to the next    *)
(* stream with its id.                                                     *)
EndedStreamForgotten ==
  ~open /\ ~Excused({"leftover"}) => st = EmptyState /\ pos = NoPositions
=============================================================================
