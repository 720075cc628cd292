----------------------------- MODULE StreamEngine -----------------------------
(***************************************************************************)
(* The requests of one stream id in the two vLLM engines: text (llm) and   *)
(* speech (tts) (vllm/streaming_llm_engine.py, model_wrappers/             *)
(* model_factory.py and their callers in the wrapper and the pipeline).    *)
(*                                                                         *)
(* Each engine is wrapped by a table of records.  A frame gives one input  *)
(* to the llm and then one to the tts; a conversation is what an engine    *)
(* has in its KV cache.  vLLM may finish a request, lose it, refuse an     *)
(* input, fail or have no token yet; the wrapper marks the record finished *)
(* and the next input begins a new request without a word.  At the end of  *)
(* a stream both requests are aborted, each on its own, errors swallowed.  *)
(*                                                                         *)
(* Main thread and function-call thread share one event loop under a lock  *)
(* that is held for a whole inference, and the pipeline gives a stream id  *)
(* to one of them at a time, so an inference is one step here.             *)
(***************************************************************************)
EXTENDS Integers, Sequences

CONSTANTS
  MaxInputs,          \* bound: inputs per engine and conversation
  MaxConversations    \* bound: streams with this id

Engines == {"llm", "tts"}

ASSUME StreamEngineAssumption == MaxInputs \in Nat /\ MaxConversations \in Nat

VARIABLES
  pc,        \* between frames, prefilling, or before the tts's part of a frame
  isLast,    \* the frame under way is the stream's last
  requests,  \* LLMStreamingEngine.requests at the id, per engine
  live,      \* the id is a request of vLLM
  cache,     \* what that request's KV cache holds
  conv,      \* which stream with the id is served
  fed,       \* how many inputs each engine was given of its conversation
  open,      \* the stream is being served
  marred     \* what makes the properties excuse an engine, per engine

table   == <<requests, live, cache>>
stream  == <<pc, isLast, conv, open>>
vars == <<stream, table, fed, marred>>

NoRequest == [status |-> "none", tokens |-> FALSE, iterator |-> FALSE]
Status    == {"none", "active", "finished"}

(* A record as start_generation() makes it; tokens: generated_tokens is    *)
(* not empty.                                                              *)
NewRequest == [status |-> "active", tokens |-> FALSE, iterator |-> FALSE]

Init ==
  /\ pc = "idle" /\ isLast = FALSE
  /\ requests = [e \in Engines |-> NoRequest]
  /\ live = [e \in Engines |-> FALSE]
  /\ cache = [e \in Engines |-> <<>>]
  /\ conv = 0 /\ fed = [e \in Engines |-> 0] /\ open = FALSE
  /\ marred = [e \in Engines |-> {}]

-----------------------------------------------------------------------------
(* One inference                                                           *)

(* The record the input is given to: a finished request is removed and     *)
(* started again.                                                          *)
Started(e) == IF requests[e].status = "active" THEN requests[e] ELSE NewRequest

Finished(r) == [r EXCEPT !.status = "finished"]

\* Mutant of Refused: the record of a request that refused its input is kept.
RefusedAnyway(r) == r

(* append_request() raised: the request is gone, or did not take the input.*)
Refused(r) == Finished(r)

(* What an engine may do with an input: the record, whether the request is *)
(* alive and its cache afterwards, and whether there is a token.           *)
Result(r, alive, kv, token) ==
  [record |-> r, live |-> alive, cache |-> kv, token |-> token]

(* The next output of the iterator.                                        *)
Outputs(r, kv) ==
  LET more == [r EXCEPT !.tokens = TRUE]
  IN  {Result(more, TRUE, kv, TRUE),
       Result(Finished(more), FALSE, kv, TRUE),
       Result(r, TRUE, kv, FALSE),
       Result(Finished(r), FALSE, kv, FALSE)}
      \cup {Result(Finished(r), alive, kv, FALSE) : alive \in BOOLEAN}

(* generate_next_token() with input x.  vLLM refuses a second request of   *)
(* an id it has; a request that gave no token yet is not given the input.  *)
Inference(e, x) ==
  LET r  == Started(e)
      it == [r EXCEPT !.iterator = TRUE]
  IN  IF ~r.iterator
      THEN IF live[e] THEN {Result(Finished(it), TRUE, cache[e], FALSE)}
                      ELSE Outputs(it, <<x>>)
      ELSE IF ~live[e] THEN {Result(Refused(r), FALSE, cache[e], FALSE)}
      ELSE IF ~r.tokens THEN Outputs(r, cache[e])
      ELSE Outputs(r, Append(cache[e], x))
           \cup {Result(Refused(r), TRUE, cache[e], FALSE)}

Mark(name, holds) == IF holds THEN {name} ELSE {}

Marks(e, r) ==
  LET old == requests[e]
  IN  Mark("skipped", old.status = "active" /\ old.iterator /\ ~old.tokens /\ live[e])
      \cup Mark("undead", r.record.status = "finished" /\ r.live)

Answers(e) == Inference(e, <<conv, fed[e] + 1>>)

(* Engine e is given the next input of the conversation and answers r.     *)
Answered(e, r) ==
  /\ fed[e] < MaxInputs
  /\ fed' = [fed EXCEPT ![e] = @ + 1]
  /\ requests' = [requests EXCEPT ![e] = r.record]
  /\ live' = [live EXCEPT ![e] = r.live]
  /\ cache' = [cache EXCEPT ![e] = IF r.live THEN r.cache ELSE <<>>]

Give(e, r) ==
  /\ Answered(e, r)
  /\ marred' = [marred EXCEPT ![e] = @ \cup Marks(e, r)]

-----------------------------------------------------------------------------
\* Mutant of AbortGeneration: an aborted record stays in the table.
AbortGenerationKeepsRecord(e, fails) ==
  IF requests[e].status = "active" THEN [requests[e] EXCEPT !.status = "aborted"]
  ELSE NoRequest

(* abort_generation(): only an active request is aborted in the engine; if *)
(* that fails, its record stays.                                           *)
AbortGeneration(e, fails) ==
  IF requests[e].status = "active" /\ fails THEN requests[e] ELSE NoRequest

\* Mutant of AbortsInEngine: an active request is only forgotten.
AbortsInEngineNever(e, fails) == FALSE

AbortsInEngine(e, fails) == requests[e].status = "active" /\ ~fails

(* _abort_stream_request(): each engine on its own.                        *)
AbortStreamRequest ==
  \E fails \in [Engines -> BOOLEAN] :
    /\ requests' = [e \in Engines |-> AbortGeneration(e, fails[e])]
    /\ live' = [e \in Engines |-> live[e] /\ ~AbortsInEngine(e, fails[e])]
    /\ cache' = [e \in Engines |-> IF live'[e] THEN cache[e] ELSE <<>>]
    /\ marred' = [e \in Engines |-> marred[e] \cup
         Mark("notAborted", requests[e].status = "active" /\ fails[e])]

Released ==
  /\ AbortStreamRequest
  /\ pc' = "idle" /\ open' = FALSE /\ isLast' = FALSE
  /\ UNCHANGED <<conv, fed>>

-----------------------------------------------------------------------------
(* The stream                                                              *)

(* A stream begins; a prefill gives the speaker to the tts first, and the  *)
(* prompt, if there is one, to the llm.                                    *)
StartStream(prefill) ==
  /\ pc = "idle" /\ ~open /\ conv < MaxConversations
  /\ conv' = conv + 1 /\ open' = TRUE /\ isLast' = FALSE
  /\ fed' = [e \in Engines |-> 0]
  /\ pc' = IF prefill THEN "speaker" ELSE "idle"
  /\ marred' = [e \in Engines |-> marred[e] \ {"skipped"}]
  /\ UNCHANGED table

(* A tts without an answer raises, and there is no prefill of the llm.     *)
PrefillSpeaker ==
  /\ pc = "speaker"
  /\ \E r \in Answers("tts") :
       /\ Give("tts", r)
       /\ pc' \in IF r.token THEN {"prompt", "idle"} ELSE {"idle"}
  /\ UNCHANGED <<isLast, conv, open>>

(* The answer to the prompt is not looked at.                              *)
PrefillPrompt ==
  /\ pc = "prompt"
  /\ \E r \in Answers("llm") : Give("llm", r)
  /\ pc' = "idle"
  /\ UNCHANGED <<isLast, conv, open>>

(* A frame's text; an llm without an answer counts as a PAD.               *)
FrameText(last) ==
  /\ pc = "idle" /\ open
  /\ \E r \in Answers("llm") : Give("llm", r)
  /\ pc' = "tts" /\ isLast' = last
  /\ UNCHANGED <<conv, open>>

(* Its speech; a tts without an answer raises, also on the last frame,     *)
(* which is then not cleaned up after.                                     *)
FrameSpeech ==
  /\ pc = "tts"
  /\ \E r \in Answers("tts") :
       LET raises == isLast /\ ~r.token
       IN  /\ Answered("tts", r)
           /\ marred' = [e \in Engines |-> marred[e] \cup Mark("notAborted", raises)
                           \cup (IF e = "tts" THEN Marks(e, r) ELSE {})]
           /\ pc' = IF isLast /\ ~raises THEN "end" ELSE "idle"
           /\ open' = ~raises
  /\ UNCHANGED <<isLast, conv>>

EndStream ==
  /\ pc = "end"
  /\ Released

(* reset_session() ends what is open.                                      *)
ResetSession ==
  /\ pc = "idle" /\ open
  /\ Released

(* The thread of a function call between two frames: an llm step, the tts  *)
(* step of it or one of an on-hold message; a tts that fails is ignored.   *)
CallStep(e) ==
  /\ pc = "idle" /\ open
  /\ \E r \in Answers(e) : Give(e, r)
  /\ UNCHANGED stream

(* The last frame comes during a call and is not cleaned up after.         *)
LastInCall ==
  /\ pc = "idle" /\ open
  /\ open' = FALSE
  /\ marred' = [e \in Engines |-> marred[e] \cup {"notAborted"}]
  /\ UNCHANGED <<pc, isLast, conv, table, fed>>

(* vLLM loses a request by itself.                                         *)
EngineDrops(e) ==
  /\ live[e]
  /\ live' = [live EXCEPT ![e] = FALSE]
  /\ cache' = [cache EXCEPT ![e] = <<>>]
  /\ UNCHANGED <<stream, requests, fed, marred>>

Next ==
  \/ \E prefill \in BOOLEAN : StartStream(prefill)
  \/ PrefillSpeaker
  \/ PrefillPrompt
  \/ \E last \in BOOLEAN : FrameText(last)
  \/ FrameSpeech
  \/ EndStream
  \/ ResetSession
  \/ LastInCall
  \/ \E e \in Engines : CallStep(e) \/ EngineDrops(e)

Spec == Init /\ [][Next]_vars
-----------------------------------------------------------------------------
(* Properties                                                              *)

Ended == pc = "idle" /\ ~open

(* Every variable stays in its type; an aborted record leaves the table.   *)
TypeOK ==
  /\ pc \in {"idle", "speaker", "prompt", "tts", "end"}
  /\ isLast \in BOOLEAN /\ open \in BOOLEAN
  /\ requests \in [Engines ->
       [status : Status, tokens : BOOLEAN, iterator : BOOLEAN]]
  /\ live \in [Engines -> BOOLEAN]
  /\ conv \in Nat /\ fed \in [Engines -> Nat]
  /\ cache \in [Engines -> Seq(Nat \X Nat)]
  /\ marred \in [Engines -> SUBSET {"skipped", "undead", "notAborted"}]

Usable(e) == requests[e].status = "active" /\ requests[e].iterator /\ live[e]

(* What an engine answers from is the end of the conversation, without     *)
(* gaps, and nothing else: a request that was begun anew has forgotten the *)
(* beginning, but no input is missed in the middle, and no earlier stream  *)
(* with the id is continued, unless that could not be aborted.  An input   *)
(* that came before the first token is not appended: then there is a gap,  *)
(* but what is heard is still this conversation, in order and once.  A     *)
(* request that was forgotten while it lived is never answered from.       *)
CacheIsSuffix ==
  \A e \in Engines : Usable(e) /\ "notAborted" \notin marred[e] =>
    LET n == Len(cache[e])
    IN  /\ \A k \in 1..n : cache[e][k][1] = conv /\ cache[e][k][2] <= fed[e]
        /\ \A i, k \in 1..n : i < k => cache[e][i][2] < cache[e][k][2]
        /\ "skipped" \notin marred[e] =>
             \A k \in 1..n : cache[e][k] = <<conv, fed[e] - n + k>>

(* A stream that was served to its end has no record in either engine,     *)
(* unless an abort failed, and no request left, unless a record was marked *)
(* finished while its request lived.                                       *)
EndReleases ==
  Ended => \A e \in Engines : "notAborted" \notin marred[e] =>
    /\ requests[e] = NoRequest
    /\ "undead" \notin marred[e] => ~live[e]
=============================================================================
