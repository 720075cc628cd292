----------------------------- MODULE ContextSlots -----------------------------
(***************************************************************************)
(* The slots of S2SContextManager and how the pipeline uses them           *)
(* (inference/streaming/state/s2s_context_manager.py, prefill_for_new_     *)
(* stream and inner_generate_step of streaming_s2s_pipeline.py).           *)
(*                                                                         *)
(* Each stream's decoding context lives in a slot of a fixed pool.  The    *)
(* pipeline replaces the whole manager when a stream is prefilled and when *)
(* a first chunk arrives without a prefill; a slot is given back by a      *)
(* stream's last chunk, and all slots are taken back when none is free.    *)
(*                                                                         *)
(* External: the server's sequence batcher serves one stream at a time     *)
(* (max_candidate_sequences 1) and forgets one that stays silent too long. *)
(***************************************************************************)
EXTENDS Integers, Sequences

CONSTANTS
  Streams,
  NoStream,
  NumSlots,    \* num_slots, the pipeline's batch_size
  MaxChunks    \* max_len in chunks

ASSUME SlotsAssumption ==
  /\ NoStream \notin Streams
  /\ NumSlots \in Nat \ {0}
  /\ MaxChunks \in Nat

VARIABLES
  mgr,              \* context_manager: slotOf, streamOf, free, contexts
  streamHasPrompt,  \* _stream_has_prompt, one flag for all streams
  requests,         \* streams with a request in the engine
  status,           \* new, prefilled, open, done, lost
  sent              \* chunks of each stream that were processed

vars == <<mgr, streamHasPrompt, requests, status, sent>>

Slots == 1 .. NumSlots

NoSlot == 0

Contexts == [owner : Streams \cup {NoStream}, chunks : Nat]

Managers ==
  [slotOf   : [Streams -> Slots \cup {NoSlot}],
   streamOf : [Slots -> Streams \cup {NoStream}],
   free     : Seq(Slots),
   contexts : [Slots -> Contexts]]

NewContext(s) == [owner |-> s, chunks |-> 0]

NoContext == NewContext(NoStream)

-----------------------------------------------------------------------------
(* The manager.                                                            *)

(* reset()                                                                 *)
FreshManager ==
  [slotOf   |-> [s \in Streams |-> NoSlot],
   streamOf |-> [i \in Slots |-> NoStream],
   free     |-> [i \in Slots |-> i],
   contexts |-> [i \in Slots |-> NoContext]]

\* Mutant of ResetSlot: the stream stays registered.
ResetSlotKeepsStream(m, i) ==
  [m EXCEPT !.free = Append(@, i), !.contexts[i] = NoContext]

(* reset_slot() of a slot that a stream holds.                             *)
ResetSlot(m, i) ==
  [m EXCEPT !.slotOf[m.streamOf[i]] = NoSlot,
            !.streamOf[i] = NoStream,
            !.free = Append(@, i),
            !.contexts[i] = NoContext]

(* _ensure_slot(): the slot at the head of the queue is cleaned and taken. *)
TakeSlot(m, s) ==
  LET i == Head(m.free)
  IN  [m EXCEPT !.slotOf[s] = i,
                !.streamOf[i] = s,
                !.free = Tail(@),
                !.contexts[i] = NoContext]

\* Mutant of EnsureSlot: the emergency clean-up releases no stream.
EnsureSlotKeepsOrphans(m, s) ==
  IF m.slotOf[s] # NoSlot THEN m
  ELSE IF m.free # <<>> THEN TakeSlot(m, s)
  ELSE TakeSlot([m EXCEPT !.free = FreshManager.free], s)

(* _ensure_slot(): with no slot free, reset_slot() is called for each slot, *)
(* which leaves what reset() leaves.                                       *)
EnsureSlot(m, s) ==
  IF m.slotOf[s] # NoSlot THEN m
  ELSE IF m.free # <<>> THEN TakeSlot(m, s)
  ELSE TakeSlot(FreshManager, s)

\* Mutant of GetContext: a context is made although the slot has one.
GetContextAnew(m, s) ==
  LET e == EnsureSlot(m, s)
  IN  [e EXCEPT !.contexts[e.slotOf[s]] = NewContext(s)]

(* get_context()                                                           *)
GetContext(m, s) ==
  LET e == EnsureSlot(m, s)
      i == e.slotOf[s]
  IN  IF e.contexts[i] # NoContext THEN e
      ELSE [e EXCEPT !.contexts[i] = NewContext(s)]

(* update_context()                                                        *)
UpdateContext(m, s) == [m EXCEPT !.contexts[m.slotOf[s]].chunks = @ + 1]

(* reset_slots() of a stream whose chunk was its last.                     *)
ReleaseLast(m, s, last) == IF last THEN ResetSlot(m, m.slotOf[s]) ELSE m

-----------------------------------------------------------------------------
Init ==
  /\ mgr = FreshManager
  /\ streamHasPrompt = FALSE
  /\ requests = {}
  /\ status = [s \in Streams |-> "new"]
  /\ sent = [s \in Streams |-> 0]

Served == {s \in Streams : status[s] \in {"prefilled", "open"}}

MayServe(s) == Served \subseteq {s}

(* prefill_for_new_stream(): a zero-length first frame; a prompt starts a  *)
(* request in the engine, and so does, prompt or not, the speaker of an    *)
(* EarTTS engine.                                                          *)
Prefill(s, prompted) ==
  /\ status[s] = "new" /\ MayServe(s)
  /\ mgr' = GetContext(FreshManager, s)
  /\ streamHasPrompt' = prompted
  /\ \/ requests' = requests \cup {s}
     \/ ~prompted /\ UNCHANGED requests
  /\ status' = [status EXCEPT ![s] = "prefilled"]
  /\ UNCHANGED sent

(* The prompt's step raises: the manager is new already, the flag is still *)
(* that of an earlier stream.                                              *)
PrefillFails(s) ==
  /\ status[s] = "new" /\ MayServe(s)
  /\ mgr' = FreshManager
  /\ requests' = requests \cup {s}
  /\ status' = [status EXCEPT ![s] = "prefilled"]
  /\ UNCHANGED <<streamHasPrompt, sent>>

(* is_first of a chunk: the command line client repeats it after a prefill *)
(* frame, a client of the server does not.                                 *)
IsFirst(s) ==
  CASE status[s] = "new"       -> {TRUE}
    [] status[s] = "prefilled" -> {TRUE, FALSE}
    [] OTHER                   -> {FALSE}

\* Mutant of ManagerOf: the manager is replaced whatever chunk it is.
ManagerOfAnyChunk(first) == IF ~streamHasPrompt THEN FreshManager ELSE mgr

(* A first chunk without a prefill gets a new manager.                     *)
ManagerOf(first) == IF first /\ ~streamHasPrompt THEN FreshManager ELSE mgr

(* inner_generate_step() of one chunk.                                     *)
Chunk(s, first, last) ==
  /\ status[s] \in {"new", "prefilled", "open"} /\ MayServe(s)
  /\ first \in IsFirst(s)
  /\ LET m == GetContext(ManagerOf(first), s)
     IN  /\ m.contexts[m.slotOf[s]].chunks < MaxChunks
         /\ mgr' = ReleaseLast(UpdateContext(m, s), s, last)
  /\ streamHasPrompt' = FALSE
  /\ requests' = IF last THEN requests \ {s} ELSE requests \cup {s}
  /\ status' = [status EXCEPT ![s] = IF last THEN "done" ELSE "open"]
  /\ sent' = [sent EXCEPT ![s] = @ + 1]

(* The step raises, as it does when the context is full: nothing after     *)
(* get_context() is done, for a last chunk neither.                        *)
ChunkFails(s, first, last) ==
  /\ status[s] \in {"new", "prefilled", "open"} /\ MayServe(s)
  /\ first \in IsFirst(s)
  /\ mgr' = GetContext(ManagerOf(first), s)
  /\ streamHasPrompt' = FALSE
  /\ requests' = requests \cup {s}
  /\ status' = [status EXCEPT ![s] = IF last THEN "lost" ELSE "open"]
  /\ UNCHANGED sent

(* The same after update_context(), before the clean-up of a last chunk.   *)
ChunkFailsUpdated(s, first, last) ==
  /\ status[s] \in {"new", "prefilled", "open"} /\ MayServe(s)
  /\ first \in IsFirst(s)
  /\ LET m == GetContext(ManagerOf(first), s)
     IN  /\ m.contexts[m.slotOf[s]].chunks < MaxChunks
         /\ mgr' = UpdateContext(m, s)
  /\ streamHasPrompt' = FALSE
  /\ requests' = requests \cup {s}
  /\ status' = [status EXCEPT ![s] = IF last THEN "lost" ELSE "open"]
  /\ sent' = [sent EXCEPT ![s] = @ + 1]

(* The client is gone; the pipeline is not told.                           *)
Disconnect(s) ==
  /\ s \in Served
  /\ status' = [status EXCEPT ![s] = "lost"]
  /\ UNCHANGED <<mgr, streamHasPrompt, requests, sent>>

(* reset_session(), between two runs of the command line client.           *)
ResetSession ==
  /\ Served = {}
  /\ mgr' = FreshManager
  /\ requests' = {s \in requests : mgr.slotOf[s] = NoSlot}
  /\ UNCHANGED <<streamHasPrompt, status, sent>>

Next ==
  \/ \E s \in Streams, prompted \in BOOLEAN : Prefill(s, prompted)
  \/ \E s \in Streams, first, last \in BOOLEAN :
       \/ Chunk(s, first, last)
       \/ ChunkFails(s, first, last)
       \/ ChunkFailsUpdated(s, first, last)
  \/ \E s \in Streams : PrefillFails(s) \/ Disconnect(s)
  \/ ResetSession

Spec == Init /\ [][Next]_vars

-----------------------------------------------------------------------------
(* Properties                                                              *)

(* Every variable stays in its type.                                       *)
TypeOK ==
  /\ mgr \in Managers
  /\ streamHasPrompt \in BOOLEAN
  /\ requests \subseteq Streams
  /\ status \in [Streams -> {"new", "prefilled", "open", "done", "lost"}]
  /\ sent \in [Streams -> Nat]

Registered(m) ==
  \A s \in Streams, i \in Slots : m.slotOf[s] = i <=> m.streamOf[i] = s

FreeSlots(m) == {m.free[k] : k \in 1 .. Len(m.free)}

Queued(m) ==
  /\ FreeSlots(m) = {i \in Slots : m.streamOf[i] = NoStream}
  /\ \A j, k \in 1 .. Len(m.free) : m.free[j] = m.free[k] => j = k

Owned(m) == \A i \in Slots : m.contexts[i].owner \in {m.streamOf[i], NoStream}

Partition(m) == Registered(m) /\ Queued(m) /\ Owned(m)

(* The two maps are each other's inverse; the queue holds each slot no     *)
(* stream has, once, so that put() on the bounded queue never blocks; a    *)
(* context belongs to the stream its slot is registered for.               *)
SlotsPartition == Partition(mgr)

(* A stream that is being served finds the context of its earlier chunks,  *)
(* all of them and no other stream's: no replacement of the manager and no *)
(* emergency clean-up takes it away.                                       *)
OwnContext ==
  \A s \in Streams :
    status[s] = "open" =>
      /\ mgr.slotOf[s] # NoSlot
      /\ mgr.contexts[mgr.slotOf[s]] = [owner |-> s, chunks |-> sent[s]]

(* A stream whose last chunk was processed leaves nothing behind, neither  *)
(* a slot nor a request of the engine.                                     *)
DoneReleased ==
  \A s \in Streams :
    status[s] = "done" => mgr.slotOf[s] = NoSlot /\ s \notin requests

-----------------------------------------------------------------------------
(* The manager and the pipeline implement a store of contexts.             *)

HasSlot(s) == mgr.slotOf[s] # NoSlot

streamPhase ==
  [s \in Streams |-> IF status[s] = "new" THEN "new"
                     ELSE IF s \in Served THEN "served" ELSE "gone"]

knownStreams == {s \in Streams : HasSlot(s)}

contextLength ==
  [s \in Streams |->
     IF HasSlot(s) THEN mgr.contexts[mgr.slotOf[s]].chunks ELSE 0]

Store == INSTANCE ContextStore WITH
  Room   <- NumSlots,
  phase  <- streamPhase,
  known  <- knownStreams,
  length <- contextLength

StoreSpec == Store!Spec
=============================================================================
