----------------------------- MODULE ContextStore -----------------------------
(***************************************************************************)
(* What the context manager promises the pipeline: a store that keeps the  *)
(* decoding context of the stream being served, however often the manager  *)
(* is replaced, cleaned up in an emergency or left with the contexts of    *)
(* streams that went away.                                                 *)
(*                                                                         *)
(* One stream is served at a time.  Its context grows by one chunk with    *)
(* each chunk that is processed and never otherwise changes; the contexts  *)
(* of the others may be dropped at any moment, but are never written to.   *)
(* The store holds no more contexts than it has room for.                  *)
(***************************************************************************)
EXTENDS Integers, FiniteSets

CONSTANTS
  Streams,
  Room        \* contexts the store can hold

VARIABLES
  phase,      \* of each stream: new, served or gone
  known,      \* the streams the store has a context of
  length      \* chunks in the context of each stream; 0 of unknown ones

storevars == <<phase, known, length>>

Init ==
  /\ phase = [s \in Streams |-> "new"]
  /\ known = {}
  /\ length = [s \in Streams |-> 0]

(* No other stream is being served.                                        *)
Turn(s) ==
  /\ phase[s] \in {"new", "served"}
  /\ \A u \in Streams \ {s} : phase[u] # "served"

(* Stream s gets to phase p and has a context of n chunks, or none; those  *)
(* of the other streams stay what they are or are dropped.                 *)
Step(s, p, has, n) ==
  /\ phase' = [phase EXCEPT ![s] = p]
  /\ s \in known' <=> has
  /\ length' = [u \in Streams |-> IF u = s THEN n
                                  ELSE IF u \in known' THEN length[u] ELSE 0]
  /\ known' \ {s} \subseteq known

(* A stream is announced; its context is empty, if it is made.             *)
Announce(s) ==
  /\ phase[s] = "new" /\ Turn(s)
  /\ \E made \in BOOLEAN : Step(s, "served", made, 0)

(* A chunk is processed; what is left to do after the last one is not.     *)
Hear(s) ==
  /\ Turn(s)
  /\ \E p \in {"served", "gone"} : Step(s, p, TRUE, length[s] + 1)

(* The last chunk is processed, and nothing is kept of the stream.         *)
HearLast(s) == Turn(s) /\ Step(s, "gone", FALSE, 0)

(* A chunk, the last one perhaps, is not processed.                        *)
Miss(s) ==
  /\ Turn(s)
  /\ \E p \in {"served", "gone"} : Step(s, p, TRUE, length[s])

(* The client goes away.                                                   *)
Leave(s) ==
  /\ phase[s] = "served"
  /\ phase' = [phase EXCEPT ![s] = "gone"]
  /\ UNCHANGED <<known, length>>

(* Between two streams everything may be dropped.                          *)
Clear ==
  /\ \A s \in Streams : phase[s] # "served"
  /\ known' = {} /\ length' = [s \in Streams |-> 0]
  /\ UNCHANGED phase

Next ==
  /\ \/ \E s \in Streams :
          Announce(s) \/ Hear(s) \/ HearLast(s) \/ Miss(s) \/ Leave(s)
     \/ Clear
  /\ Cardinality(known') <= Room

Spec == Init /\ [][Next]_storevars
=============================================================================
