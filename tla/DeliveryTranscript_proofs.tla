---------------------- MODULE DeliveryTranscript_proofs ----------------------
(***************************************************************************)
(* Proofs about the transcript a client is shown: for any vocabulary, any  *)
(* recogniser, any number of tokens and any timing of the thread.          *)
(***************************************************************************)
EXTENDS Delivery_proofs, WellFoundedInduction

Piece == Token \cup {Sep}

-----------------------------------------------------------------------------
(* Sequences that are cut and joined.                                      *)

LEMMA RestOfAny ==
  ASSUME NEW S, NEW text \in Seq(S), NEW n \in 0..Len(text)
  PROVE  /\ Rest(text, n) \in Seq(S)
         /\ Len(Rest(text, n)) = Len(text) - n
         /\ \A i \in 1 .. Len(text) - n : Rest(text, n)[i] = text[i + n]
<1>1. \A i \in n + 1 .. Len(text) : text[i] \in S
  BY ElementOfSeq
<1>2. Len(text) \in Nat
  BY LenProperties
<1> DEFINE k == Len(text)
<1>3. /\ Rest(text, n) \in Seq(S)
      /\ Len(Rest(text, n)) = IF n + 1 <= k THEN k - (n + 1) + 1 ELSE 0
      /\ \A i \in 1 .. k - (n + 1) + 1 : Rest(text, n)[i] = text[(n + 1) + i - 1]
  BY <1>1, <1>2, SubSeqProperties DEF Rest
<1>4. k \in Nat /\ n \in 0..k
  BY <1>2
<1> HIDE DEF k
<1>5. k - (n + 1) + 1 = k - n /\ (IF n + 1 <= k THEN k - (n + 1) + 1 ELSE 0) = k - n
  BY <1>4
<1>6. ASSUME NEW i \in 1 .. k - n PROVE Rest(text, n)[i] = text[i + n]
  <2>1. (n + 1) + i - 1 = i + n /\ i \in 1 .. k - (n + 1) + 1
    BY <1>4, <1>5
  <2> QED
    BY <1>3, <2>1, Zenon
<1> QED
  BY <1>3, <1>5, <1>6 DEF k

(* What follows a place in a text is longer by what is added to the text.  *)
LEMMA RestConcat ==
  ASSUME NEW S, NEW a \in Seq(S), NEW b \in Seq(S), NEW n \in 0..Len(a)
  PROVE  Rest(a \o b, n) = Rest(a, n) \o b
<1> DEFINE l == a \o b
           r == Rest(a, n)
           q == Rest(l, n)
           M == Len(a) - n
           B == Len(b)
<1>1. Len(a) \in Nat /\ B \in Nat /\ M \in Nat /\ n \in Nat /\ Len(a) = M + n
  BY LenProperties
<1>2. /\ l \in Seq(S) /\ Len(l) = M + n + B
      /\ \A i \in 1 .. M + n + B : l[i] = IF i <= M + n THEN a[i] ELSE b[i - (M + n)]
  BY <1>1, ConcatProperties
<1>3. r \in Seq(S) /\ Len(r) = M /\ \A i \in 1..M : r[i] = a[i + n]
  BY RestOfAny
<1> HIDE DEF l, r, M, B
<1>4. q \in Seq(S) /\ Len(q) = M + B /\ \A i \in 1 .. M + B : q[i] = l[i + n]
  <2>1. n \in 0..Len(l) /\ Len(l) - n = M + B
    BY <1>1, <1>2
  <2>2. /\ q \in Seq(S) /\ Len(q) = Len(l) - n
        /\ \A i \in 1 .. Len(l) - n : q[i] = l[i + n]
    BY <1>2, <2>1, RestOfAny
  <2> HIDE DEF q
  <2> QED
    BY <2>1, <2>2
<1> HIDE DEF q
<1>5. /\ r \o b \in Seq(S) /\ Len(r \o b) = M + B
      /\ \A i \in 1 .. M + B : (r \o b)[i] = IF i <= M THEN r[i] ELSE b[i - M]
  BY <1>1, <1>3, ConcatProperties DEF B
<1>6. ASSUME NEW i \in 1 .. M + B PROVE q[i] = (r \o b)[i]
  <2>1. i + n \in 1 .. M + n + B /\ (i + n <= M + n <=> i <= M) /\ i + n - (M + n) = i - M
    BY <1>1
  <2>2. q[i] = l[i + n]
    BY <1>4
  <2>3. l[i + n] = IF i <= M THEN a[i + n] ELSE b[i - M]
    <3> DEFINE j == i + n
    <3>1. j \in 1 .. M + n + B
      BY <2>1
    <3>2. \A h \in 1 .. M + n + B : l[h] = IF h <= M + n THEN a[h] ELSE b[h - (M + n)]
      BY <1>2
    <3>3. (j <= M + n <=> i <= M) /\ j - (M + n) = i - M
      BY <1>1
    <3> HIDE DEF j
    <3>4. l[j] = IF j <= M + n THEN a[j] ELSE b[j - (M + n)]
      BY <3>1, <3>2, Zenon
    <3>5. l[j] = IF i <= M THEN a[j] ELSE b[i - M]
      BY <3>3, <3>4
    <3> QED
      BY <3>5 DEF j
  <2>4. (r \o b)[i] = IF i <= M THEN r[i] ELSE b[i - M]
    BY <1>5
  <2>5. i <= M => r[i] = a[i + n]
    BY <1>1, <1>3
  <2> QED
    BY <2>2, <2>3, <2>4, <2>5
<1>7. q = r \o b
  BY <1>4, <1>5, <1>6, SeqEqual
<1> QED
  BY <1>7 DEF q, l, r

(* A text is its beginning and its rest.                                   *)
LEMMA SplitAt ==
  ASSUME NEW S, NEW a \in Seq(S), NEW n \in 0..Len(a)
  PROVE  /\ SubSeq(a, 1, n) \in Seq(S) /\ Len(SubSeq(a, 1, n)) = n
         /\ \A i \in 1..n : SubSeq(a, 1, n)[i] = a[i]
         /\ SubSeq(a, 1, n) \o Rest(a, n) = a
<1>1. Len(a) \in Nat /\ n \in Int /\ 1 \in Int
  BY LenProperties
<1>2. \A i \in 1..n : a[i] \in S
  BY <1>1, ElementOfSeq
<1>3. /\ SubSeq(a, 1, n) \in Seq(S) /\ Len(SubSeq(a, 1, n)) = n
      /\ \A i \in 1..n : SubSeq(a, 1, n)[i] = a[i]
  BY <1>1, <1>2, SubSeqProperties
<1>4. SubSeq(a, 1, n) \o SubSeq(a, n + 1, Len(a)) = SubSeq(a, 1, Len(a))
  <2>1. 1 \in 1 .. Len(a) + 1 /\ n \in 1 - 1 .. Len(a) /\ Len(a) \in n .. Len(a)
    BY <1>1
  <2> QED
    BY <2>1, ConcatAdjacentSubSeq
<1> QED
  BY <1>3, <1>4, SubSeqFull DEF Rest

(* A text that extends another is the other and something more.            *)
LEMMA PrefixOf ==
  ASSUME NEW S, NEW a \in Seq(S), NEW b \in Seq(S), IsPrefix(a, b)
  PROVE  Len(a) \in 0..Len(b) /\ Rest(b, Len(a)) \in Seq(S) /\ b = a \o Rest(b, Len(a))
<1>1. Len(a) \in 0..Len(b) /\ SubSeq(a, 1, Len(a)) = SubSeq(b, 1, Len(a))
  BY LenProperties DEF IsPrefix
<1>2. SubSeq(a, 1, Len(a)) = a
  BY SubSeqFull
<1>3. Rest(b, Len(a)) \in Seq(S) /\ SubSeq(b, 1, Len(a)) \o Rest(b, Len(a)) = b
  BY <1>1, RestOfAny, SplitAt
<1> QED
  BY <1>1, <1>2, <1>3

-----------------------------------------------------------------------------
(* The text since the last separator.                                      *)

LEMMA LastOf ==
  ASSUME NEW n \in Nat, NEW I \in SUBSET (1..n), I # {}
  PROVE  Max(I) \in I /\ \A j \in I : j <= Max(I)
<1> DEFINE K == {n - i : i \in I}
<1>1. K \subseteq Nat /\ K # {}
  <2>1. ASSUME NEW i \in I PROVE n - i \in Nat
    OBVIOUS
  <2>2. PICK i \in I : TRUE
    OBVIOUS
  <2>3. n - i \in K
    BY <2>2
  <2> QED
    BY <2>1, <2>3
<1>2. PICK k \in K : \A j \in K : ~ (<<j, k>> \in OpToRel(<, Nat))
  BY <1>1, NatLessThanWellFounded, WFMin
<1>3. PICK m \in I : k = n - m
  BY <1>2
<1>4. \A j \in I : m >= j
  <2>1. ASSUME NEW j \in I PROVE m >= j
    <3>1. n - j \in K /\ n - j \in Nat /\ k \in Nat
      BY <1>1, <1>2
    <3>2. ~ (n - j < k)
      BY <1>2, <3>1 DEF OpToRel
    <3>3. j \in Int /\ m \in Int
      OBVIOUS
    <3> QED
      BY <1>3, <3>2, <3>3
  <2> QED
    BY <2>1
<1>5. Max(I) \in I /\ \A j \in I : Max(I) >= j
  BY <1>4 DEF Max
<1> QED
  BY <1>5

LastSepAt(text, l) ==
  /\ l \in 0..Len(text)
  /\ \A i \in l + 1 .. Len(text) : text[i] # Sep
  /\ l > 0 => text[l] = Sep

LEMMA LastSep ==
  ASSUME NEW text \in Seq(Piece)
  PROVE  \E l : LastSepAt(text, l) /\ SinceSep(text) = Rest(text, l)
<1> DEFINE I == {i \in 1..Len(text) : text[i] = Sep}
           l == IF I # {} THEN Max(I) ELSE 0
<1>1. SelectLastInSeq(text, LAMBDA c : c = Sep) = l
  BY DEF SelectLastInSeq
<1>2. SinceSep(text) = Rest(text, l)
  BY <1>1 DEF SinceSep, Rest
<1>3. Len(text) \in Nat
  BY LenProperties
<1>4. LastSepAt(text, l)
  <2>1. CASE I = {}
    BY <1>3, <2>1 DEF LastSepAt
  <2>2. CASE I # {}
    <3>1. l \in I /\ \A j \in I : j <= l
      BY <1>3, <2>2, LastOf
    <3> HIDE DEF l
    <3>2. \A i \in l + 1 .. Len(text) : text[i] # Sep
      BY <1>3, <3>1
    <3> QED
      BY <1>3, <3>1, <3>2 DEF LastSepAt
  <2> QED
    BY <2>1, <2>2
<1> QED
  BY <1>2, <1>4

LEMMA SinceSepAt ==
  ASSUME NEW text \in Seq(Piece), NEW l, LastSepAt(text, l)
  PROVE  SinceSep(text) = Rest(text, l)
<1>1. PICK m : LastSepAt(text, m) /\ SinceSep(text) = Rest(text, m)
  BY LastSep
<1>2. Len(text) \in Nat
  BY LenProperties
<1>3. m = l
  BY <1>1, <1>2 DEF LastSepAt
<1> QED
  BY <1>1, <1>3

(* Tokens make the utterance longer, a separator begins a new one.         *)
LEMMA SinceSepTokens ==
  ASSUME NEW g \in Seq(Piece), NEW t \in Seq(Token)
  PROVE  SinceSep(g \o t) = SinceSep(g) \o t
<1>1. t \in Seq(Piece) /\ Len(g) \in Nat /\ Len(t) \in Nat
  BY SeqMonotonic, LenProperties DEF Piece
<1>2. /\ g \o t \in Seq(Piece) /\ Len(g \o t) = Len(g) + Len(t)
      /\ \A i \in 1 .. Len(g) + Len(t) :
           (g \o t)[i] = IF i <= Len(g) THEN g[i] ELSE t[i - Len(g)]
  BY <1>1, ConcatProperties
<1>3. PICK l : LastSepAt(g, l) /\ SinceSep(g) = Rest(g, l)
  BY LastSep
<1>4. l \in 0..Len(g)
  BY <1>3 DEF LastSepAt
<1>5. \A i \in 1..Len(t) : t[i] # Sep
  BY ElementOfSeq, DeliveryAssumption DEF Token, DeliveryAssumption, Dot, Sep
<1>6. LastSepAt(g \o t, l)
  <2>1. ASSUME NEW i \in l + 1 .. Len(g) + Len(t) PROVE (g \o t)[i] # Sep
    <3>1. CASE i <= Len(g)
      BY <1>1, <1>2, <1>3, <1>4, <3>1 DEF LastSepAt
    <3>2. CASE ~(i <= Len(g))
      <4>1. i - Len(g) \in 1..Len(t) /\ i \in 1 .. Len(g) + Len(t)
        BY <1>1, <1>4, <3>2
      <4> QED
        BY <1>2, <1>5, <3>2, <4>1
    <3> QED
      BY <3>1, <3>2
  <2>2. l > 0 => (g \o t)[l] = Sep
    BY <1>1, <1>2, <1>3, <1>4 DEF LastSepAt
  <2> QED
    BY <1>1, <1>2, <1>4, <2>1, <2>2 DEF LastSepAt
<1>7. SinceSep(g \o t) = Rest(g \o t, l)
  BY <1>2, <1>6, SinceSepAt
<1>8. Rest(g \o t, l) = Rest(g, l) \o t
  BY <1>1, <1>4, RestConcat
<1> QED
  BY <1>3, <1>7, <1>8

LEMMA SinceSepEnd ==
  ASSUME NEW g \in Seq(Piece)
  PROVE  SinceSep(g \o <<Sep>>) = <<>>
<1> DEFINE l == Append(g, Sep)
           n == Len(g) + 1
<1>1. Sep \in Piece /\ Len(g) \in Nat
  BY LenProperties DEF Piece
<1>2. g \o <<Sep>> = l /\ l \in Seq(Piece) /\ Len(l) = n /\ l[n] = Sep
  BY <1>1, AppendProperties, AppendIsConcat
<1>3. n \in Nat /\ n > 0
  BY <1>1
<1> HIDE DEF l, n
<1>4. LastSepAt(l, n)
  BY <1>2, <1>3 DEF LastSepAt
<1>5. SinceSep(l) = Rest(l, n)
  BY <1>2, <1>4, SinceSepAt
<1>6. Rest(l, n) = <<>>
  BY <1>2, <1>3, SubSeqEmpty DEF Rest
<1> QED
  BY <1>2, <1>5, <1>6

LEMMA SinceSepEmpty == SinceSep(<<>>) = <<>>
<1>1. <<>> \in Seq(Piece) /\ Len(<<>>) = 0
  OBVIOUS
<1>2. LastSepAt(<<>>, 0)
  BY <1>1 DEF LastSepAt
<1>3. Rest(<<>>, 0) = <<>>
  BY <1>1, SubSeqEmpty DEF Rest
<1> QED
  BY <1>1, <1>2, <1>3, SinceSepAt

-----------------------------------------------------------------------------
(* The invariants.                                                         *)

Shown(text) == IF HasWord(text) THEN text ELSE <<>>

Failings == {"leftover", "rewritten", "repeated", "cut"}

(* What the client shows is what was sent of the transcript; between the   *)
(* emptying of a transcript and the response the client shows the old one. *)
Utterance ==
  open /\ ~Excused({"leftover", "rewritten"}) =>
    /\ Len(SinceSep(got.asr)) = pos.asr
    /\ pos.asr <= Len(st.asr) => SinceSep(got.asr) = SubSeq(st.asr, 1, pos.asr)
    /\ pos.asr > Len(st.asr) => st.asr = <<>> /\ pc \in {"answer", "sending"}

(* With the next response the client has all that is in the transcript.    *)
Complete == open /\ ~Excused(Failings) => got.asr \o AsrDelta = past \o st.asr

(* The transcript follows the recogniser, that of the context or that of   *)
(* the thread, through whose queue it comes.                               *)
InStep ==
  open /\ ~Excused(Failings) =>
    /\ bg = "none" => st.asr = Shown(y)
    /\ bg # "none" /\ rnntQ = <<>> => st.asr = Shown(bgY)
    /\ rnntQ # <<>> => rnntQ = bgY

(* Only a call's transcript waits for a response when a chunk begins, and  *)
(* then the silence that empties it is not reached in that chunk.          *)
NotYetSilent ==
  /\ open /\ ~Excused(Failings)
  /\ pc \in {"idle", "chunk"} /\ bg = "none" /\ pos.asr < Len(st.asr)
  => blanks + 1 < ClearBlanks

QueueOfCall == bg = "none" => rnntQ = <<>>

TranscriptInv == Utterance /\ Complete /\ InStep /\ NotYetSilent /\ QueueOfCall

-----------------------------------------------------------------------------
(* What the steps do to the transcript.                                    *)

LEMMA AsrTypes ==
  ASSUME Types
  PROVE  /\ st \in State /\ st.asr \in Seq(Token) /\ st.lastSent \in Seq(Token)
         /\ got.asr \in Seq(Piece) /\ past \in Seq(Piece)
         /\ pos.asr \in Nat /\ Len(st.asr) \in Nat
         /\ y \in Seq(Token) /\ bgY \in Seq(Token) /\ rnntQ \in Seq(Token)
  BY LenProperties DEF Types, State, Received, Piece

Kept ==
  /\ UNCHANGED <<st.asr, pos, got.asr, past, context, bgY, rnntQ>>
  /\ open' => open
  /\ marred \subseteq marred'
  /\ bg' = "none" <=> bg = "none"
  /\ pc' \in {"idle", "chunk"} => pc \in {"idle", "chunk"}
  /\ pc \in {"answer", "sending"} => pc' \in {"answer", "sending"}

LEMMA KeptOf ==
  ASSUME Types, Modes, Life,
         \/ \E last \in BOOLEAN : BeginChunk(last)
         \/ StepRaises \/ ReadTexts \/ ThreadSpeaks \/ ThreadWrites
         \/ \E failed \in BOOLEAN : ThreadPublishes(failed)
         \/ ThreadDies
         \/ UNCHANGED vars
  PROVE  Kept
<1> USE DEF server, context, queues, thread, client, ghosts, Modes
<1>1. ASSUME NEW last \in BOOLEAN, BeginChunk(last) PROVE Kept
  BY <1>1 DEF BeginChunk, Kept
<1>2. CASE StepRaises
  BY <1>2 DEF StepRaises, Kept, Life
<1>3. CASE ReadTexts
  BY <1>3 DEF ReadTexts, Kept
<1>4. CASE ThreadSpeaks
  BY <1>4 DEF ThreadSpeaks, Kept
<1>5. CASE ThreadWrites
  <2>1. st' = [st EXCEPT !.fn = Append(@, made.fn + 1)] \/ st' = st
    BY <1>5 DEF ThreadWrites
  <2>2. st'.asr = st.asr
    BY <2>1 DEF Types, State
  <2> QED
    BY <1>5, <2>2 DEF ThreadWrites, Kept
<1>6. ASSUME NEW failed \in BOOLEAN, ThreadPublishes(failed) PROVE Kept
  BY <1>6 DEF ThreadPublishes, Kept
<1>7. CASE ThreadDies
  BY <1>7 DEF ThreadDies, Kept
<1>8. CASE UNCHANGED vars
  BY <1>8 DEF vars, Kept
<1> QED
  BY <1>1, <1>2, <1>3, <1>4, <1>5, <1>6, <1>7, <1>8

(* The transcript is replaced while a chunk is handled.                    *)
Replaced ==
  /\ UNCHANGED <<pos, got, open, past>>
  /\ marred \subseteq marred'
  /\ pc \in {"idle", "chunk"}
  /\ st'.asr \in Seq(Token)
  /\ "rewritten" \in marred' \/ IsPrefix(st.asr, st'.asr)

LEMMA LatestAsr ==
  ASSUME Types, NEW s \in State
  PROVE  Latest(s).asr = IF rnntQ = <<>> THEN s.asr ELSE LStrip(rnntQ)
  BY DEF Latest, State

LEMMA FlushAsr ==
  ASSUME NEW s \in State
  PROVE  Flush(s).asr = s.asr
  BY DEF Flush, State

LEMMA DrainAsr ==
  ASSUME Types, NEW s \in State, DrainAudio(s)
  PROVE  st'.asr = s.asr
  BY DEF DrainAudio, State

(* What a chunk takes over of the thread's transcripts.                    *)
Queued ==
  /\ st'.asr = IF rnntQ = <<>> THEN st.asr ELSE LStrip(rnntQ)
  /\ rnntQ' = <<>>
  /\ LStrip(rnntQ) # rnntQ => "rewritten" \in marred'

LEMMA QueuedOf ==
  ASSUME Types, Types',
         \/ \E last \in BOOLEAN : TakeResult(last)
         \/ \E last, eos \in BOOLEAN : DuringCall(last, eos)
  PROVE  Replaced /\ Queued
<1> USE DEF server, context, queues, thread, client, ghosts
<1>1. st \in State /\ rnntQ \in Seq(Token) /\ audioQ \in Seq(Nat)
  BY DEF Types
<1>2. Latest(st) \in State /\ Flush(st) \in State /\ Flush(st).asr = st.asr
  BY <1>1, LatestOf, FlushOf, FlushAsr
<1>3. /\ Latest(st).asr = IF rnntQ = <<>> THEN st.asr ELSE LStrip(rnntQ)
      /\ Latest(Flush(st)).asr = Latest(st).asr
  BY <1>1, <1>2, LatestAsr
<1>4. st'.asr \in Seq(Token)
  BY DEF Types, State
<1>5. /\ UNCHANGED <<pos, got, open, past>>
      /\ marred \subseteq marred' /\ Rewritten(Latest(st)) \subseteq marred'
      /\ pc = "idle" /\ rnntQ' = <<>>
  BY DEF TakeResult, DuringCall
<1>6. st'.asr = Latest(st).asr
  <2>1. ASSUME NEW last \in BOOLEAN, TakeResult(last) PROVE st'.asr = Latest(st).asr
    BY <1>3, <2>1 DEF TakeResult
  <2>2. ASSUME NEW last \in BOOLEAN, NEW eos \in BOOLEAN, DuringCall(last, eos)
        PROVE  st'.asr = Latest(st).asr
    BY <1>2, <2>2, DrainAsr DEF DuringCall
  <2> QED
    BY <2>1, <2>2
<1>7. ~IsPrefix(st.asr, Latest(st).asr) \/ LStrip(rnntQ) # rnntQ
        => "rewritten" \in marred'
  BY <1>5 DEF Rewritten, Mark
<1> QED
  BY <1>3, <1>4, <1>5, <1>6, <1>7 DEF Replaced, Queued

(* A chunk's tokens end the transcript after a silence, or make it longer. *)
Emptied(e, quiet) ==
  /\ CountBlanks(blanks, quiet) >= ClearBlanks
  /\ st'.asr = <<>> /\ y' = <<>>
  /\ e # <<>> => "cut" \in marred'
  /\ past' = IF HasWord(y \o e) THEN past \o (y \o e) \o <<Sep>> ELSE past

Longer(e) ==
  /\ y' = y \o e
  /\ HasWord(y \o e) => "repeated" \in marred' \/ st'.asr = y \o e
  /\ ~HasWord(y \o e) => st'.asr = st.asr

LEMMA DecodeAsr ==
  ASSUME Types, Types', Life, NEW e \in Heard, NEW quiet \in BOOLEAN, NEW fn \in BOOLEAN,
         NEW sotc \in BOOLEAN, Decode(e, quiet, fn, sotc)
  PROVE  /\ pc = "chunk" /\ pc' = "answer" /\ bg = "none" /\ UNCHANGED <<pos, got, open>>
         /\ marred \subseteq marred' /\ e \in Seq(Token) /\ y \o e \in Seq(Token)
         /\ Emptied(e, quiet) \/ (Longer(e) /\ Replaced)
         /\ \/ bg' = "none" /\ rnntQ' = rnntQ
            \/ bg' = "running" /\ bgY' = y' /\ rnntQ' = <<>>
<1> USE DEF server, context, queues, thread, client, ghosts
<1> DEFINE text == y \o e
           log  == LogOutput(st, fn)
           s    == Transcript(log, text)
           n    == CountBlanks(blanks, quiet)
           clear == n >= ClearBlanks
<1>1. /\ pc = "chunk" /\ pc' = "answer" /\ bg = "none" /\ UNCHANGED <<pos, got, open>>
      /\ marred \subseteq marred'
  BY DEF Decode, Life
<1>2. e \in Seq(Token) /\ text \in Seq(Token)
  BY HeardType, ConcatProperties DEF Types
<1>3. /\ log \in State /\ log.asr = st.asr /\ log.lastSent = st.lastSent
  <2>1. st \in State /\ made \in Counts
    BY DEF Types
  <2>2. log \in State
    BY <2>1, LogOutputOf
  <2>3. log.asr = st.asr /\ log.lastSent = st.lastSent
    BY <2>1 DEF LogOutput, State
  <2> QED
    BY <2>2, <2>3
<1>4. /\ \/ clear /\ Cleared(s, text)
         \/ ~clear /\ st' = s /\ y' = text
      /\ past' = IF clear /\ HasWord(text) THEN past \o text \o <<Sep>> ELSE past
      /\ HasWord(text) /\ text = st.lastSent /\ text # st.asr => "repeated" \in marred'
      /\ ~IsPrefix(st.asr, s.asr) => "rewritten" \in marred'
      /\ clear /\ e # <<>> => "cut" \in marred'
      /\ IF sotc THEN StartThread ELSE UNCHANGED thread
  BY DEF Decode, Mark
<1> HIDE DEF log, text
<1>5. /\ s \in State
      /\ s.asr = IF HasWord(text) /\ text # st.lastSent THEN text ELSE st.asr
  BY <1>2, <1>3, TranscriptOf DEF Transcript, State
<1> HIDE DEF s, n
<1>6. CASE clear
  <2>1. st' = [s EXCEPT !.asr = <<>>] /\ y' = <<>>
    BY <1>4, <1>6 DEF Cleared
  <2>2. st'.asr = <<>>
    BY <1>5, <2>1 DEF State
  <2> QED
    BY <1>1, <1>2, <1>4, <1>6, <2>1, <2>2 DEF Emptied, text, n, StartThread
<1>7. CASE ~clear
  <2>1. st' = s /\ y' = text /\ past' = past
    BY <1>4, <1>7
  <2>2. st'.asr \in Seq(Token)
    BY DEF Types, State
  <2>3. Replaced
    BY <1>1, <1>4, <2>1, <2>2 DEF Replaced
  <2>4. HasWord(text) => "repeated" \in marred' \/ st'.asr = text
    BY <1>4, <1>5, <2>1
  <2>5. ~HasWord(text) => st'.asr = st.asr
    BY <1>5, <2>1
  <2>6. Longer(e)
    BY <2>1, <2>4, <2>5 DEF Longer, text
  <2> QED
    BY <1>1, <1>2, <1>4, <2>3, <2>6 DEF text, StartThread
<1> QED
  BY <1>6, <1>7

(* The positions follow a response.                                        *)
LEMMA SendAsr ==
  ASSUME Types, Send
  PROVE  /\ got'.asr = got.asr \o AsrDelta
         /\ pc' = "idle" /\ past' = past /\ marred \subseteq marred'
         /\ UNCHANGED <<bg, y, bgY, rnntQ>>
         /\ open' => st'.asr = st.asr /\ pos'.asr = Len(st.asr)
<1> USE DEF server, context, queues, thread, client, ghosts
<1>1. got'.asr = got.asr \o AsrDelta
  BY DEF Send
<1>2. CASE isLast
  BY <1>1, <1>2 DEF Send
<1>3. CASE ~isLast
  <2>1. st' = [st EXCEPT !.audio = <<>>] /\ pos' = NewPositions
    BY <1>3 DEF Send, CleanupAfterResponse
  <2>2. st'.asr = st.asr /\ pos'.asr = Len(st.asr)
    BY <2>1 DEF Types, State, NewPositions
  <2> QED
    BY <1>1, <2>2 DEF Send
<1> QED
  BY <1>2, <1>3

LEMMA StartAsr ==
  ASSUME Life, StartStream
  PROVE  /\ got'.asr = <<>> /\ past' = <<>> /\ y' = <<>> /\ open'
         /\ st'.asr = <<>> /\ pos'.asr = 0
         /\ bg = "none" /\ UNCHANGED <<bg, bgY, rnntQ>> /\ pc' = pc
  BY DEF StartStream, Life, EmptyState, NoPositions, Nothing, thread, queues

(* What a longer text begins with, and what it adds.                       *)
GrownFrom(S, a, b, n) ==
  /\ n \in 0..Len(b)
  /\ SubSeq(b, 1, n) = SubSeq(a, 1, n)
  /\ \E r \in Seq(S) : b = a \o r /\ Rest(b, n) = Rest(a, n) \o r

LEMMA GrownAt ==
  ASSUME NEW S, NEW a \in Seq(S), NEW b \in Seq(S), IsPrefix(a, b),
         NEW n \in 0..Len(a)
  PROVE  GrownFrom(S, a, b, n)
<1>1. PICK r \in Seq(S) : Len(a) \in 0..Len(b) /\ b = a \o r
  BY PrefixOf
<1>2. Rest(b, n) = Rest(a, n) \o r
  BY <1>1, RestConcat
<1>3. Len(a) \in Nat /\ Len(b) \in Nat
  BY LenProperties
<1>4. n \in 0..Len(b)
  BY <1>1, <1>3
<1>5. /\ SubSeq(a, 1, n) \in Seq(S) /\ Len(SubSeq(a, 1, n)) = n
      /\ \A i \in 1..n : SubSeq(a, 1, n)[i] = a[i]
      /\ SubSeq(b, 1, n) \in Seq(S) /\ Len(SubSeq(b, 1, n)) = n
      /\ \A i \in 1..n : SubSeq(b, 1, n)[i] = b[i]
  BY <1>4, SplitAt
<1>6. \A i \in 1..n : i \in 1 .. Len(a) + Len(r) /\ i <= Len(a)
  BY <1>3, LenProperties
<1>7. \A i \in 1..n : b[i] = a[i]
  <2>1. \A i \in 1 .. Len(a) + Len(r) :
          (a \o r)[i] = IF i <= Len(a) THEN a[i] ELSE r[i - Len(a)]
    BY ConcatProperties
  <2> QED
    BY <1>1, <1>6, <2>1
<1>8. SubSeq(b, 1, n) = SubSeq(a, 1, n)
  <2> DEFINE u == SubSeq(a, 1, n)
             v == SubSeq(b, 1, n)
  <2>1. /\ u \in Seq(S) /\ v \in Seq(S) /\ Len(u) = n /\ Len(v) = n
        /\ \A i \in 1..n : u[i] = v[i]
    BY <1>5, <1>7
  <2> HIDE DEF u, v
  <2>2. u = v
    BY <2>1, SeqEqual
  <2> QED
    BY <2>2 DEF u, v
<1> QED
  BY <1>1, <1>2, <1>4, <1>8 DEF GrownFrom

LEMMA NotExcused ==
  ASSUME marred \subseteq marred', NEW reasons, ~Excused(reasons)'
  PROVE  ~Excused(reasons)
  BY DEF Excused

LEMMA FailingsOf ==
  ~Excused(Failings) =>
    /\ ~Excused({"leftover", "rewritten"})
    /\ "rewritten" \notin marred /\ "repeated" \notin marred /\ "cut" \notin marred
  BY DEF Excused, Failings

-----------------------------------------------------------------------------
(* What the client shows.                                                  *)

LEMMA UtteranceInit ==
  ASSUME Init PROVE Utterance
  BY DEF Init, Utterance

LEMMA UtteranceStep ==
  ASSUME Types, Types', Modes, Life, Utterance, [Next]_vars PROVE Utterance'
<1>t. /\ st.asr \in Seq(Token) /\ got.asr \in Seq(Piece)
      /\ pos.asr \in Nat /\ Len(st.asr) \in Nat
  BY AsrTypes
<1>1. CASE StartStream
  <2>1. got'.asr = <<>> /\ st'.asr = <<>> /\ pos'.asr = 0
    BY <1>1, StartAsr
  <2>2. SubSeq(<<>>, 1, 0) = <<>> /\ Len(<<>>) = 0
    OBVIOUS
  <2>3. SinceSep(got'.asr) = <<>>
    BY <2>1, SinceSepEmpty
  <2>4. Len(SinceSep(got'.asr)) = pos'.asr
    BY <2>1, <2>2, <2>3
  <2>5. SinceSep(got'.asr) = SubSeq(st'.asr, 1, pos'.asr)
    BY <2>1, <2>2, <2>3
  <2>6. ~(pos'.asr > Len(st'.asr))
    BY <2>1, <2>2
  <2> QED
    BY <2>4, <2>5, <2>6 DEF Utterance
<1>2. CASE Kept
  <2>1. /\ UNCHANGED <<st.asr, pos.asr, got.asr>>
        /\ open' => open
        /\ pc \in {"answer", "sending"} => pc' \in {"answer", "sending"}
    BY <1>2 DEF Kept
  <2>2. ~Excused({"leftover", "rewritten"})' => ~Excused({"leftover", "rewritten"})
    BY <1>2, NotExcused DEF Kept
  <2> QED
    BY <2>1, <2>2 DEF Utterance
<1>3. ASSUME open', ~Excused({"leftover", "rewritten"})',
             UNCHANGED <<pos, got, open>>, marred \subseteq marred',
             pc \in {"idle", "chunk"}
      PROVE  /\ Len(SinceSep(got.asr)) = pos.asr /\ pos.asr \in 0..Len(st.asr)
             /\ SinceSep(got.asr) = SubSeq(st.asr, 1, pos.asr)
             /\ pos'.asr = pos.asr /\ got'.asr = got.asr
             /\ "rewritten" \notin marred'
  <2>1. open /\ ~Excused({"leftover", "rewritten"}) /\ "rewritten" \notin marred'
    BY <1>3, NotExcused DEF Excused
  <2> QED
    BY <1>3, <1>t, <2>1 DEF Utterance
<1>4. CASE Replaced
  <2> SUFFICES ASSUME open', ~Excused({"leftover", "rewritten"})' PROVE Utterance'
    BY DEF Utterance
  <2>1. /\ Len(SinceSep(got.asr)) = pos.asr /\ pos.asr \in 0..Len(st.asr)
        /\ SinceSep(got.asr) = SubSeq(st.asr, 1, pos.asr)
        /\ pos'.asr = pos.asr /\ got'.asr = got.asr
        /\ "rewritten" \notin marred'
    BY <1>3, <1>4 DEF Replaced
  <2>2. IsPrefix(st.asr, st'.asr) /\ st'.asr \in Seq(Token)
    BY <1>4, <2>1 DEF Replaced
  <2>3. pos.asr \in 0..Len(st'.asr) /\ SubSeq(st'.asr, 1, pos.asr) = SubSeq(st.asr, 1, pos.asr)
    <3> DEFINE a == st.asr
               b == st'.asr
               n == pos.asr
    <3>1. a \in Seq(Token) /\ b \in Seq(Token) /\ IsPrefix(a, b) /\ n \in 0..Len(a)
      BY <1>t, <2>1, <2>2
    <3> HIDE DEF a, b, n
    <3>2. GrownFrom(Token, a, b, n)
      BY <3>1, GrownAt, Zenon
    <3> QED
      BY <3>2 DEF GrownFrom, a, b, n
  <2>4. Len(st'.asr) \in Nat
    BY <2>2, LenProperties
  <2>5. ~(pos'.asr > Len(st'.asr))
    BY <1>t, <2>1, <2>3, <2>4
  <2>6. SinceSep(got'.asr) = SubSeq(st'.asr, 1, pos'.asr)
    BY <2>1, <2>3
  <2> QED
    BY <2>1, <2>5, <2>6 DEF Utterance
<1>5. ASSUME NEW e \in Heard, NEW quiet \in BOOLEAN, NEW fn \in BOOLEAN,
             NEW sotc \in BOOLEAN, Decode(e, quiet, fn, sotc)
      PROVE  Utterance'
  <2>1. /\ pc = "chunk" /\ pc' = "answer" /\ UNCHANGED <<pos, got, open>>
        /\ marred \subseteq marred'
        /\ Emptied(e, quiet) \/ Replaced
    BY <1>5, DecodeAsr
  <2>2. CASE Emptied(e, quiet)
    <3> SUFFICES ASSUME open', ~Excused({"leftover", "rewritten"})' PROVE Utterance'
      BY DEF Utterance
    <3>1. /\ Len(SinceSep(got.asr)) = pos.asr /\ pos.asr \in 0..Len(st.asr)
          /\ SinceSep(got.asr) = SubSeq(st.asr, 1, pos.asr)
          /\ pos'.asr = pos.asr /\ got'.asr = got.asr
      BY <1>3, <2>1
    <3>2. st'.asr = <<>> /\ Len(<<>>) = 0
      BY <2>2 DEF Emptied
    <3>3. pos.asr = 0 => SinceSep(got.asr) = SubSeq(<<>>, 1, pos.asr)
      <4>1. SubSeq(st.asr, 1, 0) = <<>> /\ SubSeq(<<>>, 1, 0) = <<>>
        BY <1>t, SubSeqEmpty
      <4> QED
        BY <3>1, <4>1
    <3>4. Len(SinceSep(got'.asr)) = pos'.asr
      BY <3>1
    <3>5. pos'.asr <= Len(st'.asr) => SinceSep(got'.asr) = SubSeq(st'.asr, 1, pos'.asr)
      BY <1>t, <3>1, <3>2, <3>3
    <3>6. pos'.asr > Len(st'.asr) => st'.asr = <<>> /\ pc' \in {"answer", "sending"}
      BY <2>1, <3>2
    <3> QED
      BY <3>4, <3>5, <3>6 DEF Utterance
  <2> QED
    BY <1>4, <2>1, <2>2
<1>6. CASE Send
  <2> SUFFICES ASSUME open', ~Excused({"leftover", "rewritten"})' PROVE Utterance'
    BY DEF Utterance
  <2>1. /\ got'.asr = got.asr \o AsrDelta /\ marred \subseteq marred'
        /\ st'.asr = st.asr /\ pos'.asr = Len(st.asr)
    BY <1>6, SendAsr
  <2>2. open /\ ~Excused({"leftover", "rewritten"})
    BY <1>6, <2>1, NotExcused DEF Send, Life
  <2>3. SinceSep(got'.asr) = st.asr
    <3>1. CASE Len(st.asr) < pos.asr
      <4>1. AsrDelta = <<Sep>> /\ st.asr = <<>>
        BY <1>t, <2>2, <3>1 DEF AsrDelta, Utterance
      <4> QED
        BY <1>t, <2>1, <4>1, SinceSepEnd
    <3>2. CASE pos.asr <= Len(st.asr)
      <4>1. pos.asr \in 0..Len(st.asr) /\ AsrDelta = Rest(st.asr, pos.asr)
        BY <1>t, <3>2 DEF AsrDelta
      <4>2. AsrDelta \in Seq(Token)
        BY <1>t, <4>1, RestOfAny
      <4>3. SinceSep(got'.asr) = SinceSep(got.asr) \o AsrDelta
        BY <1>t, <2>1, <4>2, SinceSepTokens
      <4>4. SinceSep(got.asr) = SubSeq(st.asr, 1, pos.asr)
        BY <2>2, <3>2 DEF Utterance
      <4> QED
        BY <1>t, <4>1, <4>3, <4>4, SplitAt
    <3> QED
      BY <1>t, <3>1, <3>2
  <2>4. SubSeq(st.asr, 1, Len(st.asr)) = st.asr
    BY <1>t, SubSeqFull
  <2> QED
    BY <1>t, <2>1, <2>3, <2>4 DEF Utterance
<1>7. ASSUME NEW e \in Heard, NEW quiet \in BOOLEAN, ThreadHears(e, quiet)
      PROVE  Utterance'
  BY <1>7 DEF ThreadHears, Utterance, server, client, Excused
<1> QED
  BY <1>1, <1>2, <1>4, <1>5, <1>6, <1>7, KeptOf, QueuedOf DEF Next, Server, Thread

-----------------------------------------------------------------------------
(* Texts with and without words.                                           *)

LEMMA NoWordEmpty == ~HasWord(<<>>) /\ Shown(<<>>) = <<>>
  BY DEF HasWord, Shown

LEMMA WordStays ==
  ASSUME NEW text \in Seq(Token), NEW e \in Seq(Token), HasWord(text)
  PROVE  HasWord(text \o e)
<1>1. PICK i \in 1..Len(text) : text[i] # Dot
  BY DEF HasWord
<1>2. Len(text) \in Nat /\ Len(e) \in Nat
  BY LenProperties
<1>3. /\ Len(text \o e) = Len(text) + Len(e)
      /\ \A j \in 1 .. Len(text) + Len(e) :
           (text \o e)[j] = IF j <= Len(text) THEN text[j] ELSE e[j - Len(text)]
  BY ConcatProperties
<1>4. i \in 1 .. Len(text \o e) /\ (text \o e)[i] = text[i]
  BY <1>2, <1>3
<1> QED
  BY <1>1, <1>4 DEF HasWord

(* lstrip() leaves nothing of a text that has only full stops.             *)
LEMMA StripKeepsWord ==
  ASSUME NEW text \in Seq(Token), text # <<>>, LStrip(text) = text
  PROVE  HasWord(text)
<1> DEFINE I == {i \in 1..Len(text) : \A j \in 1..i : text[j] = Dot}
<1>1. Len(text) \in Nat
  BY LenProperties
<1> SUFFICES ASSUME ~HasWord(text) PROVE FALSE
  OBVIOUS
<1>2. \A i \in 1..Len(text) : text[i] = Dot
  BY DEF HasWord
<1>3. I = 1..Len(text)
  <2>1. ASSUME NEW i \in 1..Len(text), NEW j \in 1..i PROVE text[j] = Dot
    BY <1>1, <1>2
  <2> QED
    BY <2>1
<1>4. LeadingDots(text) = Len(text)
  <2>1. Cardinality(1..Len(text)) = Len(text)
    BY <1>1, FS_Interval
  <2> QED
    BY <1>3, <2>1 DEF LeadingDots
<1>5. LStrip(text) = SubSeq(text, Len(text) + 1, Len(text))
  BY <1>4 DEF LStrip
<1>6. SubSeq(text, Len(text) + 1, Len(text)) = <<>>
  BY <1>1, SubSeqEmpty
<1> QED
  BY <1>5, <1>6

-----------------------------------------------------------------------------
(* What the responses add up to.                                           *)

LEMMA NoDelta ==
  ASSUME Types, pos.asr = Len(st.asr)
  PROVE  AsrDelta = <<>>
<1>1. Len(st.asr) \in Nat /\ st.asr \in Seq(Token)
  BY AsrTypes
<1>2. AsrDelta = Rest(st.asr, Len(st.asr))
  BY <1>1 DEF AsrDelta
<1> QED
  BY <1>1, <1>2, SubSeqEmpty DEF Rest

LEMMA ReplacedComplete ==
  ASSUME Types, Types', Utterance, Complete, Replaced
  PROVE  Complete'
<1> SUFFICES ASSUME open', ~Excused(Failings)'
             PROVE  got'.asr \o AsrDelta' = past' \o st'.asr
  BY DEF Complete
<1>1. /\ open /\ ~Excused(Failings) /\ ~Excused({"leftover", "rewritten"})
      /\ UNCHANGED <<pos, got, past>> /\ "rewritten" \notin marred'
      /\ pc \in {"idle", "chunk"} /\ st'.asr \in Seq(Token)
      /\ IsPrefix(st.asr, st'.asr)
  BY NotExcused, FailingsOf DEF Replaced, Excused, Failings
<1>2. /\ st.asr \in Seq(Token) /\ got.asr \in Seq(Piece) /\ past \in Seq(Piece)
      /\ Len(st.asr) \in Nat /\ pos.asr \in 0..Len(st.asr)
  BY <1>1, AsrTypes DEF Utterance
<1> DEFINE a == st.asr
           b == st'.asr
           n == pos.asr
           g == got.asr
           p == past
<1>3. /\ a \in Seq(Token) /\ b \in Seq(Token) /\ IsPrefix(a, b) /\ n \in 0..Len(a)
      /\ g \in Seq(Piece) /\ p \in Seq(Piece) /\ Len(a) \in Nat
  BY <1>1, <1>2
<1>4. AsrDelta = Rest(a, n) /\ g \o AsrDelta = p \o a
  <2>1. AsrDelta = Rest(a, n)
    BY <1>2 DEF AsrDelta
  <2>2. g \o AsrDelta = p \o a
    BY <1>1 DEF Complete
  <2> QED
    BY <2>1, <2>2
<1>5. AsrDelta' = IF Len(b) < n THEN <<Sep>> ELSE Rest(b, n)
  BY <1>1 DEF AsrDelta
<1>6. got'.asr = g /\ past' = p
  BY <1>1
<1> HIDE DEF a, b, n, g, p
<1>7. PICK r \in Seq(Token) : /\ n \in 0..Len(b) /\ b = a \o r
                               /\ Rest(b, n) = Rest(a, n) \o r
  <2>1. GrownFrom(Token, a, b, n)
    BY <1>3, GrownAt, Zenon
  <2> QED
    BY <2>1, Zenon DEF GrownFrom
<1>8. AsrDelta' = Rest(a, n) \o r
  <2>1. Len(b) \in Nat
    BY <1>3, LenProperties
  <2> QED
    BY <1>5, <1>7, <2>1
<1>9. Rest(a, n) \in Seq(Piece) /\ r \in Seq(Piece) /\ a \in Seq(Piece)
  <2>1. Rest(a, n) \in Seq(Token)
    BY <1>3, RestOfAny
  <2> QED
    BY <1>3, <2>1, SeqMonotonic DEF Piece
<1>10. /\ g \o (Rest(a, n) \o r) = (g \o Rest(a, n)) \o r
       /\ (p \o a) \o r = p \o (a \o r)
  <2> DEFINE d == Rest(a, n)
  <2>1. d \in Seq(Piece)
    BY <1>9
  <2> HIDE DEF d
  <2>2. g \o (d \o r) = (g \o d) \o r
    BY <1>3, <1>9, <2>1, SMTT(40)
  <2>3. (p \o a) \o r = p \o (a \o r)
    BY <1>3, <1>9, SMTT(40)
  <2> QED
    BY <2>2, <2>3 DEF d
<1>11. g \o AsrDelta' = p \o b
  BY <1>4, <1>7, <1>8, <1>10
<1> QED
  BY <1>6, <1>11 DEF b

LEMMA EmptiedComplete ==
  ASSUME Types, Types', Modes, Utterance, Complete, InStep, NotYetSilent,
         open, pc = "chunk", bg = "none", UNCHANGED <<pos, got, open>>,
         marred \subseteq marred',
         NEW e \in Seq(Token), NEW quiet \in BOOLEAN, Emptied(e, quiet)
  PROVE  Complete'
<1> SUFFICES ASSUME ~Excused(Failings)'
             PROVE  got'.asr \o AsrDelta' = past' \o st'.asr
  BY DEF Complete
<1>1. /\ ~Excused(Failings) /\ ~Excused({"leftover", "rewritten"}) /\ "cut" \notin marred'
  BY NotExcused, FailingsOf DEF Excused, Failings
<1>2. /\ st.asr \in Seq(Token) /\ got.asr \in Seq(Piece) /\ past \in Seq(Piece)
      /\ Len(st.asr) \in Nat /\ pos.asr \in 0..Len(st.asr) /\ y \in Seq(Token)
  BY <1>1, AsrTypes DEF Utterance
<1>3. e = <<>> /\ y \o e = y
  <2>1. e = <<>>
    BY <1>1 DEF Emptied
  <2> QED
    BY <1>2, <2>1, ConcatEmptySeq
<1>4. pos.asr = Len(st.asr)
  <2>1. blanks + 1 < ClearBlanks => CountBlanks(blanks, quiet) < ClearBlanks
    BY DeliveryAssumption DEF CountBlanks, Modes, DeliveryAssumption
  <2>2. CountBlanks(blanks, quiet) \in 0..ClearBlanks
    BY CountBlanksType DEF Modes
  <2>3. ~(pos.asr < Len(st.asr))
    BY <1>1, <2>1, <2>2, DeliveryAssumption DEF NotYetSilent, Emptied, DeliveryAssumption
  <2> QED
    BY <1>2, <2>3
<1>5. AsrDelta = <<>> /\ got.asr = past \o Shown(y)
  <2>1. AsrDelta = <<>>
    BY <1>4, NoDelta
  <2>2. got.asr \o <<>> = past \o st.asr /\ st.asr = Shown(y)
    BY <1>1, <2>1 DEF Complete, InStep
  <2> QED
    BY <1>2, <2>1, <2>2, ConcatEmptySeq
<1>6. st'.asr = <<>> /\ pos'.asr = Len(st.asr) /\ got'.asr = got.asr
  BY <1>4 DEF Emptied
<1>7. past' = IF HasWord(y) THEN past \o y \o <<Sep>> ELSE past
  BY <1>3 DEF Emptied
<1>8. Shown(y) = st.asr
  BY <1>1 DEF InStep
<1>9. CASE HasWord(y)
  <2>1. Shown(y) = y /\ y # <<>>
    BY <1>9, NoWordEmpty DEF Shown
  <2>2. Len(st.asr) > 0 /\ Len(<<>>) = 0
    BY <1>2, <1>8, <2>1, EmptySeq
  <2>3. AsrDelta' = <<Sep>>
    BY <1>2, <1>6, <2>2 DEF AsrDelta
  <2>4. past \o y \o <<Sep>> \in Seq(Piece)
    <3>1. y \in Seq(Piece) /\ <<Sep>> \in Seq(Piece)
      BY <1>2, SeqMonotonic DEF Piece
    <3> QED
      BY <1>2, <3>1, ConcatProperties
  <2>5. got'.asr \o AsrDelta' = past \o y \o <<Sep>>
    BY <1>5, <1>6, <2>1, <2>3
  <2>6. past' \o st'.asr = past \o y \o <<Sep>>
    <3> DEFINE l == past \o y \o <<Sep>>
    <3>1. l \in Seq(Piece) /\ past' = l /\ st'.asr = <<>>
      BY <1>6, <1>7, <1>9, <2>4
    <3> HIDE DEF l
    <3>2. past' \o st'.asr = l
      BY <3>1, ConcatEmptySeq
    <3> QED
      BY <3>2 DEF l
  <2> QED
    BY <2>5, <2>6
<1>10. CASE ~HasWord(y)
  <2>1. Shown(y) = <<>> /\ past' = past /\ Len(<<>>) = 0
    BY <1>7, <1>10 DEF Shown
  <2>2. pos'.asr = 0 /\ AsrDelta' = <<>>
    <3>1. pos'.asr = 0 /\ st'.asr = <<>>
      BY <1>6, <1>8, <2>1
    <3>2. Rest(<<>>, 0) = <<>>
      BY <2>1, SubSeqEmpty DEF Rest
    <3> QED
      BY <2>1, <3>1, <3>2 DEF AsrDelta
  <2>3. got.asr = past \o <<>>
    BY <1>5, <2>1
  <2> QED
    BY <1>2, <1>6, <2>1, <2>2, <2>3, ConcatEmptySeq
<1> QED
  BY <1>9, <1>10

LEMMA CompleteStep ==
  ASSUME Types, Types', Modes, Life, Utterance, Complete, InStep, NotYetSilent,
         [Next]_vars
  PROVE  Complete'
<1>1. CASE StartStream
  <2>1. got'.asr = <<>> /\ past' = <<>> /\ st'.asr = <<>> /\ pos'.asr = 0
    BY <1>1, StartAsr
  <2>2. Rest(<<>>, 0) = <<>> /\ Len(<<>>) = 0
    BY SubSeqEmpty DEF Rest
  <2>3. AsrDelta' = <<>>
    BY <2>1, <2>2 DEF AsrDelta
  <2> QED
    BY <2>1, <2>3 DEF Complete
<1>2. CASE Kept
  <2>1. /\ st'.asr = st.asr /\ pos' = pos /\ got'.asr = got.asr /\ past' = past
        /\ open' => open
    BY <1>2 DEF Kept
  <2>2. ~Excused(Failings)' => ~Excused(Failings)
    BY <1>2, NotExcused DEF Kept
  <2>3. AsrDelta' = AsrDelta
    BY <2>1 DEF AsrDelta
  <2> QED
    BY <2>1, <2>2, <2>3 DEF Complete
<1>3. CASE Replaced
  BY <1>3, ReplacedComplete
<1>4. ASSUME NEW e \in Heard, NEW quiet \in BOOLEAN, NEW fn \in BOOLEAN,
             NEW sotc \in BOOLEAN, Decode(e, quiet, fn, sotc)
      PROVE  Complete'
  <2>1. /\ pc = "chunk" /\ bg = "none" /\ UNCHANGED <<pos, got, open>>
        /\ marred \subseteq marred' /\ e \in Seq(Token)
        /\ Emptied(e, quiet) \/ Replaced
    BY <1>4, DecodeAsr
  <2>2. open
    BY <2>1 DEF Life
  <2> QED
    BY <1>3, <2>1, <2>2, EmptiedComplete
<1>5. CASE Send
  <2> SUFFICES ASSUME open', ~Excused(Failings)'
               PROVE  got'.asr \o AsrDelta' = past' \o st'.asr
    BY DEF Complete
  <2>1. /\ got'.asr = got.asr \o AsrDelta /\ marred \subseteq marred' /\ past' = past
        /\ st'.asr = st.asr /\ pos'.asr = Len(st.asr)
    BY <1>5, SendAsr
  <2>2. open /\ ~Excused(Failings)
    BY <1>5, <2>1, NotExcused DEF Send, Life
  <2>3. AsrDelta' = <<>>
    <3>1. /\ st.asr \in Seq(Token) /\ Len(st.asr) \in Nat
      BY AsrTypes
    <3>2. AsrDelta' = Rest(st.asr, Len(st.asr))
      BY <2>1, <3>1 DEF AsrDelta
    <3> QED
      BY <3>1, <3>2, SubSeqEmpty DEF Rest
  <2>4. got'.asr \in Seq(Piece)
    BY DEF Types, Received, Piece
  <2>5. got'.asr \o <<>> = got'.asr
    <3> DEFINE g == got'.asr
    <3>1. g \in Seq(Piece)
      BY <2>4
    <3> HIDE DEF g
    <3>2. g \o <<>> = g
      BY <3>1, ConcatEmptySeq
    <3> QED
      BY <3>2 DEF g
  <2>6. got'.asr = past \o st.asr
    BY <2>1, <2>2 DEF Complete
  <2> QED
    BY <2>1, <2>3, <2>5, <2>6
<1>6. ASSUME NEW e \in Heard, NEW quiet \in BOOLEAN, ThreadHears(e, quiet)
      PROVE  Complete'
  BY <1>6 DEF ThreadHears, Complete, server, client, Excused, AsrDelta
<1> QED
  BY <1>1, <1>2, <1>3, <1>4, <1>5, <1>6, KeptOf, QueuedOf DEF Next, Server, Thread

-----------------------------------------------------------------------------
(* The recogniser and the transcript.                                      *)

LEMMA QueueStep ==
  ASSUME Modes, QueueOfCall, [Next]_vars PROVE QueueOfCall'
<1> USE DEF server, context, queues, thread, client, ghosts, QueueOfCall
<1>1. ASSUME NEW e \in Heard, NEW quiet \in BOOLEAN, NEW fn \in BOOLEAN,
             NEW sotc \in BOOLEAN, Decode(e, quiet, fn, sotc)
      PROVE  QueueOfCall'
  BY <1>1 DEF Decode, StartThread
<1>2. ASSUME NEW last \in BOOLEAN, BeginChunk(last) \/ TakeResult(last)
      PROVE  QueueOfCall'
  BY <1>2 DEF BeginChunk, TakeResult
<1>3. ASSUME NEW last \in BOOLEAN, NEW eos \in BOOLEAN, DuringCall(last, eos)
      PROVE  QueueOfCall'
  BY <1>3 DEF DuringCall
<1>4. CASE StartStream \/ StepRaises \/ ReadTexts \/ Send
  BY <1>4 DEF StartStream, StepRaises, ReadTexts, Send
<1>5. ASSUME NEW e \in Heard, NEW quiet \in BOOLEAN, ThreadHears(e, quiet)
      PROVE  QueueOfCall'
  BY <1>5 DEF ThreadHears
<1>6. ASSUME NEW failed \in BOOLEAN, ThreadPublishes(failed) PROVE QueueOfCall'
  BY <1>6 DEF ThreadPublishes
<1>7. CASE ThreadSpeaks \/ ThreadWrites \/ ThreadDies
  BY <1>7 DEF ThreadSpeaks, ThreadWrites, ThreadDies
<1>8. CASE UNCHANGED vars
  BY <1>8 DEF vars
<1> QED
  BY <1>1, <1>2, <1>3, <1>4, <1>5, <1>6, <1>7, <1>8 DEF Next, Server, Thread

(* The transcript that a chunk takes from the thread is the thread's.      *)
LEMMA QueuedInStep ==
  ASSUME Types, open, ~Excused(Failings), "rewritten" \notin marred',
         bg # "none", InStep, Queued
  PROVE  st'.asr = Shown(bgY)
<1>1. CASE rnntQ = <<>>
  BY <1>1 DEF InStep, Queued
<1>2. CASE rnntQ # <<>>
  <2>1. rnntQ = bgY /\ LStrip(bgY) = bgY /\ st'.asr = LStrip(bgY) /\ bgY # <<>>
    BY <1>2 DEF InStep, Queued
  <2>2. HasWord(bgY)
    BY <2>1, AsrTypes, StripKeepsWord
  <2> QED
    BY <2>1, <2>2 DEF Shown
<1> QED
  BY <1>1, <1>2

LEMMA InStepStep ==
  ASSUME Types, Types', Modes, Life, InStep, QueueOfCall, [Next]_vars PROVE InStep'
<1> USE DEF server, context, queues, thread, client, ghosts
<1>t. y \in Seq(Token) /\ bgY \in Seq(Token) /\ rnntQ \in Seq(Token)
  BY AsrTypes
<1> SUFFICES ASSUME open', ~Excused(Failings)'
             PROVE  /\ bg' = "none" => st'.asr = Shown(y')
                    /\ bg' # "none" /\ rnntQ' = <<>> => st'.asr = Shown(bgY')
                    /\ rnntQ' # <<>> => rnntQ' = bgY'
  BY DEF InStep, Shown, HasWord
<1>f. "rewritten" \notin marred' /\ "repeated" \notin marred' /\ "cut" \notin marred'
  BY DEF Excused, Failings
<1>1. CASE StartStream
  BY <1>1, StartAsr, NoWordEmpty DEF QueueOfCall
<1>2. CASE Kept
  <2>1. open /\ ~Excused(Failings)
    BY <1>2, NotExcused DEF Kept
  <2> QED
    BY <1>2, <2>1 DEF Kept, InStep
<1>3. ASSUME NEW last \in BOOLEAN, NEW eos \in BOOLEAN, DuringCall(last, eos)
      PROVE  bg' # "none" /\ rnntQ' = <<>> /\ st'.asr = Shown(bgY')
  <2>1. Queued /\ marred \subseteq marred'
    BY <1>3, QueuedOf DEF Replaced
  <2>2. open /\ ~Excused(Failings) /\ bg # "none" /\ bg' = bg /\ bgY' = bgY
    BY <1>3, <2>1, NotExcused DEF DuringCall
  <2> QED
    BY <1>f, <2>1, <2>2, QueuedInStep DEF Queued
<1>4. ASSUME NEW last \in BOOLEAN, TakeResult(last)
      PROVE  bg' = "none" /\ rnntQ' = <<>> /\ st'.asr = Shown(y')
  <2>1. Queued /\ marred \subseteq marred'
    BY <1>4, QueuedOf DEF Replaced
  <2>2. open /\ ~Excused(Failings) /\ bg # "none" /\ bg' = "none"
    BY <1>4, <2>1, NotExcused DEF TakeResult
  <2>3. y' = bgY
    BY <1>4, <1>f DEF TakeResult, Mark
  <2> QED
    BY <1>f, <2>1, <2>2, <2>3, QueuedInStep DEF Queued
<1>5. ASSUME NEW e \in Heard, NEW quiet \in BOOLEAN, NEW fn \in BOOLEAN,
             NEW sotc \in BOOLEAN, Decode(e, quiet, fn, sotc)
      PROVE  /\ st'.asr = Shown(y') /\ rnntQ' = <<>>
             /\ bg' # "none" => bgY' = y'
  <2>1. /\ bg = "none" /\ open' = open /\ marred \subseteq marred'
        /\ e \in Seq(Token) /\ (Emptied(e, quiet) \/ Longer(e))
        /\ \/ bg' = "none" /\ rnntQ' = rnntQ
           \/ bg' = "running" /\ bgY' = y' /\ rnntQ' = <<>>
    BY <1>5, DecodeAsr
  <2>2. open /\ ~Excused(Failings) /\ st.asr = Shown(y) /\ rnntQ = <<>>
    BY <2>1, NotExcused DEF InStep, QueueOfCall
  <2>3. CASE Emptied(e, quiet)
    BY <2>1, <2>2, <2>3, NoWordEmpty DEF Emptied
  <2>4. CASE Longer(e)
    <3>1. CASE HasWord(y \o e)
      BY <1>f, <2>1, <2>2, <2>4, <3>1 DEF Longer, Shown
    <3>2. CASE ~HasWord(y \o e)
      <4>1. ~HasWord(y)
        <5> SUFFICES ASSUME HasWord(y) PROVE HasWord(y \o e)
          BY <3>2
        <5>1. y \in Seq(Token) /\ e \in Seq(Token)
          BY <1>t, <2>1
        <5> QED
          BY <5>1, WordStays, Zenon
      <4>2. st'.asr = <<>> /\ y' = y \o e
        BY <2>2, <2>4, <3>2, <4>1 DEF Longer, Shown
      <4> QED
        BY <2>1, <2>2, <3>2, <4>2 DEF Shown
    <3> QED
      BY <3>1, <3>2
  <2> QED
    BY <2>1, <2>3, <2>4
<1>6. CASE Send
  <2>1. /\ UNCHANGED <<bg, y, bgY, rnntQ>> /\ st'.asr = st.asr /\ marred \subseteq marred'
    BY <1>6, SendAsr
  <2>2. open /\ ~Excused(Failings)
    BY <1>6, <2>1, NotExcused DEF Send, Life
  <2> QED
    BY <2>1, <2>2 DEF InStep
<1>7. ASSUME NEW e \in Heard, NEW quiet \in BOOLEAN, ThreadHears(e, quiet)
      PROVE  /\ bg' # "none"
             /\ rnntQ' = <<>> => st'.asr = Shown(bgY')
             /\ rnntQ' # <<>> => rnntQ' = bgY'
  <2>1. /\ bg = "running" /\ bg' = bg /\ st' = st /\ bgY' = bgY \o e
        /\ rnntQ' = IF bgY' = <<>> THEN rnntQ ELSE bgY'
        /\ open /\ marred' = marred
    BY <1>7 DEF ThreadHears
  <2>2. ~Excused(Failings)
    BY <2>1, NotExcused
  <2>3. CASE bgY' = <<>>
    <3>1. bgY = <<>>
      <4>1. e \in Seq(Token)
        BY HeardType
      <4>2. Len(bgY \o e) = Len(bgY) + Len(e) /\ Len(bgY) \in Nat /\ Len(e) \in Nat
        BY <1>t, <4>1, ConcatProperties, LenProperties
      <4>3. Len(bgY \o e) = 0
        BY <2>1, <2>3
      <4> QED
        BY <1>t, <4>2, <4>3, EmptySeq
    <3> QED
      BY <2>1, <2>2, <2>3, <3>1 DEF InStep
  <2>4. CASE bgY' # <<>>
    BY <2>1, <2>4
  <2> QED
    BY <2>1, <2>3, <2>4
<1> QED
  BY <1>1, <1>2, <1>3, <1>4, <1>5, <1>6, <1>7, KeptOf DEF Next, Server, Thread

LEMMA NotYetSilentStep ==
  ASSUME Types, Types', Modes, Life, NotYetSilent, [Next]_vars PROVE NotYetSilent'
<1> USE DEF server, context, queues, thread, client, ghosts
<1>t. Len(st.asr) \in Nat /\ Len(st'.asr) \in Nat
  <2>1. st.asr \in Seq(Token) /\ st'.asr \in Seq(Token)
    BY DEF Types, State
  <2> QED
    BY <2>1, LenProperties
<1> SUFFICES ASSUME open', ~Excused(Failings)', pc' \in {"idle", "chunk"}, bg' = "none",
                    pos'.asr < Len(st'.asr)
             PROVE  blanks' + 1 < ClearBlanks
  BY DEF NotYetSilent
<1>1. ~StartStream
  <2>1. StartStream => st'.asr = <<>> /\ pos'.asr = 0
    BY StartAsr
  <2>2. ~(0 < Len(<<>>))
    OBVIOUS
  <2> QED
    BY <2>1, <2>2, Zenon
<1>2. CASE Kept
  BY <1>2, NotExcused DEF Kept, NotYetSilent
<1>3. ASSUME NEW last \in BOOLEAN, TakeResult(last) PROVE blanks' + 1 < ClearBlanks
  <2>1. "cut" \notin marred'
    BY DEF Excused, Failings
  <2>2. ~(blanks' + 1 >= ClearBlanks /\ Len(st'.asr) > pos.asr) /\ pos' = pos
    BY <1>3, <2>1 DEF TakeResult, Mark
  <2>3. blanks' \in 0..ClearBlanks /\ ClearBlanks \in Nat
    <3>1. blanks' \in {blanks, bgBlanks}
      BY <1>3 DEF TakeResult
    <3> QED
      BY <3>1, DeliveryAssumption DEF Modes, DeliveryAssumption
  <2>4. ~(blanks' + 1 >= ClearBlanks)
    <3> DEFINE l == Len(st'.asr)
               n == pos'.asr
    <3>1. l \in Nat /\ n \in Nat /\ n < l /\ n = pos.asr
      <4>1. pos'.asr \in Nat
        BY DEF Types
      <4> QED
        BY <1>t, <2>2, <4>1
    <3>2. ~(blanks' + 1 >= ClearBlanks /\ l > n)
      BY <2>2, <3>1
    <3> HIDE DEF l, n
    <3> QED
      BY <3>1, <3>2
  <2>5. \A b, c \in Nat : ~(b + 1 >= c) => b + 1 < c
    OBVIOUS
  <2>6. blanks' \in Nat /\ ClearBlanks \in Nat
    BY <2>3
  <2> QED
    BY <2>4, <2>5, <2>6
<1>4. ASSUME NEW last \in BOOLEAN, NEW eos \in BOOLEAN, DuringCall(last, eos)
      PROVE  FALSE
  BY <1>4 DEF DuringCall
<1>5. ASSUME NEW e \in Heard, NEW quiet \in BOOLEAN, NEW fn \in BOOLEAN,
             NEW sotc \in BOOLEAN, Decode(e, quiet, fn, sotc)
      PROVE  FALSE
  BY <1>5 DEF Decode
<1>6. ~Send
  <2>1. Send => st'.asr = st.asr /\ pos'.asr = Len(st.asr)
    BY SendAsr
  <2>2. ~(Len(st.asr) < Len(st.asr))
    BY <1>t
  <2> QED
    BY <2>1, <2>2, Zenon
<1>7. ASSUME NEW e \in Heard, NEW quiet \in BOOLEAN, ThreadHears(e, quiet)
      PROVE  FALSE
  BY <1>7 DEF ThreadHears
<1> QED
  BY <1>1, <1>2, <1>3, <1>4, <1>5, <1>6, <1>7, KeptOf DEF Next, Server, Thread

-----------------------------------------------------------------------------
(* The theorems.                                                           *)

LEMMA TranscriptInit ==
  ASSUME Init PROVE TranscriptInv
  BY DEF Init, TranscriptInv, Utterance, Complete, InStep, NotYetSilent, QueueOfCall

LEMMA TranscriptStep ==
  ASSUME DeliveryInv, DeliveryInv', TranscriptInv, [Next]_vars PROVE TranscriptInv'
<1>1. Types /\ Types' /\ Modes /\ Life
  BY DEF DeliveryInv
<1>2. Utterance' /\ Complete'
  BY <1>1, UtteranceStep, CompleteStep DEF TranscriptInv
<1>3. InStep' /\ NotYetSilent' /\ QueueOfCall'
  BY <1>1, InStepStep, NotYetSilentStep, QueueStep DEF TranscriptInv
<1> QED
  BY <1>2, <1>3 DEF TranscriptInv

(* The inductive invariant behind the next two: the transcript is in step  *)
(* with the recogniser, and what was sent of it with what is shown.        *)
THEOREM Transcribed == Spec => [](DeliveryInv /\ TranscriptInv)
<1>1. Init => DeliveryInv /\ TranscriptInv
  BY InvInit, TranscriptInit
<1>2. DeliveryInv /\ TranscriptInv /\ [Next]_vars => (DeliveryInv /\ TranscriptInv)'
  BY InvStep, TranscriptStep
<1> QED
  BY <1>1, <1>2, PTL DEF Spec

(* The utterance a client shows is what was sent of the transcript: the    *)
(* comparison of lengths in get_generations never overlooks an emptied     *)
(* transcript and never cuts a delta at a wrong place, as long as a        *)
(* transcript only grows or is emptied.                                    *)
THEOREM ClientShowsTranscript == Spec => []ShowsTranscript
<1>1. DeliveryInv /\ TranscriptInv => ShowsTranscript
  <2> SUFFICES ASSUME DeliveryInv, TranscriptInv, pc = "idle", open,
                      ~Excused({"leftover", "rewritten"})
               PROVE  /\ SinceSep(got.asr) = SubSeq(st.asr, 1, pos.asr)
                      /\ pos.asr <= Len(st.asr)
    BY DEF ShowsTranscript
  <2>1. pos.asr \in Nat /\ Len(st.asr) \in Nat
    BY AsrTypes DEF DeliveryInv
  <2> QED
    BY <2>1 DEF TranscriptInv, Utterance
<1> QED
  BY <1>1, Transcribed, PTL

(* "incremental, only new ASR text since last response": together the      *)
(* responses are all that was recognised, utterance by utterance, also     *)
(* across a function call in which only the newest of the thread's         *)
(* transcripts is used.                                                    *)
THEOREM TranscriptIsComplete == Spec => []TranscriptComplete
<1>1. DeliveryInv /\ TranscriptInv => TranscriptComplete
  <2> SUFFICES ASSUME DeliveryInv, TranscriptInv, open, ~Tracked,
                      pos.asr = Len(st.asr), ~Excused(Failings)
               PROVE  got.asr = past \o Shown(y)
    BY DEF TranscriptComplete, Failings, Shown
  <2>1. Types
    BY DEF DeliveryInv
  <2>2. AsrDelta = <<>> /\ got.asr \in Seq(Piece)
    BY <2>1, NoDelta, AsrTypes
  <2>3. got.asr \o AsrDelta = past \o st.asr /\ st.asr = Shown(y)
    BY DEF TranscriptInv, Complete, InStep, Tracked
  <2>4. got.asr \o <<>> = got.asr
    BY <2>2, ConcatEmptySeq
  <2> QED
    BY <2>2, <2>3, <2>4
<1> QED
  BY <1>1, Transcribed, PTL
=============================================================================
