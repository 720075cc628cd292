-------------------------- MODULE StreamEngine_proofs --------------------------
(***************************************************************************)
(* Proofs about the requests of a stream id: for any number of inputs and  *)
(* of streams.                                                             *)
(***************************************************************************)
EXTENDS StreamEngine, TLAPS

Record == [status : Status, tokens : BOOLEAN, iterator : BOOLEAN]
Answer == [record : Record, live : BOOLEAN, cache : Seq(Nat \X Nat), token : BOOLEAN]

(* The outputs of a request whose cache is kv: it goes on with that cache  *)
(* and its iterator, or is finished.                                       *)
LEMMA OutputsOf ==
  ASSUME NEW q \in Record, NEW kv \in Seq(Nat \X Nat), NEW r \in Outputs(q, kv)
  PROVE  /\ r \in Answer
         /\ r.cache = kv
         /\ r.record.iterator = q.iterator
         /\ r.record.status \in {q.status, "finished"}
<1> DEFINE more == [q EXCEPT !.tokens = TRUE]
<1>1. more \in Record /\ more.status = q.status /\ more.iterator = q.iterator
  BY DEF Record
<1>2. PICK p \in {q, more}, alive \in BOOLEAN, token \in BOOLEAN :
        r = Result(p, alive, kv, token) \/ r = Result(Finished(p), alive, kv, token)
  <2> HIDE DEF more
  <2> QED
    BY DEF Outputs, more
<1>3. /\ p \in Record /\ p.status = q.status /\ p.iterator = q.iterator
      /\ Finished(p) \in Record /\ Finished(p).status = "finished"
      /\ Finished(p).iterator = q.iterator
  <2> HIDE DEF more
  <2> QED
    BY <1>1, <1>2 DEF Finished, Record, Status
<1> QED
  BY <1>2, <1>3 DEF Result, Answer

(* The three ways of an inference whose request goes on: it was begun with *)
(* this input, it was given this input, or it had no token yet.            *)
LEMMA InferenceOf ==
  ASSUME TypeOK, NEW e \in Engines, NEW x \in Nat \X Nat, NEW r \in Inference(e, x)
  PROVE  /\ r \in Answer
         /\ r.record.status \in {"active", "finished"}
         /\ r.record.status = "active" => r.record.iterator
         /\ r.record.status = "active" /\ r.live =>
              \/ r.cache = <<x>>
              \/ Usable(e) /\ r.cache = Append(cache[e], x)
              \/ Usable(e) /\ ~requests[e].tokens /\ r.cache = cache[e]
<1> DEFINE q  == Started(e)
           it == [q EXCEPT !.iterator = TRUE]
<1>1. /\ requests[e] \in Record /\ live[e] \in BOOLEAN
      /\ cache[e] \in Seq(Nat \X Nat)
  BY DEF TypeOK, Record
<1>2. /\ q \in Record /\ q.status = "active"
      /\ q.iterator => q = requests[e]
  BY <1>1 DEF Started, NewRequest, Record, Status
<1>3. it \in Record /\ it.status = "active" /\ it.iterator
  BY <1>2 DEF Record
<1>4. CASE ~q.iterator /\ live[e]
  <2>1. r = Result(Finished(it), TRUE, cache[e], FALSE)
    BY <1>4 DEF Inference
  <2> QED
    BY <1>1, <1>3, <2>1 DEF Result, Finished, Record, Answer, Status
<1>5. CASE ~q.iterator /\ ~live[e]
  <2>1. r \in Outputs(it, <<x>>)
    BY <1>5 DEF Inference
  <2>2. <<x>> \in Seq(Nat \X Nat)
    OBVIOUS
  <2> HIDE DEF it
  <2> QED
    BY <1>3, <2>1, <2>2, OutputsOf
<1>6. CASE q.iterator /\ ~live[e]
  <2>1. r = Result(Refused(q), FALSE, cache[e], FALSE)
    BY <1>6 DEF Inference
  <2> QED
    BY <1>1, <1>2, <2>1 DEF Result, Refused, Finished, Record, Answer, Status
<1>7. CASE q.iterator /\ live[e] /\ ~q.tokens
  <2>1. r \in Outputs(q, cache[e])
    BY <1>7 DEF Inference
  <2>2. Usable(e) /\ ~requests[e].tokens
    BY <1>2, <1>7 DEF Usable
  <2> HIDE DEF q
  <2> QED
    BY <1>1, <1>2, <1>7, <2>1, <2>2, OutputsOf
<1>8. CASE q.iterator /\ live[e] /\ q.tokens
  <2>1. \/ r \in Outputs(q, Append(cache[e], x))
        \/ r = Result(Refused(q), TRUE, cache[e], FALSE)
    BY <1>8 DEF Inference
  <2>2. Usable(e) /\ Append(cache[e], x) \in Seq(Nat \X Nat)
    BY <1>1, <1>2, <1>8 DEF Usable
  <2>3. CASE r = Result(Refused(q), TRUE, cache[e], FALSE)
    BY <1>1, <1>2, <2>3 DEF Result, Refused, Finished, Record, Answer, Status
  <2>4. CASE r \in Outputs(q, Append(cache[e], x))
    <3> HIDE DEF q
    <3> QED
      BY <1>2, <1>8, <2>2, <2>4, OutputsOf
  <2> QED
    BY <2>1, <2>3, <2>4
<1> QED
  BY <1>1, <1>2, <1>4, <1>5, <1>6, <1>7, <1>8 DEF Record

-----------------------------------------------------------------------------
(* A stream is open while a step of it is under way.                       *)
Order == pc # "idle" => open

(* A request that lives has its active record, unless a record was marked  *)
(* finished too early or an abort failed.                                  *)
LiveTracked ==
  \A e \in Engines :
    live[e] /\ marred[e] \cap {"undead", "notAborted"} = {} => Usable(e)

Inv == TypeOK /\ Order /\ LiveTracked /\ CacheIsSuffix /\ EndReleases

Excuses == {"skipped", "undead", "notAborted"}

TableType ==
  /\ requests \in [Engines -> Record]
  /\ live \in [Engines -> BOOLEAN]
  /\ cache \in [Engines -> Seq(Nat \X Nat)]
  /\ fed \in [Engines -> Nat]

(* What CacheIsSuffix says of one engine's cache.                          *)
SuffixOf(kv, c, n, gap) ==
  /\ \A k \in 1..Len(kv) : kv[k][1] = c /\ kv[k][2] <= n
  /\ \A i, k \in 1..Len(kv) : i < k => kv[i][2] < kv[k][2]
  /\ gap \/ \A k \in 1..Len(kv) : kv[k] = <<c, n - Len(kv) + k>>

Holds ==
  \A e \in Engines : Usable(e) /\ "notAborted" \notin marred[e] =>
    SuffixOf(cache[e], conv, fed[e], "skipped" \in marred[e])

LEMMA CacheIsSuffixOf == (CacheIsSuffix <=> Holds) /\ (CacheIsSuffix <=> Holds)'
<1>1. CacheIsSuffix <=> Holds
  BY DEF CacheIsSuffix, Holds, SuffixOf
<1>2. (CacheIsSuffix <=> Holds)'
  BY DEF CacheIsSuffix, Holds, SuffixOf
<1> QED
  BY <1>1, <1>2

(* The next input continues it.                                            *)
LEMMA AppendedSuffix ==
  ASSUME NEW kv \in Seq(Nat \X Nat), NEW c \in Nat, NEW n \in Nat, NEW gap,
         SuffixOf(kv, c, n, gap)
  PROVE  SuffixOf(Append(kv, <<c, n + 1>>), c, n + 1, gap)
<1> DEFINE kx == Append(kv, <<c, n + 1>>)
           m  == Len(kv)
<1>1. /\ m \in Nat /\ Len(kx) = m + 1 /\ kx[m + 1] = <<c, n + 1>>
      /\ \A k \in 1..m : kx[k] = kv[k] /\ kv[k] \in Nat \X Nat
  OBVIOUS
<1>2. \A k \in 1..m : kv[k][1] = c /\ kv[k][2] <= n /\ kv[k][2] \in Nat
  BY <1>1 DEF SuffixOf
<1> HIDE DEF kx, m
<1>p. \A k \in 1..Len(kx) : k = m + 1 \/ (k \in 1..m /\ k <= m)
  BY <1>1
<1>3. \A k \in 1..Len(kx) : kx[k][1] = c /\ kx[k][2] <= n + 1
  <2> SUFFICES ASSUME NEW k \in 1..Len(kx)
               PROVE  kx[k][1] = c /\ kx[k][2] <= n + 1
    OBVIOUS
  <2>1. CASE k = m + 1
    <3>1. kx[k] = <<c, n + 1>>
      BY <1>1, <2>1
    <3> QED
      BY <3>1
  <2>2. CASE k \in 1..m
    <3>1. kx[k] = kv[k] /\ kv[k][2] \in Nat /\ kv[k][2] <= n /\ kv[k][1] = c
      BY <1>1, <1>2, <2>2
    <3> QED
      BY <3>1
  <2> QED
    BY <1>p, <2>1, <2>2
<1>4. \A i, k \in 1..Len(kx) : i < k => kx[i][2] < kx[k][2]
  <2> SUFFICES ASSUME NEW i \in 1..Len(kx), NEW k \in 1..Len(kx), i < k
               PROVE  kx[i][2] < kx[k][2]
    OBVIOUS
  <2>1. i \in 1..m /\ kx[i] = kv[i]
    BY <1>p, <1>1
  <2>2. CASE k = m + 1
    <3>1. kx[k] = <<c, n + 1>> /\ kv[i][2] \in Nat /\ kv[i][2] <= n
      BY <1>1, <1>2, <2>1, <2>2
    <3> QED
      BY <2>1, <3>1
  <2>3. CASE k \in 1..m
    <3>1. kx[k] = kv[k]
      BY <1>1, <2>3
    <3> QED
      BY <2>1, <2>3, <3>1 DEF SuffixOf, m
  <2> QED
    BY <1>p, <2>2, <2>3
<1>5. gap \/ \A k \in 1..Len(kx) : kx[k] = <<c, n + 1 - Len(kx) + k>>
  <2> SUFFICES ASSUME ~gap, NEW k \in 1..Len(kx)
               PROVE  kx[k] = <<c, n + 1 - Len(kx) + k>>
    OBVIOUS
  <2>1. CASE k = m + 1
    <3>1. kx[k] = <<c, n + 1>> /\ n + 1 - Len(kx) + k = n + 1
      BY <1>1, <2>1
    <3> QED
      BY <3>1
  <2>2. CASE k \in 1..m
    <3>1. k \in 1..m /\ kx[k] = kv[k]
      BY <1>1, <2>2
    <3>2. kv[k] = <<c, n - m + k>>
      BY <3>1 DEF SuffixOf, m
    <3>3. n + 1 - Len(kx) + k = n - m + k
      BY <1>1, <3>1
    <3> QED
      BY <3>1, <3>2, <3>3
  <2> QED
    BY <1>p, <2>1, <2>2
<1> QED
  BY <1>3, <1>4, <1>5 DEF SuffixOf, kx

(* An input that is not appended leaves a gap and keeps the order.         *)
LEMMA SkippedSuffix ==
  ASSUME NEW kv \in Seq(Nat \X Nat), NEW c \in Nat, NEW n \in Nat, NEW gap,
         SuffixOf(kv, c, n, gap)
  PROVE  SuffixOf(kv, c, n + 1, TRUE)
<1>1. \A k \in 1..Len(kv) : kv[k][2] \in Nat
  <2>1. \A k \in 1..Len(kv) : kv[k] \in Nat \X Nat
    OBVIOUS
  <2> QED
    BY <2>1
<1>2. \A k \in 1..Len(kv) : kv[k][1] = c /\ kv[k][2] <= n + 1
  BY <1>1 DEF SuffixOf
<1> QED
  BY <1>2 DEF SuffixOf

(* One inference keeps what is known of both engines, however the step     *)
(* goes on.                                                                *)
LEMMA InferenceKeeps ==
  ASSUME Inv, NEW e \in Engines, NEW r \in Answers(e), Answered(e, r),
         UNCHANGED conv,
         marred' \in [Engines -> SUBSET Excuses],
         \A d \in Engines : marred[d] \subseteq marred'[d],
         Marks(e, r) \subseteq marred'[e]
  PROVE  TableType' /\ LiveTracked' /\ CacheIsSuffix' /\ r.token \in BOOLEAN
<1> USE DEF Engines
<1> DEFINE x == <<conv, fed[e] + 1>>
<1>1. TableType /\ conv \in Nat /\ x \in Nat \X Nat
  BY DEF Inv, TypeOK, TableType, Record
<1>2. /\ r \in Answer
      /\ r.record.status \in {"active", "finished"}
      /\ r.record.status = "active" => r.record.iterator
      /\ r.record.status = "active" /\ r.live =>
           \/ r.cache = <<x>>
           \/ Usable(e) /\ r.cache = Append(cache[e], x)
           \/ Usable(e) /\ ~requests[e].tokens /\ r.cache = cache[e]
  <2>1. TypeOK /\ r \in Inference(e, x)
    BY DEF Inv, Answers
  <2> QED
    BY <1>1, <2>1, InferenceOf
<1>3. /\ r.record \in Record /\ r.live \in BOOLEAN
      /\ r.cache \in Seq(Nat \X Nat) /\ r.token \in BOOLEAN
  BY <1>2 DEF Answer
<1>4. TableType'
  BY <1>1, <1>3 DEF TableType, Answered
<1>5. /\ requests'[e] = r.record /\ live'[e] = r.live /\ fed'[e] = fed[e] + 1
      /\ r.live => cache'[e] = r.cache
      /\ \A d \in Engines \ {e} :
           /\ requests'[d] = requests[d] /\ live'[d] = live[d]
           /\ fed'[d] = fed[d] /\ cache'[d] = cache[d]
  BY <1>1 DEF TableType, Answered
<1>6. /\ r.record.status = "finished" /\ r.live => "undead" \in marred'[e]
      /\ Usable(e) /\ ~requests[e].tokens => "skipped" \in marred'[e]
  BY DEF Marks, Mark, Usable
<1>7. LiveTracked'
  <2> SUFFICES ASSUME NEW d \in Engines, live'[d],
                      marred'[d] \cap {"undead", "notAborted"} = {}
               PROVE  Usable(d)'
    BY DEF LiveTracked
  <2>1. CASE d = e
    BY <1>2, <1>5, <1>6, <2>1 DEF Usable
  <2>2. CASE d # e
    <3>1. live[d] /\ marred[d] \cap {"undead", "notAborted"} = {}
      BY <1>5, <2>2
    <3> QED
      BY <1>5, <2>2, <3>1 DEF Inv, LiveTracked, Usable
  <2> QED
    BY <2>1, <2>2
<1>8. CacheIsSuffix'
  <2> SUFFICES ASSUME NEW d \in Engines, Usable(d)', "notAborted" \notin marred'[d]
               PROVE  SuffixOf(cache'[d], conv', fed'[d], "skipped" \in marred'[d])
    BY CacheIsSuffixOf DEF Holds
  <2>1. CASE d # e
    <3>1. Usable(d) /\ "notAborted" \notin marred[d]
      BY <1>5, <2>1 DEF Usable
    <3>2. SuffixOf(cache[d], conv, fed[d], "skipped" \in marred[d])
      BY <3>1, CacheIsSuffixOf DEF Inv, Holds
    <3>3. cache'[d] = cache[d] /\ fed'[d] = fed[d] /\ conv' = conv
      BY <1>5, <2>1
    <3>4. "skipped" \in marred[d] => "skipped" \in marred'[d]
      OBVIOUS
    <3> QED
      BY <3>2, <3>3, <3>4 DEF SuffixOf
  <2>2. CASE d = e
    <3>1. /\ r.record.status = "active" /\ r.live /\ "notAborted" \notin marred[e]
          /\ cache'[e] = r.cache
      BY <1>5, <2>2 DEF Usable
    <3>2. Usable(e) => SuffixOf(cache[e], conv, fed[e], "skipped" \in marred[e])
      BY <3>1, CacheIsSuffixOf DEF Inv, Holds
    <3>3. cache[e] \in Seq(Nat \X Nat) /\ fed[e] \in Nat /\ conv \in Nat
      BY <1>1 DEF TableType
    <3>4. fed'[e] = fed[e] + 1 /\ conv' = conv
      BY <1>5
    <3>5. CASE r.cache = <<x>>
      <4>1. SuffixOf(<<x>>, conv, fed[e] + 1, "skipped" \in marred'[e])
        BY <3>3 DEF SuffixOf
      <4> QED
        BY <2>2, <3>1, <3>4, <3>5, <4>1
    <3>6. CASE Usable(e) /\ r.cache = Append(cache[e], x)
      <4>1. SuffixOf(Append(cache[e], x), conv, fed[e] + 1, "skipped" \in marred[e])
        BY <3>2, <3>3, <3>6, AppendedSuffix
      <4>2. SuffixOf(Append(cache[e], x), conv, fed[e] + 1, "skipped" \in marred'[e])
        BY <4>1 DEF SuffixOf
      <4> QED
        BY <2>2, <3>1, <3>4, <3>6, <4>2
    <3>7. CASE Usable(e) /\ ~requests[e].tokens /\ r.cache = cache[e]
      <4>1. "skipped" \in marred'[e]
        BY <1>6, <3>7
      <4>2. SuffixOf(cache[e], conv, fed[e] + 1, TRUE)
        BY <3>2, <3>3, <3>7, SkippedSuffix
      <4> QED
        BY <2>2, <3>1, <3>4, <3>7, <4>1, <4>2 DEF SuffixOf
    <3> QED
      BY <1>2, <3>1, <3>5, <3>6, <3>7
  <2> QED
    BY <2>1, <2>2
<1> QED
  BY <1>3, <1>4, <1>7, <1>8

LEMMA TypeFromTable ==
  TypeOK <=> /\ TableType
             /\ pc \in {"idle", "speaker", "prompt", "tts", "end"}
             /\ isLast \in BOOLEAN /\ open \in BOOLEAN /\ conv \in Nat
             /\ marred \in [Engines -> SUBSET Excuses]
  BY DEF TypeOK, TableType, Record, Excuses

LEMMA InitInv ==
  ASSUME Init PROVE Inv
<1>1. TypeOK
  <2>1. NoRequest \in [status : Status, tokens : BOOLEAN, iterator : BOOLEAN]
    BY DEF NoRequest, Status
  <2>2. <<>> \in Seq(Nat \X Nat)
    OBVIOUS
  <2>3. {} \in SUBSET {"skipped", "undead", "notAborted"}
    OBVIOUS
  <2>4. /\ pc = "idle" /\ isLast = FALSE /\ open = FALSE /\ conv = 0
        /\ requests = [e \in Engines |-> NoRequest]
        /\ live = [e \in Engines |-> FALSE] /\ cache = [e \in Engines |-> <<>>]
        /\ fed = [e \in Engines |-> 0] /\ marred = [e \in Engines |-> {}]
    BY DEF Init
  <2> QED
    BY <2>1, <2>2, <2>3, <2>4 DEF TypeOK
<1>2. Order /\ LiveTracked /\ CacheIsSuffix /\ EndReleases
  BY DEF Init, Order, LiveTracked, CacheIsSuffix, EndReleases, Usable, NoRequest
<1> QED
  BY <1>1, <1>2 DEF Inv

(* A step that gives e an input and ends between frames or before the next *)
(* part of one.                                                            *)
LEMMA GiveKeeps ==
  ASSUME Inv, NEW e \in Engines, NEW r \in Answers(e), Give(e, r),
         UNCHANGED conv
  PROVE  /\ TableType' /\ LiveTracked' /\ CacheIsSuffix'
         /\ marred' \in [Engines -> SUBSET Excuses]
<1>1. marred \in [Engines -> SUBSET Excuses] /\ Marks(e, r) \subseteq Excuses
  BY DEF Inv, TypeOK, Marks, Mark, Excuses
<1>2. /\ marred' \in [Engines -> SUBSET Excuses]
      /\ \A d \in Engines : marred[d] \subseteq marred'[d]
      /\ Marks(e, r) \subseteq marred'[e]
  BY <1>1 DEF Give
<1> QED
  BY <1>2, InferenceKeeps DEF Give

(* The abort of both requests at the end of a stream.                      *)
LEMMA ReleasedKeeps ==
  ASSUME Inv, Released PROVE Inv'
<1>0. TypeOK /\ Order /\ LiveTracked /\ CacheIsSuffix /\ EndReleases
  BY DEF Inv
<1>t. /\ TableType /\ conv \in Nat /\ isLast \in BOOLEAN /\ open \in BOOLEAN
      /\ pc \in {"idle", "speaker", "prompt", "tts", "end"}
      /\ marred \in [Engines -> SUBSET Excuses]
  BY <1>0, TypeFromTable
<1>1. PICK fails \in [Engines -> BOOLEAN] :
  /\ requests' = [e \in Engines |-> AbortGeneration(e, fails[e])]
  /\ live' = [e \in Engines |-> live[e] /\ ~AbortsInEngine(e, fails[e])]
  /\ cache' = [e \in Engines |-> IF live'[e] THEN cache[e] ELSE <<>>]
  /\ marred' = [e \in Engines |-> marred[e] \cup
       Mark("notAborted", requests[e].status = "active" /\ fails[e])]
  BY DEF Released, AbortStreamRequest
<1>2. /\ UNCHANGED <<conv, fed>> /\ pc' = "idle" /\ open' = FALSE
      /\ isLast' = FALSE
  BY DEF Released
<1>3. TypeOK'
  <2>1. NoRequest \in Record
    BY DEF NoRequest, Record, Status
  <2>2. TableType'
    BY <1>t, <1>1, <1>2, <2>1 DEF TableType, AbortGeneration, AbortsInEngine
  <2>3. marred' \in [Engines -> SUBSET Excuses]
    BY <1>t, <1>1 DEF Mark, Excuses
  <2> QED
    BY <1>t, <1>2, <2>2, <2>3 DEF TypeOK, TableType, Record, Excuses
<1>4. ASSUME NEW e \in Engines, "notAborted" \notin marred'[e]
      PROVE  /\ requests'[e] = NoRequest
             /\ "undead" \notin marred'[e] => ~live'[e]
  <2>1. /\ "notAborted" \notin marred[e] /\ marred[e] \subseteq marred'[e]
        /\ ~(requests[e].status = "active" /\ fails[e])
    BY <1>t, <1>1, <1>4 DEF Mark
  <2>2. requests'[e] = NoRequest
    BY <1>1, <2>1 DEF AbortGeneration
  <2>3. ASSUME "undead" \notin marred'[e] PROVE ~live'[e]
    <3>1. live[e] => requests[e].status = "active"
      BY <1>0, <2>1, <2>3 DEF LiveTracked, Usable
    <3>2. live'[e] = (live[e] /\ ~AbortsInEngine(e, fails[e]))
      BY <1>1
    <3> QED
      BY <1>t, <2>1, <3>1, <3>2 DEF AbortsInEngine
  <2> QED
    BY <2>2, <2>3
<1>5. Order' /\ EndReleases' /\ LiveTracked'
  BY <1>2, <1>4 DEF Order, EndReleases, LiveTracked
<1>6. CacheIsSuffix'
  BY <1>4 DEF CacheIsSuffix, Usable, NoRequest
<1> QED
  BY <1>3, <1>5, <1>6 DEF Inv

LEMMA StepInv ==
  ASSUME Inv, [Next]_vars PROVE Inv'
<1> USE DEF stream
<1>0. TypeOK /\ Order /\ LiveTracked /\ CacheIsSuffix /\ EndReleases
  BY DEF Inv
<1>t. /\ TableType /\ conv \in Nat /\ isLast \in BOOLEAN /\ open \in BOOLEAN
      /\ pc \in {"idle", "speaker", "prompt", "tts", "end"}
      /\ marred \in [Engines -> SUBSET Excuses]
  BY <1>0, TypeFromTable
<1>1. ASSUME NEW prefill \in BOOLEAN, StartStream(prefill) PROVE Inv'
  <2>1. TypeOK'
    <3>1. TableType' /\ marred' \in [Engines -> SUBSET Excuses] /\ conv' \in Nat
      BY <1>1, <1>t DEF StartStream, TableType, table
    <3>2. pc' \in {"speaker", "idle"} /\ isLast' = FALSE /\ open' = TRUE
      BY <1>1 DEF StartStream
    <3> QED
      BY <3>1, <3>2 DEF TypeOK, TableType, Record, Excuses
  <2>2. \A e \in Engines : "notAborted" \in marred'[e] \/ ~Usable(e)
    BY <1>0, <1>1, <1>t DEF StartStream, EndReleases, Ended, Usable, NoRequest
  <2>3. CacheIsSuffix'
    BY <1>1, <2>2 DEF StartStream, CacheIsSuffix, Usable, table
  <2>4. LiveTracked'
    BY <1>0, <1>1, <1>t DEF StartStream, LiveTracked, Usable, table
  <2>5. Order' /\ EndReleases'
    BY <1>1 DEF StartStream, Order, EndReleases, Ended
  <2> QED
    BY <2>1, <2>3, <2>4, <2>5 DEF Inv
<1>2. ASSUME PrefillSpeaker PROVE Inv'
  <2>1. PICK r \in Answers("tts") : Give("tts", r)
    BY <1>2 DEF PrefillSpeaker
  <2>2. /\ UNCHANGED <<isLast, conv, open>> /\ pc' \in {"prompt", "idle"}
        /\ pc = "speaker"
    BY <1>2 DEF PrefillSpeaker
  <2>3. /\ TableType' /\ LiveTracked' /\ CacheIsSuffix'
        /\ marred' \in [Engines -> SUBSET Excuses]
    BY <2>1, <2>2, GiveKeeps DEF Engines
  <2>4. open' /\ Order' /\ EndReleases'
    BY <1>0, <2>2 DEF Order, EndReleases, Ended
  <2>5. TypeOK'
    BY <1>t, <2>2, <2>3 DEF TypeOK, TableType, Record, Excuses
  <2> QED
    BY <2>3, <2>4, <2>5 DEF Inv
<1>3. ASSUME PrefillPrompt PROVE Inv'
  <2>1. PICK r \in Answers("llm") : Give("llm", r)
    BY <1>3 DEF PrefillPrompt
  <2>2. UNCHANGED <<isLast, conv, open>> /\ pc' = "idle" /\ pc = "prompt"
    BY <1>3 DEF PrefillPrompt
  <2>3. /\ TableType' /\ LiveTracked' /\ CacheIsSuffix'
        /\ marred' \in [Engines -> SUBSET Excuses]
    BY <2>1, <2>2, GiveKeeps DEF Engines
  <2>4. open' /\ Order' /\ EndReleases'
    BY <1>0, <2>2 DEF Order, EndReleases, Ended
  <2>5. TypeOK'
    BY <1>t, <2>2, <2>3 DEF TypeOK, TableType, Record, Excuses
  <2> QED
    BY <2>3, <2>4, <2>5 DEF Inv
<1>4. ASSUME NEW last \in BOOLEAN, FrameText(last) PROVE Inv'
  <2>1. PICK r \in Answers("llm") : Give("llm", r)
    BY <1>4 DEF FrameText
  <2>2. UNCHANGED <<conv, open>> /\ pc' = "tts" /\ isLast' = last /\ open
    BY <1>4 DEF FrameText
  <2>3. /\ TableType' /\ LiveTracked' /\ CacheIsSuffix'
        /\ marred' \in [Engines -> SUBSET Excuses]
    BY <2>1, <2>2, GiveKeeps DEF Engines
  <2>4. Order' /\ EndReleases'
    BY <2>2 DEF Order, EndReleases, Ended
  <2>5. TypeOK'
    BY <1>t, <2>2, <2>3 DEF TypeOK, TableType, Record, Excuses
  <2> QED
    BY <2>3, <2>4, <2>5 DEF Inv
<1>5. ASSUME FrameSpeech PROVE Inv'
  <2> DEFINE raises(r) == isLast /\ ~r.token
  <2>1. PICK r \in Answers("tts") :
          /\ Answered("tts", r)
          /\ marred' = [e \in Engines |-> marred[e] \cup Mark("notAborted", raises(r))
                          \cup (IF e = "tts" THEN Marks(e, r) ELSE {})]
          /\ pc' = IF isLast /\ ~raises(r) THEN "end" ELSE "idle"
          /\ open' = ~raises(r)
    BY <1>5 DEF FrameSpeech
  <2>2. UNCHANGED <<isLast, conv>>
    BY <1>5 DEF FrameSpeech
  <2>3. /\ marred' \in [Engines -> SUBSET Excuses]
        /\ \A d \in Engines : marred[d] \subseteq marred'[d]
        /\ Marks("tts", r) \subseteq marred'["tts"]
    <3>1. Marks("tts", r) \subseteq Excuses /\ Mark("notAborted", raises(r)) \subseteq Excuses
      BY DEF Marks, Mark, Excuses
    <3> QED
      BY <1>t, <2>1, <3>1 DEF Engines
  <2>4. TableType' /\ LiveTracked' /\ CacheIsSuffix' /\ r.token \in BOOLEAN
    BY <2>1, <2>2, <2>3, InferenceKeeps DEF Engines
  <2>5. TypeOK'
    BY <1>t, <2>1, <2>2, <2>3, <2>4 DEF TypeOK, TableType, Record, Excuses
  <2>6. Order'
    BY <2>1 DEF Order
  <2>7. EndReleases'
    <3>1. CASE raises(r)
      <4>1. \A e \in Engines : "notAborted" \in marred'[e]
        BY <2>1, <3>1 DEF Mark
      <4> QED
        BY <4>1 DEF EndReleases
    <3>2. CASE ~raises(r)
      BY <2>1, <3>2 DEF EndReleases, Ended
    <3> QED
      BY <3>1, <3>2
  <2> QED
    BY <2>4, <2>5, <2>6, <2>7 DEF Inv
<1>6. CASE EndStream \/ ResetSession
  BY <1>6, ReleasedKeeps DEF EndStream, ResetSession
<1>7. ASSUME LastInCall PROVE Inv'
  <2>1. TypeOK'
    BY <1>0, <1>7 DEF LastInCall, TypeOK, table
  <2>2. \A e \in Engines : "notAborted" \in marred'[e]
    BY <1>7 DEF LastInCall
  <2>3. Order' /\ EndReleases' /\ LiveTracked' /\ CacheIsSuffix'
    BY <1>7, <2>2 DEF LastInCall, Order, EndReleases, LiveTracked, CacheIsSuffix
  <2> QED
    BY <2>1, <2>3 DEF Inv
<1>8. ASSUME NEW e \in Engines, CallStep(e) PROVE Inv'
  <2>1. PICK r \in Answers(e) : Give(e, r)
    BY <1>8 DEF CallStep
  <2>2. UNCHANGED <<pc, isLast, conv, open>> /\ open
    BY <1>8 DEF CallStep
  <2>3. /\ TableType' /\ LiveTracked' /\ CacheIsSuffix'
        /\ marred' \in [Engines -> SUBSET Excuses]
    BY <2>1, <2>2, GiveKeeps
  <2>4. Order' /\ EndReleases'
    BY <1>0, <2>2 DEF Order, EndReleases, Ended
  <2>5. TypeOK'
    BY <1>t, <2>2, <2>3 DEF TypeOK, TableType, Record, Excuses
  <2> QED
    BY <2>3, <2>4, <2>5 DEF Inv
<1>9. ASSUME NEW e \in Engines, EngineDrops(e) PROVE Inv'
  <2>1. TypeOK'
    BY <1>0, <1>9 DEF EngineDrops, TypeOK
  <2>2. Order' /\ EndReleases'
    BY <1>0, <1>9, <1>t DEF EngineDrops, Order, EndReleases, Ended, TableType
  <2>3. LiveTracked' /\ CacheIsSuffix'
    BY <1>0, <1>9, <1>t DEF EngineDrops, LiveTracked, CacheIsSuffix, Usable, TableType
  <2> QED
    BY <2>1, <2>2, <2>3 DEF Inv
<1>10. CASE UNCHANGED vars
  BY <1>0, <1>10 DEF vars, table, Inv, TypeOK, Order, LiveTracked, CacheIsSuffix,
                     EndReleases, Ended, Usable
<1> QED
  BY <1>1, <1>2, <1>3, <1>4, <1>5, <1>6, <1>7, <1>8, <1>9, <1>10 DEF Next

LEMMA Invariance == Spec => []Inv
  BY InitInv, StepInv, PTL DEF Spec

(* No record of a kind that the table may not hold, and no cache of        *)
(* anything but inputs.                                                    *)
THEOREM TypeCorrect == Spec => []TypeOK
<1>1. Inv => TypeOK
  BY DEF Inv
<1> QED
  BY <1>1, Invariance, PTL

(* An engine answers from the end of the conversation it is in, without    *)
(* gaps, or, after an input before the first token, with one but in order, *)
(* and never from an earlier stream.                                       *)
THEOREM HearsTheEnd == Spec => []CacheIsSuffix
<1>1. Inv => CacheIsSuffix
  BY DEF Inv
<1> QED
  BY <1>1, Invariance, PTL

(* A stream served to its end leaves no record behind, and no request but  *)
(* one that was marked finished while it lived.                            *)
THEOREM ReleasesAtTheEnd == Spec => []EndReleases
<1>1. Inv => EndReleases
  BY DEF Inv
<1> QED
  BY <1>1, Invariance, PTL
=============================================================================
