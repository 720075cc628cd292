-------------------------- MODULE ContextSlots_proofs --------------------------
(***************************************************************************)
(* Proofs about ContextSlots, for every set of streams, every number of    *)
(* slots and every context length.                                         *)
(*                                                                         *)
(* One lemma per operator of the manager says what it makes of a manager   *)
(* whose maps and queue agree; the steps of the pipeline follow from them. *)
(***************************************************************************)
EXTENDS ContextSlots, SequenceTheorems, FiniteSetTheorems, TLAPS

(* A manager whose two maps and queue agree.                               *)
Good(m) == m \in Managers /\ Partition(m)

(* A stream whose audio has not begun has at most an unused context.       *)
NotBegun ==
  \A s \in Streams :
    status[s] \in {"new", "prefilled"} =>
      /\ sent[s] = 0
      /\ mgr.slotOf[s] # NoSlot =>
           mgr.contexts[mgr.slotOf[s]] \in {NoContext, NewContext(s)}

-----------------------------------------------------------------------------
(* The manager's operators.                                                *)

(* A new manager is a good one.                                            *)
LEMMA FreshIsGood ==
  Good(FreshManager) /\ \A s \in Streams : FreshManager.slotOf[s] = NoSlot
<1> DEFINE f == FreshManager
<1>1. f \in Managers
  <2>1. [i \in Slots |-> i] \in Seq(Slots)
    BY SlotsAssumption DEF Slots
  <2> QED
    BY <2>1 DEF FreshManager, Managers, Contexts, NoContext, NewContext
<1>2. Registered(f)
  BY SlotsAssumption DEF FreshManager, Registered, Slots, NoSlot
<1>3. Len(f.free) = NumSlots /\ \A k \in 1 .. NumSlots : f.free[k] = k
  BY SlotsAssumption, LenProperties DEF FreshManager, Slots
<1>4. Queued(f)
  <2>1. FreeSlots(f) = Slots
    BY <1>3 DEF FreeSlots, Slots
  <2>2. {i \in Slots : f.streamOf[i] = NoStream} = Slots
    BY DEF FreshManager
  <2> QED
    BY <2>1, <2>2, <1>3 DEF Queued
<1>5. Owned(f)
  BY DEF FreshManager, Owned, NoContext, NewContext
<1> QED
  BY <1>1, <1>2, <1>4, <1>5 DEF Good, Partition, FreshManager

(* Taking the slot at the head of the queue.                               *)
LEMMA TakeSlotGood ==
  ASSUME NEW m, NEW s \in Streams, Good(m), m.slotOf[s] = NoSlot, m.free # <<>>
  PROVE  LET t == TakeSlot(m, s)
         IN  /\ Good(t)
             /\ t.slotOf[s] \in Slots
             /\ t.contexts[t.slotOf[s]] = NoContext
             /\ \A u \in Streams \ {s} :
                  /\ t.slotOf[u] = m.slotOf[u]
                  /\ m.slotOf[u] # NoSlot =>
                       t.contexts[m.slotOf[u]] = m.contexts[m.slotOf[u]]
<1> DEFINE t == TakeSlot(m, s)
           i == Head(m.free)
<1>1. m \in Managers /\ Registered(m) /\ Queued(m) /\ Owned(m)
  BY DEF Good, Partition
<1>2. m.free \in Seq(Slots)
  BY <1>1 DEF Managers
<1>3. /\ i = m.free[1] /\ i \in Slots /\ Tail(m.free) \in Seq(Slots)
      /\ Len(m.free) \in Nat /\ Len(m.free) >= 1
      /\ Len(Tail(m.free)) = Len(m.free) - 1
      /\ \A k \in 1 .. Len(m.free) - 1 : Tail(m.free)[k] = m.free[k + 1]
  BY <1>2, HeadTailProperties, LenProperties, EmptySeq
<1>4. m.streamOf[i] = NoStream
  BY <1>1, <1>3 DEF Queued, FreeSlots
<1>5. /\ t.slotOf = [m.slotOf EXCEPT ![s] = i]
      /\ t.streamOf = [m.streamOf EXCEPT ![i] = s]
      /\ t.free = Tail(m.free)
      /\ t.contexts = [m.contexts EXCEPT ![i] = NoContext]
  BY <1>1 DEF TakeSlot, Managers
<1>6. t \in Managers
  BY <1>1, <1>3, <1>5 DEF TakeSlot, Managers, Contexts, NoContext, NewContext
<1>7. i # NoSlot /\ s # NoStream
  BY <1>3, SlotsAssumption DEF Slots, NoSlot
<1>8. Registered(t)
  <2> SUFFICES ASSUME NEW u \in Streams, NEW j \in Slots
               PROVE  t.slotOf[u] = j <=> t.streamOf[j] = u
    BY DEF Registered
  <2>1. j # NoSlot /\ u # NoStream
    BY SlotsAssumption DEF Slots, NoSlot
  <2>2. /\ m.slotOf[u] = j <=> m.streamOf[j] = u
        /\ m.slotOf[s] = j <=> m.streamOf[j] = s
        /\ m.slotOf[u] = i <=> m.streamOf[i] = u
    BY <1>1, <1>3 DEF Registered
  <2> QED
    BY <1>1, <1>3, <1>4, <1>5, <2>1, <2>2 DEF Managers
<1>9. Queued(t)
  <2>1. \A k \in 1 .. Len(m.free) : m.free[k] = i => k = 1
    BY <1>1, <1>3 DEF Queued
  <2>2. FreeSlots(t) = FreeSlots(m) \ {i}
    <3>1. ASSUME NEW k \in 1 .. Len(t.free)
          PROVE  t.free[k] = m.free[k + 1] /\ k + 1 \in 2 .. Len(m.free)
      BY <1>3, <1>5
    <3>2. ASSUME NEW k \in 2 .. Len(m.free)
          PROVE  m.free[k] = t.free[k - 1] /\ k - 1 \in 1 .. Len(t.free)
      BY <1>3, <1>5
    <3>3. FreeSlots(t) = {m.free[k] : k \in 2 .. Len(m.free)}
      <4>1. FreeSlots(t) \subseteq {m.free[k] : k \in 2 .. Len(m.free)}
        BY <3>1 DEF FreeSlots
      <4>2. {m.free[k] : k \in 2 .. Len(m.free)} \subseteq FreeSlots(t)
        BY <3>2 DEF FreeSlots
      <4> QED
        BY <4>1, <4>2
    <3>4. FreeSlots(m) = {m.free[k] : k \in 2 .. Len(m.free)} \cup {i}
      BY <1>3 DEF FreeSlots
    <3>5. i \notin {m.free[k] : k \in 2 .. Len(m.free)}
      BY <1>3, <2>1
    <3> QED
      BY <3>3, <3>4, <3>5
  <2>3. {j \in Slots : t.streamOf[j] = NoStream}
          = {j \in Slots : m.streamOf[j] = NoStream} \ {i}
    BY <1>1, <1>3, <1>5, <1>7 DEF Managers
  <2>4. \A j, k \in 1 .. Len(t.free) : t.free[j] = t.free[k] => j = k
    BY <1>1, <1>3, <1>5 DEF Queued
  <2> QED
    BY <1>1, <2>2, <2>3, <2>4 DEF Queued
<1>10. Owned(t)
  BY <1>1, <1>3, <1>5 DEF Owned, NoContext, NewContext, Managers
<1>11. t.slotOf[s] = i /\ t.contexts[i] = NoContext
  BY <1>1, <1>3, <1>5 DEF Managers
<1>12. ASSUME NEW u \in Streams \ {s}
       PROVE  /\ t.slotOf[u] = m.slotOf[u]
              /\ m.slotOf[u] # NoSlot =>
                   t.contexts[m.slotOf[u]] = m.contexts[m.slotOf[u]]
  <2>1. t.slotOf[u] = m.slotOf[u] /\ m.slotOf[u] \in Slots \cup {NoSlot}
    BY <1>1, <1>5 DEF Managers
  <2>2. m.slotOf[u] # i
    BY <1>1, <1>3, <1>4, SlotsAssumption DEF Registered
  <2> QED
    BY <1>1, <1>5, <2>1, <2>2 DEF Managers
<1> QED
  BY <1>3, <1>6, <1>8, <1>9, <1>10, <1>11, <1>12 DEF Good, Partition

(* get_context() gives the stream its own context and never another        *)
(* stream's; other streams keep theirs or lose their slot.                 *)
LEMMA GetContextGood ==
  ASSUME NEW m, NEW s \in Streams, Good(m)
  PROVE  LET g == GetContext(m, s)
         IN  /\ Good(g)
             /\ g.slotOf[s] \in Slots
             /\ g.contexts[g.slotOf[s]] =
                  IF m.slotOf[s] # NoSlot /\ m.contexts[m.slotOf[s]] # NoContext
                    THEN m.contexts[m.slotOf[s]] ELSE NewContext(s)
             /\ \A u \in Streams \ {s} :
                  /\ g.slotOf[u] \in {NoSlot, m.slotOf[u]}
                  /\ g.slotOf[u] # NoSlot =>
                       g.contexts[g.slotOf[u]] = m.contexts[m.slotOf[u]]
<1> DEFINE e == EnsureSlot(m, s)
           g == GetContext(m, s)
           i == e.slotOf[s]
<1>1. /\ Good(e)
      /\ i \in Slots
      /\ e.contexts[i] = IF m.slotOf[s] # NoSlot THEN m.contexts[m.slotOf[s]]
                                                 ELSE NoContext
      /\ \A u \in Streams \ {s} :
           /\ e.slotOf[u] \in {NoSlot, m.slotOf[u]}
           /\ e.slotOf[u] # NoSlot => e.contexts[e.slotOf[u]] = m.contexts[m.slotOf[u]]
  <2>1. CASE m.slotOf[s] # NoSlot
    <3>1. e = m /\ m.slotOf[s] \in Slots
      BY <2>1 DEF EnsureSlot, Good, Managers
    <3> QED
      BY <2>1, <3>1
  <2>2. CASE m.slotOf[s] = NoSlot /\ m.free # <<>>
    <3>1. e = TakeSlot(m, s)
      BY <2>2 DEF EnsureSlot
    <3> QED
      BY <2>2, <3>1, TakeSlotGood
  <2>3. CASE m.slotOf[s] = NoSlot /\ m.free = <<>>
    <3>1. e = TakeSlot(FreshManager, s)
      BY <2>3 DEF EnsureSlot
    <3>2. FreshManager.free # <<>>
      BY SlotsAssumption, LenProperties, EmptySeq DEF FreshManager, Slots
    <3> QED
      BY <2>3, <3>1, <3>2, FreshIsGood, TakeSlotGood
  <2> QED
    BY <2>1, <2>2, <2>3
<1>2. CASE e.contexts[i] # NoContext
  <2>1. g = e
    BY <1>2 DEF GetContext
  <2> QED
    BY <1>1, <1>2, <2>1
<1>3. CASE e.contexts[i] = NoContext
  <2>1. e \in Managers /\ Registered(e) /\ Queued(e) /\ Owned(e)
    BY <1>1 DEF Good, Partition
  <2>2. g = [e EXCEPT !.contexts[i] = NewContext(s)]
    BY <1>3 DEF GetContext
  <2>3. /\ g.slotOf = e.slotOf /\ g.streamOf = e.streamOf /\ g.free = e.free
        /\ g.contexts = [e.contexts EXCEPT ![i] = NewContext(s)]
    BY <2>1, <2>2 DEF Managers
  <2>4. g \in Managers
    <3>1. NewContext(s) \in Contexts
      BY DEF NewContext, Contexts
    <3> QED
      BY <1>1, <2>1, <2>2, <3>1 DEF Managers
  <2>5. Registered(g) /\ Queued(g)
    BY <2>1, <2>3 DEF Registered, Queued, FreeSlots
  <2>6. e.streamOf[i] = s
    BY <1>1, <2>1 DEF Registered
  <2>7. Owned(g)
    BY <1>1, <2>1, <2>3, <2>6 DEF Owned, NewContext, Managers
  <2>8. \A u \in Streams \ {s} : e.slotOf[u] # i
    BY <1>1, <2>1, <2>6 DEF Registered
  <2>9. g.contexts[i] = NewContext(s)
    BY <1>1, <2>1, <2>3 DEF Managers
  <2>10. \A j \in Slots \ {i} : g.contexts[j] = e.contexts[j]
    BY <1>1, <2>1, <2>3 DEF Managers
  <2>11. \A u \in Streams : e.slotOf[u] \in Slots \cup {NoSlot}
    BY <2>1 DEF Managers
  <2> QED
    BY <1>1, <1>3, <2>3, <2>4, <2>5, <2>7, <2>8, <2>9, <2>10, <2>11 DEF Good, Partition
<1> QED
  BY <1>2, <1>3

(* update_context() advances the stream's own context.                     *)
LEMMA UpdateContextGood ==
  ASSUME NEW m, NEW s \in Streams, Good(m), m.slotOf[s] \in Slots
  PROVE  LET v == UpdateContext(m, s)
         IN  /\ Good(v)
             /\ v.slotOf = m.slotOf
             /\ v.contexts = [m.contexts EXCEPT
                                ![m.slotOf[s]].chunks = @ + 1]
<1> DEFINE v == UpdateContext(m, s)
<1>1. m \in Managers /\ Registered(m) /\ Queued(m) /\ Owned(m)
  BY DEF Good, Partition
<1>2. /\ v.slotOf = m.slotOf /\ v.streamOf = m.streamOf /\ v.free = m.free
      /\ v.contexts = [m.contexts EXCEPT ![m.slotOf[s]].chunks = @ + 1]
  BY <1>1 DEF UpdateContext, Managers
<1>3. m.contexts[m.slotOf[s]] \in Contexts
  BY <1>1 DEF Managers
<1>4. [m.contexts[m.slotOf[s]] EXCEPT !.chunks = @ + 1] \in Contexts
  BY <1>3 DEF Contexts
<1>5. v.contexts = [m.contexts EXCEPT ![m.slotOf[s]] =
                      [m.contexts[m.slotOf[s]] EXCEPT !.chunks = @ + 1]]
  BY <1>1, <1>2 DEF Managers
<1>6. v.contexts \in [Slots -> Contexts]
  BY <1>1, <1>4, <1>5 DEF Managers
<1>7. v \in Managers
  BY <1>1, <1>2, <1>6 DEF Managers, UpdateContext
<1>8. Registered(v) /\ Queued(v)
  BY <1>1, <1>2 DEF Registered, Queued, FreeSlots
<1>9. \A i \in Slots : v.contexts[i].owner = m.contexts[i].owner
  BY <1>1, <1>3, <1>5 DEF Managers, Contexts
<1>10. Owned(v)
  BY <1>1, <1>2, <1>9 DEF Owned
<1> QED
  BY <1>2, <1>7, <1>8, <1>10 DEF Good, Partition

(* reset_slot() of a registered stream takes its slot and nothing else.    *)
LEMMA ResetSlotGood ==
  ASSUME NEW m, NEW s \in Streams, Good(m), m.slotOf[s] \in Slots
  PROVE  LET r == ResetSlot(m, m.slotOf[s])
         IN  /\ Good(r)
             /\ r.slotOf[s] = NoSlot
             /\ \A u \in Streams \ {s} :
                  /\ r.slotOf[u] = m.slotOf[u]
                  /\ m.slotOf[u] # NoSlot =>
                       r.contexts[m.slotOf[u]] = m.contexts[m.slotOf[u]]
<1> DEFINE i == m.slotOf[s]
           r == ResetSlot(m, i)
<1>1. m \in Managers /\ Registered(m) /\ Queued(m) /\ Owned(m)
  BY DEF Good, Partition
<1>2. m.streamOf[i] = s
  BY <1>1 DEF Registered
<1>3. /\ r.slotOf = [m.slotOf EXCEPT ![s] = NoSlot]
      /\ r.streamOf = [m.streamOf EXCEPT ![i] = NoStream]
      /\ r.free = Append(m.free, i)
      /\ r.contexts = [m.contexts EXCEPT ![i] = NoContext]
  BY <1>1, <1>2 DEF ResetSlot, Managers
<1>4. /\ r.free \in Seq(Slots) /\ Len(m.free) \in Nat
      /\ Len(r.free) = Len(m.free) + 1
      /\ r.free[Len(m.free) + 1] = i
      /\ \A k \in 1 .. Len(m.free) : r.free[k] = m.free[k]
  BY <1>1, <1>3, AppendProperties, LenProperties DEF Managers
<1>5. r \in Managers
  BY <1>1, <1>2, <1>3, <1>4 DEF ResetSlot, Managers, Contexts, NoContext, NewContext
<1>6. i # NoSlot /\ s # NoStream
  BY SlotsAssumption DEF Slots, NoSlot
<1>7. Registered(r)
  <2> SUFFICES ASSUME NEW u \in Streams, NEW j \in Slots
               PROVE  r.slotOf[u] = j <=> r.streamOf[j] = u
    BY DEF Registered
  <2>1. j # NoSlot /\ u # NoStream
    BY SlotsAssumption DEF Slots, NoSlot
  <2>2. m.slotOf[u] = j <=> m.streamOf[j] = u
    BY <1>1 DEF Registered
  <2> QED
    BY <1>1, <1>2, <1>3, <2>1, <2>2 DEF Managers
<1>8. Queued(r)
  <2>1. FreeSlots(r) = FreeSlots(m) \cup {i}
    BY <1>4, SMTT(40) DEF FreeSlots
  <2>2. {j \in Slots : r.streamOf[j] = NoStream}
          = {j \in Slots : m.streamOf[j] = NoStream} \cup {i}
    BY <1>1, <1>3 DEF Managers
  <2>3. \A k \in 1 .. Len(m.free) : m.free[k] # i
    BY <1>1, <1>2, <1>6 DEF Queued, FreeSlots
  <2>4. \A j, k \in 1 .. Len(r.free) : r.free[j] = r.free[k] => j = k
    BY <1>1, <1>4, <2>3 DEF Queued
  <2> QED
    BY <1>1, <2>1, <2>2, <2>4 DEF Queued
<1>9. Owned(r)
  BY <1>1, <1>3 DEF Owned, NoContext, NewContext, Managers
<1>10. \A u \in Streams \ {s} : m.slotOf[u] # i /\ m.slotOf[u] \in Slots \cup {NoSlot}
  BY <1>1, <1>2 DEF Registered, Managers
<1>11. r.slotOf[s] = NoSlot /\ \A u \in Streams \ {s} : r.slotOf[u] = m.slotOf[u]
  BY <1>1, <1>3 DEF Managers
<1>12. \A j \in Slots \ {i} : r.contexts[j] = m.contexts[j]
  BY <1>1, <1>3 DEF Managers
<1> QED
  BY <1>5, <1>7, <1>8, <1>9, <1>10, <1>11, <1>12 DEF Good, Partition

-----------------------------------------------------------------------------
(* The steps.                                                              *)

IInv == TypeOK /\ SlotsPartition /\ OwnContext /\ DoneReleased /\ NotBegun

(* At most the acting stream is being served: no other stream is open or   *)
(* has been prefilled.                                                     *)
LEMMA OthersIdle ==
  ASSUME NEW s \in Streams, MayServe(s), NEW u \in Streams \ {s}
  PROVE  status[u] \notin {"prefilled", "open"}
  BY DEF MayServe, Served

(* prefill_for_new_stream() keeps the invariant.                           *)
LEMMA PrefillStep ==
  ASSUME IInv, NEW s \in Streams, NEW prompted \in BOOLEAN, Prefill(s, prompted)
  PROVE  IInv'
<1> DEFINE g == GetContext(FreshManager, s)
<1>1. /\ Good(g)
      /\ g.slotOf[s] \in Slots /\ g.contexts[g.slotOf[s]] = NewContext(s)
      /\ \A u \in Streams \ {s} : g.slotOf[u] = NoSlot
  BY FreshIsGood, GetContextGood
<1>2. TypeOK'
  BY <1>1 DEF IInv, TypeOK, Prefill, Good
<1>3. SlotsPartition'
  BY <1>1 DEF SlotsPartition, Prefill, Good
<1>4. OwnContext'
  BY OthersIdle DEF IInv, TypeOK, OwnContext, Prefill
<1>5. DoneReleased'
  BY <1>1 DEF IInv, TypeOK, DoneReleased, Prefill
<1>6. NotBegun'
  BY <1>1 DEF IInv, TypeOK, NotBegun, Prefill
<1> QED
  BY <1>2, <1>3, <1>4, <1>5, <1>6 DEF IInv

(* A prefill that raises keeps the invariant.                              *)
LEMMA PrefillFailsStep ==
  ASSUME IInv, NEW s \in Streams, PrefillFails(s)
  PROVE  IInv'
<1>1. TypeOK' /\ SlotsPartition'
  BY FreshIsGood DEF IInv, TypeOK, SlotsPartition, PrefillFails, Good
<1>2. OwnContext'
  BY OthersIdle DEF IInv, TypeOK, OwnContext, PrefillFails
<1>3. DoneReleased'
  BY FreshIsGood DEF IInv, TypeOK, DoneReleased, PrefillFails
<1>4. NotBegun'
  BY FreshIsGood DEF IInv, TypeOK, NotBegun, PrefillFails
<1> QED
  BY <1>1, <1>2, <1>3, <1>4 DEF IInv

(* The manager a chunk finds, after get_context().                         *)
LEMMA ChunkContext ==
  ASSUME IInv, NEW s \in Streams, NEW first \in IsFirst(s),
         status[s] \in {"new", "prefilled", "open"}
  PROVE  LET m == GetContext(ManagerOf(first), s)
         IN  /\ Good(m)
             /\ m.slotOf[s] \in Slots
             /\ m.contexts[m.slotOf[s]] = [owner |-> s, chunks |-> sent[s]]
             /\ \A u \in Streams \ {s} :
                  /\ m.slotOf[u] \in {NoSlot, mgr.slotOf[u]}
                  /\ m.slotOf[u] # NoSlot =>
                       m.contexts[m.slotOf[u]] = mgr.contexts[mgr.slotOf[u]]
<1> DEFINE b == ManagerOf(first)
<1>1. Good(mgr)
  BY DEF IInv, TypeOK, SlotsPartition, Good
<1>2. b = mgr \/ (b = FreshManager /\ first)
  <2>1. CASE first /\ ~streamHasPrompt
    BY <2>1 DEF ManagerOf
  <2>2. CASE ~(first /\ ~streamHasPrompt)
    BY <2>2 DEF ManagerOf
  <2> QED
    BY <2>1, <2>2
<1>3. Good(b)
  BY <1>1, <1>2, FreshIsGood
<1>4. \A u \in Streams \ {s} :
        /\ b.slotOf[u] \in {NoSlot, mgr.slotOf[u]}
        /\ b.slotOf[u] # NoSlot =>
             b.contexts[b.slotOf[u]] = mgr.contexts[mgr.slotOf[u]]
  BY <1>2, FreshIsGood
<1>5. CASE status[s] = "open"
  <2>1. b = mgr
    BY <1>2, <1>5 DEF IsFirst
  <2>2. /\ mgr.slotOf[s] # NoSlot
        /\ mgr.contexts[mgr.slotOf[s]] = [owner |-> s, chunks |-> sent[s]]
    BY <1>5 DEF IInv, OwnContext
  <2>3. mgr.contexts[mgr.slotOf[s]] # NoContext
    BY <2>2, SlotsAssumption DEF NoContext, NewContext
  <2> QED
    BY <1>1, <2>1, <2>2, <2>3, GetContextGood
<1>6. CASE status[s] \in {"new", "prefilled"}
  <2>1. sent[s] = 0 /\ NewContext(s) = [owner |-> s, chunks |-> sent[s]]
    BY <1>6 DEF IInv, NotBegun, NewContext
  <2>2. b.slotOf[s] # NoSlot => b.contexts[b.slotOf[s]] \in {NoContext, NewContext(s)}
    BY <1>2, <1>6, FreshIsGood DEF IInv, NotBegun
  <2> QED
    BY <1>3, <1>4, <2>1, <2>2, GetContextGood
<1> QED
  BY <1>5, <1>6

(* A processed chunk, the last one too, keeps the invariant.               *)
LEMMA ChunkStep ==
  ASSUME IInv, NEW s \in Streams, NEW first \in BOOLEAN, NEW last \in BOOLEAN,
         Chunk(s, first, last)
  PROVE  IInv'
<1> DEFINE m == GetContext(ManagerOf(first), s)
           v == UpdateContext(m, s)
<1>1. /\ Good(m)
      /\ m.slotOf[s] \in Slots
      /\ m.contexts[m.slotOf[s]] = [owner |-> s, chunks |-> sent[s]]
      /\ \A u \in Streams \ {s} :
           /\ m.slotOf[u] \in {NoSlot, mgr.slotOf[u]}
           /\ m.slotOf[u] # NoSlot =>
                m.contexts[m.slotOf[u]] = mgr.contexts[mgr.slotOf[u]]
  BY ChunkContext DEF Chunk
<1>2. /\ Good(v) /\ v.slotOf = m.slotOf
      /\ v.contexts = [m.contexts EXCEPT ![m.slotOf[s]].chunks = @ + 1]
  BY <1>1, UpdateContextGood
<1>3. v.contexts[m.slotOf[s]] = [owner |-> s, chunks |-> sent[s] + 1]
  BY <1>1, <1>2 DEF Good, Managers, Contexts
<1>4. /\ mgr' = ReleaseLast(v, s, last)
      /\ requests' = IF last THEN requests \ {s} ELSE requests \cup {s}
      /\ status' = [status EXCEPT ![s] = IF last THEN "done" ELSE "open"]
      /\ sent' = [sent EXCEPT ![s] = @ + 1]
      /\ streamHasPrompt' = FALSE
  BY DEF Chunk
<1>5. /\ Good(mgr')
      /\ \A u \in Streams \ {s} : mgr'.slotOf[u] = v.slotOf[u]
      /\ last => mgr'.slotOf[s] = NoSlot
      /\ ~last => mgr' = v
  BY <1>1, <1>2, <1>4, ResetSlotGood DEF ReleaseLast
<1>6. TypeOK' /\ SlotsPartition'
  <2>1. mgr' \in Managers /\ Partition(mgr')
    BY <1>5 DEF Good
  <2>2. streamHasPrompt' \in BOOLEAN /\ requests' \subseteq Streams
    BY <1>4 DEF IInv, TypeOK
  <2>3. sent' \in [Streams -> Nat]
    BY <1>4 DEF IInv, TypeOK
  <2>4. status' \in [Streams -> {"new", "prefilled", "open", "done", "lost"}]
    BY <1>4 DEF IInv, TypeOK
  <2> QED
    BY <2>1, <2>2, <2>3, <2>4 DEF TypeOK, SlotsPartition
<1>7. \A u \in Streams \ {s} : status'[u] = status[u] /\ status[u] \notin {"prefilled", "open"}
  BY <1>4, OthersIdle DEF IInv, TypeOK, Chunk
<1>8. status'[s] = IF last THEN "done" ELSE "open"
  BY <1>4 DEF IInv, TypeOK
<1>9. OwnContext'
  <2> SUFFICES ASSUME NEW u \in Streams, status'[u] = "open"
               PROVE  /\ mgr'.slotOf[u] # NoSlot
                      /\ mgr'.contexts[mgr'.slotOf[u]] = [owner |-> u, chunks |-> sent'[u]]
    BY DEF OwnContext
  <2>1. u = s /\ ~last
    BY <1>7, <1>8
  <2>2. sent'[s] = sent[s] + 1
    BY <1>4 DEF IInv, TypeOK
  <2>3. m.slotOf[s] # NoSlot
    BY <1>1, SlotsAssumption DEF Slots, NoSlot
  <2> QED
    BY <1>2, <1>3, <1>5, <2>1, <2>2, <2>3
<1>10. DoneReleased'
  <2> SUFFICES ASSUME NEW u \in Streams, status'[u] = "done"
               PROVE  mgr'.slotOf[u] = NoSlot /\ u \notin requests'
    BY DEF DoneReleased
  <2>1. CASE u = s
    BY <1>4, <1>5, <1>8, <2>1
  <2>2. CASE u # s
    BY <1>1, <1>2, <1>4, <1>5, <1>7, <2>2 DEF IInv, DoneReleased
  <2> QED
    BY <2>1, <2>2
<1>11. NotBegun'
  <2> SUFFICES ASSUME NEW u \in Streams, status'[u] \in {"new", "prefilled"}
               PROVE  /\ sent'[u] = 0
                      /\ mgr'.slotOf[u] # NoSlot =>
                           mgr'.contexts[mgr'.slotOf[u]] \in {NoContext, NewContext(u)}
    BY DEF NotBegun
  <2>1. u # s /\ status[u] = "new"
    BY <1>7, <1>8
  <2>2. sent'[u] = 0
    BY <1>4, <2>1 DEF IInv, TypeOK, NotBegun
  <2>3. ASSUME mgr'.slotOf[u] # NoSlot
        PROVE  mgr'.contexts[mgr'.slotOf[u]] \in {NoContext, NewContext(u)}
    <3>1. m.slotOf[u] # NoSlot /\ v.slotOf[u] = m.slotOf[u] /\ mgr'.slotOf[u] = m.slotOf[u]
      BY <1>2, <1>5, <2>1, <2>3
    <3>2. m.contexts[m.slotOf[u]] \in {NoContext, NewContext(u)}
      BY <1>1, <2>1, <3>1 DEF IInv, NotBegun
    <3>3. m.slotOf[u] \in Slots /\ m.slotOf[u] # m.slotOf[s]
      BY <1>1, <2>1, <3>1 DEF Good, Managers, Partition, Registered
    <3>4. v.contexts[m.slotOf[u]] = m.contexts[m.slotOf[u]]
      BY <1>1, <1>2, <3>3 DEF Good, Managers
    <3>5. mgr'.contexts[m.slotOf[u]] = v.contexts[m.slotOf[u]]
      <4>1. CASE last
        <5>1. mgr' = ResetSlot(v, v.slotOf[s])
          BY <1>4, <4>1 DEF ReleaseLast
        <5>2. v.slotOf[u] # NoSlot => mgr'.contexts[v.slotOf[u]] = v.contexts[v.slotOf[u]]
          <6>1. Good(v) /\ v.slotOf[s] \in Slots
            BY <1>1, <1>2
          <6>2. \A w \in Streams \ {s} :
                  v.slotOf[w] # NoSlot =>
                    ResetSlot(v, v.slotOf[s]).contexts[v.slotOf[w]]
                      = v.contexts[v.slotOf[w]]
            BY <6>1, ResetSlotGood
          <6> QED
            BY <2>1, <5>1, <6>2
        <5> QED
          BY <3>1, <5>2
      <4>2. CASE ~last
        BY <1>5, <4>2
      <4> QED
        BY <4>1, <4>2
    <3> QED
      BY <3>1, <3>2, <3>4, <3>5
  <2> QED
    BY <2>2, <2>3
<1> QED
  BY <1>6, <1>9, <1>10, <1>11 DEF IInv

(* A chunk whose step raises keeps the invariant.                          *)
LEMMA ChunkFailsStep ==
  ASSUME IInv, NEW s \in Streams, NEW first \in BOOLEAN, NEW last \in BOOLEAN,
         ChunkFails(s, first, last)
  PROVE  IInv'
<1> DEFINE m == GetContext(ManagerOf(first), s)
<1>1. /\ Good(m)
      /\ m.slotOf[s] \in Slots
      /\ m.contexts[m.slotOf[s]] = [owner |-> s, chunks |-> sent[s]]
      /\ \A u \in Streams \ {s} :
           /\ m.slotOf[u] \in {NoSlot, mgr.slotOf[u]}
           /\ m.slotOf[u] # NoSlot =>
                m.contexts[m.slotOf[u]] = mgr.contexts[mgr.slotOf[u]]
  BY ChunkContext DEF ChunkFails
<1>2. /\ mgr' = m /\ sent' = sent /\ streamHasPrompt' = FALSE
      /\ requests' = requests \cup {s}
      /\ status' = [status EXCEPT ![s] = IF last THEN "lost" ELSE "open"]
  BY DEF ChunkFails
<1>3. TypeOK' /\ SlotsPartition'
  BY <1>1, <1>2 DEF IInv, TypeOK, SlotsPartition, Good
<1>4. \A u \in Streams \ {s} : status'[u] = status[u] /\ status[u] \notin {"prefilled", "open"}
  BY <1>2, OthersIdle DEF IInv, TypeOK, ChunkFails
<1>5. status'[s] = IF last THEN "lost" ELSE "open"
  BY <1>2 DEF IInv, TypeOK
<1>6. m.slotOf[s] # NoSlot
  BY <1>1, SlotsAssumption DEF Slots, NoSlot
<1>7. OwnContext'
  BY <1>1, <1>2, <1>4, <1>5, <1>6 DEF OwnContext
<1>8. DoneReleased'
  BY <1>1, <1>2, <1>4, <1>5 DEF IInv, DoneReleased
<1>9. NotBegun'
  BY <1>1, <1>2, <1>4, <1>5 DEF IInv, NotBegun
<1> QED
  BY <1>3, <1>7, <1>8, <1>9 DEF IInv

(* The manager of a chunk that raises once its context is updated.         *)
LEMMA UpdatedContext ==
  ASSUME IInv, NEW s \in Streams, NEW first \in BOOLEAN, NEW last \in BOOLEAN,
         ChunkFailsUpdated(s, first, last)
  PROVE  /\ Good(mgr')
         /\ mgr'.slotOf[s] # NoSlot
         /\ mgr'.contexts[mgr'.slotOf[s]] = [owner |-> s, chunks |-> sent[s] + 1]
         /\ \A u \in Streams \ {s} :
              /\ mgr'.slotOf[u] \in {NoSlot, mgr.slotOf[u]}
              /\ mgr'.slotOf[u] # NoSlot =>
                   mgr'.contexts[mgr'.slotOf[u]] = mgr.contexts[mgr.slotOf[u]]
<1> DEFINE m == GetContext(ManagerOf(first), s)
           v == UpdateContext(m, s)
<1>1. /\ Good(m)
      /\ m.slotOf[s] \in Slots
      /\ m.contexts[m.slotOf[s]] = [owner |-> s, chunks |-> sent[s]]
      /\ \A u \in Streams \ {s} :
           /\ m.slotOf[u] \in {NoSlot, mgr.slotOf[u]}
           /\ m.slotOf[u] # NoSlot =>
                m.contexts[m.slotOf[u]] = mgr.contexts[mgr.slotOf[u]]
  BY ChunkContext DEF ChunkFailsUpdated
<1>2. /\ Good(v) /\ v.slotOf = m.slotOf
      /\ v.contexts = [m.contexts EXCEPT ![m.slotOf[s]].chunks = @ + 1]
  BY <1>1, UpdateContextGood
<1>3. v.contexts[m.slotOf[s]] = [owner |-> s, chunks |-> sent[s] + 1]
  BY <1>1, <1>2 DEF Good, Managers, Contexts
<1>4. \A u \in Streams \ {s} :
        m.slotOf[u] # NoSlot => v.contexts[m.slotOf[u]] = m.contexts[m.slotOf[u]]
  <2> SUFFICES ASSUME NEW u \in Streams \ {s}, m.slotOf[u] # NoSlot
               PROVE  v.contexts[m.slotOf[u]] = m.contexts[m.slotOf[u]]
    OBVIOUS
  <2>1. m.slotOf[u] \in Slots /\ m.slotOf[u] # m.slotOf[s]
    BY <1>1 DEF Good, Managers, Partition, Registered
  <2> QED
    BY <1>1, <1>2, <2>1 DEF Good, Managers
<1>5. m.slotOf[s] # NoSlot
  BY <1>1, SlotsAssumption DEF Slots, NoSlot
<1>6. mgr' = v
  BY DEF ChunkFailsUpdated
<1> HIDE DEF m, v
<1> QED
  BY <1>1, <1>2, <1>3, <1>4, <1>5, <1>6

(* Such a chunk keeps the invariant.                                       *)
LEMMA ChunkFailsUpdatedStep ==
  ASSUME IInv, NEW s \in Streams, NEW first \in BOOLEAN, NEW last \in BOOLEAN,
         ChunkFailsUpdated(s, first, last)
  PROVE  IInv'
<1>1. /\ sent' = [sent EXCEPT ![s] = @ + 1] /\ streamHasPrompt' = FALSE
      /\ requests' = requests \cup {s}
      /\ status' = [status EXCEPT ![s] = IF last THEN "lost" ELSE "open"]
  BY DEF ChunkFailsUpdated
<1>2. /\ Good(mgr')
      /\ mgr'.slotOf[s] # NoSlot
      /\ mgr'.contexts[mgr'.slotOf[s]] = [owner |-> s, chunks |-> sent[s] + 1]
      /\ \A u \in Streams \ {s} :
           /\ mgr'.slotOf[u] \in {NoSlot, mgr.slotOf[u]}
           /\ mgr'.slotOf[u] # NoSlot =>
                mgr'.contexts[mgr'.slotOf[u]] = mgr.contexts[mgr.slotOf[u]]
  BY UpdatedContext
<1>3. TypeOK' /\ SlotsPartition'
  <2>1. mgr' \in Managers /\ SlotsPartition'
    BY <1>2 DEF SlotsPartition, Good
  <2>2. streamHasPrompt' \in BOOLEAN /\ requests' \subseteq Streams
    BY <1>1 DEF IInv, TypeOK
  <2>3. status' \in [Streams -> {"new", "prefilled", "open", "done", "lost"}]
    BY <1>1 DEF IInv, TypeOK
  <2>4. sent' \in [Streams -> Nat]
    <3>1. sent \in [Streams -> Nat]
      BY DEF IInv, TypeOK
    <3> QED
      BY <1>1, <3>1
  <2> QED
    BY <2>1, <2>2, <2>3, <2>4 DEF TypeOK
<1>4. \A u \in Streams \ {s} :
        /\ status'[u] = status[u] /\ status[u] \notin {"prefilled", "open"}
        /\ sent'[u] = sent[u]
  BY <1>1, OthersIdle DEF IInv, TypeOK, ChunkFailsUpdated
<1>5. /\ status'[s] = IF last THEN "lost" ELSE "open"
      /\ sent'[s] = sent[s] + 1
  BY <1>1 DEF IInv, TypeOK
<1>6. OwnContext'
  BY <1>2, <1>4, <1>5 DEF OwnContext
<1>7. DoneReleased'
  BY <1>1, <1>2, <1>4, <1>5 DEF IInv, DoneReleased
<1>8. NotBegun'
  BY <1>2, <1>4, <1>5 DEF IInv, NotBegun
<1> QED
  BY <1>3, <1>6, <1>7, <1>8 DEF IInv

(* A client that goes away disturbs nothing.                               *)
LEMMA DisconnectStep ==
  ASSUME IInv, NEW s \in Streams, Disconnect(s)
  PROVE  IInv'
<1>1. TypeOK' /\ SlotsPartition'
  BY DEF IInv, TypeOK, SlotsPartition, Disconnect
<1>2. OwnContext' /\ DoneReleased' /\ NotBegun'
  BY DEF IInv, TypeOK, OwnContext, DoneReleased, NotBegun, Disconnect
<1> QED
  BY <1>1, <1>2 DEF IInv

(* reset_session() keeps the invariant.                                    *)
LEMMA ResetSessionStep ==
  ASSUME IInv, ResetSession
  PROVE  IInv'
<1>1. TypeOK' /\ SlotsPartition'
  BY FreshIsGood DEF IInv, TypeOK, SlotsPartition, Good, ResetSession
<1>2. OwnContext'
  BY DEF OwnContext, ResetSession, Served
<1>3. DoneReleased' /\ NotBegun'
  BY FreshIsGood DEF IInv, DoneReleased, NotBegun, ResetSession
<1> QED
  BY <1>1, <1>2, <1>3 DEF IInv

-----------------------------------------------------------------------------
(* IInv holds initially and every step keeps it.                           *)
THEOREM SlotsInvariant == Spec => []IInv
<1>1. Init => IInv
  <2> SUFFICES ASSUME Init PROVE IInv
    OBVIOUS
  <2>1. TypeOK /\ SlotsPartition
    BY FreshIsGood DEF Init, TypeOK, SlotsPartition, Good
  <2>2. OwnContext /\ DoneReleased /\ NotBegun
    BY FreshIsGood DEF Init, OwnContext, DoneReleased, NotBegun
  <2> QED
    BY <2>1, <2>2 DEF IInv
<1>2. IInv /\ [Next]_vars => IInv'
  <2> SUFFICES ASSUME IInv, [Next]_vars PROVE IInv'
    OBVIOUS
  <2>1. CASE UNCHANGED vars
    BY <2>1 DEF vars, IInv, TypeOK, SlotsPartition, OwnContext, DoneReleased, NotBegun
  <2>2. CASE Next
    BY <2>2, PrefillStep, PrefillFailsStep, ChunkStep, ChunkFailsStep,
       ChunkFailsUpdatedStep,
       DisconnectStep, ResetSessionStep DEF Next
  <2> QED
    BY <2>1, <2>2
<1> QED
  BY <1>1, <1>2, PTL DEF Spec

(* The manager's maps, queue and contexts keep their types: what is queued  *)
(* are slots, and a registered slot exists (_ensure_slot, reset_slot).      *)
THEOREM TypeCorrect == Spec => []TypeOK
  BY SlotsInvariant, PTL DEF IInv

(* Registration, queue and contexts of the pool agree after every step of  *)
(* the pipeline: no slot is lost, queued twice or shared (_ensure_slot,    *)
(* reset_slot, the replaced managers).                                     *)
THEOREM SlotsAgree == Spec => []SlotsPartition
  BY SlotsInvariant, PTL DEF IInv

(* A served stream keeps its context: neither a replaced manager nor the   *)
(* emergency clean-up of _ensure_slot() takes it.                          *)
THEOREM ContextKept == Spec => []OwnContext
  BY SlotsInvariant, PTL DEF IInv

(* A stream that ended regularly left no slot and no engine request.       *)
THEOREM EndedIsReleased == Spec => []DoneReleased
  BY SlotsInvariant, PTL DEF IInv

-----------------------------------------------------------------------------
(* The manager and the pipeline implement a store of contexts.             *)

(* No two streams have one slot, so that there are not more of them than   *)
(* slots.                                                                  *)
LEMMA RoomKept ==
  ASSUME TypeOK, SlotsPartition
  PROVE  Cardinality(knownStreams) <= NumSlots
<1> DEFINE f == [s \in knownStreams |-> mgr.slotOf[s]]
<1>1. /\ mgr \in Managers /\ Registered(mgr)
      /\ \A s \in knownStreams : s \in Streams /\ mgr.slotOf[s] \in Slots
  BY DEF TypeOK, SlotsPartition, Partition, Managers, knownStreams, HasSlot
<1>2. \A s, u \in knownStreams : mgr.slotOf[s] = mgr.slotOf[u] => s = u
  BY <1>1 DEF Registered
<1>3. f \in Injection(knownStreams, Slots)
  BY <1>1, <1>2 DEF Injection, IsInjective
<1>4. IsFiniteSet(Slots) /\ Cardinality(Slots) = NumSlots
  BY SlotsAssumption, FS_Interval DEF Slots
<1> HIDE DEF f
<1> QED
  BY <1>3, <1>4, FS_Injection

(* What a step of stream s leaves of the other streams' contexts.          *)
OthersKept(s) ==
  \A u \in Streams \ {s} :
    /\ mgr'.slotOf[u] \in {NoSlot, mgr.slotOf[u]}
    /\ mgr'.slotOf[u] # NoSlot =>
         mgr'.contexts[mgr'.slotOf[u]] = mgr.contexts[mgr.slotOf[u]]

LEMMA StepOf ==
  ASSUME NEW s \in Streams, NEW p, NEW has, has \in BOOLEAN, NEW n, OthersKept(s),
         streamPhase' = [streamPhase EXCEPT ![s] = p],
         HasSlot(s)' <=> has, contextLength'[s] = n
  PROVE  Store!Step(s, p, has, n)
<1>1. s \in knownStreams' <=> has
  BY DEF knownStreams
<1>2. \A u \in Streams \ {s} :
        u \in knownStreams' =>
          u \in knownStreams /\ contextLength'[u] = contextLength[u]
  BY DEF OthersKept, knownStreams, HasSlot, contextLength
<1>3. \A u \in Streams : u \notin knownStreams' => contextLength'[u] = 0
  BY DEF knownStreams, contextLength
<1>4. \A u \in Streams :
        contextLength'[u] = IF u = s THEN n
                            ELSE IF u \in knownStreams' THEN contextLength[u] ELSE 0
  BY <1>2, <1>3
<1>5. contextLength' = [u \in Streams |->
                          IF u = s THEN n
                          ELSE IF u \in knownStreams' THEN contextLength[u] ELSE 0]
  <2>1. contextLength' = [u \in Streams |-> contextLength'[u]]
    BY DEF contextLength
  <2> QED
    BY <1>4, <2>1
<1>6. knownStreams' \ {s} \subseteq knownStreams
  BY <1>2 DEF knownStreams
<1> QED
  BY <1>1, <1>5, <1>6 DEF Store!Step

(* The phase of the stream that acts, and its turn.                        *)
LEMMA PhaseOf ==
  ASSUME status \in [Streams -> {"new", "prefilled", "open", "done", "lost"}],
         NEW s \in Streams, NEW q \in {"prefilled", "open", "done", "lost"},
         status' = [status EXCEPT ![s] = q]
  PROVE  streamPhase' = [streamPhase EXCEPT ![s] =
           IF q \in {"prefilled", "open"} THEN "served" ELSE "gone"]
<1>1. \A u \in Streams : status'[u] = IF u = s THEN q ELSE status[u]
  OBVIOUS
<1>2. \A u \in Streams :
        streamPhase'[u] =
          IF u = s THEN (IF q \in {"prefilled", "open"} THEN "served" ELSE "gone")
                   ELSE streamPhase[u]
  BY <1>1 DEF streamPhase, Served
<1> QED
  BY <1>2 DEF streamPhase

LEMMA TurnOf ==
  ASSUME NEW s \in Streams, status[s] \in {"new", "prefilled", "open"}, MayServe(s)
  PROVE  Store!Turn(s)
  BY DEF MayServe, Served, streamPhase, Store!Turn

(* The context of a stream that is served has all its chunks.              *)
LEMMA LengthIsSent ==
  ASSUME IInv, NEW s \in Streams, status[s] \in {"new", "prefilled", "open"}
  PROVE  contextLength[s] = sent[s]
<1>1. CASE status[s] = "open"
  <2>1. HasSlot(s) /\ mgr.contexts[mgr.slotOf[s]] = [owner |-> s, chunks |-> sent[s]]
    BY <1>1 DEF IInv, OwnContext, HasSlot
  <2>2. mgr.contexts[mgr.slotOf[s]].chunks = sent[s]
    BY <2>1
  <2> QED
    BY <2>1, <2>2 DEF contextLength
<1>2. CASE status[s] \in {"new", "prefilled"}
  <2>1. /\ sent[s] = 0
        /\ HasSlot(s) => mgr.contexts[mgr.slotOf[s]] \in {NoContext, NewContext(s)}
    BY <1>2 DEF IInv, NotBegun, HasSlot
  <2>2. NoContext.chunks = 0 /\ NewContext(s).chunks = 0
    BY DEF NoContext, NewContext
  <2>3. HasSlot(s) => mgr.contexts[mgr.slotOf[s]].chunks = 0
    <3> SUFFICES ASSUME HasSlot(s)
                 PROVE  mgr.contexts[mgr.slotOf[s]].chunks = 0
      OBVIOUS
    <3>1. CASE mgr.contexts[mgr.slotOf[s]] = NoContext
      BY <3>1, <2>2, Zenon
    <3>2. CASE mgr.contexts[mgr.slotOf[s]] = NewContext(s)
      BY <3>2, <2>2, Zenon
    <3> QED
      BY <2>1, <3>1, <3>2
  <2> QED
    BY <2>1, <2>3 DEF contextLength
<1> QED
  BY <1>1, <1>2

(* What a processed chunk makes of the contexts.                           *)
LEMMA ChunkResult ==
  ASSUME IInv, NEW s \in Streams, NEW first \in BOOLEAN, NEW last \in BOOLEAN,
         Chunk(s, first, last)
  PROVE  /\ OthersKept(s)
         /\ HasSlot(s)' <=> ~last
         /\ contextLength'[s] = IF last THEN 0 ELSE contextLength[s] + 1
<1> DEFINE m == GetContext(ManagerOf(first), s)
           v == UpdateContext(m, s)
<1>1. /\ Good(m)
      /\ m.slotOf[s] \in Slots
      /\ m.contexts[m.slotOf[s]] = [owner |-> s, chunks |-> sent[s]]
      /\ \A u \in Streams \ {s} :
           /\ m.slotOf[u] \in {NoSlot, mgr.slotOf[u]}
           /\ m.slotOf[u] # NoSlot =>
                m.contexts[m.slotOf[u]] = mgr.contexts[mgr.slotOf[u]]
  BY ChunkContext DEF Chunk
<1>2. /\ Good(v) /\ v.slotOf = m.slotOf
      /\ v.contexts = [m.contexts EXCEPT ![m.slotOf[s]].chunks = @ + 1]
  BY <1>1, UpdateContextGood
<1>3. v.contexts[m.slotOf[s]] = [owner |-> s, chunks |-> sent[s] + 1]
  BY <1>1, <1>2 DEF Good, Managers, Contexts
<1>4. \A u \in Streams \ {s} :
        m.slotOf[u] # NoSlot => v.contexts[m.slotOf[u]] = m.contexts[m.slotOf[u]]
  <2> SUFFICES ASSUME NEW u \in Streams \ {s}, m.slotOf[u] # NoSlot
               PROVE  v.contexts[m.slotOf[u]] = m.contexts[m.slotOf[u]]
    OBVIOUS
  <2>1. m.slotOf[u] \in Slots /\ m.slotOf[u] # m.slotOf[s]
    BY <1>1 DEF Good, Managers, Partition, Registered
  <2> QED
    BY <1>1, <1>2, <2>1 DEF Good, Managers
<1>5. m.slotOf[s] # NoSlot
  BY <1>1, SlotsAssumption DEF Slots, NoSlot
<1>6. contextLength[s] = sent[s]
  BY LengthIsSent DEF Chunk
<1>7. mgr' = ReleaseLast(v, s, last)
  BY DEF Chunk
<1> HIDE DEF m, v
<1>8. CASE ~last
  <2>1. mgr' = v
    BY <1>7, <1>8 DEF ReleaseLast
  <2>2. OthersKept(s)
    BY <1>1, <1>2, <1>4, <2>1 DEF OthersKept
  <2>3. HasSlot(s)' /\ mgr'.contexts[mgr'.slotOf[s]].chunks = sent[s] + 1
    <3>1. v.slotOf[s] # NoSlot /\ v.contexts[v.slotOf[s]].chunks = sent[s] + 1
      BY <1>2, <1>3, <1>5
    <3> QED
      BY <2>1, <3>1, Zenon DEF HasSlot
  <2>4. contextLength'[s] = sent[s] + 1
    BY <2>3 DEF contextLength, HasSlot
  <2> QED
    BY <1>6, <1>8, <2>2, <2>3, <2>4
<1>9. CASE last
  <2> DEFINE r == ResetSlot(v, v.slotOf[s])
  <2>1. mgr' = r
    BY <1>7, <1>9 DEF ReleaseLast
  <2>2. /\ r.slotOf[s] = NoSlot
        /\ \A u \in Streams \ {s} :
             /\ r.slotOf[u] = v.slotOf[u]
             /\ v.slotOf[u] # NoSlot => r.contexts[v.slotOf[u]] = v.contexts[v.slotOf[u]]
    <3>1. Good(v) /\ v.slotOf[s] \in Slots
      BY <1>1, <1>2
    <3> QED
      BY <3>1, ResetSlotGood
  <2> HIDE DEF r
  <2>3. OthersKept(s)
    BY <1>1, <1>2, <1>4, <2>1, <2>2 DEF OthersKept
  <2>4. ~HasSlot(s)' /\ contextLength'[s] = 0
    BY <2>1, <2>2 DEF HasSlot, contextLength
  <2> QED
    BY <1>9, <2>3, <2>4
<1> QED
  BY <1>8, <1>9

LEMMA StoreInit == Init => Store!Init
  BY FreshIsGood
     DEF Init, Store!Init, streamPhase, knownStreams, contextLength, HasSlot

LEMMA PrefillAnnounces ==
  ASSUME IInv, NEW s \in Streams, NEW prompted \in BOOLEAN, Prefill(s, prompted)
  PROVE  Store!Announce(s)
<1> DEFINE g == GetContext(FreshManager, s)
<1>1. /\ Good(g)
      /\ g.slotOf[s] \in Slots /\ g.contexts[g.slotOf[s]] = NewContext(s)
      /\ \A u \in Streams \ {s} : g.slotOf[u] = NoSlot
  BY FreshIsGood, GetContextGood
<1>2. mgr' = g /\ status' = [status EXCEPT ![s] = "prefilled"] /\ status[s] = "new"
      /\ MayServe(s)
  BY DEF Prefill
<1> HIDE DEF g
<1>3. OthersKept(s)
  BY <1>1, <1>2 DEF OthersKept
<1>4. HasSlot(s)' /\ contextLength'[s] = 0
  BY <1>1, <1>2, SlotsAssumption DEF HasSlot, contextLength, NewContext, Slots, NoSlot
<1>5. streamPhase' = [streamPhase EXCEPT ![s] = "served"]
  BY <1>2, PhaseOf DEF IInv, TypeOK
<1>6. Store!Step(s, "served", TRUE, 0)
  BY <1>3, <1>4, <1>5, StepOf
<1>7. streamPhase[s] = "new" /\ Store!Turn(s)
  BY <1>2, TurnOf DEF streamPhase
<1> QED
  BY <1>6, <1>7 DEF Store!Announce

LEMMA PrefillFailsAnnounces ==
  ASSUME IInv, NEW s \in Streams, PrefillFails(s)
  PROVE  Store!Announce(s)
<1>1. mgr' = FreshManager /\ status' = [status EXCEPT ![s] = "prefilled"]
      /\ status[s] = "new" /\ MayServe(s)
  BY DEF PrefillFails
<1>2. OthersKept(s)
  BY <1>1, FreshIsGood DEF OthersKept
<1>3. ~HasSlot(s)' /\ contextLength'[s] = 0
  BY <1>1, FreshIsGood DEF HasSlot, contextLength
<1>4. streamPhase' = [streamPhase EXCEPT ![s] = "served"]
  BY <1>1, PhaseOf DEF IInv, TypeOK
<1>5. Store!Step(s, "served", FALSE, 0)
  BY <1>2, <1>3, <1>4, StepOf
<1>6. streamPhase[s] = "new" /\ Store!Turn(s)
  BY <1>1, TurnOf DEF streamPhase
<1> QED
  BY <1>5, <1>6 DEF Store!Announce

LEMMA ChunkHears ==
  ASSUME IInv, NEW s \in Streams, NEW first \in BOOLEAN, NEW last \in BOOLEAN,
         Chunk(s, first, last)
  PROVE  Store!Hear(s) \/ Store!HearLast(s)
<1>1. /\ OthersKept(s)
      /\ HasSlot(s)' <=> ~last
      /\ contextLength'[s] = IF last THEN 0 ELSE contextLength[s] + 1
  BY ChunkResult
<1>2. status' = [status EXCEPT ![s] = IF last THEN "done" ELSE "open"]
  BY DEF Chunk
<1>3. Store!Turn(s)
  BY TurnOf DEF Chunk
<1>4. CASE last
  <2>1. streamPhase' = [streamPhase EXCEPT ![s] = "gone"]
    BY <1>2, <1>4, PhaseOf DEF IInv, TypeOK
  <2>2. Store!Step(s, "gone", FALSE, 0)
    BY <1>1, <1>4, <2>1, StepOf
  <2> QED
    BY <1>3, <2>2 DEF Store!HearLast
<1>5. CASE ~last
  <2>1. streamPhase' = [streamPhase EXCEPT ![s] = "served"]
    BY <1>2, <1>5, PhaseOf DEF IInv, TypeOK
  <2>2. Store!Step(s, "served", TRUE, contextLength[s] + 1)
    BY <1>1, <1>5, <2>1, StepOf
  <2> QED
    BY <1>3, <2>2 DEF Store!Hear
<1> QED
  BY <1>4, <1>5

LEMMA ChunkFailsMisses ==
  ASSUME IInv, NEW s \in Streams, NEW first \in BOOLEAN, NEW last \in BOOLEAN,
         ChunkFails(s, first, last)
  PROVE  Store!Miss(s)
<1> DEFINE m == GetContext(ManagerOf(first), s)
<1>1. /\ m.slotOf[s] \in Slots
      /\ m.contexts[m.slotOf[s]] = [owner |-> s, chunks |-> sent[s]]
      /\ \A u \in Streams \ {s} :
           /\ m.slotOf[u] \in {NoSlot, mgr.slotOf[u]}
           /\ m.slotOf[u] # NoSlot =>
                m.contexts[m.slotOf[u]] = mgr.contexts[mgr.slotOf[u]]
  BY ChunkContext DEF ChunkFails
<1>2. mgr' = m /\ status' = [status EXCEPT ![s] = IF last THEN "lost" ELSE "open"]
  BY DEF ChunkFails
<1> HIDE DEF m
<1>3. OthersKept(s)
  BY <1>1, <1>2 DEF OthersKept
<1>4. HasSlot(s)' /\ contextLength'[s] = sent[s]
  BY <1>1, <1>2, SlotsAssumption DEF HasSlot, contextLength, Slots, NoSlot
<1>5. contextLength[s] = sent[s] /\ Store!Turn(s)
  BY LengthIsSent, TurnOf DEF ChunkFails
<1>6. PICK p \in {"served", "gone"} : streamPhase' = [streamPhase EXCEPT ![s] = p]
  <2>1. CASE last
    BY <1>2, <2>1, PhaseOf DEF IInv, TypeOK
  <2>2. CASE ~last
    BY <1>2, <2>2, PhaseOf DEF IInv, TypeOK
  <2> QED
    BY <2>1, <2>2
<1>7. Store!Step(s, p, TRUE, contextLength[s])
  BY <1>3, <1>4, <1>5, <1>6, StepOf
<1> QED
  BY <1>5, <1>7 DEF Store!Miss

LEMMA UpdatedHears ==
  ASSUME IInv, NEW s \in Streams, NEW first \in BOOLEAN, NEW last \in BOOLEAN,
         ChunkFailsUpdated(s, first, last)
  PROVE  Store!Hear(s)
<1>1. /\ mgr'.slotOf[s] # NoSlot
      /\ mgr'.contexts[mgr'.slotOf[s]] = [owner |-> s, chunks |-> sent[s] + 1]
      /\ OthersKept(s)
  BY UpdatedContext DEF OthersKept
<1>2. HasSlot(s)' /\ contextLength'[s] = sent[s] + 1
  BY <1>1 DEF HasSlot, contextLength
<1>3. contextLength[s] = sent[s] /\ Store!Turn(s)
  BY LengthIsSent, TurnOf DEF ChunkFailsUpdated
<1>4. PICK p \in {"served", "gone"} : streamPhase' = [streamPhase EXCEPT ![s] = p]
  <2>1. status' = [status EXCEPT ![s] = IF last THEN "lost" ELSE "open"]
    BY DEF ChunkFailsUpdated
  <2>2. CASE last
    BY <2>1, <2>2, PhaseOf DEF IInv, TypeOK
  <2>3. CASE ~last
    BY <2>1, <2>3, PhaseOf DEF IInv, TypeOK
  <2> QED
    BY <2>2, <2>3
<1>5. Store!Step(s, p, TRUE, contextLength[s] + 1)
  BY <1>1, <1>2, <1>3, <1>4, StepOf
<1> QED
  BY <1>3, <1>5 DEF Store!Hear

LEMMA DisconnectLeaves ==
  ASSUME IInv, NEW s \in Streams, Disconnect(s)
  PROVE  Store!Leave(s)
<1>1. status' = [status EXCEPT ![s] = "lost"] /\ mgr' = mgr /\ s \in Served
  BY DEF Disconnect
<1>2. streamPhase' = [streamPhase EXCEPT ![s] = "gone"]
  BY <1>1, PhaseOf DEF IInv, TypeOK
<1>3. streamPhase[s] = "served"
  BY <1>1 DEF streamPhase, Served
<1>4. knownStreams' = knownStreams /\ contextLength' = contextLength
  BY <1>1 DEF knownStreams, contextLength, HasSlot
<1> QED
  BY <1>2, <1>3, <1>4 DEF Store!Leave

LEMMA ResetSessionClears ==
  ASSUME ResetSession
  PROVE  Store!Clear
<1>1. mgr' = FreshManager /\ status' = status /\ Served = {}
  BY DEF ResetSession
<1>2. knownStreams' = {} /\ contextLength' = [s \in Streams |-> 0]
  BY <1>1, FreshIsGood DEF knownStreams, contextLength, HasSlot
<1>3. streamPhase' = streamPhase
  BY <1>1 DEF streamPhase, Served
<1>4. \A s \in Streams : streamPhase[s] # "served"
  BY <1>1 DEF streamPhase
<1> QED
  BY <1>2, <1>3, <1>4 DEF Store!Clear

LEMMA StoreStep == IInv /\ IInv' /\ [Next]_vars => [Store!Next]_(Store!storevars)
<1> SUFFICES ASSUME IInv, IInv', [Next]_vars
             PROVE  [Store!Next]_(Store!storevars)
  OBVIOUS
<1>1. CASE UNCHANGED vars
  BY <1>1 DEF vars, Store!storevars, streamPhase, Served, knownStreams,
              contextLength, HasSlot
<1>2. CASE Next
  <2>1. \/ \E s \in Streams :
             Store!Announce(s) \/ Store!Hear(s) \/ Store!HearLast(s)
               \/ Store!Miss(s) \/ Store!Leave(s)
        \/ Store!Clear
    BY <1>2, PrefillAnnounces, PrefillFailsAnnounces, ChunkHears,
       ChunkFailsMisses, UpdatedHears, DisconnectLeaves, ResetSessionClears, Zenon DEF Next
  <2>2. (Cardinality(knownStreams) <= NumSlots)'
    BY RoomKept, PTL DEF IInv
  <2> QED
    BY <2>1, <2>2, Zenon DEF Store!Next, Store!Cardinality, Cardinality
<1> QED
  BY <1>1, <1>2

(* The pool of slots, its emergency clean-up, the replaced managers and    *)
(* the prompt flag together are a store of contexts with NumSlots places:  *)
(* the served stream's context only grows, chunk by chunk, whatever other  *)
(* streams failed, went away or left behind; no step writes to a context   *)
(* of another stream.                                                      *)
THEOREM PipelineImplementsStore == Spec => StoreSpec
<1>1. Init => Store!Init
  BY StoreInit
<1>2. IInv /\ IInv' /\ [Next]_vars => [Store!Next]_(Store!storevars)
  BY StoreStep
<1> QED
  BY <1>1, <1>2, SlotsInvariant, PTL DEF Spec, StoreSpec, Store!Spec
=============================================================================
