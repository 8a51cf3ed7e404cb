-------------------------- MODULE TschLinkLayerProofs --------------------------
(***************************************************************************)
(* Proofs about TschLinkLayer for any number of senders, of entries in the *)
(* history, of sequence numbers and of places in queues and ring: what the *)
(* shifted array of mac-sequence.c remembers, that a frame is delivered    *)
(* once, and that a frame sent and reported as MAC_TX_OK was received.     *)
(***************************************************************************)
EXTENDS TschLinkLayer, SequenceTheorems, FiniteSetTheorems, TLAPS

-----------------------------------------------------------------------------
(* The inductive invariant *)

Packets == [frame : Numbered, transmissions : 0 .. MaxTransmissions - 1]
Broadcasts == {BroadcastFrame(s) : s \in Senders}
Entries == [sender : Senders \cup {NoSender}, seqno : 0 .. MaxSeqno, recent : BOOLEAN]
Memories == [frame : Numbered \cup {Never.frame}, recent : BOOLEAN, since : SUBSET Senders]

LinkTypes ==
    /\ tsch_packet_seqno \in [Senders -> 0 .. MaxSeqno]
    /\ tx_ringbuf \in [Senders -> Seq(Packets)]
    /\ \A s \in Senders : Len(tx_ringbuf[s]) <= QueueSize
    /\ input_ringbuf \in Seq(Numbered \cup Broadcasts)
    /\ Len(input_ringbuf) <= InputSize
    /\ received_seqnos \in [1 .. MAX_SEQNOS -> Entries]
    /\ last \in [Senders -> Memories]
    /\ acked \subseteq Numbered /\ BagToSet(delivered) \subseteq Numbered

Counted ==
    /\ sends \in 0 .. MaxSends /\ reboots \in 0 .. MaxReboots
    /\ numbers \in [Senders -> Nat] /\ boot \in [Senders -> Nat]
    /\ \A s \in Senders : numbers[s] <= sends /\ boot[s] <= reboots

\* Every entry tells what is to be remembered of its sender, those before it
\* are of the senders registered since; a recent sender without an entry was
\* pushed out by senders that fill the history
HistoryOf(entries, registered) ==
    /\ \A i, j \in 1 .. MAX_SEQNOS :
          entries[i].sender \in Senders =>
             /\ entries[j].sender = entries[i].sender => j = i
             /\ j < i => entries[j].sender \in Senders
    /\ \A i \in 1 .. MAX_SEQNOS, s \in Senders :
          entries[i].sender = s =>
             /\ registered[s].since = {entries[j].sender : j \in 1 .. i - 1}
             /\ registered[s].frame.seqno = entries[i].seqno
             /\ registered[s].recent = entries[i].recent
    /\ \A s \in Senders :
          \/ \E i \in 1 .. MAX_SEQNOS : entries[i].sender = s
          \/ ~registered[s].recent
          \/ \A i \in 1 .. MAX_SEQNOS : entries[i].sender \in registered[s].since

HistoryIsLast == HistoryOf(received_seqnos, last)

\* A frame was numbered before the next one of its sender will be
Given(f) == \/ f.boot < boot[f.sender]
            \/ f.boot = boot[f.sender] /\ f.nth <= numbers[f.sender]

\* The frames of a sender that are on their way or remembered
Held(s) == {tx_ringbuf[s][k].frame : k \in 1 .. Len(tx_ringbuf[s])}
             \cup {f \in Numbered : f.sender = s /\ \E i \in 1 .. Len(input_ringbuf) :
                                                      input_ringbuf[i] = f}
             \cup {f \in Numbered : f = last[s].frame}

OwnFrames ==
    \A s \in Senders :
       /\ \A f \in Held(s) : f.sender = s /\ Given(f)
       /\ \A k \in 1 .. Len(tx_ringbuf[s]) : tx_ringbuf[s][k].frame.boot = boot[s]

\* f is g or was sent before it, by the same sender
Upto(f, g) == \/ f = g \/ f.boot < g.boot
              \/ f.boot = g.boot /\ f.nth < g.nth

\* From the delivered frames over the registered one, the ring and the queue:
\* the frames of a sender are in the order in which it has sent them
InOrder ==
    /\ \A f \in BagToSet(delivered) :
          last[f.sender].frame \in Numbered /\ Upto(f, last[f.sender].frame)
    /\ \A s \in Senders, i \in 1 .. Len(input_ringbuf) :
          last[s].frame \in Numbered /\ input_ringbuf[i] \in Numbered
             /\ input_ringbuf[i].sender = s => Upto(last[s].frame, input_ringbuf[i])
    /\ \A s \in Senders : last[s].frame \in Numbered =>
          \A k \in 1 .. Len(tx_ringbuf[s]) : Upto(last[s].frame, tx_ringbuf[s][k].frame)
    /\ \A i, j \in 1 .. Len(input_ringbuf) :
          i < j /\ input_ringbuf[i] \in Numbered /\ input_ringbuf[j] \in Numbered
             /\ input_ringbuf[i].sender = input_ringbuf[j].sender
                => Upto(input_ringbuf[i], input_ringbuf[j])
    /\ \A s \in Senders, i \in 1 .. Len(input_ringbuf) :
          input_ringbuf[i] \in Numbered /\ input_ringbuf[i].sender = s =>
             \A k \in 1 .. Len(tx_ringbuf[s]) : Upto(input_ringbuf[i], tx_ringbuf[s][k].frame)
    /\ \A s \in Senders : \A j, k \in 1 .. Len(tx_ringbuf[s]) :
          j < k => Upto(tx_ringbuf[s][j].frame, tx_ringbuf[s][k].frame)

\* The number of the n-th frame of a sender that has drawn q
NthSeqno(q, n) == IF q + n <= MaxSeqno THEN q + n ELSE q + n - MaxSeqno

\* Before a sender has restarted or used all of its numbers, the numbers of its
\* frames follow from the one it has drawn
FirstRound(q, f) == f.boot = 0 /\ f.nth <= MaxSeqno => f.seqno = NthSeqno(q, f.nth)
NumberedFrom(s, q) ==
    /\ boot[s] = 0 /\ numbers[s] <= MaxSeqno => tsch_packet_seqno[s] = NthSeqno(q, numbers[s])
    /\ \A f \in Held(s) : FirstRound(q, f)

FirstNumbers == \A s \in Senders : \E q \in 0 .. MaxSeqno : NumberedFrom(s, q)

LastDelivered == \A s \in Senders : last[s].frame \in Numbered => BagIn(last[s].frame, delivered)

IInv == LinkTypes /\ Counted /\ HistoryIsLast /\ OwnFrames /\ InOrder /\ FirstNumbers
          /\ LastDelivered /\ OkMeansDelivered

-----------------------------------------------------------------------------
(* Constants, frames and sequences *)

LEMMA Constants ==
    /\ MAX_SEQNOS \in Nat \ {0} /\ MaxSeqno \in Nat \ {0} /\ MaxTransmissions \in Nat \ {0}
    /\ QueueSize \in Nat \ {0} /\ InputSize \in Nat \ {0}
    /\ MaxSends \in Nat /\ MaxReboots \in Nat
    /\ IsFiniteSet(Senders) /\ NoSender \notin Senders
  BY LinkAssumption, SendersAssumption

LEMMA FrameKinds ==
    /\ \A f \in Numbered : f.sender \in Senders /\ f.boot \in Nat /\ f.nth \in Nat \ {0}
                           /\ f.seqno \in 1 .. MaxSeqno /\ f.seqno # NoSeqno
    /\ \A f \in Broadcasts : f \notin Numbered /\ f.seqno = NoSeqno /\ f.sender \in Senders
    /\ Never.frame \notin Numbered /\ Never.frame.seqno = 0 /\ Never.frame.sender = NoSender
    /\ Never \in Memories /\ ~Never.recent
  BY Constants DEF Numbered, Broadcasts, BroadcastFrame, Frame, NoSeqno, Never, Memories

LEMMA UptoIsOrder ==
    ASSUME NEW f \in Numbered, NEW g \in Numbered
    PROVE  /\ Upto(f, f)
           /\ Upto(f, g) /\ Upto(g, f) => f = g
           /\ \A h \in Numbered : Upto(f, g) /\ Upto(g, h) => Upto(f, h)
  <1>1. \A h \in Numbered : h.boot \in Nat /\ h.nth \in Nat
    BY FrameKinds
  <1> QED BY <1>1 DEF Upto

LEMMA TailIndex ==
    ASSUME NEW S, NEW s \in Seq(S), s # << >>
    PROVE  /\ Head(s) = s[1] /\ Head(s) \in S /\ Len(s) \in Nat /\ Len(s) > 0
           /\ Tail(s) \in Seq(S) /\ Len(Tail(s)) = Len(s) - 1
           /\ \A k \in 1 .. Len(Tail(s)) : Tail(s)[k] = s[k + 1]
  BY HeadTailProperties

LEMMA ElementsOf ==
    ASSUME NEW S, NEW s \in Seq(S)
    PROVE  ToSet(s) = {s[i] : i \in 1 .. Len(s)} /\ ToSet(s) \subseteq S
  BY DEF ToSet

LEMMA SmallSets ==
    /\ SetToSeq({}) = << >>
    /\ \A x : SetToSeq({x}) = <<x>>
  <1>1. SetToSeq({}) = << >>
    <2>1. Cardinality({}) = 0
      BY FS_EmptySet
    <2>2. \E f \in [1 .. 0 -> {}] : IsInjective(f)
      <3>1. << >> \in [1 .. 0 -> {}] /\ IsInjective(<< >>)
        BY DEF IsInjective
      <3> QED BY <3>1
    <2>3. SetToSeq({}) \in [1 .. 0 -> {}]
      BY <2>1, <2>2 DEF SetToSeq
    <2> QED BY <2>3
  <1>2. ASSUME NEW x PROVE SetToSeq({x}) = <<x>>
    <2>1. Cardinality({x}) = 1
      BY FS_Singleton
    <2>2. \E f \in [1 .. 1 -> {x}] : IsInjective(f)
      <3>1. <<x>> \in [1 .. 1 -> {x}] /\ IsInjective(<<x>>)
        BY DEF IsInjective
      <3> QED BY <3>1
    <2>3. SetToSeq({x}) \in [1 .. 1 -> {x}]
      BY <2>1, <2>2 DEF SetToSeq
    <2> QED BY <2>3
  <1> QED BY <1>1, <1>2

LEMMA Removed ==
    ASSUME NEW S, NEW h \in Seq(S), NEW old \in 1 .. Len(h)
    PROVE  /\ RemoveAt(h, old) \in Seq(S) /\ Len(RemoveAt(h, old)) = Len(h) - 1
           /\ \A k \in 1 .. Len(h) - 1 : RemoveAt(h, old)[k] = IF k < old THEN h[k] ELSE h[k + 1]
  <1> DEFINE before == SubSeq(h, 1, old - 1)
             after == SubSeq(h, old + 1, Len(h))
             r == before \o after
  <1>1. before \in Seq(S) /\ Len(before) = old - 1 /\ \A k \in 1 .. old - 1 : before[k] = h[k]
    BY SubSeqProperties
  <1>2. after \in Seq(S) /\ Len(after) = Len(h) - old /\ \A k \in 1 .. Len(h) - old : after[k] = h[k + old]
    BY SubSeqProperties
  <1>3. /\ r \in Seq(S) /\ Len(r) = Len(h) - 1
        /\ \A k \in 1 .. Len(h) - 1 : r[k] = IF k < old THEN h[k] ELSE h[k + 1]
    <2> HIDE DEF before, after
    <2>1. /\ r \in Seq(S) /\ Len(r) = Len(before) + Len(after)
          /\ \A k \in 1 .. Len(before) + Len(after) :
                r[k] = IF k <= Len(before) THEN before[k] ELSE after[k - Len(before)]
      BY <1>1, <1>2, ConcatProperties
    <2> HIDE DEF r
    <2>2. Len(h) \in Nat /\ Len(before) + Len(after) = Len(h) - 1
      BY <1>1, <1>2
    <2>3. ASSUME NEW k \in 1 .. Len(h) - 1 PROVE r[k] = IF k < old THEN h[k] ELSE h[k + 1]
      <3>1. CASE k < old
        BY <1>1, <2>1, <2>2, <3>1
      <3>2. CASE ~(k < old)
        <4>1. r[k] = after[k - (old - 1)] /\ k - (old - 1) \in 1 .. Len(h) - old
          BY <1>1, <2>1, <2>2, <3>2
        <4> QED BY <1>2, <4>1, <3>2
      <3> QED BY <3>1, <3>2
    <2> QED BY <2>1, <2>2, <2>3
  <1> QED BY <1>3 DEF RemoveAt

LEMMA Prepended ==
    ASSUME NEW S, NEW r \in Seq(S), NEW u \in Seq(S), Len(u) = 1
    PROVE  /\ u \o r \in Seq(S) /\ Len(u \o r) = Len(r) + 1 /\ (u \o r)[1] = u[1]
           /\ \A k \in 2 .. Len(r) + 1 : (u \o r)[k] = r[k - 1]
  <1> DEFINE t == u \o r
  <1>1. /\ t \in Seq(S) /\ Len(t) = Len(u) + Len(r)
        /\ \A k \in 1 .. Len(u) + Len(r) : t[k] = IF k <= Len(u) THEN u[k] ELSE r[k - Len(u)]
    BY ConcatProperties
  <1> HIDE DEF t
  <1>2. Len(r) \in Nat
    OBVIOUS
  <1> QED BY <1>1, <1>2 DEF t

\* Shifting the entries before old by one place, and a new first one
LEMMA Shifted ==
    ASSUME NEW h \in Seq(Entries), NEW u \in Seq(Entries), Len(u) = 1, NEW old \in 1 .. Len(h)
    PROVE  LET t == u \o RemoveAt(h, old)
           IN  /\ t \in Seq(Entries) /\ Len(t) = Len(h) /\ t[1] = u[1]
               /\ \A k \in 2 .. Len(h) : t[k] = IF k <= old THEN h[k - 1] ELSE h[k]
  <1>1. /\ RemoveAt(h, old) \in Seq(Entries) /\ Len(RemoveAt(h, old)) = Len(h) - 1 /\ Len(h) \in Nat
        /\ \A k \in 1 .. Len(h) - 1 : RemoveAt(h, old)[k] = IF k < old THEN h[k] ELSE h[k + 1]
    BY Removed
  <1> DEFINE r == RemoveAt(h, old)
             t == u \o r
  <1> HIDE DEF r
  <1>2. /\ t \in Seq(Entries) /\ Len(t) = Len(r) + 1 /\ t[1] = u[1]
        /\ \A k \in 2 .. Len(r) + 1 : t[k] = r[k - 1]
    BY <1>1, Prepended DEF r
  <1> HIDE DEF t
  <1>3. /\ r \in Seq(Entries) /\ Len(r) = Len(h) - 1
        /\ \A k \in 1 .. Len(h) - 1 : r[k] = IF k < old THEN h[k] ELSE h[k + 1]
    BY <1>1 DEF r
  <1>4. ASSUME NEW k \in 2 .. Len(h) PROVE t[k] = IF k <= old THEN h[k - 1] ELSE h[k]
    <2>1. k - 1 \in 1 .. Len(h) - 1 /\ k \in 2 .. Len(r) + 1 /\ (k - 1) + 1 = k
      BY <1>1, <1>3
    <2> QED BY <1>2, <1>3, <2>1
  <1>5. Len(t) = Len(h)
    BY <1>1, <1>2, <1>3
  <1> QED BY <1>2, <1>4, <1>5 DEF t, r

-----------------------------------------------------------------------------
(* The history *)

LEMMA HistoryLength ==
    ASSUME LinkTypes
    PROVE  received_seqnos \in Seq(Entries) /\ Len(received_seqnos) = MAX_SEQNOS
  BY Constants, IsASeq, LenProperties DEF LinkTypes

EntryIndex(s) == SelectInSeq(received_seqnos, LAMBDA e : e.sender = s)

\* The search finds the only entry of a sender, if it has one
LEMMA EntryOf ==
    ASSUME LinkTypes, HistoryIsLast, NEW s \in Senders,
           NEW i, i = EntryIndex(s)
    PROVE  \/ i \in 1 .. MAX_SEQNOS /\ received_seqnos[i].sender = s
           \/ i = 0 /\ \A j \in 1 .. MAX_SEQNOS : received_seqnos[j].sender # s
  <1> DEFINE I == {j \in 1 .. MAX_SEQNOS : received_seqnos[j].sender = s}
  <1>1. Len(received_seqnos) = MAX_SEQNOS
    BY HistoryLength
  <1>2. i = IF I # {} THEN Min(I) ELSE 0
    BY <1>1 DEF EntryIndex, SelectInSeq
  <1>3. ASSUME NEW j \in I PROVE Min(I) = j
    <2>1. I = {j}
      BY DEF HistoryIsLast, HistoryOf
    <2> QED BY <2>1, Constants DEF Min
  <1> QED BY <1>2, <1>3

\* The place that is made free
OldPlace(s) == IF EntryIndex(s) = 0 THEN MAX_SEQNOS ELSE EntryIndex(s)

LEMMA OldPlaceOf ==
    ASSUME LinkTypes, HistoryIsLast, NEW s \in Senders
    PROVE  /\ OldPlace(s) \in 1 .. MAX_SEQNOS
           /\ \/ received_seqnos[OldPlace(s)].sender = s
              \/ /\ OldPlace(s) = MAX_SEQNOS
                 /\ \A j \in 1 .. MAX_SEQNOS : received_seqnos[j].sender # s
  <1> PICK i : i = EntryIndex(s)
    OBVIOUS
  <1>1. \/ i \in 1 .. MAX_SEQNOS /\ received_seqnos[i].sender = s
        \/ i = 0 /\ \A j \in 1 .. MAX_SEQNOS : received_seqnos[j].sender # s
    BY EntryOf
  <1> QED BY <1>1, Constants DEF OldPlace

LEMMA AfterRegister ==
    ASSUME LinkTypes, HistoryIsLast, NEW s \in Senders, NEW q \in 0 .. MaxSeqno,
           NEW old \in 1 .. Len(received_seqnos), old = OldPlace(s),
           NEW new, new = mac_sequence_register_seqno(s, q)
    PROVE  /\ new \in Seq(Entries) /\ Len(new) = Len(received_seqnos)
           /\ new[1] = [sender |-> s, seqno |-> q, recent |-> TRUE]
           /\ \A k \in 2 .. Len(received_seqnos) :
                 new[k] = IF k <= old THEN received_seqnos[k - 1] ELSE received_seqnos[k]
  <1> DEFINE x == [sender |-> s, seqno |-> q, recent |-> TRUE]
             u == <<x>>
             t == u \o RemoveAt(received_seqnos, old)
  <1>1. new = t
    BY DEF mac_sequence_register_seqno, EntryIndex, OldPlace
  <1>2. x \in Entries
    BY Constants DEF Entries
  <1>3. received_seqnos \in Seq(Entries)
    BY HistoryLength
  <1> HIDE DEF x
  <1>5. u \in Seq(Entries) /\ Len(u) = 1 /\ u[1] = x
    BY <1>2
  <1> HIDE DEF u
  <1>6. /\ t \in Seq(Entries) /\ Len(t) = Len(received_seqnos) /\ t[1] = u[1]
        /\ \A k \in 2 .. Len(received_seqnos) :
              t[k] = IF k <= old THEN received_seqnos[k - 1] ELSE received_seqnos[k]
    BY <1>3, <1>5, Shifted, Zenon
  <1> HIDE DEF t
  <1> QED BY <1>1, <1>5, <1>6 DEF x

LEMMA AfterRemember ==
    ASSUME LinkTypes, NEW f \in Numbered, last' = Remember(f)
    PROVE  /\ last' \in [Senders -> Memories]
           /\ last'[f.sender] = [frame |-> f, recent |-> TRUE, since |-> {}]
           /\ \A r \in Senders \ {f.sender} :
                 /\ last'[r].frame = last[r].frame
                 /\ last'[r].recent = last[r].recent
                 /\ last'[r].since = last[r].since \cup {f.sender}
  <1>1. f.sender \in Senders /\ \A r \in Senders : last[r] \in Memories
    BY FrameKinds DEF LinkTypes
  <1>2. [frame |-> f, recent |-> TRUE, since |-> {}] \in Memories
    BY DEF Memories
  <1>3. ASSUME NEW r \in Senders
        PROVE  LET m == [last[r] EXCEPT !.since = @ \cup {f.sender}]
               IN  /\ m \in Memories /\ m.frame = last[r].frame /\ m.recent = last[r].recent
                   /\ m.since = last[r].since \cup {f.sender}
    BY <1>1 DEF Memories
  <1> QED BY <1>1, <1>2, <1>3 DEF Remember

LEMMA RegisterKeepsHistory ==
    ASSUME LinkTypes, HistoryIsLast, NEW f \in Numbered,
           received_seqnos' = mac_sequence_register_seqno(f.sender, f.seqno),
           last' = Remember(f)
    PROVE  /\ received_seqnos' \in [1 .. MAX_SEQNOS -> Entries]
           /\ HistoryIsLast'
  <1> DEFINE h == received_seqnos
             D == 1 .. MAX_SEQNOS
             s == f.sender
  <1>1. s \in Senders /\ f.seqno \in 0 .. MaxSeqno /\ MAX_SEQNOS \in Nat \ {0}
    BY FrameKinds, Constants
  <1>2. PICK new : new = mac_sequence_register_seqno(s, f.seqno)
    OBVIOUS
  <1>a. PICK old \in 1 .. MAX_SEQNOS : old = OldPlace(s)
    BY <1>1, OldPlaceOf
  <1>b. \/ received_seqnos[old].sender = s
        \/ old = MAX_SEQNOS /\ \A j \in 1 .. MAX_SEQNOS : received_seqnos[j].sender # s
    BY <1>1, <1>a, OldPlaceOf
  <1>3. /\ new \in [1 .. MAX_SEQNOS -> Entries]
        /\ new[1] = [sender |-> s, seqno |-> f.seqno, recent |-> TRUE]
        /\ \A k \in 2 .. MAX_SEQNOS :
              new[k] = IF k <= old THEN received_seqnos[k - 1] ELSE received_seqnos[k]
    <2>1. received_seqnos \in Seq(Entries) /\ Len(received_seqnos) = MAX_SEQNOS
      BY HistoryLength
    <2>2. old \in 1 .. Len(received_seqnos)
      BY <2>1
    <2>3. /\ new \in Seq(Entries) /\ Len(new) = Len(received_seqnos)
          /\ new[1] = [sender |-> s, seqno |-> f.seqno, recent |-> TRUE]
          /\ \A k \in 2 .. Len(received_seqnos) :
                new[k] = IF k <= old THEN received_seqnos[k - 1] ELSE received_seqnos[k]
      BY <1>1, <1>2, <1>a, <2>2, AfterRegister
    <2> QED BY <2>1, <2>3
  <1>4. /\ old \in 1 .. MAX_SEQNOS
        /\ \/ received_seqnos[old].sender = s
           \/ old = MAX_SEQNOS /\ \A j \in 1 .. MAX_SEQNOS : received_seqnos[j].sender # s
        /\ \A k \in 2 .. MAX_SEQNOS :
              new[k] = IF k <= old THEN received_seqnos[k - 1] ELSE received_seqnos[k]
    BY <1>b, <1>3
  <1>5. received_seqnos' = new
    BY <1>2
  \* Where an entry comes from
  <1>6. ASSUME NEW k \in 2 .. MAX_SEQNOS
        PROVE  \E m \in D : new[k] = h[m] /\ m = (IF k <= old THEN k - 1 ELSE k) /\ m # old
    <2>1. CASE k <= old
      <3>1. k - 1 \in D /\ k - 1 # old
        BY <1>1, <2>1
      <3> QED BY <1>4, <2>1, <3>1
    <2>2. CASE ~(k <= old)
      <3>1. k \in D /\ k # old
        BY <1>1, <2>2
      <3> QED BY <1>4, <2>2, <3>1
    <2> QED BY <2>1, <2>2
  <1>7. \A i, j \in D : h[i].sender \in Senders =>
             (h[j].sender = h[i].sender => j = i) /\ (j < i => h[j].sender \in Senders)
    BY DEF HistoryIsLast, HistoryOf
  <1>8. ASSUME NEW k \in 2 .. MAX_SEQNOS, new[k].sender \in Senders PROVE new[k].sender # s
    <2>1. PICK m \in D : new[k] = h[m] /\ m # old
      BY <1>6
    <2> QED BY <1>4, <1>7, <1>8, <2>1
  <1>9. ASSUME NEW i \in D, NEW j \in D, new[i].sender \in Senders
        PROVE  (new[j].sender = new[i].sender => j = i) /\ (j < i => new[j].sender \in Senders)
    <2>1. CASE i = 1
      <3>1. j # 1 => j \in 2 .. MAX_SEQNOS
        BY <1>1
      <3> QED BY <1>1, <1>3, <1>8, <2>1, <3>1
    <2>2. CASE j = 1
      <3>1. i # 1 => i \in 2 .. MAX_SEQNOS
        BY <1>1
      <3> QED BY <1>1, <1>3, <1>8, <1>9, <2>2, <3>1
    <2>3. CASE i # 1 /\ j # 1
      <3>0. i \in 2 .. MAX_SEQNOS /\ j \in 2 .. MAX_SEQNOS
        BY <2>3, <1>1
      <3>1. PICK m \in D : new[i] = h[m] /\ m = (IF i <= old THEN i - 1 ELSE i) /\ m # old
        BY <1>6, <3>0
      <3>2. PICK n \in D : new[j] = h[n] /\ n = (IF j <= old THEN j - 1 ELSE j) /\ n # old
        BY <1>6, <3>0
      <3>3. (m = n => i = j) /\ (j < i => n < m)
        BY <1>1, <1>4, <3>0, <3>1, <3>2
      <3> QED BY <1>7, <1>9, <3>1, <3>2, <3>3
    <2> QED BY <2>1, <2>2, <2>3
  <1>10. ASSUME NEW i \in D, NEW r \in Senders, h[i].sender = r
         PROVE  /\ last[r].since = {h[j].sender : j \in 1 .. i - 1}
                /\ last[r].frame.seqno = h[i].seqno
                /\ last[r].recent = h[i].recent
    BY <1>10 DEF HistoryIsLast, HistoryOf
  <1>11. /\ last'[s] = [frame |-> f, recent |-> TRUE, since |-> {}]
         /\ \A r \in Senders \ {s} :
               /\ last'[r].frame = last[r].frame
               /\ last'[r].recent = last[r].recent
               /\ last'[r].since = last[r].since \cup {s}
    BY AfterRemember
  <1>12. ASSUME NEW i \in D, NEW r \in Senders, new[i].sender = r
         PROVE  /\ last'[r].since = {new[j].sender : j \in 1 .. i - 1}
                /\ last'[r].frame.seqno = new[i].seqno
                /\ last'[r].recent = new[i].recent
    <2>1. CASE i = 1
      <3>1. r = s /\ {new[j].sender : j \in 1 .. i - 1} = {}
        BY <1>3, <1>12, <2>1
      <3>2. last'[s].since = {} /\ last'[s].frame = f /\ last'[s].recent = TRUE
        BY <1>11
      <3>3. new[i].seqno = f.seqno /\ new[i].recent = TRUE
        BY <1>3, <2>1
      <3> HIDE DEF s
      <3> QED BY <3>1, <3>2, <3>3, Zenon
    <2>2. CASE i # 1
      <3>0. i \in 2 .. MAX_SEQNOS
        BY <2>2, <1>1
      <3>1. PICK m \in D : new[i] = h[m] /\ m = (IF i <= old THEN i - 1 ELSE i) /\ m # old
        BY <1>6, <3>0
      <3>2. r # s
        BY <1>8, <1>12, <3>0
      <3>3. /\ last[r].since = {h[j].sender : j \in 1 .. m - 1}
            /\ last[r].frame.seqno = new[i].seqno /\ last[r].recent = new[i].recent
        BY <1>10, <1>12, <3>1
      <3>4. i > old => h[old].sender = s
        BY <1>1, <1>4, <3>0
      <3>5. {new[j].sender : j \in 1 .. i - 1} = {h[j].sender : j \in 1 .. m - 1} \cup {s}
        <4>1. ASSUME NEW j \in 1 .. i - 1
              PROVE  new[j].sender \in {h[k].sender : k \in 1 .. m - 1} \cup {s}
          <5>1. CASE j = 1
            BY <1>3, <5>1
          <5>2. CASE j # 1
            <6>1. j \in 2 .. MAX_SEQNOS
              BY <5>2, <3>0, <1>1
            <6>2. PICK k \in D : new[j] = h[k] /\ k = (IF j <= old THEN j - 1 ELSE j) /\ k # old
              BY <1>6, <6>1
            <6>3. k \in 1 .. m - 1
              BY <1>1, <1>4, <3>0, <3>1, <6>1, <6>2
            <6> QED BY <6>2, <6>3
          <5> QED BY <5>1, <5>2
        <4>2. s \in {new[j].sender : j \in 1 .. i - 1}
          <5>1. 1 \in 1 .. i - 1
            BY <3>0
          <5> QED BY <1>3, <5>1
        <4>3. ASSUME NEW k \in 1 .. m - 1
              PROVE  h[k].sender \in {new[j].sender : j \in 1 .. i - 1}
          <5>1. CASE k = old
            <6>1. i > old
              BY <1>1, <1>4, <3>0, <3>1, <5>1
            <6> QED BY <3>4, <4>2, <5>1, <6>1
          <5>2. CASE k < old
            <6>1. k + 1 \in 2 .. MAX_SEQNOS /\ k + 1 <= old /\ k + 1 \in 1 .. i - 1 /\ (k + 1) - 1 = k
              BY <1>1, <1>4, <3>0, <3>1, <5>2
            <6> QED BY <1>4, <6>1
          <5>3. CASE k > old
            <6>1. k \in 2 .. MAX_SEQNOS /\ ~(k <= old) /\ k \in 1 .. i - 1
              BY <1>1, <1>4, <3>0, <3>1, <5>3
            <6> QED BY <1>4, <6>1
          <5> QED BY <1>1, <1>4, <3>1, <5>1, <5>2, <5>3
        <4> QED BY <4>1, <4>2, <4>3
      <3> QED BY <1>11, <3>2, <3>3, <3>5
    <2> QED BY <2>1, <2>2
  <1>13. ASSUME NEW r \in Senders
         PROVE  \/ \E i \in D : new[i].sender = r
                \/ ~last'[r].recent
                \/ \A i \in D : new[i].sender \in last'[r].since
    <2>1. CASE r = s
      BY <1>1, <1>3, <2>1
    <2>2. CASE r # s /\ \A i \in D : h[i].sender # r
      <3>1. ~last[r].recent \/ \A i \in D : h[i].sender \in last[r].since
        BY <2>2 DEF HistoryIsLast, HistoryOf
      <3>2. CASE \A i \in D : h[i].sender \in last[r].since
        <4>1. ASSUME NEW i \in D PROVE new[i].sender \in last[r].since \cup {s}
          <5>1. CASE i = 1
            BY <1>3, <5>1
          <5>2. CASE i # 1
            <6>1. i \in 2 .. MAX_SEQNOS
              BY <5>2, <1>1
            <6> QED BY <1>6, <3>2, <6>1
          <5> QED BY <5>1, <5>2
        <4> QED BY <1>11, <2>2, <4>1
      <3> QED BY <1>11, <2>2, <3>1, <3>2
    <2>3. ASSUME r # s, NEW m \in D, h[m].sender = r, \A i \in D : new[i].sender # r
          PROVE  \A i \in D : new[i].sender \in last'[r].since
      <3>1. ~(m < old)
        <4>1. m < old => m + 1 \in 2 .. MAX_SEQNOS /\ m + 1 <= old /\ (m + 1) - 1 = m
          BY <1>1, <1>4
        <4>2. \A k \in 2 .. MAX_SEQNOS : k \in D
          BY <1>1
        <4> QED BY <1>4, <2>3, <4>1, <4>2
      <3>2. ~(m > old)
        <4>1. m > old => m \in 2 .. MAX_SEQNOS /\ ~(m <= old)
          BY <1>1, <1>4
        <4> QED BY <1>4, <2>3, <4>1
      <3>3. m = old /\ old = MAX_SEQNOS
        BY <1>1, <1>4, <2>3, <3>1, <3>2
      <3>4. last'[r].since = {h[j].sender : j \in 1 .. MAX_SEQNOS - 1} \cup {s}
        BY <1>10, <1>11, <2>3, <3>3
      <3>5. ASSUME NEW i \in D PROVE new[i].sender \in last'[r].since
        <4>1. CASE i = 1
          BY <1>3, <3>4, <4>1
        <4>2. CASE i # 1
          <5>1. i \in 2 .. MAX_SEQNOS /\ i <= old /\ i - 1 \in 1 .. MAX_SEQNOS - 1
            BY <4>2, <1>1, <3>3
          <5> QED BY <1>4, <3>4, <5>1
        <4> QED BY <4>1, <4>2
      <3> QED BY <3>5
    <2> QED BY <2>1, <2>2, <2>3
  <1> QED
    <2> HIDE DEF h
    <2>1. /\ \A i, j \in D : new[i].sender \in Senders =>
                /\ new[j].sender = new[i].sender => j = i
                /\ j < i => new[j].sender \in Senders
          /\ \A i \in D, r \in Senders : new[i].sender = r =>
                /\ last'[r].since = {new[j].sender : j \in 1 .. i - 1}
                /\ last'[r].frame.seqno = new[i].seqno
                /\ last'[r].recent = new[i].recent
          /\ \A r \in Senders :
                \/ \E i \in D : new[i].sender = r
                \/ ~last'[r].recent
                \/ \A i \in D : new[i].sender \in last'[r].since
      BY <1>9, <1>12, <1>13
    <2>2. received_seqnos' \in [1 .. MAX_SEQNOS -> Entries]
      BY <1>3, <1>5
    <2>3. HistoryIsLast'
      <3>1. HistoryOf(new, last')
        BY <2>1 DEF HistoryOf
      <3> QED BY <1>5, <3>1 DEF HistoryIsLast
    <2> QED BY <2>2, <2>3

\* Whose memory becomes too old, and what Expire does to it
LEMMA AfterExpire ==
    ASSUME LinkTypes, NEW s \in Senders, Expire(s)
    PROVE  \E old \in SUBSET Senders :
              /\ received_seqnos' \in [1 .. MAX_SEQNOS -> Entries]
              /\ \A i \in 1 .. MAX_SEQNOS :
                    /\ received_seqnos'[i].sender = received_seqnos[i].sender
                    /\ received_seqnos'[i].seqno = received_seqnos[i].seqno
                    /\ received_seqnos'[i].recent
                         = (received_seqnos[i].recent /\ received_seqnos[i].sender \notin old)
              /\ last' \in [Senders -> Memories]
              /\ \A r \in Senders :
                    /\ last'[r].frame = last[r].frame
                    /\ last'[r].since = last[r].since
                    /\ last'[r].recent = (last[r].recent /\ r \notin old)
  <1> DEFINE old == {r \in Senders : r = s \/ s \in last[r].since}
  <1>1. /\ received_seqnos' = [i \in 1 .. MAX_SEQNOS |->
               [received_seqnos[i] EXCEPT !.recent = @ /\ received_seqnos[i].sender \notin old]]
        /\ last' = [r \in Senders |-> [last[r] EXCEPT !.recent = @ /\ r \notin old]]
    BY DEF Expire
  <1> HIDE DEF old
  <1>2. ASSUME NEW e \in Entries
        PROVE  LET d == [e EXCEPT !.recent = @ /\ e.sender \notin old]
               IN  /\ d \in Entries /\ d.sender = e.sender /\ d.seqno = e.seqno
                   /\ d.recent = (e.recent /\ e.sender \notin old)
    BY DEF Entries
  <1>3. ASSUME NEW m \in Memories, NEW r \in Senders
        PROVE  LET d == [m EXCEPT !.recent = @ /\ r \notin old]
               IN  /\ d \in Memories /\ d.frame = m.frame /\ d.since = m.since
                   /\ d.recent = (m.recent /\ r \notin old)
    BY DEF Memories
  <1>4. /\ \A i \in 1 .. MAX_SEQNOS : received_seqnos[i] \in Entries
        /\ \A r \in Senders : last[r] \in Memories
    BY DEF LinkTypes
  <1>5. /\ received_seqnos' \in [1 .. MAX_SEQNOS -> Entries]
        /\ \A i \in 1 .. MAX_SEQNOS :
              /\ received_seqnos'[i].sender = received_seqnos[i].sender
              /\ received_seqnos'[i].seqno = received_seqnos[i].seqno
              /\ received_seqnos'[i].recent
                   = (received_seqnos[i].recent /\ received_seqnos[i].sender \notin old)
    BY <1>1, <1>2, <1>4
  <1>6. /\ last' \in [Senders -> Memories]
        /\ \A r \in Senders :
              /\ last'[r].frame = last[r].frame
              /\ last'[r].since = last[r].since
              /\ last'[r].recent = (last[r].recent /\ r \notin old)
    <2>1. \A r \in Senders : last'[r] = [last[r] EXCEPT !.recent = @ /\ r \notin old]
      BY <1>1
    <2>2. ASSUME NEW r \in Senders
          PROVE  /\ last'[r] \in Memories /\ last'[r].frame = last[r].frame
                 /\ last'[r].since = last[r].since
                 /\ last'[r].recent = (last[r].recent /\ r \notin old)
      <3>1. last[r] \in Memories
        BY <1>4
      <3>2. last'[r] = [last[r] EXCEPT !.recent = @ /\ r \notin old]
        BY <2>1
      <3>3. LET d == [last[r] EXCEPT !.recent = @ /\ r \notin old]
            IN  /\ d \in Memories /\ d.frame = last[r].frame /\ d.since = last[r].since
                /\ d.recent = (last[r].recent /\ r \notin old)
        BY <1>3, <3>1, Zenon
      <3> QED BY <3>2, <3>3, Zenon
    <2>a. \A r \in Senders : [last[r] EXCEPT !.recent = @ /\ r \notin old] \in Memories
      BY <1>3, <1>4, Zenon
    <2>3. last' \in [Senders -> Memories]
      BY <1>1, <2>a, Zenon
    <2> QED BY <2>2, <2>3
  <1>7. old \in SUBSET Senders
    BY DEF old
  <1> QED BY <1>5, <1>6, <1>7

LEMMA ExpireKeepsHistory ==
    ASSUME LinkTypes, HistoryIsLast, NEW s \in Senders, Expire(s)
    PROVE  HistoryIsLast'
  <1> DEFINE D == 1 .. MAX_SEQNOS
  <1>1. PICK old \in SUBSET Senders :
          /\ \A i \in D :
                /\ received_seqnos'[i].sender = received_seqnos[i].sender
                /\ received_seqnos'[i].seqno = received_seqnos[i].seqno
                /\ received_seqnos'[i].recent
                     = (received_seqnos[i].recent /\ received_seqnos[i].sender \notin old)
          /\ \A r \in Senders :
                /\ last'[r].frame = last[r].frame
                /\ last'[r].since = last[r].since
                /\ last'[r].recent = (last[r].recent /\ r \notin old)
    BY AfterExpire
  <1>2. \A i, j \in D : received_seqnos'[i].sender \in Senders =>
             /\ received_seqnos'[j].sender = received_seqnos'[i].sender => j = i
             /\ j < i => received_seqnos'[j].sender \in Senders
    BY <1>1 DEF HistoryIsLast, HistoryOf
  <1>3. ASSUME NEW i \in D, NEW r \in Senders, received_seqnos'[i].sender = r
        PROVE  /\ last'[r].since = {received_seqnos'[j].sender : j \in 1 .. i - 1}
               /\ last'[r].frame.seqno = received_seqnos'[i].seqno
               /\ last'[r].recent = received_seqnos'[i].recent
    <2>1. received_seqnos[i].sender = r
      BY <1>1, <1>3
    <2>2. /\ last[r].since = {received_seqnos[j].sender : j \in 1 .. i - 1}
          /\ last[r].frame.seqno = received_seqnos[i].seqno
          /\ last[r].recent = received_seqnos[i].recent
      BY <2>1 DEF HistoryIsLast, HistoryOf
    <2>3. \A j \in 1 .. i - 1 : received_seqnos'[j].sender = received_seqnos[j].sender
      BY <1>1, Constants
    <2>4. {received_seqnos'[j].sender : j \in 1 .. i - 1}
            = {received_seqnos[j].sender : j \in 1 .. i - 1}
      BY <2>3
    <2>5. last'[r].since = {received_seqnos'[j].sender : j \in 1 .. i - 1}
      BY <1>1, <2>2, <2>4
    <2>6. last'[r].frame.seqno = received_seqnos'[i].seqno
      BY <1>1, <2>2
    <2>7. last'[r].recent = received_seqnos'[i].recent
      BY <1>1, <2>1, <2>2
    <2> QED BY <2>5, <2>6, <2>7
  <1>4. ASSUME NEW r \in Senders
        PROVE  \/ \E i \in D : received_seqnos'[i].sender = r
               \/ ~last'[r].recent
               \/ \A i \in D : received_seqnos'[i].sender \in last'[r].since
    <2>1. \/ \E i \in D : received_seqnos[i].sender = r
          \/ ~last[r].recent
          \/ \A i \in D : received_seqnos[i].sender \in last[r].since
      BY DEF HistoryIsLast, HistoryOf
    <2>2. ~last[r].recent => ~last'[r].recent
      BY <1>1, Zenon
    <2>3. \A i \in D : received_seqnos'[i].sender = received_seqnos[i].sender
      BY <1>1
    <2>4. last'[r].since = last[r].since
      BY <1>1
    <2> QED BY <2>1, <2>2, <2>3, <2>4, Zenon
  <1> QED BY <1>2, <1>3, <1>4 DEF HistoryIsLast, HistoryOf

\* The entries before that of a sender are fewer than MAX_SEQNOS; a full
\* history holds MAX_SEQNOS senders
LEMMA HistoryTells ==
    ASSUME LinkTypes, HistoryIsLast
    PROVE  HistoryCorrect
  <1> SUFFICES ASSUME NEW s \in Senders, NEW q \in 1 .. MaxSeqno
               PROVE  mac_sequence_is_duplicate(s, q)
                        <=> last[s].frame.seqno = q /\ ~Forgotten(s)
    BY DEF HistoryCorrect
  <1>1. PICK i : i = EntryIndex(s)
    OBVIOUS
  <1>2. mac_sequence_is_duplicate(s, q)
          <=> i # 0 /\ received_seqnos[i].seqno = q /\ received_seqnos[i].recent
    BY <1>1 DEF mac_sequence_is_duplicate, EntryIndex
  <1>3. \/ i \in 1 .. MAX_SEQNOS /\ received_seqnos[i].sender = s
        \/ i = 0 /\ \A j \in 1 .. MAX_SEQNOS : received_seqnos[j].sender # s
    BY <1>1, EntryOf
  <1>4. MAX_SEQNOS \in Nat \ {0}
    BY Constants
  <1>5. CASE i \in 1 .. MAX_SEQNOS /\ received_seqnos[i].sender = s
    <2>1. /\ last[s].since = {received_seqnos[j].sender : j \in 1 .. i - 1}
          /\ last[s].frame.seqno = received_seqnos[i].seqno
          /\ last[s].recent = received_seqnos[i].recent
      BY <1>5 DEF HistoryIsLast, HistoryOf
    <2>2. Cardinality(last[s].since) < MAX_SEQNOS
      <3> DEFINE g == [j \in 1 .. i - 1 |-> received_seqnos[j].sender]
      <3>1. g \in Surjection(1 .. i - 1, last[s].since)
        BY <2>1 DEF Surjection
      <3>2. IsFiniteSet(1 .. i - 1) /\ Cardinality(1 .. i - 1) = i - 1
        BY <1>4, <1>5, FS_Interval
      <3> HIDE DEF g
      <3>3. Cardinality(last[s].since) <= Cardinality(1 .. i - 1) /\ IsFiniteSet(last[s].since)
        BY <3>1, <3>2, FS_Surjection
      <3>4. Cardinality(last[s].since) \in Nat
        BY <3>3, FS_CardinalityType
      <3> QED BY <1>4, <1>5, <3>2, <3>3, <3>4
    <2>3. Cardinality(last[s].since) \in Nat
      BY Constants, FS_Subset, FS_CardinalityType DEF LinkTypes, Memories
    <2> QED BY <1>2, <1>4, <1>5, <2>1, <2>2, <2>3 DEF Forgotten
  <1>6. CASE i = 0 /\ \A j \in 1 .. MAX_SEQNOS : received_seqnos[j].sender # s
    <2>1. SUFFICES ASSUME last[s].recent PROVE Cardinality(last[s].since) >= MAX_SEQNOS
      BY <1>2, <1>6 DEF Forgotten
    <2>2. \A j \in 1 .. MAX_SEQNOS : received_seqnos[j].sender \in last[s].since
      BY <1>6, <2>1 DEF HistoryIsLast, HistoryOf
    <2>3. last[s].since \subseteq Senders /\ IsFiniteSet(last[s].since)
      BY Constants, FS_Subset DEF LinkTypes, Memories
    <2> DEFINE g == [j \in 1 .. MAX_SEQNOS |-> received_seqnos[j].sender]
    <2>4. g \in Injection(1 .. MAX_SEQNOS, last[s].since)
      BY <2>2, <2>3 DEF HistoryIsLast, HistoryOf, Injection, IsInjective
    <2> HIDE DEF g
    <2>5. Cardinality(1 .. MAX_SEQNOS) <= Cardinality(last[s].since)
      BY <2>3, <2>4, FS_Injection
    <2>6. Cardinality(1 .. MAX_SEQNOS) = MAX_SEQNOS /\ Cardinality(last[s].since) \in Nat
      BY <1>4, <2>3, FS_Interval, FS_CardinalityType
    <2> QED BY <1>4, <2>5, <2>6
  <1> QED BY <1>3, <1>5, <1>6

-----------------------------------------------------------------------------
(* Frames in their order *)

\* f is the next frame of s
IsNext(s, f) ==
    /\ f \in Numbered /\ f.sender = s
    /\ f.boot = boot[s] /\ boot'[s] = boot[s]
    /\ f.nth = numbers[s] + 1 /\ numbers'[s] = numbers[s] + 1
    /\ f.seqno = tsch_packet_seqno'[s]

\* A queue loses frames at its front and may get the next one of its sender
QueueStep(s, d) ==
    \A k \in 1 .. Len(tx_ringbuf'[s]) :
       \/ k + d \in 1 .. Len(tx_ringbuf[s]) /\ tx_ringbuf'[s][k].frame = tx_ringbuf[s][k + d].frame
       \/ k + d = Len(tx_ringbuf[s]) + 1 /\ IsNext(s, tx_ringbuf'[s][k].frame)

\* A sender uses no number, the next one, or restarts
NumberStep(s) ==
    \/ boot'[s] = boot[s] /\ numbers'[s] = numbers[s]
         /\ tsch_packet_seqno'[s] = tsch_packet_seqno[s]
    \/ boot'[s] = boot[s] /\ numbers'[s] = numbers[s] + 1
         /\ tsch_packet_seqno'[s] = NextSeqno(tsch_packet_seqno[s])
    \/ boot'[s] > boot[s] /\ Len(tx_ringbuf'[s]) = 0

\* The ring gets at most the first frame of a queue
RingStep ==
    \/ input_ringbuf' = input_ringbuf
    \/ /\ Len(input_ringbuf') = Len(input_ringbuf) + 1
       /\ \A i \in 1 .. Len(input_ringbuf) : input_ringbuf'[i] = input_ringbuf[i]
       /\ LET f == input_ringbuf'[Len(input_ringbuf) + 1]
          IN  f \in Numbered => /\ Len(tx_ringbuf[f.sender]) > 0
                                /\ f = tx_ringbuf[f.sender][1].frame

SendersStep ==
    /\ \A s \in Senders : (\E d \in Nat : QueueStep(s, d)) /\ NumberStep(s)
    /\ \A s \in Senders : last'[s].frame = last[s].frame
    /\ RingStep /\ delivered' = delivered

LEMMA HeldFrames ==
    ASSUME LinkTypes, NEW s \in Senders
    PROVE  /\ Held(s) \subseteq Numbered
           /\ Len(tx_ringbuf[s]) \in Nat
           /\ \A k \in 1 .. Len(tx_ringbuf[s]) :
                 tx_ringbuf[s][k].frame \in Held(s) /\ tx_ringbuf[s][k].frame \in Numbered
           /\ \A i \in 1 .. Len(input_ringbuf) :
                 input_ringbuf[i] \in Numbered /\ input_ringbuf[i].sender = s =>
                    input_ringbuf[i] \in Held(s)
           /\ last[s].frame \in Numbered => last[s].frame \in Held(s)
  <1>1. tx_ringbuf[s] \in Seq(Packets)
    BY DEF LinkTypes
  <1>2. \A k \in 1 .. Len(tx_ringbuf[s]) : tx_ringbuf[s][k] \in Packets
    BY <1>1
  <1>3. Len(tx_ringbuf[s]) \in Nat
    BY <1>1
  <1>4. \A k \in 1 .. Len(tx_ringbuf[s]) : tx_ringbuf[s][k].frame \in Numbered
    BY <1>2 DEF Packets
  <1> QED BY <1>3, <1>4 DEF Held

\* What is held after a step of the senders
LEMMA HeldAfter ==
    ASSUME LinkTypes, LinkTypes', SendersStep, NEW s \in Senders, NEW f \in Held(s)'
    PROVE  f \in Held(s) \/ IsNext(s, f)
  <1>1. CASE \E k \in 1 .. Len(tx_ringbuf'[s]) : f = tx_ringbuf'[s][k].frame
    <2>1. PICK k \in 1 .. Len(tx_ringbuf'[s]) : f = tx_ringbuf'[s][k].frame
      BY <1>1
    <2>2. PICK d \in Nat : QueueStep(s, d)
      BY DEF SendersStep
    <2> QED BY <2>1, <2>2, HeldFrames DEF QueueStep
  <1>2. CASE f \in Numbered /\ f.sender = s /\ \E i \in 1 .. Len(input_ringbuf') :
                                                   input_ringbuf'[i] = f
    <2>1. PICK i \in 1 .. Len(input_ringbuf') : input_ringbuf'[i] = f
      BY <1>2
    <2>2. Len(input_ringbuf) \in Nat /\ Len(input_ringbuf') \in Nat
      BY DEF LinkTypes
    <2>3. \/ i \in 1 .. Len(input_ringbuf) /\ f = input_ringbuf[i]
          \/ Len(tx_ringbuf[s]) > 0 /\ f = tx_ringbuf[s][1].frame
      BY <1>2, <2>1, <2>2 DEF SendersStep, RingStep
    <2>4. Len(tx_ringbuf[s]) > 0 => 1 \in 1 .. Len(tx_ringbuf[s])
      BY HeldFrames
    <2> QED BY <1>2, <2>3, <2>4, HeldFrames
  <1>3. CASE f \in Numbered /\ f = last'[s].frame
    BY <1>3, HeldFrames DEF SendersStep
  <1> QED BY <1>1, <1>2, <1>3 DEF Held

\* The next frame of a sender comes after all that it has numbered
LEMMA NextIsLast ==
    ASSUME Counted, NEW s \in Senders, NEW f \in Numbered, NEW g, f.sender = s, Given(f), IsNext(s, g)
    PROVE  Upto(f, g)
  <1>1. f.boot \in Nat /\ f.nth \in Nat /\ boot[s] \in Nat /\ numbers[s] \in Nat
    BY FrameKinds DEF Counted
  <1> QED BY <1>1 DEF Given, IsNext, Upto

LEMMA SendersKeepOwn ==
    ASSUME LinkTypes, LinkTypes', Counted, Counted', OwnFrames, SendersStep
    PROVE  OwnFrames'
  <1> SUFFICES ASSUME NEW s \in Senders
               PROVE  /\ \A f \in Held(s)' : f.sender = s /\ Given(f)'
                      /\ \A k \in 1 .. Len(tx_ringbuf'[s]) : tx_ringbuf'[s][k].frame.boot = boot'[s]
    BY DEF OwnFrames
  <1>1. /\ boot[s] \in Nat /\ numbers[s] \in Nat /\ boot'[s] \in Nat /\ numbers'[s] \in Nat
    BY DEF Counted
  <1>2. NumberStep(s)
    BY DEF SendersStep
  <1>3. ASSUME NEW f \in Held(s)' PROVE f.sender = s /\ Given(f)'
    <2>1. CASE f \in Held(s)
      <3>1. f \in Numbered /\ f.sender = s /\ Given(f)
        BY <2>1, HeldFrames DEF OwnFrames
      <3>2. f.boot \in Nat /\ f.nth \in Nat
        BY <3>1, FrameKinds
      <3> QED BY <1>1, <1>2, <3>1, <3>2 DEF Given, NumberStep
    <2>2. CASE IsNext(s, f)
      BY <1>1, <2>2 DEF IsNext, Given
    <2> QED BY <1>3, <2>1, <2>2, HeldAfter
  <1>4. ASSUME NEW k \in 1 .. Len(tx_ringbuf'[s]) PROVE tx_ringbuf'[s][k].frame.boot = boot'[s]
    <2>1. boot'[s] = boot[s]
      BY <1>1, <1>2 DEF NumberStep
    <2>2. PICK d \in Nat : QueueStep(s, d)
      BY DEF SendersStep
    <2> QED BY <2>1, <2>2 DEF QueueStep, IsNext, OwnFrames
  <1> QED BY <1>3, <1>4

\* A frame that s had numbered before, and a place of its queue
LEMMA QueueKeepsOrder ==
    ASSUME LinkTypes, Counted, NEW s \in Senders, NEW d \in Nat, QueueStep(s, d),
           NEW f \in Numbered, f.sender = s, Given(f),
           NEW k \in 1 .. Len(tx_ringbuf'[s]),
           k + d \in 1 .. Len(tx_ringbuf[s]) => Upto(f, tx_ringbuf[s][k + d].frame)
    PROVE  Upto(f, tx_ringbuf'[s][k].frame)
  BY NextIsLast DEF QueueStep

LEMMA SendersKeepOrder ==
    ASSUME LinkTypes, LinkTypes', Counted, OwnFrames, InOrder, SendersStep
    PROVE  InOrder'
  <1> DEFINE ring == input_ringbuf
             n == Len(input_ringbuf)
  <1>1. n \in Nat /\ Len(ring') \in Nat
    BY DEF LinkTypes
  <1>2. \A s \in Senders : last'[s].frame = last[s].frame
    BY DEF SendersStep
  <1>3. BagToSet(delivered)' = BagToSet(delivered) /\ \A f \in BagToSet(delivered) : f.sender \in Senders
    BY FrameKinds DEF SendersStep, LinkTypes
  \* Where the frames of the ring come from
  <1>4. ASSUME NEW i \in 1 .. Len(ring')
        PROVE  \/ i \in 1 .. n /\ ring'[i] = ring[i]
               \/ /\ i = n + 1
                  /\ ring'[i] \in Numbered => /\ Len(tx_ringbuf[ring'[i].sender]) > 0
                                              /\ ring'[i] = tx_ringbuf[ring'[i].sender][1].frame
    BY <1>1 DEF SendersStep, RingStep
  <1>5. ASSUME NEW s \in Senders, NEW f \in Held(s), NEW d \in Nat, QueueStep(s, d),
               NEW k \in 1 .. Len(tx_ringbuf'[s]),
               k + d \in 1 .. Len(tx_ringbuf[s]) => Upto(f, tx_ringbuf[s][k + d].frame)
        PROVE  Upto(f, tx_ringbuf'[s][k].frame)
    <2>1. f \in Numbered /\ f.sender = s /\ Given(f)
      BY HeldFrames DEF OwnFrames
    <2> QED BY <1>5, <2>1, QueueKeepsOrder
  <1>6. \A f \in BagToSet(delivered)' :
          last'[f.sender].frame \in Numbered /\ Upto(f, last'[f.sender].frame)
    BY <1>2, <1>3 DEF InOrder
  <1>7. ASSUME NEW s \in Senders, NEW i \in 1 .. Len(ring'),
               last'[s].frame \in Numbered, ring'[i] \in Numbered, ring'[i].sender = s
        PROVE  Upto(last'[s].frame, ring'[i])
    <2>1. CASE i \in 1 .. n /\ ring'[i] = ring[i]
      BY <1>2, <1>7, <2>1 DEF InOrder
    <2>2. CASE Len(tx_ringbuf[s]) > 0 /\ ring'[i] = tx_ringbuf[s][1].frame
      <3>1. 1 \in 1 .. Len(tx_ringbuf[s])
        BY <2>2, HeldFrames
      <3> QED BY <1>2, <1>7, <2>2, <3>1 DEF InOrder
    <2> QED BY <1>4, <1>7, <2>1, <2>2
  <1>8. ASSUME NEW s \in Senders, last'[s].frame \in Numbered,
               NEW k \in 1 .. Len(tx_ringbuf'[s])
        PROVE  Upto(last'[s].frame, tx_ringbuf'[s][k].frame)
    <2>1. last[s].frame \in Held(s)
      BY <1>2, <1>8, HeldFrames
    <2>2. PICK d \in Nat : QueueStep(s, d)
      BY DEF SendersStep
    <2>3. k + d \in 1 .. Len(tx_ringbuf[s]) => Upto(last[s].frame, tx_ringbuf[s][k + d].frame)
      BY <1>2, <1>8 DEF InOrder
    <2> QED BY <1>2, <1>5, <2>1, <2>2, <2>3
  <1>9. ASSUME NEW i \in 1 .. Len(ring'), NEW j \in 1 .. Len(ring'), i < j,
               ring'[i] \in Numbered, ring'[j] \in Numbered, ring'[i].sender = ring'[j].sender
        PROVE  Upto(ring'[i], ring'[j])
    <2>1. i \in 1 .. n /\ ring'[i] = ring[i]
      <3>1. i # n + 1
        BY <1>1, <1>4, <1>9
      <3> QED BY <1>4, <3>1
    <2>2. CASE j \in 1 .. n /\ ring'[j] = ring[j]
      BY <1>9, <2>1, <2>2 DEF InOrder
    <2>3. CASE Len(tx_ringbuf[ring'[j].sender]) > 0 /\ ring'[j] = tx_ringbuf[ring'[j].sender][1].frame
      <3>1. PICK s \in Senders : s = ring'[j].sender
        BY <1>9, FrameKinds
      <3>2. 1 \in 1 .. Len(tx_ringbuf[s])
        BY <2>3, <3>1, HeldFrames
      <3>3. Upto(ring[i], tx_ringbuf[s][1].frame)
        BY <1>9, <2>1, <3>1, <3>2 DEF InOrder
      <3> QED BY <2>1, <2>3, <3>1, <3>3
    <2> QED BY <1>4, <1>9, <2>2, <2>3
  <1>10. ASSUME NEW s \in Senders, NEW i \in 1 .. Len(ring'), ring'[i] \in Numbered,
                ring'[i].sender = s, NEW k \in 1 .. Len(tx_ringbuf'[s])
         PROVE  Upto(ring'[i], tx_ringbuf'[s][k].frame)
    <2>1. PICK d \in Nat : QueueStep(s, d)
      BY DEF SendersStep
    <2>2. CASE i \in 1 .. n /\ ring'[i] = ring[i]
      <3>1. ring[i] \in Held(s)
        BY <1>10, <2>2, HeldFrames
      <3>2. k + d \in 1 .. Len(tx_ringbuf[s]) => Upto(ring[i], tx_ringbuf[s][k + d].frame)
        BY <1>10, <2>2 DEF InOrder
      <3> QED BY <1>5, <2>1, <2>2, <3>1, <3>2
    <2>3. CASE Len(tx_ringbuf[s]) > 0 /\ ring'[i] = tx_ringbuf[s][1].frame
      <3>1. 1 \in 1 .. Len(tx_ringbuf[s])
        BY <2>3, HeldFrames
      <3>2. tx_ringbuf[s][1].frame \in Held(s) /\ tx_ringbuf[s][1].frame \in Numbered
        BY <3>1, HeldFrames
      <3>3. k + d = 1 \/ k + d > 1
        OBVIOUS
      <3>4. k + d \in 1 .. Len(tx_ringbuf[s]) =>
              Upto(tx_ringbuf[s][1].frame, tx_ringbuf[s][k + d].frame)
        BY <3>1, <3>2, <3>3, UptoIsOrder DEF InOrder
      <3> QED BY <1>5, <2>1, <2>3, <3>2, <3>4
    <2> QED BY <1>4, <1>10, <2>2, <2>3
  <1>11. ASSUME NEW s \in Senders, NEW j \in 1 .. Len(tx_ringbuf'[s]),
                NEW k \in 1 .. Len(tx_ringbuf'[s]), j < k
         PROVE  Upto(tx_ringbuf'[s][j].frame, tx_ringbuf'[s][k].frame)
    <2>1. PICK d \in Nat : QueueStep(s, d)
      BY DEF SendersStep
    <2>2. Len(tx_ringbuf[s]) \in Nat /\ j \in Nat \ {0} /\ k \in Nat \ {0}
      BY HeldFrames
    <2>3. j + d \in 1 .. Len(tx_ringbuf[s]) /\ tx_ringbuf'[s][j].frame = tx_ringbuf[s][j + d].frame
      <3>1. k + d \in 1 .. Len(tx_ringbuf[s]) \/ k + d = Len(tx_ringbuf[s]) + 1
        BY <2>1 DEF QueueStep
      <3>2. j + d # Len(tx_ringbuf[s]) + 1
        BY <1>11, <2>2, <3>1
      <3> QED BY <2>1, <3>2 DEF QueueStep
    <2>4. tx_ringbuf[s][j + d].frame \in Held(s)
      BY <2>3, HeldFrames
    <2>5. k + d \in 1 .. Len(tx_ringbuf[s]) =>
            Upto(tx_ringbuf[s][j + d].frame, tx_ringbuf[s][k + d].frame)
      <3>1. j + d < k + d
        BY <1>11, <2>2
      <3> QED BY <2>3, <3>1 DEF InOrder
    <2> QED BY <1>5, <2>1, <2>3, <2>4, <2>5
  <1> QED BY <1>6, <1>7, <1>8, <1>9, <1>10, <1>11 DEF InOrder

\* Frames of the first round have the numbers that follow from the first one
LEMMA NumberFollows ==
    ASSUME NEW q \in 0 .. MaxSeqno, NEW n \in Nat, n + 1 <= MaxSeqno
    PROVE  NextSeqno(NthSeqno(q, n)) = NthSeqno(q, n + 1)
  BY Constants DEF NextSeqno, NthSeqno

LEMMA SendersKeepNumbers ==
    ASSUME LinkTypes, LinkTypes', Counted, Counted', FirstNumbers, SendersStep
    PROVE  FirstNumbers'
  <1> SUFFICES ASSUME NEW s \in Senders PROVE \E q \in 0 .. MaxSeqno : NumberedFrom(s, q)'
    BY DEF FirstNumbers
  <1>1. PICK q \in 0 .. MaxSeqno : NumberedFrom(s, q)
    BY DEF FirstNumbers
  <1>2. /\ boot[s] \in Nat /\ numbers[s] \in Nat /\ boot'[s] \in Nat /\ numbers'[s] \in Nat
    BY DEF Counted
  <1>3. boot'[s] = 0 /\ numbers'[s] <= MaxSeqno =>
           tsch_packet_seqno'[s] = NthSeqno(q, numbers'[s])
    <2>1. boot[s] = 0 /\ numbers[s] <= MaxSeqno =>
            tsch_packet_seqno[s] = NthSeqno(q, numbers[s])
      BY <1>1 DEF NumberedFrom
    <2>2. NumberStep(s)
      BY DEF SendersStep
    <2>3. CASE numbers'[s] = numbers[s] + 1 /\ boot'[s] = boot[s]
                 /\ tsch_packet_seqno'[s] = NextSeqno(tsch_packet_seqno[s])
      <3>1. numbers'[s] <= MaxSeqno => numbers[s] <= MaxSeqno /\ numbers[s] + 1 <= MaxSeqno
        BY <1>2, <2>3, Constants
      <3> QED BY <1>2, <2>1, <2>3, <3>1, NumberFollows
    <2> QED BY <1>2, <2>1, <2>2, <2>3 DEF NumberStep
  <1>4. ASSUME NEW f \in Held(s)' PROVE FirstRound(q, f)
    <2>1. CASE f \in Held(s)
      BY <1>1, <2>1 DEF NumberedFrom
    <2>2. CASE IsNext(s, f)
      BY <1>3, <2>2 DEF IsNext, FirstRound
    <2> QED BY <1>4, <2>1, <2>2, HeldAfter
  <1> QED BY <1>3, <1>4 DEF NumberedFrom

-----------------------------------------------------------------------------
(* The senders' actions *)

SenderInv == LinkTypes /\ Counted /\ HistoryIsLast /\ OwnFrames /\ InOrder /\ FirstNumbers
               /\ LastDelivered

\* A step of the senders that keeps the types keeps the rest
LEMMA SendersKeep ==
    ASSUME IInv, SendersStep, LinkTypes', Counted',
           UNCHANGED <<received_seqnos, last>>
    PROVE  SenderInv'
  <1> USE DEF IInv
  <1>1. OwnFrames' /\ InOrder' /\ FirstNumbers'
    BY SendersKeepOwn, SendersKeepOrder, SendersKeepNumbers
  <1>2. LastDelivered'
    BY DEF LastDelivered, SendersStep
  <1>3. HistoryIsLast'
    BY DEF HistoryIsLast
  <1> QED BY <1>1, <1>2, <1>3 DEF SenderInv

LEMMA SameQueue ==
    ASSUME NEW s \in Senders, tx_ringbuf'[s] = tx_ringbuf[s]
    PROVE  \E d \in Nat : QueueStep(s, d)
  <1>1. QueueStep(s, 0)
    BY DEF QueueStep
  <1> QED BY <1>1

LEMMA EmptyQueue ==
    ASSUME NEW s \in Senders, tx_ringbuf'[s] = << >>
    PROVE  \E d \in Nat : QueueStep(s, d)
  <1>1. QueueStep(s, 0)
    BY DEF QueueStep
  <1> QED BY <1>1

LEMMA AfterSend ==
    ASSUME IInv, NEW s \in Senders, send_packet(s)
    PROVE  IInv'
  <1> USE DEF IInv
  <1> DEFINE f == Frame(s, boot[s], numbers[s] + 1, NextSeqno(tsch_packet_seqno[s]))
             p == [frame |-> f, transmissions |-> 0]
  <1>1. /\ boot[s] \in Nat /\ numbers[s] \in Nat /\ sends \in Nat /\ sends < MaxSends
        /\ numbers[s] <= sends /\ boot[s] <= reboots /\ reboots \in 0 .. MaxReboots
        /\ tsch_packet_seqno[s] \in 0 .. MaxSeqno
    BY DEF Counted, LinkTypes, send_packet
  <1>2. NextSeqno(tsch_packet_seqno[s]) \in 1 .. MaxSeqno
    BY <1>1, Constants DEF NextSeqno
  <1>3. f \in Numbered
    BY <1>1, <1>2, Constants DEF Numbered, Frame
  <1>4. p \in Packets
    BY <1>3, Constants DEF Packets
  <1>5. /\ sends' = sends + 1 /\ numbers' = [numbers EXCEPT ![s] = @ + 1]
        /\ tsch_packet_seqno' = [tsch_packet_seqno EXCEPT ![s] = NextSeqno(@)]
        /\ Len(tx_ringbuf[s]) < QueueSize
        /\ UNCHANGED <<boot, input_ringbuf, received_seqnos, acked, unsent, delivered, last, reboots>>
    BY DEF send_packet
  <1>6. numbers'[s] = numbers[s] + 1 /\ tsch_packet_seqno'[s] = NextSeqno(tsch_packet_seqno[s])
    BY <1>5 DEF Counted, LinkTypes
  <1>7. tx_ringbuf' = [tx_ringbuf EXCEPT ![s] = Append(@, p)]
    BY <1>6 DEF send_packet
  <1>8. f.sender = s /\ f.boot = boot[s] /\ f.nth = numbers[s] + 1
          /\ f.seqno = NextSeqno(tsch_packet_seqno[s]) /\ p.frame = f
    BY DEF Frame
  <1> HIDE DEF f, p
  <1>9. tx_ringbuf[s] \in Seq(Packets) /\ tx_ringbuf \in [Senders -> Seq(Packets)]
    BY DEF LinkTypes
  <1>10. /\ tx_ringbuf'[s] = Append(tx_ringbuf[s], p)
         /\ \A r \in Senders \ {s} : tx_ringbuf'[r] = tx_ringbuf[r]
    BY <1>7, <1>9
  <1>11. /\ tx_ringbuf'[s] \in Seq(Packets) /\ Len(tx_ringbuf'[s]) = Len(tx_ringbuf[s]) + 1
         /\ \A k \in 1 .. Len(tx_ringbuf[s]) : tx_ringbuf'[s][k] = tx_ringbuf[s][k]
         /\ tx_ringbuf'[s][Len(tx_ringbuf[s]) + 1] = p
    BY <1>4, <1>9, <1>10, AppendProperties
  <1>12. LinkTypes'
    <2>1. tx_ringbuf' \in [Senders -> Seq(Packets)]
      BY <1>4, <1>7, <1>9
    <2>2. tsch_packet_seqno' \in [Senders -> 0 .. MaxSeqno]
      BY <1>2, <1>5, Constants DEF LinkTypes
    <2>3. Len(tx_ringbuf'[s]) <= QueueSize
      BY <1>5, <1>9, <1>11, Constants
    <2> QED BY <1>5, <1>10, <2>1, <2>2, <2>3 DEF LinkTypes
  <1>13. Counted'
    BY <1>1, <1>5, Constants DEF Counted
  <1>14. IsNext(s, p.frame)
    BY <1>3, <1>5, <1>6, <1>8 DEF IsNext
  <1>15. QueueStep(s, 0)
    <2>1. Len(tx_ringbuf[s]) \in Nat
      BY <1>9
    <2>2. \A k \in 1 .. Len(tx_ringbuf'[s]) : k \in 1 .. Len(tx_ringbuf[s]) \/ k = Len(tx_ringbuf[s]) + 1
      BY <2>1, <1>11
    <2> QED BY <1>11, <1>14, <2>1, <2>2 DEF QueueStep
  <1>16. \A r \in Senders : (\E d \in Nat : QueueStep(r, d)) /\ NumberStep(r)
    <2>1. \A r \in Senders \ {s} : NumberStep(r)
      BY <1>5 DEF NumberStep, Counted, LinkTypes
    <2>2. NumberStep(s)
      BY <1>5, <1>6 DEF NumberStep
    <2> QED BY <1>10, <1>15, <2>1, <2>2, SameQueue
  <1>17. SendersStep
    BY <1>5, <1>16 DEF SendersStep, RingStep
  <1>18. SenderInv'
    BY <1>5, <1>12, <1>13, <1>17, SendersKeep
  <1>19. OkMeansDelivered'
    BY <1>5 DEF OkMeansDelivered, Received
  <1> QED BY <1>18, <1>19 DEF SenderInv

LEMMA AfterSendElsewhere ==
    ASSUME IInv, NEW s \in Senders, SendElsewhere(s)
    PROVE  IInv'
  <1> USE DEF IInv
  <1>1. /\ sends < MaxSends /\ sends' = sends + 1
        /\ numbers' = [numbers EXCEPT ![s] = @ + 1]
        /\ tsch_packet_seqno' = [tsch_packet_seqno EXCEPT ![s] = NextSeqno(@)]
        /\ UNCHANGED <<tx_ringbuf, boot, input_ringbuf, received_seqnos, acked, unsent, delivered, last,
                       reboots>>
    BY DEF SendElsewhere
  <1>2. tsch_packet_seqno[s] \in 0 .. MaxSeqno
    BY DEF LinkTypes
  <1>3. NextSeqno(tsch_packet_seqno[s]) \in 1 .. MaxSeqno
    BY <1>2, Constants DEF NextSeqno
  <1>4. tsch_packet_seqno' \in [Senders -> 0 .. MaxSeqno]
    BY <1>1, <1>3, Constants DEF LinkTypes
  <1>5. LinkTypes'
    BY <1>1, <1>4 DEF LinkTypes
  <1>6. Counted'
    BY <1>1, Constants DEF Counted
  <1>7. \A r \in Senders : NumberStep(r)
    BY <1>1 DEF NumberStep, Counted, LinkTypes
  <1>8. SendersStep
    BY <1>1, <1>7, SameQueue DEF SendersStep, RingStep
  <1>9. SenderInv'
    BY <1>1, <1>5, <1>6, <1>8, SendersKeep
  <1>10. OkMeansDelivered'
    BY <1>1 DEF OkMeansDelivered, Received
  <1> QED BY <1>9, <1>10 DEF SenderInv

\* A queue is flushed, by a sender that goes on or by one that restarts
LEMMA AfterFlush ==
    ASSUME IInv, NEW s \in Senders, Flush(s) \/ Reboot(s)
    PROVE  IInv'
  <1> USE DEF IInv
  <1>1. /\ tx_ringbuf' = [tx_ringbuf EXCEPT ![s] = << >>]
        /\ UNCHANGED <<input_ringbuf, received_seqnos, acked, unsent, delivered, last, sends>>
    BY DEF Flush, Reboot
  <1>2. /\ tx_ringbuf'[s] = << >> /\ \A r \in Senders \ {s} : tx_ringbuf'[r] = tx_ringbuf[r]
        /\ tx_ringbuf' \in [Senders -> Seq(Packets)]
    BY <1>1 DEF LinkTypes
  <1>3. Len(tx_ringbuf'[s]) = 0
    BY <1>2
  <1>4. tsch_packet_seqno' \in [Senders -> 0 .. MaxSeqno]
    <2>1. CASE Flush(s)
      BY <2>1 DEF Flush, LinkTypes
    <2>2. CASE Reboot(s)
      <3>1. PICK q \in 0 .. MaxSeqno : tsch_packet_seqno' = [tsch_packet_seqno EXCEPT ![s] = q]
        BY <2>2 DEF Reboot
      <3> QED BY <3>1 DEF LinkTypes
    <2> QED BY <2>1, <2>2
  <1>5. LinkTypes'
    <2>1. \A r \in Senders : Len(tx_ringbuf'[r]) <= QueueSize
      <3>1. \A r \in Senders : r # s => tx_ringbuf'[r] = tx_ringbuf[r]
        BY <1>2 DEF LinkTypes
      <3>2. \A r \in Senders : Len(tx_ringbuf[r]) <= QueueSize
        BY DEF LinkTypes
      <3> QED BY <1>3, <3>1, <3>2, Constants
    <2> QED BY <1>1, <1>2, <1>4, <2>1 DEF LinkTypes
  <1>6. Counted'
    <2>1. CASE Flush(s)
      BY <2>1 DEF Flush, Counted
    <2>2. CASE Reboot(s)
      BY <2>2, Constants DEF Reboot, Counted
    <2> QED BY <2>1, <2>2
  <1>7. \A r \in Senders : NumberStep(r)
    <2>1. CASE Flush(s)
      BY <2>1 DEF Flush, NumberStep
    <2>2. CASE Reboot(s)
      <3>1. PICK q \in 0 .. MaxSeqno : tsch_packet_seqno' = [tsch_packet_seqno EXCEPT ![s] = q]
        BY <2>2 DEF Reboot
      <3>2. boot' = [boot EXCEPT ![s] = @ + 1] /\ numbers' = [numbers EXCEPT ![s] = 0]
        BY <2>2 DEF Reboot
      <3>3. \A r \in Senders \ {s} : NumberStep(r)
        BY <3>1, <3>2 DEF NumberStep, Counted, LinkTypes
      <3>4. boot'[s] = boot[s] + 1 /\ boot[s] \in Nat
        BY <3>2 DEF Counted
      <3> QED BY <1>3, <3>3, <3>4 DEF NumberStep
    <2> QED BY <2>1, <2>2
  <1>8. SendersStep
    <2>1. \A r \in Senders : \E d \in Nat : QueueStep(r, d)
      BY <1>2, SameQueue, EmptyQueue
    <2> QED BY <1>1, <1>7, <2>1 DEF SendersStep, RingStep
  <1>9. SenderInv'
    BY <1>1, <1>5, <1>6, <1>8, SendersKeep
  <1>10. OkMeansDelivered'
    BY <1>1 DEF OkMeansDelivered, Received
  <1> QED BY <1>9, <1>10 DEF SenderInv

-----------------------------------------------------------------------------
(* A timeslot *)

\* The queue after a transmission: the first packet stays, or is gone
LEMMA AfterTransmission ==
    ASSUME NEW q \in Seq(Packets), q # << >>, NEW t,
           t = QueueAfter(q, TRUE) \/ t = QueueAfter(q, FALSE)
    PROVE  /\ t \in Seq(Packets) /\ Len(t) <= Len(q)
           /\ \/ /\ Len(t) = Len(q)
                 /\ \A k \in 1 .. Len(t) : t[k].frame = q[k].frame
              \/ /\ Len(t) = Len(q) - 1
                 /\ \A k \in 1 .. Len(t) : t[k] = q[k + 1]
  <1>1. /\ Head(q) = q[1] /\ Len(q) \in Nat /\ Len(q) > 0
        /\ Tail(q) \in Seq(Packets) /\ Len(Tail(q)) = Len(q) - 1
        /\ \A k \in 1 .. Len(Tail(q)) : Tail(q)[k] = q[k + 1]
    BY TailIndex
  <1>2. CASE t = Tail(q)
    <2>1. t = Tail(q)
      BY <1>2
    <2>2. t \in Seq(Packets) /\ Len(t) = Len(q) - 1 /\ \A k \in 1 .. Len(t) : t[k] = q[k + 1]
      BY <1>1, <2>1, Zenon
    <2>3. Len(t) <= Len(q)
      BY <1>1, <2>2
    <2> QED BY <2>2, <2>3, Zenon
  <1>3. CASE t = [q EXCEPT ![1].transmissions = @ + 1]
               /\ ~(Head(q).transmissions + 1 >= MaxTransmissions)
    <2>1. t = [q EXCEPT ![1].transmissions = @ + 1]
      BY <1>3
    <2>2. q[1] \in Packets /\ 1 \in 1 .. Len(q)
      BY <1>1
    <2>3. q[1].transmissions \in 0 .. MaxTransmissions - 1
            /\ ~(q[1].transmissions + 1 >= MaxTransmissions)
      BY <1>1, <1>3, <2>2 DEF Packets
    <2> DEFINE p == [q[1] EXCEPT !.transmissions = @ + 1]
    <2>4. p \in Packets /\ p.frame = q[1].frame
      <3>1. q[1].transmissions + 1 \in 0 .. MaxTransmissions - 1
        BY <2>3, Constants
      <3> QED BY <2>2, <3>1 DEF Packets
    <2>5. t = [q EXCEPT ![1] = p]
      BY <2>1
    <2> HIDE DEF p
    <2>6. t \in Seq(Packets) /\ Len(t) = Len(q) /\ t[1] = p
            /\ \A k \in 1 .. Len(q) : k # 1 => t[k] = q[k]
      BY <2>2, <2>4, <2>5, ExceptSeq
    <2>7. \A k \in 1 .. Len(t) : t[k].frame = q[k].frame
      BY <2>4, <2>6
    <2>8. Len(t) <= Len(q)
      BY <1>1, <2>6
    <2> QED BY <2>6, <2>7, <2>8, Zenon
  <1> QED BY <1>2, <1>3 DEF QueueAfter

\* A queue whose first packet is done or is tried again moves by at most one
LEMMA TransmissionStep ==
    ASSUME LinkTypes, NEW s \in Senders, tx_ringbuf[s] # << >>,
           \/ tx_ringbuf'[s] = QueueAfter(tx_ringbuf[s], TRUE)
           \/ tx_ringbuf'[s] = QueueAfter(tx_ringbuf[s], FALSE)
    PROVE  /\ tx_ringbuf'[s] \in Seq(Packets) /\ Len(tx_ringbuf'[s]) <= QueueSize
           /\ \E d \in Nat : QueueStep(s, d)
  <1>0. tx_ringbuf[s] \in Seq(Packets) /\ Len(tx_ringbuf[s]) \in Nat /\ Len(tx_ringbuf[s]) <= QueueSize
    BY DEF LinkTypes
  <1>1. PICK t : t = tx_ringbuf'[s]
    OBVIOUS
  <1>4. /\ t \in Seq(Packets) /\ Len(t) <= Len(tx_ringbuf[s])
        /\ \/ /\ Len(t) = Len(tx_ringbuf[s])
              /\ \A k \in 1 .. Len(t) : t[k].frame = tx_ringbuf[s][k].frame
           \/ /\ Len(t) = Len(tx_ringbuf[s]) - 1
              /\ \A k \in 1 .. Len(t) : t[k] = tx_ringbuf[s][k + 1]
    <2>1. PICK q \in Seq(Packets) : q = tx_ringbuf[s]
      BY <1>0
    <2>2. q # << >>
      BY <2>1
    <2>3. t = QueueAfter(q, TRUE) \/ t = QueueAfter(q, FALSE)
      BY <1>1, <2>1
    <2>4. /\ t \in Seq(Packets) /\ Len(t) <= Len(q)
          /\ \/ /\ Len(t) = Len(q)
                /\ \A k \in 1 .. Len(t) : t[k].frame = q[k].frame
             \/ /\ Len(t) = Len(q) - 1
                /\ \A k \in 1 .. Len(t) : t[k] = q[k + 1]
      BY <2>2, <2>3, AfterTransmission
    <2> QED BY <2>1, <2>4, Zenon
  <1>5. Len(t) \in Nat
    BY <1>4
  <1>6. CASE /\ Len(t) = Len(tx_ringbuf[s])
             /\ \A k \in 1 .. Len(t) : t[k].frame = tx_ringbuf[s][k].frame
    <2>1. QueueStep(s, 0)
      BY <1>0, <1>1, <1>6 DEF QueueStep
    <2> QED BY <1>0, <1>1, <1>4, <1>5, <2>1, Constants
  <1>7. CASE /\ Len(t) = Len(tx_ringbuf[s]) - 1
             /\ \A k \in 1 .. Len(t) : t[k] = tx_ringbuf[s][k + 1]
    <2>1. QueueStep(s, 1)
      BY <1>0, <1>1, <1>7 DEF QueueStep
    <2> QED BY <1>0, <1>1, <1>4, <1>5, <2>1, Constants
  <1> QED BY <1>4, <1>6, <1>7

\* A slot that sends nothing: only what is reported is new
LEMMA AfterUnprepared ==
    ASSUME IInv, NEW s \in Senders, NEW ok \in BOOLEAN, Unprepared(s, ok)
    PROVE  IInv'
  <1> USE DEF IInv
  <1>1. /\ tx_ringbuf[s] # << >>
        /\ tx_ringbuf' = [tx_ringbuf EXCEPT ![s] = QueueAfter(tx_ringbuf[s], ok)]
        /\ acked' = acked \/ acked' = acked \cup {Head(tx_ringbuf[s]).frame}
        /\ \A f \in acked' : f \in acked \/ f \in unsent'
        /\ unsent \subseteq unsent'
        /\ UNCHANGED <<tsch_packet_seqno, numbers, boot, input_ringbuf, received_seqnos,
                       delivered, last, sends, reboots>>
    BY DEF Unprepared
  <1>2. /\ \A r \in Senders \ {s} : tx_ringbuf'[r] = tx_ringbuf[r]
        /\ tx_ringbuf'[s] = QueueAfter(tx_ringbuf[s], ok)
        /\ DOMAIN tx_ringbuf' = Senders /\ tx_ringbuf' = [r \in Senders |-> tx_ringbuf'[r]]
    BY <1>1 DEF LinkTypes
  <1>3. ASSUME NEW r \in Senders
        PROVE  /\ tx_ringbuf'[r] \in Seq(Packets) /\ Len(tx_ringbuf'[r]) <= QueueSize
               /\ \E d \in Nat : QueueStep(r, d)
    <2>1. CASE r = s
      <3>1. \/ tx_ringbuf'[s] = QueueAfter(tx_ringbuf[s], TRUE)
            \/ tx_ringbuf'[s] = QueueAfter(tx_ringbuf[s], FALSE)
        BY <1>2
      <3> QED BY <1>1, <2>1, <3>1, TransmissionStep
    <2>2. CASE r # s
      <3>1. tx_ringbuf'[r] = tx_ringbuf[r]
        BY <1>2, <2>2
      <3> QED BY <3>1, SameQueue DEF LinkTypes
    <2> QED BY <2>1, <2>2
  <1>4. tx_ringbuf' \in [Senders -> Seq(Packets)]
    BY <1>2, <1>3
  <1>5. Head(tx_ringbuf[s]).frame \in Numbered
    <2>1. tx_ringbuf[s] \in Seq(Packets)
      BY DEF LinkTypes
    <2>2. Head(tx_ringbuf[s]) \in Packets
      BY <1>1, <2>1, TailIndex
    <2> QED BY <2>2 DEF Packets
  <1>6. LinkTypes'
    <2>1. acked' \subseteq Numbered
      BY <1>1, <1>5 DEF LinkTypes
    <2> QED BY <1>1, <1>3, <1>4, <2>1 DEF LinkTypes
  <1>7. Counted'
    BY <1>1 DEF Counted
  <1>8. SendersStep
    BY <1>1, <1>3 DEF SendersStep, NumberStep, RingStep
  <1>9. SenderInv'
    BY <1>1, <1>6, <1>7, <1>8, SendersKeep
  <1>10. OkMeansDelivered'
    BY <1>1 DEF OkMeansDelivered, Received
  <1> QED BY <1>9, <1>10 DEF SenderInv

LEMMA Extended ==
    ASSUME NEW S, NEW s \in Seq(S), NEW u \in Seq(S), Len(u) = 1
    PROVE  /\ s \o u \in Seq(S) /\ Len(s \o u) = Len(s) + 1
           /\ \A i \in 1 .. Len(s) : (s \o u)[i] = s[i]
           /\ (s \o u)[Len(s) + 1] = u[1]
  <1> DEFINE t == s \o u
  <1>1. /\ t \in Seq(S) /\ Len(t) = Len(s) + Len(u)
        /\ \A k \in 1 .. Len(s) + Len(u) : t[k] = IF k <= Len(s) THEN s[k] ELSE u[k - Len(s)]
    BY ConcatProperties
  <1> HIDE DEF t
  <1>2. Len(s) \in Nat
    OBVIOUS
  <1> QED BY <1>1, <1>2 DEF t

LEMMA AfterSlot ==
    ASSUME IInv, NEW unicast \in SUBSET {s \in Senders : tx_ringbuf[s] # << >>},
           NEW heard \in {{}} \cup {{s} : s \in Senders}, NEW reached,
           Slot(unicast, heard, reached)
    PROVE  IInv'
  <1> USE DEF IInv
  <1> DEFINE First(s) == Head(tx_ringbuf[s]).frame
             got == {IF s \in unicast THEN First(s) ELSE BroadcastFrame(s) : s \in heard}
             acks == UNION {create_eack(f) : f \in got}
             ok == {s \in unicast \cap reached :
                       \E ack \in acks : parse_eack(ack, s, First(s).seqno)}
  <1>1. /\ heard # {} => CanListen
        /\ input_ringbuf' = input_ringbuf \o SetToSeq(got)
        /\ tx_ringbuf' = [s \in Senders |-> IF s \in unicast THEN QueueAfter(tx_ringbuf[s], s \in ok)
                                            ELSE tx_ringbuf[s]]
        /\ acked' = acked \cup {First(s) : s \in ok}
        /\ UNCHANGED <<tsch_packet_seqno, numbers, boot, received_seqnos, unsent, delivered, last,
                       sends, reboots>>
    BY DEF Slot
  <1>2. ASSUME NEW s \in unicast
        PROVE  /\ s \in Senders /\ tx_ringbuf[s] \in Seq(Packets) /\ tx_ringbuf[s] # << >>
               /\ First(s) = tx_ringbuf[s][1].frame /\ First(s) \in Numbered
               /\ First(s).sender = s /\ Len(tx_ringbuf[s]) > 0
    <2>1. s \in Senders /\ tx_ringbuf[s] \in Seq(Packets) /\ tx_ringbuf[s] # << >>
      BY DEF LinkTypes
    <2>2. Head(tx_ringbuf[s]) = tx_ringbuf[s][1] /\ Len(tx_ringbuf[s]) > 0 /\ Len(tx_ringbuf[s]) \in Nat
      BY <2>1, TailIndex
    <2>3. 1 \in 1 .. Len(tx_ringbuf[s])
      BY <2>2
    <2>4. tx_ringbuf[s][1].frame \in Held(s) /\ tx_ringbuf[s][1].frame \in Numbered
      BY <2>1, <2>3, HeldFrames
    <2> QED BY <2>1, <2>2, <2>4 DEF OwnFrames
  <1> HIDE DEF ok
  \* The queues
  <1>3. ASSUME NEW s \in Senders
        PROVE  /\ tx_ringbuf'[s] \in Seq(Packets) /\ Len(tx_ringbuf'[s]) <= QueueSize
               /\ \E d \in Nat : QueueStep(s, d)
    <2>0. tx_ringbuf[s] \in Seq(Packets) /\ Len(tx_ringbuf[s]) \in Nat /\ Len(tx_ringbuf[s]) <= QueueSize
      BY DEF LinkTypes
    <2>1. CASE s \notin unicast
      <3>1. tx_ringbuf'[s] = tx_ringbuf[s]
        BY <1>1, <2>1
      <3> QED BY <2>0, <3>1, SameQueue
    <2>2. CASE s \in unicast
      <3>1. \/ tx_ringbuf'[s] = QueueAfter(tx_ringbuf[s], TRUE)
            \/ tx_ringbuf'[s] = QueueAfter(tx_ringbuf[s], FALSE)
        BY <1>1, <2>2 DEF QueueAfter
      <3> QED BY <1>2, <2>2, <3>1, TransmissionStep
    <2> QED BY <2>1, <2>2
  <1>4. tx_ringbuf' \in [Senders -> Seq(Packets)]
    BY <1>1, <1>3
  \* The ring and what is acknowledged
  <1> DEFINE Heard ==
               /\ input_ringbuf' \in Seq(Numbered \cup Broadcasts) /\ Len(input_ringbuf') <= InputSize
               /\ RingStep
               /\ ToSet(input_ringbuf) \subseteq ToSet(input_ringbuf')
               /\ \A f \in acked' : f \in acked \/ (f \in Numbered /\ f \in ToSet(input_ringbuf'))
  <1>5. Heard
    <2>0. /\ input_ringbuf \in Seq(Numbered \cup Broadcasts) /\ Len(input_ringbuf) \in Nat
          /\ Len(input_ringbuf) <= InputSize
      BY DEF LinkTypes
    <2>1. CASE heard = {}
      <3>1. got = {} /\ acks = {}
        BY <2>1
      <3>2. ok = {}
        BY <3>1 DEF ok
      <3>3. acked' = acked
        BY <1>1, <3>2
      <3>4. input_ringbuf' = input_ringbuf
        BY <1>1, <2>0, <3>1, SmallSets, ConcatEmptySeq
      <3> QED BY <2>0, <3>3, <3>4 DEF RingStep
    <2>2. ASSUME NEW h \in Senders, heard = {h}
          PROVE  Heard
      <3> DEFINE g == IF h \in unicast THEN First(h) ELSE BroadcastFrame(h)
      <3>1. got = {g}
        BY <2>2
      <3>2. /\ g \in Numbered \cup Broadcasts /\ g.sender = h
            /\ g \in Numbered => h \in unicast /\ g = First(h)
        <4>1. CASE h \in unicast
          BY <1>2, <4>1
        <4>2. CASE h \notin unicast
          <5>1. BroadcastFrame(h) \in Broadcasts /\ BroadcastFrame(h).sender = h
            BY DEF Broadcasts, BroadcastFrame, Frame
          <5> QED BY <4>2, <5>1, FrameKinds
        <4> QED BY <4>1, <4>2
      <3>3. ASSUME NEW s \in ok PROVE s = h /\ First(s) = g /\ g \in Numbered
        <4>1. PICK ack \in acks : parse_eack(ack, s, First(s).seqno)
          BY DEF ok
        <4>2. ack \in create_eack(g)
          BY <3>1
        <4>3. ack = [dest |-> g.sender, seqno |-> g.seqno]
          BY <4>2 DEF create_eack
        <4>4. s = h
          BY <3>2, <4>1, <4>3 DEF parse_eack
        <4>5. s \in unicast
          BY DEF ok
        <4> QED BY <1>2, <4>4, <4>5
      <3> HIDE DEF g, got
      <3>4. SetToSeq(got) = <<g>>
        BY <3>1, SmallSets
      <3> DEFINE u == <<g>>
                 ring == input_ringbuf \o u
      <3>5. u \in Seq(Numbered \cup Broadcasts) /\ Len(u) = 1 /\ u[1] = g
        BY <3>2
      <3>6. input_ringbuf' = ring
        BY <1>1, <3>4
      <3> HIDE DEF u
      <3>7. /\ ring \in Seq(Numbered \cup Broadcasts) /\ Len(ring) = Len(input_ringbuf) + 1
            /\ \A i \in 1 .. Len(input_ringbuf) : ring[i] = input_ringbuf[i]
            /\ ring[Len(input_ringbuf) + 1] = u[1]
        BY <2>0, <3>5, Extended
      <3> HIDE DEF ring
      <3>8. Len(input_ringbuf') <= InputSize
        BY <1>1, <2>0, <2>2, <3>6, <3>7, Constants DEF CanListen
      <3>9. RingStep
        <4>1. g \in Numbered => Len(tx_ringbuf[g.sender]) > 0 /\ g = tx_ringbuf[g.sender][1].frame
          BY <1>2, <3>2
        <4> QED BY <3>5, <3>6, <3>7, <4>1 DEF RingStep
      <3>10. /\ ToSet(input_ringbuf) \subseteq ToSet(input_ringbuf') /\ g \in ToSet(input_ringbuf')
        <4>1. /\ ToSet(input_ringbuf) = {input_ringbuf[i] : i \in 1 .. Len(input_ringbuf)}
              /\ ToSet(ring) = {ring[i] : i \in 1 .. Len(ring)}
          BY <2>0, <3>7, ElementsOf
        <4>2. /\ \A i \in 1 .. Len(input_ringbuf) : i \in 1 .. Len(ring)
              /\ Len(input_ringbuf) + 1 \in 1 .. Len(ring)
          BY <2>0, <3>7
        <4> QED BY <3>5, <3>6, <3>7, <4>1, <4>2
      <3>11. \A f \in acked' : f \in acked \/ (f = g /\ g \in Numbered)
        BY <1>1, <3>3
      <3> QED BY <3>6, <3>7, <3>8, <3>9, <3>10, <3>11
    <2> QED BY <2>1, <2>2
  <1>6. LinkTypes'
    <2>1. acked' \subseteq Numbered
      BY <1>5 DEF LinkTypes
    <2> QED BY <1>1, <1>3, <1>4, <1>5, <2>1 DEF LinkTypes
  <1>7. Counted'
    BY <1>1 DEF Counted
  <1>8. SendersStep
    BY <1>1, <1>3, <1>5 DEF SendersStep, NumberStep
  <1>9. SenderInv'
    BY <1>1, <1>6, <1>7, <1>8, SendersKeep
  <1>10. OkMeansDelivered'
    BY <1>1, <1>5 DEF OkMeansDelivered, Received
  <1> QED BY <1>9, <1>10 DEF SenderInv

-----------------------------------------------------------------------------
(* The receiver's process *)

LEMMA AfterExpiry ==
    ASSUME IInv, NEW s \in Senders, Expire(s)
    PROVE  IInv'
  <1> USE DEF IInv
  <1>1. UNCHANGED <<senderVars, input_ringbuf, acked, unsent, delivered, sends, reboots>>
    BY DEF Expire
  <1>2. /\ received_seqnos' \in [1 .. MAX_SEQNOS -> Entries] /\ last' \in [Senders -> Memories]
        /\ \A r \in Senders : last'[r].frame = last[r].frame
    BY AfterExpire
  <1>3. LinkTypes'
    BY <1>1, <1>2 DEF LinkTypes, senderVars
  <1>4. Counted'
    BY <1>1 DEF Counted, senderVars
  <1>5. \A r \in Senders : NumberStep(r) /\ tx_ringbuf'[r] = tx_ringbuf[r]
    BY <1>1 DEF NumberStep, senderVars
  <1>6. SendersStep
    BY <1>1, <1>2, <1>5, SameQueue DEF SendersStep, RingStep
  <1>7. OwnFrames' /\ InOrder' /\ FirstNumbers'
    BY <1>3, <1>4, <1>6, SendersKeepOwn, SendersKeepOrder, SendersKeepNumbers
  <1>8. HistoryIsLast'
    BY ExpireKeepsHistory
  <1>9. LastDelivered'
    BY <1>1, <1>2 DEF LastDelivered
  <1>10. OkMeansDelivered'
    BY <1>1 DEF OkMeansDelivered, Received
  <1> QED BY <1>3, <1>4, <1>7, <1>8, <1>9, <1>10

\* The first frame of the ring is dropped, or registered and delivered
Dropped == UNCHANGED <<received_seqnos, delivered, last>>
Registered(f) ==
    /\ f \in Numbered
    /\ last'[f.sender].frame = f
    /\ \A s \in Senders \ {f.sender} : last'[s].frame = last[s].frame
    /\ BagToSet(delivered') = BagToSet(delivered) \cup {f}

ProcessStep ==
    /\ Len(input_ringbuf) > 0 /\ Len(input_ringbuf') = Len(input_ringbuf) - 1
    /\ \A i \in 1 .. Len(input_ringbuf') : input_ringbuf'[i] = input_ringbuf[i + 1]
    /\ Dropped \/ Registered(input_ringbuf[1])
    /\ UNCHANGED senderVars

LEMMA HeldAfterProcess ==
    ASSUME LinkTypes, LinkTypes', ProcessStep, NEW s \in Senders, NEW f \in Held(s)'
    PROVE  f \in Held(s)
  <1>0. Len(input_ringbuf) \in Nat /\ Len(input_ringbuf') \in Nat
    BY DEF LinkTypes
  <1>1. CASE \E k \in 1 .. Len(tx_ringbuf'[s]) : f = tx_ringbuf'[s][k].frame
    BY <1>1 DEF Held, ProcessStep, senderVars
  <1>2. CASE f \in Numbered /\ f.sender = s /\ \E i \in 1 .. Len(input_ringbuf') :
                                                   input_ringbuf'[i] = f
    <2>1. PICK i \in 1 .. Len(input_ringbuf') : input_ringbuf'[i] = f
      BY <1>2
    <2>2. i + 1 \in 1 .. Len(input_ringbuf) /\ input_ringbuf[i + 1] = f
      BY <1>0, <2>1 DEF ProcessStep
    <2> QED BY <1>2, <2>2, HeldFrames
  <1>3. CASE f \in Numbered /\ f = last'[s].frame
    <2>1. 1 \in 1 .. Len(input_ringbuf)
      BY <1>0 DEF ProcessStep
    <2>2. \/ f = last[s].frame
          \/ f = input_ringbuf[1] /\ f.sender = s
      BY <1>3 DEF ProcessStep, Dropped, Registered
    <2> QED BY <1>3, <2>1, <2>2, HeldFrames
  <1> QED BY <1>1, <1>2, <1>3 DEF Held

LEMMA ProcessKeepsFrames ==
    ASSUME LinkTypes, LinkTypes', OwnFrames, FirstNumbers, ProcessStep
    PROVE  OwnFrames' /\ FirstNumbers'
  <1>1. UNCHANGED senderVars
    BY DEF ProcessStep
  <1>2. ASSUME NEW s \in Senders, NEW f \in Held(s)' PROVE f.sender = s /\ Given(f)'
    <2>1. f \in Held(s)
      BY <1>2, HeldAfterProcess
    <2> QED BY <1>1, <2>1 DEF OwnFrames, Given, senderVars
  <1>3. OwnFrames'
    BY <1>1, <1>2 DEF OwnFrames, senderVars
  <1>4. ASSUME NEW s \in Senders PROVE \E q \in 0 .. MaxSeqno : NumberedFrom(s, q)'
    <2>1. PICK q \in 0 .. MaxSeqno : NumberedFrom(s, q)
      BY DEF FirstNumbers
    <2>2. \A f \in Held(s)' : FirstRound(q, f)
      BY <2>1, HeldAfterProcess DEF NumberedFrom
    <2>3. NumberedFrom(s, q)'
      BY <1>1, <2>1, <2>2 DEF NumberedFrom, senderVars
    <2> QED BY <2>3
  <1> QED BY <1>3, <1>4 DEF FirstNumbers

LEMMA ProcessKeepsOrder ==
    ASSUME LinkTypes, LinkTypes', OwnFrames, InOrder, ProcessStep
    PROVE  InOrder'
  <1> DEFINE ring == input_ringbuf
  <1>1. Len(ring) \in Nat /\ Len(ring') \in Nat /\ 1 \in 1 .. Len(ring)
    BY DEF LinkTypes, ProcessStep
  <1>2. ASSUME NEW i \in 1 .. Len(ring')
        PROVE  i + 1 \in 1 .. Len(ring) /\ ring'[i] = ring[i + 1] /\ 1 < i + 1
    BY <1>1 DEF ProcessStep
  <1>3. tx_ringbuf' = tx_ringbuf
    BY DEF ProcessStep, senderVars
  \* What is remembered comes before the rest of the ring and before the queue
  <1>4. ASSUME NEW s \in Senders, last'[s].frame \in Numbered
        PROVE  \/ last'[s].frame = last[s].frame
               \/ last'[s].frame = ring[1] /\ ring[1].sender = s
    BY DEF ProcessStep, Dropped, Registered
  <1>5. ASSUME NEW s \in Senders, NEW i \in 1 .. Len(ring'),
               last'[s].frame \in Numbered, ring'[i] \in Numbered, ring'[i].sender = s
        PROVE  Upto(last'[s].frame, ring'[i])
    <2>1. CASE last'[s].frame = last[s].frame
      BY <1>2, <1>5, <2>1 DEF InOrder
    <2>2. CASE last'[s].frame = ring[1] /\ ring[1].sender = s
      <3>1. ring[1] \in Numbered /\ ring[i + 1] \in Numbered /\ ring[1].sender = ring[i + 1].sender
        BY <1>2, <1>5, <2>2
      <3>2. Upto(ring[1], ring[i + 1])
        BY <1>1, <1>2, <3>1 DEF InOrder
      <3> QED BY <1>2, <2>2, <3>2
    <2> QED BY <1>4, <1>5, <2>1, <2>2
  <1>6. ASSUME NEW s \in Senders, last'[s].frame \in Numbered,
               NEW k \in 1 .. Len(tx_ringbuf[s])
        PROVE  Upto(last'[s].frame, tx_ringbuf[s][k].frame)
    <2>1. CASE last'[s].frame = last[s].frame
      BY <1>6, <2>1 DEF InOrder
    <2>2. CASE last'[s].frame = ring[1] /\ ring[1].sender = s
      BY <1>1, <1>6, <2>2 DEF InOrder
    <2> QED BY <1>4, <1>6, <2>1, <2>2
  <1>7. ASSUME NEW i \in 1 .. Len(ring'), NEW j \in 1 .. Len(ring'), i < j,
               ring'[i] \in Numbered, ring'[j] \in Numbered, ring'[i].sender = ring'[j].sender
        PROVE  Upto(ring'[i], ring'[j])
    <2>1. /\ i + 1 \in 1 .. Len(ring) /\ ring'[i] = ring[i + 1]
          /\ j + 1 \in 1 .. Len(ring) /\ ring'[j] = ring[j + 1]
      BY <1>2
    <2>2. i + 1 < j + 1
      BY <1>7
    <2> QED BY <1>7, <2>1, <2>2 DEF InOrder
  <1>8. ASSUME NEW s \in Senders, NEW i \in 1 .. Len(ring'), ring'[i] \in Numbered,
               ring'[i].sender = s, NEW k \in 1 .. Len(tx_ringbuf[s])
        PROVE  Upto(ring'[i], tx_ringbuf[s][k].frame)
    BY <1>2, <1>8 DEF InOrder
  \* What is delivered comes before what is remembered
  <1>9. ASSUME NEW f \in BagToSet(delivered')
        PROVE  last'[f.sender].frame \in Numbered /\ Upto(f, last'[f.sender].frame)
    <2>1. CASE Dropped
      BY <2>1 DEF InOrder, Dropped
    <2>2. CASE Registered(ring[1])
      <3>1. /\ ring[1] \in Numbered /\ last'[ring[1].sender].frame = ring[1]
            /\ \A s \in Senders \ {ring[1].sender} : last'[s].frame = last[s].frame
            /\ f \in BagToSet(delivered) \/ f = ring[1]
        BY <2>2 DEF Registered
      <3>2. CASE f = ring[1]
        BY <3>1, <3>2, UptoIsOrder
      <3>3. CASE f \in BagToSet(delivered) /\ f.sender = ring[1].sender
        <4>1. f \in Numbered /\ last[f.sender].frame \in Numbered /\ Upto(f, last[f.sender].frame)
          BY <3>3 DEF InOrder, LinkTypes
        <4>2. f.sender \in Senders
          BY <4>1, FrameKinds
        <4>3. Upto(last[f.sender].frame, ring[1])
          BY <1>1, <3>1, <3>3, <4>1, <4>2 DEF InOrder
        <4>4. Upto(f, ring[1])
          BY <3>1, <4>1, <4>3, UptoIsOrder
        <4>5. last'[f.sender].frame = ring[1]
          BY <3>1, <3>3, Zenon
        <4> QED BY <3>1, <4>4, <4>5, Zenon
      <3>4. CASE f \in BagToSet(delivered) /\ f.sender # ring[1].sender
        <4>1. f \in Numbered /\ last[f.sender].frame \in Numbered /\ Upto(f, last[f.sender].frame)
          BY <3>4 DEF InOrder, LinkTypes
        <4>2. f.sender \in Senders
          BY <4>1, FrameKinds
        <4>5. last'[f.sender].frame = last[f.sender].frame
          BY <3>1, <3>4, <4>2
        <4> QED BY <4>1, <4>5, Zenon
      <3> QED BY <3>1, <3>2, <3>3, <3>4
    <2> QED BY <2>1, <2>2 DEF ProcessStep
  <1>10. \A s \in Senders : \A j, k \in 1 .. Len(tx_ringbuf[s]) :
           j < k => Upto(tx_ringbuf[s][j].frame, tx_ringbuf[s][k].frame)
    BY DEF InOrder
  <1> QED BY <1>3, <1>5, <1>6, <1>7, <1>8, <1>9, <1>10 DEF InOrder

\* Two numbers of the first round differ
LEMMA NumbersDiffer ==
    ASSUME NEW q \in 0 .. MaxSeqno, NEW m \in 1 .. MaxSeqno, NEW n \in 1 .. MaxSeqno, m < n
    PROVE  NthSeqno(q, m) # NthSeqno(q, n)
  BY Constants DEF NthSeqno

\* A frame that is dropped as a copy was delivered, unless its sender has
\* restarted or used all of its numbers
LEMMA CopyWasDelivered ==
    ASSUME IInv, NEW f \in Numbered, NEW i \in 1 .. Len(input_ringbuf), f = input_ringbuf[i],
           mac_sequence_is_duplicate(f.sender, f.seqno)
    PROVE  BagIn(f, delivered) \/ f.boot > 0 \/ f.nth > MaxSeqno
  <1> USE DEF IInv
  <1> SUFFICES ASSUME ~(f.boot > 0), ~(f.nth > MaxSeqno) PROVE BagIn(f, delivered)
    OBVIOUS
  <1>1. PICK s \in Senders : s = f.sender
    BY FrameKinds
  <1>2. f.seqno \in 1 .. MaxSeqno /\ f.boot \in Nat /\ f.nth \in Nat \ {0}
    BY FrameKinds
  <1>3. last[s].frame.seqno = f.seqno
    BY <1>1, <1>2, HistoryTells DEF HistoryCorrect
  <1>4. last[s].frame \in Numbered
    <2>1. last[s].frame \in Numbered \cup {Never.frame}
      BY DEF LinkTypes, Memories
    <2>2. Never.frame.seqno = 0 /\ f.seqno # 0
      BY <1>2, FrameKinds
    <2> QED BY <1>3, <2>1, <2>2
  <1>5. PICK g \in Numbered : g = last[s].frame
    BY <1>4
  <1>6. g.boot \in Nat /\ g.nth \in Nat \ {0}
    BY FrameKinds
  <1>7. Upto(g, f)
    BY <1>1, <1>5 DEF InOrder
  <1>8. g = f
    <2>1. PICK q \in 0 .. MaxSeqno : NumberedFrom(s, q)
      BY DEF FirstNumbers
    <2>2. f \in Held(s) /\ g \in Held(s)
      BY <1>1, <1>5, HeldFrames
    <2>3. FirstRound(q, f) /\ FirstRound(q, g)
      BY <2>1, <2>2 DEF NumberedFrom
    <2>4. SUFFICES ASSUME g.boot = f.boot, g.nth < f.nth PROVE FALSE
      BY <1>2, <1>6, <1>7 DEF Upto
    <2>5. f.boot = 0 /\ g.boot = 0 /\ f.nth \in 1 .. MaxSeqno /\ g.nth \in 1 .. MaxSeqno
      BY <1>2, <1>6, <2>4, Constants
    <2>6. f.seqno = NthSeqno(q, f.nth) /\ g.seqno = NthSeqno(q, g.nth)
      BY <2>3, <2>5 DEF FirstRound
    <2>7. f.seqno = g.seqno
      BY <1>3, <1>5
    <2>8. NthSeqno(q, g.nth) # NthSeqno(q, f.nth)
      BY <2>4, <2>5, NumbersDiffer
    <2> QED BY <2>6, <2>7, <2>8
  <1> QED BY <1>4, <1>5, <1>8 DEF LastDelivered

LEMMA AfterProcess ==
    ASSUME IInv, tsch_rx_process_pending
    PROVE  IInv' /\ ProcessStep
  <1> USE DEF IInv
  <1>1. /\ input_ringbuf # << >> /\ packet_input(Head(input_ringbuf))
        /\ input_ringbuf' = Tail(input_ringbuf)
        /\ UNCHANGED <<senderVars, acked, unsent, sends, reboots>>
    BY DEF tsch_rx_process_pending
  <1>2. input_ringbuf \in Seq(Numbered \cup Broadcasts) /\ Len(input_ringbuf) <= InputSize
    BY DEF LinkTypes
  <1>3. PICK f : f = Head(input_ringbuf)
    OBVIOUS
  <1>4. PICK rest : rest = Tail(input_ringbuf)
    OBVIOUS
  <1>5. /\ f = input_ringbuf[1] /\ f \in Numbered \cup Broadcasts
        /\ Len(input_ringbuf) \in Nat /\ Len(input_ringbuf) > 0
        /\ rest \in Seq(Numbered \cup Broadcasts) /\ Len(rest) = Len(input_ringbuf) - 1
        /\ \A k \in 1 .. Len(rest) : rest[k] = input_ringbuf[k + 1]
    BY <1>1, <1>2, <1>3, <1>4, TailIndex
  <1>6. input_ringbuf' = rest /\ packet_input(f)
    BY <1>1, <1>3, <1>4
  <1>7. Len(input_ringbuf') <= InputSize
    BY <1>2, <1>5, <1>6, Constants
  <1>8. ASSUME received_seqnos' \in [1 .. MAX_SEQNOS -> Entries], last' \in [Senders -> Memories],
               BagToSet(delivered') \subseteq Numbered
        PROVE  LinkTypes' /\ Counted'
    BY <1>1, <1>5, <1>6, <1>7, <1>8 DEF LinkTypes, Counted, senderVars
  \* The elements of the ring
  <1>9. \A g \in ToSet(input_ringbuf) : g = f \/ g \in ToSet(input_ringbuf')
    <2>1. /\ ToSet(input_ringbuf) = {input_ringbuf[i] : i \in 1 .. Len(input_ringbuf)}
          /\ ToSet(rest) = {rest[i] : i \in 1 .. Len(rest)}
      BY <1>2, <1>5, ElementsOf
    <2>2. ASSUME NEW i \in 1 .. Len(input_ringbuf), i # 1 PROVE input_ringbuf[i] \in ToSet(rest)
      <3>1. i - 1 \in 1 .. Len(rest) /\ (i - 1) + 1 = i
        BY <1>5, <2>2
      <3>2. rest[i - 1] = input_ringbuf[i]
        BY <1>5, <3>1
      <3> QED BY <2>1, <3>1, <3>2
    <2> QED BY <1>5, <1>6, <2>1, <2>2
  <1>10. CASE f.seqno = NoSeqno \/ mac_sequence_is_duplicate(f.sender, f.seqno)
    <2>1. UNCHANGED <<received_seqnos, delivered, last>>
      BY <1>6, <1>10 DEF packet_input
    <2>2. ProcessStep
      BY <1>1, <1>5, <1>6, <2>1 DEF ProcessStep, Dropped
    <2>3. LinkTypes' /\ Counted'
      BY <1>8, <2>1 DEF LinkTypes
    <2>4. OwnFrames' /\ FirstNumbers' /\ InOrder'
      BY <2>2, <2>3, ProcessKeepsFrames, ProcessKeepsOrder
    <2>5. HistoryIsLast' /\ LastDelivered'
      BY <2>1 DEF HistoryIsLast, LastDelivered
    <2>6. OkMeansDelivered'
      <3> SUFFICES ASSUME NEW g \in acked
                   PROVE  \/ g \in unsent \/ BagIn(g, delivered) \/ g \in ToSet(input_ringbuf')
                          \/ g.boot > 0 \/ g.nth > MaxSeqno
        BY <1>1, <2>1 DEF OkMeansDelivered, Received
      <3>1. CASE g = f /\ g \in ToSet(input_ringbuf)
        <4>1. f \in Numbered /\ 1 \in 1 .. Len(input_ringbuf)
          BY <1>5, <3>1 DEF LinkTypes
        <4>2. mac_sequence_is_duplicate(f.sender, f.seqno)
          BY <1>10, <4>1, FrameKinds
        <4> QED BY <1>5, <3>1, <4>1, <4>2, CopyWasDelivered
      <3> QED BY <1>9, <3>1 DEF OkMeansDelivered, Received
    <2> QED BY <2>2, <2>3, <2>4, <2>5, <2>6
  <1>11. CASE ~(f.seqno = NoSeqno \/ mac_sequence_is_duplicate(f.sender, f.seqno))
    <2>1. f \in Numbered
      BY <1>5, <1>11, FrameKinds
    <2>2. /\ received_seqnos' = mac_sequence_register_seqno(f.sender, f.seqno)
          /\ delivered' = delivered (+) SetToBag({f}) /\ last' = Remember(f)
      BY <1>6, <1>11 DEF packet_input
    <2>3. BagToSet(delivered') = BagToSet(delivered) \cup {f}
      BY <2>2 DEF BagToSet, SetToBag, (+)
    <2>4. /\ last' \in [Senders -> Memories]
          /\ last'[f.sender] = [frame |-> f, recent |-> TRUE, since |-> {}]
          /\ \A r \in Senders \ {f.sender} : last'[r].frame = last[r].frame
      BY <2>1, <2>2, AfterRemember
    <2>5. received_seqnos' \in [1 .. MAX_SEQNOS -> Entries] /\ HistoryIsLast'
      BY <2>1, <2>2, RegisterKeepsHistory
    <2>6. LinkTypes' /\ Counted'
      BY <1>8, <2>1, <2>3, <2>4, <2>5 DEF LinkTypes
    <2>7. Registered(f)
      BY <2>1, <2>3, <2>4 DEF Registered
    <2>8. ProcessStep
      BY <1>1, <1>5, <1>6, <2>7 DEF ProcessStep
    <2>9. OwnFrames' /\ FirstNumbers' /\ InOrder'
      BY <2>6, <2>8, ProcessKeepsFrames, ProcessKeepsOrder
    <2>10. LastDelivered'
      BY <2>3, <2>7 DEF LastDelivered, Registered, BagIn
    <2>11. OkMeansDelivered'
      BY <1>1, <1>9, <2>3 DEF OkMeansDelivered, Received, BagIn
    <2> QED BY <2>5, <2>6, <2>8, <2>9, <2>10, <2>11
  <1> QED BY <1>10, <1>11

-----------------------------------------------------------------------------
(* The invariant and the theorems *)

LEMMA InitInv == Init => IInv
  <1> SUFFICES ASSUME Init PROVE IInv
    OBVIOUS
  <1> USE DEF Init
  <1>1. LinkTypes
    <2>1. received_seqnos \in [1 .. MAX_SEQNOS -> Entries]
      BY Constants DEF Entries
    <2>2. last \in [Senders -> Memories]
      BY FrameKinds
    <2>3. BagToSet(delivered) = {}
      BY DEF BagToSet, EmptyBag, SetToBag
    <2>4. /\ tx_ringbuf \in [Senders -> Seq(Packets)]
          /\ \A s \in Senders : Len(tx_ringbuf[s]) <= QueueSize
      BY Constants
    <2>5. input_ringbuf \in Seq(Numbered \cup Broadcasts) /\ Len(input_ringbuf) <= InputSize
      BY Constants
    <2> QED BY <2>1, <2>2, <2>3, <2>4, <2>5 DEF LinkTypes
  <1>2. Counted
    BY Constants DEF Counted
  <1>3. \A s \in Senders : /\ last[s].frame \notin Numbered /\ ~last[s].recent
                           /\ Len(tx_ringbuf[s]) = 0
    BY FrameKinds
  <1>4. HistoryIsLast
    <2>1. \A i \in 1 .. MAX_SEQNOS : received_seqnos[i].sender \notin Senders
      BY Constants
    <2> QED BY <1>3, <2>1 DEF HistoryIsLast, HistoryOf
  <1>5. \A s \in Senders : Held(s) = {}
    BY <1>3 DEF Held
  <1>6. OwnFrames
    BY <1>3, <1>5 DEF OwnFrames
  <1>7. InOrder
    <2>1. BagToSet(delivered) = {} /\ Len(input_ringbuf) = 0
      BY DEF BagToSet, EmptyBag, SetToBag
    <2> QED BY <1>3, <2>1 DEF InOrder
  <1>8. FirstNumbers
    <2> SUFFICES ASSUME NEW s \in Senders PROVE \E q \in 0 .. MaxSeqno : NumberedFrom(s, q)
      BY DEF FirstNumbers
    <2>1. PICK q \in 0 .. MaxSeqno : q = tsch_packet_seqno[s]
      BY <1>1 DEF LinkTypes
    <2>2. NthSeqno(q, 0) = q
      BY <2>1, Constants DEF NthSeqno
    <2>3. NumberedFrom(s, q)
      BY <1>5, <2>1, <2>2 DEF NumberedFrom
    <2> QED BY <2>3
  <1>9. LastDelivered /\ OkMeansDelivered
    BY <1>3 DEF LastDelivered, OkMeansDelivered, Received
  <1> QED BY <1>1, <1>2, <1>4, <1>6, <1>7, <1>8, <1>9 DEF IInv

LEMMA NextInv == IInv /\ [Next]_vars => IInv'
  <1> SUFFICES ASSUME IInv, [Next]_vars PROVE IInv'
    OBVIOUS
  <1>1. ASSUME NEW s \in Senders, send_packet(s) PROVE IInv'
    BY <1>1, AfterSend
  <1>2. ASSUME NEW s \in Senders, SendElsewhere(s) PROVE IInv'
    BY <1>2, AfterSendElsewhere
  <1>3. ASSUME NEW s \in Senders, Flush(s) \/ Reboot(s) PROVE IInv'
    BY <1>3, AfterFlush
  <1>4. ASSUME NEW s \in Senders, Expire(s) PROVE IInv'
    BY <1>4, AfterExpiry
  <1>5. CASE Slots
    <2>1. PICK unicast \in SUBSET {s \in Senders : tx_ringbuf[s] # << >>},
               heard \in {{}} \cup {{s} : s \in Senders} :
                  \E reached \in IF heard = {} THEN {{}} ELSE SUBSET unicast :
                     Slot(unicast, heard, reached)
      BY <1>5 DEF Slots
    <2>2. PICK reached : Slot(unicast, heard, reached)
      BY <2>1
    <2> QED BY <2>2, AfterSlot
  <1>6. CASE tsch_rx_process_pending
    BY <1>6, AfterProcess
  <1>7. CASE UNCHANGED vars
    <2>1. UNCHANGED <<tsch_packet_seqno, tx_ringbuf, numbers, boot, input_ringbuf, received_seqnos,
                      acked, unsent, delivered, last, sends, reboots>>
      BY <1>7 DEF vars, senderVars
    <2>2. LinkTypes' /\ Counted' /\ HistoryIsLast' /\ LastDelivered' /\ OkMeansDelivered'
      <3>1. LinkTypes' /\ Counted'
        BY <2>1 DEF IInv, LinkTypes, Counted
      <3>2. HistoryIsLast'
        BY <2>1 DEF IInv, HistoryIsLast
      <3>3. LastDelivered' /\ OkMeansDelivered'
        BY <2>1 DEF IInv, LastDelivered, OkMeansDelivered, Received
      <3> QED BY <3>1, <3>2, <3>3
    <2>3. \A s \in Senders : NumberStep(s) /\ \E d \in Nat : QueueStep(s, d)
      BY <2>1, SameQueue DEF NumberStep
    <2>4. SendersStep
      BY <2>1, <2>3 DEF SendersStep, RingStep
    <2> QED BY <2>2, <2>4, SendersKeepOwn, SendersKeepOrder, SendersKeepNumbers DEF IInv
  <1>8. ASSUME NEW s \in Senders, NEW ok \in BOOLEAN, Unprepared(s, ok) PROVE IInv'
    BY <1>8, AfterUnprepared
  <1> QED BY <1>1, <1>2, <1>3, <1>4, <1>5, <1>6, <1>7, <1>8 DEF Next

LEMMA LinkInvariant == Spec => []IInv
  BY InitInv, NextInv, PTL DEF Spec

\* Queues, ring and history have their types and no ring overflows, for every
\* number of senders and places: the interrupt that fills the input ring looks
\* at it first, whatever the process is doing.
THEOREM LinkTypeCorrect == Spec => []LinkTypeOK
  <1>1. IInv => LinkTypeOK
    <2> SUFFICES ASSUME IInv PROVE LinkTypeOK
      OBVIOUS
    <2> USE DEF IInv
    <2>1. ASSUME NEW s \in Senders, NEW i \in 1 .. Len(tx_ringbuf[s])
          PROVE  /\ tx_ringbuf[s][i].frame \in Numbered
                 /\ tx_ringbuf[s][i].transmissions \in 0 .. MaxTransmissions - 1
      <3>1. tx_ringbuf[s] \in Seq(Packets)
        BY DEF LinkTypes
      <3>2. tx_ringbuf[s][i] \in Packets
        BY <3>1
      <3> QED BY <3>2 DEF Packets
    <2>2. ToSet(input_ringbuf) \subseteq Numbered \cup Broadcasts
      BY ElementsOf DEF LinkTypes
    <2> QED BY <2>1, <2>2 DEF LinkTypes, LinkTypeOK, Broadcasts, Entries
  <1> QED BY <1>1, LinkInvariant, PTL

\* The array that mac_sequence_register_seqno shifts remembers, of every
\* sender, exactly the number registered last, until it is too old or as many
\* other senders were registered since as the array has entries.
THEOREM LinkHistoryCorrect == Spec => []HistoryCorrect
  <1>1. IInv => HistoryCorrect
    BY HistoryTells DEF IInv
  <1> QED BY <1>1, LinkInvariant, PTL

\* A frame that was sent in the slot that reports it as MAC_TX_OK was received:
\* it waits in the ring or has been delivered, and no other node's ACK and no
\* wrap of the sequence numbers can be the reason for MAC_TX_OK or for a drop
\* in the first round.
THEOREM LinkOkMeansDelivered == Spec => []OkMeansDelivered
  <1>1. IInv => OkMeansDelivered
    BY DEF IInv
  <1> QED BY <1>1, LinkInvariant, PTL

\* A frame of the ring that was delivered before is the one registered last of
\* its sender, and so packet_input drops it while the history remembers it.
LEMMA DeliveredIsLast ==
    ASSUME IInv, NEW f \in Numbered, NEW i \in 1 .. Len(input_ringbuf), f = input_ringbuf[i],
           BagIn(f, delivered)
    PROVE  f = last[f.sender].frame
  <1> USE DEF IInv
  <1>1. f.sender \in Senders
    BY FrameKinds
  <1>2. last[f.sender].frame \in Numbered /\ Upto(f, last[f.sender].frame)
    BY DEF InOrder, BagIn
  <1>3. Upto(last[f.sender].frame, f)
    BY <1>1, <1>2 DEF InOrder
  <1> QED BY <1>2, <1>3, UptoIsOrder

\* However often an ACK is lost and a frame sent again, the upper layer gets
\* it once, unless the history has forgotten its sender.
THEOREM LinkAtMostOnce == Spec => AtMostOnce
  <1>1. IInv /\ [Next]_vars =>
           [delivered' # delivered =>
              ~BagIn(Head(input_ringbuf), delivered) \/ Forgotten(Head(input_ringbuf).sender)]_vars
    <2> SUFFICES ASSUME IInv, Next, delivered' # delivered,
                        BagIn(Head(input_ringbuf), delivered)
                 PROVE  Forgotten(Head(input_ringbuf).sender)
      OBVIOUS
    <2> USE DEF IInv
    <2>1. tsch_rx_process_pending
      BY DEF Next, send_packet, SendElsewhere, Flush, Reboot, Expire, Unprepared, Slots, Slot
    <2>2. PICK f : f = Head(input_ringbuf)
      OBVIOUS
    <2>3. input_ringbuf \in Seq(Numbered \cup Broadcasts) /\ input_ringbuf # << >>
      BY <2>1 DEF LinkTypes, tsch_rx_process_pending
    <2>4. f = input_ringbuf[1] /\ 1 \in 1 .. Len(input_ringbuf)
      BY <2>2, <2>3, TailIndex
    <2>5. f \in Numbered
      BY <2>2 DEF LinkTypes, BagIn
    <2>6. ~mac_sequence_is_duplicate(f.sender, f.seqno)
      BY <2>1, <2>2 DEF tsch_rx_process_pending, packet_input
    <2>7. f = last[f.sender].frame
      BY <2>2, <2>4, <2>5, DeliveredIsLast
    <2>8. f.sender \in Senders /\ f.seqno \in 1 .. MaxSeqno
      BY <2>5, FrameKinds
    <2>9. last[f.sender].frame.seqno = f.seqno
      BY <2>7
    <2> QED BY <2>2, <2>6, <2>8, <2>9, HistoryTells DEF HistoryCorrect
  <1> QED BY <1>1, LinkInvariant, PTL DEF Spec, AtMostOnce
=============================================================================
