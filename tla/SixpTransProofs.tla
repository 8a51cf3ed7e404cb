--------------------------- MODULE SixpTransProofs ---------------------------
(***************************************************************************)
(* Proofs about SixpTrans for every set of commands, size of the MAC's     *)
(* queue and rings, and number of requests and reboots: the transactions'  *)
(* types, that their timer always runs, that the callback of a packet      *)
(* never moves another packet's transaction, that CLEAR resets the         *)
(* initiator's sequence number, and that both ends of a transaction go on  *)
(* with the same number.                                                   *)
(***************************************************************************)
EXTENDS SixpTrans, SequenceTheorems, TLAPS

-----------------------------------------------------------------------------
(* The inductive invariant.  It is stated of what one node keeps, s.         *)

\* A request carries a command: this makes the type invariant inductive, since
\* the receiver's transaction takes it over
SoundPackets == {p \in Packets : p.type = "request" => p.code \in Commands}
Reports == [packet : SoundPackets, ok : BOOLEAN]
SoundNode == [trans : {NoTrans} \cup Transactions, next_seqno : {NoNbr} \cup 0 .. MaxSeqno,
              mac : Seq(SoundPackets), rx : Seq(SoundPackets), done : Seq(Reports)]

NoOverflow(s) == /\ Len(s.mac) <= MacQueueSize
                 /\ Len(s.rx) <= RingSize /\ Len(s.done) <= RingSize

Cleared(s) == /\ s.trans.cmd = "CLEAR"
              /\ s.trans.state \in {"INIT", "REQUEST_SENT", "RESPONSE_RECEIVED"}
              => s.next_seqno = 0

\* The type of the packet whose callback a transaction may wait for
Awaits == [INIT |-> "request", REQUEST_RECEIVED |-> "response", RESPONSE_RECEIVED |-> "confirmation"]

\* The callbacks that are to come for a transaction whose cell was not in the
\* MAC's hands when it was allocated: at most one, of its own packet, and the
\* transaction knows
Waiting(s, p) == /\ p.callback => /\ s.trans.callback /\ p.id = s.trans.id
                                  /\ s.trans.state \in DOMAIN Awaits
                                  /\ p.type = Awaits[s.trans.state]

Single(s) == /\ \A i, j \in 1 .. Len(s.mac) : s.mac[i].callback /\ s.mac[j].callback => i = j
             /\ \A i, j \in 1 .. Len(s.done) :
                    s.done[i].packet.callback /\ s.done[j].packet.callback => i = j
             /\ \A i \in 1 .. Len(s.mac), j \in 1 .. Len(s.done) :
                    ~(s.mac[i].callback /\ s.done[j].packet.callback)

Own(s) == s.trans.fresh /\ s.trans.state \notin {"FREE", "TERMINATING"} =>
              /\ Single(s)
              /\ \A i \in 1 .. Len(s.mac) : Waiting(s, s.mac[i])
              /\ \A i \in 1 .. Len(s.done) : Waiting(s, s.done[i].packet)

Sound(s) == s \in SoundNode /\ NoOverflow(s) /\ Cleared(s) /\ Own(s)

IInv == /\ node \in [Nodes -> SoundNode] /\ \A n \in Nodes : Sound(node[n])
        /\ ids \in 0 .. MaxRequests /\ counted \subseteq 1 .. MaxRequests
        /\ reboots \in 0 .. MaxReboots

-----------------------------------------------------------------------------
(* What the operators of sixp-trans.c and sixp.c make of a node              *)

LEMMA Constants ==
    /\ Commands \subseteq {"ADD", "ADD_NO_CELLS", "COUNT", "CLEAR"}
    /\ MaxSeqno \in Nat /\ MaxSeqno > 0 /\ MaxRequests \in Nat /\ MaxReboots \in Nat
    /\ MacQueueSize \in Nat /\ MacQueueSize > 0 /\ RingSize \in Nat /\ RingSize > 0
    /\ \A n \in Nodes : Peer(n) \in Nodes /\ Peer(n) # n
  BY SixpAssumption DEF Peer

LEMMA NodeFields ==
    ASSUME NEW s \in SoundNode
    PROVE  /\ s.trans = NoTrans \/ s.trans \in Transactions
           /\ s.next_seqno \in {NoNbr} \cup 0 .. MaxSeqno
           /\ s.mac \in Seq(SoundPackets) /\ s.rx \in Seq(SoundPackets) /\ s.done \in Seq(Reports)
  BY DEF SoundNode

LEMMA NotFree ==
    ASSUME NEW s \in SoundNode, s.trans.state # "FREE"
    PROVE  s.trans \in Transactions
  BY DEF SoundNode, NoTrans

LEMMA SeqnoType ==
    ASSUME NEW s \in SoundNode, s.trans \in Transactions, NEW new
    PROVE  SeqnoAfter(s, new) \in {NoNbr} \cup 0 .. MaxSeqno
  <1>1. \A q \in 0 .. MaxSeqno : Incremented(q) \in 0 .. MaxSeqno
    BY Constants DEF Incremented
  <1>2. s.next_seqno \in {NoNbr} \cup 0 .. MaxSeqno /\ s.trans.seqno \in 0 .. MaxSeqno
    BY DEF SoundNode, Transactions
  <1> QED BY <1>1, <1>2 DEF SeqnoAfter

LEMMA TransitEffect ==
    ASSUME NEW s \in SoundNode, s.trans \in Transactions, NEW new \in States
    PROVE  LET r == Transit(s, new)
               to == IF CanTransit(s.trans, new) THEN new ELSE "TERMINATING"
           IN  /\ r \in SoundNode /\ r.trans \in Transactions
               /\ r.trans.state = to /\ r.next_seqno = SeqnoAfter(s, to)
               /\ r.trans.id = s.trans.id /\ r.trans.seqno = s.trans.seqno
               /\ r.trans.cmd = s.trans.cmd /\ r.trans.mode = s.trans.mode
               /\ r.trans.callback = s.trans.callback /\ r.trans.reply = s.trans.reply
               /\ r.trans.fresh = s.trans.fresh
               /\ r.mac = s.mac /\ r.rx = s.rx /\ r.done = s.done
  <1> DEFINE to == IF CanTransit(s.trans, new) THEN new ELSE "TERMINATING"
             q == SeqnoAfter(s, to)
             t == [s.trans EXCEPT !.state = to]
             u == [t EXCEPT !.timer = "process"]
             r == [s EXCEPT !.next_seqno = q]
             v == [r EXCEPT !.trans = u]
  <1>1. to \in States /\ q \in {NoNbr} \cup 0 .. MaxSeqno
    BY SeqnoType DEF States
  <1> HIDE DEF to, q
  <1>2. /\ t \in Transactions /\ t.state = to /\ t.id = s.trans.id /\ t.seqno = s.trans.seqno
        /\ t.cmd = s.trans.cmd /\ t.mode = s.trans.mode /\ t.callback = s.trans.callback
        /\ t.reply = s.trans.reply /\ t.fresh = s.trans.fresh
    BY <1>1 DEF Transactions
  <1> HIDE DEF t
  <1>3. /\ u \in Transactions /\ u.state = to /\ u.id = s.trans.id /\ u.seqno = s.trans.seqno
        /\ u.cmd = s.trans.cmd /\ u.mode = s.trans.mode /\ u.callback = s.trans.callback
        /\ u.reply = s.trans.reply /\ u.fresh = s.trans.fresh
    BY <1>2 DEF Transactions
  <1> HIDE DEF u
  <1>4. /\ r \in SoundNode /\ r.trans = s.trans /\ r.next_seqno = q /\ r.mac = s.mac /\ r.rx = s.rx
        /\ r.done = s.done
    BY <1>1 DEF SoundNode
  <1>5. Transit(s, new) = [r EXCEPT !.trans = [[s.trans EXCEPT !.state = to] EXCEPT !.timer = "process"]]
    BY DEF Transit, to, q, SoundNode, Transactions
  <1> HIDE DEF r
  <1>6. /\ v \in SoundNode /\ v.trans = u /\ v.next_seqno = q /\ v.mac = s.mac /\ v.rx = s.rx
        /\ v.done = s.done
    BY <1>3, <1>4 DEF SoundNode
  <1>7. Transit(s, new) = v
    BY <1>5 DEF u, t
  <1> HIDE DEF v
  <1> QED BY <1>3, <1>6, <1>7 DEF to, q

LEMMA CallbackUpdate ==
    ASSUME NEW s \in SoundNode, s.trans \in Transactions, NEW b \in BOOLEAN
    PROVE  LET r == [s EXCEPT !.trans.callback = b]
           IN  /\ r \in SoundNode /\ r.trans \in Transactions /\ r.trans.callback = b
               /\ r.trans.state = s.trans.state /\ r.next_seqno = s.next_seqno
               /\ r.trans.id = s.trans.id /\ r.trans.seqno = s.trans.seqno
               /\ r.trans.cmd = s.trans.cmd /\ r.trans.mode = s.trans.mode
               /\ r.trans.reply = s.trans.reply /\ r.trans.fresh = s.trans.fresh
               /\ r.mac = s.mac /\ r.rx = s.rx /\ r.done = s.done
  <1> DEFINE t == [s.trans EXCEPT !.callback = b]
  <1>1. /\ t \in Transactions /\ t.callback = b
        /\ t.state = s.trans.state /\ t.id = s.trans.id /\ t.seqno = s.trans.seqno
        /\ t.cmd = s.trans.cmd /\ t.mode = s.trans.mode
        /\ t.reply = s.trans.reply /\ t.fresh = s.trans.fresh
    BY DEF Transactions
  <1>2. [s EXCEPT !.trans.callback = b] = [s EXCEPT !.trans = t]
    OBVIOUS
  <1> HIDE DEF t
  <1> DEFINE r == [s EXCEPT !.trans = t]
  <1>3. /\ r \in SoundNode /\ r.trans = t /\ r.next_seqno = s.next_seqno
        /\ r.mac = s.mac /\ r.rx = s.rx /\ r.done = s.done
    BY <1>1 DEF SoundNode
  <1> HIDE DEF r
  <1>4. [s EXCEPT !.trans.callback = b] = r
    BY <1>2 DEF r
  <1> QED BY <1>1, <1>3, <1>4

LEMMA StateNames ==
    /\ DOMAIN Awaits = {"INIT", "REQUEST_RECEIVED", "RESPONSE_RECEIVED"}
    /\ Awaits["INIT"] = "request" /\ Awaits["REQUEST_RECEIVED"] = "response"
    /\ Awaits["RESPONSE_RECEIVED"] = "confirmation"
    /\ DOMAIN SentType = {"REQUEST_SENT", "RESPONSE_SENT", "CONFIRMATION_SENT"}
    /\ SentType["REQUEST_SENT"] = "request" /\ SentType["RESPONSE_SENT"] = "response"
    /\ SentType["CONFIRMATION_SENT"] = "confirmation"
  BY DEF Awaits, SentType

LEMMA CallbackEffect ==
    ASSUME NEW s \in SoundNode, NEW ok \in BOOLEAN
    PROVE  LET r == mac_callback(s, ok)
           IN  /\ r \in SoundNode /\ r.mac = s.mac /\ r.rx = s.rx /\ r.done = s.done
               /\ r.trans.id = s.trans.id /\ r.trans.cmd = s.trans.cmd
               /\ r.trans.fresh = s.trans.fresh
               /\ Cleared(s) => Cleared(r)
               /\ ~ok => /\ r.trans.state \in {s.trans.state, "TERMINATING"}
                         /\ r.next_seqno = s.next_seqno
                         /\ r.trans.state # "FREE" => r.trans.callback = FALSE
               /\ r.trans.state \in DOMAIN SentType =>
                     \/ r.trans.state = s.trans.state
                     \/ /\ ok /\ s.trans.state \in DOMAIN Awaits
                        /\ SentType[r.trans.state] = Awaits[s.trans.state]
  <1> DEFINE r == mac_callback(s, ok)
             state == s.trans.state
             told(x) == [x EXCEPT !.trans.callback = FALSE]
             sent == [INIT |-> "REQUEST_SENT", REQUEST_RECEIVED |-> "RESPONSE_SENT",
                      RESPONSE_RECEIVED |-> "CONFIRMATION_SENT"]
  <1>0. DOMAIN sent = {"INIT", "REQUEST_RECEIVED", "RESPONSE_RECEIVED"}
        /\ sent["INIT"] = "REQUEST_SENT" /\ sent["REQUEST_RECEIVED"] = "RESPONSE_SENT"
        /\ sent["RESPONSE_RECEIVED"] = "CONFIRMATION_SENT"
    OBVIOUS
  <1>d. r = IF state = "FREE" \/ (ok /\ state \notin DOMAIN sent) THEN s
            ELSE IF ok THEN IF CanTransit(s.trans, sent[state]) THEN told(Transit(s, sent[state]))
                            ELSE Transit(s, "TERMINATING")
            ELSE told(IF state = "INIT" THEN Transit(s, "TERMINATING") ELSE s)
    BY DEF mac_callback
  <1> HIDE DEF sent, r
  <1>1. CASE state = "FREE" \/ (ok /\ state \notin DOMAIN sent)
    BY <1>1, <1>d DEF r
  <1>2. CASE state # "FREE" /\ ok /\ state \in DOMAIN sent
    <2>1. s.trans \in Transactions
      BY <1>2, NotFree
    <2> DEFINE new == sent[state]
               x == Transit(s, new)
    <2>2. new \in States
      BY <1>0, <1>2 DEF States
    <2>3. CASE CanTransit(s.trans, new)
      <3>1. /\ x \in SoundNode /\ x.trans \in Transactions
            /\ x.trans.state = new /\ x.next_seqno = SeqnoAfter(s, new)
            /\ x.trans.id = s.trans.id /\ x.trans.cmd = s.trans.cmd /\ x.trans.fresh = s.trans.fresh
            /\ x.mac = s.mac /\ x.rx = s.rx /\ x.done = s.done
        BY <2>1, <2>2, <2>3, TransitEffect
      <3>2. r = told(x)
        BY <1>2, <1>d, <2>3
      <3> HIDE DEF x, new
      <3>3. /\ r \in SoundNode /\ r.trans.state = new /\ r.next_seqno = SeqnoAfter(s, new)
            /\ r.trans.id = s.trans.id /\ r.trans.cmd = s.trans.cmd /\ r.trans.fresh = s.trans.fresh
            /\ r.mac = s.mac /\ r.rx = s.rx /\ r.done = s.done
        BY <3>1, <3>2, CallbackUpdate
      <3>4. Cleared(s) => Cleared(r)
        BY <1>0, <1>2, <3>3 DEF Cleared, SeqnoAfter, new, NoNbr
      <3>5. state \in DOMAIN Awaits /\ SentType[new] = Awaits[state]
        BY <1>0, <1>2, StateNames DEF new
      <3> QED BY <1>2, <3>3, <3>4, <3>5 DEF r
    <2>4. CASE ~CanTransit(s.trans, new)
      <3>1. r = Transit(s, "TERMINATING") /\ "TERMINATING" \in States /\ CanTransit(s.trans, "TERMINATING")
        BY <1>2, <1>d, <2>4 DEF States, CanTransit
      <3>2. /\ r \in SoundNode /\ r.trans.state = "TERMINATING"
            /\ r.trans.id = s.trans.id /\ r.trans.cmd = s.trans.cmd /\ r.trans.fresh = s.trans.fresh
            /\ r.mac = s.mac /\ r.rx = s.rx /\ r.done = s.done
        BY <2>1, <3>1, TransitEffect
      <3>3. Cleared(r) /\ r.trans.state \notin DOMAIN SentType
        BY <3>2, StateNames DEF Cleared
      <3> QED BY <1>2, <3>2, <3>3 DEF r
    <2> QED BY <2>3, <2>4
  <1>3. CASE state # "FREE" /\ ~ok
    <2>1. s.trans \in Transactions
      BY <1>3, NotFree
    <2> DEFINE x == IF state = "INIT" THEN Transit(s, "TERMINATING") ELSE s
    <2>2. "TERMINATING" \in States /\ CanTransit(s.trans, "TERMINATING")
      BY DEF States, CanTransit
    <2>3. /\ x \in SoundNode /\ x.trans \in Transactions
          /\ x.trans.state = IF state = "INIT" THEN "TERMINATING" ELSE state
          /\ x.next_seqno = s.next_seqno
          /\ x.trans.id = s.trans.id /\ x.trans.cmd = s.trans.cmd /\ x.trans.fresh = s.trans.fresh
          /\ x.mac = s.mac /\ x.rx = s.rx /\ x.done = s.done
      <3>1. CASE state = "INIT"
        <4>1. SeqnoAfter(s, "TERMINATING") = s.next_seqno
          BY DEF SeqnoAfter
        <4> QED BY <2>1, <2>2, <3>1, <4>1, TransitEffect
      <3>2. CASE state # "INIT"
        BY <2>1, <3>2
      <3> QED BY <3>1, <3>2
    <2>4. r = told(x)
      BY <1>3, <1>d
    <2> HIDE DEF x
    <2>5. /\ r \in SoundNode /\ r.trans.state = IF state = "INIT" THEN "TERMINATING" ELSE state
          /\ r.next_seqno = s.next_seqno /\ r.trans.callback = FALSE
          /\ r.trans.id = s.trans.id /\ r.trans.cmd = s.trans.cmd /\ r.trans.fresh = s.trans.fresh
          /\ r.mac = s.mac /\ r.rx = s.rx /\ r.done = s.done
      BY <2>3, <2>4, CallbackUpdate, ZenonT(40)
    <2>6. Cleared(s) => Cleared(r)
      BY <2>5 DEF Cleared
    <2>7. r.trans.state \in DOMAIN SentType => r.trans.state = state
      BY <2>5, StateNames
    <2> QED BY <1>3, <2>5, <2>6, <2>7 DEF r
  <1> QED BY <1>1, <1>2, <1>3

\* No callback is to come
LEMMA NoCall ==
    ASSUME NEW s \in SoundNode
    PROVE  ~Outstanding(s) <=> /\ \A i \in 1 .. Len(s.mac) : ~s.mac[i].callback
                               /\ \A i \in 1 .. Len(s.done) : ~s.done[i].packet.callback
  BY NodeFields DEF Outstanding, ToSet

LEMMA NoCallOwn == ASSUME NEW s \in SoundNode, ~Outstanding(s) PROVE Own(s)
  BY NoCall DEF Own, Single, Waiting

LEMMA QuietOutput ==
    ASSUME NEW s, Sound(s), NEW p \in SoundPackets, p.callback = FALSE
    PROVE  LET r == sixtop_output(s, p)
           IN  Sound(r) /\ r.trans = s.trans /\ r.next_seqno = s.next_seqno
  <1> DEFINE r == [s EXCEPT !.mac = Append(s.mac, p)]
             m == Append(s.mac, p)
  <1>1. CASE Len(s.mac) < MacQueueSize
    <2>1. sixtop_output(s, p) = r
      BY <1>1 DEF sixtop_output
    <2>2. s \in SoundNode /\ s.mac \in Seq(SoundPackets)
      BY NodeFields DEF Sound
    <2>3. /\ m \in Seq(SoundPackets) /\ Len(m) = Len(s.mac) + 1
          /\ \A i \in 1 .. Len(s.mac) : m[i] = s.mac[i]
          /\ m[Len(s.mac) + 1] = p
      BY <2>2, AppendProperties
    <2>4. /\ r \in SoundNode /\ r.trans = s.trans /\ r.next_seqno = s.next_seqno /\ r.mac = m
          /\ r.rx = s.rx /\ r.done = s.done
      BY <2>2, <2>3 DEF SoundNode
    <2> HIDE DEF r, m
    <2>a. NoOverflow(r)
      BY <1>1, <2>2, <2>3, <2>4, Constants DEF Sound, NoOverflow
    <2>5. NoOverflow(r) /\ Cleared(r)
      BY <2>4, <2>a DEF Sound, Cleared
    <2>6. \A i \in 1 .. Len(m) : m[i].callback => i \in 1 .. Len(s.mac) /\ m[i] = s.mac[i]
      BY <2>2, <2>3
    <2>7. Own(r)
      BY <2>4, <2>6, SMTT(20) DEF Sound, Own, Single, Waiting
    <2> QED BY <2>1, <2>4, <2>5, <2>7 DEF Sound
  <1>2. CASE ~(Len(s.mac) < MacQueueSize)
    BY <1>2 DEF sixtop_output
  <1> QED BY <1>1, <1>2

LEMMA CallOutput ==
    ASSUME NEW s, Sound(s), s.trans \in Transactions, NEW p \in SoundPackets, p.callback,
           s.trans.fresh => ~Outstanding(s), Waiting(s, p)
    PROVE  LET r == sixtop_output(s, p)
           IN  Sound(r) /\ r.trans.state \in {s.trans.state, "TERMINATING"}
  <1> DEFINE r == [s EXCEPT !.mac = Append(s.mac, p)]
             m == Append(s.mac, p)
  <1>1. CASE Len(s.mac) < MacQueueSize
    <2>1. sixtop_output(s, p) = r
      BY <1>1 DEF sixtop_output
    <2>2. s \in SoundNode /\ s.mac \in Seq(SoundPackets)
      BY NodeFields DEF Sound
    <2>3. /\ m \in Seq(SoundPackets) /\ Len(m) = Len(s.mac) + 1
          /\ \A i \in 1 .. Len(s.mac) : m[i] = s.mac[i]
          /\ m[Len(s.mac) + 1] = p
      BY <2>2, AppendProperties
    <2>4. /\ r \in SoundNode /\ r.trans = s.trans /\ r.next_seqno = s.next_seqno /\ r.mac = m
          /\ r.rx = s.rx /\ r.done = s.done
      BY <2>2, <2>3 DEF SoundNode
    <2> HIDE DEF r, m
    <2>a. NoOverflow(r)
      BY <1>1, <2>2, <2>3, <2>4, Constants DEF Sound, NoOverflow
    <2>5. NoOverflow(r) /\ Cleared(r)
      BY <2>4, <2>a DEF Sound, Cleared
    <2>6. ASSUME s.trans.fresh
          PROVE  /\ \A i \in 1 .. Len(m) : m[i].callback => i = Len(s.mac) + 1 /\ m[i] = p
                 /\ \A i \in 1 .. Len(s.done) : ~s.done[i].packet.callback
      BY <2>2, <2>3, <2>6, NoCall, SMTT(20)
    <2>7. Own(r)
      <3> SUFFICES ASSUME s.trans.fresh
                   PROVE  /\ Single(r)
                          /\ \A i \in 1 .. Len(r.mac) : Waiting(r, r.mac[i])
                          /\ \A i \in 1 .. Len(r.done) : Waiting(r, r.done[i].packet)
        BY <2>4 DEF Own
      <3>1. Single(r)
        BY <2>4, <2>6 DEF Single
      <3> QED BY <2>4, <2>6, <3>1 DEF Waiting
    <2> QED BY <2>1, <2>4, <2>5, <2>7 DEF Sound
  <1>2. CASE ~(Len(s.mac) < MacQueueSize)
    <2>1. sixtop_output(s, p) = mac_callback(s, FALSE)
      BY <1>2 DEF sixtop_output
    <2> DEFINE x == mac_callback(s, FALSE)
    <2>2. /\ x \in SoundNode /\ x.mac = s.mac /\ x.rx = s.rx /\ x.done = s.done
          /\ x.trans.fresh = s.trans.fresh /\ Cleared(x)
          /\ x.trans.state \in {s.trans.state, "TERMINATING"}
      BY CallbackEffect DEF Sound
    <2> HIDE DEF x
    <2>3. NoOverflow(x)
      BY <2>2 DEF Sound, NoOverflow
    <2>4. Own(x)
      <3>1. CASE x.trans.fresh
        <4>1. ~Outstanding(x)
          BY <2>2, <3>1 DEF Outstanding
        <4> QED BY <2>2, <4>1, NoCallOwn
      <3>2. CASE ~x.trans.fresh
        BY <3>2 DEF Own
      <3> QED BY <3>1, <3>2
    <2> QED BY <2>1, <2>2, <2>3, <2>4 DEF Sound, x
  <1> QED BY <1>1, <1>2

LEMMA AllocEffect ==
    ASSUME NEW s \in SoundNode, NEW id \in 1 .. MaxRequests, NEW seqno \in 0 .. MaxSeqno,
           NEW cmd \in Commands, NEW x, x = sixp_trans_alloc(s, id, seqno, cmd)
    PROVE  /\ x \in SoundNode /\ x.trans \in Transactions
           /\ x.trans.state = "INIT" /\ x.trans.id = id /\ x.trans.cmd = cmd
           /\ x.trans.seqno = seqno /\ ~x.trans.callback /\ x.trans.reply = "none"
           /\ x.trans.fresh => ~Outstanding(s)
           /\ x.next_seqno = s.next_seqno /\ x.mac = s.mac /\ x.rx = s.rx /\ x.done = s.done
  <1> DEFINE fresh == ~Outstanding(s)
             mode == determine_trans_mode(cmd)
             t == [state |-> "INIT", id |-> id, seqno |-> seqno, cmd |-> cmd, mode |-> mode,
                   callback |-> FALSE, timer |-> "timeout", reply |-> "none", fresh |-> fresh]
             r == [s EXCEPT !.trans = t]
  <1>1. fresh \in BOOLEAN /\ mode \in {2, 3}
    BY DEF Outstanding, determine_trans_mode
  <1>2. sixp_trans_alloc(s, id, seqno, cmd) = r
    BY DEF sixp_trans_alloc
  <1> HIDE DEF fresh, mode
  <1>3. t \in Transactions
    BY <1>1 DEF Transactions, States
  <1>4. /\ t.state = "INIT" /\ t.id = id /\ t.cmd = cmd /\ t.fresh = fresh
        /\ t.seqno = seqno /\ ~t.callback /\ t.reply = "none"
    OBVIOUS
  <1> HIDE DEF t
  <1>5. /\ r \in SoundNode /\ r.trans = t
        /\ r.next_seqno = s.next_seqno /\ r.mac = s.mac /\ r.rx = s.rx /\ r.done = s.done
    BY <1>3 DEF SoundNode
  <1> QED BY <1>2, <1>3, <1>4, <1>5 DEF fresh

LEMMA PacketSound ==
    ASSUME NEW type \in {"request", "response", "confirmation"}, NEW code \in Commands \cup ReturnCodes,
           type = "request" => code \in Commands,
           NEW seqno \in 0 .. MaxSeqno, NEW id \in 1 .. MaxRequests
    PROVE  /\ Packet(type, code, seqno, id, TRUE) \in SoundPackets
           /\ Packet(type, code, seqno, id, FALSE) \in SoundPackets
  BY DEF Packet, SoundPackets, Packets

\* Reply sends a packet p after it has noted in the transaction that it did,
\* and possibly allocated the neighbor, which is x
Replied(s, type, code, x, p) ==
    /\ Reply(s, type, code) = sixtop_output(x, p)
    /\ p.callback = TRUE /\ p.id = s.trans.id /\ p.type = type
    /\ x.trans \in Transactions /\ x.trans.callback = TRUE /\ x.trans.reply = code
    /\ x.trans.state = s.trans.state /\ x.trans.id = s.trans.id /\ x.trans.seqno = s.trans.seqno
    /\ x.trans.cmd = s.trans.cmd /\ x.trans.fresh = s.trans.fresh
    /\ \/ x.next_seqno = s.next_seqno
       \/ type = "response" /\ s.next_seqno = NoNbr /\ x.next_seqno = 0
    /\ x.mac = s.mac /\ x.rx = s.rx /\ x.done = s.done

LEMMA ReplyReady ==
    ASSUME NEW s \in SoundNode, s.trans \in Transactions, NEW type \in {"response", "confirmation"},
           NEW code \in {"SUCCESS", "ERR"}
    PROVE  \E x \in SoundNode, p \in SoundPackets : Replied(s, type, code, x, p)
  <1> DEFINE known == IF /\ s.next_seqno = NoNbr /\ type = "response" /\ code = "SUCCESS"
                         /\ s.trans.cmd \in {"ADD", "ADD_NO_CELLS"}
                      THEN 0 ELSE s.next_seqno
             x == [s EXCEPT !.next_seqno = known, !.trans.callback = TRUE, !.trans.reply = code]
             p == Packet(type, code, s.trans.seqno, s.trans.id, TRUE)
             q == [s EXCEPT !.next_seqno = known]
             t == [s.trans EXCEPT !.callback = TRUE]
             u == [t EXCEPT !.reply = code]
             y == [q EXCEPT !.trans = u]
  <1>1. /\ known \in {NoNbr} \cup 0 .. MaxSeqno
        /\ \/ known = s.next_seqno
           \/ type = "response" /\ s.next_seqno = NoNbr /\ known = 0
    BY NodeFields, Constants
  <1>2. Reply(s, type, code) = sixtop_output(x, p)
    BY DEF Reply
  <1>3. x = y
    BY DEF SoundNode, Transactions
  <1> HIDE DEF x, known
  <1>4. /\ t \in Transactions /\ t.callback = TRUE /\ t.state = s.trans.state /\ t.id = s.trans.id
        /\ t.seqno = s.trans.seqno /\ t.cmd = s.trans.cmd /\ t.fresh = s.trans.fresh
    BY DEF Transactions
  <1> HIDE DEF t
  <1>5. /\ u \in Transactions /\ u.callback = TRUE /\ u.state = s.trans.state /\ u.id = s.trans.id
        /\ u.seqno = s.trans.seqno /\ u.cmd = s.trans.cmd /\ u.fresh = s.trans.fresh
        /\ u.reply = code
    BY <1>4 DEF Transactions
  <1> HIDE DEF u
  <1>6. q \in SoundNode /\ q.next_seqno = known /\ q.mac = s.mac /\ q.rx = s.rx /\ q.done = s.done
    BY <1>1 DEF SoundNode
  <1> HIDE DEF q
  <1>7. /\ y \in SoundNode /\ y.trans = u /\ y.next_seqno = known /\ y.mac = s.mac /\ y.rx = s.rx
        /\ y.done = s.done
    BY <1>5, <1>6 DEF SoundNode
  <1> HIDE DEF y
  <1>8. s.trans.seqno \in 0 .. MaxSeqno /\ s.trans.id \in 1 .. MaxRequests
    BY DEF Transactions
  <1>9. p \in SoundPackets /\ p.callback = TRUE /\ p.id = s.trans.id /\ p.type = type
    <2>1. type \in {"request", "response", "confirmation"} /\ type # "request"
          /\ code \in Commands \cup ReturnCodes
      BY DEF ReturnCodes
    <2>2. p \in SoundPackets
      BY <1>8, <2>1, PacketSound
    <2> QED BY <2>2 DEF Packet
  <1> HIDE DEF p
  <1>10. y \in SoundNode /\ p \in SoundPackets
    BY <1>7, <1>9
  <1> USE <1>10
  <1> WITNESS y \in SoundNode, p \in SoundPackets
  <1> QED BY <1>1, <1>2, <1>3, <1>5, <1>7, <1>9 DEF Replied

LEMMA ReplySound ==
    ASSUME NEW s, Sound(s), s.trans \in Transactions, NEW type, NEW code \in {"SUCCESS", "ERR"},
           \/ type = "response" /\ s.trans.state = "REQUEST_RECEIVED"
           \/ type = "confirmation" /\ s.trans.state = "RESPONSE_RECEIVED",
           s.trans.fresh => ~Outstanding(s)
    PROVE  LET r == Reply(s, type, code)
           IN  Sound(r) /\ r.trans.state \in {s.trans.state, "TERMINATING"}
  <1>1. s \in SoundNode /\ type \in {"response", "confirmation"}
    BY DEF Sound
  <1>2. PICK x \in SoundNode, p \in SoundPackets : Replied(s, type, code, x, p)
    BY <1>1, ReplyReady
  <1>3. x.trans.fresh => ~Outstanding(x)
    BY <1>2 DEF Replied, Outstanding
  <1>4. Own(x)
    <2>1. CASE x.trans.fresh
      BY <1>3, <2>1, NoCallOwn
    <2>2. CASE ~x.trans.fresh
      BY <2>2 DEF Own
    <2> QED BY <2>1, <2>2
  <1>5. Cleared(x) /\ NoOverflow(x)
    BY <1>2 DEF Replied, Sound, Cleared, NoOverflow
  <1>6. Waiting(x, p)
    BY <1>2, StateNames DEF Replied, Waiting
  <1>7. Sound(x)
    BY <1>4, <1>5 DEF Sound
  <1>8. /\ Sound(sixtop_output(x, p))
        /\ sixtop_output(x, p).trans.state \in {x.trans.state, "TERMINATING"}
    BY <1>2, <1>3, <1>6, <1>7, CallOutput DEF Replied
  <1> QED BY <1>2, <1>8 DEF Replied

LEMMA AnswersSound ==
    ASSUME NEW s, Sound(s), s.trans \in Transactions, s.trans.fresh => ~Outstanding(s),
           NEW r \in Answers(s)
    PROVE  Sound(r) /\ r.trans.state \in {s.trans.state, "TERMINATING"}
  <1>1. \/ r = s
        \/ /\ s.trans.state = "REQUEST_RECEIVED"
           /\ \E rc \in {"SUCCESS", "ERR"} : r = Reply(s, "response", rc)
        \/ s.trans.state = "RESPONSE_RECEIVED" /\ r = Reply(s, "confirmation", "SUCCESS")
    BY DEF Answers
  <1> QED BY <1>1, ReplySound

\* The sequence number may be reset before a transaction is allocated
LEMMA ResetSound ==
    ASSUME NEW s, Sound(s), s.trans.state = "FREE", NEW q \in {NoNbr} \cup 0 .. MaxSeqno
    PROVE  LET r == [s EXCEPT !.next_seqno = q]
           IN  /\ Sound(r) /\ r.trans = s.trans /\ r.next_seqno = q
               /\ r.mac = s.mac /\ r.rx = s.rx /\ r.done = s.done
  <1> DEFINE r == [s EXCEPT !.next_seqno = q]
  <1>1. /\ r \in SoundNode /\ r.trans = s.trans /\ r.next_seqno = q
        /\ r.mac = s.mac /\ r.rx = s.rx /\ r.done = s.done
    BY DEF Sound, SoundNode
  <1> HIDE DEF r
  <1>2. NoOverflow(r) /\ Cleared(r) /\ Own(r)
    BY <1>1 DEF Sound, NoOverflow, Cleared, Own
  <1> QED BY <1>1, <1>2 DEF Sound, r

LEMMA RequestInputSound ==
    ASSUME NEW s, Sound(s), NEW p \in SoundPackets, p.type = "request", NEW memory \in BOOLEAN,
           NEW r \in RequestInput(s, p, memory)
    PROVE  /\ Sound(r)
           /\ r.trans.state \in DOMAIN SentType => r.trans.state = s.trans.state
  <1> DEFINE reset == IF p.code = "CLEAR" /\ s.next_seqno # NoNbr
                      THEN [s EXCEPT !.next_seqno = 0] ELSE s
             got == sixp_trans_alloc(reset, p.id, p.seqno, p.code)
             received == Transit(got, "REQUEST_RECEIVED")
             own == IF s.next_seqno = NoNbr THEN 0 ELSE s.next_seqno
  <1>1. /\ p.id \in 1 .. MaxRequests /\ p.seqno \in 0 .. MaxSeqno /\ p.code \in Commands
        /\ s.next_seqno \in {NoNbr} \cup 0 .. MaxSeqno /\ own \in 0 .. MaxSeqno
    <2>1. p.id \in 1 .. MaxRequests /\ p.seqno \in 0 .. MaxSeqno /\ p.code \in Commands
      BY DEF SoundPackets, Packets
    <2>2. s.next_seqno \in {NoNbr} \cup 0 .. MaxSeqno
      BY NodeFields DEF Sound
    <2> QED BY <2>1, <2>2, Constants
  <1>2. \/ s.trans.state # "FREE" /\ r = send_back_error(s, "ERR_BUSY", p.seqno, p.id)
        \/ s.trans.state = "FREE" /\ r = send_back_error(reset, "ERR_BUSY", p.seqno, p.id)
        \/ s.trans.state = "FREE" /\ r = send_back_error(received, "ERR_SEQNUM", own, p.id)
        \/ s.trans.state = "FREE" /\ r \in Answers(received)
    BY DEF RequestInput
  <1> HIDE DEF own
  <1>3. ASSUME NEW x, Sound(x), NEW rc \in ReturnCodes, NEW q \in 0 .. MaxSeqno
        PROVE  LET y == send_back_error(x, rc, q, p.id) IN Sound(y) /\ y.trans = x.trans
    <2> DEFINE e == Packet("response", rc, q, p.id, FALSE)
    <2>1. e \in SoundPackets /\ e.callback = FALSE
      <3>1. "response" \in {"request", "response", "confirmation"} /\ rc \in Commands \cup ReturnCodes
        BY <1>3
      <3>2. e \in SoundPackets
        BY <1>1, <1>3, <3>1, PacketSound
      <3> QED BY <3>2 DEF Packet
    <2> HIDE DEF e
    <2>2. Sound(sixtop_output(x, e)) /\ sixtop_output(x, e).trans = x.trans
      BY <1>3, <2>1, QuietOutput
    <2> QED BY <2>2 DEF send_back_error, e
  <1>4. CASE s.trans.state # "FREE"
    <2>1. r = send_back_error(s, "ERR_BUSY", p.seqno, p.id)
      BY <1>2, <1>4
    <2> QED BY <1>1, <1>3, <2>1 DEF ReturnCodes
  <1>5. CASE s.trans.state = "FREE"
    <2>1. Sound(reset) /\ reset.trans = s.trans
      BY <1>5, ResetSound, Constants
    <2> HIDE DEF reset
    <2>2. /\ got \in SoundNode /\ got.trans \in Transactions
          /\ got.trans.state = "INIT" /\ (got.trans.fresh => ~Outstanding(reset))
          /\ got.mac = reset.mac /\ got.rx = reset.rx /\ got.done = reset.done
      <3>1. reset \in SoundNode
        BY <2>1 DEF Sound
      <3>2. PICK x : x = got
        OBVIOUS
      <3> QED BY <1>1, <3>1, <3>2, AllocEffect
    <2> HIDE DEF got
    <2>3. "REQUEST_RECEIVED" \in States /\ CanTransit(got.trans, "REQUEST_RECEIVED")
      BY <2>2 DEF States, CanTransit
    <2>4. /\ received \in SoundNode /\ received.trans \in Transactions
          /\ received.trans.state = "REQUEST_RECEIVED"
          /\ (received.trans.fresh => ~Outstanding(reset))
          /\ received.mac = reset.mac /\ received.rx = reset.rx /\ received.done = reset.done
      BY <2>2, <2>3, TransitEffect
    <2> HIDE DEF received
    <2>5. received.trans.fresh => ~Outstanding(received)
      BY <2>4 DEF Outstanding
    <2>6. Own(received)
      <3>1. CASE received.trans.fresh
        BY <2>4, <2>5, <3>1, NoCallOwn
      <3>2. CASE ~received.trans.fresh
        BY <3>2 DEF Own
      <3> QED BY <3>1, <3>2
    <2>7. Sound(received)
      BY <2>1, <2>4, <2>6 DEF Sound, NoOverflow, Cleared
    <2>8. r = send_back_error(reset, "ERR_BUSY", p.seqno, p.id) =>
             Sound(r) /\ r.trans = s.trans
      <3>1. "ERR_BUSY" \in ReturnCodes
        BY DEF ReturnCodes
      <3> QED BY <1>1, <1>3, <2>1, <3>1
    <2>9. r = send_back_error(received, "ERR_SEQNUM", own, p.id) =>
             Sound(r) /\ r.trans.state = "REQUEST_RECEIVED"
      BY <1>1, <1>3, <2>4, <2>7, ZenonT(40) DEF ReturnCodes
    <2>10. r \in Answers(received) =>
             Sound(r) /\ r.trans.state \in {"REQUEST_RECEIVED", "TERMINATING"}
      BY <2>4, <2>5, <2>7, AnswersSound
    <2> QED BY <1>2, <1>5, <2>8, <2>9, <2>10, StateNames
  <1> QED BY <1>4, <1>5

LEMMA TransitSound ==
    ASSUME NEW s, Sound(s), s.trans \in Transactions,
           NEW new \in {"RESPONSE_RECEIVED", "CONFIRMATION_RECEIVED", "TERMINATING"}
    PROVE  LET r == Transit(s, new)
           IN  /\ Sound(r) /\ r.trans \in Transactions
               /\ r.trans.state = IF CanTransit(s.trans, new) THEN new ELSE "TERMINATING"
               /\ r.trans.state # "TERMINATING" /\ r.trans.fresh => ~Outstanding(r)
  <1> DEFINE r == Transit(s, new)
             to == IF CanTransit(s.trans, new) THEN new ELSE "TERMINATING"
  <1>1. s \in SoundNode /\ new \in States
    BY DEF Sound, States
  <1>2. /\ r \in SoundNode /\ r.trans \in Transactions
        /\ r.trans.state = to /\ r.next_seqno = SeqnoAfter(s, to)
        /\ r.trans.cmd = s.trans.cmd /\ r.trans.fresh = s.trans.fresh
        /\ r.mac = s.mac /\ r.rx = s.rx /\ r.done = s.done
    BY <1>1, TransitEffect
  <1> HIDE DEF r
  <1>3. SeqnoAfter(s, to) = s.next_seqno
    BY DEF SeqnoAfter
  <1>4. to # "TERMINATING" => s.trans.state \in {"REQUEST_SENT", "RESPONSE_SENT"}
    BY DEF CanTransit
  <1>5. Cleared(r)
    BY <1>2, <1>3, <1>4 DEF Sound, Cleared, CanTransit
  <1>6. r.trans.state # "TERMINATING" /\ r.trans.fresh => ~Outstanding(r)
    <2> SUFFICES ASSUME to # "TERMINATING", s.trans.fresh PROVE ~Outstanding(s)
      BY <1>2 DEF Outstanding
    <2>1. /\ \A i \in 1 .. Len(s.mac) : Waiting(s, s.mac[i])
          /\ \A i \in 1 .. Len(s.done) : Waiting(s, s.done[i].packet)
      BY <1>4 DEF Sound, Own
    <2>2. s.trans.state \notin DOMAIN Awaits
      BY <1>4, StateNames
    <2> QED BY <1>1, <2>1, <2>2, NoCall DEF Waiting
  <1>7. Own(r)
    <2>1. CASE r.trans.state # "TERMINATING" /\ r.trans.fresh
      BY <1>2, <1>6, <2>1, NoCallOwn
    <2>2. CASE ~(r.trans.state # "TERMINATING" /\ r.trans.fresh)
      BY <2>2 DEF Own
    <2> QED BY <2>1, <2>2
  <1>8. NoOverflow(r)
    BY <1>2 DEF Sound, NoOverflow
  <1> QED BY <1>2, <1>5, <1>6, <1>7, <1>8 DEF Sound, r

LEMMA AnswerInputSound ==
    ASSUME NEW s, Sound(s), NEW p, NEW r \in AnswerInput(s, p)
    PROVE  /\ Sound(r)
           /\ r.trans.state \in DOMAIN SentType => r.trans.state = s.trans.state
  <1> DEFINE new == IF p.type = "response" THEN "RESPONSE_RECEIVED" ELSE "CONFIRMATION_RECEIVED"
             x == Transit(s, new)
  <1>1. \/ r = s
        \/ s.trans.state # "FREE" /\ CanTransit(s.trans, new) /\ r \in Answers(x)
        \/ s.trans.state # "FREE" /\ ~CanTransit(s.trans, new) /\ r = x
    BY DEF AnswerInput
  <1>2. s \in SoundNode
    BY DEF Sound
  <1>3. CASE s.trans.state # "FREE"
    <2>1. s.trans \in Transactions
      BY <1>2, <1>3, NotFree
    <2>2. new \in {"RESPONSE_RECEIVED", "CONFIRMATION_RECEIVED"}
      OBVIOUS
    <2> HIDE DEF new
    <2>3. /\ Sound(x) /\ x.trans \in Transactions
          /\ x.trans.state = IF CanTransit(s.trans, new) THEN new ELSE "TERMINATING"
          /\ x.trans.state # "TERMINATING" /\ x.trans.fresh => ~Outstanding(x)
      BY <2>1, <2>2, TransitSound
    <2> HIDE DEF x
    <2>4. CanTransit(s.trans, new) /\ r \in Answers(x) =>
             Sound(r) /\ r.trans.state \in {new, "TERMINATING"}
      BY <2>2, <2>3, AnswersSound
    <2> QED BY <1>1, <2>2, <2>3, <2>4, StateNames
  <1>4. CASE s.trans.state = "FREE"
    BY <1>1, <1>4
  <1> QED BY <1>3, <1>4

LEMMA RequestOutputSound ==
    ASSUME NEW s, Sound(s), s.trans.state = "FREE", NEW id \in 1 .. MaxRequests,
           NEW cmd \in Commands, NEW memory \in BOOLEAN
    PROVE  LET r == RequestOutput(s, id, cmd, memory)
           IN  Sound(r) /\ r.trans.state \notin DOMAIN SentType
  <1> DEFINE seqno == IF s.next_seqno = NoNbr THEN 0 ELSE s.next_seqno
             q == IF cmd = "CLEAR" THEN 0 ELSE seqno
             ready == [s EXCEPT !.next_seqno = q]
             got == sixp_trans_alloc(ready, id, seqno, cmd)
             x == [got EXCEPT !.trans.callback = TRUE]
             p == Packet("request", cmd, seqno, id, TRUE)
  <1>1. seqno \in 0 .. MaxSeqno /\ q \in 0 .. MaxSeqno /\ (cmd = "CLEAR" => q = 0)
    BY NodeFields, Constants DEF Sound
  <1>2. RequestOutput(s, id, cmd, memory) = IF ~memory THEN ready ELSE sixtop_output(x, p)
    BY DEF RequestOutput
  <1> HIDE DEF seqno, q
  <1>3. Sound(ready) /\ ready.trans = s.trans /\ ready.next_seqno = q
    BY <1>1, ResetSound
  <1> HIDE DEF ready
  <1>4. /\ got \in SoundNode /\ got.trans \in Transactions
        /\ got.trans.state = "INIT" /\ got.trans.id = id /\ got.trans.cmd = cmd
        /\ (got.trans.fresh => ~Outstanding(ready)) /\ got.next_seqno = q
        /\ got.mac = ready.mac /\ got.rx = ready.rx /\ got.done = ready.done
    <2>1. ready \in SoundNode
      BY <1>3 DEF Sound
    <2>2. PICK y : y = got
      OBVIOUS
    <2> QED BY <1>1, <1>3, <2>1, <2>2, AllocEffect
  <1> HIDE DEF got
  <1>5. /\ x \in SoundNode /\ x.trans \in Transactions /\ x.trans.callback = TRUE
        /\ x.trans.state = "INIT" /\ x.trans.id = id /\ x.trans.cmd = cmd
        /\ (x.trans.fresh => ~Outstanding(ready)) /\ x.next_seqno = q
        /\ x.mac = ready.mac /\ x.rx = ready.rx /\ x.done = ready.done
    BY <1>4, CallbackUpdate
  <1> HIDE DEF x
  <1>6. x.trans.fresh => ~Outstanding(x)
    BY <1>5 DEF Outstanding
  <1>7. Own(x)
    <2>1. CASE x.trans.fresh
      BY <1>5, <1>6, <2>1, NoCallOwn
    <2>2. CASE ~x.trans.fresh
      BY <2>2 DEF Own
    <2> QED BY <2>1, <2>2
  <1>8. Sound(x)
    BY <1>1, <1>3, <1>5, <1>7 DEF Sound, NoOverflow, Cleared
  <1>9. p \in SoundPackets /\ p.callback = TRUE /\ p.id = id /\ p.type = "request"
    <2>1. "request" \in {"request", "response", "confirmation"} /\ cmd \in Commands \cup ReturnCodes
      OBVIOUS
    <2>2. p \in SoundPackets
      BY <1>1, <2>1, PacketSound
    <2> QED BY <2>2 DEF Packet
  <1> HIDE DEF p
  <1>10. Waiting(x, p)
    BY <1>5, <1>9, StateNames DEF Waiting
  <1>11. Sound(sixtop_output(x, p)) /\ sixtop_output(x, p).trans.state \in {"INIT", "TERMINATING"}
    BY <1>5, <1>6, <1>8, <1>9, <1>10, CallOutput
  <1> QED BY <1>2, <1>3, <1>11, StateNames

-----------------------------------------------------------------------------
(* The steps                                                                 *)

\* No transaction is newly in one of the SENT states
Quiet(s, r) == r.trans.state \in DOMAIN SentType => r.trans.state = s.trans.state

AllQuiet == \A m \in Nodes : Quiet(node[m], node[m]')

LEMMA NodeStep ==
    ASSUME IInv, NEW n \in Nodes, NEW s, Sound(s), node' = [node EXCEPT ![n] = s],
           ids' \in 0 .. MaxRequests, counted' \subseteq 1 .. MaxRequests,
           reboots' \in 0 .. MaxReboots
    PROVE  IInv' /\ (Quiet(node[n], s) => AllQuiet)
  <1>1. s \in SoundNode
    BY DEF Sound
  <1>2. /\ node' \in [Nodes -> SoundNode]
        /\ \A m \in Nodes : node'[m] = IF m = n THEN s ELSE node[m]
    BY <1>1 DEF IInv
  <1>3. \A m \in Nodes : Sound(node'[m])
    BY <1>2 DEF IInv
  <1>4. IInv'
    BY <1>2, <1>3 DEF IInv, Sound, NoOverflow, Cleared, Own, Single, Waiting
  <1>5. Quiet(node[n], s) => AllQuiet
    BY <1>2 DEF Quiet, AllQuiet
  <1> QED BY <1>4, <1>5

LEMMA NewNodeSound == Sound(NewNode) /\ \A s : Quiet(s, NewNode)
  <1>1. NewNode \in SoundNode
    BY DEF NewNode, SoundNode
  <1>2. /\ NewNode.trans = NoTrans /\ NewNode.mac = << >> /\ NewNode.rx = << >>
        /\ NewNode.done = << >> /\ NoTrans.state = "FREE" /\ NoTrans.cmd = "none"
    BY DEF NewNode, NoTrans
  <1>3. NoOverflow(NewNode)
    BY <1>2, Constants DEF NoOverflow
  <1> QED BY <1>1, <1>2, <1>3, StateNames DEF Sound, Cleared, Own, Quiet

LEMMA HandleRxSound ==
    ASSUME IInv, NEW n \in Nodes, HandleRx(n)
    PROVE  IInv' /\ AllQuiet
  <1> DEFINE x == [node[n] EXCEPT !.rx = Tail(@)]
             p == Head(node[n].rx)
  <1>1. node[n] \in SoundNode /\ Sound(node[n]) /\ node[n].rx \in Seq(SoundPackets) /\ node[n].rx # << >>
    BY NodeFields DEF IInv, HandleRx
  <1>2. Tail(node[n].rx) \in Seq(SoundPackets) /\ Len(Tail(node[n].rx)) = Len(node[n].rx) - 1
        /\ p \in SoundPackets
    BY <1>1, HeadTailProperties
  <1>3. /\ x \in SoundNode /\ x.trans = node[n].trans /\ x.next_seqno = node[n].next_seqno
        /\ x.mac = node[n].mac /\ x.rx = Tail(node[n].rx) /\ x.done = node[n].done
    BY <1>1, <1>2 DEF SoundNode
  <1>a. PICK memory \in BOOLEAN :
            \E s \in sixp_input(x, p, memory) : node' = [node EXCEPT ![n] = s]
    BY DEF HandleRx
  <1>4. PICK s \in sixp_input(x, p, memory) : node' = [node EXCEPT ![n] = s]
    BY <1>a
  <1>5. /\ ids' \in 0 .. MaxRequests /\ counted' \subseteq 1 .. MaxRequests
        /\ reboots' \in 0 .. MaxReboots
    BY DEF HandleRx, IInv
  <1> HIDE DEF x, p
  <1>6. Sound(x)
    <2>1. NoOverflow(x)
      BY <1>1, <1>2, <1>3, Constants DEF Sound, NoOverflow
    <2> QED BY <1>1, <1>3, <2>1 DEF Sound, Cleared, Own, Single, Waiting
  <1>7. Sound(s) /\ Quiet(x, s)
    <2>1. CASE p.type = "request"
      BY <1>2, <1>4, <1>6, <2>1, RequestInputSound DEF sixp_input, Quiet
    <2>2. CASE p.type # "request"
      BY <1>4, <1>6, <2>2, AnswerInputSound DEF sixp_input, Quiet
    <2> QED BY <2>1, <2>2
  <1>8. Quiet(node[n], s)
    BY <1>3, <1>7 DEF Quiet
  <1> QED BY <1>4, <1>5, <1>7, <1>8, NodeStep

LEMMA DoneTail ==
    ASSUME NEW s, Sound(s), s.done # << >>
    PROVE  LET d == Head(s.done)
               x == [s EXCEPT !.done = Tail(s.done)]
           IN  /\ d \in Reports /\ d = s.done[1] /\ Sound(x) /\ x.trans = s.trans
               /\ s.trans.fresh /\ s.trans.state \notin {"FREE", "TERMINATING"} /\ d.packet.callback
                     => ~Outstanding(x) /\ Waiting(s, d.packet)
  <1> DEFINE d == Head(s.done)
             t == Tail(s.done)
             x == [s EXCEPT !.done = Tail(s.done)]
  <1>1. s \in SoundNode /\ s.done \in Seq(Reports)
    BY NodeFields DEF Sound
  <1>2. /\ t \in Seq(Reports) /\ Len(t) = Len(s.done) - 1 /\ Len(s.done) \in Nat \ {0}
        /\ d \in Reports /\ d = s.done[1] /\ \A i \in 1 .. Len(t) : t[i] = s.done[i + 1]
    BY <1>1, HeadTailProperties
  <1>3. /\ x \in SoundNode /\ x.trans = s.trans /\ x.next_seqno = s.next_seqno
        /\ x.mac = s.mac /\ x.rx = s.rx /\ x.done = t
    BY <1>1, <1>2 DEF SoundNode
  <1> HIDE DEF x, t, d
  <1>4. \A i \in 1 .. Len(t) : i + 1 \in 1 .. Len(s.done) /\ i + 1 # 1 /\ t[i] = s.done[i + 1]
    BY <1>2
  <1>5. NoOverflow(x) /\ Cleared(x)
    BY <1>2, <1>3, Constants DEF Sound, NoOverflow, Cleared
  <1>6. Own(x)
    <2> SUFFICES ASSUME s.trans.fresh, s.trans.state \notin {"FREE", "TERMINATING"}
                 PROVE  /\ Single(x)
                        /\ \A i \in 1 .. Len(x.mac) : Waiting(x, x.mac[i])
                        /\ \A i \in 1 .. Len(x.done) : Waiting(x, x.done[i].packet)
      BY <1>3 DEF Own
    <2>1. /\ Single(s)
          /\ \A i \in 1 .. Len(s.mac) : Waiting(s, s.mac[i])
          /\ \A i \in 1 .. Len(s.done) : Waiting(s, s.done[i].packet)
      BY DEF Sound, Own
    <2>2. \A i, j \in 1 .. Len(t) : t[i].packet.callback /\ t[j].packet.callback => i = j
      <3>1. ASSUME NEW i \in 1 .. Len(t), NEW j \in 1 .. Len(t),
                   t[i].packet.callback, t[j].packet.callback
            PROVE  i = j
        <4>1. i + 1 = j + 1
          BY <1>4, <2>1, <3>1 DEF Single
        <4> QED BY <4>1
      <3> QED BY <3>1
    <2>3. Single(x)
      BY <1>3, <1>4, <2>1, <2>2 DEF Single
    <2> QED BY <1>3, <1>4, <2>1, <2>3 DEF Waiting
  <1>7. ASSUME s.trans.fresh, s.trans.state \notin {"FREE", "TERMINATING"}, d.packet.callback
        PROVE  ~Outstanding(x) /\ Waiting(s, d.packet)
    <2>1. /\ Single(s)
          /\ \A i \in 1 .. Len(s.mac) : Waiting(s, s.mac[i])
          /\ \A i \in 1 .. Len(s.done) : Waiting(s, s.done[i].packet)
      BY <1>7 DEF Sound, Own
    <2>2. 1 \in 1 .. Len(s.done) /\ s.done[1].packet.callback
      BY <1>2, <1>7
    <2>3. Waiting(s, d.packet)
      BY <1>2, <2>1, <2>2
    <2>4. \A i \in 1 .. Len(s.mac) : ~s.mac[i].callback
      BY <2>1, <2>2 DEF Single
    <2>5. \A i \in 1 .. Len(t) : ~t[i].packet.callback
      BY <1>4, <2>1, <2>2 DEF Single
    <2> QED BY <1>3, <2>3, <2>4, <2>5, NoCall
  <1> QED BY <1>2, <1>3, <1>5, <1>6, <1>7 DEF Sound, x, d, t

\* What OwnCallbacks says of one node
MovesByOwn(n) ==
    LET t == node[n].trans
        new == node'[n].trans.state
    IN  new \in DOMAIN SentType /\ new # t.state /\ t.fresh =>
            /\ node[n].done # << >> /\ t.callback
            /\ LET d == Head(node[n].done)
               IN  d.ok /\ d.packet.id = t.id /\ d.packet.type = SentType[new]

LEMMA HandleDoneSound ==
    ASSUME IInv, NEW n \in Nodes, HandleDone(n)
    PROVE  IInv' /\ \A m \in Nodes : MovesByOwn(m)
  <1> DEFINE s == node[n]
             d == Head(s.done)
             x == [s EXCEPT !.done = Tail(s.done)]
             r == IF d.packet.callback THEN mac_callback(x, d.ok) ELSE x
  <1>1. s \in SoundNode /\ Sound(s) /\ s.done # << >>
    BY DEF IInv, HandleDone
  <1>2. node' = [node EXCEPT ![n] = r] /\ UNCHANGED <<ids, reboots>>
    BY DEF HandleDone
  <1>3. /\ d \in Reports /\ Sound(x) /\ x.trans = s.trans
        /\ s.trans.fresh /\ s.trans.state \notin {"FREE", "TERMINATING"} /\ d.packet.callback
                     => ~Outstanding(x) /\ Waiting(s, d.packet)
    BY <1>1, DoneTail
  <1> HIDE DEF x, d
  <1>4. d.ok \in BOOLEAN /\ d.packet.callback \in BOOLEAN
    BY <1>3 DEF Reports, SoundPackets, Packets
  <1>5. CASE ~d.packet.callback
    <2>1. r = x
      BY <1>5
    <2> HIDE DEF r, s
    <2>2. Sound(r) /\ Quiet(s, r) /\ r.trans = s.trans
      BY <1>3, <2>1 DEF Quiet
    <2>3. node'[n] = r /\ counted' = IF r.trans.state = "REQUEST_SENT" /\ r.trans.cmd # "CLEAR"
                                     THEN counted \cup {r.trans.id} ELSE counted
      BY <1>2 DEF HandleDone, IInv
    <2>4. r.trans.state = "REQUEST_SENT" => r.trans.id \in 1 .. MaxRequests
      BY <2>2, NotFree DEF Sound, Transactions
    <2>5. /\ ids' \in 0 .. MaxRequests /\ counted' \subseteq 1 .. MaxRequests
          /\ reboots' \in 0 .. MaxReboots
      BY <1>2, <2>3, <2>4 DEF IInv
    <2>6. IInv' /\ AllQuiet
      BY <1>2, <2>2, <2>5, NodeStep DEF s
    <2> QED BY <2>6 DEF AllQuiet, Quiet, MovesByOwn
  <1>6. CASE d.packet.callback
    <2>1. r = mac_callback(x, d.ok)
      BY <1>6
    <2> HIDE DEF r, s
    <2>2. x \in SoundNode /\ Cleared(x)
      BY <1>3 DEF Sound
    <2>3. /\ r \in SoundNode /\ r.mac = x.mac /\ r.rx = x.rx /\ r.done = x.done
          /\ r.trans.id = x.trans.id /\ r.trans.fresh = x.trans.fresh /\ Cleared(r)
          /\ r.trans.state \in DOMAIN SentType =>
               \/ r.trans.state = x.trans.state
               \/ /\ d.ok /\ x.trans.state \in DOMAIN Awaits
                  /\ SentType[r.trans.state] = Awaits[x.trans.state]
      BY <1>4, <2>1, <2>2, CallbackEffect
    <2>f. x.trans.state \in {"FREE", "TERMINATING"} => r.trans.state \in {"FREE", "TERMINATING"}
      <3> SUFFICES ASSUME x.trans.state \in {"FREE", "TERMINATING"}
                   PROVE  r.trans.state = x.trans.state
        OBVIOUS
      <3>1. CASE x.trans.state = "FREE" \/ d.ok
        BY <2>1, <3>1 DEF mac_callback
      <3>2. CASE x.trans.state = "TERMINATING" /\ ~d.ok
        <4>1. r = [x EXCEPT !.trans.callback = FALSE] /\ x.trans \in Transactions
          BY <2>1, <2>2, <3>2, NotFree DEF mac_callback
        <4> QED BY <2>2, <4>1, CallbackUpdate
      <3> QED BY <1>4, <3>1, <3>2
    <2>4. Own(r)
      <3>1. CASE s.trans.fresh /\ s.trans.state \notin {"FREE", "TERMINATING"}
        <4>1. ~Outstanding(r)
          BY <1>3, <1>6, <2>3, <3>1 DEF Outstanding
        <4> QED BY <2>3, <4>1, NoCallOwn
      <3>2. CASE ~(s.trans.fresh /\ s.trans.state \notin {"FREE", "TERMINATING"})
        BY <1>3, <2>3, <2>f, <3>2 DEF Own
      <3> QED BY <3>1, <3>2
    <2>5. Sound(r)
      BY <1>3, <2>3, <2>4 DEF Sound, NoOverflow
    <2>6. node'[n] = r /\ counted' = IF r.trans.state = "REQUEST_SENT" /\ r.trans.cmd # "CLEAR"
                                     THEN counted \cup {r.trans.id} ELSE counted
      BY <1>2 DEF HandleDone, IInv
    <2>7. r.trans.state = "REQUEST_SENT" => r.trans.id \in 1 .. MaxRequests
      BY <2>3, NotFree DEF Transactions
    <2>8. /\ ids' \in 0 .. MaxRequests /\ counted' \subseteq 1 .. MaxRequests
          /\ reboots' \in 0 .. MaxReboots
      BY <1>2, <2>6, <2>7 DEF IInv
    <2>9. IInv'
      BY <1>2, <2>5, <2>8, NodeStep
    <2>10. MovesByOwn(n)
      <3> SUFFICES ASSUME r.trans.state \in DOMAIN SentType, r.trans.state # s.trans.state,
                          s.trans.fresh
                   PROVE  /\ s.done # << >> /\ s.trans.callback /\ d.ok
                          /\ d.packet.id = s.trans.id /\ d.packet.type = SentType[r.trans.state]
        BY <2>6 DEF MovesByOwn, s, d
      <3>1. /\ d.ok /\ s.trans.state \in DOMAIN Awaits
            /\ SentType[r.trans.state] = Awaits[s.trans.state]
        BY <1>3, <2>3
      <3>2. Waiting(s, d.packet)
        BY <1>3, <1>6, <3>1, StateNames
      <3> QED BY <1>1, <1>6, <3>1, <3>2 DEF Waiting
    <2>11. \A m \in Nodes : m # n => MovesByOwn(m)
      BY <1>2 DEF MovesByOwn, IInv
    <2> QED BY <2>9, <2>10, <2>11
  <1> QED BY <1>4, <1>5, <1>6

LEMMA StartRequestSound ==
    ASSUME IInv, NEW n \in Nodes, NEW cmd \in Commands, StartRequest(n, cmd)
    PROVE  IInv' /\ AllQuiet
  <1>1. Sound(node[n]) /\ node[n].trans.state = "FREE"
    BY DEF IInv, StartRequest
  <1>2. /\ ids' \in 1 .. MaxRequests /\ ids' \in 0 .. MaxRequests
        /\ counted' \subseteq 1 .. MaxRequests /\ reboots' \in 0 .. MaxReboots
    <2>1. ids \in 0 .. MaxRequests /\ ids < MaxRequests /\ ids' = ids + 1
      BY DEF StartRequest, IInv
    <2>2. counted' \subseteq 1 .. MaxRequests /\ reboots' \in 0 .. MaxReboots
      BY DEF StartRequest, IInv
    <2> QED BY <2>1, <2>2, Constants
  <1>3. PICK memory \in BOOLEAN :
            node' = [node EXCEPT ![n] = RequestOutput(node[n], ids', cmd, memory)]
    BY DEF StartRequest
  <1>4. PICK id \in 1 .. MaxRequests : id = ids'
    BY <1>2
  <1>5. PICK s : s = RequestOutput(node[n], id, cmd, memory)
    OBVIOUS
  <1>6. Sound(s) /\ s.trans.state \notin DOMAIN SentType
    BY <1>1, <1>5, RequestOutputSound
  <1>7. node' = [node EXCEPT ![n] = s] /\ Quiet(node[n], s)
    BY <1>3, <1>4, <1>5, <1>6 DEF Quiet
  <1> QED BY <1>2, <1>6, <1>7, NodeStep

LEMMA RepeatSound ==
    ASSUME IInv, NEW n \in Nodes, Repeat(n)
    PROVE  IInv' /\ AllQuiet
  <1> DEFINE s == node[n]
  <1>1. /\ s \in SoundNode /\ Sound(s) /\ s.trans.reply # "none" /\ ~s.trans.callback
        /\ UNCHANGED <<ids, counted, reboots>>
    BY DEF IInv, Repeat
  <1>2. PICK type : /\ \/ type = "response" /\ s.trans.state = "REQUEST_RECEIVED"
                       \/ type = "confirmation" /\ s.trans.state = "RESPONSE_RECEIVED"
                    /\ node' = [node EXCEPT ![n] = Reply(s, type, s.trans.reply)]
    BY DEF Repeat
  <1>3. s.trans \in Transactions
    BY <1>1, <1>2, NotFree
  <1>4. s.trans.reply \in {"SUCCESS", "ERR"}
    BY <1>1, <1>3 DEF Transactions
  <1> HIDE DEF s
  <1>5. s.trans.fresh => ~Outstanding(s)
    <2> SUFFICES ASSUME s.trans.fresh PROVE ~Outstanding(s)
      OBVIOUS
    <2>1. /\ \A i \in 1 .. Len(s.mac) : Waiting(s, s.mac[i])
          /\ \A i \in 1 .. Len(s.done) : Waiting(s, s.done[i].packet)
      BY <1>1, <1>2 DEF Sound, Own
    <2> QED BY <1>1, <2>1, NoCall DEF Waiting
  <1>6. PICK r : r = Reply(s, type, s.trans.reply)
    OBVIOUS
  <1>7. Sound(r) /\ r.trans.state \in {s.trans.state, "TERMINATING"}
    BY <1>1, <1>2, <1>3, <1>4, <1>5, <1>6, ReplySound
  <1>8. Quiet(node[n], r)
    BY <1>7, StateNames DEF Quiet, s
  <1>9. node' = [node EXCEPT ![n] = r]
    BY <1>2, <1>6
  <1>10. /\ ids' \in 0 .. MaxRequests /\ counted' \subseteq 1 .. MaxRequests
         /\ reboots' \in 0 .. MaxReboots
    BY <1>1 DEF IInv
  <1> QED BY <1>7, <1>8, <1>9, <1>10, NodeStep

LEMMA TimerSound ==
    ASSUME IInv, NEW n \in Nodes, handle_trans_timeout(n) \/ process_trans(n)
    PROVE  IInv' /\ AllQuiet
  <1> DEFINE s == node[n]
  <1>1. s \in SoundNode /\ Sound(s) /\ s.trans.timer \in {"timeout", "process"}
    BY DEF IInv, handle_trans_timeout, process_trans
  <1>2. /\ ids' \in 0 .. MaxRequests /\ counted' \subseteq 1 .. MaxRequests
        /\ reboots' \in 0 .. MaxReboots
    BY DEF IInv, handle_trans_timeout, process_trans
  <1>3. s.trans \in Transactions
    BY <1>1 DEF SoundNode, NoTrans
  <1>4. PICK r : /\ r \in {Transit(s, "TERMINATING"), Processed(s)}
                 /\ node' = [node EXCEPT ![n] = r]
    BY DEF handle_trans_timeout, process_trans
  <1> HIDE DEF s
  <1>5. CASE r = Transit(s, "TERMINATING")
    <2>1. Sound(r) /\ r.trans.state = "TERMINATING"
      BY <1>1, <1>3, <1>5, TransitSound DEF CanTransit
    <2>2. Quiet(node[n], r)
      BY <2>1, StateNames DEF Quiet
    <2> QED BY <1>2, <1>4, <2>1, <2>2, NodeStep
  <1>6. CASE r = [s EXCEPT !.trans = NoTrans]
    <2>1. /\ r \in SoundNode /\ r.trans = NoTrans /\ r.mac = s.mac /\ r.rx = s.rx /\ r.done = s.done
      BY <1>1, <1>6 DEF SoundNode
    <2>2. NoTrans.state = "FREE" /\ NoTrans.cmd = "none"
      BY DEF NoTrans
    <2>3. Sound(r) /\ Quiet(node[n], r)
      BY <1>1, <2>1, <2>2, StateNames DEF Sound, NoOverflow, Cleared, Own, Quiet
    <2> QED BY <1>2, <1>4, <2>3, NodeStep
  <1>7. CASE r = [s EXCEPT !.trans.timer = "timeout"]
    <2> DEFINE t == [s.trans EXCEPT !.timer = "timeout"]
    <2>1. /\ t \in Transactions /\ t.state = s.trans.state /\ t.cmd = s.trans.cmd /\ t.id = s.trans.id
          /\ t.callback = s.trans.callback /\ t.fresh = s.trans.fresh
      BY <1>3 DEF Transactions
    <2>2. r = [s EXCEPT !.trans = t]
      BY <1>7
    <2> HIDE DEF t
    <2>3. /\ r \in SoundNode /\ r.trans = t /\ r.next_seqno = s.next_seqno
          /\ r.mac = s.mac /\ r.rx = s.rx /\ r.done = s.done
      BY <1>1, <2>1, <2>2 DEF SoundNode
    <2>4. Sound(r)
      BY <1>1, <2>1, <2>3 DEF Sound, NoOverflow, Cleared, Own, Single, Waiting
    <2>5. Quiet(node[n], r)
      BY <2>1, <2>3 DEF Quiet, s
    <2> QED BY <1>2, <1>4, <2>4, <2>5, NodeStep
  <1>8. \/ r = Transit(s, "TERMINATING") \/ r = [s EXCEPT !.trans = NoTrans]
        \/ r = [s EXCEPT !.trans.timer = "timeout"]
    BY <1>4 DEF Processed
  <1> QED BY <1>5, <1>6, <1>7, <1>8

LEMMA RebootSound ==
    ASSUME IInv, NEW n \in Nodes, Reboot(n)
    PROVE  IInv' /\ AllQuiet
  <1>1. /\ ids' \in 0 .. MaxRequests /\ counted' \subseteq 1 .. MaxRequests
        /\ reboots' \in 0 .. MaxReboots /\ node' = [node EXCEPT ![n] = NewNode]
    BY Constants DEF Reboot, IInv
  <1> QED BY <1>1, NewNodeSound, NodeStep

\* The packet at the head of the MAC's queue, and its callback, move to the ring
LEMMA MacDone ==
    ASSUME NEW s, Sound(s), s.mac # << >>, Len(s.done) < RingSize, NEW ok \in BOOLEAN,
           NEW r, r = [s EXCEPT !.mac = Tail(s.mac),
                                !.done = Append(s.done, [packet |-> Head(s.mac), ok |-> ok])]
    PROVE  Sound(r) /\ r.trans = s.trans
  <1> DEFINE p == Head(s.mac)
             e == [packet |-> p, ok |-> ok]
             m == Tail(s.mac)
             d == Append(s.done, e)
  <1>1. s \in SoundNode /\ s.mac \in Seq(SoundPackets) /\ s.done \in Seq(Reports)
    BY NodeFields DEF Sound
  <1>2. /\ m \in Seq(SoundPackets) /\ Len(m) = Len(s.mac) - 1 /\ Len(s.mac) \in Nat \ {0}
        /\ p \in SoundPackets /\ p = s.mac[1] /\ \A i \in 1 .. Len(m) : m[i] = s.mac[i + 1]
    BY <1>1, HeadTailProperties
  <1>3. e \in Reports /\ e.packet = p
    BY <1>2 DEF Reports
  <1> HIDE DEF e, p, m
  <1>4. /\ d \in Seq(Reports) /\ Len(d) = Len(s.done) + 1 /\ Len(s.done) \in Nat
        /\ \A i \in 1 .. Len(s.done) : d[i] = s.done[i]
        /\ d[Len(s.done) + 1] = e
    BY <1>1, <1>3, AppendProperties
  <1>5. r = [s EXCEPT !.mac = m, !.done = d]
    BY DEF m, e, p
  <1> HIDE DEF d
  <1>6. /\ r \in SoundNode /\ r.trans = s.trans /\ r.next_seqno = s.next_seqno
        /\ r.mac = m /\ r.rx = s.rx /\ r.done = d
    BY <1>1, <1>2, <1>4, <1>5 DEF SoundNode
  <1>7. NoOverflow(r) /\ Cleared(r)
    <2>1. NoOverflow(r)
      BY <1>2, <1>4, <1>6, Constants, SMTT(20) DEF Sound, NoOverflow
    <2>2. Cleared(r)
      BY <1>6 DEF Sound, Cleared
    <2> QED BY <2>1, <2>2
  <1>8. Own(r)
    <2> SUFFICES ASSUME s.trans.fresh, s.trans.state \notin {"FREE", "TERMINATING"}
                 PROVE  /\ Single(r)
                        /\ \A i \in 1 .. Len(m) : Waiting(r, m[i])
                        /\ \A i \in 1 .. Len(d) : Waiting(r, d[i].packet)
      BY <1>6 DEF Own
    <2>1. /\ Single(s)
          /\ \A i \in 1 .. Len(s.mac) : Waiting(s, s.mac[i])
          /\ \A i \in 1 .. Len(s.done) : Waiting(s, s.done[i].packet)
      BY DEF Sound, Own
    <2>2. \A i \in 1 .. Len(m) : i + 1 \in 1 .. Len(s.mac) /\ i + 1 # 1 /\ m[i] = s.mac[i + 1]
      BY <1>2
    <2>3. \A i \in 1 .. Len(d) : \/ i \in 1 .. Len(s.done) /\ d[i] = s.done[i]
                                 \/ i = Len(s.done) + 1 /\ d[i].packet = s.mac[1]
      BY <1>2, <1>3, <1>4
    <2>4. 1 \in 1 .. Len(s.mac)
      BY <1>2
    <2>5. \A i, j \in 1 .. Len(m) : m[i].callback /\ m[j].callback => i = j
      <3>1. ASSUME NEW i \in 1 .. Len(m), NEW j \in 1 .. Len(m), m[i].callback, m[j].callback
            PROVE  i = j
        <4>1. i + 1 = j + 1
          BY <2>1, <2>2, <3>1 DEF Single
        <4> QED BY <4>1
      <3> QED BY <3>1
    <2>6. \A i, j \in 1 .. Len(d) : d[i].packet.callback /\ d[j].packet.callback => i = j
      <3>1. ASSUME NEW i \in 1 .. Len(d), NEW j \in 1 .. Len(d),
                   d[i].packet.callback, d[j].packet.callback
            PROVE  i = j
        BY <2>1, <2>3, <2>4, <3>1 DEF Single
      <3> QED BY <3>1
    <2>7. \A i \in 1 .. Len(m), j \in 1 .. Len(d) : ~(m[i].callback /\ d[j].packet.callback)
      <3>1. ASSUME NEW i \in 1 .. Len(m), NEW j \in 1 .. Len(d),
                   m[i].callback, d[j].packet.callback
            PROVE  FALSE
        BY <2>1, <2>2, <2>3, <2>4, <3>1 DEF Single
      <3> QED BY <3>1
    <2>8. Single(r)
      BY <1>6, <2>5, <2>6, <2>7, ZenonT(40) DEF Single
    <2>9. \A i \in 1 .. Len(m) : Waiting(r, m[i])
      BY <1>6, <2>1, <2>2 DEF Waiting
    <2>10. \A i \in 1 .. Len(d) : Waiting(r, d[i].packet)
      BY <1>6, <2>1, <2>3, <2>4 DEF Waiting
    <2> QED BY <2>8, <2>9, <2>10
  <1> QED BY <1>6, <1>7, <1>8 DEF Sound

LEMMA TransmitSound ==
    ASSUME IInv, NEW n \in Nodes, Transmit(n)
    PROVE  IInv' /\ AllQuiet
  <1> DEFINE p == Head(node[n].mac)
             m == Peer(n)
  <1>1. m \in Nodes /\ m # n
    BY Constants
  <1> HIDE DEF m
  <1>2. /\ Sound(node[n]) /\ node[n].mac # << >> /\ Len(node[n].done) < RingSize /\ Sound(node[m])
        /\ UNCHANGED <<ids, counted, reboots>>
    BY <1>1 DEF IInv, Transmit
  <1>3. PICK ok \in BOOLEAN, arrived \in BOOLEAN :
          /\ arrived => Len(node[m].rx) < RingSize
          /\ node' = [node EXCEPT ![n].mac = Tail(@),
                                  ![n].done = Append(@, [packet |-> p, ok |-> ok]),
                                  ![m].rx = IF arrived THEN Append(@, p) ELSE @]
    BY DEF Transmit, m
  <1>4. node \in [Nodes -> SoundNode] /\ node[n] \in SoundNode /\ node[m] \in SoundNode
    BY <1>1 DEF IInv
  <1>5. PICK r : r = [node[n] EXCEPT !.mac = Tail(node[n].mac),
                                     !.done = Append(node[n].done, [packet |-> p, ok |-> ok])]
    OBVIOUS
  <1>6. Sound(r) /\ r.trans = node[n].trans
    BY <1>2, <1>5, MacDone
  <1>7. PICK u : u = [node[m] EXCEPT !.rx = IF arrived THEN Append(node[m].rx, p) ELSE node[m].rx]
    OBVIOUS
  <1>8. Sound(u) /\ u.trans = node[m].trans
    <2> DEFINE x == IF arrived THEN Append(node[m].rx, p) ELSE node[m].rx
    <2>1. p \in SoundPackets /\ node[m].rx \in Seq(SoundPackets)
      BY <1>2, <1>4, NodeFields, HeadTailProperties
    <2> HIDE DEF p
    <2>2. x \in Seq(SoundPackets) /\ Len(x) <= RingSize
      BY <1>2, <1>3, <2>1, AppendProperties, Constants DEF Sound, NoOverflow
    <2>3. u = [node[m] EXCEPT !.rx = x]
      BY <1>7
    <2> HIDE DEF x
    <2>4. /\ u \in SoundNode /\ u.trans = node[m].trans /\ u.next_seqno = node[m].next_seqno
          /\ u.mac = node[m].mac /\ u.rx = x /\ u.done = node[m].done
      BY <1>4, <2>2, <2>3 DEF SoundNode
    <2>5. NoOverflow(u) /\ Cleared(u)
      BY <1>2, <2>2, <2>4 DEF Sound, NoOverflow, Cleared
    <2>6. Own(u)
      <3> DEFINE v == node[m]
      <3>1. u.trans = v.trans /\ u.mac = v.mac /\ u.done = v.done /\ Own(v)
        BY <1>2, <2>4 DEF Sound
      <3> HIDE DEF v
      <3> QED BY <3>1 DEF Own, Single, Waiting
    <2> QED BY <2>4, <2>5, <2>6 DEF Sound
  <1>9. /\ node'[n] = r /\ node'[m] = u /\ \A k \in Nodes : k # n /\ k # m => node'[k] = node[k]
        /\ DOMAIN node' = Nodes
    <2> HIDE DEF p
    <2>1. /\ node' = [k \in Nodes |-> IF k = n THEN r ELSE IF k = m THEN u ELSE node[k]]
      BY <1>1, <1>3, <1>4, <1>5, <1>7 DEF SoundNode
    <2> QED BY <1>1, <2>1
  <1>10. node' \in [Nodes -> SoundNode] /\ \A k \in Nodes : Sound(node'[k])
    <2>1. node' = [k \in Nodes |-> node'[k]]
      BY <1>3, <1>4
    <2>2. \A k \in Nodes : Sound(node'[k])
      BY <1>6, <1>8, <1>9 DEF IInv
    <2>3. \A k \in Nodes : node'[k] \in SoundNode
      BY <2>2 DEF Sound
    <2> QED BY <2>1, <2>2, <2>3
  <1>11. IInv'
    BY <1>2, <1>10 DEF IInv, Sound, NoOverflow, Cleared, Own, Single, Waiting
  <1>12. AllQuiet
    BY <1>6, <1>8, <1>9 DEF AllQuiet, Quiet
  <1> QED BY <1>11, <1>12

LEMMA NextSound ==
    ASSUME IInv, [Next]_vars
    PROVE  IInv' /\ \A m \in Nodes : MovesByOwn(m)
  <1>1. AllQuiet => \A m \in Nodes : MovesByOwn(m)
    BY DEF AllQuiet, Quiet, MovesByOwn
  <1>2. CASE UNCHANGED vars
    <2>1. IInv'
      BY <1>2 DEF IInv, vars, Sound, NoOverflow, Cleared, Own, Single, Waiting
    <2>2. AllQuiet
      BY <1>2 DEF AllQuiet, Quiet, vars
    <2> QED BY <1>1, <2>1, <2>2
  <1>3. ASSUME NEW n \in Nodes, Step(n)
        PROVE  IInv' /\ (AllQuiet \/ \A m \in Nodes : MovesByOwn(m))
    BY <1>3, HandleRxSound, HandleDoneSound, StartRequestSound, RepeatSound, TimerSound,
       TransmitSound, RebootSound DEF Step
  <1> QED BY <1>1, <1>2, <1>3 DEF Next

LEMMA SixpInvariant == Spec => []IInv
  <1>1. Init => IInv
    <2> SUFFICES ASSUME Init PROVE IInv
      OBVIOUS
    <2>1. \A n \in Nodes : node[n] = NewNode
      BY DEF Init
    <2>2. NewNode \in SoundNode
      BY NewNodeSound DEF Sound
    <2>3. node \in [Nodes -> SoundNode] /\ \A n \in Nodes : Sound(node[n])
      BY <2>1, <2>2, NewNodeSound DEF Init
    <2> QED BY <2>3, Constants DEF IInv, Init
  <1>2. IInv /\ [Next]_vars => IInv'
    BY NextSound
  <1> QED BY <1>1, <1>2, PTL DEF Spec

-----------------------------------------------------------------------------
(* A second invariant, on top of the first, for what the two ends know of    *)
(* the same request: where a node's own number stands in each state of its   *)
(* transaction, and that every copy of a request, in a queue, in a ring or   *)
(* in a transaction, has the number and the command it was sent with.        *)

\* The initiator's number is that of its request until the request is
\* acknowledged, and the one after it from then on.  The responder's follows
\* the request's once its response is acknowledged.  A response is sent only
\* when the numbers are consistent, in particular when 0 was expected.
Numbered(s) ==
    LET t == s.trans
    IN  /\ t.state = "REQUEST_RECEIVED" =>
               /\ t.callback => t.reply # "none"
               /\ t.reply # "none" /\ t.cmd # "CLEAR" /\ t.seqno = 0 => s.next_seqno \in {NoNbr, 0}
        /\ t.cmd # "CLEAR" =>
               /\ t.state = "INIT" => s.next_seqno = t.seqno
               /\ t.state \in {"REQUEST_SENT", "RESPONSE_RECEIVED", "CONFIRMATION_SENT"}
                     => s.next_seqno = Incremented(t.seqno)
               /\ t.state \in {"RESPONSE_SENT", "CONFIRMATION_RECEIVED"} /\ t.fresh
                     => s.next_seqno \in {NoNbr, Incremented(t.seqno)}

\* A book f of the requests made so far, k of them: their number and command
Books == [1 .. MaxRequests -> (0 .. MaxSeqno) \X (Commands \cup {"none"})]

Entered(f, k, p) == p.type = "request" => p.id <= k /\ f[p.id] = <<p.seqno, p.code>>

\* A transaction agrees with the book
Keeps(f, k, t) == t.state # "FREE" => t.id <= k /\ f[t.id] = <<t.seqno, t.cmd>>

Booked(f, k, s) == /\ \A i \in 1 .. Len(s.mac) : Entered(f, k, s.mac[i])
                   /\ \A i \in 1 .. Len(s.rx) : Entered(f, k, s.rx[i])
                   /\ Keeps(f, k, s.trans)

Fits(f, k, s) == Numbered(s) /\ Booked(f, k, s)

BookInv == \E f \in Books : \A n \in Nodes : Fits(f, ids, node[n])

\* What a failed transmission does to the transaction
LEMMA FailEffect ==
    ASSUME NEW s \in SoundNode, NEW r, r = mac_callback(s, FALSE)
    PROVE  /\ r.mac = s.mac /\ r.rx = s.rx /\ r.next_seqno = s.next_seqno
           /\ r.trans.state \in {s.trans.state, "TERMINATING"}
           /\ s.trans.state = "FREE" => r = s
           /\ r.trans.id = s.trans.id /\ r.trans.seqno = s.trans.seqno
           /\ r.trans.cmd = s.trans.cmd /\ r.trans.fresh = s.trans.fresh
           /\ r.trans.reply = s.trans.reply /\ (r.trans.callback => s.trans.callback)
  <1>1. CASE s.trans.state = "FREE"
    BY <1>1 DEF mac_callback
  <1>2. CASE s.trans.state # "FREE"
    <2>1. s.trans \in Transactions
      BY <1>2, NotFree
    <2> DEFINE x == IF s.trans.state = "INIT" THEN Transit(s, "TERMINATING") ELSE s
    <2>2. r = [x EXCEPT !.trans.callback = FALSE]
      BY <1>2 DEF mac_callback
    <2>3. /\ x \in SoundNode /\ x.trans \in Transactions
          /\ x.trans.state \in {s.trans.state, "TERMINATING"} /\ x.next_seqno = s.next_seqno
          /\ x.trans.id = s.trans.id /\ x.trans.seqno = s.trans.seqno /\ x.trans.cmd = s.trans.cmd
          /\ x.trans.fresh = s.trans.fresh /\ x.trans.reply = s.trans.reply
          /\ x.mac = s.mac /\ x.rx = s.rx
      <3>1. CASE s.trans.state = "INIT"
        <4>1. "TERMINATING" \in States /\ CanTransit(s.trans, "TERMINATING")
              /\ SeqnoAfter(s, "TERMINATING") = s.next_seqno
          BY DEF States, CanTransit, SeqnoAfter
        <4> QED BY <2>1, <3>1, <4>1, TransitEffect
      <3>2. CASE s.trans.state # "INIT"
        BY <2>1, <3>2
      <3> QED BY <3>1, <3>2
    <2> HIDE DEF x
    <2> DEFINE y == [x EXCEPT !.trans.callback = FALSE]
    <2>4. /\ y.trans.callback = FALSE
          /\ y.trans.state = x.trans.state /\ y.next_seqno = x.next_seqno
          /\ y.trans.id = x.trans.id /\ y.trans.seqno = x.trans.seqno
          /\ y.trans.cmd = x.trans.cmd
          /\ y.trans.reply = x.trans.reply /\ y.trans.fresh = x.trans.fresh
          /\ y.mac = x.mac /\ y.rx = x.rx
      <3>1. x \in SoundNode /\ x.trans \in Transactions /\ FALSE \in BOOLEAN
        BY <2>3
      <3> QED BY <3>1, CallbackUpdate
    <2>5. r = y
      BY <2>2
    <2> HIDE DEF y
    <2> QED BY <1>2, <2>3, <2>4, <2>5
  <1> QED BY <1>1, <1>2

\* Numbered and Keeps look at nothing else of a node
LEMMA SameFits ==
    ASSUME NEW s, NEW r, NEW f, NEW k, Numbered(s), Keeps(f, k, s.trans),
           r.next_seqno = s.next_seqno, r.trans.state \in {s.trans.state, "TERMINATING"},
           s.trans.state = "FREE" => r.trans.state = "FREE",
           r.trans.id = s.trans.id, r.trans.seqno = s.trans.seqno, r.trans.cmd = s.trans.cmd,
           r.trans.fresh = s.trans.fresh, r.trans.reply = s.trans.reply,
           r.trans.callback => s.trans.callback
    PROVE  Numbered(r) /\ Keeps(f, k, r.trans)
  <1>1. Numbered(r)
    <2>1. CASE r.trans.state = "TERMINATING"
      BY <2>1 DEF Numbered
    <2>2. CASE r.trans.state = s.trans.state
      BY <2>2 DEF Numbered
    <2> QED BY <2>1, <2>2
  <1>2. Keeps(f, k, r.trans)
    BY DEF Keeps
  <1> QED BY <1>1, <1>2

\* A packet that is sent
LEMMA OutputFits ==
    ASSUME NEW s \in SoundNode, NEW p \in SoundPackets, NEW f, NEW k, Fits(f, k, s),
           Entered(f, k, p)
    PROVE  Fits(f, k, sixtop_output(s, p))
  <1> DEFINE r == [s EXCEPT !.mac = Append(s.mac, p)]
             m == Append(s.mac, p)
             c == mac_callback(s, FALSE)
  <1>1. CASE Len(s.mac) < MacQueueSize
    <2>1. sixtop_output(s, p) = r
      BY <1>1 DEF sixtop_output
    <2>2. /\ Len(m) = Len(s.mac) + 1 /\ Len(s.mac) \in Nat
          /\ \A i \in 1 .. Len(s.mac) : m[i] = s.mac[i]
          /\ m[Len(s.mac) + 1] = p
      BY NodeFields, AppendProperties
    <2>3. r.trans = s.trans /\ r.next_seqno = s.next_seqno /\ r.mac = m /\ r.rx = s.rx
      BY DEF SoundNode
    <2> HIDE DEF r, m
    <2>4. \A i \in 1 .. Len(m) : (i \in 1 .. Len(s.mac) /\ m[i] = s.mac[i]) \/ m[i] = p
      BY <2>2
    <2>5. Numbered(r)
      BY <2>3 DEF Fits, Numbered
    <2>6. Booked(f, k, r)
      BY <2>3, <2>4 DEF Fits, Booked
    <2> QED BY <2>1, <2>5, <2>6 DEF Fits
  <1>2. CASE ~(Len(s.mac) < MacQueueSize) /\ p.callback
    <2>1. sixtop_output(s, p) = c
      BY <1>2 DEF sixtop_output
    <2>2. /\ c.mac = s.mac /\ c.rx = s.rx /\ c.next_seqno = s.next_seqno
          /\ c.trans.state \in {s.trans.state, "TERMINATING"}
          /\ s.trans.state = "FREE" => c = s
          /\ c.trans.id = s.trans.id /\ c.trans.seqno = s.trans.seqno
          /\ c.trans.cmd = s.trans.cmd /\ c.trans.fresh = s.trans.fresh
          /\ c.trans.reply = s.trans.reply /\ (c.trans.callback => s.trans.callback)
      BY FailEffect
    <2> HIDE DEF c
    <2>3. Numbered(c) /\ Keeps(f, k, c.trans)
      BY <2>2, SameFits DEF Fits, Booked
    <2> QED BY <2>1, <2>2, <2>3 DEF Fits, Booked
  <1>3. CASE ~(Len(s.mac) < MacQueueSize) /\ ~p.callback
    BY <1>3 DEF sixtop_output
  <1> QED BY <1>1, <1>2, <1>3

LEMMA ReplyFits ==
    ASSUME NEW s \in SoundNode, s.trans \in Transactions, NEW f, NEW k, Fits(f, k, s),
           NEW type, NEW code \in {"SUCCESS", "ERR"},
           \/ /\ type = "response" /\ s.trans.state = "REQUEST_RECEIVED"
              /\ s.trans.cmd # "CLEAR" /\ s.trans.seqno = 0 => s.next_seqno \in {NoNbr, 0}
           \/ type = "confirmation" /\ s.trans.state = "RESPONSE_RECEIVED"
    PROVE  Fits(f, k, Reply(s, type, code))
  <1>1. type \in {"response", "confirmation"}
    OBVIOUS
  <1>2. PICK x \in SoundNode, p \in SoundPackets : Replied(s, type, code, x, p)
    BY <1>1, ReplyReady
  <1>3. Numbered(x)
    BY <1>2 DEF Replied, Fits, Numbered
  <1>4. Booked(f, k, x)
    BY <1>2 DEF Replied, Fits, Booked, Keeps
  <1>5. Entered(f, k, p)
    BY <1>1, <1>2 DEF Replied, Entered
  <1>6. Fits(f, k, sixtop_output(x, p))
    BY <1>3, <1>4, <1>5, OutputFits DEF Fits
  <1> QED BY <1>2, <1>6 DEF Replied

LEMMA AnswersFits ==
    ASSUME NEW s \in SoundNode, s.trans \in Transactions, NEW f, NEW k, Fits(f, k, s),
           /\ s.trans.state = "REQUEST_RECEIVED" /\ s.trans.cmd # "CLEAR" /\ s.trans.seqno = 0
           => s.next_seqno \in {NoNbr, 0},
           NEW r \in Answers(s)
    PROVE  Fits(f, k, r)
  <1>1. \/ r = s
        \/ /\ s.trans.state = "REQUEST_RECEIVED"
           /\ \E rc \in {"SUCCESS", "ERR"} : r = Reply(s, "response", rc)
        \/ s.trans.state = "RESPONSE_RECEIVED" /\ r = Reply(s, "confirmation", "SUCCESS")
    BY DEF Answers
  <1> QED BY <1>1, ReplyFits

\* A transition that follows a received packet or the timer
LEMMA TransitFits ==
    ASSUME NEW s \in SoundNode, s.trans \in Transactions, NEW f, NEW k, Fits(f, k, s),
           NEW new \in {"RESPONSE_RECEIVED", "CONFIRMATION_RECEIVED", "TERMINATING"}
    PROVE  Fits(f, k, Transit(s, new))
  <1> DEFINE r == Transit(s, new)
             to == IF CanTransit(s.trans, new) THEN new ELSE "TERMINATING"
  <1>1. /\ r.trans.state = to /\ r.next_seqno = SeqnoAfter(s, to)
        /\ r.trans.id = s.trans.id /\ r.trans.seqno = s.trans.seqno
        /\ r.trans.cmd = s.trans.cmd /\ r.trans.fresh = s.trans.fresh
        /\ r.mac = s.mac /\ r.rx = s.rx
    BY TransitEffect DEF States
  <1> HIDE DEF r
  <1>2. SeqnoAfter(s, to) = s.next_seqno
    BY DEF SeqnoAfter
  <1>3. /\ to = "RESPONSE_RECEIVED" => s.trans.state = "REQUEST_SENT"
        /\ to = "CONFIRMATION_RECEIVED" => s.trans.state = "RESPONSE_SENT"
        /\ to \in {"RESPONSE_RECEIVED", "CONFIRMATION_RECEIVED", "TERMINATING"}
    BY DEF CanTransit
  <1> HIDE DEF to
  <1>4. Numbered(r)
    BY <1>1, <1>2, <1>3 DEF Fits, Numbered
  <1>5. s.trans.state # "FREE"
    BY DEF Transactions, States
  <1>6. Booked(f, k, r)
    BY <1>1, <1>5 DEF Fits, Booked, Keeps
  <1> QED BY <1>4, <1>6 DEF Fits, r

LEMMA AnswerInputFits ==
    ASSUME NEW s \in SoundNode, NEW f, NEW k, Fits(f, k, s), NEW p, NEW r \in AnswerInput(s, p)
    PROVE  Fits(f, k, r)
  <1> DEFINE new == IF p.type = "response" THEN "RESPONSE_RECEIVED" ELSE "CONFIRMATION_RECEIVED"
             x == Transit(s, new)
  <1>1. \/ r = s
        \/ s.trans.state # "FREE" /\ CanTransit(s.trans, new) /\ r \in Answers(x)
        \/ s.trans.state # "FREE" /\ r = x
    BY DEF AnswerInput
  <1>2. CASE s.trans.state # "FREE"
    <2>1. s.trans \in Transactions
      BY <1>2, NotFree
    <2>2. new \in {"RESPONSE_RECEIVED", "CONFIRMATION_RECEIVED"} /\ new \in States
      BY DEF States
    <2> HIDE DEF new
    <2>3. Fits(f, k, x)
      BY <2>1, <2>2, TransitFits
    <2>4. /\ x \in SoundNode /\ x.trans \in Transactions
          /\ CanTransit(s.trans, new) => x.trans.state = new
      BY <2>1, <2>2, TransitEffect
    <2> HIDE DEF x
    <2>5. CanTransit(s.trans, new) /\ r \in Answers(x) => Fits(f, k, r)
      BY <2>2, <2>3, <2>4, AnswersFits
    <2> QED BY <1>1, <2>3, <2>5
  <1>3. CASE s.trans.state = "FREE"
    BY <1>1, <1>3
  <1> QED BY <1>2, <1>3

LEMMA RequestInputFits ==
    ASSUME NEW s \in SoundNode, NEW f, NEW k, Fits(f, k, s), NEW p \in SoundPackets,
           p.type = "request", Entered(f, k, p), NEW memory \in BOOLEAN,
           NEW r \in RequestInput(s, p, memory)
    PROVE  Fits(f, k, r)
  <1> DEFINE reset == IF p.code = "CLEAR" /\ s.next_seqno # NoNbr
                      THEN [s EXCEPT !.next_seqno = 0] ELSE s
             got == sixp_trans_alloc(reset, p.id, p.seqno, p.code)
             received == Transit(got, "REQUEST_RECEIVED")
             own == IF s.next_seqno = NoNbr THEN 0 ELSE s.next_seqno
  <1>1. /\ p.id \in 1 .. MaxRequests /\ p.seqno \in 0 .. MaxSeqno /\ p.code \in Commands
        /\ s.next_seqno \in {NoNbr} \cup 0 .. MaxSeqno /\ own \in 0 .. MaxSeqno
    <2>1. p.id \in 1 .. MaxRequests /\ p.seqno \in 0 .. MaxSeqno /\ p.code \in Commands
      BY DEF SoundPackets, Packets
    <2>2. s.next_seqno \in {NoNbr} \cup 0 .. MaxSeqno
      BY NodeFields
    <2> QED BY <2>1, <2>2, Constants
  <1>2. \/ s.trans.state # "FREE" /\ r = send_back_error(s, "ERR_BUSY", p.seqno, p.id)
        \/ s.trans.state = "FREE" /\ r = send_back_error(reset, "ERR_BUSY", p.seqno, p.id)
        \/ s.trans.state = "FREE" /\ r = send_back_error(received, "ERR_SEQNUM", own, p.id)
        \/ s.trans.state = "FREE" /\ ~Inconsistent(s, p) /\ r \in Answers(received)
    BY DEF RequestInput
  <1> HIDE DEF own
  <1>3. ASSUME NEW x \in SoundNode, Fits(f, k, x), NEW rc \in ReturnCodes, NEW q \in 0 .. MaxSeqno
        PROVE  Fits(f, k, send_back_error(x, rc, q, p.id))
    <2> DEFINE e == Packet("response", rc, q, p.id, FALSE)
    <2>1. e \in SoundPackets /\ e.type = "response"
      <3>1. "response" \in {"request", "response", "confirmation"} /\ rc \in Commands \cup ReturnCodes
        BY <1>3
      <3>2. e \in SoundPackets
        BY <1>1, <1>3, <3>1, PacketSound
      <3> QED BY <3>2 DEF Packet
    <2> HIDE DEF e
    <2>2. Fits(f, k, sixtop_output(x, e))
      BY <1>3, <2>1, OutputFits DEF Entered
    <2> QED BY <2>2 DEF send_back_error, e
  <1>4. CASE s.trans.state # "FREE"
    <2>1. r = send_back_error(s, "ERR_BUSY", p.seqno, p.id)
      BY <1>2, <1>4
    <2> QED BY <1>1, <1>3, <2>1 DEF ReturnCodes
  <1>5. CASE s.trans.state = "FREE"
    <2>1. /\ reset \in SoundNode /\ reset.trans = s.trans
          /\ reset.mac = s.mac /\ reset.rx = s.rx
          /\ p.code # "CLEAR" => reset.next_seqno = s.next_seqno
      <3> DEFINE z == [s EXCEPT !.next_seqno = 0]
      <3>1. z \in SoundNode /\ z.trans = s.trans /\ z.mac = s.mac /\ z.rx = s.rx
        BY Constants DEF SoundNode
      <3> HIDE DEF z
      <3>2. (p.code = "CLEAR" /\ reset = z) \/ reset = s
        BY DEF z
      <3> HIDE DEF reset
      <3> QED BY <3>1, <3>2
    <2> HIDE DEF reset
    <2>2. Fits(f, k, reset)
      BY <1>5, <2>1 DEF Fits, Numbered, Booked
    <2>3. /\ got \in SoundNode /\ got.trans \in Transactions
          /\ got.trans.state = "INIT" /\ got.trans.id = p.id /\ got.trans.cmd = p.code
          /\ got.trans.seqno = p.seqno /\ ~got.trans.callback /\ got.trans.reply = "none"
          /\ got.next_seqno = reset.next_seqno
          /\ got.mac = reset.mac /\ got.rx = reset.rx
      <3>1. PICK x : x = got
        OBVIOUS
      <3>2. /\ x \in SoundNode /\ x.trans \in Transactions
            /\ x.trans.state = "INIT" /\ x.trans.id = p.id /\ x.trans.cmd = p.code
            /\ x.trans.seqno = p.seqno /\ ~x.trans.callback /\ x.trans.reply = "none"
            /\ x.next_seqno = reset.next_seqno /\ x.mac = reset.mac /\ x.rx = reset.rx
        <4>1. reset \in SoundNode
          BY <2>1
        <4>2. /\ p.id \in 1 .. MaxRequests /\ p.seqno \in 0 .. MaxSeqno /\ p.code \in Commands
          BY <1>1
        <4> QED BY <3>1, <4>1, <4>2, AllocEffect
      <3> HIDE DEF got
      <3> QED BY <3>1, <3>2
    <2> HIDE DEF got
    <2>4. /\ "REQUEST_RECEIVED" \in States /\ CanTransit(got.trans, "REQUEST_RECEIVED")
          /\ SeqnoAfter(got, "REQUEST_RECEIVED") = got.next_seqno
      BY <2>3 DEF States, CanTransit, SeqnoAfter
    <2>5. /\ received \in SoundNode /\ received.trans \in Transactions
          /\ received.trans.state = "REQUEST_RECEIVED" /\ received.trans.id = p.id
          /\ received.trans.cmd = p.code /\ received.trans.seqno = p.seqno
          /\ ~received.trans.callback /\ received.trans.reply = "none"
          /\ received.next_seqno = reset.next_seqno
          /\ received.mac = reset.mac /\ received.rx = reset.rx
      BY <2>3, <2>4, TransitEffect
    <2> HIDE DEF received
    <2>6. Numbered(received)
      BY <2>5 DEF Numbered
    <2>7. Booked(f, k, received)
      BY <2>2, <2>5 DEF Fits, Booked, Keeps, Entered
    <2>8. Fits(f, k, received)
      BY <2>6, <2>7 DEF Fits
    <2>9. r = send_back_error(reset, "ERR_BUSY", p.seqno, p.id) => Fits(f, k, r)
      BY <1>1, <1>3, <2>1, <2>2 DEF ReturnCodes
    <2>10. r = send_back_error(received, "ERR_SEQNUM", own, p.id) => Fits(f, k, r)
      BY <1>1, <1>3, <2>5, <2>8 DEF ReturnCodes
    <2>11. ~Inconsistent(s, p) /\ r \in Answers(received) => Fits(f, k, r)
      <3>1. ~Inconsistent(s, p) /\ p.code # "CLEAR" /\ p.seqno = 0 => s.next_seqno \in {NoNbr, 0}
        BY <1>1, Constants DEF Inconsistent, NoNbr
      <3>2. /\ ~Inconsistent(s, p) /\ received.trans.cmd # "CLEAR" /\ received.trans.seqno = 0
            => received.next_seqno \in {NoNbr, 0}
        BY <2>1, <2>5, <3>1
      <3> QED BY <2>5, <2>8, <3>2, AnswersFits
    <2> QED BY <1>2, <1>5, <2>9, <2>10, <2>11
  <1> QED BY <1>4, <1>5

\* The callback of a packet: of the transaction's own if it is fresh
LEMMA CallbackFits ==
    ASSUME NEW s \in SoundNode, NEW f, NEW k, Fits(f, k, s), NEW ok \in BOOLEAN,
           s.trans.fresh /\ s.trans.state = "REQUEST_RECEIVED" => s.trans.callback
    PROVE  Fits(f, k, mac_callback(s, ok))
  <1> DEFINE r == mac_callback(s, ok)
             state == s.trans.state
             sent == [INIT |-> "REQUEST_SENT", REQUEST_RECEIVED |-> "RESPONSE_SENT",
                      RESPONSE_RECEIVED |-> "CONFIRMATION_SENT"]
  <1>1. CASE ~ok
    <2>1. /\ r.mac = s.mac /\ r.rx = s.rx /\ r.next_seqno = s.next_seqno
          /\ r.trans.state \in {s.trans.state, "TERMINATING"}
          /\ s.trans.state = "FREE" => r = s
          /\ r.trans.id = s.trans.id /\ r.trans.seqno = s.trans.seqno
          /\ r.trans.cmd = s.trans.cmd /\ r.trans.fresh = s.trans.fresh
          /\ r.trans.reply = s.trans.reply /\ (r.trans.callback => s.trans.callback)
      BY <1>1, FailEffect
    <2> HIDE DEF r
    <2>2. Numbered(r) /\ Keeps(f, k, r.trans)
      BY <2>1, SameFits DEF Fits, Booked
    <2> QED BY <2>1, <2>2 DEF Fits, Booked, r
  <1>2. CASE ok /\ state \in DOMAIN sent
    <2>1. /\ DOMAIN sent = {"INIT", "REQUEST_RECEIVED", "RESPONSE_RECEIVED"}
          /\ sent["INIT"] = "REQUEST_SENT" /\ sent["REQUEST_RECEIVED"] = "RESPONSE_SENT"
          /\ sent["RESPONSE_RECEIVED"] = "CONFIRMATION_SENT"
      OBVIOUS
    <2>2. r = IF CanTransit(s.trans, sent[state])
              THEN [Transit(s, sent[state]) EXCEPT !.trans.callback = FALSE]
              ELSE Transit(s, "TERMINATING")
      BY <1>2, <2>1 DEF mac_callback
    <2> HIDE DEF sent, r
    <2>3. s.trans \in Transactions /\ s.trans.state # "FREE" /\ sent[state] \in States
      BY <1>2, <2>1, NotFree DEF States
    <2>4. CASE ~CanTransit(s.trans, sent[state])
      BY <2>2, <2>3, <2>4, TransitFits DEF r
    <2>5. CASE CanTransit(s.trans, sent[state])
      <3> DEFINE x == Transit(s, sent[state])
                 y == [x EXCEPT !.trans.callback = FALSE]
      <3>1. /\ x \in SoundNode /\ x.trans \in Transactions /\ FALSE \in BOOLEAN
            /\ x.trans.state = sent[state] /\ x.next_seqno = SeqnoAfter(s, sent[state])
            /\ x.trans.id = s.trans.id /\ x.trans.seqno = s.trans.seqno
            /\ x.trans.cmd = s.trans.cmd /\ x.trans.fresh = s.trans.fresh
            /\ x.mac = s.mac /\ x.rx = s.rx
        BY <2>3, <2>5, TransitEffect
      <3>2. r = y
        BY <2>2, <2>5
      <3> HIDE DEF x
      <3>3. /\ y.trans.state = x.trans.state /\ y.next_seqno = x.next_seqno
            /\ y.trans.id = x.trans.id /\ y.trans.seqno = x.trans.seqno
            /\ y.trans.cmd = x.trans.cmd /\ y.trans.fresh = x.trans.fresh
            /\ y.mac = x.mac /\ y.rx = x.rx
        BY <3>1, CallbackUpdate
      <3> HIDE DEF y
      <3>4. Booked(f, k, y)
        BY <2>3, <3>1, <3>3 DEF Fits, Booked, Keeps
      <3>5. s.trans.seqno \in 0 .. MaxSeqno
        BY <2>3 DEF Transactions
      <3>6. Numbered(y)
        <4> SUFFICES ASSUME s.trans.cmd # "CLEAR" PROVE Numbered(y)
          BY <1>2, <2>1, <3>1, <3>3 DEF Numbered
        <4>1. CASE state = "INIT"
          <5>1. s.next_seqno = s.trans.seqno /\ s.next_seqno # NoNbr
            BY <3>5, <4>1, Constants DEF Fits, Numbered, NoNbr
          <5>2. SeqnoAfter(s, "REQUEST_SENT") = Incremented(s.trans.seqno)
            BY <5>1 DEF SeqnoAfter
          <5> QED BY <2>1, <3>1, <3>3, <4>1, <5>2 DEF Numbered
        <4>2. CASE state = "REQUEST_RECEIVED"
          <5>1. s.trans.fresh /\ s.trans.seqno = 0 => s.next_seqno \in {NoNbr, 0}
            BY <4>2 DEF Fits, Numbered
          <5>2. s.trans.fresh =>
                  SeqnoAfter(s, "RESPONSE_SENT") \in {NoNbr, Incremented(s.trans.seqno)}
            BY <5>1 DEF SeqnoAfter
          <5> QED BY <2>1, <3>1, <3>3, <4>2, <5>2 DEF Numbered
        <4>3. CASE state = "RESPONSE_RECEIVED"
          <5>1. s.next_seqno = Incremented(s.trans.seqno)
            BY <4>3 DEF Fits, Numbered
          <5>2. SeqnoAfter(s, "CONFIRMATION_SENT") = s.next_seqno
            BY DEF SeqnoAfter
          <5> QED BY <2>1, <3>1, <3>3, <4>3, <5>1, <5>2 DEF Numbered
        <4> QED BY <1>2, <2>1, <4>1, <4>2, <4>3
      <3> QED BY <3>2, <3>4, <3>6 DEF Fits, r
    <2> QED BY <2>4, <2>5
  <1>3. CASE ok /\ state \notin DOMAIN sent
    BY <1>3 DEF mac_callback
  <1> QED BY <1>1, <1>2, <1>3

\* A new request goes into the book; what is there already stays in it
LEMMA RequestOutputFits ==
    ASSUME NEW s \in SoundNode, s.trans.state = "FREE", NEW f \in Books, NEW id \in 1 .. MaxRequests,
           Fits(f, id - 1, s), NEW cmd \in Commands, NEW memory \in BOOLEAN
    PROVE  \E g \in Books : /\ Fits(g, id, RequestOutput(s, id, cmd, memory))
                            /\ \A x \in SoundNode : Fits(f, id - 1, x) => Fits(g, id, x)
  <1> DEFINE seqno == IF s.next_seqno = NoNbr THEN 0 ELSE s.next_seqno
             q == IF cmd = "CLEAR" THEN 0 ELSE seqno
             ready == [s EXCEPT !.next_seqno = q]
             got == sixp_trans_alloc(ready, id, seqno, cmd)
             x == [got EXCEPT !.trans.callback = TRUE]
             p == Packet("request", cmd, seqno, id, TRUE)
             g == [f EXCEPT ![id] = <<seqno, cmd>>]
             r == RequestOutput(s, id, cmd, memory)
  <1>1. seqno \in 0 .. MaxSeqno /\ q \in 0 .. MaxSeqno /\ (cmd # "CLEAR" => q = seqno)
    BY NodeFields, Constants
  <1>2. r = IF ~memory THEN ready ELSE sixtop_output(x, p)
    BY DEF RequestOutput
  <1> HIDE DEF seqno, q, r
  <1>3. /\ g \in Books /\ g[id] = <<seqno, cmd>>
        /\ \A i \in 1 .. MaxRequests : i <= id - 1 => g[i] = f[i]
    BY <1>1, Constants DEF Books
  <1> HIDE DEF g
  <1>4. ASSUME NEW z \in SoundNode, Fits(f, id - 1, z)
        PROVE  Fits(g, id, z)
    <2>1. ASSUME NEW y \in SoundPackets, Entered(f, id - 1, y) PROVE Entered(g, id, y)
      <3>1. y.id \in 1 .. MaxRequests
        BY DEF SoundPackets, Packets
      <3> QED BY <1>3, <2>1, <3>1, Constants DEF Entered
    <2>2. Keeps(g, id, z.trans)
      <3>1. z.trans.state # "FREE" => z.trans.id \in 1 .. MaxRequests
        BY NotFree DEF Transactions
      <3> QED BY <1>3, <1>4, <3>1, Constants DEF Fits, Booked, Keeps
    <2>3. /\ \A i \in 1 .. Len(z.mac) : z.mac[i] \in SoundPackets
          /\ \A i \in 1 .. Len(z.rx) : z.rx[i] \in SoundPackets
      BY NodeFields
    <2> QED BY <1>4, <2>1, <2>2, <2>3 DEF Fits, Booked
  <1>5. /\ ready \in SoundNode /\ ready.trans = s.trans /\ ready.next_seqno = q
        /\ ready.mac = s.mac /\ ready.rx = s.rx
    BY <1>1 DEF SoundNode
  <1> HIDE DEF ready
  <1>6. Fits(g, id, s)
    BY <1>4
  <1>7. Fits(g, id, ready)
    BY <1>5, <1>6 DEF Fits, Numbered, Booked, Keeps
  <1>8. /\ got \in SoundNode /\ got.trans \in Transactions
        /\ got.trans.state = "INIT" /\ got.trans.id = id /\ got.trans.cmd = cmd
        /\ got.trans.seqno = seqno /\ got.next_seqno = q
        /\ got.mac = ready.mac /\ got.rx = ready.rx
    <2>1. PICK y : y = got
      OBVIOUS
    <2>2. /\ y \in SoundNode /\ y.trans \in Transactions
          /\ y.trans.state = "INIT" /\ y.trans.id = id /\ y.trans.cmd = cmd
          /\ y.trans.seqno = seqno /\ y.next_seqno = ready.next_seqno
          /\ y.mac = ready.mac /\ y.rx = ready.rx
      <3>1. ready \in SoundNode /\ seqno \in 0 .. MaxSeqno
        BY <1>1, <1>5
      <3> QED BY <2>1, <3>1, AllocEffect
    <2> HIDE DEF got
    <2> QED BY <1>5, <2>1, <2>2
  <1> HIDE DEF got
  <1>9. /\ x \in SoundNode
        /\ x.trans.state = "INIT" /\ x.trans.id = id /\ x.trans.cmd = cmd
        /\ x.trans.seqno = seqno /\ x.next_seqno = q
        /\ x.mac = ready.mac /\ x.rx = ready.rx
    BY <1>8, CallbackUpdate
  <1> HIDE DEF x
  <1>10. Numbered(x)
    BY <1>1, <1>9 DEF Numbered
  <1>11. Keeps(g, id, x.trans)
    BY <1>3, <1>9 DEF Keeps
  <1>12. Fits(g, id, x)
    BY <1>7, <1>9, <1>10, <1>11 DEF Fits, Booked
  <1>13. p \in SoundPackets /\ p.id = id /\ p.seqno = seqno /\ p.code = cmd
    <2>1. "request" \in {"request", "response", "confirmation"} /\ cmd \in Commands \cup ReturnCodes
      OBVIOUS
    <2>2. p \in SoundPackets
      BY <1>1, <2>1, PacketSound
    <2> QED BY <2>2 DEF Packet
  <1> HIDE DEF p
  <1>14. Entered(g, id, p)
    BY <1>3, <1>13 DEF Entered
  <1>15. Fits(g, id, sixtop_output(x, p))
    BY <1>9, <1>12, <1>13, <1>14, OutputFits
  <1>16. Fits(g, id, r)
    BY <1>2, <1>7, <1>15
  <1> QED BY <1>3, <1>4, <1>16 DEF r

\* What a step leaves is in a book
LEMMA InBook ==
    ASSUME NEW g \in Books, \A m \in Nodes : Fits(g, ids', node'[m])
    PROVE  BookInv'
  BY DEF BookInv, Fits, Numbered, Booked, Keeps, Entered, Books, Incremented, NoNbr

\* One node changes, and no request is new
LEMMA NodeFits ==
    ASSUME IInv, NEW f \in Books, \A m \in Nodes : Fits(f, ids, node[m]),
           NEW n \in Nodes, NEW s, Fits(f, ids, s), node' = [node EXCEPT ![n] = s], ids' = ids
    PROVE  BookInv'
  <1>1. \A m \in Nodes : node'[m] = IF m = n THEN s ELSE node[m]
    BY DEF IInv
  <1>2. \A m \in Nodes : Fits(f, ids', node'[m])
    BY <1>1
  <1> QED BY <1>2, InBook

\* A packet leaves the ring of received ones
LEMMA RxFits ==
    ASSUME NEW s \in SoundNode, s.rx # << >>, NEW f, NEW k, Fits(f, k, s),
           NEW x, x = [s EXCEPT !.rx = Tail(s.rx)]
    PROVE  /\ x \in SoundNode /\ Fits(f, k, x)
           /\ Head(s.rx) \in SoundPackets /\ Entered(f, k, Head(s.rx))
  <1> DEFINE t == Tail(s.rx)
  <1>1. /\ t \in Seq(SoundPackets) /\ Len(t) = Len(s.rx) - 1 /\ Len(s.rx) \in Nat \ {0}
        /\ Head(s.rx) \in SoundPackets /\ Head(s.rx) = s.rx[1]
        /\ \A i \in 1 .. Len(t) : t[i] = s.rx[i + 1]
    BY NodeFields, HeadTailProperties
  <1>2. /\ x \in SoundNode /\ x.trans = s.trans /\ x.next_seqno = s.next_seqno
        /\ x.mac = s.mac /\ x.rx = t
    BY <1>1 DEF SoundNode
  <1> HIDE DEF t
  <1>3. 1 \in 1 .. Len(s.rx) /\ \A i \in 1 .. Len(t) : i + 1 \in 1 .. Len(s.rx)
    BY <1>1
  <1>4. Entered(f, k, Head(s.rx))
    BY <1>1, <1>3 DEF Fits, Booked
  <1>5. \A i \in 1 .. Len(t) : Entered(f, k, t[i])
    BY <1>1, <1>3 DEF Fits, Booked
  <1>6. Numbered(x)
    BY <1>2 DEF Fits, Numbered
  <1>7. Booked(f, k, x)
    BY <1>2, <1>5 DEF Fits, Booked
  <1> QED BY <1>1, <1>2, <1>4, <1>6, <1>7 DEF Fits

\* A packet leaves the MAC's queue, or arrives in a ring
LEMMA MacFits ==
    ASSUME NEW s \in SoundNode, s.mac # << >>, NEW f, NEW k, Fits(f, k, s)
    PROVE  /\ \A d : Fits(f, k, [s EXCEPT !.mac = Tail(s.mac), !.done = d])
           /\ Head(s.mac) \in SoundPackets /\ Entered(f, k, Head(s.mac))
  <1> DEFINE t == Tail(s.mac)
  <1>1. /\ t \in Seq(SoundPackets) /\ Len(t) = Len(s.mac) - 1 /\ Len(s.mac) \in Nat \ {0}
        /\ Head(s.mac) \in SoundPackets /\ Head(s.mac) = s.mac[1]
        /\ \A i \in 1 .. Len(t) : t[i] = s.mac[i + 1]
    BY NodeFields, HeadTailProperties
  <1>2. ASSUME NEW d
        PROVE  LET x == [s EXCEPT !.mac = Tail(s.mac), !.done = d]
               IN  x.trans = s.trans /\ x.next_seqno = s.next_seqno /\ x.mac = t /\ x.rx = s.rx
    BY <1>1 DEF SoundNode
  <1> HIDE DEF t
  <1>3. 1 \in 1 .. Len(s.mac) /\ \A i \in 1 .. Len(t) : i + 1 \in 1 .. Len(s.mac)
    BY <1>1
  <1>4. Entered(f, k, Head(s.mac))
    BY <1>1, <1>3 DEF Fits, Booked
  <1>5. \A i \in 1 .. Len(t) : Entered(f, k, t[i])
    BY <1>1, <1>3 DEF Fits, Booked
  <1>6. ASSUME NEW d PROVE Fits(f, k, [s EXCEPT !.mac = Tail(s.mac), !.done = d])
    <2> DEFINE x == [s EXCEPT !.mac = Tail(s.mac), !.done = d]
    <2>1. x.trans = s.trans /\ x.next_seqno = s.next_seqno /\ x.mac = t /\ x.rx = s.rx
      BY <1>2
    <2> HIDE DEF x
    <2>2. Numbered(x)
      BY <2>1 DEF Fits, Numbered
    <2>3. Booked(f, k, x)
      BY <1>5, <2>1 DEF Fits, Booked
    <2> QED BY <2>2, <2>3 DEF Fits, x
  <1> QED BY <1>1, <1>4, <1>6

LEMMA ArrivalFits ==
    ASSUME NEW s \in SoundNode, NEW f, NEW k, Fits(f, k, s), NEW p \in SoundPackets, Entered(f, k, p)
    PROVE  Fits(f, k, [s EXCEPT !.rx = Append(s.rx, p)])
  <1> DEFINE r == [s EXCEPT !.rx = Append(s.rx, p)]
             m == Append(s.rx, p)
  <1>1. /\ Len(m) = Len(s.rx) + 1 /\ Len(s.rx) \in Nat
        /\ \A i \in 1 .. Len(s.rx) : m[i] = s.rx[i]
        /\ m[Len(s.rx) + 1] = p
    BY NodeFields, AppendProperties
  <1>2. r.trans = s.trans /\ r.next_seqno = s.next_seqno /\ r.mac = s.mac /\ r.rx = m
    BY DEF SoundNode
  <1> HIDE DEF r, m
  <1>3. \A i \in 1 .. Len(m) : (i \in 1 .. Len(s.rx) /\ m[i] = s.rx[i]) \/ m[i] = p
    BY <1>1
  <1>4. Numbered(r)
    BY <1>2 DEF Fits, Numbered
  <1>5. Booked(f, k, r)
    BY <1>2, <1>3 DEF Fits, Booked
  <1> QED BY <1>4, <1>5 DEF Fits, r

LEMMA NextFits ==
    ASSUME IInv, BookInv, [Next]_vars
    PROVE  BookInv'
  <1>1. PICK f \in Books : \A m \in Nodes : Fits(f, ids, node[m])
    BY DEF BookInv
  <1>2. \A m \in Nodes : node[m] \in SoundNode /\ Sound(node[m])
    BY DEF IInv
  <1>3. CASE UNCHANGED vars
    <2>1. \A m \in Nodes : Fits(f, ids', node'[m])
      BY <1>1, <1>3 DEF vars
    <2> QED BY <2>1, InBook
  <1>4. ASSUME NEW n \in Nodes, HandleRx(n) PROVE BookInv'
    <2> DEFINE x == [node[n] EXCEPT !.rx = Tail(@)]
               p == Head(node[n].rx)
    <2>1. /\ x \in SoundNode /\ Fits(f, ids, x) /\ p \in SoundPackets /\ Entered(f, ids, p)
      BY <1>1, <1>2, <1>4, RxFits DEF HandleRx
    <2>2. PICK memory \in BOOLEAN :
              \E s \in sixp_input(x, p, memory) : node' = [node EXCEPT ![n] = s]
      BY <1>4 DEF HandleRx
    <2>3. PICK s \in sixp_input(x, p, memory) : node' = [node EXCEPT ![n] = s]
      BY <2>2
    <2>4. ids' = ids
      BY <1>4 DEF HandleRx
    <2> HIDE DEF x, p
    <2>5. Fits(f, ids, s)
      <3>1. CASE p.type = "request"
        BY <2>1, <2>3, <3>1, RequestInputFits DEF sixp_input
      <3>2. CASE p.type # "request"
        BY <2>1, <2>3, <3>2, AnswerInputFits DEF sixp_input
      <3> QED BY <3>1, <3>2
    <2> QED BY <1>1, <2>3, <2>4, <2>5, NodeFits
  <1>5. ASSUME NEW n \in Nodes, HandleDone(n) PROVE BookInv'
    <2> DEFINE s == node[n]
               d == Head(s.done)
               x == [s EXCEPT !.done = Tail(s.done)]
               r == IF d.packet.callback THEN mac_callback(x, d.ok) ELSE x
    <2>1. /\ s \in SoundNode /\ Sound(s) /\ s.done # << >> /\ ids' = ids
          /\ node' = [node EXCEPT ![n] = r]
      BY <1>2, <1>5 DEF HandleDone
    <2>2. /\ d \in Reports /\ Sound(x) /\ x.trans = s.trans
          /\ s.trans.fresh /\ s.trans.state \notin {"FREE", "TERMINATING"} /\ d.packet.callback
                       => Waiting(s, d.packet)
      BY <2>1, DoneTail
    <2>3. x.next_seqno = s.next_seqno /\ x.mac = s.mac /\ x.rx = s.rx
      BY <2>1 DEF SoundNode
    <2>4. Fits(f, ids, s)
      BY <1>1
    <2> HIDE DEF x, d, s
    <2>5. Fits(f, ids, x)
      BY <2>2, <2>3, <2>4 DEF Fits, Numbered, Booked
    <2>6. d.ok \in BOOLEAN /\ d.packet.callback \in BOOLEAN /\ x \in SoundNode
      BY <2>2 DEF Reports, SoundPackets, Packets, Sound
    <2>7. CASE d.packet.callback
      <3>1. x.trans.fresh /\ x.trans.state = "REQUEST_RECEIVED" => x.trans.callback
        BY <2>2, <2>7 DEF Waiting
      <3>2. Fits(f, ids, mac_callback(x, d.ok))
        BY <2>5, <2>6, <3>1, CallbackFits
      <3> QED BY <1>1, <2>1, <2>7, <3>2, NodeFits
    <2>8. CASE ~d.packet.callback
      BY <1>1, <2>1, <2>5, <2>8, NodeFits
    <2> QED BY <2>7, <2>8
  <1>6. ASSUME NEW n \in Nodes, NEW cmd \in Commands, StartRequest(n, cmd) PROVE BookInv'
    <2>1. PICK memory \in BOOLEAN :
              node' = [node EXCEPT ![n] = RequestOutput(node[n], ids', cmd, memory)]
      BY <1>6 DEF StartRequest
    <2>2. node[n].trans.state = "FREE" /\ ids' = ids + 1 /\ ids' \in 1 .. MaxRequests
          /\ ids = ids' - 1
      BY <1>6, Constants DEF StartRequest, IInv
    <2>3. PICK id \in 1 .. MaxRequests : id = ids' /\ ids = id - 1
      BY <2>2
    <2>4. PICK s : s = RequestOutput(node[n], id, cmd, memory)
      OBVIOUS
    <2>5. Fits(f, id - 1, node[n])
      BY <1>1, <2>3
    <2>6. PICK g \in Books : Fits(g, id, s) /\ \A x \in SoundNode : Fits(f, id - 1, x) => Fits(g, id, x)
      BY <1>2, <2>2, <2>4, <2>5, RequestOutputFits
    <2>7. \A m \in Nodes : node'[m] = IF m = n THEN s ELSE node[m]
      BY <2>1, <2>3, <2>4 DEF IInv
    <2>8. \A m \in Nodes : Fits(g, ids', node'[m])
      BY <1>1, <1>2, <2>3, <2>6, <2>7
    <2> QED BY <2>8, InBook
  <1>7. ASSUME NEW n \in Nodes, Repeat(n) PROVE BookInv'
    <2> DEFINE s == node[n]
    <2>1. s.trans.reply # "none" /\ ids' = ids
      BY <1>7 DEF Repeat
    <2>2. PICK type : /\ \/ type = "response" /\ s.trans.state = "REQUEST_RECEIVED"
                         \/ type = "confirmation" /\ s.trans.state = "RESPONSE_RECEIVED"
                      /\ node' = [node EXCEPT ![n] = Reply(s, type, s.trans.reply)]
      BY <1>7 DEF Repeat
    <2>3. s \in SoundNode /\ s.trans \in Transactions /\ Fits(f, ids, s)
      BY <1>1, <1>2, <2>2, NotFree
    <2> HIDE DEF s
    <2>4. s.trans.reply \in {"SUCCESS", "ERR"}
      BY <2>1, <2>3 DEF Transactions
    <2>5. /\ s.trans.state = "REQUEST_RECEIVED" /\ s.trans.cmd # "CLEAR" /\ s.trans.seqno = 0
          => s.next_seqno \in {NoNbr, 0}
      BY <2>1, <2>3 DEF Fits, Numbered
    <2>6. Fits(f, ids, Reply(s, type, s.trans.reply))
      BY <2>2, <2>3, <2>4, <2>5, ReplyFits
    <2> QED BY <1>1, <2>1, <2>2, <2>6, NodeFits
  <1>8. ASSUME NEW n \in Nodes, handle_trans_timeout(n) \/ process_trans(n) PROVE BookInv'
    <2> DEFINE s == node[n]
    <2>1. s.trans.timer \in {"timeout", "process"} /\ ids' = ids
      BY <1>8 DEF handle_trans_timeout, process_trans
    <2>2. PICK r : /\ r \in {Transit(s, "TERMINATING"), Processed(s)}
                   /\ node' = [node EXCEPT ![n] = r]
      BY <1>8 DEF handle_trans_timeout, process_trans
    <2>3. s \in SoundNode /\ s.trans \in Transactions /\ Fits(f, ids, s)
      BY <1>1, <1>2, <2>1 DEF SoundNode, NoTrans
    <2> HIDE DEF s
    <2>4. CASE r = Transit(s, "TERMINATING")
      <3>1. Fits(f, ids, r)
        BY <2>3, <2>4, TransitFits
      <3> QED BY <1>1, <2>1, <2>2, <3>1, NodeFits
    <2>5. CASE r = [s EXCEPT !.trans = NoTrans]
      <3>1. r.trans = NoTrans /\ r.mac = s.mac /\ r.rx = s.rx /\ NoTrans.state = "FREE"
        BY <2>3, <2>5 DEF SoundNode, NoTrans
      <3>2. Fits(f, ids, r)
        BY <2>3, <3>1 DEF Fits, Numbered, Booked, Keeps
      <3> QED BY <1>1, <2>1, <2>2, <3>2, NodeFits
    <2>6. CASE r = [s EXCEPT !.trans.timer = "timeout"]
      <3> DEFINE t == [s.trans EXCEPT !.timer = "timeout"]
      <3>1. /\ t.state = s.trans.state /\ t.cmd = s.trans.cmd /\ t.id = s.trans.id
            /\ t.seqno = s.trans.seqno /\ t.reply = s.trans.reply
            /\ t.callback = s.trans.callback /\ t.fresh = s.trans.fresh
        BY <2>3 DEF Transactions
      <3>2. r = [s EXCEPT !.trans = t]
        BY <2>6
      <3> HIDE DEF t
      <3>3. r.trans = t /\ r.next_seqno = s.next_seqno /\ r.mac = s.mac /\ r.rx = s.rx
        BY <2>3, <3>2 DEF SoundNode
      <3>4. Numbered(r) /\ Keeps(f, ids, r.trans)
        BY <2>3, <3>1, <3>3 DEF Fits, Numbered, Booked, Keeps
      <3>5. Fits(f, ids, r)
        BY <2>3, <3>3, <3>4 DEF Fits, Booked
      <3> QED BY <1>1, <2>1, <2>2, <3>5, NodeFits
    <2>7. \/ r = Transit(s, "TERMINATING") \/ r = [s EXCEPT !.trans = NoTrans]
          \/ r = [s EXCEPT !.trans.timer = "timeout"]
      BY <2>2 DEF Processed
    <2> QED BY <2>4, <2>5, <2>6, <2>7
  <1>9. ASSUME NEW n \in Nodes, Transmit(n) PROVE BookInv'
    <2> DEFINE p == Head(node[n].mac)
               m == Peer(n)
    <2>1. m \in Nodes /\ m # n
      BY Constants
    <2>2. node[n].mac # << >> /\ ids' = ids
      BY <1>9 DEF Transmit
    <2>3. PICK ok \in BOOLEAN, arrived \in BOOLEAN :
            node' = [node EXCEPT ![n].mac = Tail(@),
                                 ![n].done = Append(@, [packet |-> p, ok |-> ok]),
                                 ![m].rx = IF arrived THEN Append(@, p) ELSE @]
      BY <1>9 DEF Transmit
    <2> HIDE DEF m
    <2>4. PICK r : r = [node[n] EXCEPT !.mac = Tail(node[n].mac),
                                       !.done = Append(node[n].done, [packet |-> p, ok |-> ok])]
      OBVIOUS
    <2>5. PICK u : u = [node[m] EXCEPT !.rx = IF arrived THEN Append(node[m].rx, p) ELSE node[m].rx]
      OBVIOUS
    <2>6. Fits(f, ids, r) /\ p \in SoundPackets /\ Entered(f, ids, p)
      BY <1>1, <1>2, <2>2, <2>4, MacFits
    <2> HIDE DEF p
    <2>7. Fits(f, ids, u)
      <3>1. CASE arrived
        BY <1>1, <1>2, <2>1, <2>5, <2>6, <3>1, ArrivalFits
      <3>2. CASE ~arrived
        <4>1. u = node[m]
          BY <1>2, <2>1, <2>5, <3>2 DEF SoundNode
        <4> QED BY <1>1, <2>1, <4>1
      <3> QED BY <3>1, <3>2
    <2>8. node' = [k \in Nodes |-> IF k = n THEN r ELSE IF k = m THEN u ELSE node[k]]
      BY <1>2, <2>1, <2>3, <2>4, <2>5 DEF IInv, SoundNode
    <2>9. \A k \in Nodes : Fits(f, ids', node'[k])
      BY <1>1, <2>2, <2>6, <2>7, <2>8
    <2> QED BY <2>9, InBook
  <1>10. ASSUME NEW n \in Nodes, Reboot(n) PROVE BookInv'
    <2>1. node' = [node EXCEPT ![n] = NewNode] /\ ids' = ids
      BY <1>10 DEF Reboot
    <2>2. Fits(f, ids, NewNode)
      BY DEF NewNode, NoTrans, Fits, Numbered, Booked, Keeps
    <2> QED BY <1>1, <2>1, <2>2, NodeFits
  <1> QED BY <1>3, <1>4, <1>5, <1>6, <1>7, <1>8, <1>9, <1>10 DEF Next, Step

LEMMA SixpBook == Spec => []BookInv
  <1>1. Init => BookInv
    <2> SUFFICES ASSUME Init PROVE BookInv
      OBVIOUS
    <2> DEFINE f == [i \in 1 .. MaxRequests |-> <<0, "none">>]
    <2>1. f \in Books
      BY Constants DEF Books
    <2>2. \A n \in Nodes : node[n] = NewNode
      BY DEF Init
    <2>3. Fits(f, ids, NewNode)
      BY DEF NewNode, NoTrans, Fits, Numbered, Booked, Keeps
    <2> HIDE DEF f
    <2> QED BY <2>1, <2>2, <2>3 DEF BookInv
  <1>2. IInv /\ BookInv /\ [Next]_vars => BookInv'
    BY NextFits
  <1> QED BY <1>1, <1>2, SixpInvariant, PTL DEF Spec

\* The type invariant: packets, transactions and sequence numbers have their
\* types, neither the MAC's queue nor its rings overflow, and every transaction
\* has its timer running, which alone ends it (process_trans,
\* start_trans_timer), whatever the peer and the SF do.
THEOREM SixpTypeCorrect == Spec => []SixpTypeOK
  <1>1. IInv => SixpTypeOK
    <2> SUFFICES ASSUME IInv PROVE SixpTypeOK
      OBVIOUS
    <2>1. SoundPackets \subseteq Packets /\ Reports \subseteq [packet : Packets, ok : BOOLEAN]
      BY DEF SoundPackets, Reports
    <2>2. SoundNode \subseteq NodeType
      <3>1. \A s \in Seq(SoundPackets) : s \in Seq(Packets)
        BY <2>1
      <3>2. \A s \in Seq(Reports) : s \in Seq([packet : Packets, ok : BOOLEAN])
        <4> DEFINE R == [packet : Packets, ok : BOOLEAN]
        <4>1. Reports \subseteq R
          BY <2>1
        <4> HIDE DEF R
        <4>2. \A s \in Seq(Reports) : s \in Seq(R)
          BY <4>1
        <4> QED BY <4>2 DEF R
      <3> QED BY <3>1, <3>2 DEF SoundNode, NodeType
    <2> QED BY <2>2 DEF IInv, SixpTypeOK, Sound, NoOverflow
  <1> QED BY <1>1, SixpInvariant, PTL

\* While the initiator of a CLEAR waits for its callback or its response, its
\* next sequence number is 0: what sixp_trans_transit_state asserts.
THEOREM SixpInitiatorCleared == Spec => []InitiatorCleared
  <1>1. IInv => InitiatorCleared
    BY DEF IInv, Sound, Cleared, InitiatorCleared
  <1> QED BY <1>1, SixpInvariant, PTL

\* When both ends have carried out a transaction other than CLEAR, they go on
\* with the same sequence number, although each counts on its own, on its own
\* callback (sixp_trans_transit_state), and packets are lost, repeated and
\* refused in between, and nodes reboot.
THEOREM SixpSeqnosAgree == Spec => []SeqnosAgree
  <1>1. IInv /\ BookInv => SeqnosAgree
    <2> SUFFICES ASSUME IInv, BookInv, NEW n \in Nodes, NEW m \in Nodes,
                        node[n].trans.id = node[m].trans.id, node[n].trans.cmd # "CLEAR",
                        node[m].next_seqno # NoNbr, node[m].trans.fresh,
                        node[n].trans.state \in {"REQUEST_SENT", "RESPONSE_RECEIVED",
                                                 "CONFIRMATION_SENT"},
                        node[m].trans.state \in {"RESPONSE_SENT", "CONFIRMATION_RECEIVED"}
                 PROVE  node[n].next_seqno = node[m].next_seqno
      BY Constants DEF SeqnosAgree
    <2>1. PICK f \in Books : Fits(f, ids, node[n]) /\ Fits(f, ids, node[m])
      BY DEF BookInv
    <2>2. <<node[n].trans.seqno, node[n].trans.cmd>> = <<node[m].trans.seqno, node[m].trans.cmd>>
      BY <2>1 DEF Fits, Booked, Keeps
    <2>3. node[n].trans.seqno = node[m].trans.seqno /\ node[m].trans.cmd # "CLEAR"
      BY <2>2
    <2>4. node[n].next_seqno = Incremented(node[n].trans.seqno)
      BY <2>1 DEF Fits, Numbered
    <2>5. node[m].next_seqno = Incremented(node[m].trans.seqno)
      BY <2>1, <2>3 DEF Fits, Numbered
    <2> QED BY <2>3, <2>4, <2>5
  <1> QED BY <1>1, SixpInvariant, SixpBook, PTL

\* mac_callback moves a transaction into a SENT state only for its own packet,
\* although the MAC's pointer is to a cell that may be in use again.
THEOREM SixpOwnCallbacks == Spec => OwnCallbacks
  <1>1. IInv /\ [Next]_vars => [\A n \in Nodes : MovesByOwn(n)]_vars
    BY NextSound
  <1> QED BY <1>1, SixpInvariant, PTL DEF Spec, OwnCallbacks, MovesByOwn
=============================================================================
