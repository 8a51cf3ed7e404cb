------------------------------ MODULE SixpTrans ------------------------------
(***************************************************************************)
(* 6P transactions between two nodes (sixtop/): the transaction state      *)
(* machine of sixp-trans.c with its timer, the sequence numbers of         *)
(* sixp-nbr.c, and sixp.c, which moves both when a packet is sent, was     *)
(* sent or is received.  Either node may start a transaction, the other    *)
(* one answers, in three steps a confirmation follows.                     *)
(*                                                                         *)
(* The MAC below is TSCH: a queue per neighbor, a sent callback per        *)
(* packet, duplicates dropped (TschQueue, TschLinkLayer).  The interrupt   *)
(* leaves received and sent packets in two rings, and the polled process   *)
(* takes the received ones first.  The rings are emptied before the next   *)
(* event is handled, so timers and the SF run only when both are empty.    *)
(*                                                                         *)
(* The scheduling function (SF) is the application's: it answers a request *)
(* at once, as the SFs in examples/6tisch do, or not at all, and may       *)
(* repeat an answer that was not acknowledged.  Both ends have the SF, and *)
(* sixp-nbr.c has room for the peer; the pool of transactions may be full. *)
(***************************************************************************)
EXTENDS Integers, Sequences, SequencesExt

CONSTANTS
    Nodes,          \* the two ends
    Commands,       \* what the SFs ask for
    MaxSeqno,       \* the largest sequence number, 255 in the code
    MacQueueSize, RingSize,     \* capacity of the MAC's queue and of its two rings
    MaxRequests,    \* bound on the number of requests
    MaxReboots      \* bound on the number of reboots

ASSUME SixpAssumption == /\ \E a, b \in Nodes : a # b /\ Nodes = {a, b}
                         /\ Commands \subseteq {"ADD", "ADD_NO_CELLS", "COUNT", "CLEAR"}
                         /\ MaxSeqno \in Nat \ {0} /\ {MacQueueSize, RingSize} \subseteq Nat \ {0}
                         /\ MaxRequests \in Nat /\ MaxReboots \in Nat

VARIABLES
    node,       \* what each node keeps, see NodeType
    ids,        \* the number of requests so far; a request's number is its id
    counted,    \* ids of the requests that used up their sequence number, since
                \* the numbers were last reset
    reboots

vars == <<node, ids, counted, reboots>>

Peer(n) == CHOOSE m \in Nodes : m # n

NoNbr == -1         \* next_seqno of a neighbor that sixp-nbr.c does not know
ReturnCodes == {"SUCCESS", "ERR", "ERR_BUSY", "ERR_SEQNUM"}
States == {"INIT", "REQUEST_SENT", "REQUEST_RECEIVED", "RESPONSE_SENT", "RESPONSE_RECEIVED",
           "CONFIRMATION_SENT", "CONFIRMATION_RECEIVED", "TERMINATING"}

\* No transaction: a cell that was freed keeps its last state, TERMINATING,
\* in which a callback changes nothing
NoTrans == [state |-> "FREE", id |-> 0, seqno |-> 0, cmd |-> "none", mode |-> 2,
            callback |-> FALSE, timer |-> "none", reply |-> "none", fresh |-> TRUE]

\* After sixp_init, when TSCH starts
NewNode == [trans |-> NoTrans, next_seqno |-> NoNbr, mac |-> << >>, rx |-> << >>, done |-> << >>]

Init == /\ node = [n \in Nodes |-> NewNode]
        /\ ids = 0 /\ counted = {} /\ reboots = 0

-----------------------------------------------------------------------------
(* sixp-trans.c and sixp-nbr.c: from what a node keeps, s, to what it keeps  *)
(* afterwards                                                                *)

\* Add or Delete with an empty cell list
determine_trans_mode(cmd) == IF cmd = "ADD_NO_CELLS" THEN 3 ELSE 2

\* sixp_nbr_increment_next_seqno: 0 is left out when the number wraps
Incremented(seqno) == IF seqno = MaxSeqno THEN 1 ELSE seqno + 1

\* The MAC still holds packets whose callback refers to the transaction's cell
Outstanding(s) == \/ \E p \in ToSet(s.mac) : p.callback
                  \/ \E d \in ToSet(s.done) : d.packet.callback

\* sixp_trans_alloc, with the timer started; the SF has not replied yet
sixp_trans_alloc(s, id, seqno, cmd) ==
    [s EXCEPT !.trans = [state |-> "INIT", id |-> id, seqno |-> seqno, cmd |-> cmd,
                         mode |-> determine_trans_mode(cmd), callback |-> FALSE,
                         timer |-> "timeout", reply |-> "none", fresh |-> ~Outstanding(s)]]

CanTransit(t, new) ==
    \/ new = "TERMINATING"
    \/ new \in {"REQUEST_SENT", "REQUEST_RECEIVED"} /\ t.state = "INIT"
    \/ new = "RESPONSE_SENT" /\ t.state = "REQUEST_RECEIVED"
    \/ new = "RESPONSE_RECEIVED" /\ t.state = "REQUEST_SENT"
    \/ new = "CONFIRMATION_RECEIVED" /\ t.state = "RESPONSE_SENT" /\ t.mode = 3
    \/ new = "CONFIRMATION_SENT" /\ t.state = "RESPONSE_RECEIVED" /\ t.mode = 3

\* Faulty variant: the responder counts on from its own number
seqnoOwnCount(s, new) ==
    IF s.next_seqno = NoNbr THEN NoNbr
    ELSE IF (new = "REQUEST_SENT" /\ s.trans.cmd # "CLEAR") \/ new = "RESPONSE_SENT"
         THEN Incremented(s.next_seqno)
    ELSE s.next_seqno

\* The neighbor's next_seqno after a transition to new
SeqnoAfter(s, new) ==
    IF s.next_seqno = NoNbr THEN NoNbr
    ELSE IF new = "REQUEST_SENT" /\ s.trans.cmd # "CLEAR" THEN Incremented(s.next_seqno)
    ELSE IF new = "RESPONSE_SENT"
         THEN Incremented(IF s.trans.seqno # 0 THEN s.trans.seqno ELSE s.next_seqno)
    ELSE s.next_seqno

\* sixp_trans_transit_state: a legal transition also has the transaction
\* processed at once; an illegal one is refused and every caller then
\* terminates the transaction
Transit(s, new) ==
    LET to == IF CanTransit(s.trans, new) THEN new ELSE "TERMINATING"
    IN  [s EXCEPT !.next_seqno = SeqnoAfter(s, to), !.trans.state = to, !.trans.timer = "process"]

Completed(t) == \/ t.state \in {"RESPONSE_SENT", "RESPONSE_RECEIVED"} /\ t.mode = 2
                \/ t.state \in {"CONFIRMATION_SENT", "CONFIRMATION_RECEIVED"}

\* Faulty variant: the timer is not started again
processOnly(s) ==
    IF s.trans.state = "TERMINATING" THEN [s EXCEPT !.trans = NoTrans]
    ELSE IF Completed(s.trans) THEN Transit(s, "TERMINATING")
    ELSE [s EXCEPT !.trans.timer = "none"]

\* process_trans
Processed(s) ==
    IF s.trans.state = "TERMINATING" THEN [s EXCEPT !.trans = NoTrans]
    ELSE IF Completed(s.trans) THEN Transit(s, "TERMINATING")
    ELSE [s EXCEPT !.trans.timer = "timeout"]

-----------------------------------------------------------------------------
(* sixp.c *)

Packet(type, code, seqno, id, callback) ==
    [type |-> type, code |-> code, seqno |-> seqno, id |-> id, callback |-> callback]

\* mac_callback: the transaction is the one that is in the cell now
mac_callback(s, ok) ==
    LET sent == [INIT |-> "REQUEST_SENT", REQUEST_RECEIVED |-> "RESPONSE_SENT",
                 RESPONSE_RECEIVED |-> "CONFIRMATION_SENT"]
        state == s.trans.state
        told(r) == [r EXCEPT !.trans.callback = FALSE]
    IN  IF state = "FREE" \/ (ok /\ state \notin DOMAIN sent) THEN s
        ELSE IF ok THEN IF CanTransit(s.trans, sent[state]) THEN told(Transit(s, sent[state]))
                        ELSE Transit(s, "TERMINATING")
        ELSE told(IF state = "INIT" THEN Transit(s, "TERMINATING") ELSE s)

\* sixtop_output: a full queue reports the failure at once
sixtop_output(s, p) ==
    IF Len(s.mac) < MacQueueSize THEN [s EXCEPT !.mac = Append(@, p)]
    ELSE IF p.callback THEN mac_callback(s, FALSE)
    ELSE s

\* Faulty variant: the transaction is told how the error's transmission went
errorWithCallback(s, rc, seqno, id) ==
    sixtop_output(s, Packet("response", rc, seqno, id, TRUE))

\* send_back_error: nobody is told how the transmission went
send_back_error(s, rc, seqno, id) ==
    sixtop_output(s, Packet("response", rc, seqno, id, FALSE))

\* sixp_output of a response or a confirmation to the transaction's peer.  A
\* neighbor is allocated for a successful Add or Delete.
Reply(s, type, code) ==
    LET t == s.trans
        known == IF /\ s.next_seqno = NoNbr /\ type = "response" /\ code = "SUCCESS"
                    /\ t.cmd \in {"ADD", "ADD_NO_CELLS"}
                 THEN 0 ELSE s.next_seqno
    IN  sixtop_output([s EXCEPT !.next_seqno = known, !.trans.callback = TRUE,
                                !.trans.reply = code],
                      Packet(type, code, t.seqno, t.id, TRUE))

\* sf->input: the SF answers a request, confirms a response, or does nothing
Answers(s) == {s} \cup CASE s.trans.state = "REQUEST_RECEIVED" ->
                                {Reply(s, "response", rc) : rc \in {"SUCCESS", "ERR"}}
                         [] s.trans.state = "RESPONSE_RECEIVED" /\ s.trans.mode = 3 ->
                                {Reply(s, "confirmation", "SUCCESS")}
                         [] OTHER -> {}

\* Does the number tell that this node or the peer has lost its state?
Inconsistent(s, p) == /\ p.code # "CLEAR"
                      /\ \/ s.next_seqno = NoNbr /\ p.seqno # 0
                         \/ s.next_seqno > 0 /\ p.seqno = 0

\* sixp_input of a request.  memory: has the pool, shared with other peers, a
\* free cell?
RequestInput(s, p, memory) ==
    LET reset == IF p.code = "CLEAR" /\ s.next_seqno # NoNbr
                 THEN [s EXCEPT !.next_seqno = 0] ELSE s
        received == Transit(sixp_trans_alloc(reset, p.id, p.seqno, p.code), "REQUEST_RECEIVED")
    IN  IF s.trans.state # "FREE" THEN {send_back_error(s, "ERR_BUSY", p.seqno, p.id)}
        ELSE IF ~memory THEN {send_back_error(reset, "ERR_BUSY", p.seqno, p.id)}
        ELSE IF Inconsistent(s, p)
             THEN {send_back_error(received, "ERR_SEQNUM",
                                   IF s.next_seqno = NoNbr THEN 0 ELSE s.next_seqno, p.id)}
        ELSE Answers(received)

\* Faulty variant: the number of a response is not looked at
answerInputAnySeqno(s, p) ==
    IF s.trans.state = "FREE" THEN {s}
    ELSE LET new == IF p.type = "response" THEN "RESPONSE_RECEIVED" ELSE "CONFIRMATION_RECEIVED"
         IN  IF CanTransit(s.trans, new) THEN Answers(Transit(s, new)) ELSE {Transit(s, new)}

\* sixp_input of a response or a confirmation
AnswerInput(s, p) ==
    IF s.trans.state = "FREE" \/ s.trans.seqno # p.seqno THEN {s}
    ELSE LET new == IF p.type = "response" THEN "RESPONSE_RECEIVED" ELSE "CONFIRMATION_RECEIVED"
         IN  IF CanTransit(s.trans, new) THEN Answers(Transit(s, new)) ELSE {Transit(s, new)}

sixp_input(s, p, memory) ==
    IF p.type = "request" THEN RequestInput(s, p, memory) ELSE AnswerInput(s, p)

\* Faulty variant: CLEAR is sent without a reset of the number
requestKeepsSeqno(s, id, cmd, memory) ==
    LET seqno == IF s.next_seqno = NoNbr THEN 0 ELSE s.next_seqno
        ready == [s EXCEPT !.next_seqno = seqno]
    IN  IF ~memory THEN ready
        ELSE sixtop_output([sixp_trans_alloc(ready, id, seqno, cmd) EXCEPT !.trans.callback = TRUE],
                           Packet("request", cmd, seqno, id, TRUE))

\* sixp_output of a request: the number is read before CLEAR resets it, and
\* the reset stays if there is no memory for the transaction
RequestOutput(s, id, cmd, memory) ==
    LET seqno == IF s.next_seqno = NoNbr THEN 0 ELSE s.next_seqno
        ready == [s EXCEPT !.next_seqno = IF cmd = "CLEAR" THEN 0 ELSE seqno]
    IN  IF ~memory THEN ready
        ELSE sixtop_output([sixp_trans_alloc(ready, id, seqno, cmd) EXCEPT !.trans.callback = TRUE],
                           Packet("request", cmd, seqno, id, TRUE))

-----------------------------------------------------------------------------
(* What happens at a node *)

\* The process was polled and has finished: the next event may be handled
Polled(n) == node[n].rx = << >> /\ node[n].done = << >>

\* tsch_rx_process_pending, one packet
HandleRx(n) ==
    /\ node[n].rx # << >>
    /\ \E memory \in BOOLEAN :
         \E s \in sixp_input([node[n] EXCEPT !.rx = Tail(@)], Head(node[n].rx), memory) :
            node' = [node EXCEPT ![n] = s]
    /\ counted' = IF Head(node[n].rx).code = "CLEAR" THEN {} ELSE counted
    /\ UNCHANGED <<ids, reboots>>

\* tsch_tx_process_pending, one packet: received packets are handled first
HandleDone(n) ==
    /\ node[n].rx = << >> /\ node[n].done # << >>
    /\ LET d == Head(node[n].done)
           s == [node[n] EXCEPT !.done = Tail(@)]
       IN  node' = [node EXCEPT ![n] = IF d.packet.callback THEN mac_callback(s, d.ok) ELSE s]
    /\ counted' = IF node'[n].trans.state = "REQUEST_SENT" /\ node'[n].trans.cmd # "CLEAR"
                  THEN counted \cup {node'[n].trans.id} ELSE counted
    /\ UNCHANGED <<ids, reboots>>

\* The SF starts a transaction; with one in progress sixp_output refuses
StartRequest(n, cmd) ==
    /\ Polled(n) /\ node[n].trans.state = "FREE" /\ ids < MaxRequests
    /\ ids' = ids + 1
    /\ \E memory \in BOOLEAN :
          node' = [node EXCEPT ![n] = RequestOutput(node[n], ids', cmd, memory)]
    /\ counted' = IF cmd = "CLEAR" THEN {} ELSE counted
    /\ UNCHANGED reboots

\* The SF was told that its answer was not acknowledged, and repeats it
Repeat(n) ==
    LET t == node[n].trans
    IN  /\ Polled(n) /\ t.reply # "none" /\ ~t.callback
        /\ \/ t.state = "REQUEST_RECEIVED"
              /\ node' = [node EXCEPT ![n] = Reply(node[n], "response", t.reply)]
           \/ t.state = "RESPONSE_RECEIVED"
              /\ node' = [node EXCEPT ![n] = Reply(node[n], "confirmation", t.reply)]
        /\ UNCHANGED <<ids, counted, reboots>>

\* handle_trans_timeout
handle_trans_timeout(n) ==
    /\ Polled(n) /\ node[n].trans.timer = "timeout"
    /\ node' = [node EXCEPT ![n] = Transit(node[n], "TERMINATING")]
    /\ UNCHANGED <<ids, counted, reboots>>

process_trans(n) ==
    /\ Polled(n) /\ node[n].trans.timer = "process"
    /\ node' = [node EXCEPT ![n] = Processed(node[n])]
    /\ UNCHANGED <<ids, counted, reboots>>

\* The MAC is done with its oldest packet: it arrived and was acknowledged,
\* it arrived but no ACK did, or it was lost.  A slot is not used when there
\* is no room for what it would leave in a ring.
Transmit(n) ==
    LET p == Head(node[n].mac)
        Over(ok, arrived) ==
            node' = [node EXCEPT ![n].mac = Tail(@),
                                 ![n].done = Append(@, [packet |-> p, ok |-> ok]),
                                 ![Peer(n)].rx = IF arrived THEN Append(@, p) ELSE @]
    IN  /\ node[n].mac # << >> /\ Len(node[n].done) < RingSize
        /\ \/ Len(node[Peer(n)].rx) < RingSize /\ (Over(TRUE, TRUE) \/ Over(FALSE, TRUE))
           \/ Over(FALSE, FALSE)
        /\ UNCHANGED <<ids, counted, reboots>>

\* A node restarts and has lost all it knew
Reboot(n) ==
    /\ reboots < MaxReboots
    /\ reboots' = reboots + 1
    /\ node' = [node EXCEPT ![n] = NewNode]
    /\ counted' = {}
    /\ UNCHANGED ids

-----------------------------------------------------------------------------

Step(n) == \/ HandleRx(n) \/ HandleDone(n)
           \/ \E cmd \in Commands : StartRequest(n, cmd)
           \/ Repeat(n) \/ handle_trans_timeout(n) \/ process_trans(n)
           \/ Transmit(n) \/ Reboot(n)

Next == \E n \in Nodes : Step(n)

Spec == Init /\ [][Next]_vars
-----------------------------------------------------------------------------
(* Properties *)

Packets == [type : {"request", "response", "confirmation"}, code : Commands \cup ReturnCodes,
            seqno : 0 .. MaxSeqno, id : 1 .. MaxRequests, callback : BOOLEAN]

Transactions == [state : States, id : 1 .. MaxRequests, seqno : 0 .. MaxSeqno,
                 cmd : Commands, mode : {2, 3}, callback : BOOLEAN,
                 timer : {"timeout", "process"}, reply : {"none", "SUCCESS", "ERR"},
                 fresh : BOOLEAN]

NodeType == [trans : {NoTrans} \cup Transactions, next_seqno : {NoNbr} \cup 0 .. MaxSeqno,
             mac : Seq(Packets), rx : Seq(Packets), done : Seq([packet : Packets, ok : BOOLEAN])]

\* The type invariant.  A transaction always has its timer running, and that
\* alone ends it and gives its cell, by default the only one, back to the pool
\* (process_trans, start_trans_timer).
SixpTypeOK == /\ node \in [Nodes -> NodeType]
              /\ \A n \in Nodes : /\ Len(node[n].mac) <= MacQueueSize
                                  /\ Len(node[n].rx) <= RingSize /\ Len(node[n].done) <= RingSize
              /\ ids \in 0 .. MaxRequests /\ counted \subseteq 1 .. MaxRequests
              /\ reboots \in 0 .. MaxReboots

\* The packet whose acknowledgement leads to a state
SentType == [REQUEST_SENT |-> "request", RESPONSE_SENT |-> "response",
             CONFIRMATION_SENT |-> "confirmation"]

\* "that is, the request is acknowledged by the peer" (sixp_trans_transit_state):
\* a transaction gets into one of the SENT states only by the callback of its
\* own packet, which was acknowledged, and the SF is told so; also when requests
\* cross and errors are sent back.  Excepted are transactions whose cell was
\* allocated while the MAC still had a packet with a pointer to it (those not
\* fresh): the late callback of that packet does move them on.
OwnCallbacks ==
    [][\A n \in Nodes :
         LET t == node[n].trans
             new == node'[n].trans.state
         IN  new \in DOMAIN SentType /\ new # t.state /\ t.fresh =>
                 /\ node[n].done # << >> /\ t.callback
                 /\ LET d == Head(node[n].done)
                    IN  d.ok /\ d.packet.id = t.id /\ d.packet.type = SentType[new]]_vars

\* sixp_input takes a packet for the answer to a transaction only if it is,
\* although numbers are used again and packets come late.  Two exceptions: a
\* request that arrived but was reported as failed, or was forgotten in a
\* reboot, leaves its number to the next request, which gets its answers; and
\* an ERR_SEQNUM reply has the number of its sender, not of the request, so it
\* can be taken for the answer to the next one.  After MaxSeqno requests a
\* number comes again, and nothing tells a packet that late from a new one.
OwnAnswer ==
    [][\A n \in Nodes :
         LET t == node[n].trans
             new == node'[n].trans.state
         IN  new \in {"RESPONSE_RECEIVED", "CONFIRMATION_RECEIVED"} /\ new # t.state =>
                 \/ Head(node[n].rx).id = t.id \/ Head(node[n].rx).code = "ERR_SEQNUM"
                 \/ ~({Head(node[n].rx).id, t.id} \subseteq counted)
                 \/ t.id >= Head(node[n].rx).id + MaxSeqno]_vars

\* When a transaction other than CLEAR has been carried out by both ends, they
\* go on with the same sequence number, whoever starts the next one; unless
\* the responder keeps no number, since it has not accepted cells yet, or a
\* cell was allocated while the MAC still had a packet of its former
\* transaction (not fresh), whose callback then moved the new one on.
SeqnosAgree ==
    \A n \in Nodes :
        LET m == Peer(n)
            t == node[n].trans
            u == node[m].trans
        IN  /\ t.id = u.id /\ t.cmd # "CLEAR" /\ node[m].next_seqno # NoNbr
            /\ t.fresh /\ u.fresh
            /\ t.state \in {"REQUEST_SENT", "RESPONSE_RECEIVED", "CONFIRMATION_SENT"}
            /\ u.state \in {"RESPONSE_SENT", "CONFIRMATION_RECEIVED"}
            => node[n].next_seqno = node[m].next_seqno

\* "When the node is the initiator of CLEAR, nbr->next_seqno must be reset to
\* 0 regardless of the presence or absent of L2 ACK" (test-sixp.c), and the
\* assertion in sixp_trans_transit_state
InitiatorCleared ==
    \A n \in Nodes : /\ node[n].trans.cmd = "CLEAR"
                     /\ node[n].trans.state \in {"INIT", "REQUEST_SENT", "RESPONSE_RECEIVED"}
                     => node[n].next_seqno = 0

\* "When the node is the responder of CLEAR, nbr->next_seqno must be reset to
\* 0 regardless of the presence or absent of L2 ACK to the CLEAR Response"
\* (test-sixp.c)
ResponderCleared ==
    \A n \in Nodes : /\ node[n].trans.cmd = "CLEAR"
                     /\ node[n].trans.state \in {"REQUEST_RECEIVED", "RESPONSE_SENT"}
                     => node[n].next_seqno \in {0, NoNbr}
=============================================================================
