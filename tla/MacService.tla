------------------------------ MODULE MacService ------------------------------
(***************************************************************************)
(* What a MAC driver promises to the layer above it (os/net/mac/mac.h):    *)
(* send() accepts a packet, and the sent callback is called for it exactly *)
(* once; for one destination the callbacks come in the order of the calls  *)
(* to send().  TschQueue is shown to implement this.                       *)
(***************************************************************************)
CONSTANTS Addrs, Packets

VARIABLES
    outstanding,    \* for every destination, the packets not yet reported
    before          \* the pairs of them that have the same destination, the one
                    \* accepted earlier first

vars == <<outstanding, before>>

Init == outstanding = [a \in Addrs |-> {}] /\ before = {}

\* A packet that is still outstanding cannot be accepted again
Accept(a, p) == /\ \A b \in Addrs : p \notin outstanding[b]
                /\ outstanding' = [outstanding EXCEPT ![a] = @ \cup {p}]
                /\ before' = before \cup (outstanding[a] \X {p})

\* The oldest packet for a is reported
Report(a, p) == /\ p \in outstanding[a]
                /\ \A q \in outstanding[a] : <<q, p>> \notin before
                /\ outstanding' = [outstanding EXCEPT ![a] = @ \ {p}]
                /\ before' = before \ ({p} \X outstanding[a])

Next == \E a \in Addrs, p \in Packets : Accept(a, p) \/ Report(a, p)

Spec == Init /\ [][Next]_vars
=============================================================================
