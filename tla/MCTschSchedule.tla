---------------------------- MODULE MCTschSchedule ----------------------------
(* Room for three slotframes, so that three links can overlap, and handles   *)
(* for four; a slotframe and a link pool that run out, a neighbor pool that  *)
(* does not.                                                                 *)
EXTENDS TschSchedule

MCHandles == {0, 1, 2, 3}
MCSizes == {0, 1, 2}
MCLinkKinds == {[link_options |-> {"tx"}, addr |-> "n1"],
                [link_options |-> {"rx"}, addr |-> "bc"],
                [link_options |-> {"tx", "rx", "shared"}, addr |-> "n1"]}

\* Which cell holds a link, and what is left in a free cell, makes no
\* difference to this module: states that differ only there are the same.
MCView == <<[i \in DOMAIN schedule.slotframe_list |->
                LET sf == schedule.slotframe_list[i]
                IN  <<sf.handle, sf.size,
                      [k \in DOMAIN sf.links_list |-> schedule.link_memb[sf.links_list[k]]]>>],
            Cardinality({c \in Cells : schedule.link_memb[c].used}),
            schedule.nbr>>
=============================================================================
