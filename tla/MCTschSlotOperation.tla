-------------------------- MODULE MCTschSlotOperation --------------------------
(* Two slotframes of one or two slots, two or three links that may overlap, *)
(* a unicast Tx link, an Rx link and a shared one.                           *)
EXTENDS TschSlotOperation

MCLinkKinds == {[link_options |-> {"tx"}, addr |-> "n1"],
                [link_options |-> {"rx"}, addr |-> "bc"]}
MCLinkKindsShared == MCLinkKinds \cup {[link_options |-> {"tx", "rx", "shared"}, addr |-> "bc"]}

\* The node starts without links, or in an overlap of a Tx and an Rx link
Overlap ==
    LET s0 == tsch_schedule_add_slotframe(EmptySchedule, 0, 1)
        s1 == tsch_schedule_add_slotframe(s0, 1, 1)
        s2 == tsch_schedule_add_link(s1, 0, [link_options |-> {"tx"}, addr |-> "n1"], 0)
    IN  tsch_schedule_add_link(s2, 1, [link_options |-> {"rx"}, addr |-> "bc"], 0)
MCInitialSchedules == {EmptySchedule, Overlap}

\* The same with a single slotframe
OneLink == tsch_schedule_add_link(tsch_schedule_add_slotframe(EmptySchedule, 0, 2), 0,
                                  [link_options |-> {"rx"}, addr |-> "bc"], 1)
MCOneSlotframe == {EmptySchedule, OneLink}

\* What is left in a free cell is read only through current_link and
\* backup_link: elsewhere it makes no difference.
MCView == <<lockVars, todo, slotVars, schedule.slotframe_list, schedule.nbr,
            [c \in Cells |-> IF schedule.link_memb[c].used \/ c \in {current_link, backup_link}
                             THEN schedule.link_memb[c] ELSE "free"]>>
=============================================================================
