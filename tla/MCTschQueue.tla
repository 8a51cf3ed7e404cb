----------------------------- MODULE MCTschQueue -----------------------------
(* A neighbor with a dedicated link, one without, reached over the shared    *)
(* broadcast link, which is used for EBs too; rings that fill up.            *)
EXTENDS TschQueue

MCLinks == {[link_options |-> {"tx"}, addr |-> "n1", link_type |-> "normal"],
            [link_options |-> {"tx", "rx", "shared"}, addr |-> "bc",
             link_type |-> "advertising"]}
=============================================================================
