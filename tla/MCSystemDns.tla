----------------------------- MODULE MCSystemDns -----------------------------
(* Two networks; four addresses, one of them unusable; two servers at most. *)
EXTENDS SystemDns

CONSTANTS a, b, c, bad

MCNetwork == {1, 2}
MCDnsLists == <<{<<a>>}, {<<>>, <<bad, b, a, c>>}>>
MCInitNets ==
    {[n \in MCNetwork |-> Gone],
     <<[link |-> "up", caps |-> "validated", dns |-> <<a>>],
       [link |-> "up", caps |-> "internet", dns |-> <<bad, b, a, c>>]>>}
=============================================================================
