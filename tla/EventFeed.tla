----------------------------- MODULE EventFeed -----------------------------
(***************************************************************************)
(* What /ws/calls promises a client, with no manager, lock or Redis in it: *)
(* the events of its campaign from some event on, in order, none twice     *)
(* and none left out in between. The client may miss the events before it  *)
(* connected and those after it left.                                      *)
(***************************************************************************)
EXTENDS Naturals, Sequences

CONSTANTS Sockets, Campaigns, CampaignOf

VARIABLES published,  \* the number of events published per campaign
          recv        \* the events each client has received

Init ==
    /\ published = [c \in Campaigns |-> 0]
    /\ recv = [s \in Sockets |-> <<>>]

Publish(c) ==
    /\ published' = [published EXCEPT ![c] = @ + 1]
    /\ UNCHANGED recv

Send(s, n) ==
    /\ n <= published[CampaignOf[s]]
    /\ recv[s] = <<>> \/ n = recv[s][Len(recv[s])] + 1
    /\ recv' = [recv EXCEPT ![s] = Append(@, n)]
    /\ UNCHANGED published

Next ==
    \/ \E c \in Campaigns : Publish(c)
    \/ \E s \in Sockets : \E n \in 1 .. published[CampaignOf[s]] : Send(s, n)

Spec == Init /\ [][Next]_<<published, recv>>
=============================================================================
