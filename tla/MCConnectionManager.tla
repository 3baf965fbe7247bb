------------------------ MODULE MCConnectionManager ------------------------
(* Instances of ConnectionManager small enough for TLC.                    *)
EXTENDS ConnectionManager, TLC

CONSTANTS s1, s2, s3, s4, c1, c2

\* Three sockets of one campaign and one that has no valid token.
OneCampaign == [s \in {s1, s2, s3, s4} |-> c1]

\* Two sockets of one campaign and one of another: they share the lock.
TwoCampaigns == (s1 :> c1) @@ (s2 :> c1) @@ (s3 :> c2)

\* Two sockets of one campaign.
Pair == [s \in {s1, s2} |-> c1]

\* The sockets of OneCampaign that play the same part.
Peers == Permutations({s1, s2, s3})
=============================================================================
