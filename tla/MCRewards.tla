------------------------------ MODULE MCRewards ------------------------------
(* Two users; an airdrop uploaded in two parts; one award and one distribution. *)
EXTENDS Rewards

CONSTANTS drop, dist

Entry(u, n) == [recipient |-> u, amount |-> n]

\* the second part belongs after one of the first parts and not after the other
MCUploads == {<<0, <<Entry(1, 1)>>>>, <<0, <<Entry(2, 1)>>>>, <<1, <<Entry(1, 1)>>>>}

\* an uneven schedule, and one that ends before it begins
MCGrants == {<<3, 0, 2>>, <<1, 2, 1>>}
MCAwards == {<<1, 1>>}
=============================================================================
