------------------------------- MODULE MCCrank -------------------------------
\* Three events of two margin accounts and a wallet, one of them the wallet's staked fill,
\* one stale sequence number, one failing call, a consume transaction that lands late or
\* unconfirmed among them; a transaction keeps at most two events, a batch is two chunks.
EXTENDS Crank

CONSTANTS a, b, w

MCEvents == {[account |-> a, opens |-> TRUE], [account |-> a, opens |-> FALSE],
             [account |-> b, opens |-> TRUE],
             [account |-> w, opens |-> FALSE], [account |-> w, opens |-> TRUE]}
=============================================================================
