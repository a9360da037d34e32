-------------------------- MODULE MCBatchedProvider --------------------------
(***************************************************************************)
(* A listener for blocks beside one of each other kind of client.          *)
(***************************************************************************)
EXTENDS BatchedProvider

\* Which clients use the provider at the same time, and from which block on.
MCUses == {[clients |-> Waits, from |-> 1, opens |-> 1],
           [clients |-> TxListeners, from |-> 2, opens |-> 1],
           [clients |-> Stores, from |-> 2, opens |-> 2],
           [clients |-> Calls, from |-> 2, opens |-> 1]}
=============================================================================
