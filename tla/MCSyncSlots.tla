---------------------------- MODULE MCSyncSlots ----------------------------
(* Instances of SyncSlots for TLC: syncs of two banks. *)
EXTENDS SyncSlots
CONSTANTS a1, a2, a3, b1, b2, bankA, bankB
MCBankOf == [s \in Syncs |-> IF s \in {b1, b2} THEN bankB ELSE bankA]
=============================================================================
