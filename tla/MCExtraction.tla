---------------------------- MODULE MCExtraction ----------------------------
(* Extraction for TLC: both adapters, two accounts with histories of one page *)
(* or of one more than the cap, a budget that ends in the second account, and *)
(* a sentence of the repository that TLC refutes.                             *)
EXTENDS Extraction

\* "Per-account timeout -- prevents a hung bank page from holding semaphore slots"
\* (bank_adapters/base.py:147): a session whose page hangs in an account ends.
HungPageLetsGo == hung /\ phase \in InAccount ~> phase \in Over
=============================================================================
