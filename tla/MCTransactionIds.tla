-------------------------- MODULE MCTransactionIds --------------------------
(* TransactionIds for TLC: two texts, lists of up to four rows in pages of   *)
(* two.                                                                      *)
EXTENDS TransactionIds
CONSTANTS rent, fee

\* README.md:128: "Re-running a sync is safe. No duplicate transactions";
\* parsers.py:77 calls the id stable.  TLC refutes it: a posting moves the
\* older rows, and their ids with them.
NoDuplicates == page = 0 => Cardinality(ledger) <= Len(bank)
=============================================================================
