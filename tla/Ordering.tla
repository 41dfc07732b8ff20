------------------------------- MODULE Ordering -------------------------------
(* The lists that pages of a search and batches of a log go through: mailboxes *)
(* as the server lists them, candidates newest first, records as they came.    *)
EXTENDS Naturals, FiniteSets

\* The members of a finite set of numbers, each once, in their order.
InOrder(S) == CHOOSE s \in [1..Cardinality(S) -> S] : \A j, k \in DOMAIN s : j < k => s[j] < s[k]
=============================================================================
