------------------------ MODULE MCScheduledDelivery ------------------------
(***************************************************************************)
(* Small instances of ScheduledDelivery for TLC.  Workers and clients are  *)
(* interchangeable, and so are schedules; the symmetry is used for safety  *)
(* properties only.                                                        *)
(***************************************************************************)
EXTENDS ScheduledDelivery, FiniteSets, TLC

Symmetry == Permutations(Workers) \cup Permutations(Clients) \cup Permutations(Schedules)

\* The bound of the run that has several workers and several calls: several calls are
\* made beside one worker that meets no fault, several workers, and faults, beside one call.
SeveralOfOneKind ==
    \/ Cardinality({c \in Clients : cpc[c] # "ready"}) <= 1
    \/ faults = 0 /\ Cardinality({w \in Workers : pc[w] # "idle"}) <= 1
============================================================================
