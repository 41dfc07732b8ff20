----------------------------- MODULE LockPromise -----------------------------
(***************************************************************************)
(* What those who take a lock rely on: one of them has it at a time, the   *)
(* next takes it only from nobody, and it is left by its holder alone, who *)
(* gives it back or dies.                                                  *)
(***************************************************************************)
CONSTANTS Holders, Nobody

VARIABLE holder

Init == holder = Nobody

Take(p) == holder = Nobody /\ holder' = p

\* The critical section ends, or its process does.
Leave(p) == holder = p /\ holder' = Nobody

Next == \E p \in Holders : Take(p) \/ Leave(p)

Spec == Init /\ [][Next]_holder
=============================================================================
