----------------------------- MODULE MCMembers -----------------------------
(***************************************************************************)
(* Members on small sets: two people, two processes and two calls, of      *)
(* which two are under way at a time, and an update changes the role or    *)
(* the status.  Nothing distinguishes two people, two calls or two         *)
(* processes, and only invariants are checked.                             *)
(***************************************************************************)
EXTENDS Members, TLC

MembersSymmetry ==
    Permutations(People) \cup Permutations(AuthCalls) \cup Permutations(AppProcesses)

AtWork  == {q \in AppProcesses : ~Ready(q)}
Awaited == {c \in AuthCalls : authCall[c] # NoCall}
TwoUnderWay == Cardinality(AtWork) + Cardinality(Awaited) <= 2
\* From a stale change on LastAdminRemains says nothing: last_admin.cfg shows what follows.
NotStale == ~staleChange
\* Setups that overtake each other are left to members.cfg.
OneSetup == bootstrapped => \A c \in AuthCalls : authCall[c].op # "claim"
OneField == \A q \in AppProcesses : "same" \in {acting[q].role, acting[q].status}
============================================================================
