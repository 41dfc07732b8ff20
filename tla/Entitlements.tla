---------------------------- MODULE Entitlements ----------------------------
(***************************************************************************)
(* What the cached lease of a license allows, how much of it is used, and  *)
(* the two grace periods: after a lease expires, and after a lower cap has *)
(* left the instance over its plan                                         *)
(* (src/packages/server/src/licensing/entitlements.ts).                    *)
(***************************************************************************)
EXTENDS Naturals

CONSTANTS Leases,        \* leases the server may grant: caps and expiry
          NoLease, Never,
          PersonalMembers, PersonalAccounts,
          GracePeriod, CapReductionGrace,
          LastDay        \* bound on the clock

ASSUME EntitlementsConstants ==
    /\ Leases \subseteq [members : Nat, accounts : Nat, expires : Nat]
    /\ NoLease \notin Leases /\ Never \notin Nat
    /\ {PersonalMembers, PersonalAccounts, GracePeriod, CapReductionGrace, LastDay} \subseteq Nat

VARIABLES cachedLease, memberCount, accountCount, overCapSince, day

entitlementVars == <<cachedLease, memberCount, accountCount, overCapSince, day>>

EntitlementsTypeOK ==
    /\ cachedLease \in Leases \cup {NoLease}
    /\ memberCount \in Nat /\ accountCount \in Nat
    /\ overCapSince \in Nat \cup {Never}
    /\ day \in 0..LastDay

EntitlementsInit ==
    /\ cachedLease = NoLease
    /\ memberCount = 0 /\ accountCount = 0
    /\ overCapSince = Never
    /\ day = 0

----------------------------------------------------------------------------
\* getEntitlements(): an expired lease keeps its caps through the grace period.
LicensedBy(l) == l # NoLease /\ day < l.expires + GracePeriod
MaxMembers(l) == IF LicensedBy(l) THEN l.members ELSE PersonalMembers
MaxAccounts(l) == IF LicensedBy(l) THEN l.accounts ELSE PersonalAccounts
Exceeds(l, m, a) == m > MaxMembers(l) \/ a > MaxAccounts(l)

Licensed == LicensedBy(cachedLease)
OverQuota == Exceeds(cachedLease, memberCount, accountCount)

\* checkLicenseState().blocked, which assertWithinQuota() refuses.
InCapGrace == Licensed /\ overCapSince # Never /\ day < overCapSince + CapReductionGrace
Blocked == OverQuota /\ ~InCapGrace

\* recordCapState() in the transaction that leaves lease l and m, a in use.
RecordCapState(l, m, a) ==
    overCapSince' = IF ~(LicensedBy(l) /\ Exceeds(l, m, a)) THEN Never
                    ELSE IF overCapSince = Never THEN day ELSE overCapSince

\* assertCanIncreaseUsage()
MayGrow == ~(Licensed /\ OverQuota)

\* Mutant: the lease is stored, the clock is set by the next removal.
SaveLeaseOnly(l) ==
    /\ day < l.expires
    /\ cachedLease' = l
    /\ UNCHANGED <<memberCount, accountCount, overCapSince, day>>

\* The license server's lease verifies: store it and look at the caps.
SaveLease(l) ==
    /\ day < l.expires
    /\ cachedLease' = l
    /\ RecordCapState(l, memberCount, accountCount)
    /\ UNCHANGED <<memberCount, accountCount, day>>

ClearLease ==
    /\ cachedLease' = NoLease /\ overCapSince' = Never
    /\ UNCHANGED <<memberCount, accountCount, day>>

AddMember ==
    /\ MayGrow /\ memberCount < MaxMembers(cachedLease)
    /\ memberCount' = memberCount + 1
    /\ UNCHANGED <<cachedLease, accountCount, overCapSince, day>>

RemoveAMember ==
    /\ memberCount > 0
    /\ memberCount' = memberCount - 1
    /\ RecordCapState(cachedLease, memberCount', accountCount)
    /\ UNCHANGED <<cachedLease, accountCount, day>>

\* A mailbox that is connected anew is no growth.
ConnectMailbox ==
    /\ MayGrow /\ accountCount < MaxAccounts(cachedLease)
    /\ accountCount' = accountCount + 1
    /\ UNCHANGED <<cachedLease, memberCount, overCapSince, day>>

ReleaseMailbox ==
    /\ accountCount > 0
    /\ accountCount' = accountCount - 1
    /\ RecordCapState(cachedLease, memberCount, accountCount')
    /\ UNCHANGED <<cachedLease, memberCount, day>>

DayPasses ==
    /\ day < LastDay
    /\ day' = day + 1
    /\ UNCHANGED <<cachedLease, memberCount, accountCount, overCapSince>>

EntitlementsNext ==
    \/ \E l \in Leases : SaveLease(l)
    \/ ClearLease \/ AddMember \/ RemoveAMember \/ ConnectMailbox \/ ReleaseMailbox
    \/ DayPasses

EntitlementsSpec == EntitlementsInit /\ [][EntitlementsNext]_entitlementVars

----------------------------------------------------------------------------
\* While a license is in force its grace period for a lowered cap runs exactly
\* as long as usage is over a cap, whichever of lease, usage and clock moved
\* last: no instance is blocked without notice, and none keeps an old notice.
CapClockRuns == Licensed => (overCapSince # Never <=> OverQuota)
============================================================================
