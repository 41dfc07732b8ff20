---------------------------- MODULE Access_proofs ----------------------------
(***************************************************************************)
(* Who gets in, and what they may do, for any number of people, sessions,  *)
(* keys, codes, logins and leases.  Members: an administrator remains, the *)
(* suspended hold nothing, and a code stores one password; what a call     *)
(* read before its await is only trusted for whom it is about.  Licensing: *)
(* the clock of a lowered cap.  Logins: the attempts of an address.        *)
(* Permissions: the two interfaces, and the instructions of a refusal.     *)
(* Accounts: the tokens of a mailbox, its links and its OAuth callbacks.   *)
(***************************************************************************)
EXTENDS Members, Entitlements, LoginAttempts, ConnectionPermissions,
        AccountRegistry, HostedConnection, OAuthCallback, FiniteSetTheorems, TLAPS

Somebody == People \cup {Nobody}
CallOps == {"none", "create", "claim", "redeem", "login", "change", "recover", "restore"}
AuthCallRecords == [op : CallOps, of : Somebody, with : Codes \cup Sessions \cup {Nobody}]
WorkOps == {"none", "setup", "update", "remove", "issue", "session", "key"} \cup CodeKinds
WorkRecords == [op : WorkOps, of : Somebody, role : {"same"} \cup Roles,
                status : {"same", "active", "suspended"}, overtaken : BOOLEAN]

MembersTyped ==
    /\ memberRole \in [People -> Roles]
    /\ memberStatus \in [People -> {"absent", "pending", "active", "suspended"}]
    /\ session \in [Sessions -> Somebody]
    /\ apiKeyOf \in [ApiKeys -> Somebody]
    /\ code \in [Codes -> [of : Somebody, kind : CodeKinds]]
    /\ authCall \in [AuthCalls -> AuthCallRecords]
    /\ acting \in [AppProcesses -> WorkRecords]
    /\ codeUses \in [Codes -> Nat]
    /\ staleChange \in BOOLEAN /\ lateGrants \subseteq People

\* An open code is somebody's, and so is a call under way and what a process is about to do.
CodesHaveMembers == \A t \in Codes : Open(t) => code[t].of \in People
CallsHaveMembers ==
    \A c \in AuthCalls : authCall[c].op # "none" =>
        authCall[c].of \in People /\ (authCall[c].op = "redeem" => authCall[c].with \in Codes)
Changes == {"update", "remove"}
WorkHasMembers ==
    \A q \in AppProcesses : acting[q].op # "none" =>
        acting[q].of \in People /\ (acting[q].op \in Changes => bootstrapped)

\* What a process has checked is so until another process changes the members: there is an
\* administrator besides the one it takes away, and who gets a session or a key is active.
ChecksHold ==
    \A q \in AppProcesses : ~acting[q].overtaken =>
        /\ acting[q].op \in Changes /\ TakesAdmin(acting[q]) /\ ~staleChange =>
             ActiveAdmins \ {acting[q].of} # {}
        /\ acting[q].op \in {"session", "key"} => Active(acting[q].of)

\* Before an instance is set up everybody in it is an administrator.
FoundersAreAdmins == ~bootstrapped => \A p \in People : memberRole[p] = "admin"

MembersInv ==
    /\ MembersTyped /\ CodesHaveMembers /\ CallsHaveMembers /\ WorkHasMembers /\ ChecksHold
    /\ FoundersAreAdmins /\ LastAdminRemains /\ SuspendedHasNothing /\ CodesWorkOnce

----------------------------------------------------------------------------
\* A session is issued to p in a place nobody holds, and no other changes.
LEMMA IssuedTo ==
    ASSUME NEW S \in [Sessions -> Somebody], NEW p \in People, NEW T \in Issued(S, p)
    PROVE  T \in [Sessions -> Somebody] /\ \A s \in Sessions : T[s] \in {S[s], p}
BY DEF Issued, Somebody

\* Revoking the sessions of p leaves those of the others.
LEMMA RevokedOf ==
    ASSUME session \in [Sessions -> Somebody], NEW p, NEW keep
    PROVE  /\ RevokedAll(p, keep) \in [Sessions -> Somebody]
           /\ \A s \in Sessions : RevokedAll(p, keep)[s] \in {session[s], Nobody}
           /\ keep = {} => \A s \in Sessions : RevokedAll(p, keep)[s] = p => p = Nobody
BY DEF RevokedAll, Somebody

\* A call that begins for a member is well formed; one that ends is none.
LEMMA CallSteps ==
    ASSUME MembersInv, NEW c \in AuthCalls, NEW op \in CallOps, NEW p \in People,
           NEW x \in Codes \cup Sessions \cup {Nobody}, op = "redeem" => x \in Codes,
           Begins(c, op, p, x) \/ AuthCallEnds(c, op)
    PROVE  authCall' \in [AuthCalls -> AuthCallRecords] /\ CallsHaveMembers'
<1> USE DEF MembersInv, MembersTyped, CallsHaveMembers, AuthCallRecords, Pending, NoCall, Somebody, CallOps
<1>1. CASE Begins(c, op, p, x)
  <2> DEFINE q == Pending(op, p, x)
  <2>1. q \in AuthCallRecords /\ q.of = p /\ q.with = x /\ q.op = op
    OBVIOUS
  <2>2. authCall' = [authCall EXCEPT ![c] = q]
    BY <1>1 DEF Begins
  <2> HIDE DEF q
  <2> QED BY <2>1, <2>2
<1>2. CASE AuthCallEnds(c, op)
  <2>1. authCall' = [authCall EXCEPT ![c] = NoCall] /\ NoCall.op = "none" /\ NoCall \in AuthCallRecords
    BY <1>2 DEF AuthCallEnds
  <2> HIDE DEF NoCall
  <2> QED BY <2>1
<1> QED BY <1>1, <1>2

\* The call that ends is somebody's.
LEMMA AuthCallFinished ==
    ASSUME MembersInv, NEW c \in AuthCalls, NEW op \in CallOps \ {"none"}, AuthCallEnds(c, op)
    PROVE  /\ authCall[c].of \in People /\ (op = "redeem" => authCall[c].with \in Codes)
           /\ authCall' \in [AuthCalls -> AuthCallRecords] /\ CallsHaveMembers'
<1>1. authCall[c].of \in People /\ (op = "redeem" => authCall[c].with \in Codes)
      /\ authCall[c].with \in Codes \cup Sessions \cup {Nobody}
  BY DEF MembersInv, CallsHaveMembers, AuthCallEnds, CallOps, AuthCallRecords, MembersTyped
<1> QED BY <1>1, CallSteps

\* What a process goes on to is what it was given.
LEMMA AboutWhat ==
    ASSUME NEW op \in WorkOps, NEW p \in Somebody
    PROVE  /\ About(op, p) \in WorkRecords /\ ~About(op, p).overtaken
           /\ About(op, p).op = op /\ About(op, p).of = p
BY DEF About, Doing, WorkRecords

LEMMA NoWorkDoesNothing == NoWork \in WorkRecords /\ ~NoWork.overtaken /\ NoWork.op = "none"
BY DEF NoWork, About, Doing, WorkRecords, WorkOps, Somebody

\* A step of the process q that goes on to w, checked as it should be, keeps what the others
\* have checked, or overtakes it.
LEMMA WorkSteps ==
    ASSUME MembersInv, NEW q \in AppProcesses, NEW w \in WorkRecords, GoesOn(q, w), ~w.overtaken,
           w.op # "none" => w.of \in People, w.op \in Changes => bootstrapped',
           bootstrapped => bootstrapped', staleChange => staleChange',
           w.op \in Changes /\ TakesAdmin(w) /\ ~staleChange' => ActiveAdmins' \ {w.of} # {},
           w.op \in {"session", "key"} => Active(w.of)'
    PROVE  acting' \in [AppProcesses -> WorkRecords] /\ WorkHasMembers' /\ ChecksHold'
<1> DEFINE changed == memberRole' # memberRole \/ memberStatus' # memberStatus
           After(r) == [acting[r] EXCEPT !.overtaken = @ \/ (changed /\ acting[r].op \in Checked)]
<1>1. \A r \in AppProcesses : acting'[r] = IF r = q THEN w ELSE After(r)
  BY DEF GoesOn
<1>2. ASSUME NEW r \in AppProcesses
      PROVE  /\ After(r) \in WorkRecords
             /\ After(r).op = acting[r].op /\ After(r).of = acting[r].of
             /\ After(r).role = acting[r].role /\ After(r).status = acting[r].status
             /\ After(r).overtaken = (acting[r].overtaken \/ (changed /\ acting[r].op \in Checked))
  <2>1. acting[r] \in WorkRecords
    BY DEF MembersInv, MembersTyped
  <2> QED BY <2>1 DEF WorkRecords
<1> HIDE DEF After
<1>3. acting' = [r \in AppProcesses |-> IF r = q THEN w ELSE After(r)]
  BY DEF GoesOn, After
<1>4. acting' \in [AppProcesses -> WorkRecords]
  BY <1>2, <1>3
<1>5. WorkHasMembers'
  BY <1>1, <1>2 DEF MembersInv, WorkHasMembers
<1>6. ASSUME NEW r \in AppProcesses, ~acting'[r].overtaken
      PROVE  /\ acting'[r].op \in Changes /\ TakesAdmin(acting'[r]) /\ ~staleChange' =>
                  ActiveAdmins' \ {acting'[r].of} # {}
             /\ acting'[r].op \in {"session", "key"} =>
                  acting'[r].of \in People /\ memberStatus'[acting'[r].of] = "active"
  <2>1. CASE r = q
    BY <1>1, <1>6, <2>1 DEF Active
  <2>2. CASE r # q
    <3>1. acting'[r] = After(r)
      BY <1>1, <2>2
    <3>2. ~acting[r].overtaken /\ ~(changed /\ acting[r].op \in Checked)
      BY <1>2, <1>6, <3>1
    <3>3. (TakesAdmin(acting'[r]) <=> TakesAdmin(acting[r]))
          /\ acting'[r].op = acting[r].op /\ acting'[r].of = acting[r].of
      BY <1>2, <3>1 DEF TakesAdmin
    <3>4. CASE changed
      BY <3>2, <3>3, <3>4 DEF Checked, Changes
    <3>5. CASE ~changed
      BY <3>2, <3>3, <3>5 DEF MembersInv, ChecksHold, ActiveAdmins, Active
    <3> QED BY <3>4, <3>5
  <2> QED BY <2>1, <2>2
<1>7. ChecksHold'
  BY <1>6 DEF ChecksHold, Active, TakesAdmin
<1> QED BY <1>4, <1>5, <1>7

\* A process that goes on to something it need not have checked, or to nothing.
LEMMA WorkGoesOn ==
    ASSUME MembersInv, NEW q \in AppProcesses, NEW op \in WorkOps \ (Checked \cup {"none"}),
           NEW p \in People, GoesOn(q, About(op, p)) \/ GoesOn(q, NoWork),
           bootstrapped => bootstrapped', staleChange => staleChange'
    PROVE  acting' \in [AppProcesses -> WorkRecords] /\ WorkHasMembers' /\ ChecksHold'
<1>1. CASE GoesOn(q, About(op, p))
  <2>1. About(op, p) \in WorkRecords /\ ~About(op, p).overtaken
        /\ About(op, p).op = op /\ About(op, p).of = p
    <3>1. op \in WorkOps /\ p \in Somebody
      BY DEF Somebody
    <3> QED BY <3>1, AboutWhat
  <2> QED BY <1>1, <2>1, WorkSteps DEF Checked, Changes
<1>2. CASE GoesOn(q, NoWork)
  <2> QED BY <1>2, NoWorkDoesNothing, WorkSteps DEF Changes
<1> QED BY <1>1, <1>2

\* A step that leaves the store alone keeps the invariant when what is under way is as it should be.
LEMMA StoreAlone ==
    ASSUME MembersInv, UNCHANGED <<storedMembers, histories>>,
           authCall' \in [AuthCalls -> AuthCallRecords], CallsHaveMembers',
           acting' \in [AppProcesses -> WorkRecords], WorkHasMembers', ChecksHold'
    PROVE  MembersInv'
<1> USE DEF storedMembers, histories
<1>1. MembersTyped' /\ CodesHaveMembers' /\ FoundersAreAdmins'
  BY DEF MembersInv, MembersTyped, CodesHaveMembers, FoundersAreAdmins, Open
<1>2. LastAdminRemains' /\ SuspendedHasNothing' /\ CodesWorkOnce'
  BY DEF MembersInv, LastAdminRemains, AdminAlwaysRemains, ActiveAdmins, Active,
         SuspendedHasNothing, LiveOf, CodesWorkOnce, Open
<1> QED BY <1>1, <1>2 DEF MembersInv

\* A step that only makes members active, and a founder an administrator, keeps one.
LEMMA Activation ==
    ASSUME MembersInv, NEW p \in People, bootstrapped, staleChange' = staleChange,
           memberRole' \in [People -> Roles], memberStatus' = [memberStatus EXCEPT ![p] = "active"],
           \A q \in People : memberRole[q] = "admin" => memberRole'[q] = "admin"
    PROVE  LastAdminRemains'
BY DEF MembersInv, MembersTyped, LastAdminRemains, AdminAlwaysRemains, ActiveAdmins, Active

----------------------------------------------------------------------------
LEMMA MembersBegin == MembersInit => MembersInv
<1> SUFFICES ASSUME MembersInit PROVE MembersInv
  OBVIOUS
<1>1. PICK S \in SUBSET People :
        memberStatus = [p \in People |-> IF p \in S THEN "active" ELSE "absent"]
  BY DEF MembersInit
<1>2. NoWork \in WorkRecords /\ NoWork.op = "none"
  BY NoWorkDoesNothing
<1>3. MembersTyped
  BY <1>1, <1>2 DEF MembersInit, MembersTyped, Roles, Somebody, AuthCallRecords, CallOps, CodeKinds, NoCode, NoCall, Pending
<1>4. CodesHaveMembers /\ CallsHaveMembers /\ FoundersAreAdmins /\ LastAdminRemains /\ CodesWorkOnce
  BY DEF MembersInit, CodesHaveMembers, CallsHaveMembers, FoundersAreAdmins, LastAdminRemains,
         AdminAlwaysRemains, CodesWorkOnce, Open, NoCall, Pending
<1>5. WorkHasMembers /\ ChecksHold
  BY <1>2 DEF MembersInit, WorkHasMembers, ChecksHold, Changes
<1>6. SuspendedHasNothing
  BY MembersConstants DEF MembersInit, SuspendedHasNothing, LiveOf
<1> QED BY <1>3, <1>4, <1>5, <1>6 DEF MembersInv

----------------------------------------------------------------------------
\* A setup adds an administrator, or lets one wait: in an instance that is set up this is a
\* stale change.
LEMMA SetupKeeps ==
    ASSUME MembersInv, NEW c \in AuthCalls, NEW q \in AppProcesses, SetupEnds(c, q)
    PROVE  MembersInv'
<1> DEFINE p == authCall[c].of
<1> USE MembersConstants DEF MembersInv
<1>1. PICK op \in {"create", "claim"} :
        /\ AuthCallEnds(c, op)
        /\ IF op = "create" THEN memberStatus[p] = "absent" ELSE Exists(p)
        /\ staleChange' = (staleChange \/ (op = "claim" /\ bootstrapped))
  <2>1. staleChange \in BOOLEAN /\ bootstrapped \in {bootstrapped}
    BY DEF MembersTyped
  <2>2. CASE AuthCallEnds(c, "create") /\ memberStatus[p] = "absent" /\ UNCHANGED staleChange
    BY <2>1, <2>2
  <2>3. CASE AuthCallEnds(c, "claim") /\ Exists(p) /\ staleChange' = (staleChange \/ bootstrapped)
    BY <2>3
  <2> QED BY <2>2, <2>3 DEF SetupEnds
<1>2. p \in People /\ CallsHaveMembers' /\ authCall' \in [AuthCalls -> AuthCallRecords]
  BY <1>1, AuthCallFinished DEF CallOps
<1>3. /\ memberRole' = IF Exists(p) THEN memberRole ELSE [memberRole EXCEPT ![p] = "admin"]
      /\ memberStatus' = [memberStatus EXCEPT ![p] = "pending"]
      /\ GoesOn(q, About("setup", p))
      /\ UNCHANGED <<session, apiKeyOf, code, bootstrapped, codeUses, lateGrants>>
  BY DEF SetupEnds
<1>4. acting' \in [AppProcesses -> WorkRecords] /\ WorkHasMembers' /\ ChecksHold'
  BY <1>1, <1>2, <1>3, WorkGoesOn DEF WorkOps, Checked
<1>5. memberRole' \in [People -> Roles]
      /\ \A x \in People : memberRole[x] = "admin" => memberRole'[x] = "admin"
  BY <1>2, <1>3 DEF MembersTyped, Roles
<1>6. MembersTyped'
  <2>1. staleChange \in BOOLEAN /\ staleChange' \in BOOLEAN
    BY <1>1 DEF MembersTyped
  <2> QED BY <1>2, <1>3, <1>4, <1>5, <2>1 DEF MembersTyped
<1>7. LastAdminRemains'
  <2>1. SUFFICES ASSUME ~staleChange', bootstrapped' PROVE ActiveAdmins' # {}
    BY DEF LastAdminRemains, AdminAlwaysRemains
  <2>2. bootstrapped /\ ~staleChange /\ op = "create"
    BY <1>1, <1>3, <2>1
  <2>3. PICK a \in ActiveAdmins : TRUE
    BY <2>2 DEF LastAdminRemains, AdminAlwaysRemains
  <2>4. a \in People /\ a # p /\ memberRole'[a] = "admin" /\ memberStatus[a] = "active"
    BY <1>1, <1>5, <2>2, <2>3 DEF ActiveAdmins, Active
  <2>5. memberStatus'[a] = "active"
    BY <1>2, <1>3, <2>4 DEF MembersTyped
  <2> QED BY <2>4, <2>5 DEF ActiveAdmins, Active
<1>8. SuspendedHasNothing'
  BY <1>2, <1>3 DEF SuspendedHasNothing, LiveOf, MembersTyped
<1>9. CodesHaveMembers' /\ FoundersAreAdmins' /\ CodesWorkOnce'
  BY <1>3, <1>5 DEF CodesHaveMembers, FoundersAreAdmins, CodesWorkOnce, Open
<1> QED BY <1>2, <1>4, <1>6, <1>7, <1>8, <1>9

\* A setup that is done leaves an active administrator.
LEMMA SetupDoneKeeps ==
    ASSUME MembersInv, NEW q \in AppProcesses, SetupDone(q)
    PROVE  MembersInv'
<1> DEFINE p == acting[q].of
<1> USE MembersConstants DEF MembersInv
<1>1. p \in People
  BY DEF SetupDone, WorkHasMembers
<1>2. /\ memberStatus' = [memberStatus EXCEPT ![p] = "active"]
      /\ bootstrapped' /\ GoesOn(q, About("issue", p))
      /\ UNCHANGED <<memberRole, session, apiKeyOf, code, authCall, codeUses, staleChange, lateGrants>>
  BY DEF SetupDone, histories
<1>3. acting' \in [AppProcesses -> WorkRecords] /\ WorkHasMembers' /\ ChecksHold'
  BY <1>1, <1>2, WorkGoesOn DEF WorkOps, Checked
<1>4. MembersTyped' /\ CallsHaveMembers'
  BY <1>1, <1>2, <1>3 DEF MembersTyped, CallsHaveMembers
<1>5. LastAdminRemains'
  <2>1. CASE bootstrapped
    BY <1>1, <1>2, <2>1, Activation DEF MembersTyped
  <2>2. CASE ~bootstrapped
    <3>1. memberRole'[p] = "admin"
      BY <1>1, <1>2, <2>2 DEF FoundersAreAdmins
    <3>2. memberStatus'[p] = "active"
      BY <1>1, <1>2 DEF MembersTyped
    <3> QED BY <1>1, <3>1, <3>2 DEF LastAdminRemains, AdminAlwaysRemains, ActiveAdmins, Active
  <2> QED BY <2>1, <2>2
<1>6. SuspendedHasNothing'
  BY <1>1, <1>2 DEF SuspendedHasNothing, LiveOf, MembersTyped
<1>7. CodesHaveMembers' /\ FoundersAreAdmins' /\ CodesWorkOnce'
  BY <1>2 DEF CodesHaveMembers, FoundersAreAdmins, CodesWorkOnce, Open
<1> QED BY <1>3, <1>4, <1>5, <1>6, <1>7

\* A recovery makes an administrator active, or leaves everybody's status as it was.
LEMMA RecoveryKeeps ==
    ASSUME MembersInv, NEW c \in AuthCalls, NEW q \in AppProcesses, RecoverEnds(c, q)
    PROVE  MembersInv'
<1> DEFINE p == authCall[c].of
<1> USE MembersConstants DEF MembersInv
<1>1. PICK op \in {"recover", "restore"} : AuthCallEnds(c, op)
  BY DEF RecoverEnds
<1>2. p \in People /\ CallsHaveMembers' /\ authCall' \in [AuthCalls -> AuthCallRecords]
  BY <1>1, AuthCallFinished DEF CallOps
<1>3. /\ \/ UNCHANGED memberStatus
         \/ memberStatus' = [memberStatus EXCEPT ![p] = "active"]
      /\ session' = RevokedAll(p, {}) /\ GoesOn(q, NoWork)
      /\ apiKeyOf' \in {apiKeyOf, [k \in ApiKeys |-> Nobody]}
      /\ UNCHANGED <<memberRole, code, bootstrapped, codeUses, staleChange, lateGrants>>
  BY DEF RecoverEnds, histories
<1>4. acting' \in [AppProcesses -> WorkRecords] /\ WorkHasMembers' /\ ChecksHold'
  BY <1>2, <1>3, WorkGoesOn DEF WorkOps, Checked
<1>5. session' \in [Sessions -> Somebody] /\ \A s \in Sessions : session'[s] \in {session[s], Nobody}
  BY <1>3, RevokedOf DEF MembersTyped
<1>6. memberStatus' \in [People -> {"absent", "pending", "active", "suspended"}]
      /\ \A x \in People : memberStatus'[x] \in {memberStatus[x], "active"}
  BY <1>2, <1>3 DEF MembersTyped
<1>7. MembersTyped'
  BY <1>2, <1>3, <1>4, <1>5, <1>6 DEF MembersTyped, Somebody
<1>8. LastAdminRemains'
  BY <1>3, <1>6 DEF LastAdminRemains, AdminAlwaysRemains, ActiveAdmins, Active
<1>9. SuspendedHasNothing'
  BY <1>2, <1>3, <1>5, <1>6 DEF SuspendedHasNothing, LiveOf, MembersTyped
<1>10. CodesHaveMembers' /\ FoundersAreAdmins' /\ CodesWorkOnce'
  BY <1>3 DEF CodesHaveMembers, FoundersAreAdmins, CodesWorkOnce, Open
<1> QED BY <1>2, <1>4, <1>7, <1>8, <1>9, <1>10

\* A code that is redeemed is used once, and its member is active if it was an enrollment.
LEMMA RedemptionKeeps ==
    ASSUME MembersInv, NEW c \in AuthCalls, NEW q \in AppProcesses, RedeemEnds(c, q)
    PROVE  MembersInv'
<1> DEFINE p == authCall[c].of
           t == authCall[c].with
<1> USE MembersConstants DEF MembersInv
<1>1. p \in People /\ t \in Codes /\ CallsHaveMembers' /\ authCall' \in [AuthCalls -> AuthCallRecords]
  BY AuthCallFinished DEF RedeemEnds, CallOps
<1>2. /\ Open(t) /\ code' = [code EXCEPT ![t] = NoCode]
      /\ codeUses' = [codeUses EXCEPT ![t] = @ + 1]
      /\ memberStatus' = IF code[t].kind = "enrollment"
                         THEN [memberStatus EXCEPT ![p] = "active"] ELSE memberStatus
      /\ session' = RevokedAll(p, {}) /\ GoesOn(q, About("issue", p))
      /\ UNCHANGED <<memberRole, apiKeyOf, bootstrapped, staleChange, lateGrants>>
  BY DEF RedeemEnds
<1>3. acting' \in [AppProcesses -> WorkRecords] /\ WorkHasMembers' /\ ChecksHold'
  BY <1>1, <1>2, WorkGoesOn DEF WorkOps, Checked
<1>4. session' \in [Sessions -> Somebody] /\ \A s \in Sessions : session'[s] \in {session[s], Nobody}
  BY <1>2, RevokedOf DEF MembersTyped
<1>5. memberStatus' \in [People -> {"absent", "pending", "active", "suspended"}]
      /\ \A x \in People : memberStatus'[x] \in {memberStatus[x], "active"}
  BY <1>1, <1>2 DEF MembersTyped
<1>6. codeUses' \in [Codes -> Nat] /\ CodesWorkOnce'
      /\ code' \in [Codes -> [of : Somebody, kind : CodeKinds]] /\ CodesHaveMembers'
  <2>1. NoCode \in [of : Somebody, kind : CodeKinds]
    BY DEF NoCode, Somebody, CodeKinds
  <2> HIDE DEF t
  <2>2. codeUses[t] = 0 /\ codeUses'[t] = 1 /\ code'[t] = NoCode
    BY <1>1, <1>2 DEF CodesWorkOnce, MembersTyped
  <2> QED BY <1>1, <1>2, <2>1, <2>2 DEF CodesWorkOnce, CodesHaveMembers, MembersTyped, Open
<1>7. MembersTyped'
  BY <1>1, <1>2, <1>3, <1>4, <1>5, <1>6 DEF MembersTyped
<1>8. LastAdminRemains'
  BY <1>2, <1>5 DEF LastAdminRemains, AdminAlwaysRemains, ActiveAdmins, Active
<1>9. SuspendedHasNothing'
  BY <1>2, <1>4, <1>5 DEF SuspendedHasNothing, LiveOf
<1>10. FoundersAreAdmins'
  BY <1>2 DEF FoundersAreAdmins
<1> QED BY <1>1, <1>3, <1>6, <1>7, <1>8, <1>9, <1>10

LEMMA LoginKeeps ==
    ASSUME MembersInv, NEW c \in AuthCalls, NEW q \in AppProcesses, LoginEnds(c, q)
    PROVE  MembersInv'
<1>1. authCall[c].of \in People /\ CallsHaveMembers' /\ authCall' \in [AuthCalls -> AuthCallRecords]
  BY AuthCallFinished DEF LoginEnds, CallOps
<1>2. UNCHANGED <<storedMembers, histories>> /\ GoesOn(q, About("issue", authCall[c].of))
  BY DEF LoginEnds
<1>3. acting' \in [AppProcesses -> WorkRecords] /\ WorkHasMembers' /\ ChecksHold'
  BY <1>1, <1>2, WorkGoesOn DEF WorkOps, Checked, storedMembers, histories
<1> QED BY <1>1, <1>2, <1>3, StoreAlone

----------------------------------------------------------------------------
\* What is under way is as it was when the processes and the members are.
LEMMA NobodyActs ==
    ASSUME MembersInv, UNCHANGED <<memberRole, memberStatus, acting, bootstrapped, staleChange>>
    PROVE  acting' \in [AppProcesses -> WorkRecords] /\ WorkHasMembers' /\ ChecksHold'
BY DEF MembersInv, MembersTyped, WorkHasMembers, ChecksHold, ActiveAdmins, Active, TakesAdmin

\* Calls that begin, and calls that fail: nothing but the call changes.
LEMMA CallsKeep ==
    ASSUME MembersInv, NEW c \in AuthCalls, AuthBegins(c) \/ AuthCallFails(c)
    PROVE  MembersInv'
<1>1. UNCHANGED <<storedMembers, acting, histories>>
  BY DEF AuthBegins, SetupBegins, RecoverBegins, LoginBegins, RedeemBegins, ChangeBegins, AuthCallFails
<1>2. CallsHaveMembers' /\ authCall' \in [AuthCalls -> AuthCallRecords]
  <2>1. ASSUME NEW p \in People, SetupBegins(c, p) \/ RecoverBegins(c, p) \/ LoginBegins(c, p)
        PROVE  \E op \in CallOps \ {"redeem"} : Begins(c, op, p, Nobody)
    BY <2>1 DEF SetupBegins, RecoverBegins, LoginBegins, CallOps
  <2>2. ASSUME NEW t \in Codes, RedeemBegins(c, t)
        PROVE  code[t].of \in People /\ Begins(c, "redeem", code[t].of, t)
    BY <2>2 DEF RedeemBegins, MembersInv, CodesHaveMembers
  <2>3. ASSUME NEW s \in Sessions, ChangeBegins(c, s)
        PROVE  session[s] \in People /\ Begins(c, "change", session[s], s)
    BY <2>3 DEF ChangeBegins, SignedIn, Active
  <2>4. CASE AuthBegins(c)
    BY <2>1, <2>2, <2>3, <2>4, CallSteps DEF AuthBegins, CallOps
  <2>5. CASE AuthCallFails(c)
    BY <2>5, AuthCallFinished DEF AuthCallFails, CallOps
  <2> QED BY <2>4, <2>5
<1>3. acting' \in [AppProcesses -> WorkRecords] /\ WorkHasMembers' /\ ChecksHold'
  BY <1>1, NobodyActs DEF storedMembers, histories
<1> QED BY <1>1, <1>2, <1>3, StoreAlone

\* Sessions and keys that go, and codes that expire: less is left, and no member changes.
LEMMA LossesKeep ==
    ASSUME MembersInv,
           UNCHANGED <<memberRole, memberStatus, acting, bootstrapped, codeUses, staleChange, lateGrants>>,
           authCall' \in [AuthCalls -> AuthCallRecords], CallsHaveMembers',
           session' \in [Sessions -> Somebody], \A s \in Sessions : session'[s] \in {session[s], Nobody},
           apiKeyOf' \in [ApiKeys -> Somebody], \A k \in ApiKeys : apiKeyOf'[k] \in {apiKeyOf[k], Nobody},
           code' \in [Codes -> [of : Somebody, kind : CodeKinds]], \A t \in Codes : code'[t] \in {code[t], NoCode}
    PROVE  MembersInv'
<1> USE MembersConstants DEF MembersInv
<1>1. MembersTyped' /\ WorkHasMembers' /\ ChecksHold'
  BY NobodyActs DEF MembersTyped
<1>2. CodesHaveMembers' /\ CodesWorkOnce' /\ FoundersAreAdmins'
  BY DEF CodesHaveMembers, CodesWorkOnce, Open, FoundersAreAdmins
<1>3. LastAdminRemains' /\ SuspendedHasNothing'
  BY DEF LastAdminRemains, AdminAlwaysRemains, ActiveAdmins, Active, SuspendedHasNothing, LiveOf
<1> QED BY <1>1, <1>2, <1>3

LEMMA ServingKeeps ==
    ASSUME MembersInv, Served \/ TimePasses
    PROVE  MembersInv'
<1> USE DEF histories
<1>0. NoCode \in [of : Somebody, kind : CodeKinds] /\ session \in [Sessions -> Somebody]
      /\ apiKeyOf \in [ApiKeys -> Somebody] /\ code \in [Codes -> [of : Somebody, kind : CodeKinds]]
      /\ authCall \in [AuthCalls -> AuthCallRecords] /\ CallsHaveMembers
  BY DEF NoCode, Somebody, CodeKinds, MembersInv, MembersTyped
<1>1. ASSUME NEW k \in ApiKeys, RevokeApiKey(k) PROVE MembersInv'
  <2>1. apiKeyOf' \in [ApiKeys -> Somebody] /\ \A x \in ApiKeys : apiKeyOf'[x] \in {apiKeyOf[x], Nobody}
    BY <1>0, <1>1 DEF RevokeApiKey, Somebody
  <2> QED BY <1>0, <1>1, <2>1, LossesKeep DEF RevokeApiKey, CallsHaveMembers
<1>2. ASSUME NEW c \in AuthCalls, AuthBegins(c) \/ AuthCallFails(c) PROVE MembersInv'
  BY <1>2, CallsKeep
<1>3. ASSUME NEW c \in AuthCalls, ChangeEnds(c) PROVE MembersInv'
  <2>1. CallsHaveMembers' /\ authCall' \in [AuthCalls -> AuthCallRecords]
    BY <1>3, AuthCallFinished DEF ChangeEnds, CallOps
  <2>2. session' = RevokedAll(authCall[c].of, {authCall[c].with})
    BY <1>3 DEF ChangeEnds
  <2>3. session' \in [Sessions -> Somebody] /\ \A s \in Sessions : session'[s] \in {session[s], Nobody}
    BY <1>0, <2>2, RevokedOf
  <2> QED BY <1>0, <1>3, <2>1, <2>3, LossesKeep DEF ChangeEnds
<1>4. ASSUME NEW s \in Sessions, SessionEnds(s) PROVE MembersInv'
  <2>1. session' \in [Sessions -> Somebody] /\ \A x \in Sessions : session'[x] \in {session[x], Nobody}
    BY <1>0, <1>4 DEF SessionEnds, Somebody
  <2> QED BY <1>0, <1>4, <2>1, LossesKeep DEF SessionEnds, CallsHaveMembers
<1>5. ASSUME NEW t \in Codes, CodeExpires(t) PROVE MembersInv'
  <2>1. code' \in [Codes -> [of : Somebody, kind : CodeKinds]]
        /\ \A x \in Codes : code'[x] \in {code[x], NoCode}
    BY <1>0, <1>5 DEF CodeExpires
  <2> QED BY <1>0, <1>5, <2>1, LossesKeep DEF CodeExpires, CallsHaveMembers
<1> QED BY <1>1, <1>2, <1>3, <1>4, <1>5 DEF Served, TimePasses

----------------------------------------------------------------------------
\* What a process checks before it writes.
LEMMA MemberRequestsKeep ==
    ASSUME MembersInv, NEW q \in AppProcesses, Request(q)
    PROVE  MembersInv'
<1> USE DEF MembersInv
<1>0. ASSUME NEW w \in WorkRecords, ~w.overtaken, w.of \in People, w.op \in Changes => bootstrapped,
             w.op \in Changes /\ TakesAdmin(w) /\ ~staleChange => ActiveAdmins \ {w.of} # {},
             w.op \in {"session", "key"} => Active(w.of),
             UNCHANGED <<storedMembers, authCall, histories>>, GoesOn(q, w)
      PROVE  MembersInv'
  <2>1. ActiveAdmins' = ActiveAdmins /\ (Active(w.of) => Active(w.of)')
    BY <1>0 DEF storedMembers, ActiveAdmins, Active
  <2>2. acting' \in [AppProcesses -> WorkRecords] /\ WorkHasMembers' /\ ChecksHold'
    BY <1>0, <2>1, WorkSteps DEF storedMembers, histories
  <2>3. authCall' \in [AuthCalls -> AuthCallRecords] /\ CallsHaveMembers'
    BY <1>0 DEF MembersTyped, CallsHaveMembers
  <2> QED BY <1>0, <2>2, <2>3, StoreAlone
<1>1. ASSUME NEW p \in People, Invite(q, p) PROVE MembersInv'
  <2>1. PICK kind \in CodeKinds : GoesOn(q, About(kind, p))
    BY <1>1 DEF Invite, CodeKinds
  <2>2. About(kind, p) \in WorkRecords /\ ~About(kind, p).overtaken
        /\ About(kind, p).op = kind /\ About(kind, p).of = p
    <3>1. kind \in WorkOps /\ p \in Somebody
      BY DEF WorkOps, Somebody
    <3> QED BY <3>1, AboutWhat
  <2> QED BY <1>0, <1>1, <2>1, <2>2 DEF Invite, CodeKinds, Changes
<1>2. ASSUME NEW p \in People, RemoveChecked(q, p) PROVE MembersInv'
  <2>1. About("remove", p) \in WorkRecords /\ ~About("remove", p).overtaken
        /\ About("remove", p).op = "remove" /\ About("remove", p).of = p
    <3>1. "remove" \in WorkOps /\ p \in Somebody
      BY DEF WorkOps, Somebody
    <3> QED BY <3>1, AboutWhat
  <2>2. ~staleChange => ActiveAdmins \ {p} # {}
    BY <1>2 DEF RemoveChecked, NotLastActiveAdmin, LastAdminRemains, AdminAlwaysRemains
  <2> QED BY <1>0, <1>2, <2>1, <2>2 DEF RemoveChecked, Changes
<1>3. ASSUME NEW p \in People, KeyChecked(q, p) PROVE MembersInv'
  <2>1. About("key", p) \in WorkRecords /\ ~About("key", p).overtaken
        /\ About("key", p).op = "key" /\ About("key", p).of = p
    <3>1. "key" \in WorkOps /\ p \in Somebody
      BY DEF WorkOps, Somebody
    <3> QED BY <3>1, AboutWhat
  <2> QED BY <1>0, <1>3, <2>1 DEF KeyChecked, Changes
<1>4. ASSUME NEW p \in People, NEW r \in Roles, CreateMember(q, p, r) PROVE MembersInv'
  <2>1. /\ bootstrapped /\ memberStatus[p] = "absent"
        /\ memberRole' = [memberRole EXCEPT ![p] = r]
        /\ memberStatus' = [memberStatus EXCEPT ![p] = "pending"]
        /\ GoesOn(q, About("enrollment", p))
        /\ UNCHANGED <<session, apiKeyOf, code, authCall, bootstrapped, codeUses, staleChange, lateGrants>>
    BY <1>4 DEF CreateMember, histories
  <2>2. acting' \in [AppProcesses -> WorkRecords] /\ WorkHasMembers' /\ ChecksHold'
    BY <2>1, WorkGoesOn DEF WorkOps, CodeKinds, Checked
  <2>3. MembersTyped' /\ CallsHaveMembers' /\ FoundersAreAdmins' /\ CodesHaveMembers' /\ CodesWorkOnce'
    BY <2>1, <2>2 DEF MembersTyped, CallsHaveMembers, FoundersAreAdmins, CodesHaveMembers, CodesWorkOnce, Open
  <2>4. LastAdminRemains'
    BY <2>1 DEF LastAdminRemains, AdminAlwaysRemains, ActiveAdmins, Active, MembersTyped
  <2>5. SuspendedHasNothing'
    BY <2>1 DEF SuspendedHasNothing, LiveOf, MembersTyped
  <2> QED BY <2>2, <2>3, <2>4, <2>5
<1>5. ASSUME NEW p \in People, NEW r \in {"same"} \cup Roles, NEW s \in {"same", "active", "suspended"},
             UpdateChecked(q, p, r, s)
      PROVE  MembersInv'
  <2> DEFINE w == Doing("update", p, r, s)
  <2>1. w \in WorkRecords /\ ~w.overtaken /\ w.op = "update" /\ w.of = p /\ w.role = r /\ w.status = s
    <3>1. "update" \in WorkOps /\ p \in Somebody
      BY DEF WorkOps, Somebody
    <3> QED BY <3>1 DEF Doing, WorkRecords
  <2> HIDE DEF w
  <2>2. TakesAdmin(w) /\ ~staleChange => ActiveAdmins \ {p} # {}
    BY <1>5, <2>1 DEF UpdateChecked, TakesAdmin, NotLastActiveAdmin, LastAdminRemains, AdminAlwaysRemains
  <2>3. bootstrapped /\ UNCHANGED <<storedMembers, authCall, histories>> /\ GoesOn(q, w)
    BY <1>5 DEF UpdateChecked, w
  <2> QED BY <1>0, <2>1, <2>2, <2>3 DEF Changes
<1> QED BY <1>1, <1>2, <1>3, <1>4, <1>5 DEF Request

----------------------------------------------------------------------------
\* A process that is done, and what it had checked when nobody came in between.
LEMMA WorkEnds ==
    ASSUME MembersInv, NEW q \in AppProcesses, GoesOn(q, NoWork),
           bootstrapped' = bootstrapped, staleChange => staleChange'
    PROVE  acting' \in [AppProcesses -> WorkRecords] /\ WorkHasMembers' /\ ChecksHold'
<1>1. NoWork \in WorkRecords /\ ~NoWork.overtaken /\ NoWork.op = "none"
  BY NoWorkDoesNothing
<1> QED BY <1>1, WorkSteps DEF Changes

\* A role or a status is written: an administrator is left unless another process came in between.
LEMMA UpdateKeeps ==
    ASSUME MembersInv, NEW q \in AppProcesses, UpdateWritten(q)
    PROVE  MembersInv'
<1> DEFINE w == acting[q]
           p == acting[q].of
<1> USE MembersConstants DEF MembersInv
<1>1. w \in WorkRecords /\ p \in People /\ w.op = "update" /\ bootstrapped
      /\ w.role \in {"same"} \cup Roles /\ w.status \in {"same", "active", "suspended"}
      /\ w.overtaken \in BOOLEAN
  BY DEF UpdateWritten, MembersTyped, WorkRecords, WorkHasMembers, Changes
<1>2. /\ Exists(p)
      /\ memberRole' = [memberRole EXCEPT ![p] = IF w.role = "same" THEN @ ELSE w.role]
      /\ memberStatus' = [memberStatus EXCEPT ![p] = IF w.status = "same" THEN @ ELSE w.status]
      /\ session' = IF w.status = "suspended" THEN RevokedAll(p, {}) ELSE session
      /\ apiKeyOf' = [k \in ApiKeys |-> IF w.status = "suspended" /\ apiKeyOf[k] = p THEN Nobody ELSE apiKeyOf[k]]
      /\ staleChange' = (staleChange \/ (w.overtaken /\ TakesAdmin(w)))
      /\ lateGrants' = IF w.status = "suspended" THEN lateGrants \ {p} ELSE lateGrants
      /\ UNCHANGED <<code, authCall, bootstrapped, codeUses>> /\ GoesOn(q, NoWork)
  BY DEF UpdateWritten
<1>3. acting' \in [AppProcesses -> WorkRecords] /\ WorkHasMembers' /\ ChecksHold'
  BY <1>2, WorkEnds
<1>4. staleChange \in BOOLEAN /\ TakesAdmin(w) \in BOOLEAN
  BY DEF MembersTyped, TakesAdmin
<1> HIDE DEF w, p
<1>5. /\ session' \in [Sessions -> Somebody]
      /\ \A x \in Sessions : session'[x] \in {session[x], Nobody} /\ (w.status = "suspended" => session'[x] # p)
  BY <1>1, <1>2, RevokedOf DEF MembersTyped
<1>6. /\ apiKeyOf' \in [ApiKeys -> Somebody]
      /\ \A k \in ApiKeys : apiKeyOf'[k] \in {apiKeyOf[k], Nobody} /\ (w.status = "suspended" => apiKeyOf'[k] # p)
  BY <1>1, <1>2 DEF MembersTyped, Somebody
<1>7. /\ memberRole' \in [People -> Roles]
      /\ memberStatus' \in [People -> {"absent", "pending", "active", "suspended"}]
  BY <1>1, <1>2 DEF MembersTyped
<1>8. MembersTyped'
  <2>1. staleChange' \in BOOLEAN /\ lateGrants' \subseteq People
    BY <1>1, <1>2, <1>4 DEF MembersTyped
  <2> QED BY <1>2, <1>3, <1>5, <1>6, <1>7, <2>1 DEF MembersTyped
<1>9. SuspendedHasNothing'
  <2>1. ASSUME NEW x \in People,
               memberStatus'[x] = "absent" \/ (memberStatus'[x] = "suspended" /\ x \notin lateGrants')
        PROVE  (\A s \in Sessions : session'[s] # x) /\ \A k \in ApiKeys : apiKeyOf'[k] # x
    <3>1. CASE x = p /\ w.status = "suspended"
      BY <1>5, <1>6, <3>1
    <3>2. CASE ~(x = p /\ w.status = "suspended")
      <4>1. /\ memberStatus[x] = memberStatus'[x]
            /\ (x \in lateGrants <=> x \in lateGrants')
        BY <1>1, <1>2, <2>1, <3>2 DEF MembersTyped, Exists
      <4>2. (\A s \in Sessions : session[s] # x) /\ \A k \in ApiKeys : apiKeyOf[k] # x
        BY <2>1, <4>1 DEF SuspendedHasNothing, LiveOf
      <4> QED BY <1>5, <1>6, <4>2
    <3> QED BY <3>1, <3>2
  <2> QED BY <2>1 DEF SuspendedHasNothing, LiveOf
<1>10. LastAdminRemains'
  <2>1. SUFFICES ASSUME ~staleChange' PROVE ActiveAdmins' # {}
    BY DEF LastAdminRemains, AdminAlwaysRemains
  <2>2. ~staleChange /\ (TakesAdmin(w) => ~w.overtaken)
    BY <1>1, <1>2, <1>4, <2>1
  <2>3. PICK a \in ActiveAdmins : TakesAdmin(w) => a # p
    <3>1. CASE TakesAdmin(w)
      BY <1>1, <2>2, <3>1 DEF ChecksHold, Changes, w, p
    <3>2. CASE ~TakesAdmin(w)
      BY <1>1, <2>2, <3>2 DEF LastAdminRemains, AdminAlwaysRemains
    <3> QED BY <3>1, <3>2
  <2>4. a \in ActiveAdmins'
    BY <1>1, <1>2, <2>3 DEF ActiveAdmins, Active, MembersTyped, TakesAdmin, Roles
  <2> QED BY <2>4
<1>11. CodesHaveMembers' /\ CallsHaveMembers' /\ FoundersAreAdmins' /\ CodesWorkOnce'
  BY <1>1, <1>2 DEF CodesHaveMembers, CallsHaveMembers, FoundersAreAdmins, CodesWorkOnce, Open
<1> QED BY <1>3, <1>8, <1>9, <1>10, <1>11

\* A member is removed: the rows that refer to it go with it.
LEMMA RemovalKeeps ==
    ASSUME MembersInv, NEW q \in AppProcesses, RemoveWritten(q)
    PROVE  MembersInv'
<1> DEFINE w == acting[q]
           p == acting[q].of
<1> USE MembersConstants DEF MembersInv
<1>1. p \in People /\ w.op = "remove" /\ bootstrapped /\ w.overtaken \in BOOLEAN
  BY DEF RemoveWritten, MembersTyped, WorkRecords, WorkHasMembers, Changes
<1>2. /\ memberStatus' = [memberStatus EXCEPT ![p] = "absent"]
      /\ memberRole' = [memberRole EXCEPT ![p] = "admin"]
      /\ session' = RevokedAll(p, {})
      /\ apiKeyOf' = [k \in ApiKeys |-> IF apiKeyOf[k] = p THEN Nobody ELSE apiKeyOf[k]]
      /\ code' = [t \in Codes |-> IF code[t].of = p THEN NoCode ELSE code[t]]
      /\ staleChange' = (staleChange \/ (w.overtaken /\ TakesAdmin(w)))
      /\ lateGrants' = lateGrants \ {p}
      /\ UNCHANGED <<authCall, bootstrapped, codeUses>> /\ GoesOn(q, NoWork)
  BY DEF RemoveWritten
<1>3. acting' \in [AppProcesses -> WorkRecords] /\ WorkHasMembers' /\ ChecksHold'
  BY <1>2, WorkEnds
<1>4. staleChange \in BOOLEAN /\ TakesAdmin(w)
  BY <1>1 DEF MembersTyped, TakesAdmin
<1> HIDE DEF w, p
<1>5. /\ session' \in [Sessions -> Somebody]
      /\ \A x \in Sessions : session'[x] \in {session[x], Nobody} /\ session'[x] # p
  BY <1>1, <1>2, RevokedOf DEF MembersTyped
<1>6. code' \in [Codes -> [of : Somebody, kind : CodeKinds]]
      /\ \A t \in Codes : code'[t] \in {code[t], NoCode}
  BY <1>2 DEF MembersTyped, NoCode, Somebody, CodeKinds
<1>7. apiKeyOf' \in [ApiKeys -> Somebody]
      /\ \A k \in ApiKeys : apiKeyOf'[k] \in {apiKeyOf[k], Nobody} /\ apiKeyOf'[k] # p
  BY <1>1, <1>2 DEF MembersTyped, Somebody
<1>8. MembersTyped' /\ FoundersAreAdmins' /\ CallsHaveMembers'
  <2>1. staleChange' \in BOOLEAN /\ lateGrants' \subseteq People
    BY <1>1, <1>2, <1>4 DEF MembersTyped
  <2> QED BY <1>1, <1>2, <1>3, <1>5, <1>6, <1>7, <2>1 DEF MembersTyped, FoundersAreAdmins, CallsHaveMembers, Roles
<1>9. SuspendedHasNothing'
  BY <1>1, <1>2, <1>5, <1>7 DEF SuspendedHasNothing, LiveOf, MembersTyped
<1>10. LastAdminRemains'
  <2>1. SUFFICES ASSUME ~staleChange' PROVE ActiveAdmins' # {}
    BY DEF LastAdminRemains, AdminAlwaysRemains
  <2>2. ~staleChange /\ ~w.overtaken
    BY <1>1, <1>2, <1>4, <2>1
  <2>3. PICK a \in ActiveAdmins : a # p
    BY <1>1, <1>4, <2>2 DEF ChecksHold, Changes, w, p
  <2>4. a \in ActiveAdmins'
    BY <1>1, <1>2, <2>3 DEF ActiveAdmins, Active, MembersTyped
  <2> QED BY <2>4
<1>11. CodesHaveMembers' /\ CodesWorkOnce'
  BY <1>2, <1>6 DEF CodesHaveMembers, CodesWorkOnce, Open
<1> QED BY <1>3, <1>8, <1>9, <1>10, <1>11

\* A session or a key is given: to a member who is active, or whose check was overtaken.
LEMMA GrantsKeep ==
    ASSUME MembersInv, NEW q \in AppProcesses,
           SessionIssued(q) \/ \E k \in ApiKeys : KeyIssued(q, k)
    PROVE  MembersInv'
<1> DEFINE w == acting[q]
           p == acting[q].of
<1> USE MembersConstants DEF MembersInv
<1>1. p \in People /\ w.op \in {"session", "key"} /\ Exists(p) /\ w.overtaken \in BOOLEAN
  BY DEF SessionIssued, KeyIssued, MembersTyped, WorkRecords, WorkHasMembers
<1>2. /\ lateGrants' = IF w.overtaken THEN lateGrants \cup {p} ELSE lateGrants
      /\ UNCHANGED <<memberRole, memberStatus, code, authCall, bootstrapped, codeUses, staleChange>>
      /\ GoesOn(q, NoWork)
  BY DEF SessionIssued, KeyIssued, GrantedTo
<1>3. acting' \in [AppProcesses -> WorkRecords] /\ WorkHasMembers' /\ ChecksHold'
  BY <1>2, WorkEnds
<1>4. ~w.overtaken => Active(p)
  BY <1>1 DEF ChecksHold
<1>5. session' \in [Sessions -> Somebody] /\ \A s \in Sessions : session'[s] \in {session[s], p}
  BY <1>1, IssuedTo DEF SessionIssued, KeyIssued, MembersTyped
<1>6. apiKeyOf' \in [ApiKeys -> Somebody] /\ \A k \in ApiKeys : apiKeyOf'[k] \in {apiKeyOf[k], p}
  BY <1>1 DEF SessionIssued, KeyIssued, MembersTyped, Somebody
<1> HIDE DEF w, p
<1>7. MembersTyped' /\ CallsHaveMembers' /\ FoundersAreAdmins' /\ CodesHaveMembers' /\ CodesWorkOnce'
  BY <1>1, <1>2, <1>3, <1>5, <1>6
     DEF MembersTyped, CallsHaveMembers, FoundersAreAdmins, CodesHaveMembers, CodesWorkOnce, Open
<1>8. LastAdminRemains'
  BY <1>2 DEF LastAdminRemains, AdminAlwaysRemains, ActiveAdmins, Active
<1>9. SuspendedHasNothing'
  BY <1>1, <1>2, <1>4, <1>5, <1>6 DEF SuspendedHasNothing, LiveOf, Exists, Active
<1> QED BY <1>3, <1>7, <1>8, <1>9

----------------------------------------------------------------------------
\* A code that is issued to p has stored nothing.
LEMMA IssuedCode ==
    ASSUME MembersInv, NEW t \in Codes, NEW p \in People, NEW kind \in CodeKinds, IssueCode(t, p, kind)
    PROVE  /\ code' \in [Codes -> [of : Somebody, kind : CodeKinds]] /\ codeUses' \in [Codes -> Nat]
           /\ CodesHaveMembers' /\ CodesWorkOnce'
<1> USE DEF MembersInv, MembersTyped
<1>1. NoCode \in [of : Somebody, kind : CodeKinds]
  BY DEF NoCode, Somebody, CodeKinds
<1>2. code' \in [Codes -> [of : Somebody, kind : CodeKinds]] /\ codeUses' \in [Codes -> Nat]
  BY <1>1 DEF IssueCode, Somebody
<1>3. \A u \in Codes \ {t} : code'[u] \in {code[u], NoCode} /\ codeUses'[u] = codeUses[u]
  BY DEF IssueCode
<1>4. code'[t].of = p /\ codeUses'[t] = 0
  BY DEF IssueCode
<1>5. ASSUME NEW u \in Codes
      PROVE  (code'[u] # NoCode => code'[u].of \in People) /\ codeUses'[u] <= 1
             /\ (code'[u] # NoCode => codeUses'[u] = 0)
  <2>1. CASE u = t
    BY <1>4, <2>1
  <2>2. CASE u # t
    BY <1>3, <2>2 DEF CodesHaveMembers, CodesWorkOnce, Open
  <2> QED BY <2>1, <2>2
<1> QED BY <1>2, <1>5 DEF CodesHaveMembers, CodesWorkOnce, Open

LEMMA WritesKeep ==
    ASSUME MembersInv, NEW q \in AppProcesses, Write(q)
    PROVE  MembersInv'
<1> USE DEF MembersInv
<1>1. ASSUME NEW t \in Codes, CodeIssued(q, t) PROVE MembersInv'
  <2>1. /\ acting[q].of \in People /\ acting[q].op \in CodeKinds
        /\ IssueCode(t, acting[q].of, acting[q].op) /\ GoesOn(q, NoWork)
        /\ UNCHANGED <<memberRole, memberStatus, session, apiKeyOf, authCall, bootstrapped, staleChange, lateGrants>>
    BY <1>1 DEF CodeIssued, CodeKinds, WorkHasMembers
  <2>2. acting' \in [AppProcesses -> WorkRecords] /\ WorkHasMembers' /\ ChecksHold'
    BY <2>1, WorkEnds
  <2>3. /\ code' \in [Codes -> [of : Somebody, kind : CodeKinds]] /\ codeUses' \in [Codes -> Nat]
        /\ CodesHaveMembers' /\ CodesWorkOnce'
    BY <2>1, IssuedCode
  <2>4. MembersTyped' /\ CallsHaveMembers' /\ FoundersAreAdmins'
    BY <2>1, <2>2, <2>3 DEF MembersTyped, CallsHaveMembers, FoundersAreAdmins
  <2>5. LastAdminRemains' /\ SuspendedHasNothing'
    BY <2>1 DEF LastAdminRemains, AdminAlwaysRemains, ActiveAdmins, Active, SuspendedHasNothing, LiveOf
  <2> QED BY <2>2, <2>3, <2>4, <2>5
<1>2. CASE SessionChecked(q)
  <2> DEFINE w == About("session", acting[q].of)
  <2>1. acting[q].of \in People /\ Active(acting[q].of) /\ GoesOn(q, w)
        /\ UNCHANGED <<storedMembers, authCall, histories>>
    BY <1>2 DEF SessionChecked, Active
  <2>2. w \in WorkRecords /\ ~w.overtaken /\ w.op = "session" /\ w.of = acting[q].of
    <3>1. "session" \in WorkOps /\ acting[q].of \in Somebody
      BY <2>1 DEF WorkOps, Somebody
    <3> QED BY <3>1, AboutWhat
  <2> HIDE DEF w
  <2>3. acting' \in [AppProcesses -> WorkRecords] /\ WorkHasMembers' /\ ChecksHold'
    BY <2>1, <2>2, WorkSteps DEF storedMembers, histories, Active, Changes
  <2>4. authCall' \in [AuthCalls -> AuthCallRecords] /\ CallsHaveMembers'
    BY <2>1 DEF MembersTyped, CallsHaveMembers
  <2> QED BY <2>1, <2>3, <2>4, StoreAlone
<1>3. CASE WorkGivenUp(q)
  <2>1. acting' \in [AppProcesses -> WorkRecords] /\ WorkHasMembers' /\ ChecksHold'
    BY <1>3, WorkEnds DEF WorkGivenUp, storedMembers, histories
  <2>2. authCall' \in [AuthCalls -> AuthCallRecords] /\ CallsHaveMembers'
    BY <1>3 DEF WorkGivenUp, MembersTyped, CallsHaveMembers
  <2> QED BY <1>3, <2>1, <2>2, StoreAlone DEF WorkGivenUp
<1> QED BY <1>1, <1>2, <1>3, SetupDoneKeeps, UpdateKeeps, RemovalKeeps, GrantsKeep DEF Write

----------------------------------------------------------------------------
\* Every step of administrators, browsers and clocks keeps the invariant.
THEOREM MembersInvariance == MembersSpec => []MembersInv
<1>1. MembersInv /\ [MembersNext]_membersVars => MembersInv'
  <2> SUFFICES ASSUME MembersInv, [MembersNext]_membersVars PROVE MembersInv'
    OBVIOUS
  <2>1. ASSUME NEW q \in AppProcesses, Request(q) \/ Write(q)
        PROVE  MembersInv'
    BY <2>1, MemberRequestsKeep, WritesKeep
  <2>2. ASSUME NEW q \in AppProcesses, NEW c \in AuthCalls, AuthEnds(c, q)
        PROVE  MembersInv'
    BY <2>2, SetupKeeps, RecoveryKeeps, RedemptionKeeps, LoginKeeps DEF AuthEnds
  <2>3. CASE Served \/ TimePasses
    BY <2>3, ServingKeeps
  <2>4. CASE UNCHANGED membersVars
    <3>1. UNCHANGED <<storedMembers, histories>> /\ UNCHANGED <<authCall, acting>>
      BY <2>4 DEF membersVars, histories
    <3>2. authCall' \in [AuthCalls -> AuthCallRecords] /\ CallsHaveMembers'
      BY <3>1 DEF MembersInv, MembersTyped, CallsHaveMembers
    <3>3. acting' \in [AppProcesses -> WorkRecords] /\ WorkHasMembers' /\ ChecksHold'
      BY <3>1, NobodyActs DEF storedMembers, histories
    <3> QED BY <3>1, <3>2, <3>3, StoreAlone
  <2> QED BY <2>1, <2>2, <2>3, <2>4 DEF MembersNext
<1> QED BY <1>1, MembersBegin, PTL DEF MembersSpec

\* An instance that was set up keeps an active administrator, whatever changes of members,
\* setups and recoveries are on their way in any number of processes, until a process demotes,
\* suspends, removes or claims somebody on a check that another one had overtaken:
\* assertNotLastActiveAdmin() and isBootstrapComplete() read outside of what they guard.
THEOREM AnAdminRemains == MembersSpec => []LastAdminRemains
<1>1. MembersInv => LastAdminRemains
  BY DEF MembersInv
<1> QED BY <1>1, MembersInvariance, PTL

\* In a single process nobody can come in between, so there the administrator remains without
\* any exception, and who is suspended holds nothing, as long as no setup that was awaiting
\* its hash claims a member of an instance that has been set up meanwhile.
OneProcess == \A q, r \in AppProcesses : q = r
SetUpOnce == bootstrapped => \A c \in AuthCalls : authCall[c].op # "claim"
NothingOvertaken ==
    (\A q \in AppProcesses : ~acting[q].overtaken) /\ ~staleChange /\ lateGrants = {}
NothingLeft == \A p \in People : memberStatus[p] \in {"absent", "suspended"} =>
    LiveOf(p) = {} /\ \A k \in ApiKeys : apiKeyOf[k] # p

LEMMA NothingOvertakes ==
    ASSUME OneProcess, MembersInv, SetUpOnce, NothingOvertaken, [MembersNext]_membersVars
    PROVE  NothingOvertaken'
<1> USE DEF NothingOvertaken
<1>1. ASSUME NEW q \in AppProcesses, NEW w, ~w.overtaken, GoesOn(q, w)
      PROVE  \A r \in AppProcesses : ~acting'[r].overtaken
  BY <1>1 DEF OneProcess, GoesOn
<1>2. ~NoWork.overtaken
      /\ \A op, p, r, s : ~Doing(op, p, r, s).overtaken /\ ~About(op, p).overtaken
  BY DEF NoWork, About, Doing
<1>3. ASSUME NEW q \in AppProcesses, Request(q) PROVE NothingOvertaken'
  BY <1>1, <1>2, <1>3 DEF Request, Invite, RemoveChecked, KeyChecked, CreateMember, UpdateChecked, histories
<1>4. ASSUME NEW q \in AppProcesses, NEW c \in AuthCalls, AuthEnds(c, q) PROVE NothingOvertaken'
  <2>1. CASE SetupEnds(c, q)
    <3>1. ~staleChange'
      BY <2>1 DEF SetupEnds, SetUpOnce, AuthCallEnds
    <3>2. lateGrants' = lateGrants /\ GoesOn(q, About("setup", authCall[c].of))
      BY <2>1 DEF SetupEnds
    <3> QED BY <1>1, <1>2, <3>1, <3>2
  <2>2. CASE RecoverEnds(c, q) \/ RedeemEnds(c, q) \/ LoginEnds(c, q)
    BY <1>1, <1>2, <2>2 DEF RecoverEnds, RedeemEnds, LoginEnds, histories
  <2> QED BY <1>4, <2>1, <2>2 DEF AuthEnds
<1>5. ASSUME NEW q \in AppProcesses, Write(q) PROVE NothingOvertaken'
  <2>1. ASSUME UpdateWritten(q) \/ RemoveWritten(q) PROVE NothingOvertaken'
    BY <1>1, <1>2, <2>1 DEF UpdateWritten, RemoveWritten
  <2>2. ASSUME SessionIssued(q) \/ \E k \in ApiKeys : KeyIssued(q, k) PROVE NothingOvertaken'
    BY <1>1, <1>2, <2>2 DEF SessionIssued, KeyIssued, GrantedTo
  <2>3. ASSUME SetupDone(q) \/ SessionChecked(q) \/ WorkGivenUp(q) \/ \E t \in Codes : CodeIssued(q, t)
        PROVE  NothingOvertaken'
    BY <1>1, <1>2, <2>3 DEF SetupDone, SessionChecked, WorkGivenUp, CodeIssued, histories
  <2> QED BY <1>5, <2>1, <2>2, <2>3 DEF Write
<1>6. ASSUME Served \/ TimePasses \/ UNCHANGED membersVars PROVE NothingOvertaken'
  <2>1. ASSUME NEW c \in AuthCalls, AuthBegins(c) PROVE UNCHANGED <<acting, histories>>
    BY <2>1 DEF AuthBegins, SetupBegins, RecoverBegins, LoginBegins, RedeemBegins, ChangeBegins
  <2>2. ASSUME NEW c \in AuthCalls, ChangeEnds(c) \/ AuthCallFails(c) PROVE UNCHANGED <<acting, histories>>
    BY <2>2 DEF ChangeEnds, AuthCallFails
  <2>3. ASSUME \E k \in ApiKeys : RevokeApiKey(k) PROVE UNCHANGED <<acting, histories>>
    BY <2>3 DEF RevokeApiKey
  <2>4. ASSUME TimePasses PROVE UNCHANGED <<acting, histories>>
    BY <2>4 DEF TimePasses, SessionEnds, CodeExpires
  <2>5. UNCHANGED <<acting, histories>>
    BY <1>6, <2>1, <2>2, <2>3, <2>4 DEF Served, membersVars, histories
  <2> QED BY <2>5 DEF histories
<1> QED BY <1>3, <1>4, <1>5, <1>6 DEF MembersNext

\* The server alone (assertNotLastActiveAdmin() and the rows of members.ts): no exception is left.
THEOREM OneProcessKeepsAnAdmin ==
    ASSUME OneProcess
    PROVE  MembersSpec /\ []SetUpOnce => [](AdminAlwaysRemains /\ NothingLeft)
<1>1. MembersInit => NothingOvertaken
  BY DEF MembersInit, NothingOvertaken, NoWork, About, Doing
<1>2. MembersInv /\ SetUpOnce /\ NothingOvertaken /\ [MembersNext]_membersVars => NothingOvertaken'
  BY NothingOvertakes
<1>3. MembersInv /\ NothingOvertaken => AdminAlwaysRemains /\ NothingLeft
  BY DEF MembersInv, NothingOvertaken, LastAdminRemains, SuspendedHasNothing, NothingLeft
<1> QED BY <1>1, <1>2, <1>3, MembersInvariance, PTL DEF MembersSpec

\* Who is suspended or removed holds no session and no key, whatever login, change of
\* password or redeemed code was awaiting its hash, but for what another process gave it
\* on a check that the suspension had overtaken.
THEOREM SuspensionIsComplete == MembersSpec => []SuspendedHasNothing
<1>1. MembersInv => SuspendedHasNothing
  BY DEF MembersInv
<1> QED BY <1>1, MembersInvariance, PTL

\* A code stores one password, however many calls redeem it at once.
THEOREM CodesAreForOneUse == MembersSpec => []CodesWorkOnce
<1>1. MembersInv => CodesWorkOnce
  BY DEF MembersInv
<1> QED BY <1>1, MembersInvariance, PTL

----------------------------------------------------------------------------
(* Licensing: the clock of a lowered cap.                                  *)

EntitlementsTyped ==
    /\ cachedLease \in Leases \cup {NoLease}
    /\ memberCount \in Nat /\ accountCount \in Nat /\ day \in Nat
    /\ overCapSince \in Nat \cup {Never}

\* Recording the caps sets the clock if usage is over those of a lease in force, and clears it if not.
LEMMA RecordingSetsClock ==
    ASSUME overCapSince \in Nat \cup {Never}, day \in Nat, NEW l, NEW m, NEW a, RecordCapState(l, m, a)
    PROVE  /\ overCapSince' \in Nat \cup {Never}
           /\ overCapSince' # Never <=> LicensedBy(l) /\ Exceeds(l, m, a)
BY EntitlementsConstants DEF RecordCapState

LEMMA EntitlementsKeep ==
    ASSUME EntitlementsTyped, CapClockRuns, [EntitlementsNext]_entitlementVars
    PROVE  EntitlementsTyped' /\ CapClockRuns'
<1> USE EntitlementsConstants DEF EntitlementsTyped, CapClockRuns, Licensed, OverQuota
<1>r. ASSUME RecordCapState(cachedLease', memberCount', accountCount'), day' = day,
             cachedLease' \in Leases \cup {NoLease}, memberCount' \in Nat, accountCount' \in Nat
      PROVE  EntitlementsTyped' /\ CapClockRuns'
  <2>1. /\ overCapSince' \in Nat \cup {Never}
        /\ overCapSince' # Never <=> LicensedBy(cachedLease') /\ Exceeds(cachedLease', memberCount', accountCount')
    BY <1>r, RecordingSetsClock
  <2> QED BY <1>r, <2>1 DEF LicensedBy, Exceeds, MaxMembers, MaxAccounts
<1>1. ASSUME NEW l \in Leases, SaveLease(l) PROVE EntitlementsTyped' /\ CapClockRuns'
  BY <1>r, <1>1 DEF SaveLease
<1>2. CASE ClearLease
  BY <1>2 DEF ClearLease, LicensedBy
<1>3. CASE AddMember
  BY <1>3 DEF AddMember, MayGrow, LicensedBy, Exceeds, MaxMembers, MaxAccounts
<1>4. CASE RemoveAMember
  BY <1>r, <1>4 DEF RemoveAMember
<1>5. CASE ConnectMailbox
  BY <1>5 DEF ConnectMailbox, MayGrow, LicensedBy, Exceeds, MaxMembers, MaxAccounts
<1>6. CASE ReleaseMailbox
  BY <1>r, <1>6 DEF ReleaseMailbox
<1>7. CASE DayPasses
  BY <1>7 DEF DayPasses, LicensedBy, Exceeds, MaxMembers, MaxAccounts
<1>8. CASE UNCHANGED entitlementVars
  BY <1>8 DEF entitlementVars, LicensedBy, Exceeds, MaxMembers, MaxAccounts
<1> QED BY <1>1, <1>2, <1>3, <1>4, <1>5, <1>6, <1>7, <1>8 DEF EntitlementsNext

\* The clock of a lowered cap runs exactly while a license in force is over a
\* cap, for any leases the license server grants and any length of the periods.
THEOREM CapClockAlwaysRuns == EntitlementsSpec => []CapClockRuns
<1>1. EntitlementsInit => EntitlementsTyped /\ CapClockRuns
  BY EntitlementsConstants DEF EntitlementsInit, EntitlementsTyped, CapClockRuns, Licensed, LicensedBy
<1> QED BY <1>1, EntitlementsKeep, PTL DEF EntitlementsSpec

----------------------------------------------------------------------------
(* The attempts of an address.                                             *)

RateRows == [attempts : Nat, start : Nat \cup {NoAttemptRow}]
LoginRows == [at : {"idle", "checking", "failed", "succeeded", "refused"}, email : Emails,
              window : Nat \cup {NoAttemptRow}]
\* The logins that count in the window that started at w.
Counted(l) == login[l].at \in {"checking", "failed"}
CountedIn(w) == {l \in Logins : Counted(l) /\ login[l].window = w}
AddressRow == attempts[Address]

LoginTyped ==
    /\ attempts \in [RateKeys -> RateRows]
    /\ login \in [Logins -> LoginRows]
    /\ minute \in Nat

\* A login that counts is of the open window, or its window has ended.
WindowsEnd ==
    \A l \in Logins : Counted(l) =>
        /\ login[l].window \in Nat
        /\ (AddressRow # Absent /\ login[l].window = AddressRow.start) \/ login[l].window + Window <= minute

RowCounts ==
    /\ AddressRow.attempts <= AddressLimit
    /\ AddressRow # Absent => /\ AddressRow.start \in Nat /\ AddressRow.attempts > 0
                              /\ AddressRow.attempts = Cardinality(CountedIn(AddressRow.start))

LoginInv == LoginTyped /\ WindowsEnd /\ RowCounts

LEMMA AttemptFields ==
    ASSUME NEW n \in Nat, NEW w \in Nat \cup {NoAttemptRow}
    PROVE  /\ AttemptRow(n, w) \in RateRows /\ AttemptRow(n, w).attempts = n /\ AttemptRow(n, w).start = w
           /\ w \in Nat => AttemptRow(n, w) # Absent
           /\ Absent \in RateRows /\ Absent.attempts = 0 /\ Absent.start = NoAttemptRow
BY LoginConstants DEF AttemptRow, Absent, RateRows

LEMMA CountedAreFinite == ASSUME NEW w PROVE IsFiniteSet(CountedIn(w))
<1>1. CountedIn(w) \subseteq Logins
  BY DEF CountedIn
<1> QED BY <1>1, LoginConstants, FS_Subset

\* Rows of ended windows are deleted: what is left is of a window that is open.
LEMMA FreshRow ==
    ASSUME LoginInv
    PROVE  /\ Fresh \in [RateKeys -> RateRows]
           /\ Fresh[Address] = Absent \/ (Fresh[Address] = AddressRow /\ AddressRow # Absent /\ AddressRow.start + Window > minute)
           /\ Fresh[Address] = Absent => \A l \in Logins : Counted(l) => login[l].window + Window <= minute
<1> USE LoginConstants, AttemptFields DEF LoginInv, LoginTyped, RateKeys, AddressRow
<1>1. Fresh \in [RateKeys -> RateRows]
  BY AttemptFields DEF Fresh
<1>2. Fresh[Address] = IF attempts[Address] # Absent /\ attempts[Address].start + Window <= minute
                       THEN Absent ELSE attempts[Address]
  BY DEF Fresh
<1>3. attempts[Address] # Absent => attempts[Address].start \in Nat
  BY DEF RowCounts
<1>4. Fresh[Address] = Absent \/ (Fresh[Address] = AddressRow /\ AddressRow # Absent /\ AddressRow.start + Window > minute)
  BY <1>2, <1>3
<1>5. ASSUME Fresh[Address] = Absent, NEW l \in Logins, Counted(l) PROVE login[l].window + Window <= minute
  BY <1>2, <1>5 DEF WindowsEnd
<1> QED BY <1>1, <1>4, <1>5

\* A refused or a failed login, and time, change nothing that counts.
LEMMA LoginCountsStay ==
    ASSUME LoginInv, LoginTyped', attempts' = attempts \/ attempts' = Fresh, minute' >= minute,
           \A k \in Logins : (Counted(k)' <=> Counted(k)) /\ login'[k].window = login[k].window
    PROVE  LoginInv'
<1> USE LoginConstants
<1>1. \A w : CountedIn(w)' = CountedIn(w)
  BY DEF CountedIn
<1>2. minute \in Nat /\ minute' \in Nat /\ \A k \in Logins : Counted(k) => login[k].window \in Nat
  BY DEF LoginInv, LoginTyped, WindowsEnd
<1>3. CASE attempts' = attempts
  <2>1. AddressRow' = AddressRow
    BY <1>3 DEF AddressRow
  <2>2. WindowsEnd'
    BY <1>2, <2>1 DEF LoginInv, WindowsEnd
  <2>3. RowCounts'
    BY <1>1, <2>1 DEF LoginInv, RowCounts
  <2> QED BY <2>2, <2>3 DEF LoginInv
<1>4. CASE attempts' = Fresh
  <2>1. CASE Fresh[Address] = Absent
    <3>1. AddressRow' = Absent /\ \A k \in Logins : Counted(k) => login[k].window + Window <= minute
      BY <1>4, <2>1, FreshRow DEF AddressRow
    <3>2. WindowsEnd'
      BY <1>2, <3>1 DEF WindowsEnd
    <3>3. RowCounts'
      BY <3>1, AttemptFields DEF RowCounts, Absent, AttemptRow
    <3> QED BY <3>2, <3>3 DEF LoginInv
  <2>2. CASE Fresh[Address] = AddressRow
    <3>1. AddressRow' = AddressRow
      BY <1>4, <2>2 DEF AddressRow
    <3>2. WindowsEnd'
      BY <1>2, <3>1 DEF LoginInv, WindowsEnd
    <3>3. RowCounts'
      BY <1>1, <3>1 DEF LoginInv, RowCounts
    <3> QED BY <3>2, <3>3 DEF LoginInv
  <2> QED BY <2>1, <2>2, FreshRow
<1> QED BY <1>3, <1>4

\* A login that begins and is not refused adds itself to the open window, or opens one.
LEMMA BeginningCounts == ASSUME LoginInv, NEW l \in Logins, LoginBegin(l) PROVE LoginInv'
<1> DEFINE e == login[l].email
<1> USE LoginConstants
<1>1. /\ login[l].at = "idle" /\ UNCHANGED minute /\ e \in Emails /\ minute \in Nat
      /\ login \in [Logins -> LoginRows]
  BY DEF LoginBegin, LoginInv, LoginTyped, LoginRows
<1>2. CASE attempts' = Fresh /\ login' = [login EXCEPT ![l].at = "refused"]
  <2>1. LoginTyped'
    <3>1. login' \in [Logins -> LoginRows]
      BY <1>1, <1>2 DEF LoginRows
    <3> QED BY <1>1, <1>2, <3>1, FreshRow DEF LoginTyped
  <2>2. \A k \in Logins : (Counted(k)' <=> Counted(k)) /\ login'[k].window = login[k].window
    BY <1>1, <1>2 DEF Counted, LoginRows
  <2> QED BY <1>1, <1>2, <2>1, <2>2, LoginCountsStay
<1>3. CASE /\ Fresh[e].attempts < EmailLimit /\ Fresh[Address].attempts < AddressLimit
           /\ attempts' = [Fresh EXCEPT ![e] = Reserve(@), ![Address] = Reserve(@)]
           /\ login' = [login EXCEPT ![l].at = "checking", ![l].window = Reserve(Fresh[Address]).start]
  <2> DEFINE new == Reserve(Fresh[Address])
  <2>1. Fresh \in [RateKeys -> RateRows] /\ Address \in RateKeys /\ e \in RateKeys /\ e # Address
    BY <1>1, FreshRow DEF RateKeys
  <2>2. ASSUME NEW r \in RateRows
        PROVE  Reserve(r) \in RateRows /\ Reserve(r).start = (IF r = Absent THEN minute ELSE r.start)
               /\ Reserve(r).attempts = (IF r = Absent THEN 1 ELSE r.attempts + 1)
    BY <1>1, AttemptFields DEF Reserve, RateRows, AttemptRow
  <2>3. attempts' \in [RateKeys -> RateRows] /\ AddressRow' = new
    BY <1>3, <2>1, <2>2 DEF AddressRow
  <2>4. new.start \in Nat /\ new # Absent /\ new.attempts <= AddressLimit /\ new.attempts > 0
    <3>0. Absent.start \notin Nat /\ new.attempts <= AddressLimit /\ new \in RateRows
      <4>1. Absent.start \notin Nat /\ Absent.attempts = 0
        BY DEF Absent, AttemptRow
      <4>2. Fresh[Address] \in RateRows /\ Fresh[Address].attempts \in Nat /\ new \in RateRows
        BY <2>1, <2>2 DEF RateRows
      <4>3. new.attempts <= Fresh[Address].attempts + 1
        BY <2>2, <4>1, <4>2
      <4>4. new.attempts \in Nat
        BY <4>2 DEF RateRows
      <4> QED BY <1>3, <4>1, <4>2, <4>3, <4>4
    <3>1. CASE Fresh[Address] = Absent
      BY <1>1, <2>1, <2>2, <3>0, <3>1
    <3>2. CASE Fresh[Address] = AddressRow /\ AddressRow # Absent
      <4>1. AddressRow \in RateRows /\ AddressRow.start \in Nat /\ AddressRow.attempts \in Nat
        BY <2>1, <3>2 DEF LoginInv, RowCounts, RateRows
      <4>2. new.start = AddressRow.start /\ new.attempts = AddressRow.attempts + 1
        BY <2>1, <2>2, <3>2, <4>1
      <4> QED BY <3>0, <4>1, <4>2
    <3> QED BY <3>1, <3>2, FreshRow
  <2>5. login' = [login EXCEPT ![l] = [login[l] EXCEPT !.at = "checking", !.window = new.start]]
    BY <1>1, <1>3 DEF LoginRows
  <2> HIDE DEF new
  <2>6. /\ Counted(l)' /\ ~Counted(l) /\ login'[l].window = new.start
        /\ \A k \in Logins \ {l} : (Counted(k)' <=> Counted(k)) /\ login'[k].window = login[k].window
    BY <1>1, <2>5 DEF Counted, LoginRows
  <2>7. LoginTyped'
    <3>1. login' \in [Logins -> LoginRows]
      BY <1>1, <2>4, <2>5 DEF LoginRows
    <3> QED BY <1>1, <2>3, <3>1 DEF LoginTyped
  <2>w. PICK w : w = new.start
    OBVIOUS
  <2>8. CountedIn(w)' = CountedIn(w) \cup {l} /\ l \notin CountedIn(w)
    BY <2>6, <2>w DEF CountedIn
  <2>9. Cardinality(CountedIn(w)') = Cardinality(CountedIn(w)) + 1
        /\ Cardinality(CountedIn(w)) \in Nat
    BY <2>8, CountedAreFinite, FS_AddElement, FS_CardinalityType
  <2>10. CASE Fresh[Address] = Absent
    <3>1. w = minute /\ new.attempts = 1
      BY <2>1, <2>2, <2>10, <2>w DEF new
    <3>2. \A k \in Logins : Counted(k) => login[k].window \in Nat /\ login[k].window + Window <= minute
      BY <2>10, FreshRow DEF LoginInv, WindowsEnd
    <3>3. CountedIn(w) = {}
      BY <1>1, <3>1, <3>2 DEF CountedIn
    <3>4. RowCounts'
      <4>1. Cardinality(CountedIn(w)') = 1
        BY <2>9, <3>3, FS_EmptySet
      <4> QED BY <2>3, <2>4, <2>w, <3>1, <4>1 DEF RowCounts
    <3>5. WindowsEnd'
      BY <1>1, <2>3, <2>4, <2>6, <2>w, <3>2 DEF WindowsEnd
    <3> QED BY <2>7, <3>4, <3>5 DEF LoginInv
  <2>11. CASE Fresh[Address] = AddressRow /\ AddressRow # Absent
    <3>1. /\ w = AddressRow.start /\ new.attempts = AddressRow.attempts + 1
          /\ AddressRow.attempts = Cardinality(CountedIn(AddressRow.start))
      BY <2>1, <2>2, <2>11, <2>w DEF new, LoginInv, RowCounts
    <3>2. RowCounts'
      BY <2>3, <2>4, <2>9, <2>w, <3>1 DEF RowCounts
    <3>3. WindowsEnd'
      BY <1>1, <2>3, <2>4, <2>6, <2>11, <2>w, <3>1 DEF LoginInv, WindowsEnd
    <3> QED BY <2>7, <3>2, <3>3 DEF LoginInv
  <2> QED BY <2>10, <2>11, FreshRow
<1> QED
  <2>1. Fresh[e].attempts \in Nat /\ Fresh[Address].attempts \in Nat
    BY <1>1, FreshRow DEF RateKeys, RateRows
  <2> QED BY <1>2, <1>3, <2>1 DEF LoginBegin

\* A login that succeeds takes itself out of the window it reserved in, if that is the open one.
LEMMA SuccessGivesBack == ASSUME LoginInv, NEW l \in Logins, LoginSucceeds(l) PROVE LoginInv'
<1> DEFINE e == login[l].email
           v == login[l].window
<1> USE LoginConstants
<1>1. /\ login[l].at = "checking" /\ UNCHANGED minute /\ e \in Emails /\ minute \in Nat
      /\ login \in [Logins -> LoginRows] /\ attempts \in [RateKeys -> RateRows]
      /\ login' = [login EXCEPT ![l].at = "succeeded"]
      /\ attempts' = [attempts EXCEPT ![e] = Absent, ![Address] = ReleaseAttempt(@, v)]
  BY DEF LoginSucceeds, LoginInv, LoginTyped, LoginRows
<1>2. Address \in RateKeys /\ e \in RateKeys /\ e # Address
  BY <1>1 DEF RateKeys
<1>3. v \in Nat
  BY <1>1 DEF LoginInv, WindowsEnd, Counted
<1>4. AddressRow' = ReleaseAttempt(AddressRow, v) /\ AddressRow \in RateRows
  BY <1>1, <1>2 DEF AddressRow
<1>5. AddressRow.attempts \in Nat /\ Absent \in RateRows /\ Absent.attempts = 0 /\ Absent.start \notin Nat
  BY <1>4 DEF RateRows, Absent, AttemptRow
<1>6. /\ Counted(l) /\ ~Counted(l)' /\ login'[l].window = v
      /\ \A k \in Logins \ {l} : (Counted(k)' <=> Counted(k)) /\ login'[k].window = login[k].window
  BY <1>1 DEF Counted, LoginRows
<1>7. ASSUME AddressRow' \in RateRows PROVE LoginTyped'
  <2>1. login' \in [Logins -> LoginRows]
    BY <1>1 DEF LoginRows
  <2>2. attempts' \in [RateKeys -> RateRows]
    BY <1>1, <1>2, <1>5, <1>7 DEF AddressRow
  <2> QED BY <1>1, <2>1, <2>2 DEF LoginTyped
<1>8. CASE AddressRow.start # v
  <2>1. AddressRow' = AddressRow
    BY <1>4, <1>8 DEF ReleaseAttempt
  <2>2. WindowsEnd'
    BY <1>1, <1>6, <2>1 DEF LoginInv, WindowsEnd
  <2>3. ASSUME AddressRow # Absent PROVE CountedIn(AddressRow.start)' = CountedIn(AddressRow.start)
    BY <1>6, <1>8, <2>1 DEF CountedIn
  <2>4. RowCounts'
    BY <2>1, <2>3 DEF LoginInv, RowCounts
  <2> QED BY <1>4, <1>7, <2>1, <2>2, <2>4 DEF LoginInv
<1>9. CASE AddressRow.start = v
  <2>1. PICK w : w = v
    OBVIOUS
  <2>2. AddressRow # Absent /\ AddressRow.attempts > 0 /\ AddressRow.attempts = Cardinality(CountedIn(w)) /\ AddressRow.attempts <= AddressLimit
    BY <1>3, <1>5, <1>9, <2>1 DEF LoginInv, RowCounts
  <2>3. CountedIn(w)' = CountedIn(w) \ {l} /\ l \in CountedIn(w)
    BY <1>6, <2>1 DEF CountedIn
  <2>4. Cardinality(CountedIn(w)') = AddressRow.attempts - 1
    BY <2>2, <2>3, CountedAreFinite, FS_RemoveElement
  <2>5. CASE AddressRow.attempts <= 1
    <3>1. AddressRow' = Absent
      BY <1>4, <1>9, <2>5 DEF ReleaseAttempt
    <3>2. Cardinality(CountedIn(w)') = 0 /\ IsFiniteSet(CountedIn(w)')
      <4>1. IsFiniteSet(CountedIn(w) \ {l})
        BY CountedAreFinite, FS_RemoveElement
      <4> QED BY <1>5, <2>2, <2>3, <2>4, <2>5, <4>1
    <3>3. CountedIn(w)' = {}
      BY <3>2, FS_EmptySet
    <3>4. WindowsEnd'
      BY <1>1, <1>6, <1>9, <2>1, <3>1, <3>3 DEF LoginInv, WindowsEnd, CountedIn
    <3>5. RowCounts'
      BY <1>5, <3>1 DEF RowCounts
    <3> QED BY <1>5, <1>7, <3>1, <3>4, <3>5 DEF LoginInv
  <2>6. CASE AddressRow.attempts > 1
    <3>1. AddressRow' = AttemptRow(AddressRow.attempts - 1, w)
      BY <1>4, <1>5, <1>9, <2>1, <2>6 DEF ReleaseAttempt
    <3>2. AddressRow' \in RateRows /\ AddressRow'.attempts = AddressRow.attempts - 1 /\ AddressRow'.start = w /\ AddressRow' # Absent
      <4>1. AddressRow.attempts - 1 \in Nat /\ w \in Nat
        BY <1>3, <1>5, <2>1, <2>6
      <4> QED BY <3>1, <4>1, AttemptFields
    <3>3. WindowsEnd'
      BY <1>1, <1>6, <1>9, <2>1, <2>2, <3>2 DEF LoginInv, WindowsEnd
    <3>4. RowCounts'
      BY <1>3, <1>5, <2>1, <2>2, <2>4, <2>6, <3>2 DEF RowCounts
    <3> QED BY <1>7, <3>2, <3>3, <3>4 DEF LoginInv
  <2> QED BY <1>5, <2>5, <2>6
<1> QED BY <1>8, <1>9

LEMMA LoginsKeep == ASSUME LoginInv, [LoginNext]_loginVars PROVE LoginInv'
<1> USE LoginConstants
<1>1. ASSUME NEW l \in Logins, LoginFails(l) PROVE LoginInv'
  <2>1. /\ login[l].at = "checking" /\ login' = [login EXCEPT ![l].at = "failed"] /\ UNCHANGED <<attempts, minute>>
        /\ login \in [Logins -> LoginRows] /\ minute \in Nat
    BY <1>1 DEF LoginFails, LoginInv, LoginTyped
  <2>2. LoginTyped'
    BY <2>1 DEF LoginInv, LoginTyped, LoginRows
  <2>3. \A k \in Logins : (Counted(k)' <=> Counted(k)) /\ login'[k].window = login[k].window
    BY <2>1 DEF Counted, LoginRows
  <2> QED BY <2>1, <2>2, <2>3, LoginCountsStay
<1>2. CASE MinutePasses
  <2>1. UNCHANGED <<attempts, login>> /\ minute' = minute + 1 /\ minute \in Nat
    BY <1>2 DEF MinutePasses, LoginInv, LoginTyped
  <2>2. LoginTyped' /\ \A k \in Logins : (Counted(k)' <=> Counted(k)) /\ login'[k].window = login[k].window
    BY <2>1 DEF LoginInv, LoginTyped, Counted
  <2> QED BY <2>1, <2>2, LoginCountsStay
<1>3. CASE UNCHANGED loginVars
  <2>1. UNCHANGED <<attempts, login, minute>> /\ minute \in Nat
    BY <1>3 DEF loginVars, LoginInv, LoginTyped
  <2>2. LoginTyped' /\ \A k \in Logins : (Counted(k)' <=> Counted(k)) /\ login'[k].window = login[k].window
    BY <2>1 DEF LoginInv, LoginTyped, Counted
  <2> QED BY <2>1, <2>2, LoginCountsStay
<1> QED BY <1>1, <1>2, <1>3, BeginningCounts, SuccessGivesBack DEF LoginNext

LEMMA LoginsBegin == LoginInit => LoginInv
<1> SUFFICES ASSUME LoginInit PROVE LoginInv
  OBVIOUS
<1>1. Absent \in RateRows /\ Absent.attempts = 0
  BY DEF RateRows, Absent, AttemptRow
<1>2. LoginTyped
  BY <1>1, LoginConstants DEF LoginInit, LoginTyped, LoginRows
<1>3. \A l \in Logins : ~Counted(l)
  BY DEF LoginInit, Counted
<1>4. AddressRow = Absent
  BY DEF LoginInit, AddressRow, RateKeys
<1> QED BY <1>1, <1>2, <1>3, <1>4, LoginConstants DEF LoginInv, WindowsEnd, RowCounts

\* A login that counts is of the open window or of one that ended, and the open window's number is theirs.
THEOREM LoginInvariance == LoginSpec => []LoginInv
BY LoginsBegin, LoginsKeep, PTL DEF LoginSpec

\* The attempts of an address are exactly the logins of its open window that
\* failed or are being checked, however late a login ends, and within the limit.
THEOREM AttemptsAlwaysCounted == LoginSpec => []AttemptsCounted
<1>1. LoginInv => AttemptsCounted
  BY DEF LoginInv, RowCounts, AttemptsCounted, AddressRow, CountedIn, Counted
<1> QED BY <1>1, LoginInvariance, PTL

----------------------------------------------------------------------------
(* Permissions: the two interfaces.                                        *)

\* The tables of twins share no tool.
TwinTools == <<McpListing, McpSearching \cup McpReading, {"get_draft", "create_draft", "update_draft", "delete_draft", "preview_send"},
               {"send_email", "get_delivery_operation"}, {"list_scheduled_emails", "cancel_scheduled_email"},
               {"forward_email", "modify_emails", "download_attachment"}>>

LEMMA TablesHaveTheirTools == \A i \in 1..6 : DOMAIN RestTables[i] = TwinTools[i]
<1>1. DOMAIN RestListing = McpListing
  BY DEF RestListing, McpListing
<1>2. DOMAIN RestReading = McpSearching \cup McpReading
  BY DEF RestReading, McpSearching, McpReading
<1>3. DOMAIN RestDrafting = TwinTools[3]
  BY DEF RestDrafting, TwinTools
<1>4. DOMAIN RestSending = TwinTools[4]
  BY DEF RestSending, TwinTools
<1>5. DOMAIN RestScheduling = TwinTools[5]
  BY DEF RestScheduling, TwinTools
<1>6. DOMAIN RestHandling = TwinTools[6]
  BY DEF RestHandling, TwinTools
<1>7. /\ RestTables[1] = RestListing /\ RestTables[2] = RestReading /\ RestTables[3] = RestDrafting
      /\ RestTables[4] = RestSending /\ RestTables[5] = RestScheduling /\ RestTables[6] = RestHandling
  BY DEF RestTables
<1>8. TwinTools[1] = McpListing /\ TwinTools[2] = McpSearching \cup McpReading
  BY DEF TwinTools
<1>9. \A i \in 1..6 : i = 1 \/ i = 2 \/ i = 3 \/ i = 4 \/ i = 5 \/ i = 6
  OBVIOUS
<1> QED BY <1>1, <1>2, <1>3, <1>4, <1>5, <1>6, <1>7, <1>8, <1>9

LEMMA TwinOf ==
    ASSUME NEW i \in 1..6, NEW tool \in TwinTools[i]
    PROVE  Twin(tool) = RestTables[i][tool]
<1>1. \A j \in 1..6 : tool \in TwinTools[j] => j = i
  BY DEF TwinTools, McpListing, McpSearching, McpReading
<1>2. DOMAIN RestTables = 1..6
  BY DEF RestTables
<1>3. (CHOOSE j \in DOMAIN RestTables : tool \in DOMAIN RestTables[j]) = i
  BY <1>1, <1>2, TablesHaveTheirTools
<1> QED BY <1>3 DEF Twin

\* A tool demands what its twin does, whatever it is asked.
LEMMA TwinsDemandTheSame ==
    ASSUME NEW tool \in McpTools, NEW ask \in Asks(tool)
    PROVE  McpNeeds(tool, ask) = RestNeeds(Twin(tool), ask)
<1>t. ASSUME NEW i \in 1..6, tool \in TwinTools[i] PROVE Twin(tool) = RestTables[i][tool]
  BY <1>t, TwinOf
<1>1. CASE tool \in McpListing
  <2>1. Twin(tool) = RestListing[tool]
    BY <1>t, <1>1 DEF TwinTools, RestTables
  <2>2. RestNeeds(Twin(tool), ask) = {"mail.read"}
    BY <1>1, <2>1 DEF McpListing, RestListing, RestNeeds
  <2>3. McpNeeds(tool, ask) = {"mail.read"}
    BY <1>1 DEF McpListing, McpNeeds, McpDrafting, McpSending
  <2> QED BY <2>2, <2>3
<1>2. CASE tool \in McpSearching \cup McpReading
  <2>1. Twin(tool) = RestReading[tool]
    BY <1>t, <1>2 DEF TwinTools, RestTables
  <2>2. RestNeeds(Twin(tool), ask) = {"mail.read"}
    BY <1>2, <2>1 DEF McpSearching, McpReading, RestReading, RestNeeds
  <2>3. McpNeeds(tool, ask) = {"mail.read"}
    BY <1>2 DEF McpSearching, McpReading, McpNeeds, McpDrafting, McpSending
  <2> QED BY <2>2, <2>3
<1>3. CASE tool \in TwinTools[3]
  <2>1. Twin(tool) = RestDrafting[tool]
    BY <1>t, <1>3 DEF RestTables
  <2> QED BY <1>3, <2>1 DEF TwinTools, RestDrafting, RestNeeds, McpNeeds, McpDrafting, McpSending
<1>4. CASE tool \in TwinTools[4]
  <2>1. Twin(tool) = RestSending[tool]
    BY <1>t, <1>4 DEF RestTables
  <2> QED BY <1>4, <2>1 DEF TwinTools, RestSending, RestNeeds, McpNeeds, McpDrafting, McpSending
<1>5. CASE tool \in TwinTools[5]
  <2>1. Twin(tool) = RestScheduling[tool]
    BY <1>t, <1>5 DEF RestTables
  <2> QED BY <1>5, <2>1 DEF TwinTools, RestScheduling, RestNeeds, McpNeeds, McpDrafting, McpSending
<1>6. CASE tool \in TwinTools[6]
  <2>1. Twin(tool) = RestHandling[tool]
    BY <1>t, <1>6 DEF RestTables
  <2> QED BY <1>6, <2>1 DEF TwinTools, RestHandling, RestNeeds, McpNeeds, McpDrafting, McpSending
<1> QED
  BY <1>1, <1>2, <1>3, <1>4, <1>5, <1>6
  DEF TwinTools, McpTools, McpListing, McpSearching, McpReading, McpFetching, McpDrafting, McpSending

\* A tool that is not registered demands something of its caller that the policy does not have.
LEMMA UnregisteredTools ==
    ASSUME NEW policy, NEW tool \in McpTools, NEW ask \in Asks(tool)
    PROVE  McpNeeds(tool, ask) \subseteq policy.caps => McpRegistered(policy, tool)
<1>1. CASE tool = "modify_emails"
  <2>1. PICK action \in Actions : ask = Ask(FALSE, FALSE, action)
    BY <1>1 DEF Asks
  <2>2. McpNeeds(tool, ask) = {ModifyCapability(action)}
    BY <1>1, <2>1 DEF McpNeeds, Ask, McpDrafting, McpSending
  <2> QED BY <1>1, <2>2 DEF McpRegistered
<1>2. CASE tool # "modify_emails"
  <2>1. McpNeeds(tool, Plain) \subseteq McpNeeds(tool, ask)
    <3>0. Replying(Plain) = {} /\ Plain.draft = FALSE
      BY DEF Plain, Ask, Replying
    <3>1. CASE tool \in McpDrafting
      <4>1. \A a : McpNeeds(tool, a) = {"mail.drafts"} \cup IF tool \in {"create_draft", "update_draft"} THEN Replying(a) ELSE {}
        <5>1. tool \notin McpSending /\ tool # "forward_email" /\ tool # "modify_emails"
          BY <3>1 DEF McpSending, McpDrafting
        <5> QED BY <3>1, <5>1 DEF McpNeeds
      <4> QED BY <3>0, <4>1
    <3>2. CASE tool \in McpSending
      <4>1. tool \notin McpDrafting /\ tool # "forward_email" /\ tool # "modify_emails"
        BY <3>2 DEF McpSending, McpDrafting
      <4>2. \A a : McpNeeds(tool, a) = {"mail.send"}
                   \cup (IF tool = "preview_send" /\ a.draft THEN {"mail.drafts"} ELSE {})
                   \cup (IF tool = "get_delivery_operation" THEN {} ELSE Replying(a))
        BY <3>2, <4>1 DEF McpNeeds
      <4> QED BY <3>0, <4>2
    <3>3. CASE tool \notin McpDrafting /\ tool \notin McpSending
      BY <1>2, <3>3 DEF McpNeeds
    <3> QED BY <3>1, <3>2, <3>3
  <2> QED BY <1>2, <2>1 DEF McpRegistered
<1> QED BY <1>1, <1>2

\* What one interface lets a connection do the other lets it too, for any list of
\* capabilities its policy may have.
THEOREM InterfacesAlwaysAgree == PermissionsSpec => []InterfacesAgree
<1>1. InterfacesAgree
  BY TwinsDemandTheSame, UnregisteredTools DEF InterfacesAgree
<1> QED BY <1>1, PTL DEF PermissionsSpec

----------------------------------------------------------------------------
(* Permissions: the instructions of a refusal.                             *)

PolicyRows == [profile : Profiles \cup {"custom"}, custom : SUBSET Capabilities, supplemental : SUBSET AdminCaps]
Connections == [kind : {"api_key", "stdio", "session"}, row : PolicyRows]
\* A row of its kind, and a custom policy allows something.
GoodRow(row) == row \in PolicyRows /\ (row.profile = "custom" <=> row.custom # {})

PermissionsInv ==
    /\ connection # NoConnection => connection \in Connections /\ GoodRow(connection.row)
    /\ holderRole \in {"admin", "member"}
    /\ refusal # NoRefusal => refusal # {} /\ refusal \subseteq Capabilities

LEMMA ProfilesAllow ==
    /\ ProfileCaps["read-only"] = {"mail.read"}
    /\ ProfileCaps["read-write"] = {"mail.read", "mail.drafts", "mail.organize", "mail.trash"}
    /\ ProfileCaps["full"] = MailCaps \ {"mail.delete"}
    /\ \A p \in Profiles : ProfileCaps[p] \subseteq MailCaps \ {"mail.delete"}
<1>1. ProfileCaps["read-only"] = {"mail.read"}
  BY DEF ProfileCaps, Profiles
<1>2. ProfileCaps["read-write"] = {"mail.read", "mail.drafts", "mail.organize", "mail.trash"}
  BY DEF ProfileCaps, Profiles
<1>3. ProfileCaps["full"] = MailCaps \ {"mail.delete"}
  BY DEF ProfileCaps, Profiles
<1> QED BY <1>1, <1>2, <1>3 DEF Profiles, MailCaps

\* What a row allows are capabilities, and it gives back the policy it was made of.
LEMMA RowsAllow ==
    ASSUME NEW row \in PolicyRows
    PROVE  /\ LoadedPolicy(row).caps \subseteq Capabilities
           /\ LoadedPolicy(row).profile = row.profile
<1>1. CASE row.profile = "custom"
  BY <1>1 DEF LoadedPolicy, CustomPolicy, PolicyRows
<1>2. CASE row.profile # "custom"
  <2>1. row.profile \in Profiles /\ row.supplemental \subseteq AdminCaps
    BY <1>2 DEF PolicyRows
  <2> QED BY <1>2, <2>1, ProfilesAllow DEF LoadedPolicy, NamedPolicy, Capabilities
<1> QED BY <1>1, <1>2

LEMMA NamedRows ==
    ASSUME NEW p \in Profiles, NEW admin \in SUBSET AdminCaps
    PROVE  /\ GoodRow(StoredPolicy(NamedPolicy(p, admin)))
           /\ LoadedPolicy(StoredPolicy(NamedPolicy(p, admin))) = NamedPolicy(p, admin)
           /\ NamedPolicy(p, admin).caps = ProfileCaps[p] \cup admin
           /\ NamedPolicy(p, admin).caps \subseteq Capabilities
<1>1. p # "custom"
  BY DEF Profiles
<1>2. StoredPolicy(NamedPolicy(p, admin)) = [profile |-> p, custom |-> {}, supplemental |-> admin]
  BY <1>1 DEF StoredPolicy, NamedPolicy
<1>3. NamedPolicy(p, admin).caps = ProfileCaps[p] \cup admin
  BY DEF NamedPolicy
<1> QED BY <1>1, <1>2, <1>3, ProfilesAllow DEF GoodRow, PolicyRows, LoadedPolicy, Capabilities

LEMMA CustomRows ==
    ASSUME NEW caps \in SUBSET Capabilities, caps # {}
    PROVE  /\ GoodRow(StoredPolicy(CustomPolicy(caps)))
           /\ LoadedPolicy(StoredPolicy(CustomPolicy(caps))) = CustomPolicy(caps)
           /\ CustomPolicy(caps).caps = caps
<1>1. StoredPolicy(CustomPolicy(caps)) = [profile |-> "custom", custom |-> caps, supplemental |-> {}]
  BY DEF StoredPolicy, CustomPolicy
<1> QED BY <1>1 DEF GoodRow, PolicyRows, LoadedPolicy, CustomPolicy

LEMMA OptionsMakeRows ==
    ASSUME NEW o \in Options
    PROVE  /\ GoodRow(StoredPolicy(PolicyFromOptions(o)))
           /\ LoadedPolicy(StoredPolicy(PolicyFromOptions(o))) = PolicyFromOptions(o)
<1>1. CASE o.allow = {}
  <2> DEFINE p == IF o.profile = "none" THEN "read-only" ELSE o.profile
  <2>1. p \in Profiles /\ o.admin \in SUBSET AdminCaps
    BY DEF Options, Profiles
  <2>2. PolicyFromOptions(o) = NamedPolicy(p, o.admin)
    BY <1>1 DEF PolicyFromOptions
  <2> QED BY <2>1, <2>2, NamedRows
<1>2. CASE o.allow # {}
  <2> DEFINE caps == o.allow \cup IF o.profile = "none" THEN {} ELSE NamedPolicy(o.profile, o.admin).caps
  <2>1. PolicyFromOptions(o) = CustomPolicy(caps)
    BY <1>2 DEF PolicyFromOptions
  <2>2. caps \in SUBSET Capabilities /\ caps # {}
    <3>1. CASE o.profile = "none"
      BY <1>2, <3>1 DEF Options
    <3>2. CASE o.profile # "none"
      <4>1. o.profile \in Profiles /\ o.admin \in SUBSET AdminCaps /\ o.allow \subseteq Capabilities
        BY <3>2 DEF Options
      <4> QED BY <1>2, <3>2, <4>1, NamedRows
    <3> QED BY <3>1, <3>2
  <2> HIDE DEF caps
  <2> QED BY <2>1, <2>2, CustomRows
<1> QED BY <1>1, <1>2

\* The named profile that covers what is needed: it exists, and it allows sending only if that is needed.
Covers(needed, p) == (needed \cap MailCaps) \ {"mail.delete"} \subseteq ProfileCaps[p]
Smallest(needed, p) == Covers(needed, p) /\ \A q \in Profiles : Covers(needed, q) => ProfileCaps[p] \subseteq ProfileCaps[q]
ProfileFor(needed) == CHOOSE p \in Profiles : Smallest(needed, p)

LEMMA SmallestProfile ==
    ASSUME NEW needed \in SUBSET Capabilities
    PROVE  /\ ProfileFor(needed) \in Profiles
           /\ (needed \cap MailCaps) \ {"mail.delete"} \subseteq ProfileCaps[ProfileFor(needed)]
           /\ ProfileCaps[ProfileFor(needed)] \ needed \subseteq MailCaps \ {"mail.send", "mail.delete"}
<1>1. \E p \in Profiles : Smallest(needed, p)
  <2>1. Profiles = {"read-only", "read-write", "full"}
    BY DEF Profiles
  <2>2. ProfileCaps["read-only"] \subseteq ProfileCaps["read-write"] /\ ProfileCaps["read-write"] \subseteq ProfileCaps["full"]
    BY ProfilesAllow DEF MailCaps
  <2>3. Covers(needed, "full")
    BY ProfilesAllow DEF Covers
  <2>4. CASE Covers(needed, "read-only")
    BY <2>1, <2>2, <2>4 DEF Smallest
  <2>5. CASE ~Covers(needed, "read-only") /\ Covers(needed, "read-write")
    BY <2>1, <2>2, <2>5 DEF Smallest
  <2>6. CASE ~Covers(needed, "read-only") /\ ~Covers(needed, "read-write")
    BY <2>1, <2>3, <2>6 DEF Smallest
  <2> QED BY <2>4, <2>5, <2>6
<1>2. ProfileFor(needed) \in Profiles /\ Smallest(needed, ProfileFor(needed))
  BY <1>1 DEF ProfileFor
<1>3. ASSUME "mail.send" \in ProfileCaps[ProfileFor(needed)], "mail.send" \notin needed PROVE FALSE
  <2>1. Covers(needed, "read-write")
    BY <1>3, ProfilesAllow DEF Covers, MailCaps
  <2>2. "mail.send" \in ProfileCaps["read-write"]
    BY <1>2, <1>3, <2>1 DEF Smallest, Profiles
  <2> QED BY <2>2, ProfilesAllow
<1> QED BY <1>2, <1>3, ProfilesAllow DEF Smallest, Covers

\* What the options of a refusal's instructions allow.
LEMMA InstructionsGrant ==
    ASSUME NEW policy, NEW missing \in SUBSET Capabilities, missing # {},
           policy.caps \subseteq Capabilities, policy.profile \in Profiles \cup {"custom"}
    PROVE  LET o == GrantingOptions(policy, missing)
               granted == PolicyFromOptions(o).caps
               asked == policy.caps \cup missing
           IN /\ o \in Options /\ Replaces(o)
              /\ asked \subseteq granted /\ granted \ asked \subseteq MailCaps \ {"mail.send", "mail.delete"}
<1> DEFINE needed == policy.caps \cup missing
           o == GrantingOptions(policy, missing)
<1>1. needed \in SUBSET Capabilities /\ needed # {}
  OBVIOUS
<1>2. CASE policy.profile = "custom"
  <2>1. o = [profile |-> "none", allow |-> needed, admin |-> {}]
    BY <1>2 DEF GrantingOptions
  <2> HIDE DEF o, needed
  <2>2. o \in Options /\ Replaces(o)
    BY <1>1, <2>1 DEF Options, Replaces
  <2>3. PolicyFromOptions(o).caps = needed
    BY <1>1, <2>1 DEF PolicyFromOptions, CustomPolicy
  <2> QED BY <2>2, <2>3 DEF o, needed
<1>3. CASE policy.profile # "custom"
  <2> DEFINE p == ProfileFor(needed)
             allow == (needed \cap MailCaps) \ ProfileCaps[p]
             admin == needed \cap AdminCaps
  <2>1. o = [profile |-> p, allow |-> allow, admin |-> admin]
    BY <1>3 DEF GrantingOptions, ProfileFor, Smallest, Covers
  <2>2. /\ p \in Profiles /\ (needed \cap MailCaps) \ {"mail.delete"} \subseteq ProfileCaps[p]
        /\ ProfileCaps[p] \ needed \subseteq MailCaps \ {"mail.send", "mail.delete"}
    BY <1>1, SmallestProfile
  <2>3. allow \in SUBSET Capabilities /\ admin \in SUBSET AdminCaps /\ needed = (needed \cap MailCaps) \cup admin
        /\ allow \subseteq needed
    BY <1>1 DEF Capabilities
  <2> HIDE DEF o, needed, p
  <2>4. o \in Options /\ Replaces(o)
    BY <2>1, <2>2, <2>3 DEF Options, Replaces, Profiles
  <2>5. PolicyFromOptions(o).caps = allow \cup ProfileCaps[p] \cup admin
    <3>1. NamedPolicy(p, admin).caps = ProfileCaps[p] \cup admin /\ p # "none"
      BY <2>2, <2>3, NamedRows DEF Profiles
    <3>2. o.allow = allow /\ o.profile = p /\ o.admin = admin
      BY <2>1
    <3>3. CASE allow = {}
      BY <3>1, <3>2, <3>3 DEF PolicyFromOptions
    <3>4. CASE allow # {}
      BY <3>1, <3>2, <3>4 DEF PolicyFromOptions, CustomPolicy
    <3> QED BY <3>3, <3>4
  <2>6. needed \subseteq allow \cup ProfileCaps[p] \cup admin
    BY <2>3
  <2>7. (allow \cup ProfileCaps[p] \cup admin) \ needed \subseteq MailCaps \ {"mail.send", "mail.delete"}
    BY <2>2, <2>3
  <2> QED BY <2>4, <2>5, <2>6, <2>7 DEF o, needed
<1> QED BY <1>2, <1>3

\* What a caller of either interface can be told that it misses.
LEMMA NeedsAreCapabilities ==
    ASSUME NEW tool \in McpTools, NEW ask \in Asks(tool)
    PROVE  McpNeeds(tool, ask) \subseteq MailCaps
<1>1. Replying(ask) \subseteq MailCaps
  BY DEF Replying, MailCaps
<1>2. \A action : ModifyCapability(action) \in MailCaps
  BY DEF ModifyCapability, MailCaps
<1>3. CASE tool \in McpDrafting
  <2>1. tool \notin McpSending /\ tool # "forward_email" /\ tool # "modify_emails"
    BY <1>3 DEF McpSending, McpDrafting
  <2>2. McpNeeds(tool, ask) = {"mail.drafts"} \cup IF tool \in {"create_draft", "update_draft"} THEN Replying(ask) ELSE {}
    BY <1>3, <2>1 DEF McpNeeds
  <2> QED BY <1>1, <2>2 DEF MailCaps
<1>4. CASE tool \in McpSending
  <2>1. tool \notin McpDrafting /\ tool # "forward_email" /\ tool # "modify_emails"
    BY <1>4 DEF McpSending, McpDrafting
  <2>2. McpNeeds(tool, ask) = {"mail.send"}
           \cup (IF tool = "preview_send" /\ ask.draft THEN {"mail.drafts"} ELSE {})
           \cup (IF tool = "get_delivery_operation" THEN {} ELSE Replying(ask))
    BY <1>4, <2>1 DEF McpNeeds
  <2> QED BY <1>1, <2>2 DEF MailCaps
<1>5. CASE tool \notin McpDrafting /\ tool \notin McpSending
  <2>1. McpNeeds(tool, ask) \in {{"mail.send", "mail.read"}, {"mail.read"}, {ModifyCapability(ask.action)}}
    BY <1>5 DEF McpNeeds
  <2> QED BY <1>2, <2>1 DEF MailCaps
<1> QED BY <1>3, <1>4, <1>5

LEMMA RefusalsAreCapabilities ==
    ASSUME NEW missing, missing # {}, missing \subseteq Capabilities, PermissionsInv, Refuse(missing)
    PROVE  PermissionsInv'
BY DEF Refuse, PermissionsInv

\* A new row for the connection, made of options or of an update of a named policy.
LEMMA ReconfiguringKeeps ==
    ASSUME NEW o \in Options, PermissionsInv, Reconfigure(o)
    PROVE  /\ PermissionsInv' /\ refusal' = NoRefusal
           /\ Replaces(o) => LoadedPolicy(connection'.row) = PolicyFromOptions(o)
<1> DEFINE policy == IF connection.kind = "stdio" THEN PolicyFromOptions(o) ELSE PolicyForUpdate(o, Policy)
<1>1. /\ connection # NoConnection /\ connection.kind # "session" /\ connection \in Connections /\ GoodRow(connection.row)
      /\ connection' = [connection EXCEPT !.row = StoredPolicy(policy)]
      /\ refusal' = NoRefusal /\ UNCHANGED holderRole
      /\ connection.kind = "api_key" => Replaces(o) \/ (o.admin # {} /\ Policy.profile # "custom")
  BY DEF Reconfigure, PermissionsInv
<1>2. GoodRow(StoredPolicy(policy)) /\ (Replaces(o) => LoadedPolicy(StoredPolicy(policy)) = PolicyFromOptions(o))
  <2>1. CASE policy = PolicyFromOptions(o)
    BY <2>1, OptionsMakeRows
  <2>2. CASE ~Replaces(o) /\ connection.kind # "stdio"
    <3>1. connection.kind = "api_key"
      BY <1>1, <2>2 DEF Connections
    <3>2. Policy.profile \in Profiles /\ o.admin \in SUBSET AdminCaps
      BY <1>1, <2>2, <3>1, RowsAllow DEF Policy, Connections, PolicyRows, Options
    <3>3. policy = NamedPolicy(Policy.profile, o.admin)
      BY <2>2 DEF PolicyForUpdate
    <3> QED BY <2>2, <3>2, <3>3, NamedRows
  <2> QED BY <2>1, <2>2 DEF PolicyForUpdate
<1> HIDE DEF policy
<1>3. connection' = [kind |-> connection.kind, row |-> StoredPolicy(policy)]
  BY <1>1 DEF Connections
<1>4. connection' \in Connections /\ connection'.row = StoredPolicy(policy)
  BY <1>1, <1>2, <1>3 DEF Connections, GoodRow
<1> QED BY <1>1, <1>2, <1>4 DEF PermissionsInv

LEMMA FollowingIsReconfiguring ==
    ASSUME PermissionsInv, FollowInstructions
    PROVE  /\ GrantingOptions(Policy, refusal) \in Options /\ Replaces(GrantingOptions(Policy, refusal))
           /\ Reconfigure(GrantingOptions(Policy, refusal))
           /\ refusal \in SUBSET Capabilities /\ refusal # {}
           /\ Policy.caps \subseteq Capabilities /\ Policy.profile \in Profiles \cup {"custom"}
<1>1. refusal \in SUBSET Capabilities /\ refusal # {} /\ Reconfigure(GrantingOptions(Policy, refusal))
  BY DEF FollowInstructions, PermissionsInv
<1>2. connection.row \in PolicyRows
  BY <1>1 DEF Reconfigure, PermissionsInv, GoodRow
<1>3. Policy.caps \subseteq Capabilities /\ Policy.profile \in Profiles \cup {"custom"}
  BY <1>2, RowsAllow DEF Policy, PolicyRows
<1> QED BY <1>1, <1>3, InstructionsGrant

LEMMA PermissionsKeep == ASSUME PermissionsInv, [PermissionsNext]_permissionVars PROVE PermissionsInv'
<1>1. ASSUME NEW kind \in {"api_key", "stdio", "session"}, NEW o \in Options, Connect(kind, o) PROVE PermissionsInv'
  <2>1. /\ connection' = [kind |-> kind, row |-> StoredPolicy(PolicyFromOptions(o))]
        /\ UNCHANGED <<holderRole, refusal>>
    BY <1>1 DEF Connect
  <2>2. GoodRow(StoredPolicy(PolicyFromOptions(o)))
    BY OptionsMakeRows
  <2>3. connection' \in Connections /\ connection'.row = StoredPolicy(PolicyFromOptions(o))
    BY <2>1, <2>2 DEF Connections, GoodRow
  <2> QED BY <2>1, <2>2, <2>3 DEF PermissionsInv
<1>2. ASSUME NEW o \in Options, Reconfigure(o) PROVE PermissionsInv'
  BY <1>2, ReconfiguringKeeps
<1>3. ASSUME NEW tool \in McpTools, NEW ask \in Asks(tool), NEW overPlan \in BOOLEAN, CallTool(tool, ask, overPlan)
      PROVE  PermissionsInv'
  <2>1. McpNeeds(tool, ask) \subseteq Capabilities
    BY NeedsAreCapabilities DEF Capabilities
  <2>2. CASE McpRegistered(Policy, tool)
    <3>1. Refuse(McpNeeds(tool, ask) \ Policy.caps) /\ ~(McpNeeds(tool, ask) \subseteq Policy.caps)
      BY <1>3, <2>2 DEF CallTool
    <3> QED BY <2>1, <3>1, RefusalsAreCapabilities
  <2>3. CASE ~McpRegistered(Policy, tool)
    <3>1. Refuse({CHOOSE cap \in McpNeeds(tool, ask) : cap \notin Policy.caps})
      BY <1>3, <2>3 DEF CallTool
    <3>2. \E cap \in McpNeeds(tool, ask) : cap \notin Policy.caps
      BY <2>3, UnregisteredTools
    <3>3. PICK cap \in McpNeeds(tool, ask) : Refuse({cap})
      BY <3>1, <3>2
    <3> QED BY <2>1, <3>3, RefusalsAreCapabilities
  <2> QED BY <2>2, <2>3
<1>4. ASSUME NEW tool \in McpTools, NEW ask \in Asks(tool), CallRoute(Twin(tool), ask) PROVE PermissionsInv'
  <2>1. Refuse(McpNeeds(tool, ask) \ Policy.caps) /\ ~(McpNeeds(tool, ask) \subseteq Policy.caps)
    BY <1>4, TwinsDemandTheSame DEF CallRoute
  <2>2. McpNeeds(tool, ask) \subseteq Capabilities
    BY NeedsAreCapabilities DEF Capabilities
  <2> QED BY <2>1, <2>2, RefusalsAreCapabilities
<1>5. CASE Disconnect
  BY <1>5 DEF Disconnect, PermissionsInv
<1>6. CASE ChangeRole
  BY <1>6 DEF ChangeRole, PermissionsInv
<1>7. CASE FollowInstructions
  BY <1>7, FollowingIsReconfiguring, ReconfiguringKeeps
<1>8. CASE UNCHANGED permissionVars
  BY <1>8 DEF permissionVars, PermissionsInv
<1>9. ASSUME NEW p \in Profiles \cup {"none"}, NEW a \in AllowChoices, NEW s \in SUBSET AdminCaps
      PROVE  [profile |-> p, allow |-> a, admin |-> s] \in Options
  BY PermissionConstants DEF Options
<1> QED
  BY <1>1, <1>2, <1>3, <1>4, <1>5, <1>6, <1>7, <1>8, <1>9 DEF PermissionsNext

\* A stored policy is a named profile with additions or a list that allows something,
\* and a refusal names capabilities.
THEOREM PermissionsInvariance == PermissionsSpec => []PermissionsInv
<1>1. PermissionsInit => PermissionsInv
  BY DEF PermissionsInit, PermissionsInv
<1> QED BY <1>1, PermissionsKeep, PTL DEF PermissionsSpec

\* Who does as a refusal says keeps what it had, gets what it missed, and gets neither
\* sending nor deleting nor administration on top, for any policy and any refusal.
THEOREM InstructionsAlwaysSuffice == PermissionsSpec => InstructionsSuffice
<1> DEFINE Suffices ==
      LET asked == Policy.caps \cup refusal
      IN /\ asked \subseteq LoadedPolicy(connection'.row).caps
         /\ LoadedPolicy(connection'.row).caps \ asked \subseteq MailCaps \ {"mail.send", "mail.delete"}
<1>1. ASSUME PermissionsInv, FollowInstructions PROVE Suffices
  <2>1. LoadedPolicy(connection'.row) = PolicyFromOptions(GrantingOptions(Policy, refusal))
    BY <1>1, FollowingIsReconfiguring, ReconfiguringKeeps
  <2> QED BY <1>1, <2>1, FollowingIsReconfiguring, InstructionsGrant
<1>2. PermissionsInv /\ [PermissionsNext]_permissionVars => [FollowInstructions => Suffices]_permissionVars
  BY <1>1
<1> QED BY <1>2, PermissionsInvariance, PTL DEF PermissionsSpec, InstructionsSuffice

----------------------------------------------------------------------------
(* The accounts: a reconnected mailbox keeps the tokens of its reconnection,   *)
(* because every write of a refresh compares the row with the one its provider *)
(* saw, so it carries the connection of the row it replaces.                   *)

Rows == [connection : Nat, token : 0..MaxTokens, revision : Nat, client : OAuthClients \cup {Nothing}]

ProviderObjects ==
    [process : Processes \cup {Nothing}, of : Mailboxes \cup {Nothing}, seen : Rows,
     client : OAuthClients \cup {Nothing}, token : 0..MaxTokens,
     cached : BOOLEAN, refreshing : BOOLEAN]

MailboxRows ==
    [kind : Kinds \cup {"none"}, address : Addresses \cup {Nothing}, owner : Owners \cup {Nothing}]

Typed ==
    /\ mailbox \in [Mailboxes -> MailboxRows]
    /\ credential \in [Mailboxes -> Rows]
    /\ provider \in [Providers -> ProviderObjects]
    /\ issued \in 0..MaxTokens
    /\ connects \in [Mailboxes -> Nat]

\* A provider at work is one of a mailbox.
WorkHasMailbox ==
    \A h \in Providers : provider[h].refreshing \/ provider[h].cached => provider[h].of \in Mailboxes

\* The stored tokens are those of the last connection.
LastConnection == \A a \in Connected : credential[a].connection = connects[a]

\* What a cached provider uses is what it saw.
UsesWhatItSaw ==
    \A h \in Providers : provider[h].cached =>
        provider[h].token = provider[h].seen.token /\ provider[h].client = provider[h].seen.client

RegistryInv == Typed /\ WorkHasMailbox /\ LastConnection /\ UsesWhatItSaw

----------------------------------------------------------------------------
\* Evicting providers leaves the rest of them as they are.
LEMMA EvictionKeeps ==
    ASSUME RegistryInv, NEW p, NEW a
    PROVE  /\ EvictProvider(p, a) \in [Providers -> ProviderObjects]
           /\ \A h \in Providers :
                 LET q == EvictProvider(p, a)[h] IN
                 /\ q.cached => provider[h].cached
                 /\ q.refreshing => provider[h].refreshing
                 /\ q.cached \/ q.refreshing => q.of = provider[h].of
                 /\ q.cached => q.token = provider[h].token /\ q.client = provider[h].client
                                /\ q.seen = provider[h].seen
<1> USE RegistryConstants DEF RegistryInv, Typed
<1>1. NoProvider \in ProviderObjects /\ ~NoProvider.cached /\ ~NoProvider.refreshing
  BY DEF NoProvider, ProviderObjects, Rows, NoTokens
<1>2. ASSUME NEW h \in Providers
      PROVE  /\ Evicted(h) \in ProviderObjects /\ ~Evicted(h).cached
             /\ Evicted(h).refreshing => provider[h].refreshing /\ Evicted(h).of = provider[h].of
  <2>1. provider[h] \in ProviderObjects
    OBVIOUS
  <2>2. CASE provider[h].refreshing
    <3>1. Evicted(h) = [provider[h] EXCEPT !.cached = FALSE]
      BY <2>2 DEF Evicted
    <3> QED BY <2>1, <2>2, <3>1 DEF ProviderObjects
  <2>3. CASE ~provider[h].refreshing
    BY <1>1, <2>3 DEF Evicted
  <2> QED BY <2>2, <2>3
<1>3. EvictProvider(p, a) = [h \in Providers |-> IF h \in CachedIn(p, a) THEN Evicted(h) ELSE provider[h]]
  BY DEF EvictProvider
<1>4. EvictProvider(p, a) \in [Providers -> ProviderObjects]
  BY <1>2, <1>3
<1>5. ASSUME NEW h \in Providers
      PROVE  LET q == EvictProvider(p, a)[h] IN
             /\ q.cached => provider[h].cached
             /\ q.refreshing => provider[h].refreshing
             /\ q.cached \/ q.refreshing => q.of = provider[h].of
             /\ q.cached => q.token = provider[h].token /\ q.client = provider[h].client
                            /\ q.seen = provider[h].seen
  <2>1. CASE h \in CachedIn(p, a)
    BY <1>2, <1>3, <2>1
  <2>2. CASE h \notin CachedIn(p, a)
    BY <1>3, <2>2
  <2> QED BY <2>1, <2>2
<1> QED BY <1>4, <1>5

\* A step that only evicts providers of a mailbox keeps what providers are known for.
LEMMA EvictionStep ==
    ASSUME RegistryInv, NEW p, NEW a, provider' = EvictProvider(p, a)
    PROVE  provider' \in [Providers -> ProviderObjects] /\ WorkHasMailbox' /\ UsesWhatItSaw'
BY EvictionKeeps DEF RegistryInv, WorkHasMailbox, UsesWhatItSaw

\* So does one that makes a single provider r, of a mailbox and true to what it saw, or none.
LEMMA ProviderStep ==
    ASSUME RegistryInv, NEW h \in Providers, NEW r \in ProviderObjects, provider' = [provider EXCEPT ![h] = r],
           r.refreshing \/ r.cached => r.of \in Mailboxes,
           r.cached => r.token = r.seen.token /\ r.client = r.seen.client
    PROVE  provider' \in [Providers -> ProviderObjects] /\ WorkHasMailbox' /\ UsesWhatItSaw'
BY DEF RegistryInv, Typed, WorkHasMailbox, UsesWhatItSaw

\* The provider whose refresh ended as r.
LEMMA RefreshedStep ==
    ASSUME RegistryInv, NEW h \in Providers, NEW r \in ProviderObjects, Refreshed(h, r),
           r.cached => r.of \in Mailboxes /\ r.token = r.seen.token /\ r.client = r.seen.client
    PROVE  provider' \in [Providers -> ProviderObjects] /\ WorkHasMailbox' /\ UsesWhatItSaw'
<1>1. CASE r.cached
  <2> DEFINE q == [r EXCEPT !.refreshing = FALSE]
  <2>1. provider' = [provider EXCEPT ![h] = q]
    BY <1>1 DEF Refreshed
  <2>2. q \in ProviderObjects /\ q.cached = r.cached /\ q.of = r.of /\ q.seen = r.seen
        /\ q.token = r.token /\ q.client = r.client
    BY DEF ProviderObjects
  <2> HIDE DEF q
  <2> QED BY <1>1, <2>1, <2>2, ProviderStep
<1>2. CASE ~r.cached
  <2>1. provider' = [provider EXCEPT ![h] = NoProvider]
    BY <1>2 DEF Refreshed
  <2>2. NoProvider \in ProviderObjects /\ ~NoProvider.cached /\ ~NoProvider.refreshing
    BY RegistryConstants DEF NoProvider, ProviderObjects, Rows, NoTokens
  <2> QED BY <2>1, <2>2, ProviderStep
<1> QED BY <1>1, <1>2

----------------------------------------------------------------------------
\* A row with new tokens is a row of the same connection and application.
LEMMA NewTokensInRow ==
    ASSUME NEW row \in Rows, NEW t \in 0..MaxTokens
    PROVE  LET new == [row EXCEPT !.token = t, !.revision = @ + 1] IN
           /\ new \in Rows /\ new.connection = row.connection
           /\ new.token = t /\ new.client = row.client
<1> SUFFICES ASSUME NEW new, new = [row EXCEPT !.token = t, !.revision = @ + 1]
             PROVE  /\ new \in Rows /\ new.connection = row.connection
                    /\ new.token = t /\ new.client = row.client
  OBVIOUS
<1>1. new = [connection |-> row.connection, token |-> t, revision |-> row.revision + 1, client |-> row.client]
  BY DEF Rows
<1> QED BY <1>1 DEF Rows

LEMMA RegistryKeeps == RegistryInv /\ [RegistryNext]_registryVars => RegistryInv'
<1> SUFFICES ASSUME RegistryInv, [RegistryNext]_registryVars PROVE RegistryInv'
  OBVIOUS
<1> USE RegistryConstants DEF RegistryInv, Typed, LastConnection
<1>1. ASSUME NEW p \in Processes, NEW kind \in Kinds, NEW addr \in Addresses, NEW m \in Owners,
             NEW c \in OAuthClients, AddAccount(p, kind, addr, m, c)
      PROVE  RegistryInv'
  <2>1. PICK a \in Mailboxes :
          /\ \/ mailbox[a].address = addr /\ mailbox[a].kind = kind /\ mailbox' = mailbox
             \/ mailbox' = [mailbox EXCEPT ![a] = [kind |-> kind, address |-> addr, owner |-> m]]
          /\ credential' = [credential EXCEPT ![a] = NewTokens(a, c)]
          /\ connects' = [connects EXCEPT ![a] = @ + 1]
          /\ provider' = EvictProvider(p, a)
    BY <1>1 DEF AddAccount
  <2>2. issued' = issued + 1 /\ issued < MaxTokens
    BY <1>1 DEF AddAccount
  <2>3. NewTokens(a, c) \in Rows /\ NewTokens(a, c).connection = connects[a] + 1
    BY <2>2 DEF NewTokens, Rows
  <2>4. mailbox' \in [Mailboxes -> MailboxRows] /\ \A b \in Mailboxes : b # a => mailbox'[b] = mailbox[b]
    BY <2>1 DEF MailboxRows
  <2>5. credential' \in [Mailboxes -> Rows] /\ connects' \in [Mailboxes -> Nat] /\ issued' \in 0..MaxTokens
    BY <2>1, <2>2, <2>3
  <2>6. LastConnection'
    BY <2>1, <2>3, <2>4 DEF Connected
  <2> QED BY <2>1, <2>4, <2>5, <2>6, EvictionStep
<1>2. ASSUME NEW p \in Processes, NEW a \in Mailboxes, SaveImapCredentials(p, a) PROVE RegistryInv'
  <2>1. credential' = [credential EXCEPT ![a] = [credential[a] EXCEPT !.token = issued + 1, !.revision = @ + 1]]
    BY <1>2 DEF SaveImapCredentials
  <2>2. /\ issued < MaxTokens /\ issued' = issued + 1 /\ UNCHANGED <<mailbox, connects>>
        /\ provider' = EvictProvider(p, a)
    BY <1>2 DEF SaveImapCredentials
  <2>3. /\ credential'[a] \in Rows /\ credential'[a].connection = credential[a].connection
        /\ \A b \in Mailboxes : b # a => credential'[b] = credential[b]
    <3>1. issued + 1 \in 0..MaxTokens /\ credential[a] \in Rows
      BY <2>2
    <3> DEFINE row == [credential[a] EXCEPT !.token = issued + 1, !.revision = @ + 1]
    <3>2. row \in Rows /\ row.connection = credential[a].connection
      BY <3>1, NewTokensInRow
    <3> HIDE DEF row
    <3>3. credential' = [credential EXCEPT ![a] = row]
      BY <2>1 DEF row
    <3> QED BY <3>2, <3>3
  <2>4. credential' \in [Mailboxes -> Rows]
    BY <2>1, <2>3
  <2>5. LastConnection'
    BY <2>2, <2>3 DEF Connected
  <2> QED BY <2>2, <2>4, <2>5, EvictionStep
<1>3. ASSUME NEW p \in Processes, NEW a \in Mailboxes, RemoveAccount(p, a) PROVE RegistryInv'
  <2>1. /\ mailbox' = [mailbox EXCEPT ![a] = NoMailbox] /\ credential' = [credential EXCEPT ![a] = NoTokens]
        /\ provider' = EvictProvider(p, a) /\ UNCHANGED <<issued, connects>>
    BY <1>3 DEF RemoveAccount
  <2>2. NoMailbox \in MailboxRows /\ NoTokens \in Rows
    BY DEF NoMailbox, NoTokens, MailboxRows, Rows
  <2>3. LastConnection'
    BY <2>1 DEF Connected
  <2> QED BY <2>1, <2>2, <2>3, EvictionStep
<1>4. ASSUME NEW p \in Processes, NEW a \in Mailboxes, NEW h \in Providers, GetProvider(p, a, h) PROVE RegistryInv'
  <2> DEFINE r == [process |-> p, of |-> a, seen |-> credential[a], client |-> credential[a].client,
                   token |-> credential[a].token, cached |-> TRUE, refreshing |-> FALSE]
  <2>1. provider' = [EvictProvider(p, a) EXCEPT ![h] = r] /\ UNCHANGED <<mailbox, credential, issued, connects>>
    BY <1>4 DEF GetProvider
  <2>2. credential[a] \in Rows
    OBVIOUS
  <2>3. r \in ProviderObjects
    BY <2>2 DEF ProviderObjects, Rows
  <2>4. r.of = a /\ r.token = r.seen.token /\ r.client = r.seen.client
    OBVIOUS
  <2> HIDE DEF r
  <2>5. provider' \in [Providers -> ProviderObjects] /\ provider'[h] = r
        /\ \A g \in Providers : g # h => provider'[g] = EvictProvider(p, a)[g]
    BY <2>1, <2>3, EvictionKeeps
  <2>6. WorkHasMailbox' /\ UsesWhatItSaw'
    BY <2>4, <2>5, EvictionKeeps DEF WorkHasMailbox, UsesWhatItSaw
  <2> QED BY <2>1, <2>5, <2>6 DEF Connected
<1>5. ASSUME NEW p \in Processes, ProcessEnds(p) PROVE RegistryInv'
  <2>1. NoProvider \in ProviderObjects /\ ~NoProvider.cached /\ ~NoProvider.refreshing
    BY DEF NoProvider, ProviderObjects, Rows, NoTokens
  <2> QED BY <1>5, <2>1 DEF ProcessEnds, WorkHasMailbox, UsesWhatItSaw, Connected
<1>6. ASSUME NEW a \in Mailboxes, NEW m \in Owners, AssignAccountOwner(a, m) PROVE RegistryInv'
  <2>1. /\ mailbox' = [mailbox EXCEPT ![a] = [mailbox[a] EXCEPT !.owner = m]] /\ a \in Connected
        /\ UNCHANGED <<credential, provider, issued, connects>>
    BY <1>6 DEF AssignAccountOwner
  <2>2. mailbox' \in [Mailboxes -> MailboxRows] /\ \A b \in Mailboxes : b # a => mailbox'[b] = mailbox[b]
    BY <2>1 DEF MailboxRows
  <2>3. LastConnection'
    BY <2>1, <2>2 DEF Connected
  <2> QED BY <2>1, <2>2, <2>3 DEF WorkHasMailbox, UsesWhatItSaw
<1>7. ASSUME NEW h \in Providers, StartRefresh(h) PROVE RegistryInv'
  <2> DEFINE r == [provider[h] EXCEPT !.refreshing = TRUE]
  <2>1. provider' = [provider EXCEPT ![h] = r] /\ provider[h].cached /\ UNCHANGED <<mailbox, credential, issued, connects>>
    BY <1>7 DEF StartRefresh
  <2>2. /\ r \in ProviderObjects /\ r.of = provider[h].of /\ r.token = provider[h].token
        /\ r.client = provider[h].client /\ r.seen = provider[h].seen
    BY DEF ProviderObjects
  <2> HIDE DEF r
  <2>3. provider' \in [Providers -> ProviderObjects] /\ WorkHasMailbox' /\ UsesWhatItSaw'
    BY <2>1, <2>2, ProviderStep DEF WorkHasMailbox, UsesWhatItSaw
  <2> QED BY <2>1, <2>3 DEF Connected
<1>8. ASSUME NEW h \in Providers, WriteTokensIfCurrent(h) PROVE RegistryInv'
  <2> DEFINE a == provider[h].of
             fresh == [provider[h].seen EXCEPT !.token = issued + 1, !.revision = @ + 1]
             r == [provider[h] EXCEPT !.seen = fresh, !.token = issued + 1]
  <2>1. /\ provider[h].refreshing /\ issued < MaxTokens /\ credential[a] = provider[h].seen
        /\ credential' = [credential EXCEPT ![a] = fresh] /\ Refreshed(h, r)
        /\ issued' = issued + 1 /\ UNCHANGED <<mailbox, connects>>
    BY <1>8 DEF WriteTokensIfCurrent
  <2>2. a \in Mailboxes /\ provider[h] \in ProviderObjects /\ provider[h].seen \in Rows
    BY <2>1 DEF WorkHasMailbox, ProviderObjects
  <2>3. /\ fresh \in Rows /\ fresh.connection = provider[h].seen.connection
        /\ fresh.token = issued + 1 /\ fresh.client = provider[h].seen.client
    <3>1. issued + 1 \in 0..MaxTokens
      BY <2>1
    <3> QED BY <2>2, <3>1, NewTokensInRow
  <2>4. /\ r \in ProviderObjects /\ r.of = a /\ r.seen = fresh /\ r.token = issued + 1
        /\ r.client = provider[h].client /\ r.cached = provider[h].cached
    <3>0. issued + 1 \in 0..MaxTokens
      BY <2>1
    <3> HIDE DEF fresh
    <3>1. r = [process |-> provider[h].process, of |-> provider[h].of, seen |-> fresh,
               client |-> provider[h].client, token |-> issued + 1,
               cached |-> provider[h].cached, refreshing |-> provider[h].refreshing]
      <4> SUFFICES ASSUME NEW q, q = r
                   PROVE  q = [process |-> provider[h].process, of |-> provider[h].of, seen |-> fresh,
                               client |-> provider[h].client, token |-> issued + 1,
                               cached |-> provider[h].cached, refreshing |-> provider[h].refreshing]
        OBVIOUS
      <4> QED BY <2>2 DEF ProviderObjects
    <3> HIDE DEF r
    <3> QED BY <2>2, <2>3, <3>0, <3>1 DEF ProviderObjects
  <2> HIDE DEF a, fresh, r
  <2>5. r.cached => r.of \in Mailboxes /\ r.token = r.seen.token /\ r.client = r.seen.client
    BY <2>2, <2>3, <2>4 DEF UsesWhatItSaw
  <2>6. provider' \in [Providers -> ProviderObjects] /\ WorkHasMailbox' /\ UsesWhatItSaw'
    BY <2>1, <2>4, <2>5, RefreshedStep
  <2>7. LastConnection'
    BY <2>1, <2>2, <2>3 DEF Connected
  <2> QED BY <2>1, <2>2, <2>3, <2>6, <2>7
<1>9. ASSUME NEW h \in Providers, AdoptTokens(h) PROVE RegistryInv'
  <2> DEFINE row == credential[provider[h].of]
             r == [provider[h] EXCEPT !.seen = row, !.token = row.token, !.client = row.client]
  <2>1. /\ provider[h].refreshing /\ (Refreshed(h, NoProvider) \/ Refreshed(h, r))
        /\ UNCHANGED <<mailbox, credential, issued, connects>>
    BY <1>9 DEF AdoptTokens
  <2>2. provider[h].of \in Mailboxes /\ provider[h] \in ProviderObjects /\ row \in Rows
    BY <1>9 DEF AdoptTokens, WorkHasMailbox
  <2>3. /\ r \in ProviderObjects /\ r.of = provider[h].of /\ r.seen = row
        /\ r.token = row.token /\ r.client = row.client
    BY <2>2 DEF ProviderObjects, Rows
  <2>4. NoProvider \in ProviderObjects /\ ~NoProvider.cached
    BY DEF NoProvider, ProviderObjects, Rows, NoTokens
  <2> HIDE DEF row, r
  <2>5. provider' \in [Providers -> ProviderObjects] /\ WorkHasMailbox' /\ UsesWhatItSaw'
    BY <2>1, <2>2, <2>3, <2>4, RefreshedStep
  <2> QED BY <2>1, <2>5 DEF Connected
<1>10. ASSUME NEW h \in Providers, RefreshFails(h) PROVE RegistryInv'
  <2>1. provider[h].refreshing /\ Refreshed(h, provider[h]) /\ UNCHANGED <<mailbox, credential, issued, connects>>
    BY <1>10 DEF RefreshFails
  <2>2. provider' \in [Providers -> ProviderObjects] /\ WorkHasMailbox' /\ UsesWhatItSaw'
    BY <2>1, RefreshedStep DEF WorkHasMailbox, UsesWhatItSaw
  <2> QED BY <2>1, <2>2 DEF Connected
<1>11. CASE UNCHANGED registryVars
  BY <1>11 DEF registryVars, WorkHasMailbox, UsesWhatItSaw, Connected
<1> QED
  BY <1>1, <1>2, <1>3, <1>4, <1>5, <1>6, <1>7, <1>8, <1>9, <1>10, <1>11 DEF RegistryNext, RegistryStep

LEMMA RegistryBegins == RegistryInit => RegistryInv
<1> SUFFICES ASSUME RegistryInit PROVE RegistryInv
  OBVIOUS
<1>1. NoMailbox \in MailboxRows /\ NoTokens \in Rows /\ NoProvider \in ProviderObjects
      /\ ~NoProvider.cached /\ ~NoProvider.refreshing
  BY RegistryConstants DEF NoMailbox, NoTokens, NoProvider, MailboxRows, Rows, ProviderObjects
<1>2. Typed
  BY <1>1, RegistryConstants DEF RegistryInit, Typed
<1> QED BY <1>1, <1>2 DEF RegistryInit, RegistryInv, WorkHasMailbox, LastConnection, UsesWhatItSaw, Connected

\* Rows, providers and connections fit together, however refreshes and reconnects interleave.
THEOREM RegistryInvariance == RegistrySpec => []RegistryInv
BY RegistryBegins, RegistryKeeps, PTL DEF RegistrySpec

\* A refresh never replaces what a later reconnect stored, and a provider taken for
\* current holds the row's tokens.
THEOREM ReconnectionAlwaysWins == RegistrySpec => []ReconnectionWins
<1>1. RegistryInv => ReconnectionWins
  BY DEF RegistryInv, LastConnection, UsesWhatItSaw, ReconnectionWins
<1> QED BY <1>1, RegistryInvariance, PTL

----------------------------------------------------------------------------
(* The hosted flow writes accounts as the registry does, and a link is     *)
(* used before a state exists that can complete a connection with it.      *)

HostedTyped ==
    /\ link \in [Links -> [status : {"none", "open", "expired", "used"}, intent : Intents \cup {NoIntent}]]
    /\ oauthState \in [OAuthStates ->
         [status : {"none", "open", "exchanging", "gone"}, intent : Intents \cup {NoIntent},
          from : Links \cup {Nothing}]]
    /\ completed \in [Links -> Nat]

\* s may still complete a connection with link l.
MayComplete(s, l) == oauthState[s].status \in {"open", "exchanging"} /\ oauthState[s].from = l /\ l # Nothing

PendingLinksAreUsed ==
    \A s \in OAuthStates : \A l \in Links : MayComplete(s, l) => link[l].status = "used" /\ completed[l] = 0

OnePending == \A s, t \in OAuthStates : \A l \in Links : MayComplete(s, l) /\ MayComplete(t, l) => s = t

HostedInv == HostedTyped /\ PendingLinksAreUsed /\ OnePending /\ LinksConnectOnce

LEMMA IntentKinds == \A i \in Intents \cup {NoIntent} : i.kind \in Kinds /\ i.owner \in Owners \cup {Nothing}
BY DEF Intents, NoIntent, HostedKinds, Kinds

\* An account that a browser connects is added as any other.
LEMMA HostedStepRegisters ==
    ASSUME HostedTyped, [HostedNext]_hostedVars PROVE [RegistryNext]_registryVars
<1>1. ASSUME NEW s \in OAuthStates, NEW addr \in Addresses, NEW c \in OAuthClients, ExchangeSucceeds(s, addr, c)
      PROVE  RegistryNext
  <2> DEFINE i == oauthState[s].intent
  <2>1. i.kind \in Kinds /\ i.owner \in Owners \cup {Nothing}
    <3>1. i \in Intents \cup {NoIntent}
      BY DEF HostedTyped
    <3> QED BY <3>1, IntentKinds
  <2>2. AddAccount(HostProcess, i.kind, addr, i.owner, c)
    BY <1>1 DEF ExchangeSucceeds
  <2>3. PICK m \in Owners : i.owner # Nothing => i.owner = m
    BY <2>1, RegistryConstants
  <2>4. AddAccount(HostProcess, i.kind, addr, m, c)
    <3>1. CASE i.owner = Nothing
      BY <2>2, <3>1 DEF AddAccount
    <3>2. CASE i.owner # Nothing
      BY <2>2, <2>3, <3>2
    <3> QED BY <3>1, <3>2
  <2> QED BY <2>1, <2>4, HostedConstants DEF RegistryNext, RegistryStep
<1>2. ASSUME NEW l \in Links, \/ \E i \in Intents : CreateLink(l, i)
                              \/ LinkExpires(l) \/ \E s \in OAuthStates : ClaimLink(l, s)
      PROVE  UNCHANGED registryVars
  BY <1>2 DEF CreateLink, LinkExpires, ClaimLink
<1>3. ASSUME NEW s \in OAuthStates, \/ Callback(s) \/ StateExpires(s) \/ ExchangeFails(s)
                                    \/ \E kind \in HostedKinds, m \in Owners : StartWithoutLink(s, kind, m)
      PROVE  UNCHANGED registryVars
  BY <1>3 DEF Callback, StateExpires, ExchangeFails, StartWithoutLink
<1>4. CASE HostRestarts \/ UNCHANGED hostedVars
  BY <1>4 DEF HostRestarts, hostedVars
<1> QED BY <1>1, <1>2, <1>3, <1>4 DEF HostedNext, HostedFlow

LEMMA HostedStepKeeps == ASSUME HostedInv, [HostedNext]_hostedVars PROVE HostedInv'
<1>o. \A l \in Links, t \in OAuthStates : link[l].status = "open" => ~MayComplete(t, l)
  BY DEF HostedInv, PendingLinksAreUsed
<1>z. ASSUME NEW l \in Links, link[l].status = "open" PROVE completed[l] = 0
  <2>1. completed[l] \in Nat
    BY DEF HostedInv, HostedTyped
  <2>2. completed[l] <= 1 /\ completed[l] # 1
    BY <1>z DEF HostedInv, LinksConnectOnce
  <2> QED BY <2>1, <2>2
<1> USE DEF HostedInv, HostedTyped, LinkRow, OAuthEntry
<1>n. NoIntent \in Intents \cup {NoIntent}
  OBVIOUS
\* Links stay as they are, and of the states at most s changes, to one that is not pending or was.
<1>a. ASSUME NEW s \in OAuthStates, UNCHANGED <<link, completed>>,
             oauthState' \in [OAuthStates ->
               [status : {"none", "open", "exchanging", "gone"}, intent : Intents \cup {NoIntent},
                from : Links \cup {Nothing}]],
             \A t \in OAuthStates : \A l \in Links : MayComplete(t, l)' => MayComplete(t, l)
      PROVE  HostedInv'
  BY <1>a DEF PendingLinksAreUsed, OnePending, LinksConnectOnce
<1>1. ASSUME NEW l \in Links, NEW i \in Intents, CreateLink(l, i) PROVE HostedInv'
  <2>1. /\ link[l].status = "none" /\ link' = [link EXCEPT ![l] = [status |-> "open", intent |-> i]]
        /\ UNCHANGED <<oauthState, completed>>
    BY <1>1 DEF CreateLink
  <2>2. HostedTyped'
    BY <2>1
  <2> QED BY <2>1, <2>2 DEF PendingLinksAreUsed, OnePending, LinksConnectOnce, MayComplete
<1>2. ASSUME NEW l \in Links, LinkExpires(l) PROVE HostedInv'
  BY <1>2 DEF LinkExpires, PendingLinksAreUsed, OnePending, LinksConnectOnce, MayComplete
<1>3. ASSUME NEW l \in Links, NEW s \in OAuthStates, ClaimLink(l, s) PROVE HostedInv'
  <2>1. /\ link[l].status = "open" /\ link' = [link EXCEPT ![l].status = "used"] /\ UNCHANGED completed
        /\ \/ UNCHANGED oauthState
           \/ /\ oauthState[s].status = "none"
              /\ oauthState' = [oauthState EXCEPT ![s] = [status |-> "open", intent |-> link[l].intent, from |-> l]]
    BY <1>3 DEF ClaimLink, BeginOAuth
  <2>2. HostedTyped'
    <3>1. link' \in [Links -> [status : {"none", "open", "expired", "used"}, intent : Intents \cup {NoIntent}]]
      BY <2>1
    <3>2. [status |-> "open", intent |-> link[l].intent, from |-> l]
            \in [status : {"none", "open", "exchanging", "gone"}, intent : Intents \cup {NoIntent}, from : Links \cup {Nothing}]
      OBVIOUS
    <3>3. oauthState' \in [OAuthStates ->
            [status : {"none", "open", "exchanging", "gone"}, intent : Intents \cup {NoIntent}, from : Links \cup {Nothing}]]
      <4>1. CASE UNCHANGED oauthState
        BY <4>1
      <4>2. CASE oauthState' = [oauthState EXCEPT ![s] = [status |-> "open", intent |-> link[l].intent, from |-> l]]
        BY <3>2, <4>2
      <4> QED BY <2>1, <4>1, <4>2
    <3>4. completed' \in [Links -> Nat]
      BY <2>1
    <3> HIDE DEF Intents, NoIntent
    <3> QED BY <3>1, <3>3, <3>4
  <2>3. completed[l] = 0 /\ \A t \in OAuthStates : ~MayComplete(t, l)
    BY <1>o, <1>z, <2>1
  <2>4. \A t \in OAuthStates : \A k \in Links : MayComplete(t, k)' => MayComplete(t, k) \/ (t = s /\ k = l)
    BY <2>1 DEF MayComplete
  <2>5. PendingLinksAreUsed'
    BY <2>1, <2>3, <2>4 DEF PendingLinksAreUsed
  <2>6. OnePending'
    BY <2>3, <2>4 DEF OnePending
  <2>7. LinksConnectOnce'
    BY <2>1 DEF LinksConnectOnce
  <2> QED BY <2>2, <2>5, <2>6, <2>7
<1>4. ASSUME NEW s \in OAuthStates, Callback(s) \/ StateExpires(s) \/ ExchangeFails(s) PROVE HostedInv'
  <2>1. /\ UNCHANGED <<link, completed>> /\ oauthState[s].status \in {"open", "exchanging"}
        /\ \E next \in {"exchanging", "gone"} : oauthState' = [oauthState EXCEPT ![s].status = next]
    BY <1>4 DEF Callback, StateExpires, ExchangeFails
  <2> QED BY <1>a, <2>1 DEF MayComplete
<1>5. ASSUME NEW s \in OAuthStates, NEW kind \in HostedKinds, NEW m \in Owners, StartWithoutLink(s, kind, m)
      PROVE  HostedInv'
  <2> DEFINE i == [kind |-> kind, owner |-> m, reauthorize |-> Nothing]
  <2>1. i \in Intents
    BY DEF Intents
  <2>2. /\ UNCHANGED <<link, completed>>
        /\ oauthState' = [oauthState EXCEPT ![s] = [status |-> "open", intent |-> i, from |-> Nothing]]
    BY <1>5 DEF StartWithoutLink, BeginOAuth
  <2> HIDE DEF i
  <2> QED BY <1>a, <2>1, <2>2 DEF MayComplete
<1>6. ASSUME NEW s \in OAuthStates, NEW addr \in Addresses, NEW c \in OAuthClients, ExchangeSucceeds(s, addr, c)
      PROVE  HostedInv'
  <2>1. /\ UNCHANGED link /\ oauthState[s].status = "exchanging" /\ oauthState' = [oauthState EXCEPT ![s].status = "gone"]
        /\ completed' = IF oauthState[s].from = Nothing THEN completed
                        ELSE [completed EXCEPT ![oauthState[s].from] = @ + 1]
    BY <1>6 DEF ExchangeSucceeds
  <2>2. CASE oauthState[s].from = Nothing
    BY <1>a, <2>1, <2>2 DEF MayComplete
  <2>3. CASE oauthState[s].from # Nothing
    <3> DEFINE l == oauthState[s].from
    <3>1. l \in Links /\ MayComplete(s, l)
      BY <2>1, <2>3 DEF MayComplete
    <3>2. link[l].status = "used" /\ completed[l] = 0 /\ completed' = [completed EXCEPT ![l] = 1]
      <4>1. link[l].status = "used" /\ completed[l] = 0
        BY <3>1 DEF PendingLinksAreUsed
      <4>2. completed' = [completed EXCEPT ![l] = completed[l] + 1]
        BY <2>1, <2>3
      <4> QED BY <4>1, <4>2
    <3>3. HostedTyped'
      BY <2>1, <3>1, <3>2
    <3>4. \A t \in OAuthStates : \A k \in Links : MayComplete(t, k)' => MayComplete(t, k) /\ k # l
      BY <2>1, <3>1 DEF MayComplete, OnePending
    <3>5. PendingLinksAreUsed' /\ OnePending'
      BY <2>1, <3>2, <3>4 DEF PendingLinksAreUsed, OnePending
    <3>6. LinksConnectOnce'
      BY <2>1, <3>1, <3>2 DEF LinksConnectOnce
    <3> QED BY <3>3, <3>5, <3>6
  <2> QED BY <2>2, <2>3
<1>7. CASE HostRestarts
  <2>1. /\ UNCHANGED <<link, completed>>
        /\ oauthState' = [s \in OAuthStates |-> IF oauthState[s].status = "none" THEN oauthState[s]
                                                 ELSE [oauthState[s] EXCEPT !.status = "gone"]]
    BY <1>7 DEF HostRestarts
  <2>2. HostedTyped'
    BY <2>1
  <2>3. \A t \in OAuthStates : \A l \in Links : ~MayComplete(t, l)'
    BY <2>1 DEF MayComplete
  <2> QED BY <2>1, <2>2, <2>3 DEF PendingLinksAreUsed, OnePending, LinksConnectOnce
<1>8. CASE UNCHANGED <<link, oauthState, completed>>
  BY <1>8 DEF PendingLinksAreUsed, OnePending, LinksConnectOnce, MayComplete
<1> QED
  BY <1>1, <1>2, <1>3, <1>4, <1>5, <1>6, <1>7, <1>8 DEF HostedNext, HostedFlow, hostedVars

LEMMA HostedBegins == HostedInit => HostedInv
BY DEF HostedInit, HostedInv, HostedTyped, PendingLinksAreUsed, OnePending, LinksConnectOnce, MayComplete, LinkRow, OAuthEntry

\* Whatever a state can still complete is a used link that completed nothing, and no other state can.
THEOREM HostedInvariance == HostedSpec => []HostedInv
BY HostedBegins, HostedStepKeeps, PTL DEF HostedSpec

\* A link connects one mailbox at most, for any number of links and browsers.
THEOREM LinksWorkOnce == HostedSpec => []LinksConnectOnce
<1>1. HostedInv => LinksConnectOnce
  BY DEF HostedInv
<1> QED BY <1>1, HostedInvariance, PTL

\* The hosted flow is one more client of the registry: it refines the registry's
\* specification, and its reconnections win over refreshes too.
THEOREM HostedRefinesRegistry == HostedSpec => RegistrySpec
<1>1. HostedInit => RegistryInit
  BY DEF HostedInit
<1>2. HostedInv /\ [HostedNext]_hostedVars => [RegistryNext]_registryVars
  BY HostedStepRegisters DEF HostedInv
<1> QED BY <1>1, <1>2, HostedInvariance, PTL DEF HostedSpec, RegistrySpec

THEOREM HostedReconnectionWins == HostedSpec => []ReconnectionWins
BY HostedRefinesRegistry, ReconnectionAlwaysWins, PTL

----------------------------------------------------------------------------
(* The command line's flow.                                                *)

\* Until the port is known to listen or to be busy nothing is announced, so nothing is claimed.
CallbackInv ==
    /\ CallbackTypeOK /\ FirstCodeWins
    /\ exchanges = 1 => claimed
    /\ claimed \/ announced => port # "starting"

\* The parts of the type invariant, each by the actions that set it.
LEMMA CallbackTypesKept == ASSUME CallbackInv, [CallbackNext]_callbackVars PROVE CallbackTypeOK'
<1> USE DEF CallbackInv, CallbackTypeOK, CallbackNext, callbackVars, Listens, PortInUse, PortFails, CodeArrives,
            ProviderErrorArrives, TimesOut, InputEnds, ExchangeDone, Settle
<1>1. announced' \in BOOLEAN /\ claimed' \in BOOLEAN /\ added' \in BOOLEAN
  OBVIOUS
<1>2. paste' \in {"none", "open", "closed"}
  OBVIOUS
<1>3. port' \in {"starting", "listening", "busy", "closed"}
  OBVIOUS
<1>4. outcome' \in {"none", "connected", "failed", "providerError", "timeout", "noInput", "noPort"}
  OBVIOUS
<1>5. callbacks' \in 0..MaxCallbacks
  BY CallbackConstants
<1>6. exchanges' \in Nat
  OBVIOUS
<1> HIDE DEF CallbackInv, CallbackNext, callbackVars
<1> QED BY <1>1, <1>2, <1>3, <1>4, <1>5, <1>6

LEMMA CallbackKeeps == ASSUME CallbackInv, [CallbackNext]_callbackVars PROVE CallbackInv'
<1>b. CallbackTypeOK'
  BY CallbackTypesKept
<1>t. /\ announced \in BOOLEAN /\ claimed \in BOOLEAN /\ added \in BOOLEAN /\ exchanges \in Nat
      /\ announced' \in BOOLEAN /\ claimed' \in BOOLEAN /\ added' \in BOOLEAN /\ exchanges' \in Nat
  BY <1>b DEF CallbackInv, CallbackTypeOK
<1>i. FirstCodeWins /\ (exchanges = 1 => claimed) /\ (claimed \/ announced => port # "starting")
  BY DEF CallbackInv
<1>s. SUFFICES FirstCodeWins' /\ (exchanges' = 1 => claimed') /\ (claimed' \/ announced' => port' # "starting")
  BY <1>b DEF CallbackInv
<1> USE <1>t, <1>i DEF FirstCodeWins, Settled, Settle
<1>1. CASE Listens
  BY <1>1 DEF Listens
<1>2. CASE PortInUse
  BY <1>2 DEF PortInUse
<1>3. CASE PortFails
  BY <1>3 DEF PortFails
<1>4. CASE CodeArrives
  <2>1. claimed' <=> claimed \/ ~Settled
    BY <1>4 DEF CodeArrives
  <2>2. /\ UNCHANGED <<paste, port, outcome, added>>
        /\ exchanges' = IF claimed \/ Settled THEN exchanges ELSE exchanges + 1
    BY <1>4 DEF CodeArrives
  <2>3. announced /\ port # "starting"
    BY <1>4 DEF CodeArrives, CallbackArrives
  <2> QED BY <2>1, <2>2, <2>3
<1>5. CASE ProviderErrorArrives
  BY <1>5 DEF ProviderErrorArrives
<1>6. CASE TimesOut
  BY <1>6 DEF TimesOut
<1>7. CASE InputEnds
  BY <1>7 DEF InputEnds
<1>8. CASE ExchangeDone
  BY <1>8 DEF ExchangeDone
<1>9. CASE UNCHANGED callbackVars
  BY <1>9 DEF callbackVars
<1> QED BY <1>1, <1>2, <1>3, <1>4, <1>5, <1>6, <1>7, <1>8, <1>9 DEF CallbackNext

LEMMA CallbackBegins == CallbackInit => CallbackInv
<1> SUFFICES ASSUME CallbackInit PROVE CallbackInv
  OBVIOUS
<1> USE DEF CallbackInit, CallbackInv, CallbackTypeOK
<1>1. announced \in BOOLEAN /\ claimed \in BOOLEAN /\ added \in BOOLEAN
  OBVIOUS
<1>2. paste \in {"none", "open", "closed"} /\ port \in {"starting", "listening", "busy", "closed"}
  OBVIOUS
<1>3. outcome \in {"none", "connected", "failed", "providerError", "timeout", "noInput", "noPort"}
  OBVIOUS
<1>4. callbacks \in 0..MaxCallbacks /\ exchanges \in Nat
  BY CallbackConstants
<1>5. FirstCodeWins /\ (exchanges = 1 => claimed) /\ (claimed \/ announced => port # "starting")
  BY DEF FirstCodeWins, Settled
<1> QED BY <1>1, <1>2, <1>3, <1>4, <1>5

\* One code is exchanged and alone decides, however many callbacks race, and a
\* settled flow leaves nothing open.
THEOREM FirstCodeAlwaysWins == CallbackSpec => []FirstCodeWins
<1>1. CallbackInv => FirstCodeWins
  BY DEF CallbackInv
<1> QED BY <1>1, CallbackBegins, CallbackKeeps, PTL DEF CallbackSpec

----------------------------------------------------------------------------
(* Types: each part's variables stay what its tables allow.                   *)
\* The rest of the members' state: who has a password, and whether the instance is set up.
CredentialsTyped == hasPassword \subseteq People /\ bootstrapped \in BOOLEAN

LEMMA MembersTypesKept ==
    ASSUME MembersInv, CredentialsTyped, [MembersNext]_membersVars
    PROVE  CredentialsTyped'
<1> USE DEF CredentialsTyped
<1>1. ASSUME NEW c \in AuthCalls, authCall[c].op # "none" PROVE authCall[c].of \in People
  BY <1>1 DEF MembersInv, CallsHaveMembers
<1>2. ASSUME NEW c \in AuthCalls, NEW q \in AppProcesses, AuthEnds(c, q) \/ ChangeEnds(c)
      PROVE  CredentialsTyped'
  <2>1. CASE LoginEnds(c, q)
    BY <2>1 DEF LoginEnds, storedMembers
  <2>2. CASE SetupEnds(c, q) \/ RecoverEnds(c, q) \/ RedeemEnds(c, q) \/ ChangeEnds(c)
    <3>1. authCall[c].op # "none"
      BY <2>2 DEF SetupEnds, RecoverEnds, RedeemEnds, ChangeEnds, AuthCallEnds
    <3>2. authCall[c].of \in People
      BY <1>1, <3>1
    <3> QED BY <2>2, <3>2 DEF SetupEnds, RecoverEnds, RedeemEnds, ChangeEnds
  <2> QED BY <1>2, <2>1, <2>2 DEF AuthEnds
<1>3. ASSUME NEW q \in AppProcesses, Request(q) PROVE CredentialsTyped'
  BY <1>3 DEF Request, Invite, RemoveChecked, KeyChecked, CreateMember, UpdateChecked, storedMembers
<1>4. ASSUME NEW q \in AppProcesses, Write(q) PROVE CredentialsTyped'
  <2>1. CASE SetupDone(q)
    <3>1. acting[q].of \in People
      BY <2>1 DEF SetupDone, MembersInv, WorkHasMembers
    <3> QED BY <2>1, <3>1 DEF SetupDone
  <2>2. CASE ~SetupDone(q)
    BY <1>4, <2>2 DEF Write, UpdateWritten, RemoveWritten, SessionChecked, SessionIssued, WorkGivenUp,
                      KeyIssued, CodeIssued, storedMembers
  <2> QED BY <2>1, <2>2
<1>5. ASSUME NEW c \in AuthCalls, AuthBegins(c) \/ AuthCallFails(c) PROVE CredentialsTyped'
  BY <1>5 DEF AuthBegins, SetupBegins, RecoverBegins, LoginBegins, RedeemBegins, ChangeBegins,
              AuthCallFails, storedMembers
<1>6. ASSUME NEW c \in AuthCalls, ChangeEnds(c), NEW q \in AppProcesses PROVE CredentialsTyped'
  BY <1>2, <1>6
<1>7. CASE TimePasses \/ \E k \in ApiKeys : RevokeApiKey(k)
  BY <1>7 DEF TimePasses, RevokeApiKey, SessionEnds, CodeExpires
<1>8. CASE UNCHANGED membersVars
  BY <1>8 DEF membersVars, storedMembers
<1> QED BY <1>2, <1>3, <1>4, <1>5, <1>6, <1>7, <1>8 DEF MembersNext, Served

\* Members, their credentials and the calls that await a hash are what their tables allow.
THEOREM MembersAreTyped == MembersSpec => []MembersTypeOK
<1>1. MembersInit => CredentialsTyped
  BY DEF MembersInit, CredentialsTyped
<1>2. MembersInv /\ CredentialsTyped => MembersTypeOK
  BY DEF CredentialsTyped, MembersInv, MembersTyped, MembersTypeOK, Somebody, AuthCallRecords, CallOps,
         WorkRecords, WorkOps
<1>3. MembersSpec => []CredentialsTyped
  BY <1>1, MembersTypesKept, MembersInvariance, PTL DEF MembersSpec
<1> QED BY <1>2, <1>3, MembersInvariance, PTL

-----------------------------------------------------------------------------
\* The clock of a lease stays within the days that are counted.
THEOREM EntitlementsAreTyped == EntitlementsSpec => []EntitlementsTypeOK
<1> DEFINE DayInRange == day \in 0..LastDay
<1>1. EntitlementsInit => EntitlementsTyped /\ CapClockRuns /\ DayInRange
  BY EntitlementsConstants DEF EntitlementsInit, EntitlementsTyped, CapClockRuns, Licensed, LicensedBy
<1>2. ASSUME DayInRange, [EntitlementsNext]_entitlementVars PROVE DayInRange'
  BY <1>2, EntitlementsConstants DEF EntitlementsNext, entitlementVars, SaveLease, ClearLease, AddMember,
     RemoveAMember, ConnectMailbox, ReleaseMailbox, DayPasses
<1>3. EntitlementsTyped /\ DayInRange => EntitlementsTypeOK
  BY DEF EntitlementsTyped, EntitlementsTypeOK
<1> HIDE DEF DayInRange
<1> QED BY <1>1, <1>2, <1>3, EntitlementsKeep, PTL DEF EntitlementsSpec

-----------------------------------------------------------------------------
LimitOf(k) == IF k = Address THEN AddressLimit ELSE EmailLimit
WithinLimits == minute \in 0..LastMinute /\ \A k \in RateKeys : attempts[k].attempts <= LimitOf(k)

\* No email and no address has more attempts in its row than its limit.
LEMMA LimitsHold ==
    ASSUME LoginInv, WithinLimits, [LoginNext]_loginVars
    PROVE  WithinLimits'
<1> USE LoginConstants
<1>0. /\ \A k \in RateKeys : attempts[k] \in RateRows /\ attempts[k].attempts \in Nat /\ LimitOf(k) \in Nat
      /\ Absent.attempts = 0 /\ \A l \in Logins : login[l].email \in Emails
  BY DEF LoginInv, LoginTyped, RateRows, LoginRows, LimitOf, Absent, AttemptRow
<1>1. ASSUME NEW l \in Logins, LoginBegin(l) PROVE WithinLimits'
  <2> DEFINE e == login[l].email
  <2>1. \A k \in RateKeys : Fresh[k] \in RateRows /\ Fresh[k].attempts \in Nat /\ Fresh[k].attempts <= LimitOf(k)
    BY <1>0 DEF WithinLimits, Fresh, Absent, AttemptRow, RateRows
  <2>2. minute' = minute
    BY <1>1 DEF LoginBegin
  <2>3. CASE attempts' = Fresh
    BY <2>1, <2>2, <2>3 DEF WithinLimits, LimitOf
  <2>4. CASE /\ Fresh[e].attempts < EmailLimit /\ Fresh[Address].attempts < AddressLimit
             /\ attempts' = [Fresh EXCEPT ![e] = Reserve(@), ![Address] = Reserve(@)]
    <3>1. \A k \in RateKeys : Reserve(Fresh[k]).attempts \in {1, Fresh[k].attempts + 1}
      BY DEF Reserve, AttemptRow
    <3>2. e \in RateKeys /\ Address \in RateKeys /\ e # Address /\ e \in Emails
      BY <1>0 DEF RateKeys
    <3>3. Fresh \in [RateKeys -> RateRows]
      BY FreshRow
    <3>4. \A k \in RateKeys : attempts'[k].attempts <= LimitOf(k)
      <4>1. ASSUME NEW k \in RateKeys PROVE attempts'[k].attempts <= LimitOf(k)
        <5>1. CASE k \in {e, Address}
          <6>1. attempts'[k] = Reserve(Fresh[k]) /\ Fresh[k].attempts < LimitOf(k)
            BY <2>4, <3>2, <3>3, <5>1 DEF LimitOf
          <6> QED BY <1>0, <2>1, <3>1, <6>1
        <5>2. CASE k \notin {e, Address}
          <6>1. attempts'[k] = Fresh[k]
            BY <2>4, <3>2, <3>3, <5>2
          <6> QED BY <2>1, <6>1
        <5> QED BY <5>1, <5>2
      <4> QED BY <4>1
    <3> QED BY <2>2, <3>4 DEF WithinLimits, LimitOf
  <2>5. Fresh[e].attempts \in Nat /\ Fresh[Address].attempts \in Nat
    BY <1>0, <2>1 DEF RateKeys
  <2> QED BY <1>1, <2>3, <2>4, <2>5 DEF LoginBegin
<1>2. ASSUME NEW l \in Logins, LoginSucceeds(l) PROVE WithinLimits'
  <2>1. /\ attempts' = [attempts EXCEPT ![login[l].email] = Absent,
                                        ![Address] = ReleaseAttempt(@, login[l].window)]
        /\ minute' = minute
    BY <1>2 DEF LoginSucceeds
  <2>2. \A k \in RateKeys : \A w : ReleaseAttempt(attempts[k], w).attempts
                                      \in {0, attempts[k].attempts, attempts[k].attempts - 1}
    BY DEF ReleaseAttempt, Absent, AttemptRow
  <2>3. attempts \in [RateKeys -> RateRows]
    BY DEF LoginInv, LoginTyped
  <2>4. ASSUME NEW k \in RateKeys PROVE attempts'[k].attempts <= LimitOf(k)
    <3>1. attempts'[k] \in {Absent, attempts[k], ReleaseAttempt(attempts[k], login[l].window)}
      <4>1. login[l].email # Address /\ login[l].email \in RateKeys /\ Address \in RateKeys
        BY <1>0 DEF RateKeys
      <4> QED BY <2>1, <2>3, <4>1
    <3>2. attempts'[k].attempts \in {0, attempts[k].attempts, attempts[k].attempts - 1}
      BY <1>0, <2>2, <3>1
    <3> QED BY <1>0, <3>2 DEF WithinLimits
  <2> QED BY <2>1, <2>4 DEF WithinLimits, LimitOf
<1>3. ASSUME NEW l \in Logins, LoginFails(l) PROVE WithinLimits'
  BY <1>3 DEF LoginFails, WithinLimits, LimitOf
<1>4. CASE MinutePasses
  BY <1>4 DEF MinutePasses, WithinLimits, LimitOf
<1>5. CASE UNCHANGED loginVars
  BY <1>5 DEF loginVars, WithinLimits, LimitOf
<1> QED BY <1>1, <1>2, <1>3, <1>4, <1>5 DEF LoginNext

\* The rows of the rate limits stay within the limits, of an email's as of the address's.
THEOREM LoginsAreTyped == LoginSpec => []LoginTypeOK
<1>1. LoginInit => WithinLimits
  <2>1. Absent.attempts = 0 /\ \A k \in RateKeys : LimitOf(k) \in Nat
    BY LoginConstants DEF Absent, AttemptRow, LimitOf
  <2>2. LoginInit => minute = 0 /\ \A k \in RateKeys : attempts[k] = Absent
    BY DEF LoginInit
  <2> QED BY <2>1, <2>2, LoginConstants DEF WithinLimits
<1>2. LoginInv /\ WithinLimits => LoginTypeOK
  <2> SUFFICES ASSUME LoginInv, WithinLimits PROVE LoginTypeOK
    OBVIOUS
  <2>1. ASSUME NEW k \in RateKeys
        PROVE  attempts[k] \in [attempts : 0..LimitOf(k), start : Nat \cup {NoAttemptRow}]
    <3>1. attempts[k] \in RateRows /\ attempts[k].attempts <= LimitOf(k) /\ LimitOf(k) \in Nat
      BY LoginConstants DEF LoginInv, LoginTyped, WithinLimits, LimitOf
    <3> QED BY <3>1 DEF RateRows
  <2>2. DOMAIN attempts = RateKeys /\ login \in [Logins -> LoginRows] /\ minute \in 0..LastMinute
    BY DEF LoginInv, LoginTyped, WithinLimits
  <2> QED BY <2>1, <2>2 DEF LoginTypeOK, LoginRows, LimitOf
<1>3. LoginSpec => []WithinLimits
  BY <1>1, LimitsHold, LoginInvariance, PTL DEF LoginSpec
<1> QED BY <1>2, <1>3, LoginInvariance, PTL

-----------------------------------------------------------------------------
\* A connection's row names what its table allows, whichever request and policy wrote it.
THEOREM PermissionsAreTyped == PermissionsSpec => []PermissionsTypeOK
<1>1. PermissionsInv => PermissionsTypeOK
  BY DEF PermissionsInv, PermissionsTypeOK, Connections, GoodRow, PolicyRows
<1> QED BY <1>1, PermissionsInvariance, PTL

\* An account's row, its tokens and its refresh are what the registry's tables allow.
THEOREM AccountsAreTyped == RegistrySpec => []RegistryTypeOK
<1>1. Typed => RegistryTypeOK
  BY DEF Typed, RegistryTypeOK, MailboxRows, Rows, ProviderObjects, NoProvider
<1> QED BY <1>1, RegistryInvariance, PTL DEF RegistryInv

\* Links and states keep their types, and the accounts theirs, which the flow writes through the registry.
THEOREM ConnectionsAreTyped == HostedSpec => []HostedTypeOK
<1>1. RegistryTypeOK /\ HostedInv => HostedTypeOK
  BY DEF HostedInv, HostedTyped, HostedTypeOK
<1> QED BY <1>1, HostedInvariance, HostedRefinesRegistry, AccountsAreTyped, PTL

\* A loopback flow is at one of its stages, and counts its callbacks within the bound.
THEOREM CallbacksAreTyped == CallbackSpec => []CallbackTypeOK
BY CallbackBegins, CallbackKeeps, PTL DEF CallbackInv, CallbackSpec
=============================================================================
