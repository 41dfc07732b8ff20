------------------------------ MODULE Members ------------------------------
(***************************************************************************)
(* The members of an instance, their credentials, sessions, API keys and   *)
(* one-time codes: src/packages/server/src/auth.ts and storage/members.ts, *)
(* behind the routes of http/identity.ts.  The server and every command    *)
(* line run these handlers, each in a process of its own, over one store.  *)
(* A handler that hashes or checks a password awaits it, so it has two     *)
(* steps here: what it read before the await may be gone after it.  One    *)
(* that checks the members and writes in another statement has two as      *)
(* well: its process does nothing else between them, but another may.  A   *)
(* setup makes a member wait and then active; its other statements, and    *)
(* those of a recovery after its await, are one step with these.           *)
(***************************************************************************)
EXTENDS Naturals, FiniteSets

CONSTANTS People, Nobody,   \* members; nobody
          Sessions,         \* the sessions that are followed at a time
          ApiKeys, Codes,
          AuthCalls,        \* calls that await a password hash at a time
          AppProcesses      \* the server and the command lines at work on the store

ASSUME MembersConstants == Nobody \notin People

VARIABLES
    memberRole, memberStatus,
    hasPassword,        \* the members with a row in member_credentials
    session,            \* whose it is, of those that are not revoked or expired
    apiKeyOf,           \* the member a key was issued to
    code,               \* enrollment and reset codes
    authCall,           \* what a call read before its await
    acting,             \* what a process is about to write, and whether the
                        \* members have changed since it checked them
    bootstrapped,
    codeUses,           \* history: passwords stored under each code
    staleChange,        \* history: a member was demoted, suspended, removed or claimed
                        \* on an overtaken check
    lateGrants          \* history: who got a session or a key on an overtaken
                        \* check, and was not suspended since

storedMembers == <<memberRole, memberStatus, hasPassword, session, apiKeyOf, code, bootstrapped>>
membersVars == <<storedMembers, authCall, acting, codeUses, staleChange, lateGrants>>

Roles == {"admin", "member"}
CodeKinds == {"enrollment", "password_reset"}
Pending(op, p, x) == [op |-> op, of |-> p, with |-> x]
NoCall == Pending("none", Nobody, Nobody)
NoCode == [of |-> Nobody, kind |-> "enrollment"]

\* "issue" is issueSession() before it reads the member, "session" after it.
Doing(op, p, r, s) == [op |-> op, of |-> p, role |-> r, status |-> s, overtaken |-> FALSE]
About(op, p) == Doing(op, p, "same", "same")
NoWork == About("none", Nobody)

MembersTypeOK ==
    /\ memberRole \in [People -> Roles]
    /\ memberStatus \in [People -> {"absent", "pending", "active", "suspended"}]
    /\ hasPassword \subseteq People
    /\ session \in [Sessions -> People \cup {Nobody}]
    /\ apiKeyOf \in [ApiKeys -> People \cup {Nobody}]
    /\ code \in [Codes -> [of : People \cup {Nobody}, kind : CodeKinds]]
    /\ authCall \in [AuthCalls ->
         [op : {"none", "create", "claim", "redeem", "login", "change", "recover", "restore"},
          of : People \cup {Nobody}, with : Codes \cup Sessions \cup {Nobody}]]
    /\ acting \in [AppProcesses ->
         [op : {"none", "setup", "update", "remove", "issue", "session", "key"} \cup CodeKinds,
          of : People \cup {Nobody}, role : {"same"} \cup Roles,
          status : {"same", "active", "suspended"}, overtaken : BOOLEAN]]
    /\ bootstrapped \in BOOLEAN
    /\ codeUses \in [Codes -> Nat]
    /\ staleChange \in BOOLEAN
    /\ lateGrants \subseteq People

\* A new instance, or one from before members had to sign in.
MembersInit ==
    /\ memberRole = [p \in People |-> "admin"]
    /\ \E S \in SUBSET People :
         memberStatus = [p \in People |-> IF p \in S THEN "active" ELSE "absent"]
    /\ hasPassword = {}
    /\ session = [s \in Sessions |-> Nobody]
    /\ apiKeyOf = [k \in ApiKeys |-> Nobody]
    /\ code = [t \in Codes |-> NoCode]
    /\ authCall = [c \in AuthCalls |-> NoCall]
    /\ acting = [q \in AppProcesses |-> NoWork]
    /\ bootstrapped = FALSE
    /\ codeUses = [t \in Codes |-> 0]
    /\ staleChange = FALSE /\ lateGrants = {}

----------------------------------------------------------------------------
Exists(p) == p \in People /\ memberStatus[p] # "absent"
Active(p) == p \in People /\ memberStatus[p] = "active"
ActiveAdmins == {p \in People : memberRole[p] = "admin" /\ Active(p)}
NotLastActiveAdmin(p) == ActiveAdmins # {p}
TakesAdmin(w) == w.op = "remove" \/ w.role = "member" \/ w.status = "suspended"

LiveOf(p) == {s \in Sessions : session[s] = p}
RevokedAll(p, keep) ==
    [s \in Sessions |-> IF session[s] = p /\ s \notin keep THEN Nobody ELSE session[s]]
InUse(x) == \E c \in AuthCalls : authCall[c].with = x

\* issueSession() for p over the sessions in S; p is active.  A session that has
\* ended makes room for another, and one without room is not followed.
Issued(S, p) ==
    LET room == {s \in Sessions : S[s] = Nobody /\ ~InUse(s)}
    IN IF room = {} THEN {S} ELSE {[S EXCEPT ![s] = p] : s \in room}

Begins(c, op, p, x) == authCall[c] = NoCall /\ authCall' = [authCall EXCEPT ![c] = Pending(op, p, x)]
AuthCallEnds(c, op) == authCall[c].op = op /\ authCall' = [authCall EXCEPT ![c] = NoCall]

\* A process serves a call, or resumes one, when it is not in the middle of another.
\* Which process an awaiting call belongs to is left open.
Ready(q) == acting[q] = NoWork

\* The process q is about to do w now.  If this step changed the members, it overtook
\* what the other processes had checked.
Checked == {"update", "remove", "session", "key"}
GoesOn(q, w) ==
    LET changed == memberRole' # memberRole \/ memberStatus' # memberStatus
    IN acting' = [r \in AppProcesses |->
                    IF r = q THEN w
                    ELSE [acting[r] EXCEPT !.overtaken = @ \/ (changed /\ acting[r].op \in Checked)]]

histories == <<codeUses, staleChange, lateGrants>>

----------------------------------------------------------------------------
\* setupInitialAdmin() up to its await: a first administrator, or one to claim.
SetupBegins(c, p) ==
    /\ ~bootstrapped
    /\ IF \E q \in People : Exists(q)
       THEN Exists(p) /\ memberRole[p] = "admin" /\ Begins(c, "claim", p, Nobody)
       ELSE memberStatus[p] = "absent" /\ Begins(c, "create", p, Nobody)
    /\ UNCHANGED <<storedMembers, acting, histories>>

\* What it writes first: the member, or that it waits to be active.  Somebody may have been
\* added, claimed or removed meanwhile, or the instance set up.
SetupEnds(c, q) ==
    LET p == authCall[c].of IN
    /\ \/ AuthCallEnds(c, "create") /\ memberStatus[p] = "absent" /\ UNCHANGED staleChange
       \/ AuthCallEnds(c, "claim") /\ Exists(p) /\ staleChange' = (staleChange \/ bootstrapped)
    /\ memberRole' = IF Exists(p) THEN memberRole ELSE [memberRole EXCEPT ![p] = "admin"]
    /\ memberStatus' = [memberStatus EXCEPT ![p] = "pending"]
    /\ GoesOn(q, About("setup", p))
    /\ UNCHANGED <<hasPassword, session, apiKeyOf, code, bootstrapped, codeUses, lateGrants>>

\* The rest of it, up to the session.
SetupDone(q) ==
    LET p == acting[q].of IN
    /\ acting[q].op = "setup" /\ Exists(p)
    /\ hasPassword' = hasPassword \cup {p}
    /\ memberStatus' = [memberStatus EXCEPT ![p] = "active"]
    /\ bootstrapped' = TRUE
    /\ UNCHANGED <<memberRole, session, apiKeyOf, code, authCall, histories>>
    /\ GoesOn(q, About("issue", p))

\* recoverAdminPassword() of the command line: it restores whom it found not active.
RecoverBegins(c, p) ==
    /\ bootstrapped /\ Exists(p) /\ memberRole[p] = "admin"
    /\ Begins(c, IF Active(p) THEN "recover" ELSE "restore", p, Nobody)
    /\ UNCHANGED <<storedMembers, acting, histories>>

RecoverEnds(c, q) ==
    LET p == authCall[c].of IN
    /\ Exists(p)
    /\ \/ AuthCallEnds(c, "recover") /\ UNCHANGED memberStatus
       \/ AuthCallEnds(c, "restore") /\ memberStatus' = [memberStatus EXCEPT ![p] = "active"]
    /\ hasPassword' = hasPassword \cup {p}
    /\ session' = RevokedAll(p, {})
    /\ apiKeyOf' \in {apiKeyOf, [k \in ApiKeys |-> Nobody]}
    /\ UNCHANGED <<memberRole, code, bootstrapped, histories>>
    /\ GoesOn(q, NoWork)

----------------------------------------------------------------------------
\* A code replaces the older ones of its kind.
Open(t) == code[t] # NoCode
IssueCode(t, p, kind) ==
    /\ ~Open(t) /\ ~InUse(t)
    /\ code' = [u \in Codes |-> IF u = t THEN [of |-> p, kind |-> kind]
                                ELSE IF code[u] = [of |-> p, kind |-> kind] THEN NoCode ELSE code[u]]
    /\ codeUses' = [codeUses EXCEPT ![t] = 0]

\* POST members, which is addMember() and then its invitation.  A name is free for a new
\* member when nothing under way knows the old one.
CreateMember(q, p, r) ==
    /\ bootstrapped /\ memberStatus[p] = "absent"
    /\ \A c \in AuthCalls : authCall[c].of # p
    /\ \A x \in AppProcesses : acting[x].of # p
    /\ memberRole' = [memberRole EXCEPT ![p] = r]
    /\ memberStatus' = [memberStatus EXCEPT ![p] = "pending"]
    /\ GoesOn(q, About("enrollment", p))
    /\ UNCHANGED <<hasPassword, session, apiKeyOf, code, authCall, bootstrapped, histories>>

Invite(q, p) ==
    /\ bootstrapped
    /\ UNCHANGED <<storedMembers, authCall, histories>>
    /\ \/ memberStatus[p] = "pending" /\ GoesOn(q, About("enrollment", p))
       \/ memberStatus[p] = "active" /\ GoesOn(q, About("password_reset", p))

CodeIssued(q, t) ==
    LET w == acting[q] IN
    /\ w.op \in CodeKinds /\ Exists(w.of) /\ IssueCode(t, w.of, w.op)
    /\ UNCHANGED <<memberRole, memberStatus, hasPassword, session, apiKeyOf, authCall,
                   bootstrapped, staleChange, lateGrants>>
    /\ GoesOn(q, NoWork)

CodeExpires(t) ==
    /\ Open(t)
    /\ code' = [code EXCEPT ![t] = NoCode]
    /\ UNCHANGED <<memberRole, memberStatus, hasPassword, session, apiKeyOf,
                   authCall, acting, bootstrapped, histories>>

\* consumeMemberAuthToken() up to the await of the hash.
RedeemBegins(c, t) ==
    /\ Open(t)
    /\ memberStatus[code[t].of] = IF code[t].kind = "enrollment" THEN "pending" ELSE "active"
    /\ Begins(c, "redeem", code[t].of, t)
    /\ UNCHANGED <<storedMembers, acting, histories>>

\* Mutant: the code that was read before the await is claimed unconditionally.
RedeemStale(c, q) ==
    LET p == authCall[c].of  t == authCall[c].with IN
    /\ AuthCallEnds(c, "redeem") /\ Exists(p)
    /\ code' = [code EXCEPT ![t] = NoCode]
    /\ codeUses' = [codeUses EXCEPT ![t] = @ + 1]
    /\ hasPassword' = hasPassword \cup {p}
    /\ memberStatus' = IF memberStatus[p] = "pending"
                       THEN [memberStatus EXCEPT ![p] = "active"] ELSE memberStatus
    /\ session' = RevokedAll(p, {})
    /\ UNCHANGED <<memberRole, apiKeyOf, bootstrapped, staleChange, lateGrants>>
    /\ GoesOn(q, About("issue", p))

\* The claim, the password and the revocation are one transaction; the session is
\* issued after it.
RedeemEnds(c, q) ==
    LET p == authCall[c].of  t == authCall[c].with IN
    /\ AuthCallEnds(c, "redeem") /\ Open(t)
    /\ code' = [code EXCEPT ![t] = NoCode]
    /\ codeUses' = [codeUses EXCEPT ![t] = @ + 1]
    /\ hasPassword' = hasPassword \cup {p}
    /\ memberStatus' = IF code[t].kind = "enrollment"
                       THEN [memberStatus EXCEPT ![p] = "active"] ELSE memberStatus
    /\ session' = RevokedAll(p, {})
    /\ UNCHANGED <<memberRole, apiKeyOf, bootstrapped, staleChange, lateGrants>>
    /\ GoesOn(q, About("issue", p))

----------------------------------------------------------------------------
\* loginWithPassword() with the right password, up to the await of its check.
LoginBegins(c, p) ==
    /\ bootstrapped /\ Active(p) /\ p \in hasPassword
    /\ Begins(c, "login", p, Nobody)
    /\ UNCHANGED <<storedMembers, acting, histories>>

\* Mutant: the status read before the await decides.
LoginStale(c, q) ==
    /\ AuthCallEnds(c, "login")
    /\ UNCHANGED <<storedMembers, histories>>
    /\ GoesOn(q, About("session", authCall[c].of))

LoginEnds(c, q) ==
    /\ AuthCallEnds(c, "login")
    /\ UNCHANGED <<storedMembers, histories>>
    /\ GoesOn(q, About("issue", authCall[c].of))

\* issueSession(): the check, and the row.
SessionChecked(q) ==
    /\ acting[q].op = "issue" /\ Active(acting[q].of)
    /\ UNCHANGED <<storedMembers, authCall, histories>>
    /\ GoesOn(q, About("session", acting[q].of))

GrantedTo(w) == lateGrants' = IF w.overtaken THEN lateGrants \cup {w.of} ELSE lateGrants
SessionIssued(q) ==
    LET w == acting[q] IN
    /\ w.op = "session" /\ Exists(w.of)
    /\ session' \in Issued(session, w.of)
    /\ GrantedTo(w)
    /\ UNCHANGED <<memberRole, memberStatus, hasPassword, apiKeyOf, code, authCall,
                   bootstrapped, codeUses, staleChange>>
    /\ GoesOn(q, NoWork)

\* authenticateBearer() of a session.
SignedIn(s) == Active(session[s])

ChangeBegins(c, s) ==
    /\ SignedIn(s) /\ session[s] \in hasPassword
    /\ Begins(c, "change", session[s], s)
    /\ UNCHANGED <<storedMembers, acting, histories>>

ChangeEnds(c) ==
    LET p == authCall[c].of IN
    /\ AuthCallEnds(c, "change") /\ Exists(p)
    /\ hasPassword' = hasPassword \cup {p}
    /\ session' = RevokedAll(p, {authCall[c].with})
    /\ UNCHANGED <<memberRole, memberStatus, apiKeyOf, code, acting, bootstrapped, histories>>

\* The call fails after its await: the member or the code is gone, or the plan has no
\* room for another one.
AuthCallFails(c) ==
    LET a == authCall[c] IN
    /\ \/ a.op = "create" /\ \E q \in People : Exists(q)
       \/ a.op \in {"claim", "recover", "restore", "change"} /\ ~Exists(a.of)
       \/ a.op = "redeem" /\ ~Open(a.with)
    /\ AuthCallEnds(c, a.op)
    /\ UNCHANGED <<storedMembers, acting, histories>>

----------------------------------------------------------------------------
\* Mutant: only a change of role is refused for the last administrator.
SuspendAnyone(q, p, r, s) ==
    /\ bootstrapped /\ Exists(p)
    /\ s = "active" => memberStatus[p] = "active" \/ p \in hasPassword
    /\ p \in ActiveAdmins /\ r = "member" => NotLastActiveAdmin(p)
    /\ UNCHANGED <<storedMembers, authCall, histories>>
    /\ GoesOn(q, Doing("update", p, r, s))

\* updateMember() to role r and status s, either of which may stay the same: what it
\* checks, and its transaction.
UpdateChecked(q, p, r, s) ==
    /\ bootstrapped /\ Exists(p)
    /\ s = "active" => memberStatus[p] = "active" \/ p \in hasPassword
    /\ p \in ActiveAdmins /\ (r = "member" \/ s = "suspended") => NotLastActiveAdmin(p)
    /\ UNCHANGED <<storedMembers, authCall, histories>>
    /\ GoesOn(q, Doing("update", p, r, s))

\* Mutant: a field that is not given is written as well.
UpdateWrittenWhole(q) ==
    LET w == acting[q]  p == w.of  suspends == w.status = "suspended" IN
    /\ w.op = "update" /\ Exists(p)
    /\ memberRole' = [memberRole EXCEPT ![p] = w.role]
    /\ memberStatus' = [memberStatus EXCEPT ![p] = w.status]
    /\ session' = IF suspends THEN RevokedAll(p, {}) ELSE session
    /\ apiKeyOf' = [k \in ApiKeys |-> IF suspends /\ apiKeyOf[k] = p THEN Nobody ELSE apiKeyOf[k]]
    /\ staleChange' = (staleChange \/ (w.overtaken /\ TakesAdmin(w)))
    /\ lateGrants' = IF suspends THEN lateGrants \ {p} ELSE lateGrants
    /\ UNCHANGED <<hasPassword, code, authCall, bootstrapped, codeUses>>
    /\ GoesOn(q, NoWork)

UpdateWritten(q) ==
    LET w == acting[q]  p == w.of
        suspends == w.status = "suspended"
    IN
    /\ w.op = "update" /\ Exists(p)
    /\ memberRole' = [memberRole EXCEPT ![p] = IF w.role = "same" THEN @ ELSE w.role]
    /\ memberStatus' = [memberStatus EXCEPT ![p] = IF w.status = "same" THEN @ ELSE w.status]
    /\ session' = IF suspends THEN RevokedAll(p, {}) ELSE session
    /\ apiKeyOf' = [k \in ApiKeys |-> IF suspends /\ apiKeyOf[k] = p THEN Nobody ELSE apiKeyOf[k]]
    /\ staleChange' = (staleChange \/ (w.overtaken /\ TakesAdmin(w)))
    /\ lateGrants' = IF suspends THEN lateGrants \ {p} ELSE lateGrants
    /\ UNCHANGED <<hasPassword, code, authCall, bootstrapped, codeUses>>
    /\ GoesOn(q, NoWork)

\* removeMember() of one who owns no mailbox, likewise; the rows that refer to it cascade.
RemoveChecked(q, p) ==
    /\ bootstrapped /\ Exists(p)
    /\ p \in ActiveAdmins => NotLastActiveAdmin(p)
    /\ UNCHANGED <<storedMembers, authCall, histories>>
    /\ GoesOn(q, About("remove", p))

RemoveWritten(q) ==
    LET w == acting[q]  p == w.of IN
    /\ w.op = "remove" /\ Exists(p)
    /\ memberStatus' = [memberStatus EXCEPT ![p] = "absent"]
    /\ memberRole' = [memberRole EXCEPT ![p] = "admin"]
    /\ hasPassword' = hasPassword \ {p}
    /\ session' = RevokedAll(p, {})
    /\ apiKeyOf' = [k \in ApiKeys |-> IF apiKeyOf[k] = p THEN Nobody ELSE apiKeyOf[k]]
    /\ code' = [t \in Codes |-> IF code[t].of = p THEN NoCode ELSE code[t]]
    /\ staleChange' = (staleChange \/ (w.overtaken /\ TakesAdmin(w)))
    /\ lateGrants' = lateGrants \ {p}
    /\ UNCHANGED <<authCall, bootstrapped, codeUses>>
    /\ GoesOn(q, NoWork)

SessionEnds(s) ==
    /\ session[s] # Nobody
    /\ session' = [session EXCEPT ![s] = Nobody]
    /\ UNCHANGED <<memberRole, memberStatus, hasPassword, apiKeyOf, code, authCall, acting,
                   bootstrapped, histories>>

\* createApiKey(): the check, and the row.
KeyChecked(q, p) ==
    /\ Active(p)
    /\ UNCHANGED <<storedMembers, authCall, histories>>
    /\ GoesOn(q, About("key", p))

KeyIssued(q, k) ==
    LET w == acting[q] IN
    /\ w.op = "key" /\ Exists(w.of) /\ apiKeyOf[k] = Nobody
    /\ apiKeyOf' = [apiKeyOf EXCEPT ![k] = w.of]
    /\ GrantedTo(w)
    /\ UNCHANGED <<memberRole, memberStatus, hasPassword, session, code, authCall,
                   bootstrapped, codeUses, staleChange>>
    /\ GoesOn(q, NoWork)

RevokeApiKey(k) ==
    /\ apiKeyOf[k] # Nobody
    /\ apiKeyOf' = [apiKeyOf EXCEPT ![k] = Nobody]
    /\ UNCHANGED <<memberRole, memberStatus, hasPassword, session, code, authCall, acting,
                   bootstrapped, histories>>

\* The process ends before it writes, the member is not active when issueSession()
\* looks, or the row to write to, or to refer to, is gone.
WorkGivenUp(q) ==
    /\ acting[q] # NoWork
    /\ UNCHANGED <<storedMembers, authCall, histories>>
    /\ GoesOn(q, NoWork)

----------------------------------------------------------------------------
Request(q) ==
    \/ \E p \in People : \/ Invite(q, p) \/ RemoveChecked(q, p) \/ KeyChecked(q, p)
                         \/ \E r \in Roles : CreateMember(q, p, r)
    \/ \E p \in People, r \in {"same"} \cup Roles, s \in {"same", "active", "suspended"} :
         /\ r # "same" \/ s # "same"
         /\ s = "active" => p \in hasPassword
         /\ UpdateChecked(q, p, r, s)

Write(q) ==
    \/ SetupDone(q) \/ UpdateWritten(q) \/ RemoveWritten(q)
    \/ SessionChecked(q) \/ SessionIssued(q) \/ WorkGivenUp(q)
    \/ \E k \in ApiKeys : KeyIssued(q, k)
    \/ \E t \in Codes : CodeIssued(q, t)

TimePasses == (\E s \in Sessions : SessionEnds(s)) \/ \E t \in Codes : CodeExpires(t)

AuthBegins(c) ==
    \/ \E p \in People : SetupBegins(c, p) \/ RecoverBegins(c, p) \/ LoginBegins(c, p)
    \/ \E t \in Codes : RedeemBegins(c, t)
    \/ \E s \in Sessions : ChangeBegins(c, s)

AuthEnds(c, q) ==
    SetupEnds(c, q) \/ RecoverEnds(c, q) \/ RedeemEnds(c, q) \/ LoginEnds(c, q)

\* What leaves no trace of the process that does it.
Served ==
    \/ \E k \in ApiKeys : RevokeApiKey(k)
    \/ \E c \in AuthCalls : AuthBegins(c) \/ ChangeEnds(c) \/ AuthCallFails(c)

MembersNext ==
    \/ \E q \in AppProcesses :
         \/ Ready(q) /\ (Request(q) \/ \E c \in AuthCalls : AuthEnds(c, q))
         \/ Write(q)
    \/ (\E q \in AppProcesses : Ready(q)) /\ Served
    \/ TimePasses

MembersSpec == MembersInit /\ [][MembersNext]_membersVars

----------------------------------------------------------------------------
\* An instance that is set up always has an active administrator: "The last active
\* administrator cannot be changed or removed."
AdminAlwaysRemains == bootstrapped => ActiveAdmins # {}

\* It has one unless some process demoted, suspended or removed a member although another
\* one had changed the members since it counted the administrators, or claimed one although
\* another had set up the instance since it looked: no sequence of demotions, suspensions,
\* removals, setups and recoveries, within a process or in several, needs less than that.
LastAdminRemains == staleChange \/ AdminAlwaysRemains

\* A suspended or removed member holds no live session and no API key, also when a login,
\* a password change or a redeemed code was on its way; but for what was issued to it
\* after another process had changed the members in the middle of the issue.
SuspendedHasNothing ==
    \A p \in People : memberStatus[p] = "absent" \/ (memberStatus[p] = "suspended" /\ p \notin lateGrants) =>
        LiveOf(p) = {} /\ \A k \in ApiKeys : apiKeyOf[k] # p

\* A code stores one password at most, also when two calls redeem it at once, and
\* the one that is open has stored none.
CodesWorkOnce ==
    \A t \in Codes : codeUses[t] <= 1 /\ (Open(t) => codeUses[t] = 0)
============================================================================
