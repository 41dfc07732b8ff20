--------------------------- MODULE LoginAttempts ---------------------------
(***************************************************************************)
(* The limits on password logins of src/packages/server/src/auth.ts: an    *)
(* attempt is reserved under the email and under the client's address      *)
(* before the password is checked; a login that succeeds gives its         *)
(* reservations back after the await.                                      *)
(***************************************************************************)
EXTENDS Naturals, FiniteSets

CONSTANTS Emails, Address,   \* logins come from one address
          Logins, NoAttemptRow,
          EmailLimit, AddressLimit, Window,
          LastMinute         \* bound on the clock

ASSUME LoginConstants ==
    /\ Address \notin Emails /\ NoAttemptRow \notin Nat
    /\ {EmailLimit, AddressLimit, Window, LastMinute} \subseteq Nat
    /\ Window # 0 /\ IsFiniteSet(Logins)

VARIABLES attempts,   \* auth_rate_limits: attempts and start of the window
          login,      \* where each login is, and the window it reserved in
          minute

loginVars == <<attempts, login, minute>>

RateKeys == Emails \cup {Address}
AttemptRow(n, start) == [attempts |-> n, start |-> start]
Absent == AttemptRow(0, NoAttemptRow)

LoginTypeOK ==
    /\ DOMAIN attempts = RateKeys
    /\ \A k \in RateKeys :
         attempts[k] \in [attempts : 0..(IF k = Address THEN AddressLimit ELSE EmailLimit),
                         start : Nat \cup {NoAttemptRow}]
    /\ login \in [Logins -> [at : {"idle", "checking", "failed", "succeeded", "refused"},
                             email : Emails, window : Nat \cup {NoAttemptRow}]]
    /\ minute \in 0..LastMinute

LoginInit ==
    /\ attempts = [k \in RateKeys |-> Absent]
    /\ login \in [Logins -> [at : {"idle"}, email : Emails, window : {NoAttemptRow}]]
    /\ minute = 0

----------------------------------------------------------------------------
\* The rows once those of ended windows are deleted.
Fresh ==
    [k \in RateKeys |-> IF attempts[k] # Absent /\ attempts[k].start + Window <= minute
                        THEN Absent ELSE attempts[k]]

Reserve(row) ==
    IF row = Absent THEN AttemptRow(1, minute) ELSE AttemptRow(row.attempts + 1, row.start)

LoginBegin(l) ==
    LET e == login[l].email IN
    /\ login[l].at = "idle"
    /\ IF Fresh[e].attempts >= EmailLimit \/ Fresh[Address].attempts >= AddressLimit
       THEN attempts' = Fresh /\ login' = [login EXCEPT ![l].at = "refused"]
       ELSE /\ attempts' = [Fresh EXCEPT ![e] = Reserve(@), ![Address] = Reserve(@)]
            /\ login' = [login EXCEPT ![l].at = "checking",
                                      ![l].window = Reserve(Fresh[Address]).start]
    /\ UNCHANGED minute

\* The password is wrong, or the member is not active: the reservations stay.
LoginFails(l) ==
    /\ login[l].at = "checking"
    /\ login' = [login EXCEPT ![l].at = "failed"]
    /\ UNCHANGED <<attempts, minute>>

\* Mutant: the attempt is given back to whatever window is open now.
ReleaseAny(row, window) ==
    IF row = Absent THEN row ELSE IF row.attempts <= 1 THEN Absent ELSE AttemptRow(row.attempts - 1, row.start)

\* releaseLoginAttempt(): only in the window it was reserved in.
ReleaseAttempt(row, window) ==
    IF row.start # window THEN row
    ELSE IF row.attempts <= 1 THEN Absent ELSE AttemptRow(row.attempts - 1, row.start)

LoginSucceeds(l) ==
    /\ login[l].at = "checking"
    /\ login' = [login EXCEPT ![l].at = "succeeded"]
    /\ attempts' = [attempts EXCEPT ![login[l].email] = Absent,
                                    ![Address] = ReleaseAttempt(@, login[l].window)]
    /\ UNCHANGED minute

MinutePasses ==
    /\ minute < LastMinute
    /\ minute' = minute + 1
    /\ UNCHANGED <<attempts, login>>

LoginNext ==
    \/ \E l \in Logins : LoginBegin(l) \/ LoginFails(l) \/ LoginSucceeds(l)
    \/ MinutePasses

LoginSpec == LoginInit /\ [][LoginNext]_loginVars

----------------------------------------------------------------------------
\* The attempts counted for an address are exactly those of its open window that
\* failed or are still being checked, and they stay within the limit: a login
\* that ends late takes nothing from a later window, and none is counted twice.
AttemptsCounted ==
    /\ attempts[Address].attempts <= AddressLimit
    /\ attempts[Address] # Absent =>
         attempts[Address].attempts =
            Cardinality({l \in Logins : /\ login[l].at \in {"checking", "failed"}
                                        /\ login[l].window = attempts[Address].start})
============================================================================
