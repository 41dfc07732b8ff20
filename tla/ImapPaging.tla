----------------------------- MODULE ImapPaging -----------------------------
(* listMessages() of ImapProvider: a search goes through the mailboxes of a    *)
(* listing, each from its highest UID down, and stops at a full page or at one *)
(* of its limits with a token that says where; meanwhile messages come and go. *)
EXTENDS Naturals, Sequences, FiniteSets, FiniteSetsExt, Ordering

CONSTANTS Listings,         \* what the server may list: sequences of mailboxes
          Override,         \* folderOverrides: by role a mailbox, or 0
          TopUid,           \* bound on UIDs
          PageLimit, ScanLimit, FolderLimit, PageTurns,
          NoCursor

Box == [use : {"none", "trash", "spam", "all"}, name : {"none", "trash", "spam"},
        under : Nat, selectable : BOOLEAN]
ASSUME PagingConstants ==
    /\ \A l \in Listings : l \in Seq(Box)
    /\ \A limit \in {TopUid, PageLimit, ScanLimit, FolderLimit, PageTurns} : limit \in Nat \ {0}
    /\ DOMAIN Override = {"trash", "spam"}

VARIABLES listing,
          matching,     \* UIDs of each mailbox that the search matches now
          renumbered,   \* mailboxes renumbered since the search began
          cursor, reading, \* the token at hand, and the page being read
          pageTurn,
          answered, stayed, \* history: what pages held, what matched all along
          pageOutcome

pagingVars == <<listing, matching, renumbered, cursor, reading, pageTurn, answered, stayed, pageOutcome>>
Idx == DOMAIN listing

-----------------------------------------------------------------------------
(* resolveFolders().                                                          *)
Selectable(l) == {i \in DOMAIN l : l[i].selectable}
Only(S) == IF Cardinality(S) = 1 THEN CHOOSE i \in S : TRUE ELSE 0
RolePath(l, role) ==
    LET used == {i \in Selectable(l) : l[i].use = role}
        named == {i \in Selectable(l) : l[i].name = role}
    IN IF Override[role] # 0 THEN Only(Selectable(l) \cap {Override[role]})
       ELSE IF used # {} THEN Only(used) ELSE Only(named)
Excluded(l) == {RolePath(l, "trash"), RolePath(l, "spam")} \ {0}
AllMail(l) ==
    LET all == {i \in Selectable(l) : l[i].use = "all"}
    IN IF all # {} THEN {Min(all)}
       ELSE {i \in Selectable(l) : {i, l[i].under} \cap Excluded(l) = {}}
PathsOf(l) == InOrder(AllMail(l))

-----------------------------------------------------------------------------
Start == [at |-> 1, upper |-> 0, over |-> listing]
ImapCursor(position, upper) == [at |-> position, upper |-> upper, over |-> listing]
NoReading == [at |-> 0, todo |-> {}, entered |-> FALSE, items |-> 0, inspected |-> 0, scanned |-> 0]

PagingTypeOK ==
    /\ listing \in Listings /\ matching \in [Idx -> SUBSET (1..TopUid)]
    /\ renumbered \subseteq Idx /\ pageTurn \in 0..PageTurns
    /\ cursor = NoCursor \/ (cursor.at \in 1..Len(PathsOf(cursor.over)) + 1 /\ cursor.upper \in 0..TopUid)
    /\ reading.todo \subseteq 1..TopUid /\ reading.items \in 0..PageLimit
    /\ reading.inspected \in 0..ScanLimit /\ reading.scanned \in 0..FolderLimit
    /\ answered \in [Idx -> [1..TopUid -> Nat]] /\ stayed \in [Idx -> SUBSET (1..TopUid)]
    /\ pageOutcome \in {"searching", "exhausted", "refused"}

PagingInit ==
    /\ listing \in Listings
    /\ matching \in [Idx -> {1..TopUid, 1..TopUid - 1}]
    /\ renumbered = {} /\ cursor = Start /\ reading = NoReading /\ pageTurn = 0
    /\ answered = [i \in Idx |-> [u \in 1..TopUid |-> 0]]
    /\ stayed = matching /\ pageOutcome = "searching"

Path(position) == PathsOf(listing)[position]

(* A token belongs to its query and to the paths it was made for. *)
BeginPage ==
    /\ pageOutcome = "searching" /\ reading = NoReading /\ cursor # NoCursor /\ pageTurn < PageTurns
    /\ pageTurn' = pageTurn + 1
    /\ IF PathsOf(cursor.over) # PathsOf(listing)
       THEN pageOutcome' = "refused" /\ UNCHANGED reading
       ELSE reading' = [NoReading EXCEPT !.at = cursor.at] /\ UNCHANGED pageOutcome
    /\ UNCHANGED <<listing, matching, renumbered, cursor, answered, stayed>>

PageEnds(token) == cursor' = token /\ reading' = NoReading
(* The next mailbox is not begun: the deadline passed, or ten were scanned. *)
StopBeforeFolder ==
    /\ reading # NoReading /\ ~reading.entered /\ reading.at <= Len(PathsOf(listing))
    /\ PageEnds(IF reading.at = cursor.at THEN cursor ELSE ImapCursor(reading.at, 0))
    /\ UNCHANGED <<listing, matching, renumbered, pageTurn, answered, stayed, pageOutcome>>
RemainingBelow(uids, upper) == {u \in uids : upper = 0 \/ u < upper}
Remaining(uids, upper) == {u \in uids : upper = 0 \/ u <= upper}
EnterFolder ==
    /\ reading # NoReading /\ ~reading.entered /\ reading.at <= Len(PathsOf(listing))
    /\ reading.scanned < FolderLimit
    /\ LET resumed == reading.at = cursor.at
       IN IF resumed /\ cursor.upper # 0 /\ Path(reading.at) \in renumbered
          THEN pageOutcome' = "refused" /\ reading' = NoReading
          ELSE /\ reading' = [reading EXCEPT !.entered = TRUE, !.todo =
                                 Remaining(matching[Path(reading.at)], IF resumed THEN cursor.upper ELSE 0)]
               /\ UNCHANGED pageOutcome
    /\ UNCHANGED <<listing, matching, renumbered, cursor, pageTurn, answered, stayed>>

(* The highest of the UIDs found; it may be gone by now. *)
Inspect ==
    /\ reading.todo # {} /\ reading.inspected < ScanLimit
    /\ LET i == Path(reading.at)
           uid == Max(reading.todo)
           seen == [reading EXCEPT !.todo = @ \ {uid}, !.inspected = @ + 1]
       IN IF uid \notin matching[i] THEN reading' = seen /\ UNCHANGED <<cursor, answered>>
          ELSE IF reading.items = PageLimit
               THEN PageEnds(ImapCursor(reading.at, uid)) /\ UNCHANGED answered
          ELSE /\ reading' = [seen EXCEPT !.items = @ + 1]
               /\ answered' = [answered EXCEPT ![i][uid] = @ + 1] /\ UNCHANGED cursor
    /\ UNCHANGED <<listing, matching, renumbered, pageTurn, stayed, pageOutcome>>
(* The scan limit or the deadline, inside a mailbox. *)
StopInFolder ==
    /\ reading.todo # {}
    /\ PageEnds(ImapCursor(reading.at, Max(reading.todo)))
    /\ UNCHANGED <<listing, matching, renumbered, pageTurn, answered, stayed, pageOutcome>>
LeaveFolder ==
    /\ reading.entered /\ reading.todo = {}
    /\ reading' = [reading EXCEPT !.entered = FALSE, !.at = @ + 1, !.scanned = @ + 1]
    /\ UNCHANGED <<listing, matching, renumbered, cursor, pageTurn, answered, stayed, pageOutcome>>
Exhausted ==
    /\ reading # NoReading /\ ~reading.entered /\ reading.at > Len(PathsOf(listing))
    /\ pageOutcome' = "exhausted" /\ PageEnds(NoCursor)
    /\ UNCHANGED <<listing, matching, renumbered, pageTurn, answered, stayed>>

(* Other clients of the mailbox. *)
MessageLeaves(i, uid) ==
    /\ pageOutcome = "searching" /\ uid \in matching[i]
    /\ matching' = [matching EXCEPT ![i] = @ \ {uid}] /\ stayed' = [stayed EXCEPT ![i] = @ \ {uid}]
    /\ UNCHANGED <<listing, renumbered, cursor, reading, pageTurn, answered, pageOutcome>>
MessageArrives(i) ==
    /\ pageOutcome = "searching" /\ TopUid \notin matching[i] /\ TopUid \notin stayed[i]
    /\ answered[i][TopUid] = 0 /\ matching' = [matching EXCEPT ![i] = @ \cup {TopUid}]
    /\ UNCHANGED <<listing, renumbered, cursor, reading, pageTurn, answered, stayed, pageOutcome>>
RenumberBox(i) ==
    /\ pageOutcome = "searching" /\ i \notin renumbered /\ reading = NoReading
    /\ renumbered' = renumbered \cup {i} /\ stayed' = [stayed EXCEPT ![i] = {}]
    /\ UNCHANGED <<listing, matching, cursor, reading, pageTurn, answered, pageOutcome>>
FoldersChange(l) ==
    /\ pageOutcome = "searching" /\ reading = NoReading /\ DOMAIN l = DOMAIN listing /\ l # listing
    /\ listing' = l
    /\ UNCHANGED <<matching, renumbered, cursor, reading, pageTurn, answered, stayed, pageOutcome>>

PagingNext ==
    \/ BeginPage \/ StopBeforeFolder \/ EnterFolder \/ Inspect \/ StopInFolder \/ LeaveFolder \/ Exhausted
    \/ \E i \in Idx : MessageArrives(i) \/ RenumberBox(i) \/ \E uid \in 1..TopUid : MessageLeaves(i, uid)
    \/ \E l \in Listings : FoldersChange(l)

PagingSpec == PagingInit /\ [][PagingNext]_pagingVars

-----------------------------------------------------------------------------
(* Pages followed to the end show every message that matched from the first   *)
(* page to the last in a mailbox that is neither trash nor spam, nor beneath  *)
(* one, and none twice, wherever the pages were cut.                          *)
PagesMissNothing ==
    pageOutcome = "exhausted" =>
    \A i \in AllMail(listing), u \in 1..TopUid :
        /\ u \in stayed[i] => answered[i][u] = 1
        /\ i \notin renumbered => answered[i][u] <= 1

-----------------------------------------------------------------------------
(* How the pages keep that promise.                                           *)
PagingState ==
    /\ listing \in Listings /\ renumbered \subseteq Idx
    /\ matching \in [Idx -> SUBSET (1..TopUid)] /\ stayed \in [Idx -> SUBSET (1..TopUid)]
    /\ answered \in [Idx -> [1..TopUid -> Nat]]
    /\ \A i \in Idx : stayed[i] \subseteq matching[i]
    /\ \A i \in renumbered : stayed[i] = {}
    /\ reading \in [at : Nat, todo : SUBSET (1..TopUid), entered : BOOLEAN, items : Nat,
                    inspected : Nat, scanned : Nat]
    /\ pageOutcome \in {"searching", "exhausted", "refused"}

\* A page is read with the token it began with, over the mailboxes the token was made for.
PageFollowsToken ==
    /\ pageOutcome = "searching" =>
           /\ cursor.at \in 1..Len(PathsOf(cursor.over)) + 1 /\ cursor.upper \in Nat
           /\ cursor.over \in Listings /\ DOMAIN cursor.over = Idx
    /\ reading # NoReading =>
           /\ pageOutcome = "searching" /\ PathsOf(cursor.over) = PathsOf(listing)
           /\ cursor.at <= reading.at
           /\ reading.at \in 1..Len(PathsOf(listing)) + 1
           /\ IF reading.entered THEN reading.at <= Len(PathsOf(listing)) ELSE reading.todo = {}

\* What this page and those after it have yet to come to, in the order of the mailboxes.
Ahead(k, uid) ==
    IF reading = NoReading \/ (~reading.entered /\ reading.at = cursor.at)
    THEN k > cursor.at \/ (k = cursor.at /\ (cursor.upper = 0 \/ uid <= cursor.upper))
    ELSE k > reading.at \/ (k = reading.at /\ (reading.entered => uid \in reading.todo))

(* What lies ahead was not shown; of the rest, what matched all along was shown once. *)
PassedOnce ==
    pageOutcome = "searching" =>
        LET paths == PathsOf(cursor.over)
        IN \A k \in DOMAIN paths, uid \in 1..TopUid :
               paths[k] \notin renumbered =>
                   IF Ahead(k, uid) THEN answered[paths[k]][uid] = 0
                   ELSE /\ answered[paths[k]][uid] <= 1
                        /\ uid \in stayed[paths[k]] => answered[paths[k]][uid] = 1

(* In a mailbox under way, a UID that is not to be looked at, below one that is, was *)
(* not found when the mailbox was entered: a token that is cut above it repeats nothing. *)
SkippedBelow ==
    pageOutcome = "searching" /\ reading # NoReading /\ reading.entered
        /\ Path(reading.at) \notin renumbered =>
        \A top \in reading.todo, uid \in 1..TopUid \ reading.todo :
            uid < top => answered[Path(reading.at)][uid] = 0 /\ uid \notin stayed[Path(reading.at)]

PagingInv == PagingState /\ PageFollowsToken /\ PassedOnce /\ SkippedBelow /\ PagesMissNothing
=============================================================================
