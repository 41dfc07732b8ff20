---------------------------- MODULE ImapMessages ----------------------------
(* The ids of ImapProvider: an id is the hash of the place a message was first *)
(* seen at, a row of imap_messages follows the message from there, and every   *)
(* operation reads the row, waits for the mailbox and acts on the row's UID.   *)
(* The server may renumber a mailbox (a new UIDVALIDITY) at any time.          *)
EXTENDS Naturals, FiniteSets

CONSTANTS Paths,            \* mailboxes, among them the two roles below
          DraftsPath, SentPath,
          ImapCalls,        \* operations of the provider, each called once
          Renumbered,       \* mailboxes whose UIDVALIDITY may change
          LastUid, LastValidity, LastCopy,   \* bounds of the server's counters
          NoRow

ASSUME ImapConstants ==
    /\ IsFiniteSet(Paths) /\ {DraftsPath, SentPath} \subseteq Paths /\ DraftsPath # SentPath
    /\ LastUid \in Nat \ {0} /\ LastValidity \in Nat \ {0} /\ LastCopy \in Nat \ {0}
    /\ Cardinality(Paths) - 1 <= LastCopy

VARIABLES validity, uidNext, held,   \* the server: by mailbox, held[p] maps UIDs to copies
          copies,       \* copies made so far, each with a Message-ID of its own
          origin,       \* history: the message a copy is a version of
          locationRows, \* imap_messages: where the message of an id is, and whether it is a draft
          imapCall,
          denotes,      \* history: the message an id was given out for
          mistaken,     \* history: a message was shown or changed under another's id
          strayed       \* history: a change used a UID of an earlier numbering

imapVars == <<validity, uidNext, held, copies, origin, locationRows, imapCall, denotes,
              mistaken, strayed>>
server == <<validity, uidNext, held, copies, origin>>

Places == [path : Paths, validity : 1..LastValidity, uid : 1..LastUid]
Place(p, uid) == [path |-> p, validity |-> validity[p], uid |-> uid]
At(place, draft) == [place |-> place, draft |-> draft]
NewCall == [at |-> "new", kind |-> "read", id |-> NoRow, row |-> NoRow, target |-> NoRow]

ImapTypeOK ==
    /\ validity \in [Paths -> 1..LastValidity] /\ uidNext \in [Paths -> 1..LastUid + 1]
    /\ \A p \in Paths : DOMAIN held[p] \subseteq 1..uidNext[p] - 1 /\ \A u \in DOMAIN held[p] : held[p][u] \in 1..copies
    /\ copies \in 0..LastCopy /\ origin \in [1..LastCopy -> 0..LastCopy]
    /\ locationRows \in [Places -> [place : Places, draft : BOOLEAN] \cup {NoRow}]
    /\ \A c \in ImapCalls : imapCall[c].at \in {"new", "row", "appended", "sent", "moved", "done"}
    /\ denotes \in [Places -> 0..LastCopy]
    /\ mistaken \in BOOLEAN /\ strayed \in BOOLEAN

(* A message in every mailbox; no id has been given out. *)
ImapInit ==
    /\ validity = [p \in Paths |-> 1]
    /\ uidNext = [p \in Paths |-> IF p = SentPath THEN 1 ELSE 2]
    /\ copies = Cardinality(Paths) - 1 /\ origin = [k \in 1..LastCopy |-> IF k <= copies THEN k ELSE 0]
    /\ \E number \in [Paths \ {SentPath} -> 1..copies] :
          /\ \A p, q \in Paths \ {SentPath} : p # q => number[p] # number[q]
          /\ held = [p \in Paths |-> IF p = SentPath THEN << >> ELSE <<number[p]>>]
    /\ locationRows = [i \in Places |-> NoRow]
    /\ imapCall = [c \in ImapCalls |-> NewCall]
    /\ denotes = [i \in Places |-> 0] /\ mistaken = FALSE /\ strayed = FALSE

-----------------------------------------------------------------------------
(* The rows.                                                                  *)

Invalidated(table, p) ==
    [i \in Places |-> IF table[i] # NoRow /\ table[i].place.path = p /\ table[i].place.validity # validity[p]
                      THEN NoRow ELSE table[i]]
RowsAt(table, place) == {i \in Places : table[i] # NoRow /\ table[i].place = place}
(* toMessage(): the id of the row at the place, else the place's own. *)
IdFor(table, place) == IF RowsAt(table, place) = {} THEN place ELSE CHOOSE i \in RowsAt(table, place) : TRUE
(* save(): the places of two rows differ, or the statement fails. *)
Savable(table, id, place) == RowsAt(table, place) \subseteq {id}

Held(p, uid) == uid \in DOMAIN held[p]
Without(f, uid) == [u \in DOMAIN f \ {uid} |-> f[u]]
With(f, uid, k) == [u \in DOMAIN f \cup {uid} |-> IF u = uid THEN k ELSE f[u]]
Ends(c) == imapCall' = [imapCall EXCEPT ![c] = [NewCall EXCEPT !.at = "done"]]
(* A message given out, or shown and changed, under an id. *)
GivenOut(id, k) ==
    /\ denotes' = IF denotes[id] = 0 THEN [denotes EXCEPT ![id] = origin[k]] ELSE denotes
    /\ mistaken' = (mistaken \/ denotes'[id] # origin[k])

-----------------------------------------------------------------------------
(* A search, or the end of createDraft() and appendSent(), saves the row of a *)
(* message; it has a connection of its own, so it comes between any two steps. *)
FindMessage(p, uid) ==
    /\ Held(p, uid)
    /\ LET table == Invalidated(locationRows, p)
           id == IdFor(table, Place(p, uid))
           draft == IF table[id] = NoRow THEN p = DraftsPath ELSE table[id].draft \/ p = DraftsPath
       IN /\ locationRows' = [table EXCEPT ![id] = At(Place(p, uid), draft)]
          /\ GivenOut(id, held[p][uid])
    /\ UNCHANGED <<server, imapCall, strayed>>

(* Every operation on an id reads its row first. *)
BeginCall(c, kind, id) ==
    /\ imapCall[c] = NewCall /\ locationRows[id] # NoRow
    /\ kind \in {"update", "discard", "send"} => locationRows[id].draft
    /\ imapCall' = [imapCall EXCEPT ![c] = [at |-> "row", kind |-> kind, id |-> id,
                                            row |-> locationRows[id], target |-> NoRow]]
    /\ UNCHANGED <<server, locationRows, denotes, mistaken, strayed>>

Row(c) == imapCall[c].row.place
Acting(c, at, kinds) == imapCall[c].at = at /\ imapCall[c].kind \in kinds
Stale(c) == Row(c).validity # validity[Row(c).path]
(* What the UID of the row names now. *)
Named(c) == held[Row(c).path][Row(c).uid]
There(c) == Held(Row(c).path, Row(c).uid)
Touches(c) == mistaken' = (mistaken \/ origin[Named(c)] # denotes[imapCall[c].id])

(* fetchLocation() and getAttachment() compare the numbering. *)
StillThereUnchecked(c) == There(c)
StillThere(c) == There(c) /\ ~Stale(c)
ReadMessage(c) ==
    /\ Acting(c, "row", {"read"})
    /\ LET table == Invalidated(locationRows, Row(c).path)
           id == IdFor(table, Row(c))
       IN IF StillThere(c)
          THEN /\ GivenOut(id, Named(c))
               /\ locationRows' = [table EXCEPT ![id] = At(Row(c), imapCall[c].row.draft)]
          ELSE locationRows' = table /\ UNCHANGED <<denotes, mistaken>>
    /\ Ends(c) /\ UNCHANGED <<server, strayed>>

(* modify() with a flag, delete and deleteDraft() act on the UID as it is; so  *)
(* does send() for a draft that has no folder for sent mail to go to.          *)
ChangeFlags(c) ==
    /\ Acting(c, "row", {"flag"})
    /\ locationRows' = Invalidated(locationRows, Row(c).path)
    /\ IF There(c) THEN Touches(c) ELSE UNCHANGED mistaken
    /\ strayed' = (strayed \/ Stale(c))
    /\ Ends(c) /\ UNCHANGED <<server, denotes>>
DeleteMessage(c) ==
    /\ Acting(c, "row", {"delete", "discard"}) \/ Acting(c, "sent", {"send"})
    /\ IF There(c) THEN Touches(c) ELSE UNCHANGED mistaken
    /\ held' = [held EXCEPT ![Row(c).path] = Without(@, Row(c).uid)]
    /\ locationRows' = [Invalidated(locationRows, Row(c).path) EXCEPT ![imapCall[c].id] = NoRow]
    /\ strayed' = (strayed \/ Stale(c))
    /\ Ends(c) /\ UNCHANGED <<validity, uidNext, copies, origin, denotes>>

(* archive, trash, untrash and move; a draft that was sent goes to Sent. *)
MoveMessage(c, p) ==
    /\ Acting(c, "row", {"move"}) \/ (Acting(c, "sent", {"send"}) /\ p = SentPath)
    /\ p # Row(c).path /\ uidNext[p] <= LastUid
    /\ IF There(c)
       THEN /\ Touches(c)
            /\ held' = [held EXCEPT ![Row(c).path] = Without(@, Row(c).uid), ![p] = With(@, uidNext[p], Named(c))]
            /\ uidNext' = [uidNext EXCEPT ![p] = @ + 1]
            /\ imapCall' = [imapCall EXCEPT ![c].at = "moved", ![c].target = Place(p, uidNext[p])]
       ELSE Ends(c) /\ UNCHANGED <<held, uidNext, mistaken>>
    /\ LET table == Invalidated(locationRows, Row(c).path)
       IN \/ locationRows' = table
          \/ ~There(c) /\ imapCall[c].kind = "move" /\ locationRows' = [table EXCEPT ![imapCall[c].id] = NoRow]
    /\ strayed' = (strayed \/ Stale(c))
    /\ UNCHANGED <<validity, copies, origin, denotes>>
(* With a map of UIDs the row follows; without one modify() forgets it. *)
RecordMove(c) ==
    /\ imapCall[c].at = "moved"
    /\ LET id == imapCall[c].id
           followed == [locationRows EXCEPT ![id] = At(imapCall[c].target,
                                                       imapCall[c].kind = "move" /\ imapCall[c].row.draft)]
       IN \/ Savable(locationRows, id, imapCall[c].target) /\ locationRows' = followed
          \/ imapCall[c].kind = "move" /\ locationRows' = [locationRows EXCEPT ![id] = NoRow]
    /\ Ends(c) /\ UNCHANGED <<server, denotes, mistaken, strayed>>

(* updateDraft(): the replacement takes the id over, then the old copy goes. *)
(* The row the old copy is read through, when the sender is kept, is that of  *)
(* FindMessage.                                                               *)
AppendReplacement(c) ==
    /\ Acting(c, "row", {"update"})
    /\ copies < LastCopy /\ uidNext[DraftsPath] <= LastUid
    /\ copies' = copies + 1 /\ origin' = [origin EXCEPT ![copies'] = denotes[imapCall[c].id]]
    /\ held' = [held EXCEPT ![DraftsPath] = With(@, uidNext[DraftsPath], copies')]
    /\ uidNext' = [uidNext EXCEPT ![DraftsPath] = @ + 1]
    /\ imapCall' = [imapCall EXCEPT ![c].at = "appended", ![c].target = Place(DraftsPath, uidNext[DraftsPath])]
    /\ UNCHANGED <<validity, locationRows, denotes, mistaken, strayed>>
TakeOver(c) ==
    /\ imapCall[c].at = "appended"
    /\ IF Savable(locationRows, imapCall[c].id, imapCall[c].target)
       THEN /\ locationRows' = [locationRows EXCEPT ![imapCall[c].id] = At(imapCall[c].target, TRUE)]
            /\ imapCall' = [imapCall EXCEPT ![c].at = "row", ![c].kind = "replaced"]
       ELSE Ends(c) /\ UNCHANGED locationRows
    /\ UNCHANGED <<server, denotes, mistaken, strayed>>
DropOldCopy(c) ==
    /\ Acting(c, "row", {"replaced"})
    /\ IF There(c) THEN Touches(c) ELSE UNCHANGED mistaken
    /\ held' = [held EXCEPT ![Row(c).path] = Without(@, Row(c).uid)]
    /\ locationRows' = Invalidated(locationRows, Row(c).path)
    /\ strayed' = (strayed \/ Stale(c))
    /\ Ends(c) /\ UNCHANGED <<validity, uidNext, copies, origin, denotes>>

(* send() of a draft takes whatever the UID names; SMTP comes next. *)
DeliverDraft(c) ==
    /\ Acting(c, "row", {"send"}) /\ There(c)
    /\ Touches(c) /\ locationRows' = Invalidated(locationRows, Row(c).path)
    /\ imapCall' = [imapCall EXCEPT ![c].at = "sent"]
    /\ strayed' = (strayed \/ Stale(c))
    /\ UNCHANGED <<server, denotes>>

(* A connection breaks, or the server refuses: the rows stay as they are. *)
CallFails(c) ==
    /\ imapCall[c].at \notin {"new", "done"}
    /\ Ends(c) /\ UNCHANGED <<server, locationRows, denotes, mistaken, strayed>>
(* createDraft() and the copy in Sent: append, then the row of the place. *)
AppendMessage(p) ==
    /\ p \in {DraftsPath, SentPath} /\ copies < LastCopy /\ uidNext[p] <= LastUid
    /\ copies' = copies + 1 /\ origin' = [origin EXCEPT ![copies'] = copies']
    /\ held' = [held EXCEPT ![p] = With(@, uidNext[p], copies')]
    /\ uidNext' = [uidNext EXCEPT ![p] = @ + 1]
    /\ UNCHANGED <<validity, locationRows, imapCall, denotes, mistaken, strayed>>
(* The server numbers a mailbox anew. *)
Renumber(p) ==
    /\ p \in Renumbered /\ validity[p] < LastValidity
    /\ validity' = [validity EXCEPT ![p] = @ + 1]
    /\ \E order \in [1..Cardinality(DOMAIN held[p]) -> {held[p][u] : u \in DOMAIN held[p]}] :
          /\ \A u \in DOMAIN held[p] : \E i \in DOMAIN order : order[i] = held[p][u]
          /\ held' = [held EXCEPT ![p] = order]
          /\ uidNext' = [uidNext EXCEPT ![p] = Cardinality(DOMAIN held[p]) + 1]
    /\ UNCHANGED <<copies, origin, locationRows, imapCall, denotes, mistaken, strayed>>

ImapNext ==
    \/ \E p \in Paths :
          \/ Renumber(p) \/ AppendMessage(p)
          \/ \E uid \in DOMAIN held[p] : FindMessage(p, uid)
    \/ \E c \in ImapCalls :
          \/ \E id \in Places, kind \in {"read", "flag", "delete", "discard", "move", "update", "send"} :
                BeginCall(c, kind, id)
          \/ ReadMessage(c) \/ ChangeFlags(c) \/ DeleteMessage(c) \/ RecordMove(c)
          \/ AppendReplacement(c) \/ TakeOver(c) \/ DropOldCopy(c) \/ DeliverDraft(c) \/ CallFails(c)
          \/ \E p \in Paths : MoveMessage(c, p)

ImapSpec == ImapInit /\ [][ImapNext]_imapVars

-----------------------------------------------------------------------------
(* Whatever moves, is replaced, removed or renumbered, an id shows and        *)
(* changes one message only; the exception the code leaves open is a change   *)
(* that used a UID of an earlier numbering.                                   *)
IdsKeepTheirMessage ==
    mistaken => strayed
=============================================================================
