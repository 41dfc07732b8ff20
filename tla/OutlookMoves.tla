----------------------------- MODULE OutlookMoves -----------------------------
(* modify() of the Outlook provider where it guards Trash: the folder of each   *)
(* message is asked for and compared with a snapshot of the folder tree that    *)
(* may be a minute old, all of a call's messages are checked, then all moved.   *)
EXTENDS FiniteSets

CONSTANTS Moved,          \* the messages of one call
          NoMove

Folders == {"inbox", "archive", "trash", "sub"}
MoveActions == Folders \cup {"untrash"}       \* archive, trash, untrash, or move to a folder

VARIABLES place,          \* the folder of each message
          subOf,          \* the folder that holds the folder sub: "root" or "trash"
          snapshot,       \* folderCache: the folders that were in Trash; fresh within its minute
          fresh,
          move,           \* the call under way
          looked, moved,  \* the messages it has checked, and moved
          overtaken,      \* history: somebody else moved a message or a folder meanwhile
          slipped         \* history: a message left Trash by another action than untrash

moveVars == <<place, subOf, snapshot, fresh, move, looked, moved, overtaken, slipped>>

\* trashFolderIds, as the service has it now.
TrashTree == {"trash"} \cup (IF subOf = "trash" THEN {"sub"} ELSE {})

MovesTypeOK ==
    /\ place \in [Moved -> Folders] /\ subOf \in {"root", "trash"}
    /\ snapshot \subseteq Folders /\ fresh \in BOOLEAN
    /\ move \in MoveActions \cup {NoMove} /\ looked \subseteq Moved /\ moved \subseteq Moved
    /\ overtaken \in BOOLEAN /\ slipped \in BOOLEAN

MovesInit ==
    /\ place \in [Moved -> Folders] /\ subOf \in {"root", "trash"}
    /\ snapshot = TrashTree /\ fresh = FALSE
    /\ move = NoMove /\ looked = {} /\ moved = {} /\ overtaken = FALSE /\ slipped = FALSE

(* folderSnapshot(): a call, a listing or a search walks the tree again. *)
WalkFolders ==
    /\ ~fresh /\ snapshot' = TrashTree /\ fresh' = TRUE
    /\ UNCHANGED <<place, subOf, move, looked, moved, overtaken, slipped>>
SnapshotAges ==
    /\ fresh /\ fresh' = FALSE
    /\ UNCHANGED <<place, subOf, snapshot, move, looked, moved, overtaken, slipped>>

Destination(action) == IF action = "untrash" THEN "inbox" ELSE action
\* A move to archive or Trash has an action of its own; a folder within Trash is none to move to.
Allowed(action) == action \in {"archive", "trash", "untrash"} \/ action \notin snapshot
UncheckedArchive(action) == action \in {"inbox", "sub"}
CheckedBefore(action) == action \in {"archive", "inbox", "sub"}
BeginMove(action) ==
    /\ move = NoMove /\ (fresh \/ ~CheckedBefore(action)) /\ Allowed(action)
    /\ move' = action /\ looked' = {} /\ moved' = {} /\ overtaken' = (snapshot # TrashTree)
    /\ UNCHANGED <<place, subOf, snapshot, fresh, slipped>>

(* assertMessagesOutsideTrash() *)
LookAt(m) ==
    /\ move # NoMove /\ CheckedBefore(move) /\ m \notin looked
    /\ IF place[m] \in snapshot THEN move' = NoMove /\ UNCHANGED looked
       ELSE looked' = looked \cup {m} /\ UNCHANGED move
    /\ UNCHANGED <<place, subOf, snapshot, fresh, moved, overtaken, slipped>>

MayMove(m) == CheckedBefore(move) => looked = Moved
(* A message that is gone, or any other error, ends the call with the rest unmoved. *)
MoveOne(m) ==
    /\ move # NoMove /\ m \notin moved /\ MayMove(m)
    /\ place' = [place EXCEPT ![m] = Destination(move)]
    /\ slipped' = (slipped \/ (move # "untrash" /\ place[m] \in TrashTree
                               /\ place'[m] \notin TrashTree /\ ~overtaken))
    /\ moved' = moved \cup {m}
    /\ UNCHANGED <<subOf, snapshot, fresh, move, looked, overtaken>>
EndMove ==
    /\ move # NoMove /\ move' = NoMove
    /\ UNCHANGED <<place, subOf, snapshot, fresh, looked, moved, overtaken, slipped>>

(* Another client of the mailbox. *)
OthersMove(m, folder) ==
    /\ place' = [place EXCEPT ![m] = folder] /\ overtaken' = TRUE
    /\ UNCHANGED <<subOf, snapshot, fresh, move, looked, moved, slipped>>
OthersMoveFolder ==
    /\ subOf' = (IF subOf = "root" THEN "trash" ELSE "root") /\ overtaken' = TRUE
    /\ UNCHANGED <<place, snapshot, fresh, move, looked, moved, slipped>>

MovesNext ==
    \/ WalkFolders \/ SnapshotAges \/ EndMove \/ OthersMoveFolder
    \/ \E action \in MoveActions : BeginMove(action)
    \/ \E m \in Moved : LookAt(m) \/ MoveOne(m)
    \/ \E m \in Moved, folder \in Folders : OthersMove(m, folder)
MovesSpec == MovesInit /\ [][MovesNext]_moveVars

-----------------------------------------------------------------------------
(* Unless somebody else moves a message or a folder during the call, or moved  *)
(* a folder since the snapshot, no action but untrash takes a message out of   *)
(* Trash, be the message in a folder below it.                                 *)
LeavesTrashByUntrash == ~slipped
=============================================================================
