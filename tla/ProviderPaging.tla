--------------------------- MODULE ProviderPaging ---------------------------
(* listMessages() of the Gmail and Outlook providers: the service hands out    *)
(* candidates in batches, a filter runs here, and a page that ends within a    *)
(* batch leaves the rest to its token: Gmail by id, Outlook by an offset into  *)
(* the batch, which is fetched again.                                          *)
EXTENDS Naturals, Sequences, FiniteSets, SequencesExt, Ordering

CONSTANTS Candidates,       \* ids the service's search finds, 1..n, newest first
          Wanted,           \* those the local filter keeps
          BatchSize, ResultLimit, InspectLimit, Turns,
          NoPageToken

\* pending: ids of Gmail's token. after, offset: Outlook's; after alone: the service's own.
Position(pending, after, offset) == [pending |-> pending, after |-> after, offset |-> offset]
Positions == [pending : Seq(Candidates), after : Candidates \cup {0}, offset : Nat]

ASSUME ProviderPagingConstants ==
    /\ IsFiniteSet(Candidates) /\ Candidates = 1..Cardinality(Candidates) /\ Wanted \subseteq Candidates
    /\ NoPageToken \notin Positions
    /\ \A n \in {BatchSize, ResultLimit, InspectLimit, Turns} : n \in Nat \ {0}

VARIABLES style,            \* whose loop
          remaining,        \* candidates that are still in the mailbox
          pageToken,        \* where the next page begins
          loop,             \* the page under way
          turn,
          inspectedTimes,   \* history: how often each candidate was looked at
          counted,          \* history: the batch the token's offset was counted in
          shifted,          \* history: another batch was found under an offset
          finished

candidateVars == <<style, remaining, pageToken, loop, turn, inspectedTimes, counted, shifted, finished>>

\* A batch of the service: what follows the id it continues after.
Batch(after) ==
    LET following == {id \in remaining : id > after}
    IN SubSeq(InOrder(following), 1, IF Cardinality(following) < BatchSize THEN Cardinality(following)
                                     ELSE BatchSize)
Beyond(batch) == batch # << >> /\ \E id \in remaining : id > Last(batch)
NoLoop == [on |-> FALSE, ids |-> << >>, from |-> Position(<< >>, 0, 0), more |-> FALSE, done |-> 0,
           items |-> 0, inspected |-> 0]

ProviderPagingTypeOK ==
    /\ style \in {"gmail", "outlook"} /\ remaining \subseteq Candidates
    /\ pageToken = NoPageToken \/ pageToken.after \in Candidates \cup {0}
    /\ loop.done \in 0..BatchSize /\ loop.items \in 0..ResultLimit /\ loop.inspected \in 0..InspectLimit
    /\ turn \in 0..Turns /\ inspectedTimes \in [Candidates -> Nat]
    /\ counted \in Seq(Candidates) /\ shifted \in BOOLEAN /\ finished \in BOOLEAN

ProviderPagingInit ==
    /\ style \in {"gmail", "outlook"} /\ remaining = Candidates
    /\ pageToken = Position(<< >>, 0, 0) /\ loop = NoLoop /\ turn = 0
    /\ inspectedTimes = [id \in Candidates |-> 0] /\ counted = << >> /\ shifted = FALSE /\ finished = FALSE

Load(from, items, inspected) ==
    LET batch == Batch(from.after)
        ids == IF from.pending # << >> THEN from.pending ELSE batch
    IN [on |-> TRUE, ids |-> ids, from |-> from,
        more |-> IF from.pending # << >> THEN \E id \in remaining : id > from.after ELSE Beyond(batch),
        done |-> from.offset, items |-> items, inspected |-> inspected]

FetchFirst ==
    /\ ~finished /\ ~loop.on /\ pageToken # NoPageToken /\ turn < Turns
    /\ turn' = turn + 1
    /\ IF pageToken.offset > Len(Batch(pageToken.after))
       THEN finished' = TRUE /\ UNCHANGED loop
       ELSE loop' = Load(pageToken, 0, 0) /\ UNCHANGED finished
    /\ shifted' = (shifted \/ (pageToken.offset > 0 /\ Batch(pageToken.after) # counted))
    /\ UNCHANGED <<style, remaining, pageToken, inspectedTimes, counted>>
\* The batch after this one.
EdgeOf(page) == IF page.from.pending # << >> \/ page.ids = << >> THEN page.from.after ELSE Last(page.ids)
Onwards == Position(<< >>, EdgeOf(loop), 0)
FetchNext ==
    /\ loop.on /\ loop.done = Len(loop.ids) /\ loop.more
    /\ loop.items < ResultLimit /\ loop.inspected < InspectLimit
    /\ loop' = Load(Onwards, loop.items, loop.inspected)
    /\ UNCHANGED <<style, remaining, pageToken, turn, inspectedTimes, counted, shifted, finished>>

(* A candidate that is gone by now is passed over. *)
InspectCandidate ==
    /\ loop.on /\ loop.done < Len(loop.ids)
    /\ loop.items < ResultLimit /\ loop.inspected < InspectLimit
    /\ LET id == loop.ids[loop.done + 1]
       IN /\ loop' = [loop EXCEPT !.done = @ + 1, !.inspected = @ + 1,
                                  !.items = @ + (IF id \in Wanted \cap remaining THEN 1 ELSE 0)]
          /\ inspectedTimes' = [inspectedTimes EXCEPT ![id] = @ + 1]
    /\ UNCHANGED <<style, remaining, pageToken, turn, counted, shifted, finished>>

Rest == SubSeq(loop.ids, loop.done + 1, Len(loop.ids))
GmailTokenForgetful == IF Rest # << >> \/ loop.more THEN Onwards ELSE NoPageToken
GmailToken ==
    IF Rest = << >> /\ ~loop.more THEN NoPageToken ELSE [Onwards EXCEPT !.pending = Rest]
OutlookToken ==
    IF Rest # << >> THEN [loop.from EXCEPT !.offset = loop.done]
    ELSE IF loop.more THEN Onwards ELSE NoPageToken

(* A full page, a limit, the soft deadline before a candidate, or the end. *)
EndPage ==
    /\ loop.on
    /\ loop.done < Len(loop.ids) \/ loop.items = ResultLimit \/ loop.inspected = InspectLimit \/ ~loop.more
    /\ pageToken' = IF style = "gmail" THEN GmailToken ELSE OutlookToken
    /\ finished' = (pageToken' = NoPageToken)
    /\ counted' = loop.ids /\ loop' = NoLoop
    /\ UNCHANGED <<style, remaining, turn, inspectedTimes, shifted>>

CandidateLeaves(id) ==
    /\ id \in remaining /\ ~finished
    /\ remaining' = remaining \ {id}
    /\ UNCHANGED <<style, pageToken, loop, turn, inspectedTimes, counted, shifted, finished>>

ProviderPagingNext ==
    \/ FetchFirst \/ FetchNext \/ InspectCandidate \/ EndPage
    \/ \E id \in Candidates : CandidateLeaves(id)
ProviderPagingSpec == ProviderPagingInit /\ [][ProviderPagingNext]_candidateVars

-----------------------------------------------------------------------------
(* When the pages say they are exhausted, every candidate that is still there *)
(* was looked at, once, wherever pages were cut and whatever left meanwhile;   *)
(* Outlook's offset is the exception when its own batch lost a message.        *)
CandidatesSeenOnce ==
    finished /\ ~shifted => \A id \in remaining : inspectedTimes[id] = 1

-----------------------------------------------------------------------------
(* How the tokens keep that promise.                                          *)
Rising(ids) == ids \in Seq(Candidates) /\ \A j, k \in DOMAIN ids : j < k => ids[j] < ids[k]

Loops == [on : BOOLEAN, ids : Seq(Candidates), from : Positions, more : BOOLEAN,
          done : Nat, items : Nat, inspected : Nat]

\* What a page or a token has loaded and not yet looked at, and where the rest begins.
Loaded == IF loop.on THEN loop.ids ELSE IF pageToken.offset > 0 THEN counted ELSE pageToken.pending
LookedAt == IF loop.on THEN loop.done ELSE pageToken.offset
Edge == IF loop.on THEN EdgeOf(loop)
        ELSE IF pageToken.offset > 0 THEN Last(counted) ELSE pageToken.after
Waiting(id) == id > Edge \/ \E k \in DOMAIN Loaded : k > LookedAt /\ Loaded[k] = id

PositionState ==
    /\ style \in {"gmail", "outlook"} /\ remaining \subseteq Candidates
    /\ inspectedTimes \in [Candidates -> Nat] /\ shifted \in BOOLEAN /\ finished \in BOOLEAN
    /\ loop \in Loops /\ (~loop.on => loop = NoLoop)
    /\ finished => ~loop.on
    /\ ~finished => /\ pageToken \in Positions
                    /\ style = "gmail" => pageToken.offset = 0
                    /\ style = "outlook" => pageToken.pending = << >>

\* A list goes on at its edge, Gmail's without an offset and Outlook's without ids.
LoadedInOrder ==
    ~finished =>
        /\ Rising(Loaded) /\ LookedAt \in 0..Len(Loaded) /\ Edge \in Candidates \cup {0}
        /\ \A k \in DOMAIN Loaded : Loaded[k] <= Edge
\* A batch holds all that is left between where it begins and where it ends.
BatchIsWhole ==
    loop.on =>
        /\ style = "gmail" => loop.from.offset = 0
        /\ style = "outlook" => loop.from.pending = << >>
        /\ loop.from.pending = << >> =>
               \A id \in remaining : id > loop.from.after /\ id <= Edge => \E k \in DOMAIN loop.ids : loop.ids[k] = id
        /\ loop.from.pending = << >> => \A k \in DOMAIN loop.ids : loop.ids[k] > loop.from.after
        /\ ~loop.more => \A id \in remaining : id <= Edge
(* What waits was not looked at; the rest of what is still there was, once. *)
WaitingOrSeen ==
    ~finished /\ ~shifted =>
        \A id \in remaining : inspectedTimes[id] = IF Waiting(id) THEN 0 ELSE 1

CandidatesInv == PositionState /\ LoadedInOrder /\ BatchIsWhole /\ WaitingOrSeen /\ CandidatesSeenOnce
=============================================================================
