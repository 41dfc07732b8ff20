---------------------------- MODULE MailboxSearch ----------------------------
(* searchMessagesBatch() and listMessages() of EmailService: a few workers     *)
(* take the mailboxes of one request in order, each page carries a signed      *)
(* token that is bound to its search, and a hard deadline ends the request     *)
(* with an answer for every mailbox.                                           *)
EXTENDS Naturals, FiniteSets

CONSTANTS Boxes,            \* mailboxes of a batch, in the order of the request: 1..n
          Queries,
          SearchWorkers,    \* BATCH_SEARCH_CONCURRENCY
          LastPage,         \* pages a search has in every mailbox
          LastHour,         \* bound on the clock
          NoToken

ASSUME SearchConstants ==
    /\ IsFiniteSet(Boxes) /\ Boxes = 1..Cardinality(Boxes) /\ Queries # {}
    /\ LastPage \in Nat \ {0} /\ LastHour \in Nat

VARIABLES reachable,      \* mailboxes the principal may use
          tokens,         \* page tokens handed out
          batch,          \* the request: its query and a token for each mailbox
          nextIndex,
          searcher,       \* what a worker has asked its provider for
          groups,         \* answers by mailbox
          aborted, hour

searchVars == <<reachable, tokens, batch, nextIndex, searcher, groups, aborted, hour>>

Token(box, query, page, issued) == [box |-> box, query |-> query, page |-> page, issued |-> issued]
Tokens == [box : Boxes, query : Queries, page : 2..LastPage, issued : 0..LastHour]
Idle == [box |-> 0, page |-> 0]
Page(n) == [kind |-> "page", page |-> n]
Failure(code) == [kind |-> code, page |-> 0]
NoBatch == [running |-> FALSE, query |-> CHOOSE q \in Queries : TRUE, from |-> [b \in Boxes |-> NoToken]]

SearchTypeOK ==
    /\ reachable \subseteq Boxes /\ tokens \subseteq Tokens
    /\ batch \in [running : BOOLEAN, query : Queries, from : [Boxes -> Tokens \cup {NoToken}]]
    /\ nextIndex \in 1..Cardinality(Boxes) + 1
    /\ searcher \in [SearchWorkers -> [box : Boxes \cup {0}, page : 0..LastPage]]
    /\ groups \in [Boxes -> [kind : {"none", "page", "not_found", "invalid_token", "failed", "timeout"},
                             page : 0..LastPage]]
    /\ aborted \in BOOLEAN /\ hour \in 0..LastHour

SearchInit ==
    /\ reachable = Boxes /\ tokens = {} /\ batch = NoBatch /\ nextIndex = 1
    /\ searcher = [w \in SearchWorkers |-> Idle]
    /\ groups = [b \in Boxes |-> Failure("none")]
    /\ aborted = FALSE /\ hour = 0

\* A token is good for an hour, for its own mailbox and its own search.
DecodesForAnyBox(token, box, query) == token.query = query /\ hour <= token.issued
Decodes(token, box, query) ==
    token.box = box /\ token.query = query /\ hour <= token.issued

(* A client may hand any token it was given to any request. *)
StartBatch(query, from) ==
    /\ ~batch.running
    /\ batch' = [running |-> TRUE, query |-> query, from |-> from]
    /\ UNCHANGED <<reachable, tokens, nextIndex, searcher, groups, aborted, hour>>

Answered(w, box, answer) ==
    /\ groups' = [groups EXCEPT ![box] = answer]
    /\ searcher' = [searcher EXCEPT ![w] = Idle]

(* A worker takes the next mailbox; after the deadline, out of reach or with a *)
(* token that does not decode it is answered without the provider.             *)
TakeBox(w) ==
    /\ batch.running /\ searcher[w] = Idle /\ nextIndex \in Boxes
    /\ nextIndex' = nextIndex + 1
    /\ LET box == nextIndex
           token == batch.from[box]
       IN IF aborted THEN Answered(w, box, Failure("timeout"))
          ELSE IF box \notin reachable THEN Answered(w, box, Failure("not_found"))
          ELSE IF token # NoToken /\ ~Decodes(token, box, batch.query)
               THEN Answered(w, box, Failure("invalid_token"))
          ELSE /\ searcher' = [searcher EXCEPT ![w] =
                      [box |-> box, page |-> IF token = NoToken THEN 1 ELSE token.page]]
               /\ UNCHANGED groups
    /\ UNCHANGED <<reachable, tokens, batch, aborted, hour>>

PageArrives(w) ==
    /\ searcher[w] # Idle /\ ~aborted
    /\ LET box == searcher[w].box
           page == searcher[w].page
       IN /\ Answered(w, box, Page(page))
          /\ tokens' = IF page = LastPage THEN tokens
                       ELSE tokens \cup {Token(box, batch.query, page + 1, hour)}
    /\ UNCHANGED <<reachable, batch, nextIndex, aborted, hour>>

SearchFails(w) ==
    /\ searcher[w] # Idle
    /\ Answered(w, searcher[w].box, Failure(IF aborted THEN "timeout" ELSE "failed"))
    /\ UNCHANGED <<reachable, tokens, batch, nextIndex, aborted, hour>>

Deadline ==
    /\ batch.running /\ ~aborted
    /\ aborted' = TRUE
    /\ UNCHANGED <<reachable, tokens, batch, nextIndex, searcher, groups, hour>>

(* Promise.all: every worker found nothing left. *)
Complete == batch.running /\ nextIndex \notin Boxes /\ \A w \in SearchWorkers : searcher[w] = Idle
ReturnBatch ==
    /\ Complete
    /\ batch' = NoBatch /\ nextIndex' = 1 /\ aborted' = FALSE
    /\ groups' = [b \in Boxes |-> Failure("none")]
    /\ UNCHANGED <<reachable, tokens, searcher, hour>>

AccessChanges(b) ==
    /\ reachable' = IF b \in reachable THEN reachable \ {b} ELSE reachable \cup {b}
    /\ UNCHANGED <<tokens, batch, nextIndex, searcher, groups, aborted, hour>>
HourPasses ==
    /\ hour < LastHour /\ ~batch.running
    /\ hour' = hour + 1
    /\ UNCHANGED <<reachable, tokens, batch, nextIndex, searcher, groups, aborted>>

SearchNext ==
    \/ \E query \in Queries, from \in [Boxes -> tokens \cup {NoToken}] : StartBatch(query, from)
    \/ \E w \in SearchWorkers : TakeBox(w) \/ PageArrives(w) \/ SearchFails(w)
    \/ Deadline \/ ReturnBatch \/ HourPasses
    \/ \E b \in Boxes : AccessChanges(b)

SearchSpec == SearchInit /\ [][SearchNext]_searchVars

-----------------------------------------------------------------------------
(* A batch that returns has an answer for every mailbox, and a page is the   *)
(* one its own token of this very search continues with, or the first.        *)
BatchAnswersItself ==
    Complete =>
    \A b \in Boxes :
        /\ groups[b].kind # "none"
        /\ groups[b].kind = "page" =>
               LET token == batch.from[b]
               IN IF token = NoToken THEN groups[b].page = 1
                  ELSE token.box = b /\ token.query = batch.query /\ token.page = groups[b].page
=============================================================================
