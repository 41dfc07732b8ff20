------------------------------ MODULE LocalLog ------------------------------
(***************************************************************************)
(* The bounded logger of one process (logging.ts): records are counted     *)
(* against a duplicate window, a rate and a queue, flushed in batches to   *)
(* the console and to the segments that every process of the data          *)
(* directory shares, and summarised when they are left out.                *)
(*                                                                         *)
(* All records have one key and one size.  The segment files are written   *)
(* under .write.lock; the other processes of the directory are one actor   *)
(* that takes the lock, writes, and may die with it.                       *)
(***************************************************************************)
EXTENDS Naturals, Sequences, FiniteSets, Ordering

CONSTANTS
    LogRecords,       \* the records the process asks to log, 1..n in this order
    DuplicateLimit,   \* duplicateLimit: records of one key in a window
    RateBurst,        \* rateBurstBytes, in records
    QueueLimit,       \* maxQueueBytes, in records
    BatchLimit,       \* maxBatchBytes, in records
    SegmentLimit,     \* segmentBytes, in records
    SegmentCount,     \* segmentCount
    ForeignWrites     \* bound: records the other processes append

ASSUME LocalLogAssumption ==
    /\ LogRecords \in Nat \ {0}
    /\ {DuplicateLimit, RateBurst, QueueLimit, BatchLimit, SegmentLimit} \subseteq Nat \ {0}
    /\ BatchLimit <= SegmentLimit
    /\ SegmentCount \in Nat \ {0, 1}
    /\ ForeignWrites \in Nat

VARIABLES
    logged,       \* how many records add() was called with
    duplicate,    \* the window of the key: [emitted, suppressed]
    rateTokens,       \* what is left of the rate
    byRate,       \* suppressedByRate
    byQueue,      \* suppressedByQueue
    backlog,      \* queue: records and summaries with what is pending of each
    segments,     \* fluxmail.jsonl and fluxmail.jsonl.1 ..., the newest first
    offered,      \* the lines that consoleWrite() was called with
    refused,      \* the places, among these, of those it threw on: they are lost
    writeLock,    \* .write.lock: "free", "other" or "dead" (its holder died)
    reclaimLeft,  \* a process died with .write.lock.reclaim
    logStage,     \* "open", "closing" (after the duplicates), "rate", "queue", "closed"
    late          \* history: a record was added while close() was waiting

logVars == <<logged, duplicate, rateTokens, byRate, byQueue, backlog, segments, offered, refused,
             writeLock, reclaimLeft, logStage, late>>

-----------------------------------------------------------------------------
(* Entries: a record has a number, a summary has number 0 and a count. *)

RecordEntry(n)  == [record |-> n, count |-> 0]
SummaryEntry(n) == [record |-> 0, count |-> n]
ForeignEntry    == [record |-> 0, count |-> 0]

QueuedEntry(entry) == [entry |-> entry, filePending |-> TRUE, consolePending |-> TRUE]

(* The state of the counters as one record, so that add() can be composed of its steps. *)
Counters == [tokens |-> rateTokens, byRate |-> byRate, byQueue |-> byQueue, queue |-> backlog]

(* A mutant: a full queue drops a summary without a trace. *)
EnqueueForgetful(c, entry, bypassRate) ==
    IF ~bypassRate /\ c.tokens < 1 THEN [c EXCEPT !.byRate = @ + 1]
    ELSE LET paid == IF bypassRate THEN c ELSE [c EXCEPT !.tokens = @ - 1]
         IN  IF Len(c.queue) + 1 > QueueLimit
             THEN IF bypassRate THEN c ELSE [paid EXCEPT !.byQueue = @ + 1]
             ELSE [paid EXCEPT !.queue = Append(@, QueuedEntry(entry))]

(* enqueue(): a full queue drops a record and remembers that it did; a dropped summary *)
(* is remembered as one record, whatever it counted.                                   *)
Enqueue(c, entry, bypassRate) ==
    IF ~bypassRate /\ c.tokens < 1 THEN [c EXCEPT !.byRate = @ + 1]
    ELSE LET paid == IF bypassRate THEN c ELSE [c EXCEPT !.tokens = @ - 1]
         IN  IF Len(c.queue) + 1 > QueueLimit
             THEN [paid EXCEPT !.byQueue = @ + 1]
             ELSE [paid EXCEPT !.queue = Append(@, QueuedEntry(entry))]

EnqueueSuppression(c, count) ==
    IF count = 0 THEN c ELSE Enqueue(c, SummaryEntry(count), TRUE)

(* duplicateAllowed(): a new window first reports what the last one suppressed. *)
OpenWindow(c) == EnqueueSuppression(c, duplicate.suppressed)

ReportRate(c) ==
    IF c.byRate > 0 /\ c.tokens >= 1
    THEN EnqueueSuppression([c EXCEPT !.byRate = 0], c.byRate)
    ELSE c

ReportQueue(c) ==
    IF c.byQueue > 0 /\ 2 * Len(c.queue) < QueueLimit
    THEN EnqueueSuppression([c EXCEPT !.byQueue = 0], c.byQueue)
    ELSE c

SetCounters(c) ==
    /\ rateTokens' = c.tokens /\ byRate' = c.byRate /\ byQueue' = c.byQueue
    /\ backlog' = c.queue

-----------------------------------------------------------------------------
(* The files. *)

(* appendBatch(): a full segment becomes the next older one, and the oldest is dropped. *)
RotatedSegments(files) == [a \in 1 .. SegmentCount |-> IF a = 1 THEN <<>> ELSE files[a - 1]]

(* A mutant: the size is looked at without what is to be added. *)
AppendedBatchLate(files, batch) ==
    LET kept == IF Len(files[1]) > SegmentLimit THEN RotatedSegments(files) ELSE files
    IN  [kept EXCEPT ![1] = @ \o batch]

AppendedBatch(files, batch) ==
    LET kept == IF Len(files[1]) + Len(batch) > SegmentLimit THEN RotatedSegments(files) ELSE files
    IN  [kept EXCEPT ![1] = @ \o batch]

(* acquireLock(): a lock whose holder is gone is removed, unless a .reclaim file is in the way. *)
LockAvailable ==
    \/ writeLock = "free"
    \/ writeLock = "dead" /\ ~reclaimLeft

BatchLength == IF Len(backlog) < BatchLimit THEN Len(backlog) ELSE BatchLimit

(* The batch with the console served, whether or not it took the lines. *)
ConsoleServed ==
    [i \in DOMAIN backlog |->
        IF i <= BatchLength THEN [backlog[i] EXCEPT !.consolePending = FALSE] ELSE backlog[i]]

(* The lines at these places of the queue, one after the other. *)
Lines(places) ==
    LET order == InOrder(places) IN [k \in DOMAIN order |-> backlog[order[k]].entry]

ConsoleLines == Lines({i \in 1 .. BatchLength : backlog[i].consolePending})
FileItems    == Lines({i \in 1 .. BatchLength : backlog[i].filePending})

(* The items of the batch leave the queue when nothing of them is pending. *)
FileServed ==
    LET served == [i \in DOMAIN backlog |->
                      IF i <= BatchLength THEN [ConsoleServed[i] EXCEPT !.filePending = FALSE]
                                          ELSE backlog[i]]
        order  == InOrder({i \in DOMAIN served : served[i].filePending \/ served[i].consolePending})
    IN  [k \in DOMAIN order |-> served[order[k]]]

FlushWritten ==
    /\ LockAvailable
    /\ segments' = AppendedBatch(segments, FileItems)
    /\ backlog' = FileServed
    /\ writeLock' = "free"

(* The lock is another process's: the file lines of the batch wait for the next flush. *)
FlushBusy ==
    /\ ~LockAvailable
    /\ backlog' = ConsoleServed
    /\ UNCHANGED <<segments, writeLock>>

(* The disk refuses: the lines of the batch are given up, and nothing counts them. *)
FlushFailed ==
    /\ LockAvailable
    /\ backlog' = FileServed
    /\ writeLock' = "free"
    /\ UNCHANGED segments

(* A console that throws loses the lines, and nothing counts them. *)
OfferLines ==
    /\ offered' = offered \o ConsoleLines
    /\ \/ UNCHANGED refused
       \/ ConsoleLines # <<>> /\ refused' = refused \cup (Len(offered) + 1 .. Len(offered'))

-----------------------------------------------------------------------------
LogInit ==
    /\ logged = 0
    /\ duplicate = [emitted |-> 0, suppressed |-> 0]
    /\ rateTokens = RateBurst
    /\ byRate = 0 /\ byQueue = 0
    /\ backlog = <<>>
    /\ segments = [i \in 1 .. SegmentCount |-> <<>>]
    /\ offered = <<>> /\ refused = {}
    /\ writeLock = "free"
    /\ reclaimLeft = FALSE
    /\ logStage = "open"
    /\ late = FALSE

(* add() of the next record while the logger is not closed; `renewed' says that the window *)
(* of its key is over, `refilled' that the rate earned a record since the last call.       *)
AddRecord(renewed, refilled) ==
    LET fresh  == renewed \/ duplicate.emitted = 0
        opened == IF fresh THEN OpenWindow(Counters) ELSE Counters
        filled == [opened EXCEPT !.tokens = IF refilled /\ @ < RateBurst THEN @ + 1 ELSE @]
        said   == ReportQueue(ReportRate(filled))
    IN
    /\ logStage # "closed"
    /\ logged < LogRecords
    /\ logged' = logged + 1
    /\ \/ /\ fresh \/ duplicate.emitted < DuplicateLimit
          /\ duplicate' = IF fresh THEN [emitted |-> 1, suppressed |-> 0]
                                   ELSE [duplicate EXCEPT !.emitted = @ + 1]
          /\ SetCounters(Enqueue(said, RecordEntry(logged + 1), FALSE))
       \/ /\ ~fresh /\ duplicate.emitted >= DuplicateLimit
          /\ duplicate' = [duplicate EXCEPT !.suppressed = @ + 1]
          /\ UNCHANGED <<rateTokens, byRate, byQueue, backlog>>
    /\ late' = (late \/ logStage # "open")
    /\ UNCHANGED <<segments, offered, refused, writeLock, reclaimLeft, logStage>>

(* flush(): by the timer, or by the loop of close(). *)
Flush ==
    /\ logStage # "closed"
    /\ backlog # <<>>
    /\ OfferLines
    /\ FlushWritten \/ FlushBusy \/ FlushFailed
    /\ UNCHANGED <<logged, duplicate, rateTokens, byRate, byQueue, reclaimLeft, logStage, late>>

(* close() begins by reporting the suppressed duplicates; the map keeps its counts. *)
BeginClose ==
    /\ logStage = "open"
    /\ SetCounters(EnqueueSuppression(Counters, duplicate.suppressed))
    /\ logStage' = "closing"
    /\ UNCHANGED <<logged, duplicate, segments, offered, refused, writeLock, reclaimLeft, late>>

(* The queue is empty: the rate's count, then the queue's, gets its summary and is flushed. *)
CloseRate ==
    /\ logStage = "closing" /\ backlog = <<>>
    /\ SetCounters(EnqueueSuppression([Counters EXCEPT !.byRate = 0], byRate))
    /\ logStage' = "rate"
    /\ UNCHANGED <<logged, duplicate, segments, offered, refused, writeLock, reclaimLeft, late>>

CloseQueue ==
    /\ logStage = "rate" /\ backlog = <<>>
    /\ SetCounters(EnqueueSuppression([Counters EXCEPT !.byQueue = 0], byQueue))
    /\ logStage' = "queue"
    /\ UNCHANGED <<logged, duplicate, segments, offered, refused, writeLock, reclaimLeft, late>>

(* closed: with the queue empty, or at the deadline, after a flush that found the lock busy, *)
(* with what is left; counts that grew since their summary are lost.                         *)
EndClose ==
    /\ \/ logStage = "queue" /\ backlog = <<>>
       \/ /\ logStage \in {"closing", "rate", "queue"}
          /\ backlog # <<>> /\ ~backlog[1].consolePending
    /\ logStage' = "closed"
    /\ UNCHANGED <<logged, duplicate, rateTokens, byRate, byQueue, backlog, segments, offered, refused,
                   writeLock, reclaimLeft, late>>

-----------------------------------------------------------------------------
(* The other processes of the data directory. *)

OtherTakes ==
    /\ LockAvailable
    /\ writeLock' = "other"
    /\ UNCHANGED <<logged, duplicate, rateTokens, byRate, byQueue, backlog, segments, offered, refused,
                   reclaimLeft, logStage, late>>

Foreign ==
    Cardinality({at \in (1 .. SegmentCount) \X (1 .. SegmentLimit) :
                    at[2] <= Len(segments[at[1]]) /\ segments[at[1]][at[2]] = ForeignEntry})

OtherWrites ==
    /\ writeLock = "other"
    /\ Foreign < ForeignWrites
    /\ segments' = AppendedBatch(segments, <<ForeignEntry>>)
    /\ UNCHANGED <<logged, duplicate, rateTokens, byRate, byQueue, backlog, offered, refused, writeLock,
                   reclaimLeft, logStage, late>>

OtherReleases ==
    /\ writeLock = "other"
    /\ writeLock' = "free"
    /\ UNCHANGED <<logged, duplicate, rateTokens, byRate, byQueue, backlog, segments, offered, refused,
                   reclaimLeft, logStage, late>>

(* A process dies with the lock, or with the .reclaim file of a lock whose holder died. *)
OtherDies ==
    /\ \/ writeLock = "other" /\ writeLock' = "dead" /\ UNCHANGED reclaimLeft
       \/ writeLock = "dead" /\ ~reclaimLeft /\ reclaimLeft' = TRUE /\ UNCHANGED writeLock
    /\ UNCHANGED <<logged, duplicate, rateTokens, byRate, byQueue, backlog, segments, offered, refused,
                   logStage, late>>

LogNext ==
    \/ \E renewed, refilled \in BOOLEAN : AddRecord(renewed, refilled)
    \/ Flush
    \/ BeginClose \/ CloseRate \/ CloseQueue \/ EndClose
    \/ OtherTakes \/ OtherWrites \/ OtherReleases \/ OtherDies

LogSpec == LogInit /\ [][LogNext]_logVars

-----------------------------------------------------------------------------
Entry == [record : 0 .. LogRecords, count : Nat]

LogTypeOK ==
    /\ logged \in 0 .. LogRecords /\ {byRate, byQueue} \subseteq Nat
    /\ duplicate \in [emitted : 0 .. DuplicateLimit, suppressed : Nat]
    /\ rateTokens \in 0 .. RateBurst
    /\ Len(backlog) <= QueueLimit
    /\ \A i \in DOMAIN backlog : backlog[i] \in
           [entry : Entry, filePending : BOOLEAN, consolePending : BOOLEAN]
    /\ Len(segments) = SegmentCount
    /\ \A i \in DOMAIN segments : Len(segments[i]) <= SegmentLimit
    /\ writeLock \in {"free", "other", "dead"}
    /\ refused \subseteq DOMAIN offered
    /\ {reclaimLeft, late} \subseteq BOOLEAN
    /\ logStage \in {"open", "closing", "rate", "queue", "closed"}

(* However the lock, the rotation and the retries of a flush fall, a record is in the files *)
(* at most once and in the order it was logged in, and it is offered to the console at most *)
(* once and in that order too: a busy lock delays a line of the file and repeats none of    *)
(* the console (flush() and appendBatch() of logging.ts).                                   *)
Precedes(line, next) == line.record # 0 /\ next.record # 0 => line.record < next.record
InLogOrder(lines) == \A i, j \in DOMAIN lines : i < j => Precedes(lines[i], lines[j])

LinesOnceInOrder ==
    /\ InLogOrder(offered)
    /\ \A a \in DOMAIN segments : InLogOrder(segments[a])
    /\ \A a, b \in DOMAIN segments : a > b =>
          \A i \in DOMAIN segments[a], j \in DOMAIN segments[b] : Precedes(segments[a][i], segments[b][j])

(* The lines that were offered to the console, and those of a queue that wait for it. *)
SeenAt(shown, queue) == ({"console"} \X DOMAIN shown)
                        \cup ({"queue"} \X {i \in DOMAIN queue : queue[i].consolePending})
SeenLine(shown, queue, at) == IF at[1] = "console" THEN shown[at[2]] ELSE queue[at[2]].entry

(* The sum of the values of a function, and two of these lines: of the records there are, *)
(* and of those the summaries say are missing.                                            *)
Total(f) == Cardinality(UNION {{x} \X (1 .. f[x]) : x \in DOMAIN f})
RecordsSeen(shown, queue) ==
    Total([at \in SeenAt(shown, queue) |-> IF SeenLine(shown, queue, at).record # 0 THEN 1 ELSE 0])
RecordsTold(shown, queue) ==
    Total([at \in SeenAt(shown, queue) |-> SeenLine(shown, queue, at).count])

(* The summaries and the counters never say that more is missing than was neither offered to *)
(* the console nor waits for it; and when such records are missing somebody says so: in the  *)
(* end, when close() is over, a summary that was offered, unless the lock starved close() or *)
(* records came while it ran (add(), enqueueSuppression(), close() of logging.ts).  A line   *)
(* that a throwing console or a refusing disk loses was offered: nothing counts or tells of  *)
(* it, be it a record or a summary.                                                          *)
NothingForgotten ==
    LET missing == logged - RecordsSeen(offered, backlog)
        told    == RecordsTold(offered, backlog)
        counted == byRate + byQueue + (IF logStage = "open" THEN duplicate.suppressed ELSE 0)
    IN  ~late /\ ~(logStage = "closed" /\ backlog # <<>>)
          => /\ told + counted <= missing
             /\ missing > 0 => (told + counted > 0)
             /\ (missing > 0 /\ logStage = "closed") => (told > 0)

(* A record is written once and in its place, or is among those whose suppression is told: *)
(* both of the above.  It is not a promise that what is written arrives.                   *)
LogAccountsForRecords == LinesOnceInOrder /\ NothingForgotten
=============================================================================
