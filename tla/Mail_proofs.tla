------------------------------ MODULE Mail_proofs ------------------------------
(* The mailbox operations, for any number of calls, messages and workers: no    *)
(* action but untrash takes a message out of Trash, a batch reports what became *)
(* of its messages, a search answers for every mailbox with pages of its own,   *)
(* a request that may not be repeated is not, and pages leave nothing out.      *)
EXTENDS OutlookMoves, MailboxChanges, MailboxSearch, ImapMessages, ImapPaging,
        ProviderRequests, ProviderPaging, Ordering, FiniteSetsExt,
        FiniteSetTheorems, SequenceTheorems, TLAPS

----------------------------------------------------------------------------
(* Finite sets of numbers, which several proofs rest on: a bounded set has a   *)
(* highest and a lowest member and is listed in one way, each member once.     *)
(* The library's induction over finite sets takes an operator, so each is      *)
(* shown by the smallest set that would be without it.                         *)

\* Among the finite sets of numbers below a bound, if one fails a property there is
\* one that fails it and whose proper subsets do not.
LEMMA SmallestExample ==
    ASSUME NEW n \in Nat, NEW Bad \in SUBSET (SUBSET (0..n)), Bad # {}
    PROVE  \E X \in Bad : \A x \in X : X \ {x} \notin Bad
<1>1. IsFiniteSet(0..n)
  BY FS_Interval
<1>2. Bad \subseteq FiniteSubsetsOf(0..n)
  BY <1>1, FS_Subset DEF FiniteSubsetsOf
<1>3. PICK X \in Bad : \A Y \in Bad : ~(<<Y, X>> \in StrictSubsetOrdering(0..n))
  BY <1>2, FS_StrictSubsetOrderingWellFounded, WFMin
<1>4. ASSUME NEW x \in X, X \ {x} \in Bad PROVE FALSE
  <2>1. <<X \ {x}, X>> \in StrictSubsetOrdering(0..n)
    BY <1>4 DEF StrictSubsetOrdering
  <2> QED BY <1>3, <1>4, <2>1
<1> QED BY <1>4

\* A finite set of numbers has a highest member.
LEMMA Highest ==
    ASSUME NEW n \in Nat, NEW S \in SUBSET (0..n), S # {}
    PROVE  Max(S) \in S /\ \A y \in S : Max(S) >= y
<1> DEFINE Top(X) == \E x \in X : \A y \in X : x >= y
           Bad == {X \in SUBSET (0..n) : X # {} /\ ~Top(X)}
<1>1. Bad = {}
  <2> SUFFICES ASSUME Bad # {} PROVE FALSE
    OBVIOUS
  <2>1. PICK X \in Bad : \A x \in X : X \ {x} \notin Bad
    BY SmallestExample
  <2>2. PICK x \in X : TRUE
    OBVIOUS
  <2>3. CASE X = {x}
    BY <2>3
  <2>4. CASE X # {x}
    <3>1. PICK m \in X \ {x} : \A y \in X \ {x} : m >= y
      BY <2>1, <2>2, <2>4
    <3>2. m \in Nat /\ x \in Nat
      BY <2>2
    <3>3. IF m >= x THEN \A y \in X : m >= y ELSE \A y \in X : x >= y
      BY <3>1, <3>2
    <3> QED BY <2>2, <3>1, <3>3
  <2> QED BY <2>3, <2>4
<1>2. Top(S)
  BY <1>1
<1> QED BY <1>2 DEF Max

\* It can be listed in its order, and such a list names each member once.
LEMMA Ordered ==
    ASSUME NEW n \in Nat, NEW S \in SUBSET (0..n)
    PROVE  /\ IsFiniteSet(S) /\ Cardinality(S) \in Nat
           /\ InOrder(S) \in [1..Cardinality(S) -> S]
           /\ Len(InOrder(S)) = Cardinality(S)
           /\ \A j, k \in 1..Cardinality(S) : j < k => InOrder(S)[j] < InOrder(S)[k]
           /\ \A j, k \in 1..Cardinality(S) : InOrder(S)[j] = InOrder(S)[k] => j = k
           /\ \A i \in S : \E k \in 1..Cardinality(S) : InOrder(S)[k] = i
<1> DEFINE Rises(s) == \A j, k \in DOMAIN s : j < k => s[j] < s[k]
           Lists(X) == \E s \in [1..Cardinality(X) -> X] : Rises(s)
           Bad == {X \in SUBSET (0..n) : ~Lists(X)}
<1>f. \A X \in SUBSET (0..n) : IsFiniteSet(X) /\ Cardinality(X) \in Nat
  <2>1. IsFiniteSet(0..n)
    BY FS_Interval
  <2> QED BY <2>1, FS_Subset, FS_CardinalityType
<1>n. S \subseteq Nat
  OBVIOUS
<1>1. Bad = {}
  <2> SUFFICES ASSUME Bad # {} PROVE FALSE
    OBVIOUS
  <2>1. PICK X \in Bad : \A x \in X : X \ {x} \notin Bad
    BY SmallestExample
  <2>2. CASE X = {}
    <3>1. Cardinality(X) = 0
      BY <2>2, FS_EmptySet
    <3>2. [j \in 1..0 |-> 0] \in [1..Cardinality(X) -> X] /\ Rises([j \in 1..0 |-> 0])
      BY <3>1
    <3> QED BY <3>2
  <2>3. CASE X # {}
    <3> DEFINE m == Max(X)
               c == Cardinality(X)
    <3>1. m \in X /\ (\A y \in X : m >= y) /\ X \subseteq Nat
      <4>1. X \in SUBSET (0..n) /\ X # {}
        BY <2>3
      <4>2. m \in X /\ \A y \in X : m >= y
        BY <4>1, Highest
      <4> QED BY <4>1, <4>2
    <3>2. c \in Nat \ {0} /\ Cardinality(X \ {m}) = c - 1
      BY <1>f, <2>3, <3>1, FS_RemoveElement, FS_EmptySet
    <3> HIDE DEF m, c
    <3>3. PICK s \in [1..Cardinality(X \ {m}) -> X \ {m}] : Rises(s)
      BY <2>1, <3>1
    <3> DEFINE t == [j \in 1..c |-> IF j = c THEN m ELSE s[j]]
    <3>4. s \in [1..(c-1) -> X \ {m}]
      BY <3>2, <3>3
    <3>5. t \in [1..c -> X]
      BY <3>1, <3>2, <3>4
    <3>6. ASSUME NEW j \in 1..c, NEW k \in 1..c, j < k PROVE t[j] < t[k]
      <4>1. j \in 1..(c-1) /\ j # c
        BY <3>2, <3>6
      <4>4. t[j] = s[j] /\ s[j] \in X /\ s[j] # m
        BY <3>4, <4>1
      <4>2. CASE k = c
        <5>1. t[k] = m /\ s[j] <= m /\ s[j] \in Nat /\ m \in Nat
          BY <3>1, <4>2, <4>4
        <5> QED BY <4>4, <5>1
      <4>3. CASE k # c
        <5>1. k \in 1..(c-1) /\ t[k] = s[k]
          BY <3>2, <4>3
        <5> QED BY <3>3, <3>4, <3>6, <4>1, <4>4, <5>1
      <4> QED BY <4>2, <4>3
    <3> HIDE DEF t
    <3>7. Rises(t)
      BY <3>5, <3>6
    <3> QED BY <3>5, <3>7 DEF c
  <2> QED BY <2>2, <2>3
<1>2. Lists(S)
  BY <1>1
<1> DEFINE s == InOrder(S)
           c == Cardinality(S)
<1>3. s \in [1..c -> S] /\ Rises(s)
  BY <1>2 DEF InOrder
<1>4. c \in Nat
  BY <1>f
<1> HIDE DEF s, c
<1>5. \A j, k \in 1..c : s[j] = s[k] => j = k
  <2> SUFFICES ASSUME NEW j \in 1..c, NEW k \in 1..c, s[j] = s[k], j # k PROVE FALSE
    OBVIOUS
  <2>1. j < k \/ k < j
    BY <1>4
  <2>2. s[j] \in Nat
    <3>1. s[j] \in S
      BY <1>3
    <3> QED BY <1>n, <3>1
  <2>3. DOMAIN s = 1..c
    BY <1>3
  <2>4. s[j] < s[k] \/ s[k] < s[j]
    BY <1>3, <2>1, <2>3
  <2> QED BY <2>2, <2>4
<1>6. s \in Surjection(1..c, S)
  <2>1. s \in Injection(1..c, S)
    BY <1>3, <1>5 DEF Injection, IsInjective
  <2>2. IsFiniteSet(S) /\ Cardinality(1..c) = Cardinality(S)
    BY <1>4, <1>f, FS_Interval DEF c
  <2> QED BY <2>1, <2>2, FS_Injection
<1>7. \A i \in S : \E k \in 1..c : s[k] = i
  BY <1>6 DEF Surjection
<1>8. Len(s) = c
  <2>1. s \in Seq(S)
    BY <1>3, <1>4
  <2> QED BY <1>3, <1>4, <2>1, LenProperties
<1> QED BY <1>3, <1>4, <1>5, <1>7, <1>8, <1>f DEF s, c

\* and a lowest.
LEMMA Lowest ==
    ASSUME NEW n \in Nat, NEW S \in SUBSET (0..n), S # {}
    PROVE  Min(S) \in S
<1> DEFINE c == Cardinality(S)
<1>1. /\ IsFiniteSet(S) /\ c \in Nat /\ S \subseteq Nat /\ InOrder(S) \in [1..c -> S]
      /\ \A j, k \in 1..c : j < k => InOrder(S)[j] < InOrder(S)[k]
      /\ \A i \in S : \E k \in 1..c : InOrder(S)[k] = i
  <2>1. S \subseteq Nat
    OBVIOUS
  <2> QED BY <2>1, Ordered
<1> HIDE DEF c
<1>2. 1 \in 1..c
  <2>1. PICK k \in 1..c : TRUE
    BY <1>1
  <2> QED BY <1>1, <2>1
<1>3. InOrder(S)[1] \in S
  BY <1>1, <1>2
<1>4. ASSUME NEW i \in S PROVE InOrder(S)[1] <= i
  <2>1. PICK k \in 1..c : InOrder(S)[k] = i
    BY <1>1
  <2>2. CASE k = 1
    BY <1>1, <1>3, <2>1, <2>2
  <2>3. CASE k # 1
    <3>1. 1 < k
      BY <1>1, <2>3
    <3>2. InOrder(S)[1] < InOrder(S)[k]
      BY <1>1, <1>2, <3>1
    <3>3. InOrder(S)[1] \in Nat /\ i \in Nat
      BY <1>1, <1>3
    <3> QED BY <2>1, <3>2, <3>3
  <2> QED BY <2>2, <2>3
<1> QED BY <1>3, <1>4 DEF Min

----------------------------------------------------------------------------
(* Moves of Outlook: unless somebody else moved something meanwhile, the       *)
(* snapshot is the tree as it is, and what was checked and not yet moved is    *)
(* still outside it.                                                           *)

\* The snapshot a call compares with is the tree as it is, unless it was overtaken.
SnapshotIsTrue == move # NoMove /\ ~overtaken => snapshot = TrashTree

\* What was checked and is still to be moved is outside Trash.
CheckedIsOutside ==
    move # NoMove /\ ~overtaken /\ CheckedBefore(move) =>
        \A m \in looked \ moved : place[m] \notin TrashTree

MovesInv == MovesTypeOK /\ SnapshotIsTrue /\ CheckedIsOutside /\ LeavesTrashByUntrash

LEMMA MovesBegin == MovesInit => MovesInv
<1> SUFFICES ASSUME MovesInit PROVE MovesInv
  OBVIOUS
<1>1. MovesTypeOK
  BY DEF MovesInit, MovesTypeOK, TrashTree, Folders
<1> QED BY <1>1 DEF MovesInit, MovesInv, SnapshotIsTrue, CheckedIsOutside, LeavesTrashByUntrash

LEMMA MovesKeep == MovesInv /\ [MovesNext]_moveVars => MovesInv'
<1> SUFFICES ASSUME MovesInv, [MovesNext]_moveVars PROVE MovesInv'
  OBVIOUS
<1> USE DEF MovesInv, MovesTypeOK, SnapshotIsTrue, CheckedIsOutside, LeavesTrashByUntrash
<1>t. TrashTree \subseteq Folders
  BY DEF TrashTree, Folders
<1>1. CASE WalkFolders
  <2>1. TrashTree' = TrashTree
    BY <1>1 DEF WalkFolders, TrashTree
  <2> QED BY <1>t, <1>1, <2>1 DEF WalkFolders
<1>2. CASE SnapshotAges
  BY <1>2 DEF SnapshotAges, TrashTree
<1>3. CASE EndMove
  BY <1>3 DEF EndMove, TrashTree
<1>4. CASE OthersMoveFolder
  BY <1>4 DEF OthersMoveFolder
<1>5. ASSUME NEW action \in MoveActions, BeginMove(action) PROVE MovesInv'
  <2>1. TrashTree' = TrashTree
    BY <1>5 DEF BeginMove, TrashTree
  <2> QED BY <1>5, <2>1 DEF BeginMove
<1>6. ASSUME NEW m \in Moved, LookAt(m) PROVE MovesInv'
  <2>1. TrashTree' = TrashTree
    BY <1>6 DEF LookAt, TrashTree
  <2>2. CASE place[m] \in snapshot
    BY <1>6, <2>1, <2>2 DEF LookAt
  <2>3. CASE place[m] \notin snapshot
    BY <1>6, <2>1, <2>3 DEF LookAt
  <2> QED BY <2>2, <2>3
<1>7. ASSUME NEW m \in Moved, MoveOne(m) PROVE MovesInv'
  <2>1. TrashTree' = TrashTree
    BY <1>7 DEF MoveOne, TrashTree
  <2>2. move \in MoveActions
    BY <1>7 DEF MoveOne
  <2>3. Destination(move) \in Folders
    BY <2>2 DEF Destination, MoveActions, Folders
  <2>4. MovesTypeOK'
    BY <1>7, <2>3 DEF MoveOne
  <2>5. place'[m] = Destination(move) /\ \A n \in Moved : n # m => place'[n] = place[n]
    BY <1>7 DEF MoveOne
  <2>6. CASE CheckedBefore(move)
    <3>1. overtaken \/ place[m] \notin TrashTree
      BY <1>7, <2>6 DEF MoveOne, MayMove
    <3>2. ~slipped'
      BY <1>7, <3>1 DEF MoveOne
    <3> QED BY <1>7, <2>1, <2>4, <2>5, <3>2 DEF MoveOne
  <2>7. CASE ~CheckedBefore(move)
    <3>1. move \in {"trash", "untrash"}
      BY <2>2, <2>7 DEF CheckedBefore, MoveActions, Folders
    <3>2. move = "trash" => place'[m] \in TrashTree
      BY <2>5 DEF Destination, TrashTree
    <3>3. ~slipped'
      BY <1>7, <2>1, <3>1, <3>2 DEF MoveOne
    <3> QED BY <1>7, <2>1, <2>4, <2>7, <3>3 DEF MoveOne
  <2> QED BY <2>6, <2>7
<1>8. ASSUME NEW m \in Moved, NEW folder \in Folders, OthersMove(m, folder) PROVE MovesInv'
  BY <1>8 DEF OthersMove
<1>9. CASE UNCHANGED moveVars
  BY <1>9 DEF moveVars, TrashTree
<1> QED BY <1>1, <1>2, <1>3, <1>4, <1>5, <1>6, <1>7, <1>8, <1>9 DEF MovesNext

\* A call compares with the tree as it is, and moves what it has checked.
THEOREM MovesInvariance == MovesSpec => []MovesInv
BY MovesBegin, MovesKeep, PTL DEF MovesSpec

\* Only untrash takes a message out of Trash, if nobody else moves it meanwhile.
THEOREM TrashIsLeftByUntrash == MovesSpec => []LeavesTrashByUntrash
<1>1. MovesInv => LeavesTrashByUntrash
  BY DEF MovesInv
<1> QED BY <1>1, MovesInvariance, PTL

----------------------------------------------------------------------------
(* Batches of changes.                                                     *)

\* Attempts at m that were followed by another one.
Lost(c, m) == IF m \in repeated[c] THEN 1 ELSE 0

ChangeTyped(c) ==
    /\ change[c] \in [at : {"unused", "reading", "changing", "done"}, seen : {"active", "auth_error"},
                      ids : SUBSET Messages, next : Nat \ {0}, asked : SUBSET Messages]
    /\ outcomes[c] \in [Messages -> {"uncertain", "succeeded", "auth_expired", "refused"}]
    /\ effects[c] \in [Messages -> Nat]
    /\ repeated[c] \in SUBSET Messages

\* A message that was not taken yet, or was not named, was not touched.
NotTaken(c, m) ==
    m \notin change[c].asked /\ m \notin repeated[c] /\ effects[c][m] = 0 /\ outcomes[c][m] = "uncertain"
\* While it is asked for, only attempts without an answer may have changed it.
BeingAsked(c, m) == outcomes[c][m] = "uncertain" /\ effects[c][m] <= Lost(c, m)
\* Afterwards its outcome is true.
Told(c, m) ==
    /\ effects[c][m] <= Lost(c, m) + 1
    /\ outcomes[c][m] = "succeeded" => effects[c][m] >= 1
    /\ outcomes[c][m] \in {"refused", "auth_expired"} => effects[c][m] <= Lost(c, m)

MessageInv(c, m) ==
    /\ m \notin change[c].ids \/ m >= change[c].next => NotTaken(c, m)
    /\ m \in change[c].asked => BeingAsked(c, m)
    /\ m \in change[c].ids /\ m < change[c].next /\ m \notin change[c].asked => Told(c, m)

ChangeInv(c) ==
    /\ ChangeTyped(c)
    /\ \A m \in Messages : MessageInv(c, m)
    /\ change[c].at = "done" => change[c].ids = {} \/ (change[c].asked = {} /\ change[c].next \notin Messages)
    /\ change[c].at \in {"unused", "reading"} => change[c].ids = {} /\ change[c].next = 1

ChangesInv ==
    /\ signIn \in {"active", "auth_error"} /\ signInGood \in BOOLEAN
    /\ DOMAIN change = ChangeCalls /\ DOMAIN outcomes = ChangeCalls
    /\ DOMAIN effects = ChangeCalls /\ DOMAIN repeated = ChangeCalls
    /\ \A c \in ChangeCalls : ChangeInv(c)

LEMMA ChangeMessages == Messages \subseteq Nat \ {0} /\ \A n \in Nat \ {0} : n \notin Messages => \A m \in Messages : m < n
<1>1. Cardinality(Messages) \in Nat
  BY ChangeConstants, FS_CardinalityType
<1> QED BY <1>1, ChangeConstants

\* A step changes nothing of a call it leaves alone.
LEMMA OtherCallsStay ==
    ASSUME NEW c \in ChangeCalls, ChangeInv(c), change'[c] = change[c], outcomes'[c] = outcomes[c],
           effects'[c] = effects[c], repeated'[c] = repeated[c]
    PROVE  ChangeInv(c)'
BY DEF ChangeInv, ChangeTyped, MessageInv, NotTaken, BeingAsked, Told, Lost

\* What a call learns of message m says nothing of the others.
LEMMA MessagesStay ==
    ASSUME NEW c \in ChangeCalls, NEW m \in Messages, MessageInv(c, m),
           change'[c].ids = change[c].ids, m >= change'[c].next <=> m >= change[c].next,
           m < change'[c].next <=> m < change[c].next,
           m \in change'[c].asked <=> m \in change[c].asked, m \in repeated'[c] <=> m \in repeated[c],
           outcomes'[c][m] = outcomes[c][m], effects'[c][m] = effects[c][m]
    PROVE  MessageInv(c, m)'
BY DEF MessageInv, NotTaken, BeingAsked, Told, Lost

\* m's turn has come, and it was one of the request's or not.
LEMMA TakingMessages ==
    ASSUME NEW c \in ChangeCalls, ChangeInv(c), TakeMessage(c), DOMAIN change = ChangeCalls
    PROVE  ChangeInv(c)'
<1> DEFINE n == change[c].next
<1>1. /\ change[c].at = "changing" /\ n \in Messages /\ UNCHANGED <<outcomes, effects, repeated>>
      /\ change' = [change EXCEPT ![c].next = @ + 1, ![c].asked = @ \cup ({n} \cap change[c].ids)]
  BY DEF TakeMessage
<1>2. change'[c] = [change[c] EXCEPT !.next = n + 1, !.asked = @ \cup ({n} \cap change[c].ids)]
  BY <1>1
<1>t. ChangeTyped(c)
  BY DEF ChangeInv
<1>3. /\ change'[c].next = n + 1 /\ change'[c].asked = change[c].asked \cup ({n} \cap change[c].ids)
      /\ change'[c].ids = change[c].ids /\ change'[c].at = "changing"
  BY <1>1, <1>2, <1>t DEF ChangeTyped
<1>5. n \in Nat /\ n # 0
  BY <1>1, ChangeMessages
<1>4. ChangeTyped(c)'
  <2>1. change'[c] = [at |-> "changing", seen |-> change[c].seen, ids |-> change[c].ids, next |-> n + 1,
                      asked |-> change[c].asked \cup ({n} \cap change[c].ids)]
    BY <1>1, <1>2, <1>t DEF ChangeTyped
  <2> QED BY <1>1, <1>5, <1>t, <2>1 DEF ChangeTyped
<1>6. ASSUME NEW m \in Messages PROVE MessageInv(c, m)'
  <2>0. m \in Nat /\ MessageInv(c, m)
    BY ChangeMessages DEF ChangeInv
  <2>1. CASE m # n
    <3>1. (m >= n + 1 <=> m >= n) /\ (m < n + 1 <=> m < n)
      BY <1>5, <2>0, <2>1
    <3>2. m \in change'[c].asked <=> m \in change[c].asked
      BY <1>3, <2>1
    <3> QED BY <1>1, <1>3, <2>0, <3>1, <3>2, MessagesStay
  <2>2. CASE m = n
    <3>1. NotTaken(c, m)
      BY <1>5, <2>0, <2>2 DEF MessageInv
    <3>2. CASE m \in change[c].ids
      <4>1. m \in change'[c].asked /\ m < change'[c].next /\ ~(m >= change'[c].next) /\ m \in change'[c].ids
        BY <1>3, <1>5, <2>2, <3>2
      <4>2. BeingAsked(c, m)'
        BY <1>1, <3>1 DEF NotTaken, BeingAsked, Lost
      <4> QED BY <4>1, <4>2 DEF MessageInv
    <3>3. CASE m \notin change[c].ids
      <4>1. m \notin change'[c].asked /\ m \notin change'[c].ids
        BY <1>3, <3>1, <3>3 DEF NotTaken
      <4>2. NotTaken(c, m)'
        BY <1>1, <3>1, <4>1 DEF NotTaken
      <4> QED BY <4>1, <4>2 DEF MessageInv
    <3> QED BY <3>2, <3>3
  <2> QED BY <2>1, <2>2
<1> QED BY <1>3, <1>4, <1>6 DEF ChangeInv

\* An answer, or none, about m: at most one more effect, and an outcome that is true of them all.
LEMMA Learning ==
    ASSUME NEW c \in ChangeCalls, NEW m \in Messages, ChangeInv(c), DOMAIN change = ChangeCalls,
           DOMAIN outcomes = ChangeCalls, DOMAIN effects = ChangeCalls,
           NEW outcome \in {"uncertain", "succeeded", "auth_expired", "refused"}, Learn(c, m, outcome),
           NEW done \in 0..1,
           effects'[c] = [effects[c] EXCEPT ![m] = @ + done],
           outcome = "succeeded" => done = 1, outcome \in {"refused", "auth_expired"} => done = 0
    PROVE  ChangeInv(c)'
<1>1. /\ m \in change[c].asked /\ repeated' = repeated
      /\ outcomes' = [outcomes EXCEPT ![c][m] = outcome]
      /\ change' = [change EXCEPT ![c].asked = @ \ {m}]
  BY DEF Learn
<1>t. ChangeTyped(c)
  BY DEF ChangeInv
<1>2. change'[c] = [change[c] EXCEPT !.asked = @ \ {m}]
  BY <1>1
<1>3. /\ change'[c].next = change[c].next /\ change'[c].asked = change[c].asked \ {m}
      /\ change'[c].ids = change[c].ids /\ change'[c].at = change[c].at
  BY <1>2, <1>t DEF ChangeTyped
<1>4. /\ outcomes'[c] = [outcomes[c] EXCEPT ![m] = outcome]
      /\ effects'[c] = [effects[c] EXCEPT ![m] = @ + done]
      /\ repeated'[c] = repeated[c]
  BY <1>1
<1>5. ChangeTyped(c)'
  <2>1. change'[c] = [at |-> change[c].at, seen |-> change[c].seen, ids |-> change[c].ids, next |-> change[c].next,
                      asked |-> change[c].asked \ {m}]
    BY <1>2, <1>t DEF ChangeTyped
  <2> QED BY <1>4, <1>t, <2>1 DEF ChangeTyped
<1>6. ASSUME NEW k \in Messages, k # m PROVE MessageInv(c, k)'
  <2>1. outcomes'[c][k] = outcomes[c][k] /\ effects'[c][k] = effects[c][k]
    BY <1>4, <1>6, <1>t DEF ChangeTyped
  <2> QED BY <1>3, <1>4, <1>6, <2>1, MessagesStay DEF ChangeInv
<1>7. MessageInv(c, m)'
  <2>1. /\ BeingAsked(c, m) /\ m \in change[c].ids /\ ~(m >= change[c].next)
    BY <1>1 DEF ChangeInv, MessageInv, NotTaken
  <2>2. outcomes'[c][m] = outcome /\ effects'[c][m] = effects[c][m] + done /\ Lost(c, m)' = Lost(c, m)
    BY <1>4, <1>t DEF ChangeTyped, Lost
  <2>3. effects[c][m] \in Nat /\ Lost(c, m) \in Nat
    BY <1>t DEF ChangeTyped, Lost
  <2>4. Told(c, m)'
    BY <2>1, <2>2, <2>3 DEF BeingAsked, Told
  <2> QED BY <1>3, <2>1, <2>4 DEF MessageInv
<1>8. change[c].at # "done"
  BY <1>1, <1>7, ChangeMessages DEF ChangeInv, MessageInv, NotTaken
<1>9. \A k \in Messages : MessageInv(c, k)'
  BY <1>6, <1>7
<1> QED BY <1>3, <1>5, <1>8, <1>9 DEF ChangeInv

\* The provider's own retry: one more effect may be there that nothing was heard of.
LEMMA Retrying ==
    ASSUME NEW c \in ChangeCalls, NEW m \in Messages, ChangeInv(c), RetriedUnanswered(c, m),
           DOMAIN effects = ChangeCalls, DOMAIN repeated = ChangeCalls
    PROVE  ChangeInv(c)'
<1>1. PICK done \in 0..1 : effects' = [effects EXCEPT ![c][m] = @ + done]
  BY DEF RetriedUnanswered
<1>2. /\ m \in change[c].asked /\ m \notin repeated[c] /\ UNCHANGED <<change, outcomes>>
      /\ repeated'[c] = repeated[c] \cup {m} /\ effects'[c] = [effects[c] EXCEPT ![m] = @ + done]
  BY <1>1 DEF RetriedUnanswered
<1>t. ChangeTyped(c)
  BY DEF ChangeInv
<1>3. ChangeTyped(c)'
  BY <1>2, <1>t DEF ChangeTyped
<1>4. ASSUME NEW k \in Messages, k # m PROVE MessageInv(c, k)'
  <2>1. effects'[c][k] = effects[c][k] /\ (k \in repeated'[c] <=> k \in repeated[c])
    BY <1>2, <1>4, <1>t DEF ChangeTyped
  <2> QED BY <1>2, <2>1, MessagesStay DEF ChangeInv
<1>5. MessageInv(c, m)'
  <2>1. BeingAsked(c, m) /\ m \in change[c].ids /\ ~(m >= change[c].next)
    BY <1>2 DEF ChangeInv, MessageInv, NotTaken
  <2>2. effects'[c][m] = effects[c][m] + done /\ Lost(c, m) = 0 /\ Lost(c, m)' = 1 /\ effects[c][m] \in Nat
    BY <1>2, <1>t DEF ChangeTyped, Lost
  <2>3. BeingAsked(c, m)'
    BY <1>2, <2>1, <2>2 DEF BeingAsked
  <2> QED BY <1>2, <2>1, <2>3 DEF MessageInv
<1>6. \A k \in Messages : MessageInv(c, k)'
  BY <1>4, <1>5
<1> QED BY <1>2, <1>3, <1>6 DEF ChangeInv

\* A call begins, or ends: none of its messages is touched by that.
LEMMA BeginningAndEnding ==
    ASSUME NEW c \in ChangeCalls, ChangeInv(c), DOMAIN change = ChangeCalls,
           UNCHANGED <<outcomes, effects, repeated>>,
           \/ BeginRead(c) \/ ReadSucceeds(c) \/ ReadFails(c) \/ EndChange(c)
           \/ \E ids \in SUBSET Messages : BeginChange(c, ids),
           signIn \in {"active", "auth_error"}
    PROVE  ChangeInv(c)'
<1>t. ChangeTyped(c)
  BY DEF ChangeInv
<1>n. ASSUME NEW m \in Messages, change[c].ids = {} PROVE NotTaken(c, m)
  BY <1>n DEF ChangeInv, MessageInv
<1>1. CASE BeginRead(c) \/ ReadSucceeds(c) \/ ReadFails(c)
  <2>1. PICK at \in {"reading", "done"}, seen \in {"active", "auth_error"} :
          change'[c] = [change[c] EXCEPT !.at = at, !.seen = seen]
    <3>1. CASE BeginRead(c)
      BY <3>1 DEF BeginRead
    <3>2. CASE ReadSucceeds(c) \/ ReadFails(c)
      <4>1. change'[c] = [change[c] EXCEPT !.at = "done"]
        BY <3>2 DEF ReadSucceeds, ReadFails
      <4>2. change'[c] = [change[c] EXCEPT !.at = "done", !.seen = change[c].seen] /\ change[c].seen \in {"active", "auth_error"}
        BY <4>1, <1>t DEF ChangeTyped
      <4> QED BY <4>2
    <3> QED BY <1>1, <3>1, <3>2
  <2>2. change[c].ids = {} /\ change[c].next = 1
    BY <1>1 DEF BeginRead, Unused, ReadSucceeds, ReadFails, ChangeInv
  <2>3. change'[c] = [at |-> at, seen |-> seen, ids |-> change[c].ids, next |-> change[c].next, asked |-> change[c].asked]
    BY <2>1, <1>t DEF ChangeTyped
  <2>4. ChangeTyped(c)'
    BY <2>3, <1>t DEF ChangeTyped
  <2>5. \A m \in Messages : MessageInv(c, m)'
    BY <2>3, MessagesStay DEF ChangeInv
  <2> QED BY <2>2, <2>3, <2>4, <2>5 DEF ChangeInv
<1>2. ASSUME NEW ids \in SUBSET Messages, BeginChange(c, ids) PROVE ChangeInv(c)'
  <2>1. /\ change[c] = Unused
        /\ change' = [change EXCEPT ![c].at = "changing", ![c].seen = signIn, ![c].ids = ids]
    BY <1>2 DEF BeginChange
  <2>2. change'[c] = [at |-> "changing", seen |-> signIn, ids |-> ids, next |-> 1, asked |-> {}]
    <3>1. change'[c] = [[[change[c] EXCEPT !.at = "changing"] EXCEPT !.seen = signIn] EXCEPT !.ids = ids]
      BY <2>1
    <3>2. change'[c] = [[[Unused EXCEPT !.at = "changing"] EXCEPT !.seen = signIn] EXCEPT !.ids = ids]
      BY <2>1, <3>1
    <3> QED BY <3>2 DEF Unused
  <2>3. ChangeTyped(c)'
    BY <2>2, <1>t DEF ChangeTyped
  <2>4. ASSUME NEW m \in Messages PROVE MessageInv(c, m)'
    <3>1. NotTaken(c, m)
      BY <1>n, <2>1 DEF Unused
    <3>2. NotTaken(c, m)' /\ m \notin change'[c].asked
      BY <2>2, <3>1 DEF NotTaken
    <3>3. ~(m < change'[c].next)
      BY <2>2, ChangeMessages
    <3> QED BY <3>2, <3>3 DEF MessageInv
  <2> QED BY <2>2, <2>3, <2>4 DEF ChangeInv
<1>3. CASE EndChange(c)
  <2>1. change'[c] = [change[c] EXCEPT !.at = "done"] /\ change[c].next \notin Messages /\ change[c].asked = {}
    BY <1>3 DEF EndChange
  <2>2. change'[c] = [at |-> "done", seen |-> change[c].seen, ids |-> change[c].ids, next |-> change[c].next, asked |-> {}]
    BY <2>1, <1>t DEF ChangeTyped
  <2>3. ChangeTyped(c)'
    BY <2>2, <1>t DEF ChangeTyped
  <2>4. \A m \in Messages : MessageInv(c, m)'
    BY <2>1, <2>2, MessagesStay DEF ChangeInv
  <2> QED BY <2>1, <2>2, <2>3, <2>4 DEF ChangeInv
<1> QED BY <1>1, <1>2, <1>3

LEMMA ChangesKeep == ASSUME ChangesInv, [ChangesNext]_changeVars PROVE ChangesInv'
<1>d. /\ DOMAIN change = ChangeCalls /\ DOMAIN outcomes = ChangeCalls
      /\ DOMAIN effects = ChangeCalls /\ DOMAIN repeated = ChangeCalls
      /\ signIn \in {"active", "auth_error"} /\ signInGood \in BOOLEAN
  BY DEF ChangesInv
<1> DEFINE Kept == /\ DOMAIN change' = ChangeCalls /\ DOMAIN outcomes' = ChangeCalls
                   /\ DOMAIN effects' = ChangeCalls /\ DOMAIN repeated' = ChangeCalls
                   /\ signIn' \in {"active", "auth_error"} /\ signInGood' \in BOOLEAN
<1>0. Kept
  <2>1. ASSUME NEW c \in ChangeCalls, BeginRead(c) \/ ReadSucceeds(c) \/ ReadFails(c) PROVE Kept
    BY <1>d, <2>1 DEF BeginRead, ReadSucceeds, ReadFails
  <2>2. ASSUME NEW c \in ChangeCalls, TakeMessage(c) \/ EndChange(c) PROVE Kept
    BY <1>d, <2>2 DEF TakeMessage, EndChange
  <2>3. ASSUME NEW c \in ChangeCalls, NEW ids, BeginChange(c, ids) PROVE Kept
    BY <1>d, <2>3 DEF BeginChange
  <2>4. ASSUME NEW c \in ChangeCalls, NEW m \in Messages, Applied(c, m) \/ Refused(c, m) PROVE Kept
    BY <1>d, <2>4 DEF Applied, Refused, Learn
  <2>5. ASSUME NEW c \in ChangeCalls, NEW m \in Messages, RetriedUnanswered(c, m) \/ AnswerLost(c, m) PROVE Kept
    BY <1>d, <2>5 DEF RetriedUnanswered, AnswerLost, Learn
  <2>6. CASE SignInRevoked \/ SignedInAgain \/ UNCHANGED changeVars
    BY <1>d, <2>6 DEF SignInRevoked, SignedInAgain, changeVars
  <2> QED BY <2>1, <2>2, <2>3, <2>4, <2>5, <2>6 DEF ChangesNext
\* What one call does leaves the others as they are.
<1>o. ASSUME NEW c \in ChangeCalls, ChangeInv(c)',
             \A d \in ChangeCalls \ {c} : /\ change'[d] = change[d] /\ outcomes'[d] = outcomes[d]
                                           /\ effects'[d] = effects[d] /\ repeated'[d] = repeated[d]
      PROVE  ChangesInv'
  <2>1. ASSUME NEW d \in ChangeCalls, d # c PROVE ChangeInv(d)'
    BY <1>o, <2>1, OtherCallsStay DEF ChangesInv
  <2> QED BY <1>0, <1>o, <2>1 DEF ChangesInv
<1>3. ASSUME NEW c \in ChangeCalls, NEW m \in Messages, Applied(c, m) \/ Refused(c, m) \/ AnswerLost(c, m)
      PROVE  ChangesInv'
  <2>e. [effects[c] EXCEPT ![m] = @ + 0] = effects[c]
    BY DEF ChangesInv, ChangeInv, ChangeTyped
  <2>1. PICK outcome \in {"uncertain", "succeeded", "auth_expired", "refused"}, done \in 0..1 :
          /\ Learn(c, m, outcome) /\ effects'[c] = [effects[c] EXCEPT ![m] = @ + done]
          /\ outcome = "succeeded" => done = 1
          /\ outcome \in {"refused", "auth_expired"} => done = 0
    <3>1. CASE Applied(c, m)
      BY <3>1 DEF Applied, ChangesInv
    <3>2. CASE Refused(c, m)
      BY <2>e, <3>2 DEF Refused
    <3>3. CASE AnswerLost(c, m)
      <4>1. PICK done \in 0..1 : effects' = [effects EXCEPT ![c][m] = @ + done]
        BY <3>3 DEF AnswerLost
      <4> QED BY <3>3, <4>1 DEF AnswerLost, ChangesInv
    <3> QED BY <1>3, <3>1, <3>2, <3>3
  <2>2. ChangeInv(c)'
    BY <2>1, Learning DEF ChangesInv
  <2>3. \A d \in ChangeCalls \ {c} : /\ change'[d] = change[d] /\ outcomes'[d] = outcomes[d]
                                     /\ effects'[d] = effects[d] /\ repeated'[d] = repeated[d]
    BY <1>3, <2>1 DEF Learn, ChangesInv, Applied, Refused, AnswerLost
  <2> QED BY <1>o, <2>2, <2>3
<1>4. ASSUME NEW c \in ChangeCalls, NEW m \in Messages, RetriedUnanswered(c, m) PROVE ChangesInv'
  <2>1. ChangeInv(c)'
    BY <1>4, Retrying DEF ChangesInv
  <2>2. \A d \in ChangeCalls \ {c} : /\ change'[d] = change[d] /\ outcomes'[d] = outcomes[d]
                                     /\ effects'[d] = effects[d] /\ repeated'[d] = repeated[d]
    BY <1>4 DEF RetriedUnanswered, ChangesInv
  <2> QED BY <1>o, <2>1, <2>2
<1>5. ASSUME NEW c \in ChangeCalls, TakeMessage(c) PROVE ChangesInv'
  <2>1. ChangeInv(c)'
    BY <1>5, TakingMessages DEF ChangesInv
  <2>2. \A d \in ChangeCalls \ {c} : /\ change'[d] = change[d] /\ outcomes'[d] = outcomes[d]
                                     /\ effects'[d] = effects[d] /\ repeated'[d] = repeated[d]
    BY <1>5 DEF TakeMessage, ChangesInv
  <2> QED BY <1>o, <2>1, <2>2
<1>6. ASSUME NEW c \in ChangeCalls,
             \/ BeginRead(c) \/ ReadSucceeds(c) \/ ReadFails(c) \/ EndChange(c)
             \/ \E ids \in SUBSET Messages : BeginChange(c, ids)
      PROVE  ChangesInv'
  <2>1. UNCHANGED <<outcomes, effects, repeated>>
    BY <1>6 DEF BeginRead, ReadSucceeds, ReadFails, EndChange, BeginChange
  <2>2. ChangeInv(c)'
    BY <1>6, <2>1, BeginningAndEnding DEF ChangesInv
  <2>3. \A d \in ChangeCalls \ {c} : /\ change'[d] = change[d] /\ outcomes'[d] = outcomes[d]
                                     /\ effects'[d] = effects[d] /\ repeated'[d] = repeated[d]
    BY <1>6, <2>1 DEF BeginRead, ReadSucceeds, ReadFails, EndChange, BeginChange, ChangesInv
  <2> QED BY <1>o, <2>2, <2>3
<1>7. ASSUME UNCHANGED <<change, outcomes, effects, repeated>> PROVE ChangesInv'
  <2>1. \A d \in ChangeCalls : ChangeInv(d)'
    BY <1>7, OtherCallsStay DEF ChangesInv
  <2> QED BY <1>0, <2>1 DEF ChangesInv
<1> QED
  BY <1>3, <1>4, <1>5, <1>6, <1>7 DEF ChangesNext, changeVars, SignInRevoked, SignedInAgain

LEMMA ChangesBegin == ChangesInit => ChangesInv
<1> SUFFICES ASSUME ChangesInit PROVE ChangesInv
  OBVIOUS
<1>1. ASSUME NEW c \in ChangeCalls PROVE ChangeInv(c)
  <2>1. change[c] = Unused /\ outcomes[c] = [m \in Messages |-> "uncertain"] /\ effects[c] = [m \in Messages |-> 0]
        /\ repeated[c] = {}
    BY DEF ChangesInit
  <2>2. ChangeTyped(c)
    BY <2>1 DEF ChangeTyped, Unused
  <2>3. \A m \in Messages : NotTaken(c, m) /\ m \notin change[c].ids
    BY <2>1 DEF NotTaken, Unused
  <2>4. \A m \in Messages : MessageInv(c, m)
    BY <2>3 DEF MessageInv, NotTaken
  <2> QED BY <2>1, <2>2, <2>4 DEF ChangeInv, Unused
<1> QED BY <1>1 DEF ChangesInit, ChangesInv

\* A message is untouched until its turn, changed by unanswered attempts only while
\* it is asked for, and told the truth about afterwards.
THEOREM ChangesInvariance == ChangesSpec => []ChangesInv
BY ChangesBegin, ChangesKeep, PTL DEF ChangesSpec

\* What a batch reports is what became of its messages, for any number of calls,
\* messages and workers, whatever answers are lost.
THEOREM ModifyAlwaysTellsTheTruth == ChangesSpec => []ModifyTellsTheTruth
<1>1. ChangesInv => ModifyTellsTheTruth
  <2> SUFFICES ASSUME ChangesInv, NEW c \in ChangeCalls, change[c].at = "done", NEW m \in Messages
               PROVE  LET attempts == IF m \notin change[c].ids THEN 0 ELSE IF m \in repeated[c] THEN 2 ELSE 1
                      IN /\ effects[c][m] <= attempts
                         /\ (m \in change[c].ids /\ outcomes[c][m] = "succeeded") => effects[c][m] >= 1
                         /\ outcomes[c][m] \in {"refused", "auth_expired"} => effects[c][m] <= attempts - 1
    BY DEF ModifyTellsTheTruth
  <2>1. ChangeInv(c) /\ MessageInv(c, m) /\ effects[c][m] \in Nat
    BY DEF ChangesInv, ChangeInv, ChangeTyped
  <2>2. CASE m \notin change[c].ids
    BY <2>1, <2>2 DEF MessageInv, NotTaken
  <2>3. CASE m \in change[c].ids
    <3>1. m \notin change[c].asked /\ m < change[c].next
      BY <2>1, <2>3, ChangeMessages DEF ChangeInv, ChangeTyped
    <3> QED BY <2>1, <2>3, <3>1 DEF MessageInv, Told, Lost
  <2> QED BY <2>2, <2>3
<1> QED BY <1>1, ChangesInvariance, PTL

----------------------------------------------------------------------------
(* Searches of several mailboxes.                                          *)

\* The page of b that the request asks for: its own token's, or the first.
AskedPage(b, page) ==
    LET token == batch.from[b]
    IN IF token = NoToken THEN page = 1
       ELSE token.box = b /\ token.query = batch.query /\ token.page = page

SearchingBox(w, b) == searcher[w] # Idle /\ searcher[w].box = b

SearchTyped ==
    /\ DOMAIN searcher = SearchWorkers /\ DOMAIN groups = Boxes
    /\ nextIndex \in Nat \ {0}
\* Workers have taken mailboxes of this request, with the page it asks for.
SearchersAsk ==
    \A w \in SearchWorkers : searcher[w] # Idle =>
        /\ batch.running /\ searcher[w].box \in Boxes /\ searcher[w].box < nextIndex
        /\ AskedPage(searcher[w].box, searcher[w].page)
PagesAreAsked == \A b \in Boxes : groups[b].kind = "page" => AskedPage(b, groups[b].page)
\* A mailbox that was taken has its answer, or a worker that will give it one.
TakenAreAnswered ==
    \A b \in Boxes : b < nextIndex => groups[b].kind # "none" \/ \E w \in SearchWorkers : SearchingBox(w, b)
NothingBetween == ~batch.running => nextIndex = 1 /\ \A b \in Boxes : groups[b].kind = "none"

SearchInv == SearchTyped /\ SearchersAsk /\ PagesAreAsked /\ TakenAreAnswered /\ NothingBetween

LEMMA SearchBoxes == Boxes \subseteq Nat \ {0} /\ \A n \in Nat \ {0} : n \notin Boxes => \A b \in Boxes : b < n
<1>1. Cardinality(Boxes) \in Nat
  BY SearchConstants, FS_CardinalityType
<1> QED BY <1>1, SearchConstants

\* A worker's answer for its mailbox, which was the next one or the one it searched.
LEMMA AnsweringKeeps ==
    ASSUME SearchInv, batch.running, UNCHANGED batch, NEW w \in SearchWorkers, NEW b \in Boxes, NEW answer, Answered(w, b, answer),
           nextIndex' \in Nat \ {0}, nextIndex' >= nextIndex, b < nextIndex',
           \A k \in Boxes : k < nextIndex' => k < nextIndex \/ k = b,
           searcher[w] = Idle \/ SearchingBox(w, b),
           answer.kind # "none", answer.kind = "page" => AskedPage(b, answer.page)
    PROVE  SearchInv'
<1>1. /\ groups' = [groups EXCEPT ![b] = answer] /\ searcher' = [searcher EXCEPT ![w] = Idle]
      /\ DOMAIN searcher = SearchWorkers /\ DOMAIN groups = Boxes /\ nextIndex \in Nat \ {0}
  BY DEF Answered, SearchInv, SearchTyped
<1>2. SearchTyped'
  BY <1>1 DEF SearchTyped
<1>3. \A k \in Boxes : \A p : AskedPage(k, p)' <=> AskedPage(k, p)
  BY DEF AskedPage
<1>4. SearchersAsk'
  <2> SUFFICES ASSUME NEW v \in SearchWorkers, searcher'[v] # Idle
               PROVE  /\ batch'.running /\ searcher'[v].box \in Boxes /\ searcher'[v].box < nextIndex'
                      /\ AskedPage(searcher[v].box, searcher[v].page)'
    BY DEF SearchersAsk, AskedPage
  <2>1. v # w /\ searcher'[v] = searcher[v]
    BY <1>1
  <2>2. batch.running /\ searcher[v].box \in Boxes /\ searcher[v].box < nextIndex /\ AskedPage(searcher[v].box, searcher[v].page)
    BY <2>1 DEF SearchInv, SearchersAsk
  <2>3. searcher[v].box < nextIndex'
    <3>1. searcher[v].box \in Nat
      BY <2>2, SearchBoxes
    <3> QED BY <1>1, <2>2, <3>1
  <2> QED BY <2>1, <2>2, <2>3 DEF AskedPage
<1>5. PagesAreAsked'
  <2> SUFFICES ASSUME NEW k \in Boxes, groups'[k].kind = "page" PROVE AskedPage(k, groups[k].page)'
    BY DEF PagesAreAsked, AskedPage
  <2>1. CASE k = b
    BY <1>1, <2>1 DEF AskedPage
  <2>2. CASE k # b
    BY <1>1, <2>2 DEF AskedPage, SearchInv, PagesAreAsked
  <2> QED BY <2>1, <2>2
<1>6. TakenAreAnswered'
  <2> SUFFICES ASSUME NEW k \in Boxes, k < nextIndex', k # b
               PROVE  groups'[k].kind # "none" \/ \E v \in SearchWorkers : SearchingBox(v, k)'
    BY <1>1 DEF TakenAreAnswered
  <2>1. groups[k].kind # "none" \/ \E v \in SearchWorkers : SearchingBox(v, k)
    BY DEF SearchInv, TakenAreAnswered
  <2>2. groups'[k] = groups[k]
    BY <1>1
  <2>3. ASSUME NEW v \in SearchWorkers, SearchingBox(v, k) PROVE SearchingBox(v, k)'
    BY <1>1, <2>3 DEF SearchingBox
  <2> QED BY <2>1, <2>2, <2>3
<1>7. NothingBetween'
  BY DEF NothingBetween
<1> QED BY <1>2, <1>4, <1>5, <1>6, <1>7 DEF SearchInv

LEMMA SearchesKeep == ASSUME SearchInv, [SearchNext]_searchVars PROVE SearchInv'
<1>t. DOMAIN searcher = SearchWorkers /\ DOMAIN groups = Boxes /\ nextIndex \in Nat \ {0}
  BY DEF SearchInv, SearchTyped
<1>s. ASSUME UNCHANGED <<batch, nextIndex, searcher, groups>> PROVE SearchInv'
  BY <1>s DEF SearchInv, SearchTyped, SearchersAsk, PagesAreAsked, TakenAreAnswered, NothingBetween, AskedPage, SearchingBox
<1>1. ASSUME NEW query, NEW from, StartBatch(query, from) PROVE SearchInv'
  <2>1. /\ ~batch.running /\ batch'.running /\ UNCHANGED <<nextIndex, searcher, groups>>
    BY <1>1 DEF StartBatch
  <2>2. nextIndex = 1 /\ \A b \in Boxes : groups[b].kind = "none"
    BY <2>1 DEF SearchInv, NothingBetween
  <2>3. \A w \in SearchWorkers : searcher[w] = Idle
    BY <2>1 DEF SearchInv, SearchersAsk
  <2>4. \A b \in Boxes : ~(b < 1)
    BY SearchBoxes
  <2> QED BY <1>t, <2>1, <2>2, <2>3, <2>4 DEF SearchInv, SearchTyped, SearchersAsk, PagesAreAsked, TakenAreAnswered, NothingBetween
<1>2. ASSUME NEW w \in SearchWorkers, TakeBox(w) PROVE SearchInv'
  <2> DEFINE b == nextIndex
             token == batch.from[b]
  <2>1. batch.running /\ searcher[w] = Idle /\ b \in Boxes /\ nextIndex' = nextIndex + 1 /\ UNCHANGED batch
    BY <1>2 DEF TakeBox
  <2>2. \A k \in Boxes : k < nextIndex' => k < nextIndex \/ k = b
    BY <1>t, <2>1, SearchBoxes
  <2>3. ASSUME NEW code \in {"timeout", "not_found", "invalid_token"}, Answered(w, b, Failure(code)) PROVE SearchInv'
    <3>1. Failure(code).kind # "none" /\ Failure(code).kind # "page"
      BY DEF Failure
    <3>2. b < nextIndex' /\ nextIndex' >= nextIndex /\ nextIndex' \in Nat \ {0}
      BY <1>t, <2>1
    <3> QED BY <2>1, <2>2, <2>3, <3>1, <3>2, AnsweringKeeps
  <2>4. CASE /\ token = NoToken \/ Decodes(token, b, batch.query)
             /\ searcher' = [searcher EXCEPT ![w] = [box |-> b, page |-> IF token = NoToken THEN 1 ELSE token.page]]
             /\ UNCHANGED groups
    <3> DEFINE page == IF token = NoToken THEN 1 ELSE token.page
    <3>1. PICK p : p = page
      OBVIOUS
    <3>2. AskedPage(b, p)
      BY <2>4, <3>1 DEF AskedPage, Decodes
    <3>3. searcher' = [searcher EXCEPT ![w] = [box |-> b, page |-> p]]
      BY <2>4, <3>1
    <3>4. [box |-> b, page |-> p] # Idle /\ [box |-> b, page |-> p].box = b
      BY <1>t DEF Idle
    <3>5. SearchersAsk'
      <4> SUFFICES ASSUME NEW v \in SearchWorkers, searcher'[v] # Idle
                   PROVE  /\ batch'.running /\ searcher'[v].box \in Boxes /\ searcher'[v].box < nextIndex'
                          /\ AskedPage(searcher[v].box, searcher[v].page)'
        BY DEF SearchersAsk, AskedPage
      <4>1. CASE v = w
        BY <1>t, <2>1, <3>2, <3>3, <4>1 DEF AskedPage
      <4>2. CASE v # w
        <5>1. searcher'[v] = searcher[v]
          BY <1>t, <3>3, <4>2
        <5>2. searcher[v].box \in Boxes /\ searcher[v].box < nextIndex /\ AskedPage(searcher[v].box, searcher[v].page)
          BY <5>1 DEF SearchInv, SearchersAsk
        <5>3. searcher[v].box \in Nat
          BY <5>2, SearchBoxes
        <5> QED BY <1>t, <2>1, <5>1, <5>2, <5>3 DEF AskedPage
      <4> QED BY <4>1, <4>2
    <3>6. PagesAreAsked'
      BY <2>1, <2>4 DEF SearchInv, PagesAreAsked, AskedPage
    <3>7. TakenAreAnswered'
      <4> SUFFICES ASSUME NEW k \in Boxes, k < nextIndex'
                   PROVE  groups'[k].kind # "none" \/ \E v \in SearchWorkers : SearchingBox(v, k)'
        BY DEF TakenAreAnswered
      <4>1. CASE k = b
        <5>1. searcher'[w] = [box |-> b, page |-> p]
          BY <1>t, <3>3
        <5> QED BY <3>4, <4>1, <5>1 DEF SearchingBox
      <4>2. CASE k # b
        <5>1. groups[k].kind # "none" \/ \E v \in SearchWorkers : SearchingBox(v, k)
          BY <2>2, <4>2 DEF SearchInv, TakenAreAnswered
        <5>2. ASSUME NEW v \in SearchWorkers, SearchingBox(v, k) PROVE SearchingBox(v, k)'
          <6>1. v # w
            BY <2>1, <5>2 DEF SearchingBox
          <6> QED BY <1>t, <3>3, <5>2, <6>1 DEF SearchingBox
        <5> QED BY <2>4, <5>1, <5>2
      <4> QED BY <4>1, <4>2
    <3>8. SearchTyped' /\ NothingBetween'
      BY <1>t, <2>1, <2>4 DEF SearchTyped, NothingBetween
    <3> QED BY <3>5, <3>6, <3>7, <3>8 DEF SearchInv
  <2> QED BY <1>2, <2>3, <2>4 DEF TakeBox
<1>3. ASSUME NEW w \in SearchWorkers, searcher[w] # Idle, UNCHANGED <<batch, nextIndex>>,
             NEW answer, Answered(w, searcher[w].box, answer), answer.kind # "none",
             answer.kind = "page" => answer.page = searcher[w].page
      PROVE  SearchInv'
  <2>1. PICK b \in Boxes : b = searcher[w].box
    BY <1>3 DEF SearchInv, SearchersAsk
  <2>2. batch.running /\ b < nextIndex /\ AskedPage(b, searcher[w].page) /\ SearchingBox(w, b)
    BY <1>3, <2>1 DEF SearchInv, SearchersAsk, SearchingBox
  <2>3. Answered(w, b, answer) /\ (answer.kind = "page" => AskedPage(b, answer.page))
    BY <1>3, <2>1, <2>2
  <2>4. nextIndex' \in Nat \ {0} /\ nextIndex' >= nextIndex /\ b < nextIndex' /\ \A k \in Boxes : k < nextIndex' => k < nextIndex \/ k = b
    BY <1>3, <1>t, <2>2
  <2> QED BY <1>3, <2>2, <2>3, <2>4, AnsweringKeeps
<1>4. ASSUME NEW w \in SearchWorkers, PageArrives(w) PROVE SearchInv'
  <2>1. Answered(w, searcher[w].box, Page(searcher[w].page)) /\ searcher[w] # Idle /\ UNCHANGED <<batch, nextIndex>>
    BY <1>4 DEF PageArrives
  <2>2. Page(searcher[w].page).kind = "page" /\ Page(searcher[w].page).page = searcher[w].page
    BY DEF Page
  <2> QED BY <1>3, <2>1, <2>2
<1>5. ASSUME NEW w \in SearchWorkers, SearchFails(w) PROVE SearchInv'
  <2>1. PICK code \in {"timeout", "failed"} : Answered(w, searcher[w].box, Failure(code))
    BY <1>5 DEF SearchFails
  <2>2. searcher[w] # Idle /\ UNCHANGED <<batch, nextIndex>>
    BY <1>5 DEF SearchFails
  <2>3. Failure(code).kind = code /\ code # "none" /\ code # "page"
    BY DEF Failure
  <2> QED BY <1>3, <2>1, <2>2, <2>3
<1>6. CASE ReturnBatch
  <2>1. /\ ~batch'.running /\ nextIndex' = 1 /\ UNCHANGED searcher /\ \A w \in SearchWorkers : searcher[w] = Idle
        /\ groups' = [b \in Boxes |-> Failure("none")]
    BY <1>6 DEF ReturnBatch, Complete, NoBatch
  <2>2. \A b \in Boxes : groups'[b].kind = "none"
    BY <2>1 DEF Failure
  <2>3. \A b \in Boxes : ~(b < 1)
    BY SearchBoxes
  <2> QED BY <1>t, <2>1, <2>2, <2>3 DEF SearchInv, SearchTyped, SearchersAsk, PagesAreAsked, TakenAreAnswered, NothingBetween
<1>7. CASE Deadline \/ HourPasses \/ (\E b \in Boxes : AccessChanges(b)) \/ UNCHANGED searchVars
  BY <1>7, <1>s DEF Deadline, HourPasses, AccessChanges, searchVars
<1> QED BY <1>1, <1>2, <1>4, <1>5, <1>6, <1>7 DEF SearchNext

\* Every mailbox that was taken has its answer or a worker at it, and every page
\* is the one the request's own token of that mailbox continues with.
THEOREM SearchInvariance == SearchSpec => []SearchInv
<1>1. SearchInit => SearchInv
  <2> SUFFICES ASSUME SearchInit PROVE SearchInv
    OBVIOUS
  <2>1. \A b \in Boxes : ~(b < 1)
    BY SearchBoxes
  <2> QED
    BY <2>1 DEF SearchInit, SearchInv, SearchTyped, SearchersAsk, PagesAreAsked, TakenAreAnswered, NothingBetween, Failure
<1> QED BY <1>1, SearchesKeep, PTL DEF SearchSpec

\* A batch that returns answers for every mailbox, with pages of its own search,
\* for any number of mailboxes, workers and pages, and any tokens it was handed.
THEOREM BatchAlwaysAnswersItself == SearchSpec => []BatchAnswersItself
<1>1. SearchInv => BatchAnswersItself
  <2> SUFFICES ASSUME SearchInv, Complete, NEW b \in Boxes
               PROVE  /\ groups[b].kind # "none"
                      /\ groups[b].kind = "page" =>
                           LET token == batch.from[b]
                           IN IF token = NoToken THEN groups[b].page = 1
                              ELSE token.box = b /\ token.query = batch.query /\ token.page = groups[b].page
    BY DEF BatchAnswersItself
  <2>1. b < nextIndex /\ \A w \in SearchWorkers : ~SearchingBox(w, b)
    BY SearchBoxes DEF Complete, SearchInv, SearchTyped, SearchingBox
  <2> QED BY <2>1 DEF SearchInv, TakenAreAnswered, PagesAreAsked, AskedPage
<1> QED BY <1>1, SearchInvariance, PTL

-----------------------------------------------------------------------------
(* The ids of IMAP: as long as no change used a UID of an earlier numbering, a  *)
(* row, an id and the row a call has read all lead to the message the id was    *)
(* given out for, or to nothing.                                                *)

OfThisNumbering(pl) == pl.validity = validity[pl.path]
\* A place the server has used, now or in an earlier numbering.
Used(pl) == pl.validity < validity[pl.path] \/ (OfThisNumbering(pl) /\ pl.uid < uidNext[pl.path])
ShowsOnly(pl, m) == OfThisNumbering(pl) /\ pl.uid \in DOMAIN held[pl.path] => origin[held[pl.path][pl.uid]] = m
LeadsTo(pl, m) == Used(pl) /\ ShowsOnly(pl, m)

RowRecords == [place : Places, draft : BOOLEAN]
CallRecords ==
    [at : {"new", "row", "appended", "sent", "moved", "done"},
     kind : {"read", "flag", "delete", "discard", "move", "update", "send", "replaced"},
     id : Places \cup {NoRow}, row : RowRecords \cup {NoRow}, target : Places \cup {NoRow}]
ActiveCall(c) == imapCall[c].at \notin {"new", "done"}
Targeted(c) == imapCall[c].at \in {"appended", "moved"}

ServerTyped ==
    /\ validity \in [Paths -> 1..LastValidity] /\ uidNext \in [Paths -> 1..LastUid + 1]
    /\ DOMAIN held = Paths
    /\ \A p \in Paths : \A u \in DOMAIN held[p] : u \in 1..uidNext[p] - 1 /\ held[p][u] \in 1..copies
    /\ copies \in 0..LastCopy /\ origin \in [1..LastCopy -> 0..LastCopy]
    /\ \A k \in 1..copies : origin[k] # 0
IdsTyped ==
    /\ locationRows \in [Places -> RowRecords \cup {NoRow}]
    /\ denotes \in [Places -> 0..LastCopy]
    /\ mistaken \in BOOLEAN /\ strayed \in BOOLEAN
    /\ \A i \in Places : locationRows[i] # NoRow => denotes[i] # 0
CallTyped(c) ==
    /\ ActiveCall(c) => /\ imapCall[c].id \in Places /\ imapCall[c].row \in RowRecords
                        /\ denotes[imapCall[c].id] # 0
    /\ Targeted(c) => imapCall[c].target \in Places
CallsTyped == imapCall \in [ImapCalls -> CallRecords] /\ \A c \in ImapCalls : CallTyped(c)

RowsLead == \A i \in Places : locationRows[i] # NoRow => LeadsTo(locationRows[i].place, denotes[i])
IdsLead == \A i \in Places : denotes[i] # 0 => LeadsTo(i, denotes[i])
CallLeads(c) ==
    /\ ActiveCall(c) => LeadsTo(imapCall[c].row.place, denotes[imapCall[c].id])
    /\ Targeted(c) => LeadsTo(imapCall[c].target, denotes[imapCall[c].id])
CallsLead == \A c \in ImapCalls : CallLeads(c)

ImapTyped == ServerTyped /\ IdsTyped /\ CallsTyped
Leads == RowsLead /\ IdsLead /\ CallsLead
ImapInv == ImapTyped /\ (~strayed => Leads /\ ~mistaken)

\* What the server does to a mailbox: it numbers it anew, or the UIDs it has
\* given out keep naming what they named, or nothing.
ServerStep ==
    /\ \A p \in Paths :
          \/ validity'[p] > validity[p]
          \/ /\ validity'[p] = validity[p] /\ uidNext'[p] >= uidNext[p]
             /\ \A u \in DOMAIN held'[p] :
                   u < uidNext[p] => u \in DOMAIN held[p] /\ held'[p][u] = held[p][u]
    /\ \A k \in 1..copies : origin'[k] = origin[k]

\* What becomes of the ids and their rows in a step.
IdsStep ==
    /\ \A i \in Places : denotes[i] # 0 => denotes'[i] = denotes[i]
    /\ \A i \in Places : denotes[i] = 0 /\ denotes'[i] # 0 => LeadsTo(i, denotes[i])'
RowsStep ==
    \A i \in Places : \/ locationRows'[i] = locationRows[i] \/ locationRows'[i] = NoRow
                      \/ LeadsTo(locationRows[i].place, denotes[i])'
CallsStep == \A c \in ImapCalls : imapCall'[c] = imapCall[c] \/ CallLeads(c)'

LEMMA ImapNumbers == LastUid \in Nat /\ LastValidity \in Nat /\ LastCopy \in Nat
BY ImapConstants

LEMMA ServerNumbers ==
    ASSUME ServerTyped, NEW p \in Paths
    PROVE  validity[p] \in Nat /\ validity[p] \in 1..LastValidity /\ uidNext[p] \in Nat /\ uidNext[p] \in 1..LastUid + 1
<1>1. validity[p] \in 1..LastValidity /\ uidNext[p] \in 1..LastUid + 1
  BY DEF ServerTyped
<1> QED BY <1>1, ImapNumbers

LEMMA PlaceParts ==
    ASSUME NEW pl \in Places
    PROVE  /\ pl.path \in Paths
           /\ pl.validity \in Nat /\ pl.validity \in 1..LastValidity /\ pl.uid \in Nat /\ pl.uid \in 1..LastUid
<1>1. pl.path \in Paths /\ pl.validity \in 1..LastValidity /\ pl.uid \in 1..LastUid
  BY DEF Places
<1> QED BY <1>1, ImapNumbers

LEMMA ServerKeeps ==
    ASSUME ServerTyped, ServerTyped', ServerStep, NEW pl \in Places, NEW m, LeadsTo(pl, m)
    PROVE  LeadsTo(pl, m)'
<1>1. pl.path \in Paths /\ pl.validity \in Nat /\ pl.uid \in Nat
  BY PlaceParts
<1>2. PICK p \in Paths : p = pl.path
  BY <1>1
<1>3. validity[p] \in Nat /\ uidNext[p] \in Nat
  BY ServerNumbers
<1>4. validity'[p] \in Nat /\ uidNext'[p] \in Nat
  <2>1. validity'[p] \in 1..LastValidity /\ uidNext'[p] \in 1..LastUid + 1
    BY DEF ServerTyped
  <2> QED BY <2>1, ImapNumbers
<1>5. CASE validity'[p] > validity[p]
  <2>1. pl.validity <= validity[p]
    BY <1>1, <1>2, <1>3 DEF LeadsTo, Used, OfThisNumbering
  <2>2. pl.validity < validity'[p] /\ pl.validity # validity'[p]
    BY <1>1, <1>3, <1>4, <1>5, <2>1
  <2> QED BY <1>2, <2>2 DEF LeadsTo, Used, ShowsOnly, OfThisNumbering
<1>6. CASE /\ validity'[p] = validity[p] /\ uidNext'[p] >= uidNext[p]
           /\ \A u \in DOMAIN held'[p] : u < uidNext[p] => u \in DOMAIN held[p] /\ held'[p][u] = held[p][u]
  <2>0. pl.validity < validity[p] \/ (pl.validity = validity[p] /\ pl.uid < uidNext[p])
    BY <1>2 DEF LeadsTo, Used, OfThisNumbering
  <2>1. Used(pl)'
    <3>1. pl.uid < uidNext[p] => pl.uid < uidNext'[p]
      BY <1>1, <1>3, <1>4, <1>6
    <3> QED BY <1>2, <1>6, <2>0, <3>1 DEF Used, OfThisNumbering
  <2>2. ShowsOnly(pl, m)'
    <3> SUFFICES ASSUME pl.validity = validity'[p], pl.uid \in DOMAIN held'[p]
                 PROVE  origin'[held'[p][pl.uid]] = m
      BY <1>2 DEF ShowsOnly, OfThisNumbering
    <3>1. pl.uid < uidNext[p] /\ OfThisNumbering(pl)
      BY <1>1, <1>2, <1>3, <1>6, <2>0 DEF OfThisNumbering
    <3>2. pl.uid \in DOMAIN held[p] /\ held'[p][pl.uid] = held[p][pl.uid]
      BY <1>6, <3>1
    <3>3. origin[held[p][pl.uid]] = m
      BY <1>2, <3>1, <3>2 DEF LeadsTo, ShowsOnly
    <3>4. held[p][pl.uid] \in 1..copies
      BY <3>2 DEF ServerTyped
    <3> QED BY <3>2, <3>3, <3>4 DEF ServerStep
  <2> QED BY <2>1, <2>2 DEF LeadsTo
<1> QED BY <1>5, <1>6 DEF ServerStep

LEMMA AllStillLead ==
    ASSUME ImapTyped, ServerTyped', Leads, ServerStep, IdsStep, RowsStep, CallsStep
    PROVE  Leads'
<1>t. ServerTyped /\ IdsTyped /\ CallsTyped
  BY DEF ImapTyped
<1>1. RowsLead'
  <2> SUFFICES ASSUME NEW i \in Places, locationRows'[i] # NoRow
               PROVE  LeadsTo(locationRows[i].place, denotes[i])'
    BY DEF RowsLead
  <2>1. CASE locationRows'[i] = locationRows[i]
    <3>1. LeadsTo(locationRows[i].place, denotes[i]) /\ denotes'[i] = denotes[i] /\ locationRows[i].place \in Places
      BY <1>t, <2>1 DEF Leads, RowsLead, IdsTyped, IdsStep, RowRecords
    <3>2. PICK pl \in Places : pl = locationRows[i].place
      BY <3>1
    <3>3. PICK m : m = denotes[i]
      OBVIOUS
    <3>4. LeadsTo(pl, m)'
      BY <1>t, <3>1, <3>2, <3>3, ServerKeeps
    <3> QED BY <2>1, <3>1, <3>2, <3>3, <3>4 DEF LeadsTo, Used, ShowsOnly, OfThisNumbering
  <2> QED BY <2>1 DEF RowsStep
<1>2. IdsLead'
  <2> SUFFICES ASSUME NEW i \in Places, denotes'[i] # 0 PROVE LeadsTo(i, denotes[i])'
    BY DEF IdsLead
  <2>1. CASE denotes[i] # 0
    <3>1. PICK m : m = denotes[i]
      OBVIOUS
    <3>2. LeadsTo(i, m) /\ denotes'[i] = m
      BY <2>1, <3>1 DEF Leads, IdsLead, IdsStep
    <3>3. LeadsTo(i, m)'
      BY <1>t, <3>2, ServerKeeps
    <3> QED BY <3>2, <3>3 DEF LeadsTo, Used, ShowsOnly, OfThisNumbering
  <2> QED BY <2>1 DEF IdsStep
<1>3. CallsLead'
  <2> SUFFICES ASSUME NEW c \in ImapCalls PROVE CallLeads(c)'
    BY DEF CallsLead
  <2>1. CASE imapCall'[c] = imapCall[c]
    <3>1. CallLeads(c) /\ CallTyped(c)
      BY <1>t DEF Leads, CallsLead, CallsTyped
    <3>2. PICK m : m = denotes[imapCall[c].id]
      OBVIOUS
    <3>3. ASSUME ActiveCall(c) PROVE LeadsTo(imapCall[c].row.place, denotes[imapCall[c].id])'
      <4>1. imapCall[c].row.place \in Places /\ imapCall[c].id \in Places /\ m # 0 /\ LeadsTo(imapCall[c].row.place, m)
        BY <3>1, <3>2, <3>3 DEF CallTyped, CallLeads, RowRecords
      <4>2. PICK pl \in Places : pl = imapCall[c].row.place
        BY <4>1
      <4>3. denotes'[imapCall[c].id] = m
        BY <3>2, <4>1 DEF IdsStep
      <4>4. LeadsTo(pl, m)'
        BY <1>t, <4>1, <4>2, ServerKeeps
      <4> QED BY <2>1, <4>2, <4>3, <4>4 DEF LeadsTo, Used, ShowsOnly, OfThisNumbering
    <3>4. ASSUME Targeted(c) PROVE LeadsTo(imapCall[c].target, denotes[imapCall[c].id])'
      <4>1. imapCall[c].target \in Places /\ imapCall[c].id \in Places /\ m # 0 /\ LeadsTo(imapCall[c].target, m)
        BY <3>1, <3>2, <3>4 DEF CallTyped, CallLeads, Targeted, ActiveCall
      <4>2. PICK pl \in Places : pl = imapCall[c].target
        BY <4>1
      <4>3. denotes'[imapCall[c].id] = m
        BY <3>2, <4>1 DEF IdsStep
      <4>4. LeadsTo(pl, m)'
        BY <1>t, <4>1, <4>2, ServerKeeps
      <4> QED BY <2>1, <4>2, <4>3, <4>4 DEF LeadsTo, Used, ShowsOnly, OfThisNumbering
    <3> QED BY <2>1, <3>3, <3>4 DEF CallLeads, ActiveCall, Targeted
  <2> QED BY <2>1 DEF CallsStep
<1> QED BY <1>1, <1>2, <1>3 DEF Leads

(* What the steps do to a mailbox.                                              *)

LEMMA SameServer == ASSUME ServerTyped, UNCHANGED server PROVE ServerTyped' /\ ServerStep
<1>1. ServerTyped'
  BY DEF ServerTyped, server
<1>2. ServerStep
  <2>1. \A p \in Paths : uidNext'[p] >= uidNext[p]
    <3> SUFFICES ASSUME NEW p \in Paths PROVE uidNext'[p] >= uidNext[p]
      OBVIOUS
    <3>1. uidNext[p] \in Nat /\ uidNext' = uidNext
      BY ServerNumbers DEF server
    <3> QED BY <3>1
  <2> QED BY <2>1 DEF ServerStep, server
<1> QED BY <1>1, <1>2

LEMMA MessageRemoved ==
    ASSUME ServerTyped, NEW p \in Paths, NEW uid, held' = [held EXCEPT ![p] = Without(@, uid)],
           UNCHANGED <<validity, uidNext, copies, origin>>
    PROVE  ServerTyped' /\ ServerStep
<1>1. DOMAIN held' = Paths
  BY DEF ServerTyped
<1>2. \A q \in Paths : \A u \in DOMAIN held'[q] : u \in DOMAIN held[q] /\ held'[q][u] = held[q][u]
  BY DEF ServerTyped, Without
<1>3. \A q \in Paths : uidNext'[q] >= uidNext[q]
  <2> SUFFICES ASSUME NEW q \in Paths PROVE uidNext'[q] >= uidNext[q]
    OBVIOUS
  <2>1. uidNext[q] \in Nat /\ uidNext' = uidNext
    BY ServerNumbers
  <2> QED BY <2>1
<1>4. ServerTyped'
  BY <1>1, <1>2 DEF ServerTyped
<1> QED BY <1>2, <1>3, <1>4 DEF ServerStep

\* A message comes to the next UID of a mailbox.
LEMMA MessageAdded ==
    ASSUME ServerTyped, NEW p \in Paths, uidNext[p] <= LastUid, NEW k, NEW old,
           DOMAIN held' = Paths, held'[p] = With(old, uidNext[p], k),
           \A q \in Paths : q # p => \A u \in DOMAIN held'[q] : u \in DOMAIN held[q] /\ held'[q][u] = held[q][u],
           old = held[p], uidNext' = [uidNext EXCEPT ![p] = @ + 1], validity' = validity,
           copies' \in 0..LastCopy, copies' >= copies, k \in 1..copies',
           origin' \in [1..LastCopy -> 0..LastCopy], \A n \in 1..copies' : origin'[n] # 0,
           \A n \in 1..copies : origin'[n] = origin[n]
    PROVE  /\ ServerTyped' /\ ServerStep
           /\ \A pl \in Places, m \in 0..LastCopy :
                 pl = Place(p, uidNext[p]) /\ m = origin'[k] => LeadsTo(pl, m)'
<1>1. uidNext[p] \in Nat /\ uidNext'[p] = uidNext[p] + 1 /\ \A q \in Paths : q # p => uidNext'[q] = uidNext[q]
  BY ServerNumbers DEF ServerTyped
<1>2. uidNext' \in [Paths -> 1..LastUid + 1]
  <2>1. uidNext[p] + 1 \in 1..LastUid + 1
    BY <1>1, ImapNumbers
  <2> QED BY <2>1 DEF ServerTyped
<1>3. copies \in Nat /\ copies' \in Nat
  BY ImapNumbers DEF ServerTyped
<1>4. \A u \in DOMAIN held'[p] : \/ u = uidNext[p] /\ held'[p][u] = k
                                 \/ u # uidNext[p] /\ u \in DOMAIN held[p] /\ held'[p][u] = held[p][u]
  BY DEF With
<1>5. ASSUME NEW q \in Paths, NEW u \in DOMAIN held'[q] PROVE u \in 1..uidNext'[q] - 1 /\ held'[q][u] \in 1..copies'
  <2>1. CASE q = p /\ u = uidNext[p]
    <3>1. uidNext[p] \in 1..LastUid + 1
      BY ServerNumbers
    <3> QED BY <1>1, <1>4, <2>1, <3>1
  <2>2. CASE ~(q = p /\ u = uidNext[p])
    <3>1. u \in DOMAIN held[q] /\ held'[q][u] = held[q][u]
      BY <1>4, <1>5, <2>2
    <3>2. u \in 1..uidNext[q] - 1 /\ held[q][u] \in 1..copies
      BY <3>1 DEF ServerTyped
    <3>3. uidNext[q] \in Nat
      BY ServerNumbers
    <3>4. uidNext'[q] >= uidNext[q] /\ uidNext'[q] \in Nat
      BY <1>1, <3>3
    <3>5. u \in 1..uidNext'[q] - 1
      BY <3>2, <3>3, <3>4
    <3>6. held[q][u] \in 1..copies'
      BY <1>3, <3>2
    <3> QED BY <3>1, <3>5, <3>6
  <2> QED BY <2>1, <2>2
<1>6. ServerTyped'
  BY <1>2, <1>5 DEF ServerTyped
<1>7. ServerStep
  <2>1. ASSUME NEW q \in Paths, NEW u \in DOMAIN held'[q], u < uidNext[q]
        PROVE  u \in DOMAIN held[q] /\ held'[q][u] = held[q][u]
    <3>1. CASE q = p
      <4>1. u # uidNext[p]
        BY <1>1, <2>1, <3>1
      <4> QED BY <1>4, <2>1, <3>1, <4>1
    <3>2. CASE q # p
      BY <2>1, <3>2
    <3> QED BY <3>1, <3>2
  <2>2. \A q \in Paths : uidNext'[q] >= uidNext[q]
    <3> SUFFICES ASSUME NEW q \in Paths PROVE uidNext'[q] >= uidNext[q]
      OBVIOUS
    <3>1. uidNext[q] \in Nat
      BY ServerNumbers
    <3> QED BY <1>1, <3>1
  <2> QED BY <2>1, <2>2 DEF ServerStep
<1>8. ASSUME NEW pl \in Places, NEW m \in 0..LastCopy, pl = Place(p, uidNext[p]), m = origin'[k] PROVE LeadsTo(pl, m)'
  <2>1. pl.path = p /\ pl.uid = uidNext[p] /\ pl.validity = validity[p]
    BY <1>8 DEF Place
  <2>2. pl.uid < uidNext'[p]
    BY <1>1, <2>1
  <2>3. held'[p][pl.uid] = k
    BY <2>1 DEF With
  <2> QED BY <1>8, <2>1, <2>2, <2>3 DEF LeadsTo, Used, ShowsOnly, OfThisNumbering
<1> QED BY <1>6, <1>7, <1>8

LEMMA MailboxRenumbered == ASSUME ServerTyped, NEW p \in Paths, Renumber(p) PROVE ServerTyped' /\ ServerStep
<1> DEFINE number == Cardinality(DOMAIN held[p])
           values == {held[p][u] : u \in DOMAIN held[p]}
<1>1. PICK order \in [1..number -> values] : /\ held' = [held EXCEPT ![p] = order]
                                             /\ uidNext' = [uidNext EXCEPT ![p] = number + 1]
  BY DEF Renumber
<1>2. uidNext[p] \in Nat /\ uidNext[p] \in 1..LastUid + 1 /\ validity[p] \in Nat /\ validity[p] \in 1..LastValidity
  BY ServerNumbers
<1>3. number \in Nat /\ number <= LastUid
  <2>1. uidNext[p] - 1 \in Nat /\ uidNext[p] - 1 <= LastUid
    BY <1>2, ImapNumbers
  <2>2. IsFiniteSet(1..uidNext[p] - 1) /\ Cardinality(1..uidNext[p] - 1) = uidNext[p] - 1
    <3>1. PICK n : n = uidNext[p] - 1
      OBVIOUS
    <3>2. n \in Int /\ n >= 0
      BY <2>1, <3>1
    <3>3. IsFiniteSet(1..n) /\ Cardinality(1..n) = IF 1 > n THEN 0 ELSE n - 1 + 1
      BY <3>2, FS_Interval
    <3> QED BY <3>1, <3>2, <3>3
  <2>3. DOMAIN held[p] \in SUBSET (1..uidNext[p] - 1)
    BY DEF ServerTyped
  <2>4. number \in Nat /\ number <= uidNext[p] - 1
    BY <2>2, <2>3, FS_Subset, FS_CardinalityType
  <2> QED BY <2>1, <2>4, ImapNumbers
<1>4. validity' = [validity EXCEPT ![p] = @ + 1] /\ validity[p] < LastValidity /\ UNCHANGED <<copies, origin>>
  BY DEF Renumber
<1>5. validity[p] + 1 \in 1..LastValidity /\ validity[p] + 1 > validity[p] /\ number + 1 \in 1..LastUid + 1
  BY <1>2, <1>3, <1>4, ImapNumbers
<1>6. /\ validity' \in [Paths -> 1..LastValidity] /\ uidNext' \in [Paths -> 1..LastUid + 1]
      /\ validity'[p] = validity[p] + 1 /\ uidNext'[p] = number + 1
      /\ \A q \in Paths : q # p => validity'[q] = validity[q] /\ uidNext'[q] = uidNext[q] /\ held'[q] = held[q]
      /\ held'[p] = order /\ DOMAIN held' = Paths
  BY <1>1, <1>4, <1>5 DEF ServerTyped
<1>7. ASSUME NEW q \in Paths, NEW u \in DOMAIN held'[q] PROVE u \in 1..uidNext'[q] - 1 /\ held'[q][u] \in 1..copies'
  <2>1. CASE q = p
    <3>1. u \in 1..number /\ order[u] \in values
      BY <1>1, <1>6, <1>7, <2>1
    <3>2. order[u] \in 1..copies
      BY <3>1 DEF ServerTyped
    <3>3. uidNext'[q] - 1 = number
      BY <1>3, <1>6, <2>1
    <3> QED BY <1>4, <1>6, <2>1, <3>1, <3>2, <3>3
  <2>2. CASE q # p
    BY <1>4, <1>6, <1>7, <2>2 DEF ServerTyped
  <2> QED BY <2>1, <2>2
<1>8. ServerTyped'
  BY <1>4, <1>6, <1>7 DEF ServerTyped
<1>9. ServerStep
  <2>1. \A q \in Paths : q # p => uidNext'[q] >= uidNext[q]
    <3> SUFFICES ASSUME NEW q \in Paths, q # p PROVE uidNext'[q] >= uidNext[q]
      OBVIOUS
    <3>1. uidNext[q] \in Nat /\ uidNext'[q] = uidNext[q]
      BY <1>6, ServerNumbers
    <3> QED BY <3>1
  <2> QED BY <1>4, <1>5, <1>6, <2>1 DEF ServerStep
<1> QED BY <1>8, <1>9

(* What the steps do to the ids and the calls.                                  *)

LEMMA InvalidatedRows ==
    ASSUME IdsTyped, NEW p
    PROVE  /\ Invalidated(locationRows, p) \in [Places -> RowRecords \cup {NoRow}]
           /\ \A i \in Places : Invalidated(locationRows, p)[i] \in {locationRows[i], NoRow}
BY DEF IdsTyped, Invalidated

LEMMA IdForIs ==
    ASSUME NEW table, NEW pl \in Places
    PROVE  /\ IdFor(table, pl) \in Places
           /\ IdFor(table, pl) = pl \/ (table[IdFor(table, pl)] # NoRow /\ table[IdFor(table, pl)].place = pl)
<1>1. CASE RowsAt(table, pl) = {}
  BY <1>1 DEF IdFor
<1>2. CASE RowsAt(table, pl) # {}
  <2>1. IdFor(table, pl) \in RowsAt(table, pl)
    BY <1>2 DEF IdFor
  <2> QED BY <2>1 DEF RowsAt
<1> QED BY <1>1, <1>2

\* Showing a message under an id names the id's message, or gives the id one.
LEMMA GivingOut ==
    ASSUME ImapTyped, NEW id \in Places, NEW k \in 1..copies, GivenOut(id, k)
    PROVE  /\ denotes' \in [Places -> 0..LastCopy] /\ mistaken' \in BOOLEAN /\ denotes'[id] # 0
           /\ \A i \in Places : denotes[i] # 0 => denotes'[i] = denotes[i]
           /\ \A i \in Places : i # id => denotes'[i] = denotes[i]
<1>1. k \in 1..LastCopy
  <2>1. copies \in Nat /\ copies <= LastCopy
    BY ImapNumbers DEF ImapTyped, ServerTyped
  <2> QED BY <2>1, ImapNumbers
<1>2. origin[k] \in 0..LastCopy /\ origin[k] # 0
  BY <1>1 DEF ImapTyped, ServerTyped
<1>3. denotes \in [Places -> 0..LastCopy] /\ mistaken \in BOOLEAN
  BY DEF ImapTyped, IdsTyped
<1>4. mistaken' \in BOOLEAN
  BY <1>3 DEF GivenOut
<1>5. denotes' = IF denotes[id] = 0 THEN [denotes EXCEPT ![id] = origin[k]] ELSE denotes
  BY DEF GivenOut
<1> QED BY <1>2, <1>3, <1>4, <1>5

LEMMA GivingOutLeads ==
    ASSUME ImapTyped, Leads, NEW id \in Places, NEW k \in 1..copies, GivenOut(id, k), UNCHANGED server,
           NEW pl \in Places, id = pl \/ (locationRows[id] # NoRow /\ locationRows[id].place = pl),
           OfThisNumbering(pl), pl.uid \in DOMAIN held[pl.path], held[pl.path][pl.uid] = k
    PROVE  IdsStep /\ (mistaken' <=> mistaken) /\ LeadsTo(pl, denotes[id])'
<1>1. denotes \in [Places -> 0..LastCopy] /\ mistaken \in BOOLEAN
  BY DEF ImapTyped, IdsTyped
<1>2. ASSUME denotes[id] # 0 PROVE denotes[id] = origin[k]
  <2>1. LeadsTo(pl, denotes[id])
    BY <1>2 DEF Leads, RowsLead, IdsLead
  <2> QED BY <2>1 DEF LeadsTo, ShowsOnly
<1>3. denotes'[id] = origin[k]
  BY <1>1, <1>2 DEF GivenOut
<1>4. mistaken' <=> mistaken
  BY <1>3, <1>1 DEF GivenOut
<1>5. Used(pl)
  <2>1. pl.uid \in 1..uidNext[pl.path] - 1 /\ pl.path \in Paths /\ pl.uid \in Nat
    BY PlaceParts DEF ImapTyped, ServerTyped
  <2>2. uidNext[pl.path] \in Nat
    BY <2>1, ServerNumbers DEF ImapTyped
  <2>3. pl.uid < uidNext[pl.path]
    BY <2>1, <2>2
  <2> QED BY <2>3 DEF Used
<1>6. LeadsTo(pl, denotes[id])'
  BY <1>3, <1>5 DEF server, LeadsTo, Used, ShowsOnly, OfThisNumbering
<1>7. IdsStep
  <2>1. \A i \in Places : denotes[i] # 0 => denotes'[i] = denotes[i]
    BY GivingOut
  <2>2. ASSUME NEW i \in Places, denotes[i] = 0, denotes'[i] # 0 PROVE LeadsTo(i, denotes[i])'
    <3>1. i = id
      BY <2>2, GivingOut
    <3>2. id = pl
      BY <2>2, <3>1 DEF ImapTyped, IdsTyped
    <3> QED BY <1>6, <3>1, <3>2
  <2> QED BY <2>1, <2>2 DEF IdsStep
<1> QED BY <1>4, <1>6, <1>7

LEMMA SameIds == ASSUME UNCHANGED denotes PROVE IdsStep
BY DEF IdsStep

LEMMA OneCallSteps ==
    ASSUME CallsTyped, \A i \in Places : denotes[i] # 0 => denotes'[i] = denotes[i],
           NEW c \in ImapCalls, NEW r \in CallRecords, imapCall' = [imapCall EXCEPT ![c] = r], CallTyped(c)'
    PROVE  CallsTyped'
<1>1. imapCall' \in [ImapCalls -> CallRecords]
  BY DEF CallsTyped
<1>2. ASSUME NEW d \in ImapCalls PROVE CallTyped(d)'
  <2>1. CASE d # c
    <3>1. imapCall'[d] = imapCall[d] /\ CallTyped(d)
      BY <2>1 DEF CallsTyped
    <3> QED BY <3>1 DEF CallTyped, ActiveCall, Targeted
  <2> QED BY <2>1
<1> QED BY <1>1, <1>2 DEF CallsTyped

LEMMA SameCalls ==
    ASSUME CallsTyped, \A i \in Places : denotes[i] # 0 => denotes'[i] = denotes[i], UNCHANGED imapCall
    PROVE  CallsTyped' /\ CallsStep
<1>1. ASSUME NEW d \in ImapCalls PROVE CallTyped(d)'
  <2>1. CallTyped(d)
    BY DEF CallsTyped
  <2> QED BY <2>1 DEF CallTyped, ActiveCall, Targeted
<1> QED BY <1>1 DEF CallsTyped, CallsStep

LEMMA CallEnds ==
    ASSUME CallsTyped, \A i \in Places : denotes[i] # 0 => denotes'[i] = denotes[i],
           NEW c \in ImapCalls, Ends(c)
    PROVE  CallsTyped' /\ CallsStep
<1> DEFINE r == [at |-> "done", kind |-> "read", id |-> NoRow, row |-> NoRow, target |-> NoRow]
<1>0. [NewCall EXCEPT !.at = "done"] = r
  BY DEF NewCall
<1>1. imapCall' = [imapCall EXCEPT ![c] = r]
  BY <1>0 DEF Ends
<1>2. r \in CallRecords
  BY DEF CallRecords
<1>3. imapCall'[c].at = "done" /\ \A d \in ImapCalls : d # c => imapCall'[d] = imapCall[d]
  BY <1>1 DEF CallsTyped
<1>4. CallTyped(c)'
  BY <1>3 DEF CallTyped, ActiveCall, Targeted
<1>5. CallsTyped'
  BY <1>1, <1>2, <1>4, OneCallSteps
<1>6. CallLeads(c)'
  BY <1>3 DEF CallLeads, ActiveCall, Targeted
<1> QED BY <1>3, <1>5, <1>6 DEF CallsStep

LEMMA RowsDropped ==
    ASSUME IdsTyped, \A i \in Places : denotes[i] # 0 => denotes'[i] = denotes[i],
           denotes' \in [Places -> 0..LastCopy], mistaken' \in BOOLEAN, strayed' \in BOOLEAN,
           locationRows' \in [Places -> RowRecords \cup {NoRow}],
           \A i \in Places : locationRows'[i] \in {locationRows[i], NoRow}
    PROVE  IdsTyped' /\ RowsStep
BY DEF IdsTyped, RowsStep

LEMMA RowSet ==
    ASSUME IdsTyped, \A i \in Places : denotes[i] # 0 => denotes'[i] = denotes[i],
           denotes' \in [Places -> 0..LastCopy], mistaken' \in BOOLEAN, strayed' \in BOOLEAN,
           NEW table \in [Places -> RowRecords \cup {NoRow}],
           \A i \in Places : table[i] \in {locationRows[i], NoRow},
           NEW id \in Places, NEW row \in RowRecords \cup {NoRow}, locationRows' = [table EXCEPT ![id] = row],
           row # NoRow => denotes'[id] # 0
    PROVE  IdsTyped' /\ (row = NoRow \/ LeadsTo(row.place, denotes[id])' => RowsStep)
<1>1. locationRows' \in [Places -> RowRecords \cup {NoRow}] /\ locationRows'[id] = row
  OBVIOUS
<1>2. \A i \in Places : i # id => locationRows'[i] \in {locationRows[i], NoRow}
  OBVIOUS
<1>3. IdsTyped'
  BY <1>1, <1>2 DEF IdsTyped
<1>4. ASSUME row = NoRow \/ LeadsTo(row.place, denotes[id])' PROVE RowsStep
  BY <1>1, <1>2, <1>4 DEF RowsStep, LeadsTo, Used, ShowsOnly, OfThisNumbering
<1> QED BY <1>3, <1>4

LEMMA ImapKeeping ==
    ASSUME ImapInv, ServerTyped', IdsTyped', CallsTyped', ServerStep, strayed => strayed',
           ~strayed' /\ Leads /\ ~mistaken => IdsStep /\ RowsStep /\ CallsStep /\ ~mistaken'
    PROVE  ImapInv'
<1>1. ImapTyped'
  BY DEF ImapTyped
<1>2. ASSUME ~strayed' PROVE Leads' /\ ~mistaken'
  <2>1. Leads /\ ~mistaken
    BY <1>2 DEF ImapInv
  <2> QED BY <1>2, <2>1, AllStillLead DEF ImapInv
<1> QED BY <1>1, <1>2 DEF ImapInv

LEMMA PlaceHeld ==
    ASSUME ImapTyped, NEW p \in Paths, NEW uid \in DOMAIN held[p]
    PROVE  Place(p, uid) \in Places /\ held[p][uid] \in 1..copies
<1>1. uid \in 1..uidNext[p] - 1 /\ held[p][uid] \in 1..copies
  BY DEF ImapTyped, ServerTyped
<1>2. uidNext[p] \in Nat /\ uidNext[p] <= LastUid + 1 /\ validity[p] \in 1..LastValidity
  BY ServerNumbers, ImapNumbers DEF ImapTyped
<1>3. uid \in 1..LastUid
  BY <1>1, <1>2, ImapNumbers
<1> QED BY <1>1, <1>2, <1>3 DEF Place, Places

LEMMA FindKeeps == ASSUME ImapInv, NEW p \in Paths, NEW uid \in DOMAIN held[p], FindMessage(p, uid) PROVE ImapInv'
<1>t. ImapTyped /\ ServerTyped /\ IdsTyped /\ CallsTyped
  BY DEF ImapInv, ImapTyped
<1>1. PICK pl \in Places : pl = Place(p, uid)
  BY <1>t, PlaceHeld
<1>2. PICK k \in 1..copies : k = held[p][uid]
  BY <1>t, PlaceHeld
<1>3. PICK table : table = Invalidated(locationRows, p)
  OBVIOUS
<1>4. table \in [Places -> RowRecords \cup {NoRow}] /\ \A i \in Places : table[i] \in {locationRows[i], NoRow}
  BY <1>t, <1>3, InvalidatedRows
<1>5. PICK id \in Places : id = IdFor(table, pl)
  BY IdForIs
<1>6. id = pl \/ (table[id] # NoRow /\ table[id].place = pl)
  BY <1>5, IdForIs
<1>7. PICK draft \in BOOLEAN : locationRows' = [table EXCEPT ![id] = At(pl, draft)]
  <2>1. PICK d : d = IF table[id] = NoRow THEN p = DraftsPath ELSE table[id].draft \/ p = DraftsPath
    OBVIOUS
  <2>2. d \in BOOLEAN
    BY <2>1
  <2>3. locationRows' = [table EXCEPT ![id] = At(pl, d)]
    BY <1>1, <1>3, <1>5, <2>1 DEF FindMessage
  <2> QED BY <2>2, <2>3
<1>8. GivenOut(id, k) /\ UNCHANGED server /\ UNCHANGED imapCall /\ UNCHANGED strayed
  BY <1>1, <1>2, <1>3, <1>5 DEF FindMessage
<1>9. PICK row \in RowRecords : row = At(pl, draft) /\ row.place = pl
  <2>1. At(pl, draft) \in RowRecords /\ At(pl, draft).place = pl
    BY DEF At, RowRecords
  <2> QED BY <2>1
<1>10. ServerTyped' /\ ServerStep
  BY <1>t, <1>8, SameServer
<1>11. /\ denotes' \in [Places -> 0..LastCopy] /\ mistaken' \in BOOLEAN /\ denotes'[id] # 0
       /\ \A i \in Places : denotes[i] # 0 => denotes'[i] = denotes[i]
  BY <1>t, <1>8, GivingOut
<1>12. strayed' \in BOOLEAN
  BY <1>t, <1>8 DEF IdsTyped
<1>13. IdsTyped' /\ (LeadsTo(pl, denotes[id])' => RowsStep)
  <2>1. row \in RowRecords \cup {NoRow} /\ locationRows' = [table EXCEPT ![id] = row]
    BY <1>7, <1>9
  <2>2. IdsTyped' /\ (row = NoRow \/ LeadsTo(row.place, denotes[id])' => RowsStep)
    BY <1>t, <1>4, <1>11, <1>12, <2>1, RowSet
  <2> QED BY <1>9, <2>2 DEF LeadsTo, Used, ShowsOnly, OfThisNumbering
<1>14. CallsTyped' /\ CallsStep
  BY <1>t, <1>8, <1>11, SameCalls
<1>15. ASSUME Leads PROVE IdsStep /\ (mistaken' <=> mistaken) /\ RowsStep
  <2>1. id = pl \/ (locationRows[id] # NoRow /\ locationRows[id].place = pl)
    BY <1>4, <1>6
  <2>2. OfThisNumbering(pl) /\ pl.uid \in DOMAIN held[pl.path] /\ held[pl.path][pl.uid] = k
    BY <1>1, <1>2 DEF Place, OfThisNumbering
  <2>3. IdsStep /\ (mistaken' <=> mistaken) /\ LeadsTo(pl, denotes[id])'
    BY <1>t, <1>8, <1>15, <2>1, <2>2, GivingOutLeads
  <2> QED BY <1>13, <2>3
<1> QED BY <1>8, <1>10, <1>13, <1>14, <1>15, ImapKeeping

LEMMA BeginKeeps ==
    ASSUME ImapInv, NEW c \in ImapCalls, NEW id \in Places,
           NEW kind \in {"read", "flag", "delete", "discard", "move", "update", "send"}, BeginCall(c, kind, id)
    PROVE  ImapInv'
<1>t. ImapTyped /\ ServerTyped /\ IdsTyped /\ CallsTyped
  BY DEF ImapInv, ImapTyped
<1>1. UNCHANGED server /\ UNCHANGED <<locationRows, denotes, mistaken, strayed>>
  BY DEF BeginCall
<1>2. ServerTyped' /\ ServerStep
  BY <1>t, <1>1, SameServer
<1>3. IdsTyped' /\ RowsStep
  BY <1>t, <1>1 DEF IdsTyped, RowsStep
<1>4. locationRows[id] # NoRow /\ locationRows[id] \in RowRecords /\ denotes[id] # 0
  BY <1>t DEF BeginCall, IdsTyped
<1>5. PICK r : r = [at |-> "row", kind |-> kind, id |-> id, row |-> locationRows[id], target |-> NoRow]
  OBVIOUS
<1>6. r \in CallRecords /\ imapCall' = [imapCall EXCEPT ![c] = r]
  BY <1>4, <1>5 DEF CallRecords, BeginCall
<1>7. imapCall'[c] = r /\ \A d \in ImapCalls : d # c => imapCall'[d] = imapCall[d]
  BY <1>t, <1>6 DEF CallsTyped
<1>8. CallTyped(c)'
  BY <1>1, <1>4, <1>5, <1>7 DEF CallTyped, ActiveCall, Targeted
<1>9. CallsTyped'
  BY <1>t, <1>1, <1>6, <1>8, OneCallSteps
<1>10. ASSUME Leads PROVE CallsStep
  <2>1. LeadsTo(locationRows[id].place, denotes[id])
    BY <1>4, <1>10 DEF Leads, RowsLead
  <2>2. CallLeads(c)'
    BY <1>1, <1>5, <1>7, <2>1 DEF CallLeads, ActiveCall, Targeted, LeadsTo, Used, ShowsOnly, OfThisNumbering, server
  <2> QED BY <1>7, <2>2 DEF CallsStep
<1> QED BY <1>1, <1>2, <1>3, <1>9, <1>10, SameIds, ImapKeeping

\* A call that is under way has read a row of an id that was given out.
LEMMA ActiveRow ==
    ASSUME ImapTyped, NEW c \in ImapCalls, ActiveCall(c)
    PROVE  /\ Row(c) \in Places /\ Row(c).path \in Paths
           /\ imapCall[c].id \in Places /\ imapCall[c].row \in RowRecords /\ denotes[imapCall[c].id] # 0
           /\ imapCall[c] \in CallRecords
<1>1. imapCall[c].id \in Places /\ imapCall[c].row \in RowRecords /\ denotes[imapCall[c].id] # 0 /\ imapCall[c] \in CallRecords
  BY DEF ImapTyped, CallsTyped, CallTyped
<1>2. Row(c) \in Places
  BY <1>1 DEF Row, RowRecords
<1>3. Row(c).path \in Paths
  BY <1>2, PlaceParts
<1> QED BY <1>1, <1>2, <1>3

\* With the numbering it was read under, a row names its id's message.
LEMMA RowNamesIt ==
    ASSUME ImapTyped, NEW c \in ImapCalls, ActiveCall(c), There(c)
    PROVE  /\ Named(c) \in 1..copies
           /\ Leads /\ ~Stale(c) => origin[Named(c)] = denotes[imapCall[c].id]
<1>1. Named(c) \in 1..copies
  BY ActiveRow DEF There, Held, Named, ImapTyped, ServerTyped
<1>2. ASSUME Leads, ~Stale(c) PROVE origin[Named(c)] = denotes[imapCall[c].id]
  <2>1. LeadsTo(Row(c), denotes[imapCall[c].id])
    BY <1>2 DEF Leads, CallsLead, CallLeads, Row
  <2> QED BY <1>2, <2>1 DEF LeadsTo, ShowsOnly, OfThisNumbering, Stale, There, Held, Named
<1> QED BY <1>1, <1>2

LEMMA TouchingTells ==
    ASSUME ImapTyped, NEW c \in ImapCalls, ActiveCall(c), IF There(c) THEN Touches(c) ELSE UNCHANGED mistaken
    PROVE  mistaken' \in BOOLEAN /\ (Leads /\ ~Stale(c) => (mistaken' <=> mistaken))
<1>1. mistaken \in BOOLEAN
  BY DEF ImapTyped, IdsTyped
<1>2. CASE There(c)
  <2>1. mistaken' = (mistaken \/ origin[Named(c)] # denotes[imapCall[c].id])
    BY <1>2 DEF Touches
  <2> QED BY <1>1, <1>2, <2>1, RowNamesIt
<1>3. CASE ~There(c)
  BY <1>1, <1>3
<1> QED BY <1>2, <1>3

LEMMA ReadKeeps == ASSUME ImapInv, NEW c \in ImapCalls, ReadMessage(c) PROVE ImapInv'
<1>t. ImapTyped /\ ServerTyped /\ IdsTyped /\ CallsTyped
  BY DEF ImapInv, ImapTyped
<1>1. ActiveCall(c) /\ Ends(c) /\ UNCHANGED server /\ UNCHANGED strayed
  BY DEF ReadMessage, Acting, ActiveCall
<1>2. PICK pl \in Places : pl = Row(c)
  BY <1>t, <1>1, ActiveRow
<1>3. PICK table : table = Invalidated(locationRows, pl.path)
  OBVIOUS
<1>4. table \in [Places -> RowRecords \cup {NoRow}] /\ \A i \in Places : table[i] \in {locationRows[i], NoRow}
  BY <1>t, <1>3, InvalidatedRows
<1>5. ServerTyped' /\ ServerStep
  BY <1>t, <1>1, SameServer
<1>6. strayed' \in BOOLEAN
  BY <1>t, <1>1 DEF IdsTyped
<1>7. CASE ~StillThere(c)
  <2>1. locationRows' = table /\ UNCHANGED <<denotes, mistaken>>
    BY <1>2, <1>3, <1>7 DEF ReadMessage
  <2>2. IdsTyped' /\ RowsStep
    BY <1>t, <1>4, <1>6, <2>1, RowsDropped DEF IdsTyped
  <2>3. CallsTyped' /\ CallsStep
    BY <1>t, <1>1, <2>1, CallEnds
  <2> QED BY <1>1, <1>5, <2>1, <2>2, <2>3, SameIds, ImapKeeping
<1>8. CASE StillThere(c)
  <2>1. PICK k \in 1..copies : k = Named(c)
    BY <1>t, <1>1, <1>8, RowNamesIt DEF StillThere
  <2>2. PICK id \in Places : id = IdFor(table, pl)
    BY IdForIs
  <2>3. id = pl \/ (table[id] # NoRow /\ table[id].place = pl)
    BY <2>2, IdForIs
  <2>4. GivenOut(id, k) /\ locationRows' = [table EXCEPT ![id] = At(pl, imapCall[c].row.draft)]
    BY <1>2, <1>3, <1>8, <2>1, <2>2 DEF ReadMessage
  <2>5. PICK row \in RowRecords : row = At(pl, imapCall[c].row.draft) /\ row.place = pl
    <3>1. imapCall[c].row.draft \in BOOLEAN
      BY <1>t, <1>1, ActiveRow DEF RowRecords
    <3>2. At(pl, imapCall[c].row.draft) \in RowRecords /\ At(pl, imapCall[c].row.draft).place = pl
      BY <3>1 DEF At, RowRecords
    <3> QED BY <3>2
  <2>6. /\ denotes' \in [Places -> 0..LastCopy] /\ mistaken' \in BOOLEAN /\ denotes'[id] # 0
        /\ \A i \in Places : denotes[i] # 0 => denotes'[i] = denotes[i]
    BY <1>t, <2>4, GivingOut
  <2>7. IdsTyped' /\ (LeadsTo(pl, denotes[id])' => RowsStep)
    <3>1. row \in RowRecords \cup {NoRow} /\ locationRows' = [table EXCEPT ![id] = row]
      BY <2>4, <2>5
    <3>2. IdsTyped' /\ (row = NoRow \/ LeadsTo(row.place, denotes[id])' => RowsStep)
      BY <1>t, <1>4, <1>6, <2>6, <3>1, RowSet
    <3> QED BY <2>5, <3>2 DEF LeadsTo, Used, ShowsOnly, OfThisNumbering
  <2>8. CallsTyped' /\ CallsStep
    BY <1>t, <1>1, <2>6, CallEnds
  <2>9. ASSUME Leads PROVE IdsStep /\ (mistaken' <=> mistaken) /\ RowsStep
    <3>1. id = pl \/ (locationRows[id] # NoRow /\ locationRows[id].place = pl)
      BY <1>4, <2>3
    <3>2. OfThisNumbering(pl) /\ pl.uid \in DOMAIN held[pl.path] /\ held[pl.path][pl.uid] = k
      BY <1>2, <1>8, <2>1 DEF StillThere, Stale, There, Held, Named, OfThisNumbering
    <3>3. IdsStep /\ (mistaken' <=> mistaken) /\ LeadsTo(pl, denotes[id])'
      BY <1>t, <1>1, <2>4, <2>9, <3>1, <3>2, GivingOutLeads
    <3> QED BY <2>7, <3>3
  <2> QED BY <1>1, <1>5, <2>7, <2>8, <2>9, ImapKeeping
<1> QED BY <1>7, <1>8

\* What the operations that change a message in place have in common: the row is
\* dropped or kept, the UID's message touched, and the call ends or goes on.
LEMMA ChangeKeeps ==
    ASSUME ImapInv, NEW c \in ImapCalls, ActiveCall(c), UNCHANGED denotes,
           IF There(c) THEN Touches(c) ELSE UNCHANGED mistaken, strayed' = (strayed \/ Stale(c)),
           locationRows' \in [Places -> RowRecords \cup {NoRow}],
           \A i \in Places : locationRows'[i] \in {locationRows[i], NoRow},
           ServerTyped', ServerStep, CallsTyped', Leads /\ ~Stale(c) => CallsStep
    PROVE  ImapInv'
<1>t. ImapTyped /\ ServerTyped /\ IdsTyped /\ CallsTyped
  BY DEF ImapInv, ImapTyped
<1>1. mistaken' \in BOOLEAN /\ (Leads /\ ~Stale(c) => (mistaken' <=> mistaken))
  BY <1>t, TouchingTells
<1>2. Stale(c) \in BOOLEAN
  BY DEF Stale
<1>3. strayed' \in BOOLEAN /\ (strayed => strayed') /\ (~strayed' => ~Stale(c))
  BY <1>t, <1>2 DEF IdsTyped
<1>4. IdsTyped' /\ RowsStep
  BY <1>t, <1>1, <1>3, RowsDropped DEF IdsTyped
<1> QED BY <1>1, <1>3, <1>4, SameIds, ImapKeeping

LEMMA FlagsKeep == ASSUME ImapInv, NEW c \in ImapCalls, ChangeFlags(c) PROVE ImapInv'
<1>t. ImapTyped /\ ServerTyped /\ IdsTyped /\ CallsTyped
  BY DEF ImapInv, ImapTyped
<1>1. /\ ActiveCall(c) /\ Ends(c) /\ UNCHANGED server /\ UNCHANGED denotes
      /\ IF There(c) THEN Touches(c) ELSE UNCHANGED mistaken
      /\ strayed' = (strayed \/ Stale(c)) /\ locationRows' = Invalidated(locationRows, Row(c).path)
  BY DEF ChangeFlags, Acting, ActiveCall
<1>2. /\ locationRows' \in [Places -> RowRecords \cup {NoRow}]
      /\ \A i \in Places : locationRows'[i] \in {locationRows[i], NoRow}
  BY <1>t, <1>1, InvalidatedRows
<1>3. ServerTyped' /\ ServerStep /\ CallsTyped' /\ CallsStep
  BY <1>t, <1>1, SameServer, CallEnds
<1> QED BY <1>1, <1>2, <1>3, ChangeKeeps

LEMMA DropKeeps == ASSUME ImapInv, NEW c \in ImapCalls, DropOldCopy(c) PROVE ImapInv'
<1>t. ImapTyped /\ ServerTyped /\ IdsTyped /\ CallsTyped
  BY DEF ImapInv, ImapTyped
<1>1. /\ ActiveCall(c) /\ Ends(c) /\ UNCHANGED <<validity, uidNext, copies, origin>> /\ UNCHANGED denotes
      /\ IF There(c) THEN Touches(c) ELSE UNCHANGED mistaken
      /\ held' = [held EXCEPT ![Row(c).path] = Without(@, Row(c).uid)]
      /\ strayed' = (strayed \/ Stale(c)) /\ locationRows' = Invalidated(locationRows, Row(c).path)
  BY DEF DropOldCopy, Acting, ActiveCall
<1>2. /\ locationRows' \in [Places -> RowRecords \cup {NoRow}]
      /\ \A i \in Places : locationRows'[i] \in {locationRows[i], NoRow}
  BY <1>t, <1>1, InvalidatedRows
<1>3. ServerTyped' /\ ServerStep
  BY <1>t, <1>1, ActiveRow, MessageRemoved
<1>4. CallsTyped' /\ CallsStep
  BY <1>t, <1>1, CallEnds
<1> QED BY <1>1, <1>2, <1>3, <1>4, ChangeKeeps

LEMMA DeleteKeeps == ASSUME ImapInv, NEW c \in ImapCalls, DeleteMessage(c) PROVE ImapInv'
<1>t. ImapTyped /\ ServerTyped /\ IdsTyped /\ CallsTyped
  BY DEF ImapInv, ImapTyped
<1>1. /\ ActiveCall(c) /\ Ends(c) /\ UNCHANGED <<validity, uidNext, copies, origin>> /\ UNCHANGED denotes
      /\ IF There(c) THEN Touches(c) ELSE UNCHANGED mistaken
      /\ held' = [held EXCEPT ![Row(c).path] = Without(@, Row(c).uid)]
      /\ strayed' = (strayed \/ Stale(c))
      /\ locationRows' = [Invalidated(locationRows, Row(c).path) EXCEPT ![imapCall[c].id] = NoRow]
  BY DEF DeleteMessage, Acting, ActiveCall
<1>2. /\ locationRows' \in [Places -> RowRecords \cup {NoRow}]
      /\ \A i \in Places : locationRows'[i] \in {locationRows[i], NoRow}
  BY <1>t, <1>1, InvalidatedRows
<1>3. ServerTyped' /\ ServerStep
  BY <1>t, <1>1, ActiveRow, MessageRemoved
<1>4. CallsTyped' /\ CallsStep
  BY <1>t, <1>1, CallEnds
<1> QED BY <1>1, <1>2, <1>3, <1>4, ChangeKeeps

\* A call's record after a step that changes where the call is.
LEMMA CallRecordAt ==
    ASSUME NEW f \in CallRecords, NEW at
    PROVE  [f EXCEPT !.at = at] = [at |-> at, kind |-> f.kind, id |-> f.id, row |-> f.row, target |-> f.target]
BY DEF CallRecords

LEMMA CallRecordTo ==
    ASSUME NEW f \in CallRecords, NEW at, NEW to
    PROVE  [f EXCEPT !.at = at, !.target = to] = [at |-> at, kind |-> f.kind, id |-> f.id, row |-> f.row, target |-> to]
<1>1. PICK a, k, i, r, t : f = [at |-> a, kind |-> k, id |-> i, row |-> r, target |-> t]
  BY DEF CallRecords
<1>2. f.kind = k /\ f.id = i /\ f.row = r
  BY <1>1
<1>3. [f EXCEPT !.at = at, !.target = to] = [[f EXCEPT !.at = at] EXCEPT !.target = to]
  BY <1>1
<1>4. [f EXCEPT !.at = at] = [at |-> at, kind |-> k, id |-> i, row |-> r, target |-> t]
  BY <1>1
<1>5. [[at |-> at, kind |-> k, id |-> i, row |-> r, target |-> t] EXCEPT !.target = to]
        = [at |-> at, kind |-> k, id |-> i, row |-> r, target |-> to]
  OBVIOUS
<1> QED BY <1>2, <1>3, <1>4, <1>5

LEMMA DeliverKeeps == ASSUME ImapInv, NEW c \in ImapCalls, DeliverDraft(c) PROVE ImapInv'
<1>t. ImapTyped /\ ServerTyped /\ IdsTyped /\ CallsTyped
  BY DEF ImapInv, ImapTyped
<1>1. /\ ActiveCall(c) /\ UNCHANGED server /\ UNCHANGED denotes
      /\ IF There(c) THEN Touches(c) ELSE UNCHANGED mistaken
      /\ strayed' = (strayed \/ Stale(c)) /\ locationRows' = Invalidated(locationRows, Row(c).path)
      /\ imapCall' = [imapCall EXCEPT ![c].at = "sent"]
  BY DEF DeliverDraft, Acting, ActiveCall
<1>2. /\ locationRows' \in [Places -> RowRecords \cup {NoRow}]
      /\ \A i \in Places : locationRows'[i] \in {locationRows[i], NoRow}
  BY <1>t, <1>1, InvalidatedRows
<1>3. ServerTyped' /\ ServerStep
  BY <1>t, <1>1, SameServer
<1>4. imapCall[c] \in CallRecords
  BY <1>t, <1>1, ActiveRow
<1>5. PICK r : r = [at |-> "sent", kind |-> imapCall[c].kind, id |-> imapCall[c].id,
                    row |-> imapCall[c].row, target |-> imapCall[c].target]
  OBVIOUS
<1>6. r \in CallRecords /\ imapCall' = [imapCall EXCEPT ![c] = r]
  <2>1. r \in CallRecords
    BY <1>4, <1>5 DEF CallRecords
  <2>2. imapCall' = [imapCall EXCEPT ![c] = [imapCall[c] EXCEPT !.at = "sent"]]
    BY <1>1
  <2> QED BY <1>4, <1>5, <2>1, <2>2, CallRecordAt
<1>7. imapCall'[c] = r /\ \A d \in ImapCalls : d # c => imapCall'[d] = imapCall[d]
  BY <1>t, <1>6 DEF CallsTyped
<1>8. CallTyped(c)'
  BY <1>t, <1>1, <1>5, <1>7, ActiveRow DEF CallTyped, ActiveCall, Targeted
<1>9. CallsTyped'
  BY <1>t, <1>1, <1>6, <1>8, OneCallSteps
<1>10. ASSUME Leads PROVE CallsStep
  <2>1. LeadsTo(imapCall[c].row.place, denotes[imapCall[c].id])
    BY <1>1, <1>10 DEF Leads, CallsLead, CallLeads
  <2>2. imapCall'[c].at = "sent" /\ imapCall'[c].id = imapCall[c].id /\ imapCall'[c].row = imapCall[c].row
    BY <1>5, <1>7
  <2>3. LeadsTo(imapCall[c].row.place, denotes[imapCall[c].id])'
    BY <1>1, <2>1, <2>2 DEF LeadsTo, Used, ShowsOnly, OfThisNumbering, server
  <2>4. CallLeads(c)'
    BY <2>2, <2>3 DEF CallLeads, Targeted
  <2> QED BY <1>7, <2>4 DEF CallsStep
<1> QED BY <1>1, <1>2, <1>3, <1>9, <1>10, ChangeKeeps

LEMMA NextPlace ==
    ASSUME ImapTyped, NEW p \in Paths, uidNext[p] <= LastUid
    PROVE  Place(p, uidNext[p]) \in Places
<1>1. uidNext[p] \in 1..LastUid + 1 /\ validity[p] \in 1..LastValidity /\ uidNext[p] \in Nat
  BY ServerNumbers DEF ImapTyped
<1>2. uidNext[p] \in 1..LastUid
  BY <1>1, ImapNumbers
<1> QED BY <1>1, <1>2 DEF Place, Places

\* A call that has put its message at the next UID of a mailbox remembers the place.
LEMMA CallTargets ==
    ASSUME ImapTyped, ServerTyped', ServerStep, UNCHANGED denotes, NEW c \in ImapCalls, ActiveCall(c),
           NEW at \in {"appended", "moved"}, NEW pl \in Places,
           imapCall' = [imapCall EXCEPT ![c].at = at, ![c].target = pl]
    PROVE  CallsTyped' /\ (Leads /\ LeadsTo(pl, denotes[imapCall[c].id])' => CallsStep)
<1>t. ServerTyped /\ CallsTyped
  BY DEF ImapTyped
<1>4. imapCall[c] \in CallRecords
  BY ActiveRow
<1>5. PICK r : r = [at |-> at, kind |-> imapCall[c].kind, id |-> imapCall[c].id,
                    row |-> imapCall[c].row, target |-> pl]
  OBVIOUS
<1>6. r \in CallRecords /\ imapCall' = [imapCall EXCEPT ![c] = r]
  <2>1. r \in CallRecords
    BY <1>4, <1>5 DEF CallRecords
  <2>2. imapCall' = [imapCall EXCEPT ![c] = [imapCall[c] EXCEPT !.at = at, !.target = pl]]
    OBVIOUS
  <2> QED BY <1>4, <1>5, <2>1, <2>2, CallRecordTo
<1>7. imapCall'[c] = r /\ \A d \in ImapCalls : d # c => imapCall'[d] = imapCall[d]
  BY <1>t, <1>6 DEF CallsTyped
<1>8. CallTyped(c)'
  BY <1>5, <1>7, ActiveRow DEF CallTyped, ActiveCall, Targeted
<1>9. CallsTyped'
  BY <1>t, <1>6, <1>8, OneCallSteps
<1>10. ASSUME Leads, LeadsTo(pl, denotes[imapCall[c].id])' PROVE CallsStep
  <2>0. imapCall'[c].id = imapCall[c].id /\ imapCall'[c].row = imapCall[c].row /\ imapCall'[c].target = pl
    BY <1>5, <1>7
  <2>1. LeadsTo(imapCall[c].row.place, denotes[imapCall[c].id])
    BY <1>10 DEF Leads, CallsLead, CallLeads
  <2>2. PICK place1 \in Places : place1 = imapCall[c].row.place
    BY ActiveRow DEF Row
  <2>3. PICK m : m = denotes[imapCall[c].id]
    OBVIOUS
  <2>4. LeadsTo(place1, m)'
    BY <1>t, <2>1, <2>2, <2>3, ServerKeeps
  <2>5. LeadsTo(imapCall[c].row.place, denotes[imapCall[c].id])'
    BY <2>0, <2>2, <2>3, <2>4 DEF LeadsTo, Used, ShowsOnly, OfThisNumbering
  <2>6. LeadsTo(imapCall[c].target, denotes[imapCall[c].id])'
    BY <1>10, <2>0 DEF LeadsTo, Used, ShowsOnly, OfThisNumbering
  <2>7. CallLeads(c)'
    BY <2>5, <2>6 DEF CallLeads
  <2> QED BY <1>7, <2>7 DEF CallsStep
<1> QED BY <1>9, <1>10

LEMMA MoveKeeps == ASSUME ImapInv, NEW c \in ImapCalls, NEW p \in Paths, MoveMessage(c, p) PROVE ImapInv'
<1>t. ImapTyped /\ ServerTyped /\ IdsTyped /\ CallsTyped
  BY DEF ImapInv, ImapTyped
<1>1. /\ ActiveCall(c) /\ UNCHANGED denotes /\ UNCHANGED <<validity, copies, origin>>
      /\ IF There(c) THEN Touches(c) ELSE UNCHANGED mistaken
      /\ strayed' = (strayed \/ Stale(c)) /\ p # Row(c).path /\ uidNext[p] <= LastUid
  BY DEF MoveMessage, Acting, ActiveCall
<1>2. /\ locationRows' \in [Places -> RowRecords \cup {NoRow}]
      /\ \A i \in Places : locationRows'[i] \in {locationRows[i], NoRow}
  <2>1. PICK table : table = Invalidated(locationRows, Row(c).path)
    OBVIOUS
  <2>2. table \in [Places -> RowRecords \cup {NoRow}] /\ \A i \in Places : table[i] \in {locationRows[i], NoRow}
    BY <1>t, <2>1, InvalidatedRows
  <2>3. locationRows' = table \/ locationRows' = [table EXCEPT ![imapCall[c].id] = NoRow]
    BY <2>1 DEF MoveMessage
  <2> QED BY <2>2, <2>3
<1>3. CASE ~There(c)
  <2>1. Ends(c) /\ UNCHANGED <<held, uidNext>>
    BY <1>3 DEF MoveMessage
  <2>2. ServerTyped' /\ ServerStep
    BY <1>t, <1>1, <2>1, SameServer DEF server
  <2>3. CallsTyped' /\ CallsStep
    BY <1>t, <1>1, <2>1, CallEnds
  <2> QED BY <1>1, <1>2, <2>2, <2>3, ChangeKeeps
<1>4. CASE There(c)
  <2>1. /\ held' = [held EXCEPT ![Row(c).path] = Without(@, Row(c).uid), ![p] = With(@, uidNext[p], Named(c))]
        /\ uidNext' = [uidNext EXCEPT ![p] = @ + 1]
        /\ imapCall' = [imapCall EXCEPT ![c].at = "moved", ![c].target = Place(p, uidNext[p])]
    BY <1>4 DEF MoveMessage
  <2>2. PICK k \in 1..copies : k = Named(c)
    BY <1>t, <1>1, <1>4, RowNamesIt
  <2>3. PICK old : old = held[p]
    OBVIOUS
  <2>4. Row(c).path \in Paths /\ DOMAIN held = Paths
    BY <1>t, <1>1, ActiveRow DEF ServerTyped
  <2>5. DOMAIN held' = Paths /\ held'[p] = With(old, uidNext[p], k)
    BY <1>1, <2>1, <2>2, <2>3, <2>4
  <2>6. \A q \in Paths : q # p => \A u \in DOMAIN held'[q] : u \in DOMAIN held[q] /\ held'[q][u] = held[q][u]
    BY <1>1, <2>1, <2>4 DEF Without
  <2>7. /\ copies' \in 0..LastCopy /\ copies' >= copies /\ k \in 1..copies'
        /\ origin' \in [1..LastCopy -> 0..LastCopy] /\ \A n \in 1..copies' : origin'[n] # 0
        /\ \A n \in 1..copies : origin'[n] = origin[n]
    <3>1. copies \in Nat
      BY <1>t, ImapNumbers DEF ServerTyped
    <3> QED BY <1>t, <1>1, <3>1 DEF ServerTyped
  <2>8. PICK pl \in Places : pl = Place(p, uidNext[p])
    BY <1>t, <1>1, NextPlace
  <2>9. /\ ServerTyped' /\ ServerStep
        /\ \A m \in 0..LastCopy : m = origin'[k] => LeadsTo(pl, m)'
    <3>1. /\ ServerTyped' /\ ServerStep
          /\ \A q \in Places, m \in 0..LastCopy : q = Place(p, uidNext[p]) /\ m = origin'[k] => LeadsTo(q, m)'
      <4>1. uidNext' = [uidNext EXCEPT ![p] = @ + 1] /\ validity' = validity /\ uidNext[p] <= LastUid
        BY <1>1, <2>1
      <4> QED BY <1>t, <2>3, <2>5, <2>6, <2>7, <4>1, MessageAdded
    <3> QED BY <2>8, <3>1
  <2>10. imapCall' = [imapCall EXCEPT ![c].at = "moved", ![c].target = pl]
    BY <2>1, <2>8
  <2>11. CallsTyped' /\ (Leads /\ LeadsTo(pl, denotes[imapCall[c].id])' => CallsStep)
    BY <1>t, <1>1, <2>9, <2>10, CallTargets
  <2>12. ASSUME Leads, ~Stale(c) PROVE CallsStep
    <3>1. PICK m \in 0..LastCopy : m = denotes[imapCall[c].id]
      BY <1>t, <1>1, ActiveRow DEF IdsTyped
    <3>2. origin[k] = m
      BY <1>t, <1>1, <1>4, <2>2, <2>12, <3>1, RowNamesIt
    <3>3. LeadsTo(pl, m)'
      BY <1>1, <2>9, <3>2
    <3>4. denotes'[imapCall'[c].id] = m
      <4>1. imapCall'[c].id = imapCall[c].id
        BY <1>t, <1>1, <2>10, ActiveRow DEF CallsTyped, CallRecords
      <4> QED BY <1>1, <3>1, <4>1
    <3> QED BY <2>11, <2>12, <3>3, <3>4 DEF LeadsTo, Used, ShowsOnly, OfThisNumbering
  <2> QED BY <1>1, <1>2, <2>9, <2>11, <2>12, ChangeKeeps
<1> QED BY <1>3, <1>4

LEMMA RecordMoveKeeps == ASSUME ImapInv, NEW c \in ImapCalls, RecordMove(c) PROVE ImapInv'
<1>t. ImapTyped /\ ServerTyped /\ IdsTyped /\ CallsTyped
  BY DEF ImapInv, ImapTyped
<1>1. /\ ActiveCall(c) /\ Targeted(c) /\ Ends(c) /\ UNCHANGED server
      /\ UNCHANGED denotes /\ UNCHANGED mistaken /\ UNCHANGED strayed
  BY DEF RecordMove, ActiveCall, Targeted
<1>2. ServerTyped' /\ ServerStep
  BY <1>t, <1>1, SameServer
<1>3. CallsTyped' /\ CallsStep
  BY <1>t, <1>1, CallEnds
<1>4. PICK id \in Places : id = imapCall[c].id /\ denotes[id] # 0
  BY <1>t, <1>1, ActiveRow
<1>5. PICK pl \in Places : pl = imapCall[c].target
  BY <1>t, <1>1 DEF CallsTyped, CallTyped
<1>6. PICK draft \in BOOLEAN : \/ locationRows' = [locationRows EXCEPT ![id] = At(pl, draft)]
                               \/ locationRows' = [locationRows EXCEPT ![id] = NoRow]
  <2>1. PICK d : d = (imapCall[c].kind = "move" /\ imapCall[c].row.draft)
    OBVIOUS
  <2>2. d \in BOOLEAN
    BY <2>1
  <2>3. \/ locationRows' = [locationRows EXCEPT ![id] = At(pl, d)]
        \/ locationRows' = [locationRows EXCEPT ![id] = NoRow]
    BY <1>4, <1>5, <2>1 DEF RecordMove
  <2> QED BY <2>2, <2>3
<1>7. PICK row \in RowRecords : row = At(pl, draft) /\ row.place = pl
  <2>1. At(pl, draft) \in RowRecords /\ At(pl, draft).place = pl
    BY DEF At, RowRecords
  <2> QED BY <2>1
<1>8. PICK new \in RowRecords \cup {NoRow} : locationRows' = [locationRows EXCEPT ![id] = new] /\ (new = NoRow \/ new = row)
  BY <1>6, <1>7
<1>9. IdsTyped' /\ (new = NoRow \/ LeadsTo(new.place, denotes[id])' => RowsStep)
  <2>1. /\ locationRows \in [Places -> RowRecords \cup {NoRow}] /\ denotes' \in [Places -> 0..LastCopy]
        /\ mistaken' \in BOOLEAN /\ strayed' \in BOOLEAN /\ denotes'[id] # 0
        /\ \A i \in Places : denotes[i] # 0 => denotes'[i] = denotes[i]
    BY <1>t, <1>1, <1>4 DEF IdsTyped
  <2>2. \A i \in Places : locationRows[i] \in {locationRows[i], NoRow}
    OBVIOUS
  <2> QED BY <1>t, <1>8, <2>1, <2>2, RowSet
<1>10. ASSUME Leads PROVE RowsStep
  <2>1. LeadsTo(pl, denotes[id])
    BY <1>1, <1>4, <1>5, <1>10 DEF Leads, CallsLead, CallLeads
  <2>2. LeadsTo(pl, denotes[id])'
    BY <1>1, <2>1 DEF LeadsTo, Used, ShowsOnly, OfThisNumbering, server
  <2>3. new = NoRow \/ LeadsTo(new.place, denotes[id])'
    BY <1>7, <1>8, <2>2 DEF LeadsTo, Used, ShowsOnly, OfThisNumbering
  <2> QED BY <1>9, <2>3
<1> QED BY <1>1, <1>2, <1>3, <1>9, <1>10, SameIds, ImapKeeping

LEMMA CallRecordReplaced ==
    ASSUME NEW f \in CallRecords
    PROVE  [f EXCEPT !.at = "row", !.kind = "replaced"]
             = [at |-> "row", kind |-> "replaced", id |-> f.id, row |-> f.row, target |-> f.target]
<1>1. PICK a, k, i, r, t : f = [at |-> a, kind |-> k, id |-> i, row |-> r, target |-> t]
  BY DEF CallRecords
<1>2. f.id = i /\ f.row = r /\ f.target = t
  BY <1>1
<1>3. [f EXCEPT !.at = "row", !.kind = "replaced"] = [[f EXCEPT !.at = "row"] EXCEPT !.kind = "replaced"]
  BY <1>1
<1>4. [f EXCEPT !.at = "row"] = [at |-> "row", kind |-> k, id |-> i, row |-> r, target |-> t]
  BY <1>1
<1>5. [[at |-> "row", kind |-> k, id |-> i, row |-> r, target |-> t] EXCEPT !.kind = "replaced"]
        = [at |-> "row", kind |-> "replaced", id |-> i, row |-> r, target |-> t]
  OBVIOUS
<1> QED BY <1>2, <1>3, <1>4, <1>5

LEMMA ReplacementKeeps == ASSUME ImapInv, NEW c \in ImapCalls, AppendReplacement(c) PROVE ImapInv'
<1>t. ImapTyped /\ ServerTyped /\ IdsTyped /\ CallsTyped
  BY DEF ImapInv, ImapTyped
<1>1. /\ ActiveCall(c) /\ UNCHANGED <<validity, locationRows>> /\ UNCHANGED <<denotes, mistaken, strayed>>
      /\ copies < LastCopy /\ copies' = copies + 1 /\ origin' = [origin EXCEPT ![copies + 1] = denotes[imapCall[c].id]]
      /\ held' = [held EXCEPT ![DraftsPath] = With(@, uidNext[DraftsPath], copies + 1)]
      /\ uidNext' = [uidNext EXCEPT ![DraftsPath] = @ + 1] /\ uidNext[DraftsPath] <= LastUid
      /\ imapCall' = [imapCall EXCEPT ![c].at = "appended", ![c].target = Place(DraftsPath, uidNext[DraftsPath])]
  BY DEF AppendReplacement, Acting, ActiveCall
<1>2. DraftsPath \in Paths
  BY ImapConstants
<1>3. PICK pl \in Places : pl = Place(DraftsPath, uidNext[DraftsPath])
  BY <1>t, <1>1, <1>2, NextPlace
<1>4. PICK m \in 0..LastCopy : m = denotes[imapCall[c].id] /\ m # 0
  BY <1>t, <1>1, ActiveRow DEF IdsTyped
<1>5. PICK k \in Nat : k = copies + 1 /\ k \in 1..LastCopy /\ copies \in Nat
  BY <1>t, <1>1, ImapNumbers DEF ServerTyped
<1>6. PICK old : old = held[DraftsPath]
  OBVIOUS
<1>7. /\ DOMAIN held' = Paths /\ held'[DraftsPath] = With(old, uidNext[DraftsPath], k)
      /\ \A q \in Paths : q # DraftsPath => \A u \in DOMAIN held'[q] : u \in DOMAIN held[q] /\ held'[q][u] = held[q][u]
  BY <1>t, <1>1, <1>2, <1>5, <1>6 DEF ServerTyped
<1>8. origin' = [origin EXCEPT ![k] = m] /\ origin \in [1..LastCopy -> 0..LastCopy] /\ copies' = k
  BY <1>t, <1>1, <1>4, <1>5 DEF ServerTyped
<1>9. /\ copies' \in 0..LastCopy /\ copies' >= copies /\ k \in 1..copies' /\ origin'[k] = m
      /\ origin' \in [1..LastCopy -> 0..LastCopy] /\ \A n \in 1..copies : origin'[n] = origin[n]
  BY <1>5, <1>8, ImapNumbers
<1>10. \A n \in 1..copies' : origin'[n] # 0
  <2>1. \A n \in 1..copies : origin[n] # 0
    BY <1>t DEF ServerTyped
  <2>2. \A n \in 1..copies' : n = k \/ n \in 1..copies
    BY <1>5, <1>8
  <2> QED BY <1>4, <1>9, <2>1, <2>2
<1>11. /\ ServerTyped' /\ ServerStep
       /\ \A q \in Places, n \in 0..LastCopy : q = Place(DraftsPath, uidNext[DraftsPath]) /\ n = origin'[k] => LeadsTo(q, n)'
  <2>1. uidNext' = [uidNext EXCEPT ![DraftsPath] = @ + 1] /\ validity' = validity /\ uidNext[DraftsPath] <= LastUid
    BY <1>1
  <2> QED BY <1>t, <1>2, <1>6, <1>7, <1>9, <1>10, <2>1, MessageAdded, ZenonT(30)
<1>12. LeadsTo(pl, m)'
  BY <1>3, <1>9, <1>11
<1>13. IdsTyped' /\ RowsStep
  BY <1>t, <1>1 DEF IdsTyped, RowsStep
<1>14. imapCall' = [imapCall EXCEPT ![c].at = "appended", ![c].target = pl]
  BY <1>1, <1>3
<1>15. CallsTyped' /\ (Leads /\ LeadsTo(pl, denotes[imapCall[c].id])' => CallsStep)
  BY <1>t, <1>1, <1>11, <1>14, CallTargets
<1>16. LeadsTo(pl, denotes[imapCall[c].id])'
  <2>1. imapCall'[c].id = imapCall[c].id
    BY <1>t, <1>1, <1>14, ActiveRow DEF CallsTyped, CallRecords
  <2> QED BY <1>1, <1>4, <1>12, <2>1 DEF LeadsTo, Used, ShowsOnly, OfThisNumbering
<1> QED BY <1>1, <1>11, <1>13, <1>15, <1>16, SameIds, ImapKeeping

LEMMA TakeOverKeeps == ASSUME ImapInv, NEW c \in ImapCalls, TakeOver(c) PROVE ImapInv'
<1>t. ImapTyped /\ ServerTyped /\ IdsTyped /\ CallsTyped
  BY DEF ImapInv, ImapTyped
<1>1. ActiveCall(c) /\ Targeted(c) /\ UNCHANGED server /\ UNCHANGED denotes /\ UNCHANGED mistaken /\ UNCHANGED strayed
  BY DEF TakeOver, ActiveCall, Targeted
<1>2. ServerTyped' /\ ServerStep
  BY <1>t, <1>1, SameServer
<1>3. CASE ~Savable(locationRows, imapCall[c].id, imapCall[c].target)
  <2>1. Ends(c) /\ UNCHANGED locationRows
    BY <1>3 DEF TakeOver
  <2>2. CallsTyped' /\ CallsStep
    BY <1>t, <1>1, <2>1, CallEnds
  <2>3. IdsTyped' /\ RowsStep
    BY <1>t, <1>1, <2>1 DEF IdsTyped, RowsStep
  <2> QED BY <1>1, <1>2, <2>2, <2>3, SameIds, ImapKeeping
<1>4. CASE Savable(locationRows, imapCall[c].id, imapCall[c].target)
  <2>1. PICK id \in Places : id = imapCall[c].id /\ denotes[id] # 0
    BY <1>t, <1>1, ActiveRow
  <2>2. PICK pl \in Places : pl = imapCall[c].target
    BY <1>t, <1>1 DEF CallsTyped, CallTyped
  <2>3. PICK row \in RowRecords : row = At(pl, TRUE) /\ row.place = pl
    <3>1. At(pl, TRUE) \in RowRecords /\ At(pl, TRUE).place = pl
      BY DEF At, RowRecords
    <3> QED BY <3>1
  <2>4. locationRows' = [locationRows EXCEPT ![id] = row]
    BY <1>4, <2>1, <2>2, <2>3 DEF TakeOver
  <2>5. imapCall' = [imapCall EXCEPT ![c].at = "row", ![c].kind = "replaced"]
    BY <1>4 DEF TakeOver
  <2>6. IdsTyped' /\ (row = NoRow \/ LeadsTo(row.place, denotes[id])' => RowsStep)
    <3>1. /\ locationRows \in [Places -> RowRecords \cup {NoRow}] /\ denotes' \in [Places -> 0..LastCopy]
          /\ mistaken' \in BOOLEAN /\ strayed' \in BOOLEAN /\ denotes'[id] # 0
          /\ \A i \in Places : denotes[i] # 0 => denotes'[i] = denotes[i]
      BY <1>t, <1>1, <2>1 DEF IdsTyped
    <3>2. \A i \in Places : locationRows[i] \in {locationRows[i], NoRow}
      OBVIOUS
    <3>3. row \in RowRecords \cup {NoRow}
      OBVIOUS
    <3> QED BY <1>t, <2>4, <3>1, <3>2, <3>3, RowSet
  <2>7. ASSUME Leads PROVE RowsStep
    <3>1. LeadsTo(pl, denotes[id])
      BY <1>1, <2>1, <2>2, <2>7 DEF Leads, CallsLead, CallLeads
    <3>2. LeadsTo(pl, denotes[id])'
      BY <1>1, <3>1 DEF LeadsTo, Used, ShowsOnly, OfThisNumbering, server
    <3>3. LeadsTo(row.place, denotes[id])'
      BY <2>3, <3>2 DEF LeadsTo, Used, ShowsOnly, OfThisNumbering
    <3> QED BY <2>6, <3>3
  <2>8. PICK r : r = [at |-> "row", kind |-> "replaced", id |-> imapCall[c].id,
                      row |-> imapCall[c].row, target |-> imapCall[c].target]
    OBVIOUS
  <2>9. r \in CallRecords /\ imapCall' = [imapCall EXCEPT ![c] = r]
    <3>1. imapCall[c] \in CallRecords
      BY <1>t, <1>1, ActiveRow
    <3>2. r \in CallRecords
      BY <2>8, <3>1 DEF CallRecords
    <3>3. imapCall' = [imapCall EXCEPT ![c] = [imapCall[c] EXCEPT !.at = "row", !.kind = "replaced"]]
      BY <2>5
    <3> QED BY <2>8, <3>1, <3>2, <3>3, CallRecordReplaced
  <2>10. imapCall'[c] = r /\ \A d \in ImapCalls : d # c => imapCall'[d] = imapCall[d]
    BY <1>t, <2>9 DEF CallsTyped
  <2>11. imapCall'[c].at = "row" /\ imapCall'[c].id = imapCall[c].id /\ imapCall'[c].row = imapCall[c].row
    BY <2>8, <2>10
  <2>12. CallTyped(c)'
    BY <1>t, <1>1, <2>11, ActiveRow DEF CallTyped, ActiveCall, Targeted
  <2>13. CallsTyped'
    BY <1>t, <1>1, <2>9, <2>12, OneCallSteps
  <2>14. ASSUME Leads PROVE CallsStep
    <3>1. LeadsTo(imapCall[c].row.place, denotes[imapCall[c].id])
      BY <1>1, <2>14 DEF Leads, CallsLead, CallLeads
    <3>2. LeadsTo(imapCall[c].row.place, denotes[imapCall[c].id])'
      BY <1>1, <2>11, <3>1 DEF LeadsTo, Used, ShowsOnly, OfThisNumbering, server
    <3>3. CallLeads(c)'
      BY <2>11, <3>2 DEF CallLeads, Targeted
    <3> QED BY <2>10, <3>3 DEF CallsStep
  <2> QED BY <1>1, <1>2, <2>6, <2>7, <2>13, <2>14, SameIds, ImapKeeping
<1> QED BY <1>3, <1>4

LEMMA FailKeeps == ASSUME ImapInv, NEW c \in ImapCalls, CallFails(c) PROVE ImapInv'
<1>t. ImapTyped /\ ServerTyped /\ IdsTyped /\ CallsTyped
  BY DEF ImapInv, ImapTyped
<1>1. Ends(c) /\ UNCHANGED server /\ UNCHANGED denotes /\ UNCHANGED <<locationRows, mistaken, strayed>>
  BY DEF CallFails
<1>2. ServerTyped' /\ ServerStep
  BY <1>t, <1>1, SameServer
<1>3. CallsTyped' /\ CallsStep
  BY <1>t, <1>1, CallEnds
<1>4. IdsTyped' /\ RowsStep
  BY <1>t, <1>1 DEF IdsTyped, RowsStep
<1> QED BY <1>1, <1>2, <1>3, <1>4, SameIds, ImapKeeping

LEMMA AppendKeeps == ASSUME ImapInv, NEW p \in Paths, AppendMessage(p) PROVE ImapInv'
<1>t. ImapTyped /\ ServerTyped /\ IdsTyped /\ CallsTyped
  BY DEF ImapInv, ImapTyped
<1>1. /\ UNCHANGED <<validity, locationRows>> /\ UNCHANGED <<denotes, mistaken, strayed>> /\ UNCHANGED imapCall
      /\ copies < LastCopy /\ copies' = copies + 1 /\ origin' = [origin EXCEPT ![copies + 1] = copies + 1]
      /\ held' = [held EXCEPT ![p] = With(@, uidNext[p], copies + 1)]
      /\ uidNext' = [uidNext EXCEPT ![p] = @ + 1] /\ uidNext[p] <= LastUid
  BY DEF AppendMessage
<1>2. PICK k \in Nat : k = copies + 1 /\ k \in 1..LastCopy /\ copies \in Nat
  BY <1>t, <1>1, ImapNumbers DEF ServerTyped
<1>3. PICK old : old = held[p]
  OBVIOUS
<1>4. /\ DOMAIN held' = Paths /\ held'[p] = With(old, uidNext[p], k)
      /\ \A q \in Paths : q # p => \A u \in DOMAIN held'[q] : u \in DOMAIN held[q] /\ held'[q][u] = held[q][u]
  BY <1>t, <1>1, <1>2, <1>3 DEF ServerTyped
<1>5. origin' = [origin EXCEPT ![k] = k] /\ origin \in [1..LastCopy -> 0..LastCopy] /\ copies' = k
  BY <1>t, <1>1, <1>2 DEF ServerTyped
<1>6. /\ copies' \in 0..LastCopy /\ copies' >= copies /\ k \in 1..copies'
      /\ origin' \in [1..LastCopy -> 0..LastCopy] /\ \A n \in 1..copies : origin'[n] = origin[n]
  BY <1>2, <1>5, ImapNumbers
<1>11. origin'[k] = k /\ k # 0
  BY <1>2, <1>5
<1>7. \A n \in 1..copies' : origin'[n] # 0
  <2>1. \A n \in 1..copies : origin[n] # 0
    BY <1>t DEF ServerTyped
  <2>2. \A n \in 1..copies' : n = k \/ n \in 1..copies
    BY <1>2, <1>5
  <2> QED BY <1>6, <1>11, <2>1, <2>2
<1>8. /\ ServerTyped' /\ ServerStep
      /\ \A q \in Places, n \in 0..LastCopy : q = Place(p, uidNext[p]) /\ n = origin'[k] => LeadsTo(q, n)'
  <2>1. uidNext' = [uidNext EXCEPT ![p] = @ + 1] /\ validity' = validity /\ uidNext[p] <= LastUid
    BY <1>1
  <2>2. ServerTyped /\ old = held[p]
    BY <1>t, <1>3
  <2> HIDE DEF ServerTyped
  <2> QED BY <1>4, <1>6, <1>7, <2>1, <2>2, MessageAdded
<1>9. IdsTyped' /\ RowsStep
  BY <1>t, <1>1 DEF IdsTyped, RowsStep
<1>10. CallsTyped' /\ CallsStep
  BY <1>t, <1>1, SameCalls
<1> QED BY <1>1, <1>8, <1>9, <1>10, SameIds, ImapKeeping

LEMMA RenumberKeeps == ASSUME ImapInv, NEW p \in Paths, Renumber(p) PROVE ImapInv'
<1>t. ImapTyped /\ ServerTyped /\ IdsTyped /\ CallsTyped
  BY DEF ImapInv, ImapTyped
<1>1. UNCHANGED <<locationRows, mistaken, strayed>> /\ UNCHANGED denotes /\ UNCHANGED imapCall
  BY DEF Renumber
<1>2. ServerTyped' /\ ServerStep
  BY <1>t, MailboxRenumbered
<1>3. IdsTyped' /\ RowsStep
  BY <1>t, <1>1 DEF IdsTyped, RowsStep
<1>4. CallsTyped' /\ CallsStep
  BY <1>t, <1>1, SameCalls
<1> QED BY <1>1, <1>2, <1>3, <1>4, SameIds, ImapKeeping

LEMMA ImapBegins == ImapInit => ImapInv
<1> SUFFICES ASSUME ImapInit PROVE ImapInv
  OBVIOUS
<1> DEFINE Filled == Paths \ {SentPath}
<1>1. copies \in 0..LastCopy /\ copies = Cardinality(Paths) - 1
  <2>1. Cardinality(Paths) \in Nat /\ Cardinality(Paths) # 0
    BY ImapConstants, FS_CardinalityType, FS_EmptySet
  <2> QED BY <2>1, ImapConstants DEF ImapInit
<1>2. PICK number \in [Filled -> 1..copies] : held = [p \in Paths |-> IF p = SentPath THEN << >> ELSE <<number[p]>>]
  BY DEF ImapInit
<1>3. ASSUME NEW p \in Paths, NEW u \in DOMAIN held[p] PROVE u \in 1..uidNext[p] - 1 /\ held[p][u] \in 1..copies
  <2>1. CASE p = SentPath
    BY <1>2, <1>3, <2>1
  <2>2. CASE p # SentPath
    <3>1. held[p] = <<number[p]>> /\ uidNext[p] = 2 /\ number[p] \in 1..copies
      BY <1>2, <2>2 DEF ImapInit
    <3> QED BY <1>3, <3>1
  <2> QED BY <2>1, <2>2
<1>4. validity \in [Paths -> 1..LastValidity] /\ uidNext \in [Paths -> 1..LastUid + 1] /\ DOMAIN held = Paths
  <2>1. 1 \in 1..LastValidity /\ 1 \in 1..LastUid + 1 /\ 2 \in 1..LastUid + 1
    BY ImapConstants
  <2> QED BY <1>2, <2>1 DEF ImapInit
<1>5. origin \in [1..LastCopy -> 0..LastCopy] /\ \A k \in 1..copies : origin[k] # 0
  BY <1>1, ImapNumbers DEF ImapInit
<1>6. ServerTyped
  BY <1>1, <1>3, <1>4, <1>5 DEF ServerTyped
<1>7. IdsTyped /\ RowsLead /\ IdsLead /\ ~mistaken
  <2>1. 0 \in 0..LastCopy
    BY ImapNumbers
  <2>2. denotes \in [Places -> 0..LastCopy] /\ \A i \in Places : denotes[i] = 0 /\ locationRows[i] = NoRow
    BY <2>1 DEF ImapInit
  <2>3. locationRows \in [Places -> RowRecords \cup {NoRow}]
    BY DEF ImapInit
  <2>4. mistaken \in BOOLEAN /\ strayed \in BOOLEAN /\ ~mistaken
    BY DEF ImapInit
  <2> QED BY <2>2, <2>3, <2>4 DEF IdsTyped, RowsLead, IdsLead
<1>8. NewCall \in CallRecords /\ NewCall.at = "new"
  BY DEF NewCall, CallRecords
<1>9. imapCall = [c \in ImapCalls |-> NewCall]
  BY DEF ImapInit
<1>10. CallsTyped /\ CallsLead
  BY <1>8, <1>9 DEF CallsTyped, CallTyped, CallsLead, CallLeads, ActiveCall, Targeted
<1> QED BY <1>6, <1>7, <1>10 DEF ImapInv, ImapTyped, Leads

\* The server numbers without repeating itself within a numbering, and every id,
\* row and call leads to its own message as long as no stale UID was used.
THEOREM ImapInvariance == ImapSpec => []ImapInv
<1>1. ASSUME ImapInv, [ImapNext]_imapVars PROVE ImapInv'
  <2>1. CASE UNCHANGED imapVars
    BY <1>1, <2>1 DEF imapVars, ImapInv, ImapTyped, ServerTyped, IdsTyped, CallsTyped, CallTyped, ActiveCall, Targeted,
                      Leads, RowsLead, IdsLead, CallsLead, CallLeads, LeadsTo, Used, ShowsOnly, OfThisNumbering
  <2>2. ASSUME NEW p \in Paths, Renumber(p) \/ AppendMessage(p) \/ \E uid \in DOMAIN held[p] : FindMessage(p, uid)
        PROVE  ImapInv'
    BY <1>1, <2>2, RenumberKeeps, AppendKeeps, FindKeeps
  <2>3. ASSUME NEW c \in ImapCalls, NEW id \in Places,
               NEW kind \in {"read", "flag", "delete", "discard", "move", "update", "send"}, BeginCall(c, kind, id)
        PROVE  ImapInv'
    BY <1>1, <2>3, BeginKeeps
  <2>4. ASSUME NEW c \in ImapCalls, \/ ReadMessage(c) \/ ChangeFlags(c) \/ DeleteMessage(c) \/ RecordMove(c)
                                    \/ AppendReplacement(c) \/ TakeOver(c) \/ DropOldCopy(c) \/ DeliverDraft(c)
                                    \/ CallFails(c) \/ \E p \in Paths : MoveMessage(c, p)
        PROVE  ImapInv'
    BY <1>1, <2>4, ReadKeeps, FlagsKeep, DeleteKeeps, RecordMoveKeeps, ReplacementKeeps, TakeOverKeeps, DropKeeps,
       DeliverKeeps, FailKeeps, MoveKeeps
  <2> QED BY <1>1, <2>1, <2>2, <2>3, <2>4 DEF ImapNext
<1> QED BY <1>1, ImapBegins, PTL DEF ImapSpec

\* An id of IMAP shows and changes one message, for any mailboxes, calls and
\* renumberings, unless a change used a UID of an earlier numbering.
THEOREM IdsAlwaysKeepTheirMessage == ImapSpec => []IdsKeepTheirMessage
<1>1. ImapInv => IdsKeepTheirMessage
  BY DEF ImapInv, IdsKeepTheirMessage
<1> QED BY <1>1, ImapInvariance, PTL

-----------------------------------------------------------------------------
(* The requests of an operation: those before the one under way were answered,  *)
(* those after it were not made, and one that adds something was made only if it *)
(* was answered, or its error leaves that open.                                 *)

RequestsDone ==
    /\ ended # "ok" => step <= Len(plan)
    /\ ended = "ok" => step = Len(plan) + 1
    /\ \A i \in DOMAIN plan :
          NonIdempotent(plan[i]) =>
            /\ i < step => made[i] = 1
            /\ i > step => made[i] = 0
            /\ i = step => made[i] <= 1 /\ (ended = "going" \/ Definite(ended) => made[i] = 0)

RequestsInv == RequestsTypeOK /\ RequestsDone

Sendless == Requests \ {"send"}

\* A plan is a list of requests, and a send is the last of them.
LEMMA SendComesLast ==
    ASSUME NEW provider \in {"gmail", "outlook"}, NEW p \in Operations(provider)
    PROVE  p \in Seq(Requests) /\ Len(p) >= 1 /\ \A i \in DOMAIN p : p[i] = "send" => i = Len(p)
<1>0. /\ {"read", "create", "reply", "attach", "session", "chunk", "detach", "patch", "purge"} \subseteq Sendless
      /\ Sendless \subseteq Requests /\ "send" \in Requests
  BY DEF Sendless, Requests
<1>1. ASSUME NEW files \in Attachments PROVE files \in Seq(Sendless)
  <2>1. << >> \in Seq(Sendless)
    OBVIOUS
  <2>2. <<"attach">> \in Seq(Sendless)
    BY <1>0
  <2>3. <<"session", "chunk", "chunk">> \in Seq(Sendless)
    BY <1>0
  <2> QED BY <2>1, <2>2, <2>3 DEF Attachments
<1>2. ASSUME NEW s \in Seq(Sendless), NEW t \in Seq(Requests), Len(t) >= 1,
             \A i \in 1..Len(t) : t[i] = "send" => i = Len(t)
      PROVE  s \o t \in Seq(Requests) /\ Len(s \o t) >= 1 /\ \A i \in DOMAIN (s \o t) : (s \o t)[i] = "send" => i = Len(s \o t)
  <2>1. s \in Seq(Requests) /\ \A i \in 1..Len(s) : s[i] # "send"
    BY DEF Sendless
  <2>2. /\ s \o t \in Seq(Requests) /\ Len(s \o t) = Len(s) + Len(t) /\ DOMAIN (s \o t) = 1..Len(s \o t)
        /\ \A i \in 1..Len(s) + Len(t) : (s \o t)[i] = IF i <= Len(s) THEN s[i] ELSE t[i - Len(s)]
    BY <2>1, ConcatProperties
  <2>3. Len(s) \in Nat /\ Len(t) \in Nat
    OBVIOUS
  <2>4. Len(s \o t) >= 1
    BY <1>2, <2>2, <2>3
  <2>5. \A i \in DOMAIN (s \o t) : (s \o t)[i] = "send" => i = Len(s \o t)
    <3> SUFFICES ASSUME NEW i \in 1..Len(s) + Len(t), (s \o t)[i] = "send" PROVE i = Len(s) + Len(t)
      BY <2>2
    <3>1. i > Len(s)
      BY <2>1, <2>2, <2>3
    <3>2. i - Len(s) \in 1..Len(t) /\ t[i - Len(s)] = "send"
      BY <2>2, <2>3, <3>1
    <3>3. i - Len(s) = Len(t)
      BY <1>2, <3>2
    <3> QED BY <2>3, <3>3
  <2> QED BY <2>2, <2>4, <2>5
<1>3. ASSUME NEW d \in OutlookDrafting PROVE d \in Seq(Sendless)
  <2>1. PICK first \in {<<"create">>, <<"reply", "patch">>}, files \in Attachments : d = first \o files
    BY SMTT(30) DEF OutlookDrafting
  <2>2. first \in Seq(Sendless)
    <3>1. <<"create">> \in Seq(Sendless)
      BY <1>0
    <3>2. <<"reply", "patch">> \in Seq(Sendless)
      BY <1>0
    <3> QED BY <3>1, <3>2
  <2> QED BY <1>1, <2>1, <2>2, ConcatProperties
<1> DEFINE Plan(t) == t \in Seq(Requests) /\ Len(t) >= 1 /\ \A i \in DOMAIN t : t[i] = "send" => i = Len(t)
<1>4. Plan(<<"read">>) /\ Plan(<<"patch">>) /\ Plan(<<"send">>)
  <2>1. Plan(<<"read">>)
    BY <1>0
  <2>2. Plan(<<"patch">>)
    BY <1>0
  <2>3. Plan(<<"send">>)
    BY <1>0
  <2> QED BY <2>1, <2>2, <2>3
<1>5. Plan(<<"read", "send">>) /\ Plan(<<"read", "purge">>) /\ Plan(<<"create", "read">>)
  <2>1. Plan(<<"read", "send">>)
    BY <1>0
  <2>2. Plan(<<"read", "purge">>)
    BY <1>0
  <2>3. Plan(<<"create", "read">>)
    BY <1>0
  <2> QED BY <2>1, <2>2, <2>3
<1>6. Plan(<<"read", "patch", "read">>)
  BY <1>0
<1>7. ASSUME NEW s \in Seq(Sendless), NEW t, Plan(t) PROVE Plan(s \o t)
  <2>1. t \in Seq(Requests) /\ Len(t) >= 1 /\ \A i \in 1..Len(t) : t[i] = "send" => i = Len(t)
    BY <1>7
  <2> QED BY <1>2, <2>1
<1> HIDE DEF Plan
<1>8. CASE provider = "gmail"
  <2>1. p \in GmailPlans
    BY <1>8 DEF Operations
  <2> QED BY <1>4, <1>5, <1>6, <2>1 DEF GmailPlans, Plan
<1>9. CASE provider = "outlook"
  <2>0. p \in OutlookPlans
    BY <1>9 DEF Operations
  <2>1. CASE p \in {<<"read", "send">>, <<"read", "purge">>}
    BY <1>5, <2>1 DEF Plan
  <2>2. CASE \E d \in OutlookDrafting : p = d \o <<"read">> \/ p = d \o <<"read", "send">>
    <3>1. PICK d \in OutlookDrafting : p = d \o <<"read">> \/ p = d \o <<"read", "send">>
      BY <2>2
    <3>2. Plan(d \o <<"read">>) /\ Plan(d \o <<"read", "send">>)
      BY <1>3, <1>4, <1>5, <1>7
    <3> QED BY <3>1, <3>2 DEF Plan
  <2>3. CASE \E files \in Attachments : p = <<"read", "patch", "read", "detach">> \o files \o <<"read">>
    <3>1. PICK files \in Attachments : p = (<<"read", "patch", "read", "detach">> \o files) \o <<"read">>
      BY <2>3
    <3>2. <<"read", "patch", "read", "detach">> \in Seq(Sendless)
      BY <1>0
    <3>3. <<"read", "patch", "read", "detach">> \o files \in Seq(Sendless)
      BY <1>1, <3>2, ConcatProperties
    <3>4. Plan(p)
      BY <1>4, <1>7, <3>1, <3>3
    <3> QED BY <3>4 DEF Plan
  <2> QED BY <2>0, <2>1, <2>2, <2>3 DEF OutlookPlans
<1> QED BY <1>8, <1>9

LEMMA PlanIsAList == RequestsTypeOK => /\ plan \in Seq(Requests) /\ DOMAIN plan = 1..Len(plan) /\ Len(plan) \in Nat /\ step \in Nat
                                       /\ \A i \in DOMAIN plan : plan[i] = "send" => i = Len(plan)
<1> SUFFICES ASSUME RequestsTypeOK
             PROVE  /\ plan \in Seq(Requests) /\ DOMAIN plan = 1..Len(plan) /\ Len(plan) \in Nat /\ step \in Nat
                    /\ \A i \in DOMAIN plan : plan[i] = "send" => i = Len(plan)
  OBVIOUS
<1>1. plan \in Seq(Requests) /\ \A i \in DOMAIN plan : plan[i] = "send" => i = Len(plan)
  BY SendComesLast DEF RequestsTypeOK
<1>2. step \in 1..Len(plan) + 1
  BY DEF RequestsTypeOK
<1>3. DOMAIN plan = 1..Len(plan) /\ Len(plan) \in Nat
  BY <1>1
<1>4. step \in Nat
  BY <1>2, <1>3
<1> QED BY <1>1, <1>3, <1>4

LEMMA RequestsBegin == RequestsInit => RequestsInv
<1> SUFFICES ASSUME RequestsInit PROVE RequestsInv
  OBVIOUS
<1>1. plan \in Seq(Requests) /\ Len(plan) >= 1
  BY SendComesLast DEF RequestsInit
<1>2. Len(plan) \in Nat /\ Len(plan) >= 1 /\ DOMAIN plan = 1..Len(plan)
  BY <1>1
<1>3. RequestsTypeOK
  <2>1. 1 \in 1..Len(plan) + 1 /\ 0 \in 0..MaxRetries
    BY <1>2, RequestConstants
  <2>2. made \in [DOMAIN plan -> Nat]
    BY DEF RequestsInit
  <2> QED BY <2>1, <2>2 DEF RequestsInit, RequestsTypeOK
<1> QED BY <1>2, <1>3 DEF RequestsInit, RequestsInv, RequestsDone

\* Of the errors of a request that may not be repeated, the definite ones say
\* that it was refused.
LEMMA DefiniteIsRefused ==
    ASSUME service \in {"gmail", "outlook"}, NEW status \in Statuses, Definite(CodeOf(status))
    PROVE  status \notin {"5xx", "lost"}
BY DEF Definite, CodeOf, Statuses

LEMMA CodesAreCodes ==
    ASSUME service \in {"gmail", "outlook"}, NEW status \in Statuses
    PROVE  CodeOf(status) \in ErrorCodes /\ CodeOf(status) # "ok" /\ CodeOf(status) # "going"
BY DEF CodeOf, Statuses, ErrorCodes

LEMMA RequestsKeep == ASSUME RequestsInv, [RequestsNext]_requestVars PROVE RequestsInv'
<1>t. /\ service \in {"gmail", "outlook"} /\ plan \in Operations(service) /\ step \in 1..Len(plan) + 1
      /\ attempt \in 0..MaxRetries /\ forced \in BOOLEAN
      /\ made \in [DOMAIN plan -> Nat] /\ ended \in ErrorCodes \cup {"going"}
  BY DEF RequestsInv, RequestsTypeOK
<1>p. plan \in Seq(Requests) /\ DOMAIN plan = 1..Len(plan) /\ Len(plan) \in Nat /\ step \in Nat
  BY PlanIsAList DEF RequestsInv
<1>n. PICK n \in Nat : n = Len(plan) /\ DOMAIN plan = 1..n /\ step \in 1..n + 1
  BY <1>t, <1>p
<1>1. CASE Accepted
  <2>1. /\ ended = "going" /\ step <= n /\ step' = step + 1 /\ UNCHANGED plan /\ UNCHANGED service
        /\ made' = [made EXCEPT ![step] = @ + 1] /\ attempt' = 0 /\ forced' = FALSE
    BY <1>1, <1>n DEF Accepted, RequestsInv, RequestsDone
  <2>2. (step = n => ended' = "ok") /\ (step # n => ended' = "going")
    BY <1>1, <1>n DEF Accepted
  <2>3. step \in DOMAIN plan /\ step' \in 1..n + 1 /\ (step # n => step' <= n)
    BY <1>n, <2>1
  <2>4. made' \in [DOMAIN plan -> Nat] /\ made'[step] = made[step] + 1 /\ \A i \in DOMAIN plan : i # step => made'[i] = made[i]
    BY <1>t, <2>1, <2>3
  <2>5. RequestsTypeOK'
    <3>1. ended' \in ErrorCodes \cup {"going"}
      BY <2>2 DEF ErrorCodes
    <3>2. attempt' \in 0..MaxRetries
      BY <2>1, RequestConstants
    <3>3. step' \in 1..Len(plan') + 1
      BY <1>n, <2>1, <2>3
    <3>4. plan' \in Operations(service') /\ made' \in [DOMAIN plan' -> Nat]
      BY <1>t, <2>1, <2>4
    <3> QED BY <1>t, <2>1, <3>1, <3>2, <3>3, <3>4 DEF RequestsTypeOK
  <2>6. RequestsDone'
    <3>1. (ended' # "ok" => step' <= Len(plan')) /\ (ended' = "ok" => step' = Len(plan') + 1)
      BY <1>n, <2>1, <2>2, <2>3
    <3>2. ASSUME NEW i \in DOMAIN plan, NonIdempotent(plan[i])
          PROVE  (i < step' => made'[i] = 1) /\ (i >= step' => made'[i] = 0)
      <4>1. i \in Nat /\ step \in Nat
        BY <1>n, <3>2
      <4>2. /\ i < step => made[i] = 1
            /\ i > step => made[i] = 0
            /\ i = step => made[i] = 0
        BY <2>1, <3>2 DEF RequestsInv, RequestsDone
      <4>3. CASE i = step
        BY <2>1, <2>4, <4>1, <4>2, <4>3
      <4>4. CASE i < step
        BY <2>1, <2>4, <4>1, <4>2, <4>4
      <4>5. CASE i > step
        BY <2>1, <2>4, <4>1, <4>2, <4>5
      <4> QED BY <4>1, <4>3, <4>4, <4>5
    <3>3. ASSUME NEW i \in DOMAIN plan', NonIdempotent(plan'[i])
          PROVE  /\ i < step' => made'[i] = 1
                 /\ i > step' => made'[i] = 0
                 /\ i = step' => made'[i] <= 1 /\ (ended' = "going" \/ Definite(ended') => made'[i] = 0)
      <4>1. (i < step' => made'[i] = 1) /\ (i >= step' => made'[i] = 0)
        BY <2>1, <3>2, <3>3
      <4>2. i \in Nat /\ step' \in Nat
        BY <1>n, <2>1, <2>3, <3>3
      <4> QED BY <4>1, <4>2
    <3> QED BY <3>1, <3>3 DEF RequestsDone, NonIdempotent, Definite
  <2> QED BY <2>5, <2>6 DEF RequestsInv
<1>2. ASSUME NEW status \in Statuses, Took(status),
             ended' \in ErrorCodes \cup {"going"}, ended' # "ok", attempt' \in 0..MaxRetries, forced' \in BOOLEAN,
             NonIdempotent(plan[step]) /\ (ended' = "going" \/ Definite(ended')) => status \notin {"5xx", "lost"}
      PROVE  RequestsInv'
  <2>1. ended = "going" /\ step <= Len(plan) /\ UNCHANGED <<plan, step, service>>
    BY <1>2 DEF Took, RequestsInv, RequestsDone
  <2>2. step \in DOMAIN plan
    BY <1>t, <1>p, <2>1
  <2>3. PICK e \in 0..1 : made' = [made EXCEPT ![step] = @ + e] /\ (status \notin {"5xx", "lost"} => e = 0)
    <3>1. PICK e \in (IF status \in {"5xx", "lost"} THEN 0..1 ELSE {0}) : made' = [made EXCEPT ![step] = @ + e]
      BY <1>2 DEF Took
    <3>2. e \in 0..1 /\ (status \notin {"5xx", "lost"} => e = 0)
      OBVIOUS
    <3> QED BY <3>1, <3>2
  <2>4. made' \in [DOMAIN plan -> Nat] /\ made'[step] = made[step] + e /\ \A i \in DOMAIN plan : i # step => made'[i] = made[i]
    BY <1>t, <2>2, <2>3
  <2>5. RequestsTypeOK'
    BY <1>t, <1>2, <2>1, <2>4 DEF RequestsTypeOK
  <2>6. RequestsDone'
    <3>1. ASSUME NEW i \in DOMAIN plan', NonIdempotent(plan'[i])
          PROVE  /\ i < step' => made'[i] = 1
                 /\ i > step' => made'[i] = 0
                 /\ i = step' => made'[i] <= 1 /\ (ended' = "going" \/ Definite(ended') => made'[i] = 0)
      <4>1. i \in DOMAIN plan /\ i \in Nat /\ NonIdempotent(plan[i])
        BY <1>p, <2>1, <3>1
      <4>2. /\ i < step => made[i] = 1
            /\ i > step => made[i] = 0
            /\ i = step => made[i] = 0
        BY <2>1, <4>1 DEF RequestsInv, RequestsDone
      <4>3. CASE i = step
        <5>1. made'[i] = e /\ e <= 1
          BY <2>3, <2>4, <4>2, <4>3, <1>p
        <5>2. ended' = "going" \/ Definite(ended') => e = 0
          BY <1>2, <2>3, <4>1, <4>3
        <5> QED BY <4>1, <4>3, <5>1, <5>2, <1>p, <2>1
      <4>4. CASE i # step
        BY <2>1, <2>4, <4>1, <4>2, <4>4, <1>p
      <4> QED BY <4>3, <4>4
    <3> QED BY <1>2, <2>1, <3>1 DEF RequestsDone, NonIdempotent, Definite
  <2> QED BY <2>5, <2>6 DEF RequestsInv
<1>3. ASSUME NEW status \in Statuses, AskAgain(status) PROVE RequestsInv'
  <2>1. Took(status) /\ attempt < MaxRetries /\ attempt' = attempt + 1 /\ UNCHANGED ended /\ ended = "going" /\ forced' \in BOOLEAN
    BY <1>t, <1>3 DEF AskAgain, Took
  <2>2. attempt' \in 0..MaxRetries
    BY <1>t, <2>1, RequestConstants
  <2>3. NonIdempotent(plan[step]) => status \notin {"5xx", "lost"}
    BY <1>3 DEF AskAgain, Retryable, Rejected
  <2>4. ended' \in ErrorCodes \cup {"going"} /\ ended' # "ok"
    BY <2>1
  <2> QED BY <1>2, <2>1, <2>2, <2>3, <2>4
<1>4. ASSUME NEW status \in Statuses, GiveUp(status) PROVE RequestsInv'
  <2>1. Took(status) /\ UNCHANGED <<attempt, forced>> /\ ended' = IF plan[step] = "chunk" THEN "provider_unavailable" ELSE CodeOf(status)
    BY <1>4 DEF GiveUp
  <2>2. ended' \in ErrorCodes \cup {"going"} /\ ended' # "ok" /\ ended' # "going"
    BY <1>t, <2>1, CodesAreCodes DEF ErrorCodes
  <2>3. NonIdempotent(plan[step]) /\ (ended' = "going" \/ Definite(ended')) => status \notin {"5xx", "lost"}
    <3> SUFFICES ASSUME NonIdempotent(plan[step]), Definite(ended') PROVE status \notin {"5xx", "lost"}
      BY <2>2
    <3>1. ended' = CodeOf(status)
      BY <2>1 DEF NonIdempotent
    <3>2. Definite(CodeOf(status))
      BY <3>1 DEF Definite
    <3> QED BY <1>t, <3>2, DefiniteIsRefused
  <2> QED BY <1>2, <1>t, <2>1, <2>2, <2>3
<1>5. CASE NoAccessToken
  <2>1. ended = "going" /\ step <= Len(plan) /\ ended' = "auth_expired" /\ UNCHANGED <<plan, step, service, attempt, forced, made>>
    BY <1>5 DEF NoAccessToken, RequestsInv, RequestsDone
  <2>2. RequestsTypeOK'
    BY <1>t, <2>1 DEF RequestsTypeOK, ErrorCodes
  <2> QED BY <2>1, <2>2 DEF RequestsInv, RequestsDone
<1>6. CASE UNCHANGED requestVars
  BY <1>6 DEF requestVars, RequestsInv, RequestsTypeOK, RequestsDone, NonIdempotent, Definite
<1> QED BY <1>1, <1>3, <1>4, <1>5, <1>6 DEF RequestsNext

\* A request that adds something was made once when it was answered, and not at
\* all when it was refused or not reached.
THEOREM RequestsInvariance == RequestsSpec => []RequestsInv
BY RequestsBegin, RequestsKeep, PTL DEF RequestsSpec

\* For any number of retries, an operation sends a message once at most, and not
\* at all when its error is definite.
THEOREM AlwaysSendsOnceOrSaysSo == RequestsSpec => []SendsOnceOrSaysSo
<1>1. RequestsInv => SendsOnceOrSaysSo
  <2> SUFFICES ASSUME RequestsInv, NEW i \in DOMAIN plan
               PROVE  /\ NonIdempotent(plan[i]) => made[i] <= 1
                      /\ plan[i] = "send" /\ ended = "ok" => made[i] = 1
                      /\ plan[i] = "send" /\ Definite(ended) => made[i] = 0
    BY DEF SendsOnceOrSaysSo
  <2>1. /\ DOMAIN plan = 1..Len(plan) /\ Len(plan) \in Nat /\ step \in Nat /\ i \in Nat
        /\ (plan[i] = "send" => i = Len(plan))
    BY PlanIsAList DEF RequestsInv
  <2>2. NonIdempotent(plan[i]) => /\ i < step => made[i] = 1
                                  /\ i > step => made[i] = 0
                                  /\ i = step => made[i] <= 1 /\ (ended = "going" \/ Definite(ended) => made[i] = 0)
    BY DEF RequestsInv, RequestsDone
  <2>3. NonIdempotent(plan[i]) => made[i] <= 1
    BY <2>1, <2>2
  <2>4. plan[i] = "send" => NonIdempotent(plan[i])
    BY DEF NonIdempotent
  <2>5. ASSUME plan[i] = "send", ended = "ok" PROVE made[i] = 1
    <3>1. i < step
      BY <2>1, <2>5 DEF RequestsInv, RequestsDone
    <3> QED BY <2>2, <2>4, <2>5, <3>1
  <2>6. ASSUME plan[i] = "send", Definite(ended) PROVE made[i] = 0
    <3>1. step <= Len(plan)
      <4>1. ended # "ok"
        BY <2>6 DEF Definite
      <4> QED BY <4>1 DEF RequestsInv, RequestsDone
    <3>2. i >= step
      BY <2>1, <2>6, <3>1
    <3> QED BY <2>1, <2>2, <2>4, <2>6, <3>2
  <2> QED BY <2>3, <2>5, <2>6
<1> QED BY <1>1, RequestsInvariance, PTL

----------------------------------------------------------------------------
(* Searches page by page, in the order of their lists.                          *)

\* The mailboxes a search goes through are those of AllMail, one after the other.
LEMMA PathsAreAllMail ==
    ASSUME NEW l \in Listings
    PROVE  /\ Len(PathsOf(l)) \in Nat /\ DOMAIN PathsOf(l) = 1..Len(PathsOf(l))
           /\ AllMail(l) \subseteq DOMAIN l
           /\ \A k \in DOMAIN PathsOf(l) : PathsOf(l)[k] \in AllMail(l)
           /\ \A j, k \in DOMAIN PathsOf(l) : PathsOf(l)[j] = PathsOf(l)[k] => j = k
           /\ \A i \in AllMail(l) : \E k \in DOMAIN PathsOf(l) : PathsOf(l)[k] = i
<1>1. l \in Seq(Box)
  BY PagingConstants
<1>2. DOMAIN l = 1..Len(l) /\ Len(l) \in Nat
  BY <1>1
<1>3. Selectable(l) \subseteq DOMAIN l
  BY DEF Selectable
<1> DEFINE all == {i \in Selectable(l) : l[i].use = "all"}
<1>4. all # {} => Min(all) \in all
  <2>1. all \in SUBSET (0..Len(l))
    BY <1>2, <1>3
  <2> QED BY <1>2, <2>1, Lowest
<1>5. AllMail(l) \subseteq DOMAIN l
  <2>1. AllMail(l) \subseteq Selectable(l)
    BY <1>4 DEF AllMail
  <2> QED BY <1>3, <2>1
<1>6. AllMail(l) \in SUBSET (0..Len(l))
  BY <1>2, <1>5
<1> DEFINE c == Cardinality(AllMail(l))
<1>7. /\ c \in Nat /\ PathsOf(l) \in [1..c -> AllMail(l)] /\ Len(PathsOf(l)) = c
      /\ \A j, k \in 1..c : PathsOf(l)[j] = PathsOf(l)[k] => j = k
      /\ \A i \in AllMail(l) : \E k \in 1..c : PathsOf(l)[k] = i
  BY <1>2, <1>6, Ordered DEF PathsOf
<1> HIDE DEF c
<1>8. DOMAIN PathsOf(l) = 1..c
  BY <1>7
<1> QED BY <1>5, <1>7, <1>8

(* A page and its token. *)

\* The first token leaves everything ahead.
LEMMA PagingBegin == PagingInit => PagingInv
<1> SUFFICES ASSUME PagingInit PROVE PagingInv
  OBVIOUS
<1>1. TopUid \in Nat
  BY PagingConstants
<1>2. PagingState
  <2>1. matching \in [Idx -> SUBSET (1..TopUid)]
    BY <1>1 DEF PagingInit
  <2>2. answered \in [Idx -> [1..TopUid -> Nat]]
    BY DEF PagingInit
  <2> QED BY <2>1, <2>2 DEF PagingInit, PagingState, NoReading
<1>3. Len(PathsOf(listing)) \in Nat /\ cursor = [at |-> 1, upper |-> 0, over |-> listing]
  BY PathsAreAllMail DEF PagingInit, Start
<1>4. PageFollowsToken
  BY <1>3 DEF PagingInit, PageFollowsToken, Idx
<1>5. PassedOnce
  <2> SUFFICES ASSUME NEW k \in DOMAIN PathsOf(listing), NEW uid \in 1..TopUid
               PROVE  Ahead(k, uid) /\ answered[PathsOf(listing)[k]][uid] = 0
    BY <1>3 DEF PassedOnce
  <2>1. k \in Nat /\ k >= 1 /\ PathsOf(listing)[k] \in Idx
    BY PathsAreAllMail DEF PagingInit, Idx
  <2> QED BY <1>3, <2>1 DEF PagingInit, Ahead
<1> QED BY <1>2, <1>4, <1>5 DEF PagingInit, PagingInv, SkippedBelow, PagesMissNothing

\* What other clients do to the mailboxes.
LEMMA OthersKeep ==
    ASSUME PagingInv, pageOutcome = "searching", PagingState',
           UNCHANGED <<listing, cursor, reading, answered, pageOutcome>>,
           renumbered \subseteq renumbered', \A i \in Idx : stayed'[i] \subseteq stayed[i]
    PROVE  PagingInv'
<1>1. Idx' = Idx /\ (NoReading)' = NoReading /\ \A k, uid : Ahead(k, uid)' <=> Ahead(k, uid)
  BY DEF Idx, NoReading, Ahead
<1>2. PageFollowsToken'
  BY <1>1 DEF PagingInv, PageFollowsToken, PathsOf, AllMail
<1>3. PassedOnce'
  <2> DEFINE paths == PathsOf(cursor.over)
  <2> SUFFICES ASSUME NEW k \in DOMAIN paths, NEW uid \in 1..TopUid, paths[k] \notin renumbered'
               PROVE  IF Ahead(k, uid) THEN answered[paths[k]][uid] = 0
                      ELSE /\ answered[paths[k]][uid] <= 1
                           /\ uid \in stayed'[paths[k]] => answered[paths[k]][uid] = 1
    BY <1>1 DEF PassedOnce
  <2>1. paths[k] \in Idx
    BY PathsAreAllMail DEF PagingInv, PageFollowsToken
  <2> QED BY <2>1 DEF PagingInv, PassedOnce
<1>4. SkippedBelow'
  <2> SUFFICES ASSUME reading # NoReading, reading.entered, Path(reading.at) \notin renumbered',
                      NEW top \in reading.todo, NEW uid \in 1..TopUid \ reading.todo, uid < top
               PROVE  answered[Path(reading.at)][uid] = 0 /\ uid \notin stayed'[Path(reading.at)]
    BY <1>1 DEF SkippedBelow, Path
  <2>1. Path(reading.at) \in Idx
    BY PathsAreAllMail DEF PagingInv, PagingState, PageFollowsToken, Path, Idx
  <2> QED BY <2>1 DEF PagingInv, SkippedBelow
<1> QED BY <1>2, <1>3, <1>4 DEF PagingInv, PagesMissNothing

\* The page that is being read, and its token.
LEMMA PageFacts ==
    ASSUME PagingInv, reading # NoReading
    PROVE  /\ pageOutcome = "searching" /\ TopUid \in Nat /\ Len(PathsOf(listing)) \in Nat
           /\ DOMAIN PathsOf(listing) = 1..Len(PathsOf(listing))
           /\ \A k \in DOMAIN PathsOf(listing) : PathsOf(listing)[k] \in Idx
           /\ \A j, k \in DOMAIN PathsOf(listing) : PathsOf(listing)[j] = PathsOf(listing)[k] => j = k
           /\ PathsOf(cursor.over) = PathsOf(listing)
           /\ reading.at \in 1..Len(PathsOf(listing)) + 1
           /\ cursor.at \in 1..Len(PathsOf(listing)) + 1 /\ cursor.upper \in Nat
           /\ cursor.at <= reading.at /\ reading.todo \subseteq 1..TopUid
           /\ reading.entered => reading.at <= Len(PathsOf(listing))
           /\ ~reading.entered => reading.todo = {}
BY PathsAreAllMail, PagingConstants DEF PagingInv, PagingState, PageFollowsToken, Idx

\* A token made at the next mailbox, or at a UID of the one under way, leaves ahead
\* what was ahead.
LEMMA TokenKeeps ==
    ASSUME PagingInv, reading # NoReading, reading.at <= Len(PathsOf(listing)),
           reading' = NoReading, UNCHANGED <<listing, matching, renumbered, answered, stayed, pageOutcome>>,
           NEW uid, uid = IF reading.todo = {} THEN 0 ELSE Max(reading.todo),
           IF reading.todo = {} /\ reading.at = cursor.at
           THEN cursor' = cursor ELSE cursor' = ImapCursor(reading.at, uid),
           reading.todo = {} => ~reading.entered
    PROVE  PagingInv'
<1> DEFINE paths == PathsOf(listing)
<1>1. /\ pageOutcome = "searching" /\ TopUid \in Nat /\ Len(paths) \in Nat
      /\ DOMAIN paths = 1..Len(paths) /\ PathsOf(cursor.over) = paths
      /\ reading.at \in 1..Len(paths) + 1 /\ cursor.at \in 1..Len(paths) + 1
      /\ cursor.at <= reading.at /\ reading.todo \subseteq 1..TopUid
      /\ ~reading.entered => reading.todo = {}
  BY PageFacts
<1>2. reading.todo # {} => uid \in reading.todo /\ uid \in Nat \ {0} /\ \A u \in reading.todo : u <= uid
  <2>1. reading.todo \in SUBSET (0..TopUid)
    BY <1>1
  <2>2. reading.todo # {} => Max(reading.todo) \in reading.todo /\ \A u \in reading.todo : u <= Max(reading.todo)
    BY <1>1, <2>1, Highest
  <2> QED BY <1>1, <2>2
<1>3. /\ cursor'.at = reading.at /\ cursor'.upper \in Nat /\ PathsOf(cursor'.over) = paths
      /\ cursor'.over \in Listings /\ DOMAIN cursor'.over = Idx
      /\ cursor'.upper = IF reading.todo = {} /\ reading.at = cursor.at THEN cursor.upper ELSE uid
  BY <1>1, <1>2, SMTT(30) DEF ImapCursor, PagingInv, PagingState, PageFollowsToken, Idx
<1> HIDE DEF paths
<1>4. Idx' = Idx /\ NoReading' = NoReading /\ PathsOf(listing') = paths
  BY DEF Idx, NoReading, paths
<1>5. PagingState'
  BY <1>4 DEF PagingInv, PagingState, NoReading
<1>6. PageFollowsToken'
  BY <1>1, <1>3, <1>4 DEF PageFollowsToken
<1>7. ASSUME NEW k \in DOMAIN paths, NEW u \in 1..TopUid
      PROVE  Ahead(k, u)' <=> k > reading.at \/ (k = reading.at /\ (cursor'.upper = 0 \/ u <= cursor'.upper))
  BY <1>3, <1>4 DEF Ahead
<1>8. PassedOnce'
  <2> SUFFICES ASSUME NEW k \in DOMAIN paths, NEW u \in 1..TopUid, paths[k] \notin renumbered
               PROVE  IF Ahead(k, u)' THEN answered[paths[k]][u] = 0
                      ELSE /\ answered[paths[k]][u] <= 1
                           /\ u \in stayed[paths[k]] => answered[paths[k]][u] = 1
    BY <1>3 DEF PassedOnce
  <2>1. IF Ahead(k, u) THEN answered[paths[k]][u] = 0
        ELSE /\ answered[paths[k]][u] <= 1
             /\ u \in stayed[paths[k]] => answered[paths[k]][u] = 1
    BY <1>1 DEF PagingInv, PassedOnce
  <2>2. CASE reading.todo = {}
    <3>1. Ahead(k, u)' <=> Ahead(k, u)
      BY <1>1, <1>3, <1>7, <2>2 DEF Ahead
    <3> QED BY <2>1, <3>1
  <2>3. CASE reading.todo # {}
    <3>1. Ahead(k, u)' <=> k > reading.at \/ (k = reading.at /\ u <= uid)
      BY <1>2, <1>3, <1>7, <2>3
    <3>2. Ahead(k, u) <=> k > reading.at \/ (k = reading.at /\ u \in reading.todo)
      BY <1>1, <2>3 DEF Ahead
    <3>3. CASE k = reading.at /\ u < uid /\ u \notin reading.todo
      <4>1. answered[paths[k]][u] = 0
        BY <1>1, <1>2, <2>3, <3>3 DEF PagingInv, SkippedBelow, Path, paths
      <4>2. u \in Nat /\ uid \in Nat
        <5>1. u \in Nat
          BY <1>1
        <5> QED BY <1>2, <2>3, <5>1
      <4>3. Ahead(k, u)'
        BY <3>1, <3>3, <4>2
      <4> QED BY <4>1, <4>3
    <3>4. CASE ~(k = reading.at /\ u < uid /\ u \notin reading.todo)
      <4>1. u \in Nat /\ uid \in reading.todo /\ uid \in Nat /\ (u \in reading.todo => u <= uid)
        <5>1. u \in Nat
          BY <1>1
        <5> QED BY <1>2, <2>3, <5>1
      <4>2. k = reading.at => (u <= uid <=> u \in reading.todo)
        BY <3>4, <4>1
      <4>3. Ahead(k, u)' <=> Ahead(k, u)
        BY <3>1, <3>2, <4>2
      <4> QED BY <2>1, <4>3
    <3> QED BY <3>3, <3>4
  <2> QED BY <2>2, <2>3
<1> QED BY <1>1, <1>4, <1>5, <1>6, <1>8 DEF PagingInv, SkippedBelow, PagesMissNothing

\* A page goes on where its token says, or the token is refused.
LEMMA PageBegins == ASSUME PagingInv, BeginPage PROVE PagingInv'
<1>1. /\ pageOutcome = "searching" /\ reading = NoReading
      /\ UNCHANGED <<listing, matching, renumbered, cursor, answered, stayed>>
      /\ Idx' = Idx /\ NoReading' = NoReading
  BY DEF BeginPage, Idx, NoReading
<1>2. CASE PathsOf(cursor.over) # PathsOf(listing)
  <2>1. pageOutcome' = "refused" /\ reading' = NoReading
    BY <1>1, <1>2 DEF BeginPage
  <2>2. PagingState'
    BY <1>1, <2>1 DEF PagingInv, PagingState
  <2> QED BY <1>1, <2>1, <2>2 DEF PagingInv, PageFollowsToken, PassedOnce, SkippedBelow, PagesMissNothing
<1>3. CASE PathsOf(cursor.over) = PathsOf(listing)
  <2>1. pageOutcome' = "searching" /\ reading' = [NoReading EXCEPT !.at = cursor.at]
    BY <1>1, <1>3 DEF BeginPage
  <2>2. /\ cursor.at \in 1..Len(PathsOf(listing)) + 1 /\ Len(PathsOf(listing)) \in Nat
    BY <1>1, <1>3, PathsAreAllMail DEF PagingInv, PagingState, PageFollowsToken
  <2>3. reading' = [at |-> cursor.at, todo |-> {}, entered |-> FALSE, items |-> 0, inspected |-> 0, scanned |-> 0]
    BY <2>1 DEF NoReading
  <2>4. PagingState'
    BY <1>1, <2>1, <2>2, <2>3 DEF PagingInv, PagingState
  <2>5. PageFollowsToken'
    <3>1. PathsOf(cursor'.over) = PathsOf(listing') /\ PathsOf(listing') = PathsOf(listing)
      BY <1>1, <1>3
    <3> QED BY <1>1, <2>1, <2>2, <2>3, <3>1 DEF PagingInv, PageFollowsToken
  <2>6. \A k, u : Ahead(k, u)' <=> Ahead(k, u)
    BY <1>1, <2>3 DEF Ahead
  <2>7. PassedOnce'
    BY <1>1, <2>1, <2>6 DEF PagingInv, PassedOnce
  <2> QED BY <2>1, <2>3, <2>4, <2>5, <2>7 DEF PagingInv, SkippedBelow, PagesMissNothing
<1> QED BY <1>2, <1>3

\* What is not found in a mailbox on entering it did not match all along, and was not shown.
LEMMA FolderEntered == ASSUME PagingInv, EnterFolder PROVE PagingInv'
<1> DEFINE paths == PathsOf(listing)
           at == reading.at
           resumed == at = cursor.at
<1>1. /\ pageOutcome = "searching" /\ TopUid \in Nat /\ Len(paths) \in Nat
      /\ DOMAIN paths = 1..Len(paths) /\ PathsOf(cursor.over) = paths
      /\ (\A k \in DOMAIN paths : paths[k] \in Idx)
      /\ at \in 1..Len(paths) /\ cursor.at \in 1..Len(paths) + 1 /\ cursor.upper \in Nat
      /\ cursor.at <= at /\ reading # NoReading /\ ~reading.entered /\ reading.todo = {}
      /\ UNCHANGED <<listing, matching, renumbered, cursor, answered, stayed>>
      /\ Idx' = Idx /\ NoReading' = NoReading /\ Path(at) = paths[at]
  BY PageFacts DEF EnterFolder, Idx, NoReading, Path
<1> HIDE DEF paths
<1>2. CASE resumed /\ cursor.upper # 0 /\ paths[at] \in renumbered
  <2>1. pageOutcome' = "refused" /\ reading' = NoReading
    BY <1>1, <1>2 DEF EnterFolder
  <2>2. PagingState'
    BY <1>1, <2>1 DEF PagingInv, PagingState, NoReading
  <2> QED BY <1>1, <2>1, <2>2 DEF PagingInv, PageFollowsToken, PassedOnce, SkippedBelow, PagesMissNothing
<1>3. CASE ~(resumed /\ cursor.upper # 0 /\ paths[at] \in renumbered)
  <2> DEFINE found == Remaining(matching[paths[at]], IF resumed THEN cursor.upper ELSE 0)
  <2>1. pageOutcome' = "searching" /\ reading' = [reading EXCEPT !.entered = TRUE, !.todo = found]
    BY <1>1, <1>3 DEF EnterFolder
  <2>2. found \subseteq matching[paths[at]] /\ matching[paths[at]] \subseteq 1..TopUid /\ paths[at] \in Idx
    BY <1>1 DEF Remaining, PagingInv, PagingState
  <2>3. \A u \in 1..TopUid : u \in found <=> u \in matching[paths[at]] /\ (~resumed \/ cursor.upper = 0 \/ u <= cursor.upper)
    BY DEF Remaining
  <2> HIDE DEF found
  <2>4. reading' \in [at : Nat, todo : SUBSET (1..TopUid), entered : BOOLEAN, items : Nat, inspected : Nat, scanned : Nat]
        /\ reading'.at = at /\ reading'.entered /\ reading'.todo = found /\ reading' # NoReading
    BY <2>1, <2>2 DEF PagingInv, PagingState, NoReading
  <2>5. PagingState'
    BY <1>1, <2>1, <2>4 DEF PagingInv, PagingState
  <2>6. PathsOf(listing') = paths /\ PathsOf(cursor'.over) = paths
    BY <1>1 DEF paths
  <2>7. PageFollowsToken'
    BY <1>1, <2>1, <2>4, <2>6 DEF PagingInv, PageFollowsToken
  <2>8. PassedOnce'
    <3> SUFFICES ASSUME NEW k \in DOMAIN paths, NEW u \in 1..TopUid, paths[k] \notin renumbered
                 PROVE  IF Ahead(k, u)' THEN answered[paths[k]][u] = 0
                        ELSE /\ answered[paths[k]][u] <= 1
                             /\ u \in stayed[paths[k]] => answered[paths[k]][u] = 1
      BY <1>1, <2>6 DEF PassedOnce
    <3>1. IF Ahead(k, u) THEN answered[paths[k]][u] = 0
          ELSE /\ answered[paths[k]][u] <= 1
               /\ u \in stayed[paths[k]] => answered[paths[k]][u] = 1
      BY <1>1 DEF PagingInv, PassedOnce
    <3>2. Ahead(k, u)' <=> k > at \/ (k = at /\ u \in found)
      BY <1>1, <2>4 DEF Ahead
    <3>3. Ahead(k, u) <=> k > at \/ (k = at /\ (~resumed \/ cursor.upper = 0 \/ u <= cursor.upper))
      BY <1>1 DEF Ahead
    <3>4. CASE k = at /\ u \notin matching[paths[at]]
      <4>1. u \notin stayed[paths[k]]
        BY <1>1, <3>4 DEF PagingInv, PagingState
      <4>2. ~Ahead(k, u)'
        BY <1>1, <2>2, <3>2, <3>4
      <4>3. answered[paths[k]][u] <= 1
        BY <3>1
      <4> QED BY <4>1, <4>2, <4>3
    <3>5. CASE k # at \/ u \in matching[paths[at]]
      <4>1. Ahead(k, u)' <=> Ahead(k, u)
        BY <1>1, <2>3, <3>2, <3>3, <3>5
      <4> QED BY <3>1, <4>1
    <3> QED BY <3>4, <3>5
  <2>9. SkippedBelow'
    <3> SUFFICES ASSUME paths[at] \notin renumbered, NEW top \in found,
                        NEW u \in 1..TopUid \ found, u < top
                 PROVE  answered[paths[at]][u] = 0 /\ u \notin stayed[paths[at]]
      BY <1>1, <2>4, <2>6 DEF SkippedBelow, Path
    <3>1. top \in 1..TopUid /\ (~resumed \/ cursor.upper = 0 \/ u <= cursor.upper)
      BY <1>1, <2>2, <2>3
    <3>2. u \notin matching[paths[at]]
      BY <2>3, <3>1
    <3>3. Ahead(at, u)
      BY <1>1, <3>1 DEF Ahead
    <3>4. u \notin stayed[paths[at]]
      BY <2>2, <3>2 DEF PagingInv, PagingState
    <3> QED BY <1>1, <3>3, <3>4 DEF PagingInv, PassedOnce
  <2> QED BY <2>1, <2>5, <2>7, <2>8, <2>9 DEF PagingInv, PagesMissNothing
<1> QED BY <1>2, <1>3

\* A message is shown, passed over because it left, or named by the token of the full page.
LEMMA MessageInspected == ASSUME PagingInv, Inspect PROVE PagingInv'
<1> DEFINE paths == PathsOf(listing)
           at == reading.at
           i == Path(at)
           uid == Max(reading.todo)
           seen == [reading EXCEPT !.todo = @ \ {uid}, !.inspected = @ + 1]
<1>0. reading # NoReading
  BY DEF Inspect, NoReading
<1>1. /\ pageOutcome = "searching" /\ TopUid \in Nat /\ Len(paths) \in Nat
      /\ DOMAIN paths = 1..Len(paths) /\ PathsOf(cursor.over) = paths
      /\ (\A k \in DOMAIN paths : paths[k] \in Idx)
      /\ (\A j, k \in DOMAIN paths : paths[j] = paths[k] => j = k)
      /\ at \in 1..Len(paths) /\ cursor.at \in 1..Len(paths) + 1 /\ cursor.upper \in Nat
      /\ cursor.at <= at /\ reading.entered /\ reading.todo # {} /\ reading.todo \subseteq 1..TopUid
      /\ UNCHANGED <<listing, matching, renumbered, stayed, pageOutcome>>
      /\ Idx' = Idx /\ NoReading' = NoReading /\ i = paths[at]
  BY <1>0, PageFacts DEF Inspect, Idx, NoReading, Path
<1>2. uid \in reading.todo /\ \A u \in reading.todo : u <= uid
  <2>1. reading.todo \in SUBSET (0..TopUid)
    BY <1>1
  <2> QED BY <1>1, <2>1, Highest
<1>3. CASE uid \in matching[i] /\ reading.items = PageLimit
  <2>1. cursor' = ImapCursor(at, uid) /\ reading' = NoReading /\ answered' = answered
    BY <1>3 DEF Inspect, PageEnds
  <2> QED BY <1>0, <1>1, <2>1, TokenKeeps
<1>4. CASE ~(uid \in matching[i] /\ reading.items = PageLimit)
  <2> HIDE DEF i, paths, uid
  <2>1. /\ cursor' = cursor
        /\ reading' = IF uid \in matching[i] THEN [seen EXCEPT !.items = @ + 1] ELSE seen
        /\ answered' = IF uid \in matching[i] THEN [answered EXCEPT ![i][uid] = @ + 1] ELSE answered
    BY <1>4 DEF Inspect, i, uid
  <2>2. /\ reading'.at = at /\ reading'.entered /\ reading'.todo = reading.todo \ {uid}
        /\ reading' \in [at : Nat, todo : SUBSET (1..TopUid), entered : BOOLEAN, items : Nat,
                         inspected : Nat, scanned : Nat]
    <3>1. reading \in [at : Nat, todo : SUBSET (1..TopUid), entered : BOOLEAN, items : Nat,
                       inspected : Nat, scanned : Nat]
      BY DEF PagingInv, PagingState
    <3>2. reading.items + 1 \in Nat /\ reading.inspected + 1 \in Nat
      BY <3>1
    <3>3. CASE uid \in matching[i]
      <4>1. reading' = [reading EXCEPT !.todo = @ \ {uid}, !.inspected = @ + 1, !.items = @ + 1]
        BY <2>1, <3>1, <3>3
      <4> QED BY <1>1, <3>1, <3>2, <4>1
    <3>4. CASE uid \notin matching[i]
      <4>1. reading' = [reading EXCEPT !.todo = @ \ {uid}, !.inspected = @ + 1]
        BY <2>1, <3>4
      <4> QED BY <1>1, <3>1, <3>2, <4>1
    <3> QED BY <3>3, <3>4
  <2>3. i \in Idx /\ uid \in 1..TopUid /\ answered \in [Idx -> [1..TopUid -> Nat]]
    BY <1>1, <1>2 DEF PagingInv, PagingState
  <2>4. /\ answered' \in [Idx -> [1..TopUid -> Nat]]
        /\ \A j \in Idx, u \in 1..TopUid :
               answered'[j][u] = IF j = i /\ u = uid /\ uid \in matching[i] THEN answered[i][uid] + 1 ELSE answered[j][u]
    <3>4. answered[i] \in [1..TopUid -> Nat]
      BY <2>3
    <3>1. answered[i] \in [1..TopUid -> Nat] /\ answered[i][uid] + 1 \in Nat
      <4>1. answered[i][uid] \in Nat
        BY <2>3, <3>4
      <4> QED BY <3>4, <4>1
    <3>2. CASE uid \in matching[i]
      <4>1. answered' = [answered EXCEPT ![i] = [answered[i] EXCEPT ![uid] = answered[i][uid] + 1]]
        BY <2>1, <3>2
      <4>2. [answered[i] EXCEPT ![uid] = answered[i][uid] + 1] \in [1..TopUid -> Nat]
        BY <3>1
      <4>3. \A u \in 1..TopUid : [answered[i] EXCEPT ![uid] = answered[i][uid] + 1][u] =
                                     IF u = uid THEN answered[i][uid] + 1 ELSE answered[i][u]
        BY <3>1
      <4> HIDE DEF i
      <4> QED BY <2>3, <3>2, <4>1, <4>2, <4>3
    <3>3. CASE uid \notin matching[i]
      BY <2>1, <2>3, <3>3
    <3> QED BY <3>2, <3>3
  <2>5. PagingState'
    BY <1>1, <2>2, <2>4 DEF PagingInv, PagingState
  <2>6. PathsOf(listing') = paths /\ PathsOf(cursor'.over) = paths
    BY <1>1, <2>1 DEF paths
  <2>7. reading' # NoReading
    BY <1>1, <2>2 DEF NoReading
  <2>8. PageFollowsToken'
    BY <1>0, <1>1, <2>1, <2>2, <2>6 DEF PagingInv, PageFollowsToken
  <2>9. PassedOnce'
    <3> SUFFICES ASSUME NEW k \in DOMAIN paths, NEW u \in 1..TopUid, paths[k] \notin renumbered
                 PROVE  IF Ahead(k, u)' THEN answered'[paths[k]][u] = 0
                        ELSE /\ answered'[paths[k]][u] <= 1
                             /\ u \in stayed[paths[k]] => answered'[paths[k]][u] = 1
      BY <1>1, <2>6 DEF PassedOnce
    <3>1. IF Ahead(k, u) THEN answered[paths[k]][u] = 0
          ELSE /\ answered[paths[k]][u] <= 1
               /\ u \in stayed[paths[k]] => answered[paths[k]][u] = 1
      BY <1>1 DEF PagingInv, PassedOnce
    <3>2. Ahead(k, u)' <=> k > at \/ (k = at /\ u \in reading.todo \ {uid})
      BY <1>1, <2>2, <2>7 DEF Ahead
    <3>3. Ahead(k, u) <=> k > at \/ (k = at /\ u \in reading.todo)
      BY <1>0, <1>1 DEF Ahead
    <3>4. CASE k = at /\ u = uid
      <4>1. answered[i][uid] = 0 /\ ~Ahead(k, u)'
        BY <1>1, <1>2, <3>1, <3>2, <3>3, <3>4
      <4>2. CASE uid \in matching[i]
        <5>1. answered'[i][uid] = 1
          BY <2>3, <2>4, <4>1, <4>2
        <5> QED BY <1>1, <3>4, <4>1, <5>1
      <4>3. CASE uid \notin matching[i]
        <5>1. answered'[i][uid] = 0 /\ uid \notin stayed[i]
          BY <2>3, <2>4, <4>1, <4>3 DEF PagingInv, PagingState
        <5> QED BY <1>1, <3>4, <4>1, <5>1
      <4> QED BY <4>2, <4>3
    <3>5. CASE ~(k = at /\ u = uid)
      <4>1. Ahead(k, u)' <=> Ahead(k, u)
        BY <3>2, <3>3, <3>5
      <4>2. paths[k] # i \/ u # uid
        BY <1>1, <3>5
      <4>3. answered'[paths[k]][u] = answered[paths[k]][u]
        BY <1>1, <2>4, <4>2
      <4> QED BY <3>1, <4>1, <4>3
    <3> QED BY <3>4, <3>5
  <2>10. SkippedBelow'
    <3> SUFFICES ASSUME i \notin renumbered, NEW top \in reading.todo \ {uid},
                        NEW u \in 1..TopUid \ (reading.todo \ {uid}), u < top
                 PROVE  answered'[i][u] = 0 /\ u \notin stayed[i]
      BY <1>1, <2>2, <2>6 DEF SkippedBelow, Path, i
    <3>1. u # uid
      <4>1. top <= uid /\ top \in Nat /\ uid \in Nat /\ u \in Nat
        BY <1>1, <1>2
      <4> QED BY <4>1
    <3>2. answered[i][u] = 0 /\ u \notin stayed[i]
      BY <1>0, <1>1, <3>1 DEF PagingInv, SkippedBelow, i
    <3>3. answered'[i][u] = answered[i][u]
      BY <2>3, <2>4, <3>1
    <3> QED BY <3>2, <3>3
  <2> QED BY <1>1, <2>5, <2>8, <2>9, <2>10 DEF PagingInv, PagesMissNothing
<1> QED BY <1>3, <1>4

\* A mailbox is left with nothing of it ahead.
LEMMA FolderLeft == ASSUME PagingInv, LeaveFolder PROVE PagingInv'
<1> DEFINE paths == PathsOf(listing)
           at == reading.at
<1>0. reading # NoReading
  BY DEF LeaveFolder, NoReading
<1>1. /\ pageOutcome = "searching" /\ TopUid \in Nat /\ Len(paths) \in Nat
      /\ DOMAIN paths = 1..Len(paths) /\ PathsOf(cursor.over) = paths
      /\ at \in 1..Len(paths) /\ cursor.at \in 1..Len(paths) + 1 /\ cursor.upper \in Nat
      /\ cursor.at <= at /\ reading.entered /\ reading.todo = {}
      /\ UNCHANGED <<listing, matching, renumbered, cursor, answered, stayed, pageOutcome>>
      /\ Idx' = Idx /\ NoReading' = NoReading
  BY <1>0, PageFacts DEF LeaveFolder, Idx, NoReading
<1> HIDE DEF paths
<1>2. /\ reading'.at = at + 1 /\ ~reading'.entered /\ reading'.todo = {}
      /\ reading' \in [at : Nat, todo : SUBSET (1..TopUid), entered : BOOLEAN, items : Nat,
                       inspected : Nat, scanned : Nat]
  <2>1. reading' = [reading EXCEPT !.entered = FALSE, !.at = @ + 1, !.scanned = @ + 1]
    BY DEF LeaveFolder
  <2>2. reading \in [at : Nat, todo : SUBSET (1..TopUid), entered : BOOLEAN, items : Nat,
                     inspected : Nat, scanned : Nat]
    BY DEF PagingInv, PagingState
  <2>3. reading.at + 1 \in Nat /\ reading.scanned + 1 \in Nat
    BY <2>2
  <2> QED BY <1>1, <2>1, <2>2, <2>3
<1>3. PagingState'
  BY <1>1, <1>2 DEF PagingInv, PagingState
<1>4. PathsOf(listing') = paths /\ PathsOf(cursor'.over) = paths
  BY <1>1 DEF paths
<1>5. PageFollowsToken'
  <2>1. cursor.at <= at + 1 /\ at + 1 \in 1..Len(paths) + 1
    BY <1>1
  <2> QED BY <1>0, <1>1, <1>2, <1>4, <2>1 DEF PagingInv, PageFollowsToken
<1>6. PassedOnce'
  <2> SUFFICES ASSUME NEW k \in DOMAIN paths, NEW u \in 1..TopUid, paths[k] \notin renumbered
               PROVE  IF Ahead(k, u)' THEN answered[paths[k]][u] = 0
                      ELSE /\ answered[paths[k]][u] <= 1
                           /\ u \in stayed[paths[k]] => answered[paths[k]][u] = 1
    BY <1>1, <1>4 DEF PassedOnce
  <2>1. k \in Nat /\ at \in Nat /\ reading' # NoReading /\ reading'.at # cursor.at
    BY <1>1, <1>2 DEF NoReading
  <2>2. Ahead(k, u)' <=> k > at + 1 \/ k = at + 1
    BY <1>1, <1>2, <2>1 DEF Ahead
  <2>3. Ahead(k, u) <=> k > at
    BY <1>0, <1>1 DEF Ahead
  <2>4. Ahead(k, u)' <=> Ahead(k, u)
    BY <2>1, <2>2, <2>3
  <2> QED BY <1>1, <2>4 DEF PagingInv, PassedOnce
<1> QED BY <1>1, <1>2, <1>3, <1>5, <1>6 DEF PagingInv, SkippedBelow, PagesMissNothing

\* After the last mailbox nothing is ahead.
LEMMA SearchEnds == ASSUME PagingInv, Exhausted PROVE PagingInv'
<1> DEFINE paths == PathsOf(listing)
<1>1. /\ pageOutcome = "searching" /\ Len(paths) \in Nat
      /\ DOMAIN paths = 1..Len(paths) /\ PathsOf(cursor.over) = paths
      /\ reading # NoReading /\ ~reading.entered /\ reading.at > Len(paths)
      /\ reading.at \in 1..Len(paths) + 1 /\ cursor.at \in 1..Len(paths) + 1
      /\ pageOutcome' = "exhausted" /\ reading' = NoReading
      /\ UNCHANGED <<listing, matching, renumbered, answered, stayed>>
      /\ Idx' = Idx /\ NoReading' = NoReading
  BY PageFacts DEF Exhausted, PageEnds, Idx, NoReading
<1>2. PagingState'
  BY <1>1 DEF PagingInv, PagingState, NoReading
<1>3. AllMail(listing') = AllMail(listing)
  BY <1>1
<1>4. ASSUME NEW i \in AllMail(listing), NEW u \in 1..TopUid
      PROVE  /\ u \in stayed[i] => answered[i][u] = 1
             /\ i \notin renumbered => answered[i][u] <= 1
  <2>1. PICK k \in DOMAIN paths : paths[k] = i
    BY PathsAreAllMail DEF PagingInv, PagingState
  <2>2. ~Ahead(k, u)
    BY <1>1 DEF Ahead
  <2>3. i \notin renumbered => /\ answered[i][u] <= 1
                               /\ u \in stayed[i] => answered[i][u] = 1
    BY <1>1, <2>1, <2>2 DEF PagingInv, PassedOnce
  <2> QED BY <2>3 DEF PagingInv, PagingState
<1>5. PagesMissNothing'
  BY <1>1, <1>3, <1>4 DEF PagesMissNothing
<1> QED BY <1>1, <1>2, <1>5 DEF PagingInv, PageFollowsToken, PassedOnce, SkippedBelow

\* No action of the search or of other clients disturbs it.
LEMMA PagingKeeps == ASSUME PagingInv, [PagingNext]_pagingVars PROVE PagingInv'
<1>1. CASE StopBeforeFolder
  <2>1. reading.todo = {}
    BY <1>1, PageFacts DEF StopBeforeFolder
  <2> QED BY <1>1, <2>1, TokenKeeps DEF StopBeforeFolder, PageEnds
<1>2. CASE StopInFolder
  <2>1. reading # NoReading
    BY <1>2 DEF StopInFolder, NoReading
  <2>2. reading.at <= Len(PathsOf(listing))
    BY <1>2, <2>1, PageFacts DEF StopInFolder
  <2> QED BY <1>2, <2>1, <2>2, TokenKeeps DEF StopInFolder, PageEnds
<1>3. ASSUME NEW i \in Idx, NEW uid \in 1..TopUid, MessageLeaves(i, uid) PROVE PagingInv'
  <2>1. /\ pageOutcome = "searching" /\ UNCHANGED <<listing, renumbered, cursor, reading, answered, pageOutcome>>
        /\ matching' = [matching EXCEPT ![i] = @ \ {uid}] /\ stayed' = [stayed EXCEPT ![i] = @ \ {uid}]
        /\ Idx' = Idx
    BY <1>3 DEF MessageLeaves, Idx
  <2>2. PagingState' /\ \A j \in Idx : stayed'[j] \subseteq stayed[j]
    BY <2>1 DEF PagingInv, PagingState
  <2> QED BY <2>1, <2>2, OthersKeep
<1>4. ASSUME NEW i \in Idx, MessageArrives(i) PROVE PagingInv'
  <2>1. /\ pageOutcome = "searching" /\ UNCHANGED <<listing, renumbered, cursor, reading, answered, stayed, pageOutcome>>
        /\ matching' = [matching EXCEPT ![i] = @ \cup {TopUid}] /\ Idx' = Idx
    BY <1>4 DEF MessageArrives, Idx
  <2>2. TopUid \in 1..TopUid
    BY PagingConstants
  <2>3. PagingState' /\ \A j \in Idx : stayed'[j] \subseteq stayed[j]
    BY <2>1, <2>2 DEF PagingInv, PagingState
  <2> QED BY <2>1, <2>3, OthersKeep
<1>5. ASSUME NEW i \in Idx, RenumberBox(i) PROVE PagingInv'
  <2>1. /\ pageOutcome = "searching" /\ UNCHANGED <<listing, matching, cursor, reading, answered, pageOutcome>>
        /\ renumbered' = renumbered \cup {i} /\ stayed' = [stayed EXCEPT ![i] = {}] /\ Idx' = Idx
    BY <1>5 DEF RenumberBox, Idx
  <2>2. PagingState' /\ \A j \in Idx : stayed'[j] \subseteq stayed[j]
    BY <2>1 DEF PagingInv, PagingState
  <2> QED BY <2>1, <2>2, OthersKeep
<1>6. ASSUME NEW l \in Listings, FoldersChange(l) PROVE PagingInv'
  <2>1. /\ pageOutcome = "searching" /\ reading = NoReading /\ Idx' = Idx /\ listing' = l /\ NoReading' = NoReading
        /\ UNCHANGED <<matching, renumbered, cursor, reading, answered, stayed, pageOutcome>>
    BY <1>6 DEF FoldersChange, Idx, NoReading
  <2>2. PagingState' /\ PageFollowsToken'
    BY <2>1 DEF PagingInv, PagingState, PageFollowsToken
  <2>3. \A k, u : Ahead(k, u)' <=> Ahead(k, u)
    BY <2>1 DEF Ahead
  <2>4. PassedOnce'
    BY <2>1, <2>3 DEF PagingInv, PassedOnce
  <2> QED BY <2>1, <2>2, <2>4 DEF PagingInv, SkippedBelow, PagesMissNothing
<1>7. CASE UNCHANGED pagingVars
  <2>1. /\ UNCHANGED <<listing, matching, renumbered, cursor, reading, answered, stayed, pageOutcome>>
        /\ Idx' = Idx /\ NoReading' = NoReading
    BY <1>7 DEF pagingVars, Idx, NoReading
  <2>2. \A k, u : Ahead(k, u)' <=> Ahead(k, u)
    BY <2>1 DEF Ahead
  <2>3. PagingState' /\ PageFollowsToken'
    BY <2>1 DEF PagingInv, PagingState, PageFollowsToken
  <2>4. PassedOnce'
    BY <2>1, <2>2 DEF PagingInv, PassedOnce
  <2>5. SkippedBelow' /\ PagesMissNothing'
    BY <2>1 DEF PagingInv, SkippedBelow, PagesMissNothing, Path
  <2> QED BY <2>3, <2>4, <2>5 DEF PagingInv
<1> QED BY <1>1, <1>2, <1>3, <1>4, <1>5, <1>6, <1>7, PageBegins, FolderEntered, MessageInspected,
           FolderLeft, SearchEnds DEF PagingNext

\* What lies ahead of a token was never shown, and of what it leaves behind every
\* message that matched all along was shown once.
THEOREM PagingInvariance == PagingSpec => []PagingInv
BY PagingBegin, PagingKeeps, PTL DEF PagingSpec

\* For any listings, limits and UIDs, pages followed to the end show each message that
\* matched from the first to the last once, and none twice, wherever they were cut.
THEOREM PagesNeverMiss == PagingSpec => []PagesMissNothing
<1>1. PagingInv => PagesMissNothing
  BY DEF PagingInv
<1> QED BY <1>1, PagingInvariance, PTL

----------------------------------------------------------------------------
(* The pages of Gmail and Outlook: a batch leaves nothing out, and what a      *)
(* token leaves waiting is what was waiting when the page was cut.             *)

\* Candidates are numbered.
LEMMA CandidatesAreNumbers ==
    /\ Cardinality(Candidates) \in Nat /\ Candidates \subseteq Nat
    /\ \A x \in Candidates : x \in 0..Cardinality(Candidates)
<1> DEFINE n == Cardinality(Candidates)
<1>1. n \in Nat
  BY ProviderPagingConstants, FS_CardinalityType
<1>2. Candidates = 1..n
  BY ProviderPagingConstants
<1> HIDE DEF n
<1>3. Candidates \subseteq Nat /\ \A x \in Candidates : x \in 0..n
  BY <1>1, <1>2
<1> QED BY <1>1, <1>3 DEF n

\* A batch of the service, in order, holds everything up to its end.
LEMMA BatchFacts ==
    ASSUME remaining \subseteq Candidates, NEW after \in Candidates \cup {0}
    PROVE  /\ Rising(Batch(after)) /\ Len(Batch(after)) \in Nat /\ DOMAIN Batch(after) = 1..Len(Batch(after))
           /\ Len(Batch(after)) <= BatchSize
           /\ \A k \in DOMAIN Batch(after) : Batch(after)[k] \in remaining /\ Batch(after)[k] > after
           /\ Batch(after) # << >> => /\ Len(Batch(after)) \in DOMAIN Batch(after)
                                      /\ Last(Batch(after)) = Batch(after)[Len(Batch(after))]
                                      /\ \A k \in DOMAIN Batch(after) : Batch(after)[k] <= Last(Batch(after))
           /\ \A id \in remaining : id > after /\ (Batch(after) = << >> \/ id <= Last(Batch(after))) =>
                  \E k \in DOMAIN Batch(after) : Batch(after)[k] = id
<1> DEFINE following == {id \in remaining : id > after}
           s == InOrder(following)
           c == Cardinality(following)
           m == IF c < BatchSize THEN c ELSE BatchSize
           b == Batch(after)
<1>1. Candidates \subseteq Nat
  BY CandidatesAreNumbers
<1>2. following \in SUBSET (0..Cardinality(Candidates))
  BY CandidatesAreNumbers
<1>3. /\ c \in Nat /\ s \in [1..c -> following] /\ Len(s) = c
      /\ \A j, k \in 1..c : j < k => s[j] < s[k]
      /\ \A i \in following : \E k \in 1..c : s[k] = i
  <2> DEFINE n == Cardinality(Candidates)
  <2>1. n \in Nat /\ following \in SUBSET (0..n)
    BY <1>2, CandidatesAreNumbers
  <2> HIDE DEF following, n
  <2> QED BY <2>1, Ordered
<1>4. BatchSize \in Nat \ {0}
  BY ProviderPagingConstants
<1>5. b = SubSeq(s, 1, m)
  BY DEF Batch
<1> HIDE DEF s, b
<1>6. m \in Nat /\ m <= BatchSize /\ m <= c /\ (m < c => m = BatchSize) /\ (m = 0 => c = 0)
  BY <1>3, <1>4
<1> HIDE DEF c, m
<1>7. b = [k \in 1..m |-> s[k]]
  <2>1. s \in Seq(following)
    BY <1>3
  <2> QED BY <1>3, <1>5, <1>6, <2>1
<1>8. DOMAIN b = 1..m /\ \A k \in 1..m : b[k] = s[k] /\ s[k] \in following /\ k \in 1..c
  BY <1>3, <1>6, <1>7
<1>9. b \in Seq(Candidates) /\ Len(b) = m
  BY <1>6, <1>7, <1>8
<1>10. Rising(b)
  BY <1>3, <1>8, <1>9 DEF Rising
<1>11. \A k \in DOMAIN b : b[k] \in remaining /\ b[k] > after
  BY <1>8
<1>12. ASSUME b # << >>
       PROVE  m \in 1..m /\ Last(b) = b[m] /\ \A k \in 1..m : b[k] <= b[m]
  <2>1. m # 0
    BY <1>9, <1>12
  <2>2. m \in 1..m
    BY <1>6, <2>1
  <2>3. Last(b) = b[m]
    BY <1>9 DEF Last
  <2>4. ASSUME NEW k \in 1..m PROVE b[k] <= b[m]
    <3>1. b[k] \in Nat /\ b[m] \in Nat
      BY <1>1, <1>8, <2>2
    <3>2. k = m \/ k < m
      BY <1>6
    <3>3. k < m => b[k] < b[m]
      BY <1>3, <1>8, <2>2
    <3> QED BY <3>1, <3>2, <3>3
  <2> QED BY <2>2, <2>3, <2>4
<1>13. ASSUME NEW id \in remaining, id > after, b = << >> \/ id <= Last(b)
       PROVE  \E k \in DOMAIN b : b[k] = id
  <2>1. PICK k \in 1..c : s[k] = id
    BY <1>3, <1>13
  <2>2. CASE k <= m
    BY <1>3, <1>6, <1>8, <2>1, <2>2
  <2>3. CASE k > m
    <3>1. m # 0 /\ b # << >>
      BY <1>3, <1>6, <1>9, <2>1, <2>3
    <3>2. id <= b[m] /\ m \in 1..m
      BY <1>12, <1>13, <3>1
    <3>3. b[m] < id /\ b[m] \in Nat /\ id \in Nat
      BY <1>1, <1>3, <1>6, <1>8, <2>1, <2>3, <3>2
    <3> QED BY <3>2, <3>3
  <2> QED BY <1>3, <1>6, <2>1, <2>2, <2>3
<1> QED BY <1>6, <1>8, <1>9, <1>10, <1>11, <1>12, <1>13 DEF b

\* A token as the pages make them.
Sound(from) == from \in Positions /\ Rising(from.pending) /\ \A k \in DOMAIN from.pending : from.pending[k] <= from.after
\* What is loaded goes from where it begins to its edge and leaves nothing out.
LEMMA LoadFacts ==
    ASSUME remaining \subseteq Candidates, NEW from, Sound(from), NEW items \in Nat, NEW inspected \in Nat,
           NEW l, l = Load(from, items, inspected)
    PROVE  /\ l \in Loops
           /\ l.on /\ l.from = from /\ l.done = from.offset /\ Rising(l.ids)
           /\ EdgeOf(l) \in Candidates \cup {0}
           /\ \A k \in DOMAIN l.ids : l.ids[k] <= EdgeOf(l)
           /\ from.pending # << >> => l.ids = from.pending /\ EdgeOf(l) = from.after
           /\ from.pending = << >> =>
                  /\ l.ids = Batch(from.after) /\ EdgeOf(l) >= from.after
                  /\ \A k \in DOMAIN l.ids : l.ids[k] > from.after
                  /\ \A id \in remaining : id > from.after /\ id <= EdgeOf(l) => \E k \in DOMAIN l.ids : l.ids[k] = id
           /\ ~l.more => \A id \in remaining : id <= EdgeOf(l)
<1> DEFINE a == from.after
           p == from.pending
           b == Batch(a)
           e == EdgeOf(l)
<1>1. Candidates \subseteq Nat
  BY CandidatesAreNumbers
<1>2. /\ from \in Positions /\ a \in Candidates \cup {0} /\ p \in Seq(Candidates) /\ from.offset \in Nat
      /\ Rising(p) /\ \A k \in DOMAIN p : p[k] <= a
  BY DEF Positions, Sound
<1>3. /\ Rising(b) /\ Len(b) \in Nat /\ DOMAIN b = 1..Len(b) /\ b \in Seq(Candidates)
      /\ \A k \in DOMAIN b : b[k] \in remaining /\ b[k] > a
      /\ b # << >> => /\ Len(b) \in DOMAIN b /\ Last(b) = b[Len(b)]
                      /\ \A k \in DOMAIN b : b[k] <= Last(b)
      /\ \A id \in remaining : id > a /\ (b = << >> \/ id <= Last(b)) => \E k \in DOMAIN b : b[k] = id
  <2>1. a \in Candidates \cup {0}
    BY <1>2
  <2> HIDE DEF a
  <2> QED BY <2>1, BatchFacts DEF Rising
<1>4. /\ l.on /\ l.from = from /\ l.done = from.offset
      /\ l.ids = IF p # << >> THEN p ELSE b
      /\ l.more = IF p # << >> THEN \E id \in remaining : id > a ELSE Beyond(b)
      /\ l = [on |-> TRUE, ids |-> l.ids, from |-> from, more |-> l.more, done |-> from.offset,
             items |-> items, inspected |-> inspected]
  BY DEF Load
<1>5. e = IF p # << >> \/ l.ids = << >> THEN a ELSE Last(l.ids)
  BY <1>4 DEF EdgeOf
<1> HIDE DEF a, b, p, e
<1>6. l \in Loops
  <2>1. Beyond(b) \in BOOLEAN
    BY DEF Beyond
  <2>2. l.ids \in Seq(Candidates) /\ l.more \in BOOLEAN
    BY <1>2, <1>3, <1>4, <2>1
  <2> DEFINE i == l.ids
             m == l.more
             o == from.offset
  <2>3. i \in Seq(Candidates) /\ m \in BOOLEAN /\ o \in Nat
        /\ l = [on |-> TRUE, ids |-> i, from |-> from, more |-> m, done |-> o,
                items |-> items, inspected |-> inspected]
    BY <1>2, <1>4, <2>2
  <2> HIDE DEF i, m, o
  <2> QED BY <1>2, <2>3 DEF Loops
<1>7. CASE p # << >>
  <2>1. l.ids = p /\ e = a /\ (l.more <=> \E id \in remaining : id > a)
    BY <1>4, <1>5, <1>7
  <2>2. a \in Nat /\ remaining \subseteq Nat
    BY <1>1, <1>2
  <2>3. ~l.more => \A id \in remaining : id <= a
    BY <2>1, <2>2
  <2> QED BY <1>2, <1>4, <1>6, <1>7, <2>1, <2>3 DEF a, p, e
<1>8. CASE p = << >>
  <2>1. l.ids = b /\ (l.more <=> Beyond(b)) /\ e = IF b = << >> THEN a ELSE Last(b)
    BY <1>4, <1>5, <1>8
  <2>2. b = << >> => DOMAIN b = {}
    OBVIOUS
  <2>3. b # << >> => Last(b) \in remaining /\ Last(b) > a
    BY <1>3
  <2>4. a \in Nat /\ remaining \subseteq Nat
    BY <1>1, <1>2
  <2>5. e \in Candidates \cup {0} /\ e >= a /\ e \in Nat
    <3>1. CASE b = << >>
      BY <1>2, <2>1, <2>4, <3>1
    <3>2. CASE b # << >>
      <4>1. e = Last(b) /\ Last(b) \in remaining /\ Last(b) > a
        BY <2>1, <2>3, <3>2
      <4>2. Last(b) \in Candidates /\ Last(b) \in Nat
        BY <2>4, <4>1
      <4>3. Last(b) >= a
        <5> HIDE DEF a, b
        <5> QED BY <2>4, <4>1, <4>2
      <4> HIDE DEF a, b, e
      <4> QED BY <4>1, <4>2, <4>3
    <3> QED BY <3>1, <3>2
  <2>6. \A k \in DOMAIN b : b[k] <= e /\ b[k] > a
    BY <1>3, <2>1, <2>2
  <2>7. \A id \in remaining : id > a /\ id <= e => \E k \in DOMAIN b : b[k] = id
    BY <1>3, <2>1
  <2>8. ~l.more => \A id \in remaining : id <= e
    <3> SUFFICES ASSUME ~Beyond(b), NEW id \in remaining PROVE id <= e
      BY <2>1
    <3>1. id \in Nat
      BY <2>4
    <3>2. CASE b = << >>
      BY <1>3, <2>1, <2>2, <2>4, <3>1, <3>2
    <3>3. CASE b # << >>
      <4>1. ~(id > Last(b)) /\ Last(b) \in Nat
        BY <2>3, <2>4, <3>3 DEF Beyond
      <4> QED BY <2>1, <3>1, <3>3, <4>1
    <3> QED BY <3>2, <3>3
  <2>9. Rising(b)
    BY <1>3
  <2> QED BY <1>4, <1>6, <1>8, <2>1, <2>5, <2>6, <2>7, <2>8, <2>9 DEF a, b, p, e
<1> QED BY <1>7, <1>8

\* At first everything waits.
LEMMA CandidatesBegin == ProviderPagingInit => CandidatesInv
<1> SUFFICES ASSUME ProviderPagingInit PROVE CandidatesInv
  OBVIOUS
<1>1. << >> \in Seq(Candidates) /\ Len(<< >>) = 0 /\ DOMAIN << >> = {}
  BY EmptySeq
<1>2. /\ loop.on = FALSE /\ loop = NoLoop /\ ~finished /\ remaining = Candidates
      /\ pageToken = [pending |-> << >>, after |-> 0, offset |-> 0]
      /\ style \in {"gmail", "outlook"} /\ shifted = FALSE /\ inspectedTimes = [id \in Candidates |-> 0]
      /\ finished = FALSE
  BY DEF ProviderPagingInit, NoLoop, Position
<1>3. NoLoop \in Loops
  <2>1. NoLoop = [on |-> FALSE, ids |-> << >>, from |-> [pending |-> << >>, after |-> 0, offset |-> 0],
                  more |-> FALSE, done |-> 0, items |-> 0, inspected |-> 0]
    BY DEF NoLoop, Position
  <2>2. [pending |-> << >>, after |-> 0, offset |-> 0] \in Positions
    BY <1>1 DEF Positions
  <2> QED BY <1>1, <2>1, <2>2 DEF Loops
<1>4. PositionState
  BY <1>1, <1>2, <1>3 DEF PositionState, Positions
<1>5. Loaded = << >> /\ LookedAt = 0 /\ Edge = 0
  BY <1>2 DEF Loaded, LookedAt, Edge
<1>6. LoadedInOrder
  BY <1>1, <1>5 DEF LoadedInOrder, Rising
<1>7. WaitingOrSeen
  <2> SUFFICES ASSUME NEW id \in Candidates PROVE Waiting(id) /\ inspectedTimes[id] = 0
    BY <1>2 DEF WaitingOrSeen
  <2>1. id > 0
    <3>1. Cardinality(Candidates) \in Nat /\ id \in 1..Cardinality(Candidates)
      BY ProviderPagingConstants, CandidatesAreNumbers
    <3> QED BY <3>1
  <2> QED BY <1>2, <1>5, <2>1 DEF Waiting
<1> QED BY <1>2, <1>4, <1>6, <1>7 DEF CandidatesInv, BatchIsWhole, CandidatesSeenOnce

\* The page under way.
LEMMA LoopFacts ==
    ASSUME CandidatesInv, loop.on
    PROVE  /\ ~finished /\ loop \in Loops /\ loop.from \in Positions /\ remaining \subseteq Candidates
           /\ loop.ids \in Seq(Candidates) /\ Len(loop.ids) \in Nat /\ DOMAIN loop.ids = 1..Len(loop.ids)
           /\ Rising(loop.ids) /\ loop.done \in 0..Len(loop.ids)
           /\ Loaded = loop.ids /\ LookedAt = loop.done /\ Edge = EdgeOf(loop)
           /\ Edge \in Candidates \cup {0} /\ \A k \in DOMAIN loop.ids : loop.ids[k] <= Edge
<1>1. ~finished /\ loop \in Loops /\ remaining \subseteq Candidates
  BY DEF CandidatesInv, PositionState
<1>2. Loaded = loop.ids /\ LookedAt = loop.done /\ Edge = EdgeOf(loop)
  BY DEF Loaded, LookedAt, Edge
<1>3. loop.ids \in Seq(Candidates) /\ loop.from \in Positions
  BY <1>1 DEF Loops
<1> DEFINE ids == loop.ids
<1> HIDE DEF ids
<1>4. ids \in Seq(Candidates) => Len(ids) \in Nat /\ DOMAIN ids = 1..Len(ids)
  BY LenProperties
<1> QED BY <1>1, <1>2, <1>3, <1>4 DEF CandidatesInv, LoadedInOrder, ids

\* A token, or none yet, between two pages.
LEMMA TokenFacts ==
    ASSUME CandidatesInv, ~loop.on, ~finished
    PROVE  /\ pageToken \in Positions /\ remaining \subseteq Candidates
           /\ Edge \in Candidates \cup {0} /\ LookedAt = pageToken.offset /\ LookedAt \in 0..Len(Loaded)
           /\ pageToken.offset > 0 => Loaded = counted /\ Edge = Last(counted) /\ pageToken.pending = << >>
           /\ pageToken.offset = 0 => Loaded = pageToken.pending /\ Edge = pageToken.after /\ Sound(pageToken)
<1>1. pageToken \in Positions /\ remaining \subseteq Candidates /\ style \in {"gmail", "outlook"}
      /\ (style = "gmail" => pageToken.offset = 0) /\ (style = "outlook" => pageToken.pending = << >>)
  BY DEF CandidatesInv, PositionState
<1> DEFINE offset == pageToken.offset
<1>2. offset \in Nat
  BY <1>1 DEF Positions
<1>3. /\ LookedAt = offset
      /\ offset > 0 => Loaded = counted /\ Edge = Last(counted)
      /\ ~(offset > 0) => Loaded = pageToken.pending /\ Edge = pageToken.after
  BY DEF Loaded, LookedAt, Edge
<1>4. offset > 0 => style = "outlook"
  BY <1>1
<1> HIDE DEF offset
<1>5. offset = 0 => ~(offset > 0)
  OBVIOUS
<1>6. Rising(Loaded) /\ LookedAt \in 0..Len(Loaded) /\ Edge \in Candidates \cup {0}
      /\ \A k \in DOMAIN Loaded : Loaded[k] <= Edge
  BY DEF CandidatesInv, LoadedInOrder
<1>7. offset = 0 => Sound(pageToken)
  BY <1>1, <1>3, <1>5, <1>6 DEF Sound
<1> QED BY <1>1, <1>3, <1>4, <1>5, <1>6, <1>7 DEF offset

\* What waits on a page that has just been loaded.
Awaits(page, id) == id > EdgeOf(page) \/ \E k \in DOMAIN page.ids : k > page.done /\ page.ids[k] = id

\* A page goes on with what is loaded, if that leaves waiting what waited.
LEMMA LoadStep ==
    ASSUME CandidatesInv, ~finished, NEW from, Sound(from), NEW items \in Nat, NEW inspected \in Nat,
           loop' = Load(from, items, inspected),
           UNCHANGED <<style, remaining, pageToken, inspectedTimes, finished>>,
           shifted' \in BOOLEAN, shifted => shifted',
           style = "gmail" => from.offset = 0, style = "outlook" => from.pending = << >>,
           from.offset \in 0..Len(loop'.ids),
           ~shifted' => \A id \in remaining : Waiting(id) <=> Awaits(loop', id)
    PROVE  CandidatesInv'
<1>1. remaining \subseteq Candidates
  BY DEF CandidatesInv, PositionState
<1>2. /\ loop' \in Loops
      /\ loop'.on /\ loop'.from = from /\ loop'.done = from.offset /\ Rising(loop'.ids)
      /\ EdgeOf(loop') \in Candidates \cup {0}
      /\ \A k \in DOMAIN loop'.ids : loop'.ids[k] <= EdgeOf(loop')
      /\ from.pending = << >> =>
             /\ \A k \in DOMAIN loop'.ids : loop'.ids[k] > from.after
             /\ \A id \in remaining : id > from.after /\ id <= EdgeOf(loop') => \E k \in DOMAIN loop'.ids : loop'.ids[k] = id
      /\ ~loop'.more => \A id \in remaining : id <= EdgeOf(loop')
  BY <1>1, LoadFacts
<1>3. Loaded' = loop'.ids /\ LookedAt' = from.offset /\ Edge' = EdgeOf(loop')
  BY <1>2 DEF Loaded, LookedAt, Edge, EdgeOf
<1>4. PositionState'
  BY <1>2 DEF CandidatesInv, PositionState, Positions, Loops
<1>5. LoadedInOrder'
  BY <1>2, <1>3 DEF LoadedInOrder, Rising
<1>6. BatchIsWhole'
  BY <1>2, <1>3 DEF BatchIsWhole
<1>7. WaitingOrSeen'
  <2>1. \A id : Waiting(id)' <=> Awaits(loop', id)
    BY <1>2, <1>3 DEF Waiting, Awaits
  <2> QED BY <2>1 DEF CandidatesInv, WaitingOrSeen
<1> QED BY <1>4, <1>5, <1>6, <1>7 DEF CandidatesInv, CandidatesSeenOnce

\* After a position, what waits is what is loaded from there and what lies beyond.
LEMMA NextBatch ==
    ASSUME remaining \subseteq Candidates, NEW after \in Candidates \cup {0}, NEW from,
           from = Position(<< >>, after, 0), NEW items \in Nat, NEW inspected \in Nat,
           NEW l, l = Load(from, items, inspected)
    PROVE  /\ Sound(from) /\ from.offset = 0 /\ from.pending = << >> /\ from.offset \in 0..Len(l.ids)
           /\ \A id \in remaining : id > after <=> Awaits(l, id)
<1>1. << >> \in Seq(Candidates) /\ DOMAIN << >> = {}
  BY EmptySeq
<1>2. from = [pending |-> << >>, after |-> after, offset |-> 0]
  BY DEF Position
<1>3. Sound(from) /\ from.offset = 0 /\ from.pending = << >> /\ from.after = after
  <2>1. from.offset = 0 /\ from.pending = << >> /\ from.after = after
    BY <1>2
  <2>2. from \in Positions
    <3>1. \A p \in Seq(Candidates), a \in Candidates \cup {0}, n \in Nat :
              [pending |-> p, after |-> a, offset |-> n] \in Positions
      BY DEF Positions
    <3>2. [pending |-> << >>, after |-> after, offset |-> 0] \in Positions
      BY <1>1, <3>1
    <3> QED BY <1>2, <3>2
  <2>3. Rising(<< >>)
    BY <1>1 DEF Rising
  <2> QED BY <1>1, <2>1, <2>2, <2>3 DEF Sound
<1> DEFINE b == l.ids
           e == EdgeOf(l)
<1>4. /\ b \in Seq(Candidates) /\ e \in Candidates \cup {0} /\ e >= after
      /\ \A k \in DOMAIN b : b[k] > after
      /\ \A id \in remaining : id > after /\ id <= e => \E k \in DOMAIN b : b[k] = id
  BY <1>3, LoadFacts DEF Rising
<1> HIDE DEF b, e
<1>5. Len(b) \in Nat /\ DOMAIN b = 1..Len(b)
  BY <1>4, LenProperties
<1>6. Candidates \subseteq Nat
  BY CandidatesAreNumbers
<1>7. ASSUME NEW id \in remaining
      PROVE  id > after <=> id > e \/ \E k \in DOMAIN b : k > 0 /\ b[k] = id
  <2>1. id \in Nat /\ after \in Nat /\ e \in Nat
    BY <1>4, <1>6
  <2>2. ASSUME id > after PROVE id > e \/ \E k \in DOMAIN b : k > 0 /\ b[k] = id
    BY <1>4, <1>5, <2>1, <2>2
  <2>3. ASSUME id > e PROVE id > after
    BY <1>4, <2>1, <2>3
  <2>4. ASSUME NEW k \in DOMAIN b, b[k] = id PROVE id > after
    BY <1>4, <2>4
  <2> QED BY <2>2, <2>3, <2>4
<1>8. 0 \in 0..Len(b)
  BY <1>5
<1>9. \A id : Awaits(l, id) <=> id > e \/ \E k \in DOMAIN b : k > 0 /\ b[k] = id
  <2>1. l.done = 0
    BY <1>3 DEF Load
  <2> QED BY <2>1 DEF Awaits, b, e
<1> QED BY <1>3, <1>7, <1>8, <1>9 DEF b

\* The next batch begins at the edge of this one.
LEMMA PageGoesOn == ASSUME CandidatesInv, FetchNext PROVE CandidatesInv'
<1>1. loop.on /\ loop.done = Len(loop.ids) /\ loop' = Load(Onwards, loop.items, loop.inspected)
      /\ UNCHANGED <<style, remaining, pageToken, inspectedTimes, shifted, finished>>
  BY DEF FetchNext
<1>2. /\ ~finished /\ loop \in Loops /\ remaining \subseteq Candidates /\ Loaded = loop.ids /\ LookedAt = loop.done
      /\ Edge = EdgeOf(loop) /\ Edge \in Candidates \cup {0} /\ Len(loop.ids) \in Nat
      /\ DOMAIN loop.ids = 1..Len(loop.ids)
  BY <1>1, LoopFacts
<1>3. loop.items \in Nat /\ loop.inspected \in Nat
  BY <1>2 DEF Loops
<1>4. Onwards = Position(<< >>, Edge, 0)
  BY <1>2 DEF Onwards
<1>5. /\ Sound(Onwards) /\ Onwards.offset = 0 /\ Onwards.pending = << >> /\ Onwards.offset \in 0..Len(loop'.ids)
      /\ \A id \in remaining : id > Edge <=> Awaits(loop', id)
  <2> DEFINE i == loop.items
             n == loop.inspected
             a == Edge
             o == Onwards
             l == loop'
  <2>1. remaining \subseteq Candidates /\ a \in Candidates \cup {0} /\ o = Position(<< >>, a, 0) /\ i \in Nat /\ n \in Nat
        /\ l = Load(o, i, n)
    BY <1>1, <1>2, <1>3, <1>4
  <2> HIDE DEF i, n, a, o, l
  <2>2. Sound(o) /\ o.offset = 0 /\ o.pending = << >> /\ o.offset \in 0..Len(l.ids)
    BY <2>1, NextBatch, ZenonT(30)
  <2>3. \A id \in remaining : id > a <=> Awaits(l, id)
    BY <2>1, NextBatch
  <2> QED BY <2>2, <2>3 DEF a, o, l
<1>6. \A id : Waiting(id) <=> id > Edge
  <2>1. \A k \in DOMAIN loop.ids : ~(k > loop.done)
    BY <1>1, <1>2
  <2> QED BY <1>2, <2>1 DEF Waiting
<1>7. shifted \in BOOLEAN
  BY DEF CandidatesInv, PositionState
<1> HIDE DEF Onwards
<1> QED BY <1>1, <1>2, <1>3, <1>5, <1>6, <1>7, LoadStep

\* A page starts with its token's ids, with the batch the offset counts in, or with a batch of
\* its own; under an offset another batch is noticed.
LEMMA PageStarts == ASSUME CandidatesInv, FetchFirst PROVE CandidatesInv'
<1>1. /\ ~finished /\ ~loop.on /\ shifted' = (shifted \/ (pageToken.offset > 0 /\ Batch(pageToken.after) # counted))
      /\ UNCHANGED <<style, remaining, pageToken, inspectedTimes, counted>>
  BY DEF FetchFirst
<1> DEFINE offset == pageToken.offset
           after == pageToken.after
           pending == pageToken.pending
           b == Batch(after)
<1>2. /\ pageToken \in Positions /\ remaining \subseteq Candidates
      /\ Edge \in Candidates \cup {0} /\ LookedAt = offset /\ LookedAt \in 0..Len(Loaded)
      /\ offset > 0 => Loaded = counted /\ Edge = Last(counted) /\ pending = << >>
      /\ offset = 0 => Loaded = pending /\ Edge = after /\ Sound(pageToken)
  BY <1>1, TokenFacts
<1>3. offset \in Nat /\ after \in Candidates \cup {0} /\ pending \in Seq(Candidates)
  BY <1>2 DEF Positions
<1>4. /\ style = "gmail" => offset = 0
      /\ style = "outlook" => pending = << >>
      /\ shifted \in BOOLEAN /\ shifted' \in BOOLEAN /\ loop = NoLoop
  BY <1>1 DEF CandidatesInv, PositionState
<1>5. b \in Seq(Candidates) /\ Len(b) \in Nat /\ DOMAIN b = 1..Len(b)
  <2> HIDE DEF after
  <2> QED BY <1>2, <1>3, BatchFacts DEF Rising
<1>6. CASE offset > Len(b)
  <2>1. finished' = TRUE /\ loop' = loop
    BY <1>6 DEF FetchFirst
  <2> HIDE DEF offset, b
  <2>2. offset > 0 /\ b # counted
    BY <1>2, <1>3, <1>5, <1>6
  <2>3. shifted' = TRUE
    BY <1>1, <2>2 DEF offset, b
  <2>4. PositionState'
    BY <1>1, <1>4, <2>1, <2>3 DEF CandidatesInv, PositionState, Loops, Positions, NoLoop, Position
  <2> QED BY <1>1, <2>1, <2>3, <2>4 DEF CandidatesInv, LoadedInOrder, BatchIsWhole, WaitingOrSeen, CandidatesSeenOnce
<1>7. CASE ~(offset > Len(b))
  <2>1. loop' = Load(pageToken, 0, 0) /\ finished' = finished
    BY <1>7 DEF FetchFirst
  <2>2. loop'.ids = IF pending # << >> THEN pending ELSE b
    BY <2>1 DEF Load
  <2>3. EdgeOf(loop') = IF pending # << >> \/ loop'.ids = << >> THEN after ELSE Last(loop'.ids)
    BY <2>1 DEF Load, EdgeOf
  <2>7. loop'.done = offset
    BY <2>1 DEF Load
  <2>4. CASE offset = 0 /\ pending = << >>
    <3>1. pageToken = Position(<< >>, after, 0)
      BY <1>2, <2>4 DEF Positions, Position
    <3>2. /\ Sound(pageToken) /\ pageToken.offset = 0 /\ pageToken.offset \in 0..Len(loop'.ids)
          /\ \A id \in remaining : id > after <=> Awaits(loop', id)
      <4> HIDE DEF after
      <4> QED BY <1>2, <1>3, <2>1, <3>1, NextBatch
    <3>3. \A id : Waiting(id) <=> id > after
      BY <1>2, <2>4 DEF Waiting
    <3> QED BY <1>1, <1>4, <2>1, <2>4, <3>2, <3>3, LoadStep
  <2>5. CASE offset = 0 /\ pending # << >>
    <3>1. loop'.ids = Loaded /\ EdgeOf(loop') = Edge /\ Sound(pageToken)
      BY <1>2, <2>2, <2>3, <2>5
    <3>2. \A id : Waiting(id) <=> Awaits(loop', id)
      BY <1>2, <2>7, <3>1 DEF Waiting, Awaits
    <3>3. pageToken.offset \in 0..Len(loop'.ids)
      BY <1>2, <3>1
    <3> QED BY <1>1, <1>4, <2>1, <2>5, <3>1, <3>2, <3>3, LoadStep
  <2>6. CASE offset > 0
    <3>1. pending = << >> /\ loop'.ids = b
      BY <1>2, <2>2, <2>6
    <3>2. Sound(pageToken)
      <4>1. Rising(<< >>) /\ DOMAIN << >> = {}
        BY EmptySeq DEF Rising
      <4> QED BY <1>2, <3>1, <4>1 DEF Sound
    <3>3. offset \in 0..Len(b) /\ b # << >>
      <4> HIDE DEF offset, b
      <4>1. offset \in 0..Len(b)
        BY <1>3, <1>5, <1>7
      <4>2. Len(b) # 0
        BY <1>5, <1>7, <2>6, <1>3
      <4> QED BY <4>1, <4>2, EmptySeq
    <3>4. ASSUME ~shifted' PROVE loop'.ids = Loaded /\ EdgeOf(loop') = Edge
      <4>1. b = counted
        BY <1>1, <2>6, <3>4
      <4> QED BY <1>2, <2>3, <2>6, <3>1, <3>3, <4>1
    <3>5. ~shifted' => \A id \in remaining : Waiting(id) <=> Awaits(loop', id)
      BY <1>2, <2>7, <3>4 DEF Waiting, Awaits
    <3>6. pageToken.offset \in 0..Len(loop'.ids)
      BY <3>1, <3>3
    <3> QED BY <1>1, <1>4, <2>1, <3>1, <3>2, <3>5, <3>6, LoadStep
  <2> QED BY <1>3, <2>4, <2>5, <2>6
<1> QED BY <1>6, <1>7

\* A candidate that is looked at no longer waits.
LEMMA CandidateInspected == ASSUME CandidatesInv, InspectCandidate PROVE CandidatesInv'
<1> DEFINE ids == loop.ids
           next == loop.done + 1
           here == ids[next]
<1>1. /\ loop.on /\ loop.done < Len(ids)
      /\ loop' = [loop EXCEPT !.done = @ + 1, !.inspected = @ + 1,
                              !.items = @ + (IF here \in Wanted \cap remaining THEN 1 ELSE 0)]
      /\ inspectedTimes' = [inspectedTimes EXCEPT ![here] = @ + 1]
      /\ UNCHANGED <<style, remaining, pageToken, counted, shifted, finished>>
  BY DEF InspectCandidate
<1>2. /\ ~finished /\ loop \in Loops /\ remaining \subseteq Candidates
      /\ ids \in Seq(Candidates) /\ Len(ids) \in Nat /\ DOMAIN ids = 1..Len(ids)
      /\ Rising(ids) /\ loop.done \in 0..Len(ids)
      /\ Loaded = ids /\ LookedAt = loop.done /\ Edge = EdgeOf(loop)
      /\ Edge \in Candidates \cup {0} /\ \A k \in DOMAIN ids : ids[k] <= Edge
  BY <1>1, LoopFacts
<1>3. /\ loop' \in Loops /\ loop'.on /\ loop'.ids = ids /\ loop'.from = loop.from /\ loop'.more = loop.more
      /\ loop'.done = next
  <2> DEFINE one == IF here \in Wanted \cap remaining THEN 1 ELSE 0
  <2>1. one \in Nat
    OBVIOUS
  <2> HIDE DEF one
  <2>2. loop' = [loop EXCEPT !.done = @ + 1, !.inspected = @ + 1, !.items = @ + one]
    BY <1>1 DEF one
  <2> HIDE DEF here
  <2>3. loop \in Loops => /\ loop.done + 1 \in Nat /\ loop.inspected + 1 \in Nat /\ loop.items + one \in Nat
    BY <2>1 DEF Loops
  <2> QED BY <1>1, <1>2, <2>2, <2>3 DEF Loops
<1>4. EdgeOf(loop') = EdgeOf(loop)
  BY <1>3 DEF EdgeOf
<1>5. Loaded' = ids /\ LookedAt' = next /\ Edge' = Edge
  <2>1. Edge' = EdgeOf(loop')
    BY <1>3 DEF Edge, EdgeOf
  <2> QED BY <1>2, <1>3, <1>4, <2>1 DEF Loaded, LookedAt
<1> HIDE DEF ids, here
<1>6. next \in 1..Len(ids) /\ here = ids[next] /\ here \in Candidates /\ here <= Edge
  <2>1. next \in 1..Len(ids) /\ here = ids[next]
    BY <1>1, <1>2 DEF here
  <2> QED BY <1>2, <2>1
<1>7. PositionState'
  <2>1. inspectedTimes' \in [Candidates -> Nat]
    <3>1. inspectedTimes \in [Candidates -> Nat]
      BY DEF CandidatesInv, PositionState
    <3>2. inspectedTimes[here] + 1 \in Nat
      BY <1>6, <3>1
    <3> QED BY <1>1, <3>1, <3>2
  <2> QED BY <1>1, <1>2, <1>3, <2>1 DEF CandidatesInv, PositionState, Positions, Loops
<1>8. LoadedInOrder'
  <2>1. next \in 0..Len(ids)
    BY <1>2, <1>6
  <2> QED BY <1>2, <1>5, <2>1 DEF LoadedInOrder, Rising
<1>9. BatchIsWhole'
  BY <1>1, <1>3, <1>5 DEF CandidatesInv, BatchIsWhole, ids
<1>10. WaitingOrSeen'
  <2> SUFFICES ASSUME ~shifted, NEW id \in remaining
               PROVE  inspectedTimes'[id] = IF Waiting(id)' THEN 0 ELSE 1
    BY <1>1 DEF WaitingOrSeen
  <2>1. inspectedTimes[id] = IF Waiting(id) THEN 0 ELSE 1
    BY <1>2 DEF CandidatesInv, WaitingOrSeen
  <2>2. Waiting(id) <=> id > Edge \/ \E k \in DOMAIN ids : k > loop.done /\ ids[k] = id
    BY <1>2 DEF Waiting
  <2>3. Waiting(id)' <=> id > Edge \/ \E k \in DOMAIN ids : k > next /\ ids[k] = id
    BY <1>5 DEF Waiting
  <2>4. id \in Candidates /\ inspectedTimes \in [Candidates -> Nat] /\ Candidates \subseteq Nat
        /\ loop.done \in Nat /\ Edge \in Nat /\ here \in Nat /\ id \in Nat
    BY <1>2, <1>6, CandidatesAreNumbers, SMTT(30) DEF CandidatesInv, PositionState
  <2>5. CASE id = here
    <3>1. Waiting(id)
      <4>1. next > loop.done
        BY <2>4
      <4> QED BY <1>2, <1>6, <2>2, <2>5, <4>1
    <3>2. ~(id > Edge)
      BY <1>6, <2>4, <2>5
    <3>3. ASSUME NEW k \in DOMAIN ids, k > next PROVE ids[k] # here
      <4>2. next \in DOMAIN ids
        BY <1>2, <1>6
      <4>3. ids[next] < ids[k]
        BY <1>2, <3>3, <4>2 DEF Rising
      <4>4. ids[k] \in Candidates
        BY <1>2
      <4>1. ids[next] < ids[k] /\ ids[k] \in Nat
        BY <2>4, <4>3, <4>4
      <4> QED BY <1>6, <2>4, <4>1
    <3>4. ~Waiting(id)'
      BY <2>3, <2>5, <3>2, <3>3
    <3> QED BY <1>1, <2>1, <2>4, <2>5, <3>1, <3>4
  <2>6. CASE id # here
    <3>1. \A k \in DOMAIN ids : ids[k] = id => (k > next <=> k > loop.done)
      <4> SUFFICES ASSUME NEW k \in DOMAIN ids, ids[k] = id PROVE k > next <=> k > loop.done
        OBVIOUS
      <4>1. k # next /\ k \in Nat
        BY <1>2, <1>6, <2>6
      <4> QED BY <2>4, <4>1
    <3>2. Waiting(id)' <=> Waiting(id)
      BY <2>2, <2>3, <3>1
    <3>3. inspectedTimes'[id] = inspectedTimes[id]
      BY <1>1, <2>4, <2>6
    <3> QED BY <2>1, <3>2, <3>3
  <2> QED BY <2>5, <2>6
<1> QED BY <1>1, <1>2, <1>7, <1>8, <1>9, <1>10 DEF CandidatesInv, CandidatesSeenOnce

\* An id past a point of a list.
Holds(s, from, id) == \E k \in DOMAIN s : k > from /\ s[k] = id

\* What is left of a list that was looked at to a point.
LEMMA RestFacts ==
    ASSUME NEW ids \in Seq(Candidates), Rising(ids), NEW done \in 0..Len(ids),
           NEW rest, rest = SubSeq(ids, done + 1, Len(ids))
    PROVE  /\ Rising(rest) /\ Len(rest) \in Nat
           /\ Len(rest) = Len(ids) - done
           /\ \A id : Holds(rest, 0, id) <=> Holds(ids, done, id)
<1> DEFINE n == Len(ids)
           m == n - done
<1>1. n \in Nat /\ DOMAIN ids = 1..n /\ done \in 0..n
  BY LenProperties
<1> HIDE DEF n
<1>2. m \in Nat /\ rest = [k \in 1..m |-> ids[k + done]]
  <2>1. m \in Nat
    BY <1>1
  <2>2. rest = SubSeq(ids, done + 1, n)
    BY DEF n
  <2>3. rest = [k \in 1..(n - (done + 1) + 1) |-> ids[(done + 1) + k - 1]]
    BY <1>1, <2>2
  <2> QED BY <1>1, <2>1, <2>3
<1>3. DOMAIN rest = 1..m /\ \A k \in 1..m : rest[k] = ids[k + done] /\ k + done \in 1..n /\ k + done > done
  BY <1>1, <1>2
<1> HIDE DEF m
<1>4. rest \in Seq(Candidates) /\ Len(rest) = m
  <2>1. \A k \in 1..m : rest[k] \in Candidates
    BY <1>1, <1>3
  <2>2. rest \in [1..m -> Candidates]
    BY <1>2, <1>3, <2>1
  <2> QED BY <1>2, <2>2
<1>5. Rising(rest)
  <2> SUFFICES ASSUME NEW j \in 1..m, NEW k \in 1..m, j < k PROVE rest[j] < rest[k]
    BY <1>3, <1>4 DEF Rising
  <2>1. j + done < k + done
    BY <1>1, <1>2
  <2> QED BY <1>1, <1>3, <2>1 DEF Rising
<1>7. Len(rest) = n - done
  BY <1>4 DEF m
<1>8. ASSUME NEW id
      PROVE  Holds(rest, 0, id) <=> Holds(ids, done, id)
  <2>1. ASSUME NEW k \in 1..m, rest[k] = id PROVE \E j \in 1..n : j > done /\ ids[j] = id
    BY <1>3, <2>1
  <2>2. ASSUME NEW j \in 1..n, j > done, ids[j] = id PROVE \E k \in 1..m : k > 0 /\ rest[k] = id
    <3>1. j - done \in 1..m /\ j - done > 0 /\ (j - done) + done = j
      BY <1>1, <2>2 DEF m
    <3> QED BY <1>3, <2>2, <3>1
  <2> QED BY <1>1, <1>3, <2>1, <2>2 DEF Holds
<1> QED BY <1>2, <1>4, <1>5, <1>7, <1>8 DEF n

\* Between two pages what is to come waits as it did.
LEMMA TokenStep ==
    ASSUME CandidatesInv, loop.on, ~finished, loop' = NoLoop, ~finished', finished' \in BOOLEAN,
           pageToken' \in Positions, UNCHANGED <<style, remaining, inspectedTimes, shifted>>,
           style = "gmail" => pageToken'.offset = 0, style = "outlook" => pageToken'.pending = << >>,
           LoadedInOrder', \A id \in remaining : Waiting(id)' <=> Waiting(id)
    PROVE  CandidatesInv'
<1>1. loop'.on = FALSE /\ NoLoop' = NoLoop
  BY DEF NoLoop, Position
<1>2. NoLoop \in Loops
  <2>1. NoLoop = [on |-> FALSE, ids |-> << >>, from |-> [pending |-> << >>, after |-> 0, offset |-> 0],
                  more |-> FALSE, done |-> 0, items |-> 0, inspected |-> 0]
    BY DEF NoLoop, Position
  <2>2. << >> \in Seq(Candidates)
    BY EmptySeq
  <2>3. [pending |-> << >>, after |-> 0, offset |-> 0] \in Positions
    BY <2>2 DEF Positions
  <2> QED BY <2>1, <2>2, <2>3 DEF Loops
<1>3. PositionState'
  BY <1>1, <1>2 DEF CandidatesInv, PositionState, Positions, Loops
<1>4. WaitingOrSeen'
  BY DEF CandidatesInv, WaitingOrSeen
<1> QED BY <1>1, <1>3, <1>4 DEF CandidatesInv, BatchIsWhole, CandidatesSeenOnce

\* The token names the rest of the batch, by ids or by an offset, or what lies beyond it.
LEMMA PageIsCut == ASSUME CandidatesInv, EndPage PROVE CandidatesInv'
<1> DEFINE ids == loop.ids
           done == loop.done
           from == loop.from
<1>1. /\ loop.on /\ pageToken' = (IF style = "gmail" THEN GmailToken ELSE OutlookToken)
      /\ (finished' <=> pageToken' = NoPageToken) /\ finished' \in BOOLEAN /\ counted' = ids /\ loop' = NoLoop
      /\ UNCHANGED <<style, remaining, inspectedTimes, shifted>>
  BY DEF EndPage
<1>2. /\ ~finished /\ loop \in Loops /\ from \in Positions /\ remaining \subseteq Candidates
      /\ ids \in Seq(Candidates) /\ Len(ids) \in Nat /\ DOMAIN ids = 1..Len(ids)
      /\ Rising(ids) /\ done \in 0..Len(ids)
      /\ Loaded = ids /\ LookedAt = done /\ Edge = EdgeOf(loop)
      /\ Edge \in Candidates \cup {0} /\ \A k \in DOMAIN ids : ids[k] <= Edge
  BY <1>1, LoopFacts
<1>3. /\ Rising(Rest) /\ Rest \in Seq(Candidates) /\ Len(Rest) \in Nat /\ (\A k \in DOMAIN Rest : Rest[k] <= Edge)
      /\ (Rest = << >> <=> done = Len(ids))
      /\ \A id : Holds(Rest, 0, id) <=> Holds(ids, done, id)
  <2> DEFINE rest == Rest
  <2>1. rest = SubSeq(ids, done + 1, Len(ids))
    BY DEF Rest
  <2> HIDE DEF ids, done, rest
  <2>2. ids \in Seq(Candidates) /\ Rising(ids) /\ done \in 0..Len(ids)
    BY <1>2
  <2>3. Rising(rest) /\ Len(rest) \in Nat
    BY <2>1, <2>2, RestFacts
  <2>8. Len(rest) = Len(ids) - done
    BY <2>1, <2>2, RestFacts
  <2>9. rest \in Seq(Candidates)
    BY <2>3 DEF Rising
  <2>10. Len(rest) = 0 <=> done = Len(ids)
    BY <1>2, <2>8
  <2>7. rest = << >> <=> done = Len(ids)
    BY <2>9, <2>10, EmptySeq
  <2>5. \A id : Holds(rest, 0, id) <=> Holds(ids, done, id)
    BY <2>1, <2>2, RestFacts
  <2>4. \A k \in DOMAIN rest : \E j \in DOMAIN ids : rest[k] = ids[j]
    <3>1. rest \in Seq(Candidates)
      BY <2>3 DEF Rising
    <3>2. DOMAIN rest = 1..Len(rest) /\ Len(rest) \in Nat
      BY <3>1, LenProperties
    <3>3. \A k \in DOMAIN rest : Holds(rest, 0, rest[k])
      BY <3>2 DEF Holds
    <3> QED BY <2>5, <3>3 DEF Holds
  <2>6. \A k \in DOMAIN rest : rest[k] <= Edge
    BY <1>2, <2>4
  <2> QED BY <2>3, <2>5, <2>6, <2>7 DEF rest, Rising
<1>4. \A id : Waiting(id) <=> id > Edge \/ Holds(ids, done, id)
  BY <1>2 DEF Waiting, Holds
<1>5. Onwards = [pending |-> << >>, after |-> Edge, offset |-> 0] /\ Onwards \in Positions /\ NoPageToken \notin Positions
      /\ << >> \in Seq(Candidates) /\ Len(<< >>) = 0 /\ DOMAIN << >> = {}
  <2>1. Onwards = [pending |-> << >>, after |-> Edge, offset |-> 0]
    BY <1>2 DEF Onwards, Position
  <2>2. << >> \in Seq(Candidates) /\ Len(<< >>) = 0 /\ DOMAIN << >> = {}
    BY EmptySeq
  <2>3. \A p \in Seq(Candidates), a \in Candidates \cup {0}, n \in Nat :
            [pending |-> p, after |-> a, offset |-> n] \in Positions
    BY DEF Positions
  <2>4. [pending |-> << >>, after |-> Edge, offset |-> 0] \in Positions
    BY <1>2, <2>2, <2>3
  <2> QED BY <2>1, <2>2, <2>4, ProviderPagingConstants
<1>6. /\ style \in {"gmail", "outlook"} /\ (style = "gmail" => from.offset = 0)
      /\ (style = "outlook" => from.pending = << >>)
      /\ from.pending = << >> =>
           /\ \A id \in remaining : id > from.after /\ id <= Edge => \E k \in DOMAIN ids : ids[k] = id
           /\ \A k \in DOMAIN ids : ids[k] > from.after
      /\ ~loop.more => \A id \in remaining : id <= Edge
  BY <1>1 DEF CandidatesInv, PositionState, BatchIsWhole
<1>7. loop'.on = FALSE
  BY <1>1 DEF NoLoop
<1>8. Candidates \subseteq Nat /\ remaining \subseteq Nat /\ Edge \in Nat /\ from.after \in Candidates \cup {0}
  BY <1>2, CandidatesAreNumbers DEF Positions
<1> HIDE DEF ids, done, from
<1>9. CASE pageToken' = NoPageToken
  <2>1. Rest = << >> /\ ~loop.more
    <3>1. GmailToken = NoPageToken => Rest = << >> /\ ~loop.more
      <4>1. [Onwards EXCEPT !.pending = Rest] \in Positions
        BY <1>3, <1>5 DEF Positions
      <4> QED BY <1>5, <4>1 DEF GmailToken
    <3>2. OutlookToken = NoPageToken => Rest = << >> /\ ~loop.more
      <4>1. [loop.from EXCEPT !.offset = loop.done] \in Positions
        BY <1>2 DEF Positions, from, done
      <4> QED BY <1>5, <4>1 DEF OutlookToken
    <3> QED BY <1>1, <1>9, <3>1, <3>2
  <2>2. \A id \in remaining : ~Waiting(id)
    <3>1. \A k \in DOMAIN ids : ~(k > done)
      BY <1>2, <1>3, <2>1
    <3>2. \A id \in remaining : ~(id > Edge)
      BY <1>6, <1>8, <2>1
    <3> QED BY <1>4, <3>1, <3>2 DEF Holds
  <2>3. CandidatesSeenOnce'
    BY <1>1, <1>2, <2>2 DEF CandidatesInv, WaitingOrSeen, CandidatesSeenOnce
  <2>4. finished' /\ NoLoop \in Loops
    <3>1. [pending |-> << >>, after |-> 0, offset |-> 0] \in Positions
      BY <1>5 DEF Positions
    <3>2. NoLoop = [on |-> FALSE, ids |-> << >>, from |-> [pending |-> << >>, after |-> 0, offset |-> 0],
                    more |-> FALSE, done |-> 0, items |-> 0, inspected |-> 0]
      BY DEF NoLoop, Position
    <3> QED BY <1>1, <1>5, <1>9, <3>1, <3>2 DEF Loops
  <2>5. PositionState'
    BY <1>1, <1>7, <2>4 DEF CandidatesInv, PositionState, Loops, Positions, NoLoop, Position
  <2> QED BY <1>7, <2>3, <2>4, <2>5 DEF CandidatesInv, LoadedInOrder, BatchIsWhole, WaitingOrSeen
<1>10. CASE pageToken' # NoPageToken
  <2>0. ~finished'
    BY <1>1, <1>10
  <2>1. CASE style = "gmail"
    <3>1. pageToken' = [pending |-> Rest, after |-> Edge, offset |-> 0]
      <4>1. [Onwards EXCEPT !.pending = Rest] = [pending |-> Rest, after |-> Edge, offset |-> 0]
        BY <1>5
      <4> QED BY <1>1, <1>10, <2>1, <4>1 DEF GmailToken
    <3>2. pageToken' \in Positions /\ pageToken'.offset = 0
      BY <1>2, <1>3, <3>1 DEF Positions
    <3>3. Loaded' = Rest /\ LookedAt' = 0 /\ Edge' = Edge
      BY <1>7, <3>1 DEF Loaded, LookedAt, Edge
    <3>4. LoadedInOrder'
      <4>1. 0 \in 0..Len(Rest)
        BY <1>3
      <4> HIDE DEF Rest
      <4> QED BY <1>2, <1>3, <3>3, <4>1 DEF LoadedInOrder, Rising
    <3>5. \A id : Waiting(id)' <=> Waiting(id)
      <4>1. \A id : Waiting(id)' <=> id > Edge \/ Holds(Rest, 0, id)
        BY <3>3 DEF Waiting, Holds
      <4> QED BY <1>3, <1>4, <4>1
    <3> QED BY <1>1, <1>2, <2>0, <2>1, <3>2, <3>4, <3>5, TokenStep
  <2>2. CASE style = "outlook" /\ Rest = << >>
    <3>1. pageToken' = [pending |-> << >>, after |-> Edge, offset |-> 0]
      BY <1>1, <1>5, <1>10, <2>2 DEF OutlookToken
    <3>2. Loaded' = << >> /\ LookedAt' = 0 /\ Edge' = Edge
      BY <1>7, <3>1 DEF Loaded, LookedAt, Edge
    <3>3. LoadedInOrder'
      BY <1>2, <1>5, <3>2 DEF LoadedInOrder, Rising
    <3>4. \A id : Waiting(id)' <=> Waiting(id)
      <4>1. \A id : Waiting(id)' <=> id > Edge
        BY <1>5, <3>2 DEF Waiting
      <4>2. \A k \in DOMAIN ids : ~(k > done)
        BY <1>2, <1>3, <2>2
      <4> QED BY <1>4, <4>1, <4>2 DEF Holds
    <3>5. pageToken' \in Positions /\ pageToken'.pending = << >>
      BY <1>5, <3>1
    <3> QED BY <1>1, <1>2, <2>0, <2>2, <3>3, <3>4, <3>5, TokenStep
  <2>3. CASE style = "outlook" /\ Rest # << >>
    <3>1. pageToken' = [from EXCEPT !.offset = done]
      BY <1>1, <2>3 DEF OutlookToken, from, done
    <3>2. pageToken' \in Positions /\ pageToken'.pending = << >> /\ pageToken'.offset = done /\ pageToken'.after = from.after
      BY <1>2, <1>6, <2>3, <3>1 DEF Positions
    <3>3. ids # << >> /\ Edge = Last(ids) /\ Edge = ids[Len(ids)] /\ Len(ids) \in 1..Len(ids)
      <4>1. Len(ids) # 0
        <5>1. done # Len(ids)
          BY <1>3, <2>3
        <5>2. Len(ids) \in Nat /\ done \in 0..Len(ids)
          BY <1>2
        <5> QED BY <5>1, <5>2
      <4>2. ids # << >> /\ Last(ids) = ids[Len(ids)]
        BY <1>2, <4>1, EmptySeq DEF Last
      <4> QED BY <1>2, <1>6, <2>3, <4>1, <4>2 DEF EdgeOf, ids, from
    <3>4. CASE done > 0
      <4>1. Loaded' = ids /\ LookedAt' = done /\ Edge' = Edge
        BY <1>1, <1>7, <3>2, <3>3, <3>4 DEF Loaded, LookedAt, Edge
      <4>2. LoadedInOrder'
        BY <1>2, <4>1 DEF LoadedInOrder, Rising
      <4>3. \A id : Waiting(id)' <=> Waiting(id)
        BY <1>4, <4>1 DEF Waiting, Holds
      <4> QED BY <1>1, <1>2, <2>0, <2>3, <3>2, <4>2, <4>3, TokenStep
    <3>5. CASE done = 0
      <4>1. Loaded' = << >> /\ LookedAt' = 0 /\ Edge' = from.after
        BY <1>7, <3>2, <3>5 DEF Loaded, LookedAt, Edge
      <4>2. LoadedInOrder'
        BY <1>5, <1>8, <4>1 DEF LoadedInOrder, Rising
      <4> DEFINE after == from.after
      <4>3. after \in Nat
        <5> HIDE DEF after
        <5>1. after \in Candidates \cup {0}
          BY <1>8 DEF after
        <5> QED BY <1>8, <5>1
      <4>4. Edge > after
        BY <1>2, <1>6, <2>3, <3>3
      <4>5. ASSUME NEW id \in remaining PROVE id > after <=> id > Edge \/ \E k \in DOMAIN ids : k > 0 /\ ids[k] = id
        <5>1. (id > after /\ id <= Edge => \E k \in DOMAIN ids : ids[k] = id) /\ \A k \in DOMAIN ids : ids[k] > after /\ k > 0
          BY <1>2, <1>6, <2>3
        <5>2. id \in Nat
          BY <1>8
        <5> HIDE DEF after
        <5> QED BY <1>8, <4>3, <4>4, <5>1, <5>2
      <4>6. \A id : Waiting(id)' <=> id > after
        BY <1>5, <4>1 DEF Waiting
      <4>7. \A id \in remaining : Waiting(id)' <=> Waiting(id)
        BY <1>4, <3>5, <4>5, <4>6 DEF Holds
      <4> QED BY <1>1, <1>2, <2>0, <2>3, <3>2, <4>2, <4>7, TokenStep
    <3>6. done \in Nat
      BY <1>2
    <3> QED BY <3>4, <3>5, <3>6
  <2> QED BY <1>6, <2>1, <2>2, <2>3
<1> QED BY <1>9, <1>10

\* No action of the pages disturbs it, nor does a candidate that leaves.
LEMMA CandidatesKeep == ASSUME CandidatesInv, [ProviderPagingNext]_candidateVars PROVE CandidatesInv'
<1>1. ASSUME NEW id \in Candidates, CandidateLeaves(id) PROVE CandidatesInv'
  <2>1. /\ remaining' \subseteq remaining /\ ~finished
        /\ UNCHANGED <<style, pageToken, loop, counted, inspectedTimes, shifted, finished>>
    BY <1>1 DEF CandidateLeaves
  <2>2. Loaded' = Loaded /\ LookedAt' = LookedAt /\ Edge' = Edge /\ NoLoop' = NoLoop
    BY <2>1 DEF Loaded, LookedAt, Edge, EdgeOf, NoLoop, Position
  <2>3. \A x : Waiting(x)' <=> Waiting(x)
    BY <2>2 DEF Waiting
  <2>4. PositionState'
    BY <2>1, <2>2 DEF CandidatesInv, PositionState, Loops, Positions
  <2>5. LoadedInOrder'
    BY <2>1, <2>2 DEF CandidatesInv, LoadedInOrder, Rising
  <2>6. BatchIsWhole'
    BY <2>1, <2>2 DEF CandidatesInv, BatchIsWhole
  <2>7. WaitingOrSeen'
    BY <2>1, <2>3 DEF CandidatesInv, WaitingOrSeen
  <2> QED BY <2>1, <2>4, <2>5, <2>6, <2>7 DEF CandidatesInv, CandidatesSeenOnce
<1>2. CASE UNCHANGED candidateVars
  <2>1. UNCHANGED <<style, remaining, pageToken, loop, counted, inspectedTimes, shifted, finished>>
    BY <1>2 DEF candidateVars
  <2>2. Loaded' = Loaded /\ LookedAt' = LookedAt /\ Edge' = Edge /\ NoLoop' = NoLoop
    BY <2>1 DEF Loaded, LookedAt, Edge, EdgeOf, NoLoop, Position
  <2>3. \A x : Waiting(x)' <=> Waiting(x)
    BY <2>2 DEF Waiting
  <2>4. PositionState' /\ LoadedInOrder'
    BY <2>1, <2>2 DEF CandidatesInv, PositionState, Loops, Positions, LoadedInOrder, Rising
  <2>5. BatchIsWhole' /\ WaitingOrSeen' /\ CandidatesSeenOnce'
    BY <2>1, <2>2, <2>3 DEF CandidatesInv, BatchIsWhole, WaitingOrSeen, CandidatesSeenOnce
  <2> QED BY <2>4, <2>5 DEF CandidatesInv
<1> QED BY <1>1, <1>2, PageStarts, PageGoesOn, CandidateInspected, PageIsCut DEF ProviderPagingNext

\* Of the candidates that are still there, what a page or token leaves waiting was not
\* looked at and the rest was, once, unless Outlook found another batch under its offset.
THEOREM CandidatesInvariance == ProviderPagingSpec => []CandidatesInv
BY CandidatesBegin, CandidatesKeep, PTL DEF ProviderPagingSpec

\* For any candidates, batches and limits, pages followed to the end look at every
\* candidate that is still there, once.
THEOREM CandidatesAlwaysSeenOnce == ProviderPagingSpec => []CandidatesSeenOnce
<1>1. CandidatesInv => CandidatesSeenOnce
  BY DEF CandidatesInv
<1> QED BY <1>1, CandidatesInvariance, PTL

----------------------------------------------------------------------------
(* Types: what each part counts stays within its limits.                      *)
\* A message's place, its alias and the move under way are of the folders Outlook has.
THEOREM MovesAreTyped == MovesSpec => []MovesTypeOK
<1>1. MovesInv => MovesTypeOK
  BY DEF MovesInv
<1> QED BY <1>1, MovesInvariance, PTL

\* A request is tried a bounded number of times, whatever the provider answers.
THEOREM RequestsAreTyped == RequestsSpec => []RequestsTypeOK
<1>1. RequestsInv => RequestsTypeOK
  BY DEF RequestsInv
<1> QED BY <1>1, RequestsInvariance, PTL

\* Ids, copies and numbers of IMAP stay within the folders and the numbers given out.
THEOREM IdsAreTyped == ImapSpec => []ImapTypeOK
<1>1. ImapTyped => ImapTypeOK
  <2> SUFFICES ASSUME ImapTyped PROVE ImapTypeOK
    OBVIOUS
  <2>1. \A c \in ImapCalls : imapCall[c].at \in {"new", "row", "appended", "sent", "moved", "done"}
    <3>1. \A c \in ImapCalls : imapCall[c] \in CallRecords
      BY DEF ImapTyped, CallsTyped
    <3> QED BY <3>1 DEF CallRecords
  <2>2. \A p \in Paths : DOMAIN held[p] \subseteq 1..uidNext[p] - 1 /\ \A u \in DOMAIN held[p] : held[p][u] \in 1..copies
    BY DEF ImapTyped, ServerTyped
  <2> QED BY <2>1, <2>2 DEF ImapTyped, ServerTyped, IdsTyped, ImapTypeOK, RowRecords
<1> QED BY <1>1, ImapInvariance, PTL DEF ImapInv

-----------------------------------------------------------------------------
LEMMA ChangeNumbers ==
    /\ Cardinality(Messages) \in Nat /\ 1 \in Messages \cup {Cardinality(Messages) + 1}
    /\ \A m \in Messages : m + 1 \in Messages \cup {Cardinality(Messages) + 1}
<1>1. Cardinality(Messages) \in Nat
  BY ChangeConstants, FS_CardinalityType
<1>2. Messages = 1..Cardinality(Messages)
  BY ChangeConstants
<1> DEFINE n == Cardinality(Messages)
<1> HIDE DEF n
<1> QED BY <1>1, <1>2 DEF n

\* A call goes through its messages once, and each step sets fields of one call.
LEMMA ChangeTypesKept == ASSUME ChangesTypeOK, [ChangesNext]_changeVars PROVE ChangesTypeOK'
<1> DEFINE End == Cardinality(Messages) + 1
           Next == Messages \cup {End}
           Calls == [at : {"unused", "reading", "changing", "done"}, seen : {"active", "auth_error"},
                     ids : SUBSET Messages, next : Next, asked : SUBSET Messages]
           Known == {"uncertain", "succeeded", "auth_expired", "refused"}
<1>n. \A m \in Messages : m + 1 \in Next
  BY ChangeNumbers
<1> HIDE DEF End, Next
<1>t. /\ signIn \in {"active", "auth_error"} /\ signInGood \in BOOLEAN
      /\ change \in [ChangeCalls -> Calls]
      /\ outcomes \in [ChangeCalls -> [Messages -> Known]]
      /\ effects \in [ChangeCalls -> [Messages -> Nat]]
      /\ repeated \in [ChangeCalls -> SUBSET Messages]
  BY DEF ChangesTypeOK, End, Next
<1>s. SUFFICES /\ signIn' \in {"active", "auth_error"} /\ signInGood' \in BOOLEAN
               /\ change' \in [ChangeCalls -> Calls]
               /\ outcomes' \in [ChangeCalls -> [Messages -> Known]]
               /\ effects' \in [ChangeCalls -> [Messages -> Nat]]
               /\ repeated' \in [ChangeCalls -> SUBSET Messages]
  BY DEF ChangesTypeOK, End, Next
<1> USE <1>t
<1>r. ASSUME NEW c \in ChangeCalls, NEW q \in Calls, change' = [change EXCEPT ![c] = q]
      PROVE  change' \in [ChangeCalls -> Calls]
  <2> HIDE DEF Calls
  <2> QED BY <1>r
<1>e. ASSUME NEW r \in Calls
      PROVE  /\ r.ids \in SUBSET Messages /\ r.asked \in SUBSET Messages
             /\ \A at \in {"unused", "reading", "changing", "done"} : [r EXCEPT !.at = at] \in Calls
             /\ \A seen \in {"active", "auth_error"} : [r EXCEPT !.seen = seen] \in Calls
             /\ \A ids \in SUBSET Messages : [r EXCEPT !.ids = ids] \in Calls
             /\ \A next \in Next : [r EXCEPT !.next = next] \in Calls
             /\ \A asked \in SUBSET Messages : [r EXCEPT !.asked = asked] \in Calls
  OBVIOUS
<1> HIDE DEF Calls
<1>1. ASSUME NEW c \in ChangeCalls, BeginRead(c) \/ ReadSucceeds(c) \/ ReadFails(c) \/ EndChange(c)
      PROVE  signIn' \in {"active", "auth_error"} /\ change' \in [ChangeCalls -> Calls]
             /\ UNCHANGED <<signInGood, outcomes, effects, repeated>>
  <2>1. signIn' \in {"active", "auth_error"} /\ UNCHANGED <<signInGood, outcomes, effects, repeated>>
    BY <1>1 DEF BeginRead, ReadSucceeds, ReadFails, EndChange
  <2>2. CASE BeginRead(c)
    <3> DEFINE p == [change[c] EXCEPT !.at = "reading"]
               q == [p EXCEPT !.seen = signIn]
    <3>1. p \in Calls /\ q \in Calls
      BY <1>e
    <3>2. change' = [change EXCEPT ![c] = q]
      BY <2>2 DEF BeginRead
    <3> HIDE DEF q
    <3> QED BY <1>r, <2>1, <3>1, <3>2
  <2>3. CASE ReadSucceeds(c) \/ ReadFails(c) \/ EndChange(c)
    <3> DEFINE q == [change[c] EXCEPT !.at = "done"]
    <3>1. q \in Calls
      BY <1>e
    <3>2. change' = [change EXCEPT ![c] = q]
      BY <2>3 DEF ReadSucceeds, ReadFails, EndChange
    <3> HIDE DEF q
    <3> QED BY <1>r, <2>1, <3>1, <3>2
  <2> QED BY <1>1, <2>2, <2>3
<1>2. ASSUME NEW c \in ChangeCalls, TakeMessage(c)
      PROVE  change' \in [ChangeCalls -> Calls] /\ UNCHANGED <<signIn, signInGood, outcomes, effects, repeated>>
  <2> DEFINE m == change[c].next
             p == [change[c] EXCEPT !.next = m + 1]
             asked == p.asked \cup ({m} \cap change[c].ids)
             q == [p EXCEPT !.asked = asked]
  <2>1. m \in Messages /\ m + 1 \in Next
    BY <1>n, <1>2 DEF TakeMessage
  <2>2. p \in Calls
    BY <1>e, <2>1
  <2>3. q \in Calls
    <3>1. asked \in SUBSET Messages
      <4>1. p.asked \in SUBSET Messages
        BY <1>e, <2>2
      <4> QED BY <2>1, <4>1
    <3> HIDE DEF p, asked
    <3> QED BY <1>e, <2>2, <3>1
  <2>4. change' = [change EXCEPT ![c] = q] /\ UNCHANGED <<signIn, signInGood, outcomes, effects, repeated>>
    BY <1>2 DEF TakeMessage
  <2> HIDE DEF q
  <2> QED BY <1>r, <2>3, <2>4
<1>3. ASSUME NEW c \in ChangeCalls, NEW ids \in SUBSET Messages, BeginChange(c, ids)
      PROVE  change' \in [ChangeCalls -> Calls] /\ UNCHANGED <<signIn, signInGood, outcomes, effects, repeated>>
  <2> DEFINE o == [change[c] EXCEPT !.at = "changing"]
             p == [o EXCEPT !.seen = signIn]
             q == [p EXCEPT !.ids = ids]
  <2>1. o \in Calls
    BY <1>e
  <2>2. p \in Calls
    BY <1>e, <2>1
  <2>3. q \in Calls
    BY <1>e, <2>2
  <2>4. change' = [change EXCEPT ![c] = q] /\ UNCHANGED <<signIn, signInGood, outcomes, effects, repeated>>
    BY <1>3 DEF BeginChange
  <2> HIDE DEF q
  <2> QED BY <1>r, <2>3, <2>4
<1>4. ASSUME NEW c \in ChangeCalls, NEW m \in Messages, NEW o \in Known, Learn(c, m, o)
      PROVE  /\ change' \in [ChangeCalls -> Calls] /\ outcomes' \in [ChangeCalls -> [Messages -> Known]]
             /\ UNCHANGED <<signIn, signInGood, repeated>>
  <2> DEFINE asked == change[c].asked \ {m}
             q == [change[c] EXCEPT !.asked = asked]
  <2>1. q \in Calls
    <3>1. asked \in SUBSET Messages
      BY <1>e
    <3> HIDE DEF asked
    <3> QED BY <1>e, <3>1
  <2>2. outcomes' \in [ChangeCalls -> [Messages -> Known]]
    BY <1>4 DEF Learn
  <2>3. change' = [change EXCEPT ![c] = q] /\ UNCHANGED <<signIn, signInGood, repeated>>
    BY <1>4 DEF Learn
  <2> HIDE DEF q
  <2> QED BY <1>r, <2>1, <2>2, <2>3
<1>5. ASSUME NEW c \in ChangeCalls, NEW m \in Messages, NEW done \in 0..1,
             effects' = [effects EXCEPT ![c][m] = @ + done]
      PROVE  effects' \in [ChangeCalls -> [Messages -> Nat]]
  BY <1>5
<1>6. ASSUME NEW c \in ChangeCalls, NEW m \in Messages,
             Applied(c, m) \/ Refused(c, m) \/ AnswerLost(c, m)
      PROVE  /\ change' \in [ChangeCalls -> Calls] /\ outcomes' \in [ChangeCalls -> [Messages -> Known]]
             /\ effects' \in [ChangeCalls -> [Messages -> Nat]]
             /\ UNCHANGED <<signIn, signInGood, repeated>>
  <2>1. PICK o \in Known : Learn(c, m, o)
    BY <1>6 DEF Applied, Refused, AnswerLost
  <2>2. effects' \in [ChangeCalls -> [Messages -> Nat]]
    <3>1. CASE Applied(c, m)
      BY <1>5, <3>1 DEF Applied
    <3>2. CASE Refused(c, m)
      BY <3>2 DEF Refused
    <3>3. CASE AnswerLost(c, m)
      BY <1>5, <3>3 DEF AnswerLost
    <3> QED BY <1>6, <3>1, <3>2, <3>3
  <2> QED BY <1>4, <2>1, <2>2
<1>7. ASSUME NEW c \in ChangeCalls, NEW m \in Messages, RetriedUnanswered(c, m)
      PROVE  /\ repeated' \in [ChangeCalls -> SUBSET Messages] /\ effects' \in [ChangeCalls -> [Messages -> Nat]]
             /\ UNCHANGED <<signIn, signInGood, change, outcomes>>
  <2>1. PICK done \in 0..1 : effects' = [effects EXCEPT ![c][m] = @ + done]
    BY <1>7 DEF RetriedUnanswered
  <2> QED BY <1>5, <1>7, <2>1 DEF RetriedUnanswered
<1>8. CASE SignInRevoked \/ SignedInAgain \/ UNCHANGED changeVars
  BY <1>8 DEF SignInRevoked, SignedInAgain, changeVars
<1> HIDE DEF Known
<1> QED BY <1>1, <1>2, <1>3, <1>6, <1>7, <1>8 DEF ChangesNext

\* A call has one outcome for each message, whichever answers arrive.
THEOREM ChangesAreTyped == ChangesSpec => []ChangesTypeOK
<1>1. ChangesInit => ChangesTypeOK
  <2> SUFFICES ASSUME ChangesInit PROVE ChangesTypeOK
    OBVIOUS
  <2> DEFINE Next == Messages \cup {Cardinality(Messages) + 1}
  <2>1. 1 \in Next
    BY ChangeNumbers
  <2> HIDE DEF Next
  <2> QED BY <2>1 DEF ChangesInit, ChangesTypeOK, Unused, Next
<1> QED BY <1>1, ChangeTypesKept, PTL DEF ChangesSpec

-----------------------------------------------------------------------------
\* Every page is one that a service may have, and every token one of the search's.
LEMMA SearchTypesKept == ASSUME SearchInv, SearchTypeOK, [SearchNext]_searchVars PROVE SearchTypeOK'
<1> DEFINE n == Cardinality(Boxes)
           Kinds == {"none", "page", "not_found", "invalid_token", "failed", "timeout"}
           Answers == [kind : Kinds, page : 0..LastPage]
           Asked == [box : Boxes \cup {0}, page : 0..LastPage]
           Batches == [running : BOOLEAN, query : Queries, from : [Boxes -> Tokens \cup {NoToken}]]
<1>n. n \in Nat /\ Boxes = 1..n /\ LastPage \in Nat \ {0} /\ LastHour \in Nat
  BY SearchConstants, FS_CardinalityType
<1>q. (CHOOSE q \in Queries : TRUE) \in Queries
  BY SearchConstants
<1>t. /\ reachable \subseteq Boxes /\ tokens \subseteq Tokens /\ batch \in Batches /\ nextIndex \in 1..n + 1
      /\ searcher \in [SearchWorkers -> Asked] /\ groups \in [Boxes -> Answers]
      /\ aborted \in BOOLEAN /\ hour \in 0..LastHour
  BY DEF SearchTypeOK
<1>s. SUFFICES /\ reachable' \subseteq Boxes /\ tokens' \subseteq Tokens /\ batch' \in Batches /\ nextIndex' \in 1..n + 1
               /\ searcher' \in [SearchWorkers -> Asked] /\ groups' \in [Boxes -> Answers]
               /\ aborted' \in BOOLEAN /\ hour' \in 0..LastHour
  BY DEF SearchTypeOK
<1> HIDE DEF n
<1> USE <1>n, <1>t
<1>f. /\ \A k \in Kinds : Failure(k) \in Answers
      /\ \A p \in 0..LastPage : Page(p) \in Answers
      /\ Idle \in Asked
  BY DEF Failure, Page, Idle
<1>a. ASSUME NEW w \in SearchWorkers, NEW b \in Boxes, NEW answer \in Answers, Answered(w, b, answer)
      PROVE  searcher' \in [SearchWorkers -> Asked] /\ groups' \in [Boxes -> Answers]
  BY <1>a, <1>f DEF Answered
<1>w. ASSUME NEW w \in SearchWorkers, searcher[w] # Idle
      PROVE  searcher[w].box \in Boxes /\ searcher[w].page > 0
  <2>1. searcher[w].box \in Boxes /\ AskedPage(searcher[w].box, searcher[w].page)
    BY <1>w DEF SearchInv, SearchersAsk
  <2>2. batch.from[searcher[w].box] \in Tokens \cup {NoToken}
    BY <2>1
  <2> QED BY <2>1, <2>2 DEF AskedPage, Tokens
<1>1. ASSUME NEW query \in Queries, NEW from \in [Boxes -> tokens \cup {NoToken}], StartBatch(query, from)
      PROVE  batch' \in Batches /\ UNCHANGED <<reachable, tokens, nextIndex, searcher, groups, aborted, hour>>
  BY <1>1 DEF StartBatch
<1>2. ASSUME NEW w \in SearchWorkers, TakeBox(w)
      PROVE  /\ nextIndex' \in 1..n + 1 /\ searcher' \in [SearchWorkers -> Asked] /\ groups' \in [Boxes -> Answers]
             /\ UNCHANGED <<reachable, tokens, batch, aborted, hour>>
  <2>1. nextIndex \in Boxes /\ nextIndex' = nextIndex + 1 /\ UNCHANGED <<reachable, tokens, batch, aborted, hour>>
    BY <1>2 DEF TakeBox
  <2>2. batch.from[nextIndex] \in Tokens \cup {NoToken}
    BY <2>1
  <2>3. \/ \E k \in {"timeout", "not_found", "invalid_token"} : Answered(w, nextIndex, Failure(k))
        \/ /\ searcher' = [searcher EXCEPT ![w] =
                  [box |-> nextIndex, page |-> IF batch.from[nextIndex] = NoToken THEN 1
                                               ELSE batch.from[nextIndex].page]]
           /\ UNCHANGED groups
    BY <1>2 DEF TakeBox
  <2>4. CASE \E k \in {"timeout", "not_found", "invalid_token"} : Answered(w, nextIndex, Failure(k))
    <3>1. PICK k \in {"timeout", "not_found", "invalid_token"} : Answered(w, nextIndex, Failure(k))
      BY <2>4
    <3>2. Failure(k) \in Answers
      BY <1>f
    <3> HIDE DEF Answers, Asked
    <3> QED BY <1>a, <2>1, <3>1, <3>2
  <2>5. CASE UNCHANGED groups /\ searcher' = [searcher EXCEPT ![w] =
                  [box |-> nextIndex, page |-> IF batch.from[nextIndex] = NoToken THEN 1
                                               ELSE batch.from[nextIndex].page]]
    <3>1. (IF batch.from[nextIndex] = NoToken THEN 1 ELSE batch.from[nextIndex].page) \in 0..LastPage
      BY <2>2 DEF Tokens
    <3> QED BY <2>1, <2>5, <3>1
  <2> QED BY <2>1, <2>3, <2>4, <2>5
<1>3. ASSUME NEW w \in SearchWorkers, PageArrives(w)
      PROVE  /\ tokens' \subseteq Tokens /\ searcher' \in [SearchWorkers -> Asked] /\ groups' \in [Boxes -> Answers]
             /\ UNCHANGED <<reachable, batch, nextIndex, aborted, hour>>
  <2> DEFINE box == searcher[w].box
             page == searcher[w].page
  <2>0. box \in Boxes /\ page > 0 /\ page \in 0..LastPage /\ batch.query \in Queries
    BY <1>3, <1>w DEF PageArrives
  <2>1. /\ Answered(w, box, Page(page)) /\ UNCHANGED <<reachable, batch, nextIndex, aborted, hour>>
        /\ tokens' = IF page = LastPage THEN tokens ELSE tokens \cup {Token(box, batch.query, page + 1, hour)}
    BY <1>3 DEF PageArrives
  <2>2. page \in 0..LastPage /\ Page(page) \in Answers
    BY <1>f
  <2>3. page # LastPage => Token(box, batch.query, page + 1, hour) \in Tokens
    <3>1. page # LastPage => page + 1 \in 2..LastPage
      BY <2>0, <2>2
    <3> QED BY <2>0, <3>1 DEF Token, Tokens
  <2>4. searcher' \in [SearchWorkers -> Asked] /\ groups' \in [Boxes -> Answers]
    <3> HIDE DEF Answers, Asked, box
    <3>1. box \in Boxes
      BY <2>0
    <3> QED BY <1>a, <2>1, <2>2, <3>1
  <2> QED BY <2>1, <2>3, <2>4
<1>4. ASSUME NEW w \in SearchWorkers, SearchFails(w)
      PROVE  /\ searcher' \in [SearchWorkers -> Asked] /\ groups' \in [Boxes -> Answers]
             /\ UNCHANGED <<reachable, tokens, batch, nextIndex, aborted, hour>>
  <2>1. PICK k \in {"timeout", "failed"} : Answered(w, searcher[w].box, Failure(k))
    BY <1>4 DEF SearchFails
  <2>2. Failure(k) \in Answers
    BY <1>f
  <2>3. UNCHANGED <<reachable, tokens, batch, nextIndex, aborted, hour>>
    BY <1>4 DEF SearchFails
  <2> HIDE DEF Answers, Asked
  <2>4. searcher[w].box \in Boxes
    BY <1>4, <1>w DEF SearchFails
  <2> QED BY <1>a, <2>1, <2>2, <2>3, <2>4
<1>5. CASE ReturnBatch
  <2>1. /\ batch' = NoBatch /\ nextIndex' = 1 /\ aborted' = FALSE
        /\ groups' = [b \in Boxes |-> Failure("none")] /\ UNCHANGED <<reachable, tokens, searcher, hour>>
    BY <1>5 DEF ReturnBatch
  <2>2. batch' \in Batches
    BY <1>q, <2>1 DEF NoBatch
  <2>3. groups' \in [Boxes -> Answers]
    <3> HIDE DEF Answers
    <3> QED BY <1>f, <2>1
  <2>4. nextIndex' \in 1..n + 1 /\ UNCHANGED <<reachable, tokens, searcher, hour>>
    BY <2>1
  <2>5. aborted' \in BOOLEAN
    BY <2>1
  <2> HIDE DEF Answers, Asked, Batches
  <2> QED BY <2>2, <2>3, <2>4, <2>5
<1>6. CASE Deadline \/ HourPasses \/ UNCHANGED searchVars
  <2>1. aborted' \in BOOLEAN
    BY <1>6 DEF Deadline, HourPasses, searchVars
  <2>3. hour' \in 0..LastHour
    BY <1>6 DEF Deadline, HourPasses, searchVars
  <2>2. UNCHANGED <<reachable, tokens, batch, nextIndex, searcher, groups>>
    BY <1>6 DEF Deadline, HourPasses, searchVars
  <2> HIDE DEF Answers, Asked, Batches
  <2> QED BY <2>1, <2>2, <2>3
<1>7. ASSUME NEW b \in Boxes, AccessChanges(b)
      PROVE  reachable' \subseteq Boxes /\ UNCHANGED <<tokens, batch, nextIndex, searcher, groups, aborted, hour>>
  BY <1>7 DEF AccessChanges
<1> HIDE DEF Answers, Asked, Batches
<1> QED BY <1>1, <1>2, <1>3, <1>4, <1>5, <1>6, <1>7 DEF SearchNext

\* A search's pages, tokens and results are of the mailboxes and the hours it looks at.
THEOREM SearchesAreTyped == SearchSpec => []SearchTypeOK
<1>1. SearchInit => SearchTypeOK
  <2> SUFFICES ASSUME SearchInit PROVE SearchTypeOK
    OBVIOUS
  <2>1. Cardinality(Boxes) \in Nat /\ (CHOOSE q \in Queries : TRUE) \in Queries
    BY SearchConstants, FS_CardinalityType
  <2>2. batch \in [running : BOOLEAN, query : Queries, from : [Boxes -> Tokens \cup {NoToken}]]
    BY <2>1 DEF SearchInit, NoBatch
  <2>3. nextIndex \in 1..Cardinality(Boxes) + 1
    BY <2>1 DEF SearchInit
  <2>4. /\ searcher \in [SearchWorkers -> [box : Boxes \cup {0}, page : 0..LastPage]]
        /\ groups \in [Boxes -> [kind : {"none", "page", "not_found", "invalid_token", "failed", "timeout"},
                                 page : 0..LastPage]]
    BY SearchConstants DEF SearchInit, Idle, Failure
  <2>5. reachable \subseteq Boxes /\ tokens \subseteq Tokens /\ hour \in 0..LastHour
    BY SearchConstants DEF SearchInit
  <2>6. aborted \in BOOLEAN
    BY DEF SearchInit
  <2> QED BY <2>2, <2>3, <2>4, <2>5, <2>6 DEF SearchTypeOK
<1> QED BY <1>1, SearchTypesKept, SearchInvariance, PTL DEF SearchSpec

----------------------------------------------------------------------------
\* The counters of a page stay within its limits, and its token within the mailboxes.
PageBounds ==
    /\ pageTurn \in 0..PageTurns
    /\ cursor = NoCursor \/ (cursor.at \in 1..Len(PathsOf(cursor.over)) + 1 /\ cursor.upper \in 0..TopUid)
    /\ reading.items \in 0..PageLimit /\ reading.inspected \in 0..ScanLimit /\ reading.scanned \in 0..FolderLimit
    /\ reading.entered => reading.scanned < FolderLimit

LEMMA PagingNumbers ==
    TopUid \in Nat \ {0} /\ PageLimit \in Nat \ {0} /\ ScanLimit \in Nat \ {0} /\ FolderLimit \in Nat \ {0}
    /\ PageTurns \in Nat \ {0}
BY PagingConstants

LEMMA PageBoundsKept == ASSUME PagingInv, PageBounds, [PagingNext]_pagingVars PROVE PageBounds'
<1> DEFINE Readings == [at : Nat, todo : SUBSET (1..TopUid), entered : BOOLEAN, items : Nat, inspected : Nat, scanned : Nat]
           Fits(r) == /\ r.items \in 0..PageLimit /\ r.inspected \in 0..ScanLimit /\ r.scanned \in 0..FolderLimit
                      /\ r.entered => r.scanned < FolderLimit
           Continues(t) == t = NoCursor \/ (t.at \in 1..Len(PathsOf(t.over)) + 1 /\ t.upper \in 0..TopUid)
<1>t. reading \in Readings /\ Fits(reading) /\ Continues(cursor) /\ pageTurn \in 0..PageTurns
  BY DEF PagingInv, PagingState, PageBounds
<1>s. SUFFICES Fits(reading') /\ Continues(cursor') /\ pageTurn' \in 0..PageTurns
  BY DEF PageBounds
<1> USE PagingNumbers
<1>l. ASSUME NEW r \in Readings, ~r.entered, r.items = 0, r.inspected = 0, r.scanned = 0 PROVE Fits(r)
  BY <1>l
<1>n. NoReading \in Readings /\ Fits(NoReading)
  BY DEF NoReading
<1>c. ASSUME reading # NoReading, NEW upper \in 0..TopUid PROVE Continues(ImapCursor(reading.at, upper))
  <2>1. reading.at \in 1..Len(PathsOf(listing)) + 1
    BY <1>c DEF PagingInv, PageFollowsToken
  <2> QED BY <2>1 DEF ImapCursor
<1>m. ASSUME reading.todo # {} PROVE Max(reading.todo) \in 0..TopUid
  <2>1. reading.todo \in SUBSET (0..TopUid)
    BY <1>t
  <2>2. Max(reading.todo) \in reading.todo
    BY <1>m, <2>1, Highest
  <2> QED BY <2>1, <2>2
<1>1. CASE BeginPage
  <2>1. pageTurn' = pageTurn + 1 /\ pageTurn < PageTurns /\ UNCHANGED cursor
        /\ (reading' = [NoReading EXCEPT !.at = cursor.at] \/ UNCHANGED reading)
    BY <1>1 DEF BeginPage
  <2>2. Fits([NoReading EXCEPT !.at = cursor.at])
    BY DEF NoReading
  <2>3. pageTurn' \in 0..PageTurns
    BY <1>t, <2>1
  <2>4. Fits(reading')
    BY <1>t, <2>1, <2>2
  <2> HIDE DEF Fits, Continues
  <2> QED BY <1>t, <2>1, <2>3, <2>4 DEF Continues
<1>2. CASE StopBeforeFolder
  <2>1. reading # NoReading /\ reading' = NoReading /\ UNCHANGED pageTurn
        /\ (cursor' = cursor \/ cursor' = ImapCursor(reading.at, 0))
    BY <1>2 DEF StopBeforeFolder, PageEnds
  <2>2. Continues(ImapCursor(reading.at, 0))
    BY <1>c, <2>1
  <2> HIDE DEF Fits, Continues, Readings
  <2>3. Continues(cursor')
    BY <1>t, <2>1, <2>2
  <2> QED BY <1>n, <1>t, <2>1, <2>3 DEF Fits, Continues
<1>3. CASE EnterFolder
  <2>1. /\ UNCHANGED <<cursor, pageTurn>> /\ reading.scanned < FolderLimit
        /\ \/ reading' = NoReading
           \/ \E todo : reading' = [reading EXCEPT !.entered = TRUE, !.todo = todo]
    BY <1>3 DEF EnterFolder
  <2>2. \A todo : Fits([reading EXCEPT !.entered = TRUE, !.todo = todo])
    BY <1>t, <2>1
  <2> HIDE DEF Fits, Continues, Readings
  <2>3. Fits(reading')
    BY <1>n, <2>1, <2>2
  <2> QED BY <1>t, <2>1, <2>3 DEF Fits, Continues
<1>4. CASE Inspect
  <2> DEFINE uid == Max(reading.todo)
             seen == [reading EXCEPT !.todo = @ \ {uid}, !.inspected = @ + 1]
             kept == [seen EXCEPT !.items = @ + 1]
  <2>1. /\ reading.todo # {} /\ reading.inspected < ScanLimit /\ UNCHANGED pageTurn
        /\ \/ reading' = seen /\ UNCHANGED cursor
           \/ reading.items = PageLimit /\ PageEnds(ImapCursor(reading.at, uid))
           \/ reading.items # PageLimit /\ reading' = kept /\ UNCHANGED cursor
    BY <1>4 DEF Inspect
  <2>2. Fits(seen)
    BY <1>t, <2>1
  <2>3. ASSUME reading.items # PageLimit PROVE Fits(kept)
    BY <1>t, <2>1, <2>3, SMTT(30)
  <2>4. reading # NoReading
    BY <2>1 DEF NoReading
  <2>5. uid \in 0..TopUid
    BY <1>m, <2>1
  <2>6. Continues(ImapCursor(reading.at, uid))
    <3> HIDE DEF uid
    <3> QED BY <1>c, <2>4, <2>5
  <2> HIDE DEF Fits, Continues, Readings, seen, kept, uid
  <2>7. Fits(reading') /\ Continues(cursor')
    BY <1>n, <1>t, <2>1, <2>2, <2>3, <2>6 DEF PageEnds
  <2> QED BY <1>t, <2>1, <2>7 DEF Fits, Continues
<1>5. CASE StopInFolder
  <2>1. reading.todo # {} /\ reading' = NoReading /\ cursor' = ImapCursor(reading.at, Max(reading.todo)) /\ UNCHANGED pageTurn
    BY <1>5 DEF StopInFolder, PageEnds
  <2>2. reading # NoReading
    BY <2>1 DEF NoReading
  <2>3. Continues(cursor')
    BY <1>c, <1>m, <2>1, <2>2
  <2> HIDE DEF Fits, Continues, Readings
  <2> QED BY <1>n, <1>t, <2>1, <2>3 DEF Fits, Continues
<1>6. CASE LeaveFolder
  <2>1. reading.entered /\ reading' = [reading EXCEPT !.entered = FALSE, !.at = @ + 1, !.scanned = @ + 1]
        /\ UNCHANGED <<cursor, pageTurn>>
    BY <1>6 DEF LeaveFolder
  <2>2. Fits([reading EXCEPT !.entered = FALSE, !.at = @ + 1, !.scanned = @ + 1])
    BY <1>t, <2>1
  <2> HIDE DEF Fits, Continues, Readings
  <2>3. Fits(reading')
    BY <2>1, <2>2
  <2> QED BY <1>t, <2>1, <2>3 DEF Fits, Continues
<1>7. CASE Exhausted
  <2>1. reading' = NoReading /\ cursor' = NoCursor /\ UNCHANGED pageTurn
    BY <1>7 DEF Exhausted, PageEnds
  <2> HIDE DEF Fits, Readings
  <2> QED BY <1>n, <1>t, <2>1 DEF Fits
<1>8. ASSUME UNCHANGED <<cursor, reading, pageTurn>> PROVE Fits(reading') /\ Continues(cursor') /\ pageTurn' \in 0..PageTurns
  <2> HIDE DEF Fits, Continues, Readings
  <2> QED BY <1>t, <1>8 DEF Fits, Continues
<1>9. ASSUME NEW i \in Idx, MessageArrives(i) \/ RenumberBox(i) \/ \E uid \in 1..TopUid : MessageLeaves(i, uid)
      PROVE  UNCHANGED <<cursor, reading, pageTurn>>
  BY <1>9 DEF MessageArrives, RenumberBox, MessageLeaves
<1>10. ASSUME NEW l \in Listings, FoldersChange(l) PROVE UNCHANGED <<cursor, reading, pageTurn>>
  BY <1>10 DEF FoldersChange
<1>11. CASE UNCHANGED pagingVars
  BY <1>8, <1>11 DEF pagingVars
<1> HIDE DEF Fits, Continues, Readings
<1> QED BY <1>1, <1>2, <1>3, <1>4, <1>5, <1>6, <1>7, <1>8, <1>9, <1>10, <1>11 DEF PagingNext

\* A page of IMAP stays within its limits of items, of looks and of folders, and its
\* token within the list of folders it was made for.
THEOREM PagesAreTyped == PagingSpec => []PagingTypeOK
<1>1. PagingInit => PageBounds
  <2> SUFFICES ASSUME PagingInit PROVE PageBounds
    OBVIOUS
  <2>1. Len(PathsOf(listing)) \in Nat
    BY PathsAreAllMail DEF PagingInit
  <2> QED BY <2>1, PagingNumbers DEF PagingInit, PageBounds, Start, NoReading
<1>2. PagingInv /\ PageBounds => PagingTypeOK
  <2> SUFFICES ASSUME PagingInv, PageBounds PROVE PagingTypeOK
    OBVIOUS
  <2>1. reading.todo \subseteq 1..TopUid
    BY DEF PagingInv, PagingState
  <2> QED BY <2>1 DEF PagingInv, PagingState, PageBounds, PagingTypeOK
<1>3. PagingSpec => []PageBounds
  BY <1>1, PageBoundsKept, PagingInvariance, PTL DEF PagingSpec
<1> QED BY <1>2, <1>3, PagingInvariance, PTL

-----------------------------------------------------------------------------
\* A page and a token hold a batch at most.
CandidateBounds ==
    /\ turn \in 0..Turns
    /\ loop.items \in 0..ResultLimit /\ loop.inspected \in 0..InspectLimit /\ Len(loop.ids) <= BatchSize
    /\ pageToken = NoPageToken \/ (pageToken.after \in Candidates \cup {0} /\ Len(pageToken.pending) <= BatchSize)
    /\ counted \in Seq(Candidates)

LEMMA ProviderNumbers ==
    BatchSize \in Nat \ {0} /\ ResultLimit \in Nat \ {0} /\ InspectLimit \in Nat \ {0} /\ Turns \in Nat \ {0}
BY ProviderPagingConstants

LEMMA CandidateBoundsKept ==
    ASSUME CandidatesInv, CandidateBounds, [ProviderPagingNext]_candidateVars PROVE CandidateBounds'
<1> USE ProviderNumbers
<1> DEFINE Small(l) == l.items \in 0..ResultLimit /\ l.inspected \in 0..InspectLimit /\ Len(l.ids) <= BatchSize
           Fits(t) == t = NoPageToken \/ (t.after \in Candidates \cup {0} /\ Len(t.pending) <= BatchSize)
<1>t. turn \in 0..Turns /\ Small(loop) /\ Fits(pageToken) /\ counted \in Seq(Candidates)
  BY DEF CandidateBounds
<1>s. SUFFICES turn' \in 0..Turns /\ Small(loop') /\ Fits(pageToken') /\ counted' \in Seq(Candidates)
  BY DEF CandidateBounds
<1>r. remaining \subseteq Candidates
  BY DEF CandidatesInv, PositionState
<1>l. ASSUME NEW from, from.after \in Candidates \cup {0}, Len(from.pending) <= BatchSize,
             NEW items \in 0..ResultLimit, NEW inspected \in 0..InspectLimit
      PROVE  Small(Load(from, items, inspected))
  <2>1. Len(Batch(from.after)) <= BatchSize
    BY <1>l, <1>r, BatchFacts
  <2> QED BY <1>l, <2>1 DEF Load
<1>o. loop.on => /\ Edge = EdgeOf(loop) /\ EdgeOf(loop) \in Candidates \cup {0}
                 /\ loop.done \in 0..Len(loop.ids) /\ loop.ids \in Seq(Candidates)
                 /\ loop.from.after \in Candidates \cup {0}
                 /\ style = "outlook" => loop.from.pending = << >>
                 /\ ~finished
  <2>1. loop.on => ~finished
    BY DEF CandidatesInv, PositionState
  <2>2. loop.on => loop.ids \in Seq(Candidates) /\ loop.from \in Positions
    BY DEF CandidatesInv, PositionState, Loops
  <2> QED BY <2>1, <2>2 DEF CandidatesInv, LoadedInOrder, LookedAt, Edge, Loaded, BatchIsWhole, Positions
<1>w. Onwards.after = EdgeOf(loop) /\ Onwards.pending = << >>
  BY DEF Onwards, Position
<1>1. CASE FetchFirst
  <2>1. /\ pageToken # NoPageToken /\ turn < Turns /\ turn' = turn + 1 /\ UNCHANGED <<pageToken, counted>>
        /\ (loop' = loop \/ loop' = Load(pageToken, 0, 0))
    BY <1>1 DEF FetchFirst
  <2>2. Small(Load(pageToken, 0, 0))
    BY <1>l, <1>t, <2>1
  <2>3. turn' \in 0..Turns
    BY <1>t, <2>1
  <2> HIDE DEF Small, Fits
  <2>4. Small(loop')
    BY <1>t, <2>1, <2>2
  <2> QED BY <1>t, <2>1, <2>3, <2>4 DEF Small, Fits
<1>2. CASE FetchNext
  <2>1. /\ loop.on /\ loop' = Load(Onwards, loop.items, loop.inspected)
        /\ UNCHANGED <<turn, pageToken, counted>>
    BY <1>2 DEF FetchNext
  <2>2. Onwards.after \in Candidates \cup {0} /\ Len(Onwards.pending) <= BatchSize
    BY <1>o, <1>w, <2>1
  <2>3. Small(Load(Onwards, loop.items, loop.inspected))
    BY <1>l, <1>t, <2>2
  <2> HIDE DEF Small, Fits
  <2>4. Small(loop')
    BY <2>1, <2>3
  <2> QED BY <1>t, <2>1, <2>4 DEF Small, Fits
<1>3. CASE InspectCandidate
  <2>1. /\ loop.items < ResultLimit /\ loop.inspected < InspectLimit /\ UNCHANGED <<turn, pageToken, counted>>
    BY <1>3 DEF InspectCandidate
  <2> DEFINE found == IF loop.ids[loop.done + 1] \in Wanted \cap remaining THEN 1 ELSE 0
  <2>2. found \in 0..1 /\ loop' = [loop EXCEPT !.done = @ + 1, !.inspected = @ + 1, !.items = @ + found]
    BY <1>3 DEF InspectCandidate
  <2> HIDE DEF found
  <2>3. loop \in Loops
    BY DEF CandidatesInv, PositionState
  <2>4. loop'.items = loop.items + found /\ loop'.inspected = loop.inspected + 1 /\ loop'.ids = loop.ids
    BY <2>2, <2>3 DEF Loops
  <2>5. Small(loop')
    BY <1>t, <2>1, <2>2, <2>4, SMTT(30)
  <2> HIDE DEF Small, Fits
  <2> QED BY <1>t, <2>1, <2>5 DEF Small, Fits
<1>4. CASE EndPage
  <2>1. /\ loop.on /\ counted' = loop.ids /\ loop' = NoLoop /\ UNCHANGED turn
        /\ pageToken' = IF style = "gmail" THEN GmailToken ELSE OutlookToken
    BY <1>4 DEF EndPage
  <2>2. Small(NoLoop)
    BY DEF NoLoop
  <2>3. Len(Rest) <= BatchSize
    <3>1. loop.done \in Nat /\ Len(loop.ids) \in Nat /\ loop.done <= Len(loop.ids)
      BY <1>o, <2>1
    <3>2. Len(Rest) = Len(loop.ids) - loop.done
      BY <1>o, <2>1, <3>1 DEF Rest
    <3> QED BY <1>t, <3>1, <3>2
  <2>4. style = "gmail" => Fits(GmailToken)
    <3>1. [Onwards EXCEPT !.pending = Rest].after = EdgeOf(loop) /\ [Onwards EXCEPT !.pending = Rest].pending = Rest
      BY DEF Onwards, Position
    <3> HIDE DEF Rest
    <3> QED BY <1>o, <2>1, <2>3, <3>1 DEF GmailToken, Rest
  <2>5. style = "outlook" => Fits(OutlookToken)
    <3>1. ASSUME style = "outlook" PROVE Fits([loop.from EXCEPT !.offset = loop.done])
      <4>1. loop.from \in Positions
        BY DEF CandidatesInv, PositionState, Loops
      <4>2. [loop.from EXCEPT !.offset = loop.done].after = loop.from.after
            /\ [loop.from EXCEPT !.offset = loop.done].pending = loop.from.pending
        BY <4>1 DEF Positions
      <4> QED BY <1>o, <2>1, <3>1, <4>2
    <3>2. Fits(Onwards)
      BY <1>o, <1>w, <2>1
    <3> HIDE DEF Fits
    <3>3. Fits(NoPageToken)
      BY DEF Fits
    <3> QED BY <3>1, <3>2, <3>3 DEF OutlookToken
  <2>6. style \in {"gmail", "outlook"}
    BY DEF CandidatesInv, PositionState
  <2> HIDE DEF Small, Fits
  <2>7. Fits(pageToken') /\ Small(loop')
    BY <2>1, <2>2, <2>4, <2>5, <2>6
  <2>8. counted' \in Seq(Candidates)
    BY <1>o, <2>1
  <2> QED BY <1>t, <2>1, <2>7, <2>8 DEF Small, Fits
<1>5. CASE (\E id \in Candidates : CandidateLeaves(id)) \/ UNCHANGED candidateVars
  <2>1. UNCHANGED <<turn, loop, pageToken, counted>>
    BY <1>5 DEF CandidateLeaves, candidateVars
  <2> HIDE DEF Small, Fits
  <2> QED BY <1>t, <2>1 DEF Small, Fits
<1> HIDE DEF Small, Fits
<1> QED BY <1>1, <1>2, <1>3, <1>4, <1>5 DEF ProviderPagingNext

\* A page of Gmail and Outlook holds a batch at most, and its token too.
THEOREM CandidatesAreTyped == ProviderPagingSpec => []ProviderPagingTypeOK
<1>1. ProviderPagingInit => CandidateBounds
  <2> SUFFICES ASSUME ProviderPagingInit PROVE CandidateBounds
    OBVIOUS
  <2>1. pageToken.after = 0 /\ pageToken.pending = << >>
    BY DEF ProviderPagingInit, Position
  <2>2. Len(<< >>) = 0 /\ << >> \in Seq(Candidates)
    OBVIOUS
  <2> QED BY <2>1, <2>2, ProviderNumbers DEF ProviderPagingInit, CandidateBounds, NoLoop
<1>2. CandidatesInv /\ CandidateBounds => ProviderPagingTypeOK
  <2> SUFFICES ASSUME CandidatesInv, CandidateBounds PROVE ProviderPagingTypeOK
    OBVIOUS
  <2>1. loop.done \in 0..BatchSize
    <3>1. CASE loop.on
      <4>1. loop.done \in 0..Len(loop.ids) /\ loop.ids \in Seq(Candidates)
        BY <3>1 DEF CandidatesInv, LoadedInOrder, LookedAt, Loaded, PositionState, Loops
      <4>2. Len(loop.ids) <= BatchSize /\ Len(loop.ids) \in Nat
        BY <4>1 DEF CandidateBounds
      <4> QED BY <4>1, <4>2, ProviderNumbers
    <3>2. CASE ~loop.on
      BY <3>2, ProviderNumbers DEF CandidatesInv, PositionState, NoLoop
    <3> QED BY <3>1, <3>2
  <2> QED BY <2>1 DEF CandidatesInv, PositionState, CandidateBounds, ProviderPagingTypeOK
<1>3. ProviderPagingSpec => []CandidateBounds
  BY <1>1, CandidateBoundsKept, CandidatesInvariance, PTL DEF ProviderPagingSpec
<1> QED BY <1>2, <1>3, CandidatesInvariance, PTL
=============================================================================
