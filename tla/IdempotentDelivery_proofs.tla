---------------------- MODULE IdempotentDelivery_proofs ----------------------
(***************************************************************************)
(* Proofs about IdempotentDelivery, for any number of calls, keys and      *)
(* requests.                                                               *)
(***************************************************************************)
EXTENDS IdempotentDelivery, TLAPS

LEMMA InitKeyed == Init => KeyedInv
<1> SUFFICES ASSUME Init PROVE KeyedInv
  OBVIOUS
<1> USE KeyedConstants
<1>1. TypeOK
  BY DEF Init, TypeOK, Statuses, Decided, Answers, CallPC
<1>2. CallsHaveKeys /\ CallsInOrder /\ OperationOfRequest
  BY DEF Init, CallsHaveKeys, CallsInOrder, OperationOfRequest
<1>3. OneAtWork /\ StatusIsTrue
  BY DEF Init, OneAtWork, Working, StatusIsTrue
<1>4. AnswersOnRecord /\ AnswersTheRequest /\ OneEffectPerKey
  BY DEF Init, AnswersOnRecord, AnswersTheRequest, OneEffectPerKey, EffectsUnder, Decided, Statuses
<1> QED BY <1>1, <1>2, <1>3, <1>4 DEF KeyedInv


\* Every step preserves the types.
LEMMA TypeStep ==
    ASSUME TypeOK, CallsHaveKeys, OneAtWork, [Next]_vars
    PROVE  TypeOK'
<1> USE KeyedConstants DEF TypeOK, Goto, table, frame, Statuses, Decided, Answers, CallPC
<1>1. ASSUME NEW c \in Calls, NEW k \in Keys, NEW r \in Requests, Call(c, k, r) PROVE TypeOK'
  BY <1>1 DEF Call
<1>2. ASSUME NEW c \in Calls, Legacy(c) PROVE TypeOK'
  BY <1>2 DEF Legacy, Reply
<1>3. ASSUME NEW c \in Calls, Insert(c) PROVE TypeOK'
  <2> USE <1>3 DEF Insert
  <2>1. status' \in [Keys -> Statuses]
    OBVIOUS
  <2>2. hash' \in [Keys -> Requests \cup {None}]
    OBVIOUS
  <2>3. stale' \in [Keys -> BOOLEAN]
    OBVIOUS
  <2>4. pc' \in [Calls -> CallPC]
    OBVIOUS
  <2> QED BY <2>1, <2>2, <2>3, <2>4
<1>4. ASSUME NEW c \in Calls, Select(c) PROVE TypeOK'
  BY <1>4 DEF Select, Reply
<1>5. ASSUME NEW c \in Calls, Read(c) PROVE TypeOK'
  <2> USE <1>5 DEF Read, Reply
  <2>1. pc' \in [Calls -> CallPC]
    OBVIOUS
  <2>2. answer' \in [Calls -> Answers]
    BY DEF CallsHaveKeys, Answers, Statuses
  <2> QED BY <2>1, <2>2
<1>6. ASSUME NEW c \in Calls, Expire(c) PROVE TypeOK'
  BY <1>6 DEF Expire
<1>7. ASSUME NEW c \in Calls, Reread(c) PROVE TypeOK'
  <2> USE <1>7 DEF Reread, Reply
  <2>1. pc' \in [Calls -> CallPC]
    OBVIOUS
  <2>2. answer' \in [Calls -> Answers]
    BY DEF CallsHaveKeys, Answers, Statuses
  <2> QED BY <2>1, <2>2
<1>8. ASSUME NEW c \in Calls, Deliver(c) PROVE TypeOK'
  <2> USE <1>8 DEF Deliver
  <2>1. pc' \in [Calls -> CallPC]
    OBVIOUS
  <2>2. effect' \in [Calls -> BOOLEAN]
    OBVIOUS
  <2>3. verdict' \in [Calls -> Decided \cup {"uncertain", "none"}]
    OBVIOUS
  <2> QED BY <2>1, <2>2, <2>3
<1>9. ASSUME NEW c \in Calls, Finish(c) PROVE TypeOK'
  <2> USE <1>9 DEF Finish
  <2>1. pc' \in [Calls -> CallPC]
    OBVIOUS
  <2>2. status' \in [Keys -> Statuses]
    BY DEF OneAtWork
  <2>3. stale' \in [Keys -> BOOLEAN]
    OBVIOUS
  <2> QED BY <2>1, <2>2, <2>3
<1>10. ASSUME NEW c \in Calls, Crash(c) PROVE TypeOK'
  BY <1>10 DEF Crash, Fault
<1>11. ASSUME NEW k \in Keys, Poll(k) PROVE TypeOK'
  BY <1>11 DEF Poll
<1>12. ASSUME NEW k \in Keys, GoStale(k) PROVE TypeOK'
  BY <1>12 DEF GoStale
<1>13. ASSUME NEW k \in Keys, Stall(k) PROVE TypeOK'
  BY <1>13 DEF Stall, Fault
<1>14. ASSUME NEW k \in Keys, Heartbeat(k) PROVE TypeOK'
  BY <1>14 DEF Heartbeat
<1>15. ASSUME NEW k \in Keys, LegacyExpires(k) PROVE TypeOK'
  BY <1>15 DEF LegacyExpires
<1>16. CASE UNCHANGED vars
  BY <1>16 DEF vars
<1> QED
  BY <1>1, <1>2, <1>3, <1>4, <1>5, <1>6, <1>7, <1>8, <1>9, <1>10, <1>11, <1>12, <1>13, <1>14, <1>15, <1>16
     DEF Next, CallStep

\* Keys and requests of calls.
LEMMA KeysStep ==
    ASSUME TypeOK, CallsHaveKeys, CallsInOrder, [Next]_vars
    PROVE  CallsHaveKeys' /\ CallsInOrder'
<1> USE KeyedConstants DEF TypeOK, Goto, table, frame
<1>1. ASSUME NEW c \in Calls, NEW k \in Keys, NEW r \in Requests, Call(c, k, r) PROVE CallsHaveKeys' /\ CallsInOrder'
  BY <1>1 DEF Call, CallsHaveKeys, CallsInOrder
<1>2. ASSUME NEW c \in Calls, Legacy(c) PROVE CallsHaveKeys' /\ CallsInOrder'
  BY <1>2 DEF Legacy, Reply, CallsHaveKeys, CallsInOrder
<1>3. ASSUME NEW c \in Calls, Insert(c) PROVE CallsHaveKeys' /\ CallsInOrder'
  BY <1>3 DEF Insert, CallsHaveKeys, CallsInOrder
<1>4. ASSUME NEW c \in Calls, Select(c) PROVE CallsHaveKeys' /\ CallsInOrder'
  BY <1>4 DEF Select, Reply, CallsHaveKeys, CallsInOrder
<1>5. ASSUME NEW c \in Calls, Read(c) PROVE CallsHaveKeys' /\ CallsInOrder'
  BY <1>5 DEF Read, Reply, CallsHaveKeys, CallsInOrder
<1>6. ASSUME NEW c \in Calls, Expire(c) PROVE CallsHaveKeys' /\ CallsInOrder'
  BY <1>6 DEF Expire, CallsHaveKeys, CallsInOrder
<1>7. ASSUME NEW c \in Calls, Reread(c) PROVE CallsHaveKeys' /\ CallsInOrder'
  BY <1>7 DEF Reread, Reply, CallsHaveKeys, CallsInOrder
<1>8. ASSUME NEW c \in Calls, Deliver(c) PROVE CallsHaveKeys' /\ CallsInOrder'
  BY <1>8 DEF Deliver, CallsHaveKeys, CallsInOrder
<1>9. ASSUME NEW c \in Calls, Finish(c) PROVE CallsHaveKeys' /\ CallsInOrder'
  BY <1>9 DEF Finish, CallsHaveKeys, CallsInOrder
<1>10. ASSUME NEW c \in Calls, Crash(c) PROVE CallsHaveKeys' /\ CallsInOrder'
  BY <1>10 DEF Crash, Fault, CallsHaveKeys, CallsInOrder
<1>11. ASSUME NEW k \in Keys, Poll(k) PROVE CallsHaveKeys' /\ CallsInOrder'
  BY <1>11 DEF Poll, CallsHaveKeys, CallsInOrder
<1>12. ASSUME NEW k \in Keys, GoStale(k) PROVE CallsHaveKeys' /\ CallsInOrder'
  BY <1>12 DEF GoStale, CallsHaveKeys, CallsInOrder
<1>13. ASSUME NEW k \in Keys, Stall(k) PROVE CallsHaveKeys' /\ CallsInOrder'
  BY <1>13 DEF Stall, Fault, CallsHaveKeys, CallsInOrder
<1>14. ASSUME NEW k \in Keys, Heartbeat(k) PROVE CallsHaveKeys' /\ CallsInOrder'
  BY <1>14 DEF Heartbeat, CallsHaveKeys, CallsInOrder
<1>15. ASSUME NEW k \in Keys, LegacyExpires(k) PROVE CallsHaveKeys' /\ CallsInOrder'
  BY <1>15 DEF LegacyExpires, CallsHaveKeys, CallsInOrder
<1>16. CASE UNCHANGED vars
  BY <1>16 DEF vars, CallsHaveKeys, CallsInOrder
<1> QED
  BY <1>1, <1>2, <1>3, <1>4, <1>5, <1>6, <1>7, <1>8, <1>9, <1>10, <1>11, <1>12, <1>13, <1>14, <1>15, <1>16
     DEF Next, CallStep

\* Operations are of the requests that made them.
LEMMA RequestStep ==
    ASSUME TypeOK, CallsHaveKeys, CallsInOrder, OperationOfRequest, [Next]_vars
    PROVE  OperationOfRequest'
<1> USE KeyedConstants DEF TypeOK, Goto, table, frame
<1>1. ASSUME NEW c \in Calls, NEW k \in Keys, NEW r \in Requests, Call(c, k, r) PROVE OperationOfRequest'
  BY <1>1 DEF Call, CallsHaveKeys, CallsInOrder, OperationOfRequest
<1>2. ASSUME NEW c \in Calls, Legacy(c) PROVE OperationOfRequest'
  BY <1>2 DEF Legacy, Reply, CallsHaveKeys, CallsInOrder, OperationOfRequest
<1>3. ASSUME NEW c \in Calls, Insert(c) PROVE OperationOfRequest'
  BY <1>3 DEF Insert, CallsHaveKeys, CallsInOrder, OperationOfRequest
<1>4. ASSUME NEW c \in Calls, Select(c) PROVE OperationOfRequest'
  BY <1>4 DEF Select, Reply, CallsHaveKeys, CallsInOrder, OperationOfRequest
<1>5. ASSUME NEW c \in Calls, Read(c) PROVE OperationOfRequest'
  BY <1>5 DEF Read, Reply, CallsHaveKeys, CallsInOrder, OperationOfRequest
<1>6. ASSUME NEW c \in Calls, Expire(c) PROVE OperationOfRequest'
  BY <1>6 DEF Expire, CallsHaveKeys, CallsInOrder, OperationOfRequest
<1>7. ASSUME NEW c \in Calls, Reread(c) PROVE OperationOfRequest'
  BY <1>7 DEF Reread, Reply, CallsHaveKeys, CallsInOrder, OperationOfRequest
<1>8. ASSUME NEW c \in Calls, Deliver(c) PROVE OperationOfRequest'
  BY <1>8 DEF Deliver, CallsHaveKeys, CallsInOrder, OperationOfRequest
<1>9. ASSUME NEW c \in Calls, Finish(c) PROVE OperationOfRequest'
  <2>1. key[c] \in Keys /\ status[key[c]] # "absent"
    BY <1>9 DEF Finish, CallsHaveKeys, OperationOfRequest
  <2>2. UNCHANGED <<hash, key, request, effect>>
    BY <1>9 DEF Finish
  <2>3. \A d \in Calls : pc'[d] \in {"read", "expire", "reread", "deliver", "finish", "select"} =>
             pc[d] = pc'[d] \/ d = c
    BY <1>9 DEF Finish
  <2>4. verdict[c] # "absent"
    BY DEF Decided
  <2>5. status'[key[c]] # "absent"
    BY <1>9, <2>1, <2>4 DEF Finish
  <2>6. hash[key[c]] = request[c]
    BY <1>9 DEF Finish, OperationOfRequest
  <2>7. \A k \in Keys : status[k] # "absent" => status'[k] # "absent"
    BY <1>9, <2>1, <2>4 DEF Finish
  <2> QED BY <2>1, <2>2, <2>3, <2>5, <2>6, <2>7 DEF CallsHaveKeys, CallsInOrder, OperationOfRequest
<1>10. ASSUME NEW c \in Calls, Crash(c) PROVE OperationOfRequest'
  BY <1>10 DEF Crash, Fault, CallsHaveKeys, CallsInOrder, OperationOfRequest
<1>11. ASSUME NEW k \in Keys, Poll(k) PROVE OperationOfRequest'
  BY <1>11 DEF Poll, CallsHaveKeys, CallsInOrder, OperationOfRequest
<1>12. ASSUME NEW k \in Keys, GoStale(k) PROVE OperationOfRequest'
  BY <1>12 DEF GoStale, CallsHaveKeys, CallsInOrder, OperationOfRequest
<1>13. ASSUME NEW k \in Keys, Stall(k) PROVE OperationOfRequest'
  BY <1>13 DEF Stall, Fault, CallsHaveKeys, CallsInOrder, OperationOfRequest
<1>14. ASSUME NEW k \in Keys, Heartbeat(k) PROVE OperationOfRequest'
  BY <1>14 DEF Heartbeat, CallsHaveKeys, CallsInOrder, OperationOfRequest
<1>15. ASSUME NEW k \in Keys, LegacyExpires(k) PROVE OperationOfRequest'
  BY <1>15 DEF LegacyExpires, CallsHaveKeys, CallsInOrder, OperationOfRequest
<1>16. CASE UNCHANGED vars
  BY <1>16 DEF vars, CallsHaveKeys, CallsInOrder, OperationOfRequest
<1> QED
  BY <1>1, <1>2, <1>3, <1>4, <1>5, <1>6, <1>7, <1>8, <1>9, <1>10, <1>11, <1>12, <1>13, <1>14, <1>15, <1>16
     DEF Next, CallStep

\* One call at work.
LEMMA AtWorkStep ==
    ASSUME TypeOK, CallsHaveKeys, CallsInOrder, OperationOfRequest, OneAtWork, [Next]_vars
    PROVE  OneAtWork'
<1> USE KeyedConstants DEF TypeOK, Goto, table, frame
<1>1. ASSUME NEW c \in Calls, NEW k \in Keys, NEW r \in Requests, Call(c, k, r) PROVE OneAtWork'
  BY <1>1 DEF Call, CallsHaveKeys, CallsInOrder, OperationOfRequest, OneAtWork, Working
<1>2. ASSUME NEW c \in Calls, Legacy(c) PROVE OneAtWork'
  BY <1>2 DEF Legacy, Reply, CallsHaveKeys, CallsInOrder, OperationOfRequest, OneAtWork, Working
<1>3. ASSUME NEW c \in Calls, Insert(c) PROVE OneAtWork'
  BY <1>3 DEF Insert, CallsHaveKeys, CallsInOrder, OperationOfRequest, OneAtWork, Working
<1>4. ASSUME NEW c \in Calls, Select(c) PROVE OneAtWork'
  BY <1>4 DEF Select, Reply, CallsHaveKeys, CallsInOrder, OperationOfRequest, OneAtWork, Working
<1>5. ASSUME NEW c \in Calls, Read(c) PROVE OneAtWork'
  BY <1>5 DEF Read, Reply, CallsHaveKeys, CallsInOrder, OperationOfRequest, OneAtWork, Working
<1>6. ASSUME NEW c \in Calls, Expire(c) PROVE OneAtWork'
  BY <1>6 DEF Expire, CallsHaveKeys, CallsInOrder, OperationOfRequest, OneAtWork, Working
<1>7. ASSUME NEW c \in Calls, Reread(c) PROVE OneAtWork'
  BY <1>7 DEF Reread, Reply, CallsHaveKeys, CallsInOrder, OperationOfRequest, OneAtWork, Working
<1>8. ASSUME NEW c \in Calls, Deliver(c) PROVE OneAtWork'
  BY <1>8 DEF Deliver, CallsHaveKeys, CallsInOrder, OperationOfRequest, OneAtWork, Working
<1>9. ASSUME NEW c \in Calls, Finish(c) PROVE OneAtWork'
  BY <1>9 DEF Finish, CallsHaveKeys, CallsInOrder, OperationOfRequest, OneAtWork, Working
<1>10. ASSUME NEW c \in Calls, Crash(c) PROVE OneAtWork'
  BY <1>10 DEF Crash, Fault, CallsHaveKeys, CallsInOrder, OperationOfRequest, OneAtWork, Working
<1>11. ASSUME NEW k \in Keys, Poll(k) PROVE OneAtWork'
  BY <1>11 DEF Poll, CallsHaveKeys, CallsInOrder, OperationOfRequest, OneAtWork, Working
<1>12. ASSUME NEW k \in Keys, GoStale(k) PROVE OneAtWork'
  BY <1>12 DEF GoStale, CallsHaveKeys, CallsInOrder, OperationOfRequest, OneAtWork, Working
<1>13. ASSUME NEW k \in Keys, Stall(k) PROVE OneAtWork'
  BY <1>13 DEF Stall, Fault, CallsHaveKeys, CallsInOrder, OperationOfRequest, OneAtWork, Working
<1>14. ASSUME NEW k \in Keys, Heartbeat(k) PROVE OneAtWork'
  BY <1>14 DEF Heartbeat, CallsHaveKeys, CallsInOrder, OperationOfRequest, OneAtWork, Working
<1>15. ASSUME NEW k \in Keys, LegacyExpires(k) PROVE OneAtWork'
  BY <1>15 DEF LegacyExpires, CallsHaveKeys, CallsInOrder, OperationOfRequest, OneAtWork, Working
<1>16. CASE UNCHANGED vars
  BY <1>16 DEF vars, CallsHaveKeys, CallsInOrder, OperationOfRequest, OneAtWork, Working
<1> QED
  BY <1>1, <1>2, <1>3, <1>4, <1>5, <1>6, <1>7, <1>8, <1>9, <1>10, <1>11, <1>12, <1>13, <1>14, <1>15, <1>16
     DEF Next, CallStep

\* Decided operations are true.
LEMMA TruthStep ==
    ASSUME TypeOK, CallsHaveKeys, CallsInOrder, OperationOfRequest, OneAtWork, StatusIsTrue, [Next]_vars
    PROVE  StatusIsTrue'
<1> USE KeyedConstants DEF TypeOK, Goto, table, frame
<1>1. ASSUME NEW c \in Calls, NEW k \in Keys, NEW r \in Requests, Call(c, k, r) PROVE StatusIsTrue'
  BY <1>1 DEF Call, CallsHaveKeys, CallsInOrder, OperationOfRequest, OneAtWork, Working, StatusIsTrue, EffectsUnder
<1>2. ASSUME NEW c \in Calls, Legacy(c) PROVE StatusIsTrue'
  BY <1>2 DEF Legacy, Reply, CallsHaveKeys, CallsInOrder, OperationOfRequest, OneAtWork, Working, StatusIsTrue, EffectsUnder
<1>3. ASSUME NEW c \in Calls, Insert(c) PROVE StatusIsTrue'
  BY <1>3 DEF Insert, CallsHaveKeys, CallsInOrder, OperationOfRequest, OneAtWork, Working, StatusIsTrue, EffectsUnder
<1>4. ASSUME NEW c \in Calls, Select(c) PROVE StatusIsTrue'
  BY <1>4 DEF Select, Reply, CallsHaveKeys, CallsInOrder, OperationOfRequest, OneAtWork, Working, StatusIsTrue, EffectsUnder
<1>5. ASSUME NEW c \in Calls, Read(c) PROVE StatusIsTrue'
  BY <1>5 DEF Read, Reply, CallsHaveKeys, CallsInOrder, OperationOfRequest, OneAtWork, Working, StatusIsTrue, EffectsUnder
<1>6. ASSUME NEW c \in Calls, Expire(c) PROVE StatusIsTrue'
  BY <1>6 DEF Expire, CallsHaveKeys, CallsInOrder, OperationOfRequest, OneAtWork, Working, StatusIsTrue, EffectsUnder
<1>7. ASSUME NEW c \in Calls, Reread(c) PROVE StatusIsTrue'
  BY <1>7 DEF Reread, Reply, CallsHaveKeys, CallsInOrder, OperationOfRequest, OneAtWork, Working, StatusIsTrue, EffectsUnder
<1>8. ASSUME NEW c \in Calls, Deliver(c) PROVE StatusIsTrue'
  BY <1>8 DEF Deliver, CallsHaveKeys, CallsInOrder, OperationOfRequest, OneAtWork, Working, StatusIsTrue, EffectsUnder
<1>9. ASSUME NEW c \in Calls, Finish(c) PROVE StatusIsTrue'
  BY <1>9 DEF Finish, CallsHaveKeys, CallsInOrder, OperationOfRequest, OneAtWork, Working, StatusIsTrue, EffectsUnder
<1>10. ASSUME NEW c \in Calls, Crash(c) PROVE StatusIsTrue'
  BY <1>10 DEF Crash, Fault, CallsHaveKeys, CallsInOrder, OperationOfRequest, OneAtWork, Working, StatusIsTrue, EffectsUnder
<1>11. ASSUME NEW k \in Keys, Poll(k) PROVE StatusIsTrue'
  BY <1>11 DEF Poll, CallsHaveKeys, CallsInOrder, OperationOfRequest, OneAtWork, Working, StatusIsTrue, EffectsUnder
<1>12. ASSUME NEW k \in Keys, GoStale(k) PROVE StatusIsTrue'
  BY <1>12 DEF GoStale, CallsHaveKeys, CallsInOrder, OperationOfRequest, OneAtWork, Working, StatusIsTrue, EffectsUnder
<1>13. ASSUME NEW k \in Keys, Stall(k) PROVE StatusIsTrue'
  BY <1>13 DEF Stall, Fault, CallsHaveKeys, CallsInOrder, OperationOfRequest, OneAtWork, Working, StatusIsTrue, EffectsUnder
<1>14. ASSUME NEW k \in Keys, Heartbeat(k) PROVE StatusIsTrue'
  BY <1>14 DEF Heartbeat, CallsHaveKeys, CallsInOrder, OperationOfRequest, OneAtWork, Working, StatusIsTrue, EffectsUnder
<1>15. ASSUME NEW k \in Keys, LegacyExpires(k) PROVE StatusIsTrue'
  BY <1>15 DEF LegacyExpires, CallsHaveKeys, CallsInOrder, OperationOfRequest, OneAtWork, Working, StatusIsTrue, EffectsUnder
<1>16. CASE UNCHANGED vars
  BY <1>16 DEF vars, CallsHaveKeys, CallsInOrder, OperationOfRequest, OneAtWork, Working, StatusIsTrue, EffectsUnder
<1> QED
  BY <1>1, <1>2, <1>3, <1>4, <1>5, <1>6, <1>7, <1>8, <1>9, <1>10, <1>11, <1>12, <1>13, <1>14, <1>15, <1>16
     DEF Next, CallStep

\* Answers.
LEMMA AnswerStep ==
    ASSUME TypeOK, CallsHaveKeys, CallsInOrder, OperationOfRequest, OneAtWork, AnswersOnRecord, AnswersTheRequest, [Next]_vars
    PROVE  AnswersOnRecord' /\ AnswersTheRequest'
<1> USE KeyedConstants DEF TypeOK, Goto, table, frame
<1>1. ASSUME NEW c \in Calls, NEW k \in Keys, NEW r \in Requests, Call(c, k, r) PROVE AnswersOnRecord' /\ AnswersTheRequest'
  BY <1>1 DEF Call, CallsHaveKeys, CallsInOrder, OperationOfRequest, OneAtWork, Working, AnswersOnRecord, AnswersTheRequest, Decided, Statuses
<1>2. ASSUME NEW c \in Calls, Legacy(c) PROVE AnswersOnRecord' /\ AnswersTheRequest'
  BY <1>2 DEF Legacy, Reply, CallsHaveKeys, CallsInOrder, OperationOfRequest, OneAtWork, Working, AnswersOnRecord, AnswersTheRequest, Decided, Statuses
<1>3. ASSUME NEW c \in Calls, Insert(c) PROVE AnswersOnRecord' /\ AnswersTheRequest'
  BY <1>3 DEF Insert, CallsHaveKeys, CallsInOrder, OperationOfRequest, OneAtWork, Working, AnswersOnRecord, AnswersTheRequest, Decided, Statuses
<1>4. ASSUME NEW c \in Calls, Select(c) PROVE AnswersOnRecord' /\ AnswersTheRequest'
  BY <1>4 DEF Select, Reply, CallsHaveKeys, CallsInOrder, OperationOfRequest, OneAtWork, Working, AnswersOnRecord, AnswersTheRequest, Decided, Statuses
<1>5. ASSUME NEW c \in Calls, Read(c) PROVE AnswersOnRecord' /\ AnswersTheRequest'
  BY <1>5 DEF Read, Reply, CallsHaveKeys, CallsInOrder, OperationOfRequest, OneAtWork, Working, AnswersOnRecord, AnswersTheRequest, Decided, Statuses
<1>6. ASSUME NEW c \in Calls, Expire(c) PROVE AnswersOnRecord' /\ AnswersTheRequest'
  BY <1>6 DEF Expire, CallsHaveKeys, CallsInOrder, OperationOfRequest, OneAtWork, Working, AnswersOnRecord, AnswersTheRequest, Decided, Statuses
<1>7. ASSUME NEW c \in Calls, Reread(c) PROVE AnswersOnRecord' /\ AnswersTheRequest'
  BY <1>7 DEF Reread, Reply, CallsHaveKeys, CallsInOrder, OperationOfRequest, OneAtWork, Working, AnswersOnRecord, AnswersTheRequest, Decided, Statuses
<1>8. ASSUME NEW c \in Calls, Deliver(c) PROVE AnswersOnRecord' /\ AnswersTheRequest'
  BY <1>8 DEF Deliver, CallsHaveKeys, CallsInOrder, OperationOfRequest, OneAtWork, Working, AnswersOnRecord, AnswersTheRequest, Decided, Statuses
<1>9. ASSUME NEW c \in Calls, Finish(c) PROVE AnswersOnRecord' /\ AnswersTheRequest'
  BY <1>9 DEF Finish, CallsHaveKeys, CallsInOrder, OperationOfRequest, OneAtWork, Working, AnswersOnRecord, AnswersTheRequest, Decided, Statuses
<1>10. ASSUME NEW c \in Calls, Crash(c) PROVE AnswersOnRecord' /\ AnswersTheRequest'
  BY <1>10 DEF Crash, Fault, CallsHaveKeys, CallsInOrder, OperationOfRequest, OneAtWork, Working, AnswersOnRecord, AnswersTheRequest, Decided, Statuses
<1>11. ASSUME NEW k \in Keys, Poll(k) PROVE AnswersOnRecord' /\ AnswersTheRequest'
  BY <1>11 DEF Poll, CallsHaveKeys, CallsInOrder, OperationOfRequest, OneAtWork, Working, AnswersOnRecord, AnswersTheRequest, Decided, Statuses
<1>12. ASSUME NEW k \in Keys, GoStale(k) PROVE AnswersOnRecord' /\ AnswersTheRequest'
  BY <1>12 DEF GoStale, CallsHaveKeys, CallsInOrder, OperationOfRequest, OneAtWork, Working, AnswersOnRecord, AnswersTheRequest, Decided, Statuses
<1>13. ASSUME NEW k \in Keys, Stall(k) PROVE AnswersOnRecord' /\ AnswersTheRequest'
  BY <1>13 DEF Stall, Fault, CallsHaveKeys, CallsInOrder, OperationOfRequest, OneAtWork, Working, AnswersOnRecord, AnswersTheRequest, Decided, Statuses
<1>14. ASSUME NEW k \in Keys, Heartbeat(k) PROVE AnswersOnRecord' /\ AnswersTheRequest'
  BY <1>14 DEF Heartbeat, CallsHaveKeys, CallsInOrder, OperationOfRequest, OneAtWork, Working, AnswersOnRecord, AnswersTheRequest, Decided, Statuses
<1>15. ASSUME NEW k \in Keys, LegacyExpires(k) PROVE AnswersOnRecord' /\ AnswersTheRequest'
  BY <1>15 DEF LegacyExpires, CallsHaveKeys, CallsInOrder, OperationOfRequest, OneAtWork, Working, AnswersOnRecord, AnswersTheRequest, Decided, Statuses
<1>16. CASE UNCHANGED vars
  BY <1>16 DEF vars, CallsHaveKeys, CallsInOrder, OperationOfRequest, OneAtWork, Working, AnswersOnRecord, AnswersTheRequest, Decided, Statuses
<1> QED
  BY <1>1, <1>2, <1>3, <1>4, <1>5, <1>6, <1>7, <1>8, <1>9, <1>10, <1>11, <1>12, <1>13, <1>14, <1>15, <1>16
     DEF Next, CallStep

\* Effects.
LEMMA EffectStep ==
    ASSUME TypeOK, CallsHaveKeys, CallsInOrder, OperationOfRequest, OneAtWork, OneEffectPerKey, [Next]_vars
    PROVE  OneEffectPerKey'
<1> USE KeyedConstants DEF TypeOK, Goto, table, frame
<1>1. ASSUME NEW c \in Calls, NEW k \in Keys, NEW r \in Requests, Call(c, k, r) PROVE OneEffectPerKey'
  BY <1>1 DEF Call, CallsHaveKeys, CallsInOrder, OperationOfRequest, OneAtWork, Working, OneEffectPerKey, EffectsUnder
<1>2. ASSUME NEW c \in Calls, Legacy(c) PROVE OneEffectPerKey'
  BY <1>2 DEF Legacy, Reply, CallsHaveKeys, CallsInOrder, OperationOfRequest, OneAtWork, Working, OneEffectPerKey, EffectsUnder
<1>3. ASSUME NEW c \in Calls, Insert(c) PROVE OneEffectPerKey'
  BY <1>3 DEF Insert, CallsHaveKeys, CallsInOrder, OperationOfRequest, OneAtWork, Working, OneEffectPerKey, EffectsUnder
<1>4. ASSUME NEW c \in Calls, Select(c) PROVE OneEffectPerKey'
  BY <1>4 DEF Select, Reply, CallsHaveKeys, CallsInOrder, OperationOfRequest, OneAtWork, Working, OneEffectPerKey, EffectsUnder
<1>5. ASSUME NEW c \in Calls, Read(c) PROVE OneEffectPerKey'
  BY <1>5 DEF Read, Reply, CallsHaveKeys, CallsInOrder, OperationOfRequest, OneAtWork, Working, OneEffectPerKey, EffectsUnder
<1>6. ASSUME NEW c \in Calls, Expire(c) PROVE OneEffectPerKey'
  BY <1>6 DEF Expire, CallsHaveKeys, CallsInOrder, OperationOfRequest, OneAtWork, Working, OneEffectPerKey, EffectsUnder
<1>7. ASSUME NEW c \in Calls, Reread(c) PROVE OneEffectPerKey'
  BY <1>7 DEF Reread, Reply, CallsHaveKeys, CallsInOrder, OperationOfRequest, OneAtWork, Working, OneEffectPerKey, EffectsUnder
<1>8. ASSUME NEW c \in Calls, Deliver(c) PROVE OneEffectPerKey'
  <2>1. hash[key[c]] = request[c] /\ key[c] \in Keys
    BY <1>8 DEF Deliver, OperationOfRequest, CallsHaveKeys
  <2>2. \A d \in Calls : effect[d] /\ key[d] = key[c] => d = c
    BY <1>8 DEF Deliver, OneAtWork, Working
  <2>3. UNCHANGED <<hash, key, request>> /\ \A d \in Calls : effect'[d] => effect[d] \/ d = c
    BY <1>8 DEF Deliver
  <2> QED BY <2>1, <2>2, <2>3 DEF OneEffectPerKey, EffectsUnder
<1>9. ASSUME NEW c \in Calls, Finish(c) PROVE OneEffectPerKey'
  BY <1>9 DEF Finish, CallsHaveKeys, CallsInOrder, OperationOfRequest, OneAtWork, Working, OneEffectPerKey, EffectsUnder
<1>10. ASSUME NEW c \in Calls, Crash(c) PROVE OneEffectPerKey'
  BY <1>10 DEF Crash, Fault, CallsHaveKeys, CallsInOrder, OperationOfRequest, OneAtWork, Working, OneEffectPerKey, EffectsUnder
<1>11. ASSUME NEW k \in Keys, Poll(k) PROVE OneEffectPerKey'
  BY <1>11 DEF Poll, CallsHaveKeys, CallsInOrder, OperationOfRequest, OneAtWork, Working, OneEffectPerKey, EffectsUnder
<1>12. ASSUME NEW k \in Keys, GoStale(k) PROVE OneEffectPerKey'
  BY <1>12 DEF GoStale, CallsHaveKeys, CallsInOrder, OperationOfRequest, OneAtWork, Working, OneEffectPerKey, EffectsUnder
<1>13. ASSUME NEW k \in Keys, Stall(k) PROVE OneEffectPerKey'
  BY <1>13 DEF Stall, Fault, CallsHaveKeys, CallsInOrder, OperationOfRequest, OneAtWork, Working, OneEffectPerKey, EffectsUnder
<1>14. ASSUME NEW k \in Keys, Heartbeat(k) PROVE OneEffectPerKey'
  BY <1>14 DEF Heartbeat, CallsHaveKeys, CallsInOrder, OperationOfRequest, OneAtWork, Working, OneEffectPerKey, EffectsUnder
<1>15. ASSUME NEW k \in Keys, LegacyExpires(k) PROVE OneEffectPerKey'
  BY <1>15 DEF LegacyExpires, CallsHaveKeys, CallsInOrder, OperationOfRequest, OneAtWork, Working, OneEffectPerKey, EffectsUnder
<1>16. CASE UNCHANGED vars
  BY <1>16 DEF vars, CallsHaveKeys, CallsInOrder, OperationOfRequest, OneAtWork, Working, OneEffectPerKey, EffectsUnder
<1> QED
  BY <1>1, <1>2, <1>3, <1>4, <1>5, <1>6, <1>7, <1>8, <1>9, <1>10, <1>11, <1>12, <1>13, <1>14, <1>15, <1>16
     DEF Next, CallStep

\* The invariant holds in every reachable state.
THEOREM KeyedInvariance == Spec => []KeyedInv
<1>1. KeyedInv /\ [Next]_vars => KeyedInv'
  BY TypeStep, KeysStep, RequestStep, AtWorkStep, TruthStep, AnswerStep, EffectStep DEF KeyedInv
<1> QED BY InitKeyed, <1>1, PTL DEF Spec

\* At most one call under a key has its effect, and it is the request on record.
THEOREM OneEffect == Spec => []OneEffectPerKey
  BY KeyedInvariance, PTL DEF KeyedInv

\* No call is answered with the outcome of another request.
THEOREM OwnAnswers == Spec => []AnswersTheRequest
  BY KeyedInvariance, PTL DEF KeyedInv

\* A decided answer holds for good.
THEOREM AnswersAreFinal == Spec => []AnswersHold
<1>1. KeyedInv => AnswersHold
  <2> SUFFICES ASSUME KeyedInv, NEW c \in Calls
               PROVE  /\ answer[c] = "failed" =>
                            /\ EffectsUnder(key[c]) = {}
                            /\ ~\E d \in Calls : key[d] = key[c] /\ pc[d] = "deliver"
                      /\ answer[c] \in {"succeeded", "queued"} => EffectsUnder(key[c]) # {}
    BY DEF AnswersHold
  <2>1. answer[c] # "none" => key[c] \in Keys
    BY DEF KeyedInv, CallsInOrder, CallsHaveKeys
  <2>2. answer[c] \in Decided => status[key[c]] = answer[c]
    BY DEF KeyedInv, AnswersOnRecord
  <2>3. \A d \in Calls : pc[d] = "deliver" => status[key[d]] \in {"sending", "uncertain"}
    BY DEF KeyedInv, OneAtWork, Working
  <2> QED BY <2>1, <2>2, <2>3 DEF KeyedInv, StatusIsTrue, Decided
<1> QED BY <1>1, KeyedInvariance, PTL

\* Under every key: one effect, of the request on record, and answers that hold.
THEOREM KeyedSafely == Spec => []KeyedSafety
BY OneEffect, OwnAnswers, AnswersAreFinal, PTL DEF KeyedSafety

\* A decided operation never changes.
LEMMA DecidedStep ==
    ASSUME KeyedInv, [Next]_vars
    PROVE  \A k \in Keys : status[k] \in Decided => status'[k] = status[k]
<1> SUFFICES ASSUME NEW h \in Keys, status[h] \in Decided PROVE status'[h] = status[h]
  OBVIOUS
<1> USE DEF Decided, table
<1>0. status \in [Keys -> Statuses]
  BY DEF KeyedInv, TypeOK
<1>1. ASSUME NEW c \in Calls, NEW k \in Keys, NEW r \in Requests, Call(c, k, r) PROVE status'[h] = status[h]
  BY <1>1 DEF Call
<1>2. ASSUME NEW c \in Calls, Legacy(c) PROVE status'[h] = status[h]
  BY <1>2 DEF Legacy, Reply
<1>3. ASSUME NEW c \in Calls, Insert(c) PROVE status'[h] = status[h]
  BY <1>0, <1>3 DEF Insert
<1>4. ASSUME NEW c \in Calls, Select(c) PROVE status'[h] = status[h]
  BY <1>4 DEF Select, Reply
<1>5. ASSUME NEW c \in Calls, Read(c) PROVE status'[h] = status[h]
  BY <1>5 DEF Read, Reply
<1>6. ASSUME NEW c \in Calls, Expire(c) PROVE status'[h] = status[h]
  BY <1>0, <1>6 DEF Expire
<1>7. ASSUME NEW c \in Calls, Reread(c) PROVE status'[h] = status[h]
  BY <1>7 DEF Reread, Reply
<1>8. ASSUME NEW c \in Calls, Deliver(c) PROVE status'[h] = status[h]
  BY <1>8 DEF Deliver
<1>9. ASSUME NEW c \in Calls, Finish(c) PROVE status'[h] = status[h]
  <2>1. status[key[c]] \notin Decided
    BY <1>9 DEF Finish, Goto, KeyedInv, OneAtWork, Working
  <2> QED BY <1>0, <1>9, <2>1 DEF Finish
<1>10. ASSUME NEW c \in Calls, Crash(c) PROVE status'[h] = status[h]
  BY <1>10 DEF Crash, Fault
<1>11. ASSUME NEW k \in Keys, Poll(k) PROVE status'[h] = status[h]
  BY <1>0, <1>11 DEF Poll
<1>12. ASSUME NEW k \in Keys, GoStale(k) PROVE status'[h] = status[h]
  BY <1>12 DEF GoStale
<1>13. ASSUME NEW k \in Keys, Stall(k) PROVE status'[h] = status[h]
  BY <1>13 DEF Stall, Fault
<1>14. ASSUME NEW k \in Keys, Heartbeat(k) PROVE status'[h] = status[h]
  BY <1>14 DEF Heartbeat
<1>15. ASSUME NEW k \in Keys, LegacyExpires(k) PROVE status'[h] = status[h]
  BY <1>15 DEF LegacyExpires
<1>16. CASE UNCHANGED vars
  BY <1>16 DEF vars
<1> QED
  BY <1>1, <1>2, <1>3, <1>4, <1>5, <1>6, <1>7, <1>8, <1>9, <1>10, <1>11, <1>12, <1>13, <1>14, <1>15, <1>16
     DEF Next, CallStep

THEOREM DecisionsStand == Spec => DecidedForGood
<1>1. KeyedInv /\ [Next]_vars =>
        [\A k \in Keys : status[k] \in Decided => status'[k] = status[k]]_vars
  BY DecidedStep
<1> QED BY <1>1, KeyedInvariance, PTL DEF Spec, DecidedForGood

----------------------------------------------------------------------------
\* The refinement: the calls of a key implement DeliveryPromise.

\* Having had an effect, as a Boolean function of keys.
LEMMA EffectsNext ==
    ASSUME KeyedInv, NEW d \in Calls, key[d] \in Keys, UNCHANGED key,
           effect' = [effect EXCEPT ![d] = TRUE]
    PROVE  [k \in Keys |-> EffectsUnder(k) # {}]'
             = [[k \in Keys |-> EffectsUnder(k) # {}] EXCEPT ![key[d]] = TRUE]
<1>1. effect \in [Calls -> BOOLEAN]
  BY DEF KeyedInv, TypeOK
<1>2. EffectsUnder(key[d])' # {}
  BY <1>1 DEF EffectsUnder
<1>3. ASSUME NEW k \in Keys, k # key[d] PROVE EffectsUnder(k)' = EffectsUnder(k)
  BY <1>1, <1>3 DEF EffectsUnder
<1>4. \A k \in Keys : (EffectsUnder(k)' # {}) = (IF k = key[d] THEN TRUE ELSE EffectsUnder(k) # {})
  BY <1>2, <1>3
<1> QED BY <1>4

\* A step without an effect.
LEMMA SameEffects ==
    ASSUME \A k \in Keys : EffectsUnder(k)' = EffectsUnder(k)
    PROVE  [k \in Keys |-> EffectsUnder(k) # {}]' = [k \in Keys |-> EffectsUnder(k) # {}]
  OBVIOUS

LEMMA NothingNew ==
    ASSUME \A k \in Keys : EffectsUnder(k)' = EffectsUnder(k),
           \A k \in Keys : Told(k)' = Told(k)
    PROVE  UNCHANGED Promise!vars
<1>1. [k \in Keys |-> Told(k)]' = [k \in Keys |-> Told(k)]
  OBVIOUS
<1> QED BY <1>1, SameEffects DEF Promise!vars

\* A step that writes the status of one operation, and tells only what is true.
LEMMA OneStatus ==
    ASSUME KeyedInv, NEW h \in Keys, UNCHANGED <<key, effect>>,
           \A k \in Keys : k # h => status'[k] = status[k],
           \/ status'[h] \in {status[h], "sending", "absent"} /\ Told(h) = "open"
           \/ status'[h] = status[h]
           \/ status'[h] \in {"succeeded", "queued"} /\ EffectsUnder(h) # {}
           \/ status'[h] = "failed" /\ EffectsUnder(h) = {}
           \/ status'[h] = "uncertain"
    PROVE  [Promise!Next]_(Promise!vars)
<1>1. \A k \in Keys : EffectsUnder(k)' = EffectsUnder(k)
  BY DEF EffectsUnder
<1>2. \A k \in Keys : k # h => Told(k)' = Told(k)
  BY DEF Told
<1>3. CASE Told(h)' = Told(h)
  BY <1>1, <1>2, <1>3, NothingNew
<1>4. CASE Told(h)' # Told(h)
  <2> DEFINE a == Told(h)'
             del == [k \in Keys |-> EffectsUnder(k) # {}]
  <2>1. /\ a \in Promise!Answer
        /\ a = "delivered" => EffectsUnder(h) # {}
        /\ a = "refused" => EffectsUnder(h) = {}
    BY <1>4 DEF Told, Promise!Answer
  <2>2. [k \in Keys |-> Told(k)]' = [[k \in Keys |-> Told(k)] EXCEPT ![h] = a]
    BY <1>2
  <2>3. del' = del
    BY <1>1, SameEffects
  <2>4. del[h] = (EffectsUnder(h) # {})
    OBVIOUS
  <2>5. (a = "delivered" => del[h]) /\ (a = "refused" => ~del[h])
    BY <2>1, <2>4
  <2> HIDE DEF a
  <2>6. Promise!Tell(h, a)
    BY <2>2, <2>3, <2>5 DEF Promise!Tell
  <2> QED BY <2>1, <2>6 DEF Promise!Next
<1> QED BY <1>3, <1>4

\* A call has its effect.
LEMMA OneEffectStep ==
    ASSUME KeyedInv, NEW d \in Calls, key[d] \in Keys, UNCHANGED <<key, status>>,
           pc[d] = "deliver", effect' = [effect EXCEPT ![d] = TRUE]
    PROVE  Promise!Next
<1> DEFINE del == [k \in Keys |-> EffectsUnder(k) # {}]
<1>1. EffectsUnder(key[d]) = {}
  BY DEF KeyedInv, OneAtWork, Working, EffectsUnder, CallsInOrder
<1>2. Told(key[d]) \in {"open", "unknown"}
  BY DEF KeyedInv, OneAtWork, Working, Told
<1>3. [k \in Keys |-> Told(k)]' = [k \in Keys |-> Told(k)]
  BY DEF Told
<1>4. del' = [del EXCEPT ![key[d]] = TRUE]
  BY EffectsNext
<1>5. del[key[d]] = FALSE
  BY <1>1
<1>6. Promise!Deliver(key[d])
  BY <1>2, <1>3, <1>4, <1>5 DEF Promise!Deliver
<1> QED BY <1>6 DEF Promise!Next

LEMMA PromiseStep ==
    ASSUME KeyedInv, [Next]_vars
    PROVE  [Promise!Next]_(Promise!vars)
<1> USE DEF table, frame
<1>0. /\ status \in [Keys -> Statuses] /\ effect \in [Calls -> BOOLEAN]
      /\ key \in [Calls -> Keys \cup {None}] /\ verdict \in [Calls -> Decided \cup {"uncertain", "none"}]
      /\ \A c \in Calls : pc[c] # "ready" => key[c] \in Keys
  BY DEF KeyedInv, TypeOK, CallsHaveKeys
<1>q. ASSUME UNCHANGED <<status, key, effect>> PROVE UNCHANGED Promise!vars
  <2>1. \A k \in Keys : EffectsUnder(k)' = EffectsUnder(k)
    BY <1>q DEF EffectsUnder
  <2>2. \A k \in Keys : Told(k)' = Told(k)
    BY <1>q DEF Told
  <2> QED BY <2>1, <2>2, NothingNew
<1>1. ASSUME NEW c \in Calls, NEW k \in Keys, NEW r \in Requests, Call(c, k, r) PROVE [Promise!Next]_(Promise!vars)
  <2>1. ~effect[c] /\ UNCHANGED <<status, effect>>
    BY <1>1 DEF Call, Goto, KeyedInv, CallsInOrder
  <2>2. \A d \in Calls : d # c => key'[d] = key[d]
    BY <1>0, <1>1 DEF Call
  <2>3. \A h \in Keys : EffectsUnder(h)' = EffectsUnder(h)
    BY <2>1, <2>2 DEF EffectsUnder
  <2>4. \A h \in Keys : Told(h)' = Told(h)
    BY <2>1 DEF Told
  <2> QED BY <2>3, <2>4, NothingNew
<1>2. ASSUME NEW c \in Calls, Legacy(c) PROVE [Promise!Next]_(Promise!vars)
  BY <1>q, <1>2 DEF Legacy, Reply
<1>3. ASSUME NEW c \in Calls, Insert(c) PROVE [Promise!Next]_(Promise!vars)
  <2>1. key[c] \in Keys /\ UNCHANGED <<key, effect>>
    BY <1>0, <1>3 DEF Insert, Goto
  <2>2. \A h \in Keys : h # key[c] => status'[h] = status[h]
    BY <1>0, <1>3, <2>1 DEF Insert
  <2>3. \/ status'[key[c]] = "sending" /\ Told(key[c]) = "open"
        \/ status'[key[c]] = status[key[c]]
    BY <1>0, <1>3, <2>1 DEF Insert, Told
  <2> QED BY <2>1, <2>2, <2>3, OneStatus
<1>4. ASSUME NEW c \in Calls, Select(c) PROVE [Promise!Next]_(Promise!vars)
  BY <1>q, <1>4 DEF Select, Reply
<1>5. ASSUME NEW c \in Calls, Read(c) PROVE [Promise!Next]_(Promise!vars)
  BY <1>q, <1>5 DEF Read, Reply
<1>6. ASSUME NEW c \in Calls, Expire(c) PROVE [Promise!Next]_(Promise!vars)
  <2>1. key[c] \in Keys /\ UNCHANGED <<key, effect>>
    BY <1>0, <1>6 DEF Expire, Goto
  <2>2. \A h \in Keys : h # key[c] => status'[h] = status[h]
    BY <1>0, <1>6, <2>1 DEF Expire
  <2>3. status'[key[c]] \in {"uncertain", status[key[c]]}
    BY <1>0, <1>6, <2>1 DEF Expire
  <2> QED BY <2>1, <2>2, <2>3, OneStatus
<1>7. ASSUME NEW c \in Calls, Reread(c) PROVE [Promise!Next]_(Promise!vars)
  BY <1>q, <1>7 DEF Reread, Reply
<1>8. ASSUME NEW c \in Calls, Deliver(c) PROVE [Promise!Next]_(Promise!vars)
  <2>1. pc[c] = "deliver" /\ key[c] \in Keys /\ UNCHANGED <<key, status>>
    BY <1>0, <1>8 DEF Deliver, Goto
  <2>2. CASE effect' = [effect EXCEPT ![c] = TRUE]
    BY <2>1, <2>2, OneEffectStep
  <2>3. CASE UNCHANGED effect
    BY <1>q, <2>1, <2>3
  <2> QED BY <1>8, <2>2, <2>3 DEF Deliver
<1>9. ASSUME NEW c \in Calls, Finish(c) PROVE [Promise!Next]_(Promise!vars)
  <2>1. key[c] \in Keys /\ UNCHANGED <<key, effect>>
    BY <1>0, <1>9 DEF Finish, Goto
  <2>2. \A h \in Keys : h # key[c] => status'[h] = status[h]
    BY <1>0, <1>9, <2>1 DEF Finish
  <2>3. pc[c] = "finish" /\ status'[key[c]] = verdict[c]
    BY <1>0, <1>9, <2>1 DEF Finish, Goto
  <2>4. /\ verdict[c] \in Decided \cup {"uncertain"}
        /\ verdict[c] \in {"succeeded", "queued"} => effect[c]
        /\ verdict[c] = "failed" => ~effect[c]
    BY <1>0, <2>3 DEF KeyedInv, OneAtWork
  <2>5. \A d \in Calls : effect[d] /\ key[d] = key[c] => d = c
    BY <2>3 DEF KeyedInv, OneAtWork, Working
  <2>6. effect[c] => EffectsUnder(key[c]) # {}
    BY DEF EffectsUnder
  <2>7. ~effect[c] => EffectsUnder(key[c]) = {}
    BY <2>5 DEF EffectsUnder
  <2> QED BY <2>1, <2>2, <2>3, <2>4, <2>6, <2>7, OneStatus DEF Decided
<1>10. ASSUME NEW c \in Calls, Crash(c) PROVE [Promise!Next]_(Promise!vars)
  BY <1>q, <1>10 DEF Crash, Fault
<1>11. ASSUME NEW k \in Keys, Poll(k) PROVE [Promise!Next]_(Promise!vars)
  <2>1. /\ UNCHANGED <<key, effect>> /\ status'[k] = "uncertain"
        /\ \A h \in Keys : h # k => status'[h] = status[h]
    BY <1>0, <1>11 DEF Poll
  <2> QED BY <2>1, OneStatus
<1>12. ASSUME NEW k \in Keys, GoStale(k) PROVE [Promise!Next]_(Promise!vars)
  BY <1>q, <1>12 DEF GoStale
<1>13. ASSUME NEW k \in Keys, Stall(k) PROVE [Promise!Next]_(Promise!vars)
  BY <1>q, <1>13 DEF Stall, Fault
<1>14. ASSUME NEW k \in Keys, Heartbeat(k) PROVE [Promise!Next]_(Promise!vars)
  BY <1>q, <1>14 DEF Heartbeat
<1>15. ASSUME NEW k \in Keys, LegacyExpires(k) PROVE [Promise!Next]_(Promise!vars)
  BY <1>q, <1>15 DEF LegacyExpires
<1>16. CASE UNCHANGED vars
  BY <1>q, <1>16 DEF vars
<1> QED
  BY <1>1, <1>2, <1>3, <1>4, <1>5, <1>6, <1>7, <1>8, <1>9, <1>10, <1>11, <1>12, <1>13, <1>14, <1>15, <1>16
     DEF Next, CallStep

\* The calls of a key, whatever their number, implement the delivery promise.
THEOREM KeysKeepPromise == Spec => KeepsPromise
<1>1. Init => Promise!Init
  <2> SUFFICES ASSUME Init PROVE Promise!Init
    OBVIOUS
  <2>1. \A k \in Keys : (EffectsUnder(k) # {}) = FALSE
    BY DEF Init, EffectsUnder
  <2>2. \A k \in Keys : Told(k) = "open"
    BY DEF Init, Told
  <2>3. [k \in Keys |-> EffectsUnder(k) # {}] = [k \in Keys |-> FALSE]
    BY <2>1
  <2>4. [k \in Keys |-> Told(k)] = [k \in Keys |-> "open"]
    BY <2>2
  <2> QED BY <2>3, <2>4 DEF Promise!Init
<1>2. KeyedInv /\ [Next]_vars => [Promise!Next]_(Promise!vars)
  BY PromiseStep
<1> QED BY <1>1, <1>2, KeyedInvariance, PTL DEF Spec, KeepsPromise, Promise!Spec
=============================================================================
