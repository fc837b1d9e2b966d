------------------------ MODULE HistoryQueriesProofs ------------------------
(***************************************************************************)
(* The types of HistoryQueries, SavedIsStored and DoneIsComplete, for any  *)
(* number of greenlets and queries, any histories and any time.            *)
(*                                                                         *)
(* TypeOK needs to know that the lock is held (LockHeld) and that the      *)
(* locals a step reads are set (StepInv): MarkBatch reads remote[at[t]],   *)
(* which is a timestamp only because an entry has been stored.             *)
(*                                                                         *)
(* The argument for the other two: as long as nothing in causes happened,  *)
(* at most one query has read the row and may still write it (OneQuery).   *)
(* The period spanned by the row and the time it wants (Hull) does not     *)
(* change while it runs, and every entry in it is stored or in a part of   *)
(* todo that is still to come (HullCovered).  Those parts lie outside the  *)
(* row, except the rest of a period whose first batches have been entered  *)
(* in the row; that rest is above the row or the query is interrupted      *)
(* below it (RestAboveRow).                                                *)
(***************************************************************************)
EXTENDS HistoryQueries, TLAPS

\* a task that has the lock, or has read the row without it
LockHeld ==
    /\ \A t \in Tasks : pc[t] \notin {"idle", "lock"} /\ t \notin unlocked => lock = t
    /\ remover # "idle" => lock = Remover

\* what each step of a task finds
StepInv(t) ==
    /\ pc[t] # "idle" => want[t] \in Ranges /\ want[t].lo <= want[t].hi
    /\ pc[t] = "save" => todo[t] # <<>> /\ kind \in ExchangeKinds
    /\ pc[t] = "mark" => todo[t] # <<>> /\ kind \in EvmKinds /\ at[t] # 0

Basics == TypeOK /\ LockHeld /\ \A t \in Tasks : StepInv(t)

-----------------------------------------------------------------------------
\* The elements of a sequence over S are in S.
LEMMA ElementFacts ==
    ASSUME NEW S, NEW s \in Seq(S), NEW i \in 1..Len(s)
    PROVE  s[i] \in S
  OBVIOUS

\* Pushing keeps the elements below and adds one on top.
LEMMA PushFacts ==
    ASSUME NEW S, NEW s \in Seq(S), NEW e \in S
    PROVE  /\ Append(s, e) \in Seq(S)
           /\ Len(Append(s, e)) = Len(s) + 1
           /\ Append(s, e)[Len(s) + 1] = e
           /\ \A i \in 1..Len(s) : Append(s, e)[i] = s[i]
  OBVIOUS

\* what Head and Tail are for a sequence that is not empty
LEMMA HeadTail ==
    ASSUME NEW S, NEW s \in Seq(S), s # <<>>
    PROVE  /\ Head(s) = s[1] /\ Head(s) \in S
           /\ Tail(s) \in Seq(S) /\ Len(s) \in Nat \ {0} /\ Len(Tail(s)) = Len(s) - 1
           /\ 1 \in 1 .. Len(s)
           /\ \A i \in 1 .. Len(s) - 1 : Tail(s)[i] = s[i + 1]
OBVIOUS

\* get_location_query_ranges asks for the whole time, or for the part below the
\* row, the part above it, both or neither
LEMMA RangesFacts ==
    ASSUME NEW row \in Ranges \cup {NoRange}, NEW w \in Ranges, MaxTs \in Nat,
           NEW s, s = get_location_query_ranges(row, w.lo, w.hi)
    PROVE  /\ s \in Seq(Ranges)
           /\ row = NoRange => Len(s) = 1 /\ s[1] = w
           /\ row # NoRange /\ w.lo < row.lo /\ w.hi > row.hi =>
                Len(s) = 2 /\ s[1] = Period(w.lo, row.lo - 1) /\ s[2] = Period(row.hi + 1, w.hi)
           /\ row # NoRange /\ w.lo < row.lo /\ ~(w.hi > row.hi) =>
                Len(s) = 1 /\ s[1] = Period(w.lo, row.lo - 1)
           /\ row # NoRange /\ ~(w.lo < row.lo) /\ w.hi > row.hi =>
                Len(s) = 1 /\ s[1] = Period(row.hi + 1, w.hi)
           /\ row # NoRange /\ ~(w.lo < row.lo) /\ ~(w.hi > row.hi) => s = <<>>
<1>. DEFINE b == Period(w.lo, row.lo - 1)
            a == Period(row.hi + 1, w.hi)
            below == IF w.lo < row.lo THEN <<b>> ELSE <<>>
<1>1. w = Period(w.lo, w.hi) /\ <<w>> \in Seq(Ranges)
  BY DEF Ranges, Period
<1>2. row # NoRange /\ w.lo < row.lo => b \in Ranges
  BY DEF Ranges, Period, Time
<1>3. row # NoRange /\ w.hi > row.hi => a \in Ranges
  BY DEF Ranges, Period, Time
<1>. HIDE DEF a, b
<1>4. row # NoRange => /\ below \in Seq(Ranges)
                       /\ Len(below) = IF w.lo < row.lo THEN 1 ELSE 0
                       /\ w.lo < row.lo => below[1] = b
  BY <1>2
<1>. HIDE DEF below
<1>5. CASE row = NoRange
  BY Zenon, <1>1, <1>5 DEF get_location_query_ranges
<1>6. CASE row # NoRange /\ w.hi > row.hi
  <2>1. s = Append(below, a)
    BY Zenon, <1>6 DEF get_location_query_ranges, below, a, b
  <2>2. /\ s \in Seq(Ranges) /\ Len(s) = Len(below) + 1 /\ s[Len(below) + 1] = a
        /\ \A i \in 1 .. Len(below) : s[i] = below[i]
    BY <1>3, <1>4, <1>6, <2>1, PushFacts
  <2>. QED  BY <1>4, <1>6, <2>2 DEF a, b
<1>7. CASE row # NoRange /\ ~(w.hi > row.hi)
  <2>1. s = below
    BY Zenon, <1>7 DEF get_location_query_ranges, below, b
  <2>. QED  BY Zenon, <1>4, <1>7, <2>1 DEF b, below
<1>. QED
  BY Zenon, <1>5, <1>6, <1>7

\* and update_used_query_range keeps the row in the model's time
LEMMA UpdateType ==
    ASSUME NEW row \in Ranges \cup {NoRange}, NEW r \in Ranges \cup {NoRange}, MaxTs \in Nat
    PROVE  update_used_query_range(row, r) \in Ranges \cup {NoRange}
BY DEF update_used_query_range, Ranges, NoRange, Period, Time

\* the initial state
LEMMA InitBasics == Init => Basics
BY QueryAssumption DEF Init, Basics, TypeOK, LockHeld, StepInv, NoRange, Ranges

\* The end of a query, however it ends, leaves the lock to whoever holds it.
LEMMA LeaveBasics ==
    ASSUME Basics, NEW t \in Tasks, Leave(t), UNCHANGED <<kind, remote, remover>>,
           saved' \in Ranges \cup {NoRange}, stored' \subseteq DOMAIN remote,
           begun' = begun, causes' \subseteq Causes
    PROVE  Basics'
<1>1. TypeOK'
  BY QueryAssumption DEF Basics, TypeOK, Leave, Causes
<1>2. LockHeld'
  BY Zenon, QueryAssumption DEF Basics, TypeOK, LockHeld, Leave
<1>3. ASSUME NEW u \in Tasks PROVE StepInv(u)'
  BY Zenon DEF Basics, TypeOK, StepInv, Leave
<1>. QED
  BY Zenon, <1>1, <1>2, <1>3 DEF Basics

\* Every step keeps the types, and leaves a query what its next step needs.
LEMMA BasicsStep == Basics /\ [Next]_vars => Basics'
<1>. SUFFICES ASSUME Basics, [Next]_vars PROVE Basics'
  BY Zenon
<1>. USE DEF Basics
<1>q. MaxTs \in Nat
  BY Zenon, QueryAssumption
<1>h. ASSUME NEW t \in Tasks, todo[t] # <<>>
      PROVE  Head(todo[t]) \in Ranges /\ Tail(todo[t]) \in Seq(Ranges)
  BY Zenon, <1>h, HeadTail DEF TypeOK
<1>r. remote \in Seq(Time)
  BY QueryAssumption DEF TypeOK
<1>1. ASSUME NEW t \in Tasks, BeginLocked(t) PROVE Basics'
  <2>1. PICK start \in Time, end \in Time : start <= end /\ Begin(t, start, end)
    BY Zenon, <1>1 DEF BeginLocked
  <2>2. Period(start, end) \in Ranges /\ begun' \in 0 .. MaxQueries
    BY <2>1, QueryAssumption DEF Begin, TypeOK, Period, Ranges
  <2>a. TypeOK'
    BY Zenon, <1>1, <2>1, <2>2 DEF BeginLocked, Begin, TypeOK
  <2>b. LockHeld'
    BY <1>1, QueryAssumption DEF BeginLocked, TypeOK, LockHeld, Begin
  <2>c. \A u \in Tasks : StepInv(u)'
    BY <1>1 DEF BeginLocked, TypeOK, StepInv, Begin, Period, Ranges, Time
  <2>. QED  BY Zenon, <2>a, <2>b, <2>c
<1>2. ASSUME NEW t \in Tasks, BeginUnlocked(t) PROVE Basics'
  <2>1. PICK start \in Time, end \in Time : start <= end /\ Begin(t, start, end)
    BY <1>2, <1>q DEF BeginUnlocked, Time
  <2>2. Period(start, end) \in Ranges /\ begun' \in 0 .. MaxQueries
    BY <2>1, QueryAssumption DEF Begin, TypeOK, Period, Ranges
  <2>3. pc' = [pc EXCEPT ![t] = "read"] /\ unlocked' = unlocked \cup {t}
    BY Zenon, <1>2 DEF BeginUnlocked
  <2>a. TypeOK'
    BY Zenon, <2>1, <2>2, <2>3 DEF Begin, TypeOK
  <2>b. LockHeld'
    BY Zenon, <2>1, <2>3 DEF Begin, TypeOK, LockHeld
  <2>c. \A u \in Tasks : StepInv(u)'
    BY Zenon, <2>1, <2>2, <2>3 DEF Begin, TypeOK, StepInv, Period
  <2>. QED  BY Zenon, <2>a, <2>b, <2>c
<1>3. ASSUME NEW t \in Tasks, Acquire(t) PROVE Basics'
  <2>a. TypeOK'
    BY Zenon, <1>3, QueryAssumption DEF Acquire, TypeOK
  <2>b. LockHeld'
    BY Zenon, <1>3, QueryAssumption DEF Acquire, TypeOK, LockHeld
  <2>c. \A u \in Tasks : StepInv(u)'
    BY Zenon, <1>3 DEF Acquire, TypeOK, StepInv
  <2>. QED  BY Zenon, <2>a, <2>b, <2>c
<1>4. ASSUME NEW t \in Tasks, ReadRanges(t) PROVE Basics'
  <2>1. get_location_query_ranges(saved, want[t].lo, want[t].hi) \in Seq(Ranges)
    BY Zenon, <1>4, <1>q, RangesFacts DEF ReadRanges, TypeOK, StepInv
  <2>a. TypeOK'
    BY Zenon, <1>4, QueryAssumption, <2>1 DEF ReadRanges, TypeOK, Causes
  <2>b. LockHeld'
    BY Zenon, <1>4, QueryAssumption DEF ReadRanges, TypeOK, LockHeld
  <2>c. \A u \in Tasks : StepInv(u)'
    BY Zenon, <1>4 DEF ReadRanges, TypeOK, StepInv
  <2>. QED  BY Zenon, <2>a, <2>b, <2>c
<1>5. ASSUME NEW t \in Tasks, Kill(t) PROVE Basics'
  BY Zenon, <1>5, LeaveBasics DEF Kill, TypeOK, Interrupted, Causes
<1>6. ASSUME NEW t \in Tasks, QueryOnline(t) PROVE Basics'
  <2>1. Head(todo[t]) \in Ranges /\ Within(Head(todo[t])) \subseteq DOMAIN remote
    BY Zenon, <1>6, <1>h DEF QueryOnline, Within
  <2>2. \A max_ts \in {0} \cup {remote[i] : i \in DOMAIN remote} :
           Period(Head(todo[t]).lo, max_ts) \in Ranges
    BY <1>q, <1>r, <2>1 DEF Ranges, Period, Time
  <2>3. \E f \in SUBSET DOMAIN remote, r \in Ranges :
           fetched' = [fetched EXCEPT ![t] = f] /\ answer' = [answer EXCEPT ![t] = r]
    <3>1. ASSUME NEW got \in SUBSET Within(Head(todo[t])), NEW r \in Ranges, Answer(t, got, r)
          PROVE  \E f \in SUBSET DOMAIN remote, p \in Ranges :
                    fetched' = [fetched EXCEPT ![t] = f] /\ answer' = [answer EXCEPT ![t] = p]
      BY Zenon, <2>1, <3>1 DEF Answer
    <3>2. \A got \in SUBSET Within(Head(todo[t])) :
             \A max_ts \in {0} \cup {remote[i] : i \in got} :
                Period(Head(todo[t]).lo, max_ts) \in Ranges
      BY Zenon, <2>1, <2>2
    <3>. QED  BY Zenon, <1>6, <2>1, <3>1, <3>2 DEF QueryOnline
  <2>4. causes' \subseteq Causes
    BY Zenon, <1>6 DEF QueryOnline, TypeOK, Causes
  <2>a. TypeOK'
    BY <1>6, <2>3, <2>4 DEF QueryOnline, TypeOK
  <2>b. LockHeld'
    BY Zenon, <1>6, QueryAssumption DEF QueryOnline, TypeOK, LockHeld
  <2>c. \A u \in Tasks : StepInv(u)'
    BY Zenon, <1>6 DEF QueryOnline, TypeOK, StepInv
  <2>. QED  BY Zenon, <2>a, <2>b, <2>c
<1>7. ASSUME NEW t \in Tasks, SaveAnswer(t) PROVE Basics'
  <2>1. update_used_query_range(saved, answer[t]) \in Ranges \cup {NoRange}
    BY Zenon, <1>q, UpdateType DEF TypeOK
  <2>2. Tail(todo[t]) \in Seq(Ranges)
    BY Zenon, <1>7, <1>h DEF SaveAnswer, StepInv
  <2>a. TypeOK'
    BY Zenon, <1>7, QueryAssumption, <2>1, <2>2 DEF SaveAnswer, TypeOK
  <2>b. LockHeld'
    BY Zenon, <1>7, QueryAssumption DEF SaveAnswer, TypeOK, LockHeld
  <2>c. \A u \in Tasks : StepInv(u)'
    BY Zenon, <1>7 DEF SaveAnswer, TypeOK, StepInv
  <2>. QED  BY Zenon, <2>a, <2>b, <2>c
<1>8. ASSUME NEW t \in Tasks, ExchangeFails(t) \/ ExchangeDone(t) PROVE Basics'
  BY Zenon, <1>8, LeaveBasics DEF ExchangeFails, ExchangeDone, TypeOK
<1>9. ASSUME NEW t \in Tasks, StoreBatch(t) PROVE Basics'
  <2>1. Rest(t) \subseteq DOMAIN remote
    BY Zenon DEF Rest, Within
  <2>a. TypeOK'
    BY <1>9, QueryAssumption, <2>1 DEF StoreBatch, TypeOK
  <2>b. LockHeld'
    BY Zenon, <1>9, QueryAssumption DEF StoreBatch, TypeOK, LockHeld
  <2>c. \A u \in Tasks : StepInv(u)'
    BY <1>9, <1>r, <2>1 DEF StoreBatch, TypeOK, StepInv
  <2>. QED  BY Zenon, <2>a, <2>b, <2>c
<1>10. ASSUME NEW t \in Tasks, MarkBatch(t) PROVE Basics'
  <2>1. Period(Head(todo[t]).lo, remote[at[t]]) \in Ranges
    BY <1>10, <1>h, <1>r DEF MarkBatch, StepInv, TypeOK, Ranges, Period
  <2>2. saved' \in Ranges \cup {NoRange}
    BY Zenon, <1>10, <1>q, <2>1, UpdateType DEF MarkBatch, TypeOK
  <2>a. TypeOK'
    BY Zenon, <1>10, QueryAssumption, <2>2 DEF MarkBatch, TypeOK
  <2>b. LockHeld'
    BY Zenon, <1>10, QueryAssumption DEF MarkBatch, TypeOK, LockHeld
  <2>c. \A u \in Tasks : StepInv(u)'
    BY Zenon, <1>10 DEF MarkBatch, TypeOK, StepInv
  <2>. QED  BY Zenon, <2>a, <2>b, <2>c
<1>11. ASSUME NEW t \in Tasks, RangeDone(t) PROVE Basics'
  <2>a. TypeOK'
    BY Zenon, <1>11, QueryAssumption, <1>h DEF RangeDone, TypeOK, NextRange
  <2>b. LockHeld'
    BY Zenon, <1>11, QueryAssumption DEF RangeDone, TypeOK, LockHeld
  <2>c. \A u \in Tasks : StepInv(u)'
    BY Zenon, <1>11 DEF RangeDone, TypeOK, StepInv, NextRange
  <2>. QED  BY Zenon, <2>a, <2>b, <2>c
<1>12. ASSUME NEW t \in Tasks, EvmFails(t) PROVE Basics'
  <2>1. CASE kind # "tokentxs"
    BY Zenon, <1>12, <2>1, LeaveBasics DEF EvmFails, TypeOK, Interrupted, Causes
  <2>2. CASE kind = "tokentxs"
    <3>1. causes' \subseteq Causes /\ Tail(todo[t]) \in Seq(Ranges)
      BY Zenon, <1>12, <2>2, <1>h DEF EvmFails, TypeOK, Causes
    <3>2. /\ todo' = [todo EXCEPT ![t] = Tail(todo[t])] /\ at' = [at EXCEPT ![t] = 0]
          /\ UNCHANGED <<kind, remote, saved, stored, remover, begun>>
          /\ UNCHANGED <<pc, lock, want, fetched, answer, unlocked>>
      BY Zenon, <1>12, <2>2 DEF EvmFails, NextRange
    <3>a. TypeOK'
      BY Zenon, <3>1, <3>2 DEF TypeOK
    <3>b. LockHeld'
      BY Zenon, <1>12, <2>2 DEF EvmFails, TypeOK, LockHeld
    <3>c. \A u \in Tasks : StepInv(u)'
      BY Zenon, <1>12, <2>2 DEF EvmFails, NextRange, TypeOK, StepInv
    <3>. QED  BY Zenon, <3>a, <3>b, <3>c
  <2>. QED  BY Zenon, <2>1, <2>2
<1>13. ASSUME NEW t \in Tasks, EvmDone(t) PROVE Basics'
  <2>1. saved' \in Ranges \cup {NoRange}
    BY Zenon, <1>13, <1>q, UpdateType DEF EvmDone, TypeOK
  <2>. QED  BY Zenon, <1>13, <2>1, LeaveBasics DEF EvmDone, TypeOK
<1>14. CASE PurgeExchangeData
  BY Zenon, <1>14 DEF PurgeExchangeData, taskVars, TypeOK, LockHeld, StepInv, Causes
<1>15. CASE RemoveLocks
  BY Zenon, <1>15, QueryAssumption DEF RemoveLocks, taskVars, TypeOK, LockHeld, StepInv
<1>16. CASE RemoveAddress
  BY Zenon, <1>16, QueryAssumption DEF RemoveAddress, taskVars, TypeOK, LockHeld, StepInv, Causes
<1>17. CASE RemoveKilled
  BY Zenon, <1>17 DEF RemoveKilled, taskVars, TypeOK, LockHeld, StepInv
<1>18. CASE UNCHANGED vars
  BY Zenon, <1>18 DEF vars, taskVars, TypeOK, LockHeld, StepInv
<1>. QED
  BY Zenon, <1>1, <1>2, <1>3, <1>4, <1>5, <1>6, <1>7, <1>8, <1>9, <1>10, <1>11, <1>12, <1>13,
     <1>14, <1>15, <1>16, <1>17, <1>18 DEF Next, Step

\* Every variable keeps its type, for any number of greenlets and queries.
THEOREM TypeCorrect == Spec => []TypeOK
<1>1. Basics => TypeOK
  BY Zenon DEF Basics
<1>. QED
  BY <1>1, InitBasics, BasicsStep, PTL DEF Spec

-----------------------------------------------------------------------------
(* The invariant of the saved range.                                         *)

Hull(t) == update_used_query_range(saved, want[t])

StillToCome(t, i) ==
    \E k \in 1 .. Len(todo[t]) : i \in Within(todo[t][k]) /\ (k = 1 => i > at[t])

OneQuery == \A t, u \in Tasks : Querying(t) /\ Querying(u) => t = u

\* a period of todo lies inside the hull, and outside the row unless batches of
\* it have been stored
TodoInHull(t) ==
    /\ Len(todo[t]) <= 2
    /\ \A k \in 1 .. Len(todo[t]) :
         /\ todo[t][k].lo <= todo[t][k].hi
         /\ Hull(t).lo <= todo[t][k].lo /\ todo[t][k].hi <= Hull(t).hi
    /\ Len(todo[t]) = 2 => todo[t][1].hi < todo[t][2].lo /\ saved.hi < todo[t][2].lo

HullCovered(t) == \A i \in Within(Hull(t)) : i \in stored \/ StillToCome(t, i)

RestAboveRow(t) ==
    /\ at[t] = 0 /\ todo[t] # <<>> =>
         saved = NoRange \/ todo[t][1].hi < saved.lo \/ saved.hi < todo[t][1].lo
    /\ at[t] # 0 => /\ kind \in EvmKinds
                    /\ todo[t] # <<>> /\ at[t] \in Within(todo[t][1])
                    /\ todo[t][1].hi < saved.hi \/ saved.hi <= remote[at[t]]

\* an exchange query still has to ask for what the row lacks of the wanted time
RowReaches(t) ==
    kind \in ExchangeKinds =>
        /\ \/ saved # NoRange /\ saved.lo <= want[t].lo
           \/ todo[t] # <<>> /\ todo[t][1].lo <= want[t].lo
        /\ \/ saved # NoRange /\ want[t].hi <= saved.hi
           \/ todo[t] # <<>> /\ want[t].hi <= todo[t][Len(todo[t])].hi

\* an answer that waits to be saved is complete
AnswerInv(t) ==
    pc[t] = "save" => answer[t] = todo[t][1] /\ fetched[t] = Within(todo[t][1])

QueryInv(t) ==
    Querying(t) =>
        TodoInHull(t) /\ HullCovered(t) /\ RestAboveRow(t) /\ RowReaches(t) /\ AnswerInv(t)

\* what holds as long as nothing in causes has happened
Good ==
    /\ saved # NoRange => saved.lo <= saved.hi
    /\ OneQuery /\ RowIsStored
    /\ \A t \in Tasks : QueryInv(t)

IInv == Basics /\ (causes = {} => Good)

-----------------------------------------------------------------------------
\* u reaches from the lower start to the higher end of row and r
Joins(row, r, u) ==
    /\ row = NoRange => u = r
    /\ row # NoRange => /\ u.lo = IF r.lo < row.lo THEN r.lo ELSE row.lo
                        /\ u.hi = IF r.hi > row.hi THEN r.hi ELSE row.hi

\* the two ends of a row that has been extended
LEMMA UpdateEnds ==
    ASSUME NEW row \in Ranges \cup {NoRange}, NEW r \in Ranges, MaxTs \in Nat,
           NEW u, u = update_used_query_range(row, r)
    PROVE  u \in Ranges /\ u # NoRange /\ Joins(row, r, u)
BY DEF Joins, update_used_query_range, Ranges, NoRange, Period, Time

\* A step that leaves the row, the DB and all running queries alone changes
\* nothing.
LEMMA Frame ==
    ASSUME Good, UNCHANGED <<kind, remote, saved, stored>>,
           \A u \in Tasks : Querying(u)' <=> Querying(u),
           \A u \in Tasks : Querying(u) =>
               /\ pc'[u] = pc[u] /\ want'[u] = want[u] /\ todo'[u] = todo[u]
               /\ fetched'[u] = fetched[u] /\ answer'[u] = answer[u] /\ at'[u] = at[u]
    PROVE  Good'
<1>1. OneQuery' /\ (saved # NoRange => saved.lo <= saved.hi)'
  BY Zenon DEF Good, OneQuery, NoRange
<1>2. RowIsStored'
  BY DEF Good, RowIsStored, Rest, Within
<1>3. ASSUME NEW u \in Tasks, Querying(u)' PROVE QueryInv(u)'
  <2>1. /\ QueryInv(u) /\ Querying(u)
        /\ pc'[u] = pc[u] /\ want'[u] = want[u] /\ todo'[u] = todo[u]
        /\ fetched'[u] = fetched[u] /\ answer'[u] = answer[u] /\ at'[u] = at[u]
    BY Zenon, <1>3 DEF Good
  <2>2. /\ Hull(u)' = Hull(u) /\ \A r : Within(r)' = Within(r)
        /\ \A i : StillToCome(u, i)' <=> StillToCome(u, i)
    BY Zenon, <2>1 DEF Hull, Within, StillToCome, update_used_query_range, Period, NoRange
  <2>3. TodoInHull(u)' /\ HullCovered(u)'
    BY Zenon, <2>1, <2>2 DEF QueryInv, TodoInHull, HullCovered
  <2>4. RestAboveRow(u)' /\ RowReaches(u)' /\ AnswerInv(u)'
    BY Zenon, <2>1, <2>2 DEF QueryInv, RestAboveRow, RowReaches, AnswerInv, NoRange
  <2>. QED
    BY Zenon, <2>3, <2>4 DEF QueryInv
<1>. QED
  BY Zenon, <1>1, <1>2, <1>3 DEF Good, QueryInv

\* When no query runs, the row must be stored as it is.
LEMMA NobodyQueries ==
    ASSUME \A u \in Tasks : ~Querying(u)', (Within(saved) \subseteq stored)',
           (saved # NoRange => saved.lo <= saved.hi)'
    PROVE  Good'
BY Zenon DEF Good, OneQuery, RowIsStored, QueryInv

\* When one query runs, only it matters.
LEMMA OneQueries ==
    ASSUME NEW t \in Tasks, \A u \in Tasks \ {t} : ~Querying(u)', RowIsStored', QueryInv(t)',
           (saved # NoRange => saved.lo <= saved.hi)'
    PROVE  Good'
BY Zenon DEF Good, OneQuery, QueryInv

\* The others are not querying, and stay so, in a step of a querying task.
LEMMA OthersQuiet ==
    ASSUME Basics, Good, NEW t \in Tasks, Querying(t), NEW v, pc' = [pc EXCEPT ![t] = v]
    PROVE  /\ \A u \in Tasks \ {t} : ~Querying(u) /\ ~Querying(u)'
           /\ Querying(t)' <=> v \in {"query", "save", "mark"}
BY Zenon DEF Basics, TypeOK, Good, OneQuery, Querying

\* What the proof of every step of a running query starts from: the row and the
\* locals of the query,
LEMMA QueryTypes ==
    ASSUME Basics, Good, NEW t \in Tasks, Querying(t)
    PROVE  /\ MaxTs \in Nat /\ saved \in Ranges \cup {NoRange} /\ todo[t] \in Seq(Ranges)
           /\ want[t] \in Ranges /\ want[t].lo <= want[t].hi
           /\ saved # NoRange => saved.lo <= saved.hi
<1>1. MaxTs \in Nat
  BY Zenon, QueryAssumption
<1>2. saved \in Ranges \cup {NoRange} /\ todo[t] \in Seq(Ranges)
  BY Zenon DEF Basics, TypeOK
<1>3. want[t] \in Ranges /\ want[t].lo <= want[t].hi
  BY Zenon DEF Basics, StepInv, Querying
<1>. QED
  BY Zenon, <1>1, <1>2, <1>3 DEF Good

\* the period that a query is about to ask for, or has asked for
LEMMA FirstPeriod ==
    ASSUME Basics, Good, NEW t \in Tasks, Querying(t), todo[t] # <<>>
    PROVE  todo[t][1] \in Ranges /\ Head(todo[t]) = todo[t][1] /\ 1 \in 1 .. Len(todo[t])
<1>1. todo[t] \in Seq(Ranges)
  BY Zenon, QueryTypes
<1>. QED
  BY <1>1, HeadTail

\* the ends of a period are numbers
LEMMA EndsAreNumbers ==
    ASSUME NEW r \in Ranges
    PROVE  r.lo \in Int /\ r.hi \in Int
BY QueryAssumption DEF Ranges, Time

\* the entries of the remote,
LEMMA QueryRemote ==
    ASSUME Basics, NEW t \in Tasks
    PROVE  /\ \A i \in DOMAIN remote : i \in Nat \ {0} /\ remote[i] \in Time /\ remote[i] \in Nat
           /\ at[t] \in {0} \cup DOMAIN remote /\ stored \subseteq DOMAIN remote
<1>1. remote \in Seq(Time)
  BY QueryAssumption DEF Basics, TypeOK
<1>2. \A i \in DOMAIN remote : i \in Nat \ {0} /\ remote[i] \in Time
  BY <1>1
<1>3. at[t] \in {0} \cup DOMAIN remote /\ stored \subseteq DOMAIN remote
  BY Zenon DEF Basics, TypeOK
<1>4. Time \subseteq Nat
  BY QueryAssumption DEF Time
<1>. QED
  BY Zenon, <1>2, <1>3, <1>4

LEMMA QuerySorted ==
    ASSUME Basics
    PROVE  \A i, j \in DOMAIN remote : i <= j => remote[i] <= remote[j]
BY Zenon, QueryAssumption DEF Basics, TypeOK

\* and the invariant of the query.
LEMMA QueryHolds ==
    ASSUME Basics, Good, NEW t \in Tasks, Querying(t)
    PROVE  TodoInHull(t) /\ HullCovered(t) /\ RestAboveRow(t) /\ RowReaches(t) /\ AnswerInv(t)
BY Zenon DEF Good, QueryInv

LEMMA QueryRow ==
    ASSUME Basics, Good, NEW t \in Tasks, Querying(t)
    PROVE  \A i \in Within(saved) : i \in stored \/ (todo[t] # <<>> /\ i \in Rest(t))
BY Zenon DEF Good, OneQuery, RowIsStored

\* query_online_... has answered for the whole period
LEMMA QueryOnlineGood ==
    ASSUME Basics, Good, causes' = {}, NEW t \in Tasks, QueryOnline(t)
    PROVE  Good'
<1>1. Querying(t)
  BY Zenon DEF QueryOnline, Querying
<1>2. /\ UNCHANGED <<kind, remote, saved, stored, want, todo, at>> /\ todo[t] # <<>>
      /\ fetched' = [fetched EXCEPT ![t] = Within(Head(todo[t]))]
      /\ answer' = [answer EXCEPT ![t] = Head(todo[t])]
      /\ pc' = [pc EXCEPT ![t] = "save"]
  BY Zenon DEF QueryOnline, Answer
<1>3. (\A u \in Tasks \ {t} : ~Querying(u)') /\ Querying(t)'
  BY Zenon, <1>1, <1>2, OthersQuiet
<1>4. RowIsStored'
  BY Zenon, <1>1, <1>2, <1>3, QueryRow DEF RowIsStored, Rest, Within
<1>5. (TodoInHull(t) /\ HullCovered(t) /\ RestAboveRow(t) /\ RowReaches(t))'
  <2>1. TodoInHull(t) /\ HullCovered(t) /\ RestAboveRow(t) /\ RowReaches(t)
    BY Zenon, <1>1, QueryHolds
  <2>2. Hull(t)' = Hull(t)
    BY Zenon, <1>2 DEF Hull
  <2>3. TodoInHull(t)'
    BY Zenon, <1>2, <2>1, <2>2 DEF TodoInHull
  <2>4. HullCovered(t)'
    BY Zenon, <1>2, <2>1, <2>2 DEF HullCovered, StillToCome, Within
  <2>5. RestAboveRow(t)'
    BY Zenon, <1>2, <2>1 DEF RestAboveRow, Within
  <2>6. RowReaches(t)'
    BY Zenon, <1>2, <2>1 DEF RowReaches
  <2>. QED  BY Zenon, <2>3, <2>4, <2>5, <2>6
<1>6. AnswerInv(t)'
  BY <1>1, <1>2, QueryTypes, HeadTail DEF Basics, TypeOK, AnswerInv, Within
<1>7. (saved # NoRange => saved.lo <= saved.hi)'
  <2>1. saved # NoRange => saved.lo <= saved.hi
    BY Zenon DEF Good
  <2>2. saved' = saved
    BY Zenon, <1>2
  <2>. QED  BY Zenon, <2>1, <2>2 DEF NoRange
<1>. QED
  BY Zenon, <1>3, <1>4, <1>5, <1>6, <1>7, OneQueries DEF QueryInv

\* A query begins when no other one can write the row: all of the row is stored,
\* and what the row lacks of the wanted time is in todo.
LEMMA ReadRangesGood ==
    ASSUME Basics, Good, causes' = {}, NEW t \in Tasks, ReadRanges(t)
    PROVE  Good'
<1>. DEFINE s == todo'[t]
            w == want[t]
            h == Hull(t)
<1>1. /\ UNCHANGED <<kind, remote, saved, stored, want>> /\ pc[t] = "read"
      /\ s = get_location_query_ranges(saved, w.lo, w.hi)
      /\ at'[t] = 0 /\ pc' = [pc EXCEPT ![t] = "query"]
  BY Zenon DEF ReadRanges, Basics, TypeOK
<1>2. \A u \in Tasks : ~Querying(u)
  <2>. SUFFICES ASSUME NEW u \in Tasks, Querying(u) PROVE FALSE
    BY Zenon
  <2>1. u # t
    BY Zenon, <1>1 DEF Querying
  <2>2. {t, u} \cap unlocked = {}
    BY Zenon, <2>1 DEF ReadRanges
  <2>. QED  BY Zenon, <1>1, <2>1, <2>2 DEF Basics, LockHeld, Querying
<1>3. (\A u \in Tasks \ {t} : ~Querying(u)') /\ Querying(t)'
  BY Zenon, <1>1, <1>2 DEF Querying, Basics, TypeOK
<1>4. Within(saved) \subseteq stored
  BY Zenon, <1>2 DEF Good, RowIsStored
<1>5. /\ MaxTs \in Nat /\ saved \in Ranges \cup {NoRange} /\ remote \in Seq(Time \ {0})
      /\ saved # NoRange => saved.lo <= saved.hi
      /\ w \in Ranges /\ w.lo <= w.hi
  <2>1. saved \in Ranges \cup {NoRange} /\ remote \in Remotes
    BY Zenon DEF Basics, TypeOK
  <2>2. w \in Ranges /\ w.lo <= w.hi
    BY Zenon, <1>1 DEF Basics, StepInv
  <2>. QED  BY Zenon, <2>1, <2>2, QueryAssumption DEF Good
<1>6. RowIsStored' /\ (saved # NoRange => saved.lo <= saved.hi)'
  BY Zenon, <1>1, <1>4, <1>5 DEF RowIsStored, Within, NoRange
<1>7. Hull(t)' = h /\ h = update_used_query_range(saved, w)
  BY Zenon, <1>1 DEF Hull, update_used_query_range, NoRange, Period
<1>. HIDE DEF s, w, h
<1>8. /\ h \in Ranges /\ (saved = NoRange => h = w)
      /\ saved # NoRange => /\ h.lo = IF w.lo < saved.lo THEN w.lo ELSE saved.lo
                            /\ h.hi = IF w.hi > saved.hi THEN w.hi ELSE saved.hi
  <2>1. h \in Ranges /\ Joins(saved, w, h)
    BY Zenon, <1>5, <1>7, UpdateEnds
  <2>. QED  BY Zenon, <2>1 DEF Joins
<1>9. /\ s \in Seq(Ranges)
      /\ saved = NoRange => Len(s) = 1 /\ s[1] = w
      /\ saved # NoRange /\ w.lo < saved.lo /\ w.hi > saved.hi =>
           /\ Len(s) = 2 /\ s[1] = [lo |-> w.lo, hi |-> saved.lo - 1]
           /\ s[2] = [lo |-> saved.hi + 1, hi |-> w.hi]
      /\ saved # NoRange /\ w.lo < saved.lo /\ ~(w.hi > saved.hi) =>
           Len(s) = 1 /\ s[1] = [lo |-> w.lo, hi |-> saved.lo - 1]
      /\ saved # NoRange /\ ~(w.lo < saved.lo) /\ w.hi > saved.hi =>
           Len(s) = 1 /\ s[1] = [lo |-> saved.hi + 1, hi |-> w.hi]
      /\ saved # NoRange /\ ~(w.lo < saved.lo) /\ ~(w.hi > saved.hi) => s = <<>>
  BY <1>1, <1>5, RangesFacts DEF Period
<1>s. s \in Seq(Ranges)
  BY Zenon, <1>9
<1>. DEFINE Goal ==
                  /\ Len(s) <= 2
                  /\ \A k \in 1 .. Len(s) : s[k].lo <= s[k].hi /\ h.lo <= s[k].lo /\ s[k].hi <= h.hi
                  /\ Len(s) = 2 => s[1].hi < s[2].lo /\ saved.hi < s[2].lo
                  /\ \/ saved # NoRange /\ saved.lo <= w.lo
                     \/ s # <<>> /\ s[1].lo <= w.lo
                  /\ \/ saved # NoRange /\ w.hi <= saved.hi
                     \/ s # <<>> /\ w.hi <= s[Len(s)].hi
                  /\ \A x \in Time : h.lo <= x /\ x <= h.hi /\ ~(saved.lo <= x /\ x <= saved.hi) =>
                       \E k \in 1 .. Len(s) : s[k].lo <= x /\ x <= s[k].hi
<1>10. Goal
  <2>1. /\ w.lo \in Int /\ w.hi \in Int /\ h.lo \in Int /\ h.hi \in Int /\ Time \subseteq Int
        /\ saved # NoRange => saved.lo \in Int /\ saved.hi \in Int
    BY <1>5, <1>8 DEF Ranges, Time
  <2>. DEFINE Gap(x) == h.lo <= x /\ x <= h.hi /\ ~(saved.lo <= x /\ x <= saved.hi)
  <2>2. ASSUME NEW r, Len(s) = 1, s[1] = r, r.lo <= r.hi, h.lo <= r.lo, r.hi <= h.hi,
               (saved # NoRange /\ saved.lo <= w.lo) \/ r.lo <= w.lo,
               (saved # NoRange /\ w.hi <= saved.hi) \/ w.hi <= r.hi,
               \A x \in Time : Gap(x) => r.lo <= x /\ x <= r.hi
        PROVE  Goal
    <3>1. s # <<>> /\ 1 \in 1 .. Len(s) /\ \A k \in 1 .. Len(s) : k = 1
      <4>1. Len(s) = 1
        BY Zenon, <2>2
      <4>. QED  BY <1>s, <4>1
    <3>. QED  BY <2>2, <3>1
  <2>3. CASE saved # NoRange /\ w.lo < saved.lo /\ w.hi > saved.hi
    <3>. DEFINE s1 == s[1]
                s2 == s[2]
    <3>1. /\ Len(s) = 2 /\ s1.lo = w.lo /\ s1.hi = saved.lo - 1
          /\ s2.lo = saved.hi + 1 /\ s2.hi = w.hi
      BY <1>9, <2>3
    <3>0. s # <<>> /\ {1, 2} \subseteq 1 .. Len(s) /\ \A k \in 1 .. Len(s) : k = 1 \/ k = 2
      <4>1. Len(s) = 2
        BY Zenon, <3>1
      <4>. QED  BY <1>s, <4>1
    <3>. HIDE DEF s1, s2
    <3>2. \A k \in 1 .. Len(s) : s[k] = s1 \/ s[k] = s2
      BY Zenon, <3>0 DEF s1, s2
    <3>3. \A x \in Time : (s1.lo <= x /\ x <= s1.hi) \/ (s2.lo <= x /\ x <= s2.hi) =>
             \E k \in 1 .. Len(s) : s[k].lo <= x /\ x <= s[k].hi
      BY Zenon, <3>0 DEF s1, s2
    <3>4. \A x \in Time : h.lo <= x /\ x <= h.hi /\ ~(saved.lo <= x /\ x <= saved.hi) =>
             (s1.lo <= x /\ x <= s1.hi) \/ (s2.lo <= x /\ x <= s2.hi)
      BY <1>8, <2>1, <2>3, <3>1
    <3>5. \A r \in {s1, s2} : r.lo <= r.hi /\ h.lo <= r.lo /\ r.hi <= h.hi
      BY <1>5, <1>8, <2>1, <2>3, <3>1
    <3>. QED  BY SMTT(30), <1>5, <2>1, <2>3, <3>0, <3>1, <3>2, <3>3, <3>4, <3>5 DEF s1, s2
  <2>4. CASE saved # NoRange /\ w.lo < saved.lo /\ ~(w.hi > saved.hi)
    <3>. DEFINE r == s[1]
    <3>1. Len(s) = 1 /\ r.lo = w.lo /\ r.hi = saved.lo - 1
      BY <1>9, <2>4
    <3>. HIDE DEF r
    <3>2. /\ r.lo <= r.hi /\ h.lo <= r.lo /\ r.hi <= h.hi
          /\ (saved # NoRange /\ saved.lo <= w.lo) \/ r.lo <= w.lo
          /\ (saved # NoRange /\ w.hi <= saved.hi) \/ w.hi <= r.hi
          /\ \A x \in Time : Gap(x) => r.lo <= x /\ x <= r.hi
      BY <1>5, <1>8, <2>1, <2>4, <3>1
    <3>. QED  BY Zenon, <2>2, <3>1, <3>2 DEF r
  <2>5. CASE saved # NoRange /\ ~(w.lo < saved.lo) /\ w.hi > saved.hi
    <3>. DEFINE r == s[1]
    <3>1. Len(s) = 1 /\ r.lo = saved.hi + 1 /\ r.hi = w.hi
      BY <1>9, <2>5
    <3>. HIDE DEF r
    <3>2. /\ r.lo <= r.hi /\ h.lo <= r.lo /\ r.hi <= h.hi
          /\ (saved # NoRange /\ saved.lo <= w.lo) \/ r.lo <= w.lo
          /\ (saved # NoRange /\ w.hi <= saved.hi) \/ w.hi <= r.hi
          /\ \A x \in Time : Gap(x) => r.lo <= x /\ x <= r.hi
      BY <1>5, <1>8, <2>1, <2>5, <3>1
    <3>. QED  BY Zenon, <2>2, <3>1, <3>2 DEF r
  <2>6. CASE saved # NoRange /\ ~(w.lo < saved.lo) /\ ~(w.hi > saved.hi)
    BY <1>5, <1>8, <1>9, <2>1, <2>6
  <2>7. CASE saved = NoRange
    <3>. DEFINE r == s[1]
    <3>1. Len(s) = 1 /\ r.lo = w.lo /\ r.hi = w.hi
      BY Zenon, <1>9, <2>7
    <3>. HIDE DEF r
    <3>2. /\ r.lo <= r.hi /\ h.lo <= r.lo /\ r.hi <= h.hi
          /\ (saved # NoRange /\ saved.lo <= w.lo) \/ r.lo <= w.lo
          /\ (saved # NoRange /\ w.hi <= saved.hi) \/ w.hi <= r.hi
          /\ \A x \in Time : Gap(x) => r.lo <= x /\ x <= r.hi
      BY <1>5, <1>8, <2>1, <2>7, <3>1
    <3>. QED  BY Zenon, <2>2, <3>1, <3>2 DEF r
  <2>. QED  BY Zenon, <2>3, <2>4, <2>5, <2>6, <2>7
<1>11. TodoInHull(t)'
  BY Zenon, <1>1, <1>7, <1>10 DEF TodoInHull, s
<1>12. HullCovered(t)'
  <2>1. \A i \in DOMAIN remote : i > 0
    BY <1>5
  <2>. QED
    <3>. SUFFICES ASSUME NEW i \in DOMAIN remote, h.lo <= remote[i], remote[i] <= h.hi,
                         i \notin stored
                  PROVE  StillToCome(t, i)'
      BY Zenon, <1>1, <1>7 DEF HullCovered, Within
    <3>1. remote[i] \in Time
      BY <1>5
    <3>2. ~(saved.lo <= remote[i] /\ remote[i] <= saved.hi)
      BY Zenon, <1>4 DEF Within
    <3>3. PICK k \in 1 .. Len(s) : s[k].lo <= remote[i] /\ remote[i] <= s[k].hi
      BY Zenon, <1>10, <3>1, <3>2
    <3>. QED  BY Zenon, <1>1, <2>1, <3>3 DEF StillToCome, Within, s
<1>13. RestAboveRow(t)'
  <2>1. s # <<>> => saved = NoRange \/ s[1].hi < saved.lo \/ saved.hi < s[1].lo
    BY SMTT(30), <1>5, <1>9 DEF Ranges, Time
  <2>. QED  BY Zenon, <1>1, <2>1 DEF RestAboveRow, s, NoRange
<1>14. RowReaches(t)'
  <2>1. /\ \/ saved # NoRange /\ saved.lo <= w.lo
           \/ s # <<>> /\ s[1].lo <= w.lo
        /\ \/ saved # NoRange /\ w.hi <= saved.hi
           \/ s # <<>> /\ w.hi <= s[Len(s)].hi
    BY Zenon, <1>10
  <2>. QED  BY Zenon, <1>1, <2>1 DEF RowReaches, s, w, NoRange
<1>15. AnswerInv(t)'
  BY Zenon, <1>1 DEF AnswerInv, Basics, TypeOK
<1>. QED
  BY Zenon, <1>3, <1>6, <1>11, <1>12, <1>13, <1>14, <1>15, OneQueries DEF QueryInv

\* The row grows by the first period of todo, or a part of it, inside the hull.
LEMMA RowGrows ==
    ASSUME Basics, Good, NEW t \in Tasks, Querying(t), todo[t] # <<>>,
           NEW hi \in Time, todo[t][1].lo <= hi, hi <= todo[t][1].hi,
           saved' = update_used_query_range(saved, Period(todo[t][1].lo, hi)),
           UNCHANGED <<remote, want>>
    PROVE  /\ Hull(t)' = Hull(t) /\ Hull(t) \in Ranges
           /\ saved' \in Ranges /\ saved' # NoRange /\ saved'.lo <= saved'.hi
           /\ Hull(t).lo <= saved'.lo /\ saved'.hi <= Hull(t).hi
           /\ saved = NoRange => saved'.lo = todo[t][1].lo /\ saved'.hi = hi
           /\ saved # NoRange =>
                /\ saved'.lo = IF todo[t][1].lo < saved.lo THEN todo[t][1].lo ELSE saved.lo
                /\ saved'.hi = IF hi > saved.hi THEN hi ELSE saved.hi
<1>. DEFINE p == todo[t][1]
            r == Period(p.lo, hi)
            w == want[t]
            h == Hull(t)
<1>1. /\ MaxTs \in Nat /\ saved \in Ranges \cup {NoRange} /\ w \in Ranges
      /\ (saved # NoRange => saved.lo <= saved.hi) /\ TodoInHull(t)
  BY Zenon, QueryTypes, QueryHolds
<1>2. p \in Ranges /\ p.lo <= hi /\ hi <= p.hi /\ h.lo <= p.lo /\ p.hi <= h.hi
  <2>1. p \in Ranges /\ 1 \in 1 .. Len(todo[t])
    BY Zenon, FirstPeriod
  <2>. QED  BY Zenon, <1>1, <2>1 DEF TodoInHull
<1>3. h = update_used_query_range(saved, w) /\ (Hull(t))' = update_used_query_range(saved', w)
  BY Zenon DEF Hull, update_used_query_range, NoRange, Period
<1>. HIDE DEF p, w, h
<1>4. r \in Ranges /\ r.lo = p.lo /\ r.hi = hi
  BY Zenon, <1>2 DEF Ranges, Period
<1>. HIDE DEF r
<1>5. saved' = update_used_query_range(saved, r)
  BY Zenon DEF r, p
<1>6. saved' \in Ranges /\ saved' # NoRange /\ Joins(saved, r, saved')
  BY Zenon, <1>1, <1>4, <1>5, UpdateEnds
<1>7. h \in Ranges /\ Joins(saved, w, h)
  BY Zenon, <1>1, <1>3, UpdateEnds
<1>. DEFINE g == update_used_query_range(saved', w)
<1>8. g \in Ranges /\ Joins(saved', w, g)
  BY Zenon, <1>1, <1>6, UpdateEnds
<1>. HIDE DEF g
<1>9. /\ g.lo = h.lo /\ g.hi = h.hi
      /\ h.lo <= saved'.lo /\ saved'.hi <= h.hi /\ saved'.lo <= saved'.hi
  <2>1. /\ p.lo \in Int /\ p.hi \in Int /\ hi \in Int /\ w.lo \in Int /\ w.hi \in Int
        /\ saved'.lo \in Int /\ saved'.hi \in Int /\ h.lo \in Int /\ h.hi \in Int
        /\ saved # NoRange => saved.lo \in Int /\ saved.hi \in Int
    <3>1. hi \in Int
      BY DEF Time
    <3>. QED  BY Zenon, <1>1, <1>2, <1>6, <1>7, <3>1, EndsAreNumbers
  <2>0. /\ g.lo = IF w.lo < saved'.lo THEN w.lo ELSE saved'.lo
        /\ g.hi = IF w.hi > saved'.hi THEN w.hi ELSE saved'.hi
    BY Zenon, <1>6, <1>8 DEF Joins
  <2>2. CASE saved = NoRange
    <3>1. saved' = r /\ h = w
      BY Zenon, <1>6, <1>7, <2>2 DEF Joins
    <3>. QED  BY <1>2, <1>4, <2>0, <2>1, <3>1
  <2>3. CASE saved # NoRange
    <3>0. /\ saved'.lo = IF p.lo < saved.lo THEN p.lo ELSE saved.lo
          /\ saved'.hi = IF hi > saved.hi THEN hi ELSE saved.hi
          /\ h.lo = IF w.lo < saved.lo THEN w.lo ELSE saved.lo
          /\ h.hi = IF w.hi > saved.hi THEN w.hi ELSE saved.hi
      BY Zenon, <1>4, <1>6, <1>7, <2>3 DEF Joins
    <3>1. g.lo = h.lo /\ h.lo <= saved'.lo
      BY <1>2, <2>0, <2>1, <2>3, <3>0
    <3>2. g.hi = h.hi /\ saved'.hi <= h.hi
      BY <1>2, <2>0, <2>1, <2>3, <3>0
    <3>3. saved'.lo <= saved'.hi
      BY <1>1, <1>2, <2>1, <2>3, <3>0
    <3>. QED  BY Zenon, <3>1, <3>2, <3>3
  <2>. QED  BY Zenon, <2>2, <2>3
<1>10. g = h
  BY <1>7, <1>8, <1>9 DEF Ranges
<1>. QED
  BY Zenon, <1>3, <1>4, <1>6, <1>7, <1>9, <1>10 DEF p, h, g, Joins

\* the parts of todo that stay when the first one is done
LEMMA TailFacts ==
    ASSUME Basics, Good, NEW t \in Tasks, Querying(t), todo[t] # <<>>
    PROVE  LET s == Tail(todo[t])
           IN  /\ s \in Seq(Ranges) /\ Len(s) = Len(todo[t]) - 1 /\ Len(todo[t]) \in {1, 2}
               /\ s # <<>> <=> Len(todo[t]) = 2
               /\ s # <<>> => Len(s) = 1 /\ s[1] = todo[t][2]
               /\ \A k \in 1 .. Len(s) : k = 1 /\ s[k] = todo[t][2]
<1>. DEFINE s == Tail(todo[t])
<1>1. todo[t] \in Seq(Ranges) /\ Len(todo[t]) <= 2
  BY Zenon, QueryTypes, QueryHolds DEF TodoInHull
<1>2. /\ s \in Seq(Ranges) /\ Len(todo[t]) \in Nat \ {0} /\ Len(s) = Len(todo[t]) - 1
      /\ \A i \in 1 .. Len(todo[t]) - 1 : s[i] = todo[t][i + 1]
  BY Zenon, <1>1, HeadTail
<1>. HIDE DEF s
<1>3. s = <<>> <=> Len(s) = 0
  <2>1. s \in Seq(Ranges)
    BY Zenon, <1>2
  <2>. QED  BY <2>1
<1>4. CASE Len(todo[t]) = 1
  BY <1>2, <1>3, <1>4 DEF s
<1>5. CASE Len(todo[t]) = 2
  <2>1. Len(s) = 1 /\ s[1] = todo[t][2]
    BY <1>2, <1>5
  <2>2. \A k \in 1 .. Len(s) : k = 1
    BY <2>1
  <2>. QED  BY Zenon, <1>2, <1>3, <1>5, <2>1, <2>2 DEF s
<1>6. Len(todo[t]) = 1 \/ Len(todo[t]) = 2
  <2>. DEFINE n == Len(todo[t])
  <2>1. n \in Nat \ {0} /\ n <= 2
    BY Zenon, <1>1, <1>2
  <2>. HIDE DEF n
  <2>2. n = 1 \/ n = 2
    BY <2>1
  <2>. QED  BY Zenon, <2>2 DEF n
<1>. QED
  BY Zenon, <1>4, <1>5, <1>6

\* an answer and its period enter the DB together
LEMMA SaveAnswerGood ==
    ASSUME Basics, Good, NEW t \in Tasks, SaveAnswer(t)
    PROVE  Good'
<1>. DEFINE p == todo[t][1]
            s == Tail(todo[t])
            h == Hull(t)
<1>1. Querying(t) /\ pc[t] = "save" /\ todo[t] # <<>> /\ kind \in ExchangeKinds
  BY Zenon DEF SaveAnswer, Querying, Basics, StepInv
<1>2. /\ UNCHANGED <<kind, remote, want, at>>
      /\ stored' = stored \cup Within(p)
      /\ saved' = update_used_query_range(saved, p)
      /\ todo'[t] = s /\ pc' = [pc EXCEPT ![t] = "query"]
  BY Zenon, <1>1, QueryHolds DEF SaveAnswer, AnswerInv, Basics, TypeOK
<1>3. (\A u \in Tasks \ {t} : ~Querying(u)') /\ Querying(t)'
  BY Zenon, <1>1, <1>2, OthersQuiet
<1>4. at[t] = 0 /\ at'[t] = 0
  BY SMTT(30), <1>1, <1>2, QueryHolds DEF RestAboveRow, ExchangeKinds, EvmKinds
<1>5. /\ p \in Ranges /\ p = Period(p.lo, p.hi) /\ p.lo <= p.hi /\ p.hi \in Time
      /\ h.lo <= p.lo /\ p.hi <= h.hi
  <2>1. p \in Ranges
    BY Zenon, <1>1, FirstPeriod
  <2>2. p.lo <= p.hi /\ h.lo <= p.lo /\ p.hi <= h.hi
    <3>1. 1 \in 1 .. Len(todo[t])
      BY Zenon, <1>1, FirstPeriod
    <3>. QED  BY Zenon, <1>1, <3>1, QueryHolds DEF TodoInHull
  <2>. QED  BY Zenon, <2>1, <2>2 DEF Ranges, Period
<1>6. /\ Hull(t)' = h /\ h \in Ranges
      /\ saved' \in Ranges /\ saved' # NoRange /\ saved'.lo <= saved'.hi
      /\ h.lo <= saved'.lo /\ saved'.hi <= h.hi
      /\ saved = NoRange => saved'.lo = p.lo /\ saved'.hi = p.hi
      /\ saved # NoRange => /\ saved'.lo = IF p.lo < saved.lo THEN p.lo ELSE saved.lo
                            /\ saved'.hi = IF p.hi > saved.hi THEN p.hi ELSE saved.hi
  <2>1. saved' = update_used_query_range(saved, Period(todo[t][1].lo, p.hi))
    BY Zenon, <1>2, <1>5
  <2>2. p.hi \in Time /\ todo[t][1].lo <= p.hi /\ p.hi <= todo[t][1].hi
    BY <1>5 DEF Time
  <2>. QED  BY Zenon, <1>1, <1>2, <2>1, <2>2, RowGrows
<1>7. /\ s \in Seq(Ranges) /\ Len(s) = Len(todo[t]) - 1 /\ Len(todo[t]) \in {1, 2}
      /\ s # <<>> <=> Len(todo[t]) = 2
      /\ s # <<>> => Len(s) = 1 /\ s[1] = todo[t][2]
      /\ \A k \in 1 .. Len(s) : k = 1 /\ s[k] = todo[t][2]
  BY Zenon, <1>1, TailFacts
<1>. HIDE DEF p, s, h
<1>8. HullCovered(t)'
  <2>1. ASSUME NEW i \in Within(h) PROVE i \in stored' \/ (s # <<>> /\ i \in Within(s[1]) /\ i > 0)
    <3>1. i \in stored \/ StillToCome(t, i)
      BY Zenon, <1>1, QueryHolds DEF HullCovered, h
    <3>2. CASE StillToCome(t, i)
      <4>1. PICK k \in 1 .. Len(todo[t]) : i \in Within(todo[t][k])
        BY Zenon, <3>2 DEF StillToCome
      <4>2. i > 0
        BY <1>1, QueryRemote DEF Within
      <4>. QED  BY <1>2, <1>7, <4>1, <4>2 DEF p
    <3>. QED  BY Zenon, <1>2, <3>1, <3>2
  <2>. QED  BY <1>2, <1>4, <1>6, <1>7, <2>1 DEF HullCovered, StillToCome, Within
<1>9. TodoInHull(t)'
  <2>1. Len(todo[t]) = 2 =>
          /\ todo[t][2].lo <= todo[t][2].hi
          /\ h.lo <= todo[t][2].lo /\ todo[t][2].hi <= h.hi
    BY <1>1, QueryHolds DEF TodoInHull, h
  <2>2. Len(s) <= 2 /\ Len(s) # 2
    <3>1. s = <<>> \/ Len(s) = 1
      BY Zenon, <1>7
    <3>. QED  BY <3>1
  <2>3. \A k \in 1 .. Len(s) : s[k].lo <= s[k].hi /\ h.lo <= s[k].lo /\ s[k].hi <= h.hi
    <3>1. \A k \in 1 .. Len(s) : s[k] = todo[t][2] /\ Len(todo[t]) = 2
      BY <1>7
    <3>. QED  BY Zenon, <2>1, <3>1
  <2>. QED  BY Zenon, <1>2, <1>6, <2>2, <2>3 DEF TodoInHull
<1>10. RowIsStored'
  <2>1. \A i \in Within(saved)' : i \in Within(Hull(t))'
    <3>. SUFFICES ASSUME NEW i \in DOMAIN remote, saved'.lo <= remote[i], remote[i] <= saved'.hi
                 PROVE  h.lo <= remote[i] /\ remote[i] <= h.hi
      BY Zenon, <1>2, <1>6 DEF Within
    <3>1. remote[i] \in Int
      BY <1>1, QueryRemote DEF Time
    <3>. QED  BY <1>6, <3>1 DEF Ranges, Time
  <2>2. \A i \in Within(Hull(t))' : i \in stored' \/ (todo'[t] # <<>> /\ i \in Rest(t)')
    BY <1>2, <1>4, <1>7, <1>8 DEF HullCovered, StillToCome, Rest
  <2>. QED  BY Zenon, <1>3, <2>1, <2>2 DEF RowIsStored
<1>11. RestAboveRow(t)'
  <2>1. s # <<>> => saved'.hi < s[1].lo
    <3>. DEFINE q == todo[t][2]
    <3>. SUFFICES ASSUME Len(todo[t]) = 2 PROVE saved'.hi < q.lo
      BY Zenon, <1>7
    <3>1. p.hi < q.lo /\ saved.hi < q.lo
      BY Zenon, <1>1, QueryHolds DEF TodoInHull, p
    <3>2. saved \in Ranges \cup {NoRange} /\ q \in Ranges
      BY <1>1, QueryTypes, ElementFacts
    <3>3. p.hi \in Int /\ q.lo \in Int /\ (saved # NoRange => saved.hi \in Int)
      BY <1>5, <3>2 DEF Ranges, Time
    <3>. HIDE DEF q
    <3>. QED  BY Zenon, <1>6, <3>1, <3>3
  <2>. QED  BY Zenon, <1>2, <1>4, <2>1 DEF RestAboveRow
<1>12. RowReaches(t)'
  <2>1. /\ saved'.lo <= want[t].lo
        /\ want[t].hi <= saved'.hi \/ (s # <<>> /\ want[t].hi <= s[Len(s)].hi)
    <3>1. /\ want[t] \in Ranges /\ saved \in Ranges \cup {NoRange}
          /\ (saved # NoRange /\ saved.lo <= want[t].lo) \/ p.lo <= want[t].lo
          /\ \/ saved # NoRange /\ want[t].hi <= saved.hi
             \/ want[t].hi <= todo[t][Len(todo[t])].hi
      BY Zenon, <1>1, QueryTypes, QueryHolds DEF RowReaches, p
    <3>2. /\ want[t].lo \in Int /\ want[t].hi \in Int /\ p.lo \in Int /\ p.hi \in Int
          /\ saved # NoRange => saved.lo \in Int /\ saved.hi \in Int
      BY <1>5, <3>1 DEF Ranges, Time
    <3>3. saved'.lo <= want[t].lo
      BY <1>6, <3>1, <3>2
    <3>4. CASE Len(todo[t]) = 1
      BY <1>6, <3>1, <3>2, <3>4 DEF p
    <3>5. CASE Len(todo[t]) = 2
      BY <1>6, <1>7, <3>1, <3>2, <3>5
    <3>. QED  BY Zenon, <1>7, <3>3, <3>4, <3>5
  <2>. QED  BY Zenon, <1>2, <1>6, <2>1 DEF RowReaches, NoRange
<1>13. AnswerInv(t)'
  BY Zenon, <1>2 DEF AnswerInv, Basics, TypeOK
<1>. QED
  BY Zenon, <1>3, <1>6, <1>8, <1>9, <1>10, <1>11, <1>12, <1>13, OneQueries DEF QueryInv

-----------------------------------------------------------------------------
\* The steps of a transaction query, and of everyone together

\* a batch is stored: what is left of the period comes after it
LEMMA StoreBatchGood ==
    ASSUME Basics, Good, NEW t \in Tasks, StoreBatch(t)
    PROVE  Good'
<1>. DEFINE p == todo[t][1]
<1>1. Querying(t) /\ pc[t] = "query" /\ todo[t] # <<>> /\ kind \in EvmKinds
  BY Zenon DEF StoreBatch, Querying
<1>2. PICK last \in Rest(t) : /\ stored' = stored \cup {i \in Rest(t) : i <= last}
                              /\ at' = [at EXCEPT ![t] = last]
  BY Zenon DEF StoreBatch
<1>3. /\ UNCHANGED <<kind, remote, saved, want, todo>>
      /\ at'[t] = last /\ pc' = [pc EXCEPT ![t] = "mark"]
  BY Zenon, <1>2 DEF StoreBatch, Basics, TypeOK
<1>4. (\A u \in Tasks \ {t} : ~Querying(u)') /\ Querying(t)'
  BY Zenon, <1>1, <1>3, OthersQuiet
<1>5. Head(todo[t]) = p /\ p \in Ranges
  BY Zenon, <1>1, FirstPeriod
<1>6. /\ last \in Within(p) /\ last > at[t] /\ last \in Nat \ {0} /\ at[t] \in Nat
      /\ remote[last] \in Int
  BY <1>1, <1>2, <1>5, QueryRemote DEF Rest, Within, Time
<1>7. \A i \in DOMAIN remote : i \in Nat \ {0}
  BY Zenon, <1>1, QueryRemote
<1>8. Hull(t)' = Hull(t) /\ TodoInHull(t)' /\ RowReaches(t)' /\ AnswerInv(t)'
  BY <1>1, <1>3, QueryHolds DEF TodoInHull, RowReaches, Hull, update_used_query_range, Period,
     NoRange, AnswerInv, Basics, TypeOK
<1>9. ASSUME NEW i, StillToCome(t, i) PROVE i \in stored' \/ StillToCome(t, i)'
  <2>1. PICK k \in 1 .. Len(todo[t]) : i \in Within(todo[t][k]) /\ (k = 1 => i > at[t])
    BY Zenon, <1>9 DEF StillToCome
  <2>2. CASE k = 1 /\ i <= last
    BY Zenon, <1>2, <1>5, <2>1, <2>2 DEF Rest
  <2>3. CASE k # 1 \/ ~(i <= last)
    <3>1. i \in Nat
      BY Zenon, <1>7, <2>1 DEF Within
    <3>2. k = 1 => i > at'[t]
      BY <1>3, <1>6, <2>3, <3>1
    <3>. QED  BY Zenon, <1>3, <2>1, <3>2 DEF StillToCome, Within
  <2>. QED  BY Zenon, <2>2, <2>3
<1>10. HullCovered(t)'
  BY Zenon, <1>1, <1>2, <1>3, <1>8, <1>9, QueryHolds DEF HullCovered, Within
<1>11. RowIsStored'
  <2>1. ASSUME NEW i \in Rest(t) PROVE i \in stored' \/ i \in Rest(t)'
    <3>1. CASE i <= last
      BY Zenon, <1>2, <3>1
    <3>2. CASE ~(i <= last)
      <4>1. i > last
        BY <1>6, <1>7, <2>1, <3>2 DEF Rest, Within
      <4>. QED  BY Zenon, <1>3, <2>1, <4>1 DEF Rest, Within
    <3>. QED  BY Zenon, <3>1, <3>2
  <2>. QED  BY Zenon, <1>1, <1>2, <1>3, <1>4, <2>1, QueryRow DEF RowIsStored, Within
<1>12. RestAboveRow(t)'
  <2>1. p.hi < saved.hi \/ saved.hi <= remote[last]
    <3>1. CASE at[t] = 0
      <4>1. /\ saved \in Ranges \cup {NoRange} /\ (saved # NoRange => saved.lo <= saved.hi)
            /\ saved = NoRange \/ p.hi < saved.lo \/ saved.hi < p.lo
        BY Zenon, <1>1, <3>1, QueryTypes, QueryHolds DEF RestAboveRow
      <4>2. p.lo <= remote[last] /\ p.lo \in Int /\ p.hi \in Int
        BY <1>5, <1>6 DEF Within, Ranges, Time
      <4>3. CASE saved = NoRange
        <5>1. saved.hi = -1 /\ 0 <= p.lo
          BY <1>5, <4>3 DEF NoRange, Ranges, Time
        <5>. QED  BY <1>6, <4>2, <5>1
      <4>4. CASE saved # NoRange
        <5>1. saved.lo \in Int /\ saved.hi \in Int
          BY <4>1, <4>4 DEF Ranges, Time
        <5>. QED  BY <1>6, <4>1, <4>2, <4>4, <5>1
      <4>. QED  BY Zenon, <4>3, <4>4
    <3>2. CASE at[t] # 0
      <4>1. /\ at[t] \in DOMAIN remote /\ (p.hi < saved.hi \/ saved.hi <= remote[at[t]])
            /\ remote[at[t]] <= remote[last] /\ remote[at[t]] \in Int
        <5>1. at[t] \in DOMAIN remote /\ (p.hi < saved.hi \/ saved.hi <= remote[at[t]])
          BY Zenon, <1>1, <3>2, QueryRemote, QueryHolds DEF RestAboveRow, p
        <5>2. at[t] <= last /\ last \in DOMAIN remote
          BY <1>6 DEF Within
        <5>3. remote[at[t]] <= remote[last]
          BY Zenon, <5>1, <5>2, QuerySorted
        <5>. QED  BY <5>1, <5>3, QueryRemote
      <4>2. saved.hi \in Int
        BY <1>1, QueryTypes DEF Ranges, NoRange, Time
      <4>. QED  BY <1>6, <4>1, <4>2
    <3>. QED  BY Zenon, <3>1, <3>2
  <2>. QED  BY Zenon, <1>1, <1>3, <1>6, <2>1 DEF RestAboveRow, Within
<1>13. (saved # NoRange => saved.lo <= saved.hi)'
  BY Zenon, <1>3 DEF Good, NoRange
<1>. QED
  BY Zenon, <1>4, <1>8, <1>10, <1>11, <1>12, <1>13, OneQueries DEF QueryInv

\* the period up to the last entry of the batch is entered in the row
LEMMA MarkBatchGood ==
    ASSUME Basics, Good, NEW t \in Tasks, MarkBatch(t)
    PROVE  Good'
<1>. DEFINE p == todo[t][1]
            x == remote[at[t]]
            h == Hull(t)
<1>1. /\ Querying(t) /\ pc[t] = "mark" /\ todo[t] # <<>> /\ kind \in EvmKinds
      /\ at[t] # 0
  BY Zenon DEF MarkBatch, Querying, Basics, StepInv
<1>2. p \in Ranges /\ Head(todo[t]) = p
  BY Zenon, <1>1, FirstPeriod
<1>3. /\ UNCHANGED <<kind, remote, stored, want, todo, at>>
      /\ saved' = update_used_query_range(saved, Period(p.lo, x))
      /\ pc' = [pc EXCEPT ![t] = "query"]
  BY Zenon, <1>2 DEF MarkBatch
<1>4. (\A u \in Tasks \ {t} : ~Querying(u)') /\ Querying(t)'
  BY Zenon, <1>1, <1>3, OthersQuiet
<1>5. /\ at[t] \in Within(p) /\ x \in Time /\ p.lo <= x /\ x <= p.hi
      /\ p.hi < saved.hi \/ saved.hi <= x
  <2>1. RestAboveRow(t)
    BY Zenon, <1>1, QueryHolds
  <2>. QED  BY Zenon, <1>1, <2>1, QueryRemote DEF RestAboveRow, Within
<1>6. /\ Hull(t)' = h /\ h \in Ranges
      /\ saved' \in Ranges /\ saved' # NoRange /\ saved'.lo <= saved'.hi
      /\ h.lo <= saved'.lo /\ saved'.hi <= h.hi
      /\ saved = NoRange => saved'.lo = p.lo /\ saved'.hi = x
      /\ saved # NoRange => /\ saved'.lo = IF p.lo < saved.lo THEN p.lo ELSE saved.lo
                            /\ saved'.hi = IF x > saved.hi THEN x ELSE saved.hi
  <2>1. UNCHANGED <<remote, want>>
    BY Zenon, <1>3
  <2>. QED  BY Zenon, <1>1, <1>3, <1>5, <2>1, RowGrows
<1>7. HullCovered(t)'
  <2>1. HullCovered(t)
    BY Zenon, <1>1, QueryHolds
  <2>. QED  BY Zenon, <1>3, <1>6, <2>1 DEF HullCovered, StillToCome, Within
<1>8. Len(todo[t]) = 2 => p.hi < todo[t][2].lo /\ saved.hi < todo[t][2].lo /\ todo[t][2] \in Ranges
  <2>1. TodoInHull(t) /\ todo[t] \in Seq(Ranges)
    BY Zenon, <1>1, QueryTypes, QueryHolds
  <2>. QED  BY <2>1, ElementFacts DEF TodoInHull
<1>. HIDE DEF p, x, h
<1>9. Len(todo[t]) = 2 => saved'.hi < todo[t][2].lo
  <2>. DEFINE q == todo[t][2]
  <2>. SUFFICES ASSUME Len(todo[t]) = 2 PROVE saved'.hi < q.lo
    BY Zenon
  <2>1. /\ q.lo \in Int /\ p.hi \in Int /\ x \in Int /\ p.hi < q.lo /\ saved.hi < q.lo /\ x <= p.hi
        /\ saved \in Ranges \cup {NoRange}
    BY <1>1, <1>2, <1>5, <1>8, QueryTypes DEF Ranges, Time
  <2>2. saved # NoRange => saved.hi \in Int
    BY <2>1 DEF Ranges, Time
  <2>. HIDE DEF q
  <2>. QED  BY <1>6, <2>1, <2>2
<1>10. TodoInHull(t)'
  <2>1. TodoInHull(t)
    BY Zenon, <1>1, QueryHolds
  <2>. QED  BY Zenon, <1>3, <1>6, <1>9, <2>1 DEF TodoInHull, h
<1>11. RowIsStored'
  <2>. SUFFICES ASSUME NEW i \in DOMAIN remote, saved'.lo <= remote[i], remote[i] <= saved'.hi,
                       i \notin stored
                PROVE  i \in Rest(t)'
    BY Zenon, <1>1, <1>3, <1>4 DEF RowIsStored, Within
  <2>1. remote[i] \in Int /\ h.lo <= remote[i] /\ remote[i] <= h.hi
    <3>1. remote[i] \in Int
      BY <1>1, QueryRemote DEF Time
    <3>. QED  BY <1>6, <3>1 DEF Ranges, Time
  <2>2. PICK k \in 1 .. Len(todo[t]) : i \in Within(todo[t][k]) /\ (k = 1 => i > at[t])
    <3>1. i \in Within(h) /\ HullCovered(t)
      BY Zenon, <1>1, <2>1, QueryHolds DEF Within
    <3>. QED  BY Zenon, <3>1 DEF HullCovered, StillToCome, h
  <2>3. k = 1
    <3>1. k = 1 \/ (k = 2 /\ Len(todo[t]) = 2)
      <4>. DEFINE n == Len(todo[t])
      <4>1. n \in {1, 2} /\ k \in 1 .. n
        BY Zenon, <1>1, TailFacts
      <4>. HIDE DEF n
      <4>2. k = 1 \/ (k = 2 /\ n = 2)
        BY <4>1
      <4>. QED  BY Zenon, <4>2 DEF n
    <3>2. todo[t][k] \in Ranges /\ todo[t][k].lo <= remote[i]
      BY Zenon, <1>1, <2>2, QueryTypes, ElementFacts DEF Within
    <3>. QED  BY <1>6, <1>9, <2>1, <3>1, <3>2 DEF Ranges, Time
  <2>. QED  BY Zenon, <1>2, <1>3, <2>2, <2>3 DEF Rest, Within, p
<1>12. RestAboveRow(t)'
  <2>1. p.hi < saved'.hi \/ saved'.hi <= x
    BY <1>1, <1>2, <1>5, <1>6, QueryTypes DEF Ranges, NoRange, Time
  <2>. QED  BY Zenon, <1>1, <1>3, <1>5, <2>1 DEF RestAboveRow, Within, p, x
<1>13. RowReaches(t)' /\ AnswerInv(t)'
  BY Zenon, <1>1, <1>3 DEF RowReaches, AnswerInv, ExchangeKinds, EvmKinds, Basics, TypeOK
<1>. QED
  BY Zenon, <1>4, <1>6, <1>7, <1>10, <1>11, <1>12, <1>13, OneQueries DEF QueryInv

\* all of the period has been stored
LEMMA RangeDoneGood ==
    ASSUME Basics, Good, NEW t \in Tasks, RangeDone(t)
    PROVE  Good'
<1>. DEFINE s == Tail(todo[t])
<1>1. Querying(t) /\ pc[t] = "query" /\ todo[t] # <<>> /\ kind \in EvmKinds /\ Rest(t) = {}
  BY Zenon DEF RangeDone, Querying
<1>2. /\ UNCHANGED <<kind, remote, saved, stored, want, pc>>
      /\ todo'[t] = s /\ at'[t] = 0
  BY Zenon DEF RangeDone, NextRange, Basics, TypeOK
<1>3. (\A u \in Tasks \ {t} : ~Querying(u)') /\ Querying(t)'
  BY Zenon, <1>1, <1>2 DEF Good, OneQuery, Querying
<1>4. /\ Len(todo[t]) \in {1, 2} /\ (s # <<>> <=> Len(todo[t]) = 2)
      /\ s # <<>> => Len(s) = 1 /\ s[1] = todo[t][2]
      /\ \A k \in 1 .. Len(s) : k = 1 /\ s[k] = todo[t][2]
  BY Zenon, <1>1, TailFacts
<1>5. Within(saved) \subseteq stored
  BY Zenon, <1>1, QueryRow
<1>6. Hull(t)' = Hull(t) /\ RowReaches(t)' /\ AnswerInv(t)'
  BY Zenon, <1>1, <1>2 DEF Hull, update_used_query_range, Period, NoRange, RowReaches, AnswerInv,
     ExchangeKinds, EvmKinds
<1>7. RowIsStored' /\ (saved # NoRange => saved.lo <= saved.hi)'
  BY Zenon, <1>2, <1>5 DEF RowIsStored, Within, Good, NoRange
<1>8. Len(todo[t]) = 2 =>
        /\ todo[t][2].lo <= todo[t][2].hi
        /\ Hull(t).lo <= todo[t][2].lo /\ todo[t][2].hi <= Hull(t).hi
        /\ saved.hi < todo[t][2].lo
  <2>1. TodoInHull(t) /\ todo[t] \in Seq(Ranges)
    BY Zenon, <1>1, QueryTypes, QueryHolds
  <2>. QED  BY <2>1 DEF TodoInHull
<1>9. Head(todo[t]) = todo[t][1]
  BY Zenon, <1>1, FirstPeriod
<1>. HIDE DEF s
<1>10. TodoInHull(t)'
  <2>1. s = <<>> \/ Len(s) = 1
    BY Zenon, <1>4
  <2>2. Len(s) <= 2 /\ Len(s) # 2
    <3>. DEFINE n == Len(s)
    <3>1. s = <<>> => n = 0
      OBVIOUS
    <3>. HIDE DEF n
    <3>2. n = 0 \/ n = 1
      BY Zenon, <2>1, <3>1 DEF n
    <3>3. n <= 2 /\ n # 2
      BY <3>2
    <3>. QED  BY Zenon, <3>3 DEF n
  <2>3. \A k \in 1 .. Len(s) :
           s[k].lo <= s[k].hi /\ Hull(t).lo <= s[k].lo /\ s[k].hi <= Hull(t).hi
    BY <1>4, <1>8
  <2>. QED  BY Zenon, <1>2, <1>6, <2>2, <2>3 DEF TodoInHull
<1>11. HullCovered(t)'
  <2>. SUFFICES ASSUME NEW i \in Within(Hull(t)), i \notin stored
                PROVE  s # <<>> /\ i \in Within(s[1]) /\ i > 0
    BY <1>2, <1>4, <1>6 DEF HullCovered, StillToCome, Within
  <2>1. PICK k \in 1 .. Len(todo[t]) : i \in Within(todo[t][k]) /\ (k = 1 => i > at[t])
    BY Zenon, <1>1, QueryHolds DEF HullCovered, StillToCome
  <2>2. k # 1
    BY Zenon, <1>1, <1>9, <2>1 DEF Rest
  <2>3. k = 2 /\ Len(todo[t]) = 2
    <3>. DEFINE n == Len(todo[t])
    <3>1. n \in {1, 2} /\ k \in 1 .. n
      BY Zenon, <1>4
    <3>. HIDE DEF n
    <3>2. k = 2 /\ n = 2
      BY <2>2, <3>1
    <3>. QED  BY Zenon, <3>2 DEF n
  <2>4. i > 0
    BY <1>1, QueryRemote DEF Within
  <2>. QED  BY Zenon, <1>4, <2>1, <2>3, <2>4
<1>12. RestAboveRow(t)'
  BY Zenon, <1>2, <1>4, <1>8 DEF RestAboveRow
<1>. QED
  BY Zenon, <1>3, <1>6, <1>7, <1>10, <1>11, <1>12, OneQueries DEF QueryInv

\* A query that fails or is cancelled, and has not been interrupted below the row
\* or within a second, leaves a row that is stored.
LEMMA InterruptedStored ==
    ASSUME Basics, Good, NEW t \in Tasks, Querying(t), Interrupted(t) = {}
    PROVE  Within(saved) \subseteq stored
<1>. SUFFICES ASSUME NEW i \in Within(saved), todo[t] # <<>>, i \in Rest(t) PROVE FALSE
  BY Zenon, QueryRow
<1>. DEFINE p == todo[t][1]
            x == remote[i]
<1>1. /\ p \in Ranges /\ Head(todo[t]) = p /\ i \in Within(p) /\ i > at[t]
      /\ i \in DOMAIN remote /\ i \in Nat /\ x \in Int
  <2>1. p \in Ranges /\ Head(todo[t]) = p
    BY Zenon, FirstPeriod
  <2>2. i \in DOMAIN remote /\ i \in Within(p) /\ i > at[t]
    BY Zenon, <2>1 DEF Rest, Within
  <2>3. i \in Nat /\ x \in Int
    BY <2>2, QueryRemote DEF Time
  <2>. QED  BY Zenon, <2>1, <2>2, <2>3
<1>2. /\ p.lo <= x /\ x <= p.hi /\ saved.lo <= x /\ x <= saved.hi
      /\ p.lo \in Int /\ p.hi \in Int
  BY <1>1 DEF Within, Ranges, Time
<1>3. saved \in Ranges
  <2>1. x >= 0
    BY <1>1, QueryRemote DEF Time
  <2>. QED  BY <1>1, <1>2, <2>1, QueryTypes DEF NoRange
<1>4. saved.lo \in Int /\ saved.hi \in Int
  BY <1>3 DEF Ranges, Time
<1>5. at[t] # 0
  <2>1. at[t] = 0 => saved = NoRange \/ p.hi < saved.lo \/ saved.hi < p.lo
    BY Zenon, QueryHolds DEF RestAboveRow
  <2>2. saved # NoRange
    BY <1>3, <1>2, <1>1 DEF NoRange, Ranges, Time
  <2>. QED  BY <1>1, <1>2, <1>4, <2>1, <2>2
<1>6. /\ kind \in EvmKinds /\ at[t] \in DOMAIN remote /\ at[t] \in Nat
      /\ p.hi < saved.hi \/ saved.hi <= remote[at[t]]
  BY Zenon, <1>5, QueryRemote, QueryHolds DEF RestAboveRow
<1>7. /\ ~(p.hi < saved.hi)
      /\ ~(\E j \in DOMAIN remote : j > at[t] /\ remote[j] = remote[at[t]])
  BY Zenon, <1>1, <1>5, <1>6 DEF Interrupted
<1>8. remote[at[t]] <= x /\ remote[at[t]] \in Int
  BY <1>1, <1>6, QueryRemote, QuerySorted DEF Time
<1>9. saved.hi <= remote[at[t]] /\ remote[at[t]] # x
  BY Zenon, <1>1, <1>6, <1>7
<1>. QED
  BY <1>1, <1>2, <1>4, <1>8, <1>9

\* The end of a query: nobody queries any more, or another query goes on as before.
LEMMA LeaveGood ==
    ASSUME Basics, Good, NEW t \in Tasks, Leave(t), UNCHANGED <<kind, remote>>,
           Querying(t) => /\ (Within(saved) \subseteq stored)'
                          /\ (saved # NoRange => saved.lo <= saved.hi)',
           ~Querying(t) => UNCHANGED <<saved, stored>>
    PROVE  Good'
<1>1. ~Querying(t)'
  BY Zenon DEF Leave, Querying, Basics, TypeOK
<1>2. CASE Querying(t)
  <2>1. \A u \in Tasks : ~Querying(u)'
    BY Zenon, <1>1, <1>2 DEF Leave, Querying, Basics, TypeOK, Good, OneQuery
  <2>. QED  BY Zenon, <1>2, <2>1, NobodyQueries
<1>3. CASE ~Querying(t)
  <2>1. \A u \in Tasks : Querying(u)' <=> Querying(u)
    BY Zenon, <1>1, <1>3 DEF Leave, Querying, Basics, TypeOK
  <2>2. \A u \in Tasks : Querying(u) =>
          /\ pc'[u] = pc[u] /\ want'[u] = want[u] /\ todo'[u] = todo[u]
          /\ fetched'[u] = fetched[u] /\ answer'[u] = answer[u] /\ at'[u] = at[u]
    BY Zenon, <1>3 DEF Leave, Basics, TypeOK
  <2>. QED  BY Zenon, <1>3, <2>1, <2>2, Frame
<1>. QED
  BY Zenon, <1>2, <1>3

\* cancelled or failed
LEMMA StopGood ==
    ASSUME Basics, Good, causes' = {}, NEW t \in Tasks,
           Kill(t) \/ ExchangeFails(t) \/ EvmFails(t)
    PROVE  Good'
<1>1. Leave(t) /\ UNCHANGED <<kind, remote, saved, stored>>
  BY Zenon DEF Kill, ExchangeFails, EvmFails
<1>2. Interrupted(t) = {}
  BY Zenon DEF Kill, ExchangeFails, EvmFails, Interrupted, ExchangeKinds, EvmKinds
<1>3. Querying(t) => (Within(saved) \subseteq stored)' /\ (saved # NoRange => saved.lo <= saved.hi)'
  BY Zenon, <1>1, <1>2, InterruptedStored DEF Within, NoRange, Good
<1>. QED
  BY Zenon, <1>1, <1>3, LeaveGood

\* A query that has nothing left to ask for has everything it wanted.
LEMMA DoneFacts ==
    ASSUME Basics, Good, NEW t \in Tasks, ExchangeDone(t) \/ EvmDone(t)
    PROVE  /\ Good' /\ Within(want[t]) \subseteq stored'
           /\ saved'.lo <= want[t].lo /\ want[t].hi <= saved'.hi
<1>. DEFINE h == Hull(t)
            w == want[t]
<1>1. /\ Querying(t) /\ todo[t] = <<>> /\ Leave(t) /\ UNCHANGED <<kind, remote, stored>>
      /\ ExchangeDone(t) => saved' = saved
      /\ EvmDone(t) => saved' = h
  BY Zenon DEF ExchangeDone, EvmDone, Querying, Hull
<1>2. /\ w \in Ranges /\ w.lo <= w.hi /\ MaxTs \in Nat /\ saved \in Ranges \cup {NoRange}
      /\ saved # NoRange => saved.lo <= saved.hi
      /\ h = update_used_query_range(saved, w)
  BY Zenon, <1>1, QueryTypes DEF Hull
<1>3. Within(h) \subseteq stored /\ Within(saved) \subseteq stored
  <2>1. Len(todo[t]) = 0
    BY <1>1
  <2>2. \A i : ~StillToCome(t, i)
    BY <2>1 DEF StillToCome
  <2>. QED  BY Zenon, <1>1, <2>2, QueryRow, QueryHolds DEF HullCovered
<1>. HIDE DEF h, w
<1>4. /\ h \in Ranges /\ h # NoRange /\ (saved = NoRange => h = w)
      /\ saved # NoRange => /\ h.lo = IF w.lo < saved.lo THEN w.lo ELSE saved.lo
                            /\ h.hi = IF w.hi > saved.hi THEN w.hi ELSE saved.hi
  BY Zenon, <1>2, UpdateEnds DEF Joins
<1>5. h.lo <= w.lo /\ w.hi <= h.hi /\ h.lo <= h.hi
  BY <1>2, <1>4 DEF Ranges, Time
<1>6. Within(w) \subseteq stored
  <2>. SUFFICES ASSUME NEW i \in Within(w) PROVE i \in Within(h)
    BY Zenon, <1>3
  <2>1. remote[i] \in Int
    BY QueryRemote DEF Within
  <2>. QED  BY <1>2, <1>4, <1>5, <2>1 DEF Within, Ranges, Time
<1>7. /\ saved'.lo <= w.lo /\ w.hi <= saved'.hi
      /\ (Within(saved) \subseteq stored)' /\ (saved # NoRange => saved.lo <= saved.hi)'
  <2>1. CASE ExchangeDone(t)
    <3>1. saved # NoRange /\ saved.lo <= w.lo /\ w.hi <= saved.hi
      BY Zenon, <1>1, <2>1, QueryHolds DEF RowReaches, ExchangeDone, w
    <3>. QED  BY Zenon, <1>1, <1>2, <1>3, <2>1, <3>1 DEF Within, NoRange
  <2>2. CASE EvmDone(t)
    BY Zenon, <1>1, <1>3, <1>4, <1>5, <2>2 DEF Within, NoRange
  <2>. QED  BY Zenon, <2>1, <2>2
<1>8. Good'
  BY Zenon, <1>1, <1>7, LeaveGood
<1>. QED
  BY Zenon, <1>1, <1>6, <1>7, <1>8 DEF w

\* The invariant at the start, and in every step.
LEMMA IInvInit == Init => IInv
<1>. SUFFICES ASSUME Init PROVE IInv
  BY Zenon
<1>1. \A t \in Tasks : ~Querying(t)
  BY Zenon DEF Init, Querying
<1>2. Within(saved) = {}
  <2>1. \A i \in DOMAIN remote : remote[i] \in Int
    BY QueryAssumption DEF Init, Time
  <2>. QED  BY <2>1 DEF Init, NoRange, Within
<1>. QED
  BY Zenon, <1>1, <1>2, InitBasics DEF Init, IInv, Good, OneQuery, RowIsStored, QueryInv

LEMMA CausesGrow == [Next]_vars => causes \subseteq causes'
BY ZenonT(40) DEF Next, Step, vars, BeginLocked, BeginUnlocked, Begin, Acquire, ReadRanges,
   Kill, QueryOnline,
   SaveAnswer, ExchangeFails, ExchangeDone, PurgeExchangeData, StoreBatch, MarkBatch,
   RangeDone, EvmFails, EvmDone, RemoveLocks, RemoveAddress, RemoveKilled

LEMMA IInvStep == IInv /\ [Next]_vars => IInv'
<1>. SUFFICES ASSUME IInv, [Next]_vars, causes' = {} PROVE Good'
  BY Zenon, BasicsStep DEF IInv
<1>0. Basics /\ Good /\ causes = {}
  BY Zenon, CausesGrow DEF IInv
<1>1. ASSUME NEW t \in Tasks, BeginLocked(t) \/ BeginUnlocked(t) \/ Acquire(t) PROVE Good'
  <2>1. UNCHANGED <<kind, remote, saved, stored, todo, fetched, answer, at>> /\ ~Querying(t)
    BY Zenon, <1>1 DEF BeginLocked, BeginUnlocked, Begin, Acquire, Querying
  <2>2. /\ \A u \in Tasks : Querying(u)' <=> Querying(u)
        /\ \A u \in Tasks : Querying(u) => pc'[u] = pc[u] /\ want'[u] = want[u]
    BY Zenon, <1>0, <1>1 DEF BeginLocked, BeginUnlocked, Begin, Acquire, Querying, Basics, TypeOK
  <2>. QED  BY Zenon, <1>0, <2>1, <2>2, Frame
<1>2. ASSUME NEW t \in Tasks, Step(t) \/ Kill(t) PROVE Good'
  BY Zenon, <1>0, <1>1, <1>2, ReadRangesGood, QueryOnlineGood, SaveAnswerGood, StopGood, DoneFacts,
     StoreBatchGood, MarkBatchGood, RangeDoneGood DEF Step
<1>3. CASE PurgeExchangeData \/ RemoveAddress
  <2>1. /\ saved' = NoRange /\ UNCHANGED <<pc, remote>> /\ \A t \in Tasks : ~Querying(t)
    BY Zenon, <1>3 DEF PurgeExchangeData, RemoveAddress, taskVars
  <2>2. Within(saved)' = {}
    <3>1. \A i \in DOMAIN remote : remote[i] \in Int
      BY <1>0, QueryAssumption DEF Basics, TypeOK, Time
    <3>. QED  BY <2>1, <3>1 DEF Within, NoRange
  <2>. QED  BY Zenon, <2>1, <2>2, NobodyQueries DEF Querying
<1>4. CASE RemoveLocks \/ RemoveKilled \/ UNCHANGED vars
  <2>1. UNCHANGED <<kind, remote, saved, stored, taskVars>>
    BY Zenon, <1>4 DEF RemoveLocks, RemoveKilled, vars
  <2>. QED  BY Zenon, <1>0, <2>1, Frame DEF taskVars, Querying
<1>. QED
  BY Zenon, <1>1, <1>2, <1>3, <1>4 DEF Next

\* The row of used_query_ranges only covers entries that are in the DB or that a
\* running query is about to store, until one of the causes happens.
THEOREM SavedStored == Spec => []SavedIsStored
<1>1. IInv => SavedIsStored
  BY Zenon DEF IInv, Good, SavedIsStored
<1>. QED
  BY <1>1, IInvInit, IInvStep, PTL DEF Spec

\* As long as none of the causes happened, a query that ends normally has stored all
\* entries of the time it was asked for.
THEOREM DoneComplete == Spec => DoneIsComplete
<1>1. IInv /\ [Next]_vars =>
        [\A t \in Tasks :
           (ExchangeDone(t) \/ EvmDone(t)) /\ causes = {} =>
              /\ Within(want[t]) \subseteq stored'
              /\ saved'.lo <= want[t].lo /\ want[t].hi <= saved'.hi]_vars
  BY Zenon, DoneFacts DEF IInv
<1>. QED
  BY <1>1, IInvInit, IInvStep, PTL DEF Spec, DoneIsComplete

=============================================================================
