----------------------- MODULE DBConnectionSavepoints -----------------------
(***************************************************************************)
(* Theorems about savepoint_ctx and write_ctx together, which is how rotki *)
(* uses the connection of its global database: the driver's list of        *)
(* savepoints is sqlite's, contexts are atomic, and the driver implements  *)
(* TransactionalStore.                                                     *)
(***************************************************************************)
EXTENDS DBConnectionProofs

\* Only sqlite's callback or the driver itself switches greenlets while a context is
\* open, and no write context is opened in a critical section.
SavepointsRunThrough == Yielders = {} /\ Updaters = {} /\ Exporters \intersect Writers = {}

\* The kind of the outermost context of a stack, and the number of contexts that
\* are not savepoints.
Base(s) == IF s = <<>> THEN "none" ELSE s[1].kind
Offset(s) == IF Base(s) \in {"none", "savepoint"} THEN 0 ELSE 1

\* Only the outermost context may be something else than a savepoint.
Nested(s) == \A i \in 2..Len(s) : s[i].kind = "savepoint"

\* Where a greenlet has no context open.
Idle == {"wait_savepoints", "cs_enter", "lock", "begin", "cs_exit", "commit", "rollback", "done"}

PlacePart(g) ==
    /\ Nested(frames[g])
    /\ pc[g] \in Idle => frames[g] = <<>>
    /\ pc[g] = "raise" /\ frames[g] # <<>> => raised[g] = "Exception"
    /\ Base(frames[g]) = "critical" => g \in Exporters
    /\ pc[g] = "cs_enter" /\ want[g] = "critical" => g \in Exporters
    /\ pc[g] = "wait_savepoints" => want[g] = "write"

PlaceInv == \A g \in Greenlets : PlacePart(g)

\* Who is inside something else than savepoints, or entering it, runs alone.
Alone(g) == Base(frames[g]) \notin {"none", "savepoint"} \/ pc[g] \in {"lock", "begin"}

\* Who has a context open executes, or waits in the callback.
AlonePart(g) ==
    /\ frames[g] # <<>> => running = g \/ pc[g] = "callback"
    /\ pc[g] = "callback" => in_callback = g
    /\ Alone(g) => running = g /\ ~handler /\ in_callback = NoOne
    /\ transaction_lock = g => Base(frames[g]) \in Locking \/ pc[g] = "begin"

AloneInv == \A g \in Greenlets : AlonePart(g)

\* sqlite is in a transaction that BEGIN opened exactly while a write context is open.
TxInv ==
    /\ begun <=> \E g \in Greenlets : Base(frames[g]) = "write"
    /\ write_greenlet_id # NoOne => Base(frames[write_greenlet_id]) = "write"
    /\ \A g \in Greenlets : pc[g] = "sp_wait_tx" => write_greenlet_id # g

\* The savepoints are the ones of the contexts of savepoint_greenlet_id.
StackPart(g) ==
    IF g = savepoint_greenlet_id
    THEN /\ Len(frames[g]) = Offset(frames[g]) + Len(savepoints)
         /\ \A i \in 1..Len(savepoints) :
               frames[g][Offset(frames[g]) + i].name = savepoints[i]
    ELSE Len(frames[g]) = Offset(frames[g])

StackInv ==
    /\ Len(savepoints) = Len(marks)
    /\ \A i \in 1..Len(savepoints) : marks[i].name = savepoints[i]
    /\ \A i, j \in 1..Len(savepoints) : savepoints[i] = savepoints[j] => i = j
    /\ savepoints = <<>> <=> savepoint_greenlet_id = NoOne
    /\ \A g \in Greenlets : StackPart(g)

SavepointInv == TypeIInv /\ PlaceInv /\ AloneInv /\ TxInv /\ StackInv

-----------------------------------------------------------------------------
(* Stacks of contexts, up to their rows *)

\* The first n contexts of s and of t are the same contexts.
Alike(s, t, n) == \A i \in 1..n : t[i].kind = s[i].kind /\ t[i].name = s[i].name

Kept(s, t) == Len(t) = Len(s) /\ Alike(s, t, Len(s))
Popped(s, t) == Len(t) = Len(s) - 1 /\ Alike(s, t, Len(s) - 1)
Pushed(s, t, f) == Len(t) = Len(s) + 1 /\ Alike(s, t, Len(s)) /\ t[Len(s) + 1] = f

\* The last position.
LEMMA LastIndex == \A n \in Nat \ {0} : n \in 1..n
  OBVIOUS

\* Positions in a stack of o other contexts and m savepoints.
LEMMA Positions ==
    ASSUME NEW m \in Nat \ {0}, NEW o \in {0, 1}, NEW n, n = o + m
    PROVE  /\ n - 1 \in 0..(n - 1) /\ (n # 1 => 1 \in 0..(n - 1))
           /\ \A i \in 1..(m - 1) : i \in 1..m /\ o + i - 1 \in 0..(n - 1)
  OBVIOUS

\* A stack is empty or starts with a context.
LEMMA BaseFacts ==
    ASSUME NEW s \in Seq(Frame)
    PROVE  /\ Len(s) \in Nat
           /\ s = <<>> <=> Base(s) = "none"
           /\ s = <<>> <=> Len(s) = 0
           /\ Base(s) \in Kinds \union {"none"}
           /\ s # <<>> => Base(s) = s[1].kind
           /\ Offset(s) \in {0, 1}
           /\ Offset(s) = 0 <=> Base(s) \in {"none", "savepoint"}
  <1>1. Len(s) \in Nat /\ (s = <<>> <=> Len(s) = 0)
    BY Zenon, LengthFacts
  <1>2. s # <<>> => s[1] \in Frame
    BY <1>1, ElementFacts
  <1>3. s # <<>> => s[1].kind \in Kinds
    BY Zenon, <1>2 DEF Frame
  <1>4. s = <<>> <=> Base(s) = "none"
    BY Zenon, <1>3 DEF Base, Kinds
  <1>5. Base(s) \in Kinds \union {"none"} /\ (s # <<>> => Base(s) = s[1].kind)
    BY Zenon, <1>3 DEF Base
  <1>6. Offset(s) \in {0, 1} /\ (Offset(s) = 0 <=> Base(s) \in {"none", "savepoint"})
    BY DEF Offset
  <1>7. QED BY Zenon, <1>1, <1>4, <1>5, <1>6

\* Changing rows changes neither the outermost context nor the nesting.
LEMMA BaseKept ==
    ASSUME NEW s \in Seq(Frame), NEW t \in Seq(Frame), Kept(s, t)
    PROVE  Base(t) = Base(s) /\ (Nested(s) => Nested(t))
  <1>1. Len(s) \in Nat /\ (s = <<>> <=> t = <<>>)
    BY Zenon, LengthFacts DEF Kept
  <1>2. Base(t) = Base(s)
    BY <1>1, LengthFacts DEF Base, Kept, Alike
  <1>3. Nested(s) => Nested(t)
    BY <1>1 DEF Nested, Kept, Alike
  <1>4. QED BY Zenon, <1>2, <1>3

\* Leaving the only context leaves none; leaving another keeps the outermost one.
LEMMA BasePopped ==
    ASSUME NEW s \in Seq(Frame), NEW t \in Seq(Frame), s # <<>>, Popped(s, t)
    PROVE  /\ Len(s) = 1 => t = <<>> /\ Base(t) = "none"
           /\ Len(s) # 1 => t # <<>> /\ Base(t) = Base(s)
           /\ Nested(s) => Nested(t)
  <1>1. Len(s) \in Nat /\ Len(s) # 0 /\ Len(t) = Len(s) - 1
    BY Zenon, LengthFacts DEF Popped
  <1>2. Len(s) = 1 => t = <<>> /\ Base(t) = "none"
    BY <1>1, LengthFacts DEF Base
  <1>3. ASSUME Len(s) # 1 PROVE t # <<>> /\ Base(t) = Base(s)
    <2>1. 1 \in 1..(Len(s) - 1) /\ Len(t) # 0
      BY <1>1, <1>3
    <2>2. t # <<>> /\ t[1].kind = s[1].kind
      BY Zenon, <2>1, LengthFacts DEF Popped, Alike
    <2>3. QED BY Zenon, <2>2 DEF Base
  <1>4. Nested(s) => Nested(t)
    BY <1>1 DEF Nested, Popped, Alike
  <1>5. QED BY Zenon, <1>2, <1>3, <1>4

\* Opening a context in an empty stack makes it the outermost one.
LEMMA BasePushed ==
    ASSUME NEW s \in Seq(Frame), NEW t \in Seq(Frame), NEW f \in Frame, Pushed(s, t, f)
    PROVE  /\ t # <<>>
           /\ s = <<>> => Base(t) = f.kind
           /\ s # <<>> => Base(t) = Base(s)
           /\ s = <<>> => Nested(t)
           /\ Nested(s) /\ f.kind = "savepoint" => Nested(t)
  <1>1. Len(s) \in Nat /\ Len(t) = Len(s) + 1 /\ t[Len(s) + 1] = f /\ (s = <<>> <=> Len(s) = 0)
    BY Zenon, LengthFacts DEF Pushed
  <1>2. t # <<>>
    BY <1>1, LengthFacts
  <1>3. s = <<>> => Base(t) = f.kind
    BY <1>1, <1>2 DEF Base
  <1>4. s # <<>> => Base(t) = Base(s)
    <2>1. s # <<>> => 1 \in 1..Len(s)
      BY <1>1
    <2>2. s # <<>> => t[1].kind = s[1].kind
      BY Zenon, <2>1 DEF Pushed, Alike
    <2>3. QED BY Zenon, <1>2, <2>2 DEF Base
  <1>5. s = <<>> => Nested(t)
    BY <1>1 DEF Nested
  <1>6. Nested(s) /\ f.kind = "savepoint" => Nested(t)
    BY <1>1 DEF Nested, Pushed, Alike
  <1>7. QED BY Zenon, <1>2, <1>3, <1>4, <1>5, <1>6

\* A context on top that is no savepoint is the only one.
LEMMA TopOuter ==
    ASSUME NEW s \in Seq(Frame), s # <<>>, Nested(s), s[Len(s)].kind # "savepoint"
    PROVE  Len(s) = 1 /\ Base(s) = s[Len(s)].kind
  <1>1. Len(s) \in Nat /\ Len(s) # 0
    BY Zenon, LengthFacts
  <1>2. Len(s) = 1
    <2>1. \A n \in Nat : n # 0 /\ n # 1 => n \in 2..n
      OBVIOUS
    <2>2. QED BY Zenon, <1>1, <2>1 DEF Nested
  <1>3. QED BY Zenon, <1>2 DEF Base

-----------------------------------------------------------------------------
(* What the steps do to the stack of the greenlet *)

\* Push opens a context without rows.
LEMMA PushOpens ==
    ASSUME FrameTypes, NEW g \in Greenlets, NEW k \in Kinds, NEW name \in Names \union {"none"},
           Push(g, k, name)
    PROVE  LET f == [kind |-> k, name |-> name, rows |-> {}]
           IN  /\ f \in Frame
               /\ frames'[g] \in Seq(Frame)
               /\ frames'[g] = Append(frames[g], f)
               /\ Pushed(frames[g], frames'[g], f)
  <1> DEFINE f == [kind |-> k, name |-> name, rows |-> {}]
  <1>1. f \in Frame
    BY Zenon DEF Frame
  <1>2. frames'[g] = Append(frames[g], f) /\ frames[g] \in Seq(Frame)
    BY Zenon DEF Push, FrameTypes
  <1> HIDE DEF f
  <1>3. frames'[g] \in Seq(Frame) /\ Pushed(frames[g], frames'[g], f)
    BY <1>1, <1>2, PushFacts DEF Pushed, Alike
  <1>4. QED BY Zenon, <1>1, <1>2, <1>3 DEF f

\* Pop leaves the innermost context.
LEMMA PopLeaves ==
    ASSUME FrameTypes, NEW g \in Greenlets, frames[g] # <<>>, Pop(g)
    PROVE  /\ frames'[g] \in Seq(Frame)
           /\ Popped(frames[g], frames'[g])
           /\ \A i \in 1..(Len(frames[g]) - 1) : frames'[g][i] = frames[g][i]
  <1>1. frames'[g] = SubSeq(frames[g], 1, Len(frames[g]) - 1) /\ frames[g] \in Seq(Frame)
    BY Zenon DEF Pop, FrameTypes
  <1>2. QED BY <1>1, PopFacts DEF Popped, Alike

\* PopInto leaves it too; the context below takes its rows over.
LEMMA PopIntoLeaves ==
    ASSUME FrameTypes, NEW g \in Greenlets, frames[g] # <<>>, Len(frames[g]) # 1, PopInto(g)
    PROVE  LET n == Len(frames[g])
           IN  /\ frames'[g] \in Seq(Frame)
               /\ Popped(frames[g], frames'[g])
               /\ \A i \in 1..(n - 2) : frames'[g][i] = frames[g][i]
               /\ frames'[g][n - 1].rows = frames[g][n - 1].rows \union frames[g][n].rows
  <1> DEFINE n == Len(frames[g])
             outer == SubSeq(frames[g], 1, n - 1)
             r == outer[n - 1].rows \union Top(g).rows
             f == [outer[n - 1] EXCEPT !.rows = r]
  <1>1. frames[g] \in Seq(Frame)
    BY Zenon DEF FrameTypes
  <1>2. /\ n \in Nat \ {0} /\ n # 1 /\ outer \in Seq(Frame) /\ Len(outer) = n - 1
        /\ \A i \in 1..(n - 1) : outer[i] = frames[g][i]
        /\ Top(g) \in Frame /\ Top(g) = frames[g][n]
    BY Zenon, <1>1, PopFacts DEF Top
  <1>3. n - 1 \in 1..Len(outer) /\ n - 1 \in 1..(n - 1) /\ \A i \in 1..(n - 2) : i \in 1..(n - 1) /\ i # n - 1
    <2> HIDE DEF n, outer
    <2>1. QED BY <1>2
  <1>4. outer[n - 1] \in Frame /\ outer[n - 1] = frames[g][n - 1]
    BY Zenon, <1>2, <1>3, ElementFacts
  <1>5. r \in SUBSET Rows
    BY <1>2, <1>4, Zenon DEF Frame
  <1>6. f \in Frame /\ f.kind = outer[n - 1].kind /\ f.name = outer[n - 1].name /\ f.rows = r
    BY Zenon, <1>4, <1>5 DEF Frame
  <1>7. frames'[g] = [outer EXCEPT ![n - 1] = f]
    BY Zenon DEF PopInto, FrameTypes
  <1>8. /\ frames'[g] \in Seq(Frame)
        /\ Len(frames'[g]) = n - 1
        /\ \A j \in 1..(n - 1) : frames'[g][j] = IF j = n - 1 THEN f ELSE outer[j]
    <2> HIDE DEF f, outer, n
    <2>1. QED BY <1>2, <1>3, <1>6, <1>7, ReplaceFacts
  <1>9. \A j \in 1..(n - 1) : frames'[g][j].kind = frames[g][j].kind
                              /\ frames'[g][j].name = frames[g][j].name
    <2> HIDE DEF f, outer, n
    <2>1. QED BY Zenon, <1>2, <1>4, <1>6, <1>8
  <1>10. frames'[g][n - 1].rows = frames[g][n - 1].rows \union frames[g][n].rows
    <2>1. frames'[g][n - 1] = f
      <3> HIDE DEF f, outer, n
      <3>1. QED BY Zenon, <1>3, <1>8
    <2>2. f.rows = outer[n - 1].rows \union Top(g).rows
      BY Zenon, <1>6
    <2> HIDE DEF f, outer, n
    <2>3. QED BY Zenon, <1>2, <1>4, <2>1, <2>2
  <1>11. \A i \in 1..(n - 2) : frames'[g][i] = frames[g][i]
    <2> HIDE DEF f, outer, n
    <2>1. QED BY Zenon, <1>2, <1>3, <1>8
  <1>12. Popped(frames[g], frames'[g])
    <2>1. Len(frames'[g]) = Len(frames[g]) - 1 /\ Alike(frames[g], frames'[g], Len(frames[g]) - 1)
      BY Zenon, <1>8, <1>9 DEF Alike
    <2>2. QED BY Zenon, <2>1 DEF Popped
  <1>13. QED
    BY Zenon, <1>8, <1>10, <1>11, <1>12

\* Insert adds a row to the innermost context.
LEMMA InsertAdds ==
    ASSUME FrameTypes, NEW g \in Greenlets, Insert(g)
    PROVE  LET n == Len(frames[g])
           IN  /\ frames'[g] \in Seq(Frame)
               /\ Kept(frames[g], frames'[g])
               /\ \A i \in 1..(n - 1) : frames'[g][i] = frames[g][i]
               /\ frames'[g][n].rows = frames[g][n].rows \union {<<g, opened[g]>>}
  <1> DEFINE n == Len(frames[g])
             r == Top(g).rows \union {<<g, opened[g]>>}
             f == [frames[g][n] EXCEPT !.rows = r]
  <1>1. frames[g] \in Seq(Frame) /\ frames[g] # <<>>
    BY Zenon DEF FrameTypes, Insert, InTx, TopIs
  <1>2. /\ n \in Nat \ {0} /\ Top(g) \in Frame /\ Top(g) = frames[g][n] /\ frames[g][n] \in Frame
    BY Zenon, <1>1, PopFacts DEF Top
  <1>3. n \in 1..n /\ \A i \in 1..(n - 1) : i \in 1..n /\ i # n
    <2> HIDE DEF n
    <2>1. QED BY <1>2
  <1>4. r \in SUBSET Rows
    BY <1>2 DEF Frame, FrameTypes, Rows
  <1>5. f \in Frame /\ f.kind = frames[g][n].kind /\ f.name = frames[g][n].name /\ f.rows = r
    BY Zenon, <1>2, <1>4 DEF Frame
  <1>6. frames'[g] = [frames[g] EXCEPT ![n] = f]
    BY Zenon DEF Insert, Top, FrameTypes
  <1>7. /\ frames'[g] \in Seq(Frame)
        /\ Len(frames'[g]) = n
        /\ \A j \in 1..n : frames'[g][j] = IF j = n THEN f ELSE frames[g][j]
    <2> HIDE DEF f
    <2>1. QED BY <1>1, <1>3, <1>5, <1>6, ReplaceFacts
  <1>8. \A j \in 1..n : frames'[g][j].kind = frames[g][j].kind
                        /\ frames'[g][j].name = frames[g][j].name
    <2> HIDE DEF f, n
    <2>1. QED BY Zenon, <1>5, <1>7
  <1>9. frames'[g][n].rows = frames[g][n].rows \union {<<g, opened[g]>>}
    <2>1. frames'[g][n] = f
      <3> HIDE DEF f, n
      <3>1. QED BY Zenon, <1>3, <1>7
    <2>2. f.rows = Top(g).rows \union {<<g, opened[g]>>}
      BY Zenon, <1>5
    <2> HIDE DEF f, n
    <2>3. QED BY Zenon, <1>2, <2>1, <2>2
  <1>10. \A i \in 1..(n - 1) : frames'[g][i] = frames[g][i]
    <2> HIDE DEF f, n
    <2>1. QED BY Zenon, <1>3, <1>7
  <1>11. QED
    BY Zenon, <1>7, <1>8, <1>9, <1>10 DEF Kept, Alike

\* The first context of a greenlet is its outermost one.
LEMMA OpenOuter ==
    ASSUME FrameTypes, NEW g \in Greenlets, frames[g] = <<>>, NEW k \in Kinds, Push(g, k, "none")
    PROVE  frames'[g] # <<>> /\ Base(frames'[g]) = k /\ Nested(frames'[g])
  <1> DEFINE f == [kind |-> k, name |-> "none", rows |-> {}]
  <1>1. f \in Frame /\ frames'[g] \in Seq(Frame) /\ Pushed(frames[g], frames'[g], f)
    BY Zenon, PushOpens
  <1>2. f.kind = k
    BY Zenon
  <1> HIDE DEF f
  <1>3. frames[g] \in Seq(Frame)
    BY Zenon DEF FrameTypes
  <1>4. QED BY Zenon, <1>1, <1>2, <1>3, BasePushed

\* A savepoint is opened inside of whatever is open.
LEMMA OpenSavepoint ==
    ASSUME FrameTypes, NEW g \in Greenlets, Nested(frames[g]), NEW name \in Names,
           Push(g, "savepoint", name)
    PROVE  /\ frames'[g] # <<>> /\ Nested(frames'[g])
           /\ Base(frames'[g]) = IF frames[g] = <<>> THEN "savepoint" ELSE Base(frames[g])
  <1> DEFINE f == [kind |-> "savepoint", name |-> name, rows |-> {}]
  <1>1. f \in Frame /\ frames'[g] \in Seq(Frame) /\ Pushed(frames[g], frames'[g], f)
    BY Zenon, PushOpens DEF Kinds
  <1>2. f.kind = "savepoint"
    BY Zenon
  <1> HIDE DEF f
  <1>3. frames[g] \in Seq(Frame)
    BY Zenon DEF FrameTypes
  <1>4. QED BY Zenon, <1>1, <1>2, <1>3, BasePushed

\* A context that is no savepoint is left with all the others closed.
LEMMA CloseOuter ==
    ASSUME FrameTypes, NEW g \in Greenlets, Nested(frames[g]), NEW k \in Kinds, k # "savepoint",
           TopIs(g, k), Pop(g)
    PROVE  /\ Len(frames[g]) = 1 /\ Base(frames[g]) = k
           /\ frames'[g] = <<>> /\ Base(frames'[g]) = "none" /\ Nested(frames'[g])
  <1>1. /\ frames[g] \in Seq(Frame) /\ frames[g] # <<>> /\ frames[g][Len(frames[g])].kind = k
    BY Zenon DEF FrameTypes, TopIs, Top
  <1>2. Len(frames[g]) = 1 /\ Base(frames[g]) = k
    BY Zenon, <1>1, TopOuter
  <1>3. frames'[g] \in Seq(Frame) /\ Popped(frames[g], frames'[g])
    BY Zenon, <1>1, PopLeaves
  <1>4. QED BY Zenon, <1>1, <1>2, <1>3, BasePopped

\* A savepoint is left with the ones around it still open.
LEMMA CloseSavepoint ==
    ASSUME FrameTypes, NEW g \in Greenlets, Nested(frames[g]), TopIs(g, "savepoint"),
           Pop(g) \/ (PopInto(g) /\ Len(frames[g]) # 1)
    PROVE  /\ frames'[g] \in Seq(Frame) /\ Popped(frames[g], frames'[g]) /\ Nested(frames'[g])
           /\ Len(frames[g]) = 1 => /\ frames'[g] = <<>> /\ Base(frames'[g]) = "none"
                                    /\ Base(frames[g]) = "savepoint"
           /\ Len(frames[g]) # 1 => frames'[g] # <<>> /\ Base(frames'[g]) = Base(frames[g])
  <1>1. frames[g] \in Seq(Frame) /\ frames[g] # <<>>
    BY Zenon DEF FrameTypes, TopIs
  <1>2. frames'[g] \in Seq(Frame) /\ Popped(frames[g], frames'[g])
    BY Zenon, <1>1, PopLeaves, PopIntoLeaves
  <1>3. Len(frames[g]) = 1 => Base(frames[g]) = "savepoint"
    BY Zenon, <1>1 DEF TopIs, Top, Base
  <1>4. QED BY Zenon, <1>1, <1>2, <1>3, BasePopped

\* Writing changes no context.
LEMMA InsertKeeps ==
    ASSUME FrameTypes, NEW g \in Greenlets, Insert(g)
    PROVE  /\ frames'[g] # <<>> /\ Base(frames'[g]) = Base(frames[g])
           /\ Nested(frames[g]) => Nested(frames'[g])
  <1>1. frames[g] \in Seq(Frame) /\ frames[g] # <<>>
    BY Zenon DEF FrameTypes, Insert, InTx, TopIs
  <1>2. frames'[g] \in Seq(Frame) /\ Kept(frames[g], frames'[g])
    BY Zenon, InsertAdds
  <1>3. frames'[g] # <<>>
    BY Zenon, <1>1, <1>2, LengthFacts DEF Kept
  <1>4. QED BY Zenon, <1>1, <1>2, <1>3, BaseKept

\* A step changes the exception of its own greenlet only.
LEMMA OthersRaised ==
    ASSUME CtxTypes, NEW g \in Greenlets, Step(g), NEW h \in Greenlets, h # g
    PROVE  raised'[h] = raised[h]
  <1>1. UNCHANGED raised \/ \E e \in Errors : raised' = [raised EXCEPT ![g] = e]
    <2>1. CASE \/ Block(g) \/ CallbackReturn(g) \/ Finish(g) \/ Die(g) \/ WaitSavepoints(g)
               \/ CriticalEnter(g) \/ AcquireLock(g) \/ ExitWrite(g) \/ ExitCritical(g)
               \/ ExitCriticalLock(g) \/ CriticalExit(g) \/ EnterSavepoint(g) \/ WaitTransaction(g)
               \/ UnwindWrite(g) \/ UnwindCritical(g) \/ Commit(g) \/ Rollback(g)
               \/ Switch(g) \/ Yield(g) \/ Callback(g) \/ WriteCtx(g) \/ CriticalCtx(g)
               \/ CriticalLockCtx(g) \/ SavepointCtx(g) \/ Insert(g) \/ ExecuteScript(g)
               \/ ExecuteDirect(g) \/ EndUpdate(g) \/ Catch(g)
      BY Zenon, <2>1 DEF Block, CallbackReturn, Finish, Die, WaitSavepoints, CriticalEnter,
         AcquireLock, ExitWrite, ExitCritical, ExitCriticalLock, CriticalExit, EnterSavepoint,
         WaitTransaction, UnwindWrite, UnwindCritical, Commit, Rollback, Switch, Yield, Callback,
         WriteCtx, CriticalCtx, CriticalLockCtx, SavepointCtx, Request, Insert, ExecuteScript,
         ExecuteDirect, EndUpdate, Catch, ctxVars
    <2>2. CASE \/ Begin(g) \/ ExitSavepoint(g) \/ UnwindSavepoint(g) \/ Raise(g)
               \/ \E name \in Names : CreateSavepoint(g, name)
      BY Zenon, <2>2 DEF Begin, ExitSavepoint, UnwindSavepoint, Raise, CreateSavepoint, Errors
    <2>3. CASE \E error \in KillErrors : Kill(g, error)
      BY Zenon, <2>3, BoundsAndErrors DEF Kill, Errors
    <2>4. QED BY Zenon, <2>1, <2>2, <2>3 DEF Step, Progress
  <1>2. QED BY Zenon, <1>1 DEF CtxTypes
-----------------------------------------------------------------------------
(* Who has a context open *)

\* The contexts of who owns no savepoint are at most the outermost one.
LEMMA NotOwner ==
    ASSUME TypeIInv, StackInv, NEW g \in Greenlets, g # savepoint_greenlet_id
    PROVE  /\ Base(frames[g]) # "savepoint" /\ ~TopIs(g, "savepoint")
           /\ frames[g] # <<>> => Len(frames[g]) = 1
  <1>1. frames[g] \in Seq(Frame)
    BY Zenon DEF TypeIInv, LockIInv, FrameTypes
  <1>2. Len(frames[g]) = Offset(frames[g])
    BY Zenon DEF StackInv, StackPart
  <1>3. Base(frames[g]) # "savepoint" /\ (frames[g] # <<>> => Len(frames[g]) = 1)
    BY Zenon, <1>1, <1>2, BaseFacts
  <1>4. QED BY Zenon, <1>1, <1>3 DEF TopIs, Top, Base

\* Who owns savepoints has contexts open.
LEMMA Owner ==
    ASSUME TypeIInv, StackInv, savepoint_greenlet_id # NoOne
    PROVE  /\ savepoint_greenlet_id \in Greenlets
           /\ frames[savepoint_greenlet_id] # <<>>
           /\ savepoints # <<>>
  <1>1. savepoint_greenlet_id \in Greenlets /\ savepoints \in Seq(Names)
    BY Zenon DEF TypeIInv, IdTypes, OwnerOrNoOne
  <1>2. savepoints # <<>>
    BY Zenon DEF StackInv, StackPart
  <1>3. Len(savepoints) \in Nat /\ Len(savepoints) # 0
    BY Zenon, <1>1, <1>2, LengthFacts
  <1>4. frames[savepoint_greenlet_id] \in Seq(Frame)
    BY Zenon, <1>1 DEF TypeIInv, LockIInv, FrameTypes
  <1>5. Len(frames[savepoint_greenlet_id])
            = Offset(frames[savepoint_greenlet_id]) + Len(savepoints)
    BY Zenon, <1>1 DEF StackInv, StackPart
  <1>6. frames[savepoint_greenlet_id] # <<>>
    BY <1>3, <1>4, <1>5, BaseFacts
  <1>7. QED BY Zenon, <1>1, <1>2, <1>6

\* At any time one greenlet at most has contexts open.
LEMMA OneOpen ==
    ASSUME SavepointInv, NEW g \in Greenlets, NEW h \in Greenlets,
           frames[g] # <<>>, frames[h] # <<>>
    PROVE  g = h
  <1> USE DEF SavepointInv
  <1> SUFFICES ASSUME g # h PROVE FALSE
    BY Zenon
  <1>1. PICK x \in {g, h}, y \in {g, h} : x # y /\ x # savepoint_greenlet_id
    BY Zenon
  <1>2. frames[x] # <<>> /\ frames[y] # <<>> /\ x \in Greenlets /\ y \in Greenlets
    BY Zenon, <1>1
  <1>3. frames[x] \in Seq(Frame)
    BY Zenon, <1>2 DEF TypeIInv, LockIInv, FrameTypes
  <1>4. Base(frames[x]) \notin {"none", "savepoint"}
    BY Zenon, <1>1, <1>2, <1>3, NotOwner, BaseFacts
  <1>5. running = x /\ in_callback = NoOne
    BY Zenon, <1>2, <1>4 DEF AloneInv, AlonePart, Alone
  <1>6. QED BY Zenon, <1>1, <1>2, <1>5, NoOneIsNoGreenlet DEF AloneInv, AlonePart

\* When nobody is inside the callback, only who executes has contexts open.
LEMMA QuietOpen ==
    ASSUME AloneInv, in_callback = NoOne, NEW g \in Greenlets, frames[g] # <<>>
    PROVE  running = g
  BY Zenon, NoOneIsNoGreenlet DEF AloneInv, AlonePart

\* Then there are no savepoints but the ones of who executes.
LEMMA QuietSavepoints ==
    ASSUME SavepointInv, in_callback = NoOne, savepoint_greenlet_id # NoOne
    PROVE  running = savepoint_greenlet_id
  BY Zenon, Owner, QuietOpen DEF SavepointInv

-----------------------------------------------------------------------------
(* The invariant is inductive *)

\* write_ctx goes on to the critical section only without a context open.
LEMMA WriteCtxIsOuter ==
    ASSUME SavepointsRunThrough, SavepointInv, NEW g \in Greenlets, WriteCtx(g),
           savepoints = <<>> \/ savepoint_greenlet_id # g
    PROVE  frames[g] = <<>>
  <1> USE DEF SavepointInv
  <1> SUFFICES ASSUME frames[g] # <<>> PROVE FALSE
    BY Zenon
  <1>1. savepoint_greenlet_id # g
    BY Zenon, NoOneIsNoGreenlet DEF StackInv, StackPart
  <1>2. frames[g] \in Seq(Frame) /\ Len(frames[g]) = 1
    BY Zenon, <1>1, NotOwner DEF TypeIInv, LockIInv, FrameTypes
  <1>3. Base(frames[g]) = frames[g][1].kind /\ Base(frames[g]) \in Kinds
    BY Zenon, <1>2, BaseFacts
  <1>4. HasKind(g, Base(frames[g]))
    BY <1>2, <1>3 DEF HasKind
  <1>5. g \in Writers /\ ~HasKind(g, "critical_lock") /\ (HasKind(g, "write") => TopIs(g, "savepoint"))
    BY Zenon DEF WriteCtx, SavepointsRunThrough
  <1>6. Base(frames[g]) # "critical"
    BY Zenon, <1>5 DEF PlaceInv, PlacePart, SavepointsRunThrough
  <1>7. QED
    BY Zenon, <1>1, <1>3, <1>4, <1>5, <1>6, NotOwner DEF Kinds

\* Every step keeps the places: outside of the contexts where the code is, with the
\* savepoints innermost, and a rollback for every exception inside of them.
LEMMA PlacePartStep ==
    ASSUME SavepointsRunThrough, SavepointInv, NEW g \in Greenlets, Step(g)
    PROVE  PlacePart(g)'
  <1> USE NoOneIsNoGreenlet DEF SavepointInv
  <1> DEFINE Part == /\ Nested(frames'[g])
                     /\ pc'[g] \in Idle => frames'[g] = <<>>
                     /\ pc'[g] = "raise" /\ frames'[g] # <<>> => raised'[g] = "Exception"
                     /\ Base(frames'[g]) = "critical" => g \in Exporters
                     /\ pc'[g] = "cs_enter" /\ want'[g] = "critical" => g \in Exporters
                     /\ pc'[g] = "wait_savepoints" => want'[g] = "write"
  <1> SUFFICES Part
    BY Zenon DEF PlacePart
  <1>1. FrameTypes /\ CtxTypes
    BY Zenon DEF TypeIInv, LockIInv
  <1>2. \A label \in Labels : Goto(g, label) => pc'[g] = label
    BY Zenon, <1>1 DEF Goto, FrameTypes
  <1>3. \A e \in Errors : raised' = [raised EXCEPT ![g] = e] => raised'[g] = e
    BY Zenon, <1>1 DEF CtxTypes
  <1>4. /\ Nested(frames[g])
        /\ pc[g] \in Idle => frames[g] = <<>>
        /\ pc[g] = "raise" /\ frames[g] # <<>> => raised[g] = "Exception"
        /\ Base(frames[g]) = "critical" => g \in Exporters
        /\ pc[g] = "cs_enter" /\ want[g] = "critical" => g \in Exporters
        /\ pc[g] = "wait_savepoints" => want[g] = "write"
    BY Zenon DEF PlaceInv, PlacePart
  <1>5. CASE Block(g) \/ Switch(g) \/ Yield(g) \/ ExecuteScript(g)
    <2>1. UNCHANGED <<pc, frames, raised, want>>
      BY Zenon, <1>5 DEF Block, Switch, Yield, ExecuteScript, ctxVars
    <2>2. QED BY Zenon, <1>4, <2>1
  <1>6. CASE \/ Callback(g) \/ CallbackReturn(g) \/ CriticalExit(g) \/ EnterSavepoint(g)
             \/ WaitTransaction(g) \/ Catch(g) \/ Commit(g) \/ Rollback(g)
    <2>1. /\ UNCHANGED <<frames, raised, want>>
          /\ \E label \in {"callback", "run", "sp_wait_tx", "sp_create"} : Goto(g, label)
      BY Zenon, <1>6 DEF Callback, CallbackReturn, CriticalExit, EnterSavepoint,
         WaitTransaction, Catch, Commit, Rollback, ctxVars
    <2>2. pc'[g] \in {"callback", "run", "sp_wait_tx", "sp_create"}
      BY Zenon, <1>2, <2>1 DEF Labels
    <2>3. QED BY Zenon, <1>4, <2>1, <2>2 DEF Idle
  <1>7. CASE Finish(g) \/ Die(g) \/ EndUpdate(g) \/ ExecuteDirect(g)
    <2>1. /\ UNCHANGED <<frames, raised, want>> /\ frames[g] = <<>>
          /\ \E label \in {"done", "commit", "rollback"} : Goto(g, label)
      BY Zenon, <1>7 DEF Finish, Die, EndUpdate, ExecuteDirect, ctxVars, InBody
    <2>2. pc'[g] \in {"done", "commit", "rollback"}
      BY Zenon, <1>2, <2>1 DEF Labels
    <2>3. QED BY Zenon, <1>4, <2>1, <2>2
  <1>8. CASE WaitSavepoints(g)
    <2>1. UNCHANGED <<frames, raised, want>> /\ pc[g] = "wait_savepoints" /\ Goto(g, "cs_enter")
      BY Zenon, <1>8 DEF WaitSavepoints, ctxVars, At
    <2>2. pc'[g] = "cs_enter" /\ want[g] = "write" /\ frames[g] = <<>>
      BY Zenon, <1>2, <1>4, <2>1 DEF Labels, Idle
    <2>3. QED BY Zenon, <1>4, <2>1, <2>2
  <1>9. CASE WriteCtx(g) \/ CriticalCtx(g) \/ CriticalLockCtx(g) \/ SavepointCtx(g)
    <2>1. UNCHANGED <<frames, raised>>
      BY Zenon, <1>9 DEF WriteCtx, CriticalCtx, CriticalLockCtx, SavepointCtx, Request
    <2>2. \A k \in Kinds : Request(g, k) => want'[g] = k
      BY Zenon, <1>1 DEF Request, FrameTypes
    <2>3. CASE CriticalCtx(g)
      <3>1. pc'[g] = "cs_enter" /\ frames'[g] = <<>> /\ g \in Exporters
        BY Zenon, <1>2, <2>1, <2>3 DEF CriticalCtx, InBody, SavepointsRunThrough, Labels
      <3>2. QED BY Zenon, <1>4, <2>1, <3>1
    <2>4. CASE WriteCtx(g)
      <3>1. want'[g] = "write"
        BY Zenon, <2>2, <2>4 DEF WriteCtx, Kinds
      <3>2. /\ pc'[g] \in {"cs_enter", "wait_savepoints", "sp_enter"}
            /\ pc'[g] # "sp_enter" => savepoints = <<>> \/ savepoint_greenlet_id # g
        BY Zenon, <1>2, <2>4 DEF WriteCtx, Labels
      <3>3. pc'[g] # "sp_enter" => frames[g] = <<>>
        BY Zenon, <2>4, <3>2, WriteCtxIsOuter
      <3>4. QED BY Zenon, <1>4, <2>1, <3>1, <3>2, <3>3 DEF Idle
    <2>5. CASE CriticalLockCtx(g)
      <3>1. pc'[g] = "cs_enter" /\ want'[g] = "critical_lock" /\ frames'[g] = <<>>
        BY Zenon, <1>2, <2>1, <2>2, <2>5 DEF CriticalLockCtx, InBody, Kinds, Labels
      <3>2. QED BY Zenon, <1>4, <2>1, <3>1
    <2>6. CASE SavepointCtx(g)
      <3>1. pc'[g] = "sp_enter"
        BY Zenon, <1>2, <2>6 DEF SavepointCtx, Labels
      <3>2. QED BY Zenon, <1>4, <2>1, <3>1 DEF Idle
    <2>7. QED BY Zenon, <1>9, <2>3, <2>4, <2>5, <2>6
  <1>10. CASE Raise(g) \/ \E error \in KillErrors : Kill(g, error)
    <2>1. UNCHANGED <<frames, want>> /\ Goto(g, "raise")
      BY Zenon, <1>10 DEF Raise, Kill
    <2>2. frames[g] # <<>> => raised'[g] = "Exception"
      <3>1. CASE Raise(g)
        BY Zenon, <1>3, <3>1 DEF Raise, Errors
      <3>2. ASSUME NEW error \in KillErrors, Kill(g, error), frames[g] # <<>>
            PROVE  raised'[g] = "Exception"
        <4>1. running = NoOne
          BY Zenon, <3>2 DEF Kill
        <4>2. pc[g] = "callback"
          BY Zenon, <3>2, <4>1 DEF AloneInv, AlonePart
        <4>3. QED BY Zenon, <1>3, <3>2, <4>2 DEF Kill, Errors
      <3>3. QED BY Zenon, <1>10, <3>1, <3>2
    <2>3. pc'[g] = "raise"
      BY Zenon, <1>2, <2>1 DEF Labels
    <2>4. QED BY Zenon, <1>4, <2>1, <2>2, <2>3 DEF Idle
  <1>11. CASE CriticalEnter(g) \/ AcquireLock(g) \/ Begin(g)
    <2>1. /\ frames[g] = <<>> /\ UNCHANGED want
          /\ UNCHANGED raised \/ raised' = [raised EXCEPT ![g] = "Exception"]
          /\ \/ UNCHANGED frames /\ \E label \in {"lock", "begin", "raise"} : Goto(g, label)
             \/ \E k \in {"critical_lock", "write"} : Push(g, k, "none") /\ Goto(g, "run")
             \/ Push(g, "critical", "none") /\ Goto(g, "run") /\ g \in Exporters
      BY Zenon, <1>4, <1>11 DEF CriticalEnter, AcquireLock, Begin, At, Idle
    <2>2. CASE UNCHANGED frames /\ \E label \in {"lock", "begin", "raise"} : Goto(g, label)
      <3>1. pc'[g] \in {"lock", "begin", "raise"}
        BY Zenon, <1>2, <2>2 DEF Labels
      <3>2. QED BY Zenon, <1>4, <2>1, <2>2, <3>1
    <2>3. CASE \E k \in {"critical_lock", "write"} : Push(g, k, "none") /\ Goto(g, "run")
      <3>1. pc'[g] = "run"
        BY Zenon, <1>2, <2>3 DEF Labels
      <3>2. Nested(frames'[g]) /\ Base(frames'[g]) # "critical"
        BY Zenon, <1>1, <2>1, <2>3, OpenOuter DEF Kinds
      <3>3. QED BY Zenon, <3>1, <3>2 DEF Idle
    <2>4. CASE Push(g, "critical", "none") /\ Goto(g, "run") /\ g \in Exporters
      <3>1. pc'[g] = "run"
        BY Zenon, <1>2, <2>4 DEF Labels
      <3>2. Nested(frames'[g])
        BY Zenon, <1>1, <2>1, <2>4, OpenOuter DEF Kinds
      <3>3. QED BY Zenon, <2>4, <3>1, <3>2 DEF Idle
    <2>5. QED BY Zenon, <2>1, <2>2, <2>3, <2>4
  <1>12. CASE \E name \in Names : CreateSavepoint(g, name)
    <2>1. \/ UNCHANGED frames /\ raised' = [raised EXCEPT ![g] = "Exception"] /\ Goto(g, "raise")
          \/ Goto(g, "run") /\ \E name \in Names : Push(g, "savepoint", name)
      BY Zenon, <1>12 DEF CreateSavepoint
    <2>2. CASE UNCHANGED frames /\ raised' = [raised EXCEPT ![g] = "Exception"] /\ Goto(g, "raise")
      <3>1. pc'[g] = "raise" /\ raised'[g] = "Exception"
        BY Zenon, <1>2, <1>3, <2>2 DEF Labels, Errors
      <3>2. QED BY Zenon, <1>4, <2>2, <3>1 DEF Idle
    <2>3. CASE Goto(g, "run") /\ \E name \in Names : Push(g, "savepoint", name)
      <3>1. pc'[g] = "run"
        BY Zenon, <1>2, <2>3 DEF Labels
      <3>2. Nested(frames'[g]) /\ Base(frames'[g]) \in {"savepoint", Base(frames[g])}
        BY Zenon, <1>1, <1>4, <2>3, OpenSavepoint
      <3>3. QED BY Zenon, <1>4, <3>1, <3>2 DEF Idle
    <2>4. QED BY Zenon, <2>1, <2>2, <2>3
  <1>13. CASE \/ ExitWrite(g) \/ ExitCritical(g) \/ ExitCriticalLock(g)
              \/ UnwindWrite(g) \/ UnwindCritical(g)
    <2>1. /\ Pop(g) /\ \E k \in {"write", "critical", "critical_lock"} : TopIs(g, k)
          /\ UNCHANGED raised
          /\ Goto(g, "cs_exit") \/ (UNCHANGED pc /\ pc[g] = "raise")
      BY Zenon, <1>13 DEF ExitWrite, ExitCritical, ExitCriticalLock, UnwindWrite, UnwindCritical, At
    <2>2. frames'[g] = <<>> /\ Base(frames'[g]) = "none" /\ Nested(frames'[g])
      BY Zenon, <1>1, <1>4, <2>1, CloseOuter DEF Kinds
    <2>3. pc'[g] \in {"cs_exit", "raise"}
      BY Zenon, <1>2, <2>1 DEF Labels
    <2>4. QED BY Zenon, <2>2, <2>3
  <1>14. CASE ExitSavepoint(g) \/ UnwindSavepoint(g)
    <2>1. TopIs(g, "savepoint") /\ (Pop(g) \/ (PopInto(g) /\ Len(frames[g]) # 1))
      BY Zenon, <1>14 DEF ExitSavepoint, UnwindSavepoint, Outermost
    <2>2. /\ Nested(frames'[g]) /\ Base(frames'[g]) \in {"none", Base(frames[g])}
          /\ frames[g] # <<>>
      BY Zenon, <1>1, <1>4, <2>1, CloseSavepoint DEF TopIs
    <2>3. \/ UNCHANGED pc /\ pc[g] = "run"
          \/ Goto(g, "raise") /\ raised' = [raised EXCEPT ![g] = "Exception"]
          \/ /\ UNCHANGED pc /\ pc[g] = "raise"
             /\ UNCHANGED raised \/ raised' = [raised EXCEPT ![g] = "Exception"]
      BY Zenon, <1>14 DEF ExitSavepoint, UnwindSavepoint, At
    <2>4. \/ pc'[g] = "run"
          \/ pc'[g] = "raise" /\ raised'[g] = "Exception"
      BY Zenon, <1>2, <1>3, <1>4, <2>2, <2>3 DEF Labels, Errors
    <2>5. QED BY Zenon, <1>4, <2>2, <2>4 DEF Idle
  <1>15. CASE Insert(g)
    <2>1. UNCHANGED <<pc, raised, want>> /\ pc[g] = "run"
      BY Zenon, <1>15 DEF Insert, At
    <2>2. Nested(frames'[g]) /\ Base(frames'[g]) = Base(frames[g])
      BY Zenon, <1>1, <1>4, <1>15, InsertKeeps
    <2>3. QED BY Zenon, <1>4, <2>1, <2>2 DEF Idle
  <1>16. QED
    BY Zenon, <1>5, <1>6, <1>7, <1>8, <1>9, <1>10, <1>11, <1>12, <1>13, <1>14, <1>15
       DEF Step, Progress

\* PlaceInv: other greenlets stay where they are.
LEMMA PlaceStep ==
    ASSUME SavepointsRunThrough, SavepointInv, NEW g \in Greenlets, Step(g)
    PROVE  PlaceInv'
  <1>1. FrameTypes /\ CtxTypes /\ PlaceInv
    BY Zenon DEF SavepointInv, TypeIInv, LockIInv
  <1>2. ASSUME NEW h \in Greenlets, h # g
        PROVE  /\ frames'[h] = frames[h] /\ pc'[h] = pc[h] /\ want'[h] = want[h]
               /\ raised'[h] = raised[h]
    BY Zenon, <1>1, <1>2, OthersStay, OthersRaised
  <1>3. ASSUME NEW h \in Greenlets, h # g PROVE PlacePart(h)'
    BY Zenon, <1>1, <1>2, <1>3 DEF PlaceInv, PlacePart
  <1>4. QED
    BY Zenon, <1>3, PlacePartStep DEF PlaceInv

\* Who executes and has to wait is outside of all contexts and enters none alone.
LEMMA BlockedIsOutside ==
    ASSUME SavepointInv, NEW g \in Greenlets, running = g, Blocked(g)
    PROVE  frames[g] = <<>> /\ ~Alone(g) /\ pc[g] # "callback"
  <1> USE NoOneIsNoGreenlet DEF SavepointInv
  <1>0. frames[g] \in Seq(Frame) /\ (pc[g] \in Idle => frames[g] = <<>>)
    BY Zenon DEF TypeIInv, LockIInv, FrameTypes, PlaceInv, PlacePart
  <1>1. \A h \in Greenlets : Alone(h) => h = g
    BY Zenon DEF AloneInv, AlonePart
  <1>2. CASE pc[g] \in {"cs_enter", "cs_exit", "commit", "rollback", "wait_savepoints"}
    BY Zenon, <1>0, <1>2, BaseFacts DEF Idle, Alone
  <1>3. CASE pc[g] = "lock" /\ transaction_lock # NoOne
    <2>1. transaction_lock \in Greenlets
      BY Zenon, <1>3 DEF TypeIInv, LockIInv, FrameTypes, OwnerOrNoOne
    <2>2. Base(frames[transaction_lock]) \in Locking \/ pc[transaction_lock] = "begin"
      BY Zenon, <2>1 DEF AloneInv, AlonePart
    <2>3. transaction_lock = g
      BY Zenon, <1>1, <2>1, <2>2 DEF Alone, Locking
    <2>4. QED BY Zenon, <1>0, <1>3, <2>2, <2>3, BaseFacts DEF Idle, Locking
  <1>4. CASE pc[g] = "sp_wait_tx" /\ write_greenlet_id # NoOne
    <2>1. write_greenlet_id \in Greenlets /\ Base(frames[write_greenlet_id]) = "write"
      BY Zenon, <1>4 DEF TypeIInv, IdTypes, OwnerOrNoOne, TxInv
    <2>2. write_greenlet_id = g
      BY Zenon, <1>1, <2>1 DEF Alone
    <2>3. QED BY Zenon, <1>4, <2>2 DEF TxInv
  <1>5. CASE pc[g] = "sp_create" /\ savepoint_greenlet_id \notin {NoOne, g}
    BY Zenon, <1>0, <1>5, Owner, OneOpen, BaseFacts DEF Alone
  <1>6. QED BY Zenon, <1>2, <1>3, <1>4, <1>5 DEF Blocked

\* Nobody takes the callback's semaphore or the lock away from another greenlet.
LEMMA OthersKeepLocks ==
    ASSUME SavepointInv, NEW g \in Greenlets, Step(g), NEW h \in Greenlets, h # g
    PROVE  /\ in_callback = h => in_callback' = h
           /\ transaction_lock' = h => transaction_lock = h
  <1> USE NoOneIsNoGreenlet
  <1>0. pc[g] = "callback" => in_callback = g
    BY Zenon DEF SavepointInv, AloneInv, AlonePart
  <1>1. CASE \/ Block(g) \/ Switch(g) \/ Yield(g) \/ ExecuteScript(g) \/ Finish(g) \/ Die(g)
             \/ WaitSavepoints(g) \/ EnterSavepoint(g) \/ WaitTransaction(g) \/ EndUpdate(g)
             \/ Raise(g) \/ Catch(g) \/ Commit(g) \/ Rollback(g) \/ ExecuteDirect(g)
             \/ WriteCtx(g) \/ CriticalCtx(g) \/ CriticalLockCtx(g) \/ SavepointCtx(g) \/ Insert(g)
    BY Zenon, <1>1 DEF Block, Switch, Yield, ExecuteScript, Finish, Die, WaitSavepoints,
       EnterSavepoint, WaitTransaction, EndUpdate, Raise, Catch, Commit, Rollback, ExecuteDirect,
       WriteCtx, CriticalCtx, CriticalLockCtx, SavepointCtx, Request, Insert, lockVars
  <1>2. CASE \/ CriticalExit(g) \/ CriticalEnter(g) \/ ExitCritical(g) \/ ExitCriticalLock(g)
             \/ ExitSavepoint(g) \/ UnwindSavepoint(g)
             \/ \E name \in Names : CreateSavepoint(g, name)
    BY Zenon, <1>2 DEF CriticalExit, CriticalEnter, ExitCritical, ExitCriticalLock, ExitSavepoint,
       UnwindSavepoint, CreateSavepoint, lockVars
  <1>3. CASE AcquireLock(g) \/ Begin(g) \/ ExitWrite(g) \/ UnwindWrite(g) \/ UnwindCritical(g)
    <2>1. UNCHANGED in_callback /\ transaction_lock' \in {transaction_lock, g, NoOne}
      BY Zenon, <1>3 DEF AcquireLock, Begin, ExitWrite, UnwindWrite, UnwindCritical
    <2>2. QED BY Zenon, <2>1
  <1>4. CASE Callback(g) \/ CallbackReturn(g) \/ \E error \in KillErrors : Kill(g, error)
    BY Zenon, <1>0, <1>4 DEF Callback, CallbackReturn, Kill, At
  <1>5. QED
    BY Zenon, <1>1, <1>2, <1>3, <1>4 DEF Step, Progress

\* AloneInv, for the greenlet that makes the step.
LEMMA AlonePartStep ==
    ASSUME SavepointsRunThrough, SavepointInv, NEW g \in Greenlets, Step(g), FrameTypes'
    PROVE  AlonePart(g)'
  <1> USE NoOneIsNoGreenlet
  <1> DEFINE Part == /\ frames'[g] # <<>> => running' = g \/ pc'[g] = "callback"
                     /\ pc'[g] = "callback" => in_callback' = g
                     /\ Base(frames'[g]) \notin {"none", "savepoint"} \/ pc'[g] \in {"lock", "begin"}
                           => running' = g /\ ~handler' /\ in_callback' = NoOne
                     /\ transaction_lock' = g => Base(frames'[g]) \in Locking \/ pc'[g] = "begin"
  <1> SUFFICES Part
    BY Zenon DEF AlonePart, Alone
  <1>1. FrameTypes
    BY Zenon DEF SavepointInv, TypeIInv, LockIInv
  <1>2. \A label \in Labels : Goto(g, label) => pc'[g] = label
    BY Zenon, <1>1 DEF Goto, FrameTypes
  <1>3. /\ frames[g] # <<>> => running = g \/ pc[g] = "callback"
        /\ pc[g] = "callback" => in_callback = g
        /\ Base(frames[g]) \notin {"none", "savepoint"} \/ pc[g] \in {"lock", "begin"}
              => running = g /\ ~handler /\ in_callback = NoOne
        /\ transaction_lock = g => Base(frames[g]) \in Locking \/ pc[g] = "begin"
    BY Zenon DEF SavepointInv, AloneInv, AlonePart, Alone
  <1>4. Nested(frames[g]) /\ (pc[g] \in Idle => frames[g] = <<>>)
    BY Zenon DEF SavepointInv, PlaceInv, PlacePart
  <1>5. /\ frames[g] = <<>> <=> Base(frames[g]) = "none"
        /\ frames'[g] = <<>> <=> Base(frames'[g]) = "none"
    <2>1. frames[g] \in Seq(Frame) /\ frames'[g] \in Seq(Frame)
      BY Zenon, <1>1 DEF FrameTypes
    <2>2. QED BY Zenon, <2>1, BaseFacts
  <1>6. CASE Block(g)
    <2>1. UNCHANGED <<frames, pc, handler, in_callback, transaction_lock>> /\ running = g /\ Blocked(g)
      BY Zenon, <1>6 DEF Block, ctxVars, lockVars
    <2>2. frames[g] = <<>> /\ ~Alone(g) /\ pc[g] # "callback"
      BY Zenon, <2>1, BlockedIsOutside
    <2>3. QED BY Zenon, <1>3, <1>5, <2>1, <2>2 DEF Alone
  <1>7. CASE Switch(g) \/ ExecuteScript(g)
    <2>1. UNCHANGED <<frames, pc, handler, in_callback, transaction_lock>> /\ running' = g
      BY Zenon, <1>7 DEF Switch, ExecuteScript, ctxVars, lockVars, At
    <2>2. QED BY Zenon, <1>3, <2>1
  <1>8. CASE Yield(g)
    <2>1. UNCHANGED <<frames, pc, handler, in_callback, transaction_lock>> /\ pc[g] = "run"
          /\ frames[g] = <<>>
      BY Zenon, <1>8 DEF Yield, ctxVars, lockVars, At, InBody, SavepointsRunThrough
    <2>2. QED BY Zenon, <1>3, <1>5, <2>1
  <1>9. CASE Callback(g)
    <2>1. /\ UNCHANGED <<frames, transaction_lock>> /\ in_callback' = g /\ handler
          /\ Goto(g, "callback") /\ pc[g] = "run"
      BY Zenon, <1>9 DEF Callback, ctxVars, At
    <2>2. pc'[g] = "callback"
      BY Zenon, <1>2, <2>1 DEF Labels
    <2>3. QED BY Zenon, <1>3, <2>1, <2>2
  <1>10. CASE CallbackReturn(g) \/ \E error \in KillErrors : Kill(g, error)
    <2>1. /\ UNCHANGED <<frames, transaction_lock>> /\ running' = g
          /\ Goto(g, "run") \/ Goto(g, "raise")
          /\ pc[g] = "callback" \/ running = NoOne
      BY Zenon, <1>10 DEF CallbackReturn, Kill, ctxVars, At
    <2>2. pc'[g] \in {"run", "raise"}
      BY Zenon, <1>2, <2>1 DEF Labels
    <2>3. Base(frames[g]) \in {"none", "savepoint"} /\ pc[g] # "begin"
      BY Zenon, <1>3, <2>1
    <2>4. QED BY Zenon, <1>3, <2>1, <2>2, <2>3
  <1>11. CASE Finish(g) \/ Die(g) \/ EndUpdate(g) \/ ExecuteDirect(g)
    <2>1. /\ UNCHANGED <<frames, transaction_lock>> /\ frames[g] = <<>> /\ pc[g] \in {"run", "raise"}
          /\ \E label \in {"done", "commit", "rollback"} : Goto(g, label)
      BY Zenon, <1>11 DEF Finish, Die, EndUpdate, ExecuteDirect, ctxVars, lockVars, InBody, At
    <2>2. pc'[g] \in {"done", "commit", "rollback"}
      BY Zenon, <1>2, <2>1 DEF Labels
    <2>3. QED BY Zenon, <1>3, <1>5, <2>1, <2>2 DEF Locking
  <1>12. CASE \/ WaitSavepoints(g) \/ EnterSavepoint(g) \/ WaitTransaction(g) \/ Raise(g) \/ Catch(g)
              \/ Commit(g) \/ Rollback(g) \/ WriteCtx(g) \/ CriticalCtx(g) \/ CriticalLockCtx(g)
              \/ SavepointCtx(g)
    <2>1. UNCHANGED <<frames, handler, in_callback, transaction_lock>> /\ running' = g
      BY Zenon, <1>12 DEF WaitSavepoints, EnterSavepoint, WaitTransaction, Raise, Catch, Commit,
         Rollback, WriteCtx, CriticalCtx, CriticalLockCtx, SavepointCtx, Request, ctxVars, lockVars, At
    <2>2. /\ \E label \in {"run", "raise", "cs_enter", "wait_savepoints", "sp_enter", "sp_wait_tx",
                           "sp_create"} : Goto(g, label)
          /\ pc[g] # "begin"
      BY Zenon, <1>12 DEF WaitSavepoints, EnterSavepoint, WaitTransaction, Raise, Catch, Commit,
         Rollback, WriteCtx, CriticalCtx, CriticalLockCtx, SavepointCtx, Request, At
    <2>3. pc'[g] \in {"run", "raise", "cs_enter", "wait_savepoints", "sp_enter", "sp_wait_tx",
                      "sp_create"}
      BY Zenon, <1>2, <2>2 DEF Labels
    <2>4. QED BY Zenon, <1>3, <2>1, <2>2, <2>3
  <1>13. CASE CriticalExit(g)
    <2>1. /\ UNCHANGED <<frames, transaction_lock, in_callback>> /\ pc[g] = "cs_exit" /\ running' = g
          /\ Goto(g, "run")
      BY Zenon, <1>13 DEF CriticalExit, ctxVars, At
    <2>2. pc'[g] = "run" /\ frames[g] = <<>>
      BY Zenon, <1>2, <1>4, <2>1 DEF Labels, Idle
    <2>3. QED BY Zenon, <1>3, <1>5, <2>1, <2>2
  <1>14. CASE CriticalEnter(g)
    <2>1. /\ UNCHANGED transaction_lock /\ in_callback' = NoOne /\ ~handler' /\ running' = g
          /\ pc[g] = "cs_enter" /\ (Goto(g, "run") \/ Goto(g, "lock"))
      BY Zenon, <1>14 DEF CriticalEnter, At
    <2>2. pc'[g] \in {"run", "lock"} /\ frames[g] = <<>>
      BY Zenon, <1>2, <1>4, <2>1 DEF Labels, Idle
    <2>3. transaction_lock # g
      BY Zenon, <1>3, <1>5, <2>1, <2>2 DEF Locking
    <2>4. QED BY Zenon, <2>1, <2>2, <2>3
  <1>15. CASE AcquireLock(g) \/ Begin(g)
    <2>1. /\ UNCHANGED <<running, handler, in_callback>> /\ pc[g] \in {"lock", "begin"}
          /\ \/ Goto(g, "begin")
             \/ transaction_lock' = NoOne /\ Goto(g, "raise")
             \/ Goto(g, "run") /\ \E k \in Locking : Push(g, k, "none")
      BY Zenon, <1>15 DEF AcquireLock, Begin, At, Locking
    <2>2. running' = g /\ ~handler' /\ in_callback' = NoOne /\ frames[g] = <<>>
      BY Zenon, <1>3, <1>4, <2>1 DEF Idle
    <2>3. CASE Goto(g, "run") /\ \E k \in Locking : Push(g, k, "none")
      <3>1. pc'[g] = "run" /\ Base(frames'[g]) \in Locking
        BY Zenon, <1>1, <1>2, <2>2, <2>3, OpenOuter DEF Labels, Locking, Kinds
      <3>2. QED BY Zenon, <2>2, <3>1
    <2>4. CASE Goto(g, "begin") \/ (transaction_lock' = NoOne /\ Goto(g, "raise"))
      <3>1. pc'[g] = "begin" \/ (transaction_lock' = NoOne /\ pc'[g] = "raise")
        BY Zenon, <1>2, <2>4 DEF Labels
      <3>2. QED BY Zenon, <2>2, <3>1
    <2>5. QED BY Zenon, <2>1, <2>3, <2>4
  <1>16. CASE \E name \in Names : CreateSavepoint(g, name)
    <2>1. /\ UNCHANGED <<running, handler, in_callback, transaction_lock>> /\ pc[g] = "sp_create"
          /\ running = g
          /\ \/ UNCHANGED frames /\ Goto(g, "raise")
             \/ Goto(g, "run") /\ \E name \in Names : Push(g, "savepoint", name)
      BY Zenon, <1>16 DEF CreateSavepoint, lockVars, At
    <2>2. pc'[g] \in {"raise", "run"}
      BY Zenon, <1>2, <2>1 DEF Labels
    <2>3. Base(frames'[g]) = Base(frames[g])
          \/ (Base(frames[g]) = "none" /\ Base(frames'[g]) = "savepoint")
      BY Zenon, <1>1, <1>4, <1>5, <2>1, OpenSavepoint
    <2>4. QED BY Zenon, <1>3, <2>1, <2>2, <2>3 DEF Locking
  <1>17. CASE \/ ExitWrite(g) \/ ExitCritical(g) \/ ExitCriticalLock(g)
              \/ UnwindWrite(g) \/ UnwindCritical(g)
    <2>1. /\ Pop(g) /\ \E k \in {"write", "critical", "critical_lock"} :
                          TopIs(g, k) /\ (k \in Locking => transaction_lock' = NoOne)
          /\ transaction_lock' \in {transaction_lock, NoOne}
          /\ pc[g] \in {"run", "raise"}
          /\ Goto(g, "cs_exit") \/ (UNCHANGED pc /\ pc[g] = "raise")
      BY Zenon, <1>17 DEF ExitWrite, ExitCritical, ExitCriticalLock, UnwindWrite, UnwindCritical,
         At, Locking, lockVars
    <2>2. frames'[g] = <<>> /\ Base(frames'[g]) = "none"
      BY Zenon, <1>1, <1>4, <2>1, CloseOuter DEF Kinds
    <2>3. pc'[g] \in {"cs_exit", "raise"}
      BY Zenon, <1>2, <2>1 DEF Labels
    <2>4. transaction_lock' # g
      <3>1. \A k \in {"write", "critical", "critical_lock"} : TopIs(g, k) => Base(frames[g]) = k
        BY Zenon, <1>1, <1>4, <2>1, CloseOuter DEF Kinds
      <3>2. QED BY Zenon, <1>3, <2>1, <3>1
    <2>5. QED BY Zenon, <2>2, <2>3, <2>4
  <1>18. CASE ExitSavepoint(g) \/ UnwindSavepoint(g)
    <2>1. /\ TopIs(g, "savepoint") /\ (Pop(g) \/ (PopInto(g) /\ Len(frames[g]) # 1))
          /\ UNCHANGED <<running, handler, in_callback, transaction_lock>> /\ running = g
          /\ pc[g] \in {"run", "raise"}
          /\ UNCHANGED pc \/ Goto(g, "raise")
      BY Zenon, <1>18 DEF ExitSavepoint, UnwindSavepoint, Outermost, lockVars, At
    <2>2. Base(frames'[g]) = Base(frames[g])
          \/ (Base(frames[g]) = "savepoint" /\ Base(frames'[g]) = "none")
      BY Zenon, <1>1, <1>4, <2>1, CloseSavepoint
    <2>3. pc'[g] \in {"run", "raise"}
      BY Zenon, <1>2, <2>1 DEF Labels
    <2>4. QED BY Zenon, <1>3, <2>1, <2>2, <2>3 DEF Locking
  <1>19. CASE Insert(g)
    <2>1. UNCHANGED <<pc, running, handler, in_callback, transaction_lock>> /\ running = g
      BY Zenon, <1>19 DEF Insert, At, lockVars
    <2>2. Base(frames'[g]) = Base(frames[g])
      BY Zenon, <1>1, <1>19, InsertKeeps
    <2>3. QED BY Zenon, <1>3, <1>5, <2>1, <2>2
  <1>20. QED
    BY Zenon, <1>6, <1>7, <1>8, <1>9, <1>10, <1>11, <1>12, <1>13, <1>14, <1>15, <1>16, <1>17,
       <1>18, <1>19 DEF Step, Progress

\* Every step keeps who is inside a context running or in the callback, and who is
\* inside something else than savepoints alone.
LEMMA AloneStep ==
    ASSUME SavepointsRunThrough, SavepointInv, NEW g \in Greenlets, Step(g), FrameTypes'
    PROVE  AloneInv'
  <1>1. FrameTypes
    BY Zenon DEF SavepointInv, TypeIInv, LockIInv
  <1>2. ASSUME NEW h \in Greenlets, h # g PROVE AlonePart(h)'
    <2>1. /\ frames'[h] = frames[h] /\ pc'[h] = pc[h] /\ running # h
          /\ in_callback = h => in_callback' = h
          /\ transaction_lock' = h => transaction_lock = h
      BY Zenon, <1>1, <1>2, OthersStay, OthersKeepLocks, NoOneIsNoGreenlet
    <2>2. AlonePart(h)
      BY Zenon, <1>2 DEF SavepointInv, AloneInv
    <2>3. QED BY Zenon, <2>1, <2>2 DEF AlonePart, Alone
  <1>3. QED BY Zenon, <1>2, AlonePartStep DEF AloneInv

\* When nobody is inside the callback, a transaction is the one of who executes.
LEMMA QuietTransaction ==
    ASSUME SavepointInv, NEW g \in Greenlets, running = g, in_callback = NoOne,
           Base(frames[g]) # "write"
    PROVE  ~begun /\ write_greenlet_id = NoOne
  <1>1. ASSUME NEW h \in Greenlets, Base(frames[h]) = "write" PROVE FALSE
    BY Zenon, <1>1, NoOneIsNoGreenlet DEF SavepointInv, AloneInv, AlonePart, Alone
  <1>2. write_greenlet_id \in Greenlets \union {NoOne} /\ begun \in BOOLEAN
    BY Zenon DEF SavepointInv, TypeIInv, IdTypes, SqlTypes, OwnerOrNoOne
  <1>3. QED BY Zenon, <1>1, <1>2 DEF SavepointInv, TxInv

\* Nor are there savepoints, unless they are its innermost contexts.
LEMMA QuietNoSavepoints ==
    ASSUME SavepointInv, NEW g \in Greenlets, running = g, in_callback = NoOne,
           frames[g] = <<>> \/ \E k \in Kinds : k # "savepoint" /\ TopIs(g, k)
    PROVE  savepoint_greenlet_id = NoOne /\ savepoints = <<>> /\ marks = <<>>
  <1> USE DEF SavepointInv
  <1>1. frames[g] \in Seq(Frame) /\ savepoints \in Seq(Names) /\ marks \in Seq(Mark)
    BY Zenon DEF TypeIInv, LockIInv, FrameTypes, IdTypes, SqlTypes
  <1>2. savepoint_greenlet_id = NoOne
    <2> SUFFICES ASSUME savepoint_greenlet_id # NoOne PROVE FALSE
      BY Zenon
    <2>1. savepoint_greenlet_id = g /\ frames[g] # <<>> /\ savepoints # <<>>
      BY Zenon, QuietSavepoints, Owner
    <2>2. PICK k \in Kinds : k # "savepoint" /\ TopIs(g, k)
      BY Zenon, <2>1
    <2>3. Nested(frames[g]) /\ frames[g][Len(frames[g])].kind = k
      BY Zenon, <2>2 DEF PlaceInv, PlacePart, TopIs, Top
    <2>4. Len(frames[g]) = 1 /\ Base(frames[g]) = k
      BY Zenon, <1>1, <2>1, <2>2, <2>3, TopOuter
    <2>5. Offset(frames[g]) = 1
      BY Zenon, <2>2, <2>4 DEF Offset, Kinds
    <2>6. Len(frames[g]) = Offset(frames[g]) + Len(savepoints)
      BY Zenon, <2>1 DEF StackInv, StackPart
    <2>7. QED BY <1>1, <2>1, <2>4, <2>5, <2>6, LengthFacts
  <1>3. savepoints = <<>> /\ Len(marks) = Len(savepoints)
    BY Zenon, <1>2 DEF StackInv, StackPart
  <1>4. marks = <<>>
    BY Zenon, <1>1, <1>3, LengthFacts
  <1>5. QED BY Zenon, <1>2, <1>3, <1>4

\* BEGIN TRANSACTION succeeds.
LEMMA QuietBegin ==
    ASSUME SavepointInv, NEW g \in Greenlets, pc[g] = "begin"
    PROVE  ~InTransaction
  <1>1. running = g /\ in_callback = NoOne /\ frames[g] = <<>>
    BY Zenon DEF SavepointInv, AloneInv, AlonePart, Alone, PlaceInv, PlacePart, Idle
  <1>2. Base(frames[g]) # "write"
    BY Zenon, <1>1 DEF Base
  <1>3. QED BY Zenon, <1>1, <1>2, QuietTransaction, QuietNoSavepoints DEF InTransaction

\* COMMIT and ROLLBACK outside of a savepoint find none.
LEMMA EndsWithoutSavepoints ==
    ASSUME SavepointInv, NEW g \in Greenlets,
           ExecuteScript(g) \/ Commit(g) \/ Rollback(g) \/ ExitWrite(g) \/ UnwindWrite(g)
    PROVE  /\ marks = <<>> /\ savepoints = <<>> /\ savepoint_greenlet_id = NoOne
           /\ running = g /\ in_callback = NoOne
           /\ ExecuteScript(g) \/ Commit(g) \/ Rollback(g) => ~begun
  <1> USE DEF SavepointInv
  <1>1. frames[g] \in Seq(Frame) /\ running = g /\ Nested(frames[g])
    BY Zenon DEF TypeIInv, LockIInv, FrameTypes, ExecuteScript, Commit, Rollback, ExitWrite,
       UnwindWrite, At, PlaceInv, PlacePart
  <1>2. CASE Commit(g) \/ Rollback(g)
    <2>1. pc[g] \in {"commit", "rollback"} /\ in_callback = NoOne
      BY Zenon, <1>2 DEF Commit, Rollback, At
    <2>2. frames[g] = <<>> /\ Base(frames[g]) # "write"
      BY Zenon, <1>1, <2>1, BaseFacts DEF PlaceInv, PlacePart, Idle
    <2>3. QED BY Zenon, <1>1, <2>1, <2>2, QuietTransaction, QuietNoSavepoints
  <1>3. ASSUME NEW k \in {"critical", "write"}, TopIs(g, k)
        PROVE  /\ marks = <<>> /\ savepoints = <<>> /\ savepoint_greenlet_id = NoOne
               /\ in_callback = NoOne
               /\ k = "critical" => ~begun
    <2>1. frames[g] # <<>> /\ frames[g][Len(frames[g])].kind = k
      BY Zenon, <1>3 DEF TopIs, Top
    <2>2. Base(frames[g]) = k
      BY Zenon, <1>1, <2>1, TopOuter
    <2>3. in_callback = NoOne
      BY Zenon, <2>2 DEF AloneInv, AlonePart, Alone
    <2>4. QED BY Zenon, <1>1, <1>3, <2>2, <2>3, QuietTransaction, QuietNoSavepoints DEF Kinds
  <1>4. CASE ExecuteScript(g)
    BY Zenon, <1>1, <1>3, <1>4 DEF ExecuteScript
  <1>5. CASE ExitWrite(g) \/ UnwindWrite(g)
    <2>1. TopIs(g, "write")
      BY Zenon, <1>5 DEF ExitWrite, UnwindWrite
    <2>2. ~ExecuteScript(g) /\ ~Commit(g) /\ ~Rollback(g)
      <3>1. ~TopIs(g, "critical")
        BY Zenon, <2>1 DEF TopIs
      <3>2. pc[g] \in {"run", "raise"}
        BY Zenon, <1>5 DEF ExitWrite, UnwindWrite, At
      <3>3. QED BY Zenon, <3>1, <3>2 DEF ExecuteScript, Commit, Rollback, At
    <2>3. QED BY Zenon, <1>1, <1>3, <2>1, <2>2
  <1>6. QED BY Zenon, <1>2, <1>4, <1>5

\* Every step keeps the transaction with the write context.
LEMMA TxStep ==
    ASSUME SavepointInv, NEW g \in Greenlets, Step(g)
    PROVE  TxInv'
  <1> USE NoOneIsNoGreenlet
  <1>1. FrameTypes /\ Nested(frames[g]) /\ TxInv /\ frames[g] \in Seq(Frame)
    BY Zenon DEF SavepointInv, TypeIInv, LockIInv, PlaceInv, PlacePart, FrameTypes
  <1>2. \A label \in Labels : Goto(g, label) => pc'[g] = label
    BY Zenon, <1>1 DEF Goto, FrameTypes
  <1>3. \A h \in Greenlets : h # g => frames'[h] = frames[h] /\ pc'[h] = pc[h]
    BY Zenon, <1>1, OthersStay
  <1>4. write_greenlet_id \in Greenlets \union {NoOne}
    BY Zenon DEF SavepointInv, TypeIInv, IdTypes, OwnerOrNoOne
  <1>5. ASSUME UNCHANGED <<begun, write_greenlet_id>>,
               Base(frames'[g]) = "write" <=> Base(frames[g]) = "write",
               pc'[g] = "sp_wait_tx" => pc[g] = "sp_wait_tx" \/ write_greenlet_id # g
        PROVE  TxInv'
    <2>1. \A h \in Greenlets : Base(frames'[h]) = "write" <=> Base(frames[h]) = "write"
      BY Zenon, <1>3, <1>5
    <2>2. QED BY Zenon, <1>1, <1>3, <1>4, <1>5, <2>1 DEF TxInv
  <1>6. CASE \/ Block(g) \/ Switch(g) \/ Yield(g) \/ Callback(g) \/ CallbackReturn(g) \/ Finish(g)
             \/ Die(g) \/ CriticalExit(g) \/ WaitTransaction(g) \/ Catch(g) \/ WaitSavepoints(g)
             \/ EndUpdate(g) \/ ExecuteDirect(g) \/ Raise(g)
             \/ \E error \in KillErrors : Kill(g, error)
    <2>1. /\ UNCHANGED <<begun, write_greenlet_id, frames>>
          /\ UNCHANGED pc \/ \E label \in Labels \ {"sp_wait_tx"} : Goto(g, label)
      BY Zenon, <1>6 DEF Block, Switch, Yield, Callback, CallbackReturn, Finish, Die, CriticalExit,
         WaitTransaction, Catch, WaitSavepoints, EndUpdate, ExecuteDirect, Raise, Kill, SqlInsert,
         sqlVars, idVars, ctxVars, Labels
    <2>2. QED BY Zenon, <1>2, <1>5, <2>1
  <1>7. CASE EnterSavepoint(g)
    <2>1. /\ UNCHANGED <<begun, write_greenlet_id, frames>>
          /\ (Goto(g, "sp_wait_tx") /\ write_greenlet_id # g) \/ Goto(g, "sp_create")
      BY Zenon, <1>7 DEF EnterSavepoint, sqlVars, idVars, ctxVars
    <2>2. QED BY Zenon, <1>2, <1>5, <2>1 DEF Labels
  <1>8. CASE WriteCtx(g) \/ CriticalCtx(g) \/ CriticalLockCtx(g) \/ SavepointCtx(g)
    <2>1. UNCHANGED <<begun, write_greenlet_id, frames>>
      BY Zenon, <1>8 DEF WriteCtx, CriticalCtx, CriticalLockCtx, SavepointCtx, Request, sqlVars,
         idVars
    <2>2. pc'[g] # "sp_wait_tx"
      BY Zenon, <1>2, <1>8 DEF WriteCtx, CriticalCtx, CriticalLockCtx, SavepointCtx, Labels
    <2>3. QED BY Zenon, <1>5, <2>1, <2>2
  <1>9. CASE ExecuteScript(g) \/ Commit(g) \/ Rollback(g)
    <2>1. /\ UNCHANGED <<write_greenlet_id, frames>> /\ ~begun'
          /\ UNCHANGED pc \/ Goto(g, "run")
      BY Zenon, <1>9 DEF ExecuteScript, Commit, Rollback, SqlCommit, SqlRollback, idVars, ctxVars
    <2>2. ~begun
      BY Zenon, <1>9, EndsWithoutSavepoints
    <2>3. begun \in BOOLEAN /\ begun' \in BOOLEAN
      BY Zenon, <1>9 DEF SavepointInv, TypeIInv, SqlTypes, ExecuteScript, Commit, Rollback,
         SqlCommit, SqlRollback
    <2>4. UNCHANGED begun
      BY Zenon, <2>1, <2>2, <2>3
    <2>5. QED BY Zenon, <1>2, <1>5, <2>1, <2>4 DEF Labels
  <1>10. CASE CriticalEnter(g) \/ AcquireLock(g)
    <2>1. /\ UNCHANGED <<begun, write_greenlet_id>>
          /\ pc[g] \in {"cs_enter", "lock"}
          /\ UNCHANGED frames \/ \E k \in {"critical", "critical_lock"} : Push(g, k, "none")
          /\ \E label \in {"run", "lock", "begin"} : Goto(g, label)
      BY Zenon, <1>10 DEF CriticalEnter, AcquireLock, sqlVars, idVars, At
    <2>2. frames[g] = <<>> /\ Base(frames[g]) # "write"
      BY Zenon, <1>1, <2>1, BaseFacts DEF SavepointInv, PlaceInv, PlacePart, Idle
    <2>3. Base(frames'[g]) # "write"
      BY Zenon, <1>1, <2>1, <2>2, OpenOuter DEF Kinds
    <2>4. pc'[g] # "sp_wait_tx"
      BY Zenon, <1>2, <2>1 DEF Labels
    <2>5. QED BY Zenon, <1>5, <2>1, <2>2, <2>3, <2>4
  <1>11. CASE Begin(g)
    <2>1. pc[g] = "begin" /\ write_greenlet_id' = g
      BY Zenon, <1>11 DEF Begin, At
    <2>2. frames[g] = <<>>
      BY Zenon, <2>1 DEF SavepointInv, PlaceInv, PlacePart, Idle
    <2>3. begun' /\ Push(g, "write", "none") /\ Goto(g, "run")
      BY Zenon, <1>11, <2>1, QuietBegin DEF Begin, SqlBegin
    <2>4. Base(frames'[g]) = "write" /\ pc'[g] = "run"
      BY Zenon, <1>1, <1>2, <2>2, <2>3, OpenOuter DEF Kinds, Labels
    <2>5. QED BY Zenon, <1>3, <2>1, <2>3, <2>4 DEF TxInv
  <1>12. CASE ExitWrite(g) \/ UnwindWrite(g)
    <2>1. TopIs(g, "write") /\ Pop(g) /\ write_greenlet_id' = NoOne
      BY Zenon, <1>12 DEF ExitWrite, UnwindWrite
    <2>2. ~begun'
      <3>1. CASE ExitWrite(g)
        BY Zenon, <3>1 DEF ExitWrite, SqlCommit
      <3>2. CASE UnwindWrite(g)
        <4>1. raised[g] = "Exception"
          BY Zenon, <2>1, <3>2 DEF UnwindWrite, At, TopIs, SavepointInv, PlaceInv, PlacePart
        <4>2. QED BY Zenon, <3>2, <4>1 DEF UnwindWrite, SqlRollback
      <3>3. QED BY Zenon, <1>12, <3>1, <3>2
    <2>3. Base(frames'[g]) = "none" /\ Base(frames[g]) = "write" /\ frames[g] # <<>>
      BY Zenon, <1>1, <2>1, CloseOuter DEF Kinds, TopIs
    <2>4. ASSUME NEW h \in Greenlets, Base(frames'[h]) = "write" PROVE FALSE
      <3>1. h # g /\ Base(frames[h]) = "write"
        BY Zenon, <1>3, <2>3, <2>4
      <3>2. frames[h] # <<>>
        BY Zenon, <3>1 DEF Base
      <3>3. QED BY Zenon, <2>3, <3>1, <3>2, OneOpen
    <2>5. QED BY Zenon, <2>1, <2>2, <2>4 DEF TxInv
  <1>13. CASE ExitCritical(g) \/ ExitCriticalLock(g) \/ UnwindCritical(g)
    <2>1. /\ Pop(g) /\ \E k \in {"critical", "critical_lock"} : TopIs(g, k)
          /\ UNCHANGED <<begun, write_greenlet_id>>
          /\ UNCHANGED pc \/ Goto(g, "cs_exit")
      BY Zenon, <1>13 DEF ExitCritical, ExitCriticalLock, UnwindCritical, sqlVars, idVars
    <2>2. Base(frames'[g]) = "none" /\ Base(frames[g]) # "write"
      BY Zenon, <1>1, <2>1, CloseOuter DEF Kinds
    <2>3. QED BY Zenon, <1>2, <1>5, <2>1, <2>2 DEF Labels
  <1>14. CASE \E name \in Names : CreateSavepoint(g, name)
    <2>1. /\ UNCHANGED frames \/ \E name \in Names : Push(g, "savepoint", name)
          /\ UNCHANGED <<begun, write_greenlet_id>>
          /\ Goto(g, "run") \/ Goto(g, "raise")
      BY Zenon, <1>14 DEF CreateSavepoint, SqlSavepoint, sqlVars, idVars
    <2>2. Base(frames'[g]) = "write" <=> Base(frames[g]) = "write"
      BY Zenon, <1>1, <2>1, OpenSavepoint, BaseFacts
    <2>3. QED BY Zenon, <1>2, <1>5, <2>1, <2>2 DEF Labels
  <1>15. CASE ExitSavepoint(g) \/ UnwindSavepoint(g)
    <2>1. /\ TopIs(g, "savepoint") /\ (Pop(g) \/ (PopInto(g) /\ Len(frames[g]) # 1))
          /\ UNCHANGED <<begun, write_greenlet_id>>
          /\ UNCHANGED pc \/ Goto(g, "raise")
      BY Zenon, <1>15 DEF ExitSavepoint, UnwindSavepoint, Outermost, ForgetSavepoint, SqlRelease,
         SqlRollbackAndRelease, SqlReleaseAt, sqlVars, idVars
    <2>2. Base(frames'[g]) = "write" <=> Base(frames[g]) = "write"
      BY Zenon, <1>1, <2>1, CloseSavepoint
    <2>3. QED BY Zenon, <1>2, <1>5, <2>1, <2>2 DEF Labels
  <1>16. CASE Insert(g)
    <2>1. UNCHANGED <<begun, write_greenlet_id, pc>>
      BY Zenon, <1>16 DEF Insert, SqlInsert, idVars
    <2>2. Base(frames'[g]) = Base(frames[g])
      BY Zenon, <1>1, <1>16, InsertKeeps
    <2>3. QED BY Zenon, <1>5, <2>1, <2>2
  <1>17. QED
    BY Zenon, <1>6, <1>7, <1>8, <1>9, <1>10, <1>11, <1>12, <1>13, <1>14, <1>15, <1>16
       DEF Step, Progress

\* The innermost savepoint of a greenlet is the last one of the driver and of sqlite.
LEMMA TopSavepoint ==
    ASSUME SavepointInv, NEW g \in Greenlets, TopIs(g, "savepoint")
    PROVE  LET n == Len(savepoints)
               name == Top(g).name
           IN  /\ savepoint_greenlet_id = g
               /\ n \in Nat \ {0} /\ Len(marks) = n
               /\ Len(frames[g]) = Offset(frames[g]) + n
               /\ ~Unreleasable(name)
               /\ \A i \in 1..Len(marks) : IsLatest(name, i) => i = n
               /\ SavepointsBelow(name) = SubSeq(savepoints, 1, n - 1)
  <1> USE DEF SavepointInv
  <1> DEFINE n == Len(savepoints)
             name == Top(g).name
  <1>1. savepoint_greenlet_id = g
    BY Zenon, NotOwner
  <1>2. /\ savepoints \in Seq(Names) /\ frames[g] \in Seq(Frame)
        /\ Len(marks) = n /\ Len(frames[g]) = Offset(frames[g]) + n
        /\ \A i \in 1..n : frames[g][Offset(frames[g]) + i].name = savepoints[i]
        /\ \A i \in 1..n : marks[i].name = savepoints[i]
        /\ \A i, j \in 1..n : savepoints[i] = savepoints[j] => i = j
        /\ savepoints # <<>>
    BY Zenon, <1>1, NoOneIsNoGreenlet DEF StackInv, StackPart, TypeIInv, IdTypes, LockIInv,
       FrameTypes
  <1>3. n \in Nat \ {0}
    BY Zenon, <1>2, PopFacts
  <1>4. n \in 1..n
    BY Zenon, <1>3, LastIndex
  <1>5. name = savepoints[n] /\ name = marks[n].name
    BY Zenon, <1>2, <1>4 DEF Top
  <1>6. \A i \in 1..n : savepoints[i] = name => i = n
    BY Zenon, <1>2, <1>4, <1>5
  <1> HIDE DEF n, name
  <1>7. IsSavepoint(name) /\ HasMark(name)
    BY Zenon, <1>2, <1>4, <1>5 DEF IsSavepoint, HasMark, n
  <1>8. (CHOOSE i \in 1..Len(savepoints) : savepoints[i] = name) = n
    BY Zenon, <1>4, <1>5, <1>6 DEF n
  <1>9. \A i \in 1..Len(marks) : IsLatest(name, i) => i = n
    <2>1. ASSUME NEW i \in 1..n, IsLatest(name, i) PROVE i = n
      <3>1. savepoints[i] = name
        BY Zenon, <1>2, <2>1 DEF IsLatest
      <3>2. QED BY Zenon, <1>6, <3>1
    <2>2. QED BY Zenon, <1>2, <2>1
  <1>10. SavepointsBelow(name) = SubSeq(savepoints, 1, n - 1)
    BY Zenon, <1>8 DEF SavepointsBelow
  <1>11. QED
    BY Zenon, <1>1, <1>2, <1>3, <1>7, <1>9, <1>10 DEF Unreleasable, n, name

\* The number of contexts around the savepoints.
LEMMA OffsetFacts ==
    ASSUME NEW s \in Seq(Frame), NEW t \in Seq(Frame)
    PROVE  /\ Base(t) = Base(s) => Offset(t) = Offset(s)
           /\ Base(t) \in {"none", "savepoint"} => Offset(t) = 0
           /\ Base(t) \notin {"none", "savepoint"} => Offset(t) = 1
  BY Zenon DEF Offset

\* Every step but those of savepoint_ctx leaves the savepoints alone.
LEMMA StackOther ==
    ASSUME SavepointInv, NEW g \in Greenlets, Step(g), FrameTypes',
           ~ExitSavepoint(g), ~UnwindSavepoint(g), \A name \in Names : ~CreateSavepoint(g, name)
    PROVE  /\ UNCHANGED <<savepoints, savepoint_greenlet_id, marks>>
           /\ \/ Kept(frames[g], frames'[g]) /\ Base(frames'[g]) = Base(frames[g])
              \/ /\ frames[g] = <<>> /\ Len(frames'[g]) = 1
                 /\ Base(frames'[g]) \notin {"none", "savepoint"}
              \/ Len(frames[g]) = 1 /\ frames'[g] = <<>> /\ ~TopIs(g, "savepoint")
  <1>0. FrameTypes /\ Nested(frames[g]) /\ frames[g] \in Seq(Frame)
    BY Zenon DEF SavepointInv, TypeIInv, LockIInv, PlaceInv, PlacePart, FrameTypes
  <1>1. frames'[g] = frames[g] => Kept(frames[g], frames'[g]) /\ Base(frames'[g]) = Base(frames[g])
    BY Zenon DEF Kept, Alike
  <1>2. CASE \/ Block(g) \/ Switch(g) \/ Yield(g) \/ Callback(g) \/ CallbackReturn(g) \/ Finish(g)
             \/ Die(g) \/ CriticalExit(g) \/ WaitTransaction(g) \/ Catch(g) \/ WaitSavepoints(g)
             \/ EndUpdate(g) \/ ExecuteDirect(g) \/ Raise(g) \/ EnterSavepoint(g)
             \/ \E error \in KillErrors : Kill(g, error)
    <2>1. UNCHANGED <<savepoints, savepoint_greenlet_id, marks, frames>>
      BY Zenon, <1>2 DEF Block, Switch, Yield, Callback, CallbackReturn, Finish, Die, CriticalExit,
         WaitTransaction, Catch, WaitSavepoints, EndUpdate, ExecuteDirect, Raise, EnterSavepoint,
         Kill, SqlInsert, sqlVars, idVars, ctxVars
    <2>2. QED BY Zenon, <1>1, <2>1
  <1>3. CASE WriteCtx(g) \/ CriticalCtx(g) \/ CriticalLockCtx(g) \/ SavepointCtx(g)
    <2>1. UNCHANGED <<savepoints, savepoint_greenlet_id, marks, frames>>
      BY Zenon, <1>3 DEF WriteCtx, CriticalCtx, CriticalLockCtx, SavepointCtx, Request, sqlVars,
         idVars
    <2>2. QED BY Zenon, <1>1, <2>1
  <1>4. CASE ExecuteScript(g) \/ Commit(g) \/ Rollback(g)
    <2>1. UNCHANGED <<savepoints, savepoint_greenlet_id, frames>> /\ marks' = <<>>
      BY Zenon, <1>4 DEF ExecuteScript, Commit, Rollback, SqlCommit, SqlRollback, idVars, ctxVars
    <2>2. marks = <<>>
      BY Zenon, <1>4, EndsWithoutSavepoints
    <2>3. QED BY Zenon, <1>1, <2>1, <2>2
  <1>5. CASE CriticalEnter(g) \/ AcquireLock(g) \/ Begin(g)
    <2>1. /\ UNCHANGED <<savepoints, savepoint_greenlet_id, marks>>
          /\ pc[g] \in {"cs_enter", "lock", "begin"}
          /\ \/ UNCHANGED frames
             \/ \E k \in {"write", "critical", "critical_lock"} : Push(g, k, "none")
      BY Zenon, <1>5 DEF CriticalEnter, AcquireLock, Begin, SqlBegin, sqlVars, idVars, At
    <2>2. frames[g] = <<>>
      BY Zenon, <2>1 DEF SavepointInv, PlaceInv, PlacePart, Idle
    <2>3. ASSUME NEW k \in {"write", "critical", "critical_lock"}, Push(g, k, "none")
          PROVE  Len(frames'[g]) = 1 /\ Base(frames'[g]) = k
      <3>1. Base(frames'[g]) = k
        BY Zenon, <1>0, <2>2, <2>3, OpenOuter DEF Kinds
      <3>2. Len(frames'[g]) = Len(frames[g]) + 1
        BY Zenon, <1>0, <2>3, PushOpens DEF Kinds, Pushed
      <3>3. Len(frames[g]) = 0
        BY Zenon, <1>0, <2>2, LengthFacts
      <3>4. QED BY <3>1, <3>2, <3>3
    <2>4. QED BY Zenon, <1>1, <2>1, <2>2, <2>3
  <1>6. CASE \/ ExitWrite(g) \/ ExitCritical(g) \/ ExitCriticalLock(g)
             \/ UnwindWrite(g) \/ UnwindCritical(g)
    <2>1. Pop(g) /\ \E k \in {"write", "critical", "critical_lock"} : TopIs(g, k)
      BY Zenon, <1>6 DEF ExitWrite, ExitCritical, ExitCriticalLock, UnwindWrite, UnwindCritical
    <2>2. Len(frames[g]) = 1 /\ frames'[g] = <<>>
      BY Zenon, <1>0, <2>1, CloseOuter DEF Kinds
    <2>3. ~TopIs(g, "savepoint")
      BY Zenon, <2>1 DEF TopIs
    <2>4. UNCHANGED <<savepoints, savepoint_greenlet_id, marks>>
      <3>1. CASE ExitWrite(g) \/ UnwindWrite(g)
        <4>1. UNCHANGED <<savepoints, savepoint_greenlet_id>> /\ marks' \in {<<>>, marks}
          BY Zenon, <3>1 DEF ExitWrite, UnwindWrite, SqlCommit, SqlRollback, sqlVars
        <4>2. QED BY Zenon, <3>1, <4>1, EndsWithoutSavepoints
      <3>2. CASE ExitCritical(g) \/ ExitCriticalLock(g) \/ UnwindCritical(g)
        BY Zenon, <3>2 DEF ExitCritical, ExitCriticalLock, UnwindCritical, sqlVars, idVars
      <3>3. QED BY Zenon, <1>6, <3>1, <3>2
    <2>5. QED BY Zenon, <2>2, <2>3, <2>4
  <1>7. CASE Insert(g)
    <2>1. UNCHANGED <<savepoints, savepoint_greenlet_id, marks>>
      BY Zenon, <1>7 DEF Insert, SqlInsert, idVars
    <2>2. QED BY Zenon, <1>0, <1>7, <2>1, InsertAdds, InsertKeeps
  <1>8. QED
    BY Zenon, <1>2, <1>3, <1>4, <1>5, <1>6, <1>7 DEF Step, Progress

\* StackInv, when no savepoint is opened or left.
LEMMA StackOtherStep ==
    ASSUME SavepointInv, NEW g \in Greenlets, Step(g), FrameTypes',
           ~ExitSavepoint(g), ~UnwindSavepoint(g), \A name \in Names : ~CreateSavepoint(g, name)
    PROVE  StackInv'
  <1>1. FrameTypes /\ StackInv /\ TypeIInv
    BY Zenon DEF SavepointInv, TypeIInv, LockIInv
  <1>2. /\ UNCHANGED <<savepoints, savepoint_greenlet_id, marks>>
        /\ \/ Kept(frames[g], frames'[g]) /\ Base(frames'[g]) = Base(frames[g])
           \/ /\ frames[g] = <<>> /\ Len(frames'[g]) = 1
              /\ Base(frames'[g]) \notin {"none", "savepoint"}
           \/ Len(frames[g]) = 1 /\ frames'[g] = <<>> /\ ~TopIs(g, "savepoint")
    BY Zenon, StackOther
  <1>3. \A h \in Greenlets : h # g => frames'[h] = frames[h]
    BY Zenon, <1>1, OthersStay
  <1>4. frames[g] \in Seq(Frame) /\ frames'[g] \in Seq(Frame) /\ savepoints \in Seq(Names)
    BY Zenon, <1>1 DEF FrameTypes, TypeIInv, IdTypes
  <1>5. StackPart(g)
    BY Zenon, <1>1 DEF StackInv
  <1>6. StackPart(g)'
    <2>1. CASE Kept(frames[g], frames'[g]) /\ Base(frames'[g]) = Base(frames[g])
      <3>1. Offset(frames'[g]) = Offset(frames[g]) /\ Len(frames'[g]) = Len(frames[g])
        BY Zenon, <1>4, <2>1, OffsetFacts DEF Kept
      <3>2. CASE g # savepoint_greenlet_id
        BY Zenon, <1>2, <1>5, <3>1, <3>2 DEF StackPart
      <3>3. CASE g = savepoint_greenlet_id
        <4>1. /\ Len(frames[g]) = Offset(frames[g]) + Len(savepoints)
              /\ \A i \in 1..Len(savepoints) : frames[g][Offset(frames[g]) + i].name = savepoints[i]
          BY Zenon, <1>5, <3>3 DEF StackPart
        <4>2. \A i \in 1..Len(savepoints) : Offset(frames[g]) + i \in 1..Len(frames[g])
          <5>1. Len(savepoints) \in Nat /\ Offset(frames[g]) \in {0, 1}
            BY Zenon, <1>4, LengthFacts, BaseFacts
          <5>2. QED BY <4>1, <5>1
        <4>3. \A i \in 1..Len(savepoints) : frames'[g][Offset(frames[g]) + i].name = savepoints[i]
          BY Zenon, <2>1, <4>1, <4>2 DEF Kept, Alike
        <4>4. QED BY Zenon, <1>2, <3>1, <3>3, <4>1, <4>3 DEF StackPart
      <3>4. QED BY Zenon, <3>2, <3>3
    <2>2. CASE /\ frames[g] = <<>> /\ Len(frames'[g]) = 1
               /\ Base(frames'[g]) \notin {"none", "savepoint"}
      <3>1. Offset(frames'[g]) = 1
        BY Zenon, <1>4, <2>2, OffsetFacts
      <3>2. g # savepoint_greenlet_id
        BY Zenon, <1>1, <2>2, Owner, NoOneIsNoGreenlet
      <3>3. QED BY Zenon, <1>2, <2>2, <3>1, <3>2 DEF StackPart
    <2>3. CASE Len(frames[g]) = 1 /\ frames'[g] = <<>> /\ ~TopIs(g, "savepoint")
      <3>1. Offset(frames'[g]) = 0 /\ Len(frames'[g]) = 0
        BY Zenon, <1>4, <2>3, BaseFacts
      <3>2. frames[g] # <<>> /\ Base(frames[g]) # "savepoint"
        BY <1>4, <2>3, LengthFacts DEF TopIs, Top, Base
      <3>3. Offset(frames[g]) = 1
        BY Zenon, <1>4, <3>2, OffsetFacts, BaseFacts
      <3>4. g # savepoint_greenlet_id
        <4> SUFFICES ASSUME g = savepoint_greenlet_id PROVE FALSE
          BY Zenon
        <4>1. savepoints # <<>> /\ Len(frames[g]) = Offset(frames[g]) + Len(savepoints)
          BY Zenon, <1>1, <1>5, NoOneIsNoGreenlet DEF StackInv, StackPart
        <4>2. QED BY <1>4, <2>3, <3>3, <4>1, LengthFacts
      <3>5. QED BY Zenon, <1>2, <3>1, <3>4 DEF StackPart
    <2>4. QED BY Zenon, <1>2, <2>1, <2>2, <2>3
  <1>7. savepoints' = savepoints /\ savepoint_greenlet_id' = savepoint_greenlet_id /\ marks' = marks
    BY Zenon, <1>2
  <1>8. ASSUME NEW h \in Greenlets, h # g PROVE StackPart(h)'
    <2>1. StackPart(h) /\ frames'[h] = frames[h]
      BY Zenon, <1>1, <1>3, <1>8 DEF StackInv
    <2>2. QED BY Zenon, <1>7, <2>1 DEF StackPart
  <1>9. QED
    <2>1. \A h \in Greenlets : StackPart(h)'
      BY Zenon, <1>6, <1>8
    <2>2. QED BY <1>1, <1>7, <2>1 DEF StackInv

\* A savepoint that is created becomes the last one of the driver and of sqlite.
LEMMA StackCreateStep ==
    ASSUME SavepointInv, NEW g \in Greenlets, Step(g), FrameTypes',
           NEW name \in Names, CreateSavepoint(g, name)
    PROVE  StackInv'
  <1>1. FrameTypes /\ StackInv /\ TypeIInv /\ Nested(frames[g])
    BY Zenon DEF SavepointInv, TypeIInv, LockIInv, PlaceInv, PlacePart
  <1>2. \A h \in Greenlets : h # g => frames'[h] = frames[h]
    BY Zenon, <1>1, OthersStay
  <1>3. /\ frames[g] \in Seq(Frame) /\ frames'[g] \in Seq(Frame) /\ savepoints \in Seq(Names)
        /\ marks \in Seq(Mark)
    BY Zenon, <1>1 DEF FrameTypes, TypeIInv, IdTypes, SqlTypes
  <1>4. CASE UNCHANGED <<sqlVars, savepoints, savepoint_greenlet_id, frames>>
    <2>1. \A h \in Greenlets : StackPart(h)'
      BY Zenon, <1>1, <1>4 DEF StackInv, StackPart
    <2>2. UNCHANGED <<marks, savepoints, savepoint_greenlet_id>>
      BY Zenon, <1>4 DEF sqlVars
    <2>3. QED BY <1>1, <2>1, <2>2 DEF StackInv
  <1>5. CASE /\ ~IsSavepoint(name) /\ SqlSavepoint(name) /\ savepoints' = Append(savepoints, name)
             /\ savepoint_greenlet_id' = g /\ Push(g, "savepoint", name)
             /\ savepoint_greenlet_id \in {NoOne, g}
    <2> DEFINE n == Len(savepoints)
               o == Offset(frames[g])
               m == [name |-> name, saved |-> data]
               f == [kind |-> "savepoint", name |-> name, rows |-> {}]
    <2>1. n \in Nat /\ o \in {0, 1} /\ Len(marks) = n
      BY Zenon, <1>1, <1>3, LengthFacts, BaseFacts DEF StackInv
    <2>2. /\ Len(savepoints') = n + 1 /\ savepoints'[n + 1] = name
          /\ \A i \in 1..n : savepoints'[i] = savepoints[i]
          /\ savepoints' \in Seq(Names)
      BY <1>3, <1>5, PushFacts
    <2>3. /\ Len(marks') = n + 1 /\ marks'[n + 1].name = name
          /\ \A i \in 1..n : marks'[i] = marks[i]
      <3>1. m \in Mark /\ m.name = name /\ marks' = Append(marks, m)
        BY Zenon, <1>1, <1>5 DEF SqlSavepoint, Mark, TypeIInv, SqlTypes
      <3> HIDE DEF m
      <3>2. /\ Len(marks') = Len(marks) + 1 /\ marks'[Len(marks) + 1] = m
            /\ \A i \in 1..Len(marks) : marks'[i] = marks[i]
        BY <1>3, <3>1, PushFacts
      <3>3. QED BY Zenon, <2>1, <3>1, <3>2
    <2>4. Pushed(frames[g], frames'[g], f) /\ f.name = name
      <3>1. Pushed(frames[g], frames'[g], f)
        BY Zenon, <1>1, <1>5, PushOpens DEF Kinds
      <3>2. QED BY Zenon, <3>1
    <2>5. Base(frames'[g]) = IF frames[g] = <<>> THEN "savepoint" ELSE Base(frames[g])
      BY Zenon, <1>1, <1>5, OpenSavepoint
    <2>6. Offset(frames'[g]) = o
      BY Zenon, <1>3, <2>5, OffsetFacts, BaseFacts
    <2>7. Len(frames[g]) = o + n /\ \A i \in 1..n : frames[g][o + i].name = savepoints[i]
      <3>1. CASE savepoint_greenlet_id = g
        BY Zenon, <1>1, <3>1 DEF StackInv, StackPart
      <3>2. CASE savepoint_greenlet_id = NoOne
        <4>1. Len(frames[g]) = o /\ savepoints = <<>>
          BY Zenon, <1>1, <3>2, NoOneIsNoGreenlet DEF StackInv, StackPart
        <4>2. n = 0
          BY Zenon, <1>3, <4>1, LengthFacts
        <4>3. QED BY <2>1, <4>1, <4>2
      <3>3. QED BY Zenon, <1>5, <3>1, <3>2
    <2> HIDE DEF n, o, f, m
    <2>8. /\ \A i \in 1..(n + 1) : i \in 1..n \/ i = n + 1
          /\ \A i \in 1..n : o + i \in 1..(o + n)
          /\ \A i \in 1..n : i # n + 1
          /\ (o + n) + 1 = o + (n + 1)
      BY <2>1
    <2>9. Len(frames'[g]) = o + (n + 1) /\ \A i \in 1..(n + 1) : frames'[g][o + i].name = savepoints'[i]
      <3>1. /\ Len(frames'[g]) = (o + n) + 1 /\ frames'[g][(o + n) + 1].name = name
            /\ \A i \in 1..(o + n) : frames'[g][i].name = frames[g][i].name
        BY Zenon, <2>4, <2>7 DEF Pushed, Alike
      <3>2. Len(frames'[g]) = o + (n + 1) /\ frames'[g][o + (n + 1)].name = name
        BY Zenon, <2>8, <3>1
      <3>3. \A i \in 1..n : frames'[g][o + i].name = savepoints'[i]
        BY Zenon, <2>2, <2>7, <2>8, <3>1
      <3>4. QED BY Zenon, <2>2, <2>8, <3>2, <3>3
    <2>10. StackPart(g)'
      BY Zenon, <1>5, <2>2, <2>6, <2>9 DEF StackPart
    <2>11. ASSUME NEW h \in Greenlets, h # g PROVE StackPart(h)'
      <3>1. h # savepoint_greenlet_id
        BY Zenon, <1>5, <2>11, NoOneIsNoGreenlet
      <3>2. QED BY Zenon, <1>1, <1>2, <1>5, <2>11, <3>1 DEF StackInv, StackPart
    <2>12. \A i \in 1..Len(savepoints') : marks'[i].name = savepoints'[i]
      BY Zenon, <1>1, <2>2, <2>3, <2>8 DEF StackInv, n
    <2>13. \A i, j \in 1..Len(savepoints') : savepoints'[i] = savepoints'[j] => i = j
      <3>1. \A i \in 1..n : savepoints[i] # name
        BY Zenon, <1>5 DEF IsSavepoint, n
      <3>2. \A i, j \in 1..n : savepoints[i] = savepoints[j] => i = j
        BY Zenon, <1>1 DEF StackInv, n
      <3>3. QED BY Zenon, <2>2, <2>8, <3>1, <3>2
    <2>14. savepoints' # <<>>
      BY <2>1, <2>2, LengthFacts
    <2>15. Len(savepoints') = Len(marks')
      BY Zenon, <2>2, <2>3
    <2>16. savepoint_greenlet_id' # NoOne
      BY Zenon, <1>5, NoOneIsNoGreenlet
    <2>17. QED
      BY Zenon, <2>10, <2>11, <2>12, <2>13, <2>14, <2>15, <2>16 DEF StackInv
  <1>6. QED
    BY Zenon, <1>4, <1>5 DEF CreateSavepoint

\* A savepoint that is left, with or without an exception, was the last one.
LEMMA StackCloseStep ==
    ASSUME SavepointInv, NEW g \in Greenlets, Step(g), FrameTypes',
           ExitSavepoint(g) \/ UnwindSavepoint(g)
    PROVE  StackInv'
  <1> DEFINE n == Len(savepoints)
             o == Offset(frames[g])
             name == Top(g).name
  <1>1. FrameTypes /\ StackInv /\ TypeIInv /\ Nested(frames[g])
    BY Zenon DEF SavepointInv, TypeIInv, LockIInv, PlaceInv, PlacePart
  <1>2. \A h \in Greenlets : h # g => frames'[h] = frames[h]
    BY Zenon, <1>1, OthersStay
  <1>3. /\ frames[g] \in Seq(Frame) /\ frames'[g] \in Seq(Frame) /\ savepoints \in Seq(Names)
        /\ marks \in Seq(Mark)
    BY Zenon, <1>1 DEF FrameTypes, TypeIInv, IdTypes, SqlTypes
  <1>4. TopIs(g, "savepoint") /\ (Pop(g) \/ (PopInto(g) /\ Len(frames[g]) # 1))
    BY Zenon DEF ExitSavepoint, UnwindSavepoint, Outermost
  <1>5. /\ savepoint_greenlet_id = g
        /\ n \in Nat \ {0} /\ Len(marks) = n /\ Len(frames[g]) = o + n
        /\ ~Unreleasable(name)
        /\ SavepointsBelow(name) = SubSeq(savepoints, 1, n - 1)
        /\ \A i \in 1..Len(marks) : IsLatest(name, i) => i = n
    BY Zenon, <1>4, TopSavepoint
  <1>6. marks' = SubSeq(marks, 1, n - 1) /\ ForgetSavepoint(name)
    <2>1. SqlRelease(name) \/ SqlRollbackAndRelease(name)
      BY Zenon, <1>5 DEF ExitSavepoint, UnwindSavepoint
    <2>2. ForgetSavepoint(name)
      BY Zenon, <1>5 DEF ExitSavepoint, UnwindSavepoint
    <2>3. QED BY Zenon, <1>5, <2>1, <2>2 DEF SqlRelease, SqlRollbackAndRelease, SqlReleaseAt
  <1>7. savepoints' = SubSeq(savepoints, 1, n - 1) /\ marks' = SubSeq(marks, 1, n - 1)
    BY Zenon, <1>5, <1>6 DEF ForgetSavepoint
  <1>8. /\ Len(savepoints') = n - 1 /\ \A i \in 1..(n - 1) : savepoints'[i] = savepoints[i]
        /\ savepoints' \in Seq(Names)
    BY <1>3, <1>5, <1>7, PopFacts
  <1>9. Len(marks') = n - 1 /\ \A i \in 1..(n - 1) : marks'[i] = marks[i]
    BY <1>3, <1>5, <1>7, PopFacts
  <1>10. savepoints' = <<>> <=> n = 1
    BY <1>5, <1>8, LengthFacts
  <1>11. savepoint_greenlet_id' = IF n = 1 THEN NoOne ELSE g
    BY Zenon, <1>5, <1>6, <1>10 DEF ForgetSavepoint
  <1>12. o \in {0, 1}
    BY Zenon, <1>3, BaseFacts
  <1>13. Popped(frames[g], frames'[g])
    BY Zenon, <1>1, <1>4, CloseSavepoint
  <1>14. Offset(frames'[g]) = o
    <2>1. CASE Len(frames[g]) = 1
      <3>1. Base(frames'[g]) = "none" /\ Base(frames[g]) = "savepoint"
        BY Zenon, <1>1, <1>4, <2>1, CloseSavepoint
      <3>2. QED BY Zenon, <1>3, <3>1, OffsetFacts
    <2>2. CASE Len(frames[g]) # 1
      <3>1. Base(frames'[g]) = Base(frames[g])
        BY Zenon, <1>1, <1>4, <2>2, CloseSavepoint
      <3>2. QED BY Zenon, <1>3, <3>1, OffsetFacts
    <2>3. QED BY Zenon, <2>1, <2>2
  <1>15. \A i \in 1..n : frames[g][o + i].name = savepoints[i]
    BY Zenon, <1>1, <1>5 DEF StackInv, StackPart
  <1> HIDE DEF n, o, name
  <1>16. /\ \A i \in 1..(n - 1) : i \in 1..n
         /\ \A i \in 1..(n - 1) : o + i \in 1..(o + n - 1)
         /\ o + n - 1 = o + (n - 1)
         /\ n = 1 => o + (n - 1) = o
    BY <1>5, <1>12
  <1>17. Len(frames'[g]) = o + (n - 1)
    BY <1>5, <1>12, <1>13 DEF Popped
  <1>18. \A i \in 1..(n - 1) : frames'[g][o + i].name = savepoints'[i]
    <2>1. \A i \in 1..(o + n - 1) : frames'[g][i].name = frames[g][i].name
      BY <1>5, <1>12, <1>13 DEF Popped, Alike
    <2>2. QED BY Zenon, <1>8, <1>15, <1>16, <2>1
  <1>19. StackPart(g)'
    <2>1. CASE n = 1
      <3>1. g # savepoint_greenlet_id'
        BY Zenon, <1>11, <2>1, NoOneIsNoGreenlet
      <3>2. QED BY Zenon, <1>14, <1>16, <1>17, <2>1, <3>1 DEF StackPart
    <2>2. CASE n # 1
      BY Zenon, <1>8, <1>11, <1>14, <1>17, <1>18, <2>2 DEF StackPart
    <2>3. QED BY Zenon, <2>1, <2>2
  <1>20. ASSUME NEW h \in Greenlets, h # g PROVE StackPart(h)'
    <2>1. h # savepoint_greenlet_id /\ h # savepoint_greenlet_id'
      BY Zenon, <1>5, <1>11, <1>20, NoOneIsNoGreenlet
    <2>2. StackPart(h) /\ frames'[h] = frames[h]
      BY Zenon, <1>1, <1>2, <1>20 DEF StackInv
    <2>3. QED BY Zenon, <2>1, <2>2 DEF StackPart
  <1>21. \A i \in 1..Len(savepoints') : marks'[i].name = savepoints'[i]
    BY Zenon, <1>1, <1>8, <1>9, <1>16 DEF StackInv, n
  <1>22. \A i, j \in 1..Len(savepoints') : savepoints'[i] = savepoints'[j] => i = j
    BY Zenon, <1>1, <1>8, <1>16 DEF StackInv, n
  <1>23. savepoints' = <<>> <=> savepoint_greenlet_id' = NoOne
    BY Zenon, <1>10, <1>11, NoOneIsNoGreenlet
  <1>24. QED
    BY Zenon, <1>8, <1>9, <1>19, <1>20, <1>21, <1>22, <1>23 DEF StackInv

\* StackInv is inductive.
LEMMA StackStep ==
    ASSUME SavepointInv, NEW g \in Greenlets, Step(g), FrameTypes'
    PROVE  StackInv'
  BY Zenon, StackOtherStep, StackCreateStep, StackCloseStep

\* Initially no context, no savepoint and no transaction is open.
LEMMA SavepointInit == Init => SavepointInv
  <1> SUFFICES ASSUME Init PROVE SavepointInv
    BY Zenon
  <1>1. /\ savepoints = <<>> /\ marks = <<>> /\ savepoint_greenlet_id = NoOne
        /\ write_greenlet_id = NoOne /\ ~begun /\ transaction_lock = NoOne
        /\ \A g \in Greenlets : frames[g] = <<>> /\ pc[g] = "run"
    BY Zenon DEF Init, SqlInit
  <1>2. /\ Len(savepoints) = 0 /\ Len(marks) = 0 /\ Base(<<>>) = "none"
        /\ \A g \in Greenlets : Len(frames[g]) = 0 /\ Offset(frames[g]) = 0 /\ Nested(frames[g])
    BY <1>1 DEF Base, Offset, Nested
  <1>3. TypeIInv
    BY Zenon, TypeInit
  <1>4. PlaceInv
    BY Zenon, <1>1, <1>2 DEF PlaceInv, PlacePart, Idle
  <1>5. AloneInv
    BY Zenon, <1>1, <1>2, NoOneIsNoGreenlet DEF AloneInv, AlonePart, Alone
  <1>6. TxInv
    BY Zenon, <1>1, <1>2 DEF TxInv
  <1>7. StackInv
    BY <1>1, <1>2, NoOneIsNoGreenlet DEF StackInv, StackPart
  <1>8. QED BY Zenon, <1>3, <1>4, <1>5, <1>6, <1>7 DEF SavepointInv

\* Every step of the driver keeps the invariant.
LEMMA SavepointStep ==
    ASSUME SavepointsRunThrough, SavepointInv, [Next]_vars
    PROVE  SavepointInv'
  <1>1. TypeIInv'
    BY Zenon, TypeStep DEF SavepointInv
  <1>2. CASE UNCHANGED vars
    <2>1. UNCHANGED <<begun, marks, in_callback, transaction_lock, handler, savepoints,
                      savepoint_greenlet_id, write_greenlet_id, want, raised, frames, running, pc>>
      BY Zenon, <1>2 DEF vars, sqlVars, lockVars, idVars, ctxVars
    <2>2. PlaceInv' /\ AloneInv'
      BY Zenon, <2>1 DEF SavepointInv, PlaceInv, PlacePart, AloneInv, AlonePart, Alone
    <2>3. TxInv'
      BY Zenon, <2>1 DEF SavepointInv, TxInv
    <2>4. StackInv'
      BY <2>1 DEF SavepointInv, StackInv, StackPart
    <2>5. QED BY Zenon, <1>1, <2>2, <2>3, <2>4 DEF SavepointInv
  <1>3. ASSUME NEW g \in Greenlets, Step(g) PROVE SavepointInv'
    <2>1. FrameTypes'
      BY Zenon, <1>1 DEF TypeIInv, LockIInv
    <2>2. QED
      BY Zenon, <1>1, <1>3, <2>1, PlaceStep, AloneStep, TxStep, StackStep DEF SavepointInv
  <1>4. QED BY Zenon, <1>2, <1>3 DEF Next, AllDone

\* The invariant holds throughout.
LEMMA SavepointInvariant ==
    ASSUME SavepointsRunThrough PROVE Spec => []SavepointInv
  <1>1. SavepointInv /\ [Next]_vars => SavepointInv'
    BY Zenon, SavepointStep
  <1>2. QED BY <1>1, SavepointInit, PTL DEF Spec

\* The driver's list of savepoints is sqlite's stack of savepoints, and they belong
\* to the one greenlet that savepoint_greenlet_id names, however savepoint_ctx and
\* write_ctx are nested, fail, wait for each other or are killed.
THEOREM SavepointsStayMatched ==
    ASSUME SavepointsRunThrough PROVE Spec => []SavepointsMatch
  <1>1. SavepointInv => SavepointsMatch
    <2> SUFFICES ASSUME SavepointInv PROVE SavepointsMatch
      BY Zenon
    <2>1. ASSUME NEW g \in Greenlets, HasKind(g, "savepoint"), g # savepoint_greenlet_id
          PROVE  FALSE
      <3>1. frames[g] \in Seq(Frame)
        BY Zenon DEF SavepointInv, TypeIInv, LockIInv, FrameTypes
      <3>2. frames[g] # <<>>
        BY <2>1, <3>1 DEF HasKind
      <3>3. Len(frames[g]) = 1 /\ Base(frames[g]) # "savepoint"
        BY Zenon, <2>1, <3>2, NotOwner DEF SavepointInv
      <3>4. QED BY <2>1, <3>2, <3>3 DEF HasKind, Base
    <2>2. QED BY Zenon, <2>1 DEF SavepointsMatch, SavepointInv, StackInv
  <1>2. QED BY <1>1, SavepointInvariant, PTL

\* BEGIN TRANSACTION never meets an open transaction or an open savepoint.
THEOREM SavepointsBeginSucceeds ==
    ASSUME SavepointsRunThrough PROVE Spec => []BeginSucceeds
  <1>1. SavepointInv => BeginSucceeds
    BY Zenon, QuietBegin DEF BeginSucceeds
  <1>2. QED BY <1>1, SavepointInvariant, PTL

-----------------------------------------------------------------------------
(* Rows                                                                      *)

\* The rows of the first n contexts of a stack.
Own(s, n) == UNION {s[i].rows : i \in 1..n}

\* When only contexts of the stack s are open: the connection holds the committed
\* rows and theirs, and every savepoint recalls the rows of the contexts below it.
Holds(s) ==
    /\ data = disk \union Own(s, Len(s))
    /\ Base(s) \in {"critical", "critical_lock"} => s[1].rows = {}
    /\ \A i \in 1..Len(marks) : marks[i].saved = disk \union Own(s, Offset(s) + i - 1)

OthersClosed(g) == \A h \in Greenlets \ {g} : frames[h] = <<>>

RowsInv ==
    /\ disk = acked
    /\ (\A g \in Greenlets : frames[g] = <<>>) => data = disk
    /\ \A g \in Greenlets : OthersClosed(g) => Holds(frames[g])

\* The rows of n contexts are those of the first n - 1 and of the last one.
LEMMA OwnFacts ==
    ASSUME NEW s \in Seq(Frame)
    PROVE  /\ Own(s, 0) = {}
           /\ \A n \in 1..Len(s) : Own(s, n) = Own(s, n - 1) \union s[n].rows
           /\ Own(s, 1) = s[1].rows
  <1>1. Own(s, 0) = {} /\ Own(s, 1) = s[1].rows
    BY DEF Own
  <1>2. ASSUME NEW n \in 1..Len(s) PROVE Own(s, n) = Own(s, n - 1) \union s[n].rows
    <2>1. 1..n = (1..(n - 1)) \union {n}
      OBVIOUS
    <2>2. {s[i].rows : i \in 1..n} = {s[i].rows : i \in 1..(n - 1)} \union {s[n].rows}
      BY Zenon, <2>1
    <2>3. QED BY Zenon, <2>2 DEF Own
  <1>3. QED BY Zenon, <1>1, <1>2

\* Own depends on the rows of the contexts only.
LEMMA OwnSame ==
    ASSUME NEW s, NEW t, NEW n, \A i \in 1..n : t[i].rows = s[i].rows
    PROVE  Own(t, n) = Own(s, n)
  BY Zenon DEF Own

\* Stacks without rows.
LEMMA NoRows ==
    ASSUME NEW s \in Seq(Frame), marks = <<>>
    PROVE  /\ s = <<>> => (Holds(s) <=> data = disk)
           /\ Len(s) = 1 => (Holds(s) => data = disk \union s[1].rows)
           /\ Len(s) = 1 /\ s[1].rows = {} => (Holds(s) <=> data = disk)
  <1>1. 1..Len(marks) = {}
    OBVIOUS
  <1>2. s = <<>> => Base(s) = "none" /\ Len(s) = 0
    BY Zenon DEF Base
  <1>3. QED BY Zenon, <1>1, <1>2, OwnFacts DEF Holds

\* A greenlet that opens an outer context, or ends a transaction outside of its
\* contexts, finds all contexts closed and nothing uncommitted.
LEMMA OuterRows ==
    ASSUME SavepointInv, NEW g \in Greenlets, Step(g), OthersClosed(g), Holds(frames[g]), FrameTypes',
           CriticalEnter(g) \/ AcquireLock(g) \/ Begin(g)
    PROVE  UNCHANGED <<disk, acked>> /\ Holds(frames[g])' /\ OpenRows(g)' = {}
  <1>0. FrameTypes /\ frames[g] \in Seq(Frame) /\ frames'[g] \in Seq(Frame)
    BY Zenon DEF SavepointInv, TypeIInv, LockIInv, FrameTypes
  <1>1. /\ UNCHANGED <<data, disk, marks, acked>> /\ running = g
        /\ pc[g] \in {"cs_enter", "lock", "begin"} /\ (pc[g] = "cs_enter" => in_callback = NoOne)
        /\ \/ UNCHANGED frames
           \/ \E k \in {"write", "critical", "critical_lock"} : Push(g, k, "none")
    BY Zenon DEF CriticalEnter, AcquireLock, Begin, SqlBegin, sqlVars, At
  <1>2. frames[g] = <<>>
    BY Zenon, <1>1 DEF SavepointInv, PlaceInv, PlacePart, Idle
  <1>3. in_callback = NoOne
    BY Zenon, <1>1 DEF SavepointInv, AloneInv, AlonePart, Alone
  <1>4. marks = <<>> /\ marks' = <<>>
    BY Zenon, <1>1, <1>2, <1>3, QuietNoSavepoints
  <1>5. data = disk
    BY Zenon, <1>0, <1>2, <1>4, NoRows
  <1>6. CASE UNCHANGED frames
    <2>1. 1..Len(frames'[g]) = {}
      BY <1>2, <1>6
    <2>2. OpenRows(g)' = {}
      BY Zenon, <2>1 DEF OpenRows
    <2>3. QED BY Zenon, <1>1, <1>6, <2>2 DEF Holds
  <1>7. ASSUME NEW k \in {"write", "critical", "critical_lock"}, Push(g, k, "none")
        PROVE  Holds(frames[g])' /\ OpenRows(g)' = {}
    <2> DEFINE f == [kind |-> k, name |-> "none", rows |-> {}]
    <2>1. Pushed(frames[g], frames'[g], f)
      BY Zenon, <1>0, <1>7, PushOpens DEF Kinds
    <2>2. Len(frames[g]) = 0 /\ f.rows = {}
      BY Zenon, <1>0, <1>2
    <2> HIDE DEF f
    <2>3. Len(frames'[g]) = 1 /\ frames'[g][1].rows = {}
      BY <2>1, <2>2 DEF Pushed
    <2>4. 1..Len(marks') = {} /\ Own(frames'[g], 1) = {}
      BY <1>0, <1>4, <2>3, OwnFacts
    <2>5. data' = disk' \union Own(frames'[g], Len(frames'[g]))
      BY Zenon, <1>1, <1>5, <2>3, <2>4
    <2>6. OpenRows(g)' = {}
      BY Zenon, <2>3, <2>4 DEF OpenRows, Own
    <2>7. QED BY Zenon, <2>3, <2>4, <2>5, <2>6 DEF Holds
  <1>8. QED BY Zenon, <1>1, <1>6, <1>7

\* A commit or rollback outside of write_ctx finds nothing uncommitted.
LEMMA EndRows ==
    ASSUME SavepointInv, NEW g \in Greenlets, Holds(frames[g]),
           ExecuteScript(g) \/ Commit(g) \/ Rollback(g)
    PROVE  UNCHANGED <<disk, acked>> /\ Holds(frames[g])' /\ UNCHANGED frames
  <1>0. frames[g] \in Seq(Frame) /\ Nested(frames[g])
    BY Zenon DEF SavepointInv, TypeIInv, LockIInv, FrameTypes, PlaceInv, PlacePart
  <1>1. marks = <<>>
    BY Zenon, EndsWithoutSavepoints
  <1>2. /\ UNCHANGED <<frames, acked>> /\ marks' = <<>>
        /\ (disk' = data /\ data' = data) \/ (data' = disk /\ disk' = disk)
    BY Zenon DEF ExecuteScript, Commit, Rollback, SqlCommit, SqlRollback, ctxVars
  <1>3. data = disk
    <2>1. CASE ExecuteScript(g)
      <3>1. TopIs(g, "critical")
        BY Zenon, <2>1 DEF ExecuteScript
      <3>2. Len(frames[g]) = 1 /\ Base(frames[g]) = "critical"
        BY Zenon, <1>0, <3>1, TopOuter DEF TopIs, Top
      <3>3. QED BY Zenon, <1>0, <1>1, <3>2, NoRows DEF Holds
    <2>2. CASE Commit(g) \/ Rollback(g)
      <3>1. frames[g] = <<>>
        BY Zenon, <2>2 DEF Commit, Rollback, At, SavepointInv, PlaceInv, PlacePart, Idle
      <3>2. QED BY Zenon, <1>0, <1>1, <3>1, NoRows
    <2>3. QED BY Zenon, <2>1, <2>2
  <1>4. UNCHANGED <<data, disk, marks, frames, acked>>
    BY Zenon, <1>1, <1>2, <1>3
  <1>5. QED BY Zenon, <1>4 DEF Holds

\* Leaving an outer context commits its rows, or takes them back.
LEMMA CloseRows ==
    ASSUME SavepointInv, NEW g \in Greenlets, Holds(frames[g]), disk = acked,
           \/ ExitWrite(g) \/ UnwindWrite(g) \/ ExitCritical(g) \/ ExitCriticalLock(g)
           \/ UnwindCritical(g)
    PROVE  /\ disk' = acked' /\ Holds(frames[g])' /\ frames'[g] = <<>>
           /\ \/ disk' = disk /\ acked' = acked
              \/ disk' = disk \union OpenRows(g) /\ acked' = acked \union OpenRows(g)
  <1>0. FrameTypes /\ frames[g] \in Seq(Frame) /\ Nested(frames[g])
    BY Zenon DEF SavepointInv, TypeIInv, LockIInv, FrameTypes, PlaceInv, PlacePart
  <1>1. /\ Pop(g) /\ running = g
        /\ ExitWrite(g) \/ UnwindWrite(g) => TopIs(g, "write")
        /\ ~(ExitWrite(g) \/ UnwindWrite(g)) => TopIs(g, "critical") \/ TopIs(g, "critical_lock")
    BY Zenon DEF ExitWrite, ExitCritical, ExitCriticalLock, UnwindWrite, UnwindCritical, At
  <1>2. \E k \in {"write", "critical", "critical_lock"} :
            TopIs(g, k) /\ Len(frames[g]) = 1 /\ Base(frames[g]) = k /\ frames'[g] = <<>>
    BY Zenon, <1>0, <1>1, CloseOuter DEF Kinds
  <1>3. in_callback = NoOne
    BY Zenon, <1>2 DEF SavepointInv, AloneInv, AlonePart, Alone
  <1>4. marks = <<>>
    BY Zenon, <1>1, <1>2, <1>3, QuietNoSavepoints DEF Kinds
  <1>5. frames'[g] \in Seq(Frame) /\ Top(g) = frames[g][1]
    BY <1>0, <1>2 DEF Top
  <1>6. data = disk \union frames[g][1].rows /\ OpenRows(g) = frames[g][1].rows
    BY Zenon, <1>0, <1>2, <1>4, NoRows, OwnFacts DEF OpenRows, Own
  <1>7. ASSUME marks' = <<>>, data' = disk' PROVE Holds(frames[g])'
    <2>1. 1..Len(marks') = {} /\ Len(frames'[g]) = 0 /\ Base(frames'[g]) = "none"
      BY <1>2, <1>7 DEF Base
    <2>2. Own(frames'[g], 0) = {}
      BY Zenon, <1>5, OwnFacts
    <2>3. data' = disk' \union Own(frames'[g], Len(frames'[g]))
      BY Zenon, <1>7, <2>1, <2>2
    <2>4. QED BY Zenon, <2>1, <2>3 DEF Holds
  <1>8. CASE ExitWrite(g)
    <2>1. /\ marks' = <<>> /\ disk' = data /\ data' = data
          /\ acked' = acked \union frames[g][1].rows
      BY Zenon, <1>5, <1>8 DEF ExitWrite, SqlCommit
    <2>2. QED BY Zenon, <1>2, <1>6, <1>7, <2>1
  <1>9. CASE UnwindWrite(g)
    <2>1. raised[g] = "Exception" /\ acked' = acked
      BY Zenon, <1>2, <1>9 DEF UnwindWrite, At, TopIs, SavepointInv, PlaceInv, PlacePart
    <2>2. marks' = <<>> /\ data' = disk /\ disk' = disk
      BY Zenon, <1>9, <2>1 DEF UnwindWrite, SqlRollback
    <2>3. QED BY Zenon, <1>2, <1>7, <2>1, <2>2
  <1>10. CASE ExitCritical(g) \/ ExitCriticalLock(g) \/ UnwindCritical(g)
    <2>1. UNCHANGED <<data, disk, marks, acked>>
      BY Zenon, <1>10 DEF ExitCritical, ExitCriticalLock, UnwindCritical, sqlVars
    <2>2. Base(frames[g]) \in {"critical", "critical_lock"}
      <3>1. TopIs(g, "critical") \/ TopIs(g, "critical_lock")
        BY Zenon, <1>10 DEF ExitCritical, ExitCriticalLock, UnwindCritical
      <3>2. QED BY Zenon, <1>0, <1>1, <3>1, CloseOuter DEF Kinds
    <2>3. data = disk
      BY Zenon, <1>6, <2>2 DEF Holds
    <2>4. QED BY Zenon, <1>2, <1>4, <1>7, <2>1, <2>3
  <1>11. QED BY Zenon, <1>8, <1>9, <1>10

\* The rows of a statement are in the transaction of the context it runs in.
LEMMA InsertRows ==
    ASSUME SavepointInv, NEW g \in Greenlets, Holds(frames[g]), Insert(g)
    PROVE  /\ UNCHANGED <<disk, acked>> /\ Holds(frames[g])'
           /\ OpenRows(g)' = OpenRows(g) \union {<<g, opened[g]>>}
  <1> DEFINE s == frames[g]
             t == frames'[g]
             n == Len(frames[g])
             row == <<g, opened[g]>>
  <1>0. FrameTypes /\ s \in Seq(Frame) /\ Nested(s) /\ marks \in Seq(Mark)
    BY Zenon DEF SavepointInv, TypeIInv, LockIInv, FrameTypes, PlaceInv, PlacePart, SqlTypes
  <1>1. /\ t \in Seq(Frame) /\ Len(t) = n /\ \A i \in 1..(n - 1) : t[i] = s[i]
        /\ t[n].rows = s[n].rows \union {row} /\ Base(t) = Base(s)
    BY Zenon, <1>0, InsertAdds, InsertKeeps DEF Kept
  <1>2. UNCHANGED <<marks, acked>> /\ data' = data \union {row} /\ InTx(g) /\ running = g
    BY Zenon DEF Insert, SqlInsert, At
  <1>3. n \in Nat \ {0}
    BY Zenon, <1>0, <1>2, LengthFacts DEF InTx, TopIs
  <1>4. /\ InTransaction /\ (Base(s) \in {"critical", "critical_lock"} => 1 \in 1..(n - 1))
        /\ \A i \in 1..Len(marks) : Offset(s) + i - 1 \in 0..(n - 1)
    <2>1. CASE TopIs(g, "write")
      <3>1. Base(s) = "write"
        BY Zenon, <1>0, <2>1, TopOuter DEF TopIs, Top
      <3>2. begun /\ in_callback = NoOne
        BY Zenon, <3>1 DEF SavepointInv, TxInv, AloneInv, AlonePart, Alone
      <3>3. marks = <<>>
        BY Zenon, <1>2, <2>1, <3>2, QuietNoSavepoints DEF Kinds
      <3>4. 1..Len(marks) = {}
        BY <3>3
      <3>5. QED BY Zenon, <3>1, <3>2, <3>4 DEF InTransaction
    <2>2. CASE TopIs(g, "savepoint")
      <3>1. Len(savepoints) \in Nat \ {0} /\ Len(marks) = Len(savepoints) /\ n = Offset(s) + Len(savepoints)
        BY Zenon, <2>2, TopSavepoint
      <3>2. Offset(s) \in {0, 1}
        BY Zenon, <1>0, BaseFacts
      <3>3. \A i \in 1..Len(marks) : Offset(s) + i - 1 \in 0..(n - 1)
        BY <3>1, <3>2
      <3>4. marks # <<>>
        BY Zenon, <1>0, <3>1
      <3>5. Base(s) \in {"critical", "critical_lock"} => Offset(s) = 1
        BY Zenon, <1>0, OffsetFacts
      <3>6. Offset(s) = 1 => 1 \in 1..(n - 1)
        BY <3>1
      <3>7. QED BY Zenon, <3>3, <3>4, <3>5, <3>6 DEF InTransaction
    <2>3. QED BY Zenon, <1>2, <2>1, <2>2 DEF InTx
  <1>5. disk' = disk
    BY Zenon, <1>4 DEF Insert, SqlInsert
  <1> HIDE DEF s, t, n, row
  <1>6. \A k \in 0..(n - 1) : Own(t, k) = Own(s, k)
    <2> SUFFICES ASSUME NEW k \in 0..(n - 1) PROVE Own(t, k) = Own(s, k)
      BY Zenon
    <2>1. \A i \in 1..k : i \in 1..(n - 1)
      BY <1>3
    <2>2. \A i \in 1..k : t[i].rows = s[i].rows
      BY Zenon, <1>1, <2>1
    <2>3. QED BY Zenon, <2>2, OwnSame
  <1>7. Own(t, n) = Own(s, n) \union {row}
    <2>1. n \in 1..n /\ n - 1 \in 0..(n - 1) /\ n = Len(s)
      BY <1>3 DEF n, s
    <2>2. Own(s, n) = Own(s, n - 1) \union s[n].rows /\ Own(t, n) = Own(t, n - 1) \union t[n].rows
      BY Zenon, <1>0, <1>1, <2>1, OwnFacts
    <2>3. QED BY Zenon, <1>1, <1>6, <2>1, <2>2
  <1>8. Offset(t) = Offset(s)
    BY Zenon, <1>0, <1>1, OffsetFacts
  <1>9. /\ data = disk \union Own(s, n)
        /\ \A i \in 1..Len(marks) : marks[i].saved = disk \union Own(s, Offset(s) + i - 1)
    BY Zenon DEF Holds, s, n
  <1>10. data' = disk' \union Own(t, Len(t))
    BY Zenon, <1>1, <1>2, <1>5, <1>7, <1>9
  <1>11. \A i \in 1..Len(marks') : marks'[i].saved = disk' \union Own(t, Offset(t) + i - 1)
    BY Zenon, <1>2, <1>4, <1>5, <1>6, <1>8, <1>9
  <1>12. Holds(frames[g])'
    <2>1. Base(t) \in {"critical", "critical_lock"} => t[1].rows = {}
      BY Zenon, <1>1, <1>4 DEF Holds, s
    <2>2. QED BY Zenon, <1>10, <1>11, <2>1 DEF Holds, t
  <1>13. OpenRows(g) = Own(s, n) /\ OpenRows(g)' = Own(t, Len(t))
    BY Zenon DEF OpenRows, Own, s, t, n
  <1>14. QED
    <2>1. OpenRows(g)' = OpenRows(g) \union {row}
      BY Zenon, <1>1, <1>7, <1>13
    <2>2. QED BY Zenon, <1>2, <1>5, <1>12, <2>1 DEF row

\* SAVEPOINT recalls the rows of the contexts it is opened in.
LEMMA CreateRows ==
    ASSUME SavepointInv, SavepointInv', NEW g \in Greenlets, Holds(frames[g]), NEW name \in Names,
           CreateSavepoint(g, name)
    PROVE  UNCHANGED <<disk, acked>> /\ Holds(frames[g])' /\ OpenRows(g)' = OpenRows(g)
  <1> DEFINE s == frames[g]
             t == frames'[g]
             n == Len(frames[g])
             m == Len(marks)
             f == [kind |-> "savepoint", name |-> name, rows |-> {}]
             mark == [name |-> name, saved |-> data]
  <1>0. FrameTypes /\ s \in Seq(Frame) /\ Nested(s) /\ marks \in Seq(Mark) /\ mark \in Mark
    BY Zenon DEF SavepointInv, TypeIInv, LockIInv, FrameTypes, PlaceInv, PlacePart, SqlTypes, Mark
  <1>1. CASE UNCHANGED <<sqlVars, frames, acked>>
    <2>1. UNCHANGED <<data, disk, marks, frames, acked>>
      BY Zenon, <1>1 DEF sqlVars
    <2>2. QED BY Zenon, <2>1 DEF Holds, OpenRows
  <1>2. CASE SqlSavepoint(name) /\ Push(g, "savepoint", name) /\ savepoint_greenlet_id' = g /\ UNCHANGED acked
    <2>1. marks' = Append(marks, mark) /\ UNCHANGED <<data, disk, acked>>
      BY Zenon, <1>2 DEF SqlSavepoint
    <2>2. t = Append(s, f) /\ f \in Frame /\ t \in Seq(Frame)
      BY Zenon, <1>0, <1>2, PushOpens DEF Kinds
    <2>3. f.rows = {} /\ mark.saved = data
      BY Zenon
    <2>4. Base(t) = IF s = <<>> THEN "savepoint" ELSE Base(s)
      BY Zenon, <1>0, <1>2, OpenSavepoint
    <2>5. Offset(t) = Offset(s) /\ Offset(s) \in {0, 1}
      BY Zenon, <1>0, <2>2, <2>4, OffsetFacts, BaseFacts
    <2>6. Len(t) = Offset(t) + Len(marks')
      BY Zenon, <1>2 DEF SavepointInv, StackInv, StackPart
    <2>7. OpenRows(g) = Own(s, n) /\ OpenRows(g)' = Own(t, Len(t))
      BY Zenon DEF OpenRows, Own
    <2> HIDE DEF f, mark, t, s
    <2>8. /\ m \in Nat /\ Len(marks') = m + 1 /\ marks'[m + 1] = mark
          /\ \A i \in 1..m : marks'[i] = marks[i]
      BY <1>0, <2>1, LengthFacts, PushFacts
    <2>9. Len(s) \in Nat /\ Len(t) = Len(s) + 1 /\ t[Len(s) + 1] = f /\ \A i \in 1..Len(s) : t[i] = s[i]
      BY <1>0, <2>2, LengthFacts, PushFacts
    <2>10. n = Len(s)
      BY Zenon DEF s
    <2> HIDE DEF n, m
    <2>11. \A k \in 0..n : Own(t, k) = Own(s, k)
      <3> SUFFICES ASSUME NEW k \in 0..n PROVE Own(t, k) = Own(s, k)
        BY Zenon
      <3>1. \A i \in 1..k : i \in 1..n
        BY <2>9, <2>10
      <3>2. \A i \in 1..k : t[i].rows = s[i].rows
        BY Zenon, <2>9, <2>10, <3>1
      <3>3. QED BY Zenon, <3>2, OwnSame
    <2>12. /\ n \in 0..n /\ n + 1 \in 1..(n + 1) /\ (n + 1) - 1 = n
           /\ \A i \in 1..(m + 1) : i \in 1..m \/ i = m + 1
           /\ \A i \in 1..m : Offset(s) + i - 1 \in 0..n
           /\ Offset(s) + (m + 1) - 1 = n
      BY <2>5, <2>6, <2>8, <2>9, <2>10
    <2>13. Own(t, Len(t)) = Own(s, n)
      <3>0. n + 1 \in 1..Len(t)
        BY Zenon, <2>9, <2>10, <2>12
      <3>1. Own(t, n + 1) = Own(t, (n + 1) - 1) \union t[n + 1].rows
        BY Zenon, <2>2, <3>0, OwnFacts
      <3>2. QED BY Zenon, <2>3, <2>9, <2>10, <2>11, <2>12, <3>1
    <2>14. /\ data = disk \union Own(s, n)
           /\ Base(s) \in {"critical", "critical_lock"} => s[1].rows = {}
           /\ \A i \in 1..m : marks[i].saved = disk \union Own(s, Offset(s) + i - 1)
      BY Zenon DEF Holds, s, n, m
    <2>15. data' = disk' \union Own(t, Len(t))
      BY Zenon, <2>1, <2>13, <2>14
    <2>16. Base(t) \in {"critical", "critical_lock"} => t[1].rows = {}
      <3>1. Base(t) \in {"critical", "critical_lock"} => Base(s) = Base(t) /\ s # <<>>
        BY Zenon, <2>4
      <3>2. s # <<>> => 1 \in 1..Len(s)
        BY <1>0, LengthFacts
      <3>3. QED BY Zenon, <2>9, <2>14, <3>1, <3>2
    <2>17. \A i \in 1..Len(marks') : marks'[i].saved = disk' \union Own(t, Offset(t) + i - 1)
      <3>1. \A i \in 1..m : marks'[i].saved = disk' \union Own(t, Offset(t) + i - 1)
        BY Zenon, <2>1, <2>5, <2>8, <2>11, <2>12, <2>14
      <3>2. marks'[m + 1].saved = disk' \union Own(t, Offset(t) + (m + 1) - 1)
        BY Zenon, <2>1, <2>3, <2>5, <2>8, <2>11, <2>12, <2>14
      <3>3. QED BY Zenon, <2>8, <2>12, <3>1, <3>2
    <2>18. Holds(frames[g])'
      BY Zenon, <2>15, <2>16, <2>17 DEF Holds, t
    <2>19. QED BY Zenon, <2>1, <2>7, <2>13, <2>18
  <1>3. QED BY Zenon, <1>1, <1>2 DEF CreateSavepoint

\* Releasing a savepoint commits exactly when its context is the outermost that holds
\* rows; the contexts around it hold none then.
LEMMA ReleaseFacts ==
    ASSUME SavepointInv, NEW g \in Greenlets, Holds(frames[g]), TopIs(g, "savepoint")
    PROVE  LET s == frames[g]
               n == Len(frames[g])
               m == Len(marks)
               name == Top(g).name
           IN  /\ n \in Nat \ {0} /\ m \in Nat \ {0} /\ n = Offset(s) + m /\ Offset(s) \in {0, 1}
               /\ \A i \in 1..m : IsLatest(name, i) => i = m
               /\ marks[m].saved = disk \union Own(s, n - 1)
               /\ Own(s, n) = Own(s, n - 1) \union Top(g).rows
               /\ m = 1 /\ ~begun <=> Outermost(g)
               /\ Outermost(g) => m = 1 /\ Own(s, n - 1) = {}
               /\ ~Outermost(g) /\ Base(s) \in {"critical", "critical_lock"} => m # 1
  <1> DEFINE s == frames[g]
             n == Len(frames[g])
             m == Len(marks)
             o == Offset(frames[g])
             name == Top(g).name
  <1>0. s \in Seq(Frame) /\ Nested(s) /\ marks \in Seq(Mark) /\ s # <<>> /\ begun \in BOOLEAN
    BY Zenon DEF SavepointInv, TypeIInv, LockIInv, FrameTypes, PlaceInv, PlacePart, SqlTypes, TopIs
  <1>1. /\ Len(savepoints) \in Nat \ {0} /\ m = Len(savepoints) /\ n = o + Len(savepoints)
        /\ \A i \in 1..m : IsLatest(name, i) => i = Len(savepoints)
    BY Zenon, TopSavepoint
  <1>2. o \in {0, 1} /\ Base(s) = s[1].kind /\ Top(g) = s[n]
    BY Zenon, <1>0, BaseFacts DEF Base, Top
  <1>3. /\ data = disk \union Own(s, n)
        /\ Base(s) \in {"critical", "critical_lock"} => s[1].rows = {}
        /\ \A i \in 1..m : marks[i].saved = disk \union Own(s, o + i - 1)
    BY Zenon DEF Holds
  <1>4. begun <=> Base(s) = "write"
    <2>1. begun <=> \E h \in Greenlets : Base(frames[h]) = "write"
      BY Zenon DEF SavepointInv, TxInv
    <2>2. ASSUME NEW h \in Greenlets, Base(frames[h]) = "write" PROVE h = g
      <3>1. frames[h] # <<>>
        BY Zenon, <2>2 DEF Base
      <3>2. QED BY Zenon, <1>0, <3>1, OneOpen
    <2>3. QED BY Zenon, <2>1, <2>2
  <1>5. /\ Base(s) \in Kinds
        /\ Base(s) \in {"none", "savepoint"} <=> o = 0
    <2>1. 1 \in 1..Len(s)
      BY <1>0, LengthFacts
    <2>2. s[1] \in Frame
      BY Zenon, <1>0, <2>1, ElementFacts
    <2>3. s[1].kind \in Kinds
      BY Zenon, <2>2 DEF Frame
    <2>4. QED BY <1>2, <2>3 DEF Offset
  <1>6. Outermost(g) <=> n = 1 \/ s[n - 1].kind \in {"critical", "critical_lock"}
    BY Zenon DEF Outermost
  <1>7. \A i \in 2..n : s[i].kind = "savepoint"
    BY Zenon, <1>0 DEF Nested
  <1>9. Own(s, 0) = {} /\ Own(s, 1) = s[1].rows /\ Own(s, n) = Own(s, n - 1) \union s[n].rows
    <2>1. n \in 1..Len(s)
      BY <1>1, <1>2
    <2>2. QED BY Zenon, <1>0, <2>1, OwnFacts
  <1> HIDE DEF s, n, m, o, name
  <1>10. marks[m].saved = disk \union Own(s, n - 1)
    <2>1. m \in 1..m /\ o + m - 1 = n - 1
      BY <1>1, <1>2
    <2>2. QED BY Zenon, <1>1, <1>3, <2>1
  <1>11. n \in Nat \ {0} /\ m \in Nat \ {0}
    BY <1>1, <1>2
  <1>12. Outermost(g) => m = 1 /\ Base(s) # "write" /\ Own(s, n - 1) = {}
    <2>1. CASE n = 1
      <3>1. m = 1 /\ o = 0 /\ n - 1 = 0
        BY <1>1, <1>2, <1>11, <2>1
      <3>2. QED BY Zenon, <1>5, <1>9, <3>1
    <2>2. CASE n # 1 /\ s[n - 1].kind \in {"critical", "critical_lock"}
      <3>1. n - 1 \notin 2..n
        BY Zenon, <1>7, <2>2
      <3>2. n = 2
        BY <1>11, <2>2, <3>1
      <3>3. n - 1 = 1
        BY <3>2
      <3>4. Base(s) \in {"critical", "critical_lock"} /\ Own(s, n - 1) = {}
        BY Zenon, <1>2, <1>3, <1>9, <2>2, <3>3
      <3>5. o # 0
        BY Zenon, <1>5, <3>4
      <3>6. m = 1
        BY <1>1, <1>2, <3>2, <3>5
      <3>7. QED BY Zenon, <3>4, <3>6
    <2>3. QED BY Zenon, <1>6, <2>1, <2>2
  <1>13. m = 1 /\ Base(s) # "write" => Outermost(g)
    <2>1. CASE o = 0
      BY <1>1, <1>6, <2>1
    <2>2. CASE o = 1
      <3>1. m = 1 => n - 1 = 1
        BY <1>1, <2>2
      <3>2. Base(s) # "savepoint"
        BY <1>5, <2>2
      <3>3. Base(s) # "write" => s[1].kind \in {"critical", "critical_lock"}
        BY Zenon, <1>2, <1>5, <3>2 DEF Kinds
      <3>4. QED BY Zenon, <1>6, <3>1, <3>3
    <2>3. QED BY Zenon, <1>2, <2>1, <2>2
  <1>14. m = 1 /\ ~begun <=> Outermost(g)
    BY Zenon, <1>4, <1>12, <1>13
  <1>15. ~Outermost(g) /\ Base(s) \in {"critical", "critical_lock"} => m # 1
    BY Zenon, <1>13
  <1>16. (\A i \in 1..m : IsLatest(name, i) => i = m) /\ n = o + m
    BY Zenon, <1>1
  <1>17. QED
    BY Zenon, <1>2, <1>9, <1>10, <1>11, <1>12, <1>14, <1>15, <1>16 DEF s, n, m, o, name

\* Pop forgets the rows of the innermost context, PopInto keeps them.
LEMMA PopOwn ==
    ASSUME FrameTypes, NEW g \in Greenlets, frames[g] # <<>>, Pop(g)
    PROVE  \A k \in 0..(Len(frames[g]) - 1) : Own(frames'[g], k) = Own(frames[g], k)
  <1> DEFINE n == Len(frames[g])
  <1>1. \A i \in 1..(n - 1) : frames'[g][i] = frames[g][i]
    BY Zenon, PopLeaves
  <1>2. n \in Nat
    BY Zenon, LengthFacts DEF FrameTypes
  <1> SUFFICES ASSUME NEW k \in 0..(n - 1) PROVE Own(frames'[g], k) = Own(frames[g], k)
    BY Zenon
  <1> HIDE DEF n
  <1>3. \A i \in 1..k : i \in 1..(n - 1)
    BY <1>2
  <1>4. \A i \in 1..k : frames'[g][i].rows = frames[g][i].rows
    BY Zenon, <1>1, <1>3
  <1>5. QED BY Zenon, <1>4, OwnSame

\* After PopInto the rows of a savepoint belong to the context around it.
LEMMA PopIntoOwn ==
    ASSUME FrameTypes, NEW g \in Greenlets, frames[g] # <<>>, Len(frames[g]) # 1, PopInto(g)
    PROVE  LET n == Len(frames[g])
           IN  /\ \A k \in 0..(n - 2) : Own(frames'[g], k) = Own(frames[g], k)
               /\ Own(frames'[g], n - 1) = Own(frames[g], n)
  <1> DEFINE s == frames[g]
             t == frames'[g]
             n == Len(frames[g])
  <1>1. /\ t \in Seq(Frame) /\ Len(t) = n - 1
        /\ \A i \in 1..(n - 2) : t[i] = s[i]
        /\ t[n - 1].rows = s[n - 1].rows \union s[n].rows
    BY Zenon, PopIntoLeaves DEF Popped
  <1>2. s \in Seq(Frame) /\ n = Len(s)
    BY Zenon DEF FrameTypes
  <1>3. n \in Nat /\ n # 0 /\ n # 1
    BY Zenon, <1>2, LengthFacts
  <1> HIDE DEF s, t, n
  <1>4. ASSUME NEW k \in 0..(n - 2) PROVE Own(t, k) = Own(s, k)
    <2>1. \A i \in 1..k : i \in 1..(n - 2)
      BY <1>3
    <2>2. \A i \in 1..k : t[i].rows = s[i].rows
      BY Zenon, <1>1, <2>1
    <2>3. QED BY Zenon, <2>2, OwnSame
  <1>5. /\ n \in 1..n /\ n - 1 \in 1..n /\ n - 1 \in 1..(n - 1) /\ n - 2 \in 0..(n - 2)
        /\ (n - 1) - 1 = n - 2
    BY <1>3
  <1>6. Own(s, n) = Own(s, n - 1) \union s[n].rows
    BY Zenon, <1>2, <1>5, OwnFacts
  <1>7. Own(s, n - 1) = Own(s, (n - 1) - 1) \union s[n - 1].rows
    BY Zenon, <1>2, <1>5, OwnFacts
  <1>8. Own(t, n - 1) = Own(t, (n - 1) - 1) \union t[n - 1].rows
    BY Zenon, <1>1, <1>5, OwnFacts
  <1>9. Own(t, n - 2) = Own(s, n - 2)
    BY Zenon, <1>4, <1>5
  <1>10. Own(t, n - 1) = Own(s, n)
    BY Zenon, <1>1, <1>5, <1>6, <1>7, <1>8, <1>9
  <1>11. QED BY Zenon, <1>4, <1>10 DEF s, t, n

\* Leaving a savepoint keeps its rows for the contexts around it, commits them when
\* there are none, or takes back what was written since it was opened.
LEMMA ReleaseRows ==
    ASSUME SavepointInv, NEW g \in Greenlets, Holds(frames[g]), disk = acked,
           ExitSavepoint(g) \/ UnwindSavepoint(g)
    PROVE  /\ disk' = acked' /\ Holds(frames[g])'
           /\ \/ disk' = disk /\ acked' = acked /\ OpenRows(g)' \subseteq OpenRows(g)
              \/ /\ disk' = disk \union OpenRows(g) /\ acked' = acked \union OpenRows(g)
                 /\ OpenRows(g)' = {}
  <1> DEFINE s == frames[g]
             t == frames'[g]
             n == Len(frames[g])
             m == Len(marks)
             o == Offset(frames[g])
             name == Top(g).name
  <1>0. FrameTypes /\ s \in Seq(Frame) /\ Nested(s) /\ marks \in Seq(Mark)
    BY Zenon DEF SavepointInv, TypeIInv, LockIInv, FrameTypes, PlaceInv, PlacePart, SqlTypes
  <1>1. TopIs(g, "savepoint") /\ s # <<>> /\ (Pop(g) \/ (PopInto(g) /\ n # 1))
    BY Zenon DEF ExitSavepoint, UnwindSavepoint, Outermost, TopIs
  <1>2. /\ n \in Nat \ {0} /\ m \in Nat \ {0} /\ n = o + m /\ o \in {0, 1}
        /\ \A i \in 1..m : IsLatest(name, i) => i = m
        /\ marks[m].saved = disk \union Own(s, n - 1)
        /\ Own(s, n) = Own(s, n - 1) \union Top(g).rows
        /\ m = 1 /\ ~begun <=> Outermost(g)
        /\ Outermost(g) => m = 1 /\ Own(s, n - 1) = {}
        /\ ~Outermost(g) /\ Base(s) \in {"critical", "critical_lock"} => m # 1
    BY Zenon, <1>1, ReleaseFacts
  <1>3. /\ t \in Seq(Frame) /\ Len(t) = n - 1
        /\ n = 1 => Base(t) = "none" /\ Base(s) = "savepoint"
        /\ n # 1 => Base(t) = Base(s)
    BY Zenon, <1>0, <1>1, CloseSavepoint DEF Popped
  <1>4. Offset(t) = o /\ (Base(t) \in {"critical", "critical_lock"} => Base(t) = Base(s))
    BY Zenon, <1>0, <1>3, OffsetFacts
  <1>5. /\ data = disk \union Own(s, n)
        /\ Base(s) \in {"critical", "critical_lock"} => s[1].rows = {}
        /\ \A i \in 1..m : marks[i].saved = disk \union Own(s, o + i - 1)
    BY Zenon DEF Holds
  <1>6. ~Unreleasable(name)
    BY Zenon, <1>1, TopSavepoint
  <1>7. OpenRows(g) = Own(s, n) /\ OpenRows(g)' = Own(t, Len(t))
    BY Zenon DEF OpenRows, Own
  <1>8. marks' = SubSeq(marks, 1, m - 1)
    <2>1. SqlRelease(name) \/ SqlRollbackAndRelease(name)
      BY Zenon, <1>6 DEF ExitSavepoint, UnwindSavepoint
    <2>2. QED BY Zenon, <1>2, <2>1 DEF SqlRelease, SqlRollbackAndRelease, SqlReleaseAt
  <1>9. Len(marks') = m - 1 /\ \A i \in 1..(m - 1) : marks'[i] = marks[i]
    BY <1>0, <1>2, <1>8, PopFacts
  <1>10. Own(s, 1) = s[1].rows /\ Own(t, 1) = t[1].rows
    BY Zenon, <1>0, <1>3, OwnFacts
  <1>11. CASE ExitSavepoint(g) /\ Outermost(g)
    <2>1. /\ Pop(g) /\ acked' = acked \union Top(g).rows
          /\ data' = data /\ disk' = data
      BY Zenon, <1>2, <1>6, <1>11 DEF ExitSavepoint, SqlRelease, SqlReleaseAt
    <2>2. \A k \in 0..(n - 1) : Own(t, k) = Own(s, k)
      BY Zenon, <1>0, <1>1, <2>1, PopOwn
    <2> HIDE DEF s, t, n, m, o, name
    <2>3. n - 1 \in 0..(n - 1) /\ 1..(m - 1) = {}
      BY <1>2, <1>11
    <2>4. Own(t, n - 1) = {} /\ Own(s, n) = Top(g).rows
      BY Zenon, <1>2, <1>11, <2>2, <2>3
    <2>5. data' = disk' \union Own(t, Len(t)) /\ disk' = acked'
      BY Zenon, <1>3, <1>5, <2>1, <2>4
    <2>6. Base(t) \in {"critical", "critical_lock"} => t[1].rows = {}
      <3>1. ASSUME Base(t) \in {"critical", "critical_lock"} PROVE n - 1 = 1
        <4>1. n # 1
          BY Zenon, <1>3, <3>1
        <4>2. QED BY <1>2, <1>11, <4>1
      <3>2. QED BY Zenon, <1>10, <2>4, <3>1
    <2>7. Holds(frames[g])'
      BY Zenon, <1>9, <2>3, <2>5, <2>6 DEF Holds, t
    <2>8. QED BY Zenon, <1>3, <1>7, <2>1, <2>4, <2>5, <2>7, <1>5
  <1>12. CASE ExitSavepoint(g) /\ ~Outermost(g)
    <2>1. /\ PopInto(g) /\ acked' = acked /\ data' = data /\ disk' = disk /\ n # 1
      BY Zenon, <1>2, <1>6, <1>12 DEF ExitSavepoint, SqlRelease, SqlReleaseAt, Outermost
    <2>2. (\A k \in 0..(n - 2) : Own(t, k) = Own(s, k)) /\ Own(t, n - 1) = Own(s, n)
      BY Zenon, <1>0, <1>1, <2>1, PopIntoOwn
    <2> HIDE DEF s, t, n, m, o, name
    <2>3. \A i \in 1..(m - 1) : i \in 1..m /\ o + i - 1 \in 0..(n - 2)
      BY <1>2
    <2>4. data' = disk' \union Own(t, Len(t)) /\ disk' = acked'
      BY Zenon, <1>3, <1>5, <2>1, <2>2
    <2>5. Base(t) \in {"critical", "critical_lock"} => t[1].rows = {}
      <3>1. ASSUME Base(t) \in {"critical", "critical_lock"} PROVE 1 \in 0..(n - 2)
        <4>1. Base(s) \in {"critical", "critical_lock"} /\ m # 1
          BY Zenon, <1>2, <1>4, <1>12, <3>1
        <4>2. o = 1
          BY Zenon, <1>0, <4>1, OffsetFacts DEF s, o
        <4>3. QED BY <1>2, <4>1, <4>2
      <3>2. QED BY Zenon, <1>4, <1>5, <1>10, <2>2, <3>1
    <2>6. \A i \in 1..Len(marks') : marks'[i].saved = disk' \union Own(t, Offset(t) + i - 1)
      BY Zenon, <1>4, <1>5, <1>9, <2>1, <2>2, <2>3
    <2>7. Holds(frames[g])'
      BY Zenon, <2>4, <2>5, <2>6 DEF Holds, t
    <2>8. QED BY Zenon, <1>3, <1>7, <2>1, <2>2, <2>4, <2>7
  <1>13. CASE UnwindSavepoint(g)
    <2>1. raised[g] = "Exception" /\ acked' = acked /\ Pop(g)
      BY Zenon, <1>1, <1>13 DEF UnwindSavepoint, At, SavepointInv, PlaceInv, PlacePart
    <2>2. /\ data' = disk \union Own(s, n - 1)
          /\ disk' = IF Outermost(g) THEN disk \union Own(s, n - 1) ELSE disk
      BY Zenon, <1>2, <1>6, <1>13, <2>1 DEF UnwindSavepoint, SqlRollbackAndRelease, SqlReleaseAt
    <2>3. \A k \in 0..(n - 1) : Own(t, k) = Own(s, k)
      BY Zenon, <1>0, <1>1, <2>1, PopOwn
    <2> HIDE DEF s, t, n, m, o, name
    <2>4. disk' = disk
      BY Zenon, <1>2, <2>2
    <2>5. /\ n - 1 \in 0..(n - 1) /\ (n # 1 => 1 \in 0..(n - 1))
          /\ \A i \in 1..(m - 1) : i \in 1..m /\ o + i - 1 \in 0..(n - 1)
      BY Zenon, <1>2, Positions
    <2>6. data' = disk' \union Own(t, Len(t)) /\ disk' = acked'
      BY Zenon, <1>3, <2>1, <2>2, <2>3, <2>4, <2>5
    <2>7. Base(t) \in {"critical", "critical_lock"} => t[1].rows = {}
      BY Zenon, <1>3, <1>5, <1>10, <2>3, <2>5
    <2>8. \A i \in 1..Len(marks') : marks'[i].saved = disk' \union Own(t, Offset(t) + i - 1)
      BY Zenon, <1>4, <1>5, <1>9, <2>3, <2>4, <2>5
    <2>9. Holds(frames[g])'
      BY Zenon, <2>6, <2>7, <2>8 DEF Holds, t
    <2>10. OpenRows(g)' \subseteq OpenRows(g)
      <3>1. Own(t, n - 1) = Own(s, n - 1)
        BY Zenon, <2>3, <2>5
      <3>2. OpenRows(g)' = Own(t, n - 1) /\ Own(s, n - 1) \subseteq OpenRows(g)
        BY Zenon, <1>2, <1>3, <1>7
      <3>3. QED BY Zenon, <3>1, <3>2
    <2>11. QED BY Zenon, <2>1, <2>4, <2>6, <2>9, <2>10
  <1>14. QED BY Zenon, <1>11, <1>12, <1>13

-----------------------------------------------------------------------------
(* Contexts are atomic                                                       *)

\* What a greenlet does outside of contexts while another one has some open touches
\* neither the database nor the contexts.
LEMMA OutsideStep ==
    ASSUME SavepointInv, Committers = {}, NEW g \in Greenlets, Step(g),
           NEW h \in Greenlets, h # g, frames[h] # <<>>
    PROVE  UNCHANGED <<marks, data, disk, frames, acked>>
  <1>0. frames[g] = <<>>
    BY Zenon, OneOpen
  <1>1. running = g => in_callback # NoOne
    BY Zenon, QuietOpen DEF SavepointInv
  <1>2. ~TopIs(g, "write") /\ ~TopIs(g, "savepoint") /\ ~TopIs(g, "critical") /\ ~TopIs(g, "critical_lock")
    BY Zenon, <1>0 DEF TopIs
  <1>3. CASE \/ Block(g) \/ Switch(g) \/ Yield(g) \/ Callback(g) \/ CallbackReturn(g) \/ Finish(g)
             \/ Die(g) \/ CriticalExit(g) \/ WaitTransaction(g) \/ Catch(g) \/ WaitSavepoints(g)
             \/ EndUpdate(g) \/ Raise(g) \/ EnterSavepoint(g)
             \/ \E error \in KillErrors : Kill(g, error)
    BY Zenon, <1>3 DEF Block, Switch, Yield, Callback, CallbackReturn, Finish, Die, CriticalExit,
       WaitTransaction, Catch, WaitSavepoints, EndUpdate, Raise, EnterSavepoint, Kill, sqlVars, ctxVars
  <1>4. CASE WriteCtx(g) \/ CriticalCtx(g) \/ CriticalLockCtx(g) \/ SavepointCtx(g)
    BY Zenon, <1>4 DEF WriteCtx, CriticalCtx, CriticalLockCtx, SavepointCtx, Request, sqlVars
  <1>5. ~CriticalEnter(g) /\ ~Commit(g) /\ ~Rollback(g)
    BY Zenon, <1>1 DEF CriticalEnter, Commit, Rollback, At
  <1>6. ~AcquireLock(g) /\ ~Begin(g)
    BY Zenon, <1>1 DEF AcquireLock, Begin, At, SavepointInv, AloneInv, AlonePart, Alone
  <1>7. ~ExecuteScript(g) /\ ~Insert(g)
    BY Zenon, <1>2 DEF ExecuteScript, Insert, InTx
  <1>8. /\ ~ExitWrite(g) /\ ~ExitCritical(g) /\ ~ExitCriticalLock(g) /\ ~UnwindWrite(g)
        /\ ~UnwindCritical(g) /\ ~ExitSavepoint(g) /\ ~UnwindSavepoint(g)
    BY Zenon, <1>2 DEF ExitWrite, ExitCritical, ExitCriticalLock, UnwindWrite, UnwindCritical,
       ExitSavepoint, UnwindSavepoint
  <1>9. ~ExecuteDirect(g)
    BY Zenon DEF ExecuteDirect
  <1>10. ASSUME NEW name \in Names, CreateSavepoint(g, name)
         PROVE  UNCHANGED <<marks, data, disk, frames, acked>>
    <2>1. running = g /\ savepoint_greenlet_id \in {NoOne, g}
      BY Zenon, <1>10 DEF CreateSavepoint, At
    <2>2. savepoint_greenlet_id # h
      BY Zenon, <2>1, NoOneIsNoGreenlet
    <2>3. Base(frames[h]) \notin {"none", "savepoint"}
      <3>1. Base(frames[h]) # "savepoint" /\ frames[h] \in Seq(Frame)
        BY Zenon, <2>2, NotOwner DEF SavepointInv, TypeIInv, LockIInv, FrameTypes
      <3>2. QED BY Zenon, <3>1, BaseFacts
    <2>4. running = h
      BY Zenon, <2>3 DEF SavepointInv, AloneInv, AlonePart, Alone
    <2>5. QED BY Zenon, <2>1, <2>4
  <1>11. QED
    BY Zenon, <1>3, <1>4, <1>5, <1>6, <1>7, <1>8, <1>9, <1>10 DEF Step, Progress

\* What a step of the only greenlet with open contexts does to the database.
LEMMA InsideStep ==
    ASSUME SavepointInv, SavepointInv', Committers = {}, NEW g \in Greenlets, Step(g),
           OthersClosed(g), Holds(frames[g]), disk = acked
    PROVE  /\ disk' = acked' /\ Holds(frames[g])'
           /\ \/ UNCHANGED <<disk, acked>>
                 /\ \/ OpenRows(g)' \subseteq OpenRows(g)
                    \/ OpenRows(g)' = OpenRows(g) \union {<<g, opened[g]>>}
              \/ /\ disk' = disk \union OpenRows(g) /\ acked' = acked \union OpenRows(g)
                 /\ OpenRows(g)' = {}
  <1>0. FrameTypes' /\ frames'[g] \in Seq(Frame)
    BY Zenon DEF SavepointInv, TypeIInv, LockIInv, FrameTypes
  <1>1. ASSUME UNCHANGED <<marks, data, disk, frames, acked>>
        PROVE  /\ disk' = acked' /\ Holds(frames[g])' /\ UNCHANGED <<disk, acked>>
               /\ OpenRows(g)' \subseteq OpenRows(g)
    BY Zenon, <1>1 DEF Holds, OpenRows
  <1>2. frames'[g] = <<>> => OpenRows(g)' = {}
    <2>1. frames'[g] = <<>> => 1..Len(frames'[g]) = {}
      OBVIOUS
    <2>2. QED BY Zenon, <2>1 DEF OpenRows
  <1>3. CASE \/ Block(g) \/ Switch(g) \/ Yield(g) \/ Callback(g) \/ CallbackReturn(g) \/ Finish(g)
             \/ Die(g) \/ CriticalExit(g) \/ WaitTransaction(g) \/ Catch(g) \/ WaitSavepoints(g)
             \/ EndUpdate(g) \/ Raise(g) \/ EnterSavepoint(g)
             \/ \E error \in KillErrors : Kill(g, error)
    <2>1. UNCHANGED <<marks, data, disk, frames, acked>>
      BY Zenon, <1>3 DEF Block, Switch, Yield, Callback, CallbackReturn, Finish, Die, CriticalExit,
         WaitTransaction, Catch, WaitSavepoints, EndUpdate, Raise, EnterSavepoint, Kill, sqlVars, ctxVars
    <2>2. QED BY Zenon, <1>1, <2>1
  <1>4. CASE WriteCtx(g) \/ CriticalCtx(g) \/ CriticalLockCtx(g) \/ SavepointCtx(g)
    <2>1. UNCHANGED <<marks, data, disk, frames, acked>>
      BY Zenon, <1>4 DEF WriteCtx, CriticalCtx, CriticalLockCtx, SavepointCtx, Request, sqlVars
    <2>2. QED BY Zenon, <1>1, <2>1
  <1>5. CASE CriticalEnter(g) \/ AcquireLock(g) \/ Begin(g)
    <2>1. UNCHANGED <<disk, acked>> /\ Holds(frames[g])' /\ OpenRows(g)' = {}
      BY Zenon, <1>0, <1>5, OuterRows
    <2>2. QED BY Zenon, <2>1
  <1>6. CASE ExecuteScript(g) \/ Commit(g) \/ Rollback(g)
    <2>1. UNCHANGED <<disk, acked, frames>> /\ Holds(frames[g])'
      BY Zenon, <1>6, EndRows
    <2>2. OpenRows(g)' = OpenRows(g)
      BY Zenon, <2>1 DEF OpenRows
    <2>3. QED BY Zenon, <2>1, <2>2
  <1>7. CASE \/ ExitWrite(g) \/ UnwindWrite(g) \/ ExitCritical(g) \/ ExitCriticalLock(g)
             \/ UnwindCritical(g)
    <2>1. /\ disk' = acked' /\ Holds(frames[g])' /\ frames'[g] = <<>>
          /\ \/ disk' = disk /\ acked' = acked
             \/ disk' = disk \union OpenRows(g) /\ acked' = acked \union OpenRows(g)
      BY Zenon, <1>7, CloseRows
    <2>2. QED BY Zenon, <1>2, <2>1
  <1>8. CASE Insert(g)
    BY Zenon, <1>8, InsertRows
  <1>9. CASE ExitSavepoint(g) \/ UnwindSavepoint(g)
    BY Zenon, <1>9, ReleaseRows
  <1>10. ASSUME NEW name \in Names, CreateSavepoint(g, name)
         PROVE  UNCHANGED <<disk, acked>> /\ Holds(frames[g])' /\ OpenRows(g)' = OpenRows(g)
    BY Zenon, <1>10, CreateRows
  <1>11. ~ExecuteDirect(g)
    BY Zenon DEF ExecuteDirect
  <1>12. QED
    BY Zenon, <1>3, <1>4, <1>5, <1>6, <1>7, <1>8, <1>9, <1>10, <1>11 DEF Step, Progress

\* Every step keeps the committed and uncommitted rows in order.
LEMMA RowsStep ==
    ASSUME SavepointInv, SavepointInv', Committers = {}, RowsInv, [Next]_vars
    PROVE  RowsInv'
  <1>1. ASSUME UNCHANGED <<marks, data, disk, frames, acked>> PROVE RowsInv'
    BY Zenon, <1>1 DEF RowsInv, OthersClosed, Holds
  <1>2. CASE UNCHANGED vars
    BY Zenon, <1>1, <1>2 DEF vars, sqlVars, ctxVars
  <1>3. ASSUME NEW g \in Greenlets, Step(g) PROVE RowsInv'
    <2>0. FrameTypes /\ frames'[g] \in Seq(Frame)
      BY Zenon DEF SavepointInv, TypeIInv, LockIInv, FrameTypes
    <2>1. CASE ~OthersClosed(g)
      BY Zenon, <1>1, <1>3, <2>1, OutsideStep DEF OthersClosed
    <2>2. CASE OthersClosed(g)
      <3>1. disk = acked /\ Holds(frames[g])
        BY Zenon, <2>2 DEF RowsInv
      <3>2. disk' = acked' /\ Holds(frames[g])'
        BY Zenon, <1>3, <2>2, <3>1, InsideStep
      <3>3. \A h \in Greenlets \ {g} : frames'[h] = <<>>
        BY Zenon, <1>3, <2>0, <2>2, OthersStay DEF OthersClosed
      <3>4. ASSUME NEW h \in Greenlets, OthersClosed(h)' PROVE Holds(frames[h])'
        <4>1. frames'[h] = frames'[g]
          BY Zenon, <3>3, <3>4 DEF OthersClosed
        <4>2. QED BY Zenon, <3>2, <4>1 DEF Holds
      <3>5. (\A h \in Greenlets : frames'[h] = <<>>) => data' = disk'
        <4> SUFFICES ASSUME frames'[g] = <<>> PROVE data' = disk'
          BY Zenon
        <4>1. Len(frames'[g]) = 0
          OBVIOUS
        <4>2. Own(frames'[g], 0) = {}
          BY Zenon, <2>0, OwnFacts
        <4>3. QED BY Zenon, <3>2, <4>1, <4>2 DEF Holds
      <3>6. QED BY Zenon, <3>2, <3>4, <3>5 DEF RowsInv
    <2>3. QED BY Zenon, <2>1, <2>2
  <1>4. QED BY Zenon, <1>2, <1>3 DEF Next, AllDone

\* Initially there are no rows.
LEMMA RowsInit == Init => RowsInv
  <1> SUFFICES ASSUME Init PROVE RowsInv
    BY Zenon
  <1>1. data = {} /\ disk = {} /\ acked = {} /\ marks = <<>> /\ \A g \in Greenlets : frames[g] = <<>>
    BY Zenon DEF Init, SqlInit
  <1>2. <<>> \in Seq(Frame)
    OBVIOUS
  <1>3. Holds(<<>>)
    BY Zenon, <1>1, <1>2, NoRows
  <1>4. QED BY Zenon, <1>1, <1>3 DEF RowsInv

\* Both invariants hold throughout.
LEMMA RowsInvariant ==
    ASSUME SavepointsRunThrough, Committers = {} PROVE Spec => [](SavepointInv /\ RowsInv)
  <1>1. SavepointInv /\ SavepointInv' /\ RowsInv /\ [Next]_vars => RowsInv'
    BY Zenon, RowsStep
  <1>2. QED BY <1>1, SavepointInvariant, RowsInit, PTL DEF Spec

\* The database holds exactly the outermost contexts that were left normally, however
\* savepoints and write contexts are nested and whichever of them raise.
THEOREM SavepointsAreAtomic ==
    ASSUME SavepointsRunThrough, Committers = {} PROVE Spec => []AllOrNothing
  <1>1. RowsInv => AllOrNothing
    BY Zenon DEF RowsInv, AllOrNothing
  <1>2. QED BY <1>1, RowsInvariant, PTL

\* Uncommitted rows on the connection belong to open contexts.
THEOREM SavepointsLeaveNothing ==
    ASSUME SavepointsRunThrough, Committers = {} PROVE Spec => []NoStrayRows
  <1>1. SavepointInv /\ RowsInv => NoStrayRows
    <2> SUFFICES ASSUME SavepointInv, RowsInv PROVE NoStrayRows
      BY Zenon
    <2>1. ASSUME NEW h \in Greenlets, frames[h] = <<>> PROVE OpenRows(h) = {}
      <3>1. 1..Len(frames[h]) = {}
        BY <2>1
      <3>2. QED BY Zenon, <3>1 DEF OpenRows
    <2>2. CASE \A h \in Greenlets : frames[h] = <<>>
      <3>1. UNION {OpenRows(h) : h \in Greenlets} = {}
        BY Zenon, <2>1, <2>2
      <3>2. QED BY Zenon, <2>2, <3>1 DEF RowsInv, NoStrayRows
    <2>3. ASSUME NEW g \in Greenlets, frames[g] # <<>> PROVE NoStrayRows
      <3>1. \A h \in Greenlets \ {g} : frames[h] = <<>>
        BY Zenon, <2>3, OneOpen
      <3>2. data = disk \union OpenRows(g)
        BY Zenon, <3>1 DEF RowsInv, OthersClosed, Holds, OpenRows, Own
      <3>3. UNION {OpenRows(h) : h \in Greenlets} = OpenRows(g)
        BY Zenon, <2>1, <3>1
      <3>4. QED BY Zenon, <3>2, <3>3 DEF NoStrayRows
    <2>4. QED BY Zenon, <2>2, <2>3
  <1>2. QED BY <1>1, RowsInvariant, PTL

\* Every step is one of TransactionalStore or changes nothing it shows.
LEMMA SavepointsRefineStep ==
    ASSUME SavepointInv, SavepointInv', RowsInv, Committers = {}, [Next]_vars
    PROVE  [Store!StoreNext]_(Store!storeVars)
  <1> DEFINE open == [g \in Greenlets |-> OpenRows(g)]
  <1>1. ASSUME UNCHANGED <<disk, frames, acked>> PROVE UNCHANGED Store!storeVars
    BY Zenon, <1>1 DEF Store!storeVars, OpenRows
  <1>2. CASE UNCHANGED vars
    BY Zenon, <1>1, <1>2 DEF vars, sqlVars, ctxVars
  <1>3. ASSUME NEW g \in Greenlets, Step(g) PROVE [Store!StoreNext]_(Store!storeVars)
    <2>1. CASE ~OthersClosed(g)
      BY Zenon, <1>1, <1>3, <2>1, OutsideStep DEF OthersClosed
    <2>2. CASE OthersClosed(g)
      <3>1. FrameTypes /\ <<g, opened[g]>> \in Rows
        BY Zenon DEF SavepointInv, TypeIInv, LockIInv, FrameTypes, Rows
      <3>2. \A h \in Greenlets \ {g} : OpenRows(h)' = OpenRows(h)
        BY Zenon, <1>3, <3>1, OthersStay DEF OpenRows
      <3>3. \A kept : OpenRows(g)' = kept => open' = [open EXCEPT ![g] = kept]
        BY Zenon, <3>2
      <3>4. \/ UNCHANGED <<disk, acked>>
               /\ \/ OpenRows(g)' \subseteq OpenRows(g)
                  \/ OpenRows(g)' = OpenRows(g) \union {<<g, opened[g]>>}
            \/ /\ disk' = disk \union OpenRows(g) /\ acked' = acked \union OpenRows(g)
               /\ OpenRows(g)' = {}
        BY Zenon, <1>3, <2>2, InsideStep DEF RowsInv
      <3>5. CASE UNCHANGED <<disk, acked>> /\ OpenRows(g)' \subseteq OpenRows(g)
        <4>1. Store!Discard(g)
          BY <3>3, <3>5, Zenon DEF Store!Discard
        <4>2. QED BY Zenon, <4>1 DEF Store!StoreNext
      <3>6. CASE UNCHANGED <<disk, acked>> /\ OpenRows(g)' = OpenRows(g) \union {<<g, opened[g]>>}
        <4>1. Store!Write(g, <<g, opened[g]>>)
          BY Zenon, <3>3, <3>6 DEF Store!Write
        <4>2. QED BY Zenon, <3>1, <4>1 DEF Store!StoreNext
      <3>7. CASE /\ disk' = disk \union OpenRows(g) /\ acked' = acked \union OpenRows(g)
                 /\ OpenRows(g)' = {}
        <4>1. Store!CommitContext(g)
          BY Zenon, <3>3, <3>7 DEF Store!CommitContext
        <4>2. QED BY Zenon, <4>1 DEF Store!StoreNext
      <3>8. QED BY Zenon, <3>4, <3>5, <3>6, <3>7
    <2>3. QED BY Zenon, <2>1, <2>2
  <1>4. QED BY Zenon, <1>2, <1>3 DEF Next, AllDone

\* savepoint_ctx and write_ctx together implement TransactionalStore: the outermost
\* context commits in one step, an inner one only ever drops rows of its own.
THEOREM SavepointsRefineStore ==
    ASSUME SavepointsRunThrough, Committers = {} PROVE Spec => ActsAsTransactionalStore
  <1>1. Init => Store!StoreInit
    BY DEF Init, SqlInit, Store!StoreInit, OpenRows
  <1>2. (SavepointInv /\ RowsInv) /\ (SavepointInv /\ RowsInv)' /\ [Next]_vars
            => [Store!StoreNext]_(Store!storeVars)
    BY Zenon, SavepointsRefineStep
  <1>3. QED
    BY RowsInvariant, <1>1, <1>2, PTL DEF Spec, ActsAsTransactionalStore, Store!StoreSpec
=============================================================================
