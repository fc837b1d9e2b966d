------------------------- MODULE DBConnectionProofs -------------------------
(***************************************************************************)
(* Theorems about DBConnection, for every number of greenlets, contexts    *)
(* and kills.                                                              *)
(*                                                                         *)
(* The first part holds for every use of the connection: the types, the    *)
(* locks and the critical sections.  The second part is about write_ctx on *)
(* a connection that no code opens savepoints on, which is how rotki uses  *)
(* its user database: it is atomic, and it implements TransactionalStore.  *)
(* savepoint_ctx is in DBConnectionSavepoints.                             *)
(***************************************************************************)
EXTENDS DBConnection, TLAPS

-----------------------------------------------------------------------------
(* Sequences as stacks: what pushing, popping and replacing an element does *)

\* The length of a sequence is a natural number, zero for the empty one only.
LEMMA LengthFacts ==
    ASSUME NEW S, NEW s \in Seq(S)
    PROVE  Len(s) \in Nat /\ (s = <<>> <=> Len(s) = 0)
  OBVIOUS

\* The elements of a sequence over S are in S.
LEMMA ElementFacts ==
    ASSUME NEW S, NEW s \in Seq(S), NEW i \in 1..Len(s)
    PROVE  s[i] \in S
  OBVIOUS

\* Replacing one element keeps the others.
LEMMA ReplaceFacts ==
    ASSUME NEW S, NEW s \in Seq(S), NEW i \in 1..Len(s), NEW e \in S
    PROVE  /\ [s EXCEPT ![i] = e] \in Seq(S)
           /\ Len([s EXCEPT ![i] = e]) = Len(s)
           /\ \A j \in 1..Len(s) : [s EXCEPT ![i] = e][j] = IF j = i THEN e ELSE s[j]
  OBVIOUS

\* Pushing keeps the elements below and adds one on top.
LEMMA PushFacts ==
    ASSUME NEW S, NEW s \in Seq(S), NEW e \in S
    PROVE  /\ Append(s, e) \in Seq(S)
           /\ Len(Append(s, e)) = Len(s) + 1
           /\ Append(s, e)[Len(s) + 1] = e
           /\ \A i \in 1..Len(s) : Append(s, e)[i] = s[i]
  OBVIOUS

\* A prefix of a sequence keeps its elements.
LEMMA PrefixFacts ==
    ASSUME NEW S, NEW s \in Seq(S), NEW n \in 0..Len(s)
    PROVE  /\ SubSeq(s, 1, n) \in Seq(S)
           /\ Len(SubSeq(s, 1, n)) = n
           /\ \A i \in 1..n : SubSeq(s, 1, n)[i] = s[i]
  <1>1. Len(s) \in Nat /\ \A i \in 1..Len(s) : s[i] \in S
    OBVIOUS
  <1>2. Len(SubSeq(s, 1, n)) = n
    BY <1>1
  <1>3. \A i \in 1..n : SubSeq(s, 1, n)[i] = s[i]
    BY <1>1
  <1>4. SubSeq(s, 1, n) = [i \in 1..n |-> s[i]]
    BY <1>1
  <1>5. [i \in 1..n |-> s[i]] \in Seq(S)
    BY <1>1
  <1>6. QED BY Zenon, <1>2, <1>3, <1>4, <1>5

\* Popping keeps the elements below the top.
LEMMA PopFacts ==
    ASSUME NEW S, NEW s \in Seq(S), s # <<>>
    PROVE  /\ Len(s) \in Nat \ {0}
           /\ s[Len(s)] \in S
           /\ SubSeq(s, 1, Len(s) - 1) \in Seq(S)
           /\ Len(SubSeq(s, 1, Len(s) - 1)) = Len(s) - 1
           /\ \A i \in 1..(Len(s) - 1) : SubSeq(s, 1, Len(s) - 1)[i] = s[i]
  <1>1. Len(s) \in Nat \ {0}
    BY Zenon, LengthFacts
  <1>2. s[Len(s)] \in S
    BY <1>1, ElementFacts
  <1>3. Len(s) - 1 \in 0..Len(s)
    BY <1>1
  <1>4. QED BY <1>1, <1>2, <1>3, PrefixFacts, Zenon

-----------------------------------------------------------------------------
(* transaction_lock: whatever yields, raises or is killed *)

Locking == {"write", "critical_lock"}

\* the positions of the contexts of a stack that hold transaction_lock
Locks(s) == {i \in 1..Len(s) : s[i].kind \in Locking}

\* the types the lock argument needs
FrameTypes ==
    /\ frames \in [Greenlets -> Seq(Frame)]
    /\ pc \in [Greenlets -> Labels]
    /\ want \in [Greenlets -> Kinds]
    /\ opened \in [Greenlets -> 0..MaxOpened]
    /\ transaction_lock \in OwnerOrNoOne

\* Who has a locking context open, or is about to BEGIN, holds the lock; and has
\* at most one such context.
LockInv ==
    \A g \in Greenlets :
        /\ Locks(frames[g]) # {} => transaction_lock = g
        /\ pc[g] = "begin" => transaction_lock = g /\ Locks(frames[g]) = {}
        /\ \A i, j \in Locks(frames[g]) : i = j

\* The value of an unheld lock is no greenlet.
LEMMA NoOneIsNoGreenlet == NoOne \notin Greenlets
  BY Zenon, RolesAssumption

\* The bounds are natural numbers, and a kill raises one of the modelled errors.
LEMMA BoundsAndErrors ==
    MaxOpened \in Nat /\ MaxKills \in Nat /\ KillErrors \subseteq Errors
  BY Zenon, RolesAssumption DEF Errors

\* Pushing a context that does not lock leaves the locking ones.
LEMMA LocksPush ==
    ASSUME NEW s \in Seq(Frame), NEW f \in Frame
    PROVE  /\ Append(s, f) \in Seq(Frame)
           /\ f.kind \notin Locking => Locks(Append(s, f)) = Locks(s)
           /\ f.kind \in Locking => Locks(Append(s, f)) = Locks(s) \union {Len(s) + 1}
  BY PushFacts DEF Locks

\* Popping removes at most the top from the locking ones.
LEMMA LocksPop ==
    ASSUME NEW s \in Seq(Frame), s # <<>>
    PROVE  /\ SubSeq(s, 1, Len(s) - 1) \in Seq(Frame)
           /\ Locks(SubSeq(s, 1, Len(s) - 1)) = Locks(s) \ {Len(s)}
           /\ s[Len(s)].kind \in Locking => Len(s) \in Locks(s)
  BY PopFacts DEF Locks

\* Replacing the rows of a context changes no kind.
LEMMA LocksReplace ==
    ASSUME NEW s \in Seq(Frame), NEW i \in 1..Len(s), NEW r \in SUBSET Rows
    PROVE  /\ [s EXCEPT ![i].rows = r] \in Seq(Frame)
           /\ Locks([s EXCEPT ![i].rows = r]) = Locks(s)
  <1> DEFINE f == [s[i] EXCEPT !.rows = r]
             t == [s EXCEPT ![i] = f]
  <1>1. s[i] \in Frame
    BY Zenon, ElementFacts
  <1>2. f \in Frame /\ f.kind = s[i].kind
    BY Zenon, <1>1 DEF Frame
  <1>3. [s EXCEPT ![i].rows = r] = t
    BY Zenon
  <1>4. /\ t \in Seq(Frame)
        /\ Len(t) = Len(s)
        /\ \A j \in 1..Len(s) : t[j] = IF j = i THEN f ELSE s[j]
    <2> HIDE DEF f
    <2>1. QED BY <1>2, ReplaceFacts
  <1>5. Locks(t) = Locks(s)
    <2> HIDE DEF f, t
    <2>1. QED BY Zenon, <1>2, <1>4 DEF Locks
  <1>6. QED BY Zenon, <1>3, <1>4, <1>5

\* Push puts one context on the stack of g; its locking positions grow only when the
\* new context locks.
LEMMA PushEffect ==
    ASSUME FrameTypes, NEW g \in Greenlets, NEW kind \in Kinds,
           NEW name \in Names \union {"none"}, Push(g, kind, name)
    PROVE  \E s \in Seq(Frame) :
               /\ frames' = [frames EXCEPT ![g] = s]
               /\ kind \notin Locking => Locks(s) = Locks(frames[g])
               /\ kind \in Locking => Locks(s) = Locks(frames[g]) \union {Len(frames[g]) + 1}
  <1> DEFINE f == [kind |-> kind, name |-> name, rows |-> {}]
  <1>1. f \in Frame /\ f.kind = kind
    BY Zenon DEF Frame
  <1>2. frames' = [frames EXCEPT ![g] = Append(frames[g], f)]
    BY Zenon DEF Push
  <1>3. frames[g] \in Seq(Frame)
    BY Zenon DEF FrameTypes
  <1> HIDE DEF f
  <1>4. QED
    BY <1>1, <1>2, <1>3, LocksPush, Zenon

\* Pop takes the top context of g off, and its lock with it.
LEMMA PopEffect ==
    ASSUME FrameTypes, NEW g \in Greenlets, frames[g] # <<>>, Pop(g)
    PROVE  \E s \in Seq(Frame) :
               /\ frames' = [frames EXCEPT ![g] = s]
               /\ Locks(s) = Locks(frames[g]) \ {Len(frames[g])}
  BY LocksPop, Zenon DEF Pop, FrameTypes

\* PopInto also merges the rows of the top into the context below, which keeps its kind.
LEMMA PopIntoEffect ==
    ASSUME FrameTypes, NEW g \in Greenlets, frames[g] # <<>>, Len(frames[g]) # 1, PopInto(g)
    PROVE  \E s \in Seq(Frame) :
               /\ frames' = [frames EXCEPT ![g] = s]
               /\ Locks(s) = Locks(frames[g]) \ {Len(frames[g])}
  <1> DEFINE n == Len(frames[g])
             outer == SubSeq(frames[g], 1, n - 1)
             r == outer[n - 1].rows \union Top(g).rows
  <1>1. frames[g] \in Seq(Frame) /\ n \in Nat \ {0, 1} /\ Top(g) \in Frame
    BY PopFacts DEF FrameTypes, Top
  <1>2. outer \in Seq(Frame) /\ Len(outer) = n - 1 /\ Locks(outer) = Locks(frames[g]) \ {n}
    BY Zenon, <1>1, PopFacts, LocksPop
  <1>3. n - 1 \in 1..Len(outer)
    <2> HIDE DEF n, outer
    <2>1. n \in Nat /\ n # 0 /\ n # 1 /\ Len(outer) = n - 1
      BY Zenon, <1>1, <1>2
    <2>2. QED BY <2>1
  <1>4. outer[n - 1] \in Frame
    BY Zenon, <1>2, <1>3, ElementFacts
  <1>5. r \in SUBSET Rows
    BY <1>1, <1>4, Zenon DEF Frame
  <1>6. frames' = [frames EXCEPT ![g] = [outer EXCEPT ![n - 1].rows = r]]
    BY Zenon DEF PopInto
  <1> HIDE DEF n, outer, r
  <1>7. [outer EXCEPT ![n - 1].rows = r] \in Seq(Frame)
        /\ Locks([outer EXCEPT ![n - 1].rows = r]) = Locks(outer)
    BY <1>2, <1>3, <1>5, LocksReplace, Zenon
  <1>8. QED
    BY <1>2, <1>6, <1>7, Zenon DEF n

\* Insert adds a row to the top context and leaves every kind as it is.
LEMMA InsertEffect ==
    ASSUME FrameTypes, NEW g \in Greenlets, Insert(g)
    PROVE  \E s \in Seq(Frame) :
               /\ frames' = [frames EXCEPT ![g] = s]
               /\ Locks(s) = Locks(frames[g])
  <1> DEFINE n == Len(frames[g])
             r == Top(g).rows \union {<<g, opened[g]>>}
  <1>1. frames[g] \in Seq(Frame) /\ frames[g] # <<>>
    BY Zenon DEF FrameTypes, Insert, InTx, TopIs
  <1>2. n \in 1..Len(frames[g]) /\ Top(g) \in Frame
    BY <1>1, PopFacts DEF Top
  <1>3. <<g, opened[g]>> \in Rows
    BY Zenon DEF FrameTypes, Rows
  <1>4. r \in SUBSET Rows
    BY Zenon, <1>2, <1>3 DEF Frame
  <1>5. frames' = [frames EXCEPT ![g] = [frames[g] EXCEPT ![n].rows = r]]
    BY Zenon DEF Insert, Top
  <1> HIDE DEF n, r
  <1>6. /\ [frames[g] EXCEPT ![n].rows = r] \in Seq(Frame)
        /\ Locks([frames[g] EXCEPT ![n].rows = r]) = Locks(frames[g])
    BY <1>1, <1>2, <1>4, LocksReplace, Zenon
  <1>7. QED
    BY <1>5, <1>6, Zenon

LockIInv == FrameTypes /\ LockInv

\* The connection starts with no context open and the lock free.
LEMMA LockInit == Init => LockIInv
  <1> SUFFICES ASSUME Init PROVE LockIInv
    BY Zenon
  <1>1. FrameTypes
    BY RolesAssumption DEF Init, FrameTypes, Labels, Kinds, OwnerOrNoOne
  <1>2. LockInv
    BY DEF Init, LockInv, Locks
  <1>3. QED BY Zenon, <1>1, <1>2 DEF LockIInv

\* Every step of every greenlet preserves who holds transaction_lock for what.
LEMMA LockStep == LockIInv /\ [Next]_vars => LockIInv'
  <1> SUFFICES ASSUME LockIInv, [Next]_vars PROVE LockIInv'
    BY Zenon
  <1> USE NoOneIsNoGreenlet DEF LockIInv
  <1>0. CASE UNCHANGED vars
    BY Zenon, <1>0 DEF vars, lockVars, ctxVars, FrameTypes, LockInv
  <1>1. CASE AllDone
    BY Zenon, <1>1, <1>0 DEF AllDone
  <1>2. CASE \E g \in Greenlets : Step(g)
    <2> PICK g \in Greenlets : Step(g)
      BY Zenon, <1>2
    <2> DEFINE Benign == /\ pc' \in [Greenlets -> Labels]
                         /\ want' \in [Greenlets -> Kinds]
                         /\ opened' \in [Greenlets -> 0..MaxOpened]
                         /\ \A h \in Greenlets : pc'[h] = "begin" => pc[h] = "begin"
    (* the three ways an action changes the stacks and the lock *)
    <2>1. ASSUME Benign, UNCHANGED <<frames, transaction_lock>>
          PROVE  LockIInv'
      BY Zenon, <2>1 DEF FrameTypes, LockInv
    <2>2. ASSUME Benign, UNCHANGED transaction_lock,
                 NEW s \in Seq(Frame), frames' = [frames EXCEPT ![g] = s],
                 Locks(s) \subseteq Locks(frames[g])
          PROVE  LockIInv'
      <3>1. FrameTypes'
        BY Zenon, <2>2 DEF FrameTypes
      <3>2. frames'[g] = s /\ \A h \in Greenlets \ {g} : frames'[h] = frames[h]
        BY Zenon, <2>2 DEF FrameTypes
      <3>3. ASSUME NEW h \in Greenlets PROVE Locks(frames'[h]) \subseteq Locks(frames[h])
        BY Zenon, <2>2, <3>2
      <3>4. LockInv'
        BY Zenon, <2>2, <3>3 DEF LockInv
      <3>5. QED BY Zenon, <3>1, <3>4
    <2>3. ASSUME Benign, transaction_lock = g, transaction_lock' = NoOne, pc'[g] # "begin",
                 NEW s \in Seq(Frame), frames' = [frames EXCEPT ![g] = s], Locks(s) = {}
          PROVE  LockIInv'
      BY Zenon, <2>3 DEF FrameTypes, LockInv, OwnerOrNoOne
    (* actions that leave the stacks and the lock alone *)
    <2>4. CASE Block(g) \/ Switch(g) \/ Yield(g) \/ ExecuteScript(g)
      BY Zenon, <2>4, <2>1 DEF Block, Switch, Yield, ExecuteScript, FrameTypes, lockVars, ctxVars
    <2>5. CASE \/ Callback(g) \/ CallbackReturn(g) \/ Finish(g) \/ Die(g) \/ CriticalExit(g)
               \/ WaitSavepoints(g) \/ EnterSavepoint(g) \/ WaitTransaction(g) \/ EndUpdate(g)
               \/ Raise(g) \/ Catch(g) \/ Commit(g) \/ Rollback(g)
      BY <2>5, <2>1, Zenon DEF Callback, CallbackReturn, Finish, Die, CriticalExit, WaitSavepoints,
                    EnterSavepoint, WaitTransaction, EndUpdate, Raise, Catch, Commit, Rollback,
                    Goto, Labels, FrameTypes, lockVars, ctxVars
    <2>6. CASE \E error \in KillErrors : Kill(g, error)
      BY Zenon, <2>6, <2>1 DEF Kill, Goto, Labels, FrameTypes
    <2>7. CASE WriteCtx(g) \/ CriticalCtx(g) \/ CriticalLockCtx(g) \/ SavepointCtx(g)
      <3>1. PICK kind \in Kinds : Request(g, kind)
        BY Zenon, <2>7 DEF WriteCtx, CriticalCtx, CriticalLockCtx, SavepointCtx, Kinds
      <3>2. UNCHANGED <<frames, transaction_lock>> /\ want' \in [Greenlets -> Kinds]
        BY Zenon, <3>1 DEF Request, FrameTypes, lockVars
      <3>3. opened' \in [Greenlets -> 0..MaxOpened]
        <4>1. opened[g] \in 0..MaxOpened /\ opened[g] < MaxOpened
          BY Zenon, <3>1 DEF Request, FrameTypes
        <4>2. opened[g] + 1 \in 0..MaxOpened
          BY <4>1, BoundsAndErrors
        <4>3. QED BY Zenon, <3>1, <4>2 DEF Request, FrameTypes
      <3>4. PICK label \in Labels \ {"begin"} : Goto(g, label)
        BY Zenon, <2>7 DEF WriteCtx, CriticalCtx, CriticalLockCtx, SavepointCtx, Labels
      <3>5. QED
        BY Zenon, <3>2, <3>3, <3>4, <2>1 DEF Goto, FrameTypes
    <2>8. CASE ExecuteDirect(g)
      <3>1. opened[g] \in 0..MaxOpened /\ opened[g] < MaxOpened
        BY Zenon, <2>8 DEF ExecuteDirect, FrameTypes
      <3>2. opened[g] + 1 \in 0..MaxOpened
        BY <3>1, BoundsAndErrors
      <3>3. QED
        BY Zenon, <2>8, <3>2, <2>1 DEF ExecuteDirect, Goto, Labels, FrameTypes, lockVars
    (* actions that push *)
    <2>9. CASE CriticalEnter(g)
      <3>1. CASE want[g] = "critical"
        <4>1. Push(g, "critical", "none") /\ Benign /\ UNCHANGED transaction_lock
          BY <2>9, <3>1, Zenon DEF CriticalEnter, Goto, Labels, FrameTypes
        <4>2. QED
          BY Zenon, <4>1, <2>2, PushEffect DEF Kinds, Locking
      <3>2. CASE want[g] # "critical"
        BY <2>9, <3>2, <2>1, Zenon DEF CriticalEnter, Goto, Labels, FrameTypes
      <3>3. QED BY Zenon, <3>1, <3>2
    <2>10. CASE AcquireLock(g)
      <3>1. \A h \in Greenlets : Locks(frames[h]) = {} /\ pc[h] # "begin"
        BY Zenon, <2>10 DEF AcquireLock, LockInv
      <3>2. transaction_lock' = g /\ UNCHANGED <<want, opened>>
        BY Zenon, <2>10 DEF AcquireLock
      <3>3. CASE want[g] = "critical_lock"
        <4>1. Push(g, "critical_lock", "none") /\ Goto(g, "run")
          BY Zenon, <2>10, <3>3 DEF AcquireLock
        <4>2. PICK s \in Seq(Frame) : /\ frames' = [frames EXCEPT ![g] = s]
                                      /\ Locks(s) = {Len(frames[g]) + 1}
          <5>1. Locks(frames[g]) = {}
            BY Zenon, <3>1
          <5>2. "critical_lock" \in Kinds /\ "critical_lock" \in Locking
            BY Zenon DEF Kinds, Locking
          <5>3. PICK s \in Seq(Frame) :
                    /\ frames' = [frames EXCEPT ![g] = s]
                    /\ Locks(s) = Locks(frames[g]) \union {Len(frames[g]) + 1}
            BY <4>1, <5>2, PushEffect, Zenon
          <5>4. QED BY <5>1, <5>3, Zenon
        <4>3. FrameTypes'
          BY Zenon, <4>1, <4>2, <3>2 DEF FrameTypes, Goto, Labels, OwnerOrNoOne
        <4>4. LockInv'
          BY <4>1, <4>2, <3>1, <3>2 DEF LockInv, Goto, FrameTypes
        <4>5. QED BY Zenon, <4>3, <4>4
      <3>4. CASE want[g] # "critical_lock"
        <4>1. UNCHANGED frames /\ Goto(g, "begin")
          BY Zenon, <2>10, <3>4 DEF AcquireLock
        <4>2. FrameTypes'
          BY Zenon, <4>1, <3>2 DEF FrameTypes, Goto, Labels, OwnerOrNoOne
        <4>3. LockInv'
          BY <4>1, <3>1, <3>2 DEF LockInv, Goto, FrameTypes
        <4>4. QED BY Zenon, <4>2, <4>3
      <3>5. QED BY Zenon, <3>3, <3>4
    <2>11. CASE Begin(g)
      <3>1. transaction_lock = g /\ Locks(frames[g]) = {} /\ UNCHANGED <<want, opened>>
        BY Zenon, <2>11 DEF Begin, At, LockInv
      <3>2. CASE Push(g, "write", "none") /\ Goto(g, "run") /\ UNCHANGED transaction_lock
        <4>1. PICK s \in Seq(Frame) : /\ frames' = [frames EXCEPT ![g] = s]
                                      /\ Locks(s) = {Len(frames[g]) + 1}
          <5>1. "write" \in Kinds /\ "write" \in Locking
            BY Zenon DEF Kinds, Locking
          <5>2. PICK s \in Seq(Frame) :
                    /\ frames' = [frames EXCEPT ![g] = s]
                    /\ Locks(s) = Locks(frames[g]) \union {Len(frames[g]) + 1}
            BY <3>2, <5>1, PushEffect, Zenon
          <5>3. QED BY <3>1, <5>2, Zenon
        <4>2. FrameTypes'
          BY Zenon, <4>1, <3>1, <3>2 DEF FrameTypes, Goto, Labels
        <4>3. LockInv'
          BY <4>1, <3>1, <3>2 DEF LockInv, Goto, FrameTypes
        <4>4. QED BY Zenon, <4>2, <4>3
      <3>3. CASE UNCHANGED frames /\ Goto(g, "raise") /\ transaction_lock' = NoOne
        <4>1. frames' = [frames EXCEPT ![g] = frames[g]] /\ frames[g] \in Seq(Frame)
          BY Zenon, <3>3 DEF FrameTypes
        <4>2. Benign /\ pc'[g] # "begin"
          BY Zenon, <3>1, <3>3 DEF FrameTypes, Goto, Labels
        <4>3. QED BY <4>1, <4>2, <3>1, <3>3, <2>3, Zenon
      <3>4. QED BY Zenon, <2>11, <3>2, <3>3 DEF Begin
    <2>12. CASE \E name \in Names : CreateSavepoint(g, name)
      <3>1. PICK name \in Names : CreateSavepoint(g, name)
        BY Zenon, <2>12
      <3>2. Benign /\ UNCHANGED transaction_lock
        BY <3>1, Zenon DEF CreateSavepoint, Goto, Labels, FrameTypes, lockVars
      <3>3. CASE Push(g, "savepoint", name)
        BY Zenon, <3>2, <3>3, <2>2, PushEffect DEF Kinds, Locking
      <3>4. CASE UNCHANGED frames
        BY Zenon, <3>2, <3>4, <2>1
      <3>5. QED BY Zenon, <3>1, <3>3, <3>4 DEF CreateSavepoint
    <2>13. CASE Insert(g)
      <3>1. Benign /\ UNCHANGED transaction_lock
        BY Zenon, <2>13 DEF Insert, FrameTypes, lockVars
      <3>2. QED BY Zenon, <2>13, <3>1, <2>2, InsertEffect
    (* actions that pop *)
    <2>14. CASE ExitWrite(g) \/ ExitCriticalLock(g) \/ UnwindWrite(g)
                \/ (UnwindCritical(g) /\ TopIs(g, "critical_lock"))
      <3>1. /\ frames[g] # <<>> /\ Top(g).kind \in Locking /\ Pop(g)
            /\ transaction_lock' = NoOne /\ UNCHANGED <<want, opened>>
            /\ Goto(g, "cs_exit") \/ UNCHANGED pc
            /\ pc[g] # "begin"
        BY <2>14, Zenon DEF ExitWrite, ExitCriticalLock, UnwindWrite, UnwindCritical, TopIs,
           Locking, At
      <3>2. Len(frames[g]) \in Locks(frames[g])
        BY Zenon, <3>1, LocksPop DEF Top, FrameTypes
      <3>3. transaction_lock = g /\ Locks(frames[g]) \ {Len(frames[g])} = {}
        BY <3>2, Zenon DEF LockInv
      <3>4. Benign /\ pc'[g] # "begin"
        BY <3>1, Zenon DEF Goto, Labels, FrameTypes
      <3>5. QED BY <3>1, <3>3, <3>4, <2>3, PopEffect, Zenon
    <2>15. CASE ExitCritical(g) \/ UnwindSavepoint(g)
                \/ (UnwindCritical(g) /\ ~TopIs(g, "critical_lock"))
      <3>1. /\ frames[g] # <<>> /\ Pop(g)
            /\ UNCHANGED <<want, opened, transaction_lock>>
            /\ Goto(g, "cs_exit") \/ UNCHANGED pc
        BY <2>15, Zenon DEF ExitCritical, UnwindSavepoint, UnwindCritical, TopIs, lockVars
      <3>2. Benign
        BY <3>1, Zenon DEF Goto, Labels, FrameTypes
      <3>3. QED BY <3>1, <3>2, <2>2, PopEffect, Zenon
    <2>16. CASE ExitSavepoint(g)
      <3>1. Benign /\ UNCHANGED transaction_lock /\ frames[g] # <<>>
        BY <2>16, Zenon DEF ExitSavepoint, TopIs, Goto, Labels, FrameTypes, lockVars
      <3>2. CASE Pop(g)
        BY <3>1, <3>2, <2>2, PopEffect, Zenon
      <3>3. CASE PopInto(g) /\ ~Outermost(g)
        BY <3>1, <3>3, <2>2, PopIntoEffect, Zenon DEF Outermost
      <3>4. QED BY <2>16, <3>2, <3>3, Zenon DEF ExitSavepoint
    <2>17. QED
      BY Zenon, <2>4, <2>5, <2>6, <2>7, <2>8, <2>9, <2>10, <2>11, <2>12, <2>13, <2>14, <2>15, <2>16
         DEF Step, Progress
  <1>3. QED BY Zenon, <1>0, <1>1, <1>2 DEF Next

\* At most one greenlet is between BEGIN TRANSACTION and the end of its write_ctx,
\* for every number of greenlets, whatever they do, and whatever kills them.
THEOREM WritersExcludeEachOther == Spec => []MutualExclusion
  <1>1. LockIInv => MutualExclusion
    <2> SUFFICES ASSUME LockIInv, NEW g \in Greenlets, NEW h \in Greenlets,
                        HasKind(g, "write"), HasKind(h, "write")
                 PROVE  g = h
      BY Zenon DEF MutualExclusion
    <2>1. Locks(frames[g]) # {} /\ Locks(frames[h]) # {}
      BY Zenon DEF HasKind, Locks, Locking
    <2>2. QED BY Zenon, <2>1 DEF LockIInv, LockInv
  <1>2. QED
    BY LockInit, LockStep, <1>1, PTL DEF Spec

-----------------------------------------------------------------------------
(* The type invariant, for every use of the connection.                     *)


Mark == [name : Names, saved : SUBSET Rows]

\* The part of TypeOK about sqlite's connection.
SqlTypes ==
    /\ begun \in BOOLEAN
    /\ marks \in Seq(Mark)
    /\ data \in SUBSET Rows
    /\ disk \in SUBSET Rows

\* The part about the driver's attributes.
IdTypes ==
    /\ savepoints \in Seq(Names)
    /\ savepoint_greenlet_id \in OwnerOrNoOne
    /\ write_greenlet_id \in OwnerOrNoOne

\* The part about the exceptions, and the rows of finished contexts.
CtxTypes ==
    /\ raised \in [Greenlets -> Errors]
    /\ kills \in 0..MaxKills
    /\ acked \in SUBSET Rows

\* The part about the callback and the scheduler.
RunTypes ==
    /\ in_callback \in OwnerOrNoOne
    /\ in_callback # NoOne => pc[in_callback] = "callback"
    /\ handler \in BOOLEAN
    /\ running \in OwnerOrNoOne

\* "RELEASE SAVEPOINT" keeps a prefix of sqlite's stack.
LEMMA ReleaseTypes ==
    ASSUME SqlTypes, NEW i \in 1..Len(marks), NEW now \in SUBSET Rows, SqlReleaseAt(i, now)
    PROVE  SqlTypes'
  <1>1. marks \in Seq(Mark) /\ i - 1 \in 0..Len(marks)
    BY LengthFacts DEF SqlTypes
  <1>2. SubSeq(marks, 1, i - 1) \in Seq(Mark)
    BY Zenon, <1>1, PrefixFacts
  <1>3. QED BY Zenon, <1>2 DEF SqlReleaseAt, SqlTypes

\* "ROLLBACK TO SAVEPOINT" brings back rows that were there before.
LEMMA SavedTypes ==
    ASSUME SqlTypes, NEW i \in 1..Len(marks)
    PROVE  marks[i].saved \in SUBSET Rows
  <1>1. marks[i] \in Mark
    BY Zenon, ElementFacts DEF SqlTypes
  <1>2. QED BY Zenon, <1>1 DEF Mark

\* The driver forgets a savepoint and all that were opened after it.
LEMMA ForgetTypes ==
    ASSUME IdTypes, NEW name, IsSavepoint(name), ForgetSavepoint(name)
    PROVE  IdTypes'
  <1> DEFINE i == CHOOSE k \in 1..Len(savepoints) : savepoints[k] = name
  <1>1. i \in 1..Len(savepoints)
    BY Zenon DEF IsSavepoint
  <1>2. SavepointsBelow(name) \in Seq(Names)
    <2>1. savepoints \in Seq(Names)
      BY Zenon DEF IdTypes
    <2>2. i - 1 \in 0..Len(savepoints)
      BY <1>1, <2>1, LengthFacts
    <2>3. SavepointsBelow(name) = SubSeq(savepoints, 1, i - 1)
      BY Zenon DEF SavepointsBelow
    <2> HIDE DEF i
    <2>4. QED BY Zenon, <2>1, <2>2, <2>3, PrefixFacts
  <1>3. QED
    BY Zenon, <1>2 DEF ForgetSavepoint, IdTypes, OwnerOrNoOne

TypeIInv == LockIInv /\ SqlTypes /\ IdTypes /\ CtxTypes /\ RunTypes

\* Every step keeps the types of the contents.
LEMMA SqlTypesStep ==
    ASSUME TypeIInv, NEW g \in Greenlets, Step(g)
    PROVE  SqlTypes'
  <1> USE NoOneIsNoGreenlet DEF TypeIInv, LockIInv
  <1>1. ASSUME UNCHANGED sqlVars PROVE SqlTypes'
    BY Zenon, <1>1 DEF sqlVars, SqlTypes
  <1>2. CASE \/ Block(g) \/ Switch(g) \/ Yield(g) \/ Callback(g) \/ CallbackReturn(g)
             \/ Finish(g) \/ Die(g) \/ Raise(g) \/ Catch(g) \/ EndUpdate(g)
             \/ \E error \in KillErrors : Kill(g, error)
    BY Zenon, <1>1, <1>2 DEF Block, Switch, Yield, Callback, CallbackReturn, Finish, Die, Raise,
       Catch,
                      EndUpdate, Kill
  <1>3. CASE \/ WriteCtx(g) \/ CriticalCtx(g) \/ CriticalLockCtx(g) \/ SavepointCtx(g)
             \/ WaitSavepoints(g) \/ EnterSavepoint(g) \/ WaitTransaction(g)
             \/ CriticalEnter(g) \/ AcquireLock(g) \/ ExitCritical(g) \/ ExitCriticalLock(g)
             \/ CriticalExit(g) \/ UnwindCritical(g)
    BY <1>1, <1>3, Zenon DEF WriteCtx, CriticalCtx, CriticalLockCtx, SavepointCtx, Request,
                      WaitSavepoints, EnterSavepoint, WaitTransaction, CriticalEnter,
                      AcquireLock, ExitCritical, ExitCriticalLock, CriticalExit, UnwindCritical
  <1>4. CASE Begin(g)
    <2>1. CASE SqlBegin
      BY Zenon, <2>1 DEF SqlBegin, SqlTypes
    <2>2. CASE UNCHANGED sqlVars
      BY Zenon, <1>1, <2>2
    <2>3. QED BY Zenon, <1>4, <2>1, <2>2 DEF Begin
  <1>5. CASE ExitWrite(g) \/ ExecuteScript(g) \/ Commit(g) \/ Rollback(g) \/ UnwindWrite(g)
    <2>0. <<>> \in Seq(Mark)
      BY LengthFacts
    <2>1. CASE SqlCommit
      BY <2>0, <2>1, Zenon DEF SqlCommit, SqlTypes
    <2>2. CASE SqlRollback
      BY <2>0, <2>2, Zenon DEF SqlRollback, SqlTypes
    <2>3. CASE UNCHANGED sqlVars
      BY Zenon, <1>1, <2>3
    <2>4. QED
      BY Zenon, <1>5, <2>1, <2>2, <2>3 DEF ExitWrite, ExecuteScript, Commit, Rollback, UnwindWrite
  <1>6. CASE Insert(g) \/ ExecuteDirect(g)
    <2>1. opened[g] \in 0..MaxOpened
      BY Zenon DEF FrameTypes
    <2>2. ExecuteDirect(g) => opened[g] + 1 \in 0..MaxOpened
      <3>1. ExecuteDirect(g) => opened[g] < MaxOpened
        BY Zenon DEF ExecuteDirect
      <3>2. QED BY <2>1, <3>1, BoundsAndErrors
    <2>3. \E row \in Rows : SqlInsert(row)
      BY Zenon, <1>6, <2>1, <2>2 DEF Insert, ExecuteDirect, Rows
    <2>4. QED BY Zenon, <2>3 DEF SqlInsert, SqlTypes
  <1>7. CASE \E name \in Names : CreateSavepoint(g, name)
    <2>1. PICK name \in Names : CreateSavepoint(g, name)
      BY Zenon, <1>7
    <2>2. CASE SqlSavepoint(name)
      <3> DEFINE m == [name |-> name, saved |-> data]
      <3>1. m \in Mark /\ marks \in Seq(Mark)
        BY Zenon DEF Mark, SqlTypes
      <3>2. marks' = Append(marks, m) /\ UNCHANGED <<begun, data, disk>>
        BY Zenon, <2>2 DEF SqlSavepoint
      <3> HIDE DEF m
      <3>3. marks' \in Seq(Mark)
        BY Zenon, <3>1, <3>2, PushFacts
      <3>4. QED BY Zenon, <3>2, <3>3 DEF SqlTypes
    <2>3. CASE UNCHANGED sqlVars
      BY Zenon, <1>1, <2>3
    <2>4. QED BY Zenon, <2>1, <2>2, <2>3 DEF CreateSavepoint
  <1>8. CASE ExitSavepoint(g) \/ UnwindSavepoint(g)
    <2> DEFINE name == Top(g).name
    <2>1. CASE SqlRelease(name)
      BY Zenon, <2>1, ReleaseTypes DEF SqlRelease, SqlTypes
    <2>2. CASE SqlRollbackAndRelease(name)
      BY Zenon, <2>2, SavedTypes, ReleaseTypes DEF SqlRollbackAndRelease
    <2>3. CASE UNCHANGED sqlVars
      BY Zenon, <1>1, <2>3
    <2>4. QED BY Zenon, <1>8, <2>1, <2>2, <2>3 DEF ExitSavepoint, UnwindSavepoint
  <1>9. QED
    BY Zenon, <1>2, <1>3, <1>4, <1>5, <1>6, <1>7, <1>8 DEF Step, Progress

\* Every step keeps the types of the driver's attributes.
LEMMA IdTypesStep ==
    ASSUME TypeIInv, NEW g \in Greenlets, Step(g)
    PROVE  IdTypes'
  <1> USE DEF TypeIInv
  <1>1. ASSUME UNCHANGED idVars PROVE IdTypes'
    BY Zenon, <1>1 DEF idVars, IdTypes
  <1>2. CASE \/ Block(g) \/ Switch(g) \/ Yield(g) \/ Callback(g) \/ CallbackReturn(g)
             \/ Finish(g) \/ Die(g) \/ Raise(g) \/ Catch(g) \/ EndUpdate(g)
             \/ \E error \in KillErrors : Kill(g, error)
    BY <1>1, <1>2, Zenon DEF Block, Switch, Yield, Callback, CallbackReturn, Finish, Die, Raise,
       Catch,
                      EndUpdate, Kill
  <1>3. CASE \/ WriteCtx(g) \/ CriticalCtx(g) \/ CriticalLockCtx(g) \/ SavepointCtx(g)
             \/ WaitSavepoints(g) \/ EnterSavepoint(g) \/ WaitTransaction(g)
             \/ CriticalEnter(g) \/ AcquireLock(g) \/ ExitCritical(g) \/ ExitCriticalLock(g)
             \/ CriticalExit(g) \/ UnwindCritical(g)
    BY <1>1, <1>3, Zenon DEF WriteCtx, CriticalCtx, CriticalLockCtx, SavepointCtx, Request,
                      WaitSavepoints, EnterSavepoint, WaitTransaction, CriticalEnter,
                      AcquireLock, ExitCritical, ExitCriticalLock, CriticalExit, UnwindCritical
  <1>4. CASE ExecuteScript(g) \/ Commit(g) \/ Rollback(g) \/ Insert(g) \/ ExecuteDirect(g)
    BY Zenon, <1>1, <1>4 DEF ExecuteScript, Commit, Rollback, Insert, ExecuteDirect
  <1>5. CASE Begin(g) \/ ExitWrite(g) \/ UnwindWrite(g)
    <2>1. /\ UNCHANGED <<savepoints, savepoint_greenlet_id>>
          /\ write_greenlet_id' \in {g, NoOne}
      <3>1. CASE Begin(g)
        BY <3>1, Zenon DEF Begin
      <3>2. CASE ExitWrite(g)
        BY <3>2, Zenon DEF ExitWrite
      <3>3. CASE UnwindWrite(g)
        BY <3>3, Zenon DEF UnwindWrite
      <3>4. QED BY <1>5, <3>1, <3>2, <3>3, Zenon
    <2>2. QED BY <2>1, Zenon DEF IdTypes, OwnerOrNoOne
  <1>6. CASE \E name \in Names : CreateSavepoint(g, name)
    <2>1. PICK name \in Names : CreateSavepoint(g, name)
      BY Zenon, <1>6
    <2>2. Append(savepoints, name) \in Seq(Names)
      BY Zenon, PushFacts DEF IdTypes
    <2>3. QED BY Zenon, <2>1, <2>2 DEF CreateSavepoint, IdTypes, OwnerOrNoOne
  <1>7. CASE ExitSavepoint(g) \/ UnwindSavepoint(g)
    <2> DEFINE name == Top(g).name
    <2>1. CASE ~Unreleasable(name) /\ ForgetSavepoint(name)
      BY Zenon, <2>1, ForgetTypes DEF Unreleasable
    <2>2. CASE UNCHANGED idVars
      BY Zenon, <1>1, <2>2
    <2>3. QED BY <1>7, <2>1, <2>2, Zenon DEF ExitSavepoint, UnwindSavepoint
  <1>8. QED
    BY Zenon, <1>2, <1>3, <1>4, <1>5, <1>6, <1>7 DEF Step, Progress

\* Every step keeps the types of the exceptions and counters.
LEMMA CtxTypesStep ==
    ASSUME TypeIInv, NEW g \in Greenlets, Step(g)
    PROVE  CtxTypes'
  <1> USE NoOneIsNoGreenlet DEF TypeIInv, LockIInv
  <1>1. ASSUME UNCHANGED <<raised, kills, acked>> PROVE CtxTypes'
    BY Zenon, <1>1 DEF CtxTypes
  <1>2. CASE \/ Block(g) \/ Switch(g) \/ Yield(g) \/ Callback(g) \/ CallbackReturn(g)
             \/ Finish(g) \/ Die(g) \/ Catch(g) \/ EndUpdate(g) \/ ExecuteScript(g)
             \/ Commit(g) \/ Rollback(g)
             \/ WaitSavepoints(g) \/ EnterSavepoint(g) \/ WaitTransaction(g) \/ CriticalExit(g)
    BY <1>1, <1>2, Zenon DEF Block, Switch, Yield, Callback, CallbackReturn, Finish, Die, Catch,
                      EndUpdate, ExecuteScript, Commit, Rollback, WaitSavepoints,
                      EnterSavepoint, WaitTransaction, CriticalExit, ctxVars
  <1>3. CASE \/ WriteCtx(g) \/ CriticalCtx(g) \/ CriticalLockCtx(g) \/ SavepointCtx(g)
             \/ CriticalEnter(g) \/ AcquireLock(g) \/ ExitCritical(g) \/ ExitCriticalLock(g)
             \/ UnwindCritical(g) \/ UnwindWrite(g) \/ Insert(g)
    BY <1>1, <1>3, Zenon DEF WriteCtx, CriticalCtx, CriticalLockCtx, SavepointCtx, Request,
                      CriticalEnter, AcquireLock, ExitCritical, ExitCriticalLock,
                      UnwindCritical, UnwindWrite, Insert
  <1>4. CASE \/ Raise(g) \/ Begin(g) \/ UnwindSavepoint(g)
             \/ \E name \in Names : CreateSavepoint(g, name)
    BY Zenon, <1>4 DEF Raise, Begin, UnwindSavepoint, CreateSavepoint, CtxTypes, Errors
  <1>5. CASE \E error \in KillErrors : Kill(g, error)
    <2>1. kills \in 0..MaxKills /\ kills < MaxKills /\ kills' = kills + 1
      BY Zenon, <1>5 DEF Kill, CtxTypes
    <2>2. kills' \in 0..MaxKills
      BY <2>1, BoundsAndErrors
    <2>3. raised' \in [Greenlets -> Errors] /\ UNCHANGED acked
      <3>1. PICK e \in Errors : raised' = [raised EXCEPT ![g] = e] /\ UNCHANGED acked
        BY <1>5, BoundsAndErrors, Zenon DEF Kill, Errors
      <3>2. QED BY Zenon, <3>1 DEF CtxTypes
    <2>4. QED BY Zenon, <2>2, <2>3 DEF CtxTypes
  <1>6. CASE ExitWrite(g) \/ ExitSavepoint(g)
    <2>1. frames[g] \in Seq(Frame) /\ frames[g] # <<>>
      BY <1>6, Zenon DEF ExitWrite, ExitSavepoint, TopIs, FrameTypes
    <2>2. Top(g) \in Frame
      BY Zenon, <2>1, PopFacts DEF Top
    <2>3. Top(g).rows \subseteq Rows
      BY Zenon, <2>2 DEF Frame
    <2>4. QED BY <1>6, <2>3, Zenon DEF ExitWrite, ExitSavepoint, CtxTypes, Errors
  <1>7. CASE ExecuteDirect(g)
    <2>1. opened[g] \in 0..MaxOpened /\ opened[g] < MaxOpened
      BY Zenon, <1>7 DEF ExecuteDirect, FrameTypes
    <2>2. opened[g] + 1 \in 0..MaxOpened
      BY <2>1, BoundsAndErrors
    <2>3. <<g, opened[g] + 1>> \in Rows
      BY Zenon, <2>2 DEF Rows
    <2>4. QED BY Zenon, <1>7, <2>3 DEF ExecuteDirect, CtxTypes
  <1>8. QED
    BY Zenon, <1>2, <1>3, <1>4, <1>5, <1>6, <1>7 DEF Step, Progress

\* Every step keeps the types of the scheduler, and in_callback with a greenlet that
\* is inside the callback.
LEMMA RunTypesStep ==
    ASSUME TypeIInv, NEW g \in Greenlets, Step(g)
    PROVE  RunTypes'
  <1> USE NoOneIsNoGreenlet DEF TypeIInv, LockIInv
  <1>0. \A label \in Labels : Goto(g, label) =>
            pc'[g] = label /\ \A h \in Greenlets \ {g} : pc'[h] = pc[h]
    BY Zenon DEF Goto, FrameTypes
  <1>1. ASSUME UNCHANGED in_callback, handler' \in BOOLEAN, running' \in OwnerOrNoOne,
               \/ UNCHANGED pc
               \/ pc[g] # "callback" /\ \E label \in Labels : Goto(g, label)
        PROVE  RunTypes'
    BY Zenon, <1>0, <1>1 DEF RunTypes, OwnerOrNoOne
  <1>2. CASE \/ Block(g) \/ Switch(g) \/ Yield(g) \/ Finish(g) \/ Die(g)
    BY <1>1, <1>2, Zenon DEF Block, Switch, Yield, Finish, Die, At, lockVars, RunTypes,
       OwnerOrNoOne,
                      Labels
  <1>3. CASE \/ Catch(g) \/ EndUpdate(g) \/ ExecuteScript(g) \/ Commit(g) \/ Rollback(g)
             \/ WaitSavepoints(g) \/ EnterSavepoint(g) \/ WaitTransaction(g) \/ CriticalExit(g)
             \/ Raise(g) \/ Insert(g) \/ ExecuteDirect(g)
    BY <1>1, <1>3, Zenon DEF Catch, EndUpdate, ExecuteScript, Commit, Rollback, WaitSavepoints,
                      EnterSavepoint, WaitTransaction, CriticalExit, Raise, Insert,
                      ExecuteDirect, At, lockVars, RunTypes, Labels
  <1>4. CASE \/ WriteCtx(g) \/ CriticalCtx(g) \/ CriticalLockCtx(g) \/ SavepointCtx(g)
    BY <1>1, <1>4, Zenon DEF WriteCtx, CriticalCtx, CriticalLockCtx, SavepointCtx, Request, At,
                      lockVars, RunTypes, Labels
  <1>5. CASE \/ CriticalEnter(g) \/ AcquireLock(g) \/ ExitCritical(g) \/ ExitCriticalLock(g)
             \/ UnwindCritical(g) \/ UnwindWrite(g) \/ Begin(g) \/ ExitWrite(g)
    BY <1>1, <1>5, Zenon DEF CriticalEnter, AcquireLock, ExitCritical, ExitCriticalLock, Begin,
                      UnwindCritical, UnwindWrite, ExitWrite, At, lockVars, RunTypes, Labels
  <1>6. CASE \/ UnwindSavepoint(g) \/ ExitSavepoint(g)
             \/ \E name \in Names : CreateSavepoint(g, name)
    BY <1>1, <1>6, Zenon DEF UnwindSavepoint, ExitSavepoint, CreateSavepoint, At, lockVars,
       RunTypes,
                      Labels
  <1>7. CASE Callback(g) \/ CallbackReturn(g)
    BY <1>7, <1>0, Zenon DEF Callback, CallbackReturn, RunTypes, OwnerOrNoOne, Labels
  <1>8. CASE \E error \in KillErrors : Kill(g, error)
    BY <1>8, <1>0, Zenon DEF Kill, RunTypes, OwnerOrNoOne, Labels
  <1>9. QED
    BY Zenon, <1>2, <1>3, <1>4, <1>5, <1>6, <1>7, <1>8 DEF Step, Progress

\* Initially every variable has its type.
LEMMA TypeInit == Init => TypeIInv
  <1>1. <<>> \in Seq(Mark) /\ <<>> \in Seq(Names)
    BY LengthFacts
  <1>2. Init => SqlTypes
    BY <1>1, Zenon DEF Init, SqlInit, SqlTypes
  <1>3. Init => IdTypes
    BY Zenon, <1>1 DEF Init, IdTypes, OwnerOrNoOne
  <1>4. Init => CtxTypes
    BY RolesAssumption DEF Init, CtxTypes, Errors
  <1>5. Init => RunTypes
    BY Zenon DEF Init, RunTypes, OwnerOrNoOne
  <1>6. QED
    BY Zenon, <1>2, <1>3, <1>4, <1>5, LockInit DEF TypeIInv

\* Every step keeps the types.
LEMMA TypeStep == TypeIInv /\ [Next]_vars => TypeIInv'
  <1> SUFFICES ASSUME TypeIInv, [Next]_vars PROVE TypeIInv'
    BY Zenon
  <1>1. LockIInv'
    BY Zenon, LockStep DEF TypeIInv
  <1>2. CASE UNCHANGED vars
    BY Zenon, <1>1, <1>2 DEF TypeIInv, SqlTypes, IdTypes, CtxTypes, RunTypes, vars, sqlVars,
       lockVars,
                      idVars, ctxVars
  <1>3. CASE \E g \in Greenlets : Step(g)
    BY Zenon, <1>1, <1>3, SqlTypesStep, IdTypesStep, CtxTypesStep, RunTypesStep DEF TypeIInv
  <1>4. QED BY Zenon, <1>2, <1>3 DEF Next, AllDone

\* Every variable keeps its type whatever the greenlets do, and in_callback is held
\* between two switches only by a greenlet inside the progress callback.
THEOREM TypeCorrect == Spec => []TypeOK
  <1>1. TypeIInv => TypeOK
    BY Zenon DEF TypeIInv, LockIInv, FrameTypes, SqlTypes, IdTypes, CtxTypes, RunTypes, TypeOK, Mark
  <1>2. QED BY <1>1, TypeInit, TypeStep, PTL DEF Spec

-----------------------------------------------------------------------------
(* Critical sections                                                         *)

\* Code in a critical_section neither opens another context nor yields.
CriticalBodiesRunThrough ==
    Updaters = {} /\ Exporters \intersect (Writers \union Savepointers \union Yielders) = {}

\* Who is in a critical section executes, the handler is removed, and there is no
\* other context around it or in it; who enters one has no context open.
CriticalPart(g) ==
    /\ HasKind(g, "critical") =>
          /\ g \in Exporters /\ running = g /\ ~handler
          /\ pc[g] \in {"run", "raise"} /\ Len(frames[g]) = 1
    /\ pc[g] = "cs_enter" /\ want[g] = "critical" => frames[g] = <<>> /\ g \in Exporters
    /\ pc[g] = "wait_savepoints" => want[g] = "write"

CriticalInv == \A g \in Greenlets : CriticalPart(g)

\* Of the other greenlets a step changes nothing, and it is one of the greenlet that
\* executes or of the hub.
LEMMA OthersStay ==
    ASSUME FrameTypes, NEW g \in Greenlets, Step(g), NEW h \in Greenlets, h # g
    PROVE  /\ pc'[h] = pc[h] /\ want'[h] = want[h] /\ frames'[h] = frames[h]
           /\ running \in {g, NoOne}
  <1>0. /\ \A label \in Labels : Goto(g, label) => pc'[h] = pc[h]
        /\ \A k \in Kinds, name \in Names \union {"none"} :
              Push(g, k, name) => frames'[h] = frames[h]
        /\ Pop(g) \/ PopInto(g) => frames'[h] = frames[h]
    BY Zenon DEF Goto, Push, Pop, PopInto, FrameTypes
  <1>1. CASE Block(g) \/ Switch(g) \/ Yield(g) \/ ExecuteScript(g)
    BY Zenon, <1>1 DEF Block, Switch, Yield, ExecuteScript, ctxVars, At
  <1>2. CASE \/ Callback(g) \/ CallbackReturn(g) \/ Finish(g) \/ Die(g) \/ CriticalExit(g)
             \/ WaitSavepoints(g) \/ EnterSavepoint(g) \/ WaitTransaction(g) \/ EndUpdate(g)
             \/ Raise(g) \/ Catch(g) \/ Commit(g) \/ Rollback(g) \/ ExecuteDirect(g)
    <2>1. (\E label \in Labels : Goto(g, label)) /\ UNCHANGED <<want, frames>> /\ running = g
      BY Zenon, <1>2 DEF Callback, CallbackReturn, Finish, Die, CriticalExit, WaitSavepoints,
         EnterSavepoint, WaitTransaction, EndUpdate, Raise, Catch, Commit, Rollback, ExecuteDirect,
         ctxVars, At, Labels
    <2>2. QED BY Zenon, <1>0, <2>1
  <1>3. CASE \E error \in KillErrors : Kill(g, error)
    <2>1. Goto(g, "raise") /\ UNCHANGED <<want, frames>> /\ running = NoOne
      BY Zenon, <1>3 DEF Kill
    <2>2. QED BY Zenon, <1>0, <2>1 DEF Labels
  <1>4. CASE WriteCtx(g) \/ CriticalCtx(g) \/ CriticalLockCtx(g) \/ SavepointCtx(g)
    <2>1. (\E label \in Labels : Goto(g, label)) /\ (\E k \in Kinds : Request(g, k))
      BY Zenon, <1>4 DEF WriteCtx, CriticalCtx, CriticalLockCtx, SavepointCtx, Labels, Kinds
    <2>2. want'[h] = want[h] /\ UNCHANGED frames /\ running = g
      BY Zenon, <2>1 DEF Request, FrameTypes, At
    <2>3. QED BY Zenon, <1>0, <2>1, <2>2
  <1>5. CASE Insert(g)
    BY Zenon, <1>5 DEF Insert, FrameTypes, At
  <1>6. CASE \/ CriticalEnter(g) \/ AcquireLock(g) \/ Begin(g)
             \/ \E name \in Names : CreateSavepoint(g, name)
    <2>1. /\ \/ UNCHANGED frames
             \/ \E k \in Kinds, name \in Names \union {"none"} : Push(g, k, name)
          /\ (\E label \in Labels : Goto(g, label)) /\ UNCHANGED want /\ running = g
      BY Zenon, <1>6 DEF CriticalEnter, AcquireLock, Begin, CreateSavepoint, Kinds, Labels, At
    <2>2. QED BY Zenon, <1>0, <2>1
  <1>7. CASE \/ ExitWrite(g) \/ ExitCritical(g) \/ ExitCriticalLock(g) \/ ExitSavepoint(g)
             \/ UnwindWrite(g) \/ UnwindSavepoint(g) \/ UnwindCritical(g)
    <2>1. /\ Pop(g) \/ PopInto(g)
          /\ UNCHANGED pc \/ \E label \in Labels : Goto(g, label)
          /\ UNCHANGED want /\ running = g
      BY Zenon, <1>7 DEF ExitWrite, ExitCritical, ExitCriticalLock, ExitSavepoint, UnwindWrite,
         UnwindSavepoint, UnwindCritical, Labels, At
    <2>2. QED BY Zenon, <1>0, <2>1
  <1>8. QED
    BY Zenon, <1>1, <1>2, <1>3, <1>4, <1>5, <1>6, <1>7 DEF Step, Progress

\* Leaving a context, or adding rows to one, opens no critical section.
LEMMA NoNewCritical ==
    ASSUME FrameTypes, NEW g \in Greenlets, frames[g] # <<>>,
           Pop(g) \/ (PopInto(g) /\ Len(frames[g]) # 1) \/ Insert(g),
           HasKind(g, "critical")'
    PROVE  HasKind(g, "critical")
  <1>0. /\ frames[g] \in Seq(Frame) /\ Len(frames[g]) \in Nat \ {0}
        /\ SubSeq(frames[g], 1, Len(frames[g]) - 1) \in Seq(Frame)
        /\ Len(SubSeq(frames[g], 1, Len(frames[g]) - 1)) = Len(frames[g]) - 1
        /\ \A i \in 1..(Len(frames[g]) - 1) :
              SubSeq(frames[g], 1, Len(frames[g]) - 1)[i] = frames[g][i]
    BY PopFacts DEF FrameTypes
  <1>1. CASE Pop(g)
    <2>1. frames'[g] = SubSeq(frames[g], 1, Len(frames[g]) - 1)
      BY Zenon, <1>1 DEF Pop, FrameTypes
    <2>2. QED BY <1>0, <2>1 DEF HasKind
  <1>2. CASE PopInto(g) /\ Len(frames[g]) # 1
    <2> DEFINE n == Len(frames[g])
               outer == SubSeq(frames[g], 1, n - 1)
               r == outer[n - 1].rows \union Top(g).rows
               f == [outer[n - 1] EXCEPT !.rows = r]
    <2>0. n \in Nat \ {0} /\ n # 1 /\ outer \in Seq(Frame) /\ Len(outer) = n - 1
      BY Zenon, <1>0, <1>2
    <2>1. n - 1 \in 1..Len(outer)
      <3> HIDE DEF n, outer
      <3>1. QED BY <2>0
    <2>2. outer[n - 1] \in Frame /\ Top(g) \in Frame
      BY Zenon, <1>0, <2>1, ElementFacts, PopFacts DEF Top
    <2>3. r \in SUBSET Rows
      BY <2>2, Zenon DEF Frame
    <2>4. f \in Frame /\ f.kind = outer[n - 1].kind
      BY Zenon, <2>2, <2>3 DEF Frame
    <2>5. frames'[g] = [outer EXCEPT ![n - 1] = f]
      BY Zenon, <1>2 DEF PopInto, FrameTypes
    <2>6. /\ Len(frames'[g]) = Len(outer)
          /\ \A j \in 1..Len(outer) : frames'[g][j] = IF j = n - 1 THEN f ELSE outer[j]
      <3> HIDE DEF f, outer, n
      <3>1. QED BY <2>0, <2>1, <2>4, <2>5, ReplaceFacts
    <2>7. \A j \in 1..Len(outer) : frames'[g][j].kind = frames[g][j].kind
      <3> HIDE DEF f
      <3>1. QED BY Zenon, <1>0, <2>4, <2>6
    <2>8. QED
      BY <1>0, <2>6, <2>7 DEF HasKind
  <1>3. CASE Insert(g)
    <2> DEFINE n == Len(frames[g])
               r == Top(g).rows \union {<<g, opened[g]>>}
               f == [frames[g][n] EXCEPT !.rows = r]
    <2>1. n \in 1..Len(frames[g]) /\ Top(g) \in Frame /\ frames[g][n] \in Frame
      BY <1>0, PopFacts DEF Top
    <2>2. r \in SUBSET Rows
      BY <2>1 DEF Frame, FrameTypes, Rows
    <2>3. f \in Frame /\ f.kind = frames[g][n].kind
      BY Zenon, <2>1, <2>2 DEF Frame
    <2>4. frames'[g] = [frames[g] EXCEPT ![n] = f]
      BY Zenon, <1>3 DEF Insert, Top, FrameTypes
    <2>5. /\ Len(frames'[g]) = Len(frames[g])
          /\ \A j \in 1..Len(frames[g]) : frames'[g][j] = IF j = n THEN f ELSE frames[g][j]
      <3> HIDE DEF f
      <3>1. QED BY <1>0, <2>1, <2>3, <2>4, ReplaceFacts
    <2>6. \A j \in 1..Len(frames[g]) : frames'[g][j].kind = frames[g][j].kind
      <3> HIDE DEF f
      <3>1. QED BY Zenon, <2>3, <2>5
    <2>7. QED
      BY Zenon, <2>5, <2>6 DEF HasKind
  <1>4. QED BY Zenon, <1>1, <1>2, <1>3

\* A context of another kind is no critical section.
LEMMA PushOther ==
    ASSUME FrameTypes, NEW g \in Greenlets, NEW k \in Kinds, k # "critical",
           NEW name \in Names \union {"none"}, Push(g, k, name), HasKind(g, "critical")'
    PROVE  HasKind(g, "critical")
  <1> DEFINE f == [kind |-> k, name |-> name, rows |-> {}]
  <1>1. f \in Frame /\ f.kind = k
    BY Zenon DEF Frame
  <1>2. frames'[g] = Append(frames[g], f) /\ frames[g] \in Seq(Frame)
    BY Zenon DEF Push, FrameTypes
  <1> HIDE DEF f
  <1>3. QED BY <1>1, <1>2, PushFacts, LengthFacts DEF HasKind

\* A greenlet in a critical section stays there undisturbed or leaves it.
LEMMA CriticalBody ==
    ASSUME CriticalBodiesRunThrough, LockIInv, NEW g \in Greenlets, CriticalPart(g), Step(g),
           HasKind(g, "critical")
    PROVE  CriticalPart(g)'
  <1> USE NoOneIsNoGreenlet
  <1>0. /\ g \in Exporters /\ running = g /\ ~handler /\ pc[g] \in {"run", "raise"}
        /\ Len(frames[g]) = 1 /\ frames[g] # <<>> /\ TopIs(g, "critical")
        /\ frames[g] \in Seq(Frame)
    BY LengthFacts DEF CriticalPart, HasKind, TopIs, Top, LockIInv, FrameTypes
  <1>1. ~InTx(g) /\ ~TopIs(g, "write") /\ ~TopIs(g, "savepoint") /\ ~TopIs(g, "critical_lock")
    BY Zenon, <1>0 DEF InTx, TopIs
  <1>2. g \notin Writers /\ g \notin Updaters /\ g \notin Savepointers /\ g \notin Yielders
    BY Zenon, <1>0 DEF CriticalBodiesRunThrough
  <1>3. Raise(g) \/ ExecuteScript(g) \/ Catch(g) \/ ExitCritical(g) \/ UnwindCritical(g)
    <2>1. ~(\/ Block(g) \/ CallbackReturn(g) \/ Finish(g) \/ Die(g) \/ WaitSavepoints(g)
            \/ CriticalEnter(g) \/ AcquireLock(g) \/ Begin(g) \/ CriticalExit(g))
      BY Zenon, <1>0 DEF Block, Blocked, CallbackReturn, Finish, Die, WaitSavepoints,
         CriticalEnter, AcquireLock, Begin, CriticalExit, At, InBody
    <2>2. ~(\/ ExitWrite(g) \/ ExitCriticalLock(g) \/ EnterSavepoint(g) \/ WaitTransaction(g)
            \/ ExitSavepoint(g) \/ UnwindWrite(g) \/ UnwindSavepoint(g) \/ Commit(g)
            \/ Rollback(g) \/ Insert(g) \/ \E name \in Names : CreateSavepoint(g, name))
      BY Zenon, <1>0, <1>1 DEF ExitWrite, ExitCriticalLock, EnterSavepoint, WaitTransaction,
         ExitSavepoint, UnwindWrite, UnwindSavepoint, Commit, Rollback, Insert, CreateSavepoint, At
    <2>3. ~(\/ Switch(g) \/ Yield(g) \/ Callback(g) \/ WriteCtx(g) \/ CriticalCtx(g)
            \/ CriticalLockCtx(g) \/ SavepointCtx(g) \/ ExecuteDirect(g) \/ EndUpdate(g)
            \/ \E error \in KillErrors : Kill(g, error))
      BY Zenon, <1>0, <1>2 DEF Switch, Yield, Callback, WriteCtx, CriticalCtx, CriticalLockCtx,
         SavepointCtx, ExecuteDirect, EndUpdate, Kill, InBody
    <2>4. QED BY Zenon, <2>1, <2>2, <2>3 DEF Step, Progress
  <1>4. CASE Raise(g) \/ ExecuteScript(g) \/ Catch(g)
    <2>1. /\ UNCHANGED <<running, handler, frames, want>>
          /\ UNCHANGED pc \/ Goto(g, "raise") \/ Goto(g, "run")
      BY Zenon, <1>4 DEF Raise, ExecuteScript, Catch, lockVars, ctxVars
    <2>2. pc'[g] \in {"run", "raise"}
      BY Zenon, <1>0, <2>1 DEF Goto, LockIInv, FrameTypes
    <2>3. QED BY Zenon, <1>0, <2>1, <2>2 DEF CriticalPart, HasKind
  <1>5. CASE ExitCritical(g) \/ UnwindCritical(g)
    <2>1. Pop(g) /\ (UNCHANGED pc \/ Goto(g, "cs_exit"))
      BY Zenon, <1>5 DEF ExitCritical, UnwindCritical
    <2>2. pc'[g] \in {"run", "raise", "cs_exit"}
      BY Zenon, <1>0, <2>1 DEF Goto, LockIInv, FrameTypes
    <2>3. Len(frames'[g]) = 0
      <3>1. frames'[g] = SubSeq(frames[g], 1, Len(frames[g]) - 1)
        BY Zenon, <2>1 DEF Pop, LockIInv, FrameTypes
      <3>2. QED BY <1>0, <3>1, PopFacts
    <2>4. ~HasKind(g, "critical")'
      BY <2>3 DEF HasKind
    <2>5. QED BY Zenon, <2>2, <2>4 DEF CriticalPart
  <1>6. QED BY Zenon, <1>3, <1>4, <1>5

\* A greenlet enters a critical section only through critical_section, with the
\* handler removed and no other context open.
LEMMA CriticalEntry ==
    ASSUME CriticalBodiesRunThrough, LockIInv, NEW g \in Greenlets, CriticalPart(g), Step(g),
           ~HasKind(g, "critical")
    PROVE  CriticalPart(g)'
  <1> USE NoOneIsNoGreenlet
  <1>0. \A label \in Labels : Goto(g, label) => pc'[g] = label
    BY Zenon DEF Goto, LockIInv, FrameTypes
  <1>1. ASSUME UNCHANGED <<want, frames>>,
               \/ UNCHANGED pc
               \/ \E label \in Labels \ {"cs_enter", "wait_savepoints"} : Goto(g, label)
        PROVE  CriticalPart(g)'
    <2>1. ~HasKind(g, "critical")'
      BY Zenon, <1>1 DEF HasKind
    <2>2. QED BY Zenon, <1>0, <1>1, <2>1 DEF CriticalPart
  <1>2. ASSUME ~HasKind(g, "critical")',
               \/ UNCHANGED pc /\ pc[g] \in {"run", "raise"}
               \/ \E label \in {"run", "raise", "cs_exit", "begin"} : Goto(g, label)
        PROVE  CriticalPart(g)'
    BY Zenon, <1>0, <1>2 DEF CriticalPart, Labels
  <1>3. CASE \/ Block(g) \/ Switch(g) \/ Yield(g) \/ ExecuteScript(g) \/ Callback(g)
             \/ CallbackReturn(g) \/ Finish(g) \/ Die(g) \/ CriticalExit(g) \/ EnterSavepoint(g)
             \/ WaitTransaction(g) \/ EndUpdate(g) \/ Raise(g) \/ Catch(g) \/ Commit(g)
             \/ Rollback(g) \/ ExecuteDirect(g) \/ \E error \in KillErrors : Kill(g, error)
    BY Zenon, <1>1, <1>3 DEF Block, Switch, Yield, ExecuteScript, Callback, CallbackReturn, Finish,
       Die, CriticalExit, EnterSavepoint, WaitTransaction, EndUpdate, Raise, Catch, Commit,
       Rollback, ExecuteDirect, Kill, ctxVars, Labels
  <1>4. CASE WaitSavepoints(g)
    <2>1. Goto(g, "cs_enter") /\ UNCHANGED <<want, frames>> /\ pc[g] = "wait_savepoints"
      BY Zenon, <1>4 DEF WaitSavepoints, ctxVars, At
    <2>2. ~HasKind(g, "critical")'
      BY Zenon, <2>1 DEF HasKind
    <2>3. pc'[g] = "cs_enter" /\ want'[g] = "write"
      BY Zenon, <1>0, <2>1 DEF CriticalPart, Labels
    <2>4. QED BY Zenon, <2>2, <2>3 DEF CriticalPart
  <1>5. CASE WriteCtx(g) \/ CriticalCtx(g) \/ CriticalLockCtx(g) \/ SavepointCtx(g)
    <2>1. UNCHANGED frames
      BY Zenon, <1>5 DEF WriteCtx, CriticalCtx, CriticalLockCtx, SavepointCtx, Request
    <2>2. ~HasKind(g, "critical")'
      BY Zenon, <2>1 DEF HasKind
    <2>3. \A k \in Kinds : Request(g, k) => want'[g] = k
      BY Zenon DEF Request, LockIInv, FrameTypes
    <2>4. CASE CriticalCtx(g)
      <3>1. pc'[g] = "cs_enter" /\ frames'[g] = <<>> /\ g \in Exporters
        BY Zenon, <1>0, <2>1, <2>4 DEF CriticalCtx, InBody, CriticalBodiesRunThrough, Labels
      <3>2. QED BY Zenon, <2>2, <3>1 DEF CriticalPart
    <2>5. CASE WriteCtx(g)
      BY Zenon, <2>2, <2>3, <2>5 DEF WriteCtx, CriticalPart, Kinds
    <2>6. CASE CriticalLockCtx(g) \/ SavepointCtx(g)
      <3>1. pc'[g] \in {"cs_enter", "sp_enter"} /\ want'[g] # "critical"
        BY Zenon, <1>0, <2>3, <2>6 DEF CriticalLockCtx, SavepointCtx, Kinds, Labels
      <3>2. QED BY Zenon, <2>2, <3>1 DEF CriticalPart
    <2>7. QED BY Zenon, <1>5, <2>4, <2>5, <2>6
  <1>6. CASE CriticalEnter(g)
    <2>1. CASE want[g] = "critical"
      <3>1. /\ Push(g, "critical", "none") /\ Goto(g, "run") /\ ~handler' /\ running' = g
            /\ frames[g] = <<>> /\ g \in Exporters
        BY Zenon, <1>6, <2>1 DEF CriticalEnter, CriticalPart, At
      <3> DEFINE f == [kind |-> "critical", name |-> "none", rows |-> {}]
      <3>2. f \in Frame
        BY Zenon DEF Frame, Kinds
      <3>3. frames'[g] = Append(frames[g], f) /\ frames[g] \in Seq(Frame)
        BY Zenon, <3>1 DEF Push, LockIInv, FrameTypes
      <3>4. Len(frames'[g]) = 1
        <4> HIDE DEF f
        <4>1. QED BY <3>1, <3>2, <3>3, PushFacts, LengthFacts
      <3>5. pc'[g] = "run"
        BY Zenon, <1>0, <3>1 DEF Labels
      <3>6. QED BY Zenon, <3>1, <3>4, <3>5 DEF CriticalPart
    <2>2. CASE want[g] # "critical"
      BY Zenon, <1>1, <1>6, <2>2 DEF CriticalEnter, Labels
    <2>3. QED BY Zenon, <2>1, <2>2
  <1>7. CASE AcquireLock(g) \/ Begin(g) \/ \E name \in Names : CreateSavepoint(g, name)
    <2>1. /\ \/ UNCHANGED frames
             \/ \E k \in {"critical_lock", "write", "savepoint"}, name \in Names \union {"none"} :
                   Push(g, k, name)
          /\ \E label \in {"run", "raise", "begin"} : Goto(g, label)
      BY Zenon, <1>7 DEF AcquireLock, Begin, CreateSavepoint
    <2>2. CASE UNCHANGED frames
      <3>1. ~HasKind(g, "critical")'
        BY Zenon, <2>2 DEF HasKind
      <3>2. QED BY Zenon, <1>2, <2>1, <3>1
    <2>3. CASE \E k \in {"critical_lock", "write", "savepoint"}, name \in Names \union {"none"} :
                  Push(g, k, name)
      <3>1. ~HasKind(g, "critical")'
        BY Zenon, <2>3, PushOther DEF Kinds, LockIInv
      <3>2. QED BY Zenon, <1>2, <2>1, <3>1
    <2>4. QED BY Zenon, <2>1, <2>2, <2>3
  <1>8. CASE \/ ExitWrite(g) \/ ExitCritical(g) \/ ExitCriticalLock(g) \/ ExitSavepoint(g)
             \/ UnwindWrite(g) \/ UnwindSavepoint(g) \/ UnwindCritical(g) \/ Insert(g)
    <2>1. /\ frames[g] # <<>>
          /\ Pop(g) \/ (PopInto(g) /\ Len(frames[g]) # 1) \/ Insert(g)
          /\ \/ UNCHANGED pc /\ pc[g] \in {"run", "raise"}
             \/ \E label \in {"run", "raise", "cs_exit", "begin"} : Goto(g, label)
      BY Zenon, <1>8 DEF ExitWrite, ExitCritical, ExitCriticalLock, ExitSavepoint, UnwindWrite,
         UnwindSavepoint, UnwindCritical, Insert, InTx, TopIs, At, Outermost
    <2>2. ~HasKind(g, "critical")'
      BY Zenon, <2>1, NoNewCritical DEF LockIInv
    <2>3. QED BY Zenon, <1>2, <2>1, <2>2
  <1>9. QED
    BY Zenon, <1>3, <1>4, <1>5, <1>6, <1>7, <1>8 DEF Step, Progress

\* A critical section is never interrupted: while a greenlet that exports is inside
\* critical_section no other greenlet runs, whatever the others do on the connection,
\* if the code in the section opens no other context and does not yield.
THEOREM CriticalSectionsRunAlone ==
    ASSUME CriticalBodiesRunThrough
    PROVE  Spec => []CriticalSectionRunsAlone
  <1>1. Init => LockIInv /\ CriticalInv
    <2>1. Init => CriticalInv
      BY LengthFacts DEF Init, CriticalInv, CriticalPart, HasKind
    <2>2. QED BY Zenon, <2>1, LockInit
  <1>2. LockIInv /\ CriticalInv /\ [Next]_vars => (LockIInv /\ CriticalInv)'
    <2> SUFFICES ASSUME LockIInv, CriticalInv, [Next]_vars PROVE CriticalInv'
      BY Zenon, LockStep
    <2>1. CASE UNCHANGED vars
      BY Zenon, <2>1 DEF CriticalInv, CriticalPart, HasKind, vars, lockVars, ctxVars
    <2>2. ASSUME NEW g \in Greenlets, Step(g), NEW h \in Greenlets
          PROVE  CriticalPart(h)'
      <3>1. CASE h = g
        BY Zenon, <2>2, <3>1, CriticalBody, CriticalEntry DEF CriticalInv
      <3>2. CASE h # g
        <4>1. /\ pc'[h] = pc[h] /\ want'[h] = want[h] /\ frames'[h] = frames[h]
              /\ running \in {g, NoOne} /\ CriticalPart(h)
          BY Zenon, <2>2, <3>2, OthersStay DEF LockIInv, CriticalInv
        <4>2. ~HasKind(h, "critical")
          BY Zenon, <3>2, <4>1, NoOneIsNoGreenlet DEF CriticalPart
        <4>3. QED BY Zenon, <4>1, <4>2 DEF CriticalPart, HasKind
      <3>3. QED BY Zenon, <3>1, <3>2
    <2>3. QED BY Zenon, <2>1, <2>2 DEF Next, AllDone, CriticalInv
  <1>3. CriticalInv => CriticalSectionRunsAlone
    BY Zenon DEF CriticalInv, CriticalPart, CriticalSectionRunsAlone
  <1>4. QED BY <1>1, <1>2, <1>3, PTL DEF Spec

-----------------------------------------------------------------------------
(* write_ctx without savepoints *)

\* A stack without savepoints: a write context is on top, and only it has rows.
Shape(s) ==
    \A i \in 1..Len(s) :
        /\ s[i].kind # "savepoint"
        /\ s[i].kind = "write" => i = Len(s)
        /\ s[i].kind # "write" => s[i].rows = {}

PlainLabels == Labels \ {"wait_savepoints", "sp_enter", "sp_wait_tx", "sp_create", "rollback"}

NoSavepoints ==
    /\ marks = <<>>
    /\ savepoints = <<>>
    /\ \A g \in Greenlets : pc[g] \in PlainLabels /\ Shape(frames[g])

\* Where a greenlet with an open write context can be.
WriterPlace ==
    /\ raised \in [Greenlets -> Errors]
    /\ \A g \in Greenlets :
          TopIs(g, "write") => /\ pc[g] \in {"run", "raise", "callback"}
                               /\ pc[g] = "raise" => raised[g] = "Exception"

\* sqlite's transaction is the one of the open write context, and holds its rows.
TransactionRows ==
    /\ begun \in BOOLEAN
    /\ begun <=> \E g \in Greenlets : TopIs(g, "write")
    /\ ~begun => data = disk
    /\ \A g \in Greenlets : TopIs(g, "write") => data = disk \union Top(g).rows

StoreInv == NoSavepoints /\ WriterPlace /\ TransactionRows /\ AllOrNothing

WriteInv == LockIInv /\ StoreInv

\* Opening a context that is not a savepoint, below no write context.
LEMMA ShapePush ==
    ASSUME NEW s \in Seq(Frame), Shape(s), s # <<>> => s[Len(s)].kind # "write",
           NEW f \in Frame, f.kind # "savepoint", f.rows = {}
    PROVE  /\ Shape(Append(s, f))
           /\ Append(s, f) # <<>>
           /\ Append(s, f)[Len(Append(s, f))] = f
  <1>1. /\ Len(Append(s, f)) = Len(s) + 1 /\ Append(s, f)[Len(s) + 1] = f
        /\ \A i \in 1..Len(s) : Append(s, f)[i] = s[i]
        /\ Len(s) \in Nat
    BY PushFacts, LengthFacts
  <1>2. \A i \in 1..Len(s) : s[i].kind # "write"
    BY <1>1, LengthFacts DEF Shape
  <1>3. Shape(Append(s, f))
    BY <1>1, <1>2 DEF Shape
  <1>4. QED BY <1>1, <1>3, LengthFacts

\* Leaving a context.
LEMMA ShapePop ==
    ASSUME NEW s \in Seq(Frame), Shape(s), s # <<>>
    PROVE  LET t == SubSeq(s, 1, Len(s) - 1)
           IN  Shape(t) /\ (t # <<>> => t[Len(t)].kind # "write")
  <1> DEFINE t == SubSeq(s, 1, Len(s) - 1)
  <1>1. /\ Len(s) \in Nat \ {0} /\ t \in Seq(Frame) /\ Len(t) = Len(s) - 1
        /\ \A i \in 1..(Len(s) - 1) : t[i] = s[i]
    BY Zenon, PopFacts
  <1> HIDE DEF t
  <1>2. \A i \in 1..Len(t) : t[i] = s[i] /\ i \in 1..Len(s) /\ i # Len(s)
    BY <1>1
  <1>3. \A i \in 1..Len(t) : /\ t[i].kind \notin {"savepoint", "write"}
                             /\ t[i].rows = {}
    BY Zenon, <1>2 DEF Shape
  <1>4. t # <<>> => Len(t) \in 1..Len(t)
    BY <1>1, LengthFacts
  <1>5. Shape(t) /\ (t # <<>> => t[Len(t)].kind # "write")
    BY Zenon, <1>3, <1>4 DEF Shape
  <1>6. QED BY Zenon, <1>5 DEF t

\* Adding rows to the write context on top.
LEMMA ShapeInsert ==
    ASSUME NEW s \in Seq(Frame), Shape(s), s # <<>>, s[Len(s)].kind = "write",
           NEW r \in SUBSET Rows
    PROVE  LET t == [s EXCEPT ![Len(s)].rows = r]
           IN  /\ Shape(t) /\ t # <<>>
               /\ t[Len(t)].kind = "write"
               /\ t[Len(t)].rows = r
  <1> DEFINE n == Len(s)
             f == [s[n] EXCEPT !.rows = r]
             t == [s EXCEPT ![n] = f]
  <1>1. n \in Nat \ {0} /\ n \in 1..Len(s) /\ s[n] \in Frame
    BY PopFacts
  <1>2. f \in Frame /\ f.kind = s[n].kind /\ f.rows = r
    BY Zenon, <1>1 DEF Frame
  <1>3. [s EXCEPT ![Len(s)].rows = r] = t
    BY Zenon
  <1>4. /\ t \in Seq(Frame)
        /\ Len(t) = Len(s)
        /\ \A j \in 1..Len(s) : t[j] = IF j = n THEN f ELSE s[j]
    <2> HIDE DEF f, n
    <2>1. QED BY <1>1, <1>2, ReplaceFacts
  <1>5. Shape(t) /\ t # <<>> /\ t[Len(t)] = f
    <2> HIDE DEF f, t
    <2>1. QED BY Zenon, <1>1, <1>2, <1>4, LengthFacts DEF Shape
  <1>6. QED BY Zenon, <1>2, <1>3, <1>5

\* The rows of g's open write context, and what a step of g may do to them and to
\* the committed rows.
WriteRows(g) == IF TopIs(g, "write") THEN Top(g).rows ELSE {}

Effect(g) ==
    /\ \A h \in Greenlets \ {g} : WriteRows(h)' = WriteRows(h)
    /\ \/ /\ UNCHANGED <<disk, acked>>
          /\ \/ WriteRows(g)' \in {WriteRows(g), {}}
             \/ \E row \in Rows : WriteRows(g)' = WriteRows(g) \union {row}
       \/ /\ disk' = disk \union WriteRows(g)
          /\ acked' = acked \union WriteRows(g)
          /\ WriteRows(g)' = {}
       \/ /\ \E row \in Rows : disk' = disk \union {row} /\ acked' = acked \union {row}
          /\ WriteRows(g)' = WriteRows(g)

\* Nothing commits the transaction of another greenlet, and no GreenletExit is
\* thrown into an open write context.
WellUsed(g) ==
    /\ Commit(g) \/ ExecuteScript(g) \/ ExecuteDirect(g) => ~begun
    /\ \A error \in KillErrors :
          Kill(g, error) /\ TopIs(g, "write") => error = "Exception"

\* At most one greenlet has a write context.
LEMMA OneWriter ==
    ASSUME LockIInv, NEW g \in Greenlets, NEW h \in Greenlets,
           TopIs(g, "write"), TopIs(h, "write")
    PROVE  g = h
  <1>1. \A k \in {g, h} : Len(frames[k]) \in Locks(frames[k])
    BY PopFacts DEF LockIInv, FrameTypes, TopIs, Top, Locks, Locking
  <1>2. QED BY <1>1, Zenon DEF LockIInv, LockInv

\* Every step keeps StoreInv on a connection without savepoints that is well used.
LEMMA StoreStep ==
    ASSUME Savepointers = {}, WriteInv, NEW g \in Greenlets, Step(g), WellUsed(g)
    PROVE  StoreInv' /\ Effect(g)
  <1> USE NoOneIsNoGreenlet DEF WriteInv, StoreInv
  <1>0. FrameTypes /\ frames[g] \in Seq(Frame) /\ Shape(frames[g]) /\ pc[g] \in PlainLabels
    BY Zenon DEF LockIInv, FrameTypes, NoSavepoints
  <1> DEFINE Calm == /\ UNCHANGED <<marks, savepoints>>
                     /\ \E label \in PlainLabels : Goto(g, label)
  (* the ways an action can change the stacks and the contents *)
  <1>1. ASSUME Calm, UNCHANGED <<frames, begun, data, disk, acked>>,
               TopIs(g, "write") => /\ pc'[g] \in {"run", "raise", "callback"}
                                    /\ pc'[g] = "raise" => raised'[g] = "Exception",
               raised' \in [Greenlets -> Errors],
               \A h \in Greenlets \ {g} : raised'[h] = raised[h]
        PROVE  StoreInv' /\ Effect(g)
    <2>1. NoSavepoints'
      BY Zenon, <1>1, <1>0 DEF NoSavepoints, Goto, FrameTypes
    <2>2. WriterPlace'
      BY Zenon, <1>1, <1>0 DEF WriterPlace, TopIs, Top, Goto, FrameTypes
    <2>3. TransactionRows' /\ AllOrNothing'
      BY Zenon, <1>1 DEF TransactionRows, AllOrNothing, TopIs, Top
    <2>4. Effect(g)
      BY Zenon, <1>1 DEF Effect, WriteRows, TopIs, Top
    <2>5. QED BY Zenon, <2>1, <2>2, <2>3, <2>4
  <1>2. ASSUME Calm, UNCHANGED <<begun, data, disk, acked, raised>>, ~TopIs(g, "write"),
               NEW s \in Seq(Frame), frames' = [frames EXCEPT ![g] = s], Shape(s),
               s # <<>> => s[Len(s)].kind # "write"
        PROVE  StoreInv' /\ Effect(g)
    <2>1. NoSavepoints'
      BY Zenon, <1>2, <1>0 DEF NoSavepoints, Goto, FrameTypes
    <2>2. ~TopIs(g, "write")' /\ \A h \in Greenlets \ {g} : frames'[h] = frames[h]
      BY Zenon, <1>2, <1>0 DEF TopIs, Top, FrameTypes
    <2>3. WriterPlace'
      BY <1>2, <1>0, <2>2 DEF WriterPlace, TopIs, Top, Goto, FrameTypes
    <2>4. TransactionRows' /\ AllOrNothing'
      BY <1>2, <2>2 DEF TransactionRows, AllOrNothing, TopIs, Top
    <2>5. Effect(g)
      <3>1. \A h \in Greenlets \ {g} : WriteRows(h)' = WriteRows(h)
        BY Zenon, <2>2 DEF WriteRows, TopIs, Top
      <3>2. WriteRows(g)' = {} /\ UNCHANGED <<disk, acked>>
        BY Zenon, <1>2, <2>2 DEF WriteRows
      <3>3. QED BY Zenon, <3>1, <3>2 DEF Effect
    <2>6. QED BY Zenon, <2>1, <2>3, <2>4, <2>5
  (* actions that leave the stacks and the contents alone *)
  <1>3. CASE Block(g) \/ Switch(g) \/ Yield(g)
    <2>1. UNCHANGED <<sqlVars, lockVars, idVars, ctxVars, pc>>
      BY Zenon, <1>3 DEF Block, Switch, Yield
    <2>2. Goto(g, pc[g])
      BY Zenon, <2>1, <1>0 DEF Goto, FrameTypes
    <2>3. QED
      BY Zenon, <2>1, <2>2, <1>0, <1>1 DEF sqlVars, idVars, ctxVars, WriterPlace
  <1>4. CASE Callback(g) \/ CallbackReturn(g) \/ Raise(g) \/ Catch(g)
    <2>1. /\ UNCHANGED <<sqlVars, idVars, frames, acked>>
          /\ \E label \in {"run", "raise", "callback"} : Goto(g, label)
          /\ pc'[g] = "raise" => raised'[g] = "Exception"
          /\ raised' \in [Greenlets -> Errors]
          /\ \A h \in Greenlets \ {g} : raised'[h] = raised[h]
      <3>1. CASE Callback(g) \/ CallbackReturn(g) \/ Catch(g)
        BY Zenon, <3>1, <1>0 DEF Callback, CallbackReturn, Catch, ctxVars, Goto, FrameTypes,
           WriterPlace
      <3>2. CASE Raise(g)
        <4>1. raised' = [raised EXCEPT ![g] = "Exception"] /\ raised \in [Greenlets -> Errors]
          BY Zenon, <3>2 DEF Raise, WriterPlace
        <4>2. QED
          BY Zenon, <3>2, <4>1, <1>0 DEF Raise, Goto, FrameTypes, Errors
      <3>3. QED BY Zenon, <1>4, <3>1, <3>2
    <2>2. Calm
      BY Zenon, <2>1 DEF sqlVars, idVars, PlainLabels, Labels
    <2>3. pc'[g] \in {"run", "raise", "callback"}
      BY Zenon, <2>1, <1>0 DEF Goto, FrameTypes
    <2>4. QED
      BY <2>1, <2>2, <2>3, <1>1, Zenon DEF sqlVars
  <1>5. CASE \/ Finish(g) \/ Die(g) \/ CriticalExit(g)
             \/ WriteCtx(g) \/ CriticalCtx(g) \/ CriticalLockCtx(g)
    <2>1. ~TopIs(g, "write")
      <3>1. CASE Finish(g) \/ Die(g) \/ CriticalExit(g) \/ CriticalCtx(g) \/ CriticalLockCtx(g)
        BY Zenon, <3>1 DEF Finish, Die, CriticalExit, CriticalCtx, CriticalLockCtx, InBody,
           TopIs, At,
                    WriterPlace
      <3>2. CASE WriteCtx(g)
        <4>1. HasKind(g, "write") => TopIs(g, "savepoint")
          BY Zenon, <3>2 DEF WriteCtx
        <4>2. TopIs(g, "write") => HasKind(g, "write")
          BY <1>0, PopFacts DEF TopIs, Top, HasKind
        <4>3. QED BY Zenon, <4>1, <4>2 DEF TopIs
      <3>3. QED BY Zenon, <1>5, <3>1, <3>2
    <2>2. UNCHANGED <<sqlVars, idVars, frames, acked, raised>>
      BY Zenon, <1>5 DEF Finish, Die, CriticalExit, WriteCtx, CriticalCtx, CriticalLockCtx, Request,
                  ctxVars
    <2>3. \E label \in PlainLabels : Goto(g, label)
      BY Zenon, <1>5 DEF Finish, Die, CriticalExit, WriteCtx, CriticalCtx, CriticalLockCtx,
                  PlainLabels, Labels, NoSavepoints
    <2>4. QED
      BY Zenon, <2>1, <2>2, <2>3, <1>1 DEF sqlVars, idVars, WriterPlace
  <1>6. CASE \E error \in KillErrors : Kill(g, error)
    <2> PICK error \in KillErrors : Kill(g, error)
      BY Zenon, <1>6
    <2>1. Goto(g, "raise") /\ UNCHANGED <<sqlVars, idVars, frames, acked>>
      BY Zenon DEF Kill
    <2>2. /\ TopIs(g, "write") => raised'[g] = "Exception"
          /\ raised' \in [Greenlets -> Errors]
          /\ \A h \in Greenlets \ {g} : raised'[h] = raised[h]
      <3>1. PICK e \in Errors : /\ raised' = [raised EXCEPT ![g] = e]
                                /\ e \in {"Exception", error}
        BY BoundsAndErrors, Zenon DEF Kill, Errors
      <3>2. TopIs(g, "write") => error = "Exception"
        BY Zenon DEF Kill, WellUsed
      <3>3. QED BY Zenon, <3>1, <3>2 DEF WriterPlace
    <2>3. pc'[g] = "raise"
      BY Zenon, <2>1, <1>0 DEF Goto, FrameTypes
    <2>4. QED
      BY Zenon, <2>1, <2>2, <2>3, <1>1 DEF sqlVars, idVars, PlainLabels, Labels
  <1>7. CASE Commit(g) \/ ExecuteScript(g)
    <2>1. ~begun /\ data = disk
      BY Zenon, <1>7 DEF WellUsed, TransactionRows
    <2>2. UNCHANGED <<sqlVars, idVars, ctxVars>>
      BY <1>7, <2>1, Zenon DEF Commit, ExecuteScript, SqlCommit, sqlVars, NoSavepoints,
         TransactionRows
    <2>3. ~TopIs(g, "write")
      BY Zenon, <1>7 DEF Commit, ExecuteScript, At, WriterPlace, TopIs
    <2>4. \E label \in PlainLabels : Goto(g, label)
      BY Zenon, <1>7, <1>0 DEF Commit, ExecuteScript, Goto, PlainLabels, Labels, FrameTypes
    <2>5. QED
      BY Zenon, <2>2, <2>3, <2>4, <1>1 DEF sqlVars, idVars, ctxVars, WriterPlace
  (* actions that open or leave a context that is not a write context *)
  <1>8. CASE CriticalEnter(g) \/ AcquireLock(g)
    <2>1. ~TopIs(g, "write")
      BY <1>8, Zenon DEF CriticalEnter, AcquireLock, At, WriterPlace
    <2>2. UNCHANGED <<sqlVars, idVars, acked, raised>>
      BY Zenon, <1>8 DEF CriticalEnter, AcquireLock
    <2>3. \E label \in PlainLabels : Goto(g, label)
      BY Zenon, <1>8 DEF CriticalEnter, AcquireLock, PlainLabels, Labels
    <2>4. CASE UNCHANGED frames
      BY Zenon, <2>1, <2>2, <2>3, <2>4, <1>1 DEF sqlVars, idVars, WriterPlace
    <2>5. CASE \E kind \in {"critical", "critical_lock"} : Push(g, kind, "none")
      <3>1. PICK kind \in {"critical", "critical_lock"} : Push(g, kind, "none")
        BY Zenon, <2>5
      <3> DEFINE f == [kind |-> kind, name |-> "none", rows |-> {}]
      <3>2. f \in Frame /\ f.kind \notin {"savepoint", "write"} /\ f.rows = {}
        BY Zenon DEF Frame, Kinds
      <3>3. frames' = [frames EXCEPT ![g] = Append(frames[g], f)]
        BY Zenon, <3>1 DEF Push
      <3> HIDE DEF f
      <3>4. /\ Append(frames[g], f) \in Seq(Frame) /\ Shape(Append(frames[g], f))
            /\ Append(frames[g], f)[Len(Append(frames[g], f))].kind # "write"
        BY <1>0, <2>1, <3>2, ShapePush, PushFacts DEF TopIs, Top
      <3>5. QED
        BY <2>1, <2>2, <2>3, <3>3, <3>4, <1>2, Zenon DEF sqlVars, idVars
    <2>6. QED
      BY Zenon, <1>8, <2>4, <2>5 DEF CriticalEnter, AcquireLock
  <1>9. CASE ExitCritical(g) \/ ExitCriticalLock(g) \/ UnwindCritical(g)
    <2>1. ~TopIs(g, "write") /\ frames[g] # <<>> /\ Pop(g)
      BY Zenon, <1>9 DEF ExitCritical, ExitCriticalLock, UnwindCritical, TopIs
    <2>2. UNCHANGED <<sqlVars, idVars, acked, raised>>
      BY Zenon, <1>9 DEF ExitCritical, ExitCriticalLock, UnwindCritical
    <2>3. \E label \in PlainLabels : Goto(g, label)
      BY Zenon, <1>9, <1>0 DEF ExitCritical, ExitCriticalLock, UnwindCritical, Goto,
         PlainLabels, Labels,
                        FrameTypes
    <2>4. QED
      BY <1>0, <2>1, <2>2, <2>3, <1>2, ShapePop, PopFacts, Zenon DEF Pop, sqlVars, idVars
  (* no savepoint exists, and nobody enters one *)
  <1>10. ~ \/ WaitSavepoints(g) \/ EnterSavepoint(g) \/ WaitTransaction(g)
           \/ (\E name \in Names : CreateSavepoint(g, name))
           \/ SavepointCtx(g) \/ EndUpdate(g) \/ Rollback(g)
    BY Zenon, <1>0 DEF WaitSavepoints, EnterSavepoint, WaitTransaction, CreateSavepoint,
       SavepointCtx,
                EndUpdate, Rollback, At, PlainLabels
  <1>11. ~TopIs(g, "savepoint")
    BY <1>0, PopFacts DEF TopIs, Top, Shape
  <1>12. ~ExitSavepoint(g) /\ ~UnwindSavepoint(g)
    BY <1>11, Zenon DEF ExitSavepoint, UnwindSavepoint
  (* write contexts *)
  <1>13. CASE Begin(g)
    <2>1. Locks(frames[g]) = {} /\ transaction_lock = g
      BY <1>13, Zenon DEF Begin, At, LockIInv, LockInv
    <2>2. \A h \in Greenlets : TopIs(h, "write") => Len(frames[h]) \in Locks(frames[h])
      BY PopFacts DEF LockIInv, FrameTypes, TopIs, Top, Locks, Locking
    <2>3. \A h \in Greenlets : ~TopIs(h, "write")
      BY Zenon, <2>1, <2>2 DEF LockIInv, LockInv
    <2>4. ~begun /\ ~InTransaction /\ data = disk
      BY Zenon, <2>3 DEF TransactionRows, InTransaction, NoSavepoints
    <2>5. /\ SqlBegin /\ Push(g, "write", "none") /\ Goto(g, "run")
          /\ UNCHANGED <<raised, savepoints, acked>>
      BY Zenon, <1>13, <2>4 DEF Begin
    <2> DEFINE f == [kind |-> "write", name |-> "none", rows |-> {}]
    <2>6. f \in Frame /\ f.kind = "write" /\ f.rows = {}
      BY Zenon DEF Frame, Kinds
    <2>7. frames' = [frames EXCEPT ![g] = Append(frames[g], f)]
      BY Zenon, <2>5 DEF Push
    <2> HIDE DEF f
    <2>8. /\ Append(frames[g], f) # <<>> /\ Shape(Append(frames[g], f))
          /\ Append(frames[g], f)[Len(Append(frames[g], f))] = f
      BY Zenon, <1>0, <2>3, <2>6, ShapePush DEF TopIs, Top
    <2>9. /\ TopIs(g, "write")' /\ (Top(g).rows = {})'
          /\ \A h \in Greenlets \ {g} : ~TopIs(h, "write")'
          /\ Shape(frames'[g]) /\ \A h \in Greenlets \ {g} : frames'[h] = frames[h]
      BY Zenon, <2>3, <2>6, <2>7, <2>8, <1>0 DEF TopIs, Top, FrameTypes
    <2>10. NoSavepoints'
      BY Zenon, <2>5, <2>9, <1>0 DEF NoSavepoints, SqlBegin, Goto, FrameTypes, PlainLabels, Labels
    <2>11. WriterPlace'
      BY Zenon, <2>5, <2>9, <1>0 DEF WriterPlace, Goto, FrameTypes
    <2>12. TransactionRows' /\ AllOrNothing'
      BY Zenon, <2>4, <2>5, <2>9 DEF TransactionRows, AllOrNothing, SqlBegin
    <2>13. Effect(g)
      BY Zenon, <2>3, <2>5, <2>9 DEF Effect, WriteRows, SqlBegin
    <2>14. QED BY Zenon, <2>10, <2>11, <2>12, <2>13
  <1>14. CASE Insert(g)
    <2> DEFINE row == <<g, opened[g]>>
               r == Top(g).rows \union {row}
               t == [frames[g] EXCEPT ![Len(frames[g])].rows = r]
    <2>1. TopIs(g, "write") /\ begun /\ data = disk \union Top(g).rows
      BY Zenon, <1>14, <1>11 DEF Insert, InTx, TransactionRows
    <2>2. r \in SUBSET Rows
      <3>1. row \in Rows
        BY Zenon, <1>0 DEF FrameTypes, Rows
      <3>2. Top(g) \in Frame
        BY Zenon, <2>1, <1>0, PopFacts DEF TopIs, Top
      <3>3. QED BY Zenon, <3>1, <3>2 DEF Frame
    <2>3. frames' = [frames EXCEPT ![g] = t]
      BY Zenon, <1>14 DEF Insert, Top
    <2>4. /\ UNCHANGED <<pc, raised, acked, disk, begun, marks, savepoints>>
          /\ data' = data \union {row}
      BY Zenon, <1>14, <2>1 DEF Insert, idVars, SqlInsert, InTransaction
    <2>5. /\ data' = disk \union r
      BY Zenon, <2>1, <2>4
    <2> HIDE DEF row, r
    <2>6. Shape(t) /\ t # <<>> /\ t[Len(t)].kind = "write" /\ t[Len(t)].rows = r
      BY <1>0, <2>1, <2>2, ShapeInsert, Zenon DEF TopIs, Top
    <2> HIDE DEF t
    <2>7. /\ TopIs(g, "write")' /\ Top(g)'.rows = r /\ Shape(frames'[g])
          /\ \A h \in Greenlets \ {g} : frames'[h] = frames[h]
      BY Zenon, <2>3, <2>6, <1>0 DEF TopIs, Top, FrameTypes
    <2>8. \A h \in Greenlets \ {g} : ~TopIs(h, "write")'
      BY Zenon, <2>1, <2>7, OneWriter DEF TopIs, Top
    <2>9. NoSavepoints'
      BY Zenon, <2>4, <2>7 DEF NoSavepoints
    <2>10. WriterPlace'
      BY Zenon, <2>1, <2>4, <2>7, <2>8 DEF WriterPlace
    <2>11. TransactionRows' /\ AllOrNothing'
      BY <2>1, <2>4, <2>5, <2>7, <2>8, Zenon DEF TransactionRows, AllOrNothing
    <2>12. Effect(g)
      <3>1. row \in Rows
        BY Zenon, <1>0 DEF FrameTypes, Rows, row
      <3>2. \A h \in Greenlets \ {g} : WriteRows(h)' = WriteRows(h)
        BY Zenon, <2>7 DEF WriteRows, TopIs, Top
      <3>3. WriteRows(g)' = WriteRows(g) \union {row}
        BY Zenon, <2>1, <2>7 DEF WriteRows, r
      <3>4. QED BY Zenon, <2>4, <3>1, <3>2, <3>3 DEF Effect
    <2>13. QED BY Zenon, <2>9, <2>10, <2>11, <2>12
  <1>15. CASE ExitWrite(g) \/ UnwindWrite(g)
    <2>1. TopIs(g, "write") /\ begun /\ data = disk \union Top(g).rows
      BY Zenon, <1>15 DEF ExitWrite, UnwindWrite, TransactionRows
    <2>2. /\ begun' = FALSE /\ marks' = <<>> /\ data' = disk' /\ disk' = acked'
          /\ UNCHANGED <<raised, savepoints>> /\ Pop(g)
          /\ \E label \in PlainLabels : Goto(g, label)
      <3>1. CASE ExitWrite(g)
        BY Zenon, <3>1, <2>1 DEF ExitWrite, SqlCommit, AllOrNothing, PlainLabels, Labels
      <3>2. CASE UnwindWrite(g)
        <4>1. raised[g] = "Exception"
          BY Zenon, <3>2, <2>1 DEF UnwindWrite, At, WriterPlace
        <4>2. Goto(g, pc[g])
          BY Zenon, <3>2, <1>0 DEF UnwindWrite, Goto, FrameTypes
        <4>3. QED
          BY <3>2, <4>1, <4>2, <1>0, Zenon DEF UnwindWrite, SqlRollback, AllOrNothing
      <3>3. QED BY <1>15, <3>1, <3>2, Zenon
    <2>3. /\ Shape(frames'[g]) /\ ~TopIs(g, "write")'
          /\ \A h \in Greenlets \ {g} : frames'[h] = frames[h]
      BY <2>1, <2>2, <1>0, ShapePop, Zenon DEF Pop, TopIs, Top, FrameTypes
    <2>4. \A h \in Greenlets : ~TopIs(h, "write")'
      BY Zenon, <2>1, <2>3, OneWriter DEF TopIs, Top
    <2>5. NoSavepoints'
      BY Zenon, <2>2, <2>3, <1>0 DEF NoSavepoints, Goto, FrameTypes
    <2>6. WriterPlace'
      BY Zenon, <2>2, <2>4 DEF WriterPlace
    <2>7. TransactionRows' /\ AllOrNothing'
      BY <2>2, <2>4, Zenon DEF TransactionRows, AllOrNothing
    <2>8. Effect(g)
      <3>1. \A h \in Greenlets \ {g} : WriteRows(h)' = WriteRows(h)
        BY Zenon, <2>3 DEF WriteRows, TopIs, Top
      <3>2. WriteRows(g)' = {} /\ WriteRows(g) = Top(g).rows
        BY Zenon, <2>1, <2>3 DEF WriteRows
      <3>3. CASE ExitWrite(g)
        BY <2>1, <3>1, <3>2, <3>3, Zenon DEF Effect, ExitWrite, SqlCommit
      <3>4. CASE UnwindWrite(g)
        BY <2>1, <3>1, <3>2, <3>4, Zenon DEF Effect, UnwindWrite, SqlRollback, sqlVars
      <3>5. QED BY Zenon, <1>15, <3>3, <3>4
    <2>9. QED BY Zenon, <2>5, <2>6, <2>7, <2>8
  <1>16. CASE ExecuteDirect(g)
    <2>1. ~begun /\ data = disk /\ ~InTransaction
      BY <1>16, Zenon DEF WellUsed, TransactionRows, InTransaction, NoSavepoints
    <2>2. /\ begun' = begun /\ data' = disk' /\ disk' = acked'
          /\ UNCHANGED <<marks, raised, savepoints, frames>> /\ Goto(g, "commit")
      BY Zenon, <1>16, <2>1 DEF ExecuteDirect, SqlInsert, AllOrNothing, idVars
    <2>3. \A h \in Greenlets : ~TopIs(h, "write")'
      BY Zenon, <2>1, <2>2 DEF TransactionRows, TopIs, Top
    <2>4. NoSavepoints'
      BY Zenon, <2>2, <1>0 DEF NoSavepoints, Goto, FrameTypes, PlainLabels, Labels
    <2>5. WriterPlace'
      BY Zenon, <2>2, <2>3 DEF WriterPlace
    <2>6. TransactionRows' /\ AllOrNothing'
      BY Zenon, <2>1, <2>2, <2>3 DEF TransactionRows, AllOrNothing
    <2>7. Effect(g)
      <3>1. \A h \in Greenlets : WriteRows(h)' = WriteRows(h)
        BY Zenon, <2>2 DEF WriteRows, TopIs, Top
      <3>2. opened[g] \in 0..MaxOpened /\ opened[g] < MaxOpened
        BY Zenon, <1>16, <1>0 DEF ExecuteDirect, FrameTypes
      <3>3. opened[g] + 1 \in 0..MaxOpened
        BY <3>2, BoundsAndErrors
      <3> DEFINE row == <<g, opened[g] + 1>>
      <3>4. row \in Rows
        BY Zenon, <3>3 DEF Rows
      <3>5. disk' = disk \union {row} /\ acked' = acked \union {row}
        BY Zenon, <1>16, <2>1 DEF ExecuteDirect, SqlInsert
      <3> HIDE DEF row
      <3>6. QED BY Zenon, <3>1, <3>4, <3>5 DEF Effect
    <2>8. QED BY Zenon, <2>4, <2>5, <2>6, <2>7
  <1>17. QED
    BY <1>3, <1>4, <1>5, <1>6, <1>7, <1>8, <1>9, <1>10, <1>12, <1>13, <1>14, <1>15, <1>16, Zenon
       DEF Step, Progress

\* The invariant holds when the connection is created.
LEMMA WriteInit == Init => WriteInv
  <1> SUFFICES ASSUME Init PROVE WriteInv
    BY Zenon
  <1>1. NoSavepoints
    BY DEF Init, SqlInit, NoSavepoints, Shape, PlainLabels, Labels
  <1>2. WriterPlace
    BY Zenon DEF Init, WriterPlace, TopIs, Errors
  <1>3. TransactionRows /\ AllOrNothing
    BY Zenon DEF Init, SqlInit, TransactionRows, AllOrNothing, TopIs
  <1>4. QED BY Zenon, <1>1, <1>2, <1>3, LockInit DEF WriteInv, StoreInv

\* StoreStep for a step of the whole system.
LEMMA WriteStep ==
    ASSUME Savepointers = {}, WriteInv, [Next]_vars, \A g \in Greenlets : WellUsed(g)
    PROVE  WriteInv'
  <1>1. LockIInv'
    BY Zenon, LockStep DEF WriteInv
  <1>2. CASE \E g \in Greenlets : Step(g)
    BY Zenon, <1>1, <1>2, StoreStep DEF WriteInv
  <1>3. CASE UNCHANGED vars
    <2>1. UNCHANGED <<begun, marks, data, disk, savepoints, pc, raised, frames, acked>>
      BY Zenon, <1>3 DEF vars, sqlVars, idVars, ctxVars
    <2>2. StoreInv'
      BY Zenon, <2>1 DEF WriteInv, StoreInv, NoSavepoints, WriterPlace, TransactionRows,
         AllOrNothing,
                  TopIs, Top
    <2>3. QED BY Zenon, <1>1, <2>2 DEF WriteInv
  <1>4. QED BY Zenon, <1>2, <1>3 DEF Next, AllDone

\* All the rows of a greenlet's open contexts are those of its write context.
LEMMA OpenRowsAre ==
    LockIInv /\ NoSavepoints => \A g \in Greenlets : OpenRows(g) = WriteRows(g)
  <1> SUFFICES ASSUME LockIInv, NoSavepoints, NEW g \in Greenlets
               PROVE  OpenRows(g) = WriteRows(g)
    BY Zenon
  <1> DEFINE s == frames[g]
             n == Len(s)
  <1>1. s \in Seq(Frame) /\ Shape(s) /\ (s # <<>> => n \in 1..n)
    BY PopFacts DEF NoSavepoints, LockIInv, FrameTypes
  <1>2. CASE TopIs(g, "write")
    <2>1. n \in 1..n /\ \A i \in 1..n : i # n => s[i].rows = {}
      BY Zenon, <1>1, <1>2 DEF TopIs, Shape
    <2>2. QED
      BY <1>2, <2>1, Zenon DEF OpenRows, WriteRows, Top
  <1>3. CASE ~TopIs(g, "write")
    <2>1. \A i \in 1..n : s[i].rows = {}
      BY <1>1, <1>3, LengthFacts DEF TopIs, Top, Shape
    <2>2. QED
      BY Zenon, <1>3, <2>1 DEF OpenRows, WriteRows
  <1>4. QED BY Zenon, <1>2, <1>3

\* What the invariant says about the rows of the open contexts.
LEMMA WriteConsequences ==
    ASSUME WriteInv
    PROVE  AllOrNothing /\ NoStrayRows /\ BeginSucceeds
  <1> USE DEF WriteInv, StoreInv
  <1>1. \A g \in Greenlets : OpenRows(g) = WriteRows(g)
    BY Zenon, OpenRowsAre
  <1>2. NoStrayRows
    <2>1. CASE \E g \in Greenlets : TopIs(g, "write")
      <3>1. PICK g \in Greenlets : TopIs(g, "write")
        BY Zenon, <2>1
      <3>2. \A h \in Greenlets : h # g => OpenRows(h) = {}
        BY Zenon, <1>1, <3>1, OneWriter DEF WriteRows
      <3>3. OpenRows(g) = Top(g).rows
        BY Zenon, <1>1, <3>1 DEF WriteRows
      <3>4. UNION {OpenRows(h) : h \in Greenlets} = Top(g).rows
        BY Zenon, <3>2, <3>3
      <3>5. QED BY Zenon, <3>1, <3>4 DEF NoStrayRows, TransactionRows
    <2>2. CASE ~\E g \in Greenlets : TopIs(g, "write")
      <3>1. UNION {OpenRows(h) : h \in Greenlets} = {}
        BY Zenon, <1>1, <2>2 DEF WriteRows
      <3>2. QED BY Zenon, <2>2, <3>1 DEF NoStrayRows, TransactionRows
    <2>3. QED BY Zenon, <2>1, <2>2
  <1>3. BeginSucceeds
    <2> SUFFICES ASSUME NEW g \in Greenlets, pc[g] = "begin" PROVE ~InTransaction
      BY Zenon DEF BeginSucceeds
    <2>1. Locks(frames[g]) = {} /\ transaction_lock = g
      BY Zenon DEF LockIInv, LockInv
    <2>2. \A h \in Greenlets : TopIs(h, "write") => Len(frames[h]) \in Locks(frames[h])
      BY PopFacts DEF LockIInv, FrameTypes, TopIs, Top, Locks, Locking
    <2>3. \A h \in Greenlets : ~TopIs(h, "write")
      BY Zenon, <2>1, <2>2 DEF LockIInv, LockInv
    <2>4. QED BY Zenon, <2>3 DEF TransactionRows, InTransaction, NoSavepoints
  <1>4. QED BY Zenon, <1>2, <1>3

\* Every well-used step is a step of TransactionalStore.
LEMMA RefinesStep ==
    ASSUME Savepointers = {}, WriteInv, WriteInv', [Next]_vars,
           \A g \in Greenlets : WellUsed(g)
    PROVE  [Store!StoreNext]_(Store!storeVars)
  <1> DEFINE open == [g \in Greenlets |-> OpenRows(g)]
  <1>1. \A g \in Greenlets : OpenRows(g) = WriteRows(g) /\ OpenRows(g)' = WriteRows(g)'
    <2>1. LockIInv /\ NoSavepoints /\ LockIInv' /\ NoSavepoints'
      BY Zenon DEF WriteInv, StoreInv
    <2>2. (LockIInv /\ NoSavepoints)' => (\A g \in Greenlets : OpenRows(g) = WriteRows(g))'
      BY OpenRowsAre, PTL
    <2>3. QED BY Zenon, <2>1, <2>2, OpenRowsAre
  <1>2. CASE UNCHANGED vars
    BY Zenon, <1>2 DEF vars, sqlVars, ctxVars, Store!storeVars, OpenRows
  <1>3. ASSUME NEW g \in Greenlets, Step(g) PROVE [Store!StoreNext]_(Store!storeVars)
    <2>1. Effect(g)
      BY Zenon, <1>3, StoreStep
    <2>2. \A h \in Greenlets \ {g} : OpenRows(h)' = OpenRows(h)
      BY Zenon, <2>1, <1>1 DEF Effect
    <2>3. \A kept : OpenRows(g)' = kept => open' = [open EXCEPT ![g] = kept]
      BY <2>2, Zenon
    <2>4. OpenRows(g)' = OpenRows(g) => open' = open
      BY Zenon, <2>2
    <2>5. CASE UNCHANGED <<disk, acked>> /\ OpenRows(g)' = OpenRows(g)
      BY Zenon, <2>4, <2>5 DEF Store!storeVars
    <2>6. CASE UNCHANGED <<disk, acked>> /\ OpenRows(g)' = {}
      <3>1. Store!Discard(g)
        BY <2>3, <2>6, Zenon DEF Store!Discard
      <3>2. QED BY Zenon, <3>1 DEF Store!StoreNext
    <2>7. CASE /\ UNCHANGED <<disk, acked>>
               /\ \E row \in Rows : OpenRows(g)' = OpenRows(g) \union {row}
      <3>1. PICK row \in Rows : OpenRows(g)' = OpenRows(g) \union {row}
        BY Zenon, <2>7
      <3>2. Store!Write(g, row)
        BY Zenon, <2>3, <2>7, <3>1 DEF Store!Write
      <3>3. QED BY Zenon, <3>2 DEF Store!StoreNext
    <2>8. CASE /\ disk' = disk \union OpenRows(g)
               /\ acked' = acked \union OpenRows(g)
               /\ OpenRows(g)' = {}
      <3>1. Store!CommitContext(g)
        BY Zenon, <2>3, <2>8 DEF Store!CommitContext
      <3>2. QED BY Zenon, <3>1 DEF Store!StoreNext
    <2>9. CASE /\ \E row \in Rows : disk' = disk \union {row} /\ acked' = acked \union {row}
               /\ OpenRows(g)' = OpenRows(g)
      <3>1. PICK row \in Rows : disk' = disk \union {row} /\ acked' = acked \union {row}
        BY Zenon, <2>9
      <3>2. Store!AutoCommit(g, row)
        BY Zenon, <2>4, <2>9, <3>1 DEF Store!AutoCommit
      <3>3. QED BY Zenon, <3>2 DEF Store!StoreNext
    <2>10. QED
      BY Zenon, <2>1, <1>1, <2>5, <2>6, <2>7, <2>8, <2>9 DEF Effect
  <1>4. QED BY Zenon, <1>2, <1>3 DEF Next, AllDone
-----------------------------------------------------------------------------
(* A connection whose contexts may yield anywhere *)

\* No savepoints, no commit() and no executescript() outside of the contexts, and
\* kills with ordinary exceptions only.
OnlyWriteContexts ==
    /\ Savepointers = {}
    /\ Exporters = {}
    /\ Committers = {}
    /\ KillErrors \subseteq {"Exception"}

\* Nobody is at conn.commit().
NoCommit == \A g \in Greenlets : pc[g] # "commit"

\* Only ExecuteDirect and EndUpdate lead to conn.commit().
LEMMA NoCommitStep ==
    ASSUME OnlyWriteContexts, FrameTypes, NoCommit, [Next]_vars
    PROVE  NoCommit'
  <1>1. CASE UNCHANGED vars
    BY Zenon, <1>1 DEF vars, NoCommit
  <1>2. ASSUME NEW g \in Greenlets, Step(g) PROVE NoCommit'
    <2>1. UNCHANGED pc \/ \E label \in Labels \ {"commit"} : Goto(g, label)
      BY <1>2, Zenon DEF OnlyWriteContexts, Step, Progress, Block, Switch, Yield, ExecuteScript,
         Callback,
         CallbackReturn, Finish, Die, CriticalExit, WaitSavepoints, EnterSavepoint,
         WaitTransaction, EndUpdate, Raise, Catch, Commit, Rollback, Kill, WriteCtx, CriticalCtx,
         CriticalLockCtx, SavepointCtx, ExecuteDirect, CriticalEnter, AcquireLock, Begin,
         CreateSavepoint, Insert, ExitWrite, ExitCritical, ExitCriticalLock, ExitSavepoint,
         UnwindWrite, UnwindSavepoint, UnwindCritical, Labels
    <2>2. QED BY Zenon, <2>1 DEF NoCommit, Goto, FrameTypes
  <1>3. QED BY Zenon, <1>1, <1>2 DEF Next, AllDone

\* Such a connection is well used.
LEMMA OnlyWriteContextsWellUsed ==
    ASSUME OnlyWriteContexts, NoCommit, NEW g \in Greenlets
    PROVE  WellUsed(g)
  BY Zenon DEF OnlyWriteContexts, NoCommit, WellUsed, Commit, At, ExecuteScript, ExecuteDirect

YieldInv == WriteInv /\ NoCommit

\* YieldInv is inductive.
LEMMA YieldInvariant == ASSUME OnlyWriteContexts PROVE Spec => []YieldInv
  <1>1. Init => YieldInv
    BY Zenon, WriteInit DEF YieldInv, NoCommit, Init
  <1>2. YieldInv /\ [Next]_vars => YieldInv'
    BY Zenon, WriteStep, NoCommitStep, OnlyWriteContextsWellUsed
       DEF YieldInv, OnlyWriteContexts, WriteInv, LockIInv
  <1>3. QED BY <1>1, <1>2, PTL DEF Spec

\* Although greenlets switch in the middle of write contexts, the database holds
\* exactly the contexts that were left normally: none in part, none that raised.
THEOREM YieldingWritesAreAtomic ==
    ASSUME OnlyWriteContexts PROVE Spec => []AllOrNothing
  BY YieldInvariant, WriteConsequences, PTL DEF YieldInv

\* The rows on the connection are the committed ones and those of open contexts.
THEOREM YieldingWritesLeaveNothing ==
    ASSUME OnlyWriteContexts PROVE Spec => []NoStrayRows
  BY YieldInvariant, WriteConsequences, PTL DEF YieldInv

\* BEGIN TRANSACTION never fails with "cannot start a transaction within a
\* transaction".
THEOREM YieldingBeginSucceeds ==
    ASSUME OnlyWriteContexts PROVE Spec => []BeginSucceeds
  BY YieldInvariant, WriteConsequences, PTL DEF YieldInv

\* write_ctx implements the atomic contexts of TransactionalStore, however the
\* greenlets switch.
THEOREM YieldingWritesRefineStore ==
    ASSUME OnlyWriteContexts PROVE Spec => ActsAsTransactionalStore
  <1>1. Init => Store!StoreInit
    BY DEF Init, SqlInit, Store!StoreInit, OpenRows
  <1>2. YieldInv /\ YieldInv' /\ [Next]_vars => [Store!StoreNext]_(Store!storeVars)
    BY Zenon, RefinesStep, OnlyWriteContextsWellUsed DEF YieldInv, OnlyWriteContexts
  <1>3. QED
    BY YieldInvariant, <1>1, <1>2, PTL DEF Spec, ActsAsTransactionalStore, Store!StoreSpec
-----------------------------------------------------------------------------
(* A connection whose context bodies do not yield (the user database) *)

\* No savepoints, and only sqlite's callback or the driver itself switches greenlets.
BodiesRunThrough == Savepointers = {} /\ Yielders = {}

Busy(g) == Locks(frames[g]) # {} \/ pc[g] \in {"lock", "begin"}

\* Who is inside a locking context, or entering one, runs alone: the handler is
\* removed and nobody is inside the callback.
RunsAlone ==
    /\ handler \in BOOLEAN
    /\ running \in OwnerOrNoOne
    /\ \A g \in Greenlets :
          /\ Busy(g) => running = g /\ ~handler /\ in_callback = NoOne
          /\ Locks(frames[g]) \subseteq {Len(frames[g])}
          /\ Locks(frames[g]) # {} => pc[g] \in {"run", "raise"}
          /\ transaction_lock = g => Locks(frames[g]) # {} \/ pc[g] = "begin"

\* The stack of g after one more context is opened.
LEMMA LockTop ==
    ASSUME FrameTypes, NEW g \in Greenlets, NEW kind \in Kinds, Push(g, kind, "none"),
           Locks(frames[g]) = {}
    PROVE  \E s \in Seq(Frame) : /\ frames' = [frames EXCEPT ![g] = s]
                                 /\ Locks(s) \subseteq {Len(s)}
                                 /\ Locks(s) # {} <=> kind \in Locking
  <1> DEFINE f == [kind |-> kind, name |-> "none", rows |-> {}]
  <1>1. f \in Frame /\ f.kind = kind
    BY Zenon DEF Frame
  <1>2. frames' = [frames EXCEPT ![g] = Append(frames[g], f)] /\ frames[g] \in Seq(Frame)
    BY Zenon DEF Push, FrameTypes
  <1> HIDE DEF f
  <1> DEFINE s == Append(frames[g], f)
  <1>3. s \in Seq(Frame) /\ Len(s) = Len(frames[g]) + 1
    BY <1>1, <1>2, PushFacts
  <1>4. /\ kind \notin Locking => Locks(s) = {}
        /\ kind \in Locking => Locks(s) = {Len(frames[g]) + 1}
    BY Zenon, <1>1, <1>2, LocksPush
  <1> HIDE DEF s
  <1>5. Locks(s) \subseteq {Len(s)} /\ (Locks(s) # {} <=> kind \in Locking)
    BY <1>3, <1>4, Zenon
  <1>6. QED
    BY <1>2, <1>3, <1>5, Zenon DEF s

\* Every step keeps RunsAlone when no body yields.
LEMMA RunsAloneStep ==
    ASSUME BodiesRunThrough, WriteInv, RunsAlone, NEW g \in Greenlets, Step(g)
    PROVE  RunsAlone'
  <1>0. /\ FrameTypes /\ frames[g] \in Seq(Frame) /\ Shape(frames[g]) /\ pc[g] \in PlainLabels
        /\ LockInv
    BY Zenon DEF WriteInv, StoreInv, LockIInv, FrameTypes, NoSavepoints
  <1>1. frames[g] # <<>> /\ Top(g).kind \notin Locking => Locks(frames[g]) = {}
    BY <1>0, Zenon DEF RunsAlone, Locks, Top
  <1>2. ~TopIs(g, "savepoint")
    BY <1>0, PopFacts DEF TopIs, Top, Shape
  <1>3. frames[g] = <<>> => Locks(frames[g]) = {}
    BY DEF Locks
  <1>4. /\ pc[g] = "lock" => transaction_lock = NoOne
        /\ running = g => \A h \in Greenlets \ {g} : ~Busy(h)
        /\ running = NoOne => \A h \in Greenlets : ~Busy(h)
    <2>1. \A h \in Greenlets : Busy(h) => running = h
      BY Zenon DEF RunsAlone
    <2>2. \A h \in Greenlets : transaction_lock = h => Busy(h)
      BY Zenon DEF RunsAlone, Busy
    <2>3. ASSUME pc[g] = "lock" PROVE transaction_lock = NoOne
      <3>1. Locks(frames[g]) = {} /\ transaction_lock # g
        BY Zenon, <2>3 DEF RunsAlone
      <3>2. Busy(g) /\ transaction_lock \in Greenlets \union {NoOne}
        BY Zenon, <1>0, <2>3 DEF Busy, FrameTypes, OwnerOrNoOne
      <3>3. QED BY Zenon, <3>1, <3>2, <2>1, <2>2
    <2>4. NoOne \notin Greenlets
      BY Zenon, RolesAssumption
    <2>5. QED BY Zenon, <2>1, <2>3, <2>4
  (* actions that keep the stacks and the lock *)
  <1>5. ASSUME UNCHANGED <<frames, transaction_lock>>,
               \E label \in Labels : Goto(g, label),
               Busy(g)' => running' = g /\ ~handler' /\ in_callback' = NoOne,
               Locks(frames[g]) # {} => pc'[g] \in {"run", "raise"},
               pc[g] = "begin" => pc'[g] = "begin",
               \A h \in Greenlets \ {g} : ~Busy(h),
               handler' \in BOOLEAN, running' \in OwnerOrNoOne
        PROVE  RunsAlone'
    <2>1. \A h \in Greenlets \ {g} : ~Busy(h)' /\ pc'[h] = pc[h]
      BY Zenon, <1>0, <1>5 DEF Busy, Goto, FrameTypes
    <2>2. QED
      BY <1>0, <1>5, <2>1, Zenon DEF RunsAlone, Busy
  <1>6. CASE Block(g) \/ Switch(g) \/ Yield(g)
    <2>1. /\ UNCHANGED <<frames, transaction_lock, handler, in_callback, pc>>
          /\ running' \in OwnerOrNoOne /\ Goto(g, pc[g])
      BY Zenon, <1>6, <1>0 DEF Block, Switch, Yield, lockVars, ctxVars, OwnerOrNoOne, Goto,
         FrameTypes
    <2>2. ~Busy(g)
      <3>1. CASE Switch(g)
        BY Zenon, <3>1, <1>4 DEF Switch
      <3>2. CASE Yield(g)
        BY <3>2, <1>3, Zenon DEF Yield, At, InBody, BodiesRunThrough, Busy
      <3>3. CASE Block(g)
        BY <3>3, <1>0, <1>4, Zenon DEF Block, Blocked, Busy, RunsAlone, PlainLabels
      <3>4. QED BY Zenon, <1>6, <3>1, <3>2, <3>3
    <2>3. \A h \in Greenlets \ {g} : ~Busy(h)
      BY Zenon, <1>6, <1>4 DEF Block, Switch, Yield, At
    <2>4. ~Busy(g)'
      BY <2>1, <2>2, Zenon DEF Busy
    <2>5. QED
      BY Zenon, <1>0, <1>5, <2>1, <2>2, <2>3, <2>4 DEF RunsAlone, FrameTypes
  <1>7. CASE Callback(g) \/ \E error \in KillErrors : Kill(g, error)
    <2>1. ~Busy(g) /\ \A h \in Greenlets \ {g} : ~Busy(h)
      BY <1>7, <1>4, Zenon DEF Callback, Kill, At, RunsAlone
    <2>2. /\ UNCHANGED <<frames, transaction_lock, handler>>
          /\ \E label \in {"callback", "raise"} : Goto(g, label)
          /\ running' \in OwnerOrNoOne
      BY <1>7, Zenon DEF Callback, Kill, ctxVars, OwnerOrNoOne
    <2>3. pc'[g] \in {"callback", "raise"}
      BY Zenon, <2>2, <1>0 DEF Goto, FrameTypes
    <2>4. ~Busy(g)'
      BY <2>1, <2>2, <2>3, Zenon DEF Busy
    <2>5. QED
      BY <1>5, <2>1, <2>2, <2>3, <2>4, Zenon DEF RunsAlone, Busy, Labels
  <1>8. ASSUME running = g, UNCHANGED running,
               UNCHANGED frames, UNCHANGED transaction_lock, pc[g] # "begin",
               NEW label \in Labels, Goto(g, label),
               handler' \in BOOLEAN,
               \/ label = "raise" /\ UNCHANGED <<handler, in_callback>>
               \/ label = "run" /\ UNCHANGED <<handler, in_callback>>
               \/ Locks(frames[g]) = {} /\ label \notin {"lock", "begin"}
               \/ Locks(frames[g]) = {} /\ ~handler' /\ in_callback' = NoOne /\ label # "begin"
        PROVE  RunsAlone'
    <2>1. pc'[g] = label
      BY Zenon, <1>0, <1>8 DEF Goto, FrameTypes
    <2>2. \A h \in Greenlets \ {g} : ~Busy(h)
      BY <1>4, <1>8, Zenon
    <2>3. Busy(g)' => running' = g /\ ~handler' /\ in_callback' = NoOne
      BY <1>8, <2>1, Zenon DEF Busy, RunsAlone
    <2>4. Locks(frames[g]) # {} => pc'[g] \in {"run", "raise"}
      BY Zenon, <1>8, <2>1
    <2>5. QED
      BY <1>5, <1>8, <2>2, <2>3, <2>4, Zenon DEF RunsAlone
  <1>9. CASE CallbackReturn(g) \/ Raise(g) \/ Catch(g)
    <2>1. /\ running = g /\ UNCHANGED <<running, frames, transaction_lock, handler>>
          /\ pc[g] # "begin"
      BY Zenon, <1>9 DEF CallbackReturn, Raise, Catch, At, lockVars, ctxVars
    <2>2. CASE CallbackReturn(g)
      BY <1>8, <2>1, <2>2, Zenon DEF CallbackReturn, At, RunsAlone, Labels
    <2>3. CASE Raise(g)
      BY <1>8, <2>1, <2>3, Zenon DEF Raise, RunsAlone, Labels, lockVars
    <2>4. CASE Catch(g)
      BY <1>8, <2>1, <2>4, Zenon DEF Catch, RunsAlone, Labels, lockVars
    <2>5. QED BY Zenon, <1>9, <2>2, <2>3, <2>4
  <1>10. CASE Finish(g) \/ Die(g)
    <2>1. /\ running = g /\ UNCHANGED <<frames, transaction_lock, handler, in_callback>>
          /\ pc[g] # "begin" /\ Locks(frames[g]) = {} /\ Goto(g, "done")
          /\ running' = NoOne
      BY <1>10, <1>3, Zenon DEF Finish, Die, At, InBody, lockVars, ctxVars
    <2>2. pc'[g] = "done" /\ ~Busy(g)'
      BY Zenon, <2>1, <1>0 DEF Goto, FrameTypes, Busy
    <2>3. QED
      BY <1>4, <1>5, <2>1, <2>2, Zenon DEF RunsAlone, Labels, OwnerOrNoOne
  <1>11. CASE WriteCtx(g) \/ CriticalCtx(g) \/ CriticalLockCtx(g)
    <2>1. Locks(frames[g]) = {}
      <3>1. CASE WriteCtx(g)
        <4>1. ~HasKind(g, "write") /\ ~HasKind(g, "critical_lock")
          BY Zenon, <3>1, <1>2 DEF WriteCtx
        <4>2. QED BY Zenon, <4>1 DEF HasKind, Locks, Locking
      <3>2. CASE CriticalCtx(g) \/ CriticalLockCtx(g)
        BY Zenon, <3>2, <1>3 DEF CriticalCtx, CriticalLockCtx, InBody
      <3>3. QED BY Zenon, <1>11, <3>1, <3>2
    <2>2. /\ running = g /\ UNCHANGED <<running, frames, transaction_lock, handler, in_callback>>
          /\ pc[g] # "begin"
      BY <1>11, Zenon DEF WriteCtx, CriticalCtx, CriticalLockCtx, Request, At, lockVars
    <2>3. Goto(g, "cs_enter")
      BY <1>11, Zenon DEF WriteCtx, CriticalCtx, CriticalLockCtx, WriteInv, StoreInv, NoSavepoints
    <2>4. QED
      BY <1>8, <2>1, <2>2, <2>3, Zenon DEF RunsAlone, Labels
  <1>12. CASE CriticalExit(g) \/ Commit(g) \/ ExecuteDirect(g)
    <2>1. Locks(frames[g]) = {}
      BY <1>12, <1>3, Zenon DEF CriticalExit, Commit, ExecuteDirect, At, InBody, RunsAlone
    <2>2. /\ running = g /\ UNCHANGED <<running, frames, transaction_lock>>
          /\ pc[g] # "begin" /\ handler' \in BOOLEAN
          /\ \E label \in {"run", "commit"} : Goto(g, label)
      BY <1>12, Zenon DEF CriticalExit, Commit, ExecuteDirect, At, lockVars, ctxVars, RunsAlone
    <2>3. QED
      BY <1>8, <2>1, <2>2, Zenon DEF Labels
  <1>13. CASE Insert(g)
    <2>1. PICK s \in Seq(Frame) : /\ frames' = [frames EXCEPT ![g] = s]
                                  /\ Locks(s) = Locks(frames[g])
      BY Zenon, <1>13, <1>0, InsertEffect
    <2>2. /\ UNCHANGED <<lockVars, running, pc>> /\ running = g
      BY Zenon, <1>13 DEF Insert, At
    <2>3. TopIs(g, "write") /\ Len(s) = Len(frames[g])
      BY <1>13, <1>2, <2>1, <1>0 DEF Insert, InTx, FrameTypes, TopIs, Top
    <2>4. QED
      BY <2>1, <2>2, <2>3, <1>0, Zenon DEF RunsAlone, Busy, lockVars, FrameTypes
  <1>14. CASE ExecuteScript(g)
    BY <1>14, Zenon DEF ExecuteScript, RunsAlone, Busy, lockVars, ctxVars
  (* actions that open a context *)
  <1>15. CASE CriticalEnter(g) \/ AcquireLock(g) \/ Begin(g)
    <2>1. /\ running = g /\ UNCHANGED running /\ Locks(frames[g]) = {}
          /\ \A h \in Greenlets \ {g} : ~Busy(h)
      BY <1>15, <1>4, Zenon DEF CriticalEnter, AcquireLock, Begin, At, RunsAlone
    <2>2. handler' = FALSE /\ in_callback' = NoOne
      BY <1>15, Zenon DEF CriticalEnter, AcquireLock, Begin, At, RunsAlone, Busy
    <2>3. \/ UNCHANGED transaction_lock
          \/ transaction_lock' = g \/ transaction_lock' = NoOne
      BY Zenon, <1>15 DEF CriticalEnter, AcquireLock, Begin
    <2>4. \A h \in Greenlets \ {g} : transaction_lock' # h
      BY <2>1, <2>3, NoOneIsNoGreenlet, Zenon DEF RunsAlone, Busy
    <2>5. ASSUME NEW s \in Seq(Frame), frames' = [frames EXCEPT ![g] = s],
                 Locks(s) \subseteq {Len(s)}, NEW label \in Labels, Goto(g, label),
                 Locks(s) # {} => label = "run",
                 transaction_lock' = g => Locks(s) # {} \/ label = "begin"
          PROVE  RunsAlone'
      <3>1. /\ pc'[g] = label /\ frames'[g] = s
            /\ \A h \in Greenlets \ {g} : pc'[h] = pc[h] /\ frames'[h] = frames[h]
        BY Zenon, <2>5, <1>0 DEF Goto, FrameTypes
      <3>2. \A h \in Greenlets \ {g} : ~Busy(h)' /\ Locks(frames'[h]) = {}
        BY <3>1, <2>1, Zenon DEF Busy
      <3>3. /\ handler' \in BOOLEAN /\ running' \in OwnerOrNoOne
            /\ running' = g /\ ~handler' /\ in_callback' = NoOne
        BY <2>1, <2>2, Zenon DEF RunsAlone
      <3>4. QED
        BY <2>4, <2>5, <3>1, <3>2, <3>3, Zenon DEF RunsAlone
    <2>6. frames' = frames => frames' = [frames EXCEPT ![g] = frames[g]]
      BY Zenon, <1>0 DEF FrameTypes
    <2>7. pc[g] # "begin" => transaction_lock # g
      BY <2>1, Zenon DEF RunsAlone
    <2>8. CASE CriticalEnter(g)
      <3>1. UNCHANGED transaction_lock /\ transaction_lock # g
        BY Zenon, <2>7, <2>8 DEF CriticalEnter, At
      <3>2. CASE Push(g, "critical", "none") /\ Goto(g, "run")
        <4>1. PICK s \in Seq(Frame) : /\ frames' = [frames EXCEPT ![g] = s]
                                      /\ Locks(s) = {}
          BY <3>2, <2>1, <1>0, LockTop, Zenon DEF Kinds, Locking
        <4>2. QED BY <2>5, <3>1, <3>2, <4>1, Zenon DEF Labels
      <3>3. CASE UNCHANGED frames /\ Goto(g, "lock")
        BY Zenon, <1>0, <2>1, <2>5, <2>6, <3>1, <3>3 DEF Labels
      <3>4. QED BY Zenon, <2>8, <3>2, <3>3 DEF CriticalEnter
    <2>9. CASE AcquireLock(g)
      <3>1. CASE Push(g, "critical_lock", "none") /\ Goto(g, "run")
        <4>1. PICK s \in Seq(Frame) : /\ frames' = [frames EXCEPT ![g] = s]
                                      /\ Locks(s) \subseteq {Len(s)} /\ Locks(s) # {}
          BY <3>1, <2>1, <1>0, LockTop, Zenon DEF Kinds, Locking
        <4>2. QED BY <2>5, <3>1, <4>1, Zenon DEF Labels
      <3>2. CASE UNCHANGED frames /\ Goto(g, "begin")
        BY Zenon, <1>0, <2>1, <2>5, <2>6, <3>2 DEF Labels
      <3>3. QED BY Zenon, <2>9, <3>1, <3>2 DEF AcquireLock
    <2>10. CASE Begin(g)
      <3>1. CASE Push(g, "write", "none") /\ Goto(g, "run")
        <4>1. PICK s \in Seq(Frame) : /\ frames' = [frames EXCEPT ![g] = s]
                                      /\ Locks(s) \subseteq {Len(s)} /\ Locks(s) # {}
          BY <3>1, <2>1, <1>0, LockTop, Zenon DEF Kinds, Locking
        <4>2. QED BY <2>5, <3>1, <4>1, Zenon DEF Labels
      <3>2. CASE UNCHANGED frames /\ Goto(g, "raise") /\ transaction_lock' = NoOne
        BY Zenon, <1>0, <2>1, <2>5, <2>6, <3>2, NoOneIsNoGreenlet DEF Labels
      <3>3. QED BY Zenon, <2>10, <3>1, <3>2 DEF Begin
    <2>11. QED BY Zenon, <1>15, <2>8, <2>9, <2>10
  (* actions that leave a context *)
  <1>16. CASE ExitWrite(g) \/ ExitCritical(g) \/ ExitCriticalLock(g)
              \/ UnwindWrite(g) \/ UnwindCritical(g)
    <2>1. /\ running = g /\ frames[g] # <<>> /\ Pop(g)
          /\ UNCHANGED <<running, handler, in_callback>>
          /\ \E label \in {"cs_exit", "raise"} : Goto(g, label)
          /\ transaction_lock' \in {transaction_lock, NoOne}
          /\ Top(g).kind \in Locking => transaction_lock' = NoOne
      <3>1. CASE ExitWrite(g) \/ ExitCritical(g) \/ ExitCriticalLock(g)
        BY <3>1, Zenon DEF ExitWrite, ExitCritical, ExitCriticalLock, At, TopIs, lockVars, Locking
      <3>2. CASE UnwindWrite(g) \/ UnwindCritical(g)
        <4>1. Goto(g, "raise")
          BY Zenon, <3>2, <1>0 DEF UnwindWrite, UnwindCritical, At, Goto, FrameTypes
        <4>2. QED
          BY <3>2, <4>1, Zenon DEF UnwindWrite, UnwindCritical, At, TopIs, Locking
      <3>3. QED BY <1>16, <3>1, <3>2, Zenon
    <2>2. PICK s \in Seq(Frame) : /\ frames' = [frames EXCEPT ![g] = s]
                                  /\ Locks(s) = Locks(frames[g]) \ {Len(frames[g])}
      BY <2>1, <1>0, PopEffect, Zenon
    <2>3. Locks(s) = {}
      BY Zenon, <2>2 DEF RunsAlone
    <2>4. pc[g] # "begin"
      BY <1>16, Zenon DEF ExitWrite, ExitCritical, ExitCriticalLock, UnwindWrite, UnwindCritical, At
    <2>5. transaction_lock' # g
      BY <1>1, <2>1, <2>4, NoOneIsNoGreenlet, Zenon DEF RunsAlone
    <2>6. \A h \in Greenlets \ {g} : ~Busy(h) /\ transaction_lock' # h
      BY <1>4, <2>1, NoOneIsNoGreenlet, Zenon DEF RunsAlone, Busy
    <2>7. /\ pc'[g] \in {"cs_exit", "raise"} /\ frames'[g] = s
          /\ \A h \in Greenlets \ {g} : pc'[h] = pc[h] /\ frames'[h] = frames[h]
      BY Zenon, <2>1, <2>2, <1>0 DEF Goto, FrameTypes
    <2>8. \A h \in Greenlets : ~Busy(h)' /\ Locks(frames'[h]) = {} /\ transaction_lock' # h
      BY <2>3, <2>5, <2>6, <2>7, Zenon DEF Busy
    <2>9. QED
      BY <2>1, <2>8, Zenon DEF RunsAlone
  <1>17. ~ \/ WaitSavepoints(g) \/ EnterSavepoint(g) \/ WaitTransaction(g)
           \/ (\E name \in Names : CreateSavepoint(g, name))
           \/ SavepointCtx(g) \/ EndUpdate(g) \/ Rollback(g)
           \/ ExitSavepoint(g) \/ UnwindSavepoint(g)
    BY <1>0, <1>2, Zenon DEF WaitSavepoints, EnterSavepoint, WaitTransaction, CreateSavepoint,
                      SavepointCtx, EndUpdate, Rollback, ExitSavepoint, UnwindSavepoint, At,
                      PlainLabels, BodiesRunThrough
  <1>18. QED
    BY Zenon, <1>6, <1>7, <1>9, <1>10, <1>11, <1>12, <1>13, <1>14, <1>15, <1>16, <1>17
       DEF Step, Progress

\* A greenlet with a write context open is busy.
LEMMA WriterIsBusy ==
    ASSUME FrameTypes, NEW g \in Greenlets, TopIs(g, "write")
    PROVE  Busy(g)
  <1>1. Len(frames[g]) \in Locks(frames[g])
    BY PopFacts DEF FrameTypes, TopIs, Top, Locks, Locking
  <1>2. QED BY <1>1, Zenon DEF Busy

\* Such a connection is well used: whoever commits or kills finds no transaction.
LEMMA BodiesRunThroughWellUsed ==
    ASSUME WriteInv, RunsAlone, NEW g \in Greenlets
    PROVE  WellUsed(g)
  <1> USE NoOneIsNoGreenlet DEF WriteInv, StoreInv, LockIInv
  <1>1. \A h \in Greenlets : TopIs(h, "write") => running = h
    BY Zenon, WriterIsBusy DEF RunsAlone
  <1>2. ASSUME Commit(g) \/ ExecuteScript(g) \/ ExecuteDirect(g) PROVE ~begun
    <2>1. running = g /\ ~TopIs(g, "write")
      BY <1>2, Zenon DEF Commit, ExecuteScript, ExecuteDirect, At, WriterPlace, TopIs, InBody
    <2>2. \A h \in Greenlets : ~TopIs(h, "write")
      BY Zenon, <1>1, <2>1
    <2>3. QED BY Zenon, <2>2 DEF TransactionRows
  <1>3. ASSUME NEW error \in KillErrors, Kill(g, error) PROVE ~TopIs(g, "write")
    BY Zenon, <1>1, <1>3 DEF Kill
  <1>4. QED BY Zenon, <1>2, <1>3 DEF WellUsed

UserInv == WriteInv /\ RunsAlone

\* UserInv is inductive.
LEMMA UserInvariant == ASSUME BodiesRunThrough PROVE Spec => []UserInv
  <1>1. Init => UserInv
    <2> SUFFICES ASSUME Init PROVE RunsAlone
      BY Zenon, WriteInit DEF UserInv
    <2>1. \A g \in Greenlets : Locks(frames[g]) = {}
      BY DEF Init, Locks
    <2>2. QED
      BY <2>1, RolesAssumption, Zenon DEF Init, RunsAlone, Busy, OwnerOrNoOne
  <1>2. UserInv /\ [Next]_vars => UserInv'
    <2> SUFFICES ASSUME UserInv, [Next]_vars PROVE UserInv'
      BY Zenon
    <2>1. WriteInv'
      BY Zenon, WriteStep, BodiesRunThroughWellUsed DEF UserInv, BodiesRunThrough
    <2>2. CASE UNCHANGED vars
      BY <2>1, <2>2, Zenon DEF UserInv, RunsAlone, Busy, vars, lockVars, ctxVars
    <2>3. CASE \E g \in Greenlets : Step(g)
      BY Zenon, <2>1, <2>3, RunsAloneStep DEF UserInv
    <2>4. QED BY Zenon, <2>2, <2>3 DEF Next, AllDone
  <1>3. QED BY <1>1, <1>2, PTL DEF Spec

\* With commits outside of the contexts, scripts, detaches and GreenletExit kills
\* allowed, contexts are still committed as a whole or not at all.
THEOREM UserWritesAreAtomic ==
    ASSUME BodiesRunThrough PROVE Spec => []AllOrNothing
  BY UserInvariant, WriteConsequences, PTL DEF UserInv

\* BEGIN TRANSACTION never meets an open transaction.
THEOREM UserBeginSucceeds ==
    ASSUME BodiesRunThrough PROVE Spec => []BeginSucceeds
  BY UserInvariant, WriteConsequences, PTL DEF UserInv

\* No greenlet ever sees the uncommitted rows of another, although all of them
\* share one connection.
THEOREM UserIsolation ==
    ASSUME BodiesRunThrough PROVE Spec => []Isolation
  <1>1. UserInv => Isolation
    <2> SUFFICES ASSUME UserInv, NEW g \in Greenlets, running = g
                 PROVE  data \ disk \subseteq OpenRows(g)
      BY Zenon DEF Isolation
    <2> USE DEF UserInv, WriteInv, StoreInv
    <2>1. OpenRows(g) = WriteRows(g)
      BY Zenon, OpenRowsAre
    <2>2. \A h \in Greenlets : TopIs(h, "write") => h = g
      BY Zenon, WriterIsBusy DEF RunsAlone, LockIInv
    <2>3. QED
      BY <2>1, <2>2, Zenon DEF TransactionRows, WriteRows
  <1>2. QED BY <1>1, UserInvariant, PTL

\* While a greenlet is inside the progress callback, no other greenlet ends the
\* transaction or replaces the handler.
THEOREM UserCallbackUndisturbed ==
    ASSUME BodiesRunThrough PROVE Spec => CallbackUndisturbed
  <1> DEFINE Undisturbed == in_callback # NoOne /\ in_callback' = in_callback
                              => handler' = handler /\ (begun => begun')
  <1>1. UserInv /\ [Next]_vars => [Undisturbed]_vars
    <2> SUFFICES ASSUME UserInv, NEW g \in Greenlets, Step(g), in_callback # NoOne,
                        in_callback' = in_callback
                 PROVE  handler' = handler /\ (begun => begun')
      BY Zenon DEF Next, AllDone
    <2> USE DEF UserInv, WriteInv, StoreInv, LockIInv
    <2>1. ~TopIs(g, "write") /\ pc[g] # "begin"
      BY WriterIsBusy, Zenon DEF RunsAlone, Busy
    <2>2. ~CriticalEnter(g) /\ ~CriticalExit(g) /\ ~Commit(g) /\ ~Rollback(g)
      BY Zenon DEF CriticalEnter, CriticalExit, Commit, Rollback
    <2>3. ~ExitWrite(g) /\ ~UnwindWrite(g) /\ ~Begin(g)
      BY <2>1, Zenon DEF ExitWrite, UnwindWrite, Begin, At
    <2>4. CASE ExecuteScript(g)
      BY Zenon, <2>4, BodiesRunThroughWellUsed DEF ExecuteScript, WellUsed, lockVars
    <2>5. ASSUME UNCHANGED <<begun, handler>> PROVE handler' = handler /\ (begun => begun')
      BY Zenon, <2>5
    <2>6. CASE \/ Block(g) \/ Switch(g) \/ Yield(g) \/ Finish(g) \/ Die(g) \/ WaitSavepoints(g)
               \/ EnterSavepoint(g) \/ WaitTransaction(g) \/ EndUpdate(g) \/ Catch(g) \/ Raise(g)
      <3>1. UNCHANGED <<sqlVars, lockVars>>
        BY <2>6, Zenon DEF Block, Switch, Yield, Finish, Die, WaitSavepoints, EnterSavepoint,
                    WaitTransaction, EndUpdate, Catch, Raise
      <3>2. QED BY Zenon, <3>1, <2>5 DEF sqlVars, lockVars
    <2>7. CASE \/ ExitCritical(g) \/ Callback(g) \/ CallbackReturn(g) \/ ExitCriticalLock(g)
               \/ UnwindCritical(g) \/ AcquireLock(g)
               \/ \E error \in KillErrors : Kill(g, error)
      <3>1. UNCHANGED <<sqlVars, handler>>
        BY <2>7, Zenon DEF ExitCritical, Callback, CallbackReturn, ExitCriticalLock, UnwindCritical,
                    AcquireLock, Kill, lockVars
      <3>2. QED BY Zenon, <3>1, <2>5 DEF sqlVars
    <2>8. CASE \/ WriteCtx(g) \/ CriticalCtx(g) \/ CriticalLockCtx(g) \/ SavepointCtx(g)
               \/ Insert(g) \/ ExecuteDirect(g)
      <3>1. UNCHANGED <<begun, lockVars>>
        BY Zenon, <2>8 DEF WriteCtx, CriticalCtx, CriticalLockCtx, SavepointCtx, Request, Insert,
                    ExecuteDirect, SqlInsert, sqlVars
      <3>2. QED BY Zenon, <3>1, <2>5 DEF lockVars
    <2>9. CASE \/ ExitSavepoint(g) \/ UnwindSavepoint(g)
               \/ \E name \in Names : CreateSavepoint(g, name)
      <3>1. UNCHANGED lockVars
        BY <2>9, Zenon DEF ExitSavepoint, UnwindSavepoint, CreateSavepoint
      <3>2. UNCHANGED begun
        <4>1. CASE ExitSavepoint(g)
          BY <4>1, Zenon DEF ExitSavepoint, SqlRelease, SqlReleaseAt, sqlVars
        <4>2. CASE UnwindSavepoint(g)
          BY Zenon, <4>2 DEF UnwindSavepoint, SqlRelease, SqlRollbackAndRelease, SqlReleaseAt,
             sqlVars
        <4>3. CASE \E name \in Names : CreateSavepoint(g, name)
          BY Zenon, <4>3 DEF CreateSavepoint, SqlSavepoint, sqlVars
        <4>4. QED BY Zenon, <2>9, <4>1, <4>2, <4>3
      <3>3. QED BY Zenon, <3>1, <3>2, <2>5 DEF lockVars
    <2>10. QED
      BY <2>2, <2>3, <2>4, <2>6, <2>7, <2>8, <2>9, Zenon DEF Step, Progress
  <1>2. QED BY <1>1, UserInvariant, PTL DEF Spec, CallbackUndisturbed

\* The user database's contexts implement TransactionalStore.
THEOREM UserWritesRefineStore ==
    ASSUME BodiesRunThrough PROVE Spec => ActsAsTransactionalStore
  <1>1. Init => Store!StoreInit
    BY DEF Init, SqlInit, Store!StoreInit, OpenRows
  <1>2. UserInv /\ UserInv' /\ [Next]_vars => [Store!StoreNext]_(Store!storeVars)
    BY Zenon, RefinesStep, BodiesRunThroughWellUsed DEF UserInv, BodiesRunThrough
  <1>3. QED
    BY UserInvariant, <1>1, <1>2, PTL DEF Spec, ActsAsTransactionalStore, Store!StoreSpec
=============================================================================
