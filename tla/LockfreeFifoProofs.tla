-------------------------- MODULE LockfreeFifoProofs --------------------------
(***************************************************************************)
(* Theorems about LockfreeFifo for every size of the ring and every set of *)
(* values: type correctness, freedom from races, and the refinement of     *)
(* BoundedFifo.                                                            *)
(*                                                                         *)
(* The argument rests on one fact: going round the ring once, one meets    *)
(* what the writer last saw of readHead, readHead, what the reader last    *)
(* saw of writeHead, and writeHead, in this order (InOrder).  So a late    *)
(* view is on the safe side for both threads.                              *)
(***************************************************************************)
EXTENDS LockfreeFifo, SequenceTheorems, TLAPS

\* from readSeen over readHead and writeSeen to writeHead is less than a round
InOrder == Dist(readSeen, readHead) + Dist(readHead, writeSeen)
             + Dist(writeSeen, writeHead) < N

\* past the test for a full buffer, the writer owns the element behind
\* writeHead
WriterInv ==
  /\ pushing = "idle" \/ /\ pushNext = Succ(writeHead)
                         /\ Succ(writeHead) # readSeen
                         /\ pushValue \in Values
  /\ pushing = "publish" => data[pushNext] = pushValue

\* past the test for an empty buffer, the reader owns the element behind
\* readHead
ReaderInv ==
  /\ popping \in {"read", "advance"} => /\ popNext = Succ(readHead)
                                        /\ readHead # writeSeen
  /\ popping = "advance" => popValue = data[popNext]

IInv == TypeOK /\ InOrder /\ WriterInv /\ ReaderInv
--------------------------------------------------------------------------------
(* The ring *)

\* Succ, Dist and Plus stay in range, and Dist measures a way round the ring.
LEMMA RingTypes ==
  /\ 0 \in Index
  /\ \A i \in Index : Succ(i) \in Index
  /\ \A i, j \in Index : Dist(i, j) \in Index
  /\ \A i \in Index, k \in 0..N : Plus(i, k) \in Index
  BY FifoAssumption DEF Index, Succ, Dist, Plus

\* Walking the distance between two elements leads from one to the other, and
\* nothing shorter does.
LEMMA RingWalk ==
  ASSUME NEW i \in Index, NEW j \in Index
  PROVE  /\ Plus(i, Dist(i, j)) = j
         /\ \A k \in 0..(N-1) : Plus(i, k) = j => k = Dist(i, j)
         /\ Dist(i, j) = 0 <=> i = j
  BY FifoAssumption DEF Index, Dist, Plus

\* One step at the end of a walk of less than a round.
LEMMA RingExtend ==
  ASSUME NEW i \in Index, NEW j \in Index, Succ(j) # i
  PROVE  /\ Dist(i, Succ(j)) = Dist(i, j) + 1
         /\ Plus(i, Dist(i, j) + 1) = Succ(j)
  BY FifoAssumption DEF Index, Dist, Plus, Succ

\* Two walks in a row of less than a round are one walk.
LEMMA RingJoin ==
  ASSUME NEW h \in Index, NEW i \in Index, NEW j \in Index,
         Dist(h, i) + Dist(i, j) < N
  PROVE  /\ Dist(h, j) = Dist(h, i) + Dist(i, j)
         /\ \A k \in 0..Dist(i, j) : Plus(h, Dist(h, i) + k) = Plus(i, k)
  BY FifoAssumption DEF Index, Dist, Plus

\* Stopping on the way splits a walk.
LEMMA RingSplit ==
  ASSUME NEW i \in Index, NEW j \in Index, NEW h \in Index,
         Dist(i, h) <= Dist(i, j)
  PROVE  Dist(i, j) = Dist(i, h) + Dist(h, j)
  BY FifoAssumption DEF Index, Dist

\* The first step of a walk.
LEMMA RingFirst ==
  ASSUME NEW i \in Index, NEW j \in Index, i # j
  PROVE  /\ Dist(i, Succ(i)) = 1
         /\ Plus(i, 1) = Succ(i)
         /\ Dist(i, j) = 1 + Dist(Succ(i), j)
  BY FifoAssumption DEF Index, Dist, Succ, Plus

--------------------------------------------------------------------------------
(* The inductive invariant *)

\* The five distances at a glance: with InOrder every one of them is the sum of
\* its parts, and the buffer with the writer's element is less than a round.
LEMMA Order ==
  ASSUME TypeOK, InOrder
  PROVE  /\ Dist(readSeen, writeSeen)
               = Dist(readSeen, readHead) + Dist(readHead, writeSeen)
         /\ Dist(readHead, writeHead)
               = Dist(readHead, writeSeen) + Dist(writeSeen, writeHead)
         /\ Dist(readSeen, writeHead)
               = Dist(readSeen, readHead) + Dist(readHead, writeHead)
         /\ Dist(readSeen, writeHead) < N
         /\ Succ(writeHead) # readSeen => /\ Dist(readSeen, writeHead) + 1 < N
                                          /\ Succ(writeHead) # readHead
                                          /\ Succ(writeHead) # writeSeen
  <1>1. /\ readSeen \in Index /\ readHead \in Index
        /\ writeSeen \in Index /\ writeHead \in Index
    BY DEF TypeOK
  <1> QED
    BY <1>1, FifoAssumption DEF InOrder, Index, Dist, Succ

\* The five distances and the four indices are natural numbers.
LEMMA Distances ==
  ASSUME TypeOK
  PROVE  /\ Dist(readSeen, readHead) \in Nat /\ Dist(readHead, writeSeen) \in Nat
         /\ Dist(writeSeen, writeHead) \in Nat
         /\ Dist(readHead, writeHead) \in Nat
         /\ Dist(readSeen, writeHead) \in Nat
  <1>1. /\ readSeen \in Index /\ readHead \in Index
        /\ writeSeen \in Index /\ writeHead \in Index
    BY DEF TypeOK
  <1>2. \A i \in Index : i \in Nat
    BY FifoAssumption DEF Index
  <1> QED
    BY <1>1, <1>2, RingTypes

\* Nothing is in the buffer, and no element is in use.
LEMMA Initially == Init => IInv
  <1> SUFFICES ASSUME Init PROVE IInv
    OBVIOUS
  <1>1. TypeOK
    BY RingTypes DEF Init, TypeOK
  <1>2. InOrder
    BY FifoAssumption DEF Init, InOrder, Dist
  <1>3. WriterInv /\ ReaderInv
    BY DEF Init, WriterInv, ReaderInv
  <1> QED
    BY <1>1, <1>2, <1>3 DEF IInv

\* Every step keeps the shared members and the locals well-formed.
LEMMA TypeStep == TypeOK /\ [Next]_vars => TypeOK'
  <1> SUFFICES ASSUME TypeOK, [Next]_vars PROVE TypeOK'
    OBVIOUS
  <1> USE DEF TypeOK
  <1>1. CASE PushCheck
    BY <1>1, RingTypes DEF PushCheck, Visible, reader
  <1>2. CASE PushWrite
    BY <1>2 DEF PushWrite, reader
  <1>3. CASE PushPublish
    BY <1>3 DEF PushPublish, reader
  <1>4. CASE PopCheck
    BY <1>4, RingTypes DEF PopCheck, Visible, writer
  <1>5. CASE PopRead
    BY <1>5 DEF PopRead, writer
  <1>6. CASE PopAdvance
    BY <1>6 DEF PopAdvance, writer
  <1>7. CASE ClearLoad
    BY <1>7 DEF ClearLoad, Visible, writer
  <1>8. CASE ClearStore
    BY <1>8 DEF ClearStore, writer
  <1>9. CASE UNCHANGED vars
    BY <1>9 DEF vars, writer, reader
  <1> QED
    BY <1>1, <1>2, <1>3, <1>4, <1>5, <1>6, <1>7, <1>8, <1>9 DEF Next

\* Every step keeps the four indices in order: a load moves a view towards the
\* index, and an index moves only as far as its owner has seen room.
LEMMA OrderStep == IInv /\ [Next]_vars => InOrder'
  <1> SUFFICES ASSUME IInv, [Next]_vars PROVE InOrder'
    OBVIOUS
  <1>t. TypeOK /\ InOrder /\ WriterInv /\ ReaderInv
    BY DEF IInv
  <1>i. /\ readSeen \in Index /\ readHead \in Index
        /\ writeSeen \in Index /\ writeHead \in Index
    BY <1>t DEF TypeOK
  <1>1. CASE PushCheck
    <2>1. /\ readSeen' \in Index
          /\ Dist(readSeen, readSeen') <= Dist(readSeen, readHead)
          /\ UNCHANGED <<readHead, writeHead, writeSeen>>
      BY <1>1 DEF PushCheck, Visible, reader
    <2>2. Dist(readSeen, readHead)
            = Dist(readSeen, readSeen') + Dist(readSeen', readHead)
      BY <2>1, <1>i, RingSplit
    <2>3. /\ Dist(readSeen, readSeen') \in Nat
          /\ Dist(readSeen', readHead) \in Nat
      BY <2>1, <1>i, RingTypes, FifoAssumption DEF Index
    <2> QED
      BY <2>1, <2>2, <2>3, <1>t, Distances, FifoAssumption DEF InOrder
  <1>2. CASE PushWrite
    BY <1>2, <1>t DEF PushWrite, reader, InOrder, Dist
  <1>3. CASE PushPublish
    <2>1. /\ writeHead' = Succ(writeHead) /\ Succ(writeHead) # readSeen
          /\ UNCHANGED <<readHead, readSeen, writeSeen>>
      BY <1>3, <1>t DEF PushPublish, reader, WriterInv
    <2>2. /\ Dist(readSeen, writeHead) + 1 < N
          /\ Succ(writeHead) # writeSeen
          /\ Dist(readSeen, writeHead) = Dist(readSeen, readHead)
                + Dist(readHead, writeSeen) + Dist(writeSeen, writeHead)
      BY <2>1, <1>t, Order, Distances
    <2>3. Dist(writeSeen, Succ(writeHead)) = Dist(writeSeen, writeHead) + 1
      BY <2>2, <1>i, RingExtend
    <2> QED
      BY <2>1, <2>2, <2>3, <1>t, Distances, FifoAssumption DEF InOrder
  <1>4. CASE PopCheck \/ ClearLoad
    <2>1. /\ writeSeen' \in Index
          /\ Dist(writeSeen, writeSeen') <= Dist(writeSeen, writeHead)
          /\ UNCHANGED <<readHead, writeHead, readSeen>>
      BY <1>4 DEF PopCheck, ClearLoad, Visible, writer
    <2>2. Dist(writeSeen, writeHead)
            = Dist(writeSeen, writeSeen') + Dist(writeSeen', writeHead)
      BY <2>1, <1>i, RingSplit
    <2>3. /\ Dist(writeSeen, writeSeen') \in Nat
          /\ Dist(writeSeen', writeHead) \in Nat
      BY <2>1, <1>i, RingTypes, FifoAssumption DEF Index
    <2>4. Dist(readHead, writeSeen')
            = Dist(readHead, writeSeen) + Dist(writeSeen, writeSeen')
      <3>1. Dist(readHead, writeSeen) + Dist(writeSeen, writeSeen') < N
        BY <2>2, <2>3, <1>t, Distances, FifoAssumption DEF InOrder
      <3> QED
        BY <3>1, <2>1, <1>i, RingJoin
    <2> QED
      BY <2>1, <2>2, <2>3, <2>4, <1>t, Distances, FifoAssumption DEF InOrder
  <1>5. CASE PopRead
    BY <1>5, <1>t DEF PopRead, writer, InOrder, Dist
  <1>6. CASE PopAdvance
    <2>1. /\ readHead' = Succ(readHead) /\ readHead # writeSeen
          /\ UNCHANGED <<writeHead, readSeen, writeSeen>>
      BY <1>6, <1>t DEF PopAdvance, writer, ReaderInv
    <2> QED
      BY <2>1, <1>i, <1>t, FifoAssumption DEF InOrder, Index, Dist, Succ
  <1>7. CASE ClearStore
    <2>1. /\ readHead' = writeSeen
          /\ UNCHANGED <<writeHead, readSeen, writeSeen>>
      BY <1>7 DEF ClearStore, writer
    <2> QED
      BY <2>1, <1>i, <1>t, FifoAssumption DEF InOrder, Index, Dist
  <1>8. CASE UNCHANGED vars
    BY <1>8, <1>t DEF vars, writer, reader, InOrder, Dist
  <1> QED
    BY <1>1, <1>2, <1>3, <1>4, <1>5, <1>6, <1>7, <1>8 DEF Next

\* Every step keeps what the writer relies on: only the writer moves writeHead
\* and writes elements.
LEMMA WriterStep == IInv /\ [Next]_vars => WriterInv'
  <1> SUFFICES ASSUME IInv, [Next]_vars PROVE WriterInv'
    OBVIOUS
  <1> USE DEF IInv, WriterInv, TypeOK
  <1>1. CASE PushCheck
    BY <1>1 DEF PushCheck, reader, Succ
  <1>2. CASE PushWrite
    BY <1>2 DEF PushWrite, reader, Succ
  <1>3. CASE PushPublish
    BY <1>3 DEF PushPublish, reader
  <1>4. CASE PopCheck \/ PopRead \/ PopAdvance \/ ClearLoad \/ ClearStore
    BY <1>4 DEF PopCheck, PopRead, PopAdvance, ClearLoad, ClearStore, writer,
                Succ
  <1>5. CASE UNCHANGED vars
    BY <1>5 DEF vars, writer, reader, Succ
  <1> QED
    BY <1>1, <1>2, <1>3, <1>4, <1>5 DEF Next

\* While both are past their tests, they are at different elements.
LEMMA Apart ==
  ASSUME IInv, pushing # "idle", popping \in {"read", "advance"}
  PROVE  pushNext # popNext
  <1>1. Succ(writeHead) # readSeen /\ pushNext = Succ(writeHead)
    BY DEF IInv, WriterInv
  <1>2. Dist(readSeen, writeHead) + 1 < N
    BY <1>1, Order DEF IInv
  <1>3. readHead # writeSeen /\ popNext = Succ(readHead)
    BY DEF IInv, ReaderInv
  <1>4. /\ readHead \in Index /\ writeHead \in Index /\ writeSeen \in Index
    BY DEF IInv, TypeOK
  <1>5. Dist(readHead, writeSeen) # 0
    BY <1>3, <1>4, RingWalk
  <1>6. readHead # writeHead
    <2>1. Dist(readHead, writeHead) # 0
      BY <1>5, Order, Distances DEF IInv
    <2> QED
      BY <2>1, <1>4, RingWalk
  <1> QED
    BY <1>1, <1>3, <1>4, <1>6, FifoAssumption DEF Succ, Index

\* Every step keeps what the reader relies on: only the reader moves readHead,
\* and the writer does not touch its element.
LEMMA ReaderStep == IInv /\ [Next]_vars => ReaderInv'
  <1> SUFFICES ASSUME IInv, [Next]_vars PROVE ReaderInv'
    OBVIOUS
  <1> USE DEF ReaderInv, TypeOK
  <1>0. TypeOK /\ ReaderInv
    BY DEF IInv
  <1>1. CASE PushCheck \/ PushPublish
    BY <1>1, <1>0 DEF PushCheck, PushPublish, reader, Succ
  <1>2. CASE PushWrite
    <2>1. popping \in {"read", "advance"} => pushNext # popNext
      BY <1>2, Apart DEF PushWrite
    <2> QED
      BY <2>1, <1>2, <1>0 DEF PushWrite, reader, Succ
  <1>3. CASE PopCheck
    BY <1>3, <1>0 DEF PopCheck, writer, Succ
  <1>4. CASE PopRead
    BY <1>4, <1>0 DEF PopRead, writer, Succ
  <1>5. CASE PopAdvance \/ ClearLoad \/ ClearStore
    BY <1>5, <1>0 DEF PopAdvance, ClearLoad, ClearStore, writer
  <1>6. CASE UNCHANGED vars
    BY <1>6, <1>0 DEF vars, writer, reader, Succ
  <1> QED
    BY <1>1, <1>2, <1>3, <1>4, <1>5, <1>6 DEF Next

\* The invariant holds in every state of LockfreeFifo.
THEOREM FifoInvariance == Spec => []IInv
  <1>1. IInv /\ [Next]_vars => IInv'
    BY TypeStep, OrderStep, WriterStep, ReaderStep DEF IInv
  <1> QED
    BY <1>1, Initially, PTL DEF Spec

\* Indices stay inside the array and elements are values that were pushed or
\* never written.
THEOREM FifoTypeCorrect == Spec => []TypeOK
  <1>1. IInv => TypeOK
    BY DEF IInv
  <1> QED
    BY <1>1, FifoInvariance, PTL

\* The writer and the reader never access the same element at once.
THEOREM FifoRaceFree == Spec => []NoRace
  <1>1. IInv => NoRace
    BY Apart DEF NoRace
  <1> QED
    BY <1>1, FifoInvariance, PTL

--------------------------------------------------------------------------------
(* The refinement *)

\* What Items is, for a buffer whose ends are known.
LEMMA ItemsFacts ==
  ASSUME TypeOK
  PROVE  /\ Items \in Seq(Values \cup {NoValue})
         /\ Len(Items) = Dist(readHead, writeHead)
         /\ \A k \in 1..Dist(readHead, writeHead) :
              /\ Items[k] = data[Plus(readHead, k)]
              /\ Plus(readHead, k) \in Index
  <1>1. Dist(readHead, writeHead) \in Nat /\ Dist(readHead, writeHead) \in Index
    BY Distances, RingTypes DEF TypeOK
  <1>2. \A k \in 1..Dist(readHead, writeHead) : Plus(readHead, k) \in Index
    BY <1>1, RingTypes, FifoAssumption DEF TypeOK, Index
  <1>3. \A k \in 1..Dist(readHead, writeHead) :
          data[Plus(readHead, k)] \in Values \cup {NoValue}
    BY <1>2 DEF TypeOK
  <1> QED
    BY <1>1, <1>2, <1>3 DEF Items

\* A step that moves no index leaves what the buffer holds alone: if it writes an
\* element, then one behind writeHead.
LEMMA ItemsKept ==
  ASSUME IInv, PushWrite
  PROVE  Items' = Items
  <1>1. /\ TypeOK /\ Succ(writeHead) # readSeen /\ pushNext = Succ(writeHead)
        /\ pushNext \in Index /\ readHead \in Index /\ writeHead \in Index
        /\ data \in [Index -> Values \cup {NoValue}]
    BY DEF IInv, WriterInv, PushWrite, TypeOK
  <1>2. Succ(writeHead) # readHead
    BY <1>1, Order DEF IInv
  <1>3. /\ Dist(readHead, Succ(writeHead)) = Dist(readHead, writeHead) + 1
        /\ Dist(readHead, writeHead) \in Index
    BY <1>1, <1>2, RingExtend, RingTypes
  <1>4. ASSUME NEW k \in 1..Dist(readHead, writeHead)
        PROVE  data'[Plus(readHead, k)] = data[Plus(readHead, k)]
    <2>1. k \in 0..(N-1) /\ k # Dist(readHead, writeHead) + 1
      BY <1>3, FifoAssumption DEF Index
    <2>2. Plus(readHead, k) # pushNext
      BY <2>1, <1>1, <1>3, RingWalk
    <2>3. Plus(readHead, k) \in Index
      BY <1>1, ItemsFacts
    <2> QED
      BY <2>2, <2>3, <1>1 DEF PushWrite
  <1>5. Plus(readHead, 1)' = Plus(readHead, 1) /\ readHead' = readHead
        /\ writeHead' = writeHead
    BY DEF PushWrite, Plus
  <1> QED
    BY <1>4, <1>5 DEF Items, Dist, Plus

\* Publishing appends the writer's value.
LEMMA ItemsPushed ==
  ASSUME IInv, PushPublish
  PROVE  /\ Len(Items) < N - 1
         /\ Items' = Append(Items, pushValue)
  <1>1. /\ TypeOK /\ Succ(writeHead) # readSeen /\ data[Succ(writeHead)] = pushValue
        /\ readHead \in Index /\ writeHead \in Index
        /\ writeHead' = Succ(writeHead) /\ UNCHANGED <<readHead, data>>
    BY DEF IInv, WriterInv, PushPublish, TypeOK
  <1>2. /\ Succ(writeHead) # readHead
        /\ Dist(readSeen, writeHead) + 1 < N
        /\ Dist(readSeen, writeHead)
              = Dist(readSeen, readHead) + Dist(readHead, writeHead)
    BY <1>1, Order DEF IInv
  <1>3. Dist(readHead, writeHead) < N - 1
    BY <1>1, <1>2, Distances, FifoAssumption
  <1> DEFINE d == Dist(readHead, writeHead)
  <1>4. /\ Dist(readHead, Succ(writeHead)) = d + 1
        /\ Plus(readHead, d + 1) = Succ(writeHead)
        /\ d \in Nat
    BY <1>1, <1>2, RingExtend, Distances
  <1>5. Items' = [k \in 1..(d + 1) |-> data[Plus(readHead, k)]]
    BY <1>1, <1>4 DEF Items, Dist, Plus
  <1>6. Items = [k \in 1..d |-> data[Plus(readHead, k)]]
    BY DEF Items
  <1>7. /\ Items \in Seq(Values \cup {NoValue}) /\ Len(Items) = d
        /\ pushValue \in Values \cup {NoValue}
    BY <1>1, ItemsFacts DEF TypeOK
  <1>8. Append(Items, pushValue)
          = [k \in 1..(d + 1) |-> IF k = d + 1 THEN pushValue ELSE Items[k]]
    <2> DEFINE S == Values \cup {NoValue}
               a == Append(Items, pushValue)
    <2>1. /\ a \in Seq(S)
          /\ Len(a) = d + 1
          /\ \A k \in 1..d : a[k] = Items[k]
          /\ a[d + 1] = pushValue
      BY <1>7, AppendProperties
    <2> HIDE DEF d, a, S
    <2>2. a \in [1..(d + 1) -> S]
      BY <2>1, LenProperties
    <2>3. ASSUME NEW k \in 1..(d + 1)
          PROVE  a[k] = IF k = d + 1 THEN pushValue ELSE Items[k]
      BY <2>1, <1>4
    <2>4. a = [k \in 1..(d + 1) |-> a[k]]
      BY <2>2
    <2>5. a = [k \in 1..(d + 1) |-> IF k = d + 1 THEN pushValue ELSE Items[k]]
      BY <2>3, <2>4, Zenon
    <2> QED
      BY <2>5 DEF a
  <1>9. ASSUME NEW k \in 1..(d + 1)
        PROVE  data[Plus(readHead, k)]
                 = IF k = d + 1 THEN pushValue ELSE Items[k]
    <2>1. CASE k = d + 1
      BY <2>1, <1>1, <1>4
    <2>2. CASE k # d + 1
      <3> HIDE DEF d
      <3> QED
        BY <2>2, <1>4, <1>6
    <2> QED
      BY <2>1, <2>2
  <1>10. Items' = Append(Items, pushValue)
    <2> HIDE DEF d
    <2> QED
      BY <1>5, <1>8, <1>9
  <1> QED
    BY <1>3, <1>7, <1>10

\* Moving readHead forward by n discards the n oldest items.
LEMMA ItemsDropped ==
  ASSUME TypeOK, NEW n \in Nat, n <= Dist(readHead, writeHead),
         readHead' = Plus(readHead, n),
         Dist(readHead', writeHead) = Dist(readHead, writeHead) - n,
         \A k \in 1..Dist(readHead', writeHead) :
            Plus(readHead', k) = Plus(readHead, n + k),
         UNCHANGED <<writeHead, data>>
  PROVE  Items' = SubSeq(Items, n + 1, Len(Items))
  <1> DEFINE d == Dist(readHead, writeHead)
  <1>1. d \in Nat
    BY Distances
  <1>2. Items' = [k \in 1..(d - n) |-> data[Plus(readHead', k)]]
    BY DEF Items, Dist, Plus
  <1>3. Items \in Seq(Values \cup {NoValue}) /\ Len(Items) = d
    BY ItemsFacts
  <1>4. \A k \in 1..(d - n) : Items[n + k] = data[Plus(readHead, n + k)]
    <2> HIDE DEF d
    <2>1. \A k \in 1..d : Items[k] = data[Plus(readHead, k)]
      BY ItemsFacts DEF d
    <2> QED
      BY <2>1, <1>1
  <1>5. SubSeq(Items, n + 1, d) = [k \in 1..(d - n) |-> Items[n + k]]
    <2> HIDE DEF d
    <2>1. n <= d
      BY DEF d
    <2> QED
      BY <1>1, <1>3, <2>1
  <1> QED
    BY <1>2, <1>3, <1>4, <1>5

\* pop() hands over the oldest item.
LEMMA ItemsPopped ==
  ASSUME IInv, PopAdvance
  PROVE  /\ Items # <<>>
         /\ received' = Head(Items)
         /\ Items' = Tail(Items)
  <1>1. /\ TypeOK /\ readHead # writeSeen /\ popNext = Succ(readHead)
        /\ popValue = data[popNext] /\ readHead' = popNext /\ received' = popValue
        /\ readHead \in Index /\ writeHead \in Index /\ writeSeen \in Index
        /\ UNCHANGED <<writeHead, data>>
    BY DEF IInv, ReaderInv, PopAdvance, TypeOK, writer
  <1>2. readHead # writeHead
    <2>1. Dist(readHead, writeSeen) # 0
      BY <1>1, RingWalk
    <2>2. Dist(readHead, writeHead) # 0
      BY <2>1, <1>1, Order, Distances DEF IInv
    <2> QED
      BY <2>2, <1>1, RingWalk
  <1>3. /\ Plus(readHead, 1) = Succ(readHead)
        /\ Dist(readHead, writeHead) = 1 + Dist(Succ(readHead), writeHead)
        /\ Dist(readHead, Succ(readHead)) = 1
        /\ Succ(readHead) \in Index
        /\ Dist(Succ(readHead), writeHead) \in Nat
    <2>1. Succ(readHead) \in Index /\ Dist(Succ(readHead), writeHead) \in Index
      BY <1>1, RingTypes
    <2> QED
      BY <2>1, <1>1, <1>2, RingFirst, FifoAssumption DEF Index
  <1>4. /\ Items \in Seq(Values \cup {NoValue})
        /\ Len(Items) = Dist(readHead, writeHead)
        /\ Items[1] = popValue
    <2>1. 1 \in 1..Dist(readHead, writeHead)
      BY <1>3
    <2> QED
      BY <2>1, <1>1, <1>3, ItemsFacts
  <1>5. Items' = SubSeq(Items, 2, Len(Items))
    <2>1. Dist(readHead, writeHead) < N
      BY <1>1, RingTypes, FifoAssumption DEF Index
    <2>2. \A k \in 0..Dist(Succ(readHead), writeHead) :
            Plus(readHead, 1 + k) = Plus(Succ(readHead), k)
      BY <2>1, <1>1, <1>3, RingJoin
    <2>3. Dist(readHead', writeHead) = Dist(readHead, writeHead) - 1
      BY <1>1, <1>3
    <2>4. \A k \in 1..Dist(readHead', writeHead) :
            Plus(readHead', k) = Plus(readHead, 1 + k)
      BY <2>2, <1>1, <1>3
    <2> QED
      BY <2>3, <2>4, <1>1, <1>3, ItemsDropped
  <1>6. Items # <<>> /\ Head(Items) = Items[1]
    BY <1>3, <1>4
  <1>7. Tail(Items) = SubSeq(Items, 2, Len(Items))
    BY <1>4, <1>6, TailIsSubSeq
  <1> QED
    BY <1>1, <1>4, <1>5, <1>6, <1>7

\* clear() discards what the reader knew of, perhaps nothing.
LEMMA ItemsCleared ==
  ASSUME IInv, ClearStore
  PROVE  \/ Items' = Items
         \/ \E k \in 1..Len(Items) : Items' = SubSeq(Items, k + 1, Len(Items))
  <1>1. /\ TypeOK /\ readHead' = writeSeen
        /\ readHead \in Index /\ writeHead \in Index /\ writeSeen \in Index
        /\ UNCHANGED <<writeHead, data>>
    BY DEF IInv, ClearStore, TypeOK, writer
  <1> DEFINE n == Dist(readHead, writeSeen)
  <1>2. /\ n \in Nat /\ n <= Dist(readHead, writeHead)
        /\ Dist(readHead, writeHead) = n + Dist(writeSeen, writeHead)
        /\ Dist(readHead, writeHead) < N
        /\ Dist(writeSeen, writeHead) \in Nat
    <2>1. Dist(readHead, writeHead) < N
      BY <1>1, RingTypes, FifoAssumption DEF Index
    <2> QED
      BY <2>1, <1>1, Order, Distances DEF IInv
  <1>3. Plus(readHead, n) = writeSeen
    BY <1>1, RingWalk
  <1>4. \A k \in 0..Dist(writeSeen, writeHead) :
          Plus(readHead, n + k) = Plus(writeSeen, k)
    BY <1>1, <1>2, RingJoin
  <1>5. CASE n = 0
    BY <1>5, <1>1, RingWalk DEF Items, Dist, Plus
  <1>6. CASE n # 0
    <2> HIDE DEF n
    <2>1. Dist(readHead', writeHead) = Dist(readHead, writeHead) - n
      BY <1>1, <1>2
    <2>2. \A k \in 1..Dist(readHead', writeHead) :
            Plus(readHead', k) = Plus(readHead, n + k)
      BY <1>1, <1>2, <1>4
    <2>3. Items' = SubSeq(Items, n + 1, Len(Items))
      BY <2>1, <2>2, <1>1, <1>2, <1>3, ItemsDropped
    <2>4. n \in 1..Len(Items)
      BY <1>1, <1>2, <1>6, ItemsFacts
    <2> QED
      BY <2>3, <2>4
  <1> QED
    BY <1>5, <1>6

\* A push starts when the writer is past its test and ends when it publishes; a
\* pop happens when the reader stores readHead.
LEMMA FifoStep == IInv /\ [Next]_vars => [Fifo!Next]_(Fifo!vars)
  <1> SUFFICES ASSUME IInv, [Next]_vars PROVE [Fifo!Next]_(Fifo!vars)
    OBVIOUS
  <1> DEFINE offered == IF pushing = "idle" THEN NoValue ELSE pushValue
  <1>1. CASE PushCheck
    <2>1. Items' = Items /\ UNCHANGED received
      BY <1>1 DEF PushCheck, reader, Items, Dist, Plus
    <2>2. CASE pushing' = "idle"
      <3>1. UNCHANGED offered
        BY <2>2, <1>1 DEF PushCheck
      <3> QED
        BY <3>1, <2>1 DEF Fifo!vars
    <2>3. CASE pushing' # "idle"
      <3>1. offered = NoValue /\ offered' \in Values
        BY <2>3, <1>1 DEF PushCheck
      <3> QED
        BY <3>1, <2>1 DEF Fifo!Next, Fifo!Offer
    <2> QED
      BY <2>2, <2>3
  <1>2. CASE PushWrite
    BY <1>2, ItemsKept DEF PushWrite, reader, Fifo!vars
  <1>3. CASE PushPublish
    <2>1. /\ Len(Items) < N - 1
          /\ Items' = Append(Items, pushValue)
      BY <1>3, ItemsPushed
    <2>2. /\ pushing = "publish" /\ pushing' = "idle" /\ pushValue \in Values
          /\ UNCHANGED received
      BY <1>3 DEF IInv, WriterInv, PushPublish, reader
    <2>3. offered = pushValue /\ offered # NoValue /\ offered' = NoValue
      BY <2>2, FifoAssumption
    <2> QED
      BY <2>1, <2>2, <2>3 DEF Fifo!Next, Fifo!Push
  <1>4. CASE PopCheck \/ PopRead \/ ClearLoad
    BY <1>4 DEF PopCheck, PopRead, ClearLoad, writer, Items, Dist, Plus,
                Fifo!vars
  <1>5. CASE PopAdvance
    <2>1. UNCHANGED offered
      BY <1>5 DEF PopAdvance, writer
    <2> QED
      BY <2>1, <1>5, ItemsPopped DEF Fifo!Next, Fifo!Pop
  <1>6. CASE ClearStore
    <2>1. UNCHANGED <<offered, received>>
      BY <1>6 DEF ClearStore, writer
    <2> QED
      BY <2>1, <1>6, ItemsCleared DEF Fifo!Next, Fifo!Drop, Fifo!vars
  <1>7. CASE UNCHANGED vars
    BY <1>7 DEF vars, writer, reader, Items, Dist, Plus, Fifo!vars
  <1> QED
    BY <1>1, <1>2, <1>3, <1>4, <1>5, <1>6, <1>7 DEF Next

\* The ring buffer implements a queue of N - 1 values, for every N and every set
\* of values: nothing is lost, duplicated, reordered or changed.
THEOREM FifoRefinement == Spec => FifoSpec
  <1>1. Init => Fifo!Init
    <2> SUFFICES ASSUME Init PROVE Fifo!Init
      OBVIOUS
    <2>1. Dist(readHead, writeHead) = 0
      BY FifoAssumption DEF Init, Dist
    <2>2. Items = <<>>
      BY <2>1 DEF Items
    <2> QED
      BY <2>2 DEF Init, Fifo!Init
  <1> QED
    BY <1>1, FifoStep, FifoInvariance, PTL DEF Spec, FifoSpec, Fifo!Spec

================================================================================
