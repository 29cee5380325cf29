----------------------------- MODULE LockfreeFifo -----------------------------
(***************************************************************************)
(* The ring buffer between one writer and one reader thread                *)
(* (vst/Utility.h, LockfreeFifo<T, N>), one step per access to shared      *)
(* memory.  Its users are the parameter queue of the UGen, the two         *)
(* parameter queues of a VST3 plugin and both queues of Pd's worker.       *)
(*                                                                         *)
(* A thread reads the index it owns exactly.  The index of the other       *)
(* thread it may see late: a load returns some value between the one it    *)
(* saw before and the current one.  An index is stored with release after  *)
(* the element was accessed, so whoever sees an index sees the elements up *)
(* to it.                                                                  *)
(***************************************************************************)
EXTENDS Integers, Sequences

CONSTANTS N,        \* number of elements; one of them always stays unused
          Values,
          NoValue   \* what an element holds before it is written

ASSUME FifoAssumption == N \in Nat \ {0} /\ NoValue \notin Values

VARIABLES
  readHead, writeHead, data,   \* the shared members
  pushing,                     \* where the writer is in push()
  pushNext, pushValue,         \* its locals "next" and "data"
  readSeen,                    \* readHead_ as the writer saw it last
  popping,                     \* where the reader is in pop() or clear()
  popNext, popValue,           \* its locals "next" and "data"
  writeSeen,                   \* writeHead_ as the reader saw it last
  received                     \* what the last successful pop() returned

writer == <<pushing, pushNext, pushValue, readSeen>>
reader == <<popping, popNext, popValue, writeSeen, received>>
vars   == <<readHead, writeHead, data, writer, reader>>

Index == 0..N-1

\* Faulty: the index does not wrap.
SuccNoWrap(i) == i + 1

Succ(i) == IF i + 1 = N THEN 0 ELSE i + 1        \* (i + 1) % N
Dist(i, j) == IF i <= j THEN j - i ELSE j - i + N
Plus(i, k) == IF i + k < N THEN i + k ELSE i + k - N

TypeOK ==
  /\ readHead \in Index /\ writeHead \in Index
  /\ data \in [Index -> Values \cup {NoValue}]
  /\ pushing \in {"idle", "write", "publish"}
  /\ pushNext \in Index /\ pushValue \in Values \cup {NoValue}
  /\ readSeen \in Index
  /\ popping \in {"idle", "read", "advance", "clear"}
  /\ popNext \in Index /\ popValue \in Values \cup {NoValue}
  /\ writeSeen \in Index
  /\ received \in Values \cup {NoValue}

Init ==
  /\ readHead = 0 /\ writeHead = 0
  /\ data = [i \in Index |-> NoValue]
  /\ pushing = "idle" /\ pushNext = 0 /\ pushValue = NoValue
  /\ readSeen = 0
  /\ popping = "idle" /\ popNext = 0 /\ popValue = NoValue
  /\ writeSeen = 0
  /\ received = NoValue

\* the values a load may return: from the one seen before to the current one
Visible(seen, current) ==
  {i \in Index : Dist(seen, i) <= Dist(seen, current)}

--------------------------------------------------------------------------------
(* The writer *)

\* Faulty: the writer does not test for a full buffer.
PushUnchecked ==
  /\ pushing = "idle"
  /\ readSeen' \in Visible(readSeen, readHead)
  /\ pushing' = "write"
  /\ pushNext' = Succ(writeHead)
  /\ pushValue' \in Values
  /\ UNCHANGED <<readHead, writeHead, data, reader>>

\* a full buffer makes push() return false
PushCheck ==
  /\ pushing = "idle"
  /\ readSeen' \in Visible(readSeen, readHead)
  /\ IF Succ(writeHead) = readSeen'
       THEN UNCHANGED <<pushing, pushNext, pushValue>>
       ELSE /\ pushing' = "write"
            /\ pushNext' = Succ(writeHead)
            /\ pushValue' \in Values
  /\ UNCHANGED <<readHead, writeHead, data, reader>>

PushWrite ==
  /\ pushing = "write"
  /\ data' = [data EXCEPT ![pushNext] = pushValue]
  /\ pushing' = "publish"
  /\ UNCHANGED <<readHead, writeHead, pushNext, pushValue, readSeen, reader>>

PushPublish ==
  /\ pushing = "publish"
  /\ writeHead' = pushNext
  /\ pushing' = "idle"
  /\ UNCHANGED <<readHead, data, pushNext, pushValue, readSeen, reader>>

--------------------------------------------------------------------------------
(* The reader *)

\* an empty buffer makes pop() return false
PopCheck ==
  /\ popping = "idle"
  /\ writeSeen' \in Visible(writeSeen, writeHead)
  /\ IF readHead = writeSeen'
       THEN UNCHANGED <<popping, popNext>>
       ELSE popping' = "read" /\ popNext' = Succ(readHead)
  /\ UNCHANGED <<readHead, writeHead, data, popValue, received, writer>>

\* Faulty: the element is released before it is read.
PopReadEarlyRelease ==
  /\ popping = "read"
  /\ popValue' = data[popNext]
  /\ readHead' = popNext
  /\ popping' = "advance"
  /\ UNCHANGED <<writeHead, data, popNext, writeSeen, received, writer>>

PopRead ==
  /\ popping = "read"
  /\ popValue' = data[popNext]
  /\ popping' = "advance"
  /\ UNCHANGED <<readHead, writeHead, data, popNext, writeSeen, received, writer>>

\* Faulty: the index of the element that was read is not stored.
PopAdvanceKeep ==
  /\ popping = "advance"
  /\ received' = popValue
  /\ popping' = "idle"
  /\ UNCHANGED <<readHead, writeHead, data, popNext, popValue, writeSeen, writer>>

PopAdvance ==
  /\ popping = "advance"
  /\ readHead' = popNext
  /\ received' = popValue
  /\ popping' = "idle"
  /\ UNCHANGED <<writeHead, data, popNext, popValue, writeSeen, writer>>

ClearLoad ==
  /\ popping = "idle"
  /\ writeSeen' \in Visible(writeSeen, writeHead)
  /\ popping' = "clear"
  /\ UNCHANGED <<readHead, writeHead, data, popNext, popValue, received, writer>>

ClearStore ==
  /\ popping = "clear"
  /\ readHead' = writeSeen
  /\ popping' = "idle"
  /\ UNCHANGED <<writeHead, data, popNext, popValue, writeSeen, received, writer>>

--------------------------------------------------------------------------------
Next == \/ PushCheck \/ PushWrite \/ PushPublish
        \/ PopCheck \/ PopRead \/ PopAdvance \/ ClearLoad \/ ClearStore

Spec == Init /\ [][Next]_vars

\* next() and poll() call pop() again and again, and a store becomes visible in
\* the end: the reader does not see the old index for ever.
Fairness == /\ WF_vars(PushWrite \/ PushPublish)
            /\ WF_vars(PopRead \/ PopAdvance \/ ClearStore)
            /\ SF_vars(PopCheck /\ writeSeen' = writeHead)

FairSpec == Spec /\ Fairness

--------------------------------------------------------------------------------
\* The writer and the reader are never at the same element at once: the only
\* data that is not atomic is free of races.
NoRace == pushing = "write" /\ popping = "read" => pushNext # popNext

\* What the buffer holds is a BoundedFifo of N - 1 values: nothing is lost,
\* duplicated, overtaken or changed on the way, however late an index is seen.
Items == [k \in 1..Dist(readHead, writeHead) |-> data[Plus(readHead, k)]]
Fifo == INSTANCE BoundedFifo
          WITH Capacity <- N - 1,
               items <- Items,
               offered <- IF pushing = "idle" THEN NoValue ELSE pushValue
FifoSpec == Fifo!Spec

\* Under FairSpec a value in the buffer does not stay there: it is received, or
\* discarded by clear().
Delivered ==
  \A v \in Values : (\E k \in DOMAIN Items : Items[k] = v)
                      ~> (received = v \/ popping = "clear")
================================================================================
