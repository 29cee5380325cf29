------------------------------- MODULE WorkQueue -------------------------------
(***************************************************************************)
(* Pd's work queue (pd/src/vstplugin~.cpp, t_workqueue): the Pd thread     *)
(* pushes items, one worker thread performs them and sends them back, the  *)
(* Pd thread polls them.  What an item does is left to the module that     *)
(* uses the queue (PdObject).                                              *)
(*                                                                         *)
(* Each way there is a LockfreeFifo; one push or pop is one step here,     *)
(* which LockfreeFifo justifies.  Unlike there, the indices and elements   *)
(* are needed as they are, because cancel() walks over them.               *)
(***************************************************************************)
EXTENDS Integers, Sequences

CONSTANTS N,       \* size of the FIFOs; N - 1 items fit
          MaxId    \* bound: items pushed

ASSUME QueueAssumption == N \in Nat \ {0} /\ MaxId \in Nat

VARIABLES
  nrt,        \* w_nrt_queue
  nrt2,       \* w_nrt_queue2, for what does not fit into w_nrt_queue
  rt,         \* w_rt_queue
  counter,    \* w_counter, the next id
  worker,     \* where the worker thread is
  item,       \* the item it performs
  source      \* which of its two loops it is in

queue == <<nrt, nrt2, rt, counter, worker, item, source>>

Ids   == 0..MaxId-1
Items == [id : Ids \cup {-1}, work : BOOLEAN, cb : BOOLEAN]
NoItem == [id |-> -1, work |-> FALSE, cb |-> FALSE]
Ring  == [read : 0..N-1, write : 0..N-1, data : [0..N-1 -> Items]]

QueueTypeOK ==
  /\ nrt \in Ring /\ rt \in Ring
  /\ nrt2 \in Seq(Items)
  /\ counter \in 0..MaxId
  /\ worker \in {"ring", "queue2", "sleep", "waiting", "woken",
                 "work", "busy", "send"}
  /\ item \in Items
  /\ source \in {"ring", "queue2"}

QueueInit ==
  /\ nrt = [read |-> 0, write |-> 0, data |-> [i \in 0..N-1 |-> NoItem]]
  /\ rt = [read |-> 0, write |-> 0, data |-> [i \in 0..N-1 |-> NoItem]]
  /\ nrt2 = <<>>
  /\ counter = 0
  /\ worker = "ring" /\ item = NoItem /\ source = "ring"

\* Faulty: no wrap.
AfterNoWrap(i) == i + 1

After(i)  == (i + 1) % N
Full(q)   == After(q.write) = q.read
Empty(q)  == q.read = q.write
First(q)  == q.data[After(q.read)]
With(q, x) == [q EXCEPT !.data[After(q.write)] = x, !.write = After(q.write)]
Without(q) == [q EXCEPT !.read = After(q.read)]
\* the items in a ring
Contents(q) == {q.data[i] : i \in {j \in 0..N-1 : (j - q.read - 1) % N
                                                     < (q.write - q.read) % N}}

\* the worker holds w_mutex, which cancel() needs
Locked == worker \in {"ring", "queue2", "sleep"}

--------------------------------------------------------------------------------
(* The Pd thread *)

\* Faulty: the second queue is a stack.
PushLifo(cb) ==
  /\ counter < MaxId
  /\ counter' = counter + 1
  /\ nrt2' = <<[id |-> counter, work |-> TRUE, cb |-> cb]>> \o nrt2
  /\ worker' = IF worker = "waiting" THEN "woken" ELSE worker
  /\ UNCHANGED <<nrt, rt, item, source>>

\* dopush(): notify_all() is called without w_mutex and reaches the worker only
\* if it waits already
Push(cb) ==
  /\ counter < MaxId
  /\ counter' = counter + 1
  /\ LET x == [id |-> counter, work |-> TRUE, cb |-> cb] IN
     IF Full(nrt) THEN nrt2' = Append(nrt2, x) /\ UNCHANGED nrt
                  ELSE nrt' = With(nrt, x) /\ UNCHANGED nrt2
  /\ worker' = IF worker = "waiting" THEN "woken" ELSE worker
  /\ UNCHANGED <<rt, item, source>>

\* the indices that cancel() visits: from read up to but without write, although
\* the items are behind read up to and with write
Visited(q) == {i \in 0..N-1 : (i - q.read) % N < (q.write - q.read) % N}

Silenced(y) == [y EXCEPT !.work = FALSE, !.cb = FALSE]

\* cancel(): the first element with this id, in the order of the three queues
Cancel(id) ==
  /\ ~Locked
  /\ LET inNrt  == {i \in Visited(nrt) : nrt.data[i].id = id}
         inNrt2 == {i \in DOMAIN nrt2 : nrt2[i].id = id}
         inRt   == {i \in Visited(rt) : rt.data[i].id = id}
     IN \/ /\ inNrt # {}
           /\ nrt' = [nrt EXCEPT !.data = [i \in 0..N-1 |->
                        IF i \in inNrt THEN Silenced(@[i]) ELSE @[i]]]
           /\ UNCHANGED <<nrt2, rt>>
        \/ /\ inNrt = {} /\ inNrt2 # {}
           /\ nrt2' = [i \in DOMAIN nrt2 |->
                        IF i \in inNrt2 THEN Silenced(nrt2[i]) ELSE nrt2[i]]
           /\ UNCHANGED <<nrt, rt>>
        \/ /\ inNrt = {} /\ inNrt2 = {}
           /\ rt' = [rt EXCEPT !.data = [i \in 0..N-1 |->
                       IF i \in inRt THEN [@[i] EXCEPT !.cb = FALSE] ELSE @[i]]]
           /\ UNCHANGED <<nrt, nrt2>>
        \* an element that was never written: its id may happen to be this one
        \/ /\ \E i \in Visited(nrt) : nrt.data[i] = NoItem
           /\ UNCHANGED <<nrt, nrt2, rt>>
  /\ UNCHANGED <<counter, worker, item, source>>

\* one turn of poll(); the callback is the user's
Poll == /\ ~Empty(rt)
        /\ rt' = Without(rt)
        /\ UNCHANGED <<nrt, nrt2, counter, worker, item, source>>

--------------------------------------------------------------------------------
(* The worker thread *)

Start(x) == /\ item' = x
            /\ worker' = IF x.work THEN "work" ELSE "send"

\* first the lock-free FIFO
TakeRing ==
  /\ worker = "ring"
  /\ IF Empty(nrt) THEN /\ worker' = "queue2" /\ source' = "queue2"
                        /\ UNCHANGED <<nrt, item>>
                   ELSE /\ Start(First(nrt))
                        /\ nrt' = Without(nrt)
                        /\ UNCHANGED source
  /\ UNCHANGED <<nrt2, rt, counter>>

\* then the other one, until it is empty
TakeQueue2 ==
  /\ worker = "queue2"
  /\ IF nrt2 = <<>> THEN worker' = "sleep" /\ UNCHANGED <<nrt2, item>>
                    ELSE Start(Head(nrt2)) /\ nrt2' = Tail(nrt2)
  /\ UNCHANGED <<nrt, rt, counter, source>>

Wait == /\ worker = "sleep"
        /\ worker' = "waiting"
        /\ UNCHANGED <<nrt, nrt2, rt, counter, item, source>>

\* wait() returns, after a notification or without a reason
Wake == /\ worker \in {"waiting", "woken"}
        /\ worker' = "ring" /\ source' = "ring"
        /\ UNCHANGED <<nrt, nrt2, rt, counter, item>>

\* Faulty: the worker does not try again if there is no room.
SendOnce ==
  /\ worker = "send"
  /\ rt' = IF Full(rt) THEN rt ELSE With(rt, item)
  /\ worker' = source
  /\ item' = NoItem
  /\ UNCHANGED <<nrt, nrt2, counter, source>>

\* back to the Pd thread, as soon as there is room
Send == /\ worker = "send"
        /\ ~Full(rt)
        /\ rt' = With(rt, item)
        /\ worker' = source
        /\ item' = NoItem
        /\ UNCHANGED <<nrt, nrt2, counter, source>>

\* the worker has performed its item
Performed == /\ worker' = "send"
             /\ UNCHANGED <<nrt, nrt2, rt, counter, item, source>>

--------------------------------------------------------------------------------
\* Where the items are that have been pushed and not yet been polled.
Queued   == Contents(nrt) \cup {nrt2[i] : i \in DOMAIN nrt2}
InFlight == {x.id : x \in Queued \cup Contents(rt) \cup {item}} \ {-1}
================================================================================
