------------------------------ MODULE PdEditorProofs ------------------------------
(***************************************************************************)
(* Theorems about PdEditor, for any number of objects, plugins, messages   *)
(* and events, when requests do not overlap and no object is sent an open  *)
(* while one is under way.                                                 *)
(*                                                                         *)
(* An instance has one owner: an object, a result on its way to one, an    *)
(* answer to a thread, or a piece of work that is going to destroy it.     *)
(* One request is under way at a time, so that what its caller finds in    *)
(* data is the answer to it, and nothing that is queued for a window comes *)
(* after the request that destroys it.                                     *)
(***************************************************************************)
EXTENDS PdEditor, SequenceTheorems, TLAPS

Ids   == Instances \cup {None}
Names == Infos \cup {None}

Requests  == {"create", "destroy"}
Shows     == {"open", "close"}
Answers   == [info : Names, plugin : Ids, err : Names]
Callers   == [pc : {"away", "waiting", "woken", "back"}, op : Requests \cup {None},
              arg : Infos \cup Ids, result : Ids, err : Names]
Events    == [type : Requests \cup Shows \cup {"update"}, slot : Slots \cup {None},
              window : Ids, host : BOOLEAN]
Existing  == [info : Infos, window : BOOLEAN, open : BOOLEAN]
Items     == [op : Requests, arg : Infos \cup Instances, object : Objects,
              uithread : BOOLEAN]

LoopTypes ==
  /\ platform \in {"x11", "win32"}
  /\ ready_ \in BOOLEAN
  /\ data \in [Slots -> Answers]
  /\ caller \in [Threads -> Callers]
  /\ events \in Seq(Events)
  /\ made \in 0 .. MaxPlugins
  /\ DOMAIN plugins \subseteq 1 .. made
  /\ plugins \in [DOMAIN plugins -> Existing]

EditorTypes ==
  /\ x_plugin \in [Objects -> Ids]
  /\ x_uithread \in [Objects -> BOOLEAN]
  /\ opening \in [Objects -> BOOLEAN]
  /\ work \in Seq(Items)
  /\ results \in Seq(Objects \X Ids)
  /\ pd = [pc |-> pd.pc, object |-> pd.object, left |-> pd.left]
  /\ pd.pc \in {"open", "close"} => pd.object \in Objects

\* At most one thread waits for the UI thread, and it holds lock_.
Busy(t) == caller[t].pc \in {"waiting", "woken"}
OneRequest ==
  /\ platform = "x11"   => \A t \in Threads : Busy(t) => lock_ = t
  /\ platform = "win32" => \A t, u \in Threads :
                             caller[t].pc # "away" /\ caller[u].pc # "away" => t = u

\* What thread t asked for and what it is going to find.
Asked(t, d) ==
  /\ caller[t].op = "create"  => /\ d.info = caller[t].arg /\ caller[t].arg \in Infos
                                 /\ d.plugin = None
  /\ caller[t].op = "destroy" => d.plugin = caller[t].arg
Answered(t, d) ==
  IF caller[t].op = "create"
  THEN /\ caller[t].arg \in Infos
       /\ \/ d.plugin \in DOMAIN plugins /\ plugins[d.plugin].info = caller[t].arg
          \/ d.plugin = None /\ d.err = caller[t].arg
  ELSE caller[t].arg \notin DOMAIN plugins
Conversation ==
  /\ \A t \in Threads : caller[t].pc # "away" =>
       /\ caller[t].op \in Requests
       /\ caller[t].op = "destroy" => caller[t].arg \in 1 .. made
  /\ \A t \in Threads : Busy(t) =>
       IF ready_ THEN Answered(t, data[Slot(t)]) ELSE Asked(t, data[Slot(t)])
  /\ \A i \in DOMAIN events : events[i].type \in Requests =>
       /\ ~ready_
       /\ \E t \in Threads : /\ Busy(t) /\ events[i].slot = Slot(t)
                             /\ events[i].type = caller[t].op
  /\ \A i, j \in DOMAIN events :
       events[i].type \in Requests /\ events[j].type \in Requests => i = j

\* While the worker asks, its piece of work stays; while Pd asks, it does nothing else.
Occupied ==
  /\ caller["worker"].pc # "away" =>
       /\ work # <<>> /\ Head(work).uithread
       /\ caller["worker"].op = Head(work).op /\ caller["worker"].arg = Head(work).arg
  /\ caller["pd"].pc # "away" =>
       pd.pc = IF caller["pd"].op = "create" THEN "open" ELSE "close"
  /\ \A k \in DOMAIN work :
       /\ work[k].op = "create"  => work[k].arg = work[k].object
       /\ work[k].op = "destroy" => work[k].arg \in 1 .. made

\* What a thread owns: the instance it is being given or, on the Pd thread, gives away.
Got(c, d, ready) ==
  IF c.pc = "back" THEN c.result
  ELSE IF c.pc \in {"waiting", "woken"} /\ ready THEN d.plugin ELSE None
Has(t, c, d, ready) ==
  IF c.pc = "away" THEN None
  ELSE IF c.op = "create" THEN Got(c, d, ready)
  ELSE IF t = "pd" THEN c.arg ELSE None
owned == [t \in Threads |-> Has(t, caller[t], data[Slot(t)], ready_)]

\* the instance that a piece of work destroys
Doomed(item) == IF item.op = "destroy" THEN item.arg ELSE None

\* Objects, threads, results and work own no instance in common.
Apart(x, a, r, w) ==
  /\ \A o, u \in Objects : x[o] = x[u] /\ x[o] # None => o = u
  /\ \A s, t \in Threads : a[s] = a[t] /\ a[s] # None => s = t
  /\ \A k, l \in DOMAIN r : r[k][2] = r[l][2] /\ r[k][2] # None => k = l
  /\ \A k, l \in DOMAIN w : Doomed(w[k]) = Doomed(w[l]) /\ Doomed(w[k]) # None => k = l
  /\ \A o \in Objects : x[o] # None =>
       /\ \A t \in Threads : a[t] # x[o]
       /\ \A k \in DOMAIN r : r[k][2] # x[o]
       /\ \A k \in DOMAIN w : Doomed(w[k]) # x[o]
  /\ \A t \in Threads : a[t] # None =>
       /\ \A k \in DOMAIN r : r[k][2] # a[t]
       /\ \A k \in DOMAIN w : Doomed(w[k]) # a[t]
  /\ \A k \in DOMAIN r, l \in DOMAIN w : r[k][2] # None => r[k][2] # Doomed(w[l])
Unowned(v, x, a, r, w) ==
  /\ \A o \in Objects : x[o] # v
  /\ \A t \in Threads : a[t] # v
  /\ \A k \in DOMAIN r : r[k][2] # v
  /\ \A k \in DOMAIN w : Doomed(w[k]) # v
Owners ==
  /\ Apart(x_plugin, owned, results, work)
  /\ \A v \in Instances : v > made => Unowned(v, x_plugin, owned, results, work)

\* An object that waits for its plugin waits for one, and a plugin with a window was
\* made, and is going to be destroyed, on the UI thread.
OnePlugin(r, w) ==
  /\ \A k, l \in DOMAIN r : r[k][1] = r[l][1] => k = l
  /\ \A k, l \in DOMAIN w :
       w[k].op = "create" /\ w[l].op = "create" /\ w[k].object = w[l].object => k = l
  /\ \A k \in DOMAIN r, l \in DOMAIN w : w[l].op = "create" => r[k][1] # w[l].object
Where ==
  /\ OnePlugin(results, work)
  /\ \A o \in Objects : HasWindow(x_plugin[o]) => x_uithread[o]
  /\ \A k \in DOMAIN results :
       /\ opening[results[k][1]]
       /\ HasWindow(results[k][2]) => x_uithread[results[k][1]]
  /\ \A k \in DOMAIN work :
       IF work[k].op = "create"
       THEN opening[work[k].object] /\ (work[k].uithread <=> x_uithread[work[k].object])
       ELSE HasWindow(work[k].arg) => work[k].uithread
  /\ pd.pc = "open" => x_uithread[pd.object]

\* An object that waits for its plugin has none, so that none is replaced.
Vacant ==
  /\ \A o \in Objects : opening[o] => x_plugin[o] = None
  /\ pd.pc = "open" => ~opening[pd.object] /\ x_plugin[pd.object] = None

\* What the host wants to show is there, and will be when its turn comes.
Shown ==
  /\ ~lost
  /\ \A i \in DOMAIN events : events[i].type \in Shows /\ events[i].host =>
       /\ HasWindow(events[i].window)
       /\ \A j \in DOMAIN events : j < i /\ events[j].type = "destroy" =>
            data[events[j].slot].plugin # events[i].window

IInv == /\ LoopTypes /\ EditorTypes /\ OneRequest /\ Conversation /\ Occupied
        /\ Owners /\ Where /\ Vacant /\ Shown /\ OwnAnswer
--------------------------------------------------------------------------------
(* Sequences *)

LEMMA AppendAt ==
  ASSUME NEW S, NEW s \in Seq(S), NEW e \in S
  PROVE  /\ Append(s, e) \in Seq(S)
         /\ DOMAIN Append(s, e) = DOMAIN s \cup {Len(s) + 1}
         /\ Len(s) + 1 \notin DOMAIN s /\ Append(s, e)[Len(s) + 1] = e
         /\ \A k \in DOMAIN s : Append(s, e)[k] = s[k] /\ k < Len(s) + 1
  OBVIOUS

LEMMA TailAt ==
  ASSUME NEW S, NEW s \in Seq(S), s # <<>>
  PROVE  /\ Tail(s) \in Seq(S) /\ Head(s) = s[1] /\ 1 \in DOMAIN s /\ Head(s) \in S
         /\ \A k \in DOMAIN Tail(s) : /\ k \in Nat /\ k + 1 \in DOMAIN s
                                      /\ k + 1 # 1 /\ Tail(s)[k] = s[k + 1]
  OBVIOUS

--------------------------------------------------------------------------------
(* Owners: an instance that is given up has no owner, one without an owner *)
(* can be given to anyone.                                                 *)

LEMMA DropObject ==
  ASSUME NEW x \in [Objects -> Ids], NEW a, NEW r, NEW w, Apart(x, a, r, w),
         NEW o \in Objects, NEW y, y = [x EXCEPT ![o] = None]
  PROVE  /\ Apart(y, a, r, w)
         /\ \A v \in Instances : v = x[o] \/ Unowned(v, x, a, r, w) => Unowned(v, y, a, r, w)
  <1>1. \A u \in Objects : y[u] = IF u = o THEN None ELSE x[u]
    OBVIOUS
  <1>2. None \notin Instances
    BY LoopAssumption DEF Instances
  <1>3. Apart(y, a, r, w)
    BY <1>1 DEF Apart
  <1>4. \A v \in Instances : v = x[o] \/ Unowned(v, x, a, r, w) => Unowned(v, y, a, r, w)
    BY <1>1, <1>2 DEF Apart, Unowned
  <1> QED
    BY <1>3, <1>4

LEMMA DropAnswer ==
  ASSUME NEW x, NEW a, DOMAIN a = Threads, NEW r, NEW w, Apart(x, a, r, w),
         NEW t \in Threads, NEW b, b = [a EXCEPT ![t] = None]
  PROVE  /\ Apart(x, b, r, w)
         /\ \A v \in Instances : v = a[t] \/ Unowned(v, x, a, r, w) => Unowned(v, x, b, r, w)
  <1>1. \A u \in Threads : b[u] = IF u = t THEN None ELSE a[u]
    OBVIOUS
  <1>2. None \notin Instances
    BY LoopAssumption DEF Instances
  <1>3. Apart(x, b, r, w)
    BY <1>1 DEF Apart
  <1>4. \A v \in Instances : v = a[t] \/ Unowned(v, x, a, r, w) => Unowned(v, x, b, r, w)
    BY <1>1, <1>2 DEF Apart, Unowned
  <1> QED
    BY <1>3, <1>4

LEMMA DropResult ==
  ASSUME NEW x, NEW a, NEW r \in Seq(Objects \X Ids), r # <<>>, NEW w, Apart(x, a, r, w)
  PROVE  /\ Apart(x, a, Tail(r), w)
         /\ \A v \in Instances :
              v = Head(r)[2] \/ Unowned(v, x, a, r, w) => Unowned(v, x, a, Tail(r), w)
  <1> DEFINE q == Tail(r)
  <1>1. /\ Head(r) = r[1] /\ 1 \in DOMAIN r
        /\ \A k \in DOMAIN q : k \in Nat /\ k + 1 \in DOMAIN r /\ k + 1 # 1 /\ q[k] = r[k + 1]
    BY TailAt
  <1> HIDE DEF q
  <1>2. \A k, l \in DOMAIN q : k + 1 = l + 1 => k = l
    BY <1>1
  <1>3. None \notin Instances
    BY LoopAssumption DEF Instances
  <1>4. Apart(x, a, q, w)
    BY <1>1, <1>2 DEF Apart
  <1>5. \A v \in Instances :
          v = Head(r)[2] \/ Unowned(v, x, a, r, w) => Unowned(v, x, a, q, w)
    BY <1>1, <1>3 DEF Apart, Unowned
  <1> QED
    BY <1>4, <1>5 DEF q

LEMMA DropWork ==
  ASSUME NEW x, NEW a, NEW r, NEW w \in Seq(Items), w # <<>>, Apart(x, a, r, w)
  PROVE  /\ Apart(x, a, r, Tail(w))
         /\ \A v \in Instances : Unowned(v, x, a, r, w) => Unowned(v, x, a, r, Tail(w))
  <1> DEFINE q == Tail(w)
  <1>1. \A k \in DOMAIN q : k \in Nat /\ k + 1 \in DOMAIN w /\ k + 1 # 1 /\ q[k] = w[k + 1]
    BY TailAt
  <1> HIDE DEF q
  <1>2. \A k, l \in DOMAIN q : k + 1 = l + 1 => k = l
    BY <1>1
  <1>3. Apart(x, a, r, q)
    BY <1>1, <1>2 DEF Apart
  <1>4. \A v \in Instances : Unowned(v, x, a, r, w) => Unowned(v, x, a, r, q)
    BY <1>1 DEF Unowned
  <1> QED
    BY <1>3, <1>4 DEF q

LEMMA GiveObject ==
  ASSUME NEW x \in [Objects -> Ids], NEW a, NEW r, NEW w, Apart(x, a, r, w),
         NEW o \in Objects, NEW v, v = None \/ Unowned(v, x, a, r, w)
  PROVE  Apart([x EXCEPT ![o] = v], a, r, w)
  <1> DEFINE y == [x EXCEPT ![o] = v]
  <1>1. \A u \in Objects : y[u] = IF u = o THEN v ELSE x[u]
    OBVIOUS
  <1> HIDE DEF y
  <1>2. Apart(y, a, r, w)
    BY <1>1 DEF Apart, Unowned
  <1> QED
    BY <1>2 DEF y

LEMMA GiveAnswer ==
  ASSUME NEW x, NEW a, DOMAIN a = Threads, NEW r, NEW w, Apart(x, a, r, w),
         NEW t \in Threads, NEW v, v = None \/ Unowned(v, x, a, r, w)
  PROVE  Apart(x, [a EXCEPT ![t] = v], r, w)
  <1> DEFINE b == [a EXCEPT ![t] = v]
  <1>1. \A u \in Threads : b[u] = IF u = t THEN v ELSE a[u]
    OBVIOUS
  <1> HIDE DEF b
  <1>2. Apart(x, b, r, w)
    BY <1>1 DEF Apart, Unowned
  <1> QED
    BY <1>2 DEF b

LEMMA GiveResult ==
  ASSUME NEW x, NEW a, NEW r \in Seq(Objects \X Ids), NEW w, Apart(x, a, r, w),
         NEW e \in Objects \X Ids, e[2] = None \/ Unowned(e[2], x, a, r, w)
  PROVE  Apart(x, a, Append(r, e), w)
  <1> DEFINE q == Append(r, e)
             n == Len(r) + 1
  <1>1. /\ DOMAIN q = DOMAIN r \cup {n} /\ n \notin DOMAIN r /\ q[n] = e
        /\ \A k \in DOMAIN r : q[k] = r[k]
    BY AppendAt
  <1> HIDE DEF q, n
  <1>2. Apart(x, a, q, w)
    BY <1>1 DEF Apart, Unowned
  <1> QED
    BY <1>2 DEF q

LEMMA GiveWork ==
  ASSUME NEW x, NEW a, NEW r, NEW w \in Seq(Items), Apart(x, a, r, w),
         NEW e \in Items, Doomed(e) = None \/ Unowned(Doomed(e), x, a, r, w)
  PROVE  Apart(x, a, r, Append(w, e))
  <1> DEFINE q == Append(w, e)
             n == Len(w) + 1
  <1>1. /\ DOMAIN q = DOMAIN w \cup {n} /\ n \notin DOMAIN w /\ q[n] = e
        /\ \A k \in DOMAIN w : q[k] = w[k]
    BY AppendAt
  <1> HIDE DEF q, n
  <1>2. Apart(x, a, r, q)
    BY <1>1 DEF Apart, Unowned
  <1> QED
    BY <1>2 DEF q

--------------------------------------------------------------------------------
(* What the steps of the UI thread and its callers do *)

LEMMA Nones == None \notin Threads /\ None \notin Infos /\ None \notin Instances
  BY LoopAssumption DEF Instances

\* updating a caller
LEMMA CallerAsks ==
  ASSUME NEW op, NEW arg
  PROVE  [Away EXCEPT !.pc = "waiting", !.op = op, !.arg = arg]
           = [pc |-> "waiting", op |-> op, arg |-> arg, result |-> None, err |-> None]
  <1> DEFINE q == [Away EXCEPT !.pc = "waiting"]
             s == [q EXCEPT !.op = op]
  <1>1. [Away EXCEPT !.pc = "waiting", !.op = op, !.arg = arg] = [s EXCEPT !.arg = arg]
    OBVIOUS
  <1>2. q = [pc |-> "waiting", op |-> None, arg |-> None, result |-> None, err |-> None]
    BY DEF Away
  <1> HIDE DEF q
  <1>3. s = [pc |-> "waiting", op |-> op, arg |-> None, result |-> None, err |-> None]
    BY <1>2
  <1> HIDE DEF s
  <1>4. [s EXCEPT !.arg = arg]
          = [pc |-> "waiting", op |-> op, arg |-> arg, result |-> None, err |-> None]
    BY <1>3
  <1> QED
    BY <1>1, <1>4

LEMMA CallerReturns ==
  ASSUME NEW c, c = [pc |-> c.pc, op |-> c.op, arg |-> c.arg, result |-> c.result, err |-> c.err],
         NEW p, NEW e
  PROVE  [c EXCEPT !.pc = "back", !.result = p, !.err = e]
           = [pc |-> "back", op |-> c.op, arg |-> c.arg, result |-> p, err |-> e]
  <1> DEFINE q == [c EXCEPT !.pc = "back"]
             s == [q EXCEPT !.result = p]
  <1>1. [c EXCEPT !.pc = "back", !.result = p, !.err = e] = [s EXCEPT !.err = e]
    OBVIOUS
  <1>2. q = [pc |-> "back", op |-> c.op, arg |-> c.arg, result |-> c.result, err |-> c.err]
    OBVIOUS
  <1> HIDE DEF q
  <1>3. s = [pc |-> "back", op |-> c.op, arg |-> c.arg, result |-> p, err |-> c.err]
    BY <1>2
  <1> HIDE DEF s
  <1>4. [s EXCEPT !.err = e] = [pc |-> "back", op |-> c.op, arg |-> c.arg, result |-> p, err |-> e]
    BY <1>3
  <1> QED
    BY <1>1, <1>4

LEMMA SlotType ==
  ASSUME LoopTypes, NEW t \in Threads
  PROVE  Slot(t) \in Slots /\ data[Slot(t)] \in Answers
  <1>1. Slot(t) \in Slots
    BY DEF Slot, Slots
  <1> QED
    BY <1>1 DEF LoopTypes

LEMMA OneBusy ==
  ASSUME LoopTypes, OneRequest, NEW t \in Threads, NEW u \in Threads, Busy(t), Busy(u)
  PROVE  t = u
  BY DEF LoopTypes, OneRequest, Busy

\* A request begins when nobody waits, and on Win32 when nobody has an answer either.
Requested(t, op, arg) ==
  /\ caller[t].pc = "away" /\ \A u \in Threads : ~Busy(u)
  /\ platform = "win32" => \A u \in Threads : caller[u].pc = "away"
  /\ \E c \in Callers : /\ caller' = [caller EXCEPT ![t] = c]
                        /\ c.pc = "waiting" /\ c.op = op /\ c.arg = arg
  /\ \E d \in Answers : /\ data' = [data EXCEPT ![Slot(t)] = d]
                        /\ op = "create"  => d.info = arg /\ d.plugin = None
                        /\ op = "destroy" => d.plugin = arg
  /\ \E e \in Events : /\ events' = Append(events, e)
                       /\ e.type = op /\ e.slot = Slot(t)
  /\ ready_' = FALSE /\ lock_' = (IF platform = "x11" THEN t ELSE None)
  /\ UNCHANGED <<platform, ui, made, plugins, lost>>

LEMMA RequestDoes ==
  ASSUME LoopTypes, OneRequest, ~Overlaps, NEW t \in Threads, NEW op \in Requests, NEW arg,
         Request(t, op, arg), op = "create" => arg \in Infos, op = "destroy" => arg \in Instances
  PROVE  Requested(t, op, arg)
  <1>1. platform \in {"x11", "win32"} /\ LockFree(t) /\ caller[t].pc = "away"
    BY DEF LoopTypes, Request
  <1>2. /\ \A u \in Threads : ~Busy(u)
        /\ platform = "win32" => \A u \in Threads : caller[u].pc = "away"
    BY <1>1, Nones DEF LockFree, OneRequest, Busy
  <1>3. \E c \in Callers : /\ caller' = [caller EXCEPT ![t] = c]
                           /\ c.pc = "waiting" /\ c.op = op /\ c.arg = arg
    <2> DEFINE c == [pc |-> "waiting", op |-> op, arg |-> arg, result |-> None, err |-> None]
    <2>1. caller' = [caller EXCEPT ![t] = [Away EXCEPT !.pc = "waiting", !.op = op, !.arg = arg]]
      BY DEF Request
    <2>2. [Away EXCEPT !.pc = "waiting", !.op = op, !.arg = arg] = c
      BY CallerAsks, Zenon
    <2>3. c \in Callers /\ c.pc = "waiting" /\ c.op = op /\ c.arg = arg
      BY DEF Callers, Ids, Names, Requests
    <2> HIDE DEF c
    <2>4. caller' = [caller EXCEPT ![t] = c]
      BY <2>1, <2>2, Zenon
    <2> QED
      BY <2>3, <2>4
  <1>4. \E d \in Answers :
          /\ data' = [data EXCEPT ![Slot(t)] = d]
          /\ op = "create"  => d.info = arg /\ d.plugin = None
          /\ op = "destroy" => d.plugin = arg
    <2> DEFINE d == [info |-> IF op = "create" THEN arg ELSE None,
                     plugin |-> IF op = "create" THEN None ELSE arg,
                     err |-> IF platform = "x11" THEN data[Slot(t)].err ELSE None]
    <2>1. data' = [data EXCEPT ![Slot(t)] = d]
      BY DEF Request
    <2>2. data[Slot(t)].err \in Names
      BY SlotType DEF Answers
    <2>3. d \in Answers
      BY <2>2 DEF Answers, Names, Ids, Requests
    <2> QED
      BY <2>1, <2>3
  <1>5. \E e \in Events : events' = Append(events, e) /\ e.type = op /\ e.slot = Slot(t)
    <2> DEFINE e == [type |-> op, slot |-> Slot(t), window |-> None, host |-> TRUE]
    <2>1. e \in Events
      BY SlotType DEF Events, Ids
    <2> QED
      BY <2>1 DEF Request
  <1> QED
    BY <1>1, <1>2, <1>3, <1>4, <1>5 DEF Request, Requested

LEMMA FirstEvent ==
  ASSUME LoopTypes, NEW type, Handle(type)
  PROVE  /\ events # <<>> /\ Head(events) = events[1] /\ Head(events) \in Events
         /\ 1 \in DOMAIN events /\ events[1].type = type /\ events' = Tail(events)
         /\ Tail(events) \in Seq(Events)
         /\ \A k \in DOMAIN Tail(events) : /\ k \in Nat /\ k + 1 \in DOMAIN events
                                           /\ k + 1 # 1 /\ Tail(events)[k] = events[k + 1]
  <1>1. events \in Seq(Events) /\ events # <<>> /\ events' = Tail(events)
        /\ Head(events).type = type
    BY DEF LoopTypes, Handle
  <1> QED
    BY <1>1, TailAt

\* The request that the UI thread handles is that of the thread that waits.
LEMMA Asking ==
  ASSUME LoopTypes, OneRequest, Conversation, NEW type \in Requests, Handle(type)
  PROVE  /\ ~ready_
         /\ \E t \in Threads : /\ Busy(t) /\ Head(events).slot = Slot(t)
                               /\ caller[t].op = type /\ Asked(t, data[Slot(t)])
                               /\ \A u \in Threads : u # t => ~Busy(u)
         /\ \A k \in DOMAIN events' : events'[k].type \notin Requests
  <1>1. 1 \in DOMAIN events /\ events[1].type = type /\ Head(events) = events[1]
    BY FirstEvent
  <1>2. ~ready_
    BY <1>1 DEF Conversation
  <1>3. PICK t \in Threads : Busy(t) /\ events[1].slot = Slot(t) /\ events[1].type = caller[t].op
    BY <1>1 DEF Conversation
  <1>4. Asked(t, data[Slot(t)])
    BY <1>2, <1>3 DEF Conversation
  <1>5. \A u \in Threads : u # t => ~Busy(u)
    BY <1>3, OneBusy
  <1>6. \A k \in DOMAIN events' : events'[k].type \notin Requests
    <2> SUFFICES ASSUME NEW k \in DOMAIN events', events'[k].type \in Requests PROVE FALSE
      OBVIOUS
    <2>1. k + 1 \in DOMAIN events /\ k + 1 # 1 /\ events'[k] = events[k + 1]
      BY FirstEvent
    <2> QED
      BY <1>1, <2>1 DEF Conversation
  <1> QED
    BY <1>1, <1>2, <1>3, <1>4, <1>5, <1>6

\* It gives that thread a new instance, or the Error of its request.
LEMMA CreateDoes ==
  ASSUME LoopTypes, OneRequest, Conversation, CreatePlugin
  PROVE  /\ ready_' = TRUE /\ UNCHANGED <<platform, lock_, caller, lost>>
         /\ \A k \in DOMAIN events' : events'[k].type \notin Requests
         /\ \E t \in Threads, d \in Answers :
              /\ Busy(t) /\ ~ready_ /\ caller[t].op = "create" /\ caller[t].arg \in Infos
              /\ \A u \in Threads : u # t => ~Busy(u)
              /\ data' = [data EXCEPT ![Slot(t)] = d]
              /\ \/ /\ made < MaxPlugins /\ made' = made + 1 /\ d.plugin = made'
                    /\ DOMAIN plugins' = DOMAIN plugins \cup {made'}
                    /\ plugins' \in [DOMAIN plugins' -> Existing]
                    /\ plugins'[made'].info = caller[t].arg
                    /\ \A p \in DOMAIN plugins : plugins'[p] = plugins[p]
                 \/ /\ d.plugin = None /\ d.err = caller[t].arg
                    /\ UNCHANGED <<made, plugins>>
  <1>1. Handle("create") /\ UNCHANGED <<platform, lock_, caller, lost>> /\ ready_' = TRUE
    BY DEF CreatePlugin, Answer
  <1>2. /\ ~ready_ /\ \A k \in DOMAIN events' : events'[k].type \notin Requests
    BY <1>1, Asking DEF Requests
  <1>3. PICK t \in Threads : /\ Busy(t) /\ Head(events).slot = Slot(t)
                             /\ caller[t].op = "create" /\ Asked(t, data[Slot(t)])
                             /\ \A u \in Threads : u # t => ~Busy(u)
    BY <1>1, Asking DEF Requests
  <1> DEFINE was == data[Slot(t)]
  <1>4. was \in Answers /\ was.info = caller[t].arg /\ was.info \in Infos /\ was.plugin = None
    BY <1>3, SlotType DEF Asked
  <1>5. Slot(t) \in Slots /\ data \in [Slots -> Answers]
    BY SlotType DEF LoopTypes
  <1>6. CASE /\ made < MaxPlugins /\ made' = made + 1
             /\ \E hasEditor \in BOOLEAN :
                  plugins' = [p \in DOMAIN plugins \cup {made'} |->
                     IF p = made' THEN [info |-> was.info, window |-> hasEditor, open |-> FALSE]
                                  ELSE plugins[p]]
             /\ data' = [data EXCEPT ![Slot(t)].plugin = made']
    <2> DEFINE d == [info |-> was.info, plugin |-> made', err |-> was.err]
    <2>1. made \in Nat /\ MaxPlugins \in Nat /\ made' \in Instances /\ made' \notin DOMAIN plugins
      BY <1>6, LoopAssumption DEF LoopTypes, Instances
    <2>2. was = [info |-> was.info, plugin |-> was.plugin, err |-> was.err]
      BY <1>4 DEF Answers
    <2>3. data' = [data EXCEPT ![Slot(t)] = [was EXCEPT !.plugin = made']]
      BY <1>6
    <2>4. [was EXCEPT !.plugin = made'] = d
      BY <2>2
    <2>5. d \in Answers
      BY <1>4, <2>1 DEF Answers, Ids
    <2>6. PICK hasEditor \in BOOLEAN :
            plugins' = [p \in DOMAIN plugins \cup {made'} |->
               IF p = made' THEN [info |-> was.info, window |-> hasEditor, open |-> FALSE]
                            ELSE plugins[p]]
      BY <1>6
    <2>7. [info |-> was.info, window |-> hasEditor, open |-> FALSE] \in Existing
      BY <1>4 DEF Existing
    <2>8. /\ DOMAIN plugins' = DOMAIN plugins \cup {made'}
          /\ plugins' \in [DOMAIN plugins' -> Existing]
          /\ plugins'[made'].info = caller[t].arg
          /\ \A p \in DOMAIN plugins : plugins'[p] = plugins[p]
      BY <1>4, <2>1, <2>6, <2>7 DEF LoopTypes
    <2>9. d.plugin = made' /\ data' = [data EXCEPT ![Slot(t)] = d]
      BY <2>3, <2>4
    <2> HIDE DEF was, d
    <2> QED
      BY <1>1, <1>2, <1>3, <1>4, <1>6, <2>5, <2>8, <2>9
  <1>7. CASE /\ data' = [data EXCEPT ![Slot(t)].err = was.info]
             /\ UNCHANGED <<made, plugins>>
    <2> DEFINE d == [info |-> was.info, plugin |-> None, err |-> was.info]
    <2>1. was = [info |-> was.info, plugin |-> was.plugin, err |-> was.err]
      BY <1>4 DEF Answers
    <2>2. data' = [data EXCEPT ![Slot(t)] = [was EXCEPT !.err = was.info]]
      BY <1>7
    <2>3. [was EXCEPT !.err = was.info] = d
      BY <1>4, <2>1
    <2>4. d \in Answers /\ d.plugin = None /\ d.err = caller[t].arg
      BY <1>4 DEF Answers, Ids, Names
    <2>5. data' = [data EXCEPT ![Slot(t)] = d]
      BY <2>2, <2>3
    <2>6. caller[t].op = "create" /\ caller[t].arg \in Infos
      BY <1>3, <1>4 DEF Asked
    <2> HIDE DEF was, d
    <2> QED
      BY <1>1, <1>2, <1>3, <1>7, <2>4, <2>5, <2>6
  <1> QED
    BY <1>3, <1>6, <1>7 DEF CreatePlugin

\* It takes the instance that the thread has given away out of the map.
LEMMA DestroyDoes ==
  ASSUME LoopTypes, OneRequest, Conversation, DestroyPlugin
  PROVE  /\ ready_' = TRUE /\ UNCHANGED <<platform, lock_, caller, made, lost>>
         /\ \A k \in DOMAIN events' : events'[k].type \notin Requests
         /\ \E t \in Threads, d \in Answers :
              /\ Busy(t) /\ ~ready_ /\ caller[t].op = "destroy"
              /\ \A u \in Threads : u # t => ~Busy(u)
              /\ data[Slot(t)].plugin = caller[t].arg /\ Head(events).slot = Slot(t)
              /\ data' = [data EXCEPT ![Slot(t)] = d] /\ d.plugin = None
              /\ DOMAIN plugins' = DOMAIN plugins \ {caller[t].arg}
              /\ plugins' \in [DOMAIN plugins' -> Existing]
              /\ \A p \in DOMAIN plugins' : plugins'[p] = plugins[p]
  <1>1. /\ Handle("destroy") /\ UNCHANGED <<platform, lock_, caller, made, lost>>
        /\ ready_' = TRUE
    BY DEF DestroyPlugin, Answer
  <1>2. /\ ~ready_ /\ \A k \in DOMAIN events' : events'[k].type \notin Requests
    BY <1>1, Asking DEF Requests
  <1>3. PICK t \in Threads : /\ Busy(t) /\ Head(events).slot = Slot(t)
                             /\ caller[t].op = "destroy" /\ Asked(t, data[Slot(t)])
                             /\ \A u \in Threads : u # t => ~Busy(u)
    BY <1>1, Asking DEF Requests
  <1> DEFINE was == data[Slot(t)]
             d   == [info |-> was.info, plugin |-> None, err |-> was.err]
  <1>4. was \in Answers /\ was.plugin = caller[t].arg
    BY <1>3, SlotType DEF Asked
  <1>5. /\ plugins' = Restrict(plugins, DOMAIN plugins \ {was.plugin})
        /\ data' = [data EXCEPT ![Slot(t)] = [was EXCEPT !.plugin = None]]
    BY <1>3 DEF DestroyPlugin
  <1>6. was = [info |-> was.info, plugin |-> was.plugin, err |-> was.err]
    BY <1>4 DEF Answers
  <1>7. d \in Answers
    BY <1>4 DEF Answers, Ids
  <1>8. plugins' = [p \in DOMAIN plugins \ {was.plugin} |-> plugins[p]]
    BY <1>5 DEF Restrict
  <1>9. /\ DOMAIN plugins' = DOMAIN plugins \ {caller[t].arg}
        /\ plugins' \in [DOMAIN plugins' -> Existing]
        /\ \A p \in DOMAIN plugins' : plugins'[p] = plugins[p]
    BY <1>4, <1>8 DEF LoopTypes
  <1>10. data' = [data EXCEPT ![Slot(t)] = d]
    <2> HIDE DEF was
    <2>1. [was EXCEPT !.plugin = None] = d
      BY <1>6
    <2> QED
      BY <1>5, <2>1
  <1> HIDE DEF was, d
  <1>11. d.plugin = None
    BY DEF d
  <1> QED
    BY <1>1, <1>2, <1>3, <1>4, <1>7, <1>9, <1>10, <1>11 DEF was

\* A thread that wakes up takes its answer, or waits again.
LEMMA WakeDoes ==
  ASSUME LoopTypes, NEW t \in Threads, Wake(t)
  PROVE  /\ caller[t].pc = "woken"
         /\ UNCHANGED <<platform, ready_, events, ui, made, plugins, lost>>
         /\ \E c \in Callers, d \in Answers :
              /\ caller' = [caller EXCEPT ![t] = c]
              /\ c.op = caller[t].op /\ c.arg = caller[t].arg
              /\ \/ /\ ready_ /\ c.pc = "back" /\ lock_' = None
                    /\ c.result = data[Slot(t)].plugin /\ c.err = data[Slot(t)].err
                    /\ data' = [data EXCEPT ![Slot(t)] = d]
                 \/ /\ ~ready_ /\ c.pc = "waiting" /\ UNCHANGED <<lock_, data>>
  <1> DEFINE was == caller[t]
             had == data[Slot(t)]
  <1>1. /\ was \in Callers /\ had \in Answers
    BY SlotType DEF LoopTypes
  <1>5. was = [pc |-> was.pc, op |-> was.op, arg |-> was.arg, result |-> was.result,
               err |-> was.err]
    BY <1>1 DEF Callers
  <1>6. had = [info |-> had.info, plugin |-> had.plugin, err |-> had.err]
    BY <1>1 DEF Answers
  <1>2. caller[t].pc = "woken" /\ UNCHANGED <<platform, ready_, events, ui, made, plugins, lost>>
    BY DEF Wake
  <1>3. CASE ready_
    <2> DEFINE c == [pc |-> "back", op |-> was.op, arg |-> was.arg,
                     result |-> had.plugin, err |-> had.err]
               d == [info |-> had.info, plugin |-> None, err |-> had.err]
    <2>1. /\ caller' = [caller EXCEPT ![t].pc = "back", ![t].result = had.plugin,
                                      ![t].err = had.err]
          /\ lock_' = None
          /\ data' = [data EXCEPT ![Slot(t)].plugin = None]
      BY <1>3 DEF Wake
    <2>2. c \in Callers /\ d \in Answers
      BY <1>1 DEF Callers, Answers, Ids
    <2>3. caller' = [caller EXCEPT ![t] = [was EXCEPT !.pc = "back", !.result = had.plugin,
                                                      !.err = had.err]]
      BY <2>1 DEF LoopTypes
    <2>4. data' = [data EXCEPT ![Slot(t)] = [had EXCEPT !.plugin = None]]
      BY <2>1
    <2> HIDE DEF was, had
    <2>5. [was EXCEPT !.pc = "back", !.result = had.plugin, !.err = had.err] = c
      BY <1>5, CallerReturns, Zenon
    <2>6. [had EXCEPT !.plugin = None] = d
      BY <1>6
    <2>7. caller' = [caller EXCEPT ![t] = c] /\ data' = [data EXCEPT ![Slot(t)] = d]
      BY <2>3, <2>4, <2>5, <2>6
    <2>8. c.pc = "back" /\ c.op = was.op /\ c.arg = was.arg /\ c.result = had.plugin
          /\ c.err = had.err
      OBVIOUS
    <2> HIDE DEF c, d
    <2> QED
      BY <1>2, <1>3, <2>1, <2>2, <2>7, <2>8 DEF was, had
  <1>4. CASE ~ready_
    <2> DEFINE c == [pc |-> "waiting", op |-> was.op, arg |-> was.arg,
                     result |-> was.result, err |-> was.err]
    <2>1. caller' = [caller EXCEPT ![t] = [was EXCEPT !.pc = "waiting"]] /\ UNCHANGED <<lock_, data>>
      BY <1>4 DEF Wake
    <2>2. c \in Callers
      BY <1>1 DEF Callers
    <2> HIDE DEF was
    <2>3. [was EXCEPT !.pc = "waiting"] = c
      BY <1>5
    <2>4. caller' = [caller EXCEPT ![t] = c]
      BY <2>1, <2>3
    <2>5. c.pc = "waiting" /\ c.op = was.op /\ c.arg = was.arg
      OBVIOUS
    <2> HIDE DEF c
    <2> QED
      BY <1>1, <1>2, <1>4, <2>1, <2>2, <2>4, <2>5 DEF was
  <1> QED
    BY <1>3, <1>4

\* A notification wakes one of those who wait.
LEMMA NotifyDoes ==
  ASSUME LoopTypes, Notify
  PROVE  /\ UNCHANGED <<platform, lock_, ready_, data, events, made, plugins, lost>>
         /\ caller' \in [Threads -> Callers]
         /\ \A t \in Threads :
              /\ caller'[t].op = caller[t].op /\ caller'[t].arg = caller[t].arg
              /\ caller'[t].result = caller[t].result /\ caller'[t].err = caller[t].err
              /\ \/ caller'[t].pc = caller[t].pc
                 \/ caller[t].pc = "waiting" /\ caller'[t].pc = "woken"
  <1>1. CASE UNCHANGED caller
    BY <1>1 DEF Notify, LoopTypes
  <1>2. CASE \E t \in Threads : /\ caller[t].pc = "waiting"
                                /\ caller' = [caller EXCEPT ![t].pc = "woken"]
    <2>1. PICK t \in Threads : /\ caller[t].pc = "waiting"
                               /\ caller' = [caller EXCEPT ![t].pc = "woken"]
      BY <1>2
    <2> DEFINE was == caller[t]
               c == [pc |-> "woken", op |-> was.op, arg |-> was.arg,
                     result |-> was.result, err |-> was.err]
    <2>2. /\ was \in Callers
          /\ was = [pc |-> was.pc, op |-> was.op, arg |-> was.arg, result |-> was.result,
                    err |-> was.err]
      BY DEF LoopTypes, Callers
    <2>3. c \in Callers
      BY <2>2 DEF Callers
    <2>4. caller' = [caller EXCEPT ![t] = [was EXCEPT !.pc = "woken"]]
      BY <2>1
    <2> HIDE DEF was
    <2>5. [was EXCEPT !.pc = "woken"] = c
      BY <2>2
    <2>6. caller' = [caller EXCEPT ![t] = c]
      BY <2>4, <2>5
    <2>7. c.pc = "woken" /\ c.op = was.op /\ c.arg = was.arg /\ c.result = was.result
          /\ c.err = was.err
      OBVIOUS
    <2> HIDE DEF c
    <2> QED
      BY <2>1, <2>3, <2>6, <2>7 DEF Notify, LoopTypes, was
  <1> QED
    BY <1>1, <1>2 DEF Notify

--------------------------------------------------------------------------------
(* The steps, with what they change *)

Same == UNCHANGED <<platform, lock_, ready_, data, caller, made, plugins, lost>>
Kept == UNCHANGED <<x_plugin, x_uithread, opening, work, results, pd>>

\* perform, ticks, queued events of plugins, DSP
Quiet ==
  /\ Same /\ UNCHANGED <<events, x_plugin, x_uithread, opening, work, results>>
  /\ \/ pd' = pd
     \/ /\ pd.pc \in {"idle", "tick"} /\ pd'.pc \in {"idle", "tick"}
        /\ pd' = [pc |-> pd'.pc, object |-> pd'.object, left |-> pd'.left]
Posts(e) ==
  /\ Same /\ Kept /\ events' = Append(events, e)
  /\ e.type \in Shows \cup {"update"}
  /\ e.type \in Shows /\ e.host =>
       PdFree /\ \E o \in Objects : e.window = x_plugin[o] /\ HasWindow(x_plugin[o])
Refreshes == Same /\ Kept /\ Handle("update")

\* an instance without a window, made or destroyed where the host opens or closes it
MadeHere(o) ==
  /\ made < MaxPlugins /\ made' = made + 1
  /\ plugins' = [p \in DOMAIN plugins \cup {made'} |->
       IF p = made' THEN [info |-> o, window |-> FALSE, open |-> FALSE] ELSE plugins[p]]
  /\ UNCHANGED <<platform, lock_, ready_, data, caller, events, lost>>
GoneHere(p) ==
  /\ plugins' = Restrict(plugins, DOMAIN plugins \ {p})
  /\ UNCHANGED <<platform, lock_, ready_, data, caller, events, made, lost>>

MayOpen(o) == PdFree /\ x_plugin[o] = None /\ ~opening[o]
OpenLater(o, uithread) ==
  /\ MayOpen(o) /\ UNCHANGED loop
  /\ x_uithread' = [x_uithread EXCEPT ![o] = uithread]
  /\ opening' = [opening EXCEPT ![o] = TRUE]
  /\ work' = Append(work, [op |-> "create", arg |-> o, object |-> o, uithread |-> uithread])
  /\ UNCHANGED <<x_plugin, results, pd>>
OpenAsked(o) ==
  /\ MayOpen(o) /\ Request("pd", "create", o)
  /\ x_uithread' = [x_uithread EXCEPT ![o] = TRUE]
  /\ pd' = [pc |-> "open", object |-> o, left |-> <<>>]
  /\ UNCHANGED <<x_plugin, opening, work, results>>
OpenHere(o) ==
  /\ MayOpen(o) /\ MadeHere(o)
  /\ x_uithread' = [x_uithread EXCEPT ![o] = FALSE]
  /\ x_plugin' = [x_plugin EXCEPT ![o] = made']
  /\ UNCHANGED <<opening, work, results, pd>>

MayClose(o) == /\ PdFree /\ x_plugin[o] # None
               /\ x_plugin' = [x_plugin EXCEPT ![o] = None]
               /\ UNCHANGED <<x_uithread, opening, results>>
CloseLater(o) ==
  /\ MayClose(o) /\ UNCHANGED <<loop, pd>>
  /\ work' = Append(work, [op |-> "destroy", arg |-> x_plugin[o], object |-> o,
                           uithread |-> x_uithread[o]])
CloseAsked(o) ==
  /\ MayClose(o) /\ Request("pd", "destroy", x_plugin[o])
  /\ pd' = [pc |-> "close", object |-> o, left |-> <<>>] /\ UNCHANGED work
CloseHere(o) ==
  /\ MayClose(o) /\ ~x_uithread[o] /\ GoneHere(x_plugin[o]) /\ UNCHANGED <<work, pd>>

WorkMakes ==
  /\ work # <<>> /\ ~Head(work).uithread /\ Head(work).op = "create"
  /\ MadeHere(Head(work).arg)
  /\ work' = Tail(work) /\ results' = Append(results, <<Head(work).object, made'>>)
  /\ UNCHANGED <<x_plugin, x_uithread, opening, pd>>
WorkDestroys ==
  /\ work # <<>> /\ ~Head(work).uithread /\ Head(work).op = "destroy"
  /\ GoneHere(Head(work).arg)
  /\ work' = Tail(work) /\ UNCHANGED <<x_plugin, x_uithread, opening, results, pd>>
WorkAsks == /\ work # <<>> /\ Head(work).uithread
            /\ Request("worker", Head(work).op, Head(work).arg) /\ Kept

\* the request of a thread is over
Over(t) == /\ caller[t].pc = "back" /\ caller' = [caller EXCEPT ![t] = Away]
           /\ UNCHANGED <<platform, lock_, ready_, data, events, made, plugins, lost>>

\* what Returned and Poll come to when no plugin is replaced
PdGets ==
  /\ Over("pd") /\ UNCHANGED <<x_uithread, opening, work, results>> /\ pd' = PdIdle
  /\ IF pd.pc = "open" THEN x_plugin' = [x_plugin EXCEPT ![pd.object] = caller["pd"].result]
                       ELSE x_plugin' = x_plugin
Arrives ==
  /\ PdFree /\ results # <<>> /\ results' = Tail(results)
  /\ x_plugin' = [x_plugin EXCEPT ![Head(results)[1]] = Head(results)[2]]
  /\ opening' = [opening EXCEPT ![Head(results)[1]] = FALSE]
  /\ UNCHANGED <<platform, lock_, ready_, data, caller, events, made, plugins, lost, x_uithread,
                 work, pd>>

Steps ==
  \/ Quiet \/ Refreshes \/ \E e \in Events : Posts(e)
  \/ \E o \in Objects, uithread \in BOOLEAN : OpenLater(o, uithread)
  \/ \E o \in Objects : OpenAsked(o) \/ OpenHere(o)
                        \/ CloseLater(o) \/ CloseAsked(o) \/ CloseHere(o)
  \/ WorkMakes \/ WorkDestroys \/ WorkAsks
  \/ PdGets \/ WorkerEnd \/ Arrives
  \/ \E t \in Threads : Wake(t) /\ Kept
  \/ UIStep /\ Kept

LEMMA PdBusy ==
  ASSUME NEW pc, NEW o
  PROVE  [PdIdle EXCEPT !.pc = pc, !.object = o] = [pc |-> pc, object |-> o, left |-> <<>>]
  <1> DEFINE q == [PdIdle EXCEPT !.pc = pc]
  <1>1. [PdIdle EXCEPT !.pc = pc, !.object = o] = [q EXCEPT !.object = o]
    OBVIOUS
  <1>2. q = [pc |-> pc, object |-> None, left |-> <<>>]
    BY DEF PdIdle
  <1> HIDE DEF q
  <1>3. [q EXCEPT !.object = o] = [pc |-> pc, object |-> o, left |-> <<>>]
    BY <1>2
  <1> QED
    BY <1>1, <1>3

LEMMA MessageSteps ==
  ASSUME LoopTypes, EditorTypes, ~Reopens, NEW o \in Objects,
         \/ \E uithread, async \in BOOLEAN : Open(o, uithread, async)
         \/ Close(o) \/ Vis(o)
  PROVE  Steps
  <1>1. ASSUME NEW uithread \in BOOLEAN, NEW async \in BOOLEAN, Open(o, uithread, async)
        PROVE  Steps
    <2>1. MayOpen(o) /\ x_uithread' = [x_uithread EXCEPT ![o] = uithread]
          /\ UNCHANGED results
      BY <1>1 DEF Open, Message, MayOpen
    <2>2. CASE async
      <3>1. /\ work' = Append(work, [op |-> "create", arg |-> o, object |-> o,
                                     uithread |-> uithread])
            /\ opening' = [opening EXCEPT ![o] = TRUE]
            /\ UNCHANGED <<loop, pd, x_plugin>>
        BY <1>1, <2>2 DEF Open
      <3>2. OpenLater(o, uithread)
        BY <2>1, <3>1 DEF OpenLater
      <3> QED
        BY <3>2 DEF Steps
    <2>3. CASE ~async /\ uithread
      <3>1. /\ UNCHANGED <<work, opening, x_plugin>>
            /\ Request("pd", "create", o)
            /\ pd' = [PdIdle EXCEPT !.pc = "open", !.object = o]
        BY <1>1, <2>3 DEF Open
      <3>2. [PdIdle EXCEPT !.pc = "open", !.object = o]
              = [pc |-> "open", object |-> o, left |-> <<>>]
        BY PdBusy, Zenon
      <3>3. x_uithread' = [x_uithread EXCEPT ![o] = TRUE]
        BY <2>1, <2>3
      <3>4. OpenAsked(o)
        BY <2>1, <3>1, <3>2, <3>3 DEF OpenAsked
      <3> QED
        BY <3>4 DEF Steps
    <2>4. CASE ~async /\ ~uithread
      <3>1. /\ UNCHANGED <<work, opening, pd>> /\ MadeHere(o)
            /\ x_plugin' = [x_plugin EXCEPT ![o] = made']
        BY <1>1, <2>4 DEF Open, MadeHere
      <3>2. x_uithread' = [x_uithread EXCEPT ![o] = FALSE]
        BY <2>1, <2>4
      <3>3. OpenHere(o)
        BY <2>1, <3>1, <3>2 DEF OpenHere
      <3> QED
        BY <3>3 DEF Steps
    <2> QED
      BY <2>2, <2>3, <2>4
  <1>2. CASE Close(o)
    <2>1. MayClose(o)
      BY <1>2 DEF Close, Message, MayClose
    <2>2. CASE x_async[o]
      <3>1. CloseLater(o)
        BY <1>2, <2>1, <2>2 DEF Close, CloseLater, Hide
      <3> QED
        BY <3>1 DEF Steps
    <2>3. CASE ~x_async[o] /\ x_uithread[o]
      <3>1. /\ UNCHANGED work /\ Request("pd", "destroy", x_plugin[o])
            /\ pd' = [PdIdle EXCEPT !.pc = "close", !.object = o]
        BY <1>2, <2>3 DEF Close
      <3>2. [PdIdle EXCEPT !.pc = "close", !.object = o]
              = [pc |-> "close", object |-> o, left |-> <<>>]
        BY PdBusy, Zenon
      <3>3. CloseAsked(o)
        BY <2>1, <3>1, <3>2 DEF CloseAsked
      <3> QED
        BY <3>3 DEF Steps
    <2>4. CASE ~x_async[o] /\ ~x_uithread[o]
      <3>1. CloseHere(o)
        BY <1>2, <2>1, <2>4 DEF Close, CloseHere, GoneHere
      <3> QED
        BY <3>1 DEF Steps
    <2> QED
      BY <2>2, <2>3, <2>4
  <1>3. CASE Vis(o)
    <2>1. PICK type \in Shows : events' = Append(events, Posted(type, x_plugin[o], TRUE))
      BY <1>3 DEF Vis, Shows
    <2> DEFINE e == Posted(type, x_plugin[o], TRUE)
    <2>2. e \in Events /\ e.type = type /\ e.window = x_plugin[o]
      BY DEF Posted, Events, EditorTypes
    <2>3. Posts(e)
      BY <1>3, <2>1, <2>2 DEF Vis, Posts, Same, Kept, Message, opened
    <2> QED
      BY <2>2, <2>3 DEF Steps
  <1> QED
    BY <1>1, <1>2, <1>3

LEMMA ArrivesAtNone ==
  ASSUME LoopTypes, EditorTypes, NEW o \in Objects, NEW v, x_plugin[o] = None, OpenDone(o, v)
  PROVE  x_plugin' = [x_plugin EXCEPT ![o] = v] /\ UNCHANGED <<plugins, lost>>
  <1>1. None \notin DOMAIN plugins
    BY LoopAssumption DEF LoopTypes
  <1>2. ~HasWindow(None)
    BY <1>1 DEF HasWindow
  <1>3. Restrict(plugins, DOMAIN plugins \ {None}) = plugins
    <2>1. plugins = [p \in DOMAIN plugins |-> plugins[p]]
      BY DEF LoopTypes
    <2>2. DOMAIN plugins \ {None} = DOMAIN plugins
      BY <1>1
    <2> QED
      BY <2>1, <2>2 DEF Restrict
  <1>4. CASE v = None
    BY <1>4 DEF OpenDone, EditorTypes
  <1>5. CASE v # None
    BY <1>2, <1>3, <1>5 DEF OpenDone
  <1> QED
    BY <1>4, <1>5

LEMMA OtherSteps ==
  ASSUME LoopTypes, EditorTypes, Where, Vacant, [Next]_vars,
         \A o \in Objects : /\ ~Close(o) /\ ~Vis(o)
                            /\ \A uithread, async \in BOOLEAN : ~Open(o, uithread, async)
  PROVE  Steps
  <1>1. CASE UNCHANGED vars
    <2>1. Quiet
      BY <1>1 DEF vars, loop, editor, Quiet, Same
    <2> QED
      BY <2>1 DEF Steps
  <1>2. ASSUME NEW o \in Objects, Perform(o) PROVE Steps
    <2>1. Quiet
      BY <1>2 DEF Perform, Quiet, Same, loop, opened
    <2> QED
      BY <2>1 DEF Steps
  <1>3. ASSUME NEW o \in Objects, Tick(o) PROVE Steps
    <2>1. pd' = pd \/ pd' = [pc |-> "tick", object |-> o, left |-> e_events[o]]
      BY <1>3 DEF Tick
    <2>2. pd.pc = "idle"
      BY <1>3 DEF Tick, PdFree
    <2>3. Quiet
      BY <1>3, <2>1, <2>2 DEF Tick, Quiet, Same, loop, opened
    <2> QED
      BY <2>3 DEF Steps
  <1>4. CASE Send
    <2>1. /\ pd.pc = "tick" /\ pd' = [pd EXCEPT !.left = Tail(@)]
          /\ pd = [pc |-> pd.pc, object |-> pd.object, left |-> pd.left]
      BY <1>4 DEF Send, EditorTypes
    <2>2. pd' = [pc |-> "tick", object |-> pd.object, left |-> Tail(pd.left)]
      BY <2>1
    <2>3. Quiet
      BY <1>4, <2>1, <2>2 DEF Send, Quiet, Same, loop, opened
    <2> QED
      BY <2>3 DEF Steps
  <1>5. CASE TickEnd
    <2>1. Quiet
      BY <1>5 DEF TickEnd, Quiet, Same, loop, opened, PdIdle
    <2> QED
      BY <2>1 DEF Steps
  <1>6. CASE SwitchDsp \/ UIPost
    <2>1. Quiet
      BY <1>6 DEF SwitchDsp, UIPost, LockQueue, PushEvent, AskDsp, NeedClock, SetClock, UIAt,
                  Quiet, Same, loop, opened
    <2> QED
      BY <2>1 DEF Steps
  <1>7. CASE UpdateEditors
    <2>1. Refreshes
      BY <1>7 DEF UpdateEditors, Refreshes, Same, Kept, opened
    <2> QED
      BY <2>1 DEF Steps
  <1>8. CASE Outside
    <2>1. PICK e : /\ events' = Append(events, e)
                   /\ \/ e = Posted("update", None, TRUE)
                      \/ \E p \in DOMAIN plugins : e = Posted("close", p, FALSE)
      BY <1>8 DEF Outside, WindowManager, Update
    <2>2. e \in Events /\ (e.type = "update" \/ (e.type = "close" /\ ~e.host))
      <3>1. /\ made \in 0 .. MaxPlugins /\ MaxPlugins \in Nat
            /\ \A p \in DOMAIN plugins : p \in 1 .. made
        BY LoopAssumption DEF LoopTypes
      <3>2. \A p \in DOMAIN plugins : p \in Ids
        BY <3>1 DEF Ids, Instances
      <3>3. CASE e = Posted("update", None, TRUE)
        BY <3>3 DEF Posted, Events, Ids
      <3>4. ASSUME NEW p \in DOMAIN plugins, e = Posted("close", p, FALSE)
            PROVE  e \in Events /\ e.type = "close" /\ ~e.host
        BY <3>2, <3>4 DEF Posted, Events, Shows
      <3> QED
        BY <2>1, <3>3, <3>4
    <2>3. Posts(e)
      BY <1>8, <2>1, <2>2 DEF Outside, WindowManager, Update, editor, Posts, Same, Kept, Shows
    <2> QED
      BY <2>2, <2>3 DEF Steps
  <1>9. CASE WorkerBegin
    <2>1. WorkAsks
      BY <1>9 DEF WorkerBegin, WorkAsks, Kept, editor
    <2> QED
      BY <2>1 DEF Steps
  <1>10. CASE WorkerPlain
    <2>1. WorkMakes \/ WorkDestroys
      BY <1>10 DEF WorkerPlain, WorkMakes, WorkDestroys, WorkDone, MadeHere, GoneHere, opened
    <2> QED
      BY <2>1 DEF Steps
  <1>11. CASE WorkerEnd
    BY <1>11 DEF Steps
  <1>15. CASE Returned
    <2>1. PdGets
      <3>1. CASE pd.pc = "open"
        <4>1. /\ OpenDone(pd.object, caller["pd"].result)
              /\ x_plugin[pd.object] = None /\ pd.object \in Objects
          BY <1>15, <3>1 DEF Returned, Vacant, EditorTypes
        <4>2. /\ x_plugin' = [x_plugin EXCEPT ![pd.object] = caller["pd"].result]
              /\ UNCHANGED <<plugins, lost>>
          BY <4>1, ArrivesAtNone
        <4> QED
          BY <1>15, <3>1, <4>2 DEF Returned, PdGets, Over
      <3>2. CASE pd.pc # "open"
        BY <1>15, <3>2 DEF Returned, PdGets, Over
      <3> QED
        BY <3>1, <3>2
    <2> QED
      BY <2>1 DEF Steps
  <1>16. CASE Poll
    <2> DEFINE o == Head(results)[1]
               v == Head(results)[2]
    <2>1. Head(results) = results[1] /\ 1 \in DOMAIN results /\ o \in Objects
      BY <1>16, TailAt DEF Poll, EditorTypes
    <2>2. x_plugin[o] = None
      BY <2>1 DEF Vacant, Where
    <2>3. OpenDone(o, v)
      BY <1>16 DEF Poll
    <2> HIDE DEF o, v
    <2>4. x_plugin' = [x_plugin EXCEPT ![o] = v] /\ UNCHANGED <<plugins, lost>>
      BY <2>1, <2>2, <2>3, ArrivesAtNone
    <2>5. Arrives
      BY <1>16, <2>4 DEF Poll, Arrives, loop, o, v
    <2> QED
      BY <2>5 DEF Steps
  <1>12. ASSUME NEW t \in Threads, Wake(t), UNCHANGED editor PROVE Steps
    <2>1. Kept
      BY <1>12 DEF Kept, editor
    <2> QED
      BY <1>12, <2>1 DEF Steps
  <1>13. CASE UIThread
    <2>1. UIStep /\ Kept
      BY <1>13 DEF UIThread, Kept, editor
    <2> QED
      BY <2>1 DEF Steps
  <1>14. "pd" \in Threads /\ "worker" \in Threads
    BY EditorAssumption
  <1> QED
    BY <1>1, <1>2, <1>3, <1>4, <1>5, <1>6, <1>7, <1>8, <1>9, <1>10, <1>11, <1>12, <1>13, <1>14,
       <1>15, <1>16
    DEF Next, PdWaits, Worker

LEMMA NextSteps ==
  ASSUME LoopTypes, EditorTypes, Where, Vacant, ~Reopens, [Next]_vars
  PROVE  Steps
  BY MessageSteps, OtherSteps

--------------------------------------------------------------------------------
(* The UI thread and its callers *)

Shares == \/ events' = events
          \/ \E e \in Events : events' = Append(events, e) /\ e.type \notin Requests
          \/ Handle("update")
Asks(t, op, arg) == /\ Request(t, op, arg)
                    /\ op = "create"  => arg \in Infos
                    /\ op = "destroy" => arg \in 1 .. made
LoopStep ==
  \/ Same /\ Shares
  \/ \E o \in Infos : MadeHere(o)
  \/ \E p \in Instances : GoneHere(p) /\ \A t \in Threads : owned[t] # p
  \/ \E t \in Threads, op \in Requests, arg \in Infos \cup Instances : Asks(t, op, arg)
  \/ \E t \in Threads : Wake(t) \/ Over(t)
  \/ UIStep

\* An instance that an object, a result or a piece of work owns has been made.
LEMMA OwnedMade ==
  ASSUME LoopTypes, EditorTypes, Owners, Occupied
  PROVE  /\ \A o \in Objects : x_plugin[o] # None => x_plugin[o] \in 1 .. made
         /\ \A k \in DOMAIN work : work[k].op = "destroy" =>
              /\ work[k].arg \in 1 .. made /\ work[k].arg \in Instances
              /\ Doomed(work[k]) = work[k].arg
         /\ 1 .. made \subseteq Instances
  <1>1. made \in Nat /\ MaxPlugins \in Nat /\ made <= MaxPlugins
    BY LoopAssumption DEF LoopTypes
  <1>2. 1 .. made \subseteq Instances
    BY <1>1 DEF Instances
  <1>3. ASSUME NEW o \in Objects, x_plugin[o] # None PROVE x_plugin[o] \in 1 .. made
    <2>1. x_plugin[o] \in Instances
      BY <1>3 DEF EditorTypes, Ids
    <2>2. ~(x_plugin[o] > made)
      BY <1>3, <2>1 DEF Owners, Unowned
    <2> QED
      BY <1>1, <2>1, <2>2 DEF Instances
  <1>4. \A k \in DOMAIN work : work[k].op = "destroy" => work[k].arg \in 1 .. made
    BY DEF Occupied
  <1> QED
    BY <1>2, <1>3, <1>4 DEF Doomed

LEMMA FirstWork ==
  ASSUME EditorTypes, work # <<>>
  PROVE  /\ Head(work) = work[1] /\ 1 \in DOMAIN work /\ Head(work) \in Items
         /\ Tail(work) \in Seq(Items)
         /\ \A k \in DOMAIN Tail(work) : /\ k \in Nat /\ k + 1 \in DOMAIN work
                                         /\ k + 1 # 1 /\ Tail(work)[k] = work[k + 1]
  BY TailAt DEF EditorTypes

LEMMA LoopSteps ==
  ASSUME LoopTypes, EditorTypes, Occupied, Owners, Steps
  PROVE  LoopStep
  <1> USE DEF LoopStep
  <1>1. CASE Quiet
    BY <1>1 DEF Quiet, Shares
  <1>2. CASE Refreshes
    BY <1>2 DEF Refreshes, Shares
  <1>3. ASSUME NEW e \in Events, Posts(e) PROVE LoopStep
    BY <1>3 DEF Posts, Shares, Shows, Requests
  <1>4. ASSUME NEW o \in Objects, NEW uithread \in BOOLEAN, OpenLater(o, uithread)
        PROVE  LoopStep
    BY <1>4 DEF OpenLater, loop, Same, Shares
  <1>5. ASSUME NEW o \in Objects, OpenAsked(o) PROVE LoopStep
    <2>1. Asks("pd", "create", o) /\ "pd" \in Threads /\ "create" \in Requests
          /\ o \in Infos \cup Instances
      BY <1>5, EditorAssumption DEF OpenAsked, Asks, Objects, Requests
    <2> QED
      BY <2>1
  <1>6. ASSUME NEW o \in Objects, OpenHere(o) PROVE LoopStep
    BY <1>6 DEF OpenHere, Objects
  <1>7. ASSUME NEW o \in Objects, CloseLater(o) PROVE LoopStep
    BY <1>7 DEF CloseLater, loop, Same, Shares
  <1>8. ASSUME NEW o \in Objects, CloseAsked(o) PROVE LoopStep
    <2>1. x_plugin[o] \in 1 .. made /\ x_plugin[o] \in Instances
      BY <1>8, OwnedMade DEF CloseAsked, MayClose
    <2>2. /\ Asks("pd", "destroy", x_plugin[o]) /\ "pd" \in Threads /\ "destroy" \in Requests
          /\ x_plugin[o] \in Infos \cup Instances
      BY <1>8, <2>1, EditorAssumption DEF CloseAsked, Asks, Requests
    <2> QED
      BY <2>2
  <1>9. ASSUME NEW o \in Objects, CloseHere(o) PROVE LoopStep
    <2>1. x_plugin[o] \in Instances /\ x_plugin[o] # None
      BY <1>9, OwnedMade DEF CloseHere, MayClose
    <2>2. \A t \in Threads : owned[t] # x_plugin[o]
      BY <2>1 DEF Owners, Apart
    <2> QED
      BY <1>9, <2>1, <2>2 DEF CloseHere
  <1>10. CASE WorkMakes
    <2>1. Head(work).op = "create" /\ Head(work) = work[1] /\ 1 \in DOMAIN work
          /\ Head(work) \in Items
      BY <1>10, FirstWork DEF WorkMakes
    <2>2. Head(work).arg \in Infos
      BY <2>1 DEF Occupied, Items, Objects
    <2> QED
      BY <1>10, <2>2 DEF WorkMakes
  <1>11. CASE WorkDestroys
    <2>1. Head(work).op = "destroy" /\ Head(work) = work[1] /\ 1 \in DOMAIN work
      BY <1>11, FirstWork DEF WorkDestroys
    <2>2. Head(work).arg \in Instances /\ Doomed(work[1]) = Head(work).arg
      BY <2>1, OwnedMade
    <2>3. \A t \in Threads : owned[t] # Head(work).arg
      BY <2>1, <2>2, Nones DEF Owners, Apart
    <2> QED
      BY <1>11, <2>2, <2>3 DEF WorkDestroys
  <1>12. CASE WorkAsks
    <2>1. Head(work) = work[1] /\ 1 \in DOMAIN work /\ Head(work) \in Items
      BY <1>12, FirstWork DEF WorkAsks
    <2>2. /\ Head(work).op = "create"  => Head(work).arg \in Infos
          /\ Head(work).op = "destroy" => Head(work).arg \in 1 .. made
          /\ Head(work).op \in Requests /\ Head(work).arg \in Infos \cup Instances
      BY <2>1 DEF Occupied, Items, Objects
    <2>3. Asks("worker", Head(work).op, Head(work).arg) /\ "worker" \in Threads
      BY <1>12, <2>2, EditorAssumption DEF WorkAsks, Asks
    <2> QED
      BY <2>2, <2>3
  <1>13. CASE PdGets
    <2>1. Over("pd") /\ "pd" \in Threads
      BY <1>13, EditorAssumption DEF PdGets, Over
    <2> QED
      BY <2>1
  <1>14. CASE WorkerEnd
    <2>1. Over("worker") /\ "worker" \in Threads
      BY <1>14, EditorAssumption DEF WorkerEnd, Over
    <2> QED
      BY <2>1
  <1>15. CASE Arrives
    BY <1>15 DEF Arrives, Same, Shares
  <1>16. ASSUME NEW t \in Threads, Wake(t) PROVE LoopStep
    BY <1>16
  <1>17. CASE UIStep
    BY <1>17
  <1> HIDE DEF LoopStep
  <1> QED
    BY <1>1, <1>2, <1>3, <1>4, <1>5, <1>6, <1>7, <1>8, <1>9, <1>10, <1>11, <1>12, <1>13,
       <1>14, <1>15, <1>16, <1>17 DEF Steps

LEMMA MadeHereDoes ==
  ASSUME LoopTypes, NEW o \in Infos, MadeHere(o)
  PROVE  /\ made' = made + 1 /\ made' \in Instances /\ made' \notin DOMAIN plugins
         /\ made' \in 0 .. MaxPlugins /\ 1 .. made' = (1 .. made) \cup {made'}
         /\ DOMAIN plugins' = DOMAIN plugins \cup {made'}
         /\ plugins' \in [DOMAIN plugins' -> Existing]
         /\ plugins'[made'].info = o /\ ~plugins'[made'].window
         /\ \A p \in DOMAIN plugins : plugins'[p] = plugins[p]
  <1>1. /\ made \in Nat /\ MaxPlugins \in Nat /\ made' = made + 1 /\ made' \in Instances
        /\ made' \notin DOMAIN plugins /\ made' \in 0 .. MaxPlugins
        /\ 1 .. made' = (1 .. made) \cup {made'}
    BY LoopAssumption DEF LoopTypes, MadeHere, Instances
  <1> DEFINE new == [info |-> o, window |-> FALSE, open |-> FALSE]
  <1>2. new \in Existing /\ new.info = o /\ ~new.window
    BY DEF Existing
  <1>3. plugins' = [p \in DOMAIN plugins \cup {made'} |-> IF p = made' THEN new ELSE plugins[p]]
    BY DEF MadeHere
  <1> HIDE DEF new
  <1> QED
    BY <1>1, <1>2, <1>3 DEF LoopTypes

LEMMA GoneHereDoes ==
  ASSUME LoopTypes, NEW p, GoneHere(p)
  PROVE  /\ DOMAIN plugins' = DOMAIN plugins \ {p}
         /\ plugins' \in [DOMAIN plugins' -> Existing]
         /\ \A q \in DOMAIN plugins' : plugins'[q] = plugins[q]
  BY DEF LoopTypes, GoneHere, Restrict

LEMMA ShowDoes ==
  ASSUME LoopTypes, ShowEditor
  PROVE  /\ UNCHANGED <<platform, lock_, ready_, data, caller, made>>
         /\ Handle("open") \/ Handle("close")
         /\ DOMAIN plugins' = DOMAIN plugins /\ plugins' \in [DOMAIN plugins' -> Existing]
         /\ \A p \in DOMAIN plugins : /\ plugins'[p].info = plugins[p].info
                                      /\ plugins'[p].window = plugins[p].window
         /\ lost' => lost \/ (Head(events).host /\ ~HasWindow(Head(events).window))
  <1> DEFINE e == Head(events)
  <1>1. e \in Events
    BY FirstEvent DEF ShowEditor
  <1>2. CASE HasWindow(e.window)
    <2>1. /\ plugins' = [plugins EXCEPT ![e.window].open = (e.type = "open")]
          /\ lost' = lost /\ e.window \in DOMAIN plugins
      BY <1>2 DEF ShowEditor, HasWindow
    <2> DEFINE was == plugins[e.window]
               new == [info |-> was.info, window |-> was.window, open |-> (e.type = "open")]
    <2>2. was \in Existing
      BY <2>1 DEF LoopTypes
    <2>3. was = [info |-> was.info, window |-> was.window, open |-> was.open]
      BY <2>2 DEF Existing
    <2>4. new \in Existing /\ new.info = was.info /\ new.window = was.window
      BY <2>2 DEF Existing
    <2>5. plugins' = [plugins EXCEPT ![e.window] = [was EXCEPT !.open = (e.type = "open")]]
      BY <2>1
    <2> HIDE DEF was
    <2>6. [was EXCEPT !.open = (e.type = "open")] = new
      BY <2>3
    <2> HIDE DEF new
    <2>7. plugins' = [plugins EXCEPT ![e.window] = new]
      BY <2>5, <2>6
    <2>8. lost' => lost \/ (e.host /\ ~HasWindow(e.window))
      BY <1>2, <2>1 DEF HasWindow
    <2> QED
      BY <2>1, <2>4, <2>7, <2>8 DEF LoopTypes, ShowEditor, was
  <1>3. CASE ~HasWindow(e.window)
    <2>1. lost' = (lost \/ e.host) /\ UNCHANGED plugins
      BY <1>3 DEF ShowEditor
    <2>2. lost' => lost \/ (e.host /\ ~HasWindow(e.window))
      BY <1>3, <2>1
    <2> QED
      BY <2>1, <2>2 DEF LoopTypes, ShowEditor
  <1> QED
    BY <1>2, <1>3

LEMMA AsksDoes ==
  ASSUME LoopTypes, OneRequest, ~Overlaps, NEW t \in Threads, NEW op \in Requests, NEW arg,
         Asks(t, op, arg)
  PROVE  Requested(t, op, arg)
  <1>1. op = "destroy" => arg \in Instances
    BY LoopAssumption DEF Asks, Instances, LoopTypes
  <1>2. op = "create" => arg \in Infos
    BY DEF Asks
  <1> QED
    BY <1>1, <1>2, RequestDoes DEF Asks

LEMMA LoopTypesNext ==
  ASSUME LoopTypes, OneRequest, Conversation, ~Overlaps, LoopStep
  PROVE  LoopTypes'
  <1>1. CASE Same /\ Shares
    <2>1. events' \in Seq(Events)
      <3>1. CASE Handle("update")
        BY <3>1, FirstEvent
      <3>2. ASSUME NEW e \in Events, events' = Append(events, e) PROVE events' \in Seq(Events)
        BY <3>2, AppendAt DEF LoopTypes
      <3> QED
        BY <1>1, <3>1, <3>2 DEF Shares, LoopTypes
    <2> QED
      BY <1>1, <2>1 DEF LoopTypes, Same
  <1>2. ASSUME NEW o \in Infos, MadeHere(o) PROVE LoopTypes'
    BY <1>2, MadeHereDoes DEF LoopTypes, MadeHere
  <1>3. ASSUME NEW p \in Instances, GoneHere(p) PROVE LoopTypes'
    BY <1>3, GoneHereDoes DEF LoopTypes, GoneHere
  <1>4. ASSUME NEW t \in Threads, NEW op \in Requests, NEW arg \in Infos \cup Instances,
               Asks(t, op, arg)
        PROVE  LoopTypes'
    <2>1. Requested(t, op, arg)
      BY <1>4, AsksDoes
    <2>2. PICK c \in Callers : caller' = [caller EXCEPT ![t] = c]
      BY <2>1 DEF Requested
    <2>3. ready_' = FALSE /\ UNCHANGED <<platform, ui, made, plugins, lost>>
      BY <2>1 DEF Requested
    <2>4. PICK d \in Answers : data' = [data EXCEPT ![Slot(t)] = d]
      BY <2>1 DEF Requested
    <2>5. PICK e \in Events : events' = Append(events, e)
      BY <2>1 DEF Requested
    <2>6. events' \in Seq(Events)
      BY <2>5, AppendAt DEF LoopTypes
    <2>7. caller' \in [Threads -> Callers]
      BY <2>2 DEF LoopTypes
    <2>8. data' \in [Slots -> Answers]
      BY <2>4 DEF LoopTypes
    <2> QED
      BY <2>3, <2>6, <2>7, <2>8 DEF LoopTypes
  <1>5. ASSUME NEW t \in Threads, Wake(t) PROVE LoopTypes'
    <2>1. UNCHANGED <<platform, ready_, events, ui, made, plugins, lost>>
      BY <1>5, WakeDoes
    <2>2. PICK c \in Callers, d \in Answers :
            /\ caller' = [caller EXCEPT ![t] = c]
            /\ data' = data \/ data' = [data EXCEPT ![Slot(t)] = d]
      BY <1>5, WakeDoes
    <2> QED
      BY <2>1, <2>2 DEF LoopTypes
  <1>6. ASSUME NEW t \in Threads, Over(t) PROVE LoopTypes'
    <2>1. Away \in Callers
      BY DEF Away, Callers, Ids, Names
    <2> QED
      BY <1>6, <2>1 DEF Over, LoopTypes
  <1>7. CASE CreatePlugin
    <2>1. ready_' = TRUE /\ UNCHANGED <<platform, lock_, caller, lost>>
      BY <1>7, CreateDoes
    <2>2. PICK t \in Threads, d \in Answers :
            /\ data' = [data EXCEPT ![Slot(t)] = d]
            /\ \/ /\ made < MaxPlugins /\ made' = made + 1
                  /\ DOMAIN plugins' = DOMAIN plugins \cup {made'}
                  /\ plugins' \in [DOMAIN plugins' -> Existing]
               \/ UNCHANGED <<made, plugins>>
      BY <1>7, CreateDoes
    <2>3. events' \in Seq(Events)
      BY <1>7, FirstEvent DEF CreatePlugin
    <2>4. made' \in 0 .. MaxPlugins /\ DOMAIN plugins' \subseteq 1 .. made'
          /\ plugins' \in [DOMAIN plugins' -> Existing]
      BY <2>2, LoopAssumption DEF LoopTypes
    <2>5. data' \in [Slots -> Answers]
      BY <2>2 DEF LoopTypes
    <2> QED
      BY <2>1, <2>3, <2>4, <2>5 DEF LoopTypes
  <1>8. CASE DestroyPlugin
    <2>1. ready_' = TRUE /\ UNCHANGED <<platform, lock_, caller, made, lost>>
      BY <1>8, DestroyDoes
    <2>2. PICK t \in Threads, d \in Answers :
            /\ data' = [data EXCEPT ![Slot(t)] = d]
            /\ DOMAIN plugins' = DOMAIN plugins \ {caller[t].arg}
            /\ plugins' \in [DOMAIN plugins' -> Existing]
      BY <1>8, DestroyDoes
    <2>3. events' \in Seq(Events)
      BY <1>8, FirstEvent DEF DestroyPlugin
    <2> QED
      BY <2>1, <2>2, <2>3 DEF LoopTypes
  <1>9. CASE Notify
    BY <1>9, NotifyDoes DEF LoopTypes
  <1>10. CASE ShowEditor
    <2>1. events' \in Seq(Events)
      BY <1>10, FirstEvent DEF ShowEditor
    <2> QED
      BY <1>10, <2>1, ShowDoes DEF LoopTypes
  <1> QED
    BY <1>1, <1>2, <1>3, <1>4, <1>5, <1>6, <1>7, <1>8, <1>9, <1>10 DEF LoopStep, UIStep

LEMMA OneRequestNext ==
  ASSUME LoopTypes, OneRequest, Conversation, ~Overlaps, LoopStep
  PROVE  OneRequest'
  <1>1. CASE UNCHANGED <<platform, lock_, caller>>
    BY <1>1 DEF OneRequest, Busy
  <1>2. ASSUME NEW t \in Threads, NEW op \in Requests, NEW arg, Asks(t, op, arg)
        PROVE  OneRequest'
    <2>1. Requested(t, op, arg)
      BY <1>2, AsksDoes
    <2>2. /\ \A u \in Threads : ~Busy(u)
          /\ platform = "win32" => \A u \in Threads : caller[u].pc = "away"
          /\ platform = "x11" => lock_' = t
          /\ platform' = platform
      BY <2>1 DEF Requested
    <2>3. \A u \in Threads : u # t => caller'[u] = caller[u]
      BY <2>1 DEF Requested, LoopTypes
    <2> QED
      BY <2>2, <2>3 DEF OneRequest, Busy
  <1>3. ASSUME NEW t \in Threads, Wake(t) PROVE OneRequest'
    <2>1. Busy(t) /\ platform' = platform
      BY <1>3, WakeDoes DEF Busy
    <2>2. \A u \in Threads : u # t => ~Busy(u)
      BY <2>1, OneBusy
    <2>3. /\ \A u \in Threads : u # t => caller'[u] = caller[u]
          /\ caller'[t].pc = "back" \/ (caller'[t].pc = "waiting" /\ lock_' = lock_)
      BY <1>3, WakeDoes DEF LoopTypes
    <2> QED
      BY <2>1, <2>2, <2>3 DEF OneRequest, Busy
  <1>4. ASSUME NEW t \in Threads, Over(t) PROVE OneRequest'
    <2>1. /\ \A u \in Threads : u # t => caller'[u] = caller[u]
          /\ caller'[t].pc = "away" /\ UNCHANGED <<platform, lock_>>
      BY <1>4 DEF Over, LoopTypes, Away
    <2> QED
      BY <2>1 DEF OneRequest, Busy
  <1>5. CASE Notify
    BY <1>5, NotifyDoes DEF OneRequest, Busy
  <1>6. CASE CreatePlugin
    BY <1>1, <1>6, CreateDoes
  <1>7. CASE DestroyPlugin
    BY <1>1, <1>7, DestroyDoes
  <1>8. CASE ShowEditor
    BY <1>1, <1>8, ShowDoes
  <1> QED
    BY <1>1, <1>2, <1>3, <1>4, <1>5, <1>6, <1>7, <1>8
    DEF LoopStep, UIStep, Same, MadeHere, GoneHere

\* No request is posted twice, and none is added.
RequestsStay ==
  \E n \in {0, 1} : \A i \in DOMAIN events' :
    i \in Nat /\ (events'[i].type \in Requests =>
                    i + n \in DOMAIN events /\ events[i + n] = events'[i])

LEMMA SharesStay == ASSUME LoopTypes, Shares \/ ShowEditor PROVE RequestsStay
  <1>1. ASSUME NEW type, Handle(type) PROVE RequestsStay
    <2>1. \A i \in DOMAIN events' :
            i \in Nat /\ i + 1 \in DOMAIN events /\ events[i + 1] = events'[i]
      BY <1>1, FirstEvent
    <2> QED
      BY <2>1 DEF RequestsStay
  <1>2. CASE events' = events
    <2>1. \A i \in DOMAIN events : i \in Nat /\ i + 0 = i
      BY DEF LoopTypes
    <2> QED
      BY <1>2, <2>1 DEF RequestsStay
  <1>3. ASSUME NEW e \in Events, events' = Append(events, e), e.type \notin Requests
        PROVE  RequestsStay
    <2>1. \A i \in DOMAIN events' :
            i \in Nat /\ i + 0 = i /\ (events'[i] = e \/ (i \in DOMAIN events /\ events'[i] = events[i]))
      BY <1>3, AppendAt DEF LoopTypes
    <2>2. \A i \in DOMAIN events' :
            i \in Nat /\ (events'[i].type \in Requests =>
                            i + 0 \in DOMAIN events /\ events[i + 0] = events'[i])
      BY <1>3, <2>1
    <2> QED
      BY <2>2 DEF RequestsStay
  <1> QED
    BY <1>1, <1>2, <1>3 DEF Shares, ShowEditor

LEMMA TalkStays ==
  ASSUME LoopTypes, Conversation, UNCHANGED <<platform, ready_, data, caller>>,
         1 .. made \subseteq 1 .. made', RequestsStay,
         \A t \in Threads : Busy(t) /\ ready_ /\ Answered(t, data[Slot(t)])
                              => Answered(t, data[Slot(t)])'
  PROVE  Conversation'
  <1>1. \A t \in Threads : caller'[t].pc # "away" =>
          /\ caller'[t].op \in Requests
          /\ caller'[t].op = "destroy" => caller'[t].arg \in 1 .. made'
    BY DEF Conversation
  <1>2. \A t \in Threads : Busy(t)' =>
          IF ready_' THEN Answered(t, data[Slot(t)])' ELSE Asked(t, data[Slot(t)])'
    BY DEF Conversation, Busy, Asked, Slot
  <1>3. PICK n \in {0, 1} : \A i \in DOMAIN events' :
          i \in Nat /\ (events'[i].type \in Requests =>
                          i + n \in DOMAIN events /\ events[i + n] = events'[i])
    BY DEF RequestsStay
  <1>4. ASSUME NEW i \in DOMAIN events', events'[i].type \in Requests
        PROVE  /\ ~ready_'
               /\ \E t \in Threads : /\ Busy(t)' /\ events'[i].slot = Slot(t)'
                                     /\ events'[i].type = caller'[t].op
    <2>1. i + n \in DOMAIN events /\ events[i + n] = events'[i]
      BY <1>3, <1>4
    <2>2. ~ready_ /\ \E t \in Threads : /\ Busy(t) /\ events[i + n].slot = Slot(t)
                                        /\ events[i + n].type = caller[t].op
      BY <1>4, <2>1 DEF Conversation
    <2> QED
      BY <2>1, <2>2 DEF Busy, Slot
  <1>5. ASSUME NEW i \in DOMAIN events', NEW j \in DOMAIN events',
               events'[i].type \in Requests, events'[j].type \in Requests
        PROVE  i = j
    <2>1. /\ i + n \in DOMAIN events /\ events[i + n].type \in Requests
          /\ j + n \in DOMAIN events /\ events[j + n].type \in Requests
          /\ i \in Nat /\ j \in Nat
      BY <1>3, <1>5
    <2>2. i + n = j + n
      BY <2>1 DEF Conversation
    <2> QED
      BY <2>1, <2>2
  <1> QED
    BY <1>1, <1>2, <1>4, <1>5 DEF Conversation

LEMMA ConversationNext ==
  ASSUME LoopTypes, OneRequest, Conversation, ~Overlaps, LoopStep
  PROVE  Conversation'
  <1>1. CASE Same /\ Shares
    <2>1. RequestsStay
      BY <1>1, SharesStay
    <2>2. \A t \in Threads : Busy(t) /\ ready_ /\ Answered(t, data[Slot(t)])
                               => Answered(t, data[Slot(t)])'
      BY <1>1 DEF Same, Answered, Slot
    <2> QED
      BY <1>1, <2>1, <2>2, TalkStays DEF Same
  <1>2. ASSUME NEW o \in Infos, MadeHere(o) PROVE Conversation'
    <2>1. RequestsStay
      BY <1>2, SharesStay DEF MadeHere, Shares
    <2>2. ASSUME NEW t \in Threads, Busy(t), ready_, Answered(t, data[Slot(t)])
          PROVE  Answered(t, data[Slot(t)])'
      <3>1. UNCHANGED <<caller, platform, data>> /\ caller[t].op \in Requests
            /\ (caller[t].op = "destroy" => caller[t].arg \in 1 .. made)
        BY <1>2, <2>2 DEF MadeHere, Conversation, Busy
      <3>2. caller[t].op = "destroy" => caller[t].arg # made'
        BY <1>2, <3>1, MadeHereDoes DEF LoopTypes
      <3>3. /\ DOMAIN plugins' = DOMAIN plugins \cup {made'}
            /\ \A p \in DOMAIN plugins : plugins'[p] = plugins[p]
        BY <1>2, MadeHereDoes
      <3> QED
        BY <2>2, <3>1, <3>2, <3>3 DEF Answered, Slot, Requests
    <2>3. 1 .. made \subseteq 1 .. made'
      BY <1>2, MadeHereDoes
    <2> QED
      BY <1>2, <2>1, <2>2, <2>3, TalkStays DEF MadeHere
  <1>3. ASSUME NEW q \in Instances, GoneHere(q), \A t \in Threads : owned[t] # q
        PROVE  Conversation'
    <2>1. RequestsStay
      BY <1>3, SharesStay DEF GoneHere, Shares
    <2>2. ASSUME NEW t \in Threads, Busy(t), ready_, Answered(t, data[Slot(t)])
          PROVE  Answered(t, data[Slot(t)])'
      <3>1. UNCHANGED <<caller, platform, data>>
        BY <1>3 DEF GoneHere
      <3>2. caller[t].op = "create" => data[Slot(t)].plugin # q
        BY <1>3, <2>2 DEF owned, Has, Got, Busy
      <3>3. /\ DOMAIN plugins' = DOMAIN plugins \ {q}
            /\ \A p \in DOMAIN plugins' : plugins'[p] = plugins[p]
        BY <1>3, GoneHereDoes
      <3> QED
        BY <2>2, <3>1, <3>2, <3>3 DEF Answered, Slot
    <2> QED
      BY <1>3, <2>1, <2>2, TalkStays DEF GoneHere
  <1>4. CASE ShowEditor
    <2>1. RequestsStay
      BY <1>4, SharesStay
    <2>2. \A t \in Threads : Busy(t) /\ ready_ /\ Answered(t, data[Slot(t)])
                               => Answered(t, data[Slot(t)])'
      BY <1>4, ShowDoes DEF Answered, Slot
    <2>3. UNCHANGED <<platform, ready_, data, caller, made>>
      BY <1>4, ShowDoes
    <2> QED
      BY <2>1, <2>2, <2>3, TalkStays
  <1>5. ASSUME NEW t \in Threads, NEW op \in Requests, NEW arg, Asks(t, op, arg)
        PROVE  Conversation'
    <2>1. Requested(t, op, arg)
      BY <1>5, AsksDoes
    <2>2. PICK c \in Callers : /\ caller' = [caller EXCEPT ![t] = c]
                               /\ c.pc = "waiting" /\ c.op = op /\ c.arg = arg
      BY <2>1 DEF Requested
    <2>3. PICK d \in Answers : /\ data' = [data EXCEPT ![Slot(t)] = d]
                               /\ op = "create"  => d.info = arg /\ d.plugin = None
                               /\ op = "destroy" => d.plugin = arg
      BY <2>1 DEF Requested
    <2>4. PICK e \in Events : events' = Append(events, e) /\ e.type = op /\ e.slot = Slot(t)
      BY <2>1 DEF Requested
    <2>5. ~ready_' /\ UNCHANGED <<platform, made>> /\ \A u \in Threads : ~Busy(u)
      BY <2>1 DEF Requested
    <2>6. /\ caller'[t].pc = "waiting" /\ caller'[t].op = op /\ caller'[t].arg = arg
          /\ \A u \in Threads : u # t => caller'[u] = caller[u]
      BY <2>2 DEF LoopTypes
    <2>7. /\ op = "create"  => arg \in Infos
          /\ op = "destroy" => arg \in 1 .. made
      BY <1>5 DEF Asks
    <2>8. \A u \in Threads : caller'[u].pc # "away" =>
            /\ caller'[u].op \in Requests
            /\ caller'[u].op = "destroy" => caller'[u].arg \in 1 .. made'
      BY <2>5, <2>6, <2>7 DEF Conversation
    <2>9. \A u \in Threads : Busy(u)' => u = t
      BY <2>5, <2>6 DEF Busy
    <2>10. Asked(t, data[Slot(t)])' /\ Slot(t)' = Slot(t)
      <3>1. Slot(t)' = Slot(t) /\ data'[Slot(t)] = d
        BY <2>3, <2>5, SlotType DEF Slot, LoopTypes
      <3> QED
        BY <2>3, <2>6, <2>7, <3>1 DEF Asked
    <2>11. \A i \in DOMAIN events : events[i].type \notin Requests
      BY <2>5 DEF Conversation
    <2>12. \A i \in DOMAIN events' :
             \/ events'[i] = e /\ i = Len(events) + 1
             \/ i \in DOMAIN events /\ events'[i] = events[i]
      BY <2>4, AppendAt DEF LoopTypes
    <2>13. \A i \in DOMAIN events' : events'[i].type \in Requests =>
             events'[i] = e /\ i = Len(events) + 1
      BY <2>11, <2>12
    <2>14. Busy(t)'
      BY <2>6 DEF Busy
    <2> QED
      BY <2>4, <2>5, <2>6, <2>8, <2>9, <2>10, <2>13, <2>14 DEF Conversation
  <1>6. ASSUME NEW t \in Threads, Wake(t) PROVE Conversation'
    <2>1. Busy(t) /\ UNCHANGED <<platform, ready_, events, made, plugins>>
      BY <1>6, WakeDoes DEF Busy
    <2>2. \A u \in Threads : u # t => ~Busy(u)
      BY <2>1, OneBusy
    <2>3. PICK c \in Callers :
            /\ caller' = [caller EXCEPT ![t] = c]
            /\ c.op = caller[t].op /\ c.arg = caller[t].arg
            /\ \/ ready_ /\ c.pc = "back"
               \/ ~ready_ /\ c.pc = "waiting" /\ data' = data
      BY <1>6, WakeDoes
    <2>4. /\ caller'[t] = c /\ \A u \in Threads : u # t => caller'[u] = caller[u]
      BY <2>3 DEF LoopTypes
    <2>5. \A u \in Threads : /\ caller'[u].op = caller[u].op /\ caller'[u].arg = caller[u].arg
                             /\ caller'[u].pc # "away" => caller[u].pc # "away"
      BY <2>1, <2>3, <2>4 DEF Busy
    <2>6. CASE ready_
      <3>1. \A u \in Threads : ~Busy(u)'
        BY <2>2, <2>3, <2>4, <2>6 DEF Busy
      <3>2. \A i \in DOMAIN events' : events'[i].type \notin Requests
        BY <2>1, <2>6 DEF Conversation
      <3>3. \A u \in Threads : caller'[u].pc # "away" =>
              /\ caller'[u].op \in Requests
              /\ caller'[u].op = "destroy" => caller'[u].arg \in 1 .. made'
        BY <2>1, <2>5 DEF Conversation
      <3> QED
        BY <3>1, <3>2, <3>3 DEF Conversation
    <2>7. CASE ~ready_
      <3>1. \A u \in Threads : Busy(u)' = Busy(u)
        BY <2>1, <2>2, <2>3, <2>4, <2>7 DEF Busy
      <3>2. data' = data /\ \A u \in Threads : Slot(u)' = Slot(u)
        BY <2>1, <2>3, <2>7 DEF Slot
      <3>3. \A u \in Threads : Busy(u)' => Asked(u, data[Slot(u)])'
        BY <2>5, <2>7, <3>1, <3>2 DEF Conversation, Asked
      <3>4. \A u \in Threads : caller'[u].pc # "away" =>
              /\ caller'[u].op \in Requests
              /\ caller'[u].op = "destroy" => caller'[u].arg \in 1 .. made'
        BY <2>1, <2>5 DEF Conversation
      <3>5. \A i \in DOMAIN events' : events'[i].type \in Requests =>
              \E u \in Threads : /\ Busy(u)' /\ events'[i].slot = Slot(u)'
                                 /\ events'[i].type = caller'[u].op
        BY <2>1, <2>5, <3>1, <3>2 DEF Conversation
      <3>6. \A i, j \in DOMAIN events' :
              events'[i].type \in Requests /\ events'[j].type \in Requests => i = j
        BY <2>1 DEF Conversation
      <3> QED
        BY <2>1, <2>7, <3>3, <3>4, <3>5, <3>6 DEF Conversation
    <2> QED
      BY <2>6, <2>7
  <1>7. ASSUME NEW t \in Threads, Over(t) PROVE Conversation'
    <2>1. /\ caller'[t] = Away /\ \A u \in Threads : u # t => caller'[u] = caller[u]
          /\ caller[t].pc = "back"
          /\ UNCHANGED <<platform, ready_, data, events, made, plugins>>
      BY <1>7 DEF Over, LoopTypes
    <2>2. \A u \in Threads : /\ Busy(u)' = Busy(u) /\ (Busy(u) => caller'[u] = caller[u])
                             /\ caller'[u].pc # "away" => caller'[u] = caller[u]
      BY <2>1 DEF Busy, Away
    <2>3. \A u \in Threads : caller'[u].pc # "away" =>
            /\ caller'[u].op \in Requests
            /\ caller'[u].op = "destroy" => caller'[u].arg \in 1 .. made'
      BY <2>1, <2>2 DEF Conversation
    <2>4. \A u \in Threads : Busy(u)' =>
            IF ready_' THEN Answered(u, data[Slot(u)])' ELSE Asked(u, data[Slot(u)])'
      BY <2>1, <2>2 DEF Conversation, Answered, Asked, Slot
    <2>5. \A i \in DOMAIN events' : events'[i].type \in Requests =>
            /\ ~ready_'
            /\ \E u \in Threads : /\ Busy(u)' /\ events'[i].slot = Slot(u)'
                                  /\ events'[i].type = caller'[u].op
      BY <2>1, <2>2 DEF Conversation, Slot
    <2>6. \A i, j \in DOMAIN events' :
            events'[i].type \in Requests /\ events'[j].type \in Requests => i = j
      BY <2>1 DEF Conversation
    <2> QED
      BY <2>3, <2>4, <2>5, <2>6 DEF Conversation
  <1>8. CASE Notify
    <2>1. /\ UNCHANGED <<platform, ready_, data, events, made, plugins>>
          /\ \A t \in Threads :
               /\ caller'[t].op = caller[t].op /\ caller'[t].arg = caller[t].arg
               /\ \/ caller'[t].pc = caller[t].pc
                  \/ caller[t].pc = "waiting" /\ caller'[t].pc = "woken"
      BY <1>8, NotifyDoes
    <2>2. \A u \in Threads : /\ Busy(u)' = Busy(u)
                             /\ caller'[u].pc # "away" => caller[u].pc # "away"
      BY <2>1 DEF Busy
    <2>3. \A u \in Threads : caller'[u].pc # "away" =>
            /\ caller'[u].op \in Requests
            /\ caller'[u].op = "destroy" => caller'[u].arg \in 1 .. made'
      BY <2>1, <2>2 DEF Conversation
    <2>4. \A u \in Threads : Busy(u)' =>
            IF ready_' THEN Answered(u, data[Slot(u)])' ELSE Asked(u, data[Slot(u)])'
      BY <2>1, <2>2 DEF Conversation, Answered, Asked, Slot
    <2>5. \A i \in DOMAIN events' : events'[i].type \in Requests =>
            /\ ~ready_'
            /\ \E u \in Threads : /\ Busy(u)' /\ events'[i].slot = Slot(u)'
                                  /\ events'[i].type = caller'[u].op
      BY <2>1, <2>2 DEF Conversation, Slot
    <2>6. \A i, j \in DOMAIN events' :
            events'[i].type \in Requests /\ events'[j].type \in Requests => i = j
      BY <2>1 DEF Conversation
    <2> QED
      BY <2>3, <2>4, <2>5, <2>6 DEF Conversation
  <1>9. ASSUME ready_' = TRUE, UNCHANGED <<platform, caller>>, made' >= made,
               \A k \in DOMAIN events' : events'[k].type \notin Requests,
               NEW t \in Threads, \A u \in Threads : u # t => ~Busy(u),
               Answered(t, data[Slot(t)])'
        PROVE  Conversation'
    <2>1. \A u \in Threads : caller'[u].pc # "away" =>
            /\ caller'[u].op \in Requests
            /\ caller'[u].op = "destroy" => caller'[u].arg \in 1 .. made'
      <3>1. \A v \in 1 .. made : v \in 1 .. made'
        <4>1. made \in Int /\ made' \in Int
          BY LoopTypesNext DEF LoopTypes
        <4> QED
          BY <1>9, <4>1
      <3> QED
        BY <1>9, <3>1 DEF Conversation
    <2>2. \A u \in Threads : Busy(u)' => u = t
      BY <1>9 DEF Busy
    <2> QED
      BY <1>9, <2>1, <2>2 DEF Conversation
  <1>10. CASE CreatePlugin
    <2>1. /\ ready_' = TRUE /\ UNCHANGED <<platform, caller>>
          /\ \A k \in DOMAIN events' : events'[k].type \notin Requests
      BY <1>10, CreateDoes
    <2>2. PICK t \in Threads, d \in Answers :
            /\ caller[t].op = "create" /\ caller[t].arg \in Infos
            /\ \A u \in Threads : u # t => ~Busy(u)
            /\ data' = [data EXCEPT ![Slot(t)] = d]
            /\ \/ /\ made' = made + 1 /\ d.plugin = made'
                  /\ DOMAIN plugins' = DOMAIN plugins \cup {made'}
                  /\ plugins'[made'].info = caller[t].arg
               \/ d.plugin = None /\ d.err = caller[t].arg /\ made' = made
      BY <1>10, CreateDoes
    <2>3. data[Slot(t)]' = d
      BY <2>1, <2>2, SlotType DEF Slot, LoopTypes
    <2>4. Answered(t, data[Slot(t)])'
      BY <2>1, <2>2, <2>3 DEF Answered
    <2>5. made' >= made
      BY <2>2 DEF LoopTypes
    <2> QED
      BY <1>9, <2>1, <2>2, <2>4, <2>5
  <1>11. CASE DestroyPlugin
    <2>1. /\ ready_' = TRUE /\ UNCHANGED <<platform, caller, made>>
          /\ \A k \in DOMAIN events' : events'[k].type \notin Requests
      BY <1>11, DestroyDoes
    <2>2. PICK t \in Threads :
            /\ caller[t].op = "destroy" /\ \A u \in Threads : u # t => ~Busy(u)
            /\ DOMAIN plugins' = DOMAIN plugins \ {caller[t].arg}
      BY <1>11, DestroyDoes
    <2>3. Answered(t, data[Slot(t)])'
      BY <2>1, <2>2 DEF Answered
    <2>4. made' >= made
      BY <2>1 DEF LoopTypes
    <2> QED
      BY <1>9, <2>1, <2>2, <2>3, <2>4
  <1> QED
    BY <1>1, <1>2, <1>3, <1>4, <1>5, <1>6, <1>7, <1>8, <1>10, <1>11 DEF LoopStep, UIStep

\* The instance that a thread destroys is nobody else's.
LEMMA GivenAway ==
  ASSUME LoopTypes, EditorTypes, Conversation, Occupied, Owners,
         NEW u \in Threads, caller[u].pc # "away", caller[u].op = "destroy"
  PROVE  /\ caller[u].arg \in Instances /\ caller[u].arg \in 1 .. made
         /\ \A t \in Threads : t # u => owned[t] # caller[u].arg
  <1>1. caller[u].arg \in 1 .. made /\ caller[u].arg \in Instances
    BY OwnedMade DEF Conversation
  <1>2. CASE u = "pd"
    <2>1. owned[u] = caller[u].arg
      BY <1>2 DEF owned, Has
    <2> QED
      BY <1>1, <2>1, Nones DEF Owners, Apart
  <1>3. CASE u = "worker"
    <2>1. work # <<>> /\ Head(work).op = "destroy" /\ Head(work).arg = caller[u].arg
      BY <1>3 DEF Occupied
    <2>2. Head(work) = work[1] /\ 1 \in DOMAIN work
      BY <2>1, FirstWork
    <2>3. Doomed(work[1]) = caller[u].arg
      BY <2>1, <2>2 DEF Doomed
    <2> QED
      BY <1>1, <2>2, <2>3, Nones DEF Owners, Apart
  <1> QED
    BY <1>1, <1>2, <1>3, EditorAssumption

LEMMA AnswersKept ==
  ASSUME OwnAnswer, Conversation,
         \A t \in Threads : caller'[t].pc = "back" => caller'[t] = caller[t],
         \A p \in DOMAIN plugins : p \in DOMAIN plugins' => plugins'[p].info = plugins[p].info,
         \A t \in Threads, p \in DOMAIN plugins :
           caller[t].pc = "back" /\ caller[t].op = "create" /\ caller[t].result = p
             => p \in DOMAIN plugins',
         \A t \in Threads :
           caller[t].pc = "back" /\ caller[t].op = "destroy" /\ caller[t].arg \in DOMAIN plugins'
             => caller[t].arg \in DOMAIN plugins
  PROVE  OwnAnswer'
  <1> SUFFICES ASSUME NEW t \in Threads, caller'[t].pc = "back"
               PROVE  IF caller'[t].op = "create"
                      THEN \/ /\ caller'[t].result \in DOMAIN plugins'
                              /\ plugins'[caller'[t].result].info = caller'[t].arg
                           \/ caller'[t].result = None /\ caller'[t].err = caller'[t].arg
                      ELSE caller'[t].arg \notin DOMAIN plugins'
    BY DEF OwnAnswer
  <1>1. caller'[t] = caller[t] /\ caller[t].pc = "back" /\ caller[t].op \in Requests
    BY DEF Conversation
  <1>2. CASE caller[t].op = "create"
    BY <1>1, <1>2 DEF OwnAnswer
  <1>3. CASE caller[t].op = "destroy"
    BY <1>1, <1>3 DEF OwnAnswer
  <1> QED
    BY <1>1, <1>2, <1>3 DEF Requests

LEMMA OwnAnswerNext ==
  ASSUME LoopTypes, EditorTypes, OneRequest, Conversation, Occupied, Owners, OwnAnswer,
         ~Overlaps, LoopStep
  PROVE  OwnAnswer'
  <1>1. CASE UNCHANGED <<caller, plugins>>
    BY <1>1, AnswersKept
  <1>2. ASSUME NEW o \in Infos, MadeHere(o) PROVE OwnAnswer'
    <2>1. /\ UNCHANGED caller /\ made' \notin 1 .. made
          /\ DOMAIN plugins' = DOMAIN plugins \cup {made'}
          /\ \A p \in DOMAIN plugins : plugins'[p] = plugins[p]
      BY <1>2, MadeHereDoes DEF MadeHere, LoopTypes
    <2>2. \A t \in Threads : caller[t].pc = "back" /\ caller[t].op = "destroy" =>
            caller[t].arg # made'
      BY <2>1 DEF Conversation
    <2> QED
      BY <2>1, <2>2, AnswersKept
  <1>3. ASSUME NEW q \in Instances, GoneHere(q), \A t \in Threads : owned[t] # q
        PROVE  OwnAnswer'
    <2>1. /\ UNCHANGED caller /\ DOMAIN plugins' = DOMAIN plugins \ {q}
          /\ \A p \in DOMAIN plugins' : plugins'[p] = plugins[p]
      BY <1>3, GoneHereDoes DEF GoneHere
    <2>2. \A t \in Threads : caller[t].pc = "back" /\ caller[t].op = "create" =>
            caller[t].result # q
      BY <1>3 DEF owned, Has, Got
    <2> QED
      BY <2>1, <2>2, AnswersKept
  <1>4. CASE ShowEditor
    BY <1>4, ShowDoes, AnswersKept
  <1>5. ASSUME NEW t \in Threads, NEW op \in Requests, NEW arg, Asks(t, op, arg)
        PROVE  OwnAnswer'
    <2>1. Requested(t, op, arg)
      BY <1>5, AsksDoes
    <2>2. /\ \A u \in Threads : u # t => caller'[u] = caller[u]
          /\ caller'[t].pc = "waiting" /\ UNCHANGED plugins
      BY <2>1 DEF Requested, LoopTypes
    <2> QED
      BY <2>2, AnswersKept
  <1>6. ASSUME NEW t \in Threads, Wake(t) PROVE OwnAnswer'
    <2>1. Busy(t) /\ UNCHANGED plugins
      BY <1>6, WakeDoes DEF Busy
    <2>2. PICK c \in Callers :
            /\ caller' = [caller EXCEPT ![t] = c]
            /\ c.op = caller[t].op /\ c.arg = caller[t].arg
            /\ \/ /\ ready_ /\ c.pc = "back"
                  /\ c.result = data[Slot(t)].plugin /\ c.err = data[Slot(t)].err
               \/ c.pc = "waiting"
      BY <1>6, WakeDoes
    <2>3. caller'[t] = c /\ \A u \in Threads : u # t => caller'[u] = caller[u]
      BY <2>2 DEF LoopTypes
    <2>4. CASE c.pc = "waiting"
      <3>1. \A u \in Threads : caller'[u].pc = "back" => caller'[u] = caller[u]
        BY <2>3, <2>4
      <3> QED
        BY <2>1, <3>1, AnswersKept
    <2>5. CASE c.pc = "back"
      <3>1. ready_ /\ c.result = data[Slot(t)].plugin /\ c.err = data[Slot(t)].err
        BY <2>2, <2>5
      <3>2. Answered(t, data[Slot(t)])
        BY <2>1, <3>1 DEF Conversation
      <3>3. IF c.op = "create" THEN \/ c.result \in DOMAIN plugins /\ plugins[c.result].info = c.arg
                                    \/ c.result = None /\ c.err = c.arg
                               ELSE c.arg \notin DOMAIN plugins
        BY <2>2, <3>1, <3>2 DEF Answered
      <3> QED
        BY <2>1, <2>3, <3>3 DEF OwnAnswer
    <2> QED
      BY <2>2, <2>4, <2>5
  <1>7. ASSUME NEW t \in Threads, Over(t) PROVE OwnAnswer'
    <2>1. /\ UNCHANGED plugins /\ caller'[t].pc = "away"
          /\ \A u \in Threads : u # t => caller'[u] = caller[u]
      BY <1>7 DEF Over, LoopTypes, Away
    <2> QED
      BY <2>1, AnswersKept
  <1>8. CASE Notify
    <2>1. /\ UNCHANGED plugins
          /\ \A t \in Threads : caller'[t].pc = "back" =>
               /\ caller[t].pc = "back"
               /\ caller'[t].op = caller[t].op /\ caller'[t].arg = caller[t].arg
               /\ caller'[t].result = caller[t].result /\ caller'[t].err = caller[t].err
      BY <1>8, NotifyDoes
    <2> QED
      BY <2>1 DEF OwnAnswer
  <1>9. CASE CreatePlugin
    <2>1. UNCHANGED caller
      BY <1>9, CreateDoes
    <2>2. CASE UNCHANGED plugins
      BY <1>1, <2>1, <2>2
    <2>3. CASE /\ made' = made + 1 /\ DOMAIN plugins' = DOMAIN plugins \cup {made'}
               /\ \A p \in DOMAIN plugins : plugins'[p] = plugins[p]
      <3>1. made' \notin 1 .. made
        BY <2>3 DEF LoopTypes
      <3>2. \A t \in Threads : caller[t].pc = "back" /\ caller[t].op = "destroy" =>
              caller[t].arg # made'
        BY <3>1 DEF Conversation
      <3> QED
        BY <2>1, <2>3, <3>2, AnswersKept
    <2> QED
      BY <1>9, <2>2, <2>3, CreateDoes
  <1>10. CASE DestroyPlugin
    <2>1. PICK u \in Threads :
            /\ Busy(u) /\ caller[u].op = "destroy"
            /\ DOMAIN plugins' = DOMAIN plugins \ {caller[u].arg}
            /\ \A p \in DOMAIN plugins' : plugins'[p] = plugins[p]
      BY <1>10, DestroyDoes
    <2>2. UNCHANGED caller
      BY <1>10, DestroyDoes
    <2>3. \A t \in Threads : t # u => owned[t] # caller[u].arg
      BY <2>1, GivenAway DEF Busy
    <2>4. \A t \in Threads : caller[t].pc = "back" /\ caller[t].op = "create" =>
            caller[t].result # caller[u].arg
      BY <2>1, <2>3 DEF owned, Has, Got, Busy
    <2> QED
      BY <2>1, <2>2, <2>4, AnswersKept
  <1> QED
    BY <1>1, <1>2, <1>3, <1>4, <1>5, <1>6, <1>7, <1>8, <1>9, <1>10
    DEF LoopStep, UIStep, Same
--------------------------------------------------------------------------------
(* The objects, the work queue and its results *)

LEMMA FirstResult ==
  ASSUME EditorTypes, results # <<>>
  PROVE  /\ Head(results) = results[1] /\ 1 \in DOMAIN results
         /\ Head(results)[1] \in Objects /\ Head(results)[2] \in Ids
         /\ Tail(results) \in Seq(Objects \X Ids)
         /\ \A k \in DOMAIN Tail(results) : /\ k \in Nat /\ k + 1 \in DOMAIN results
                                            /\ k + 1 # 1 /\ Tail(results)[k] = results[k + 1]
  <1>1. results \in Seq(Objects \X Ids)
    BY DEF EditorTypes
  <1>2. Head(results) \in Objects \X Ids
    BY <1>1, TailAt
  <1>3. Head(results)[1] \in Objects /\ Head(results)[2] \in Ids
    BY <1>2
  <1> QED
    BY <1>1, <1>3, TailAt

LEMMA WorkerEndDoes ==
  ASSUME LoopTypes, EditorTypes, Occupied, WorkerEnd
  PROVE  /\ Over("worker") /\ work # <<>> /\ work' = Tail(work)
         /\ caller["worker"].op = Head(work).op
         /\ UNCHANGED <<x_plugin, x_uithread, opening, pd>>
         /\ IF Head(work).op = "create"
            THEN results' = Append(results, <<Head(work).object, caller["worker"].result>>)
            ELSE results' = results
         /\ Head(work) \in Items /\ caller["worker"].result \in Ids
  <1>1. Over("worker") /\ UNCHANGED <<x_plugin, x_uithread, opening, pd>>
    BY DEF WorkerEnd, Over, opened
  <1>2. work # <<>> /\ caller["worker"].op = Head(work).op
    BY DEF WorkerEnd, Occupied
  <1>3. /\ work' = Tail(work)
        /\ IF Head(work).op = "create"
           THEN results' = Append(results, <<Head(work).object, caller["worker"].result>>)
           ELSE results' = results
    BY DEF WorkerEnd, WorkDone
  <1>4. caller["worker"].result \in Ids
    BY EditorAssumption DEF LoopTypes, Callers
  <1>5. Head(work) \in Items
    BY <1>2, FirstWork
  <1> QED
    BY <1>1, <1>2, <1>3, <1>4, <1>5

LEMMA ReturnedDoes ==
  ASSUME LoopTypes, EditorTypes, Occupied, PdGets
  PROVE  /\ Over("pd") /\ UNCHANGED <<x_uithread, opening, work, results>> /\ pd' = PdIdle
         /\ caller["pd"].result \in Ids
         /\ IF pd.pc = "open"
            THEN /\ pd.object \in Objects /\ caller["pd"].op = "create"
                 /\ x_plugin' = [x_plugin EXCEPT ![pd.object] = caller["pd"].result]
            ELSE caller["pd"].op # "create" /\ x_plugin' = x_plugin
  <1>1. /\ Over("pd") /\ UNCHANGED <<x_uithread, opening, work, results>> /\ pd' = PdIdle
    BY DEF PdGets, Over
  <1>2. caller["pd"].result \in Ids
    BY EditorAssumption DEF LoopTypes, Callers
  <1>3. pd.pc = (IF caller["pd"].op = "create" THEN "open" ELSE "close")
    BY DEF PdGets, Over, Occupied
  <1>4. IF pd.pc = "open" THEN x_plugin' = [x_plugin EXCEPT ![pd.object] = caller["pd"].result]
                          ELSE x_plugin' = x_plugin
    BY DEF PdGets
  <1>5. pd.pc = "open" => pd.object \in Objects
    BY DEF EditorTypes
  <1> QED
    BY <1>1, <1>2, <1>3, <1>4, <1>5

LEMMA PollDoes ==
  ASSUME EditorTypes, Arrives
  PROVE  /\ results # <<>> /\ results' = Tail(results)
         /\ x_plugin' = [x_plugin EXCEPT ![Head(results)[1]] = Head(results)[2]]
         /\ opening' = [opening EXCEPT ![Head(results)[1]] = FALSE]
         /\ UNCHANGED <<platform, lock_, ready_, data, caller, events, made, plugins, lost,
                        x_uithread, work, pd>>
  BY DEF Arrives

LEMMA EditorTypesNext ==
  ASSUME LoopTypes, EditorTypes, Occupied, Owners, Steps
  PROVE  EditorTypes'
  <1>1. CASE UNCHANGED <<x_plugin, x_uithread, opening, work, results>> /\ pd' = pd
    BY <1>1 DEF EditorTypes
  <1>2. CASE Quiet
    <2>1. UNCHANGED <<x_plugin, x_uithread, opening, work, results>>
      BY <1>2 DEF Quiet
    <2>2. CASE pd' = pd
      BY <1>1, <2>1, <2>2
    <2>3. CASE /\ pd'.pc \in {"idle", "tick"}
               /\ pd' = [pc |-> pd'.pc, object |-> pd'.object, left |-> pd'.left]
      BY <2>1, <2>3 DEF EditorTypes
    <2> QED
      BY <1>2, <2>2, <2>3 DEF Quiet
  <1>3. ASSUME NEW o \in Objects, NEW uithread \in BOOLEAN, OpenLater(o, uithread)
        PROVE  EditorTypes'
    <2> DEFINE e == [op |-> "create", arg |-> o, object |-> o, uithread |-> uithread]
    <2>1. e \in Items
      BY DEF Items, Objects, Requests
    <2> HIDE DEF e
    <2>2. work' \in Seq(Items)
      BY <1>3, <2>1, AppendAt DEF OpenLater, EditorTypes, e
    <2> QED
      BY <1>3, <2>2 DEF OpenLater, EditorTypes
  <1>4. ASSUME NEW o \in Objects, OpenAsked(o) PROVE EditorTypes'
    BY <1>4 DEF OpenAsked, EditorTypes
  <1>5. ASSUME NEW o \in Objects, OpenHere(o) PROVE EditorTypes'
    <2>1. made' \in Ids
      BY <1>5, MadeHereDoes DEF OpenHere, Ids, Objects
    <2> QED
      BY <1>5, <2>1 DEF OpenHere, EditorTypes
  <1>6. ASSUME NEW o \in Objects, CloseLater(o) PROVE EditorTypes'
    <2> DEFINE e == [op |-> "destroy", arg |-> x_plugin[o], object |-> o,
                     uithread |-> x_uithread[o]]
    <2>1. x_plugin[o] \in Instances /\ x_uithread[o] \in BOOLEAN
      BY <1>6, OwnedMade DEF CloseLater, MayClose, EditorTypes
    <2>2. e \in Items
      BY <2>1 DEF Items, Requests
    <2> HIDE DEF e
    <2>3. work' \in Seq(Items)
      BY <1>6, <2>2, AppendAt DEF CloseLater, EditorTypes, e
    <2>4. x_plugin' \in [Objects -> Ids]
      BY <1>6 DEF CloseLater, MayClose, EditorTypes, Ids
    <2> QED
      BY <1>6, <2>3, <2>4 DEF CloseLater, MayClose, EditorTypes
  <1>7. ASSUME NEW o \in Objects, CloseAsked(o) \/ CloseHere(o) PROVE EditorTypes'
    <2>1. x_plugin' \in [Objects -> Ids] /\ UNCHANGED <<x_uithread, opening, work, results>>
      BY <1>7 DEF CloseAsked, CloseHere, MayClose, EditorTypes, Ids
    <2>2. pd' = pd \/ pd' = [pc |-> "close", object |-> o, left |-> <<>>]
      BY <1>7 DEF CloseAsked, CloseHere
    <2> QED
      BY <2>1, <2>2 DEF EditorTypes
  <1>8. CASE WorkMakes
    <2>1. work # <<>> /\ MadeHere(Head(work).arg) /\ Head(work).op = "create"
      BY <1>8 DEF WorkMakes
    <2>2. Head(work).object \in Objects /\ Head(work).arg \in Infos /\ Tail(work) \in Seq(Items)
      BY <2>1, FirstWork DEF Occupied, Items, Objects
    <2>3. made' \in Ids
      BY <2>1, <2>2, MadeHereDoes DEF Ids
    <2>4. results' \in Seq(Objects \X Ids)
      BY <1>8, <2>2, <2>3, AppendAt DEF WorkMakes, EditorTypes
    <2> QED
      BY <1>8, <2>2, <2>4 DEF WorkMakes, EditorTypes
  <1>9. CASE WorkDestroys
    <2>1. Tail(work) \in Seq(Items)
      BY <1>9, FirstWork DEF WorkDestroys
    <2> QED
      BY <1>9, <2>1 DEF WorkDestroys, EditorTypes
  <1>10. CASE PdGets
    <2>1. x_plugin' \in [Objects -> Ids]
      BY <1>10, ReturnedDoes DEF EditorTypes
    <2>2. UNCHANGED <<x_uithread, opening, work, results>> /\ pd' = PdIdle
      BY <1>10, ReturnedDoes
    <2> QED
      BY <2>1, <2>2 DEF EditorTypes, PdIdle
  <1>11. CASE WorkerEnd
    <2>1. /\ work # <<>> /\ work' = Tail(work) /\ Head(work) \in Items
          /\ caller["worker"].result \in Ids
          /\ UNCHANGED <<x_plugin, x_uithread, opening, pd>>
          /\ \/ results' = Append(results, <<Head(work).object, caller["worker"].result>>)
             \/ results' = results
      BY <1>11, WorkerEndDoes
    <2>2. work' \in Seq(Items)
      BY <2>1, FirstWork
    <2>3. <<Head(work).object, caller["worker"].result>> \in Objects \X Ids
      BY <2>1 DEF Items
    <2>4. results' \in Seq(Objects \X Ids)
      <3>1. results \in Seq(Objects \X Ids)
        BY DEF EditorTypes
      <3>2. \A e \in Objects \X Ids : Append(results, e) \in Seq(Objects \X Ids)
        BY <3>1, AppendAt
      <3> QED
        BY <2>1, <2>3, <3>1, <3>2
    <2> QED
      BY <2>1, <2>2, <2>4 DEF EditorTypes
  <1>12. CASE Arrives
    <2>1. /\ Head(results)[1] \in Objects /\ Head(results)[2] \in Ids
          /\ results' \in Seq(Objects \X Ids)
      BY <1>12, PollDoes, FirstResult
    <2> QED
      BY <1>12, <2>1, PollDoes DEF EditorTypes
  <1> QED
    BY <1>1, <1>2, <1>3, <1>4, <1>5, <1>6, <1>7, <1>8, <1>9, <1>10, <1>11, <1>12
    DEF Steps, Refreshes, Posts, Kept, WorkAsks

\* a thread that was not asking is asking
Begins(t) == caller[t].pc = "away" /\ caller'[t].pc # "away"

LEMMA CallersGoOn ==
  ASSUME LoopTypes, OneRequest, Conversation, ~Overlaps, NEW t \in Threads,
         LoopStep, caller'[t].pc # "away", caller[t].pc # "away"
  PROVE  caller'[t].op = caller[t].op /\ caller'[t].arg = caller[t].arg
  <1>1. ASSUME NEW u \in Threads, NEW op \in Requests, NEW arg, Asks(u, op, arg)
        PROVE  caller'[t] = caller[t]
    <2>1. Requested(u, op, arg)
      BY <1>1, AsksDoes
    <2> QED
      BY <2>1 DEF Requested, LoopTypes
  <1>2. ASSUME NEW u \in Threads, Wake(u)
        PROVE  caller'[t].op = caller[t].op /\ caller'[t].arg = caller[t].arg
    BY <1>2, WakeDoes DEF LoopTypes
  <1>3. ASSUME NEW u \in Threads, Over(u)
        PROVE  caller'[t].op = caller[t].op /\ caller'[t].arg = caller[t].arg
    BY <1>3 DEF Over, LoopTypes, Away
  <1>4. CASE Notify
    BY <1>4, NotifyDoes
  <1>5. CASE CreatePlugin
    BY <1>5, CreateDoes
  <1>6. CASE DestroyPlugin
    BY <1>6, DestroyDoes
  <1>7. CASE ShowEditor
    BY <1>7, ShowDoes
  <1> QED
    BY <1>1, <1>2, <1>3, <1>4, <1>5, <1>6, <1>7
    DEF LoopStep, UIStep, Same, MadeHere, GoneHere

\* Only the steps that make a request begin one.
LEMMA NobodyBegins ==
  ASSUME LoopTypes, NEW t \in Threads,
         \/ UNCHANGED caller
         \/ UIStep
         \/ \E u \in Threads : Wake(u) \/ Over(u)
  PROVE  ~Begins(t)
  <1>1. ASSUME NEW u \in Threads, Wake(u) PROVE ~Begins(t)
    BY <1>1, WakeDoes DEF LoopTypes, Begins
  <1>2. ASSUME NEW u \in Threads, Over(u) PROVE ~Begins(t)
    BY <1>2 DEF Over, LoopTypes, Away, Begins
  <1>3. CASE Notify
    BY <1>3, NotifyDoes DEF Begins
  <1>4. CASE UNCHANGED caller
    BY <1>4 DEF Begins
  <1> QED
    BY <1>1, <1>2, <1>3, <1>4 DEF UIStep, CreatePlugin, DestroyPlugin, ShowEditor

LEMMA MadeGrows ==
  ASSUME LoopTypes, OneRequest, Conversation, ~Overlaps, LoopStep
  PROVE  1 .. made \subseteq 1 .. made' /\ made' \in 0 .. MaxPlugins
  <1>1. made' \in 0 .. MaxPlugins /\ made \in Nat
    BY LoopTypesNext DEF LoopTypes
  <1>2. made' = made \/ made' = made + 1
    <2>1. ASSUME NEW u \in Threads, NEW op \in Requests, NEW arg, Asks(u, op, arg)
          PROVE  made' = made
      <3>1. Requested(u, op, arg)
        BY <2>1, AsksDoes
      <3> QED
        BY <3>1 DEF Requested
    <2>2. CASE CreatePlugin
      BY <2>2, CreateDoes
    <2> QED
      BY <2>1, <2>2
      DEF LoopStep, Same, MadeHere, GoneHere, Wake, Over, UIStep, DestroyPlugin, Notify, ShowEditor
  <1> QED
    BY <1>1, <1>2

\* What may happen to the queue: a new piece of work, the end of the first.
Grown(e) == e \in Items /\ work' = Append(work, e)
Shrunk   == work # <<>> /\ work' = Tail(work)

LEMMA WorkIs ==
  ASSUME EditorTypes, work' = work \/ Shrunk
  PROVE  \A k \in DOMAIN work' : \E l \in DOMAIN work : work'[k] = work[l]
  <1>1. CASE Shrunk
    BY <1>1, FirstWork DEF Shrunk
  <1> QED
    BY <1>1

LEMMA WorkGrows ==
  ASSUME EditorTypes, NEW e, Grown(e)
  PROVE  /\ \A k \in DOMAIN work' : work'[k] = e \/ (k \in DOMAIN work /\ work'[k] = work[k])
         /\ work # <<>> => work' # <<>> /\ Head(work') = Head(work)
  <1>1. work \in Seq(Items) /\ e \in Items /\ work' = Append(work, e)
    BY DEF EditorTypes, Grown
  <1>2. \A k \in DOMAIN work' : work'[k] = e \/ (k \in DOMAIN work /\ work'[k] = work[k])
    BY <1>1, AppendAt
  <1>3. work # <<>> => work' # <<>> /\ Head(work') = Head(work)
    BY <1>1
  <1> QED
    BY <1>2, <1>3

LEMMA OccupiedNext ==
  ASSUME LoopTypes, EditorTypes, OneRequest, Conversation, Occupied, Owners,
         ~Overlaps, Steps
  PROVE  Occupied'
  <1>1. LoopStep
    BY LoopSteps
  <1>2. "pd" \in Threads /\ "worker" \in Threads
    BY EditorAssumption
  \* the first piece of work
  <1>3. ASSUME \/ ~Begins("worker") /\ (work' = work \/ \E e : Grown(e))
               \/ caller'["worker"].pc = "away"
               \/ work # <<>> /\ ~Head(work).uithread /\ ~Begins("worker")
        PROVE  caller'["worker"].pc # "away" =>
                 /\ work' # <<>> /\ Head(work').uithread
                 /\ caller'["worker"].op = Head(work').op
                 /\ caller'["worker"].arg = Head(work').arg
    <2> SUFFICES ASSUME caller'["worker"].pc # "away"
                 PROVE  /\ work' # <<>> /\ Head(work').uithread
                        /\ caller'["worker"].op = Head(work').op
                        /\ caller'["worker"].arg = Head(work').arg
      OBVIOUS
    <2>1. caller["worker"].pc # "away" /\ (work' = work \/ \E e : Grown(e))
      BY <1>3 DEF Begins, Occupied
    <2>2. /\ caller'["worker"].op = caller["worker"].op
          /\ caller'["worker"].arg = caller["worker"].arg
      BY <1>1, <1>2, <2>1, CallersGoOn
    <2>3. work # <<>> => work' # <<>> /\ Head(work') = Head(work)
      BY <2>1, WorkGrows
    <2> QED
      BY <2>1, <2>2, <2>3 DEF Occupied
  \* what Pd does
  <1>4. ASSUME \/ ~Begins("pd") /\ pd'.pc = pd.pc
               \/ ~Begins("pd") /\ pd.pc \in {"idle", "tick"}
               \/ caller'["pd"].pc = "away"
        PROVE  caller'["pd"].pc # "away" =>
                 pd'.pc = IF caller'["pd"].op = "create" THEN "open" ELSE "close"
    <2> SUFFICES ASSUME caller'["pd"].pc # "away"
                 PROVE  pd'.pc = IF caller'["pd"].op = "create" THEN "open" ELSE "close"
      OBVIOUS
    <2>1. caller["pd"].pc # "away" /\ pd'.pc = pd.pc
      BY <1>4 DEF Begins, Occupied
    <2>2. caller'["pd"].op = caller["pd"].op
      BY <1>1, <1>2, <2>1, CallersGoOn
    <2> QED
      BY <2>1, <2>2 DEF Occupied
  \* the pieces of work
  <1>5. ASSUME \/ work' = work \/ Shrunk
               \/ \E e : /\ Grown(e)
                         /\ e.op = "create"  => e.arg = e.object
                         /\ e.op = "destroy" => e.arg \in 1 .. made
        PROVE  \A k \in DOMAIN work' :
                 /\ work'[k].op = "create"  => work'[k].arg = work'[k].object
                 /\ work'[k].op = "destroy" => work'[k].arg \in 1 .. made'
    <2>1. 1 .. made \subseteq 1 .. made'
      BY <1>1, MadeGrows
    <2>2. CASE work' = work \/ Shrunk
      BY <2>1, <2>2, WorkIs DEF Occupied
    <2>3. ASSUME NEW e, Grown(e), e.op = "create" => e.arg = e.object,
                 e.op = "destroy" => e.arg \in 1 .. made
          PROVE  \A k \in DOMAIN work' :
                   /\ work'[k].op = "create"  => work'[k].arg = work'[k].object
                   /\ work'[k].op = "destroy" => work'[k].arg \in 1 .. made'
      BY <2>1, <2>3, WorkGrows DEF Occupied
    <2> QED
      BY <1>5, <2>2, <2>3
  <1>6. ASSUME NEW o \in Objects, NEW uithread \in BOOLEAN, OpenLater(o, uithread)
        PROVE  Occupied'
    <2> DEFINE e == [op |-> "create", arg |-> o, object |-> o, uithread |-> uithread]
    <2>1. e \in Items /\ e.op = "create" /\ e.arg = e.object
      BY DEF Items, Objects, Requests
    <2>2. work' = Append(work, e)
      BY <1>6 DEF OpenLater
    <2> HIDE DEF e
    <2>3. UNCHANGED <<caller, pd>> /\ Grown(e)
      BY <1>6, <2>1, <2>2 DEF OpenLater, loop, Grown
    <2>4. ~Begins("pd") /\ ~Begins("worker")
      BY <2>3 DEF Begins
    <2> QED
      BY <1>3, <1>4, <1>5, <2>1, <2>3, <2>4 DEF Occupied
  <1>7. ASSUME NEW o \in Objects, CloseLater(o) PROVE Occupied'
    <2> DEFINE e == [op |-> "destroy", arg |-> x_plugin[o], object |-> o,
                     uithread |-> x_uithread[o]]
    <2>1. /\ x_plugin[o] \in Instances /\ x_plugin[o] \in 1 .. made
          /\ x_uithread[o] \in BOOLEAN
      BY <1>7, OwnedMade DEF CloseLater, MayClose, EditorTypes
    <2>2. e \in Items /\ e.op = "destroy" /\ e.arg \in 1 .. made
      BY <2>1 DEF Items, Requests
    <2>3. work' = Append(work, e)
      BY <1>7 DEF CloseLater
    <2> HIDE DEF e
    <2>4. UNCHANGED <<caller, pd>> /\ Grown(e)
      BY <1>7, <2>2, <2>3 DEF CloseLater, loop, Grown
    <2>5. ~Begins("pd") /\ ~Begins("worker")
      BY <2>4 DEF Begins
    <2> QED
      BY <1>3, <1>4, <1>5, <2>2, <2>4, <2>5 DEF Occupied
  <1>8. ASSUME NEW o \in Objects, OpenAsked(o) \/ CloseAsked(o) PROVE Occupied'
    <2>1. PICK op \in Requests, arg \in Infos \cup Instances :
            /\ Asks("pd", op, arg)
            /\ pd'.pc = IF op = "create" THEN "open" ELSE "close"
      <3>1. CASE OpenAsked(o)
        BY <3>1 DEF OpenAsked, Asks, Objects, Requests
      <3>2. CASE CloseAsked(o)
        <4>1. x_plugin[o] \in 1 .. made /\ x_plugin[o] \in Instances
          BY <3>2, OwnedMade DEF CloseAsked, MayClose
        <4>2. Asks("pd", "destroy", x_plugin[o]) /\ pd'.pc = "close"
          BY <3>2, <4>1 DEF CloseAsked, Asks
        <4> QED
          BY <4>1, <4>2 DEF Requests
      <3> QED
        BY <1>8, <3>1, <3>2
    <2>2. Requested("pd", op, arg)
      BY <1>2, <2>1, AsksDoes
    <2>3. caller'["pd"].op = op /\ caller'["worker"] = caller["worker"]
      BY <1>2, <2>2 DEF Requested, LoopTypes
    <2>4. work' = work /\ ~Begins("worker")
      BY <1>8, <2>3 DEF OpenAsked, CloseAsked, Begins
    <2> QED
      BY <1>3, <1>5, <2>1, <2>3, <2>4 DEF Occupied
  <1>9. CASE WorkAsks
    <2>1. /\ Head(work).op \in Requests /\ work # <<>> /\ Head(work).uithread
          /\ Head(work) = work[1] /\ 1 \in DOMAIN work /\ Head(work) \in Items
          /\ UNCHANGED <<work, pd>> /\ Request("worker", Head(work).op, Head(work).arg)
      BY <1>9, FirstWork DEF WorkAsks, Items, Kept
    <2>2. /\ Head(work).op = "create"  => Head(work).arg \in Infos
          /\ Head(work).op = "destroy" => Head(work).arg \in 1 .. made
      BY <2>1 DEF Occupied, Items, Objects
    <2>3. Asks("worker", Head(work).op, Head(work).arg)
      BY <2>1, <2>2 DEF Asks
    <2>4. Requested("worker", Head(work).op, Head(work).arg)
      BY <1>2, <2>1, <2>3, AsksDoes
    <2>5. /\ caller'["worker"].op = Head(work).op /\ caller'["worker"].arg = Head(work).arg
          /\ caller'["pd"] = caller["pd"]
      BY <1>2, <2>4 DEF Requested, LoopTypes
    <2>6. ~Begins("pd")
      BY <2>5 DEF Begins
    <2> QED
      BY <1>4, <1>5, <2>1, <2>5, <2>6 DEF Occupied
  <1>10. CASE WorkMakes \/ WorkDestroys
    <2>1. UNCHANGED <<caller, pd>> /\ Shrunk /\ ~Head(work).uithread
      BY <1>10 DEF WorkMakes, WorkDestroys, MadeHere, GoneHere, Shrunk
    <2>2. ~Begins("pd") /\ ~Begins("worker")
      BY <2>1 DEF Begins
    <2> QED
      BY <1>3, <1>4, <1>5, <2>1, <2>2 DEF Occupied, Shrunk
  <1>11. CASE WorkerEnd
    <2>1. Over("worker") /\ Shrunk /\ UNCHANGED pd
      BY <1>11, WorkerEndDoes DEF Shrunk
    <2>2. caller'["worker"].pc = "away" /\ ~Begins("pd")
      BY <1>2, <2>1, NobodyBegins DEF Over, LoopTypes, Away
    <2> QED
      BY <1>3, <1>4, <1>5, <2>1, <2>2 DEF Occupied
  <1>12. CASE PdGets
    <2>1. Over("pd") /\ UNCHANGED work
      BY <1>12, ReturnedDoes
    <2>2. caller'["pd"].pc = "away" /\ ~Begins("worker")
      BY <1>2, <2>1, NobodyBegins DEF Over, LoopTypes, Away
    <2> QED
      BY <1>3, <1>4, <1>5, <2>1, <2>2 DEF Occupied
  <1>13. CASE Quiet
    <2>1. UNCHANGED <<caller, work>> /\ (pd' = pd \/ pd.pc \in {"idle", "tick"})
      BY <1>13 DEF Quiet, Same
    <2>2. ~Begins("pd") /\ ~Begins("worker")
      BY <2>1 DEF Begins
    <2> QED
      BY <1>3, <1>4, <1>5, <2>1, <2>2 DEF Occupied
  <1>14. ASSUME UNCHANGED <<work, pd>>, ~Begins("pd"), ~Begins("worker") PROVE Occupied'
    BY <1>3, <1>4, <1>5, <1>14 DEF Occupied
  <1>15. ASSUME UNCHANGED <<work, pd, caller>> PROVE Occupied'
    BY <1>14, <1>15 DEF Begins
  <1>16. ASSUME NEW t \in Threads, Wake(t), Kept PROVE Occupied'
    <2>1. ~Begins("pd") /\ ~Begins("worker")
      BY <1>2, <1>16, NobodyBegins
    <2> QED
      BY <1>14, <1>16, <2>1 DEF Kept
  <1>17. CASE UIStep /\ Kept
    <2>1. ~Begins("pd") /\ ~Begins("worker")
      BY <1>2, <1>17, NobodyBegins
    <2> QED
      BY <1>14, <1>17, <2>1 DEF Kept
  <1>18. CASE Refreshes
    BY <1>15, <1>18 DEF Refreshes, Kept, Same
  <1>19. ASSUME NEW e \in Events, Posts(e) PROVE Occupied'
    BY <1>15, <1>19 DEF Posts, Kept, Same
  <1>20. ASSUME NEW o \in Objects, OpenHere(o) \/ CloseHere(o) PROVE Occupied'
    BY <1>15, <1>20 DEF OpenHere, CloseHere, MadeHere, GoneHere
  <1>21. CASE Arrives
    BY <1>15, <1>21, PollDoes
  <1> QED
    BY <1>6, <1>7, <1>8, <1>9, <1>10, <1>11, <1>12, <1>13, <1>16, <1>17, <1>18, <1>19,
       <1>20, <1>21 DEF Steps
--------------------------------------------------------------------------------
(* Where plugins are made and destroyed *)

LEMMA ResultIs ==
  ASSUME LoopTypes, EditorTypes, Owners, NEW k \in DOMAIN results
  PROVE  /\ results[k][1] \in Objects /\ results[k][2] \in Ids
         /\ results[k][2] # None => results[k][2] \in 1 .. made
  <1>1. results[k] \in Objects \X Ids
    BY DEF EditorTypes
  <1>2. results[k][1] \in Objects /\ results[k][2] \in Ids
    BY <1>1
  <1>3. ASSUME results[k][2] # None PROVE results[k][2] \in 1 .. made
    <2>1. results[k][2] \in Instances
      BY <1>2, <1>3 DEF Ids
    <2>2. ~(results[k][2] > made)
      BY <2>1 DEF Owners, Unowned
    <2> QED
      BY <2>1, <2>2 DEF LoopTypes, Instances
  <1> QED
    BY <1>2, <1>3

LEMMA AnswerMade ==
  ASSUME LoopTypes, Owners, NEW t \in Threads, owned[t] \in Ids
  PROVE  owned[t] # None => owned[t] \in 1 .. made
  <1> SUFFICES ASSUME owned[t] # None PROVE owned[t] \in 1 .. made
    OBVIOUS
  <1>1. owned[t] \in Instances
    BY DEF Ids
  <1>2. ~(owned[t] > made)
    BY <1>1 DEF Owners, Unowned
  <1> QED
    BY <1>1, <1>2 DEF LoopTypes, Instances

\* No instance is given a window later on.
LEMMA NoNewWindow ==
  ASSUME LoopTypes, OneRequest, Conversation, ~Overlaps, LoopStep,
         NEW v, v = None \/ v \in 1 .. made, v \in DOMAIN plugins', plugins'[v].window
  PROVE  HasWindow(v)
  <1>1. made \in Nat /\ made + 1 \notin 1 .. made /\ DOMAIN plugins \subseteq 1 .. made
        /\ MaxPlugins \in Nat
    BY LoopAssumption DEF LoopTypes
  <1>2. CASE UNCHANGED plugins
    BY <1>2 DEF HasWindow
  <1>3. ASSUME NEW q, GoneHere(q) PROVE HasWindow(v)
    BY <1>3, GoneHereDoes DEF HasWindow
  <1>4. CASE ShowEditor
    BY <1>4, ShowDoes DEF HasWindow
  <1>5. CASE DestroyPlugin
    BY <1>5, DestroyDoes DEF HasWindow
  <1>6. ASSUME made < MaxPlugins, made' = made + 1,
               DOMAIN plugins' = DOMAIN plugins \cup {made'},
               \A p \in DOMAIN plugins : plugins'[p] = plugins[p]
        PROVE  HasWindow(v)
    <2>1. made' \in Instances
      BY <1>1, <1>6 DEF Instances
    <2>2. v # made'
      BY <1>1, <1>6, <2>1, Nones
    <2> QED
      BY <1>6, <2>2 DEF HasWindow
  <1>7. CASE CreatePlugin
    BY <1>2, <1>6, <1>7, CreateDoes
  <1>8. ASSUME NEW o \in Infos, MadeHere(o) PROVE HasWindow(v)
    BY <1>6, <1>8, MadeHereDoes DEF MadeHere
  <1>9. ASSUME NEW t \in Threads, NEW op \in Requests, NEW arg, Asks(t, op, arg)
        PROVE  UNCHANGED plugins
    BY <1>9, AsksDoes DEF Requested
  <1> QED
    BY <1>2, <1>3, <1>4, <1>5, <1>7, <1>8, <1>9
    DEF LoopStep, UIStep, Same, Wake, Over, Notify

\* At most one plugin is on its way to an object.
Awaited(r, w, o) == \/ \E k \in DOMAIN r : r[k][1] = o
                    \/ \E k \in DOMAIN w : w[k].op = "create" /\ w[k].object = o

LEMMA TakeResult ==
  ASSUME EditorTypes, results # <<>>, OnePlugin(results, work)
  PROVE  /\ OnePlugin(Tail(results), work)
         /\ ~Awaited(Tail(results), work, Head(results)[1])
         /\ \A o : Awaited(Tail(results), work, o) => Awaited(results, work, o)
  <1> DEFINE q == Tail(results)
  <1>1. /\ Head(results) = results[1] /\ 1 \in DOMAIN results
        /\ \A k \in DOMAIN q : /\ k \in Nat /\ k + 1 \in DOMAIN results
                               /\ k + 1 # 1 /\ q[k] = results[k + 1]
    BY FirstResult
  <1> HIDE DEF q
  <1>2. \A k, l \in DOMAIN q : k + 1 = l + 1 => k = l
    BY <1>1
  <1>3. OnePlugin(q, work)
    BY <1>1, <1>2 DEF OnePlugin
  <1>4. ~Awaited(q, work, Head(results)[1])
    BY <1>1 DEF OnePlugin, Awaited
  <1>5. \A o : Awaited(q, work, o) => Awaited(results, work, o)
    BY <1>1 DEF Awaited
  <1> QED
    BY <1>3, <1>4, <1>5 DEF q

LEMMA TakeWork ==
  ASSUME EditorTypes, work # <<>>, OnePlugin(results, work)
  PROVE  /\ OnePlugin(results, Tail(work))
         /\ Head(work).op = "create" => ~Awaited(results, Tail(work), Head(work).object)
         /\ \A o : Awaited(results, Tail(work), o) => Awaited(results, work, o)
  <1> DEFINE q == Tail(work)
  <1>1. /\ Head(work) = work[1] /\ 1 \in DOMAIN work
        /\ \A k \in DOMAIN q : k \in Nat /\ k + 1 \in DOMAIN work /\ k + 1 # 1 /\ q[k] = work[k + 1]
    BY FirstWork
  <1> HIDE DEF q
  <1>2. \A k, l \in DOMAIN q : k + 1 = l + 1 => k = l
    BY <1>1
  <1>3. OnePlugin(results, q)
    BY <1>1, <1>2 DEF OnePlugin
  <1>4. Head(work).op = "create" => ~Awaited(results, q, Head(work).object)
    BY <1>1 DEF OnePlugin, Awaited
  <1>5. \A o : Awaited(results, q, o) => Awaited(results, work, o)
    BY <1>1 DEF Awaited
  <1> QED
    BY <1>3, <1>4, <1>5 DEF q

LEMMA PutResult ==
  ASSUME NEW r \in Seq(Objects \X Ids), NEW w, NEW e \in Objects \X Ids,
         OnePlugin(r, w), ~Awaited(r, w, e[1])
  PROVE  OnePlugin(Append(r, e), w)
  <1> DEFINE q == Append(r, e)
             n == Len(r) + 1
  <1>1. /\ DOMAIN q = DOMAIN r \cup {n} /\ n \notin DOMAIN r /\ q[n] = e
        /\ \A k \in DOMAIN r : q[k] = r[k]
    BY AppendAt
  <1> HIDE DEF q, n
  <1>2. OnePlugin(q, w)
    BY <1>1 DEF OnePlugin, Awaited
  <1> QED
    BY <1>2 DEF q

LEMMA PutWork ==
  ASSUME NEW r, NEW w \in Seq(Items), NEW e \in Items,
         OnePlugin(r, w), e.op = "create" => ~Awaited(r, w, e.object)
  PROVE  OnePlugin(r, Append(w, e))
  <1> DEFINE q == Append(w, e)
             n == Len(w) + 1
  <1>1. /\ DOMAIN q = DOMAIN w \cup {n} /\ n \notin DOMAIN w /\ q[n] = e
        /\ \A k \in DOMAIN w : q[k] = w[k]
    BY AppendAt
  <1> HIDE DEF q, n
  <1>2. OnePlugin(r, q)
    BY <1>1 DEF OnePlugin, Awaited
  <1> QED
    BY <1>2 DEF q

Wins(ps, v) == v \in DOMAIN ps /\ ps[v].window
ResultAt(r, opn, xu, ps) == opn[r[1]] /\ (Wins(ps, r[2]) => xu[r[1]])
WorkAt(w, opn, xu, ps) ==
  IF w.op = "create" THEN opn[w.object] /\ (w.uithread <=> xu[w.object])
                     ELSE Wins(ps, w.arg) => w.uithread
WhereParts(r, w, x, xu, opn, ps, p) ==
  /\ OnePlugin(r, w)
  /\ \A o \in Objects : Wins(ps, x[o]) => xu[o]
  /\ \A k \in DOMAIN r : ResultAt(r[k], opn, xu, ps)
  /\ \A k \in DOMAIN w : WorkAt(w[k], opn, xu, ps)
  /\ p.pc = "open" => xu[p.object]

LEMMA WhereIs ==
  /\ Where <=> WhereParts(results, work, x_plugin, x_uithread, opening, plugins, pd)
  /\ Where' <=> WhereParts(results', work', x_plugin', x_uithread', opening', plugins', pd')
  BY DEF Where, WhereParts, ResultAt, WorkAt, Wins, HasWindow

LEMMA AwaitedOpening ==
  ASSUME Where, NEW o, Awaited(results, work, o) PROVE opening[o]
  BY DEF Where, Awaited

Old == LoopTypes /\ EditorTypes /\ OneRequest /\ Conversation /\ Occupied /\ Owners /\ Where
       /\ ~Overlaps

LEMMA OldObject ==
  ASSUME Old, LoopStep, NEW o \in Objects, x_uithread[o] => x_uithread'[o]
  PROVE  Wins(plugins', x_plugin[o]) => x_uithread'[o]
  <1>1. x_plugin[o] = None \/ x_plugin[o] \in 1 .. made
    BY OwnedMade DEF Old
  <1>2. Wins(plugins', x_plugin[o]) => HasWindow(x_plugin[o])
    BY <1>1, NoNewWindow DEF Old, Wins
  <1> QED
    BY <1>2 DEF Old, Where

LEMMA OldResult ==
  ASSUME Old, LoopStep, NEW k \in DOMAIN results,
         opening[results[k][1]] => opening'[results[k][1]],
         x_uithread[results[k][1]] => x_uithread'[results[k][1]]
  PROVE  ResultAt(results[k], opening', x_uithread', plugins')
  <1>1. results[k][2] = None \/ results[k][2] \in 1 .. made
    BY ResultIs DEF Old
  <1>2. Wins(plugins', results[k][2]) => HasWindow(results[k][2])
    BY <1>1, NoNewWindow DEF Old, Wins
  <1> QED
    BY <1>2 DEF Old, Where, ResultAt

LEMMA OldWork ==
  ASSUME Old, LoopStep, NEW k \in DOMAIN work,
         work[k].op = "create" => /\ opening[work[k].object] => opening'[work[k].object]
                                  /\ x_uithread[work[k].object] <=> x_uithread'[work[k].object]
  PROVE  WorkAt(work[k], opening', x_uithread', plugins')
  <1>1. CASE work[k].op = "create"
    BY <1>1 DEF Old, Where, WorkAt
  <1>2. CASE work[k].op # "create"
    <2>1. work[k] \in Items
      BY DEF Old, EditorTypes
    <2>2. work[k].op = "destroy"
      BY <1>2, <2>1 DEF Items, Requests
    <2>3. work[k].arg \in 1 .. made
      BY <2>2 DEF Old, Occupied
    <2>4. Wins(plugins', work[k].arg) => HasWindow(work[k].arg)
      BY <2>3, NoNewWindow DEF Old, Wins
    <2> QED
      BY <1>2, <2>4 DEF Old, Where, WorkAt
  <1> QED
    BY <1>1, <1>2

\* Nothing changes for the objects that wait for their plugin.
LEMMA OldThings ==
  ASSUME Old, LoopStep, UNCHANGED <<x_uithread, opening>>
  PROVE  /\ \A o \in Objects : Wins(plugins', x_plugin[o]) => x_uithread'[o]
         /\ \A k \in DOMAIN results : ResultAt(results[k], opening', x_uithread', plugins')
         /\ \A k \in DOMAIN work : WorkAt(work[k], opening', x_uithread', plugins')
  <1>1. \A o \in Objects : Wins(plugins', x_plugin[o]) => x_uithread'[o]
    BY OldObject
  <1>2. \A k \in DOMAIN results : ResultAt(results[k], opening', x_uithread', plugins')
    BY OldResult
  <1>3. \A k \in DOMAIN work : WorkAt(work[k], opening', x_uithread', plugins')
    BY OldWork
  <1> QED
    BY <1>1, <1>2, <1>3

\* nor when another object begins to open a plugin
LEMMA OpenThings ==
  ASSUME Old, LoopStep, NEW o \in Objects, MayOpen(o), NEW b \in BOOLEAN,
         x_uithread' = [x_uithread EXCEPT ![o] = b],
         opening' = opening \/ opening' = [opening EXCEPT ![o] = TRUE]
  PROVE  /\ ~Awaited(results, work, o)
         /\ \A u \in Objects : u # o => (Wins(plugins', x_plugin[u]) => x_uithread'[u])
         /\ \A k \in DOMAIN results : ResultAt(results[k], opening', x_uithread', plugins')
         /\ \A k \in DOMAIN work : WorkAt(work[k], opening', x_uithread', plugins')
  <1>1. ~Awaited(results, work, o)
    BY AwaitedOpening DEF MayOpen, Old
  <1>2. \A u \in Objects : u # o => x_uithread'[u] = x_uithread[u] /\ opening'[u] = opening[u]
    BY DEF Old, EditorTypes
  <1>3. \A u \in Objects : u # o => (Wins(plugins', x_plugin[u]) => x_uithread'[u])
    BY <1>2, OldObject
  <1>4. ASSUME NEW k \in DOMAIN results
        PROVE  ResultAt(results[k], opening', x_uithread', plugins')
    <2>1. results[k][1] # o
      BY <1>1 DEF Awaited
    <2>2. results[k][1] \in Objects
      BY ResultIs DEF Old
    <2> QED
      BY <1>2, <2>1, <2>2, OldResult
  <1>5. ASSUME NEW k \in DOMAIN work
        PROVE  WorkAt(work[k], opening', x_uithread', plugins')
    <2>1. work[k].op = "create" => work[k].object # o
      BY <1>1 DEF Awaited
    <2>2. work[k].object \in Objects
      <3>1. work[k] \in Items
        BY DEF Old, EditorTypes
      <3> QED
        BY <3>1 DEF Items
    <2> QED
      BY <1>2, <2>1, <2>2, OldWork
  <1> QED
    BY <1>1, <1>3, <1>4, <1>5

LEMMA WhereNext ==
  ASSUME Old, Steps
  PROVE  Where'
  <1>1. LoopStep
    BY LoopSteps DEF Old
  <1>2. /\ OnePlugin(results, work) /\ \A o \in Objects : HasWindow(x_plugin[o]) => x_uithread[o]
        /\ pd.pc = "open" => x_uithread[pd.object]
    BY DEF Old, Where
  <1> DEFINE Goal == WhereParts(results', work', x_plugin', x_uithread', opening', plugins', pd')
  <1> SUFFICES Goal
    BY WhereIs
  <1>3. ASSUME UNCHANGED <<x_plugin, x_uithread, opening, work, results>>,
               pd' = pd \/ pd'.pc \in {"idle", "tick"}
        PROVE  Goal
    BY <1>1, <1>2, <1>3, OldThings DEF WhereParts
  <1>4. CASE Quiet
    BY <1>3, <1>4 DEF Quiet
  <1>5. CASE Refreshes
    BY <1>3, <1>5 DEF Refreshes, Kept
  <1>6. ASSUME NEW e \in Events, Posts(e) PROVE Goal
    BY <1>3, <1>6 DEF Posts, Kept
  <1>7. CASE WorkAsks
    BY <1>3, <1>7 DEF WorkAsks, Kept
  <1>8. CASE Kept
    BY <1>3, <1>8 DEF Kept
  <1>9. ASSUME NEW o \in Objects, NEW uithread \in BOOLEAN, OpenLater(o, uithread) PROVE Goal
    <2> DEFINE e == [op |-> "create", arg |-> o, object |-> o, uithread |-> uithread]
    <2>1. /\ MayOpen(o) /\ x_uithread' = [x_uithread EXCEPT ![o] = uithread]
          /\ opening' = [opening EXCEPT ![o] = TRUE]
          /\ work' = Append(work, e) /\ UNCHANGED <<x_plugin, results, pd>>
      BY <1>9 DEF OpenLater
    <2>2. /\ ~Awaited(results, work, o)
          /\ \A u \in Objects : u # o => (Wins(plugins', x_plugin[u]) => x_uithread'[u])
          /\ \A k \in DOMAIN results : ResultAt(results[k], opening', x_uithread', plugins')
          /\ \A k \in DOMAIN work : WorkAt(work[k], opening', x_uithread', plugins')
      BY <1>1, <2>1, OpenThings
    <2>3. e \in Items /\ e.object = o /\ WorkAt(e, opening', x_uithread', plugins')
      <3>1. opening'[o] /\ (x_uithread'[o] <=> uithread)
        BY <2>1 DEF Old, EditorTypes
      <3> QED
        BY <3>1 DEF Items, Objects, Requests, WorkAt
    <2> HIDE DEF e
    <2>4. OnePlugin(results, work')
      BY <1>2, <2>1, <2>2, <2>3, PutWork DEF Old, EditorTypes
    <2>5. \A k \in DOMAIN work' : WorkAt(work'[k], opening', x_uithread', plugins')
      <3>1. work \in Seq(Items)
        BY DEF Old, EditorTypes
      <3>2. \A k \in DOMAIN work' : work'[k] = e \/ (k \in DOMAIN work /\ work'[k] = work[k])
        BY <2>1, <2>3, <3>1, AppendAt
      <3> QED
        BY <2>2, <2>3, <3>2
    <2>6. ~Wins(plugins', x_plugin[o])
      <3>1. DOMAIN plugins' \subseteq Instances
        BY <1>1, LoopTypesNext, LoopAssumption DEF Old, LoopTypes, Instances
      <3> QED
        BY <2>1, <3>1, Nones DEF MayOpen, Wins
    <2>7. pd'.pc = "idle"
      BY <2>1 DEF MayOpen, PdFree
    <2> QED
      BY <2>1, <2>2, <2>4, <2>5, <2>6, <2>7 DEF WhereParts
  <1>10. ASSUME NEW o \in Objects, OpenAsked(o) PROVE Goal
    <2>1. /\ MayOpen(o) /\ x_uithread' = [x_uithread EXCEPT ![o] = TRUE]
          /\ UNCHANGED <<x_plugin, opening, results, work>>
          /\ pd'.object = o
      BY <1>10 DEF OpenAsked
    <2>2. /\ \A u \in Objects : u # o => (Wins(plugins', x_plugin[u]) => x_uithread'[u])
          /\ \A k \in DOMAIN results : ResultAt(results[k], opening', x_uithread', plugins')
          /\ \A k \in DOMAIN work : WorkAt(work[k], opening', x_uithread', plugins')
      BY <1>1, <2>1, OpenThings
    <2>3. x_uithread'[o]
      BY <2>1 DEF Old, EditorTypes
    <2> QED
      BY <1>2, <2>1, <2>2, <2>3 DEF WhereParts
  <1>11. ASSUME NEW o \in Objects, OpenHere(o) PROVE Goal
    <2>1. /\ MayOpen(o) /\ x_uithread' = [x_uithread EXCEPT ![o] = FALSE]
          /\ x_plugin' = [x_plugin EXCEPT ![o] = made']
          /\ UNCHANGED <<opening, results, work, pd>> /\ MadeHere(o) /\ o \in Infos
      BY <1>11 DEF OpenHere, Objects
    <2>2. /\ \A u \in Objects : u # o => (Wins(plugins', x_plugin[u]) => x_uithread'[u])
          /\ \A k \in DOMAIN results : ResultAt(results[k], opening', x_uithread', plugins')
          /\ \A k \in DOMAIN work : WorkAt(work[k], opening', x_uithread', plugins')
      BY <1>1, <2>1, OpenThings
    <2>3. ~Wins(plugins', made') /\ pd'.pc = "idle"
      BY <2>1, MadeHereDoes DEF Wins, Old, MayOpen, PdFree
    <2>4. \A u \in Objects : x_plugin'[u] = IF u = o THEN made' ELSE x_plugin[u]
      BY <2>1 DEF Old, EditorTypes
    <2> QED
      BY <1>2, <2>1, <2>2, <2>3, <2>4 DEF WhereParts
  <1>12. ASSUME NEW o \in Objects, x_plugin' = [x_plugin EXCEPT ![o] = None],
                UNCHANGED <<x_uithread, opening>>
         PROVE  \A u \in Objects : Wins(plugins', x_plugin'[u]) => x_uithread'[u]
    <2>1. DOMAIN plugins' \subseteq Instances
      BY <1>1, LoopTypesNext, LoopAssumption DEF Old, LoopTypes, Instances
    <2>2. ~Wins(plugins', None)
      BY <2>1, Nones DEF Wins
    <2>3. \A u \in Objects : x_plugin'[u] = IF u = o THEN None ELSE x_plugin[u]
      BY <1>12 DEF Old, EditorTypes
    <2> QED
      BY <1>1, <1>12, <2>2, <2>3, OldThings
  <1>13. ASSUME NEW o \in Objects, CloseLater(o) PROVE Goal
    <2> DEFINE e == [op |-> "destroy", arg |-> x_plugin[o], object |-> o,
                     uithread |-> x_uithread[o]]
    <2>1. /\ x_plugin' = [x_plugin EXCEPT ![o] = None] /\ UNCHANGED <<x_uithread, opening>>
          /\ UNCHANGED <<results, pd, plugins>> /\ work' = Append(work, e)
          /\ x_plugin[o] # None
      BY <1>13 DEF CloseLater, MayClose, loop
    <2>2. e \in Items /\ e.op = "destroy" /\ WorkAt(e, opening', x_uithread', plugins')
      <3>1. x_plugin[o] \in Instances /\ x_uithread[o] \in BOOLEAN
        BY <2>1, OwnedMade DEF Old, EditorTypes
      <3>2. Wins(plugins', x_plugin[o]) => x_uithread[o]
        BY <1>2, <2>1 DEF Wins, HasWindow
      <3> QED
        BY <3>1, <3>2 DEF Items, Requests, WorkAt
    <2> HIDE DEF e
    <2>3. OnePlugin(results, work')
      BY <1>2, <2>1, <2>2, PutWork DEF Old, EditorTypes
    <2>4. \A k \in DOMAIN work' : WorkAt(work'[k], opening', x_uithread', plugins')
      <3>1. \A k \in DOMAIN work : WorkAt(work[k], opening', x_uithread', plugins')
        BY <1>1, <2>1, OldThings
      <3> QED
        BY <2>1, <2>2, <3>1, AppendAt DEF Old, EditorTypes
    <2> QED
      BY <1>1, <1>2, <1>12, <2>1, <2>3, <2>4, OldThings DEF WhereParts
  <1>14. ASSUME NEW o \in Objects, CloseAsked(o) \/ CloseHere(o) PROVE Goal
    <2>1. /\ x_plugin' = [x_plugin EXCEPT ![o] = None] /\ UNCHANGED <<x_uithread, opening>>
          /\ UNCHANGED <<results, work>> /\ pd'.pc \in {"idle", "close"}
      BY <1>14 DEF CloseAsked, CloseHere, MayClose, PdFree
    <2> QED
      BY <1>1, <1>2, <1>12, <2>1, OldThings DEF WhereParts
  <1>15. CASE Arrives
    <2> DEFINE u == Head(results)[1]
               v == Head(results)[2]
    <2>1. /\ results # <<>> /\ results' = Tail(results) /\ UNCHANGED <<x_uithread, work, pd, plugins>>
          /\ x_plugin' = [x_plugin EXCEPT ![u] = v] /\ opening' = [opening EXCEPT ![u] = FALSE]
      BY <1>15, PollDoes DEF Old
    <2>2. /\ u \in Objects /\ Head(results) = results[1] /\ 1 \in DOMAIN results
          /\ \A k \in DOMAIN results' : /\ k \in Nat /\ k + 1 \in DOMAIN results
                                        /\ k + 1 # 1 /\ results'[k] = results[k + 1]
      BY <2>1, FirstResult DEF Old
    <2>3. OnePlugin(results', work) /\ ~Awaited(results', work, u)
      BY <1>2, <2>1, TakeResult DEF Old
    <2>4. Wins(plugins', v) => x_uithread[u]
      BY <2>1, <2>2 DEF Old, Where, Wins, HasWindow
    <2> HIDE DEF u, v
    <2>5. \A o \in Objects : /\ x_plugin'[o] = IF o = u THEN v ELSE x_plugin[o]
                             /\ opening'[o] = IF o = u THEN FALSE ELSE opening[o]
      BY <2>1 DEF Old, EditorTypes
    <2>6. \A o \in Objects : Wins(plugins', x_plugin'[o]) => x_uithread'[o]
      BY <1>1, <2>1, <2>4, <2>5, OldObject
    <2>7. ASSUME NEW k \in DOMAIN results'
          PROVE  ResultAt(results'[k], opening', x_uithread', plugins')
      <3>1. k + 1 \in DOMAIN results /\ results'[k] = results[k + 1] /\ results'[k][1] # u
        BY <2>2, <2>3 DEF Awaited
      <3>2. results[k + 1][1] \in Objects
        BY <3>1, ResultIs DEF Old
      <3> QED
        BY <1>1, <2>1, <2>5, <3>1, <3>2, OldResult
    <2>8. ASSUME NEW k \in DOMAIN work
          PROVE  WorkAt(work[k], opening', x_uithread', plugins')
      <3>1. work[k].op = "create" => work[k].object # u
        BY <2>3 DEF Awaited
      <3>2. work[k] \in Items
        BY DEF Old, EditorTypes
      <3>3. work[k].object \in Objects
        BY <3>2 DEF Items
      <3> QED
        BY <1>1, <2>1, <2>5, <3>1, <3>3, OldWork
    <2> QED
      BY <1>2, <2>1, <2>3, <2>6, <2>7, <2>8 DEF WhereParts
  \* a result of the first piece of work
  <1>16. ASSUME work # <<>>, work' = Tail(work), Head(work).op = "create",
                NEW v \in Ids, results' = Append(results, <<Head(work).object, v>>),
                Wins(plugins', v) => x_uithread[Head(work).object],
                UNCHANGED <<x_plugin, x_uithread, opening>>,
                pd' = pd
         PROVE  Goal
    <2> DEFINE e == <<Head(work).object, v>>
    <2>1. /\ Head(work) = work[1] /\ 1 \in DOMAIN work /\ Head(work) \in Items
          /\ \A k \in DOMAIN work' : \E l \in DOMAIN work : work'[k] = work[l]
      BY <1>16, FirstWork DEF Old
    <2>2. /\ OnePlugin(results, work') /\ ~Awaited(results, work', Head(work).object)
      BY <1>2, <1>16, TakeWork DEF Old
    <2>3. e \in Objects \X Ids /\ e[1] = Head(work).object /\ e[2] = v
      BY <2>1 DEF Items
    <2>4. opening[Head(work).object]
      BY <1>16, <2>1 DEF Old, Where
    <2>5. ResultAt(e, opening', x_uithread', plugins')
      BY <1>16, <2>3, <2>4 DEF ResultAt
    <2> HIDE DEF e
    <2>6. results \in Seq(Objects \X Ids) /\ results' = Append(results, e)
      BY <1>16 DEF Old, EditorTypes, e
    <2>7. OnePlugin(results', work')
      BY <2>2, <2>3, <2>6, PutResult
    <2>8. \A k \in DOMAIN results' : results'[k] = e \/ (k \in DOMAIN results /\ results'[k] = results[k])
      BY <2>3, <2>6, AppendAt
    <2> QED
      BY <1>1, <1>2, <1>16, <2>1, <2>5, <2>7, <2>8, OldThings DEF WhereParts
  <1>17. ASSUME work # <<>>, work' = Tail(work),
                UNCHANGED <<x_plugin, x_uithread, opening, results>>, pd' = pd
         PROVE  Goal
    <2>1. \A k \in DOMAIN work' : \E l \in DOMAIN work : work'[k] = work[l]
      BY <1>17, FirstWork DEF Old
    <2>2. OnePlugin(results, work')
      BY <1>2, <1>17, TakeWork DEF Old
    <2> QED
      BY <1>1, <1>2, <1>17, <2>1, <2>2, OldThings DEF WhereParts
  <1>18. CASE WorkMakes
    <2>1. work # <<>> /\ Head(work).op = "create" /\ MadeHere(Head(work).arg)
      BY <1>18 DEF WorkMakes
    <2>2. Head(work).arg \in Infos
      BY <2>1, FirstWork DEF Old, Occupied, Items, Objects
    <2>3. made' \in Ids /\ ~Wins(plugins', made')
      BY <2>1, <2>2, MadeHereDoes DEF Old, Ids, Wins
    <2> QED
      BY <1>16, <1>18, <2>1, <2>3 DEF WorkMakes
  <1>19. CASE WorkDestroys
    BY <1>17, <1>19 DEF WorkDestroys
  <1>20. CASE WorkerEnd
    <2>1. /\ work # <<>> /\ work' = Tail(work) /\ Head(work).uithread
          /\ UNCHANGED <<x_plugin, x_uithread, opening, pd, plugins>>
          /\ caller["worker"].op = Head(work).op /\ caller["worker"].pc = "back"
          /\ caller["worker"].result \in Ids
          /\ IF Head(work).op = "create"
             THEN results' = Append(results, <<Head(work).object, caller["worker"].result>>)
             ELSE results' = results
      BY <1>20, WorkerEndDoes DEF Old, Over, Occupied
    <2>2. CASE Head(work).op = "create"
      <3>1. Head(work) = work[1] /\ 1 \in DOMAIN work
        BY <2>1, FirstWork DEF Old
      <3>2. x_uithread[Head(work).object]
        BY <2>1, <2>2, <3>1 DEF Old, Where
      <3> QED
        BY <1>16, <2>1, <2>2, <3>2
    <2>3. CASE Head(work).op # "create"
      BY <1>17, <2>1, <2>3
    <2> QED
      BY <2>2, <2>3
  <1>21. CASE PdGets
    <2>1. UNCHANGED <<x_uithread, opening, work, results>> /\ pd' = PdIdle
      BY <1>21, ReturnedDoes DEF Old
    <2>2. pd'.pc = "idle"
      BY <2>1 DEF PdIdle
    <2>3. CASE pd.pc # "open"
      <3>1. x_plugin' = x_plugin
        BY <1>21, <2>3, ReturnedDoes DEF Old
      <3> QED
        BY <1>3, <2>1, <2>2, <3>1
    <2>4. CASE pd.pc = "open"
      <3>1. /\ x_plugin' = [x_plugin EXCEPT ![pd.object] = caller["pd"].result]
            /\ pd.object \in Objects
        BY <1>21, <2>4, ReturnedDoes DEF Old
      <3>2. \A o \in Objects : o # pd.object => x_plugin'[o] = x_plugin[o]
        BY <3>1 DEF Old, EditorTypes
      <3>3. x_uithread'[pd.object]
        BY <1>2, <2>1, <2>4
      <3>4. \A o \in Objects : Wins(plugins', x_plugin'[o]) => x_uithread'[o]
        BY <1>1, <2>1, <3>2, <3>3, OldThings
      <3> QED
        BY <1>1, <1>2, <2>1, <2>2, <3>4, OldThings DEF WhereParts
    <2> QED
      BY <2>3, <2>4
  <1> HIDE DEF Goal
  <1> QED
    BY <1>4, <1>5, <1>6, <1>7, <1>8, <1>9, <1>10, <1>11, <1>13, <1>14, <1>15, <1>18, <1>19,
       <1>20, <1>21 DEF Steps
--------------------------------------------------------------------------------
(* Owners: what a step takes and gives *)

Held(m, x, a, r, w) == /\ Apart(x, a, r, w)
                       /\ \A v \in Instances : v > m => Unowned(v, x, a, r, w)
MayGive(m, v, x, a, r, w) ==
  v = None \/ (v \in Instances /\ ~(v > m) /\ Unowned(v, x, a, r, w))

LEMMA TakeFromObject ==
  ASSUME NEW m, NEW x \in [Objects -> Ids], NEW a, NEW r, NEW w, Held(m, x, a, r, w),
         NEW o \in Objects
  PROVE  /\ Held(m, [x EXCEPT ![o] = None], a, r, w)
         /\ \A v \in Instances : v = x[o] => Unowned(v, [x EXCEPT ![o] = None], a, r, w)
  BY DropObject DEF Held

LEMMA TakeFromThread ==
  ASSUME NEW m, NEW x, NEW a, DOMAIN a = Threads, NEW r, NEW w, Held(m, x, a, r, w),
         NEW t \in Threads
  PROVE  /\ Held(m, x, [a EXCEPT ![t] = None], r, w)
         /\ \A v \in Instances : v = a[t] => Unowned(v, x, [a EXCEPT ![t] = None], r, w)
  BY DropAnswer DEF Held

LEMMA TakeFromResults ==
  ASSUME NEW m, NEW x, NEW a, NEW r \in Seq(Objects \X Ids), r # <<>>, NEW w,
         Held(m, x, a, r, w)
  PROVE  /\ Held(m, x, a, Tail(r), w)
         /\ \A v \in Instances : v = Head(r)[2] => Unowned(v, x, a, Tail(r), w)
  BY DropResult DEF Held

LEMMA TakeFromWork ==
  ASSUME NEW m, NEW x, NEW a, NEW r, NEW w \in Seq(Items), w # <<>>, Held(m, x, a, r, w)
  PROVE  /\ Held(m, x, a, r, Tail(w))
         /\ \A v \in Instances : Unowned(v, x, a, r, w) => Unowned(v, x, a, r, Tail(w))
  BY DropWork DEF Held

LEMMA GiveToObject ==
  ASSUME NEW m, NEW x \in [Objects -> Ids], NEW a, NEW r, NEW w, Held(m, x, a, r, w),
         NEW o \in Objects, NEW v, MayGive(m, v, x, a, r, w)
  PROVE  Held(m, [x EXCEPT ![o] = v], a, r, w)
  <1> DEFINE y == [x EXCEPT ![o] = v]
  <1>1. Apart(y, a, r, w)
    BY GiveObject DEF Held, MayGive
  <1>2. \A u \in Objects : y[u] = IF u = o THEN v ELSE x[u]
    OBVIOUS
  <1> HIDE DEF y
  <1>3. ASSUME NEW i \in Instances, i > m PROVE Unowned(i, y, a, r, w)
    <2>1. i # v
      BY <1>3, Nones DEF MayGive
    <2> QED
      BY <1>2, <1>3, <2>1 DEF Held, Unowned
  <1> QED
    BY <1>1, <1>3 DEF Held, y

LEMMA GiveToThread ==
  ASSUME NEW m, NEW x, NEW a, DOMAIN a = Threads, NEW r, NEW w, Held(m, x, a, r, w),
         NEW t \in Threads, NEW v, MayGive(m, v, x, a, r, w)
  PROVE  Held(m, x, [a EXCEPT ![t] = v], r, w)
  <1> DEFINE b == [a EXCEPT ![t] = v]
  <1>1. Apart(x, b, r, w)
    BY GiveAnswer DEF Held, MayGive
  <1>2. \A u \in Threads : b[u] = IF u = t THEN v ELSE a[u]
    OBVIOUS
  <1> HIDE DEF b
  <1>3. ASSUME NEW i \in Instances, i > m PROVE Unowned(i, x, b, r, w)
    <2>1. i # v
      BY <1>3, Nones DEF MayGive
    <2> QED
      BY <1>2, <1>3, <2>1 DEF Held, Unowned
  <1> QED
    BY <1>1, <1>3 DEF Held, b

LEMMA GiveToResults ==
  ASSUME NEW m, NEW x, NEW a, NEW r \in Seq(Objects \X Ids), NEW w, Held(m, x, a, r, w),
         NEW e \in Objects \X Ids, MayGive(m, e[2], x, a, r, w)
  PROVE  Held(m, x, a, Append(r, e), w)
  <1> DEFINE q == Append(r, e)
  <1>1. Apart(x, a, q, w)
    BY GiveResult DEF Held, MayGive
  <1>2. \A k \in DOMAIN q : q[k] = e \/ (k \in DOMAIN r /\ q[k] = r[k])
    BY AppendAt
  <1> HIDE DEF q
  <1>3. ASSUME NEW i \in Instances, i > m PROVE Unowned(i, x, a, q, w)
    <2>1. i # e[2]
      BY <1>3, Nones DEF MayGive
    <2> QED
      BY <1>2, <1>3, <2>1 DEF Held, Unowned
  <1> QED
    BY <1>1, <1>3 DEF Held, q

LEMMA GiveToWork ==
  ASSUME NEW m, NEW x, NEW a, NEW r, NEW w \in Seq(Items), Held(m, x, a, r, w),
         NEW e \in Items, MayGive(m, Doomed(e), x, a, r, w)
  PROVE  Held(m, x, a, r, Append(w, e))
  <1> DEFINE q == Append(w, e)
  <1>1. Apart(x, a, r, q)
    BY GiveWork DEF Held, MayGive
  <1>2. \A k \in DOMAIN q : q[k] = e \/ (k \in DOMAIN w /\ q[k] = w[k])
    BY AppendAt
  <1> HIDE DEF q
  <1>3. ASSUME NEW i \in Instances, i > m PROVE Unowned(i, x, a, r, q)
    <2>1. i # Doomed(e)
      BY <1>3, Nones DEF MayGive
    <2> QED
      BY <1>2, <1>3, <2>1 DEF Held, Unowned
  <1> QED
    BY <1>1, <1>3 DEF Held, q

--------------------------------------------------------------------------------
(* Owners: the threads *)

LEMMA OwnedIs ==
  /\ DOMAIN owned = Threads /\ DOMAIN owned' = Threads
  /\ \A t \in Threads : /\ owned[t] = Has(t, caller[t], data[Slot(t)], ready_)
                        /\ owned'[t] = Has(t, caller'[t], data'[Slot(t)'], ready_')
  BY DEF owned

LEMMA OwnedSame ==
  ASSUME \A t \in Threads : owned'[t] = owned[t]
  PROVE  owned' = owned
  BY DEF owned

LEMMA OwnedBut ==
  ASSUME NEW t \in Threads, NEW v, owned'[t] = v,
         \A u \in Threads : u # t => owned'[u] = owned[u]
  PROVE  owned' = [owned EXCEPT ![t] = v]
  BY DEF owned

\* What a thread owns depends on data only while it is busy.
LEMMA OwnedIdle ==
  ASSUME NEW t \in Threads, ~Busy(t), caller'[t] = caller[t] PROVE owned'[t] = owned[t]
  BY OwnedIs DEF Has, Got, Busy

LEMMA OwnedAfterOver ==
  ASSUME LoopTypes, NEW t \in Threads, Over(t)
  PROVE  owned' = [owned EXCEPT ![t] = None]
  <1>1. /\ caller'[t].pc = "away" /\ UNCHANGED <<platform, ready_, data>>
        /\ \A u \in Threads : u # t => caller'[u] = caller[u]
    BY DEF Over, LoopTypes, Away
  <1>2. owned'[t] = None
    BY <1>1, OwnedIs DEF Has
  <1>3. \A u \in Threads : u # t => owned'[u] = owned[u]
    BY <1>1, OwnedIs DEF Slot
  <1> QED
    BY <1>2, <1>3, OwnedBut

LEMMA OwnedAfterAsking ==
  ASSUME LoopTypes, OneRequest, ~Overlaps, NEW t \in Threads, NEW op \in Requests, NEW arg,
         Asks(t, op, arg)
  PROVE  owned' = [owned EXCEPT ![t] = IF op = "destroy" /\ t = "pd" THEN arg ELSE None]
  <1>1. Requested(t, op, arg)
    BY AsksDoes
  <1>2. /\ \A u \in Threads : ~Busy(u)
        /\ \A u \in Threads : u # t => caller'[u] = caller[u]
        /\ caller'[t].pc = "waiting" /\ caller'[t].op = op /\ caller'[t].arg = arg
        /\ ready_' = FALSE
    BY <1>1 DEF Requested, LoopTypes
  <1>3. owned'[t] = IF op = "destroy" /\ t = "pd" THEN arg ELSE None
    BY <1>2, OwnedIs DEF Has, Got, Requests
  <1>4. \A u \in Threads : u # t => owned'[u] = owned[u]
    BY <1>2, OwnedIdle
  <1> QED
    BY <1>3, <1>4, OwnedBut

LEMMA OwnedAfterWaking ==
  ASSUME LoopTypes, OneRequest, NEW t \in Threads, Wake(t)
  PROVE  owned' = owned
  <1>1. Busy(t) /\ caller[t].pc = "woken" /\ UNCHANGED ready_
    BY WakeDoes DEF Busy
  <1>2. PICK c \in Callers :
          /\ caller' = [caller EXCEPT ![t] = c]
          /\ c.op = caller[t].op /\ c.arg = caller[t].arg
          /\ \/ ready_ /\ c.pc = "back" /\ c.result = data[Slot(t)].plugin
             \/ ~ready_ /\ c.pc = "waiting"
    BY WakeDoes
  <1>3. caller'[t] = c /\ \A u \in Threads : u # t => caller'[u] = caller[u]
    BY <1>2 DEF LoopTypes
  <1>4. \A u \in Threads : u # t => owned'[u] = owned[u]
    BY <1>1, <1>3, OneBusy, OwnedIdle
  <1>5. owned'[t] = owned[t]
    BY <1>1, <1>2, <1>3, OwnedIs DEF Has, Got
  <1> QED
    BY <1>4, <1>5, OwnedSame

LEMMA OwnedAfterNotifying ==
  ASSUME LoopTypes, Notify
  PROVE  owned' = owned
  <1>1. UNCHANGED <<platform, ready_, data>>
    BY NotifyDoes
  <1>2. \A t \in Threads :
          /\ caller'[t].op = caller[t].op /\ caller'[t].arg = caller[t].arg
          /\ caller'[t].result = caller[t].result
          /\ \/ caller'[t].pc = caller[t].pc
             \/ caller[t].pc = "waiting" /\ caller'[t].pc = "woken"
    BY NotifyDoes
  <1>3. \A t \in Threads : owned'[t] = owned[t]
    BY <1>1, <1>2, OwnedIs DEF Slot, Has, Got
  <1> QED
    BY <1>3, OwnedSame

LEMMA OwnedAfterDestroying ==
  ASSUME LoopTypes, OneRequest, Conversation, DestroyPlugin
  PROVE  owned' = owned
  <1>1. PICK t \in Threads : Busy(t) /\ caller[t].op = "destroy"
                             /\ \A u \in Threads : u # t => ~Busy(u)
    BY DestroyDoes
  <1>2. UNCHANGED caller
    BY DestroyDoes
  <1>3. owned'[t] = owned[t]
    BY <1>1, <1>2, OwnedIs DEF Has
  <1> QED
    BY <1>1, <1>2, <1>3, OwnedIdle, OwnedSame

LEMMA OwnedAfterCreating ==
  ASSUME LoopTypes, OneRequest, Conversation, CreatePlugin
  PROVE  \E t \in Threads, v \in Ids :
           /\ owned' = [owned EXCEPT ![t] = v]
           /\ v = None \/ (v = made' /\ made' = made + 1 /\ made' \in Instances)
  <1>1. PICK t \in Threads, d \in Answers :
          /\ Busy(t) /\ caller[t].op = "create" /\ \A u \in Threads : u # t => ~Busy(u)
          /\ data' = [data EXCEPT ![Slot(t)] = d]
          /\ d.plugin = None \/ (d.plugin = made' /\ made' = made + 1 /\ made < MaxPlugins)
    BY CreateDoes
  <1>2. ready_' = TRUE /\ UNCHANGED <<platform, caller>>
    BY CreateDoes
  <1>3. data'[Slot(t)'] = d
    BY <1>1, <1>2, SlotType DEF Slot, LoopTypes
  <1>4. owned'[t] = d.plugin
    BY <1>1, <1>2, <1>3, OwnedIs DEF Has, Got, Busy
  <1>5. owned' = [owned EXCEPT ![t] = d.plugin]
    BY <1>1, <1>2, <1>4, OwnedIdle, OwnedBut
  <1>6. made < MaxPlugins /\ made' = made + 1 => made' \in Instances
    BY LoopAssumption DEF LoopTypes, Instances
  <1>7. d.plugin \in Ids
    BY DEF Answers
  <1> QED
    BY <1>1, <1>5, <1>6, <1>7

\* an instance that is given up can be given to another owner
LEMMA Passed ==
  ASSUME LoopTypes, EditorTypes, Owners, NEW m, m \in Nat, m >= made,
         NEW v \in Ids, v = None \/ v \in 1 .. made,
         NEW x, NEW a, NEW r, NEW w, v \in Instances => Unowned(v, x, a, r, w)
  PROVE  MayGive(m, v, x, a, r, w)
  BY DEF MayGive, Ids, Instances, LoopTypes

LEMMA OwnersNext ==
  ASSUME Old, Steps
  PROVE  Owners'
  <1>1. LoopStep /\ LoopTypes /\ EditorTypes /\ OneRequest /\ Conversation /\ Owners /\ ~Overlaps
    BY LoopSteps DEF Old
  <1>2. made' \in Nat /\ made \in Nat /\ made' >= made
    BY <1>1, MadeGrows DEF LoopTypes
  <1> DEFINE m == made'
             Goal == Held(m, x_plugin', owned', results', work')
  <1> SUFFICES Goal
    BY DEF Owners, Held
  <1>3. Held(m, x_plugin, owned, results, work)
    BY <1>1, <1>2 DEF Owners, Held, Instances
  <1>4. m = made + 1 /\ m \in Instances => MayGive(m, m, x_plugin, owned, results, work)
    BY <1>1, <1>2 DEF Owners, MayGive
  <1>5. /\ x_plugin \in [Objects -> Ids] /\ DOMAIN owned = Threads
        /\ results \in Seq(Objects \X Ids) /\ work \in Seq(Items)
        /\ "pd" \in Threads /\ "worker" \in Threads
    BY <1>1, EditorAssumption DEF EditorTypes, owned
  <1>6. \A v, x, a, r, w : v = None => MayGive(m, v, x, a, r, w)
    BY DEF MayGive
  <1>7. CASE UNCHANGED <<platform, ready_, data, caller>> /\ UNCHANGED <<x_plugin, results, work>>
    BY <1>3, <1>7 DEF owned, Slot
  <1>8. UNCHANGED <<platform, ready_, data, caller>> => owned' = owned
    BY DEF owned, Slot
  <1> HIDE DEF m
  <1>9. CASE Quiet \/ Refreshes \/ \E e \in Events : Posts(e)
    BY <1>7, <1>9 DEF Quiet, Refreshes, Posts, Same, Kept
  <1>10. ASSUME NEW o \in Objects, NEW uithread \in BOOLEAN, OpenLater(o, uithread) PROVE Goal
    <2> DEFINE e == [op |-> "create", arg |-> o, object |-> o, uithread |-> uithread]
    <2>1. e \in Items /\ Doomed(e) = None
      BY DEF Items, Objects, Requests, Doomed
    <2>2. work' = Append(work, e) /\ UNCHANGED <<x_plugin, results>> /\ owned' = owned
      BY <1>8, <1>10 DEF OpenLater, loop
    <2> HIDE DEF e
    <2> QED
      BY <1>3, <1>5, <1>6, <2>1, <2>2, GiveToWork
  <1>11. ASSUME NEW o \in Objects, OpenAsked(o) PROVE Goal
    <2>1. Asks("pd", "create", o) /\ "create" \in Requests
          /\ UNCHANGED <<x_plugin, results, work>>
      BY <1>11 DEF OpenAsked, Asks, Objects, Requests
    <2>2. owned' = [owned EXCEPT !["pd"] = None]
      BY <1>1, <1>5, <2>1, OwnedAfterAsking
    <2> QED
      BY <1>3, <1>5, <2>1, <2>2, TakeFromThread
  <1>12. ASSUME NEW o \in Objects, OpenHere(o) PROVE Goal
    <2>1. /\ MadeHere(o) /\ o \in Infos /\ x_plugin' = [x_plugin EXCEPT ![o] = m]
          /\ UNCHANGED <<results, work>> /\ owned' = owned
      BY <1>8, <1>12 DEF OpenHere, Objects, MadeHere, m
    <2>2. m = made + 1 /\ m \in Instances
      BY <1>1, <2>1, MadeHereDoes DEF m
    <2> QED
      BY <1>3, <1>4, <1>5, <2>1, <2>2, GiveToObject
  <1>13. ASSUME NEW o \in Objects, MayClose(o)
         PROVE  /\ x_plugin[o] \in 1 .. made /\ x_plugin[o] \in Instances
                /\ Held(m, x_plugin', owned, results, work)
                /\ MayGive(m, x_plugin[o], x_plugin', owned, results, work)
    <2>1. x_plugin[o] \in 1 .. made /\ x_plugin[o] \in Instances
      BY <1>1, <1>13, OwnedMade DEF MayClose, Old
    <2>2. /\ Held(m, x_plugin', owned, results, work)
          /\ Unowned(x_plugin[o], x_plugin', owned, results, work)
      BY <1>3, <1>5, <1>13, <2>1, TakeFromObject DEF MayClose
    <2> QED
      BY <1>2, <2>1, <2>2 DEF MayGive, m
  <1>14. ASSUME NEW o \in Objects, MayClose(o) PROVE x_plugin' \in [Objects -> Ids]
    BY <1>5, <1>14 DEF MayClose, Ids
  <1>15. ASSUME NEW o \in Objects, CloseLater(o) PROVE Goal
    <2> DEFINE e == [op |-> "destroy", arg |-> x_plugin[o], object |-> o,
                     uithread |-> x_uithread[o]]
    <2>1. MayClose(o) /\ work' = Append(work, e) /\ UNCHANGED results /\ owned' = owned
      BY <1>8, <1>15 DEF CloseLater, MayClose, loop
    <2>2. x_plugin[o] \in Instances /\ x_uithread[o] \in BOOLEAN
      BY <1>1, <1>13, <2>1 DEF EditorTypes
    <2>3. e \in Items /\ Doomed(e) = x_plugin[o]
      BY <2>2 DEF Items, Requests, Doomed
    <2> HIDE DEF e
    <2> QED
      BY <1>5, <1>13, <2>1, <2>3, GiveToWork
  <1>16. ASSUME NEW o \in Objects, CloseAsked(o) PROVE Goal
    <2>1. MayClose(o) /\ UNCHANGED <<results, work>> /\ Request("pd", "destroy", x_plugin[o])
      BY <1>16 DEF CloseAsked, MayClose
    <2>2. Asks("pd", "destroy", x_plugin[o]) /\ "destroy" \in Requests
      BY <1>13, <2>1 DEF Asks, Requests
    <2>3. owned' = [owned EXCEPT !["pd"] = x_plugin[o]]
      BY <1>1, <1>5, <2>2, OwnedAfterAsking
    <2> QED
      BY <1>5, <1>13, <2>1, <2>3, GiveToThread
  <1>17. ASSUME NEW o \in Objects, CloseHere(o) PROVE Goal
    <2>1. MayClose(o) /\ UNCHANGED <<results, work>> /\ owned' = owned
      BY <1>8, <1>17 DEF CloseHere, MayClose, GoneHere
    <2> QED
      BY <1>13, <2>1
  <1>18. CASE WorkMakes
    <2>1. /\ work # <<>> /\ Head(work).op = "create" /\ MadeHere(Head(work).arg)
          /\ work' = Tail(work) /\ results' = Append(results, <<Head(work).object, m>>)
          /\ x_plugin' = x_plugin /\ owned' = owned
      BY <1>8, <1>18 DEF WorkMakes, MadeHere, m
    <2>2. Head(work).arg \in Infos /\ Head(work).object \in Objects
      BY <1>1, <2>1, FirstWork DEF Old, Occupied, Items, Objects
    <2>3. m = made + 1 /\ m \in Instances
      BY <1>1, <2>1, <2>2, MadeHereDoes DEF m
    <2>4. /\ Held(m, x_plugin, owned, results, work')
          /\ MayGive(m, m, x_plugin, owned, results, work')
      BY <1>3, <1>4, <1>5, <2>1, <2>3, TakeFromWork DEF MayGive
    <2> DEFINE e == <<Head(work).object, m>>
    <2>5. e \in Objects \X Ids /\ e[2] = m
      BY <2>2, <2>3 DEF Ids
    <2>6. results' = Append(results, e)
      BY <2>1
    <2> HIDE DEF e
    <2>7. Held(m, x_plugin, owned, results', work')
      BY <1>5, <2>4, <2>5, <2>6, GiveToResults
    <2> QED
      BY <2>1, <2>7
  <1>19. CASE WorkDestroys
    <2>1. /\ work # <<>> /\ work' = Tail(work) /\ UNCHANGED <<x_plugin, results>>
          /\ owned' = owned
      BY <1>8, <1>19 DEF WorkDestroys, GoneHere
    <2> QED
      BY <1>3, <1>5, <2>1, TakeFromWork
  <1>20. CASE WorkAsks
    <2>1. /\ UNCHANGED <<x_plugin, results, work>> /\ Head(work).op \in Requests
          /\ Request("worker", Head(work).op, Head(work).arg)
          /\ Head(work) = work[1] /\ 1 \in DOMAIN work /\ Head(work) \in Items
      BY <1>1, <1>20, FirstWork DEF WorkAsks, Kept, Items
    <2>2. /\ Head(work).op = "create"  => Head(work).arg \in Infos
          /\ Head(work).op = "destroy" => Head(work).arg \in 1 .. made
      BY <2>1 DEF Old, Occupied, Items, Objects
    <2>3. Asks("worker", Head(work).op, Head(work).arg)
      BY <2>1, <2>2 DEF Asks
    <2>4. owned' = [owned EXCEPT !["worker"] = None]
      BY <1>1, <1>5, <2>1, <2>3, OwnedAfterAsking
    <2> QED
      BY <1>3, <1>5, <2>1, <2>4, TakeFromThread
  <1>21. CASE PdGets
    <2>1. Over("pd") /\ UNCHANGED <<results, work>> /\ caller["pd"].pc = "back"
      BY <1>21, ReturnedDoes DEF Old, Over
    <2>2. owned' = [owned EXCEPT !["pd"] = None]
      BY <1>1, <1>5, <2>1, OwnedAfterOver
    <2>3. /\ Held(m, x_plugin, owned', results, work)
          /\ owned["pd"] \in Instances => Unowned(owned["pd"], x_plugin, owned', results, work)
      BY <1>3, <1>5, <2>2, TakeFromThread
    <2>4. CASE pd.pc = "open"
      <3>1. /\ pd.object \in Objects /\ caller["pd"].op = "create"
            /\ x_plugin' = [x_plugin EXCEPT ![pd.object] = caller["pd"].result]
            /\ caller["pd"].result \in Ids
        BY <1>21, <2>4, ReturnedDoes DEF Old
      <3>2. owned["pd"] = caller["pd"].result
        BY <1>5, <2>1, <3>1, OwnedIs DEF Has, Got
      <3>3. MayGive(m, owned["pd"], x_plugin, owned', results, work)
        BY <1>1, <1>2, <1>5, <2>3, <3>1, <3>2, AnswerMade, Passed DEF m
      <3>4. DOMAIN owned' = Threads
        BY OwnedIs
      <3> QED
        BY <1>5, <2>1, <2>3, <3>1, <3>2, <3>3, GiveToObject
    <2>5. CASE pd.pc # "open"
      BY <1>21, <2>1, <2>3, <2>5, ReturnedDoes DEF Old
    <2> QED
      BY <2>4, <2>5
  <1>22. CASE WorkerEnd
    <2>1. /\ Over("worker") /\ caller["worker"].pc = "back" /\ work # <<>> /\ work' = Tail(work)
          /\ caller["worker"].op = Head(work).op /\ x_plugin' = x_plugin
          /\ IF Head(work).op = "create"
             THEN results' = Append(results, <<Head(work).object, caller["worker"].result>>)
             ELSE results' = results
          /\ Head(work) \in Items /\ caller["worker"].result \in Ids
      BY <1>22, WorkerEndDoes DEF Old, Over
    <2>2. owned' = [owned EXCEPT !["worker"] = None]
      BY <1>1, <1>5, <2>1, OwnedAfterOver
    <2>3. /\ Held(m, x_plugin, owned', results, work)
          /\ owned["worker"] \in Instances =>
               Unowned(owned["worker"], x_plugin, owned', results, work)
      BY <1>3, <1>5, <2>2, TakeFromThread
    <2>4. /\ Held(m, x_plugin, owned', results, work')
          /\ owned["worker"] \in Instances =>
               Unowned(owned["worker"], x_plugin, owned', results, work')
      BY <1>5, <2>1, <2>3, TakeFromWork
    <2>5. CASE Head(work).op = "create"
      <3> DEFINE v == caller["worker"].result
                 e == <<Head(work).object, v>>
      <3>1. owned["worker"] = v
        BY <1>5, <2>1, <2>5, OwnedIs DEF Has, Got
      <3>2. MayGive(m, v, x_plugin, owned', results, work')
        BY <1>1, <1>2, <1>5, <2>1, <2>4, <3>1, AnswerMade, Passed DEF m
      <3>3. e \in Objects \X Ids /\ e[2] = v
        BY <2>1 DEF Items
      <3>4. results' = Append(results, e)
        BY <2>1, <2>5
      <3> HIDE DEF e, v
      <3>5. Held(m, x_plugin, owned', results', work')
        BY <1>5, <2>4, <3>2, <3>3, <3>4, GiveToResults
      <3> QED
        BY <2>1, <3>5
    <2>6. CASE Head(work).op # "create"
      BY <2>1, <2>4, <2>6
    <2> QED
      BY <2>5, <2>6
  <1>23. CASE Arrives
    <2> DEFINE u == Head(results)[1]
               v == Head(results)[2]
    <2>1. /\ results # <<>> /\ results' = Tail(results) /\ work' = work /\ owned' = owned
          /\ x_plugin' = [x_plugin EXCEPT ![u] = v]
      BY <1>1, <1>8, <1>23, PollDoes
    <2>2. u \in Objects /\ v \in Ids /\ (v = None \/ v \in 1 .. made)
      BY <1>1, <2>1, FirstResult, ResultIs
    <2>3. /\ Held(m, x_plugin, owned, results', work)
          /\ v \in Instances => Unowned(v, x_plugin, owned, results', work)
      BY <1>3, <1>5, <2>1, TakeFromResults
    <2> HIDE DEF u, v
    <2>4. MayGive(m, v, x_plugin, owned, results', work)
      BY <1>1, <1>2, <2>2, <2>3, Passed DEF m
    <2> QED
      BY <1>5, <2>1, <2>2, <2>3, <2>4, GiveToObject
  <1>24. ASSUME owned' = owned, Kept PROVE Goal
    BY <1>3, <1>24 DEF Kept
  <1>25. ASSUME NEW t \in Threads, Wake(t), Kept PROVE Goal
    BY <1>1, <1>24, <1>25, OwnedAfterWaking
  <1>26. CASE CreatePlugin /\ Kept
    <2>1. PICK t \in Threads, v \in Ids : /\ owned' = [owned EXCEPT ![t] = v]
                                          /\ v = None \/ (v = m /\ m = made + 1 /\ m \in Instances)
      BY <1>1, <1>26, OwnedAfterCreating DEF m
    <2>2. MayGive(m, v, x_plugin, owned, results, work)
      BY <1>4, <1>6, <2>1
    <2>3. Held(m, x_plugin, owned', results, work)
      BY <1>3, <1>5, <2>1, <2>2, GiveToThread
    <2> QED
      BY <1>26, <2>3 DEF Kept
  <1>27. CASE (DestroyPlugin \/ Notify \/ ShowEditor) /\ Kept
    <2>1. ShowEditor => owned' = owned
      BY <1>1, <1>8, ShowDoes
    <2> QED
      BY <1>1, <1>24, <1>27, <2>1, OwnedAfterDestroying, OwnedAfterNotifying
  <1> HIDE DEF Goal
  <1> QED
    BY <1>9, <1>10, <1>11, <1>12, <1>15, <1>16, <1>17, <1>18, <1>19, <1>20, <1>21, <1>22, <1>23,
       <1>25, <1>26, <1>27 DEF Steps, UIStep
--------------------------------------------------------------------------------
(* What the host shows *)

Showing(e) == e.type \in Shows /\ e.host
ShownIn(es, d, ps) ==
  \A i \in DOMAIN es : Showing(es[i]) =>
    /\ Wins(ps, es[i].window)
    /\ \A j \in DOMAIN es : j < i /\ es[j].type = "destroy" =>
         d[es[j].slot].plugin # es[i].window

LEMMA ShownIs == /\ Shown  <=> ~lost  /\ ShownIn(events, data, plugins)
                 /\ Shown' <=> ~lost' /\ ShownIn(events', data', plugins')
  BY DEF Shown, ShownIn, Showing, Wins, HasWindow

\* The instance that a request destroys is not that of an object.
LEMMA NotOfObject ==
  ASSUME LoopTypes, EditorTypes, Conversation, Occupied, Owners,
         NEW i \in DOMAIN events, events[i].type = "destroy", NEW o \in Objects,
         x_plugin[o] # None
  PROVE  data[events[i].slot].plugin # x_plugin[o]
  <1>1. PICK u \in Threads : /\ Busy(u) /\ ~ready_ /\ events[i].slot = Slot(u)
                             /\ caller[u].op = "destroy"
    BY DEF Conversation, Requests
  <1>2. data[Slot(u)].plugin = caller[u].arg /\ caller[u].pc # "away"
    BY <1>1 DEF Conversation, Asked, Busy
  <1>3. caller[u].arg # x_plugin[o]
    <2>1. CASE u = "pd"
      <3>1. owned[u] = caller[u].arg
        BY <1>1, <1>2, <2>1 DEF owned, Has
      <3> QED
        BY <3>1 DEF Owners, Apart
    <2>2. CASE u = "worker"
      <3>1. work # <<>> /\ Head(work).op = "destroy" /\ Head(work).arg = caller[u].arg
        BY <1>1, <1>2, <2>2 DEF Occupied
      <3>2. Head(work) = work[1] /\ 1 \in DOMAIN work
        BY <3>1, FirstWork
      <3>3. Doomed(work[1]) = caller[u].arg
        BY <3>1, <3>2 DEF Doomed
      <3> QED
        BY <3>2, <3>3 DEF Owners, Apart
    <2> QED
      BY <2>1, <2>2, EditorAssumption
  <1> QED
    BY <1>1, <1>2, <1>3

\* Events are handled in their order, windows stay, and so do the requests.
LEMMA ShownStays ==
  ASSUME Shown, ~lost', NEW n \in {0, 1},
         \A i \in DOMAIN events' :
           i \in Nat /\ i + n \in DOMAIN events /\ events'[i] = events[i + n],
         \A i \in DOMAIN events' :
           Showing(events'[i]) /\ Wins(plugins, events'[i].window)
             => Wins(plugins', events'[i].window),
         \/ UNCHANGED data
         \/ \A i \in DOMAIN events' : events'[i].type # "destroy"
  PROVE  Shown'
  <1> SUFFICES ASSUME NEW i \in DOMAIN events', Showing(events'[i])
               PROVE  /\ Wins(plugins', events'[i].window)
                      /\ \A j \in DOMAIN events' : j < i /\ events'[j].type = "destroy" =>
                           data'[events'[j].slot].plugin # events'[i].window
    BY ShownIs DEF ShownIn
  <1>1. i + n \in DOMAIN events /\ events'[i] = events[i + n] /\ i \in Nat
    OBVIOUS
  <1>2. ShownIn(events, data, plugins)
    BY ShownIs
  <1>3. Wins(plugins', events'[i].window)
    BY <1>1, <1>2 DEF ShownIn
  <1>4. ASSUME NEW j \in DOMAIN events', j < i, events'[j].type = "destroy"
        PROVE  data'[events'[j].slot].plugin # events'[i].window
    <2>1. /\ j + n \in DOMAIN events /\ events'[j] = events[j + n] /\ j \in Nat
          /\ j + n < i + n /\ UNCHANGED data
      BY <1>1, <1>4
    <2> QED
      BY <1>1, <1>2, <1>4, <2>1 DEF ShownIn
  <1> QED
    BY <1>3, <1>4

LEMMA EventsFrom ==
  ASSUME LoopTypes, events' = events \/ \E type : Handle(type)
  PROVE  \E n \in {0, 1} : \A i \in DOMAIN events' :
           i \in Nat /\ i + n \in DOMAIN events /\ events'[i] = events[i + n]
  <1>1. CASE events' = events
    <2>1. \A i \in DOMAIN events' :
            i \in Nat /\ i + 0 \in DOMAIN events /\ events'[i] = events[i + 0]
      BY <1>1 DEF LoopTypes
    <2> QED
      BY <2>1
  <1>2. ASSUME NEW type, Handle(type)
        PROVE  \A i \in DOMAIN events' :
                 i \in Nat /\ i + 1 \in DOMAIN events /\ events'[i] = events[i + 1]
    BY <1>2, FirstEvent
  <1> QED
    BY <1>1, <1>2

LEMMA ShownKept ==
  ASSUME LoopTypes, Shown, ~lost', events' = events \/ \E type : Handle(type),
         \A i \in DOMAIN events' :
           Showing(events'[i]) /\ Wins(plugins, events'[i].window)
             => Wins(plugins', events'[i].window),
         \/ UNCHANGED data
         \/ \A i \in DOMAIN events' : events'[i].type # "destroy"
  PROVE  Shown'
  BY EventsFrom, ShownStays

LEMMA ShownNext ==
  ASSUME Old, Shown, Steps
  PROVE  Shown'
  <1>1. LoopStep /\ LoopTypes /\ EditorTypes /\ OneRequest /\ Conversation /\ Occupied
        /\ Owners /\ ~Overlaps /\ ~lost
    BY LoopSteps DEF Old, Shown
  <1>2. CASE UNCHANGED <<data, events, plugins, lost>>
    BY <1>1, <1>2, ShownKept
  <1>3. CASE Refreshes
    BY <1>1, <1>3, ShownKept DEF Refreshes, Same
  <1>4. ASSUME NEW e \in Events, Posts(e) PROVE Shown'
    <2>1. /\ UNCHANGED <<data, plugins, lost>> /\ events' = Append(events, e)
          /\ Showing(e) => \E o \in Objects : e.window = x_plugin[o] /\ HasWindow(x_plugin[o])
      BY <1>4 DEF Posts, Same, Showing
    <2>2. /\ \A i \in DOMAIN events' : (i = Len(events) + 1 /\ events'[i] = e)
                                       \/ (i \in DOMAIN events /\ events'[i] = events[i])
          /\ \A i \in DOMAIN events : i < Len(events) + 1
      BY <1>1, <2>1, AppendAt DEF LoopTypes
    <2>3. Showing(e) =>
            /\ Wins(plugins, e.window)
            /\ \A j \in DOMAIN events : events[j].type = "destroy" =>
                 data[events[j].slot].plugin # e.window
      <3> SUFFICES ASSUME Showing(e)
                   PROVE  /\ Wins(plugins, e.window)
                          /\ \A j \in DOMAIN events : events[j].type = "destroy" =>
                               data[events[j].slot].plugin # e.window
        OBVIOUS
      <3>1. PICK o \in Objects : e.window = x_plugin[o] /\ HasWindow(x_plugin[o])
        BY <2>1
      <3>2. x_plugin[o] # None
        BY <1>1, <3>1, Nones, OwnedMade DEF HasWindow, LoopTypes
      <3> QED
        BY <1>1, <3>1, <3>2, NotOfObject DEF Wins, HasWindow
    <2>4. ShownIn(events, data, plugins)
      BY ShownIs
    <2>5. ShownIn(events', data, plugins)
      <3> SUFFICES ASSUME NEW i \in DOMAIN events', Showing(events'[i])
                   PROVE  /\ Wins(plugins, events'[i].window)
                          /\ \A j \in DOMAIN events' : j < i /\ events'[j].type = "destroy" =>
                               data[events'[j].slot].plugin # events'[i].window
        BY DEF ShownIn
      <3>1. CASE i \in DOMAIN events /\ events'[i] = events[i]
        <4>1. Wins(plugins, events'[i].window)
          BY <2>4, <3>1 DEF ShownIn
        <4>2. ASSUME NEW j \in DOMAIN events', j < i, events'[j].type = "destroy"
              PROVE  data[events'[j].slot].plugin # events'[i].window
          <5>1. j \in DOMAIN events /\ events'[j] = events[j]
            <6>1. i < Len(events) + 1 /\ i \in Nat /\ Len(events) \in Nat
              BY <1>1, <2>2, <3>1 DEF LoopTypes
            <6>2. j # Len(events) + 1
              BY <4>2, <6>1
            <6> QED
              BY <2>2, <6>2
          <5> QED
            BY <2>4, <3>1, <4>2, <5>1 DEF ShownIn
        <4> QED
          BY <4>1, <4>2
      <3>2. CASE i = Len(events) + 1 /\ events'[i] = e
        <4>1. ASSUME NEW j \in DOMAIN events', j < i, events'[j].type = "destroy"
              PROVE  data[events'[j].slot].plugin # events'[i].window
          <5>1. j \in DOMAIN events /\ events'[j] = events[j]
            <6>1. j # Len(events) + 1
              BY <1>1, <3>2, <4>1 DEF LoopTypes
            <6> QED
              BY <2>2, <6>1
          <5> QED
            BY <2>3, <3>2, <4>1, <5>1
        <4> QED
          BY <2>3, <3>2, <4>1
      <3> QED
        BY <2>2, <3>1, <3>2
    <2> QED
      BY <1>1, <2>1, <2>5, ShownIs
  <1>5. ASSUME NEW t \in Threads, NEW op \in Requests, NEW arg, Asks(t, op, arg) PROVE Shown'
    <2>1. Requested(t, op, arg)
      BY <1>1, <1>5, AsksDoes
    <2>2. PICK e \in Events : events' = Append(events, e) /\ e.type = op
      BY <2>1 DEF Requested
    <2>3. UNCHANGED <<plugins, lost>> /\ \A u \in Threads : ~Busy(u)
      BY <2>1 DEF Requested
    <2>4. /\ \A i \in DOMAIN events' : (i = Len(events) + 1 /\ events'[i] = e)
                                       \/ (i \in DOMAIN events /\ events'[i] = events[i])
          /\ \A i \in DOMAIN events : i < Len(events) + 1 /\ i \in Nat
          /\ Len(events) \in Nat
      BY <1>1, <2>2, AppendAt DEF LoopTypes
    <2>5. \A i \in DOMAIN events : events[i].type # "destroy"
      BY <1>1, <2>3 DEF Conversation, Requests
    <2>6. ~Showing(e)
      BY <2>2 DEF Showing, Shows, Requests
    <2>7. ShownIn(events, data, plugins)
      BY ShownIs
    <2>8. ShownIn(events', data', plugins)
      <3> SUFFICES ASSUME NEW i \in DOMAIN events', Showing(events'[i])
                   PROVE  /\ Wins(plugins, events'[i].window)
                          /\ \A j \in DOMAIN events' : j < i => events'[j].type # "destroy"
        BY DEF ShownIn
      <3>1. i \in DOMAIN events /\ events'[i] = events[i]
        BY <2>4, <2>6
      <3>2. ASSUME NEW j \in DOMAIN events', j < i PROVE events'[j].type # "destroy"
        <4>1. j # Len(events) + 1
          BY <2>4, <3>1, <3>2
        <4> QED
          BY <2>4, <2>5, <4>1
      <3> QED
        BY <2>7, <3>1, <3>2 DEF ShownIn
    <2> QED
      BY <1>1, <2>3, <2>8, ShownIs
  <1>6. ASSUME NEW o \in Objects, OpenAsked(o) PROVE Shown'
    <2>1. Asks("pd", "create", o) /\ "create" \in Requests /\ "pd" \in Threads
      BY <1>6, EditorAssumption DEF OpenAsked, Asks, Objects, Requests
    <2> QED
      BY <1>5, <2>1
  <1>7. ASSUME NEW o \in Objects, CloseAsked(o) PROVE Shown'
    <2>1. x_plugin[o] \in 1 .. made
      BY <1>1, <1>7, OwnedMade DEF CloseAsked, MayClose
    <2>2. Asks("pd", "destroy", x_plugin[o]) /\ "destroy" \in Requests /\ "pd" \in Threads
      BY <1>7, <2>1, EditorAssumption DEF CloseAsked, Asks, Requests
    <2> QED
      BY <1>5, <2>2
  <1>8. CASE WorkAsks
    <2>1. /\ Head(work).op \in Requests /\ Request("worker", Head(work).op, Head(work).arg)
          /\ Head(work) = work[1] /\ 1 \in DOMAIN work /\ Head(work) \in Items
      BY <1>1, <1>8, FirstWork DEF WorkAsks, Items
    <2>2. /\ Head(work).op = "create"  => Head(work).arg \in Infos
          /\ Head(work).op = "destroy" => Head(work).arg \in 1 .. made
      BY <1>1, <2>1 DEF Occupied, Items, Objects
    <2>3. Asks("worker", Head(work).op, Head(work).arg) /\ "worker" \in Threads
      BY <2>1, <2>2, EditorAssumption DEF Asks
    <2> QED
      BY <1>5, <2>1, <2>3
  <1>9. ASSUME NEW o \in Infos, MadeHere(o) PROVE Shown'
    <2>1. UNCHANGED <<data, events, lost>>
      BY <1>9 DEF MadeHere
    <2>2. \A v : Wins(plugins, v) => Wins(plugins', v)
      BY <1>1, <1>9, MadeHereDoes DEF Wins
    <2> QED
      BY <1>1, <2>1, <2>2, ShownKept
  <1>10. CASE WorkMakes
    <2>1. MadeHere(Head(work).arg) /\ Head(work).op = "create" /\ work # <<>>
      BY <1>10 DEF WorkMakes
    <2>2. Head(work).arg \in Infos
      BY <1>1, <2>1, FirstWork DEF Occupied, Items, Objects
    <2> QED
      BY <1>9, <2>1, <2>2
  <1>11. ASSUME NEW q, GoneHere(q), ~HasWindow(q) PROVE Shown'
    <2>1. UNCHANGED <<data, events, lost>>
      BY <1>11 DEF GoneHere
    <2>2. /\ DOMAIN plugins' = DOMAIN plugins \ {q}
          /\ \A v \in DOMAIN plugins' : plugins'[v] = plugins[v]
          /\ q \in DOMAIN plugins => ~plugins[q].window
      BY <1>1, <1>11, GoneHereDoes DEF HasWindow
    <2>3. \A v : Wins(plugins, v) => Wins(plugins', v)
      BY <2>2 DEF Wins
    <2> QED
      BY <1>1, <2>1, <2>3, ShownKept
  <1>12. ASSUME NEW o \in Objects, CloseHere(o) PROVE Shown'
    <2>1. GoneHere(x_plugin[o]) /\ ~HasWindow(x_plugin[o])
      BY <1>12 DEF CloseHere, Old, Where
    <2> QED
      BY <1>11, <2>1
  <1>13. CASE WorkDestroys
    <2>1. work # <<>> /\ ~Head(work).uithread /\ Head(work).op = "destroy"
          /\ GoneHere(Head(work).arg)
      BY <1>13 DEF WorkDestroys
    <2>2. Head(work) = work[1] /\ 1 \in DOMAIN work
      BY <1>1, <2>1, FirstWork
    <2>3. ~HasWindow(Head(work).arg)
      BY <2>1, <2>2 DEF Old, Where
    <2> QED
      BY <1>11, <2>1, <2>3
  <1>14. ASSUME NEW t \in Threads, Wake(t) PROVE Shown'
    <2>1. Busy(t) /\ UNCHANGED <<ready_, events, plugins, lost>>
      BY <1>1, <1>14, WakeDoes DEF Busy
    <2>2. ~ready_ => UNCHANGED data
      BY <1>14 DEF Wake
    <2>3. ready_ => \A i \in DOMAIN events' : events'[i].type # "destroy"
      BY <1>1, <2>1 DEF Conversation, Requests
    <2> QED
      BY <1>1, <2>1, <2>2, <2>3, ShownKept
  <1>15. CASE CreatePlugin
    <2>1. Handle("create") /\ UNCHANGED lost
      BY <1>15 DEF CreatePlugin
    <2>2. \A i \in DOMAIN events' : events'[i].type # "destroy"
      BY <1>1, <1>15, CreateDoes DEF Requests
    <2>3. \A v : Wins(plugins, v) => Wins(plugins', v)
      BY <1>1, <1>15, CreateDoes DEF Wins
    <2> QED
      BY <1>1, <2>1, <2>2, <2>3, ShownKept
  <1>16. CASE DestroyPlugin
    <2>1. Handle("destroy") /\ UNCHANGED lost
      BY <1>16 DEF DestroyPlugin
    <2>2. \A i \in DOMAIN events' : events'[i].type # "destroy"
      BY <1>1, <1>16, DestroyDoes DEF Requests
    <2>3. /\ \A v : Wins(plugins, v) /\ v # data[Head(events).slot].plugin => Wins(plugins', v)
      BY <1>1, <1>16, DestroyDoes DEF Wins
    <2>4. ASSUME NEW i \in DOMAIN events', Showing(events'[i])
          PROVE  events'[i].window # data[Head(events).slot].plugin
      <3>1. /\ Head(events) = events[1] /\ 1 \in DOMAIN events /\ events[1].type = "destroy"
            /\ i \in Nat /\ i + 1 \in DOMAIN events /\ i + 1 # 1 /\ events'[i] = events[i + 1]
        BY <1>1, <2>1, FirstEvent
      <3>2. 1 < i + 1
        BY <1>1, <3>1 DEF LoopTypes
      <3>3. ShownIn(events, data, plugins)
        BY ShownIs
      <3> QED
        BY <2>4, <3>1, <3>2, <3>3 DEF ShownIn
    <2> QED
      BY <1>1, <2>1, <2>2, <2>3, <2>4, ShownKept
  <1>17. CASE Notify
    BY <1>1, <1>2, <1>17, NotifyDoes
  <1>18. CASE ShowEditor
    <2>1. PICK type \in Shows : Handle(type)
      BY <1>1, <1>18, ShowDoes DEF Shows
    <2>2. /\ Head(events) = events[1] /\ 1 \in DOMAIN events /\ events[1].type = type
      BY <1>1, <2>1, FirstEvent
    <2>3. ~lost'
      <3>1. lost' => lost \/ (Head(events).host /\ ~HasWindow(Head(events).window))
        BY <1>1, <1>18, ShowDoes
      <3>2. events[1].host => HasWindow(events[1].window)
        BY <2>2 DEF Shown
      <3> QED
        BY <1>1, <2>2, <3>1, <3>2
    <2>4. UNCHANGED data /\ \A v : Wins(plugins, v) => Wins(plugins', v)
      BY <1>1, <1>18, ShowDoes DEF Wins
    <2> QED
      BY <1>1, <2>1, <2>3, <2>4, ShownKept
  <1>19. CASE Quiet
    BY <1>2, <1>19 DEF Quiet, Same
  <1>20. ASSUME NEW o \in Objects, OpenHere(o) PROVE Shown'
    BY <1>9, <1>20 DEF OpenHere, Objects
  <1>21. ASSUME NEW o \in Objects, CloseLater(o) \/ \E b \in BOOLEAN : OpenLater(o, b)
         PROVE  Shown'
    BY <1>2, <1>21 DEF CloseLater, OpenLater, loop
  <1>22. CASE PdGets
    BY <1>2, <1>22 DEF PdGets, Over
  <1>23. CASE WorkerEnd
    BY <1>2, <1>23 DEF WorkerEnd
  <1>24. CASE Arrives
    BY <1>2, <1>24 DEF Arrives
  <1> QED
    BY <1>3, <1>4, <1>6, <1>7, <1>8, <1>10, <1>12, <1>13, <1>14, <1>15, <1>16, <1>17, <1>18,
       <1>19, <1>20, <1>21, <1>22, <1>23, <1>24 DEF Steps, UIStep

--------------------------------------------------------------------------------
(* The theorems *)

LEMMA VacantNext ==
  ASSUME LoopTypes, EditorTypes, Occupied, Where, Vacant, Steps
  PROVE  Vacant'
  <1>1. CASE UNCHANGED <<x_plugin, opening, pd>>
    BY <1>1 DEF Vacant
  <1>2. CASE Quiet
    BY <1>2 DEF Quiet, Vacant
  <1>3. ASSUME NEW o \in Objects, NEW uithread \in BOOLEAN, OpenLater(o, uithread)
        PROVE  Vacant'
    BY <1>3 DEF OpenLater, MayOpen, PdFree, Vacant, EditorTypes
  <1>4. ASSUME NEW o \in Objects, OpenAsked(o) PROVE Vacant'
    BY <1>4 DEF OpenAsked, MayOpen, Vacant
  <1>5. ASSUME NEW o \in Objects, OpenHere(o) PROVE Vacant'
    BY <1>5 DEF OpenHere, MayOpen, PdFree, Vacant, EditorTypes
  <1>6. ASSUME NEW o \in Objects, MayClose(o), pd' = pd \/ pd'.pc = "close" PROVE Vacant'
    BY <1>6 DEF MayClose, PdFree, Vacant, EditorTypes
  <1>7. ASSUME NEW o \in Objects, CloseLater(o) \/ CloseAsked(o) \/ CloseHere(o) PROVE Vacant'
    BY <1>6, <1>7 DEF CloseLater, CloseAsked, CloseHere
  <1>8. CASE PdGets
    BY <1>8 DEF PdGets, PdIdle, Vacant, EditorTypes
  <1>9. CASE Arrives
    BY <1>9, FirstResult DEF Arrives, PdFree, Vacant, EditorTypes
  <1>10. CASE WorkerEnd
    BY <1>1, <1>10, WorkerEndDoes
  <1> QED
    BY <1>1, <1>2, <1>3, <1>4, <1>5, <1>7, <1>8, <1>9, <1>10
    DEF Steps, Refreshes, Posts, Kept, WorkMakes, WorkDestroys, WorkAsks

LEMMA Initially == Init => IInv
  <1> SUFFICES ASSUME Init PROVE IInv
    OBVIOUS
  <1>1. /\ platform \in Platforms /\ lock_ = None /\ ready_ = FALSE
        /\ data = [s \in Slots |-> NoData] /\ caller = [t \in Threads |-> Away]
        /\ events = <<>> /\ made = 0 /\ plugins = <<>> /\ lost = FALSE
        /\ x_plugin = [o \in Objects |-> None] /\ x_uithread = [o \in Objects |-> FALSE]
        /\ opening = [o \in Objects |-> FALSE] /\ work = <<>> /\ results = <<>> /\ pd = PdIdle
    BY DEF Init, LoopInit
  <1>2. DOMAIN plugins = {} /\ DOMAIN events = {} /\ DOMAIN work = {} /\ DOMAIN results = {}
    BY <1>1
  <1>3. \A t \in Threads : caller[t].pc = "away"
    BY <1>1 DEF Away
  <1>4. LoopTypes
    <2>1. NoData \in Answers /\ Away \in Callers
      BY DEF NoData, Answers, Away, Callers, Names, Ids
    <2>2. platform \in {"x11", "win32"} /\ made \in 0 .. MaxPlugins
      BY <1>1, LoopAssumption
    <2>3. plugins \in [DOMAIN plugins -> Existing]
      BY <1>1, <1>2
    <2>4. data \in [Slots -> Answers] /\ caller \in [Threads -> Callers]
      BY <1>1, <2>1
    <2>5. events \in Seq(Events)
      BY <1>1
    <2>6. ready_ \in BOOLEAN
      BY <1>1
    <2>7. DOMAIN plugins \subseteq 1 .. made
      BY <1>2
    <2> QED
      BY <2>2, <2>3, <2>4, <2>5, <2>6, <2>7 DEF LoopTypes
  <1>5. EditorTypes
    BY <1>1 DEF EditorTypes, PdIdle, Ids
  <1>6. OneRequest /\ Conversation /\ OwnAnswer
    BY <1>2, <1>3 DEF OneRequest, Conversation, OwnAnswer, Busy
  <1>7. Occupied
    BY <1>2, <1>3, EditorAssumption DEF Occupied
  <1>8. Owners
    <2>1. \A t \in Threads : owned[t] = None
      BY <1>3, OwnedIs DEF Has
    <2>2. \A o \in Objects : x_plugin[o] = None
      BY <1>1
    <2> QED
      BY <1>2, <2>1, <2>2, Nones DEF Owners, Apart, Unowned
  <1>9. Where
    BY <1>1, <1>2, Nones DEF Where, OnePlugin, HasWindow, PdIdle
  <1>10. Shown
    BY <1>1, <1>2 DEF Shown
  <1>11. Vacant
    BY <1>1 DEF Vacant, PdIdle
  <1> QED
    BY <1>4, <1>5, <1>6, <1>7, <1>8, <1>9, <1>10, <1>11 DEF IInv

\* The inductive invariant: when requests do not overlap on Win32, and no object is sent an
\* open while one is under way, one request is under way at a time, its answer stays with
\* the thread that made it, no instance has two owners, those with a window are made and
\* destroyed on the UI thread, and what the host wants shown is there.
THEOREM EditorInvariant == ASSUME ~Overlaps, ~Reopens PROVE Spec => []IInv
  <1>1. ASSUME IInv, [Next]_vars PROVE IInv'
    <2>1. /\ LoopTypes /\ EditorTypes /\ OneRequest /\ Conversation /\ Occupied
          /\ Owners /\ Where /\ Vacant /\ Shown /\ OwnAnswer
      BY <1>1 DEF IInv
    <2>2. Old
      BY <2>1 DEF Old
    <2>3. Steps
      BY <1>1, <2>1, NextSteps
    <2>4. LoopStep
      BY <2>1, <2>3, LoopSteps
    <2>5. LoopTypes' /\ OneRequest' /\ Conversation'
      BY <2>1, <2>4, LoopTypesNext, OneRequestNext, ConversationNext
    <2>6. EditorTypes'
      BY <2>1, <2>3, EditorTypesNext
    <2>7. Occupied'
      BY <2>1, <2>3, OccupiedNext
    <2>8. Owners' /\ Where' /\ Shown' /\ Vacant'
      BY <2>1, <2>2, <2>3, OwnersNext, WhereNext, ShownNext, VacantNext
    <2>9. OwnAnswer'
      BY <2>1, <2>4, OwnAnswerNext
    <2> QED
      BY <2>5, <2>6, <2>7, <2>8, <2>9 DEF IInv
  <1> QED
    BY Initially, <1>1, PTL DEF Spec

\* EventLoop::create and destroy answer their own caller, when requests do not overlap and
\* no object is sent an open while one is under way.
THEOREM EditorOwnAnswer == ASSUME ~Overlaps, ~Reopens PROVE Spec => []OwnAnswer
  <1>1. IInv => OwnAnswer
    BY DEF IInv
  <1> QED
    BY EditorInvariant, <1>1, PTL

\* When requests do not overlap and no object is sent an open while one is under way,
\* vstplugin_vis never shows or hides a window that is gone, and no open, close or worker
\* destroys a plugin apart from its window.
THEOREM EditorWindowsFound == ASSUME ~Overlaps, ~Reopens PROVE Spec => []WindowsFound
  <1>1. IInv => WindowsFound
    BY DEF IInv, Shown, WindowsFound
  <1> QED
    BY EditorInvariant, <1>1, PTL
================================================================================
