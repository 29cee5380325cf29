---------------------------- MODULE PdObjectProofs ----------------------------
(***************************************************************************)
(* Theorems about PdObject for every size of the FIFOs, every number of    *)
(* commands and every set of plugins: the five invariants of the model and *)
(* the two action properties about the work queue.                         *)
(*                                                                         *)
(* First the rings and the queue, without regard to what the items are     *)
(* for: every item is in one place, its id is not that of another one, and *)
(* the two queues to the worker are in the order of their ids (QueueInv).  *)
(* What a step of the queue does is then said once, in terms of the sets   *)
(* of items (the lemmas named Effect), and the object's part of the        *)
(* invariant is proved from these lemmas without opening a ring again.     *)
(***************************************************************************)
EXTENDS PdObject, FiniteSetTheorems, TLAPS

\* the elements of a ring that hold an item, and how many are taken before one
Occupied(q) == {j \in 0..N-1 : (j - q.read - 1) % N < (q.write - q.read) % N}
Turn(q, j)  == (j - q.read - 1) % N

\* the ids in a ring increase from the next item on, or differ at least
Increasing(q) == \A i, j \in Occupied(q) :
                   Turn(q, i) < Turn(q, j) => q.data[i].id < q.data[j].id
Distinct(q)   == \A i, j \in Occupied(q) : q.data[i].id = q.data[j].id => i = j

\* two rings with the same ids; the items with this id may differ otherwise
Alike(q, r, id) == /\ r.read = q.read /\ r.write = q.write
                   /\ \A i \in 0..N-1 : /\ r.data[i].id = q.data[i].id
                                        /\ \/ r.data[i] = q.data[i]
                                           \/ q.data[i].id = id

Second   == {nrt2[i] : i \in DOMAIN nrt2}
Returned == Contents(rt)

\* an id occurs in one place only
Apart(S, T) == \A y \in S, z \in T : y.id # z.id

QueueInv ==
  /\ QueueTypeOK
  /\ \A y \in Queued \cup Returned : y.id \in 0..counter-1
  /\ item.id < counter
  /\ item.id = -1 <=> worker \notin {"work", "busy", "send"}
  /\ worker = "ring" => source = "ring"
  /\ worker = "queue2" => source = "queue2"
  /\ Increasing(nrt) /\ Distinct(rt)
  /\ \A i, j \in DOMAIN nrt2 : i < j => nrt2[i].id < nrt2[j].id
  /\ Apart(Contents(nrt), Second)
  /\ Apart(Queued, Returned)
  /\ Apart({item}, Queued \cup Returned)

--------------------------------------------------------------------------------
(* The object *)

\* an item and its command fit together; only a reset is ever silenced, and only
\* by the object's end
Fits(y) == LET c == command[y.id] IN
           /\ c.op # "none"
           /\ c.op = "open" => y.cb
           /\ c.op = "close" => y.work /\ ~y.cb
           /\ c.op = "reset" => c.plugin = NoPlugin /\ (y.cb \/ x.freed)

\* an open holds a plugin only when its work is done, a close only before
Unopened(y) == command[y.id].op = "open" => command[y.id].plugin = NoPlugin
Closed(y)   == command[y.id].op = "close" => command[y.id].plugin = NoPlugin

CommandInv ==
  /\ \A y \in Queued : Fits(y) /\ Unopened(y)
  /\ \A y \in Returned : Fits(y) /\ Closed(y)
  /\ item.id # -1 => Fits(item)
  /\ worker = "work" => Unopened(item)
  /\ worker = "send" => Closed(item)
  /\ worker = "busy" => command[item.id].op = "reset"

\* the commands in flight that suspend the object
Resets == {i \in InFlight : command[i].op = "reset"}

\* who holds x_mutex, and what the Pd thread relies on meanwhile
ThreadInv ==
  /\ mutex = "worker" <=> worker = "busy"
  /\ mutex = "pd" <=> pd = "perform" /\ x.command >= 0
  /\ pd = "perform" => x.plugin # NoPlugin /\ ~x.freed
  /\ pd = "open" => x.plugin = NoPlugin /\ x.command < 0 /\ ~x.freed
  /\ x.command >= 0 /\ ~x.freed => x.plugin # NoPlugin

\* a plugin that is open has one owner, any other has none
Open(p) == made[p] # "no" /\ ended[p] = "no"
OwnerInv ==
  /\ \A i \in InFlight : command[i].plugin # NoPlugin =>
       Open(command[i].plugin) /\ x.plugin # command[i].plugin
  /\ \A i, j \in InFlight :
       command[i].plugin # NoPlugin /\ command[i].plugin = command[j].plugin =>
         i = j
  /\ x.plugin # NoPlugin => Open(x.plugin)
  /\ \A p \in Plugins : Open(p) =>
       x.plugin = p \/ \E i \in InFlight : command[i].plugin = p
  /\ \A p \in Plugins : made[p] = "no" => ended[p] = "no"

\* a command that has a target was sent with no open under way, and none is sent
\* while it runs
FindInv == /\ CommandFindsPlugin
           /\ x.command >= 0 /\ target # NoPlugin /\ ~x.freed => Opening = {}

IInv == /\ TypeOK /\ QueueInv
        /\ OneCommand /\ FindInv
        /\ CommandInv /\ ThreadInv
        /\ crashed \/ OwnerInv

--------------------------------------------------------------------------------
(* The rings *)

\* One more element at the end, as long as the ring does not look empty then.
LEMMA RingGrows ==
  ASSUME NEW r \in 0..N-1, NEW w \in 0..N-1, NEW j \in 0..N-1, (w + 1) % N # r
  PROVE  /\ (w + 1) % N \in 0..N-1
         /\ (j - r - 1) % N < (((w + 1) % N) - r) % N
              <=> ((j - r - 1) % N < (w - r) % N \/ j = (w + 1) % N)
         /\ (j - r - 1) % N < (w - r) % N
              => (j - r - 1) % N < (((w + 1) % N) - r - 1) % N
         /\ ~((((w + 1) % N) - r - 1) % N < (w - r) % N)
  BY QueueAssumption

\* One element less at the front.
LEMMA RingShrinks ==
  ASSUME NEW r \in 0..N-1, NEW w \in 0..N-1, NEW e \in 0..N-1, NEW j \in 0..N-1,
         r # w, e = (r + 1) % N
  PROVE  /\ e # r
         /\ (j - r - 1) % N < (w - r) % N
              <=> ((j - e - 1) % N < (w - e) % N \/ j = e)
         /\ (j - e - 1) % N < (w - e) % N
              => /\ j # e
                 /\ (e - r - 1) % N < (j - r - 1) % N
                 /\ (j - r - 1) % N = ((j - e - 1) % N) + 1
  BY QueueAssumption

\* An item that is put in is the last one of the ring.
LEMMA PutIn ==
  ASSUME NEW q \in Ring, NEW y \in Items, ~Full(q)
  PROVE  /\ With(q, y) \in Ring
         /\ With(q, y).read = q.read
         /\ Contents(With(q, y)) = Contents(q) \cup {y}
         /\ Increasing(q) /\ (\A z \in Contents(q) : z.id < y.id)
              => Increasing(With(q, y))
         /\ Distinct(q) /\ (\A z \in Contents(q) : z.id # y.id)
              => Distinct(With(q, y))
  <1> DEFINE r == With(q, y)
             e == After(q.write)
  <1>1. /\ q.read \in 0..N-1 /\ q.write \in 0..N-1 /\ e \in 0..N-1 /\ e # q.read
        /\ e = (q.write + 1) % N
    BY QueueAssumption DEF Ring, Full, After
  <1>2. /\ r \in Ring /\ r.read = q.read /\ r.write = e
        /\ r.data[e] = y
        /\ \A j \in 0..N-1 : j # e => r.data[j] = q.data[j]
    BY <1>1 DEF Ring, With
  <1> HIDE DEF r
  <1>3. /\ e \in Occupied(r) /\ e \notin Occupied(q)
        /\ \A j \in 0..N-1 : j \in Occupied(r) <=> (j \in Occupied(q) \/ j = e)
        /\ \A j \in Occupied(q) : Turn(q, j) < Turn(q, e)
    BY <1>1, <1>2, RingGrows DEF Occupied, Turn
  <1>4. /\ \A j \in 0..N-1 : Turn(r, j) = Turn(q, j) /\ Turn(q, j) \in Int
        /\ \A j \in Occupied(r) : j \in 0..N-1
        /\ \A j \in Occupied(q) : j \in 0..N-1
    BY <1>1, <1>2, QueueAssumption DEF Turn, Occupied
  <1> HIDE DEF e
  <1>5. /\ Contents(r) = {r.data[i] : i \in Occupied(r)}
        /\ Contents(q) = {q.data[i] : i \in Occupied(q)}
    BY DEF Contents, Occupied
  <1>6. Contents(r) = Contents(q) \cup {y}
    <2>1. \A j \in Occupied(q) : j \in Occupied(r) /\ r.data[j] = q.data[j]
      BY <1>2, <1>3, <1>4
    <2>2. \A j \in Occupied(r) : j = e \/ j \in Occupied(q)
      BY <1>3, <1>4
    <2> QED
      BY <1>2, <1>3, <1>5, <2>1, <2>2
  <1>7. ASSUME Increasing(q), \A z \in Contents(q) : z.id < y.id
        PROVE  Increasing(r)
    <2> SUFFICES ASSUME NEW i \in Occupied(r), NEW j \in Occupied(r),
                        Turn(r, i) < Turn(r, j)
                 PROVE  r.data[i].id < r.data[j].id
      BY DEF Increasing
    <2>1. i \in Occupied(q)
      BY <1>3, <1>4
    <2>2. CASE j = e
      BY <1>2, <1>3, <1>4, <1>5, <1>7, <2>1, <2>2
    <2>3. CASE j # e
      BY <1>2, <1>3, <1>4, <1>7, <2>1, <2>3 DEF Increasing
    <2> QED
      BY <2>2, <2>3
  <1>8. ASSUME Distinct(q), \A z \in Contents(q) : z.id # y.id
        PROVE  Distinct(r)
    <2> SUFFICES ASSUME NEW i \in Occupied(r), NEW j \in Occupied(r),
                        r.data[i].id = r.data[j].id
                 PROVE  i = j
      BY DEF Distinct
    <2>1. \A k \in Occupied(r) : k # e =>
            k \in Occupied(q) /\ r.data[k] = q.data[k] /\ q.data[k] \in Contents(q)
      BY <1>2, <1>3, <1>4, <1>5
    <2> QED
      BY <1>2, <1>8, <2>1 DEF Distinct
  <1> QED
    BY <1>2, <1>6, <1>7, <1>8 DEF r

\* The item that is taken out was the first one of the ring.
LEMMA TakeOut ==
  ASSUME NEW q \in Ring, ~Empty(q)
  PROVE  /\ Without(q) \in Ring
         /\ Without(q).read # q.read
         /\ First(q) \in Items
         /\ Contents(q) = Contents(Without(q)) \cup {First(q)}
         /\ Increasing(q) => /\ Increasing(Without(q))
                             /\ \A z \in Contents(Without(q)) : First(q).id < z.id
         /\ Distinct(q) => /\ Distinct(Without(q))
                           /\ \A z \in Contents(Without(q)) : First(q).id # z.id
  <1> DEFINE r == Without(q)
             e == After(q.read)
  <1>1. /\ q.read \in 0..N-1 /\ q.write \in 0..N-1 /\ e \in 0..N-1
        /\ q.read # q.write
        /\ e = (q.read + 1) % N
    BY QueueAssumption DEF Ring, Empty, After
  <1>2. /\ r \in Ring /\ r.read = e /\ r.write = q.write /\ r.data = q.data
        /\ First(q) = q.data[e] /\ q.data[e] \in Items
    BY <1>1 DEF Ring, Without, First
  <1> HIDE DEF r
  <1>3. /\ e # q.read
        /\ \A j \in 0..N-1 :
             /\ Turn(q, j) < (q.write - q.read) % N
                  <=> (Turn(r, j) < (r.write - r.read) % N \/ j = e)
             /\ Turn(r, j) < (r.write - r.read) % N
                  => /\ j # e
                     /\ Turn(q, e) < Turn(q, j)
                     /\ Turn(q, j) = Turn(r, j) + 1
    <2> HIDE DEF e
    <2>1. ASSUME NEW j \in 0..N-1
          PROVE  /\ e # q.read
                 /\ (j - q.read - 1) % N < (q.write - q.read) % N
                      <=> ((j - e - 1) % N < (q.write - e) % N \/ j = e)
                 /\ (j - e - 1) % N < (q.write - e) % N
                      => /\ j # e
                         /\ (e - q.read - 1) % N < (j - q.read - 1) % N
                         /\ (j - q.read - 1) % N = ((j - e - 1) % N) + 1
      BY <1>1, RingShrinks
    <2>2. \A j \in 0..N-1 : Turn(q, j) = (j - q.read - 1) % N
      BY DEF Turn
    <2>3. \A j \in 0..N-1 : Turn(r, j) = (j - e - 1) % N
      BY <1>2 DEF Turn
    <2>4. Turn(q, e) = (e - q.read - 1) % N
      BY DEF Turn
    <2> QED
      BY <1>1, <1>2, <2>1, <2>2, <2>3, <2>4
  <1> HIDE DEF e
  <1>4. /\ Occupied(q) = {j \in 0..N-1 : Turn(q, j) < (q.write - q.read) % N}
        /\ Occupied(r) = {j \in 0..N-1 : Turn(r, j) < (r.write - r.read) % N}
    BY DEF Occupied, Turn
  <1>5. /\ e \in Occupied(q) /\ e \notin Occupied(r) /\ e # q.read
        /\ \A j \in 0..N-1 : j \in Occupied(q) <=> (j \in Occupied(r) \/ j = e)
        /\ \A j \in Occupied(r) : /\ Turn(q, e) < Turn(q, j)
                                  /\ Turn(q, j) = Turn(r, j) + 1
    BY <1>1, <1>3, <1>4
  <1>6. /\ \A j \in 0..N-1 : Turn(r, j) \in Int
        /\ \A j \in Occupied(r) : j \in 0..N-1
        /\ \A j \in Occupied(q) : j \in 0..N-1
    BY <1>1, <1>2, QueueAssumption DEF Turn, Occupied
  <1>7. /\ Contents(r) = {q.data[i] : i \in Occupied(r)}
        /\ Contents(q) = {q.data[i] : i \in Occupied(q)}
    BY <1>2 DEF Contents, Occupied
  <1>8. \A j \in Occupied(r) : j \in Occupied(q) /\ j # e
    BY <1>5, <1>6
  <1>9. Contents(q) = Contents(r) \cup {First(q)}
    BY <1>2, <1>5, <1>6, <1>7, <1>8
  <1>10. ASSUME Increasing(q)
        PROVE  Increasing(r) /\ \A z \in Contents(r) : First(q).id < z.id
    <2>1. Increasing(r)
      BY <1>2, <1>5, <1>6, <1>8, <1>10 DEF Increasing
    <2>2. \A z \in Contents(r) : First(q).id < z.id
      BY <1>2, <1>5, <1>7, <1>8, <1>10 DEF Increasing
    <2> QED
      BY <2>1, <2>2
  <1>11. ASSUME Distinct(q)
        PROVE  Distinct(r) /\ \A z \in Contents(r) : First(q).id # z.id
    BY <1>2, <1>5, <1>7, <1>8, <1>11 DEF Distinct
  <1> QED
    BY <1>2, <1>5, <1>9, <1>10, <1>11 DEF r

\* Where the ids and the indices stay, the order stays.
LEMMA SameIds ==
  ASSUME NEW q \in Ring, NEW r \in Ring, NEW id, Alike(q, r, id)
  PROVE  /\ Increasing(q) => Increasing(r)
         /\ Distinct(q) => Distinct(r)
         /\ \A y \in Contents(r) :
              \E z \in Contents(q) : y.id = z.id /\ (y = z \/ y.id = id)
         /\ \A z \in Contents(q) : \E y \in Contents(r) : y.id = z.id
  <1>1. /\ Occupied(r) = Occupied(q)
        /\ \A j \in 0..N-1 : Turn(r, j) = Turn(q, j)
        /\ \A j \in Occupied(q) : j \in 0..N-1
    BY DEF Occupied, Turn, Alike
  <1>2. /\ Contents(r) = {r.data[i] : i \in Occupied(q)}
        /\ Contents(q) = {q.data[i] : i \in Occupied(q)}
    BY <1>1 DEF Contents, Occupied
  <1>3. Increasing(q) => Increasing(r)
    BY <1>1 DEF Increasing, Alike
  <1>4. Distinct(q) => Distinct(r)
    BY <1>1 DEF Distinct, Alike
  <1> QED
    BY <1>1, <1>2, <1>3, <1>4 DEF Alike

--------------------------------------------------------------------------------
(* The queue *)

\* What is in flight, place by place.
LEMMA Places ==
  /\ \A i : i \in InFlight <=>
              /\ i # -1
              /\ \/ \E y \in Queued : y.id = i
                 \/ \E y \in Returned : y.id = i
                 \/ item.id = i
  /\ \A i : i \in InFlight' <=>
              /\ i # -1
              /\ \/ \E y \in Queued' : y.id = i
                 \/ \E y \in Returned' : y.id = i
                 \/ item'.id = i
  BY DEF InFlight, Returned

\* The items in the queues are well-formed.
LEMMA QueueItems ==
  ASSUME QueueTypeOK
  PROVE  /\ Contents(nrt) \in SUBSET Items /\ Contents(rt) \in SUBSET Items
         /\ Second \in SUBSET Items
         /\ Queued = Contents(nrt) \cup Second
         /\ Queued' = Contents(nrt)' \cup Second'
         /\ item \in Items
  <1>1. /\ nrt.data \in [0..N-1 -> Items] /\ rt.data \in [0..N-1 -> Items]
        /\ nrt2 \in Seq(Items)
    BY DEF QueueTypeOK, Ring
  <1>2. Contents(nrt) \in SUBSET Items /\ Contents(rt) \in SUBSET Items
    BY <1>1 DEF Contents
  <1>3. Second \in SUBSET Items
    BY <1>1 DEF Second
  <1> QED
    BY <1>2, <1>3 DEF QueueTypeOK, Second, Queued

\* Where no item is touched, none moves.
LEMMA NothingMoves ==
  ASSUME UNCHANGED <<nrt, nrt2, rt, item>>
  PROVE  /\ Queued' = Queued /\ Returned' = Returned /\ InFlight' = InFlight
         /\ Contents(nrt)' = Contents(nrt) /\ Second' = Second
  BY DEF Queued, Returned, InFlight, Contents, Second

\* Nothing is queued at first.
LEMMA QueueInitially ==
  ASSUME QueueInit
  PROVE  QueueInv /\ Queued = {} /\ Returned = {} /\ InFlight = {}
  <1>1. nrt \in Ring /\ rt \in Ring /\ QueueTypeOK
    BY QueueAssumption DEF QueueInit, QueueTypeOK, Ring, NoItem, Items
  <1>2. /\ Occupied(nrt) = {} /\ Occupied(rt) = {}
        /\ Contents(nrt) = {} /\ Contents(rt) = {}
    BY QueueAssumption DEF QueueInit, Occupied, Contents
  <1>3. Second = {} /\ DOMAIN nrt2 = {}
    BY DEF QueueInit, Second
  <1>4. Queued = {} /\ Returned = {} /\ item.id = -1
    BY <1>2, <1>3 DEF Queued, Returned, Second, QueueInit, NoItem
  <1>5. InFlight = {}
    BY <1>4, Places
  <1>6. /\ item.id < counter /\ item.id = -1
        /\ worker = "ring" /\ source = "ring"
    BY DEF QueueInit, NoItem
  <1> QED
    BY <1>1, <1>2, <1>3, <1>4, <1>5, <1>6
    DEF QueueInv, Increasing, Distinct, Apart

\* A push adds the next id, behind all others.
LEMMA PushEffect ==
  ASSUME QueueInv, NEW cb \in BOOLEAN, Push(cb)
  PROVE  /\ QueueInv'
         /\ counter \in Ids /\ counter \notin InFlight
         /\ Queued' = Queued \cup {[id |-> counter, work |-> TRUE, cb |-> cb]}
         /\ Returned' = Returned /\ item' = item
         /\ InFlight' = InFlight \cup {counter}
  <1> DEFINE y == [id |-> counter, work |-> TRUE, cb |-> cb]
  <1>1. /\ counter \in Ids /\ counter' = counter + 1 /\ counter \in Nat
        /\ y \in Items /\ y.id = counter
        /\ UNCHANGED <<rt, item, source>>
    BY QueueAssumption DEF Push, QueueInv, QueueTypeOK, Ids, Items
  <1> HIDE DEF y
  <1>2. \/ /\ ~Full(nrt) /\ nrt' = With(nrt, y) /\ nrt2' = nrt2
        \/ /\ nrt2' = Append(nrt2, y) /\ nrt' = nrt
    BY DEF Push, y
  <1>3. /\ \A z \in Contents(nrt) : z.id < y.id /\ z.id # y.id
        /\ \A z \in Second : z.id < y.id /\ z.id # y.id
        /\ \A z \in Queued : z.id < y.id /\ z.id # y.id
        /\ \A z \in Returned : z.id < y.id /\ z.id # y.id
        /\ item.id < y.id /\ item.id # y.id /\ item.id \in Int
    <2>1. \A z \in Queued \cup Returned : z.id < y.id /\ z.id # y.id
      BY <1>1 DEF QueueInv
    <2>2. item.id \in Int /\ item.id < counter
      BY DEF QueueInv, QueueTypeOK, Items, Ids
    <2> QED
      BY <1>1, <2>1, <2>2 DEF Queued, Second
  <1>4. /\ Returned' = Returned /\ rt' = rt
        /\ Distinct(rt)'
    BY <1>1 DEF Returned, Contents, QueueInv, Distinct, Occupied
  <1>5. /\ nrt' \in Ring /\ nrt2' \in Seq(Items)
        /\ Queued' = Queued \cup {y}
        /\ Increasing(nrt)'
        /\ \A i, j \in DOMAIN nrt2' : i < j => nrt2'[i].id < nrt2'[j].id
        /\ Apart(Contents(nrt)', Second')
    <2>1. CASE ~Full(nrt) /\ nrt' = With(nrt, y) /\ nrt2' = nrt2
      <3>1. /\ nrt' \in Ring /\ Contents(nrt)' = Contents(nrt) \cup {y}
            /\ Increasing(nrt)'
        BY <1>1, <1>3, <2>1, PutIn DEF QueueInv, QueueTypeOK
      <3>2. Second' = Second
        BY <2>1 DEF Second
      <3>3. Apart(Contents(nrt)', Second')
        BY <1>3, <3>1, <3>2 DEF Apart, QueueInv
      <3> QED
        BY <2>1, <3>1, <3>2, <3>3 DEF Queued, Second, QueueInv, QueueTypeOK
    <2>2. CASE nrt2' = Append(nrt2, y) /\ nrt' = nrt
      <3>1. nrt2 \in Seq(Items) /\ Len(nrt2) \in Nat /\ DOMAIN nrt2 = 1..Len(nrt2)
        BY DEF QueueInv, QueueTypeOK
      <3>2. /\ nrt2' \in Seq(Items)
            /\ DOMAIN nrt2' = 1..(Len(nrt2) + 1)
            /\ nrt2'[Len(nrt2) + 1] = y
            /\ \A i \in 1..Len(nrt2) : nrt2'[i] = nrt2[i]
        BY <1>1, <2>2, <3>1
      <3>3. Second' = Second \cup {y}
        BY <3>1, <3>2 DEF Second
      <3>4. Contents(nrt)' = Contents(nrt) /\ Increasing(nrt)' /\ nrt' \in Ring
        BY <2>2 DEF Contents, QueueInv, QueueTypeOK, Increasing, Occupied, Turn
      <3>5. Apart(Contents(nrt)', Second')
        BY <1>3, <3>3, <3>4 DEF Apart, QueueInv
      <3>6. \A i \in 1..Len(nrt2) : nrt2[i] \in Second
        BY <3>1 DEF Second
      <3>7. ASSUME NEW i \in DOMAIN nrt2', NEW j \in DOMAIN nrt2', i < j
            PROVE  nrt2'[i].id < nrt2'[j].id
        <4>1. CASE j = Len(nrt2) + 1
          BY <1>3, <3>1, <3>2, <3>6, <3>7, <4>1
        <4>2. CASE j # Len(nrt2) + 1
          BY <3>1, <3>2, <3>7, <4>2 DEF QueueInv
        <4> QED
          BY <4>1, <4>2
      <3> QED
        BY <3>2, <3>3, <3>4, <3>5, <3>7 DEF Queued, Second
    <2> QED
      BY <1>2, <2>1, <2>2
  <1>6. /\ Apart(Queued, Returned)' /\ Apart({item}, Queued \cup Returned)'
        /\ \A z \in (Queued \cup Returned)' : z.id \in 0..counter'-1
        /\ (item.id < counter)'
    <2>1. Apart(Queued, Returned)'
      BY <1>3, <1>4, <1>5 DEF Apart, QueueInv
    <2>2. Apart({item}, Queued \cup Returned)'
      BY <1>1, <1>3, <1>4, <1>5 DEF Apart, QueueInv
    <2>3. \A z \in (Queued \cup Returned)' : z.id \in 0..counter'-1
      BY <1>1, <1>4, <1>5 DEF QueueInv
    <2>4. (item.id < counter)'
      BY <1>1, <1>3
    <2> QED
      BY <2>1, <2>2, <2>3, <2>4
  <1>7. /\ worker' \in {worker, "woken"}
        /\ worker' # worker => worker = "waiting"
        /\ counter' \in 0..MaxId
    BY QueueAssumption DEF Push, QueueInv, QueueTypeOK
  <1>8. QueueInv'
    <2>1. QueueTypeOK'
      BY <1>1, <1>5, <1>7 DEF QueueTypeOK, QueueInv
    <2> QED
      BY <2>1, <1>1, <1>4, <1>5, <1>6, <1>7 DEF QueueInv
  <1>9. counter \notin InFlight /\ InFlight' = InFlight \cup {counter}
    <2>1. counter \notin InFlight
      BY <1>1, <1>3, Places
    <2>2. ASSUME NEW i
          PROVE  i \in InFlight' <=> (i \in InFlight \/ i = counter)
      <3>1. counter # -1
        BY <1>1
      <3> QED
        BY <1>1, <1>4, <1>5, <3>1, Places
    <2> QED
      BY <2>1, <2>2
  <1> QED
    BY <1>1, <1>4, <1>5, <1>8, <1>9 DEF y

\* A poll takes one item out, and no other item has its id.
LEMMA PollEffect ==
  ASSUME QueueInv, Poll
  PROVE  /\ QueueInv'
         /\ Polled \in Returned /\ Polled.id \in Ids
         /\ Queued' = Queued /\ item' = item
         /\ Returned' \in SUBSET Returned
         /\ \A y \in Queued \cup Returned' \cup {item} : y.id # Polled.id
         /\ Polled.id \in InFlight /\ InFlight' = InFlight \ {Polled.id}
         /\ rt'.read # rt.read
  <1>1. /\ ~Empty(rt) /\ rt' = Without(rt) /\ rt \in Ring
        /\ UNCHANGED <<nrt, nrt2, counter, worker, item, source>>
    BY DEF Poll, QueueInv, QueueTypeOK
  <1>2. /\ rt' \in Ring /\ rt'.read # rt.read
        /\ Returned = Returned' \cup {Polled}
        /\ Distinct(rt)'
        /\ \A z \in Returned' : Polled.id # z.id
    BY <1>1, TakeOut DEF Returned, Polled, QueueInv
  <1>3. /\ Queued' = Queued /\ Contents(nrt)' = Contents(nrt) /\ Second' = Second
        /\ Increasing(nrt)'
    BY <1>1 DEF Queued, Contents, Second, QueueInv, Increasing, Occupied, Turn
  <1>4. \A y \in Queued \cup Returned' \cup {item} : y.id # Polled.id
    BY <1>2 DEF QueueInv, Apart
  <1>5. Polled.id \in Ids /\ Polled.id # -1
    <2>1. Polled.id \in 0..counter-1 /\ counter \in 0..MaxId
      BY <1>2 DEF QueueInv, QueueTypeOK
    <2> QED
      BY <2>1, QueueAssumption DEF Ids
  <1>6. QueueInv'
    <2>1. QueueTypeOK'
      BY <1>1, <1>2 DEF QueueInv, QueueTypeOK
    <2>2. Apart(Queued, Returned)' /\ Apart({item}, Queued \cup Returned)'
      BY <1>1, <1>2, <1>3 DEF QueueInv, Apart
    <2>3. \A y \in (Queued \cup Returned)' : y.id \in 0..counter'-1
      BY <1>1, <1>2, <1>3 DEF QueueInv
    <2> QED
      BY <1>1, <1>2, <1>3, <2>1, <2>2, <2>3 DEF QueueInv
  <1>7. Polled.id \in InFlight
    BY <1>2, <1>5, Places
  <1>8. ASSUME NEW i
        PROVE  i \in InFlight' <=> (i \in InFlight /\ i # Polled.id)
    BY <1>1, <1>2, <1>3, <1>4, Places
  <1> QED
    BY <1>1, <1>2, <1>3, <1>4, <1>5, <1>6, <1>7, <1>8

\* The worker takes an item out of one of its queues, or goes on to the next
\* thing.
LEMMA TakeEffect ==
  ASSUME QueueInv, TakeRing \/ TakeQueue2
  PROVE  /\ QueueInv'
         /\ Returned' = Returned /\ InFlight' = InFlight
         /\ \/ /\ Queued' = Queued /\ item' = item
               /\ worker' \in {"queue2", "sleep"}
            \/ /\ item' \in Queued /\ Queued' \in SUBSET Queued
               /\ item'.id # -1
               /\ \A y \in Queued' : y.id # item'.id
               /\ \A y \in Queued' : y.id < item'.id =>
                    y \in IF source = "ring" THEN Second ELSE Contents(nrt)
               /\ worker' \in {"work", "send"}
               /\ worker' = "send" => ~item'.work
         /\ worker \in {"ring", "queue2"}
  <1>1. UNCHANGED <<rt, counter>> /\ worker \in {"ring", "queue2"}
    BY DEF TakeRing, TakeQueue2
  <1>2. /\ Returned' = Returned /\ Distinct(rt)' /\ item.id = -1
    BY <1>1 DEF Returned, Contents, QueueInv, Distinct, Occupied
  <1>3. CASE UNCHANGED <<nrt, nrt2, item>> /\ worker' \in {"queue2", "sleep"}
             /\ source' = "queue2"
    <2>1. /\ Queued' = Queued /\ Contents(nrt)' = Contents(nrt)
          /\ Second' = Second /\ InFlight' = InFlight
      BY <1>1, <1>3, NothingMoves
    <2>2. Increasing(nrt)' /\ QueueTypeOK'
      BY <1>1, <1>3 DEF QueueInv, QueueTypeOK, Increasing, Occupied, Turn
    <2>3. Apart(Queued, Returned)' /\ Apart({item}, Queued \cup Returned)'
      BY <1>2, <1>3, <2>1 DEF QueueInv
    <2> QED
      BY <1>1, <1>2, <1>3, <2>1, <2>2, <2>3 DEF QueueInv
  <1>4. CASE /\ item' \in Queued /\ Queued = Queued' \cup {item'}
             /\ nrt' \in Ring /\ nrt2' \in Seq(Items)
             /\ Contents(nrt)' \in SUBSET Contents(nrt)
             /\ Second' \in SUBSET Second
             /\ Increasing(nrt)'
             /\ \A i, j \in DOMAIN nrt2' : i < j => nrt2'[i].id < nrt2'[j].id
             /\ \A y \in Queued' : y.id # item'.id
             /\ \A y \in Queued' : y.id < item'.id =>
                  y \in IF source = "ring" THEN Second ELSE Contents(nrt)
             /\ worker' = IF item'.work THEN "work" ELSE "send"
             /\ source' = source
    <2>1. /\ item'.id \in 0..counter-1 /\ item' \in Items /\ counter \in Nat
          /\ item'.id # -1
      BY <1>4, QueueItems, QueueAssumption DEF QueueInv, QueueTypeOK
    <2>2. QueueTypeOK'
      BY <1>1, <1>4, <2>1 DEF QueueInv, QueueTypeOK
    <2>3. Apart(Queued, Returned)' /\ Apart({item}, Queued \cup Returned)'
          /\ Apart(Contents(nrt)', Second')
      BY <1>2, <1>4 DEF QueueInv, Apart
    <2>4. QueueInv'
      BY <1>1, <1>2, <1>4, <2>1, <2>2, <2>3 DEF QueueInv
    <2>5. ASSUME NEW i
          PROVE  i \in InFlight' <=> i \in InFlight
      BY <1>2, <1>4, <2>1, Places
    <2> QED
      BY <1>1, <1>2, <1>4, <2>1, <2>4, <2>5
  <1>5. CASE TakeRing
    <2>1. CASE Empty(nrt)
      BY <1>3, <1>5, <2>1 DEF TakeRing
    <2>2. CASE ~Empty(nrt)
      <3>1. /\ nrt' = Without(nrt) /\ nrt2' = nrt2 /\ source' = source
            /\ item' = First(nrt) /\ nrt \in Ring
            /\ worker' = IF item'.work THEN "work" ELSE "send"
        BY <1>5, <2>2 DEF TakeRing, Start, QueueInv, QueueTypeOK
      <3>2. /\ nrt' \in Ring
            /\ Contents(nrt) = Contents(nrt)' \cup {item'}
            /\ Increasing(nrt)'
            /\ \A y \in Contents(nrt)' : item'.id < y.id
            /\ item' \in Items
        BY <2>2, <3>1, TakeOut DEF QueueInv
      <3>3. Second' = Second /\ nrt2' \in Seq(Items)
        BY <3>1 DEF Second, QueueInv, QueueTypeOK
      <3>4. item' \in Queued /\ Queued = Queued' \cup {item'}
        BY <3>2, <3>3, QueueItems DEF QueueInv
      <3>5. \A y \in Queued' : y.id # item'.id
        <4>1. \A y \in Contents(nrt)' : y.id # item'.id
          BY <3>2, QueueItems DEF QueueInv, Items, Ids
        <4>2. \A y \in Second' : y.id # item'.id
          BY <3>2, <3>3 DEF QueueInv, Apart
        <4> QED
          BY <4>1, <4>2, QueueItems DEF QueueInv
      <3>6. \A i, j \in DOMAIN nrt2' : i < j => nrt2'[i].id < nrt2'[j].id
        BY <3>1 DEF QueueInv
      <3>7. source = "ring" /\ \A y \in Queued' : y.id < item'.id => y \in Second
        <4>1. source = "ring"
          BY <1>5 DEF TakeRing, QueueInv
        <4>2. \A y \in Contents(nrt)' : ~(y.id < item'.id)
          BY <3>2, QueueItems DEF QueueInv, Items, Ids
        <4> QED
          BY <3>3, <4>1, <4>2, QueueItems DEF QueueInv
      <3> QED
        BY <1>4, <3>1, <3>2, <3>3, <3>4, <3>5, <3>6, <3>7
    <2> QED
      BY <2>1, <2>2
  <1>6. CASE TakeQueue2
    <2>1. CASE nrt2 = <<>>
      <3>1. UNCHANGED <<nrt, nrt2, item, source>> /\ worker' = "sleep"
        BY <1>6, <2>1 DEF TakeQueue2
      <3> QED
        BY <1>3, <1>6, <3>1 DEF TakeQueue2, QueueInv
    <2>2. CASE nrt2 # <<>>
      <3>1. /\ nrt2' = Tail(nrt2) /\ nrt' = nrt /\ source' = source
            /\ item' = Head(nrt2) /\ nrt2 \in Seq(Items)
            /\ worker' = IF item'.work THEN "work" ELSE "send"
        BY <1>6, <2>2 DEF TakeQueue2, Start, QueueInv, QueueTypeOK
      <3>2. /\ nrt2' \in Seq(Items)
            /\ Len(nrt2) \in Nat /\ Len(nrt2) >= 1
            /\ DOMAIN nrt2 = 1..Len(nrt2)
            /\ DOMAIN nrt2' = 1..(Len(nrt2) - 1)
            /\ \A i \in 1..(Len(nrt2) - 1) : nrt2'[i] = nrt2[i + 1]
            /\ item' = nrt2[1]
        BY <2>2, <3>1
      <3>3. /\ Contents(nrt)' = Contents(nrt) /\ nrt' \in Ring /\ Increasing(nrt)'
        BY <3>1 DEF Contents, QueueInv, QueueTypeOK, Increasing, Occupied, Turn
      <3>4. /\ \A y \in Second' : y \in Second /\ item'.id < y.id
            /\ Second = Second' \cup {item'}
        <4>1. ASSUME NEW i \in 1..(Len(nrt2) - 1)
              PROVE  i + 1 \in DOMAIN nrt2 /\ item'.id < nrt2[i + 1].id
          <5>1. i + 1 \in DOMAIN nrt2 /\ 1 \in DOMAIN nrt2 /\ 1 < i + 1
            BY <3>2
          <5> QED
            BY <3>2, <5>1 DEF QueueInv
        <4>2. \A i \in DOMAIN nrt2 : i = 1 \/ i - 1 \in 1..(Len(nrt2) - 1)
          BY <3>2
        <4>3. \A i \in DOMAIN nrt2 : i = 1 \/ nrt2'[i - 1] = nrt2[i]
          BY <3>2, <4>2
        <4>4. \A y \in Second' : y \in Second /\ item'.id < y.id
          BY <3>2, <4>1 DEF Second
        <4>5. \A y \in Second : y = item' \/ y \in Second'
          BY <3>2, <4>2, <4>3 DEF Second
        <4>6. item' \in Second
          BY <3>2 DEF Second
        <4> QED
          BY <4>4, <4>5, <4>6
      <3>5. item' \in Queued /\ Queued = Queued' \cup {item'} /\ item' \in Items
        BY <3>3, <3>4, QueueItems DEF QueueInv
      <3>6. \A y \in Queued' : y.id # item'.id
        <4>1. \A y \in Second' : y.id # item'.id
          BY <3>4, <3>5, QueueItems DEF QueueInv, Items, Ids
        <4>2. \A y \in Contents(nrt)' : y.id # item'.id
          BY <3>3, <3>4 DEF QueueInv, Apart
        <4> QED
          BY <4>1, <4>2, QueueItems DEF QueueInv
      <3>7. ASSUME NEW i \in DOMAIN nrt2', NEW j \in DOMAIN nrt2', i < j
            PROVE  nrt2'[i].id < nrt2'[j].id
        <4>1. i + 1 \in DOMAIN nrt2 /\ j + 1 \in DOMAIN nrt2 /\ i + 1 < j + 1
          BY <3>2, <3>7
        <4>2. nrt2'[i] = nrt2[i + 1] /\ nrt2'[j] = nrt2[j + 1]
          BY <3>2
        <4> QED
          BY <4>1, <4>2 DEF QueueInv
      <3>8. /\ source = "queue2"
            /\ \A y \in Queued' : y.id < item'.id => y \in Contents(nrt)
        <4>1. source = "queue2"
          BY <1>6 DEF TakeQueue2, QueueInv
        <4>2. \A y \in Second' : ~(y.id < item'.id)
          BY <3>4, <3>5, QueueItems DEF QueueInv, Items, Ids
        <4> QED
          BY <3>3, <4>1, <4>2, QueueItems DEF QueueInv
      <3> QED
        BY <1>4, <3>1, <3>2, <3>3, <3>4, <3>5, <3>6, <3>7, <3>8
    <2> QED
      BY <2>1, <2>2
  <1> QED
    BY <1>5, <1>6

\* The worker gives its item back.
LEMMA SendEffect ==
  ASSUME QueueInv, Send
  PROVE  /\ QueueInv'
         /\ Queued' = Queued /\ Returned' = Returned \cup {item}
         /\ item.id # -1 /\ item'.id = -1
         /\ InFlight' = InFlight /\ rt'.read = rt.read
         /\ worker = "send" /\ worker' \in {"ring", "queue2"}
  <1>1. /\ worker = "send" /\ ~Full(rt) /\ rt' = With(rt, item) /\ worker' = source
        /\ item' = NoItem /\ UNCHANGED <<nrt, nrt2, counter, source>>
        /\ rt \in Ring /\ item \in Items /\ item.id # -1
        /\ source \in {"ring", "queue2"}
    BY DEF Send, QueueInv, QueueTypeOK
  <1>2. item' \in Items /\ item'.id = -1
    BY <1>1 DEF NoItem, Items
  <1>3. \A y \in Queued \cup Returned : y.id # item.id /\ y.id # -1
    BY DEF QueueInv, Apart
  <1>4. /\ rt' \in Ring /\ Returned' = Returned \cup {item} /\ Distinct(rt)'
        /\ rt'.read = rt.read
    BY <1>1, <1>3, PutIn DEF Returned, QueueInv
  <1>5. /\ Queued' = Queued /\ Contents(nrt)' = Contents(nrt) /\ Second' = Second
        /\ Increasing(nrt)'
    BY <1>1 DEF Queued, Contents, Second, QueueInv, Increasing, Occupied, Turn
  <1>6. QueueInv'
    <2>1. QueueTypeOK'
      BY <1>1, <1>2, <1>4 DEF QueueInv, QueueTypeOK
    <2>2. Apart(Queued, Returned)'
      BY <1>3, <1>4, <1>5 DEF QueueInv, Apart
    <2>3. Apart({item}, Queued \cup Returned)'
      BY <1>1, <1>2, <1>3, <1>4, <1>5 DEF Apart
    <2>4. /\ \A y \in (Queued \cup Returned)' : y.id \in 0..counter'-1
          /\ (item.id < counter)'
      <3>1. item.id \in 0..counter-1 /\ counter \in Nat
        BY <1>1, QueueAssumption DEF QueueInv, QueueTypeOK, Items, Ids
      <3> QED
        BY <1>1, <1>2, <1>4, <1>5, <3>1 DEF QueueInv
    <2> QED
      BY <1>1, <1>2, <1>4, <1>5, <2>1, <2>2, <2>3, <2>4 DEF QueueInv
  <1>7. ASSUME NEW i
        PROVE  i \in InFlight' <=> i \in InFlight
    BY <1>1, <1>2, <1>4, <1>5, Places
  <1> QED
    BY <1>1, <1>2, <1>4, <1>5, <1>6, <1>7

\* The worker works, waits or wakes up.
LEMMA StayEffect ==
  ASSUME QueueInv, UNCHANGED <<nrt, nrt2, rt, counter, item>>,
         worker' \in {"ring", "queue2", "sleep", "waiting", "woken",
                      "work", "busy", "send"},
         source' \in {"ring", "queue2"},
         worker' \in {"work", "busy", "send"} <=> worker \in {"work", "busy", "send"},
         worker' = "ring" => source' = "ring",
         worker' = "queue2" => source' = "queue2"
  PROVE  /\ QueueInv'
         /\ Queued' = Queued /\ Returned' = Returned /\ InFlight' = InFlight
  <1>1. /\ Queued' = Queued /\ Returned' = Returned /\ InFlight' = InFlight
        /\ Contents(nrt)' = Contents(nrt) /\ Second' = Second
    BY NothingMoves
  <1>2. Increasing(nrt)' /\ Distinct(rt)'
    BY DEF QueueInv, Increasing, Distinct, Occupied, Turn
  <1>3. QueueTypeOK'
    BY DEF QueueInv, QueueTypeOK
  <1>4. Apart(Queued, Returned)' /\ Apart({item}, Queued \cup Returned)'
        /\ Apart(Contents(nrt)', Second')
    BY <1>1 DEF QueueInv
  <1> QED
    BY <1>1, <1>2, <1>3, <1>4 DEF QueueInv

\* A cancel moves nothing and changes the items with this id at most.
LEMMA CancelEffect ==
  ASSUME QueueInv, NEW id \in Ids, Cancel(id)
  PROVE  /\ QueueInv'
         /\ \A y \in Queued' : \E z \in Queued : y.id = z.id /\ (y = z \/ y.id = id)
         /\ \A y \in Returned' :
              \E z \in Returned : y.id = z.id /\ (y = z \/ y.id = id)
         /\ InFlight' = InFlight /\ rt'.read = rt.read
         /\ UNCHANGED <<counter, worker, item, source>>
  <1>1. UNCHANGED <<counter, worker, item, source>>
    BY DEF Cancel
  <1>2. /\ nrt \in Ring /\ rt \in Ring /\ nrt2 \in Seq(Items)
    BY DEF QueueInv, QueueTypeOK
  <1>3. nrt' \in Ring /\ Alike(nrt, nrt', id)
    <2>1. CASE nrt' = nrt
      BY <1>2, <2>1 DEF Alike
    <2>2. ASSUME nrt' # nrt
          PROVE  nrt' = [nrt EXCEPT !.data = [i \in 0..N-1 |->
                   IF i \in {k \in Visited(nrt) : nrt.data[k].id = id}
                     THEN Silenced(nrt.data[i]) ELSE nrt.data[i]]]
      BY <2>2, <1>2 DEF Cancel, Ring
    <2>3. ASSUME NEW y \in Items
          PROVE  Silenced(y) \in Items /\ Silenced(y).id = y.id
      BY DEF Silenced, Items
    <2>4. CASE nrt' # nrt
      <3>1. /\ nrt'.read = nrt.read /\ nrt'.write = nrt.write
            /\ nrt'.data = [i \in 0..N-1 |->
                  IF i \in {k \in Visited(nrt) : nrt.data[k].id = id}
                    THEN Silenced(nrt.data[i]) ELSE nrt.data[i]]
            /\ nrt' = [read |-> nrt'.read, write |-> nrt'.write, data |-> nrt'.data]
        BY <1>2, <2>2, <2>4 DEF Ring
      <3>2. \A i \in 0..N-1 : nrt.data[i] \in Items
        BY <1>2 DEF Ring
      <3>3. \A i \in 0..N-1 : /\ nrt'.data[i] \in Items
                              /\ nrt'.data[i].id = nrt.data[i].id
                              /\ nrt'.data[i] = nrt.data[i] \/ nrt.data[i].id = id
        BY <2>3, <3>1, <3>2
      <3> QED
        BY <1>2, <3>1, <3>3 DEF Ring, Alike
    <2> QED
      BY <2>1, <2>4
  <1>4. rt' \in Ring /\ Alike(rt, rt', id)
    <2>1. CASE rt' = rt
      BY <1>2, <2>1 DEF Alike
    <2>2. ASSUME rt' # rt
          PROVE  rt' = [rt EXCEPT !.data = [i \in 0..N-1 |->
                   IF i \in {k \in Visited(rt) : rt.data[k].id = id}
                     THEN [rt.data[i] EXCEPT !.cb = FALSE] ELSE rt.data[i]]]
      BY <2>2, <1>2 DEF Cancel, Ring
    <2>3. ASSUME NEW y \in Items
          PROVE  [y EXCEPT !.cb = FALSE] \in Items /\ [y EXCEPT !.cb = FALSE].id = y.id
      BY DEF Items
    <2>4. CASE rt' # rt
      <3>1. /\ rt'.read = rt.read /\ rt'.write = rt.write
            /\ rt'.data = [i \in 0..N-1 |->
                  IF i \in {k \in Visited(rt) : rt.data[k].id = id}
                    THEN [rt.data[i] EXCEPT !.cb = FALSE] ELSE rt.data[i]]
            /\ rt' = [read |-> rt'.read, write |-> rt'.write, data |-> rt'.data]
        BY <1>2, <2>2, <2>4 DEF Ring
      <3>2. \A i \in 0..N-1 : rt.data[i] \in Items
        BY <1>2 DEF Ring
      <3>3. \A i \in 0..N-1 : /\ rt'.data[i] \in Items
                              /\ rt'.data[i].id = rt.data[i].id
                              /\ rt'.data[i] = rt.data[i] \/ rt.data[i].id = id
        BY <2>3, <3>1, <3>2
      <3> QED
        BY <1>2, <3>1, <3>3 DEF Ring, Alike
    <2> QED
      BY <2>1, <2>4
  <1>5. /\ nrt2' \in Seq(Items) /\ DOMAIN nrt2' = DOMAIN nrt2
        /\ \A i \in DOMAIN nrt2 : /\ nrt2'[i].id = nrt2[i].id
                                  /\ nrt2'[i] = nrt2[i] \/ nrt2[i].id = id
    <2>1. CASE nrt2' = nrt2
      BY <1>2, <2>1
    <2>2. ASSUME nrt2' # nrt2
          PROVE  nrt2' = [i \in DOMAIN nrt2 |->
                   IF i \in {k \in DOMAIN nrt2 : nrt2[k].id = id}
                     THEN Silenced(nrt2[i]) ELSE nrt2[i]]
      BY <2>2 DEF Cancel
    <2>3. ASSUME NEW y \in Items
          PROVE  Silenced(y) \in Items /\ Silenced(y).id = y.id
      BY DEF Silenced, Items
    <2>4. CASE nrt2' # nrt2
      BY <1>2, <2>2, <2>3, <2>4
    <2> QED
      BY <2>1, <2>4
  <1>6. /\ Increasing(nrt)'
        /\ \A y \in Contents(nrt)' :
             \E z \in Contents(nrt) : y.id = z.id /\ (y = z \/ y.id = id)
        /\ \A z \in Contents(nrt) : \E y \in Contents(nrt)' : y.id = z.id
    <2>1. Increasing(nrt)
      BY DEF QueueInv
    <2> QED
      BY <1>2, <1>3, <2>1, SameIds
  <1>7. /\ Distinct(rt)'
        /\ \A y \in Returned' :
             \E z \in Returned : y.id = z.id /\ (y = z \/ y.id = id)
        /\ \A z \in Returned : \E y \in Returned' : y.id = z.id
    <2>1. /\ Distinct(rt)'
          /\ \A y \in Contents(rt)' :
               \E z \in Contents(rt) : y.id = z.id /\ (y = z \/ y.id = id)
          /\ \A z \in Contents(rt) : \E y \in Contents(rt)' : y.id = z.id
      <3>1. Distinct(rt)
        BY DEF QueueInv
      <3> QED
        BY <1>2, <1>4, <3>1, SameIds
    <2> QED
      BY <2>1 DEF Returned
  <1>8. /\ \A y \in Second' :
             \E z \in Second : y.id = z.id /\ (y = z \/ y.id = id)
        /\ \A z \in Second : \E y \in Second' : y.id = z.id
    BY <1>5 DEF Second
  <1>9. /\ \A y \in Queued' :
             \E z \in Queued : y.id = z.id /\ (y = z \/ y.id = id)
        /\ \A z \in Queued : \E y \in Queued' : y.id = z.id
    BY <1>6, <1>8, QueueItems DEF QueueInv
  <1>10. QueueInv'
    <2>1. QueueTypeOK'
      BY <1>1, <1>3, <1>4, <1>5 DEF QueueInv, QueueTypeOK
    <2>2. /\ Apart(Queued, Returned)' /\ Apart({item}, Queued \cup Returned)'
          /\ Apart(Contents(nrt)', Second')
      BY <1>1, <1>6, <1>7, <1>8, <1>9 DEF QueueInv, Apart
    <2>3. \A y \in (Queued \cup Returned)' : y.id \in 0..counter'-1
      BY <1>1, <1>7, <1>9 DEF QueueInv
    <2>4. \A i, j \in DOMAIN nrt2' : i < j => nrt2'[i].id < nrt2'[j].id
      BY <1>5 DEF QueueInv
    <2> QED
      BY <1>1, <1>6, <1>7, <2>1, <2>2, <2>3, <2>4 DEF QueueInv
  <1>11. ASSUME NEW i
         PROVE  i \in InFlight' <=> i \in InFlight
    BY <1>1, <1>7, <1>9, Places
  <1>12. rt'.read = rt.read
    BY <1>4 DEF Alike
  <1> QED
    BY <1>1, <1>7, <1>9, <1>10, <1>11, <1>12

--------------------------------------------------------------------------------
(* The commands *)

\* An item that is in flight has an id.
LEMMA ItemIds ==
  ASSUME QueueInv
  PROVE  /\ \A y \in Queued \cup Returned : y.id \in Ids /\ y.id # -1
         /\ item.id # -1 => item.id \in Ids
         /\ \A i \in InFlight : i \in Ids
         /\ \A y \in Queued \cup Returned : y.id \in InFlight
         /\ item.id # -1 => item.id \in InFlight
         /\ worker \in {"work", "busy", "send"} => item.id # -1
  <1>1. \A y \in Queued \cup Returned : y.id \in 0..counter-1 /\ counter \in 0..MaxId
    BY DEF QueueInv, QueueTypeOK
  <1>2. item.id \in Ids \cup {-1}
    BY DEF QueueInv, QueueTypeOK, Items
  <1>3. \A y \in Queued \cup Returned : y.id \in Ids /\ y.id # -1
    BY <1>1, QueueAssumption DEF Ids
  <1> QED
    BY <1>2, <1>3, Places DEF QueueInv

\* No step of the queue and none that changes a command: the commands stay as
\* they are.
LEMMA StandEffect ==
  ASSUME QueueInv, CommandInv, UNCHANGED <<queue, command>>, x.freed => x'.freed
  PROVE  /\ QueueInv' /\ CommandInv'
         /\ Queued' = Queued /\ Returned' = Returned
         /\ InFlight' = InFlight /\ Resets' = Resets
  <1>1. UNCHANGED <<nrt, nrt2, rt, counter, worker, item, source, command>>
    BY DEF queue
  <1>2. /\ QueueInv' /\ Queued' = Queued /\ Returned' = Returned
        /\ InFlight' = InFlight
    BY <1>1, StayEffect DEF QueueInv, QueueTypeOK
  <1>3. CommandInv'
    BY <1>1, <1>2 DEF CommandInv, Fits, Unopened, Closed
  <1> QED
    BY <1>1, <1>2, <1>3 DEF Resets

\* A command that is posted with the flags of its kind fits its item.
LEMMA PostEffect ==
  ASSUME TypeOK, QueueInv, CommandInv, x.freed => x'.freed,
         NEW cb \in BOOLEAN, NEW c \in Command, Push(cb), Posted(c),
         \/ c.op = "open" /\ cb /\ c.plugin = NoPlugin
         \/ c.op = "close" /\ ~cb
         \/ c.op = "reset" /\ cb /\ c.plugin = NoPlugin
  PROVE  /\ QueueInv' /\ CommandInv'
         /\ command' \in [Ids -> Command]
         /\ counter \in Ids /\ counter \notin InFlight
         /\ InFlight' = InFlight \cup {counter}
         /\ command'[counter] = c
         /\ \A i \in InFlight : command'[i] = command[i]
         /\ worker' = "busy" <=> worker = "busy"
         /\ item' = item
  <1> PICK y : y = [id |-> counter, work |-> TRUE, cb |-> cb]
    OBVIOUS
  <1>1. /\ QueueInv' /\ counter \in Ids /\ counter \notin InFlight
        /\ Queued' = Queued \cup {y}
        /\ Returned' = Returned /\ item' = item
        /\ InFlight' = InFlight \cup {counter}
    BY PushEffect
  <1>2. /\ command' \in [Ids -> Command] /\ command'[counter] = c
        /\ \A i \in Ids : i # counter => command'[i] = command[i]
    BY <1>1 DEF Posted, TypeOK
  <1>3. /\ \A i \in InFlight : command'[i] = command[i]
        /\ \A z \in Queued \cup Returned : command'[z.id] = command[z.id]
        /\ item.id # -1 => command'[item.id] = command[item.id]
    BY <1>1, <1>2, ItemIds
  <1>4. /\ worker' \in {worker, "woken"}
        /\ worker' # worker => worker = "waiting"
    BY DEF Push
  <1>5. /\ worker' = "work" <=> worker = "work"
        /\ worker' = "send" <=> worker = "send"
        /\ worker' = "busy" <=> worker = "busy"
    BY <1>4
  <1>6. (Fits(y) /\ Unopened(y))'
    <2>1. y.id = counter /\ y.cb = cb /\ y.work
      OBVIOUS
    <2> QED
      BY <1>2, <2>1 DEF Fits, Unopened
  <1>7. ASSUME NEW z, command'[z.id] = command[z.id]
        PROVE  /\ Fits(z) => Fits(z)'
               /\ Unopened(z) => Unopened(z)'
               /\ Closed(z) => Closed(z)'
    BY <1>7 DEF Fits, Unopened, Closed
  <1>8. CommandInv'
    <2>1. /\ \A z \in Queued' : (Fits(z) /\ Unopened(z))'
          /\ \A z \in Returned' : (Fits(z) /\ Closed(z))'
      BY <1>1, <1>3, <1>6, <1>7 DEF CommandInv
    <2>2. /\ (item.id # -1 => Fits(item))'
          /\ (worker = "work" => Unopened(item))'
          /\ (worker = "send" => Closed(item))'
          /\ (worker = "busy" => command[item.id].op = "reset")'
      <3>1. worker \in {"work", "busy", "send"} => item.id # -1
        BY ItemIds
      <3> QED
        BY <1>1, <1>3, <1>5, <3>1 DEF CommandInv, Fits, Unopened, Closed
    <2> QED
      BY <2>1, <2>2 DEF CommandInv
  <1> QED
    BY <1>1, <1>2, <1>3, <1>5, <1>8

\* A poll forgets the polled command only.
LEMMA CleanEffect ==
  ASSUME TypeOK, QueueInv, CommandInv, x.freed => x'.freed, Poll, Cleaned
  PROVE  /\ QueueInv' /\ CommandInv'
         /\ command' \in [Ids -> Command]
         /\ Polled.id \in Ids /\ Polled.id \in InFlight
         /\ Fits(Polled) /\ Closed(Polled)
         /\ InFlight' = InFlight \ {Polled.id}
         /\ \A i \in InFlight' : command'[i] = command[i]
  <1>1. /\ QueueInv' /\ Polled \in Returned /\ Polled.id \in Ids
        /\ Queued' = Queued /\ item' = item /\ Returned' \in SUBSET Returned
        /\ \A y \in Queued \cup Returned' \cup {item} : y.id # Polled.id
        /\ Polled.id \in InFlight /\ InFlight' = InFlight \ {Polled.id}
    BY PollEffect
  <1>2. worker' = worker
    BY DEF Poll
  <1>3. /\ command' \in [Ids -> Command]
        /\ \A i \in Ids : i # Polled.id => command'[i] = command[i]
    BY <1>1 DEF Cleaned, TypeOK, Command, NoCommand
  <1>4. /\ \A y \in Queued \cup Returned' : command'[y.id] = command[y.id]
        /\ item.id # -1 => command'[item.id] = command[item.id]
        /\ \A i \in InFlight' : command'[i] = command[i]
    BY <1>1, <1>3, ItemIds
  <1>5. ASSUME NEW z, command'[z.id] = command[z.id]
        PROVE  /\ Fits(z) => Fits(z)'
               /\ Unopened(z) => Unopened(z)'
               /\ Closed(z) => Closed(z)'
    BY <1>5 DEF Fits, Unopened, Closed
  <1>6. CommandInv'
    <2>1. /\ \A z \in Queued' : (Fits(z) /\ Unopened(z))'
          /\ \A z \in Returned' : (Fits(z) /\ Closed(z))'
      BY <1>1, <1>4, <1>5 DEF CommandInv
    <2>2. /\ (item.id # -1 => Fits(item))'
          /\ (worker = "work" => Unopened(item))'
          /\ (worker = "send" => Closed(item))'
          /\ (worker = "busy" => command[item.id].op = "reset")'
      <3>1. worker \in {"work", "busy", "send"} => item.id # -1
        BY ItemIds
      <3> QED
        BY <1>1, <1>2, <1>4, <3>1 DEF CommandInv, Fits, Unopened, Closed
    <2> QED
      BY <2>1, <2>2 DEF CommandInv
  <1>7. Fits(Polled) /\ Closed(Polled)
    BY <1>1 DEF CommandInv
  <1> QED
    BY <1>1, <1>3, <1>4, <1>6, <1>7

\* The worker's step changes the command it performs, at most.
LEMMA WorkEffect ==
  ASSUME TypeOK, QueueInv, CommandInv,
         UNCHANGED <<nrt, nrt2, rt, counter, item, source>>, x.freed => x'.freed,
         worker \in {"work", "busy"}, worker' \in {"work", "busy", "send"},
         command' \in [Ids -> Command],
         \A i \in Ids : i # item.id => command'[i] = command[i],
         Fits(item)', (worker = "work" => Unopened(item))',
         (worker = "send" => Closed(item))',
         (worker = "busy" => command[item.id].op = "reset")'
  PROVE  /\ QueueInv' /\ CommandInv'
         /\ item.id \in InFlight /\ item.id \in Ids /\ InFlight' = InFlight
         /\ \A i \in InFlight : i # item.id => command'[i] = command[i]
  <1>1. /\ QueueInv' /\ Queued' = Queued /\ Returned' = Returned
        /\ InFlight' = InFlight
    BY StayEffect DEF QueueInv, QueueTypeOK
  <1>2. /\ \A y \in Queued \cup Returned : y.id # item.id /\ y.id \in Ids
        /\ item.id \in InFlight /\ item.id \in Ids
    BY ItemIds DEF QueueInv, Apart
  <1>3. ASSUME NEW z, command'[z.id] = command[z.id]
        PROVE  /\ Fits(z) => Fits(z)'
               /\ Unopened(z) => Unopened(z)'
               /\ Closed(z) => Closed(z)'
    BY <1>3 DEF Fits, Unopened, Closed
  <1>4. CommandInv'
    BY <1>1, <1>2, <1>3 DEF CommandInv
  <1> QED
    BY <1>1, <1>2, <1>4, ItemIds

\* What the worker takes is as it was in the queue.
LEMMA TakeCommand ==
  ASSUME QueueInv, CommandInv, TakeRing \/ TakeQueue2,
         UNCHANGED <<command, x>>
  PROVE  /\ QueueInv' /\ CommandInv' /\ InFlight' = InFlight
         /\ worker # "busy" /\ worker' # "busy"
  <1>1. /\ QueueInv' /\ Returned' = Returned /\ InFlight' = InFlight
        /\ \/ /\ Queued' = Queued /\ item' = item
              /\ worker' \in {"queue2", "sleep"}
           \/ /\ item' \in Queued /\ Queued' \in SUBSET Queued
              /\ worker' \in {"work", "send"}
              /\ worker' = "send" => ~item'.work
        /\ worker \in {"ring", "queue2"}
    BY TakeEffect
  <1>2. \A z : /\ Fits(z) => Fits(z)'
               /\ Unopened(z) => Unopened(z)'
               /\ Closed(z) => Closed(z)'
    BY DEF Fits, Unopened, Closed
  <1>3. CASE Queued' = Queued /\ item' = item /\ worker' \in {"queue2", "sleep"}
    BY <1>1, <1>2, <1>3 DEF CommandInv, Fits
  <1>4. CASE /\ item' \in Queued /\ Queued' \in SUBSET Queued
             /\ worker' \in {"work", "send"}
             /\ worker' = "send" => ~item'.work
    <2>1. Fits(item') /\ Unopened(item')
      BY <1>4 DEF CommandInv
    <2>2. Fits(item)' /\ Unopened(item)'
      BY <2>1 DEF Fits, Unopened
    <2>3. worker' = "send" => Closed(item)'
      BY <1>4, <2>1 DEF Fits, Closed
    <2> QED
      BY <1>1, <1>2, <1>4, <2>2, <2>3 DEF CommandInv
  <1> QED
    BY <1>1, <1>3, <1>4

\* What the worker gives back is done.
LEMMA SendCommand ==
  ASSUME QueueInv, CommandInv, Send, UNCHANGED <<command, x>>
  PROVE  /\ QueueInv' /\ CommandInv' /\ InFlight' = InFlight
         /\ worker # "busy" /\ worker' # "busy"
  <1>1. /\ QueueInv'
        /\ Queued' = Queued /\ Returned' = Returned \cup {item}
        /\ item.id # -1 /\ item'.id = -1
        /\ InFlight' = InFlight
        /\ worker = "send" /\ worker' \in {"ring", "queue2"}
    BY SendEffect
  <1>2. \A z : /\ Fits(z) => Fits(z)'
               /\ Unopened(z) => Unopened(z)'
               /\ Closed(z) => Closed(z)'
    BY DEF Fits, Unopened, Closed
  <1> QED
    BY <1>1, <1>2 DEF CommandInv

\* The end of the object silences at most the command that suspends it.
LEMMA CancelCommand ==
  ASSUME TypeOK, QueueInv, CommandInv, OneCommand, ~x.freed, x'.freed,
         x.command >= 0, Cancel(x.command), command' = command
  PROVE  /\ QueueInv' /\ CommandInv' /\ InFlight' = InFlight
         /\ worker' = worker
  <1>1. x.command \in Ids
    BY QueueAssumption DEF TypeOK, Ids
  <1>2. /\ QueueInv'
        /\ \A y \in Queued' :
             \E z \in Queued : y.id = z.id /\ (y = z \/ y.id = x.command)
        /\ \A y \in Returned' :
             \E z \in Returned : y.id = z.id /\ (y = z \/ y.id = x.command)
        /\ InFlight' = InFlight
        /\ UNCHANGED <<worker, item>>
    BY <1>1, CancelEffect
  <1>3. command[x.command].op = "reset"
    <2>1. x.command \in {i \in InFlight : command[i].op = "reset"}
      BY <1>1 DEF OneCommand, Ids
    <2> QED
      BY <2>1
  <1>4. ASSUME NEW y, NEW z, y.id = z.id, y = z \/ y.id = x.command, Fits(z)
        PROVE  /\ Fits(y)'
               /\ Unopened(z) => Unopened(y)'
               /\ Closed(z) => Closed(y)'
    <2>1. CASE y = z
      BY <1>4, <2>1 DEF Fits, Unopened, Closed
    <2>2. CASE y.id = x.command
      BY <1>3, <1>4, <2>2 DEF Fits, Unopened, Closed
    <2> QED
      BY <1>4, <2>1, <2>2
  <1>5. /\ \A y \in Queued' : (Fits(y) /\ Unopened(y))'
        /\ \A y \in Returned' : (Fits(y) /\ Closed(y))'
    BY <1>2, <1>4 DEF CommandInv
  <1>6. /\ (item.id # -1 => Fits(item))'
        /\ (worker = "work" => Unopened(item))'
        /\ (worker = "send" => Closed(item))'
        /\ (worker = "busy" => command[item.id].op = "reset")'
    BY <1>2, <1>4 DEF CommandInv, Unopened, Closed
  <1> QED
    BY <1>2, <1>5, <1>6 DEF CommandInv

--------------------------------------------------------------------------------
(* The object's messages *)

\* Closing hands the plugin over to a command or ends it.
LEMMA CloseEffect ==
  ASSUME IInv, ~crashed, Check, ~x.freed,
         IF x.async THEN CloseAsync ELSE CloseInline,
         x'.plugin = NoPlugin, made' = made
  PROVE  /\ QueueInv' /\ CommandInv' /\ OwnerInv'
         /\ command' \in [Ids -> Command]
         /\ ended' \in [Plugins -> {"no", "pd", "worker", "ui"}]
         /\ Resets' = Resets
         /\ worker' = "busy" <=> worker = "busy"
  <1>1. /\ TypeOK /\ QueueInv /\ CommandInv /\ OwnerInv
        /\ x.plugin \in Plugins /\ x.plugin # NoPlugin
    BY DEF IInv, TypeOK, Check
  <1>2. CASE x.async
    <2>1. Push(FALSE) /\ ended' = ended
      BY <1>2 DEF CloseAsync
    <2>2. PICK c \in Command :
            /\ Posted(c)
            /\ c.op = "close" /\ c.plugin = x.plugin
      BY <1>1, <1>2 DEF CloseAsync, TypeOK, Command
    <2>3. /\ QueueInv' /\ CommandInv'
          /\ command' \in [Ids -> Command]
          /\ counter \in Ids /\ counter \notin InFlight
          /\ InFlight' = InFlight \cup {counter}
          /\ command'[counter] = c
          /\ \A i \in InFlight : command'[i] = command[i]
          /\ worker' = "busy" <=> worker = "busy"
      BY <1>1, <2>1, <2>2, PostEffect
    <2>4. Resets' = Resets
      BY <2>2, <2>3 DEF Resets
    <2>5. OwnerInv'
      BY <1>1, <2>1, <2>2, <2>3 DEF OwnerInv, Open
    <2> QED
      BY <1>1, <2>1, <2>3, <2>4, <2>5 DEF TypeOK
  <1>3. CASE ~x.async
    <2>1. /\ ended' = Release(x.plugin, x.uithread, "pd")
          /\ UNCHANGED <<queue, command>>
      BY <1>3 DEF CloseInline
    <2>2. /\ QueueInv' /\ CommandInv' /\ InFlight' = InFlight /\ Resets' = Resets
      BY <1>1, <2>1, StandEffect
    <2>3. /\ ended' \in [Plugins -> {"no", "pd", "worker", "ui"}]
          /\ ended'[x.plugin] # "no"
          /\ \A p \in Plugins : p # x.plugin => ended'[p] = ended[p]
      BY <1>1, <2>1 DEF TypeOK, Release
    <2>4. OwnerInv'
      <3>1. \A i \in InFlight : command[i].plugin \in Plugins \cup {NoPlugin}
        BY <1>1, ItemIds DEF TypeOK, Command
      <3>2. ASSUME NEW p \in Plugins
            PROVE  Open(p)' <=> (Open(p) /\ p # x.plugin)
        BY <1>1, <2>3 DEF Open
      <3>3. \A p \in Plugins : made'[p] = "no" => ended'[p] = "no"
        BY <1>1, <2>3 DEF OwnerInv, Open
      <3> QED
        BY <1>1, <2>1, <2>2, <3>1, <3>2, <3>3 DEF OwnerInv
    <2> QED
      BY <1>1, <2>1, <2>2, <2>3, <2>4 DEF TypeOK, queue
  <1> QED
    BY <1>2, <1>3

\* A command keeps what it was sent for as long as nothing opens or closes,
LEMMA FindKept ==
  ASSUME FindInv, ~crashed', target' = target, x'.command = x.command,
         x'.plugin = x.plugin, x'.freed = x.freed, Opening' \subseteq Opening
  PROVE  FindInv'
  BY DEF FindInv, CommandFindsPlugin

\* and there is nothing to find without a command, or without an object.
LEMMA FindNothing ==
  ASSUME \/ ~(x'.command >= 0) /\ ~crashed'
         \/ x'.freed
  PROVE  FindInv'
  BY DEF FindInv, CommandFindsPlugin

\* Closing: the plugin goes, to a command or for good.
LEMMA CloseStep == ASSUME IInv, Close PROVE IInv'
  <1>1. /\ ~crashed /\ ~x.freed /\ Check /\ pd = "idle"
        /\ IF x.async THEN CloseAsync ELSE CloseInline
        /\ x' = [x EXCEPT !.plugin = NoPlugin] /\ pd' \in {"idle", "open"}
        /\ UNCHANGED <<mutex, made, crashed, target>>
    BY DEF Close, PdReady
  <1>2. /\ x'.plugin = NoPlugin /\ x'.command = x.command /\ x'.freed = x.freed
        /\ x.command < 0 /\ ~(x.command >= 0)
        /\ x' \in [plugin : Plugins \cup {NoPlugin}, command : Ids \cup {-1},
                   async : BOOLEAN, uithread : BOOLEAN, freed : BOOLEAN]
    BY <1>1 DEF IInv, TypeOK, Check, Ids
  <1>3. /\ QueueInv' /\ CommandInv' /\ OwnerInv'
        /\ command' \in [Ids -> Command]
        /\ ended' \in [Plugins -> {"no", "pd", "worker", "ui"}]
        /\ Resets' = Resets
        /\ worker' = "busy" <=> worker = "busy"
    BY <1>1, <1>2, CloseEffect
  <1>4. TypeOK'
    BY <1>1, <1>2, <1>3 DEF IInv, TypeOK, QueueInv
  <1>5. OneCommand' /\ FindInv'
    BY <1>1, <1>2, <1>3, FindNothing DEF IInv, OneCommand, Resets
  <1>6. ThreadInv'
    BY <1>1, <1>2, <1>3 DEF IInv, ThreadInv
  <1> QED
    BY <1>3, <1>4, <1>5, <1>6 DEF IInv

\* A reset: x_command is set together with the command that is pushed.
LEMMA ResetStep == ASSUME IInv, Reset PROVE IInv'
  <1>1. /\ ~crashed /\ ~x.freed /\ Check /\ pd = "idle"
        /\ Push(TRUE)
        /\ x' = [x EXCEPT !.command = counter]
        /\ target' = IF Opening = {} THEN x.plugin ELSE NoPlugin
        /\ UNCHANGED <<mutex, pd, made, ended, crashed>>
    BY DEF Reset, PdReady
  <1>2. PICK c \in Command : /\ Posted(c)
                             /\ c.op = "reset" /\ c.plugin = NoPlugin
    <2>1. [op |-> "reset", editor |-> FALSE, plugin |-> NoPlugin] \in Command
      BY DEF Command
    <2> QED
      BY <2>1 DEF Reset
  <1>3. /\ TypeOK /\ QueueInv /\ CommandInv /\ OwnerInv /\ ThreadInv
        /\ x.command < 0 /\ x.plugin # NoPlugin
    BY <1>1 DEF IInv, Check
  <1>4. x'.freed = x.freed /\ x'.plugin = x.plugin /\ x'.command = counter
    BY <1>1, <1>3 DEF TypeOK
  <1>5. /\ QueueInv' /\ CommandInv'
        /\ command' \in [Ids -> Command]
        /\ counter \in Ids /\ counter \notin InFlight
        /\ InFlight' = InFlight \cup {counter}
        /\ command'[counter] = c
        /\ \A i \in InFlight : command'[i] = command[i]
        /\ worker' = "busy" <=> worker = "busy"
    BY <1>1, <1>2, <1>3, <1>4, PostEffect
  <1>6. TypeOK'
    BY <1>1, <1>3, <1>5 DEF TypeOK, QueueInv
  <1>7. counter >= 0 /\ ~(counter < 0)
    BY <1>5 DEF Ids
  <1>8. OneCommand'
    <2>1. Resets = {}
      BY <1>1, <1>3 DEF IInv, OneCommand, Resets
    <2>2. Resets' = {counter}
      BY <1>2, <1>5, <2>1 DEF Resets
    <2> QED
      BY <1>4, <1>7, <2>2 DEF OneCommand, Resets
  <1>9. FindInv' /\ ThreadInv'
    <2>1. Opening' = Opening
      BY <1>2, <1>5 DEF Opening
    <2>2. FindInv'
      BY <1>1, <1>3, <1>4, <2>1 DEF FindInv, CommandFindsPlugin
    <2> QED
      BY <1>1, <1>3, <1>4, <1>5, <1>7, <2>2 DEF ThreadInv
  <1>10. OwnerInv'
    BY <1>1, <1>2, <1>3, <1>4, <1>5 DEF OwnerInv, Open
  <1> QED
    BY <1>5, <1>6, <1>8, <1>9, <1>10 DEF IInv

\* The end of the object: whatever it still holds goes with it.
LEMMA FreeStep == ASSUME IInv, Free PROVE IInv'
  <1>1. /\ ~crashed /\ ~x.freed /\ pd = "idle"
        /\ x' = [x EXCEPT !.plugin = NoPlugin, !.freed = TRUE]
        /\ UNCHANGED <<mutex, pd, made, target>>
        /\ crashed' \in BOOLEAN
    BY DEF Free, PdReady
  <1>2. /\ TypeOK /\ QueueInv /\ CommandInv /\ OwnerInv /\ ThreadInv /\ OneCommand
    BY <1>1 DEF IInv
  <1>3. /\ x'.plugin = NoPlugin /\ x'.command = x.command /\ x'.freed
        /\ x' \in [plugin : Plugins \cup {NoPlugin}, command : Ids \cup {-1},
                   async : BOOLEAN, uithread : BOOLEAN, freed : BOOLEAN]
    BY <1>1, <1>2 DEF TypeOK
  <1>4. /\ QueueInv' /\ CommandInv' /\ OwnerInv'
        /\ command' \in [Ids -> Command]
        /\ ended' \in [Plugins -> {"no", "pd", "worker", "ui"}]
        /\ worker' = "busy" <=> worker = "busy"
    <2>1. CASE /\ x.command >= 0
               /\ Cancel(x.command)
               /\ ended' = IF x.plugin = NoPlugin THEN ended
                           ELSE Release(x.plugin, FALSE, "pd")
               /\ UNCHANGED command
      <3>1. /\ QueueInv' /\ CommandInv' /\ InFlight' = InFlight
            /\ worker' = worker
        BY <1>1, <1>2, <1>3, <2>1, CancelCommand
      <3>2. x.plugin \in Plugins /\ x.plugin # NoPlugin
        BY <1>1, <1>2, <2>1 DEF ThreadInv, TypeOK
      <3>3. /\ ended' \in [Plugins -> {"no", "pd", "worker", "ui"}]
            /\ ended'[x.plugin] # "no"
            /\ \A p \in Plugins : p # x.plugin => ended'[p] = ended[p]
        BY <1>2, <2>1, <3>2 DEF TypeOK, Release
      <3>4. \A i \in InFlight : command[i].plugin \in Plugins \cup {NoPlugin}
        BY <1>2, ItemIds DEF TypeOK, Command
      <3>5. ASSUME NEW p \in Plugins
            PROVE  Open(p)' <=> (Open(p) /\ p # x.plugin)
        BY <1>1, <3>3 DEF Open
      <3>6. \A p \in Plugins : made'[p] = "no" => ended'[p] = "no"
        BY <1>1, <1>2, <3>2, <3>3 DEF OwnerInv, Open
      <3>7. /\ \A i \in InFlight : command[i].plugin # NoPlugin =>
                 Open(command[i].plugin)' /\ command[i].plugin # x.plugin
            /\ \A p \in Plugins : Open(p)' =>
                 \E i \in InFlight : command[i].plugin = p
        BY <1>2, <2>1, <3>4, <3>5 DEF OwnerInv
      <3>8. OwnerInv'
        <4>1. command' = command /\ InFlight' = InFlight /\ x'.plugin = NoPlugin
          BY <1>3, <2>1, <3>1
        <4>2. \A i, j \in InFlight :
                command[i].plugin # NoPlugin
                  /\ command[i].plugin = command[j].plugin => i = j
          BY <1>2 DEF OwnerInv
        <4> QED
          BY <3>6, <3>7, <4>1, <4>2 DEF OwnerInv
      <3> QED
        BY <1>2, <2>1, <3>1, <3>3, <3>8 DEF TypeOK
    <2>2. CASE /\ x.command < 0 /\ x.plugin = NoPlugin
               /\ UNCHANGED <<queue, ended, command>>
      <3>1. /\ QueueInv' /\ CommandInv' /\ InFlight' = InFlight
        BY <1>2, <1>3, <2>2, StandEffect
      <3>2. OwnerInv'
        BY <1>1, <1>2, <1>3, <2>2, <3>1 DEF OwnerInv, Open
      <3> QED
        BY <1>2, <2>2, <3>1, <3>2 DEF TypeOK, queue
    <2>3. CASE Check /\ (IF x.async THEN CloseAsync ELSE CloseInline)
      BY <1>1, <1>3, <2>3, CloseEffect
    <2> QED
      BY <2>1, <2>2, <2>3 DEF Free
  <1>5. TypeOK'
    BY <1>1, <1>2, <1>3, <1>4 DEF TypeOK, QueueInv
  <1>6. OneCommand' /\ FindInv'
    BY <1>3, FindNothing DEF OneCommand
  <1>7. ThreadInv'
    BY <1>1, <1>2, <1>3, <1>4 DEF ThreadInv
  <1> QED
    BY <1>4, <1>5, <1>6, <1>7 DEF IInv

\* An open begins with no plugin, and nothing suspends the object.
LEMMA OpenBegins ==
  ASSUME IInv, OpenReady
  PROVE  /\ TypeOK /\ QueueInv /\ CommandInv /\ OwnerInv /\ ThreadInv /\ OneCommand
         /\ ~crashed /\ ~x.freed /\ x.plugin = NoPlugin /\ x.command < 0
         /\ pd \in {"idle", "open"} /\ pd' = "idle"
  BY DEF IInv, OpenReady, PdReady, ThreadInv

\* An open on the Pd thread: a plugin that is new goes into x_plugin.
LEMMA OpenInlineStep ==
  ASSUME IInv, NEW editor \in BOOLEAN, OpenInline(editor) PROVE IInv'
  <1>1. /\ TypeOK /\ QueueInv /\ CommandInv /\ OwnerInv /\ ThreadInv /\ OneCommand
        /\ ~crashed /\ ~x.freed /\ x.plugin = NoPlugin /\ x.command < 0
        /\ pd \in {"idle", "open"} /\ pd' = "idle"
        /\ UNCHANGED <<queue, mutex, command, ended, crashed, target>>
    BY OpenBegins DEF OpenInline
  <1>2. PICK p \in Plugins \cup {NoPlugin} :
          /\ x' = [x EXCEPT !.plugin = p, !.async = FALSE, !.uithread = editor]
          /\ \/ p = NoPlugin /\ made' = made
             \/ /\ p \in Fresh
                /\ made' = [made EXCEPT ![p] = IF editor THEN "ui" ELSE "pd"]
    <2>1. CASE \E p \in Fresh :
                 /\ made' = [made EXCEPT ![p] = IF editor THEN "ui" ELSE "pd"]
                 /\ x' = [x EXCEPT !.plugin = p, !.async = FALSE,
                                   !.uithread = editor]
      BY <2>1 DEF Fresh
    <2>2. CASE /\ x' = [x EXCEPT !.async = FALSE, !.uithread = editor]
               /\ UNCHANGED made
      <3>1. x' = [x EXCEPT !.plugin = NoPlugin, !.async = FALSE,
                           !.uithread = editor]
        BY <1>1, <2>2 DEF TypeOK
      <3> QED
        BY <2>2, <3>1
    <2> QED
      BY <2>1, <2>2 DEF OpenInline
  <1>3. /\ x'.plugin = p /\ x'.command = x.command /\ x'.freed = x.freed
        /\ x' \in [plugin : Plugins \cup {NoPlugin}, command : Ids \cup {-1},
                   async : BOOLEAN, uithread : BOOLEAN, freed : BOOLEAN]
    BY <1>1, <1>2 DEF TypeOK
  <1>4. /\ QueueInv' /\ CommandInv' /\ InFlight' = InFlight /\ Resets' = Resets
        /\ worker' = worker
    BY <1>1, <1>3, StandEffect DEF queue
  <1>5. /\ made' \in [Plugins -> {"no", "pd", "worker", "ui"}]
        /\ \A q \in Plugins : made'[q] # "no" <=> (made[q] # "no" \/ q = p)
        /\ \A q \in Plugins : q = p => made[q] = "no"
    BY <1>1, <1>2, PdAssumption DEF TypeOK, Fresh
  <1>6. TypeOK'
    BY <1>1, <1>3, <1>4, <1>5 DEF TypeOK, QueueInv
  <1>7. OneCommand' /\ FindInv' /\ ThreadInv'
    <2>1. ~(x'.command >= 0) /\ ~crashed'
      BY <1>1, <1>3 DEF TypeOK, Ids
    <2> QED
      BY <1>1, <1>3, <1>4, <2>1, FindNothing
      DEF IInv, OneCommand, ThreadInv, Resets
  <1>8. OwnerInv'
    <2>1. \A i \in InFlight : /\ command[i].plugin \in Plugins \cup {NoPlugin}
                              /\ command'[i] = command[i]
      BY <1>1, ItemIds DEF TypeOK, Command
    <2>2. \A q \in Plugins : /\ Open(q)' <=> (Open(q) \/ q = p)
                             /\ q = p => ~Open(q)
                             /\ made'[q] = "no" => ended'[q] = "no"
      BY <1>1, <1>5 DEF Open, OwnerInv
    <2>3. \A i \in InFlight : command[i].plugin # NoPlugin =>
            Open(command[i].plugin)' /\ p # command[i].plugin
      BY <1>1, <1>2, <2>1, <2>2 DEF OwnerInv
    <2>4. p # NoPlugin => Open(p)'
      BY <1>2, <2>2
    <2>5. \A q \in Plugins : Open(q)' =>
            p = q \/ \E i \in InFlight : command[i].plugin = q
      BY <1>1, <1>2, <2>2, PdAssumption DEF OwnerInv
    <2> QED
      BY <1>1, <1>3, <1>4, <2>1, <2>2, <2>3, <2>4, <2>5 DEF OwnerInv
  <1> QED
    BY <1>4, <1>6, <1>7, <1>8 DEF IInv

\* An open by the queue: its command has no plugin yet.
LEMMA OpenAsyncStep ==
  ASSUME IInv, NEW editor \in BOOLEAN, OpenAsync(editor) PROVE IInv'
  <1>1. /\ TypeOK /\ QueueInv /\ CommandInv /\ OwnerInv /\ ThreadInv /\ OneCommand
        /\ ~crashed /\ ~x.freed /\ x.plugin = NoPlugin /\ x.command < 0
        /\ pd \in {"idle", "open"} /\ pd' = "idle"
        /\ Push(TRUE)
        /\ x' = [x EXCEPT !.async = TRUE, !.uithread = editor]
        /\ UNCHANGED <<mutex, made, ended, crashed, target>>
    BY OpenBegins DEF OpenAsync
  <1>2. PICK c \in Command : /\ Posted(c)
                             /\ c.op = "open" /\ c.plugin = NoPlugin
    <2>1. [op |-> "open", editor |-> editor, plugin |-> NoPlugin] \in Command
      BY DEF Command
    <2> QED
      BY <2>1 DEF OpenAsync
  <1>3. /\ x'.plugin = x.plugin /\ x'.command = x.command /\ x'.freed = x.freed
        /\ x' \in [plugin : Plugins \cup {NoPlugin}, command : Ids \cup {-1},
                   async : BOOLEAN, uithread : BOOLEAN, freed : BOOLEAN]
    BY <1>1 DEF TypeOK
  <1>4. /\ QueueInv' /\ CommandInv'
        /\ command' \in [Ids -> Command]
        /\ counter \in Ids /\ counter \notin InFlight
        /\ InFlight' = InFlight \cup {counter}
        /\ command'[counter] = c
        /\ \A i \in InFlight : command'[i] = command[i]
        /\ worker' = "busy" <=> worker = "busy"
    BY <1>1, <1>2, <1>3, PostEffect
  <1>5. Resets' = Resets
    BY <1>2, <1>4 DEF Resets
  <1>6. TypeOK'
    BY <1>1, <1>3, <1>4 DEF TypeOK, QueueInv
  <1>7. OneCommand' /\ FindInv' /\ ThreadInv'
    <2>1. ~(x'.command >= 0) /\ ~crashed'
      BY <1>1, <1>3 DEF TypeOK, Ids
    <2> QED
      BY <1>1, <1>3, <1>4, <1>5, <2>1, FindNothing
      DEF IInv, OneCommand, ThreadInv, Resets
  <1>8. OwnerInv'
    BY <1>1, <1>2, <1>3, <1>4 DEF OwnerInv, Open
  <1> QED
    BY <1>4, <1>6, <1>7, <1>8 DEF IInv

--------------------------------------------------------------------------------
(* perform() and the clock *)

\* perform(): x_mutex is taken and given back with x_command unchanged.
LEMMA PerformStep == ASSUME IInv, Perform \/ PerformEnd PROVE IInv'
  <1>1. /\ UNCHANGED <<queue, x, command, made, ended, crashed, target>> /\ ~crashed
        /\ TypeOK /\ QueueInv /\ CommandInv /\ OwnerInv /\ ThreadInv
    BY DEF Perform, PerformEnd, PdReady, IInv
  <1>2. /\ QueueInv' /\ CommandInv' /\ InFlight' = InFlight /\ Resets' = Resets
    BY <1>1, StandEffect
  <1>3. TypeOK'
    BY <1>1, <1>2 DEF TypeOK, QueueInv, Perform, PerformEnd
  <1>4. OneCommand' /\ FindInv' /\ OwnerInv'
    <2>1. FindInv'
      BY <1>1, <1>2, FindKept DEF IInv, Opening
    <2> QED
      BY <1>1, <1>2, <2>1 DEF IInv, OneCommand, OwnerInv, Open, Resets
  <1>5. ThreadInv'
    <2>1. worker' = worker /\ x' = x
      BY <1>1 DEF queue
    <2>2. CASE Perform
      BY <1>1, <2>1, <2>2 DEF ThreadInv, Perform, PdReady
    <2>3. CASE PerformEnd
      BY <1>1, <2>1, <2>3 DEF ThreadInv, PerformEnd
    <2> QED
      BY <2>2, <2>3
  <1> QED
    BY <1>2, <1>3, <1>4, <1>5 DEF IInv

\* The end of an open: its plugin goes from the command to x_plugin.
LEMMA PollOpenStep == ASSUME IInv, PollOpen PROVE IInv'
  <1>1. /\ ~crashed /\ pd = "idle" /\ Poll /\ Polled.cb
        /\ command[Polled.id].op = "open" /\ Cleaned
        /\ UNCHANGED <<mutex, pd, made, target>>
        /\ TypeOK /\ QueueInv /\ CommandInv /\ OwnerInv /\ ThreadInv
    BY DEF PollOpen, Polling, IInv
  <1>2. PICK p \in Plugins \cup {NoPlugin} : p = command[Polled.id].plugin
    BY <1>1, PollEffect DEF TypeOK, Command
  <1>3. \/ (p = NoPlugin \/ x.freed) /\ UNCHANGED <<x, ended>> /\ crashed' = x.freed
        \/ p # NoPlugin /\ ~x.freed /\ Assign(p) /\ crashed' = (worker = "busy")
    BY <1>2 DEF PollOpen
  <1>4. /\ x'.command = x.command /\ x'.freed = x.freed
        /\ x' \in [plugin : Plugins \cup {NoPlugin}, command : Ids \cup {-1},
                   async : BOOLEAN, uithread : BOOLEAN, freed : BOOLEAN]
        /\ x'.plugin = IF p = NoPlugin \/ x.freed THEN x.plugin ELSE p
    BY <1>1, <1>3 DEF Assign, TypeOK
  <1>5. /\ ended' \in [Plugins -> {"no", "pd", "worker", "ui"}]
        /\ \A q \in Plugins :
             IF p # NoPlugin /\ ~x.freed /\ q = x.plugin
               THEN ended'[q] # "no" ELSE ended'[q] = ended[q]
    BY <1>1, <1>3, PdAssumption DEF Assign, Release, TypeOK
  <1>6. /\ QueueInv' /\ CommandInv'
        /\ command' \in [Ids -> Command]
        /\ Polled.id \in InFlight
        /\ InFlight' = InFlight \ {Polled.id}
        /\ \A i \in InFlight' : command'[i] = command[i]
    BY <1>1, <1>4, CleanEffect
  <1>7. Resets' = Resets
    BY <1>1, <1>6 DEF Resets
  <1>8. worker' = worker
    BY <1>1 DEF Poll
  <1>9. TypeOK'
    <2>1. crashed' \in BOOLEAN
      BY <1>1, <1>3 DEF TypeOK
    <2> QED
      BY <1>1, <1>4, <1>5, <1>6, <2>1 DEF TypeOK, QueueInv
  <1>10. OneCommand' /\ FindInv'
    <2>1. OneCommand'
      BY <1>1, <1>4, <1>7 DEF IInv, OneCommand, Resets
    <2> SUFFICES FindInv'
      BY <2>1
    <2>2. CASE x.freed
      <3>1. x'.freed
        BY <1>4, <2>2
      <3> QED
        BY <3>1, FindNothing
    <2>3. CASE ~x.freed
      \* this open is under way, so that the command has no target, and if the worker
      \* is inside of a plugin there is a command
      <3>1. Polled.id \in Opening
        BY <1>1, <1>6 DEF Opening
      <3>2. x.command >= 0 => target = NoPlugin
        BY <2>3, <3>1 DEF IInv, FindInv
      <3>3. worker = "busy" => x.command >= 0
        <4>1. ASSUME worker = "busy" PROVE item.id \in Resets
          BY <1>1, <4>1, ItemIds DEF CommandInv, Resets
        <4>2. x.command \in Int
          BY <1>1, QueueAssumption DEF TypeOK, Ids
        <4> QED
          BY <2>3, <4>1, <4>2 DEF IInv, OneCommand, Resets
      <3>4. CASE p = NoPlugin
        <4>1. x' = x /\ crashed' = x.freed
          BY <1>3, <3>4
        <4>2. ~crashed'
          BY <2>3, <4>1
        <4>3. Opening' \subseteq Opening
          BY <1>6 DEF Opening
        <4> QED
          BY <1>1, <4>1, <4>2, <4>3, FindKept DEF IInv
      <3>5. CASE p # NoPlugin
        <4>1. crashed' = (worker = "busy")
          BY <1>3, <2>3, <3>5
        <4> QED
          BY <1>1, <1>4, <2>3, <3>2, <3>3, <4>1 DEF FindInv, CommandFindsPlugin
      <3> QED
        BY <3>4, <3>5
    <2> QED
      BY <2>2, <2>3
  <1>11. ThreadInv'
    BY <1>1, <1>4, <1>8 DEF ThreadInv
  <1>12. ASSUME ~x.freed
         PROVE  OwnerInv'
    <2>1. \A i \in InFlight : command[i].plugin \in Plugins \cup {NoPlugin}
      BY <1>1, ItemIds DEF TypeOK, Command
    <2>2. x.plugin \in Plugins \cup {NoPlugin}
      BY <1>1 DEF TypeOK
    <2>3. CASE p = NoPlugin
      <3>1. x'.plugin = x.plugin /\ \A q \in Plugins : Open(q)' <=> Open(q)
        BY <1>1, <1>4, <1>5, <2>3 DEF Open
      <3>2. \A q \in Plugins : made'[q] = "no" => ended'[q] = "no"
        BY <1>1, <1>5, <2>3 DEF OwnerInv
      <3> QED
        <4>1. \A i \in InFlight' : /\ i \in InFlight
                                   /\ command'[i].plugin = command[i].plugin
          BY <1>6
        <4>2. \A q \in Plugins, i \in InFlight : command[i].plugin = q =>
                i \in InFlight'
          BY <1>2, <1>6, <2>3, PdAssumption
        <4> QED
          BY <1>1, <2>1, <2>2, <3>1, <3>2, <4>1, <4>2, PdAssumption DEF OwnerInv
    <2>4. CASE p # NoPlugin
      <3>1. /\ x'.plugin = p
            /\ \A q \in Plugins : Open(q)' <=> (Open(q) /\ q # x.plugin)
        BY <1>1, <1>4, <1>5, <1>12, <2>4 DEF Open
      <3>2. \A q \in Plugins : made'[q] = "no" => ended'[q] = "no"
        BY <1>1, <1>5, <1>12, <2>2, <2>4, PdAssumption DEF OwnerInv, Open
      <3> QED
        BY <1>1, <1>2, <1>6, <2>1, <2>2, <2>4, <3>1, <3>2 DEF OwnerInv
    <2> QED
      BY <2>3, <2>4
  <1>13. x.freed => crashed'
    BY <1>3
  <1> QED
    BY <1>1, <1>6, <1>9, <1>10, <1>11, <1>12, <1>13 DEF IInv

\* The end of a reset: x_command is cleared together with the command.
LEMMA PollResetStep == ASSUME IInv, PollReset PROVE IInv'
  <1>1. /\ ~crashed /\ pd = "idle" /\ Poll /\ Polled.cb
        /\ command[Polled.id].op = "reset" /\ Cleaned
        /\ crashed' = x.freed /\ UNCHANGED <<mutex, pd, made, ended, target>>
        /\ x' = IF x.freed THEN x ELSE [x EXCEPT !.command = -1]
        /\ TypeOK /\ QueueInv /\ CommandInv /\ OwnerInv /\ ThreadInv
    BY DEF PollReset, Polling, IInv
  <1>2. /\ x'.plugin = x.plugin /\ x'.freed = x.freed
        /\ ~x.freed => x'.command = -1
        /\ x.freed => x'.command = x.command
        /\ x' \in [plugin : Plugins \cup {NoPlugin}, command : Ids \cup {-1},
                   async : BOOLEAN, uithread : BOOLEAN, freed : BOOLEAN]
    BY <1>1 DEF TypeOK
  <1>3. /\ QueueInv' /\ CommandInv'
        /\ command' \in [Ids -> Command]
        /\ Polled.id \in InFlight
        /\ Fits(Polled)
        /\ InFlight' = InFlight \ {Polled.id}
        /\ \A i \in InFlight' : command'[i] = command[i]
    BY <1>1, <1>2, CleanEffect
  <1>4. worker' = worker
    BY <1>1 DEF Poll
  <1>5. Polled.id \in Resets /\ Resets' = Resets \ {Polled.id}
    BY <1>1, <1>3 DEF Resets
  <1>6. TypeOK'
    BY <1>1, <1>2, <1>3 DEF TypeOK, QueueInv
  <1>7. OneCommand' /\ FindInv'
    BY <1>1, <1>2, <1>5, FindNothing DEF IInv, OneCommand, Resets
  <1>8. ThreadInv'
    BY <1>1, <1>2, <1>4 DEF ThreadInv
  <1>9. OwnerInv'
    <2>1. command[Polled.id].plugin = NoPlugin
      BY <1>1, <1>3 DEF Fits
    <2>2. \A q \in Plugins : Open(q)' <=> Open(q)
      BY <1>1 DEF Open
    <2>3. \A i \in InFlight : command[i].plugin \in Plugins \cup {NoPlugin}
      BY <1>1, ItemIds DEF TypeOK, Command
    <2>4. x.plugin \in Plugins \cup {NoPlugin}
      BY <1>1 DEF TypeOK
    <2> QED
      BY <1>1, <1>2, <1>3, <2>1, <2>2, <2>3, <2>4, PdAssumption DEF OwnerInv
  <1> QED
    BY <1>3, <1>6, <1>7, <1>8, <1>9 DEF IInv

\* The end of a close or of a silenced reset: nothing is held any more.
LEMMA PollSilentStep == ASSUME IInv, PollSilent PROVE IInv'
  <1>1. /\ ~crashed /\ pd = "idle" /\ Poll /\ ~Polled.cb /\ Cleaned
        /\ UNCHANGED <<x, mutex, pd, made, ended, crashed, target>>
        /\ TypeOK /\ QueueInv /\ CommandInv /\ OwnerInv /\ ThreadInv
    BY DEF PollSilent, IInv
  <1>2. /\ QueueInv' /\ CommandInv'
        /\ command' \in [Ids -> Command]
        /\ Polled.id \in InFlight /\ Polled.id \in Ids
        /\ Fits(Polled) /\ Closed(Polled)
        /\ InFlight' = InFlight \ {Polled.id}
        /\ \A i \in InFlight' : command'[i] = command[i]
    BY <1>1, CleanEffect
  <1>3. worker' = worker
    BY <1>1 DEF Poll
  <1>4. /\ command[Polled.id].plugin = NoPlugin
        /\ command[Polled.id].op = "reset" => x.freed
    <2>1. command[Polled.id].op \in {"none", "open", "close", "reset"}
      BY <1>1, <1>2 DEF TypeOK, Command
    <2> QED
      BY <1>1, <1>2, <2>1 DEF Fits, Closed
  <1>5. ~x.freed => Resets' = Resets
    BY <1>2, <1>4 DEF Resets
  <1>6. TypeOK'
    BY <1>1, <1>2 DEF TypeOK, QueueInv
  <1>7. OneCommand' /\ FindInv' /\ ThreadInv'
    <2>1. Opening' \subseteq Opening
      BY <1>2 DEF Opening
    <2>2. FindInv'
      BY <1>1, <2>1, FindKept DEF IInv
    <2> QED
      BY <1>1, <1>3, <1>5, <2>2 DEF IInv, OneCommand, ThreadInv, Resets
  <1>8. OwnerInv'
    <2>1. \A q \in Plugins : Open(q)' <=> Open(q)
      BY <1>1 DEF Open
    <2>2. \A i \in InFlight : command[i].plugin \in Plugins \cup {NoPlugin}
      BY <1>1, ItemIds DEF TypeOK, Command
    <2>3. x.plugin \in Plugins \cup {NoPlugin}
      BY <1>1 DEF TypeOK
    <2> QED
      BY <1>1, <1>2, <1>4, <2>1, <2>2, <2>3, PdAssumption DEF OwnerInv
  <1> QED
    BY <1>2, <1>6, <1>7, <1>8 DEF IInv

--------------------------------------------------------------------------------
(* The worker *)

\* The work of an open: a plugin that is new goes into the command.
LEMMA WorkOpenStep == ASSUME IInv, WorkOpen PROVE IInv'
  <1>1. /\ ~crashed /\ worker = "work" /\ command[item.id].op = "open"
        /\ UNCHANGED <<x, mutex, pd, ended, target>>
        /\ TypeOK /\ QueueInv /\ CommandInv /\ OwnerInv /\ ThreadInv
    BY DEF WorkOpen, Working, IInv
  <1>2. CASE x.freed /\ crashed' = TRUE /\ UNCHANGED <<queue, command, made>>
    <2>1. /\ QueueInv' /\ CommandInv' /\ InFlight' = InFlight /\ Resets' = Resets
          /\ worker' = worker
      BY <1>1, <1>2, StandEffect DEF queue
    <2>2. TypeOK'
      BY <1>1, <1>2, <2>1 DEF TypeOK, QueueInv
    <2>3. OneCommand' /\ FindInv' /\ ThreadInv'
      BY <1>1, <1>2, <2>1, FindNothing DEF OneCommand, ThreadInv
    <2> QED
      BY <1>2, <2>1, <2>2, <2>3 DEF IInv
  <1>3. CASE ~x.freed /\ Performed /\ crashed' = crashed
    <2>1. /\ item.id \in Ids /\ item.id \in InFlight
          /\ Fits(item) /\ command[item.id].plugin = NoPlugin
      BY <1>1, ItemIds DEF CommandInv, Unopened
    <2>2. PICK p \in Plugins \cup {NoPlugin} :
            /\ command' = [command EXCEPT ![item.id].plugin = p]
            /\ \/ p = NoPlugin /\ made' = made
               \/ /\ p \in Fresh
                  /\ made' = [made EXCEPT ![p] = IF command[item.id].editor
                                                 THEN "ui" ELSE "worker"]
      <3>1. CASE \E p \in Fresh :
                   /\ made' = [made EXCEPT ![p] = IF command[item.id].editor
                                                  THEN "ui" ELSE "worker"]
                   /\ command' = [command EXCEPT ![item.id].plugin = p]
        BY <3>1 DEF Fresh
      <3>2. CASE UNCHANGED <<made, command>>
        <4>1. command' = [command EXCEPT ![item.id].plugin = NoPlugin]
          BY <1>1, <2>1, <3>2 DEF TypeOK, Command
        <4> QED
          BY <3>2, <4>1
      <3> QED
        BY <1>3, <3>1, <3>2 DEF WorkOpen
    <2>3. /\ command' \in [Ids -> Command]
          /\ command'[item.id].op = "open" /\ command'[item.id].plugin = p
          /\ \A i \in Ids : i # item.id => command'[i] = command[i]
      BY <1>1, <2>1, <2>2 DEF TypeOK, Command
    <2>4. /\ worker' = "send"
          /\ UNCHANGED <<nrt, nrt2, rt, counter, item, source>>
      BY <1>3 DEF Performed
    <2>5. /\ Fits(item)' /\ Closed(item)'
      BY <1>1, <2>1, <2>3, <2>4 DEF Fits, Closed
    <2>6. /\ QueueInv' /\ CommandInv' /\ InFlight' = InFlight
          /\ \A i \in InFlight : i # item.id => command'[i] = command[i]
      BY <1>1, <2>3, <2>4, <2>5, WorkEffect
    <2>7. Resets' = Resets
      BY <1>1, <2>3, <2>6 DEF Resets
    <2>8. /\ made' \in [Plugins -> {"no", "pd", "worker", "ui"}]
          /\ \A q \in Plugins : made'[q] # "no" <=> (made[q] # "no" \/ q = p)
          /\ \A q \in Plugins : q = p => made[q] = "no"
      BY <1>1, <2>2, PdAssumption DEF TypeOK, Fresh
    <2>9. TypeOK'
      BY <1>1, <1>3, <2>3, <2>6, <2>8 DEF TypeOK, QueueInv
    <2>10. OneCommand' /\ FindInv' /\ ThreadInv'
      <3>1. Opening' = Opening
        BY <1>1, <2>3, <2>6 DEF Opening
      <3>2. FindInv'
        BY <1>1, <1>3, <3>1, FindKept DEF IInv
      <3> QED
        BY <1>1, <1>3, <2>4, <2>7, <3>2 DEF IInv, OneCommand, ThreadInv, Resets
    <2>11. OwnerInv'
      <3>1. \A i \in InFlight : command[i].plugin \in Plugins \cup {NoPlugin}
        BY <1>1, ItemIds DEF TypeOK, Command
      <3>2. \A q \in Plugins : /\ Open(q)' <=> (Open(q) \/ q = p)
                               /\ q = p => ~Open(q)
                               /\ made'[q] = "no" => ended'[q] = "no"
        BY <1>1, <2>8 DEF Open, OwnerInv
      <3>3. \A i \in InFlight :
              command'[i].plugin = IF i = item.id THEN p ELSE command[i].plugin
        BY <2>3, <2>6
      <3>4. x.plugin \in Plugins \cup {NoPlugin}
        BY <1>1 DEF TypeOK
      <3>5. /\ \A i \in InFlight : command'[i].plugin # NoPlugin =>
                 Open(command[i].plugin)' /\ x.plugin # command'[i].plugin
            /\ \A i, j \in InFlight :
                 command'[i].plugin # NoPlugin
                   /\ command'[i].plugin = command'[j].plugin => i = j
        BY <1>1, <2>2, <3>1, <3>2, <3>3, <3>4 DEF OwnerInv
      <3>6. /\ x.plugin # NoPlugin => Open(x.plugin)'
            /\ \A q \in Plugins : Open(q)' =>
                 x.plugin = q \/ \E i \in InFlight : command'[i].plugin = q
        BY <1>1, <2>1, <2>2, <3>1, <3>2, <3>3, <3>4, PdAssumption DEF OwnerInv
      <3> QED
        BY <1>1, <2>6, <3>2, <3>5, <3>6 DEF OwnerInv
    <2> QED
      BY <2>6, <2>9, <2>10, <2>11 DEF IInv
  <1> QED
    BY <1>2, <1>3 DEF WorkOpen

\* The work of a close: the plugin of the command goes for good.
LEMMA WorkCloseStep == ASSUME IInv, WorkClose PROVE IInv'
  <1>1. /\ ~crashed /\ worker = "work" /\ command[item.id].op = "close"
        /\ Performed
        /\ UNCHANGED <<x, mutex, pd, made, crashed, target>>
        /\ TypeOK /\ QueueInv /\ CommandInv /\ OwnerInv /\ ThreadInv
    BY DEF WorkClose, Working, IInv
  <1>2. /\ item.id \in Ids /\ item.id \in InFlight /\ Fits(item)
    BY <1>1, ItemIds DEF CommandInv
  <1>3. PICK p \in Plugins \cup {NoPlugin} : p = command[item.id].plugin
    BY <1>1, <1>2 DEF TypeOK, Command
  <1>4. /\ command' = [command EXCEPT ![item.id].plugin = NoPlugin]
        /\ ended' = Release(p, command[item.id].editor, "worker")
    BY <1>3 DEF WorkClose
  <1>5. /\ command' \in [Ids -> Command]
        /\ command'[item.id].op = "close" /\ command'[item.id].plugin = NoPlugin
        /\ \A i \in Ids : i # item.id => command'[i] = command[i]
    BY <1>1, <1>2, <1>4 DEF TypeOK, Command
  <1>6. /\ worker' = "send"
        /\ UNCHANGED <<nrt, nrt2, rt, counter, item, source>>
    BY <1>1 DEF Performed
  <1>7. /\ Fits(item)' /\ Closed(item)'
    BY <1>1, <1>2, <1>5, <1>6 DEF Fits, Closed
  <1>8. /\ QueueInv' /\ CommandInv' /\ InFlight' = InFlight
        /\ \A i \in InFlight : i # item.id => command'[i] = command[i]
    BY <1>1, <1>5, <1>6, <1>7, WorkEffect
  <1>9. Resets' = Resets
    BY <1>1, <1>5, <1>8 DEF Resets
  <1>10. /\ ended' \in [Plugins -> {"no", "pd", "worker", "ui"}]
         /\ \A q \in Plugins : IF q = p THEN ended'[q] # "no"
                                        ELSE ended'[q] = ended[q]
    BY <1>1, <1>4, PdAssumption DEF TypeOK, Release
  <1>11. TypeOK'
    BY <1>1, <1>5, <1>8, <1>10 DEF TypeOK, QueueInv
  <1>12. OneCommand' /\ FindInv' /\ ThreadInv'
    <2>1. Opening' = Opening
      BY <1>1, <1>5, <1>8 DEF Opening
    <2>2. FindInv'
      BY <1>1, <2>1, FindKept DEF IInv
    <2> QED
      BY <1>1, <1>6, <1>9, <2>2 DEF IInv, OneCommand, ThreadInv, Resets
  <1>13. OwnerInv'
    <2>1. \A i \in InFlight : command[i].plugin \in Plugins \cup {NoPlugin}
      BY <1>1, ItemIds DEF TypeOK, Command
    <2>2. \A q \in Plugins : /\ Open(q)' <=> (Open(q) /\ q # p)
                             /\ made'[q] = "no" => ended'[q] = "no"
      BY <1>1, <1>2, <1>3, <1>10, PdAssumption DEF Open, OwnerInv
    <2>3. \A i \in InFlight :
            /\ command'[i].plugin = IF i = item.id THEN NoPlugin
                                                   ELSE command[i].plugin
      BY <1>5, <1>8
    <2>4. x.plugin \in Plugins \cup {NoPlugin}
      BY <1>1 DEF TypeOK
    <2>5. /\ \A i \in InFlight : command'[i].plugin # NoPlugin =>
               Open(command[i].plugin)' /\ x.plugin # command'[i].plugin
          /\ \A i, j \in InFlight :
               command'[i].plugin # NoPlugin
                 /\ command'[i].plugin = command'[j].plugin => i = j
      BY <1>1, <1>2, <1>3, <2>1, <2>2, <2>3, <2>4 DEF OwnerInv
    <2>6. /\ x.plugin # NoPlugin => Open(x.plugin)'
          /\ \A q \in Plugins : Open(q)' =>
               x.plugin = q \/ \E i \in InFlight : command'[i].plugin = q
      BY <1>1, <1>2, <1>3, <2>1, <2>2, <2>3, <2>4, PdAssumption DEF OwnerInv
    <2> QED
      BY <1>1, <1>8, <2>2, <2>5, <2>6 DEF OwnerInv
  <1> QED
    BY <1>8, <1>11, <1>12, <1>13 DEF IInv

\* The work of a reset begins: x_plugin is there if the object is.
LEMMA WorkBeginStep == ASSUME IInv, WorkBegin PROVE IInv'
  <1>1. /\ ~crashed /\ worker = "work" /\ command[item.id].op = "reset"
        /\ UNCHANGED <<nrt, nrt2, rt, counter, item, source>>
        /\ UNCHANGED <<x, pd, command, made, ended, target>>
        /\ TypeOK /\ QueueInv /\ CommandInv /\ OwnerInv /\ ThreadInv /\ OneCommand
    BY DEF WorkBegin, Working, IInv
  <1>2. \/ /\ x.freed \/ x.plugin = NoPlugin
           /\ crashed' = TRUE /\ worker' = "work" /\ mutex' = mutex
        \/ /\ ~x.freed /\ x.plugin # NoPlugin
           /\ mutex = "free" /\ mutex' = "worker"
           /\ worker' = "busy" /\ crashed' = crashed
    BY <1>1 DEF WorkBegin
  <1>3. item.id \in Ids /\ item.id \in InFlight /\ Fits(item) /\ Unopened(item)
    BY <1>1, ItemIds DEF CommandInv
  <1>4. (Fits(item) /\ Unopened(item))'
    BY <1>1, <1>3 DEF Fits, Unopened
  <1>5. /\ QueueInv' /\ CommandInv' /\ InFlight' = InFlight
    <2>1. worker' \in {"work", "busy"}
      BY <1>2
    <2>2. command' \in [Ids -> Command] /\ command'[item'.id].op = "reset"
      BY <1>1 DEF TypeOK
    <2> QED
      BY <1>1, <1>4, <2>1, <2>2, WorkEffect
  <1>6. Resets' = Resets
    BY <1>1, <1>5 DEF Resets
  <1>7. TypeOK'
    BY <1>1, <1>2, <1>5 DEF TypeOK, QueueInv
  <1>8. OneCommand'
    BY <1>1, <1>6 DEF OneCommand, Resets
  <1>9. ~x.freed => x.plugin # NoPlugin
    <2>1. ASSUME ~x.freed
          PROVE  x.command >= 0
      <3>1. item.id \in {i \in InFlight : command[i].op = "reset"}
        BY <1>1, <1>3
      <3>2. x.command \in Int
        BY <1>1, QueueAssumption DEF TypeOK, Ids
      <3> QED
        BY <1>1, <2>1, <3>1, <3>2 DEF OneCommand
    <2> QED
      BY <1>1, <2>1 DEF ThreadInv
  <1>10. FindInv'
    <2>1. CASE x.freed
      BY <1>1, <2>1, FindNothing
    <2>2. CASE ~x.freed
      <3>1. ~crashed'
        BY <1>1, <1>2, <1>9, <2>2
      <3>2. Opening' = Opening
        BY <1>1, <1>5 DEF Opening
      <3> QED
        BY <1>1, <3>1, <3>2, FindKept DEF IInv
    <2> QED
      BY <2>1, <2>2
  <1>11. ThreadInv'
    BY <1>1, <1>2 DEF ThreadInv
  <1>12. OwnerInv'
    BY <1>1, <1>5 DEF OwnerInv, Open
  <1> QED
    BY <1>5, <1>7, <1>8, <1>10, <1>11, <1>12 DEF IInv

\* The work of a reset ends, and x_mutex is free again.
LEMMA WorkEndStep == ASSUME IInv, WorkEnd PROVE IInv'
  <1>1. /\ ~crashed /\ worker = "busy" /\ worker' = "send"
        /\ UNCHANGED <<nrt, nrt2, rt, counter, item, source>>
        /\ UNCHANGED <<x, pd, command, made, ended, crashed, target>>
        /\ mutex' = "free"
        /\ TypeOK /\ QueueInv /\ CommandInv /\ OwnerInv /\ ThreadInv /\ OneCommand
    BY DEF WorkEnd, Performed, IInv
  <1>2. item.id \in Ids /\ Fits(item) /\ command[item.id].op = "reset"
    BY <1>1, ItemIds DEF CommandInv
  <1>3. (Fits(item) /\ Closed(item))'
    BY <1>1, <1>2 DEF Fits, Closed
  <1>4. /\ QueueInv' /\ CommandInv' /\ InFlight' = InFlight
    <2>1. command' \in [Ids -> Command]
      BY <1>1 DEF TypeOK
    <2> QED
      BY <1>1, <1>3, <2>1, WorkEffect
  <1>5. Resets' = Resets
    BY <1>1, <1>4 DEF Resets
  <1>6. TypeOK'
    BY <1>1, <1>4 DEF TypeOK, QueueInv
  <1>7. OneCommand' /\ FindInv' /\ ThreadInv'
    <2>1. FindInv'
      BY <1>1, <1>4, FindKept DEF IInv, Opening
    <2> QED
      BY <1>1, <1>5, <2>1 DEF OneCommand, ThreadInv, Resets
  <1>8. OwnerInv'
    BY <1>1, <1>4 DEF OwnerInv, Open
  <1> QED
    BY <1>4, <1>6, <1>7, <1>8 DEF IInv

\* The worker takes, gives back, sleeps or wakes up.
LEMMA QueueStepStep == ASSUME IInv, QueueStep PROVE IInv'
  <1>1. /\ ~crashed
        /\ UNCHANGED <<x, mutex, pd, command, made, ended, crashed, target>>
        /\ TypeOK /\ QueueInv /\ CommandInv /\ OwnerInv /\ ThreadInv /\ OneCommand
    BY DEF QueueStep, IInv
  <1>2. /\ QueueInv' /\ CommandInv' /\ InFlight' = InFlight
        /\ worker # "busy" /\ worker' # "busy"
    <2>1. CASE TakeRing \/ TakeQueue2
      BY <1>1, <2>1, TakeCommand
    <2>2. CASE Send
      BY <1>1, <2>2, SendCommand
    <2>3. CASE Wait \/ Wake
      <3>1. /\ UNCHANGED <<nrt, nrt2, rt, counter, item>>
            /\ source' \in {"ring", "queue2"}
            /\ worker \in {"sleep", "waiting", "woken"}
            /\ worker' \in {"waiting", "ring"}
            /\ worker' = "ring" => source' = "ring"
        BY <1>1, <2>3 DEF Wait, Wake, QueueInv, QueueTypeOK
      <3>2. /\ QueueInv' /\ Queued' = Queued /\ Returned' = Returned
            /\ InFlight' = InFlight
        BY <1>1, <3>1, StayEffect
      <3>3. CommandInv'
        BY <1>1, <3>1, <3>2 DEF CommandInv, Fits, Unopened, Closed
      <3> QED
        BY <3>1, <3>2, <3>3
    <2> QED
      BY <2>1, <2>2, <2>3 DEF QueueStep
  <1>3. Resets' = Resets
    BY <1>1, <1>2 DEF Resets
  <1>4. TypeOK'
    BY <1>1, <1>2 DEF TypeOK, QueueInv
  <1>5. OneCommand' /\ FindInv' /\ ThreadInv'
    <2>1. FindInv'
      BY <1>1, <1>2, FindKept DEF IInv, Opening
    <2> QED
      BY <1>1, <1>2, <1>3, <2>1 DEF OneCommand, ThreadInv, Resets
  <1>6. OwnerInv'
    BY <1>1, <1>2 DEF OwnerInv, Open
  <1> QED
    BY <1>2, <1>4, <1>5, <1>6 DEF IInv

--------------------------------------------------------------------------------
(* The theorems *)

\* Nothing is queued, open or held at first.
LEMMA Initially == Init => IInv
  <1> SUFFICES ASSUME Init PROVE IInv
    OBVIOUS
  <1>1. QueueInv /\ Queued = {} /\ Returned = {} /\ InFlight = {}
    BY QueueInitially DEF Init
  <1>2. item.id = -1 /\ worker = "ring"
    BY DEF Init, QueueInit, NoItem
  <1>3. TypeOK
    BY <1>1 DEF Init, TypeOK, QueueInv, Command, NoCommand
  <1>4. CommandInv
    BY <1>1, <1>2 DEF CommandInv
  <1>5. OneCommand /\ FindInv /\ ThreadInv
    BY <1>1, <1>2 DEF Init, OneCommand, FindInv, CommandFindsPlugin, ThreadInv
  <1>6. OwnerInv
    BY <1>1 DEF Init, OwnerInv, Open
  <1> QED
    BY <1>1, <1>3, <1>4, <1>5, <1>6 DEF IInv

\* Every step keeps the invariant.
LEMMA Step == IInv /\ [Next]_vars => IInv'
  <1> SUFFICES ASSUME IInv, [Next]_vars PROVE IInv'
    OBVIOUS
  <1>1. CASE Message
    BY <1>1, CloseStep, ResetStep, FreeStep, OpenInlineStep, OpenAsyncStep
    DEF Message
  <1>2. CASE Perform \/ PerformEnd
    BY <1>2, PerformStep
  <1>3. CASE Clock
    BY <1>3, PollOpenStep, PollResetStep, PollSilentStep DEF Clock
  <1>4. CASE Work
    BY <1>4, WorkOpenStep, WorkCloseStep, WorkBeginStep, WorkEndStep DEF Work
  <1>5. CASE QueueStep
    BY <1>5, QueueStepStep
  <1>6. CASE UNCHANGED vars
    <2>1. /\ UNCHANGED <<queue, x, mutex, pd, command, made, ended, crashed, target>>
          /\ TypeOK /\ QueueInv /\ CommandInv
      BY <1>6 DEF vars, IInv
    <2>2. worker' = worker
      BY <2>1 DEF queue
    <2>3. /\ QueueInv' /\ CommandInv' /\ InFlight' = InFlight /\ Resets' = Resets
      BY <2>1, StandEffect
    <2>4. TypeOK'
      BY <2>1, <2>3 DEF TypeOK, QueueInv
    <2>5. OneCommand' /\ FindInv' /\ ThreadInv'
      BY <2>1, <2>2, <2>3
      DEF IInv, OneCommand, FindInv, CommandFindsPlugin, Opening, ThreadInv, Resets
    <2>6. (crashed \/ OwnerInv)'
      BY <2>1, <2>3 DEF IInv, OwnerInv, Open
    <2> QED
      BY <2>3, <2>4, <2>5, <2>6 DEF IInv
  <1> QED
    BY <1>1, <1>2, <1>3, <1>4, <1>5, <1>6 DEF Next

\* The invariant that all the others follow from.
THEOREM PdInvariant == Spec => []IInv
  <1> QED
    BY Initially, Step, PTL DEF Spec

\* Every member, every queue and every command has a value that it can have in
\* the code.
THEOREM PdTypes == Spec => []TypeOK
  <1>1. IInv => TypeOK
    BY DEF IInv
  <1> QED
    BY <1>1, PdInvariant, PTL

\* x_command is the one command that suspends the object: no message starts a
\* second one, and none is forgotten before it is polled.
THEOREM PdOneCommand == Spec => []OneCommand
  <1>1. IInv => OneCommand
    BY DEF IInv
  <1> QED
    BY <1>1, PdInvariant, PTL

\* perform() and the work of a reset, read or write never overlap: the worker has
\* x_mutex, and perform() needs it as long as a command is under way.
THEOREM PdProcessExclusion == Spec => []ProcessExclusion
  <1>1. IInv => ProcessExclusion
    <2> SUFFICES ASSUME IInv, pd = "perform", worker = "busy" PROVE FALSE
      BY DEF ProcessExclusion
    <2>1. item.id \in InFlight /\ item.id \in Ids /\ command[item.id].op = "reset"
      BY ItemIds DEF IInv, CommandInv
    <2>2. ~x.freed /\ mutex = "worker"
      BY DEF IInv, ThreadInv
    <2>3. x.command >= 0
      <3>1. item.id \in {i \in InFlight : command[i].op = "reset"}
        BY <2>1
      <3>2. x.command \in Int
        BY QueueAssumption DEF IInv, TypeOK, Ids
      <3> QED
        BY <2>2, <3>1, <3>2 DEF IInv, OneCommand
    <2> QED
      BY <2>2, <2>3 DEF IInv, ThreadInv
  <1> QED
    BY <1>1, PdInvariant, PTL

\* While the object lives, a command sent with no open under way finds the plugin it
\* was sent for, which is not destroyed under it.
THEOREM PdCommandFindsPlugin == Spec => []CommandFindsPlugin
  <1>1. IInv => CommandFindsPlugin
    BY DEF IInv, FindInv
  <1> QED
    BY <1>1, PdInvariant, PTL

\* As long as nothing freed was used, an open plugin has exactly one owner, x_plugin or
\* a command in flight, and a plugin that is not open has none.
THEOREM PdOneOwner == Spec => []OneOwner
  <1>1. IInv => OneOwner
    <2> SUFFICES ASSUME IInv, ~crashed, NEW p \in Plugins
                 PROVE  IF made[p] # "no" /\ ended[p] = "no"
                          THEN IF x.plugin = p THEN Owners(p) = {}
                                               ELSE Cardinality(Owners(p)) = 1
                          ELSE x.plugin # p /\ Owners(p) = {}
      BY DEF OneOwner
    <2>1. OwnerInv /\ p # NoPlugin
      BY PdAssumption DEF IInv
    <2>2. CASE x.plugin = p
      BY <2>1, <2>2 DEF OwnerInv, Owners, Open
    <2>3. CASE ~Open(p) /\ x.plugin # p
      BY <2>1, <2>3 DEF OwnerInv, Owners, Open
    <2>4. CASE Open(p) /\ x.plugin # p
      <3>1. PICK i \in InFlight : command[i].plugin = p
        BY <2>1, <2>4 DEF OwnerInv
      <3>2. Owners(p) = {i}
        BY <2>1, <3>1 DEF OwnerInv, Owners
      <3>3. Cardinality({i}) = 1
        BY FS_Singleton
      <3> QED
        BY <2>4, <3>2, <3>3 DEF Open
    <2> QED
      BY <2>2, <2>3, <2>4
  <1> QED
    BY <1>1, PdInvariant, PTL

\* What a step does to the queue.
LEMMA QueueMoves ==
  ASSUME IInv, [Next]_vars
  PROVE  \/ \E cb \in BOOLEAN : Push(cb)
         \/ \E id \in Ids : Cancel(id)
         \/ Poll \/ TakeRing \/ TakeQueue2 \/ Send
         \/ UNCHANGED <<nrt, nrt2, rt, counter, item>>
  <1>1. CASE Message
    <2>1. x.command >= 0 => x.command \in Ids
      BY QueueAssumption DEF IInv, TypeOK, Ids
    <2> QED
      BY <1>1, <2>1
      DEF Message, Close, CloseAsync, CloseInline, Reset, Free, OpenInline,
          OpenAsync, queue
  <1>2. CASE Perform \/ PerformEnd
    BY <1>2 DEF Perform, PerformEnd, queue
  <1>3. CASE Clock
    BY <1>3 DEF Clock, PollOpen, PollReset, PollSilent, Polling
  <1>4. CASE Work
    BY <1>4
    DEF Work, WorkOpen, WorkClose, WorkBegin, WorkEnd, Performed, queue
  <1>5. CASE QueueStep
    BY <1>5 DEF QueueStep, Wait, Wake
  <1>6. CASE UNCHANGED vars
    BY <1>6 DEF vars, queue
  <1> QED
    BY <1>1, <1>2, <1>3, <1>4, <1>5, <1>6 DEF Next

\* No queue loses or duplicates a command, also when a FIFO is full or the object
\* is freed meanwhile.
THEOREM PdItemsKept == Spec => ItemsKept
  <1>1. ASSUME IInv, [Next]_vars
        PROVE  InFlight' = (InFlight \cup counter..counter'-1)
                             \ (IF rt'.read # rt.read THEN {Polled.id} ELSE {})
    <2>1. QueueInv /\ counter \in Nat
      BY <1>1, QueueAssumption DEF IInv, QueueInv, QueueTypeOK
    <2>2. ASSUME NEW cb \in BOOLEAN, Push(cb)
          PROVE  /\ InFlight' = InFlight \cup {counter}
                 /\ counter' = counter + 1 /\ rt' = rt
      BY <2>1, <2>2, PushEffect DEF Push
    <2>3. ASSUME \/ \E id \in Ids : Cancel(id)
                 \/ TakeRing \/ TakeQueue2 \/ Send
                 \/ UNCHANGED <<nrt, nrt2, rt, counter, item>>
          PROVE  InFlight' = InFlight /\ counter' = counter /\ rt'.read = rt.read
      <3>1. CASE \E id \in Ids : Cancel(id)
        BY <2>1, <3>1, CancelEffect
      <3>2. CASE TakeRing \/ TakeQueue2
        BY <2>1, <3>2, TakeEffect DEF TakeRing, TakeQueue2
      <3>3. CASE Send
        BY <2>1, <3>3, SendEffect DEF Send
      <3>4. CASE UNCHANGED <<nrt, nrt2, rt, counter, item>>
        BY <3>4, NothingMoves
      <3> QED
        BY <2>3, <3>1, <3>2, <3>3, <3>4
    <2>4. CASE Poll
      <3>1. /\ InFlight' = InFlight \ {Polled.id} /\ rt'.read # rt.read
            /\ counter' = counter
        BY <2>1, <2>4, PollEffect DEF Poll
      <3>2. counter..counter'-1 = {}
        BY <2>1, <3>1
      <3> QED
        BY <3>1, <3>2
    <2>5. CASE \E cb \in BOOLEAN : Push(cb)
      <3>1. /\ InFlight' = InFlight \cup {counter}
            /\ counter' = counter + 1 /\ rt' = rt
        BY <2>2, <2>5
      <3>2. counter..counter'-1 = {counter}
        BY <2>1, <3>1
      <3> QED
        BY <3>1, <3>2
    <2>6. CASE \/ \E id \in Ids : Cancel(id)
               \/ TakeRing \/ TakeQueue2 \/ Send
               \/ UNCHANGED <<nrt, nrt2, rt, counter, item>>
      <3>1. InFlight' = InFlight /\ counter' = counter /\ rt'.read = rt.read
        BY <2>3, <2>6
      <3>2. counter..counter'-1 = {}
        BY <2>1, <3>1
      <3> QED
        BY <3>1, <3>2
    <2> QED
      BY <1>1, <2>4, <2>5, <2>6, QueueMoves
  <1> QED
    BY <1>1, PdInvariant, PTL DEF Spec, ItemsKept

\* A command is overtaken only by one that went through the other queue.
THEOREM PdOvertakenAcross == Spec => OvertakenAcross
  <1>1. ASSUME IInv, [Next]_vars, item'.id > item.id,
               NEW k \in {y.id : y \in Queued'}, k < item'.id
        PROVE  k \in {y.id : y \in IF source = "ring"
                                     THEN {nrt2[i] : i \in DOMAIN nrt2}
                                     ELSE Contents(nrt)}
    <2>1. QueueInv /\ item.id \in Int /\ item.id >= -1
      BY <1>1, QueueAssumption DEF IInv, QueueInv, QueueTypeOK, Items, Ids
    <2>2. item' # item /\ item'.id # -1
      BY <1>1, <2>1
    <2>3. TakeRing \/ TakeQueue2
      <3>1. \A cb \in BOOLEAN : ~Push(cb)
        BY <2>2 DEF Push
      <3>2. \A id \in Ids : ~Cancel(id)
        BY <2>2 DEF Cancel
      <3>3. ~Poll
        BY <2>2 DEF Poll
      <3>4. ~Send
        BY <2>1, <2>2, SendEffect
      <3> QED
        BY <1>1, <2>2, <3>1, <3>2, <3>3, <3>4, QueueMoves
    <2>4. PICK y \in Queued' : y.id = k
      BY <1>1
    <2>5. y \in IF source = "ring" THEN Second ELSE Contents(nrt)
      BY <1>1, <2>1, <2>2, <2>3, <2>4, TakeEffect
    <2> QED
      BY <2>4, <2>5 DEF Second
  <1>2. ASSUME IInv, [Next]_vars
        PROVE  item'.id > item.id =>
                 \A k \in {y.id : y \in Queued'} : k < item'.id =>
                   k \in {y.id : y \in IF source = "ring"
                                         THEN {nrt2[i] : i \in DOMAIN nrt2}
                                         ELSE Contents(nrt)}
    BY <1>1, <1>2
  <1> QED
    BY <1>2, PdInvariant, PTL DEF Spec, OvertakenAcross
================================================================================
