--------------------------- MODULE VSTPluginUGenProofs ---------------------------
(***************************************************************************)
(* Theorems about VSTPluginUGen for every set of plugins, every amount of  *)
(* RT memory and every number of commands.                                 *)
(*                                                                         *)
(* The invariant has five parts: the synth's memory, the plugin, the list  *)
(* of mappings, the automation, and the gains at the end of a block.       *)
(***************************************************************************)
EXTENDS VSTPluginUGen, FiniteSetTheorems, WellFoundedInduction, TLAPS

\* what an unbuilt synth finds in its memory: nothing, or its own commands in order
InOrder(m) == /\ \A k \in DOMAIN m.list : m.list[k] \in 1 .. m.sent
              /\ \A k, l \in DOMAIN m.list : k < l => m.list[k] < m.list[l]
Memory == [initialized : BOOLEAN, queued : BOOLEAN,
           list : Seq(0 .. MaxQueue), sent : 0 .. MaxQueue]
UnitInv ==
  /\ unit \in {"none", "raw", "built"}
  /\ mem \in Memory
  /\ FreeUnbuilt \/ (/\ unit = "none" => ~mem.queued
                     /\ unit = "raw" /\ mem.queued => InOrder(mem))

PluginInv ==
  /\ plugin \in Plugins \cup {NoPlugin}
  /\ suspended \in BOOLEAN
  /\ bypass \in Bypass /\ pb \in BypassStates

\* s is the list of n mappings, from the head on
At(s, n, k) == IF k \in 1 .. n THEN s[k] ELSE Nil
Linked(m, s, n) ==
  /\ n \in Nat /\ s \in [1 .. n -> DOMAIN m.cell]
  /\ \A k, l \in 1 .. n : s[k] = s[l] => k = l
  /\ \A c \in DOMAIN m.cell : \E k \in 1 .. n : s[k] = c
  /\ m.head = At(s, n, 1)
  /\ \A k \in 1 .. n : /\ m.cell[s[k]].next = At(s, n, k + 1)
                       /\ m.cell[s[k]].prev = At(s, n, k - 1)

\* the mapping; the table and the Mapping structs point at each other
MapType(m) ==
  /\ m = [cell |-> m.cell, head |-> m.head, table |-> m.table, ok |-> m.ok]
  /\ m.cell = [c \in DOMAIN m.cell |-> m.cell[c]]
  /\ m.table = [i \in DOMAIN m.table |-> m.table[i]]
  /\ DOMAIN m.cell \subseteq Cells
  /\ \A c \in DOMAIN m.cell : m.cell[c] \in Mappings
  /\ DOMAIN m.table \subseteq Params
Indexed(m) ==
  /\ \A c \in DOMAIN m.cell : /\ m.cell[c].index \in DOMAIN m.table
                              /\ m.table[m.cell[c].index] = c
  /\ \A i \in DOMAIN m.table :
       m.table[i] # Nil => /\ m.table[i] \in DOMAIN m.cell
                           /\ m.cell[m.table[i]].index = i
List(m) == MapType(m) /\ Indexed(m) /\ \E s, n : Linked(m, s, n)
MapInv ==
  /\ List(pm)
  /\ plugin # NoPlugin =>
       DOMAIN pm.table = IF pm.ok THEN 0 .. plugin.params - 1 ELSE {}

\* what was sent last is what the UGen remembers
AutoType ==
  /\ auto = [value |-> auto.value, own |-> auto.own, aim |-> auto.aim,
             state |-> auto.state, ok |-> auto.ok]
  /\ auto.value \in [Params -> Values]
  /\ auto.own \in [Params -> BOOLEAN]
  /\ auto.aim \in [Params -> Values \cup {Unseen}]
  /\ auto.state \in [DOMAIN auto.state -> Values \cup {Unseen}]
Follows(i) == auto.aim[i] = Unseen \/ auto.own[i] \/ auto.value[i] = auto.aim[i]
AutoInv ==
  /\ AutoType
  /\ plugin # NoPlugin =>
       /\ \A i \in Params : Follows(i)
       /\ auto.ok => /\ DOMAIN auto.state = 0 .. plugin.params - 1
                     /\ \A i \in DOMAIN auto.state : auto.state[i] = auto.aim[i]

\* where a block of this kind leaves the gains of a channel with input and output
Rests(kind, tail, out, feed) ==
  /\ kind = "off"  => out.dry[2] = 0 /\ out.wet[2] = 1 /\ feed[2] = 1
  /\ kind = "hard" => out.dry[2] = 1 /\ out.wet[2] = 0
  /\ kind = "soft" => out.dry[2] = 1 /\ feed[2] = 0 /\ (tail => out.wet[2] = 1)
\* where it leaves those of an output without input, if not in soft bypass
AloneRests(kind, out) == out.dry[2] = 0 /\ out.wet[2] = IF kind = "off" THEN 1 ELSE 0
Settled ==
  \A x \in Busses :
    /\ \A i \in Through(x) :
         Rests(Handled(pb, plugin.own), block.tail, block.out[x][i], block.feed[x][i])
    /\ pb.bypass # "soft" =>
         \A i \in Alone(x) : AloneRests(Handled(pb, plugin.own), block.out[x][i])
BypassInv ==
  /\ pb.last = pb.bypass
  /\ pb.silent => ~block.tail /\ Handled(pb, plugin.own) # "off"
  /\ block.processed => plugin # NoPlugin /\ Settled

IInv == UnitInv /\ PluginInv /\ MapInv /\ AutoInv /\ BypassInv
--------------------------------------------------------------------------------
(* Parameters *)

LEMMA Least ==
  ASSUME NEW T \in SUBSET Nat, T # {}
  PROVE  \E x \in T : \A y \in T : x <= y
  <1> DEFINE Less == {ss \in Nat \X Nat : ss[1] < ss[2]}
  <1>1. Less = OpToRel(<, Nat)
    BY DEF OpToRel
  <1>2. IsWellFoundedOn(Less, Nat)
    BY <1>1, NatLessThanWellFounded
  <1> HIDE DEF Less
  <1>3. \E x \in T : \A y \in T : <<y, x>> \notin Less
    BY <1>2, WFMin
  <1>4. \A x, y \in Nat : y < x => <<y, x>> \in Less
    BY DEF Less
  <1>5. PICK x \in T : \A y \in T : <<y, x>> \notin Less
    BY <1>3
  <1>6. \A y \in T : x \in Nat /\ y \in Nat /\ ~(y < x)
    BY <1>4, <1>5
  <1> QED
    BY <1>6

\* Max of a finite set is its largest element.
LEMMA Largest ==
  ASSUME NEW S \in SUBSET Nat, IsFiniteSet(S), S # {}
  PROVE  Max(S) \in S /\ \A y \in S : Max(S) >= y
  <1> DEFINE Above(x) == {y \in S : y > x}
             Count    == {Cardinality(Above(x)) : x \in S}
  <1>1. \A x \in S : IsFiniteSet(Above(x)) /\ Cardinality(Above(x)) \in Nat
    BY FS_Subset, FS_CardinalityType
  <1>2. PICK x \in S : \A y \in S : Cardinality(Above(x)) <= Cardinality(Above(y))
    <2>1. Count \in SUBSET Nat /\ Count # {}
      BY <1>1
    <2>2. PICK n \in Count : \A l \in Count : n <= l
      BY <2>1, Least
    <2> QED
      BY <2>2
  <1>3. \A y \in S : x >= y
    <2> SUFFICES ASSUME NEW y \in S, y > x PROVE FALSE
      OBVIOUS
    <2>1. Above(y) \in SUBSET Above(x)
      <3> SUFFICES ASSUME NEW z \in S, z > y PROVE z > x
        OBVIOUS
      <3>1. x \in Nat /\ y \in Nat /\ z \in Nat
        OBVIOUS
      <3> QED
        BY <3>1
    <2>2. Above(y) # Above(x)
      <3>1. y \in Nat /\ ~(y > y)
        OBVIOUS
      <3>2. y \in Above(x) /\ y \notin Above(y)
        BY <3>1
      <3> QED
        BY <3>2
    <2>3. /\ Cardinality(Above(y)) <= Cardinality(Above(x))
          /\ Cardinality(Above(x)) # Cardinality(Above(y))
      BY <1>1, <2>1, <2>2, FS_Subset
    <2> HIDE DEF Above
    <2> QED
      BY <1>1, <1>2, <2>3
  <1> QED
    BY <1>3 DEF Max

LEMMA ParamsOf ==
  ASSUME NEW p \in Plugins
  PROVE  p.params \in Nat /\ 0 .. p.params - 1 \subseteq Params
  <1> DEFINE S == {q.params : q \in Plugins}
  <1>1. \A q \in Plugins : q.params \in Nat
    BY UGenAssumption DEF PluginModels
  <1>2. S \in SUBSET Nat /\ S # {} /\ p.params \in S
    BY <1>1
  <1>3. IsFiniteSet(S)
    <2> DEFINE f == [q \in Plugins |-> q.params]
    <2>1. f \in Surjection(Plugins, S)
      BY DEF Surjection
    <2> HIDE DEF f
    <2> QED
      BY <2>1, UGenAssumption, FS_Surjection
  <1>4. Max(S) >= p.params /\ Max(S) \in Nat
    BY <1>2, <1>3, Largest
  <1> QED
    BY <1>1, <1>4 DEF Params
--------------------------------------------------------------------------------
(* The mapping *)

BusWords == 0 .. 2 * Max31 - 1

\* a parameter that has a mapping gets another bus
LEMMA MovedList ==
  ASSUME NEW m, List(m), NEW i \in DOMAIN m.table, m.table[i] # Nil,
         NEW bus \in BusWords
  PROVE  LET r == [m EXCEPT !.cell[m.table[i]].bus = bus]
         IN  List(r) /\ r.ok = m.ok /\ DOMAIN r.table = DOMAIN m.table
  <1> DEFINE c == m.table[i]
             r == [m EXCEPT !.cell[m.table[i]].bus = bus]
  <1>1. c \in DOMAIN m.cell
    BY DEF List, Indexed
  <1>2. r = [cell |-> [m.cell EXCEPT ![c].bus = bus], head |-> m.head,
             table |-> m.table, ok |-> m.ok]
    BY <1>1 DEF List, MapType
  <1>3. /\ r.head = m.head /\ r.table = m.table /\ r.ok = m.ok
        /\ r.cell = [m.cell EXCEPT ![c].bus = bus]
    BY <1>2
  <1> HIDE DEF c
  <1>4. /\ DOMAIN r.cell = DOMAIN m.cell
        /\ r.cell = [d \in DOMAIN r.cell |-> r.cell[d]]
    BY <1>1, <1>3 DEF List, MapType
  <1>5. \A d \in DOMAIN m.cell :
          /\ r.cell[d] \in Mappings
          /\ r.cell[d].index = m.cell[d].index
          /\ r.cell[d].next = m.cell[d].next /\ r.cell[d].prev = m.cell[d].prev
    <2> SUFFICES ASSUME NEW d \in DOMAIN m.cell
                 PROVE  /\ r.cell[d] \in Mappings
                        /\ r.cell[d].index = m.cell[d].index
                        /\ r.cell[d].next = m.cell[d].next
                        /\ r.cell[d].prev = m.cell[d].prev
      OBVIOUS
    <2>1. m.cell[d] \in Mappings
      BY DEF List, MapType
    <2>2. r.cell[d] = IF d = c THEN [m.cell[d] EXCEPT !.bus = bus] ELSE m.cell[d]
      BY <1>1, <1>3 DEF List, MapType
    <2> QED
      BY <2>1, <2>2 DEF Mappings, BusWords
  <1> HIDE DEF r
  <1>6. r = [cell |-> r.cell, head |-> r.head, table |-> r.table, ok |-> r.ok]
    BY <1>2, <1>3
  <1>7. MapType(r)
    BY <1>3, <1>4, <1>5, <1>6 DEF List, MapType
  <1>8. Indexed(r)
    BY <1>3, <1>4, <1>5 DEF List, Indexed
  <1>9. \E s, n : Linked(r, s, n)
    <2>1. PICK s, n : Linked(m, s, n)
      BY DEF List
    <2>2. Linked(r, s, n)
      BY <1>3, <1>4, <1>5, <2>1 DEF Linked
    <2> QED
      BY <2>2
  <1> QED
    BY <1>3, <1>7, <1>8, <1>9 DEF List, r

\* a new mapping becomes the head of the list
LEMMA GrownList ==
  ASSUME NEW m, List(m), NEW i \in DOMAIN m.table, m.table[i] = Nil,
         NEW bus \in BusWords, NEW c \in Cells \ DOMAIN m.cell
  PROVE  LET r == Mapped(m, i, bus, c)
         IN  List(r) /\ r.ok = m.ok /\ DOMAIN r.table = DOMAIN m.table
  <1> DEFINE r   == Mapped(m, i, bus, c)
             new == [index |-> i, bus |-> bus, prev |-> Nil, next |-> m.head]
             all == DOMAIN m.cell \cup {c}
             cells == [d \in all |->
                         IF d = c THEN new
                         ELSE IF d = m.head THEN [m.cell[d] EXCEPT !.prev = c]
                         ELSE m.cell[d]]
  <1>1. PICK s, n : Linked(m, s, n)
    BY DEF List
  <1>2. /\ c \notin DOMAIN m.cell /\ c # Nil /\ Nil \notin DOMAIN m.cell
        /\ i \in Params
    BY UGenAssumption DEF List, MapType
  <1>3. m.head # Nil => m.head \in DOMAIN m.cell
    BY <1>1 DEF Linked, At
  <1>5. /\ r.cell = cells
        /\ r.head = c /\ r.table = [m.table EXCEPT ![i] = c] /\ r.ok = m.ok
        /\ r = [cell |-> r.cell, head |-> r.head, table |-> r.table, ok |-> r.ok]
    <2>1. m = [cell |-> m.cell, head |-> m.head, table |-> m.table, ok |-> m.ok]
      BY DEF List, MapType
    <2>2. r = [m EXCEPT !.cell = cells, !.head = c, !.table[i] = c]
      BY DEF Mapped
    <2> HIDE DEF r, cells
    <2>3. r = [cell |-> cells, head |-> c, table |-> [m.table EXCEPT ![i] = c],
               ok |-> m.ok]
      BY <2>1, <2>2
    <2> QED
      BY <2>3
  <1>6. /\ DOMAIN r.cell = all /\ r.cell[c] = new
        /\ r.cell = [d \in DOMAIN r.cell |-> r.cell[d]]
    BY <1>5
  <1>7. \A d \in DOMAIN m.cell :
          /\ r.cell[d] \in Mappings
          /\ r.cell[d].index = m.cell[d].index
          /\ r.cell[d].next = m.cell[d].next
          /\ r.cell[d].prev = IF d = m.head THEN c ELSE m.cell[d].prev
    <2> SUFFICES ASSUME NEW d \in DOMAIN m.cell
                 PROVE  /\ r.cell[d] \in Mappings
                        /\ r.cell[d].index = m.cell[d].index
                        /\ r.cell[d].next = m.cell[d].next
                        /\ r.cell[d].prev = IF d = m.head THEN c ELSE m.cell[d].prev
      OBVIOUS
    <2>1. m.cell[d] \in Mappings /\ d # c /\ d \in all
      BY <1>2 DEF List, MapType
    <2>2. r.cell[d] = IF d = m.head THEN [m.cell[d] EXCEPT !.prev = c] ELSE m.cell[d]
      BY <1>5, <2>1
    <2> QED
      BY <2>1, <2>2 DEF Mappings
  <1> HIDE DEF cells
  <1>8. m.head \in Cells \cup {Nil}
    BY <1>3 DEF List, MapType
  <1>9. new \in Mappings
    BY <1>2, <1>8 DEF Mappings, BusWords
  <1>10. /\ r.cell[c].index = i /\ r.cell[c].prev = Nil /\ r.cell[c].next = m.head
         /\ r.cell[c] \in Mappings
    BY <1>6, <1>9
  <1> HIDE DEF r, new
  <1>11. /\ DOMAIN r.table = DOMAIN m.table /\ r.table[i] = c
         /\ r.table = [j \in DOMAIN r.table |-> r.table[j]]
         /\ \A j \in DOMAIN m.table : j # i => r.table[j] = m.table[j]
    BY <1>5 DEF List, MapType
  <1>12. MapType(r)
    BY <1>5, <1>6, <1>7, <1>10, <1>11 DEF List, MapType
  <1>13. Indexed(r)
    <2>1. \A d \in DOMAIN m.cell : m.cell[d].index # i
      BY <1>2 DEF List, Indexed
    <2>2. \A d \in DOMAIN r.cell : /\ r.cell[d].index \in DOMAIN r.table
                                   /\ r.table[r.cell[d].index] = d
      BY <1>6, <1>7, <1>10, <1>11, <2>1 DEF List, Indexed
    <2>3. \A j \in DOMAIN r.table :
            r.table[j] # Nil => /\ r.table[j] \in DOMAIN r.cell
                                /\ r.cell[r.table[j]].index = j
      BY <1>2, <1>6, <1>7, <1>10, <1>11 DEF List, Indexed
    <2> QED
      BY <2>2, <2>3 DEF Indexed
  <1>14. \E t, l : Linked(r, t, l)
    <2> DEFINE t == [k \in 1 .. n + 1 |-> IF k = 1 THEN c ELSE s[k - 1]]
    <2>1. n \in Nat /\ n + 1 \in Nat
      BY <1>1 DEF Linked
    <2>2. /\ t \in [1 .. n + 1 -> all] /\ t[1] = c
          /\ \A k \in 2 .. n + 1 : k - 1 \in 1 .. n /\ t[k] = s[k - 1] /\ t[k] # c
                                   /\ t[k] \in DOMAIN m.cell
      <3>1. \A k \in 1 .. n : s[k] \in DOMAIN m.cell /\ s[k] # c
        BY <1>1, <1>2 DEF Linked
      <3>2. \A k \in 2 .. n + 1 : k \in 1 .. n + 1 /\ k # 1 /\ k - 1 \in 1 .. n
        BY <2>1
      <3>3. t[1] = c
        BY <2>1
      <3>4. \A k \in 2 .. n + 1 : t[k] = s[k - 1]
        BY <3>2
      <3>5. t \in [1 .. n + 1 -> all]
        BY <2>1, <3>1
      <3> QED
        BY <3>1, <3>2, <3>3, <3>4, <3>5
    <2>3. \A k \in 1 .. n : k + 1 \in 2 .. n + 1 /\ t[k + 1] = s[k]
      BY <2>1, <2>2
    <2> HIDE DEF t
    <2>4. \A k, l \in 1 .. n + 1 : t[k] = t[l] => k = l
      <3> SUFFICES ASSUME NEW k \in 1 .. n + 1, NEW l \in 1 .. n + 1, t[k] = t[l]
                   PROVE  k = l
        OBVIOUS
      <3>1. CASE k = 1 \/ l = 1
        BY <2>1, <2>2, <3>1
      <3>2. CASE k # 1 /\ l # 1
        <4>1. k \in 2 .. n + 1 /\ l \in 2 .. n + 1
          BY <2>1, <3>2
        <4>2. k - 1 = l - 1
          BY <1>1, <2>2, <4>1 DEF Linked
        <4> QED
          BY <4>1, <4>2
      <3> QED
        BY <3>1, <3>2
    <2>5. \A d \in all : \E k \in 1 .. n + 1 : t[k] = d
      <3> SUFFICES ASSUME NEW d \in all PROVE \E k \in 1 .. n + 1 : t[k] = d
        OBVIOUS
      <3>1. CASE d = c
        BY <2>1, <2>2, <3>1
      <3>2. CASE d # c
        <4>1. PICK k \in 1 .. n : s[k] = d
          BY <1>1, <3>2 DEF Linked
        <4>2. t[k + 1] = d /\ k + 1 \in 1 .. n + 1
          BY <2>1, <2>3, <4>1
        <4> QED
          BY <4>2
      <3> QED
        BY <3>1, <3>2
    <2>6. m.head = At(t, n + 1, 2)
      <3>1. CASE n = 0
        BY <1>1, <3>1 DEF Linked, At
      <3>2. CASE n # 0
        BY <1>1, <2>1, <2>3, <3>2 DEF Linked, At
      <3> QED
        BY <3>1, <3>2
    <2>7. \A k \in 2 .. n + 1 : r.cell[t[k]].next = At(t, n + 1, k + 1)
      <3> SUFFICES ASSUME NEW k \in 2 .. n + 1
                   PROVE  r.cell[t[k]].next = At(t, n + 1, k + 1)
        OBVIOUS
      <3>1. r.cell[t[k]].next = m.cell[s[k - 1]].next
        BY <1>7, <2>2
      <3>2. m.cell[s[k - 1]].next = At(s, n, k)
        <4>1. (k - 1) + 1 = k
          BY <2>1
        <4> QED
          BY <1>1, <2>2, <4>1 DEF Linked
      <3>3. At(s, n, k) = At(t, n + 1, k + 1)
        <4>1. k \in Nat /\ k >= 2 /\ (k \in 1 .. n <=> k + 1 \in 1 .. n + 1)
          BY <2>1
        <4> QED
          BY <2>3, <4>1 DEF At
      <3> QED
        BY <3>1, <3>2, <3>3
    <2>8. \A k \in 2 .. n + 1 : r.cell[t[k]].prev = At(t, n + 1, k - 1)
      <3> SUFFICES ASSUME NEW k \in 2 .. n + 1
                   PROVE  r.cell[t[k]].prev = At(t, n + 1, k - 1)
        OBVIOUS
      <3>1. k - 1 \in 1 .. n /\ t[k] = s[k - 1] /\ s[k - 1] \in DOMAIN m.cell
        BY <2>2
      <3>2. m.cell[s[k - 1]].prev = At(s, n, (k - 1) - 1)
        BY <1>1, <3>1 DEF Linked
      <3>3. CASE k = 2
        <4>1. s[k - 1] = m.head
          BY <1>1, <2>1, <3>1, <3>3 DEF Linked, At
        <4>2. At(t, n + 1, k - 1) = c
          BY <2>1, <2>2, <3>3 DEF At
        <4> QED
          BY <1>7, <3>1, <4>1, <4>2
      <3>4. CASE k # 2
        <4>1. /\ k - 1 # 1 /\ 1 \in 1 .. n /\ (k - 1) - 1 \in 1 .. n
              /\ ((k - 1) - 1) + 1 = k - 1 /\ k - 1 \in 1 .. n + 1
          BY <2>1, <3>1, <3>4
        <4>2. s[k - 1] # m.head
          BY <1>1, <3>1, <4>1 DEF Linked, At
        <4>3. At(s, n, (k - 1) - 1) = At(t, n + 1, k - 1)
          BY <2>3, <4>1 DEF At
        <4> QED
          BY <1>7, <3>1, <3>2, <4>2, <4>3
      <3> QED
        BY <3>3, <3>4
    <2>9. /\ r.cell[t[1]].next = At(t, n + 1, 1 + 1)
          /\ r.cell[t[1]].prev = At(t, n + 1, 1 - 1)
      BY <1>10, <2>2, <2>6 DEF At
    <2>10. \A k \in 1 .. n + 1 : k = 1 \/ k \in 2 .. n + 1
      BY <2>1
    <2>11. \A k \in 1 .. n + 1 : /\ r.cell[t[k]].next = At(t, n + 1, k + 1)
                                 /\ r.cell[t[k]].prev = At(t, n + 1, k - 1)
      BY <2>7, <2>8, <2>9, <2>10
    <2>12. r.head = At(t, n + 1, 1)
      BY <1>5, <2>1, <2>2 DEF At
    <2>13. Linked(r, t, n + 1)
      BY <1>6, <2>1, <2>2, <2>4, <2>5, <2>11, <2>12 DEF Linked
    <2> QED
      BY <2>13
  <1> QED
    BY <1>5, <1>11, <1>12, <1>13, <1>14 DEF List, r

\* map, whatever the table and the memory are
LEMMA MapList ==
  ASSUME NEW m, List(m), NEW i \in DOMAIN m.table, NEW bus \in BusWords,
         NEW r \in {Map(m, i, bus, TRUE), Map(m, i, bus, FALSE)}
  PROVE  List(r) /\ r.ok = m.ok /\ DOMAIN r.table = DOMAIN m.table
  <1> DEFINE free == Cells \ DOMAIN m.cell
             c    == CHOOSE d \in free : TRUE
  <1>1. free # {} => c \in free
    OBVIOUS
  <1> HIDE DEF c
  <1>2. CASE m.table[i] # Nil
    <2>1. r = [m EXCEPT !.cell[m.table[i]].bus = bus]
      BY <1>2 DEF Map
    <2> QED
      BY <1>2, <2>1, MovedList
  <1>3. CASE r = m
    BY <1>3
  <1>4. CASE m.table[i] = Nil /\ free # {} /\ r = Mapped(m, i, bus, c)
    BY <1>1, <1>4, GrownList
  <1> QED
    BY <1>2, <1>3, <1>4 DEF Map, c

\* the list s without its j-th element
LEMMA Without ==
  ASSUME NEW S, NEW n \in Nat, NEW s \in [1 .. n -> S], NEW j \in 1 .. n, NEW t,
         t = [k \in 1 .. n - 1 |-> IF k < j THEN s[k] ELSE s[k + 1]]
  PROVE  \A k \in Int :
           At(t, n - 1, k) = IF k < j THEN At(s, n, k) ELSE At(s, n, k + 1)
  <1> SUFFICES ASSUME NEW k \in Int
               PROVE  At(t, n - 1, k) = IF k < j THEN At(s, n, k) ELSE At(s, n, k + 1)
    OBVIOUS
  <1>1. CASE k < j
    <2>1. (k \in 1 .. n - 1) <=> (k \in 1 .. n)
      BY <1>1
    <2> QED
      BY <1>1, <2>1 DEF At
  <1>2. CASE ~(k < j)
    <2>1. (k \in 1 .. n - 1) <=> (k + 1 \in 1 .. n)
      BY <1>2
    <2> QED
      BY <1>2, <2>1 DEF At
  <1> QED
    BY <1>1, <1>2

\* a mapping is taken out of the list
LEMMA ShrunkList ==
  ASSUME NEW m, List(m), NEW i \in DOMAIN m.table
  PROVE  LET r == Unmap(m, i)
         IN  List(r) /\ r.ok = m.ok /\ DOMAIN r.table = DOMAIN m.table
  <1>1. CASE m.table[i] = Nil
    BY <1>1 DEF Unmap
  <1>2. CASE m.table[i] # Nil
    <2> DEFINE c     == m.table[i]
               r     == Unmap(m, i)
               gone  == m.cell[c]
               cells == [d \in DOMAIN m.cell \ {c} |->
                     [m.cell[d] EXCEPT !.next = IF d = gone.prev THEN gone.next
                                                ELSE @,
                                       !.prev = IF d = gone.next THEN gone.prev
                                                ELSE @]]
               head  == IF gone.prev = Nil THEN gone.next ELSE m.head
    <2>1. c \in DOMAIN m.cell /\ gone.index = i /\ Nil \notin DOMAIN m.cell
      BY <1>2, UGenAssumption DEF List, Indexed, MapType
    <2>2. /\ r.cell = cells /\ r.head = head /\ r.ok = m.ok
          /\ r.table = [m.table EXCEPT ![i] = Nil]
          /\ r = [cell |-> r.cell, head |-> r.head, table |-> r.table, ok |-> r.ok]
      <3>1. m = [cell |-> m.cell, head |-> m.head, table |-> m.table, ok |-> m.ok]
        BY DEF List, MapType
      <3>2. r = [m EXCEPT !.cell = cells, !.table[i] = Nil, !.head = head]
        BY <1>2, <3>1 DEF Unmap
      <3> HIDE DEF r, cells, head
      <3>3. r = [cell |-> cells, head |-> head, table |-> [m.table EXCEPT ![i] = Nil],
                 ok |-> m.ok]
        BY <3>1, <3>2
      <3> QED
        BY <3>3
    <2> HIDE DEF r
    <2>3. gone \in Mappings
      BY <2>1 DEF List, MapType
    <2>4. /\ DOMAIN r.cell = DOMAIN m.cell \ {c}
          /\ r.cell = [d \in DOMAIN r.cell |-> r.cell[d]]
      BY <2>2
    <2>5. \A d \in DOMAIN m.cell \ {c} :
            /\ r.cell[d] \in Mappings
            /\ r.cell[d].index = m.cell[d].index
            /\ r.cell[d].next = IF d = gone.prev THEN gone.next ELSE m.cell[d].next
            /\ r.cell[d].prev = IF d = gone.next THEN gone.prev ELSE m.cell[d].prev
      <3> SUFFICES ASSUME NEW d \in DOMAIN m.cell \ {c}
            PROVE  /\ r.cell[d] \in Mappings
                   /\ r.cell[d].index = m.cell[d].index
                   /\ r.cell[d].next = IF d = gone.prev THEN gone.next ELSE m.cell[d].next
                   /\ r.cell[d].prev = IF d = gone.next THEN gone.prev ELSE m.cell[d].prev
        OBVIOUS
      <3>1. m.cell[d] \in Mappings
        BY DEF List, MapType
      <3>2. r.cell[d] = [m.cell[d] EXCEPT !.next = IF d = gone.prev THEN gone.next ELSE @,
                                          !.prev = IF d = gone.next THEN gone.prev ELSE @]
        BY <2>2
      <3> HIDE DEF gone
      <3> QED
        BY <2>3, <3>1, <3>2 DEF Mappings
    <2>6. /\ DOMAIN r.table = DOMAIN m.table /\ r.table[i] = Nil
          /\ r.table = [k \in DOMAIN r.table |-> r.table[k]]
          /\ \A k \in DOMAIN m.table : k # i => r.table[k] = m.table[k]
      <3>1. r.table = [m.table EXCEPT ![i] = Nil]
        BY <2>2
      <3> QED
        BY ONLY i \in DOMAIN m.table, <3>1
    <2>7. MapType(r)
      BY <2>2, <2>4, <2>5, <2>6 DEF List, MapType
    <2>8. Indexed(r)
      <3>1. \A d \in DOMAIN m.cell \ {c} : m.cell[d].index # i
        BY DEF List, Indexed
      <3>2. \A d \in DOMAIN r.cell : /\ r.cell[d].index \in DOMAIN r.table
                                     /\ r.table[r.cell[d].index] = d
        BY <2>4, <2>5, <2>6, <3>1 DEF List, Indexed
      <3>3. \A k \in DOMAIN r.table :
              r.table[k] # Nil => /\ r.table[k] \in DOMAIN r.cell
                                  /\ r.cell[r.table[k]].index = k
        BY <2>1, <2>4, <2>5, <2>6 DEF List, Indexed
      <3> QED
        BY <3>2, <3>3 DEF Indexed
    <2>9. PICK s, n : Linked(m, s, n)
      BY DEF List
    <2>10. PICK j \in 1 .. n : s[j] = c
      BY <2>1, <2>9 DEF Linked
    <2>11. /\ n \in Nat /\ n - 1 \in Nat /\ j \in Nat /\ j >= 1 /\ j <= n
           /\ s \in [1 .. n -> DOMAIN m.cell]
      BY <2>9 DEF Linked
    <2>12. gone.next = At(s, n, j + 1) /\ gone.prev = At(s, n, j - 1)
      BY <2>9, <2>10 DEF Linked
    <2> DEFINE t == [k \in 1 .. n - 1 |-> IF k < j THEN s[k] ELSE s[k + 1]]
               P(k) == IF k < j THEN k ELSE k + 1
    <2>13. \A k \in Int :
             At(t, n - 1, k) = IF k < j THEN At(s, n, k) ELSE At(s, n, k + 1)
      <3>1. t = [k \in 1 .. n - 1 |-> IF k < j THEN s[k] ELSE s[k + 1]]
        OBVIOUS
      <3>2. n \in Nat /\ j \in 1 .. n /\ s \in [1 .. n -> DOMAIN m.cell]
        BY <2>11
      <3> HIDE DEF t
      <3> QED
        BY <3>1, <3>2, Without, Zenon
    <2>14. \A k \in 1 .. n - 1 : P(k) \in 1 .. n /\ P(k) # j /\ t[k] = s[P(k)]
      BY <2>11
    <2>15. \A k \in 1 .. n, l \in Int : s[k] = At(s, n, l) <=> k = l
      BY <2>1, <2>9 DEF Linked, At
    <2> HIDE DEF t, gone, c
    <2>16. \A k \in 1 .. n - 1 : t[k] \in DOMAIN m.cell \ {c}
      <3> SUFFICES ASSUME NEW k \in 1 .. n - 1 PROVE t[k] \in DOMAIN m.cell \ {c}
        OBVIOUS
      <3>1. P(k) \in 1 .. n /\ P(k) # j /\ t[k] = s[P(k)]
        BY <2>14
      <3> HIDE DEF P
      <3> QED
        BY <2>9, <2>10, <3>1 DEF Linked
    <2>17. \A k \in 1 .. n - 1 : r.cell[t[k]].next = At(t, n - 1, k + 1)
      <3> SUFFICES ASSUME NEW k \in 1 .. n - 1
                   PROVE  r.cell[t[k]].next = At(t, n - 1, k + 1)
        OBVIOUS
      <3>1. m.cell[s[P(k)]].next = At(s, n, P(k) + 1)
        BY <2>9, <2>14 DEF Linked
      <3>2. r.cell[t[k]].next = IF P(k) = j - 1 THEN At(s, n, j + 1)
                                ELSE At(s, n, P(k) + 1)
        BY <2>5, <2>11, <2>12, <2>14, <2>15, <2>16, <3>1
      <3>3. k \in Nat /\ k + 1 \in Int
        BY <2>11
      <3>4. At(t, n - 1, k + 1) = IF k + 1 < j THEN At(s, n, k + 1)
                                  ELSE At(s, n, (k + 1) + 1)
        BY <2>13, <3>3
      <3>5. CASE k + 1 < j
        <4>1. P(k) = k /\ k # j - 1
          BY <2>11, <3>3, <3>5
        <4> QED
          BY <3>2, <3>4, <3>5, <4>1
      <3>6. CASE k + 1 = j
        <4>1. P(k) = j - 1 /\ (k + 1) + 1 = j + 1 /\ ~(k + 1 < j)
          BY <2>11, <3>3, <3>6
        <4> QED
          BY <3>2, <3>4, <4>1
      <3>7. CASE k + 1 > j
        <4>1. P(k) = k + 1 /\ P(k) # j - 1 /\ ~(k + 1 < j)
          BY <2>11, <3>3, <3>7
        <4> QED
          BY <3>2, <3>4, <4>1
      <3> QED
        BY <2>11, <3>3, <3>5, <3>6, <3>7
    <2>18. \A k \in 1 .. n - 1 : r.cell[t[k]].prev = At(t, n - 1, k - 1)
      <3> SUFFICES ASSUME NEW k \in 1 .. n - 1
                   PROVE  r.cell[t[k]].prev = At(t, n - 1, k - 1)
        OBVIOUS
      <3>1. m.cell[s[P(k)]].prev = At(s, n, P(k) - 1)
        BY <2>9, <2>14 DEF Linked
      <3>2. r.cell[t[k]].prev = IF P(k) = j + 1 THEN At(s, n, j - 1)
                                ELSE At(s, n, P(k) - 1)
        BY <2>5, <2>11, <2>12, <2>14, <2>15, <2>16, <3>1
      <3>3. k \in Nat /\ k - 1 \in Int
        BY <2>11
      <3>4. At(t, n - 1, k - 1) = IF k - 1 < j THEN At(s, n, k - 1)
                                  ELSE At(s, n, (k - 1) + 1)
        BY <2>13, <3>3
      <3>5. CASE k < j
        <4>1. P(k) = k /\ k # j + 1 /\ k - 1 < j
          BY <2>11, <3>3, <3>5
        <4> QED
          BY <3>2, <3>4, <4>1
      <3>6. CASE k = j
        <4>1. P(k) = j + 1 /\ k - 1 = j - 1 /\ k - 1 < j
          BY <2>11, <3>3, <3>6
        <4> QED
          BY <3>2, <3>4, <4>1
      <3>7. CASE k > j
        <4>1. P(k) - 1 = (k - 1) + 1 /\ P(k) # j + 1 /\ ~(k - 1 < j)
          BY <2>11, <3>3, <3>7
        <4> QED
          BY <3>2, <3>4, <4>1
      <3> QED
        BY <2>11, <3>3, <3>5, <3>6, <3>7
    <2>19. r.head = At(t, n - 1, 1)
      <3>1. r.head = IF At(s, n, j - 1) = Nil THEN At(s, n, j + 1) ELSE At(s, n, 1)
        BY <2>2, <2>9, <2>12 DEF Linked
      <3>2. At(s, n, j - 1) = Nil <=> j = 1
        BY <2>1, <2>11 DEF At
      <3>3. At(t, n - 1, 1) = IF 1 < j THEN At(s, n, 1) ELSE At(s, n, 1 + 1)
        BY <2>13
      <3>4. (1 < j <=> j # 1) /\ (j = 1 => j + 1 = 1 + 1)
        BY <2>11
      <3> QED
        BY <3>1, <3>2, <3>3, <3>4
    <2>20. \A k, l \in 1 .. n - 1 : t[k] = t[l] => k = l
      <3> SUFFICES ASSUME NEW k \in 1 .. n - 1, NEW l \in 1 .. n - 1, t[k] = t[l]
                   PROVE  k = l
        OBVIOUS
      <3>1. P(k) = P(l)
        BY <2>9, <2>14 DEF Linked
      <3> QED
        BY <2>11, <3>1
    <2>21. \A d \in DOMAIN m.cell \ {c} : \E k \in 1 .. n - 1 : t[k] = d
      <3> SUFFICES ASSUME NEW d \in DOMAIN m.cell \ {c}
                   PROVE  \E k \in 1 .. n - 1 : t[k] = d
        OBVIOUS
      <3>1. PICK l \in 1 .. n : s[l] = d
        BY <2>9 DEF Linked
      <3>2. CASE l < j
        BY <2>11, <3>1, <3>2 DEF t
      <3>3. CASE ~(l < j)
        <4>1. l - 1 \in 1 .. n - 1 /\ ~(l - 1 < j) /\ (l - 1) + 1 = l
          BY <2>10, <2>11, <3>1, <3>3
        <4>2. t[l - 1] = d
          BY <3>1, <4>1 DEF t
        <4> QED
          BY <4>1, <4>2
      <3> QED
        BY <3>2, <3>3
    <2>22. t \in [1 .. n - 1 -> DOMAIN m.cell \ {c}]
      BY <2>16 DEF t
    <2>23. Linked(r, t, n - 1)
      BY <2>4, <2>11, <2>17, <2>18, <2>19, <2>20, <2>21, <2>22 DEF Linked
    <2> QED
      BY <2>2, <2>6, <2>7, <2>8, <2>23 DEF List, r
  <1> QED
    BY <1>1, <1>2

\* the list without mappings
LEMMA NoMappings ==
  ASSUME NEW m, DOMAIN m.cell = {}, m.head = Nil, DOMAIN m.table \subseteq Params,
         m = [cell |-> m.cell, head |-> m.head, table |-> m.table, ok |-> m.ok],
         m.cell = [c \in {} |-> m.cell[c]],
         m.table = [i \in DOMAIN m.table |-> Nil]
  PROVE  List(m)
  <1>1. \A i \in DOMAIN m.table : m.table[i] = Nil
    OBVIOUS
  <1>2. MapType(m) /\ Indexed(m)
    BY <1>1 DEF MapType, Indexed
  <1> DEFINE s == [k \in {} |-> Nil]
  <1>3. 1 .. 0 = {} /\ s \in [1 .. 0 -> DOMAIN m.cell]
    OBVIOUS
  <1> HIDE DEF s
  <1>4. Linked(m, s, 0)
    BY <1>3 DEF Linked, At
  <1> QED
    BY <1>2, <1>4 DEF List
--------------------------------------------------------------------------------
(* Commands around the constructor *)

LEMMA UnitInitially == Init => UnitInv
  <1>1. Foreign \in Memory
    BY UGenAssumption DEF Foreign, Memory
  <1> QED
    BY <1>1 DEF Init, UnitInv, Foreign

LEMMA NewSynthStep == ASSUME UnitInv, NewSynth PROVE UnitInv'
  <1> DEFINE old == [mem EXCEPT !.sent = 0, !.list = [k \in DOMAIN @ |-> 0]]
  <1>1. unit = "none" /\ unit' = "raw" /\ mem' \in {Foreign, old}
    BY DEF NewSynth
  <1>2. Foreign \in Memory /\ ~Foreign.queued
    BY UGenAssumption DEF Foreign, Memory
  <1>3. old \in Memory /\ old.queued = mem.queued
    <2>1. mem.list \in Seq(0 .. MaxQueue) /\ 0 \in 0 .. MaxQueue
      BY UGenAssumption DEF UnitInv, Memory
    <2> DEFINE blank == [k \in DOMAIN mem.list |-> 0]
    <2>2. DOMAIN mem.list = 1 .. Len(mem.list) /\ Len(mem.list) \in Nat
      BY <2>1
    <2>3. blank \in Seq(0 .. MaxQueue)
      BY <2>1, <2>2
    <2> HIDE DEF blank
    <2>4. old = [mem EXCEPT !.sent = 0, !.list = blank]
      BY DEF UnitInv, Memory, blank
    <2> QED
      BY <2>1, <2>3, <2>4 DEF UnitInv, Memory
  <1> QED
    BY <1>1, <1>2, <1>3 DEF UnitInv

LEMMA QueueStep == ASSUME UnitInv, QueueUnitCmd PROVE UnitInv'
  <1> DEFINE list == IF mem.queued THEN mem.list ELSE <<>>
  <1>1. PICK got \in BOOLEAN :
          mem' = [mem EXCEPT !.queued = TRUE, !.sent = @ + 1,
                    !.list = IF got THEN Append(list, mem.sent + 1) ELSE list]
    BY DEF QueueUnitCmd
  <1>2. unit = "raw" /\ unit' = unit /\ mem.sent < MaxQueue /\ MaxQueue \in Nat
    BY UGenAssumption DEF QueueUnitCmd
  <1>3. mem.sent + 1 \in 0 .. MaxQueue /\ mem.sent \in Nat
    BY <1>2 DEF UnitInv, Memory
  <1>4. list \in Seq(0 .. MaxQueue)
    <2> DEFINE S == 0 .. MaxQueue
    <2> HIDE DEF S
    <2>1. <<>> \in Seq(S)
      OBVIOUS
    <2>2. mem.list \in Seq(S)
      BY DEF UnitInv, Memory, S
    <2> QED
      BY <2>1, <2>2 DEF S
  <1> HIDE DEF list
  <1> DEFINE new == IF got THEN Append(list, mem.sent + 1) ELSE list
  <1>5. new \in Seq(0 .. MaxQueue)
    <2>1. Append(list, mem.sent + 1) \in Seq(0 .. MaxQueue)
      BY <1>3, <1>4
    <2> QED
      BY <1>4, <2>1
  <1>6. mem' = [mem EXCEPT !.queued = TRUE, !.sent = mem.sent + 1, !.list = new]
    BY <1>1 DEF UnitInv, Memory
  <1> HIDE DEF new
  <1>7. mem' \in Memory /\ mem'.list = new /\ mem'.sent = mem.sent + 1
    BY <1>3, <1>5, <1>6 DEF UnitInv, Memory
  <1>8. ASSUME ~FreeUnbuilt PROVE InOrder(mem')
    <2>1. /\ \A k \in DOMAIN list : list[k] \in 1 .. mem.sent
          /\ \A k, l \in DOMAIN list : k < l => list[k] < list[l]
      BY <1>2, <1>8 DEF UnitInv, InOrder, list
    <2>2. CASE ~got
      BY <1>3, <1>7, <2>1, <2>2 DEF InOrder, new
    <2>3. CASE got
      <3>1. new = Append(list, mem.sent + 1)
        BY <2>3 DEF new
      <3>2. /\ DOMAIN new = 1 .. Len(list) + 1 /\ DOMAIN list = 1 .. Len(list)
            /\ Len(list) \in Nat /\ new[Len(list) + 1] = mem.sent + 1
            /\ \A k \in 1 .. Len(list) : new[k] = list[k]
        BY <1>3, <1>4, <3>1
      <3>3. \A k \in DOMAIN new : new[k] \in 1 .. mem.sent + 1
        BY <1>3, <2>1, <3>2
      <3>4. \A k, l \in DOMAIN new : k < l => new[k] < new[l]
        <4> SUFFICES ASSUME NEW k \in DOMAIN new, NEW l \in DOMAIN new, k < l
                     PROVE  new[k] < new[l]
          OBVIOUS
        <4>1. k \in DOMAIN list /\ new[k] = list[k] /\ list[k] \in 1 .. mem.sent
          BY <2>1, <3>2
        <4>2. CASE l = Len(list) + 1
          BY <1>3, <3>2, <4>1, <4>2
        <4>3. CASE l # Len(list) + 1
          <5>1. l \in DOMAIN list /\ new[l] = list[l]
            BY <3>2, <4>3
          <5> QED
            BY <2>1, <4>1, <5>1
        <4> QED
          BY <4>2, <4>3
      <3> QED
        BY <1>7, <3>3, <3>4 DEF InOrder
    <2> QED
      BY <2>2, <2>3
  <1> QED
    BY <1>2, <1>7, <1>8 DEF UnitInv

LEMMA UnitStep == ASSUME UnitInv, [Next]_vars PROVE UnitInv'
  <1>1. CASE NewSynth
    BY <1>1, NewSynthStep
  <1>2. CASE QueueUnitCmd
    BY <1>2, QueueStep
  <1>3. CASE Construct
    <2> DEFINE list == IF mem.queued THEN <<0>> ELSE <<>>
    <2>1. unit' = "built" /\ mem' = [mem EXCEPT !.initialized = TRUE, !.sent = 0,
                                                !.list = list]
      BY <1>3 DEF Construct
    <2>2. 0 \in 0 .. MaxQueue
      BY UGenAssumption
    <2>3. list \in Seq(0 .. MaxQueue)
      <3> DEFINE S == 0 .. MaxQueue
      <3> HIDE DEF S
      <3>1. <<>> \in Seq(S)
        OBVIOUS
      <3>2. <<0>> \in Seq(S)
        BY <2>2 DEF S
      <3> QED
        BY <3>1, <3>2 DEF S
    <2> HIDE DEF list
    <2> QED
      BY <2>1, <2>2, <2>3 DEF UnitInv, Memory
  <1>4. CASE FreeSynth
    <2>1. /\ unit' = "none" /\ unit \in {"raw", "built"}
          /\ unit = "raw" => FreeUnbuilt /\ mem' = mem
          /\ unit = "built" => mem' = [mem EXCEPT !.initialized = FALSE, !.queued = FALSE]
      BY <1>4, UGenAssumption DEF FreeSynth
    <2> QED
      BY <2>1 DEF UnitInv, Memory
  <1>5. CASE UNCHANGED synth
    BY <1>5 DEF UnitInv, InOrder, synth
  <1>6. NewSynth \/ QueueUnitCmd \/ Construct \/ FreeSynth \/ UNCHANGED synth
    BY DEF Next, vars, synth, MapParams, UnmapParam, UnmapAll, SetParam, PluginMoves,
           Opened, Closed, Suspend, Process, PassThrough
  <1> QED
    BY <1>1, <1>2, <1>3, <1>4, <1>5, <1>6

--------------------------------------------------------------------------------
(* The plugin *)

LEMMA PluginStep == ASSUME PluginInv, [Next]_vars PROVE PluginInv'
  <1>1. NotBypassed \in BypassStates
    BY DEF NotBypassed, BypassStates, Bypass
  <1>2. CASE Construct \/ FreeSynth
    BY <1>1, <1>2 DEF Construct, FreeSynth, NoPluginYet, PluginInv, Bypass
  <1>3. CASE Opened \/ Closed
    BY <1>1, <1>3 DEF Opened, Closed, PluginInv
  <1>4. CASE Suspend
    BY <1>4 DEF Suspend, PluginInv
  <1>5. CASE Process
    <2>1. PICK in \in Inputs, quiet \in BOOLEAN : ProcessWith(in, quiet)
      BY <1>5 DEF Process
    <2> DEFINE b == IF in.bypass # bypass THEN SetBypass(pb, in.bypass) ELSE pb
    <2>2. plugin \in Plugins
      BY <1>5 DEF Process, PluginInv
    <2>3. in.bypass \in Bypass
      BY <2>2, UGenAssumption DEF Inputs
    <2>4. b \in BypassStates
      BY <2>3 DEF PluginInv, SetBypass, BypassStates
    <2>5. bypass' = in.bypass /\ pb' = Processed(b, plugin.own, quiet)
      BY <2>1 DEF ProcessWith
    <2> HIDE DEF b
    <2>6. pb' \in BypassStates
      BY <2>4, <2>5 DEF Processed, BypassStates
    <2>7. UNCHANGED <<plugin, suspended>>
      BY <1>5 DEF Process
    <2> QED
      BY <2>3, <2>5, <2>6, <2>7 DEF PluginInv
  <1>6. CASE UNCHANGED <<plugin, suspended, bypass, pb>>
    BY <1>6 DEF PluginInv
  <1> QED
    BY <1>2, <1>3, <1>4, <1>5, <1>6
    DEF Next, vars, audio, NewSynth, QueueUnitCmd, MapParams, UnmapParam, UnmapAll,
        SetParam, PluginMoves, PassThrough

--------------------------------------------------------------------------------
(* The steps that change the mapping *)

LEMMA BusWord ==
  ASSUME NEW num \in Int, NEW isAudio \in BOOLEAN
  PROVE  Bus(num, isAudio) \in BusWords
  BY DEF Bus, BusWords, Max31

LEMMA NoListIsList == List(NoList)
  BY NoMappings DEF NoList, Empty

LEMMA ClearedIsList ==
  ASSUME NEW m, List(m)
  PROVE  /\ List(Cleared(m)) /\ Cleared(m).ok = m.ok
         /\ DOMAIN Cleared(m).table = DOMAIN m.table
  <1> DEFINE r == Cleared(m)
             none == [i \in DOMAIN m.table |-> Nil]
  <1>1. m = [cell |-> m.cell, head |-> m.head, table |-> m.table, ok |-> m.ok]
        /\ DOMAIN m.table \subseteq Params
    BY DEF List, MapType
  <1>2. r = [cell |-> Empty, head |-> Nil, table |-> none, ok |-> m.ok]
    <2>1. r = [m EXCEPT !.cell = Empty, !.head = Nil, !.table = none]
      BY <1>1 DEF Cleared
    <2> HIDE DEF r, none
    <2> QED
      BY <1>1, <2>1
  <1>3. DOMAIN none = DOMAIN m.table /\ none = [i \in DOMAIN none |-> Nil]
    OBVIOUS
  <1> HIDE DEF none, r
  <1>4. /\ r.cell = Empty /\ r.head = Nil /\ r.table = none /\ r.ok = m.ok
        /\ r = [cell |-> r.cell, head |-> r.head, table |-> r.table, ok |-> r.ok]
    BY <1>2
  <1>5. List(r)
    BY <1>1, <1>3, <1>4, NoMappings DEF Empty
  <1> QED
    BY <1>3, <1>4, <1>5 DEF r

\* what map and unmap leave is a mapping for the same parameters
LEMMA SameParams ==
  ASSUME PluginInv, MapInv, NEW r, pm' = r, plugin' = plugin,
         List(r), r.ok = pm.ok, DOMAIN r.table = DOMAIN pm.table
  PROVE  MapInv'
  BY DEF MapInv

LEMMA MapStep ==
  ASSUME PluginInv, MapInv, MapParams
  PROVE  MapInv'
  <1>1. PICK i \in Params, num \in Nums, count \in 1 .. 2, isAudio \in BOOLEAN,
             memory \in BOOLEAN :
          LET step(m, k) ==
                IF HasParam(i + k) THEN Map(m, i + k, Bus(num + k, isAudio), memory)
                ELSE m
          IN  IF pm.ok
              THEN /\ pm' = IF count = 1 THEN step(pm, 0) ELSE step(step(pm, 0), 1)
                   /\ UNCHANGED crashed
              ELSE crashed' = HasParam(i) /\ UNCHANGED pm
    BY DEF MapParams
  <1> DEFINE step(m, k) ==
               IF HasParam(i + k) THEN Map(m, i + k, Bus(num + k, isAudio), memory)
               ELSE m
  <1>2. plugin \in Plugins /\ plugin # NoPlugin /\ plugin' = plugin
    BY DEF MapParams, Checked, PluginInv
  <1>3. num \in Int
    BY UGenAssumption
  <1>4. CASE ~pm.ok
    BY <1>1, <1>2, <1>4, SameParams DEF MapInv
  <1>5. CASE pm.ok
    <2>1. DOMAIN pm.table = 0 .. plugin.params - 1
      BY <1>2, <1>5 DEF MapInv
    <2>2. ASSUME NEW m, List(m), DOMAIN m.table = 0 .. plugin.params - 1, NEW k \in 0 .. 1
          PROVE  /\ List(step(m, k)) /\ step(m, k).ok = m.ok
                 /\ DOMAIN step(m, k).table = DOMAIN m.table
      <3>1. CASE HasParam(i + k)
        <4>1. i + k \in DOMAIN m.table
          BY <2>2, <3>1 DEF HasParam
        <4>2. Bus(num + k, isAudio) \in BusWords
          BY <1>3, BusWord
        <4> DEFINE bus == Bus(num + k, isAudio)
                   j   == i + k
        <4>3. step(m, k) \in {Map(m, j, bus, TRUE), Map(m, j, bus, FALSE)}
          <5>1. step(m, k) = Map(m, j, bus, memory)
            BY <3>1
          <5>2. memory = TRUE \/ memory = FALSE
            BY <1>1
          <5> HIDE DEF step, bus, j
          <5> QED
            BY <5>1, <5>2
        <4>4. j \in DOMAIN m.table /\ bus \in BusWords
          BY <4>1, <4>2
        <4> HIDE DEF step, bus, j
        <4> QED
          <5>1. List(m)
            BY <2>2
          <5>2. ASSUME NEW r \in {Map(m, j, bus, TRUE), Map(m, j, bus, FALSE)}
                PROVE  List(r) /\ r.ok = m.ok /\ DOMAIN r.table = DOMAIN m.table
            BY ONLY <4>4, <5>1, <5>2, MapList, ZenonT(40)
          <5> QED
            BY <4>3, <5>2, Zenon
      <3>2. CASE ~HasParam(i + k)
        BY <2>2, <3>2
      <3> QED
        BY <3>1, <3>2
    <2> DEFINE one == step(pm, 0)
               two == step(one, 1)
    <2>3. pm' = IF count = 1 THEN one ELSE two
      BY <1>1, <1>5
    <2> HIDE DEF step
    <2>4. List(one) /\ one.ok = pm.ok /\ DOMAIN one.table = DOMAIN pm.table
      BY <2>1, <2>2 DEF MapInv
    <2> HIDE DEF one
    <2>5. List(two) /\ two.ok = pm.ok /\ DOMAIN two.table = DOMAIN pm.table
      BY <2>1, <2>2, <2>4
    <2> HIDE DEF two
    <2> QED
      BY <1>2, <2>3, <2>4, <2>5, SameParams
  <1> QED
    BY <1>4, <1>5

LEMMA UnmapStep ==
  ASSUME PluginInv, MapInv, NEW i, HasParam(i), plugin # NoPlugin, plugin' = plugin,
         pm' = pm \/ (pm.ok /\ pm' = Unmap(pm, i))
  PROVE  MapInv'
  <1>1. CASE pm' = pm
    BY <1>1, SameParams DEF MapInv
  <1>2. CASE pm.ok /\ pm' = Unmap(pm, i)
    <2>1. i \in DOMAIN pm.table
      BY <1>2 DEF MapInv, HasParam
    <2> QED
      BY <1>2, <2>1, ShrunkList, SameParams DEF MapInv
  <1> QED
    BY <1>1, <1>2

LEMMA UpdateStep ==
  ASSUME PluginInv, MapInv, NEW p \in Plugins, plugin' = p,
         NEW gotState, NEW gotTable \in {FALSE, p.params > 0},
         Update(p.params, gotState, gotTable)
  PROVE  MapInv'
  <1> DEFINE table == IF gotTable THEN [i \in 0 .. p.params - 1 |-> Nil] ELSE Empty
  <1>1. 0 .. p.params - 1 \subseteq Params /\ p.params \in Nat
    BY ParamsOf
  <1>2. /\ pm' = [Cleared(pm) EXCEPT !.ok = gotTable, !.table = table]
        /\ pm = [cell |-> pm.cell, head |-> pm.head, table |-> pm.table, ok |-> pm.ok]
    BY DEF Update, MapInv, List, MapType
  <1>3. DOMAIN table = IF gotTable THEN 0 .. p.params - 1 ELSE {}
    BY DEF Empty
  <1>4. table = [i \in DOMAIN table |-> Nil]
    BY DEF Empty
  <1> HIDE DEF table
  <1>5. pm' = [cell |-> Empty, head |-> Nil, table |-> table, ok |-> gotTable]
    <2>1. PICK nowhere : Cleared(pm) = [pm EXCEPT !.cell = Empty, !.head = Nil,
                                                  !.table = nowhere]
      BY DEF Cleared
    <2>2. pm' = [[pm EXCEPT !.cell = Empty, !.head = Nil, !.table = nowhere]
                   EXCEPT !.ok = gotTable, !.table = table]
      BY <1>2, <2>1, Zenon
    <2> QED
      BY ONLY <1>2, <2>2, Zenon
  <1>6. /\ pm'.cell = Empty /\ pm'.head = Nil /\ pm'.table = table /\ pm'.ok = gotTable
        /\ pm' = [cell |-> pm'.cell, head |-> pm'.head, table |-> pm'.table,
                  ok |-> pm'.ok]
    BY ONLY <1>5
  <1>7. List(pm')
    BY <1>1, <1>3, <1>4, <1>6, NoMappings DEF Empty
  <1> QED
    BY <1>3, <1>6, <1>7 DEF MapInv

LEMMA MappingStep == ASSUME PluginInv, MapInv, [Next]_vars PROVE MapInv'
  <1>1. CASE Construct \/ FreeSynth
    BY <1>1, NoListIsList DEF Construct, FreeSynth, NoPluginYet, MapInv, NoList
  <1>2. CASE MapParams
    BY <1>2, MapStep
  <1>3. CASE UnmapParam
    BY <1>3, UnmapStep DEF UnmapParam, Checked
  <1>4. CASE UnmapAll
    BY <1>4, ClearedIsList, SameParams DEF UnmapAll, MapInv
  <1>5. CASE SetParam
    BY <1>5, UnmapStep DEF SetParam, Checked
  <1>6. CASE Opened
    <2>1. PICK p \in Plugins : \E gotState, gotTable \in {FALSE, p.params > 0} :
            plugin' = p /\ Update(p.params, gotState, gotTable)
      BY <1>6 DEF Opened
    <2> QED
      BY <2>1, UpdateStep
  <1>7. CASE Closed
    BY <1>7 DEF Closed, MapInv
  <1>8. CASE UNCHANGED <<plugin, pm>>
    BY <1>8 DEF MapInv
  <1> QED
    BY <1>1, <1>2, <1>3, <1>4, <1>5, <1>6, <1>7, <1>8
    DEF Next, vars, audio, NewSynth, QueueUnitCmd, PluginMoves, Suspend, Process,
        PassThrough

--------------------------------------------------------------------------------
(* The steps that change parameters *)

Zeros == [i \in Params |-> 0]
Nobody == [i \in Params |-> FALSE]
Nowhere == [i \in Params |-> Unseen]

LEMMA NoParamsType ==
  ASSUME NEW state, NEW ok, state \in [DOMAIN state -> Values \cup {Unseen}],
         auto' = [value |-> Zeros, own |-> Nobody, aim |-> Nowhere, state |-> state,
                  ok |-> ok]
  PROVE  /\ AutoType'
         /\ \A i \in Params : auto'.aim[i] = Unseen
         /\ auto'.ok = ok /\ auto'.state = state
  <1>2. /\ auto'.value = Zeros /\ auto'.own = Nobody /\ auto'.aim = Nowhere
        /\ auto'.state = state /\ auto'.ok = ok
        /\ auto' = [value |-> auto'.value, own |-> auto'.own, aim |-> auto'.aim,
                    state |-> auto'.state, ok |-> auto'.ok]
    OBVIOUS
  <1>3. AutoType'
    BY <1>2 DEF AutoType, Values, Zeros, Nobody, Nowhere
  <1> QED
    BY <1>2, <1>3 DEF Nowhere

LEMMA OpenedParams ==
  ASSUME NEW p \in Plugins, plugin' = p, NEW gotState \in BOOLEAN, NEW gotTable,
         Update(p.params, gotState, gotTable)
  PROVE  AutoInv'
  <1> DEFINE all   == [i \in 0 .. p.params - 1 |-> Unseen]
             state == IF gotState THEN all ELSE Empty
  <1>1. p.params \in Nat /\ 0 .. p.params - 1 \subseteq Params
    BY ParamsOf
  <1>2. auto' = [value |-> Zeros, own |-> Nobody, aim |-> Nowhere, state |-> state,
                 ok |-> gotState]
    <2>1. auto' = [NoParams EXCEPT !.ok = gotState, !.state = state]
      BY DEF Update
    <2> HIDE DEF state
    <2> QED
      BY <2>1 DEF NoParams, Zeros, Nobody, Nowhere
  <1>3. state \in [DOMAIN state -> Values \cup {Unseen}]
    BY DEF Empty
  <1>4. gotState => DOMAIN state = 0 .. p.params - 1
                    /\ \A i \in 0 .. p.params - 1 : state[i] = Unseen
    OBVIOUS
  <1> HIDE DEF state
  <1>5. /\ AutoType'
        /\ \A i \in Params : auto'.aim[i] = Unseen
        /\ auto'.ok = gotState /\ auto'.state = state
    BY <1>2, <1>3, NoParamsType
  <1> QED
    BY <1>1, <1>4, <1>5 DEF AutoInv, Follows

LEMMA ClosedParams ==
  ASSUME AutoInv, plugin' = NoPlugin,
         auto' = [NoParams EXCEPT !.state = auto.state, !.ok = auto.ok]
  PROVE  AutoInv'
  <1>1. auto.state \in [DOMAIN auto.state -> Values \cup {Unseen}]
    BY DEF AutoInv, AutoType
  <1>2. auto' = [value |-> Zeros, own |-> Nobody, aim |-> Nowhere,
                 state |-> auto.state, ok |-> auto.ok]
    BY DEF NoParams, Zeros, Nobody, Nowhere
  <1>3. AutoType'
    BY <1>1, <1>2, NoParamsType
  <1> QED
    BY <1>3 DEF AutoInv

LEMMA FreshParams ==
  ASSUME plugin' = NoPlugin, auto' = NoParams
  PROVE  AutoInv'
  <1>1. auto' = [value |-> Zeros, own |-> Nobody, aim |-> Nowhere, state |-> Empty,
                 ok |-> FALSE]
    BY DEF NoParams, Zeros, Nobody, Nowhere
  <1>2. Empty \in [DOMAIN Empty -> Values \cup {Unseen}]
    BY DEF Empty
  <1>3. AutoType'
    BY <1>1, <1>2, NoParamsType
  <1> QED
    BY <1>3 DEF AutoInv

LEMMA SetParams ==
  ASSUME AutoInv, PluginInv, SetParam
  PROVE  AutoInv'
  <1>1. PICK i \in Params, v \in Values :
          /\ HasParam(i)
          /\ auto' = [auto EXCEPT !.value[i] = v, !.own[i] = FALSE, !.aim[i] = v,
                        !.state = IF auto.ok THEN [@ EXCEPT ![i] = v] ELSE @]
    BY DEF SetParam
  <1> DEFINE state == IF auto.ok THEN [auto.state EXCEPT ![i] = v] ELSE auto.state
  <1>2. plugin' = plugin
    BY DEF SetParam
  <1>3. auto' = [value |-> [auto.value EXCEPT ![i] = v],
                 own |-> [auto.own EXCEPT ![i] = FALSE],
                 aim |-> [auto.aim EXCEPT ![i] = v], state |-> state, ok |-> auto.ok]
    <2>1. auto = [value |-> auto.value, own |-> auto.own, aim |-> auto.aim,
                  state |-> auto.state, ok |-> auto.ok]
      BY DEF AutoInv, AutoType
    <2> QED
      BY <1>1, <2>1
  <1>4. /\ state \in [DOMAIN state -> Values \cup {Unseen}]
        /\ DOMAIN state = DOMAIN auto.state
        /\ auto.ok => \A j \in DOMAIN auto.state :
                        state[j] = IF j = i THEN v ELSE auto.state[j]
    BY DEF AutoInv, AutoType
  <1> HIDE DEF state
  <1>5. /\ auto'.ok = auto.ok /\ auto'.state = state
        /\ auto'.value = [auto.value EXCEPT ![i] = v]
        /\ auto'.own = [auto.own EXCEPT ![i] = FALSE]
        /\ auto'.aim = [auto.aim EXCEPT ![i] = v]
        /\ auto' = [value |-> auto'.value, own |-> auto'.own, aim |-> auto'.aim,
                    state |-> auto'.state, ok |-> auto'.ok]
    BY <1>3
  <1>6. AutoType'
    BY <1>4, <1>5 DEF AutoInv, AutoType
  <1>7. \A j \in Params : Follows(j) => Follows(j)'
    BY <1>5 DEF AutoInv, AutoType, Follows
  <1>8. auto.ok => \A j \in DOMAIN auto.state :
          auto.state[j] = auto.aim[j] => state[j] = auto'.aim[j]
    BY <1>4, <1>5 DEF AutoInv, AutoType
  <1> QED
    BY <1>2, <1>4, <1>5, <1>6, <1>7, <1>8 DEF AutoInv

LEMMA MovedParams ==
  ASSUME AutoInv, PluginMoves
  PROVE  AutoInv'
  <1>1. PICK i \in Params, v \in Values :
          auto' = [auto EXCEPT !.value[i] = v, !.own[i] = v # auto.aim[i]]
    BY DEF PluginMoves
  <1>2. plugin' = plugin
    BY DEF PluginMoves
  <1> DEFINE moved == (v # auto.aim[i])
  <1>3. moved \in BOOLEAN
    OBVIOUS
  <1>4. moved = FALSE => v = auto.aim[i]
    OBVIOUS
  <1> HIDE DEF moved
  <1>5. auto' = [value |-> [auto.value EXCEPT ![i] = v],
                 own |-> [auto.own EXCEPT ![i] = moved],
                 aim |-> auto.aim, state |-> auto.state, ok |-> auto.ok]
    <2>1. auto = [value |-> auto.value, own |-> auto.own, aim |-> auto.aim,
                  state |-> auto.state, ok |-> auto.ok]
      BY DEF AutoInv, AutoType
    <2> QED
      BY <1>1, <2>1 DEF moved
  <1>6. AutoType'
    BY <1>3, <1>5 DEF AutoInv, AutoType
  <1>7. \A j \in Params : Follows(j) => Follows(j)'
    BY <1>3, <1>4, <1>5 DEF AutoInv, AutoType, Follows
  <1> QED
    BY <1>2, <1>5, <1>6, <1>7 DEF AutoInv

LEMMA SamplesType ==
  ASSUME NEW in \in Inputs, NEW i
  PROVE  Samples(in, i) \in Seq(Values)
  <1>1. PICK c \in Values, v \in Values :
          in.control = c /\ in.audio = <<c, 1 - c>> /\ in.param = v
    BY DEF Inputs
  <1> DEFINE S == Seq(Values)
  <1>2. /\ <<>> \in S /\ <<0>> \in S /\ <<c>> \in S /\ <<v>> \in S
        /\ <<c, 1 - c>> \in S /\ <<c, 1 - c>>[1] = c
    <2>1. 0 \in Values /\ 1 - c \in Values
      BY DEF Values
    <2> QED
      BY <2>1
  <1> HIDE DEF S
  <1>3. in.audio \in S /\ <<in.audio[1]>> \in S /\ <<in.control>> \in S
        /\ <<in.param>> \in S
    BY <1>1, <1>2
  <1> QED
    BY <1>2, <1>3 DEF Samples, S

LEMMA AutomatedParams ==
  ASSUME PluginInv, AutoInv, auto.ok, plugin # NoPlugin, plugin' = plugin,
         NEW in \in Inputs, auto' = Automated(auto, in)
  PROVE  AutoInv'
  <1> DEFINE s(i)     == Samples(in, i)
             n        == DOMAIN auto.state
             last(i)  == Last(s(i))
             moves(i) == i \in n /\ \E k \in DOMAIN s(i) : s(i)[k] # auto.state[i]
             aimed(i) == i \in n /\ s(i) # <<>>
             state == [i \in n |-> IF aimed(i) THEN last(i) ELSE auto.state[i]]
             value == [i \in Params |-> IF moves(i) THEN last(i) ELSE auto.value[i]]
             own   == [i \in Params |-> auto.own[i] /\ ~moves(i)]
             aim   == [i \in Params |-> IF aimed(i) THEN last(i) ELSE auto.aim[i]]
  <1>1. auto' = [auto EXCEPT !.state = state, !.value = value, !.own = own, !.aim = aim]
    BY DEF Automated
  <1>2. \A i : s(i) # <<>> => /\ Len(s(i)) \in DOMAIN s(i) /\ last(i) = s(i)[Len(s(i))]
                              /\ last(i) \in Values
    <2> SUFFICES ASSUME NEW i, s(i) # <<>>
                 PROVE  /\ Len(s(i)) \in DOMAIN s(i) /\ last(i) = s(i)[Len(s(i))]
                        /\ last(i) \in Values
      OBVIOUS
    <2>1. s(i) \in Seq(Values)
      BY SamplesType
    <2> HIDE DEF s
    <2> QED
      BY <2>1 DEF Last
  <1>3. \A i : s(i) = <<>> => DOMAIN s(i) = {}
    OBVIOUS
  <1> HIDE DEF s, last
  <1>4. \A i : moves(i) => aimed(i)
    BY <1>3
  <1>5. \A i \in n : aimed(i) /\ ~moves(i) => last(i) = auto.state[i]
    BY <1>2
  <1>6. /\ state \in [n -> Values \cup {Unseen}]
        /\ value \in [Params -> Values] /\ aim \in [Params -> Values \cup {Unseen}]
    BY <1>2, <1>4 DEF AutoInv, AutoType
  <1>7. own \in [Params -> BOOLEAN]
    OBVIOUS
  <1>8. \A i \in Params :
          /\ value[i] = IF moves(i) THEN last(i) ELSE auto.value[i]
          /\ own[i] = (auto.own[i] /\ ~moves(i))
          /\ aim[i] = IF aimed(i) THEN last(i) ELSE auto.aim[i]
    OBVIOUS
  <1>9. \A i \in n : state[i] = IF aimed(i) THEN last(i) ELSE auto.state[i]
    OBVIOUS
  <1>10. DOMAIN state = n
    OBVIOUS
  <1> HIDE DEF state, value, own, aim, moves, aimed
  <1>11. auto' = [value |-> value, own |-> own, aim |-> aim, state |-> state,
                  ok |-> auto.ok]
    <2>1. auto = [value |-> auto.value, own |-> auto.own, aim |-> auto.aim,
                  state |-> auto.state, ok |-> auto.ok]
      BY DEF AutoInv, AutoType
    <2> QED
      BY <1>1, <2>1
  <1>12. /\ auto'.value = value /\ auto'.own = own /\ auto'.aim = aim
         /\ auto'.state = state /\ auto'.ok = auto.ok
         /\ auto' = [value |-> auto'.value, own |-> auto'.own, aim |-> auto'.aim,
                     state |-> auto'.state, ok |-> auto'.ok]
    BY <1>11
  <1>13. AutoType'
    BY <1>6, <1>7, <1>10, <1>12 DEF AutoType
  <1>14. n = 0 .. plugin.params - 1 /\ n \subseteq Params
         /\ \A i \in n : auto.state[i] = auto.aim[i]
    BY ParamsOf DEF AutoInv, PluginInv
  <1>15. \A i \in n : state[i] = aim[i]
    BY <1>8, <1>9, <1>14
  <1>16. \A i \in Params : Follows(i)'
    <2> SUFFICES ASSUME NEW i \in Params
                 PROVE  aim[i] = Unseen \/ own[i] \/ value[i] = aim[i]
      BY <1>12 DEF Follows
    <2>1. auto.aim[i] = Unseen \/ auto.own[i] \/ auto.value[i] = auto.aim[i]
      BY DEF AutoInv, Follows
    <2>2. CASE moves(i)
      BY <1>4, <1>8, <2>2
    <2>3. CASE ~moves(i)
      <3>1. aim[i] = auto.aim[i]
        <4>1. aimed(i) => i \in n
          BY DEF aimed
        <4> QED
          BY <1>5, <1>8, <1>14, <2>3, <4>1
      <3>2. value[i] = auto.value[i]
        BY <1>8, <2>3
      <3>3. own[i] = auto.own[i]
        <4>1. own[i] = (auto.own[i] /\ ~moves(i))
          BY <1>8
        <4>2. auto.own[i] \in BOOLEAN
          BY DEF AutoInv, AutoType
        <4> QED
          BY <2>3, <4>1, <4>2
      <3> QED
        BY <2>1, <3>1, <3>2, <3>3
    <2> QED
      BY <2>2, <2>3
  <1> QED
    BY <1>10, <1>12, <1>13, <1>14, <1>15, <1>16 DEF AutoInv

LEMMA AutomationStep == ASSUME PluginInv, AutoInv, [Next]_vars PROVE AutoInv'
  <1>1. CASE Construct \/ FreeSynth
    BY <1>1, FreshParams DEF Construct, FreeSynth, NoPluginYet
  <1>2. CASE SetParam
    BY <1>2, SetParams
  <1>3. CASE PluginMoves
    BY <1>3, MovedParams
  <1>4. CASE Opened
    <2>1. PICK p \in Plugins : \E gotState, gotTable \in {FALSE, p.params > 0} :
            plugin' = p /\ Update(p.params, gotState, gotTable)
      BY <1>4 DEF Opened
    <2>2. {FALSE, p.params > 0} \subseteq BOOLEAN
      OBVIOUS
    <2>3. \E gotState, gotTable \in BOOLEAN : Update(p.params, gotState, gotTable)
      <3>1. PICK gotState, gotTable \in {FALSE, p.params > 0} :
              Update(p.params, gotState, gotTable)
        BY <2>1
      <3> QED
        BY <2>2, <3>1, Zenon
    <2> QED
      BY <2>1, <2>3, OpenedParams
  <1>5. CASE Closed
    BY <1>5, ClosedParams DEF Closed
  <1>6. CASE UNCHANGED <<plugin, auto>>
    BY <1>6 DEF AutoInv, AutoType, Follows
  <1>7. CASE Process
    <2>1. PICK in \in Inputs, quiet \in BOOLEAN : ProcessWith(in, quiet)
      BY <1>7 DEF Process
    <2>2. plugin # NoPlugin /\ plugin' = plugin
      BY <1>7 DEF Process
    <2>3. auto' = auto \/ (auto.ok /\ auto' = Automated(auto, in))
      BY <2>1 DEF ProcessWith
    <2> QED
      BY <1>6, <2>2, <2>3, AutomatedParams
  <1> QED
    BY <1>1, <1>2, <1>3, <1>4, <1>5, <1>6, <1>7
    DEF Next, vars, audio, NewSynth, QueueUnitCmd, MapParams, UnmapParam, UnmapAll,
        Suspend, PassThrough

--------------------------------------------------------------------------------
(* Bypass *)

\* the gains of a block without a change, and of one that fades in or out
SteadyGains(kind, silent, out, feed) ==
  /\ kind \in Bypass
  /\ kind = "off"  => out = [dry |-> Flat(0), wet |-> Flat(1)] /\ feed = Flat(1)
  /\ kind = "hard" => out = [dry |-> Flat(1), wet |-> Flat(0)]
  /\ kind = "soft" => /\ feed = Flat(0)
                      /\ out = [dry |-> Flat(1), wet |-> IF silent THEN Flat(0) ELSE Flat(1)]
RampGains(kind, mix, out, feed) ==
  /\ kind \in Bypass
  /\ kind = "off"  => out = [dry |-> Flat(0), wet |-> Flat(1)] /\ feed = Flat(1)
  /\ kind = "hard" => out = [dry |-> Rev(mix), wet |-> mix] /\ feed = Flat(1)
  /\ kind = "soft" => out = [dry |-> Rev(mix), wet |-> Flat(1)] /\ feed = mix

\* where the next block takes the gains up
Meets(tail, out, feed, out2, feed2) ==
  /\ out2.dry[1] = out.dry[2]
  /\ tail => out2.wet[1] = out.wet[2]
  /\ feed2[1] = feed[2] \/ (out2.wet[1] = 0 /\ out.wet[2] = 0)

LEMMA SteadyMeets ==
  ASSUME NEW kind, NEW silent, NEW tail, silent => ~tail, NEW out, NEW feed,
         Rests(kind, tail, out, feed), NEW out2, NEW feed2,
         SteadyGains(kind, silent, out2, feed2)
  PROVE  Meets(tail, out, feed, out2, feed2)
  BY DEF Meets, Rests, SteadyGains, Flat, Bypass

LEMMA SteadyRests ==
  ASSUME NEW kind, NEW silent, NEW tail, silent => ~tail, NEW out, NEW feed,
         SteadyGains(kind, silent, out, feed)
  PROVE  Rests(kind, tail, out, feed)
  BY DEF Rests, SteadyGains, Flat

LEMMA FadeOutMeets ==
  ASSUME NEW kind, NEW tail, NEW out, NEW feed, Rests("off", tail, out, feed),
         NEW out2, NEW feed2, RampGains(kind, <<1, 0>>, out2, feed2)
  PROVE  Meets(tail, out, feed, out2, feed2)
  BY DEF Meets, Rests, RampGains, Flat, Rev, Bypass

LEMMA FadeOutRests ==
  ASSUME NEW kind, NEW tail, NEW out, NEW feed, RampGains(kind, <<1, 0>>, out, feed)
  PROVE  Rests(kind, tail, out, feed)
  BY DEF Rests, RampGains, Flat, Rev

LEMMA FadeInMeets ==
  ASSUME NEW kind, NEW tail, NEW out, NEW feed, Rests(kind, tail, out, feed),
         NEW out2, NEW feed2, RampGains(kind, <<0, 1>>, out2, feed2)
  PROVE  Meets(tail, out, feed, out2, feed2)
  BY DEF Meets, Rests, RampGains, Flat, Rev, Bypass

LEMMA FadeInRests ==
  ASSUME NEW kind, NEW tail, NEW out, NEW feed, RampGains(kind, <<0, 1>>, out, feed)
  PROVE  Rests("off", tail, out, feed)
  BY DEF Rests, RampGains, Flat, Rev, Bypass

\* Setting the bypass state of a plugin at rest leaves it, or starts one change.
LEMMA Turned ==
  ASSUME NEW b \in BypassStates, b.last = b.bypass, NEW request \in Bypass
  PROVE  \/ SetBypass(b, request) = b
         \/ /\ b.bypass = "off" /\ request # "off"
            /\ SetBypass(b, request) = [bypass |-> request, last |-> "off", silent |-> FALSE]
         \/ /\ b.bypass # "off"
            /\ SetBypass(b, request) = [bypass |-> "off", last |-> b.bypass, silent |-> FALSE]
  BY DEF SetBypass, BypassStates, Bypass

LEMMA SteadyBlock ==
  ASSUME NEW b \in BypassStates, b.last = b.bypass, NEW own \in BOOLEAN
  PROVE  SteadyGains(Handled(b, own), b.silent, Output(b, own, TRUE),
                     Feed(b, own, TRUE, TRUE))
  <1>1. ~Changing(b) /\ ~Ramp(b, own) /\ Kind(b) = b.bypass
    BY DEF Changing, Ramp, Kind
  <1>2. Handled(b, own) \in Bypass
    BY <1>1 DEF Handled, BypassStates, Bypass
  <1>3. ASSUME Handled(b, own) = "off"
        PROVE  /\ Output(b, own, TRUE) = [dry |-> Flat(0), wet |-> Flat(1)]
               /\ Feed(b, own, TRUE, TRUE) = Flat(1)
    <2>1. Called(b, own)
      BY <1>3 DEF Called
    <2>2. Output(b, own, TRUE) = [dry |-> Flat(0), wet |-> Flat(1)]
      BY <1>3 DEF Output
    <2>3. Feed(b, own, TRUE, TRUE) = Flat(1)
      BY <1>3, <2>1 DEF Feed
    <2> QED
      BY <2>2, <2>3
  <1>4. ASSUME Handled(b, own) = "hard"
        PROVE  Output(b, own, TRUE) = [dry |-> Flat(1), wet |-> Flat(0)]
    BY <1>1, <1>4 DEF Output
  <1>5. ASSUME Handled(b, own) = "soft"
        PROVE  /\ Feed(b, own, TRUE, TRUE) = Flat(0)
               /\ Output(b, own, TRUE) =
                    [dry |-> Flat(1), wet |-> IF b.silent THEN Flat(0) ELSE Flat(1)]
    <2>1. Feed(b, own, TRUE, TRUE) = Flat(0)
      BY <1>1, <1>5 DEF Feed
    <2>2. Output(b, own, TRUE) =
            [dry |-> Flat(1), wet |-> IF b.silent THEN Flat(0) ELSE Flat(1)]
      <3>1. CASE b.silent
        BY <1>1, <1>5, <3>1 DEF Output
      <3>2. CASE ~b.silent
        BY <1>1, <1>5, <3>2 DEF Output
      <3> QED
        BY <3>1, <3>2
    <2> QED
      BY <2>1, <2>2
  <1> QED
    BY <1>2, <1>3, <1>4, <1>5 DEF SteadyGains

LEMMA ChangingBlock ==
  ASSUME NEW b \in BypassStates, b.last # b.bypass, b.last = "off" \/ b.bypass = "off",
         NEW own \in BOOLEAN
  PROVE  RampGains(Handled(b, own), Mix(b), Output(b, own, TRUE),
                   Feed(b, own, TRUE, TRUE))
  <1>1. Changing(b)
    BY DEF Changing
  <1>2. Handled(b, own) = IF "soft" \in {b.bypass, b.last} THEN "soft"
                          ELSE IF own THEN "off" ELSE "hard"
    BY <1>1 DEF Handled, Kind, BypassStates, Bypass
  <1>3. Handled(b, own) # "off" => Ramp(b, own)
    BY <1>1 DEF Ramp
  <1>4. Called(b, own)
    BY <1>3 DEF Called
  <1>5. ASSUME Handled(b, own) = "off"
        PROVE  /\ Output(b, own, TRUE) = [dry |-> Flat(0), wet |-> Flat(1)]
               /\ Feed(b, own, TRUE, TRUE) = Flat(1)
    <2>1. Output(b, own, TRUE) = [dry |-> Flat(0), wet |-> Flat(1)]
      BY <1>5 DEF Output
    <2>2. Feed(b, own, TRUE, TRUE) = Flat(1)
      BY <1>5, <1>4 DEF Feed
    <2> QED
      BY <2>1, <2>2
  <1>6. ASSUME Handled(b, own) = "hard"
        PROVE  /\ Output(b, own, TRUE) = [dry |-> Rev(Mix(b)), wet |-> Mix(b)]
               /\ Feed(b, own, TRUE, TRUE) = Flat(1)
    <2>1. Output(b, own, TRUE) = [dry |-> Rev(Mix(b)), wet |-> Mix(b)]
      BY <1>3, <1>6 DEF Output
    <2>2. Feed(b, own, TRUE, TRUE) = Flat(1)
      BY <1>3, <1>6, <1>4 DEF Feed
    <2> QED
      BY <2>1, <2>2
  <1>7. ASSUME Handled(b, own) = "soft"
        PROVE  /\ Output(b, own, TRUE) = [dry |-> Rev(Mix(b)), wet |-> Flat(1)]
               /\ Feed(b, own, TRUE, TRUE) = Mix(b)
    <2>1. Output(b, own, TRUE) = [dry |-> Rev(Mix(b)), wet |-> Flat(1)]
      BY <1>3, <1>7 DEF Output
    <2>2. Feed(b, own, TRUE, TRUE) = Mix(b)
      BY <1>3, <1>7, <1>4 DEF Feed
    <2> QED
      BY <2>1, <2>2
  <1>8. Handled(b, own) \in Bypass
    BY <1>2 DEF Bypass
  <1> QED
    BY <1>5, <1>6, <1>7, <1>8 DEF RampGains

\* A plugin is as good as on when it is bypassed hard and handles that itself.
LEMMA HandledSteady ==
  ASSUME NEW b, b.last = b.bypass, NEW own \in BOOLEAN
  PROVE  Handled(b, own) = IF own /\ b.bypass = "hard" THEN "off" ELSE b.bypass
  BY DEF Handled, Kind, Changing

LEMMA HandledRamp ==
  ASSUME NEW b \in BypassStates, b.last # b.bypass, NEW own \in BOOLEAN
  PROVE  /\ b.bypass = "off" => Handled(b, own) = IF own /\ b.last = "hard" THEN "off"
                                                  ELSE b.last
         /\ b.last = "off" => Handled(b, own) = IF own /\ b.bypass = "hard" THEN "off"
                                                ELSE b.bypass
  BY DEF Handled, Kind, Changing, BypassStates, Bypass

\* A block begins where the one before it ended.
LEMMA Meeting ==
  ASSUME NEW b0 \in BypassStates, b0.last = b0.bypass, NEW own \in BOOLEAN,
         NEW request \in Bypass, NEW b, b = b0 \/ b = SetBypass(b0, request),
         NEW tail, b0.silent => ~tail, NEW out, NEW feed,
         Rests(Handled(b0, own), tail, out, feed)
  PROVE  Meets(tail, out, feed, Output(b, own, TRUE), Feed(b, own, TRUE, TRUE))
  <1>1. \/ b = b0
        \/ /\ b0.bypass = "off" /\ request # "off"
           /\ b = [bypass |-> request, last |-> "off", silent |-> FALSE]
        \/ /\ b0.bypass # "off"
           /\ b = [bypass |-> "off", last |-> b0.bypass, silent |-> FALSE]
    BY Turned
  <1>2. b0.bypass \in Bypass
    BY DEF BypassStates
  <1>3. CASE b = b0
    <2>1. SteadyGains(Handled(b0, own), b0.silent, Output(b, own, TRUE),
                      Feed(b, own, TRUE, TRUE))
      BY <1>3, SteadyBlock, Zenon
    <2> QED
      BY <2>1, SteadyMeets, Zenon
  <1>4. CASE /\ b0.bypass = "off" /\ request # "off"
             /\ b = [bypass |-> request, last |-> "off", silent |-> FALSE]
    <2>1. b \in BypassStates /\ b.last = "off" /\ b.bypass = request
      BY <1>4 DEF BypassStates, Bypass
    <2>2. Mix(b) = <<1, 0>> /\ b.last # b.bypass
      BY <1>4, <2>1 DEF Mix
    <2>3. RampGains(Handled(b, own), <<1, 0>>, Output(b, own, TRUE),
                    Feed(b, own, TRUE, TRUE))
      BY <2>1, <2>2, ChangingBlock, Zenon
    <2>4. Handled(b0, own) = "off"
      BY <1>4, HandledSteady
    <2> QED
      BY <2>3, <2>4, FadeOutMeets, Zenon
  <1>5. CASE /\ b0.bypass # "off"
             /\ b = [bypass |-> "off", last |-> b0.bypass, silent |-> FALSE]
    <2>1. b \in BypassStates /\ b.last = b0.bypass /\ b.bypass = "off"
      BY <1>2, <1>5 DEF BypassStates, Bypass
    <2>2. Mix(b) = <<0, 1>> /\ b.last # b.bypass
      BY <1>5, <2>1 DEF Mix
    <2>3. RampGains(Handled(b, own), <<0, 1>>, Output(b, own, TRUE),
                    Feed(b, own, TRUE, TRUE))
      BY <2>1, <2>2, ChangingBlock, Zenon
    <2>4. Handled(b, own) = Handled(b0, own)
      BY <2>1, <2>2, HandledSteady, HandledRamp
    <2> QED
      BY <2>3, <2>4, FadeInMeets, Zenon
  <1> QED
    BY <1>1, <1>3, <1>4, <1>5

\* A block ends where the state it leaves behind says.
LEMMA Settling ==
  ASSUME NEW b \in BypassStates,
         b.last = b.bypass \/ b.last = "off" \/ b.bypass = "off",
         NEW own \in BOOLEAN, NEW after, after.bypass = b.bypass, after.last = b.bypass,
         NEW tail, b.silent => ~tail
  PROVE  Rests(Handled(after, own), tail, Output(b, own, TRUE),
               Feed(b, own, TRUE, TRUE))
  <1>1. Handled(after, own) = IF own /\ b.bypass = "hard" THEN "off" ELSE b.bypass
    BY HandledSteady
  <1>2. CASE b.last = b.bypass
    <2>1. Handled(after, own) = Handled(b, own)
      BY <1>1, <1>2, HandledSteady
    <2>2. SteadyGains(Handled(b, own), b.silent, Output(b, own, TRUE),
                      Feed(b, own, TRUE, TRUE))
      BY <1>2, SteadyBlock, Zenon
    <2> QED
      BY <2>1, <2>2, SteadyRests, Zenon
  <1>3. CASE b.last = "off" /\ b.bypass # "off"
    <2>1. Mix(b) = <<1, 0>>
      BY <1>3 DEF Mix
    <2>2. RampGains(Handled(b, own), <<1, 0>>, Output(b, own, TRUE),
                    Feed(b, own, TRUE, TRUE))
      BY <1>3, <2>1, ChangingBlock, Zenon
    <2>3. Handled(after, own) = Handled(b, own)
      BY <1>1, <1>3, HandledRamp
    <2> QED
      BY <2>2, <2>3, FadeOutRests, Zenon
  <1>4. CASE b.bypass = "off" /\ b.last # "off"
    <2>1. Mix(b) = <<0, 1>>
      BY <1>4 DEF Mix
    <2>2. RampGains(Handled(b, own), <<0, 1>>, Output(b, own, TRUE),
                    Feed(b, own, TRUE, TRUE))
      BY <1>4, <2>1, ChangingBlock, Zenon
    <2>3. Handled(after, own) = "off"
      BY <1>1, <1>4
    <2> QED
      BY <2>2, <2>3, FadeInRests, Zenon
  <1> QED
    BY <1>2, <1>3, <1>4

LEMMA Smallest ==
  ASSUME NEW a \in Nat, NEW b \in Nat, NEW c \in Nat
  PROVE  LET least == Min({a, b, c})
         IN  least \in Nat /\ least <= a /\ least <= b /\ least <= c
  <1>1. \E x \in {a, b, c} : \A y \in {a, b, c} : x <= y
    OBVIOUS
  <1> QED
    BY <1>1 DEF Min

\* The channels that NoClick is about have input, output and a plugin that writes them.
LEMMA ThroughChannels ==
  ASSUME plugin \in Plugins, NEW x \in Busses, NEW i \in Through(x)
  PROVE  /\ i \in 1 .. Ins[x] /\ i \in 1 .. Outs[x] /\ i \in 1 .. plugin.outs[x]
         /\ plugin.type = "vst2" => x = "main"
  <1>1. Ins[x] \in Nat /\ Outs[x] \in Nat /\ plugin.outs[x] \in Nat
    BY UGenAssumption DEF PluginModels
  <1>2. Written(x) \in Nat /\ (i <= Written(x) /\ i >= 1 => Written(x) = plugin.outs[x])
    BY <1>1 DEF Written, Through
  <1>3. LET least == Min({Ins[x], Outs[x], Written(x)})
        IN  least \in Nat /\ least <= Ins[x] /\ least <= Outs[x] /\ least <= Written(x)
    BY <1>1, <1>2, Smallest
  <1>4. /\ i \in Nat /\ i >= 1 /\ i <= Ins[x] /\ i <= Outs[x] /\ i <= Written(x)
    BY <1>1, <1>2, <1>3 DEF Through
  <1>5. plugin.type = "vst2" => x = "main"
    BY <1>4 DEF Written, Busses
  <1> QED
    BY <1>1, <1>2, <1>4, <1>5

\* What process() makes of such a channel is what the plugin's bypass makes of it.
LEMMA ThroughGains ==
  ASSUME plugin \in Plugins, NEW x \in Busses, NEW i \in Through(x), NEW b
  PROVE  /\ Gained(b)[x][i] = Output(b, plugin.own, TRUE)
         /\ Fed(b)[x][i] = Feed(b, plugin.own, TRUE, TRUE)
  <1>1. /\ i \in 1 .. Ins[x] /\ i \in 1 .. Outs[x] /\ i \in 1 .. plugin.outs[x]
        /\ plugin.type = "vst2" => x = "main"
    BY ThroughChannels
  <1>2. plugin.type \in {"vst2", "vst3"}
    BY UGenAssumption DEF PluginModels
  <1>3. Ins[x] \in Nat /\ Outs[x] \in Nat /\ plugin.outs[x] \in Nat /\ i \in Nat
    BY <1>1, UGenAssumption DEF PluginModels
  <1>4. (i <= Ins[x]) = TRUE /\ (i <= Outs[x]) = TRUE /\ ~(i > plugin.outs[x])
    BY <1>1, <1>3
  <1>5. CASE plugin.type = "vst2"
    <2>1. Gained(b)[x][i] = VST2Output(b, plugin, x, i, Ins[x])
      BY <1>1, <1>5 DEF Gained
    <2>2. Fed(b)[x][i] = Feed(b, plugin.own, TRUE, i <= Outs[x])
      BY <1>1, <1>5 DEF Fed
    <2>3. x = "main"
      BY <1>1, <1>5
    <2>4. VST2Output(b, plugin, x, i, Ins[x]) = Output(b, plugin.own, i <= Ins[x])
      BY <1>4, <2>3 DEF VST2Output
    <2> QED
      BY <1>4, <2>1, <2>2, <2>4, Zenon
  <1>6. CASE plugin.type = "vst3"
    <2>1. Gained(b)[x][i] = VST3Output(b, plugin, x, i, Ins[x])
      BY <1>1, <1>6 DEF Gained
    <2>2. Fed(b)[x][i] = VST3Feed(b, plugin, i, Ins[x], Outs[x])
      BY <1>1, <1>6 DEF Fed
    <2>3. VST3Output(b, plugin, x, i, Ins[x]) = Output(b, plugin.own, i <= Ins[x])
      BY <1>4 DEF VST3Output
    <2>4. VST3Feed(b, plugin, i, Ins[x], Outs[x])
            = Feed(b, plugin.own, i <= Ins[x], i <= Outs[x])
      BY DEF VST3Feed
    <2> QED
      BY <1>4, <2>1, <2>2, <2>3, <2>4, Zenon
  <1> QED
    BY <1>2, <1>5, <1>6

\* Bypassed without a change, the plugin hears nothing: its tail can only end.
LEMMA BypassedIsSilent ==
  ASSUME plugin \in Plugins, NEW b \in BypassStates, ~Changing(b),
         Handled(b, plugin.own) # "off", NEW quiet \in BOOLEAN, Sounding(b, quiet)
  PROVE  block.tail /\ ~(Called(b, plugin.own) /\ quiet)
  <1>1. ~Ramp(b, plugin.own)
    BY DEF Ramp
  <1>2. \A hasInput, hasOutput \in BOOLEAN : Feed(b, plugin.own, hasInput, hasOutput) = Flat(0)
    BY <1>1 DEF Feed
  <1>3. \A x \in Busses : \A i \in DOMAIN Fed(b)[x] : Fed(b)[x][i] = Flat(0)
    <2> SUFFICES ASSUME NEW x \in Busses, NEW i \in DOMAIN Fed(b)[x]
                 PROVE  Fed(b)[x][i] = Flat(0)
      OBVIOUS
    <2>1. i \in 1 .. Ins[x]
      BY DEF Fed
    <2>2. \/ Fed(b)[x][i] = VST3Feed(b, plugin, i, Ins[x], Outs[x])
          \/ Fed(b)[x][i] = Feed(b, plugin.own, TRUE, i <= Outs[x])
          \/ Fed(b)[x][i] = Flat(0)
      BY <2>1 DEF Fed
    <2>3. VST3Feed(b, plugin, i, Ins[x], Outs[x]) = Flat(0)
      BY <1>1 DEF VST3Feed, Feed
    <2>4. Feed(b, plugin.own, TRUE, i <= Outs[x]) = Flat(0)
      BY <1>1 DEF Feed
    <2> QED
      BY <2>2, <2>3, <2>4
  <1> QED
    BY <1>3 DEF Sounding, Flat

\* An output without an input of its number.
Unfed(b, own) == Output(b, own, FALSE)

LEMMA AloneChannels ==
  ASSUME plugin \in Plugins, NEW x \in Busses, NEW i \in Alone(x)
  PROVE  /\ i \in 1 .. Outs[x] /\ i \in 1 .. plugin.outs[x] /\ ~(i <= Ins[x])
         /\ plugin.type = "vst2" => x = "main"
  <1>1. Ins[x] \in Nat /\ Outs[x] \in Nat /\ plugin.outs[x] \in Nat
    BY UGenAssumption DEF PluginModels
  <1>2. Written(x) \in Nat /\ (Written(x) > 0 => Written(x) = plugin.outs[x])
    BY <1>1 DEF Written
  <1> DEFINE least == Min({Outs[x], Written(x)})
  <1>3. {Outs[x], Outs[x], Written(x)} = {Outs[x], Written(x)}
    OBVIOUS
  <1>4. least \in Nat /\ least <= Outs[x] /\ least <= Written(x)
    BY <1>1, <1>2, <1>3, Smallest
  <1>5. i \in Ins[x] + 1 .. least
    BY DEF Alone
  <1> HIDE DEF least
  <1>7. i \in Int /\ i >= Ins[x] + 1 /\ i <= Outs[x] /\ i <= Written(x)
    BY <1>1, <1>2, <1>4, <1>5
  <1>6. plugin.type = "vst2" => x = "main"
    BY <1>1, <1>7 DEF Written, Busses
  <1> QED
    BY <1>1, <1>2, <1>6, <1>7

LEMMA AloneGains ==
  ASSUME plugin \in Plugins, NEW x \in Busses, NEW i \in Alone(x), NEW b
  PROVE  Gained(b)[x][i] = Unfed(b, plugin.own)
  <1>1. /\ i \in 1 .. Outs[x] /\ i \in 1 .. plugin.outs[x] /\ ~(i <= Ins[x])
        /\ plugin.type = "vst2" => x = "main"
    BY AloneChannels
  <1>2. plugin.type \in {"vst2", "vst3"}
    BY UGenAssumption DEF PluginModels
  <1>3. plugin.outs[x] \in Nat /\ i \in Nat
    BY <1>1, UGenAssumption DEF PluginModels
  <1>4. (i <= Ins[x]) = FALSE /\ ~(i > plugin.outs[x])
    BY <1>1, <1>3
  <1>5. CASE plugin.type = "vst2"
    <2>1. Gained(b)[x][i] = VST2Output(b, plugin, x, i, Ins[x])
      BY <1>1, <1>5 DEF Gained
    <2>2. x = "main"
      BY <1>1, <1>5
    <2>3. VST2Output(b, plugin, x, i, Ins[x]) = Output(b, plugin.own, i <= Ins[x])
      BY <1>4, <2>2 DEF VST2Output
    <2> QED
      BY <1>4, <2>1, <2>3, Zenon DEF Unfed
  <1>6. CASE plugin.type = "vst3"
    <2>1. Gained(b)[x][i] = VST3Output(b, plugin, x, i, Ins[x])
      BY <1>1, <1>6 DEF Gained
    <2>2. VST3Output(b, plugin, x, i, Ins[x]) = Output(b, plugin.own, i <= Ins[x])
      BY <1>4 DEF VST3Output
    <2> QED
      BY <1>4, <2>1, <2>2, Zenon DEF Unfed
  <1> QED
    BY <1>2, <1>5, <1>6

\* Nothing of the input, and the plugin or its fade, but for the tail of a soft bypass.
LEMMA AloneOutput ==
  ASSUME NEW b \in BypassStates, NEW own \in BOOLEAN,
         Handled(b, own) # "soft" \/ Changing(b),
         NEW out, out = Unfed(b, own)
  PROVE  /\ out.dry = Flat(0)
         /\ out.wet = IF Handled(b, own) = "off" THEN Flat(1)
                      ELSE IF Changing(b) THEN Mix(b) ELSE Flat(0)
  <1> DEFINE mix == Mix(b)
             none == Flat(0)
             full == Flat(1)
             gains(wet) == [dry |-> none, wet |-> wet]
  <1>1. CASE Handled(b, own) = "off"
    <2>1. out = gains(full)
      BY <1>1 DEF Output, Unfed
    <2> HIDE DEF none, full
    <2>2. out.dry = none /\ out.wet = full
      BY <2>1
    <2> QED
      BY <1>1, <2>2 DEF none, full
  <1>2. CASE Handled(b, own) # "off" /\ Changing(b)
    <2>1. Ramp(b, own)
      BY <1>2 DEF Ramp
    <2>2. out = gains(mix)
      BY <1>2, <2>1 DEF Output, Unfed
    <2> HIDE DEF none, mix
    <2>3. out.dry = none /\ out.wet = mix
      BY <2>2
    <2> QED
      BY <1>2, <2>3 DEF none, mix
  <1>3. CASE Handled(b, own) # "off" /\ ~Changing(b)
    <2>1. ~Ramp(b, own) /\ Handled(b, own) # "soft"
      BY <1>3 DEF Ramp
    <2>2. out = gains(none)
      BY <1>3, <2>1 DEF Output, Unfed
    <2> HIDE DEF none
    <2>3. out.dry = none /\ out.wet = none
      BY <2>2
    <2> QED
      BY <1>3, <2>3 DEF none
  <1> QED
    BY <1>1, <1>2, <1>3

LEMMA AloneMeets ==
  ASSUME NEW b0 \in BypassStates, b0.last = b0.bypass, b0.bypass # "soft",
         NEW own \in BOOLEAN, NEW request \in Bypass,
         NEW b \in BypassStates, b = b0 \/ b = SetBypass(b0, request),
         NEW out, AloneRests(Handled(b0, own), out),
         NEW out2, out2 = Unfed(b, own)
  PROVE  out2.dry[1] = out.dry[2] /\ out2.wet[1] = out.wet[2]
  <1>0. Handled(b, own) # "soft" \/ Changing(b) =>
          /\ out2.dry = Flat(0)
          /\ out2.wet = IF Handled(b, own) = "off" THEN Flat(1)
                        ELSE IF Changing(b) THEN Mix(b) ELSE Flat(0)
    BY AloneOutput, Zenon
  <1>1. b0.bypass \in {"off", "hard"}
    BY DEF BypassStates, Bypass
  <1>2. Handled(b0, own) = IF own /\ b0.bypass = "hard" THEN "off" ELSE b0.bypass
    BY HandledSteady
  <1>3. \/ b = b0
        \/ /\ b0.bypass = "off" /\ request # "off"
           /\ b = [bypass |-> request, last |-> "off", silent |-> FALSE]
        \/ /\ b0.bypass # "off"
           /\ b = [bypass |-> "off", last |-> b0.bypass, silent |-> FALSE]
    BY Turned
  <1>4. ASSUME b = b0
        PROVE  out2.dry[1] = out.dry[2] /\ out2.wet[1] = out.wet[2]
    <2>1. ~Changing(b) /\ Handled(b, own) = Handled(b0, own) /\ Handled(b, own) # "soft"
      BY <1>1, <1>2, <1>4 DEF Changing
    <2> QED
      BY <1>0, <2>1 DEF AloneRests, Flat
  <1>5. ASSUME b # b0 /\ b0.bypass = "off"
        PROVE  out2.dry[1] = out.dry[2] /\ out2.wet[1] = out.wet[2]
    <2>1. b.bypass # "off" /\ b.last = "off"
      BY <1>3, <1>5
    <2>2. Changing(b) /\ Mix(b) = <<1, 0>> /\ Handled(b0, own) = "off"
      BY <1>2, <1>5, <2>1 DEF Changing, Mix
    <2> QED
      BY <1>0, <2>2 DEF AloneRests, Flat
  <1>6. ASSUME b # b0 /\ b0.bypass = "hard"
        PROVE  out2.dry[1] = out.dry[2] /\ out2.wet[1] = out.wet[2]
    <2>1. b.bypass = "off" /\ b.last = "hard"
      BY <1>3, <1>6
    <2>2. /\ Changing(b) /\ Mix(b) = <<0, 1>>
          /\ Handled(b, own) = IF own THEN "off" ELSE "hard"
          /\ Handled(b0, own) = IF own THEN "off" ELSE "hard"
      BY <1>2, <1>6, <2>1, HandledRamp DEF Changing, Mix
    <2> QED
      BY <1>0, <2>2 DEF AloneRests, Flat
  <1> QED
    BY <1>1, <1>4, <1>5, <1>6

LEMMA AloneSettles ==
  ASSUME NEW b \in BypassStates,
         b.last = b.bypass \/ b.last = "off" \/ b.bypass = "off",
         b.bypass # "soft", NEW own \in BOOLEAN,
         NEW after, after.bypass = b.bypass, after.last = b.bypass,
         NEW out2, out2 = Unfed(b, own)
  PROVE  AloneRests(Handled(after, own), out2)
  <1>0. Handled(b, own) # "soft" \/ Changing(b) =>
          /\ out2.dry = Flat(0)
          /\ out2.wet = IF Handled(b, own) = "off" THEN Flat(1)
                        ELSE IF Changing(b) THEN Mix(b) ELSE Flat(0)
    BY AloneOutput, Zenon
  <1>1. Handled(after, own) = IF own /\ b.bypass = "hard" THEN "off" ELSE b.bypass
    BY HandledSteady
  <1>2. b.bypass \in {"off", "hard"}
    BY DEF BypassStates, Bypass
  <1>3. ASSUME b.last = b.bypass
        PROVE  AloneRests(Handled(after, own), out2)
    <2>1. ~Changing(b) /\ Handled(b, own) = Handled(after, own)
      BY <1>1, <1>3, HandledSteady DEF Changing
    <2>2. Handled(b, own) # "soft"
      BY <1>1, <1>2, <2>1
    <2> QED
      BY <1>0, <2>1, <2>2 DEF AloneRests, Flat
  <1>4. ASSUME b.last # b.bypass /\ b.bypass = "hard"
        PROVE  AloneRests(Handled(after, own), out2)
    <2>1. /\ Changing(b) /\ Mix(b) = <<1, 0>>
          /\ Handled(b, own) = Handled(after, own)
      BY <1>1, <1>4, HandledRamp DEF Changing, Mix
    <2> QED
      BY <1>0, <1>1, <1>4, <2>1 DEF AloneRests, Flat
  <1>5. ASSUME b.last # b.bypass /\ b.bypass = "off"
        PROVE  AloneRests(Handled(after, own), out2)
    <2>1. Changing(b) /\ Mix(b) = <<0, 1>> /\ Handled(after, own) = "off"
      BY <1>1, <1>5 DEF Changing, Mix
    <2> QED
      BY <1>0, <2>1 DEF AloneRests, Flat
  <1> QED
    BY <1>2, <1>3, <1>4, <1>5

LEMMA BypassInitially == Init => BypassInv
  BY DEF Init, BypassInv, NotBypassed, NoBlock

\* What one block needs of the state before it.
LEMMA BlockBefore ==
  ASSUME PluginInv, BypassInv, Process
  PROVE  /\ plugin \in Plugins /\ plugin' = plugin /\ plugin.own \in BOOLEAN
         /\ \E request \in Bypass, quiet \in BOOLEAN, b \in BypassStates :
              /\ b = pb \/ b = SetBypass(pb, request)
              /\ pb' = Processed(b, plugin.own, quiet)
              /\ block' = [processed |-> TRUE, tail |-> Sounding(b, quiet),
                           out |-> Gained(b), feed |-> Fed(b)]
  <1>1. plugin \in Plugins /\ plugin' = plugin /\ plugin.own \in BOOLEAN
    BY UGenAssumption DEF Process, PluginInv, PluginModels
  <1>2. PICK in \in Inputs, quiet \in BOOLEAN : ProcessWith(in, quiet)
    BY DEF Process
  <1>3. in.bypass \in Bypass
    <2>1. Requests[plugin] \subseteq Bypass
      BY <1>1, UGenAssumption
    <2> QED
      BY <1>2, <2>1 DEF Inputs
  <1> DEFINE b == IF in.bypass # bypass THEN SetBypass(pb, in.bypass) ELSE pb
  <1>4. /\ pb' = Processed(b, plugin.own, quiet)
        /\ block' = [processed |-> TRUE, tail |-> Sounding(b, quiet),
                     out |-> Gained(b), feed |-> Fed(b)]
    BY <1>2 DEF ProcessWith
  <1>5. pb \in BypassStates
    BY DEF PluginInv
  <1>6. b \in BypassStates
    BY <1>3, <1>5 DEF SetBypass, BypassStates, Bypass
  <1>7. b = pb \/ b = SetBypass(pb, in.bypass)
    OBVIOUS
  <1> HIDE DEF b
  <1> QED
    BY <1>1, <1>2, <1>3, <1>4, <1>6, <1>7

LEMMA BlockStep ==
  ASSUME PluginInv, BypassInv, Process
  PROVE  BypassInv'
  <1> DEFINE own == plugin.own
  <1>1. plugin \in Plugins /\ plugin' = plugin /\ own \in BOOLEAN
    BY BlockBefore
  <1>2. PICK request \in Bypass, quiet \in BOOLEAN, b \in BypassStates :
          /\ b = pb \/ b = SetBypass(pb, request)
          /\ pb' = Processed(b, own, quiet)
          /\ block' = [processed |-> TRUE, tail |-> Sounding(b, quiet),
                       out |-> Gained(b), feed |-> Fed(b)]
    BY BlockBefore
  <1>3. pb \in BypassStates /\ pb.last = pb.bypass
    BY DEF PluginInv, BypassInv
  <1>4. b = pb \/ (~b.silent /\ (b.last = "off" \/ b.bypass = "off"))
    BY <1>2, <1>3, Turned
  <1>5. b.silent => ~block.tail /\ Handled(b, own) # "off" /\ ~Changing(b)
    BY <1>3, <1>4 DEF BypassInv, Changing
  <1>6. /\ pb'.bypass = b.bypass /\ pb'.last = b.bypass
        /\ pb'.silent => b.silent \/ (Handled(b, own) # "off" /\ ~Changing(b) /\ quiet)
    <2>1. pb' = [bypass |-> b.bypass, last |-> b.bypass, silent |-> pb'.silent]
      BY <1>2 DEF Processed, BypassStates
    <2>2. pb'.silent = IF Handled(b, own) = "off" \/ Changing(b) THEN b.silent
                       ELSE b.silent \/ quiet
      BY <1>2 DEF Processed, BypassStates
    <2>3. pb'.bypass = b.bypass /\ pb'.last = b.bypass
      BY <2>1
    <2>4. pb'.silent => b.silent \/ (Handled(b, own) # "off" /\ ~Changing(b) /\ quiet)
      <3>1. CASE Handled(b, own) = "off" \/ Changing(b)
        BY <2>2, <3>1
      <3>2. CASE ~(Handled(b, own) = "off" \/ Changing(b))
        BY <2>2, <3>2
      <3> QED
        BY <3>1, <3>2
    <2> QED
      BY <2>3, <2>4
  <1>7. block'.tail = Sounding(b, quiet) /\ block'.out = Gained(b) /\ block'.feed = Fed(b)
    BY <1>2
  <1>8. b.silent => ~block'.tail
    BY <1>1, <1>5, <1>7, BypassedIsSilent
  <1>9. pb'.silent => ~block'.tail /\ Handled(pb', own) # "off"
    <2> SUFFICES ASSUME pb'.silent PROVE ~block'.tail /\ Handled(pb', own) # "off"
      OBVIOUS
    <2>1. Handled(b, own) # "off" /\ ~Changing(b) /\ (b.silent \/ quiet)
      BY <1>5, <1>6
    <2>2. Handled(pb', own) = Handled(b, own)
      BY <1>1, <1>6, <2>1, HandledSteady DEF Changing
    <2>3. ~block'.tail
      <3>1. CASE b.silent
        BY <1>8, <3>1
      <3>2. CASE ~b.silent
        BY <1>1, <1>7, <2>1, <3>2, BypassedIsSilent DEF Called
      <3> QED
        BY <3>1, <3>2
    <2> QED
      BY <2>1, <2>2, <2>3
  <1>10. \A x \in Busses : \A i \in Through(x) :
           Rests(Handled(pb', own), block'.tail, block'.out[x][i], block'.feed[x][i])
    <2> SUFFICES ASSUME NEW x \in Busses, NEW i \in Through(x)
          PROVE Rests(Handled(pb', own), block'.tail, block'.out[x][i], block'.feed[x][i])
      OBVIOUS
    <2>1. /\ block'.out[x][i] = Output(b, own, TRUE)
          /\ block'.feed[x][i] = Feed(b, own, TRUE, TRUE)
      BY <1>1, <1>7, ThroughGains
    <2>2. b.last = b.bypass \/ b.last = "off" \/ b.bypass = "off"
      BY <1>3, <1>4
    <2>3. Rests(Handled(pb', own), block'.tail, Output(b, own, TRUE), Feed(b, own, TRUE, TRUE))
      BY <1>1, <1>6, <1>8, <2>2, Settling, Zenon
    <2> QED
      BY <2>1, <2>3, Zenon
  <1>11. ASSUME pb'.bypass # "soft", NEW x \in Busses, NEW i \in Alone(x)
         PROVE  AloneRests(Handled(pb', own), block'.out[x][i])
    <2>1. block'.out[x][i] = Unfed(b, own)
      BY <1>1, <1>7, AloneGains
    <2>2. b.last = b.bypass \/ b.last = "off" \/ b.bypass = "off"
      BY <1>3, <1>4
    <2>3. b.bypass # "soft" /\ pb'.bypass = b.bypass /\ pb'.last = b.bypass
      BY <1>6, <1>11
    <2> QED
      BY <1>1, <2>1, <2>2, <2>3, AloneSettles, Zenon
  <1>12. Settled'
    BY <1>1, <1>10, <1>11 DEF Settled, Through, Alone, Written
  <1> QED
    BY <1>1, <1>6, <1>9, <1>12 DEF BypassInv, PluginInv, Process

LEMMA BypassStep == ASSUME PluginInv, BypassInv, [Next]_vars PROVE BypassInv'
  <1>1. CASE UNCHANGED <<plugin, pb, block>>
    BY <1>1 DEF BypassInv, Settled, Through, Alone, Written
  <1>2. ASSUME pb' = NotBypassed, block' = NoBlock PROVE BypassInv'
    BY <1>2 DEF BypassInv, NotBypassed, NoBlock
  <1>3. CASE PassThrough
    BY <1>3 DEF PassThrough, BypassInv, NoBlock
  <1>4. CASE Process
    BY <1>4, BlockStep
  <1>5. CASE Construct \/ FreeSynth \/ Opened \/ Closed
    BY <1>2, <1>5 DEF Construct, FreeSynth, NoPluginYet, Opened, Closed
  <1> QED
    BY <1>1, <1>3, <1>4, <1>5
    DEF Next, vars, audio, NewSynth, QueueUnitCmd, MapParams, UnmapParam, UnmapAll,
        SetParam, PluginMoves, Suspend

--------------------------------------------------------------------------------
(* Theorems *)

LEMMA Initially == Init => IInv
  <1> SUFFICES ASSUME Init PROVE IInv
    OBVIOUS
  <1>1. PluginInv
    BY DEF Init, PluginInv, Bypass, BypassStates, NotBypassed
  <1>2. MapInv
    BY NoListIsList DEF Init, MapInv
  <1>3. AutoInv
    <2>1. auto = [value |-> Zeros, own |-> Nobody, aim |-> Nowhere, state |-> Empty,
                  ok |-> FALSE]
      BY DEF Init, NoParams, Zeros, Nobody, Nowhere
    <2>2. AutoType
      BY <2>1 DEF AutoType, Zeros, Nobody, Nowhere, Values, Empty
    <2> QED
      BY <2>2 DEF Init, AutoInv
  <1> QED
    BY <1>1, <1>2, <1>3, UnitInitially, BypassInitially DEF IInv

\* What each command and each block relies on: the memory of an unbuilt synth, the list of
\* mappings with its table, what was passed on to the plugin, and the gains of the last block.
THEOREM UGenInvariant == Spec => []IInv
  <1>1. IInv /\ [Next]_vars => IInv'
    BY UnitStep, PluginStep, MappingStep, AutomationStep, BypassStep DEF IInv
  <1> QED
    BY Initially, <1>1, PTL DEF Spec

\* The state stays well-formed: in particular the structs of the mapping and the table are
\* cells of their own or null, whatever was mapped, unmapped or closed.
THEOREM UGenTypes == Spec => []TypeOK
  <1>1. IInv => TypeOK
    <2> SUFFICES ASSUME IInv PROVE TypeOK
      OBVIOUS
    <2>1. /\ unit \in {"none", "raw", "built"}
          /\ mem \in [initialized : BOOLEAN, queued : BOOLEAN,
                      list : Seq(0 .. MaxQueue), sent : 0 .. MaxQueue]
      BY DEF IInv, UnitInv, Memory
    <2>2. /\ plugin \in Plugins \cup {NoPlugin} /\ suspended \in BOOLEAN
          /\ bypass \in Bypass /\ pb \in BypassStates
      BY DEF IInv, PluginInv
    <2>3. /\ DOMAIN pm.cell \subseteq Cells
          /\ \A c \in DOMAIN pm.cell : pm.cell[c] \in Mappings
          /\ \A i \in DOMAIN pm.table : pm.table[i] \in Cells \cup {Nil}
      BY DEF IInv, MapInv, List, MapType, Indexed
    <2>4. DOMAIN pm = {"cell", "head", "table", "ok"}
      <3>1. pm = [cell |-> pm.cell, head |-> pm.head, table |-> pm.table, ok |-> pm.ok]
        BY DEF IInv, MapInv, List, MapType
      <3> QED
        BY <3>1
    <2>5. pm.head \in Cells \cup {Nil}
      <3>1. PICK s, n : Linked(pm, s, n)
        BY DEF IInv, MapInv, List
      <3> QED
        BY <2>3, <3>1 DEF Linked, At
    <2>6. /\ auto.value \in [Params -> Values] /\ auto.own \in [Params -> BOOLEAN]
          /\ auto.aim \in [Params -> Values \cup {Unseen}]
          /\ \A i \in DOMAIN auto.state : auto.state[i] \in Values \cup {Unseen}
      BY DEF IInv, AutoInv, AutoType
    <2> QED
      BY <2>1, <2>2, <2>3, <2>4, <2>5, <2>6 DEF TypeOK
  <1> QED
    BY <1>1, UGenInvariant, PTL

\* The mappings are one doubly linked list of exactly the structs in memory, with a pointer
\* to each in the table, for any number of parameters and however many fit in RT memory.
THEOREM UGenMappingList == Spec => []MappingList
  <1>1. IInv => MappingList
    <2> SUFFICES ASSUME IInv PROVE MappingList
      OBVIOUS
    <2>1. PICK s, n : Linked(pm, s, n)
      BY DEF IInv, MapInv, List
    <2>2. n = Cardinality(DOMAIN pm.cell)
      <3>1. IsFiniteSet(1 .. n) /\ Cardinality(1 .. n) = n
        <4>1. n \in Nat
          BY <2>1 DEF Linked
        <4>2. 1 \in Int /\ n \in Int
          BY <4>1
        <4>3. /\ IsFiniteSet(1 .. n)
              /\ Cardinality(1 .. n) = IF 1 > n THEN 0 ELSE n - 1 + 1
          BY <4>2, FS_Interval, Zenon
        <4> QED
          BY <4>1, <4>3
      <3>2. s \in Bijection(1 .. n, DOMAIN pm.cell)
        BY <2>1 DEF Linked, Bijection, Injection, Surjection, IsInjective
      <3>3. ExistsBijection(1 .. n, DOMAIN pm.cell)
        BY <3>2 DEF ExistsBijection
      <3> QED
        BY <3>1, <3>3, FS_Bijection
    <2>3. \E t \in [1 .. n -> DOMAIN pm.cell] :
            /\ IsInjective(t)
            /\ pm.head = At(t, n, 1)
            /\ \A k \in 1 .. n : /\ pm.cell[t[k]].next = At(t, n, k + 1)
                                 /\ pm.cell[t[k]].prev = At(t, n, k - 1)
      <3>1. s \in [1 .. n -> DOMAIN pm.cell] /\ IsInjective(s)
        BY <2>1 DEF Linked, IsInjective
      <3>2. /\ pm.head = At(s, n, 1)
            /\ \A k \in 1 .. n : /\ pm.cell[s[k]].next = At(s, n, k + 1)
                                 /\ pm.cell[s[k]].prev = At(s, n, k - 1)
        BY <2>1 DEF Linked
      <3> QED
        BY <3>1, <3>2, Zenon
    <2>4. /\ \A c \in DOMAIN pm.cell : /\ pm.cell[c].index \in DOMAIN pm.table
                                       /\ pm.table[pm.cell[c].index] = c
          /\ \A i \in DOMAIN pm.table : pm.table[i] \in DOMAIN pm.cell \cup {Nil}
      BY DEF IInv, MapInv, List, Indexed
    <2>5. plugin # NoPlugin => DOMAIN pm.table \subseteq 0 .. plugin.params - 1
      BY DEF IInv, MapInv
    <2> QED
      BY <2>2, <2>3, <2>4, <2>5 DEF MappingList, At
  <1> QED
    BY <1>1, UGenInvariant, PTL

\* A parameter follows the client or the bus that gave it a value last, for any number of
\* parameters and any series of blocks, although only changes are passed on.
THEOREM UGenAutomationFollows == Spec => []AutomationFollows
  <1>1. IInv => AutomationFollows
    BY ParamsOf DEF IInv, PluginInv, AutoInv, Follows, AutomationFollows
  <1> QED
    BY <1>1, UGenInvariant, PTL

\* Unless a synth is freed before its first block, the commands that its constructor runs
\* are its own, in the order they were sent, although the words it finds them by are not cleared.
THEOREM UGenCommandsReachTheirUnit ==
  ASSUME ~FreeUnbuilt
  PROVE  Spec => []CommandsReachTheirUnit
  <1>1. IInv => CommandsReachTheirUnit
    <2> SUFFICES ASSUME IInv, unit = "raw"
                 PROVE  /\ \A k \in DOMAIN Pending : Pending[k] > 0
                        /\ \A k, l \in DOMAIN Pending : k < l => Pending[k] < Pending[l]
      BY DEF CommandsReachTheirUnit
    <2>1. CASE mem.queued
      <3>1. InOrder(mem) /\ mem.sent \in Nat
        BY <2>1, UGenAssumption DEF IInv, UnitInv, Memory
      <3> QED
        BY <2>1, <3>1 DEF InOrder, Pending
    <2>2. CASE ~mem.queued
      BY <2>2 DEF Pending
    <2> QED
      BY <2>1, <2>2
  <1> QED
    BY <1>1, UGenInvariant, PTL

\* Bypassing makes no jump from one processed block to the next, in the channels that
\* have input, output and a plugin that writes them, nor in outputs without an input of
\* their number unless they come from soft bypass, whatever the plugin, the numbers of
\* channels and the order of requests: the gains begin where the invariant says that the
\* block before left them.
THEOREM UGenNoClick == Spec => NoClick
  <1>1. IInv /\ [Next]_vars =>
          [Process /\ block.processed /\ block'.processed =>
             \A x \in Busses :
               /\ \A i \in Through(x) : Smooth(x, i) /\ FedSmoothly(x, i)
               /\ pb.bypass # "soft" => \A i \in Alone(x) : Smooth(x, i)]_vars
    <2> SUFFICES ASSUME IInv, Process, block.processed, NEW x \in Busses
                 PROVE  /\ \A i \in Through(x) : Smooth(x, i) /\ FedSmoothly(x, i)
                        /\ pb.bypass # "soft" => \A i \in Alone(x) : Smooth(x, i)
      OBVIOUS
    <2>1. plugin \in Plugins /\ plugin.own \in BOOLEAN
      BY BlockBefore DEF IInv
    <2>2. PICK request \in Bypass, quiet \in BOOLEAN, b \in BypassStates :
            /\ b = pb \/ b = SetBypass(pb, request)
            /\ block' = [processed |-> TRUE, tail |-> Sounding(b, quiet),
                         out |-> Gained(b), feed |-> Fed(b)]
      BY BlockBefore DEF IInv
    <2>3. /\ pb \in BypassStates /\ pb.last = pb.bypass /\ (pb.silent => ~block.tail)
          /\ Settled
      BY DEF IInv, PluginInv, BypassInv
    <2>4. ASSUME NEW i \in Through(x) PROVE Smooth(x, i) /\ FedSmoothly(x, i)
      <3>1. /\ block'.out[x][i] = Output(b, plugin.own, TRUE)
            /\ block'.feed[x][i] = Feed(b, plugin.own, TRUE, TRUE)
        BY <2>1, <2>2, ThroughGains
      <3>2. Rests(Handled(pb, plugin.own), block.tail, block.out[x][i], block.feed[x][i])
        BY <2>3 DEF Settled
      <3>3. Meets(block.tail, block.out[x][i], block.feed[x][i],
                  Output(b, plugin.own, TRUE), Feed(b, plugin.own, TRUE, TRUE))
        BY <2>1, <2>2, <2>3, <3>2, Meeting, Zenon
      <3>4. Meets(block.tail, block.out[x][i], block.feed[x][i],
                  block'.out[x][i], block'.feed[x][i])
        BY <3>1, <3>3, Zenon
      <3> QED
        BY <3>4 DEF Meets, Smooth, FedSmoothly
    <2>5. ASSUME pb.bypass # "soft", NEW i \in Alone(x) PROVE Smooth(x, i)
      <3>1. block'.out[x][i] = Unfed(b, plugin.own)
        BY <2>1, <2>2, AloneGains
      <3>2. AloneRests(Handled(pb, plugin.own), block.out[x][i])
        BY <2>3, <2>5 DEF Settled
      <3>3. /\ block'.out[x][i].dry[1] = block.out[x][i].dry[2]
            /\ block'.out[x][i].wet[1] = block.out[x][i].wet[2]
        BY <2>1, <2>2, <2>3, <2>5, <3>1, <3>2, AloneMeets
      <3> QED
        BY <3>3 DEF Smooth
    <2> QED
      BY <2>4, <2>5
  <1> QED
    BY <1>1, UGenInvariant, PTL DEF Spec, NoClick
================================================================================
