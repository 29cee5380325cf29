-------------------------- MODULE PluginSearchProofs --------------------------
(***************************************************************************)
(* Theorems about PluginSearch, for any modules, directories, size of      *)
(* batches, and number of requests, sessions and changes on disk, as long  *)
(* as the Pd thread does not probe while the worker's probes are under way *)
(* (~Beside).                                                              *)
(*                                                                         *)
(* A search goes through the modules of the directories in order: those it *)
(* has passed are decided, except for the ones whose probes have not been  *)
(* collected, and what it has found is what is known of them (SearchInv).  *)
(* What the cache file makes of the dictionary is left open.               *)
(***************************************************************************)
EXTENDS PluginSearch, SequenceTheorems, TLAPS

Commands == [op : {"search", "clear", "probe"}, id : Nat, save : BOOLEAN, parallel : BOOLEAN,
             path : Modules \cup {<<>>}]

\* the modules of the directories before d, and the first ones of d, up to the n-th
Before(d) == UNION {ToSet(Directories[e]) : e \in {e \in Dirs : e < d}}
Looked(d, n) == {Directories[d][i] : i \in 1 .. n - 1}

\* where a worker may be
Walking == {"dir", "module", "flush", "save", "answer"}
InDirectory(w) == w.pc \in {"module", "flush"}
Here(w) == IF InDirectory(w) THEN Looked(w.dir, w.module) ELSE {}
Passed(w) == Before(w.dir) \cup Here(w)

Place(w) ==
  /\ w = [pc |-> w.pc, cmd |-> w.cmd, dir |-> w.dir, module |-> w.module,
          futures |-> w.futures, found |-> w.found, cut |-> w.cut, save |-> w.save]
  /\ w.pc \in Walking \cup {"off", "idle", "clear", "probe"}
  /\ w.pc \notin {"off", "idle"} => w.cmd \in Commands
  /\ w.pc \in Walking /\ w.cmd.op = "search" => w.dir \in 1 .. Len(Directories) + 1
  /\ w.pc \in {"dir", "module", "flush", "save"} => w.cmd.op = "search"
  /\ w.pc \in {"clear", "probe"} => w.cmd.op = w.pc
  /\ w.pc \in {"save", "answer"} /\ w.cmd.op = "search" /\ ~w.cut => w.dir = Len(Directories) + 1
  /\ InDirectory(w) => w.dir \in Dirs /\ w.module \in 1 .. Len(Directories[w.dir]) + 1
  /\ w.pc = "module" => w.module \in DOMAIN Directories[w.dir]
  /\ w.pc = "flush" => w.futures # <<>>
  /\ w.futures \in Seq(Modules) /\ ToSet(w.futures) \subseteq Here(w)
  /\ IsInjective(w.futures)

\* a module whose probe is under way is not in the dictionary
IsDict(d)  == d = [factories |-> d.factories, plugins |-> d.plugins, exceptions |-> d.exceptions]
Decided(d) == DOMAIN d.factories \cup d.exceptions
Apart(d)   == DOMAIN d.factories \cap d.exceptions = {}
DictInv ==
  /\ IsDict(dict)
  /\ ToSet(worker.futures) \cap Decided(dict) = {}

\* how far a search has come
AllOf(d, S) == UNION {Names(d.factories[m]) : m \in DOMAIN d.factories \cap S}
SearchInv ==
  host = "sc" /\ worker.pc \in Walking /\ worker.cmd.op = "search" /\ ~worker.cut =>
    /\ Passed(worker) \subseteq Decided(dict) \cup ToSet(worker.futures)
    /\ worker.found = AllOf(dict, Passed(worker))

OnPd == sync # "no" => host = "pd"
IInv == host \in {"sc", "pd"} /\ queue \in Seq(Commands) /\ Place(worker) /\ DictInv /\ SearchInv
--------------------------------------------------------------------------------
(* Directories and batches *)

LEMMA Folders ==
  /\ Len(Directories) \in Nat /\ Dirs = 1 .. Len(Directories)
  /\ \A d \in Dirs : /\ Directories[d] \in Seq(Modules) /\ Len(Directories[d]) \in Nat
                     /\ DOMAIN Directories[d] = 1 .. Len(Directories[d])
                     /\ \A i, j \in 1 .. Len(Directories[d]) :
                          Directories[d][i] = Directories[d][j] => i = j
  <1>1. /\ Len(Directories) \in Nat /\ Dirs = 1 .. Len(Directories)
        /\ \A d \in Dirs : Directories[d] \in Seq(Modules)
    BY SearchAssumption DEF Dirs
  <1>2. ASSUME NEW d \in Dirs
        PROVE  /\ Len(Directories[d]) \in Nat /\ DOMAIN Directories[d] = 1 .. Len(Directories[d])
               /\ \A i, j \in 1 .. Len(Directories[d]) :
                    Directories[d][i] = Directories[d][j] => i = j
    BY <1>1, SearchAssumption DEF IsInjective
  <1> QED
    BY <1>1, <1>2

LEMMA NextLooked ==
  ASSUME NEW d \in Dirs, NEW n \in DOMAIN Directories[d]
  PROVE  /\ Looked(d, n + 1) = Looked(d, n) \cup {Directories[d][n]}
         /\ Directories[d][n] \in Modules /\ Directories[d][n] \notin Looked(d, n)
  <1>1. n \in Nat /\ n >= 1 /\ n <= Len(Directories[d]) /\ Len(Directories[d]) \in Nat
    BY Folders
  <1>2. 1 .. (n + 1) - 1 = (1 .. n - 1) \cup {n} /\ 1 .. n - 1 \subseteq 1 .. Len(Directories[d])
    BY <1>1
  <1>3. n \notin 1 .. n - 1
    BY <1>1
  <1> QED
    BY <1>1, <1>2, <1>3, Folders DEF Looked

LEMMA NextBefore ==
  ASSUME NEW d \in Dirs
  PROVE  Before(d + 1) = Before(d) \cup Looked(d, Len(Directories[d]) + 1)
  <1>1. {e \in Dirs : e < d + 1} = {e \in Dirs : e < d} \cup {d}
    BY Folders
  <1>2. (Len(Directories[d]) + 1) - 1 = Len(Directories[d])
    BY Folders
  <1>3. Looked(d, Len(Directories[d]) + 1) = ToSet(Directories[d])
    BY <1>2, Folders DEF Looked, ToSet
  <1> QED
    BY <1>1, <1>3 DEF Before

\* The worker goes on to a probe's result, the next module or the next directory, and has
\* passed the same modules.
LEMMA Resumed ==
  ASSUME NEW v, NEW full,
         v = [pc |-> v.pc, cmd |-> v.cmd, dir |-> v.dir, module |-> v.module,
              futures |-> v.futures, found |-> v.found, cut |-> v.cut, save |-> v.save],
         v.cmd \in Commands, v.cmd.op = "search",
         v.dir \in Dirs, v.module \in 1 .. Len(Directories[v.dir]) + 1,
         v.futures \in Seq(Modules), IsInjective(v.futures),
         ToSet(v.futures) \subseteq Looked(v.dir, v.module)
  PROVE  /\ Place(Resume(v, full)) /\ Resume(v, full).pc \in {"dir", "module", "flush"}
         /\ Passed(Resume(v, full)) = Before(v.dir) \cup Looked(v.dir, v.module)
         /\ Resume(v, full).cmd = v.cmd /\ Resume(v, full).futures = v.futures
         /\ Resume(v, full).found = v.found /\ Resume(v, full).cut = v.cut
  <1>1. v.module \in Nat /\ Batch \in Nat \ {0} /\ v.dir \in Nat /\ Len(Directories[v.dir]) \in Nat
    BY Folders, SearchAssumption
  <1>2. CASE Due(v, full)
    <2> DEFINE r == [v EXCEPT !.pc = "flush"]
    <2>1. Resume(v, full) = r
      BY <1>2 DEF Resume
    <2>2. r = [pc |-> "flush", cmd |-> v.cmd, dir |-> v.dir, module |-> v.module,
               futures |-> v.futures, found |-> v.found, cut |-> v.cut, save |-> v.save]
      OBVIOUS
    <2> HIDE DEF r
    <2>3. v.futures # <<>>
      BY <1>1, <1>2 DEF Due
    <2>4. v.dir \in 1 .. Len(Directories) + 1
      BY Folders
    <2>5. Here(r) = Looked(v.dir, v.module)
      BY <2>2 DEF Here, InDirectory
    <2>6. Place(r)
      BY <2>2, <2>3, <2>4, <2>5 DEF Place, InDirectory, Walking
    <2> QED
      BY <2>1, <2>2, <2>5, <2>6 DEF Passed
  <1>3. CASE ~Due(v, full) /\ v.module > Len(Directories[v.dir])
    <2> DEFINE u == [v EXCEPT !.pc = "dir"]
               r == [u EXCEPT !.dir = v.dir + 1]
    <2>1. Resume(v, full) = r
      BY <1>3 DEF Resume
    <2>2. u = [pc |-> "dir", cmd |-> v.cmd, dir |-> v.dir, module |-> v.module,
               futures |-> v.futures, found |-> v.found, cut |-> v.cut, save |-> v.save]
      OBVIOUS
    <2> HIDE DEF u
    <2>3. r = [pc |-> "dir", cmd |-> v.cmd, dir |-> v.dir + 1, module |-> v.module,
               futures |-> v.futures, found |-> v.found, cut |-> v.cut, save |-> v.save]
      BY <2>2
    <2> HIDE DEF r
    <2>4. v.futures = <<>> /\ v.module = Len(Directories[v.dir]) + 1
      BY <1>1, <1>3 DEF Due
    <2>5. v.dir + 1 \in 1 .. Len(Directories) + 1
      BY Folders
    <2>6. Here(r) = {} /\ ToSet(r.futures) = {}
      BY <2>3, <2>4 DEF Here, InDirectory, ToSet
    <2>7. Place(r)
      BY <2>3, <2>4, <2>5, <2>6 DEF Place, InDirectory, Walking
    <2>8. Passed(r) = Before(v.dir) \cup Looked(v.dir, v.module)
      BY <2>3, <2>4, <2>6, NextBefore DEF Passed
    <2> QED
      BY <2>1, <2>3, <2>7, <2>8
  <1>4. CASE ~Due(v, full) /\ ~(v.module > Len(Directories[v.dir]))
    <2> DEFINE r == [v EXCEPT !.pc = "module"]
    <2>1. Resume(v, full) = r
      BY <1>4 DEF Resume
    <2>2. r = [pc |-> "module", cmd |-> v.cmd, dir |-> v.dir, module |-> v.module,
               futures |-> v.futures, found |-> v.found, cut |-> v.cut, save |-> v.save]
      OBVIOUS
    <2> HIDE DEF r
    <2>3. v.module \in DOMAIN Directories[v.dir]
      BY <1>1, <1>4, Folders
    <2>4. v.dir \in 1 .. Len(Directories) + 1
      BY Folders
    <2>5. Here(r) = Looked(v.dir, v.module)
      BY <2>2 DEF Here, InDirectory
    <2>6. Place(r)
      BY <2>2, <2>3, <2>4, <2>5 DEF Place, InDirectory, Walking
    <2> QED
      BY <2>1, <2>2, <2>5, <2>6 DEF Passed
  <1> QED
    BY <1>2, <1>3, <1>4

\* Module m, which is the next one, has been passed.
LEMMA Advanced ==
  ASSUME NEW w, Place(w), w.pc = "module", NEW v, NEW full,
         v = [pc |-> v.pc, cmd |-> w.cmd, dir |-> w.dir, module |-> w.module,
              futures |-> v.futures, found |-> v.found, cut |-> v.cut, save |-> v.save],
         v.futures \in Seq(Modules), IsInjective(v.futures),
         ToSet(v.futures) \subseteq ToSet(w.futures) \cup {Directories[w.dir][w.module]}
  PROVE  /\ Place(NextModule(v, full)) /\ NextModule(v, full).pc \in {"dir", "module", "flush"}
         /\ Passed(NextModule(v, full)) = Passed(w) \cup {Directories[w.dir][w.module]}
         /\ NextModule(v, full).cmd = w.cmd /\ NextModule(v, full).futures = v.futures
         /\ NextModule(v, full).found = v.found /\ NextModule(v, full).cut = v.cut
  <1> DEFINE u == [v EXCEPT !.module = v.module + 1]
  <1>1. /\ w.dir \in Dirs /\ w.module \in DOMAIN Directories[w.dir] /\ w.cmd \in Commands
        /\ w.cmd.op = "search" /\ Here(w) = Looked(w.dir, w.module)
        /\ ToSet(w.futures) \subseteq Looked(w.dir, w.module)
    BY DEF Place, Here, InDirectory
  <1>2. NextModule(v, full) = Resume(u, full)
    BY DEF NextModule
  <1>3. u = [pc |-> v.pc, cmd |-> w.cmd, dir |-> w.dir, module |-> w.module + 1,
             futures |-> v.futures, found |-> v.found, cut |-> v.cut, save |-> v.save]
    OBVIOUS
  <1> HIDE DEF u
  <1>4. w.module + 1 \in 1 .. Len(Directories[w.dir]) + 1
    BY <1>1, Folders
  <1>5. Looked(w.dir, w.module + 1) = Looked(w.dir, w.module) \cup {Directories[w.dir][w.module]}
    BY <1>1, NextLooked
  <1>6. ToSet(u.futures) \subseteq Looked(u.dir, u.module)
    BY <1>1, <1>3, <1>5
  <1>7. /\ Place(Resume(u, full)) /\ Resume(u, full).pc \in {"dir", "module", "flush"}
        /\ Passed(Resume(u, full)) = Before(u.dir) \cup Looked(u.dir, u.module)
        /\ Resume(u, full).cmd = u.cmd /\ Resume(u, full).futures = u.futures
        /\ Resume(u, full).found = u.found /\ Resume(u, full).cut = u.cut
    BY <1>1, <1>3, <1>4, <1>6, Resumed
  <1> QED
    BY <1>1, <1>2, <1>3, <1>5, <1>7 DEF Passed

LEMMA NextFile ==
  ASSUME NEW w, Place(w), w.pc = "module"
  PROVE  /\ Directories[w.dir][w.module] \in Modules
         /\ Directories[w.dir][w.module] \notin ToSet(w.futures)
  <1>1. /\ w.dir \in Dirs /\ w.module \in DOMAIN Directories[w.dir]
        /\ ToSet(w.futures) \subseteq Looked(w.dir, w.module)
    BY DEF Place, Here, InDirectory
  <1> QED
    BY <1>1, NextLooked

\* The queue of probes under way.
LEMMA Started ==
  ASSUME NEW s \in Seq(Modules), IsInjective(s), NEW m \in Modules, m \notin ToSet(s)
  PROVE  /\ Append(s, m) \in Seq(Modules) /\ IsInjective(Append(s, m))
         /\ ToSet(Append(s, m)) = ToSet(s) \cup {m}
  <1> DEFINE t == Append(s, m)
  <1>1. /\ t \in Seq(Modules) /\ Len(s) \in Nat /\ DOMAIN t = 1 .. Len(s) + 1
        /\ DOMAIN s = 1 .. Len(s) /\ t[Len(s) + 1] = m
        /\ \A i \in 1 .. Len(s) : t[i] = s[i]
    BY AppendProperties
  <1> HIDE DEF t
  <1>2. \A i \in DOMAIN t : i \in DOMAIN s \/ i = Len(s) + 1
    BY <1>1
  <1>3. \A i \in DOMAIN s : i \in DOMAIN t /\ t[i] = s[i]
    BY <1>1
  <1>4. IsInjective(t)
    <2> SUFFICES ASSUME NEW i \in DOMAIN t, NEW j \in DOMAIN t, t[i] = t[j] PROVE i = j
      BY DEF IsInjective
    <2>1. i \in DOMAIN s /\ j \in DOMAIN s => i = j
      BY <1>3 DEF IsInjective
    <2>2. \A k \in DOMAIN s : t[k] # m
      BY <1>3 DEF ToSet
    <2> QED
      BY <1>1, <1>2, <2>1, <2>2
  <1>5. ToSet(t) = ToSet(s) \cup {m}
    BY <1>1, <1>2, <1>3 DEF ToSet
  <1> QED
    BY <1>1, <1>4, <1>5 DEF t

LEMMA Taken ==
  ASSUME NEW s \in Seq(Modules), IsInjective(s), s # <<>>
  PROVE  /\ Tail(s) \in Seq(Modules) /\ IsInjective(Tail(s)) /\ Head(s) \in Modules
         /\ Head(s) \in ToSet(s) /\ Head(s) \notin ToSet(Tail(s))
         /\ ToSet(s) = ToSet(Tail(s)) \cup {Head(s)}
  <1> DEFINE t == Tail(s)
  <1>1. /\ t \in Seq(Modules) /\ Len(s) \in Nat /\ Len(s) >= 1 /\ DOMAIN t = 1 .. Len(s) - 1
        /\ DOMAIN s = 1 .. Len(s) /\ Head(s) = s[1]
        /\ \A i \in 1 .. Len(s) - 1 : t[i] = s[i + 1]
    BY HeadTailProperties, EmptySeq
  <1> HIDE DEF t
  <1>2. \A i \in DOMAIN t : i + 1 \in DOMAIN s /\ i + 1 # 1 /\ t[i] = s[i + 1]
    BY <1>1
  <1>3. \A i \in DOMAIN s : i = 1 \/ (i - 1 \in DOMAIN t /\ s[i] = t[i - 1])
    BY <1>1
  <1>4. 1 \in DOMAIN s
    BY <1>1
  <1>5. IsInjective(t)
    <2> SUFFICES ASSUME NEW i \in DOMAIN t, NEW j \in DOMAIN t, t[i] = t[j] PROVE i = j
      BY DEF IsInjective
    <2>1. i + 1 = j + 1
      BY <1>2 DEF IsInjective
    <2> QED
      BY <1>1, <2>1
  <1>6. Head(s) \in ToSet(s) /\ Head(s) \in Modules
    BY <1>1, <1>4, ElementOfSeq DEF ToSet
  <1>7. Head(s) \notin ToSet(t)
    BY <1>1, <1>2, <1>4 DEF ToSet, IsInjective
  <1>8. ToSet(s) = ToSet(t) \cup {Head(s)}
    BY <1>1, <1>2, <1>3, <1>4 DEF ToSet
  <1> QED
    BY <1>1, <1>5, <1>6, <1>7, <1>8 DEF t

--------------------------------------------------------------------------------
(* The dictionary *)

\* A module that was undecided has been probed.
LEMMA Probed ==
  ASSUME NEW d, IsDict(d), NEW m, m \notin Decided(d), NEW plugins
  PROVE  /\ IsDict(AfterProbe(d, m, plugins))
         /\ Decided(AfterProbe(d, m, plugins)) = Decided(d) \cup {m}
         /\ Apart(d) => Apart(AfterProbe(d, m, plugins))
         /\ \A S : AllOf(AfterProbe(d, m, plugins), S)
                     = AllOf(d, S) \cup (IF m \in S THEN Names(plugins) ELSE {})
  <1> DEFINE e == AfterProbe(d, m, plugins)
  <1>1. CASE plugins = <<>>
    <2>1. e = [d EXCEPT !.exceptions = d.exceptions \cup {m}]
      BY <1>1 DEF AfterProbe, addException
    <2> HIDE DEF e
    <2>2. /\ e = [factories |-> d.factories, plugins |-> d.plugins,
                  exceptions |-> d.exceptions \cup {m}]
      BY <2>1 DEF IsDict
    <2>3. e.factories = d.factories /\ e.exceptions = d.exceptions \cup {m} /\ IsDict(e)
      BY <2>2 DEF IsDict
    <2>4. Names(plugins) = {}
      BY <1>1 DEF Names
    <2>5. \A S : AllOf(e, S) = AllOf(d, S) \cup (IF m \in S THEN Names(plugins) ELSE {})
      BY <2>3, <2>4 DEF AllOf
    <2>6. Decided(e) = Decided(d) \cup {m} /\ (Apart(d) => Apart(e))
      BY <2>3 DEF Decided, Apart
    <2> QED
      BY <2>3, <2>5, <2>6 DEF e
  <1>2. CASE plugins # <<>>
    <2> DEFINE fs == Put(d.factories, m, plugins)
               ks == AddKeys(d.plugins, m, plugins)
               a  == [d EXCEPT !.factories = fs]
    <2>1. a = addFactory(d, m, plugins)
      BY DEF addFactory
    <2>2. a = [factories |-> fs, plugins |-> d.plugins, exceptions |-> d.exceptions]
      BY DEF IsDict
    <2> HIDE DEF fs, a
    <2>3. e = [a EXCEPT !.plugins = AddKeys(a.plugins, m, plugins)]
      BY <1>2, <2>1 DEF AfterProbe, AddFactory
    <2> HIDE DEF e
    <2>4. e = [factories |-> fs, plugins |-> ks, exceptions |-> d.exceptions]
      BY <2>2, <2>3
    <2>5. e.factories = fs /\ e.exceptions = d.exceptions /\ IsDict(e)
      BY <2>4 DEF IsDict
    <2>6. /\ DOMAIN fs = DOMAIN d.factories \cup {m} /\ fs[m] = plugins
          /\ \A k \in DOMAIN d.factories : k # m /\ fs[k] = d.factories[k]
      BY DEF fs, Put, Decided
    <2>7. Decided(e) = Decided(d) \cup {m} /\ (Apart(d) => Apart(e))
      BY <2>5, <2>6 DEF Decided, Apart
    <2>8. ASSUME NEW S
          PROVE  AllOf(e, S) = AllOf(d, S) \cup (IF m \in S THEN Names(plugins) ELSE {})
      BY <2>5, <2>6 DEF AllOf
    <2> QED
      BY <2>5, <2>7, <2>8 DEF e
  <1> QED
    BY <1>1, <1>2

\* A module that is not known, and does not load or is black-listed, ends up black-listed;
\* one that loads changes nothing.
LEMMA NotLoaded ==
  ASSUME NEW d, IsDict(d), NEW m
  PROVE  /\ IsDict(AfterLoad(d, m)) /\ AfterLoad(d, m).factories = d.factories
         /\ Apart(d) => Apart(AfterLoad(d, m))
         /\ Loaded(d, m) => AfterLoad(d, m) = d /\ m \notin Decided(d)
         /\ ~Loaded(d, m) => Decided(AfterLoad(d, m)) = Decided(d) \cup {m}
  <1>1. CASE findFactory(d, m) \/ isException(d, m) \/ m \in disk
    BY <1>1 DEF AfterLoad, Loaded, Decided, findFactory, isException
  <1>2. CASE ~(findFactory(d, m) \/ isException(d, m) \/ m \in disk)
    <2> DEFINE e == [d EXCEPT !.exceptions = d.exceptions \cup {m}]
    <2>1. AfterLoad(d, m) = e
      BY <1>2 DEF AfterLoad, addException
    <2>2. e = [factories |-> d.factories, plugins |-> d.plugins,
               exceptions |-> d.exceptions \cup {m}]
      BY DEF IsDict
    <2> HIDE DEF e
    <2> QED
      BY <1>2, <2>1, <2>2 DEF IsDict, Apart, Decided, Loaded, findFactory, isException
  <1> QED
    BY <1>1, <1>2

--------------------------------------------------------------------------------
(* The steps *)

\* A module has been passed, or a probe of one collected.
LEMMA Searched ==
  ASSUME IInv, UNCHANGED <<host, queue>>, InDirectory(worker), Place(worker'),
         worker'.pc \in {"dir", "module", "flush"}, worker'.cmd = worker.cmd,
         worker'.cut = worker.cut, IsDict(dict'), NEW m, NEW names,
         Passed(worker') = Passed(worker) \cup {m},
         Decided(dict') \cup ToSet(worker'.futures)
           = Decided(dict) \cup ToSet(worker.futures) \cup {m},
         ToSet(worker'.futures) \cap Decided(dict') = {},
         worker'.found = worker.found \cup names,
         AllOf(dict', Passed(worker) \cup {m}) = AllOf(dict, Passed(worker)) \cup names
  PROVE  IInv'
  <1>1. DictInv'
    BY DEF DictInv
  <1>2. worker.pc \in Walking
    BY DEF InDirectory, Walking
  <1>3. SearchInv'
    BY <1>2 DEF IInv, SearchInv
  <1> QED
    BY <1>1, <1>3 DEF IInv

\* The worker does not go through directories before or after the step.
LEMMA NotSearching ==
  ASSUME IInv, host' = host, queue' \in Seq(Commands), Place(worker'), IsDict(dict'),
         worker'.futures = <<>>, \/ worker'.pc \notin Walking
                                 \/ worker'.cmd.op # "search"
  PROVE  IInv'
  <1>1. ToSet(worker'.futures) = {}
    BY DEF ToSet
  <1> QED
    BY <1>1 DEF IInv, DictInv, SearchInv

\* The worker, a search, goes on without passing a module.
LEMMA Unmoved ==
  ASSUME IInv, UNCHANGED <<host, dict>>, queue' \in Seq(Commands), Place(worker'),
         worker'.pc \in Walking => worker.pc \in Walking,
         worker'.cmd = worker.cmd, worker'.futures = worker.futures,
         worker'.found = worker.found,
         worker'.cut \/ (worker'.cut = worker.cut /\ Passed(worker') = Passed(worker))
  PROVE  IInv'
  BY DEF IInv, DictInv, SearchInv

LEMMA NoFutures == ASSUME NEW w, Place(w), ~InDirectory(w) PROVE w.futures = <<>>
  <1>1. ToSet(w.futures) = {} /\ w.futures \in Seq(Modules)
    BY DEF Place, Here
  <1>2. DOMAIN w.futures = 1 .. Len(w.futures) /\ Len(w.futures) \in Nat
    BY <1>1
  <1>3. 1 \notin DOMAIN w.futures
    BY <1>1 DEF ToSet
  <1>4. Len(w.futures) = 0
    BY <1>2, <1>3
  <1> QED
    BY <1>1, <1>4, EmptySeq

LEMMA AtRest == Place(Idle) /\ Place(Off) /\ Idle.futures = <<>> /\ Off.futures = <<>>
  <1>1. Off = [pc |-> "off", cmd |-> <<>>, dir |-> 0, module |-> 0, futures |-> <<>>,
               found |-> {}, cut |-> FALSE, save |-> FALSE]
    <2> DEFINE no == FALSE
               none == <<>>
               empty == {}
    <2>1. Idle = [pc |-> "idle", cmd |-> none, dir |-> 0, module |-> 0, futures |-> none,
                  found |-> empty, cut |-> no, save |-> no]
      BY DEF Idle
    <2> HIDE DEF no, none, empty
    <2>2. Off = [pc |-> "off", cmd |-> none, dir |-> 0, module |-> 0, futures |-> none,
                 found |-> empty, cut |-> no, save |-> no]
      BY <2>1 DEF Off
    <2> QED
      BY <2>2 DEF no, none, empty
  <1>2. <<>> \in Seq(Modules) /\ IsInjective(<<>>) /\ ToSet(<<>>) = {}
    BY EmptySeq DEF IsInjective, ToSet
  <1> QED
    BY <1>1, <1>2 DEF Idle, Place, Here, InDirectory, Walking

LEMMA TakeStep == ASSUME IInv, Take PROVE IInv'
  <1> DEFINE cmd == Head(queue)
             pc  == IF cmd.op = "search" THEN "dir" ELSE cmd.op
             e   == [Idle EXCEPT !.pc = pc, !.cmd = cmd, !.dir = 1, !.module = 1, !.save = cmd.save]
  <1>1. cmd \in Commands /\ Tail(queue) \in Seq(Commands)
    BY HeadTailProperties, EmptySeq DEF Take, IInv
  <1>2. worker' = e /\ queue' = Tail(queue) /\ UNCHANGED <<host, dict>>
    BY DEF Take, outside
  <1>3. /\ pc \in {"dir", "clear", "probe"} /\ (pc = "dir" => cmd.op = "search")
        /\ pc \in {"clear", "probe"} => cmd.op = pc
    BY <1>1 DEF Commands
  <1> HIDE DEF cmd, pc
  <1>4. e = [pc |-> pc, cmd |-> cmd, dir |-> 1, module |-> 1, futures |-> <<>>, found |-> {},
             cut |-> FALSE, save |-> cmd.save]
    <2> DEFINE no == FALSE
               none == <<>>
               empty == {}
               save == cmd.save
    <2>1. Idle = [pc |-> "idle", cmd |-> none, dir |-> 0, module |-> 0, futures |-> none,
                  found |-> empty, cut |-> no, save |-> no]
      BY DEF Idle
    <2> HIDE DEF no, none, empty, save
    <2> DEFINE b == [Idle EXCEPT !.pc = pc]
               c == [b EXCEPT !.cmd = cmd]
               f == [c EXCEPT !.dir = 1]
               g == [f EXCEPT !.module = 1]
               h == [g EXCEPT !.save = save]
    <2>2. e = h
      BY DEF save
    <2>3. b = [pc |-> pc, cmd |-> none, dir |-> 0, module |-> 0, futures |-> none,
               found |-> empty, cut |-> no, save |-> no]
      BY <2>1
    <2> HIDE DEF b
    <2>4. c = [pc |-> pc, cmd |-> cmd, dir |-> 0, module |-> 0, futures |-> none,
               found |-> empty, cut |-> no, save |-> no]
      BY <2>3
    <2> HIDE DEF c
    <2>5. f = [pc |-> pc, cmd |-> cmd, dir |-> 1, module |-> 0, futures |-> none,
               found |-> empty, cut |-> no, save |-> no]
      BY <2>4
    <2> HIDE DEF f
    <2>6. g = [pc |-> pc, cmd |-> cmd, dir |-> 1, module |-> 1, futures |-> none,
               found |-> empty, cut |-> no, save |-> no]
      BY <2>5
    <2> HIDE DEF g
    <2>7. h = [pc |-> pc, cmd |-> cmd, dir |-> 1, module |-> 1, futures |-> none,
               found |-> empty, cut |-> no, save |-> save]
      BY <2>6
    <2> HIDE DEF h, e
    <2> QED
      BY <2>2, <2>7 DEF no, none, empty, save
  <1> HIDE DEF e
  <1>5. <<>> \in Seq(Modules) /\ IsInjective(<<>>) /\ ToSet(<<>>) = {}
    BY EmptySeq DEF IsInjective, ToSet
  <1>6. Place(e)
    <2>1. 1 \in 1 .. Len(Directories) + 1
      BY Folders
    <2> QED
      BY <1>1, <1>3, <1>4, <1>5, <2>1 DEF Place, Here, InDirectory, Walking
  <1>7. IsDict(dict')
    BY <1>2 DEF IInv, DictInv
  <1>8. CASE pc = "dir"
    <2>1. Before(1) = {} /\ Passed(e) = {}
      BY <1>4, <1>8, Folders DEF Before, Passed, Here, InDirectory
    <2>2. AllOf(dict, {}) = {}
      BY DEF AllOf
    <2>3. SearchInv'
      BY <1>2, <1>4, <2>1, <2>2 DEF SearchInv
    <2>4. DictInv'
      BY <1>2, <1>4, <1>5, <1>7 DEF DictInv
    <2> QED
      BY <1>1, <1>2, <1>6, <2>3, <2>4 DEF IInv
  <1>9. CASE pc # "dir"
    BY <1>1, <1>2, <1>3, <1>4, <1>6, <1>7, <1>9, NotSearching DEF Walking
  <1> QED
    BY <1>8, <1>9

LEMMA DirectoryStep == ASSUME IInv, NextDirectory PROVE IInv'
  <1>1. /\ worker.pc = "dir" /\ UNCHANGED <<host, dict, queue>> /\ queue \in Seq(Commands)
        /\ Place(worker) /\ worker.cmd \in Commands /\ worker.cmd.op = "search"
        /\ worker.futures = <<>> /\ worker.dir \in 1 .. Len(Directories) + 1
    BY NoFutures DEF NextDirectory, Working, outside, IInv, Place, InDirectory, Walking
  <1>2. Here(worker) = {} /\ Passed(worker) = Before(worker.dir)
    BY <1>1 DEF Here, Passed, InDirectory
  <1>3. worker = [pc |-> worker.pc, cmd |-> worker.cmd, dir |-> worker.dir, module |-> worker.module,
                  futures |-> worker.futures, found |-> worker.found, cut |-> worker.cut,
                  save |-> worker.save]
    BY <1>1 DEF Place
  <1>4. <<>> \in Seq(Modules) /\ IsInjective(<<>>) /\ ToSet(<<>>) = {}
    BY EmptySeq DEF IsInjective, ToSet
  <1>5. CASE worker.dir > Len(Directories)
    <2>1. worker.dir = Len(Directories) + 1
      BY <1>1, <1>5, Folders
    <2> DEFINE r == [worker EXCEPT !.pc = IF worker.save THEN "save" ELSE "answer"]
    <2>2. worker' = r
      BY <1>5 DEF NextDirectory, Walked
    <2>3. r = [pc |-> IF worker.save THEN "save" ELSE "answer", cmd |-> worker.cmd,
               dir |-> worker.dir, module |-> worker.module, futures |-> worker.futures,
               found |-> worker.found, cut |-> worker.cut, save |-> worker.save]
      BY <1>3
    <2> HIDE DEF r
    <2>4. Here(r) = {} /\ Passed(r) = Passed(worker)
      BY <1>2, <2>3 DEF Here, Passed, InDirectory
    <2>5. Place(r)
      BY <1>1, <1>4, <2>1, <2>3, <2>4 DEF Place, InDirectory, Walking
    <2> QED
      BY <1>1, <2>2, <2>3, <2>4, <2>5, Unmoved DEF Walking
  <1>6. CASE ~(worker.dir > Len(Directories)) /\ Stopped(worker.cmd)
    <2> DEFINE no  == FALSE
               yes == TRUE
               a == [worker EXCEPT !.save = no]
               b == [a EXCEPT !.cut = yes]
               r == [b EXCEPT !.pc = "answer"]
    <2>1. ~b.save
      BY <1>3
    <2>2. worker' = r
      BY <1>6, <2>1 DEF NextDirectory, Walked
    <2> HIDE DEF no, yes
    <2>3. r = [pc |-> "answer", cmd |-> worker.cmd, dir |-> worker.dir, module |-> worker.module,
               futures |-> worker.futures, found |-> worker.found, cut |-> yes, save |-> no]
      <3>1. a = [pc |-> worker.pc, cmd |-> worker.cmd, dir |-> worker.dir, module |-> worker.module,
                 futures |-> worker.futures, found |-> worker.found, cut |-> worker.cut,
                 save |-> no]
        BY <1>3
      <3> HIDE DEF a
      <3>2. b = [pc |-> worker.pc, cmd |-> worker.cmd, dir |-> worker.dir, module |-> worker.module,
                 futures |-> worker.futures, found |-> worker.found, cut |-> yes, save |-> no]
        BY <3>1
      <3> HIDE DEF b
      <3> QED
        BY <3>2
    <2> HIDE DEF a, b, r
    <2> USE DEF yes, no
    <2>4. Here(r) = {}
      BY <2>3 DEF Here, InDirectory
    <2>5. Place(r)
      BY <1>1, <1>4, <2>3, <2>4 DEF Place, InDirectory, Walking
    <2> QED
      BY <1>1, <2>2, <2>3, <2>5, Unmoved DEF Walking
  <1>7. CASE ~(worker.dir > Len(Directories)) /\ ~Stopped(worker.cmd)
    <2> DEFINE v == [worker EXCEPT !.module = 1]
    <2>1. \E full : worker' = Resume(v, full)
      BY <1>7 DEF NextDirectory
    <2>2. v = [pc |-> worker.pc, cmd |-> worker.cmd, dir |-> worker.dir, module |-> 1,
               futures |-> worker.futures, found |-> worker.found, cut |-> worker.cut,
               save |-> worker.save]
      BY <1>3
    <2> HIDE DEF v
    <2>3. worker.dir \in Dirs /\ 1 \in 1 .. Len(Directories[worker.dir]) + 1
      BY <1>1, <1>7, Folders
    <2>4. Looked(v.dir, v.module) = {}
      BY <2>2 DEF Looked
    <2>5. /\ Place(worker') /\ worker'.pc \in {"dir", "module", "flush"}
          /\ Passed(worker') = Before(worker.dir)
          /\ worker'.cmd = worker.cmd /\ worker'.futures = worker.futures
          /\ worker'.found = worker.found /\ worker'.cut = worker.cut
      <3> PICK full : worker' = Resume(v, full)
        BY <2>1
      <3>1. /\ v = [pc |-> v.pc, cmd |-> v.cmd, dir |-> v.dir, module |-> v.module,
                   futures |-> v.futures, found |-> v.found, cut |-> v.cut, save |-> v.save]
            /\ v.cmd = worker.cmd /\ v.dir = worker.dir /\ v.module = 1 /\ v.futures = <<>>
            /\ v.found = worker.found /\ v.cut = worker.cut
        BY <1>1, <2>2
      <3>2. /\ Place(Resume(v, full)) /\ Resume(v, full).pc \in {"dir", "module", "flush"}
            /\ Passed(Resume(v, full)) = Before(v.dir) \cup Looked(v.dir, v.module)
            /\ Resume(v, full).cmd = v.cmd /\ Resume(v, full).futures = v.futures
            /\ Resume(v, full).found = v.found /\ Resume(v, full).cut = v.cut
        BY <1>1, <1>4, <2>3, <2>4, <3>1, Resumed
      <3> QED
        BY <1>1, <2>4, <3>1, <3>2
    <2> QED
      BY <1>1, <1>2, <2>5, Unmoved DEF Walking
  <1> QED
    BY <1>5, <1>6, <1>7

\* The worker's record while a search is at its next module.
LEMMA AtModule ==
  ASSUME IInv, worker.pc = "module"
  PROVE  /\ worker = [pc |-> worker.pc, cmd |-> worker.cmd, dir |-> worker.dir,
                      module |-> worker.module, futures |-> worker.futures,
                      found |-> worker.found, cut |-> worker.cut, save |-> worker.save]
         /\ Place(worker) /\ InDirectory(worker) /\ worker.futures \in Seq(Modules)
         /\ IsInjective(worker.futures) /\ IsDict(dict)
         /\ ToSet(worker.futures) \cap Decided(dict) = {}
         /\ File \in Modules /\ File \notin ToSet(worker.futures)
         /\ File = Directories[worker.dir][worker.module]
  <1>1. Place(worker) /\ IsDict(dict) /\ ToSet(worker.futures) \cap Decided(dict) = {}
    BY DEF IInv, DictInv
  <1>2. /\ worker = [pc |-> worker.pc, cmd |-> worker.cmd, dir |-> worker.dir,
                     module |-> worker.module, futures |-> worker.futures,
                     found |-> worker.found, cut |-> worker.cut, save |-> worker.save]
        /\ worker.futures \in Seq(Modules) /\ IsInjective(worker.futures)
    BY <1>1 DEF Place
  <1> QED
    BY <1>1, <1>2, NextFile DEF File, InDirectory

LEMMA SkipStep == ASSUME IInv, Skip PROVE IInv'
  <1> DEFINE yes == TRUE
             v   == [worker EXCEPT !.cut = yes]
  <1>1. worker.pc = "module" /\ UNCHANGED <<host, dict, queue>>
    BY DEF Skip, Working, outside
  <1>2. \E full : worker' = NextModule(v, full)
    BY DEF Skip
  <1> HIDE DEF yes
  <1>3. v = [pc |-> worker.pc, cmd |-> worker.cmd, dir |-> worker.dir, module |-> worker.module,
             futures |-> worker.futures, found |-> worker.found, cut |-> yes,
             save |-> worker.save]
    BY <1>1, AtModule
  <1> HIDE DEF v
  <1>4. /\ Place(worker') /\ worker'.pc \in {"dir", "module", "flush"}
        /\ worker'.cmd = worker.cmd /\ worker'.futures = worker.futures
        /\ worker'.found = worker.found /\ worker'.cut = yes
    BY <1>1, <1>2, <1>3, AtModule, Advanced
  <1>5. worker'.cut
    BY <1>4 DEF yes
  <1> QED
    BY <1>1, <1>4, <1>5, Unmoved DEF IInv, Walking

\* The next module is decided, or its probe starts, and is passed.
LEMMA Passes ==
  ASSUME IInv, worker.pc = "module", UNCHANGED <<host, queue>>, NEW found, NEW futures, NEW v, NEW full,
         v = [pc |-> worker.pc, cmd |-> worker.cmd, dir |-> worker.dir, module |-> worker.module,
              futures |-> futures, found |-> found, cut |-> worker.cut, save |-> worker.save],
         worker' = NextModule(v, full), IsDict(dict'), NEW names,
         futures \in Seq(Modules), IsInjective(futures),
         ToSet(futures) \subseteq ToSet(worker.futures) \cup {File},
         Decided(dict') \cup ToSet(futures)
           = Decided(dict) \cup ToSet(worker.futures) \cup {File},
         ToSet(futures) \cap Decided(dict') = {},
         found = worker.found \cup names,
         AllOf(dict', Passed(worker) \cup {File}) = AllOf(dict, Passed(worker)) \cup names
  PROVE  IInv'
  <1>1. Place(worker) /\ InDirectory(worker) /\ File = Directories[worker.dir][worker.module]
    BY AtModule
  <1>2. /\ Place(worker') /\ worker'.pc \in {"dir", "module", "flush"}
        /\ Passed(worker') = Passed(worker) \cup {File}
        /\ worker'.cmd = worker.cmd /\ worker'.futures = futures
        /\ worker'.found = found /\ worker'.cut = worker.cut
    <2>1. /\ v.futures = futures /\ v.found = found /\ v.cut = worker.cut
          /\ v = [pc |-> v.pc, cmd |-> worker.cmd, dir |-> worker.dir, module |-> worker.module,
                  futures |-> v.futures, found |-> v.found, cut |-> v.cut, save |-> v.save]
      OBVIOUS
    <2> QED
      BY <1>1, <2>1, Advanced
  <1> DEFINE m == File
  <1>3. /\ Passed(worker') = Passed(worker) \cup {m}
        /\ Decided(dict') \cup ToSet(worker'.futures)
             = Decided(dict) \cup ToSet(worker.futures) \cup {m}
        /\ ToSet(worker'.futures) \cap Decided(dict') = {}
        /\ worker'.found = worker.found \cup names
        /\ AllOf(dict', Passed(worker) \cup {m}) = AllOf(dict, Passed(worker)) \cup names
    BY <1>2
  <1> HIDE DEF m
  <1> QED
    BY <1>1, <1>2, <1>3, Searched

LEMMA KnownStep == ASSUME IInv, Known PROVE IInv'
  <1> DEFINE names == Names(dict.factories[File])
             found == worker.found \cup names
             v     == [worker EXCEPT !.found = found]
  <1>1. /\ worker.pc = "module" /\ UNCHANGED <<host, dict, queue>>
        /\ File \in DOMAIN dict.factories /\ worker' = NextModule(v, FALSE)
    BY DEF Known, Working, outside, findFactory, Found
  <1> HIDE DEF names, found
  <1>2. v = [pc |-> worker.pc, cmd |-> worker.cmd, dir |-> worker.dir, module |-> worker.module,
             futures |-> worker.futures, found |-> found, cut |-> worker.cut,
             save |-> worker.save]
    BY <1>1, AtModule
  <1> HIDE DEF v
  <1>3. AllOf(dict, Passed(worker) \cup {File}) = AllOf(dict, Passed(worker)) \cup names
    BY <1>1 DEF AllOf, names
  <1>4. File \in Decided(dict)
    BY <1>1 DEF Decided
  <1> QED
    BY <1>1, <1>2, <1>3, <1>4, AtModule, Passes DEF found

LEMMA ProbeSerialStep == ASSUME IInv, ProbeSerial PROVE IInv'
  <1>1. worker.pc = "module" /\ UNCHANGED <<host, queue>> /\ File \notin DOMAIN dict.factories
    BY DEF ProbeSerial, Working, outside, findFactory
  <1>2. AllOf(dict, Passed(worker) \cup {File}) = AllOf(dict, Passed(worker))
    BY <1>1 DEF AllOf
  <1>3. ASSUME Loaded(dict, File), NEW plugins, dict' = AfterProbe(dict, File, plugins),
               worker' = NextModule(Found(worker, plugins), FALSE)
        PROVE  IInv'
    <2> DEFINE names == Names(plugins)
               found == worker.found \cup names
               v     == [worker EXCEPT !.found = found]
    <2>1. worker' = NextModule(v, FALSE)
      BY <1>3 DEF Found
    <2> HIDE DEF names, found
    <2>2. v = [pc |-> worker.pc, cmd |-> worker.cmd, dir |-> worker.dir, module |-> worker.module,
               futures |-> worker.futures, found |-> found, cut |-> worker.cut,
               save |-> worker.save]
      BY <1>1, AtModule
    <2> HIDE DEF v
    <2>3. File \notin Decided(dict)
      BY <1>1, <1>3, AtModule, NotLoaded
    <2>4. /\ IsDict(dict') /\ Decided(dict') = Decided(dict) \cup {File}
          /\ AllOf(dict', Passed(worker) \cup {File})
               = AllOf(dict, Passed(worker) \cup {File}) \cup names
      BY <1>1, <1>3, <2>3, AtModule, Probed DEF names
    <2> QED
      BY <1>1, <1>2, <2>1, <2>2, <2>4, AtModule, Passes DEF found
  <1>4. ASSUME ~Loaded(dict, File), dict' = AfterLoad(dict, File), worker' = NextModule(worker, FALSE)
        PROVE  IInv'
    <2>1. /\ IsDict(dict') /\ dict'.factories = dict.factories
          /\ Decided(dict') = Decided(dict) \cup {File}
      BY <1>1, <1>4, AtModule, NotLoaded
    <2>2. AllOf(dict', Passed(worker) \cup {File}) = AllOf(dict, Passed(worker)) \cup {}
      BY <1>2, <2>1 DEF AllOf
    <2> QED
      BY <1>1, <1>4, <2>1, <2>2, AtModule, Passes
  <1> QED
    BY <1>3, <1>4 DEF ProbeSerial

LEMMA ProbeParallelStep == ASSUME IInv, ProbeParallel PROVE IInv'
  <1> DEFINE futures == IF Loaded(dict, File) THEN Append(worker.futures, File)
                        ELSE worker.futures
             v == [worker EXCEPT !.futures = futures]
  <1>1. /\ worker.pc = "module" /\ UNCHANGED <<host, queue>> /\ File \notin DOMAIN dict.factories
        /\ dict' = AfterLoad(dict, File)
    BY DEF ProbeParallel, Working, outside, findFactory
  <1>6. \E full : worker' = NextModule(v, full)
    <2>1. CASE Loaded(dict, File)
      BY <2>1 DEF ProbeParallel
    <2>2. CASE ~Loaded(dict, File)
      <3>1. v = worker
        BY <1>1, <2>2, AtModule
      <3> HIDE DEF v
      <3> QED
        BY <2>2, <3>1 DEF ProbeParallel
    <2> QED
      BY <2>1, <2>2
  <1> HIDE DEF futures
  <1>2. v = [pc |-> worker.pc, cmd |-> worker.cmd, dir |-> worker.dir, module |-> worker.module,
             futures |-> futures, found |-> worker.found, cut |-> worker.cut,
             save |-> worker.save]
    BY <1>1, AtModule
  <1> HIDE DEF v
  <1>3. IsDict(dict') /\ dict'.factories = dict.factories
    BY <1>1, AtModule, NotLoaded
  <1>4. AllOf(dict', Passed(worker) \cup {File}) = AllOf(dict, Passed(worker)) \cup {}
    BY <1>1, <1>3 DEF AllOf
  <1>5. /\ futures \in Seq(Modules) /\ IsInjective(futures)
        /\ ToSet(futures) \subseteq ToSet(worker.futures) \cup {File}
        /\ Decided(dict') \cup ToSet(futures)
             = Decided(dict) \cup ToSet(worker.futures) \cup {File}
        /\ ToSet(futures) \cap Decided(dict') = {}
    <2>1. CASE Loaded(dict, File)
      <3>1. dict' = dict /\ File \notin Decided(dict)
        BY <1>1, <2>1, AtModule, NotLoaded
      <3>2. /\ futures \in Seq(Modules) /\ IsInjective(futures)
            /\ ToSet(futures) = ToSet(worker.futures) \cup {File}
        BY <1>1, <2>1, AtModule, Started DEF futures
      <3> QED
        BY <1>1, <3>1, <3>2, AtModule
    <2>2. CASE ~Loaded(dict, File)
      <3>1. Decided(dict') = Decided(dict) \cup {File} /\ futures = worker.futures
        BY <1>1, <2>2, AtModule, NotLoaded DEF futures
      <3> QED
        BY <1>1, <3>1, AtModule
    <2> QED
      BY <2>1, <2>2
  <1> QED
    BY <1>1, <1>2, <1>3, <1>4, <1>5, <1>6, Passes

LEMMA ProcessFutureStep == ASSUME IInv, ProcessFuture PROVE IInv'
  <1> DEFINE m    == Head(worker.futures)
             rest == Tail(worker.futures)
  <1>1. worker.pc = "flush" /\ UNCHANGED <<host, queue>>
    BY DEF ProcessFuture, Working, outside
  <1>2. PICK plugins : /\ dict' = AfterProbe(dict, m, plugins)
                       /\ worker' = Collected(Found(worker, plugins), rest)
    BY DEF ProcessFuture
  <1>3. /\ worker = [pc |-> worker.pc, cmd |-> worker.cmd, dir |-> worker.dir,
                     module |-> worker.module, futures |-> worker.futures,
                     found |-> worker.found, cut |-> worker.cut, save |-> worker.save]
        /\ worker.futures \in Seq(Modules) /\ IsInjective(worker.futures)
        /\ worker.futures # <<>> /\ worker.cmd \in Commands /\ worker.cmd.op = "search"
        /\ worker.dir \in Dirs /\ worker.module \in 1 .. Len(Directories[worker.dir]) + 1
        /\ InDirectory(worker) /\ Here(worker) = Looked(worker.dir, worker.module)
        /\ ToSet(worker.futures) \subseteq Looked(worker.dir, worker.module)
        /\ IsDict(dict) /\ ToSet(worker.futures) \cap Decided(dict) = {}
    BY <1>1 DEF IInv, DictInv, Place, InDirectory, Here
  <1>4. /\ rest \in Seq(Modules) /\ IsInjective(rest) /\ m \in ToSet(worker.futures)
        /\ m \notin ToSet(rest) /\ ToSet(worker.futures) = ToSet(rest) \cup {m}
    BY <1>3, Taken
  <1>5. m \in Passed(worker) /\ m \notin Decided(dict) /\ ToSet(rest) \subseteq Here(worker)
    BY <1>3, <1>4 DEF Passed
  <1> DEFINE names == Names(plugins)
             found == worker.found \cup names
             u     == [worker EXCEPT !.found = found]
             v     == [u EXCEPT !.futures = rest]
  <1>6. worker' = IF rest # <<>> THEN v ELSE Resume(v, FALSE)
    BY <1>2 DEF Found, Collected
  <1>7. /\ IsDict(dict') /\ Decided(dict') = Decided(dict) \cup {m}
        /\ AllOf(dict', Passed(worker)) = AllOf(dict, Passed(worker)) \cup names
    BY <1>2, <1>3, <1>5, Probed
  <1> HIDE DEF m, rest, names, found
  <1>8. v = [pc |-> worker.pc, cmd |-> worker.cmd, dir |-> worker.dir, module |-> worker.module,
             futures |-> rest, found |-> found, cut |-> worker.cut, save |-> worker.save]
    <2>1. u = [pc |-> worker.pc, cmd |-> worker.cmd, dir |-> worker.dir, module |-> worker.module,
               futures |-> worker.futures, found |-> found, cut |-> worker.cut,
               save |-> worker.save]
      BY <1>3
    <2> HIDE DEF u
    <2> QED
      BY <2>1
  <1> HIDE DEF u, v
  <1>9. /\ Place(worker') /\ worker'.pc \in {"dir", "module", "flush"}
        /\ Passed(worker') = Passed(worker)
        /\ worker'.cmd = worker.cmd /\ worker'.futures = rest
        /\ worker'.found = found /\ worker'.cut = worker.cut
    <2>1. CASE rest # <<>>
      <3>1. worker' = v /\ Here(v) = Here(worker)
        BY <1>1, <1>6, <1>8, <2>1 DEF Here, InDirectory
      <3>2. Place(v)
        BY <1>1, <1>3, <1>4, <1>5, <1>8, <2>1, <3>1, Folders DEF Place, InDirectory, Walking
      <3> QED
        BY <1>1, <1>8, <3>1, <3>2 DEF Passed
    <2>2. CASE rest = <<>>
      <3>1. \E full : worker' = Resume(v, full)
        BY <1>6, <2>2
      <3>2. Passed(worker) = Before(v.dir) \cup Looked(v.dir, v.module)
        BY <1>3, <1>8 DEF Passed
      <3> QED
        BY <1>3, <1>4, <1>5, <1>8, <3>1, <3>2, Resumed
    <2> QED
      BY <2>1, <2>2
  <1>10. Passed(worker) \cup {m} = Passed(worker)
    BY <1>5
  <1>11. /\ ToSet(worker'.futures) \cap Decided(dict') = {}
         /\ Decided(dict') \cup ToSet(worker'.futures)
              = Decided(dict) \cup ToSet(worker.futures) \cup {m}
    BY <1>3, <1>4, <1>7, <1>9
  <1> QED
    BY <1>1, <1>3, <1>7, <1>9, <1>10, <1>11, Searched DEF found

\* The worker's record outside of the directories, with another pc.
LEMMA Leaves ==
  ASSUME IInv, worker.pc \in {"save", "probe"}
  PROVE  /\ Place([worker EXCEPT !.pc = "answer"])
         /\ [worker EXCEPT !.pc = "answer"].pc = "answer"
         /\ [worker EXCEPT !.pc = "answer"].cmd = worker.cmd
         /\ [worker EXCEPT !.pc = "answer"].futures = worker.futures
         /\ [worker EXCEPT !.pc = "answer"].found = worker.found
         /\ [worker EXCEPT !.pc = "answer"].cut = worker.cut
         /\ Passed([worker EXCEPT !.pc = "answer"]) = Passed(worker)
  <1> DEFINE r == [worker EXCEPT !.pc = "answer"]
  <1>1. Place(worker)
    BY DEF IInv
  <1>2. worker = [pc |-> worker.pc, cmd |-> worker.cmd, dir |-> worker.dir,
                  module |-> worker.module, futures |-> worker.futures,
                  found |-> worker.found, cut |-> worker.cut, save |-> worker.save]
    BY <1>1 DEF Place
  <1>3. r = [pc |-> "answer", cmd |-> worker.cmd, dir |-> worker.dir, module |-> worker.module,
             futures |-> worker.futures, found |-> worker.found, cut |-> worker.cut,
             save |-> worker.save]
    BY <1>2
  <1> HIDE DEF r
  <1>4. Here(worker) = {} /\ Here(r) = {}
    BY <1>3 DEF Here, InDirectory
  <1>5. Place(r)
    BY <1>1, <1>3, <1>4 DEF Place, InDirectory, Walking
  <1>6. Passed(r) = Passed(worker)
    BY <1>3, <1>4 DEF Passed
  <1> QED
    BY <1>3, <1>5, <1>6 DEF r

LEMMA SaveStep == ASSUME IInv, Save PROVE IInv'
  <1>1. /\ worker.pc = "save" /\ UNCHANGED <<host, dict, queue>> /\ queue \in Seq(Commands)
        /\ worker' = [worker EXCEPT !.pc = "answer"]
    BY DEF Save, Working, outside, IInv
  <1>2. /\ Place(worker') /\ worker'.cmd = worker.cmd /\ worker'.futures = worker.futures
        /\ worker'.found = worker.found /\ worker'.cut = worker.cut
        /\ Passed(worker') = Passed(worker)
    BY <1>1, Leaves
  <1> QED
    BY <1>1, <1>2, Unmoved DEF Walking

LEMMA AnswerStep == ASSUME IInv, Answer PROVE IInv'
  <1>1. UNCHANGED <<host, dict, queue>> /\ worker' = Idle /\ queue \in Seq(Commands) /\ IsDict(dict)
    BY DEF Answer, Working, outside, IInv, DictInv
  <1>2. Idle.pc \notin Walking
    BY DEF Idle, Walking
  <1> QED
    BY <1>1, <1>2, AtRest, NotSearching

LEMMA ClearDict == IsDict(clear) /\ Apart(clear) /\ Decided(clear) = {}
  BY DEF IsDict, Apart, Decided, clear

LEMMA ClearStep == ASSUME IInv, Clear PROVE IInv'
  <1>1. UNCHANGED <<host, queue>> /\ worker' = Idle /\ queue \in Seq(Commands) /\ dict' = clear
    BY DEF Clear, Working, outside, IInv
  <1>2. Idle.pc \notin Walking
    BY DEF Idle, Walking
  <1> QED
    BY <1>1, <1>2, AtRest, ClearDict, NotSearching

\* What asking for a single module makes of the dictionary.
LEMMA ProbedNow ==
  ASSUME IsDict(dict), NEW path, ProbeNow(path)
  PROVE  IsDict(dict') /\ (Apart(dict) => Apart(dict'))
  BY NotLoaded, Probed DEF ProbeNow

LEMMA Queried ==
  ASSUME IsDict(dict), NEW path, queryPlugin(path)
  PROVE  IsDict(dict') /\ (Apart(dict) => Apart(dict'))
  BY ProbedNow DEF queryPlugin

LEMMA QueryStep == ASSUME IInv, Query PROVE IInv'
  <1>1. /\ worker.pc = "probe" /\ UNCHANGED <<host, queue>> /\ queue \in Seq(Commands)
        /\ worker' = [worker EXCEPT !.pc = "answer"] /\ Place(worker) /\ IsDict(dict)
        /\ queryPlugin(worker.cmd.path)
    BY DEF Query, Working, outside, IInv, DictInv
  <1>2. Place(worker') /\ worker'.cmd = worker.cmd /\ worker'.futures = worker.futures
    BY <1>1, Leaves
  <1>3. worker.cmd.op # "search" /\ worker.futures = <<>>
    BY <1>1, NoFutures DEF Place, InDirectory
  <1> QED
    BY <1>1, <1>2, <1>3, Queried, NotSearching

LEMMA WorkerStep == ASSUME IInv, Worker PROVE IInv'
  BY TakeStep, DirectoryStep, SkipStep, KnownStep, ProbeSerialStep, ProbeParallelStep,
     ProcessFutureStep, SaveStep, AnswerStep, ClearStep, QueryStep DEF Worker

\* A request enters the queue, or only flags, counters and the disk change.
LEMMA OnlyAsked == ASSUME IInv, UNCHANGED <<host, dict, worker>>, queue' \in Seq(Commands) PROVE IInv'
  BY DEF IInv, DictInv, SearchInv

LEMMA Pushed ==
  ASSUME IInv, requests \in Nat, NEW op \in {"search", "clear", "probe"}, NEW save \in BOOLEAN,
         NEW parallel \in BOOLEAN, NEW path \in Modules \cup {<<>>},
         Push(op, save, parallel, path)
  PROVE  queue' \in Seq(Commands)
  <1> DEFINE c == [op |-> op, id |-> NextId, save |-> save, parallel |-> parallel, path |-> path]
  <1>1. c \in Commands
    BY DEF Commands, NextId
  <1>2. queue' = Append(queue, c) /\ queue \in Seq(Commands)
    BY DEF Push, IInv
  <1> HIDE DEF c
  <1> QED
    BY <1>1, <1>2, AppendProperties

LEMMA RequestStep ==
  ASSUME IInv, requests \in Nat,
         \/ vst_search \/ SetSearching \/ vst_search_stop \/ vst_clear \/ vst_probe
         \/ vstplugin_search \/ vstplugin_search_stop \/ vstplugin_open
  PROVE  IInv'
  <1>1. queue \in Seq(Commands)
    BY DEF IInv
  <1>2. CASE vst_search \/ vst_clear \/ vst_probe \/ vstplugin_search \/ vstplugin_open
    <2>1. UNCHANGED <<host, dict, worker>>
      BY <1>2 DEF vst_search, vst_clear, vst_probe, vstplugin_search, vstplugin_open
    <2>2. \E op \in {"search", "clear", "probe"}, save \in BOOLEAN, parallel \in BOOLEAN,
             path \in Modules \cup {<<>>} : Push(op, save, parallel, path)
      BY <1>2 DEF vst_search, vst_clear, vst_probe, vstplugin_search, vstplugin_open
    <2> QED
      BY <2>1, <2>2, Pushed, OnlyAsked
  <1>3. CASE SetSearching \/ vst_search_stop \/ vstplugin_search_stop
    BY <1>1, <1>3, OnlyAsked DEF SetSearching, vst_search_stop, vstplugin_search_stop, outside
  <1> QED
    BY <1>2, <1>3

LEMMA BootStep == ASSUME IInv, Boot PROVE IInv'
  <1>1. UNCHANGED <<host, queue>> /\ queue \in Seq(Commands) /\ worker' \in {Off, Idle}
    BY DEF Boot, outside, IInv
  <1>2. IsDict(dict')
    <2>1. dict' = read(clear, file, disk).dict
      BY DEF Boot
    <2>2. \A d, s, known : Enter(d, s, known) =
            [factories |-> Enter(d, s, known).factories, plugins |-> Enter(d, s, known).plugins,
             exceptions |-> Enter(d, s, known).exceptions]
      BY DEF Enter
    <2>3. \A d, s, stream, outdated : Update(d, s, stream, outdated).dict = d
      BY DEF Update
    <2>4. \E s, known : dict' = Enter(clear, s, known)
      BY <2>1, <2>3 DEF read, ReadFile
    <2> QED
      BY <2>2, <2>4 DEF IsDict
  <1>3. Off.pc \notin Walking /\ Idle.pc \notin Walking
    BY DEF Off, Idle, Walking
  <1> QED
    BY <1>1, <1>2, <1>3, AtRest, NotSearching

LEMMA QuitStep == ASSUME IInv, Quit PROVE IInv'
  <1>1. host' = host /\ queue' = <<>> /\ dict' = clear /\ worker' = Off
    BY DEF Quit, outside
  <1>2. queue' \in Seq(Commands) /\ Off.pc \notin Walking
    BY <1>1, EmptySeq DEF Off, Idle, Walking
  <1> QED
    BY <1>1, <1>2, AtRest, ClearDict, NotSearching

LEMMA ClearRequestStep == ASSUME IInv, vstplugin_search_clear PROVE IInv'
  <1>1. host = "pd" /\ UNCHANGED <<host, queue, worker>> /\ dict' = clear
    BY DEF vstplugin_search_clear
  <1> QED
    BY <1>1, ClearDict DEF IInv, DictInv, SearchInv

\* The Pd thread probes while the worker has started no probe.
LEMMA ProbesNow ==
  ASSUME IInv, ~Beside, vstplugin_query \/ SearchNow
  PROVE  IsDict(dict') /\ (Apart(dict) => Apart(dict'))
  <1>1. IsDict(dict)
    BY DEF IInv, DictInv
  <1>2. CASE vstplugin_query
    BY <1>1, <1>2, Queried DEF vstplugin_query
  <1>3. CASE SearchNow
    BY <1>1, <1>3, ProbedNow DEF SearchNow
  <1> QED
    BY <1>2, <1>3

LEMMA PdThreadStep ==
  ASSUME IInv, ~Beside, OnPd, vstplugin_query \/ vstplugin_search_now \/ SearchNow \/ SearchedNow
  PROVE  IInv'
  <1>1. queue \in Seq(Commands) /\ UNCHANGED <<host, worker, queue>>
    BY DEF IInv, vstplugin_query, vstplugin_search_now, SearchNow, SearchedNow, outside
  <1>2. CASE vstplugin_search_now \/ SearchedNow
    BY <1>1, <1>2, OnlyAsked DEF vstplugin_search_now, SearchedNow
  <1>3. CASE vstplugin_query \/ SearchNow
    <2>1. host = "pd" /\ worker.futures = <<>>
      BY <1>3 DEF vstplugin_query, SearchNow, Alone, OnPd
    <2>2. ToSet(worker.futures) = {}
      BY <2>1 DEF ToSet
    <2> QED
      BY <1>1, <1>3, <2>1, <2>2, ProbesNow DEF IInv, DictInv, SearchInv
  <1> QED
    BY <1>2, <1>3

\* Only Pd searches on the thread that asks.
LEMMA PdSearches == Spec => []OnPd
  <1>1. Init => OnPd
    BY DEF Init, OnPd
  <1>2. OnPd /\ [Next]_vars => OnPd'
    BY DEF OnPd, Next, Boot, Quit, Change, vst_search, SetSearching, vst_search_stop, vst_clear,
           vst_probe, vstplugin_search, vstplugin_search_stop, vstplugin_search_clear,
           vstplugin_open, vstplugin_query, vstplugin_search_now, SearchNow, SearchedNow, Worker,
           Take, NextDirectory, Skip, Known, ProbeSerial, ProbeParallel, ProcessFuture, Save,
           Answer, Clear, Query, SearchDone, Push, Working, outside, pdThread, vars
  <1> QED
    BY <1>1, <1>2, PTL DEF Spec

LEMMA NextStep ==
  ASSUME IInv, ~Beside, OnPd, requests \in Nat, [Next]_vars
  PROVE  IInv'
  <1>1. queue \in Seq(Commands)
    BY DEF IInv
  <1>2. CASE Change \/ SearchDone \/ UNCHANGED vars
    BY <1>1, <1>2, OnlyAsked DEF Change, SearchDone, outside, vars
  <1>3. CASE Next /\ ~(Change \/ SearchDone)
    BY <1>3, BootStep, QuitStep, ClearRequestStep, RequestStep, PdThreadStep, WorkerStep DEF Next
  <1> QED
    BY <1>2, <1>3

LEMMA InitInv == Init => IInv
  <1> SUFFICES ASSUME Init PROVE IInv
    OBVIOUS
  <1>1. host \in {"sc", "pd"} /\ queue = <<>> /\ dict = clear /\ worker = Off
    BY SearchAssumption DEF Init
  <1>2. queue \in Seq(Commands) /\ Off.pc \notin Walking /\ ToSet(Off.futures) = {}
    BY <1>1, EmptySeq, AtRest DEF Off, Idle, Walking, ToSet
  <1> QED
    BY <1>1, <1>2, AtRest, ClearDict DEF IInv, DictInv, SearchInv

LEMMA Requested == Spec => [](requests \in Nat)
  <1>1. Init => requests \in Nat
    BY DEF Init
  <1>2. requests \in Nat /\ [Next]_vars => (requests \in Nat)'
    <2> SUFFICES ASSUME requests \in Nat, [Next]_vars PROVE requests' \in Nat
      OBVIOUS
    <2>1. requests' = requests \/ requests' = NextId
      BY DEF Next, Boot, Quit, Change, vst_search, SetSearching, vst_search_stop, vst_clear,
                  vst_probe, vstplugin_search, vstplugin_search_stop, vstplugin_search_clear,
                  vstplugin_open, vstplugin_query, vstplugin_search_now, SearchNow, SearchedNow,
                  Asked, Worker, Take, NextDirectory, Skip, Known, ProbeSerial, ProbeParallel,
                  ProcessFuture, Save, Answer, Clear, Query, SearchDone, Push, Working, outside,
                  vars
    <2> QED
      BY <2>1 DEF NextId
  <1> QED
    BY <1>1, <1>2, PTL DEF Spec

--------------------------------------------------------------------------------
(* The theorems *)

\* When the Pd thread does not probe while probes of the worker are under way, a search
\* passes the modules of its directories in order; what it has passed is known or
\* black-listed, but for the modules whose probes have not been collected, and it has found
\* the plugins of those that are known, however the modules are spread over batches
\* (searchPlugins, vst::search, processFutures).
THEOREM SearchInvariant == ASSUME ~Beside PROVE Spec => []IInv
  <1>1. IInv /\ OnPd /\ requests \in Nat /\ [Next]_vars => IInv'
    BY NextStep
  <1> QED
    BY <1>1, InitInv, PdSearches, Requested, PTL DEF Spec

LEMMA AllPassed ==
  ASSUME IInv, worker.pc = "answer", worker.dir = Len(Directories) + 1
  PROVE  Passed(worker) = Walkable /\ ToSet(worker.futures) = {}
  <1>1. {e \in Dirs : e < worker.dir} = Dirs
    BY Folders
  <1>2. Before(worker.dir) = Walkable
    BY <1>1 DEF Before, Walkable
  <1>3. Here(worker) = {} /\ Place(worker)
    BY DEF Here, InDirectory, IInv
  <1> QED
    BY <1>2, <1>3 DEF Passed, Place

\* A SuperCollider search that never saw its flag down answers when every module of its
\* directories is known or black-listed, and with all plugins that are known in them,
\* whether they were known before or probed alone or in a batch.
THEOREM SearchCompletes == ASSUME ~Beside PROVE Spec => []SearchComplete
  <1>1. ASSUME IInv PROVE SearchComplete
    <2> SUFFICES ASSUME host = "sc", worker.pc = "answer", worker.cmd.op = "search", ~worker.cut
                 PROVE  /\ Walkable \subseteq Decided(dict)
                        /\ worker.found = AllOf(dict, Walkable)
      BY DEF SearchComplete, Decided, AllOf
    <2>1. worker.dir = Len(Directories) + 1
      BY <1>1 DEF IInv, Place
    <2>2. worker.pc \in Walking
      BY DEF Walking
    <2> QED
      BY <1>1, <2>1, <2>2, AllPassed DEF IInv, SearchInv
  <1> QED
    BY <1>1, SearchInvariant, PTL

LEMMA StaysApart ==
  ASSUME IInv, ~Beside, Apart(dict), [Next]_vars, ~Boot
  PROVE  Apart(dict')
  <1>1. IsDict(dict) /\ ToSet(worker.futures) \cap Decided(dict) = {}
    BY DEF IInv, DictInv
  <1>2. CASE dict' = dict \/ dict' = clear
    BY <1>2, ClearDict
  <1>3. CASE ProbeSerial
    <2>1. \/ Loaded(dict, File) /\ \E plugins : dict' = AfterProbe(dict, File, plugins)
          \/ dict' = AfterLoad(dict, File)
      BY <1>3 DEF ProbeSerial
    <2> DEFINE m == File
    <2>2. \/ Loaded(dict, m) /\ \E plugins : dict' = AfterProbe(dict, m, plugins)
          \/ dict' = AfterLoad(dict, m)
      BY <2>1
    <2> HIDE DEF m
    <2> QED
      BY <1>1, <2>2, NotLoaded, Probed
  <1>4. CASE ProbeParallel
    BY <1>1, <1>4, NotLoaded DEF ProbeParallel
  <1>5. CASE ProcessFuture
    <2>1. worker.futures # <<>> /\ worker.futures \in Seq(Modules) /\ IsInjective(worker.futures)
      BY <1>5 DEF ProcessFuture, IInv, Place
    <2>2. Head(worker.futures) \notin Decided(dict)
      BY <1>1, <2>1, Taken
    <2> QED
      BY <1>1, <1>5, <2>2, Probed DEF ProcessFuture
  <1>6. CASE Query
    BY <1>1, <1>6, Queried DEF Query
  <1>8. CASE vstplugin_query \/ SearchNow
    BY <1>8, ProbesNow
  <1>7. \/ dict' = dict \/ dict' = clear
        \/ ProbeSerial \/ ProbeParallel \/ ProcessFuture \/ Query \/ vstplugin_query \/ SearchNow
    BY DEF Next, Quit, Change, vst_search, SetSearching, vst_search_stop, vst_clear,
           vst_probe, vstplugin_search, vstplugin_search_stop, vstplugin_search_clear,
           vstplugin_open, vstplugin_search_now, SearchedNow, Worker, Take, NextDirectory, Skip,
           Known, Save, Answer, Clear, SearchDone, vars
  <1> QED
    BY <1>2, <1>3, <1>4, <1>5, <1>6, <1>7, <1>8

\* When what a session reads from its cache file keeps known and black-listed modules apart,
\* and the Pd thread does not probe while probes of the worker are under way, nothing that
\* follows in the session makes a module both: a probe's result is entered for a module
\* that is neither, whatever was cleared or queued meanwhile, and whatever the Pd thread
\* probes before and after (loadFactory, processFutures, addFactory, addException).
THEOREM KnownOrIgnoredKept ==
  ASSUME ~Beside
  PROVE  Spec /\ [][Boot => KnownOrIgnored']_vars => []KnownOrIgnored
  <1>1. Init => KnownOrIgnored
    BY ClearDict DEF Init, KnownOrIgnored, Apart
  <1>2. ASSUME IInv, KnownOrIgnored, [Next]_vars, [Boot => KnownOrIgnored']_vars
        PROVE  KnownOrIgnored'
    <2>1. CASE UNCHANGED vars
      BY <1>2, <2>1 DEF KnownOrIgnored, vars
    <2>2. CASE Boot /\ ~UNCHANGED vars
      BY <1>2, <2>2
    <2>3. CASE ~Boot
      BY <1>2, <2>3, StaysApart DEF KnownOrIgnored, Apart
    <2> QED
      BY <2>1, <2>2, <2>3
  <1> QED
    BY <1>1, <1>2, SearchInvariant, PTL DEF Spec
================================================================================
