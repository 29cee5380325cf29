-------------------------- MODULE ProbePluginsProofs --------------------------
(***************************************************************************)
(* Theorems about ProbePlugins for any number of plugins and worker        *)
(* threads, if nothing interrupts waitpid: what the factory has when       *)
(* probing is over or has thrown, and that each plugin is reported once.   *)
(*                                                                         *)
(* The collector ends when there are as many results as plugins.  That all *)
(* plugins are done by then, and no worker is still at one, is a matter of *)
(* counting: results are for different plugins (ResultsInv), of which no   *)
(* worker has one (WorkersInv), so that N results leave none (AllDone).    *)
(***************************************************************************)
EXTENDS ProbePlugins, FiniteSetTheorems, TLAPS

Errors  == {"none", "crash", "system", "reported", "unknown", "malformed"}
Results == [item : Items \cup {None}, error : Errors]

TypeInv ==
  /\ proc \in [Items -> {"none", "running", "good", "silent", "garbled", "failure", "crash"}]
  /\ file \in [Items -> {"none", "info", "code", "malformed", "badnumber"}]
  /\ collector \in {"start", "module", "single", "loop", "woken", "wait", "report", "join", "over",
                    "failed", "terminated"}
  /\ current \in Results
  /\ worker \in [Workers -> {"new", "take", "probe", "wait", "push", "end", "terminated"}]
  /\ task \in [Workers -> Items \cup {None}]
  /\ result \in [Workers -> Results]
  /\ head \in 0 .. N /\ tail \in Nat
  /\ probeResults \in Seq(Results)
  /\ told \in Seq(Items \cup {None})

\* the process of a plugin and its file are gone, and a result tells how it ended
Gone(i)    == proc[i] # "running" /\ file[i] = "none"
Correct(r) == Gone(r.item) /\ (r.error = "none" <=> proc[r.item] = "good")

\* what a process leaves and how it ends
Fits(i)    == /\ proc[i] = "good" => file[i] = "info"
              /\ proc[i] = "silent" => file[i] = "none"
              /\ proc[i] = "garbled" => file[i] \in {"malformed", "badnumber"}
FilesInv   == \A i \in Items : proc[i] \in {"none", "running"} => file[i] = "none"

\* no worker thread has begun
Alone == /\ head = 0 /\ tail = 0 /\ probeResults = <<>>
         /\ \A w \in Workers : worker[w] = "new"

\* how far the caller is, and what it has asked for
PhaseInv ==
  /\ asked \in {{}, {0}, 1 .. N}
  /\ collector = "start" => asked = {} /\ proc[0] = "none"
  /\ collector = "module" => asked = {} /\ proc[0] # "none" /\ Fits(0)
  /\ collector = "single" => asked = {0} /\ current.item = 0 /\ Correct(current)
  /\ collector \in {"loop", "woken", "wait", "report"} => asked = 1 .. N
  /\ collector \in {"join", "over"} => asked # {}
  /\ collector = "failed" => asked = {}
  /\ collector = "terminated" => asked = 1 .. N
  /\ asked = 1 .. N => N > 1
  /\ collector \notin {"start", "module"} => Gone(0)
  /\ asked # 1 .. N => Alone
  /\ asked = {} \/ collector = "single" => plugins = {} /\ told = <<>>
  /\ asked = {0} => /\ collector \in {"single", "join", "over"}
                    /\ collector # "single" => /\ plugins = {i \in {0} : proc[i] = "good"}
                                               /\ told = <<0>>

\* each worker is at a plugin of its own, which has no result yet
AtPlugin(w) == worker[w] \in {"probe", "wait", "push"}
WorkersInv ==
  /\ \A i \in 1 .. N : i > head => proc[i] = "none"
  /\ \A w \in Workers : AtPlugin(w) =>
        /\ task[w] \in 1 .. head
        /\ \A k \in 1 .. Len(probeResults) : probeResults[k].item # task[w]
        /\ \A v \in Workers : AtPlugin(v) /\ task[v] = task[w] => v = w
        /\ worker[w] = "probe" => proc[task[w]] = "none"
        /\ worker[w] = "wait" => proc[task[w]] # "none" /\ Fits(task[w])
        /\ worker[w] = "push" => result[w].item = task[w] /\ Correct(result[w])

\* results are correct, and for different plugins
ResultsInv ==
  /\ \A k \in 1 .. Len(probeResults) : /\ probeResults[k].item \in 1 .. head
                                       /\ Correct(probeResults[k])
  /\ \A k, l \in 1 .. Len(probeResults) : probeResults[k].item = probeResults[l].item => k = l

\* what the collector has reported are the results up to tail
CollectInv ==
  asked = 1 .. N =>
    /\ tail <= Len(probeResults) /\ Len(told) = tail
    /\ \A k \in 1 .. tail : told[k] = probeResults[k].item
    /\ plugins = {probeResults[k].item : k \in {j \in 1 .. tail : probeResults[j].error = "none"}}
    /\ collector = "report" => tail < Len(probeResults) /\ current = probeResults[tail + 1]
    /\ collector \in {"join", "over"} => tail = Len(probeResults) /\ N <= tail
    /\ collector = "over" => \A w \in Workers : worker[w] \in {"new", "end"}
    /\ collector = "terminated" => \A w \in Workers : worker[w] = "terminated"

IInv == TypeInv /\ FilesInv /\ PhaseInv /\ WorkersInv /\ ResultsInv /\ CollectInv

\* the plugins are numbered from 1
LEMMA Numbers ==
  /\ N \in Nat /\ N > 0 /\ Items = 0 .. N
  /\ {} # 1 .. N /\ {0} # 1 .. N /\ {} # {0}
  <1>1. 1 \in 1 .. N /\ 0 \notin 1 .. N /\ N \in Nat
    BY ProbeAssumption
  <1> QED BY <1>1, ProbeAssumption DEF Items

\* N results are results of all N plugins.
LEMMA AllDone ==
  ASSUME TypeInv, ResultsInv, N <= Len(probeResults), NEW i \in 1 .. N
  PROVE  \E k \in 1 .. Len(probeResults) : probeResults[k].item = i
  <1> SUFFICES ASSUME \A k \in 1 .. Len(probeResults) : probeResults[k].item # i
               PROVE  FALSE
    OBVIOUS
  <1> DEFINE f == [k \in 1 .. N |-> probeResults[k].item]
  <1>0. N \in Nat /\ Len(probeResults) \in Nat /\ head \in 0 .. N
    BY Numbers DEF TypeInv
  <1>1. f \in [1 .. N -> (1 .. N) \ {i}]
    BY <1>0 DEF ResultsInv
  <1>2. IsFiniteSet(1 .. N) /\ Cardinality(1 .. N) = N
    BY <1>0, FS_Interval, ProbeAssumption
  <1>3. IsFiniteSet((1 .. N) \ {i}) /\ Cardinality((1 .. N) \ {i}) = N - 1
    BY <1>2, FS_RemoveElement
  <1>4. N - 1 < N
    BY <1>0
  <1> HIDE DEF f
  <1>5. \E x, y \in 1 .. N : x # y /\ f[x] = f[y]
    <2> DEFINE T == (1 .. N) \ {i}
    <2>1. f \in [1 .. N -> T] /\ IsFiniteSet(T) /\ Cardinality(T) < Cardinality(1 .. N)
      BY <1>1, <1>2, <1>3, <1>4
    <2> HIDE DEF T
    <2> QED BY <1>2, <2>1, FS_PigeonHole
  <1> QED BY <1>0, <1>5 DEF f, ResultsInv

\* When there are N results, no worker is at a plugin.
LEMMA NobodyAtPlugin ==
  ASSUME IInv, N <= Len(probeResults), NEW w \in Workers
  PROVE  ~AtPlugin(w)
  <1>1. AtPlugin(w) => task[w] \in 1 .. N
    BY Numbers DEF IInv, WorkersInv, TypeInv
  <1> QED BY <1>1, AllDone DEF IInv, WorkersInv

\* The result of a process that has ended is about its plugin, and without an error
\* only if the process ended well.
LEMMA ResultCorrect ==
  ASSUME TypeInv, ~Interrupts, NEW i \in Items, Ended(i), Fits(i), ~NotError(i)
  PROVE  /\ proc[i] \notin {"none", "running"}
         /\ ResultOf(i) \in Results /\ ResultOf(i).item = i
         /\ ResultOf(i).error = "none" <=> proc[i] = "good"
  <1>1. /\ proc[i] \in {"good", "silent", "garbled", "failure", "crash"}
        /\ file[i] \in {"none", "info", "code", "malformed", "badnumber"}
    BY DEF TypeInv, Ended
  <1>2. ErrorOf(ExitOf(i), file[i]) \in Errors
    BY <1>1 DEF ErrorOf, ExitOf, Errors
  <1>3. ErrorOf(ExitOf(i), file[i]) = "none" <=> proc[i] = "good"
    BY <1>1 DEF ErrorOf, ExitOf, Fits
  <1> QED BY <1>1, <1>2, <1>3 DEF ResultOf, Results

-----------------------------------------------------------------------------
(* The invariant is inductive.                                             *)

\* It holds at first.
LEMMA InitInv == Init => IInv
  <1> SUFFICES ASSUME Init PROVE IInv
    OBVIOUS
  <1>1. TypeInv
    BY Numbers DEF Init, TypeInv, NoResult, Results, Errors
  <1>2. PhaseInv
    BY Numbers DEF Init, PhaseInv, Alone, Gone
  <1> QED BY <1>1, <1>2, Numbers DEF Init, IInv, FilesInv, WorkersInv, AtPlugin,
             ResultsInv, CollectInv

\* what the workers leave to the collector
CollectVars == <<asked, collector, current, probeResults, tail, told, plugins>>

\* A worker takes the next plugin, or ends.
LEMMA Taken ==
  ASSUME TypeInv, NEW w \in Workers, Take(w)
  PROVE  /\ worker' \in [Workers -> {"new", "take", "probe", "wait", "push", "end", "terminated"}]
         /\ task' \in [Workers -> Items \cup {None}]
         /\ head' \in 0 .. N /\ head <= head'
         /\ \A v \in Workers : v # w => worker'[v] = worker[v] /\ task'[v] = task[v]
         /\ \/ head' = head + 1 /\ task'[w] = head' /\ worker'[w] = "probe"
            \/ head' = head /\ worker'[w] = "end"
  <1>1. CASE head < N
    <2>1. /\ task' = [task EXCEPT ![w] = head + 1] /\ head' = head + 1
          /\ worker' = [worker EXCEPT ![w] = "probe"]
      BY <1>1 DEF Take
    <2>2. head \in Nat /\ head + 1 \in 0 .. N /\ head + 1 \in Items
      BY <1>1, Numbers DEF TypeInv
    <2> QED BY <2>1, <2>2 DEF TypeInv
  <1>2. CASE ~(head < N)
    <2>1. task' = task /\ head' = head /\ worker' = [worker EXCEPT ![w] = "end"]
      BY <1>2 DEF Take
    <2> QED BY <2>1, Numbers DEF TypeInv
  <1> QED BY <1>1, <1>2

\* The caller starts the process for the module itself.
LEMMA StartOneStep ==
  ASSUME IInv, ~Interrupts, StartOne
  PROVE  IInv'
  <1> USE DEF IInv
  <1>0. /\ asked = {} /\ asked' = {} /\ Alone /\ Alone' /\ plugins = {} /\ told = <<>>
        /\ proc[0] = "none" /\ file[0] = "none" /\ collector' \in {"module", "failed"}
        /\ collector' = "failed" => proc' = proc
        /\ collector' = "module" => proc'[0] = "running"
        /\ file' = file /\ UNCHANGED <<plugins, told>>
    <2>1. /\ asked = {} /\ Alone /\ plugins = {} /\ told = <<>> /\ proc[0] = "none"
          /\ file[0] = "none"
      <3>1. asked = {} /\ proc[0] = "none"
        BY DEF PhaseInv, StartOne
      <3>2. Alone /\ plugins = {} /\ told = <<>>
        BY <3>1, Numbers DEF PhaseInv
      <3>3. file[0] = "none"
        BY <3>1, Numbers DEF FilesInv
      <3> QED BY <3>1, <3>2, <3>3
    <2>2. /\ UNCHANGED <<asked, head, tail, probeResults, worker, plugins, told, file>>
          /\ \/ collector' = "module" /\ Fork(0)
             \/ collector' = "failed" /\ proc' = proc
      BY DEF StartOne, Fork, Module, shared
    <2>3. Fork(0) => proc'[0] = "running"
      BY Numbers DEF Fork, TypeInv
    <2> QED BY <2>1, <2>2, <2>3 DEF Alone
  <1>1. TypeInv'
    BY Numbers DEF TypeInv, StartOne, Fork, Module, shared
  <1>2. FilesInv'
    BY Numbers DEF FilesInv, TypeInv, StartOne, Fork, Module, shared
  <1>3. PhaseInv'
    BY <1>0, Numbers DEF PhaseInv, Gone, Fits
  <1>4. WorkersInv'
    BY <1>0, Numbers DEF WorkersInv, TypeInv, Alone, AtPlugin, StartOne, Fork, Module, shared
  <1>5. ResultsInv'
    <2>1. probeResults' = <<>>
      BY <1>0 DEF Alone
    <2> QED BY <2>1 DEF ResultsInv
  <1>6. CollectInv'
    BY <1>0, Numbers DEF CollectInv
  <1> QED BY <1>1, <1>2, <1>3, <1>4, <1>5, <1>6

\* The caller starts the threads.
LEMMA StartVST3Step ==
  ASSUME IInv, ~Interrupts, StartVST3
  PROVE  IInv'
  <1> USE DEF IInv
  <1>a. asked = {} /\ proc[0] = "none" /\ collector' = "loop" /\ asked' = 1 .. N
    BY DEF PhaseInv, StartVST3, StartThreads, Collector
  <1>b. plugins = {} /\ told = <<>> /\ tail = 0 /\ probeResults = <<>>
    BY <1>a, Numbers DEF PhaseInv, Alone
  <1>0. /\ asked' = 1 .. N /\ plugins = {} /\ told = <<>> /\ proc[0] = "none"
        /\ file[0] = "none" /\ tail = 0 /\ probeResults = <<>> /\ collector' = "loop"
    BY <1>a, <1>b, Numbers DEF FilesInv
  <1>1. TypeInv'
    BY Numbers DEF TypeInv, StartVST3, StartThreads, Collector, shared, Results, Errors
  <1>2. FilesInv'
    BY Numbers DEF FilesInv, TypeInv, StartVST3, StartThreads, Collector, shared, Results,
       Errors
  <1>3. PhaseInv'
    BY <1>0, Numbers DEF PhaseInv, Gone, StartVST3, Collector
  <1>4. WorkersInv'
    BY Numbers DEF WorkersInv, AtPlugin, Correct, Gone, Fits, TypeInv, StartVST3,
       StartThreads, Collector, shared, Results, Errors
  <1>5. ResultsInv'
    BY Numbers DEF ResultsInv, WorkersInv, AtPlugin, Correct, Gone, TypeInv, StartVST3,
       StartThreads, Collector, shared, Results, Errors
  <1>6. CollectInv'
    BY <1>0, Numbers DEF CollectInv, StartVST3, Collector, shared
  <1> QED BY <1>1, <1>2, <1>3, <1>4, <1>5, <1>6

\* The module is a shell.
LEMMA ShellStep ==
  ASSUME IInv, ~Interrupts, Shell
  PROVE  IInv'
  <1> USE DEF IInv
  <1>0. /\ Ended(0) /\ Fits(0)
        /\ proc[0] \notin {"none", "running"}
        /\ ResultOf(0) \in Results /\ ResultOf(0).item = 0
        /\ ResultOf(0).error = "none" <=> proc[0] = "good"
    BY ResultCorrect, Numbers DEF PhaseInv, Shell, Collector, Module, NotError
  <1>a. /\ asked = {} /\ plugins = {} /\ told = <<>> /\ tail = 0 /\ probeResults = <<>>
    BY Numbers DEF PhaseInv, Alone, Shell, Collector
  <1>b. /\ probeResults = <<>> /\ probeResults' = <<>> /\ UNCHANGED <<head, tail>>
        /\ head = 0 /\ proc' = proc /\ asked = {} /\ \A w \in Workers : ~AtPlugin(w) /\ ~AtPlugin(w)'
    BY Numbers DEF PhaseInv, Alone, AtPlugin, Shell, Gathered, StartThreads, Collector, Module, shared
  <1>1. TypeInv'
    BY <1>0, Numbers DEF TypeInv, Shell, Gathered, StartThreads, Collector, Module, shared
  <1>2. FilesInv'
    BY <1>0, Numbers DEF FilesInv, TypeInv, Shell, Gathered, StartThreads, Collector,
       Module, shared
  <1>3. PhaseInv'
    BY <1>0, Numbers DEF PhaseInv, Alone, Gone, Correct, Fits, TypeInv, Shell, Gathered,
       StartThreads, Collector, Module, shared
  <1>4. WorkersInv'
    BY <1>b DEF WorkersInv
  <1>5. ResultsInv'
    BY <1>b DEF ResultsInv
  <1>6. CollectInv'
    BY <1>a, Numbers DEF CollectInv, Shell, StartThreads, Collector, shared
  <1> QED BY <1>1, <1>2, <1>3, <1>4, <1>5, <1>6

\* The module is the only plugin.
LEMMA SingleStep ==
  ASSUME IInv, ~Interrupts, Single
  PROVE  IInv'
  <1> USE DEF IInv
  <1>0. /\ Ended(0) /\ Fits(0)
        /\ proc[0] \notin {"none", "running"}
        /\ ResultOf(0) \in Results /\ ResultOf(0).item = 0
        /\ ResultOf(0).error = "none" <=> proc[0] = "good"
    BY ResultCorrect, Numbers DEF PhaseInv, Single, Collector, Module, NotError
  <1>b. /\ probeResults = <<>> /\ probeResults' = <<>> /\ UNCHANGED <<head, tail>>
        /\ head = 0 /\ proc' = proc /\ asked = {} /\ \A w \in Workers : ~AtPlugin(w) /\ ~AtPlugin(w)'
    BY Numbers DEF PhaseInv, Alone, AtPlugin, Single, Gathered, Collector, Module, shared
  <1>1. TypeInv'
    BY <1>0, Numbers DEF TypeInv, Single, Gathered, Collector, Module, shared
  <1>2. FilesInv'
    BY <1>0, Numbers DEF FilesInv, TypeInv, Single, Gathered, Collector, Module, shared
  <1>3. PhaseInv'
    <2>1. asked' = {0} /\ collector' = "single" /\ current' = ResultOf(0)
      BY DEF Single, Collector, Module
    <2>3. file'[0] = "none"
      BY Numbers DEF TypeInv, Single, Gathered, Module
    <2>4. Gone(0)' /\ current'.item = 0 /\ (current'.error = "none" <=> proc[0] = "good")
      BY <1>0, <1>b, <2>1, <2>3 DEF Gone
    <2>5. Correct(current)'
      BY <1>b, <2>4 DEF Correct, Gone
    <2>2. Alone' /\ plugins' = {} /\ told' = <<>>
      BY <1>b, Numbers DEF PhaseInv, Alone, Single, Collector, shared
    <2> QED BY <2>1, <2>2, <2>4, <2>5, Numbers DEF PhaseInv
  <1>4. WorkersInv'
    BY <1>b DEF WorkersInv
  <1>5. ResultsInv'
    BY <1>b DEF ResultsInv
  <1>6. CollectInv'
    BY <1>0, Numbers DEF CollectInv, TypeInv, Single, Gathered, Collector, Module, shared
  <1> QED BY <1>1, <1>2, <1>3, <1>4, <1>5, <1>6

\* The file of the module cannot be read.
LEMMA ModuleThrowsStep ==
  ASSUME IInv, ~Interrupts, ModuleThrows
  PROVE  IInv'
  <1> USE DEF IInv
  <1>a. /\ asked = {} /\ plugins = {} /\ told = <<>> /\ collector' = "failed" /\ Alone
        /\ proc[0] \notin {"none", "running"}
        /\ UNCHANGED <<proc, asked, plugins, told, head, tail, probeResults, worker, task, result, current>>
        /\ file' = [file EXCEPT ![0] = "none"]
    BY Numbers DEF PhaseInv, ModuleThrows, Gathered, Collector, Module, shared, Ended
  <1>b. Alone' /\ probeResults' = <<>> /\ Gone(0)' /\ \A w \in Workers : ~AtPlugin(w)'
    BY <1>a, Numbers DEF Alone, AtPlugin, Gone, TypeInv
  <1>1. TypeInv'
    BY <1>a, Numbers DEF TypeInv
  <1>2. FilesInv'
    BY <1>a, Numbers DEF FilesInv, TypeInv
  <1>3. PhaseInv'
    BY <1>a, <1>b, Numbers DEF PhaseInv
  <1>4. WorkersInv'
    BY <1>a, <1>b DEF WorkersInv
  <1>5. ResultsInv'
    BY <1>b DEF ResultsInv
  <1>6. CollectInv'
    BY <1>a, Numbers DEF CollectInv
  <1> QED BY <1>1, <1>2, <1>3, <1>4, <1>5, <1>6

\* Its result is reported.
LEMMA ReportSingleStep ==
  ASSUME IInv, ~Interrupts, ReportSingle
  PROVE  IInv'
  <1> USE DEF IInv
  <1>0. /\ asked = {0} /\ asked' = {0} /\ Alone /\ Alone' /\ plugins = {} /\ told = <<>>
        /\ current.item = 0 /\ Correct(current) /\ UNCHANGED <<proc, file>>
        /\ collector = "single" /\ collector' = "join"
    BY Numbers DEF PhaseInv, ReportSingle, Report, Collector, Alone, shared
  <1>1. TypeInv'
    BY Numbers DEF TypeInv, ReportSingle, Report, Collector, shared, Results
  <1>2. FilesInv'
    BY Numbers DEF FilesInv, TypeInv, ReportSingle, Report, Collector, shared, Results
  <1>3. PhaseInv'
    <2>1. told' = <<0>> /\ plugins' = {i \in {0} : proc[i] = "good"}
      BY <1>0 DEF ReportSingle, Report, Correct
    <2>2. Gone(0)'
      BY <1>0 DEF Gone, PhaseInv
    <2> QED BY <1>0, <2>1, <2>2, Numbers DEF PhaseInv
  <1>4. WorkersInv'
    BY Numbers DEF WorkersInv, AtPlugin, Correct, Gone, Fits, TypeInv, ReportSingle,
       Report, Collector, shared, Results
  <1>5. ResultsInv'
    BY Numbers DEF ResultsInv, WorkersInv, AtPlugin, Correct, Gone, TypeInv, ReportSingle,
       Report, Collector, shared, Results
  <1>6. CollectInv'
    BY <1>0, Numbers DEF CollectInv
  <1> QED BY <1>1, <1>2, <1>3, <1>4, <1>5, <1>6

\* The collector takes a result, waits, or has them all.
LEMMA CollectStep ==
  ASSUME IInv, ~Interrupts, Collect
  PROVE  IInv'
  <1> USE DEF IInv
  <1>1. TypeInv'
    BY Numbers DEF TypeInv, Collect, WaitOrEnd, shared
  <1>2. FilesInv'
    BY Numbers DEF FilesInv, TypeInv, Collect, WaitOrEnd, shared
  <1>3. PhaseInv'
    BY Numbers DEF PhaseInv, Alone, Gone, Correct, Fits, TypeInv, Collect, WaitOrEnd, shared
  <1>4. WorkersInv'
    <2>1. UNCHANGED <<worker, task, result, proc, file, head, probeResults>>
      BY DEF Collect, shared
    <2> QED BY <2>1 DEF WorkersInv, AtPlugin, Correct, Gone, Fits
  <1>5. ResultsInv'
    BY Numbers DEF ResultsInv, WorkersInv, AtPlugin, Correct, Gone, TypeInv, Collect,
       WaitOrEnd, shared
  <1>6. CollectInv'
    BY Numbers DEF CollectInv, TypeInv, Collect, WaitOrEnd, shared
  <1> QED BY <1>1, <1>2, <1>3, <1>4, <1>5, <1>6

\* The collector reports a result.
LEMMA ReportNextStep ==
  ASSUME IInv, ~Interrupts, ReportNext
  PROVE  IInv'
  <1> USE DEF IInv
  <1>1. TypeInv'
    BY Numbers DEF TypeInv, ReportNext, Report, Collector, shared, Results
  <1>2. FilesInv'
    BY Numbers DEF FilesInv, TypeInv, ReportNext, Report, Collector, shared, Results
  <1>3. PhaseInv'
    BY Numbers DEF PhaseInv, Alone, Gone, Correct, Fits, TypeInv, ReportNext, Report,
       Collector, shared, Results
  <1>4. WorkersInv'
    <2>1. UNCHANGED <<worker, task, result, proc, file, head, probeResults>>
      BY DEF ReportNext, Report, shared
    <2> QED BY <2>1 DEF WorkersInv, AtPlugin, Correct, Gone, Fits
  <1>5. ResultsInv'
    BY Numbers DEF ResultsInv, WorkersInv, AtPlugin, Correct, Gone, TypeInv, ReportNext,
       Report, Collector, shared, Results
  <1>6. CollectInv'
    BY Numbers DEF CollectInv, TypeInv, ReportNext, Report, Collector, shared, Results
  <1> QED BY <1>1, <1>2, <1>3, <1>4, <1>5, <1>6

\* The threads are joined.
LEMMA JoinStep ==
  ASSUME IInv, ~Interrupts, Join
  PROVE  IInv'
  <1> USE DEF IInv
  <1>1. TypeInv'
    BY Numbers DEF TypeInv, Join, Collector, shared
  <1>2. FilesInv'
    BY Numbers DEF FilesInv, TypeInv, Join, Collector, shared
  <1>3. PhaseInv'
    BY Numbers DEF PhaseInv, Alone, Gone, Correct, Fits, TypeInv, Join, Collector, shared
  <1>4. WorkersInv'
    BY Numbers DEF WorkersInv, AtPlugin, Correct, Gone, Fits, TypeInv, Join, Collector, shared
  <1>5. ResultsInv'
    BY Numbers DEF ResultsInv, WorkersInv, AtPlugin, Correct, Gone, TypeInv, Join,
       Collector, shared
  <1>6. CollectInv'
    BY Numbers DEF CollectInv, TypeInv, Join, Collector, shared
  <1> QED BY <1>1, <1>2, <1>3, <1>4, <1>5, <1>6

\* A worker takes its first plugin.
LEMMA TakeFirstStep ==
  ASSUME IInv, ~Interrupts, NEW w \in Workers, TakeFirst(w)
  PROVE  IInv'
  <1> USE DEF IInv
  <1>a. /\ UNCHANGED <<proc, file, result>> /\ UNCHANGED CollectVars /\ worker[w] = "take" /\ Take(w)
    BY DEF TakeFirst, CollectVars
  <1>b. /\ worker' \in [Workers -> {"new", "take", "probe", "wait", "push", "end", "terminated"}]
        /\ task' \in [Workers -> Items \cup {None}]
        /\ head' \in 0 .. N /\ head <= head'
        /\ \A v \in Workers : v # w => worker'[v] = worker[v] /\ task'[v] = task[v]
        /\ \/ head' = head + 1 /\ task'[w] = head' /\ worker'[w] = "probe"
           \/ head' = head /\ worker'[w] = "end"
    BY <1>a, Taken
  <1>c. N \in Nat /\ head \in Nat /\ head' \in Nat /\ Items = 0 .. N
    BY <1>b, Numbers DEF TypeInv
  <1>1. TypeInv'
    BY <1>a, <1>b, Numbers DEF TypeInv, CollectVars
  <1>2. FilesInv'
    BY <1>a, Taken, Numbers DEF FilesInv, TypeInv, TakeFirst
  <1>3. PhaseInv'
    BY <1>a, <1>b, Numbers DEF PhaseInv, Alone, Gone, Correct, Fits, CollectVars
  <1>4. WorkersInv'
    <2>1. \A i \in 1 .. N : i > head' => proc'[i] = "none"
      BY <1>a, <1>b, <1>c DEF WorkersInv
    <2>2. ASSUME NEW v \in Workers, AtPlugin(v)', v # w
          PROVE  /\ AtPlugin(v) /\ task[v] \in 1 .. head /\ task'[v] = task[v]
                 /\ worker'[v] = worker[v]
      BY <1>a, <2>2, <1>b DEF AtPlugin, WorkersInv
    <2>3. AtPlugin(w)' => head' = head + 1 /\ task'[w] = head' /\ worker'[w] = "probe"
      BY <1>a, <1>b DEF AtPlugin
    <2>4. ASSUME NEW v \in Workers, AtPlugin(v)'
          PROVE  /\ task'[v] \in 1 .. head'
                 /\ \A u \in Workers : AtPlugin(u)' /\ task'[u] = task'[v] => u = v
      <3>1. CASE v = w
        BY <2>2, <2>3, <2>4, <3>1, <1>c
      <3>2. CASE v # w
        <4>1. task'[v] \in 1 .. head /\ task'[v] # head + 1
          BY <2>2, <2>4, <3>2, <1>c
        <4>2. ASSUME NEW u \in Workers, AtPlugin(u)', task'[u] = task'[v]
              PROVE  u = v
          BY <2>2, <2>3, <2>4, <3>2, <4>1, <4>2 DEF WorkersInv
        <4> QED BY <1>b, <1>c, <4>1, <4>2
      <3> QED BY <3>1, <3>2
    <2>5. ASSUME NEW v \in Workers, AtPlugin(v)', NEW k \in 1 .. Len(probeResults')
          PROVE  probeResults'[k].item # task'[v]
      <3>1. probeResults'[k].item \in 1 .. head /\ (v # w => probeResults'[k].item # task[v])
        BY <1>a, <2>2, <2>5 DEF ResultsInv, WorkersInv, CollectVars
      <3> QED BY <2>2, <2>3, <2>5, <3>1, <1>c
    <2>6. ASSUME NEW v \in Workers, AtPlugin(v)'
          PROVE  (/\ worker[v] = "probe" => proc[task[v]] = "none"
                  /\ worker[v] = "wait" => proc[task[v]] # "none" /\ Fits(task[v])
                  /\ worker[v] = "push" => result[v].item = task[v] /\ Correct(result[v]))'
      <3>1. CASE v = w
        <4>1. worker'[v] = "probe" /\ task'[v] = head + 1 /\ task'[v] \in 1 .. N /\ proc' = proc
          BY <2>3, <2>6, <3>1, <1>a, <1>b, <1>c
        <4> QED BY <4>1, <1>c DEF WorkersInv
      <3>2. CASE v # w
        <4>1. UNCHANGED <<proc, file, result>>
          BY <1>a
        <4> QED BY <2>2, <2>6, <3>2, <4>1 DEF WorkersInv, Correct, Gone, Fits
      <3> QED BY <3>1, <3>2
    <2> QED BY <2>1, <2>4, <2>5, <2>6 DEF WorkersInv
  <1>5. ResultsInv'
    <2>1. UNCHANGED <<proc, file, probeResults>>
      BY <1>a DEF CollectVars
    <2>2. \A i \in 1 .. head : i \in 1 .. head'
      BY <1>b, <1>c
    <2> QED BY <2>1, <2>2 DEF ResultsInv, Correct, Gone
  <1>6. CollectInv'
    BY <1>a, <1>b, Numbers DEF CollectInv, CollectVars
  <1> QED BY <1>1, <1>2, <1>3, <1>4, <1>5, <1>6

\* A worker starts a process, or fails to.
LEMMA StartProbeStep ==
  ASSUME IInv, ~Interrupts, NEW w \in Workers, StartProbe(w)
  PROVE  IInv'
  <1> USE DEF IInv
  <1>a. /\ worker[w] = "probe" /\ AtPlugin(w) /\ task[w] \in 1 .. head /\ head \in 0 .. N
        /\ proc[task[w]] = "none" /\ UNCHANGED <<file, task, head, kind>> /\ UNCHANGED CollectVars
    BY DEF StartProbe, Fork, CollectVars, shared, WorkersInv, AtPlugin, TypeInv
  <1>b. asked = 1 .. N /\ task[w] \in Items /\ task[w] # 0 /\ file[task[w]] = "none"
    BY <1>a, Numbers DEF PhaseInv, Alone, FilesInv
  <1>c. /\ proc' \in [Items -> {"none", "running", "good", "silent", "garbled", "failure", "crash"}]
        /\ worker' \in [Workers -> {"new", "take", "probe", "wait", "push", "end", "terminated"}]
        /\ result' \in [Workers -> Results]
        /\ \A i \in Items : i # task[w] => proc'[i] = proc[i]
        /\ \A v \in Workers : v # w => worker'[v] = worker[v] /\ result'[v] = result[v]
        /\ \/ worker'[w] = "wait" /\ proc'[task[w]] = "running"
           \/ /\ worker'[w] = "push" /\ proc'[task[w]] = "none"
              /\ result'[w].item = task[w] /\ result'[w].error # "none"
    <2>1. CASE Fork(task[w]) /\ worker' = [worker EXCEPT ![w] = "wait"] /\ UNCHANGED result
      BY <1>a, <1>b, <2>1 DEF TypeInv, Fork
    <2>2. CASE /\ worker' = [worker EXCEPT ![w] = "push"]
               /\ result' = [result EXCEPT ![w] = [item |-> task[w], error |-> "system"]]
               /\ UNCHANGED <<proc, file>>
      <3>1. [item |-> task[w], error |-> "system"] \in Results
        BY <1>b DEF Results, Errors
      <3> QED BY <1>a, <1>b, <2>2, <3>1 DEF TypeInv
    <2> QED BY <2>1, <2>2 DEF StartProbe
  <1>1. TypeInv'
    BY <1>a, <1>c DEF TypeInv, CollectVars
  <1>2. FilesInv'
    BY <1>a, <1>b, <1>c DEF FilesInv
  <1>3. PhaseInv'
    <2>1. /\ collector \notin {"start", "module", "single", "failed"} /\ asked # {} /\ asked # {0}
          /\ N > 1 /\ Gone(0)
      BY <1>b, Numbers DEF PhaseInv
    <2>2. Gone(0)' /\ asked' = 1 .. N /\ collector' = collector
      BY <1>a, <1>b, <1>c, <2>1, Numbers DEF Gone, CollectVars
    <2> QED BY <2>1, <2>2, <1>b, Numbers DEF PhaseInv
  <1>4. WorkersInv'
    <2>1. \A i \in 1 .. N : i > head' => proc'[i] = "none"
      BY <1>a, <1>b, <1>c, Numbers DEF WorkersInv
    <2>2. ASSUME NEW v \in Workers, AtPlugin(v)'
          PROVE  /\ AtPlugin(v) /\ task[v] \in Items
                 /\ v # w => worker'[v] = worker[v] /\ proc'[task[v]] = proc[task[v]]
      <3>1. AtPlugin(v) /\ (v # w => worker'[v] = worker[v])
        BY <1>a, <1>c, <2>2 DEF AtPlugin
      <3> QED BY <1>a, <1>c, <3>1, Numbers DEF WorkersInv
    <2>3. ASSUME NEW v \in Workers, AtPlugin(v)'
          PROVE  (/\ worker[v] = "probe" => proc[task[v]] = "none"
                  /\ worker[v] = "wait" => proc[task[v]] # "none" /\ Fits(task[v])
                  /\ worker[v] = "push" => result[v].item = task[v] /\ Correct(result[v]))'
      <3>1. CASE v = w
        BY <1>a, <1>b, <1>c, <3>1 DEF Fits, Correct, Gone
      <3>2. CASE v # w
        BY <1>a, <1>c, <2>2, <2>3, <3>2 DEF WorkersInv, Fits, Correct, Gone
      <3> QED BY <3>1, <3>2
    <2> QED BY <1>a, <2>1, <2>2, <2>3 DEF WorkersInv, AtPlugin, CollectVars
  <1>5. ResultsInv'
    <2>1. \A k \in 1 .. Len(probeResults) : probeResults[k].item # task[w] /\ probeResults[k].item \in Items
      BY <1>a, Numbers DEF WorkersInv, ResultsInv
    <2> QED BY <1>a, <1>c, <2>1 DEF ResultsInv, Correct, Gone, CollectVars
  <1>6. CollectInv'
    BY <1>a, <1>c DEF CollectInv, CollectVars
  <1> QED BY <1>1, <1>2, <1>3, <1>4, <1>5, <1>6

\* A worker reads what the process left.
LEMMA EndProbeStep ==
  ASSUME IInv, ~Interrupts, NEW w \in Workers, EndProbe(w)
  PROVE  IInv'
  <1> USE DEF IInv
  <1>0. /\ task[w] \in 1 .. N /\ Ended(task[w]) /\ Fits(task[w])
        /\ proc[task[w]] \notin {"none", "running"}
        /\ ResultOf(task[w]) \in Results /\ ResultOf(task[w]).item = task[w]
        /\ ResultOf(task[w]).error = "none" <=> proc[task[w]] = "good"
    BY ResultCorrect, Numbers DEF WorkersInv, AtPlugin, TypeInv, EndProbe
  <1>1. TypeInv'
    BY <1>0, Numbers DEF TypeInv, EndProbe, Gathered, shared
  <1>2. FilesInv'
    BY <1>0, Numbers DEF FilesInv, TypeInv, EndProbe, Gathered, shared
  <1>3. PhaseInv'
    <2>1. /\ asked = 1 .. N /\ collector \notin {"start", "module", "single"} /\ Gone(0)
          /\ N > 1 /\ collector # "failed"
      BY Numbers DEF PhaseInv, Alone, EndProbe
    <2>2. /\ UNCHANGED <<proc, asked, collector>>
          /\ file' = [file EXCEPT ![task[w]] = "none"]
      BY DEF EndProbe, Gathered
    <2>3. Gone(0)'
      BY <2>1, <2>2, Numbers DEF Gone, TypeInv
    <2> QED BY <2>1, <2>2, <2>3, Numbers DEF PhaseInv
  <1>4. WorkersInv'
    <2>1. /\ UNCHANGED <<proc, task, head, probeResults>> /\ worker[w] = "wait" /\ worker'[w] = "push"
          /\ file' = [file EXCEPT ![task[w]] = "none"] /\ result'[w] = ResultOf(task[w])
          /\ \A v \in Workers : v # w => worker'[v] = worker[v] /\ result'[v] = result[v]
      BY DEF EndProbe, Gathered, shared, TypeInv
    <2>2. \A i \in Items : file[i] = "none" => file'[i] = "none"
      BY <2>1 DEF TypeInv
    <2>3. \A i \in Items : i # task[w] => file'[i] = file[i]
      BY <2>1 DEF TypeInv
    <2>4. ASSUME NEW v \in Workers, AtPlugin(v)'
          PROVE  AtPlugin(v) /\ task[v] \in Items
      BY <2>1, <2>4, Numbers DEF AtPlugin, WorkersInv, TypeInv
    <2>5. ASSUME NEW v \in Workers, AtPlugin(v)'
          PROVE  (/\ worker[v] = "probe" => proc[task[v]] = "none"
                  /\ worker[v] = "wait" => proc[task[v]] # "none" /\ Fits(task[v])
                  /\ worker[v] = "push" => result[v].item = task[v] /\ Correct(result[v]))'
      <3>1. CASE v = w
        <4>1. Gone(task[w])'
          BY <1>0, <2>1, <2>4, <2>5, <3>1 DEF Gone, TypeInv
        <4> QED BY <1>0, <2>1, <3>1, <4>1 DEF Correct, Gone
      <3>2. CASE v # w
        <4>1. AtPlugin(v) /\ task[v] \in Items /\ task[v] # task[w] /\ file'[task[v]] = file[task[v]]
          BY <2>1, <2>3, <2>4, <2>5, <3>2 DEF WorkersInv, AtPlugin
        <4> QED BY <2>1, <3>2, <4>1 DEF WorkersInv, Correct, Gone, Fits
      <3> QED BY <3>1, <3>2
    <2> QED BY <2>1, <2>4, <2>5 DEF WorkersInv
  <1>5. ResultsInv'
    BY <1>0, Numbers DEF ResultsInv, WorkersInv, AtPlugin, Correct, Gone, TypeInv,
       EndProbe, Gathered, shared
  <1>6. CollectInv'
    BY <1>0, Numbers DEF CollectInv, TypeInv, EndProbe, Gathered, shared
  <1> QED BY <1>1, <1>2, <1>3, <1>4, <1>5, <1>6

\* A number cannot be read: the host ends.
LEMMA TerminateStep ==
  ASSUME IInv, ~Interrupts, NEW w \in Workers, Terminate(w)
  PROVE  IInv'
  <1> USE DEF IInv
  <1>a. /\ UNCHANGED <<proc, file, current, task, result, head, tail, probeResults, plugins, asked, told>>
        /\ collector' = "terminated" /\ worker' = [v \in Workers |-> "terminated"]
        /\ worker[w] = "wait"
    BY DEF Terminate, shared
  <1>b. asked = 1 .. N /\ N > 1
    BY <1>a, Numbers DEF PhaseInv, Alone
  <1>c. collector \notin {"start", "module", "single"}
    BY <1>b, Numbers DEF PhaseInv
  <1>1. TypeInv'
    BY <1>a DEF TypeInv
  <1>2. FilesInv'
    BY <1>a DEF FilesInv
  <1>3. PhaseInv'
    BY <1>a, <1>b, <1>c, Numbers DEF PhaseInv, Gone
  <1>4. WorkersInv'
    BY <1>a DEF WorkersInv, AtPlugin
  <1>5. ResultsInv'
    BY <1>a DEF ResultsInv, Correct, Gone
  <1>6. CollectInv'
    BY <1>a DEF CollectInv
  <1> QED BY <1>1, <1>2, <1>3, <1>4, <1>5, <1>6

\* A worker hands in its result and takes the next plugin.
LEMMA PushStep ==
  ASSUME IInv, ~Interrupts, NEW w \in Workers, Push(w)
  PROVE  IInv'
  <1> USE DEF IInv
  <1>a. /\ UNCHANGED <<proc, file, kind, current, result, tail, plugins, asked, told>>
        /\ worker[w] = "push" /\ Take(w) /\ probeResults' = Append(probeResults, result[w])
        /\ collector' = IF collector = "wait" THEN "woken" ELSE collector
    BY DEF Push
  <1>b. /\ worker' \in [Workers -> {"new", "take", "probe", "wait", "push", "end", "terminated"}]
        /\ task' \in [Workers -> Items \cup {None}]
        /\ head' \in 0 .. N /\ head <= head'
        /\ \A v \in Workers : v # w => worker'[v] = worker[v] /\ task'[v] = task[v]
        /\ \/ head' = head + 1 /\ task'[w] = head' /\ worker'[w] = "probe"
           \/ head' = head /\ worker'[w] = "end"
    BY <1>a, Taken
  <1>c. N \in Nat /\ head \in Nat /\ head' \in Nat /\ Items = 0 .. N
    BY <1>b, Numbers DEF TypeInv
  <1>d. /\ AtPlugin(w) /\ task[w] \in 1 .. head
        /\ result[w].item = task[w] /\ Correct(result[w]) /\ result[w] \in Results
    BY <1>a DEF WorkersInv, AtPlugin, TypeInv
  <1>e. /\ probeResults' \in Seq(Results) /\ Len(probeResults) \in Nat
        /\ Len(probeResults') = Len(probeResults) + 1
        /\ \A k \in 1 .. Len(probeResults) : probeResults'[k] = probeResults[k]
        /\ probeResults'[Len(probeResults) + 1] = result[w]
    BY <1>a, <1>d DEF TypeInv
  <1>f. asked = 1 .. N
        /\ collector \notin {"start", "module", "single", "join", "over", "failed", "terminated"}
    <2>1. asked = 1 .. N
      BY <1>a DEF PhaseInv, Alone
    <2>2. collector # "terminated"
      BY <1>a, <2>1 DEF CollectInv
    <2> QED BY <1>d, <2>1, <2>2, NobodyAtPlugin, Numbers DEF PhaseInv, CollectInv
  <1>1. TypeInv'
    BY <1>a, <1>b, <1>e DEF TypeInv
  <1>2. FilesInv'
    BY <1>a DEF FilesInv
  <1>3. PhaseInv'
    <2>1. Gone(0)' /\ collector' \notin {"start", "module", "single", "join", "over", "failed",
                                         "terminated"}
      BY <1>a, <1>f DEF PhaseInv, Gone
    <2> QED BY <1>a, <1>f, <2>1, Numbers DEF PhaseInv
  <1>4. WorkersInv'
    <2>1. \A i \in 1 .. N : i > head' => proc'[i] = "none"
      BY <1>a, <1>b, <1>c DEF WorkersInv
    <2>2. ASSUME NEW v \in Workers, AtPlugin(v)', v # w
          PROVE  /\ AtPlugin(v) /\ task[v] \in 1 .. head /\ task'[v] = task[v]
                 /\ worker'[v] = worker[v]
      BY <1>a, <2>2, <1>b DEF AtPlugin, WorkersInv
    <2>3. AtPlugin(w)' => head' = head + 1 /\ task'[w] = head' /\ worker'[w] = "probe"
      BY <1>a, <1>b DEF AtPlugin
    <2>4. ASSUME NEW v \in Workers, AtPlugin(v)'
          PROVE  /\ task'[v] \in 1 .. head'
                 /\ \A u \in Workers : AtPlugin(u)' /\ task'[u] = task'[v] => u = v
      <3>1. CASE v = w
        BY <2>2, <2>3, <2>4, <3>1, <1>c
      <3>2. CASE v # w
        <4>1. task'[v] \in 1 .. head /\ task'[v] # head + 1
          BY <2>2, <2>4, <3>2, <1>c
        <4>2. ASSUME NEW u \in Workers, AtPlugin(u)', task'[u] = task'[v]
              PROVE  u = v
          BY <2>2, <2>3, <2>4, <3>2, <4>1, <4>2 DEF WorkersInv
        <4> QED BY <1>b, <1>c, <4>1, <4>2
      <3> QED BY <3>1, <3>2
    <2>5. ASSUME NEW v \in Workers, AtPlugin(v)', NEW k \in 1 .. Len(probeResults')
          PROVE  probeResults'[k].item # task'[v]
      <3>1. probeResults'[k].item \in 1 .. head /\ (v # w => probeResults'[k].item # task[v])
        <4>1. CASE k \in 1 .. Len(probeResults)
          BY <1>e, <2>2, <2>5, <4>1 DEF ResultsInv, WorkersInv
        <4>2. CASE k = Len(probeResults) + 1
          BY <1>d, <1>e, <2>2, <2>5, <4>2 DEF WorkersInv
        <4> QED BY <1>e, <4>1, <4>2
      <3> QED BY <2>2, <2>3, <2>5, <3>1, <1>c
    <2>6. ASSUME NEW v \in Workers, AtPlugin(v)'
          PROVE  (/\ worker[v] = "probe" => proc[task[v]] = "none"
                  /\ worker[v] = "wait" => proc[task[v]] # "none" /\ Fits(task[v])
                  /\ worker[v] = "push" => result[v].item = task[v] /\ Correct(result[v]))'
      <3>1. CASE v = w
        <4>1. worker'[v] = "probe" /\ task'[v] = head + 1 /\ task'[v] \in 1 .. N /\ proc' = proc
          BY <2>3, <2>6, <3>1, <1>a, <1>b, <1>c
        <4> QED BY <4>1, <1>c DEF WorkersInv
      <3>2. CASE v # w
        <4>1. UNCHANGED <<proc, file, result>>
          BY <1>a
        <4> QED BY <2>2, <2>6, <3>2, <4>1 DEF WorkersInv, Correct, Gone, Fits
      <3> QED BY <3>1, <3>2
    <2> QED BY <2>1, <2>4, <2>5, <2>6 DEF WorkersInv
  <1>5. ResultsInv'
    <2>1. ASSUME NEW k \in 1 .. Len(probeResults')
          PROVE  /\ probeResults'[k].item \in 1 .. head'
                 /\ Correct(probeResults[k])'
      <3>1. CASE k \in 1 .. Len(probeResults)
        BY <1>a, <1>b, <1>c, <1>e, <3>1 DEF ResultsInv, Correct, Gone
      <3>2. CASE k = Len(probeResults) + 1
        BY <1>a, <1>b, <1>c, <1>d, <1>e, <3>2 DEF Correct, Gone
      <3> QED BY <1>e, <3>1, <3>2
    <2>2. ASSUME NEW k \in 1 .. Len(probeResults'), NEW l \in 1 .. Len(probeResults'),
                 probeResults'[k].item = probeResults'[l].item
          PROVE  k = l
      BY <1>d, <1>e, <2>2 DEF ResultsInv, WorkersInv
    <2> QED BY <2>1, <2>2 DEF ResultsInv
  <1>6. CollectInv'
    <2>1. tail \in Nat /\ tail <= Len(probeResults)
      BY <1>f DEF CollectInv, TypeInv
    <2>2. \A k \in 1 .. tail : probeResults'[k] = probeResults[k]
      BY <1>e, <2>1
    <2>3. plugins' = {probeResults'[k].item : k \in {j \in 1 .. tail : probeResults'[j].error = "none"}}
      BY <1>a, <1>f, <2>2 DEF CollectInv
    <2>4. collector' = "report" => tail < Len(probeResults') /\ current = probeResults'[tail + 1]
      BY <1>a, <1>e, <1>f, <2>1 DEF CollectInv
    <2> QED BY <1>a, <1>e, <1>f, <2>1, <2>2, <2>3, <2>4 DEF CollectInv
  <1> QED BY <1>1, <1>2, <1>3, <1>4, <1>5, <1>6

\* A process ends.
LEMMA ProcessStep ==
  ASSUME IInv, ~Interrupts, NEW i \in Items, Process(i)
  PROVE  IInv'
  <1> USE DEF IInv
  <1>1. TypeInv'
    BY Numbers DEF TypeInv, Process, Ends
  <1>2. FilesInv'
    BY Numbers DEF FilesInv, TypeInv, Process, Ends
  <1>3. PhaseInv'
    <2>1. /\ proc[i] = "running" /\ UNCHANGED CollectVars /\ UNCHANGED <<head, worker>>
          /\ \A j \in Items : j # i => proc'[j] = proc[j] /\ file'[j] = file[j]
          /\ Fits(i)' /\ proc'[i] # "none"
      BY DEF Process, Ends, CollectVars, TypeInv, Fits
    <2>2. collector # "module" => i # 0
      BY <2>1 DEF PhaseInv, Gone
    <2>3. collector = "module" => (proc[0] # "none" /\ Fits(0))'
      BY <2>1, Numbers DEF PhaseInv, Fits
    <2>4. collector \notin {"start", "module"} => Gone(0)'
      BY <2>1, <2>2, Numbers DEF PhaseInv, Gone
    <2>5. i # 0 => proc'[0] = proc[0] /\ file'[0] = file[0]
      BY <2>1, Numbers
    <2>6. Alone => Alone'
      BY <2>1 DEF Alone, CollectVars
    <2>7. collector = "single" => Correct(current)'
      BY <2>1, <2>2, <2>5 DEF PhaseInv, Correct, Gone, CollectVars
    <2> QED BY <2>1, <2>2, <2>3, <2>4, <2>5, <2>6, <2>7 DEF PhaseInv, CollectVars
  <1>4. WorkersInv'
    <2>1. /\ proc[i] = "running" /\ UNCHANGED <<head, worker, task, result, probeResults>>
          /\ \A j \in Items : j # i => proc'[j] = proc[j] /\ file'[j] = file[j]
          /\ Fits(i)' /\ proc'[i] # "none"
      BY DEF Process, Ends, TypeInv, Fits
    <2>2. \A j \in 1 .. N : j > head => j # i
      BY <2>1 DEF WorkersInv
    <2>3. ASSUME NEW w \in Workers, AtPlugin(w)
          PROVE  task[w] \in Items /\ (worker[w] \in {"probe", "push"} => task[w] # i)
      BY <2>1, <2>3, Numbers DEF WorkersInv, AtPlugin, Correct, Gone, TypeInv
    <2>4. ASSUME NEW w \in Workers, AtPlugin(w)
          PROVE  (/\ worker[w] = "probe" => proc[task[w]] = "none"
                  /\ worker[w] = "wait" => proc[task[w]] # "none" /\ Fits(task[w])
                  /\ worker[w] = "push" => result[w].item = task[w] /\ Correct(result[w]))'
      <3>1. CASE task[w] = i
        BY <2>1, <2>3, <2>4, <3>1 DEF AtPlugin
      <3>2. CASE task[w] # i
        BY <2>1, <2>3, <2>4, <3>2 DEF WorkersInv, Correct, Gone, Fits
      <3> QED BY <3>1, <3>2
    <2>5. \A j \in 1 .. N : j > head => proc'[j] = "none"
      BY <2>1, <2>2, Numbers DEF WorkersInv
    <2> QED BY <2>1, <2>4, <2>5 DEF WorkersInv, AtPlugin
  <1>5. ResultsInv'
    BY Numbers DEF ResultsInv, WorkersInv, AtPlugin, Correct, Gone, TypeInv, Process, Ends
  <1>6. CollectInv'
    BY Numbers DEF CollectInv, TypeInv, Process, Ends
  <1> QED BY <1>1, <1>2, <1>3, <1>4, <1>5, <1>6

\* Nothing else changes the state.
LEMMA StutterStep ==
  ASSUME IInv, UNCHANGED vars
  PROVE  IInv'
  <1>1. TypeInv' /\ FilesInv' /\ PhaseInv'
    BY DEF vars, IInv, TypeInv, FilesInv, PhaseInv, Alone, Gone, Correct, Fits
  <1>2. WorkersInv' /\ ResultsInv' /\ CollectInv'
    BY DEF vars, IInv, WorkersInv, ResultsInv, CollectInv, AtPlugin, Gone, Correct, Fits
  <1> QED BY <1>1, <1>2 DEF IInv

\* It holds always.
LEMMA Invariance ==
  ASSUME ~Interrupts
  PROVE  Spec => []IInv
  <1>1. IInv /\ [Next]_vars => IInv'
    <2> SUFFICES ASSUME IInv, [Next]_vars PROVE IInv'
      OBVIOUS
    <2>1. CASE Caller
      BY <2>1, StartOneStep, StartVST3Step, ShellStep, SingleStep, ModuleThrowsStep,
         ReportSingleStep, CollectStep,
         ReportNextStep, JoinStep DEF Caller
    <2>2. CASE \E w \in Workers : Worker(w)
      BY <2>2, TakeFirstStep, StartProbeStep, EndProbeStep, TerminateStep,
         PushStep DEF Worker
    <2>3. CASE \E i \in Items : Process(i)
      BY <2>3, ProcessStep
    <2>4. CASE UNCHANGED vars
      BY <2>4, StutterStep
    <2> QED BY <2>1, <2>2, <2>3, <2>4 DEF Next
  <1> QED BY <1>1, InitInv, PTL DEF Spec

-----------------------------------------------------------------------------
(* The theorems.                                                           *)

\* When N results have been reported, they are of the plugins 1 .. N.
LEMMA AllReported ==
  ASSUME IInv, asked = 1 .. N, collector \in {"join", "over"}
  PROVE  /\ tail = Len(probeResults) /\ ToSet(told) = 1 .. N
         /\ \A i \in 1 .. N : \E k \in 1 .. tail : probeResults[k].item = i
  <1>1. /\ tail = Len(probeResults) /\ N <= tail /\ Len(told) = tail /\ DOMAIN told = 1 .. tail
        /\ \A k \in 1 .. tail : told[k] = probeResults[k].item
    BY DEF IInv, CollectInv, TypeInv
  <1>2. \A i \in 1 .. N : \E k \in 1 .. tail : probeResults[k].item = i
    BY <1>1, AllDone DEF IInv
  <1>3. \A k \in 1 .. tail : probeResults[k].item \in 1 .. N
    BY <1>1, Numbers DEF IInv, ResultsInv, TypeInv
  <1> QED BY <1>1, <1>2, <1>3 DEF ToSet

\* The factory has exactly the plugins whose processes ended well and left an info that
\* can be read, and no process, temporary file or thread is left, when probing is over or
\* has thrown, with any number of plugins and threads (IFactory::probePlugins,
\* probePlugin).
THEOREM ProbeOutcome ==
  ASSUME ~Interrupts
  PROVE  Spec => []Outcome
  <1>1. IInv => Outcome
    <2> SUFFICES ASSUME IInv, collector \in {"over", "failed"}
                 PROVE  /\ plugins = {i \in asked : proc[i] = "good"}
                        /\ \A i \in Items : file[i] = "none" /\ proc[i] # "running"
                        /\ \A w \in Workers : worker[w] \in {"new", "end"}
      BY DEF Outcome
    <2>1. Gone(0)
      BY DEF IInv, PhaseInv
    <2>2. CASE asked # 1 .. N
      <3>1. plugins = {i \in asked : proc[i] = "good"} /\ Alone
        BY <2>2, Numbers DEF IInv, PhaseInv
      <3>2. \A i \in 1 .. N : proc[i] = "none"
        BY <3>1, Numbers DEF IInv, WorkersInv, Alone
      <3>3. \A i \in Items : Gone(i)
        BY <2>1, <3>2, Numbers DEF IInv, FilesInv, Gone
      <3> QED BY <3>1, <3>3 DEF Alone, Gone
    <2>3. CASE asked = 1 .. N
      <3>0. collector = "over"
        BY <2>3, Numbers DEF IInv, PhaseInv
      <3>1. /\ tail = Len(probeResults)
            /\ \A i \in 1 .. N : \E k \in 1 .. tail : probeResults[k].item = i
        BY <2>3, <3>0, AllReported
      <3>2. \A k \in 1 .. tail : Correct(probeResults[k]) /\ probeResults[k].item \in 1 .. N
        BY <3>1, Numbers DEF IInv, ResultsInv, TypeInv
      <3>3. \A i \in Items : Gone(i)
        BY <2>1, <3>1, <3>2, Numbers DEF Correct, Gone
      <3>4. plugins = {probeResults[k].item : k \in {j \in 1 .. tail : probeResults[j].error = "none"}}
        BY <2>3 DEF IInv, CollectInv
      <3>5. plugins = {i \in asked : proc[i] = "good"}
        BY <2>3, <3>1, <3>2, <3>4 DEF Correct
      <3>6. \A w \in Workers : worker[w] \in {"new", "end"}
        BY <2>3, <3>0 DEF IInv, CollectInv
      <3> QED BY <3>3, <3>5, <3>6 DEF Gone
    <2> QED BY <2>2, <2>3
  <1> QED BY <1>1, Invariance, PTL

\* what the promise is about
Finished == {"over", "failed", "terminated"}
PromiseEnd  == IF collector \in Finished THEN collector ELSE "no"
PromiseVars == <<asked, told, PromiseEnd>>

\* A step of the caller or of a worker asks, tells, ends, or does none of these.
LEMMA StepKeepsPromise ==
  ASSUME IInv, [Next]_vars
  PROVE  Promise!Next \/ UNCHANGED PromiseVars
  <1> USE DEF Finished, PromiseEnd
  <1>1. CASE Join
    <2>1. /\ collector = "join" /\ collector' = "over" /\ UNCHANGED <<asked, told>> /\ asked # {}
      BY <1>1 DEF Join, Collector, IInv, PhaseInv
    <2>2. asked = ToSet(told)
      <3>1. CASE asked = {0}
        <4>1. told = <<0>>
          BY <2>1, <3>1, Numbers DEF IInv, PhaseInv
        <4> QED BY <3>1, <4>1 DEF ToSet
      <3>2. CASE asked = 1 .. N
        BY <2>1, <3>2, Numbers, AllReported
      <3> QED BY <2>1, <3>1, <3>2 DEF IInv, PhaseInv
    <2>3. Promise!End
      <3>1. PromiseEnd = "no" /\ PromiseEnd' = "over"
        BY <2>1
      <3>2. asked = Promise!ToSet(told)
        BY <2>2 DEF ToSet, Promise!ToSet
      <3> QED BY <2>1, <3>1, <3>2 DEF Promise!End
    <2> QED BY <2>3 DEF Promise!Next
  <1>0. CASE ModuleThrows \/ (StartOne /\ collector' = "failed")
    <2>1. /\ collector \in {"start", "module"} /\ collector' = "failed" /\ UNCHANGED <<asked, told>>
          /\ asked = {}
      BY <1>0 DEF ModuleThrows, StartOne, Collector, IInv, PhaseInv
    <2>2. PromiseEnd = "no" /\ PromiseEnd' = "failed"
      BY <2>1
    <2> QED BY <2>1, <2>2 DEF Promise!Fail, Promise!Next
  <1>5. CASE \E w \in Workers : Terminate(w)
    <2>1. PICK w \in Workers : Terminate(w)
      BY <1>5
    <2>2. /\ worker[w] = "wait" /\ collector' = "terminated" /\ UNCHANGED <<asked, told>>
      BY <2>1 DEF Terminate
    <2>3. asked = 1 .. N /\ N > 1
      BY <2>2, Numbers DEF IInv, PhaseInv, Alone
    <2>4. AtPlugin(w) /\ \A v \in Workers : worker[v] = "wait" => AtPlugin(v)
      BY <2>2 DEF AtPlugin
    <2>5. collector \notin {"join", "over", "failed", "terminated"}
      BY <2>2, <2>3, <2>4, NobodyAtPlugin, Numbers DEF IInv, CollectInv, PhaseInv
    <2>6. PromiseEnd = "no" /\ PromiseEnd' = "terminated"
      BY <2>2, <2>5
    <2>7. \E i, j \in asked : i # j
      <3>1. 1 \in asked /\ 2 \in asked
        BY <2>3, Numbers
      <3> QED BY <3>1
    <2> QED BY <2>2, <2>6, <2>7 DEF Promise!Terminate, Promise!Next
  <1>2. CASE \/ StartOne /\ collector' # "failed"
             \/ Collect
             \/ \E w \in Workers : TakeFirst(w) \/ StartProbe(w) \/ EndProbe(w) \/ Push(w)
             \/ \E i \in Items : Process(i)
             \/ UNCHANGED vars
    BY <1>2 DEF StartOne, Collect, WaitOrEnd, TakeFirst, StartProbe, EndProbe,
       Push, Process, vars,
       PromiseVars, IInv, PhaseInv
  <1>3. CASE StartVST3 \/ Shell \/ Single
    <2>1. /\ asked = {} /\ asked' \in {{0}, 1 .. N} /\ UNCHANGED told
          /\ collector \notin Finished /\ collector' \notin Finished
      BY <1>3 DEF StartVST3, Shell, Single, StartThreads, Collector, Module, IInv, PhaseInv
    <2>2. CASE asked' = {0}
      <3>1. {0} \subseteq Items /\ {0} # {}
        BY Numbers
      <3>2. asked' \in (SUBSET Items) \ {{}}
        BY <2>2, <3>1
      <3>3. Promise!Ask
        BY <2>1, <3>2 DEF Promise!Ask
      <3> QED BY <3>3 DEF Promise!Next
    <2>3. CASE asked' = 1 .. N
      <3>1. 1 .. N \subseteq Items /\ 1 .. N # {}
        BY Numbers
      <3>2. asked' \in (SUBSET Items) \ {{}}
        BY <2>3, <3>1
      <3>3. Promise!Ask
        BY <2>1, <3>2 DEF Promise!Ask
      <3> QED BY <3>3 DEF Promise!Next
    <2> QED BY <2>1, <2>2, <2>3
  <1>4. CASE ReportSingle \/ ReportNext
    <2>1. /\ told' = Append(told, current.item) /\ UNCHANGED asked
          /\ collector \notin Finished /\ collector' \notin Finished /\ collector \in {"single", "report"}
      BY <1>4 DEF ReportSingle, ReportNext, Report, Collector
    <2>2. current.item \in asked \ ToSet(told)
      <3>1. CASE collector = "single"
        <4>1. asked = {0} /\ current.item = 0 /\ told = <<>>
          BY <3>1 DEF IInv, PhaseInv
        <4>2. DOMAIN told = {}
          BY <4>1
        <4> QED BY <4>1, <4>2 DEF ToSet
      <3>2. CASE collector = "report"
        <4>1. /\ asked = 1 .. N /\ tail \in Nat /\ tail < Len(probeResults) /\ DOMAIN told = 1 .. tail
              /\ current = probeResults[tail + 1] /\ Len(probeResults) \in Nat
              /\ \A k \in 1 .. tail : told[k] = probeResults[k].item
          BY <3>2 DEF IInv, PhaseInv, CollectInv, TypeInv
        <4>2. current.item \in 1 .. N
          <5>1. tail + 1 \in 1 .. Len(probeResults)
            BY <4>1
          <5>2. head \in 0 .. N /\ probeResults[tail + 1].item \in 1 .. head
            BY <5>1 DEF IInv, ResultsInv, TypeInv
          <5> QED BY <4>1, <5>2, Numbers
        <4>3. \A k \in 1 .. tail : probeResults[k].item # current.item
          BY <4>1 DEF IInv, ResultsInv
        <4>4. ToSet(told) = {told[k] : k \in 1 .. tail}
          BY <4>1 DEF ToSet
        <4>5. current.item \notin ToSet(told)
          BY <4>1, <4>3, <4>4
        <4> QED BY <4>1, <4>2, <4>5
      <3> QED BY <2>1, <3>1, <3>2
    <2>3. Promise!Tell
      <3>1. PromiseEnd = "no" /\ PromiseEnd' = "no"
        BY <2>1
      <3>2. current.item \in asked \ Promise!ToSet(told)
        BY <2>2 DEF ToSet, Promise!ToSet
      <3> QED BY <2>1, <3>1, <3>2 DEF Promise!Tell
    <2> QED BY <2>3 DEF Promise!Next
  <1> QED BY <1>0, <1>1, <1>2, <1>3, <1>4, <1>5 DEF Next, Caller, Worker

\* Each plugin asked for is told of once, and all of them before it is over, with any
\* number of plugins and threads; probing throws only before it has asked for any, and
\* the host is ended by a bad number only while several are asked for: each step is one
\* of the promise or leaves what it is about (IFactory::probePlugins).
THEOREM PromiseNeverBroken ==
  ASSUME ~Interrupts
  PROVE  Spec => Promise!Init /\ [][Promise!Next]_PromiseVars
  <1>1. Init => Promise!Init
    BY DEF Init, Promise!Init, PromiseEnd, Finished
  <1>2. IInv /\ [Next]_vars => [Promise!Next]_PromiseVars
    BY StepKeepsPromise
  <1> QED BY <1>1, <1>2, Invariance, PTL DEF Spec
===============================================================================
