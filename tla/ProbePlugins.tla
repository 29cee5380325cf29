----------------------------- MODULE ProbePlugins -----------------------------
(***************************************************************************)
(* Probing a module (vst/Plugin.cpp: IFactory::probePlugin, probePlugins;  *)
(* VST2Factory::probeAsync, VST3Factory::probeAsync; vst/probe.cpp).  Each *)
(* plugin is probed by a process of its own, which leaves a temporary file *)
(* and an exit code.  A module that holds several plugins, a VST3 module   *)
(* or a VST2 shell, is probed by worker threads; the thread that called    *)
(* probe() collects their results as they come.                            *)
(*                                                                         *)
(* Nobody keeps the mutex from one step to the next: a worker that has     *)
(* pushed a result takes the next plugin before it lets go, the collector  *)
(* copies a result, or begins to wait.  The wait has no predicate.         *)
(*                                                                         *)
(* PluginInfo::deserialize throws when it cannot parse a file: an Error,   *)
(* or what std::stol throws, which the workers do not catch.               *)
(***************************************************************************)
EXTENDS Naturals, SequencesExt

CONSTANTS N,           \* plugins in the module
          Workers,     \* worker threads: at most PROBE_THREADS
          None,
          Interrupts   \* whether waitpid returns before the process has ended

ASSUME ProbeAssumption == N \in Nat \ {0} /\ Interrupts \in BOOLEAN

Module == 0            \* a VST2 module itself, probed without a name
Items  == 0 .. N

VARIABLES
  kind,          \* "vst2" or "vst3"
  proc,          \* the processes: "none", "running", or how they ended
  file,          \* the temporary files: "none", the "info", an error "code", or what
                 \*   deserialize refuses, as "malformed" or for a "badnumber"
  collector,     \* where the caller of probe() is
  current,       \* the result it is about to report
  worker,        \* where the worker threads are,
  task,          \*   the plugin each probes,
  result,        \*   and its result
  head, tail,    \* plugins taken by workers, results taken by the collector
  probeResults,
  plugins,       \* what probePlugins returns, plugins_
  asked, told    \* history: the plugins probed, and those the callback was told of

shared == <<head, probeResults>>
vars == <<kind, proc, file, collector, current, worker, task, result, head, tail, probeResults,
          plugins, asked, told>>

NoResult == [item |-> None, error |-> "none"]

Init == /\ kind \in {"vst2", "vst3"}
        /\ proc = [i \in Items |-> "none"] /\ file = [i \in Items |-> "none"]
        /\ collector = "start" /\ current = NoResult
        /\ worker = [w \in Workers |-> "new"]
        /\ task = [w \in Workers |-> None] /\ result = [w \in Workers |-> NoResult]
        /\ head = 0 /\ tail = 0 /\ probeResults = <<>>
        /\ plugins = {} /\ asked = {} /\ told = <<>>

-----------------------------------------------------------------------------
(* Processes: probe.cpp, and what probePlugin makes of how they end.       *)

Fork(i) == proc[i] = "none" /\ proc' = [proc EXCEPT ![i] = "running"] /\ UNCHANGED file

\* probe.cpp ends well with the info, or without if the file cannot be written; what it
\* writes may be cut (a full disk), or not what deserialize reads (a line break or a comma
\* in a name).  An Error is written to the file, but the plugin may also end the process
\* before or after that, with any code
Ends == {<<"info", "good">>, <<"none", "silent">>} \cup ({"malformed", "badnumber"} \X {"garbled"})
        \cup ({"info", "code", "none"} \X {"failure", "crash"})
Process(i) == /\ proc[i] = "running"
              /\ \E e \in Ends : file' = [file EXCEPT ![i] = e[1]] /\ proc' = [proc EXCEPT ![i] = e[2]]
              /\ UNCHANGED <<kind, collector, current, worker, task, result, head, tail, probeResults,
                             plugins, asked, told>>

\* the parent waits; an interrupted waitpid leaves status at 0
Ended(i)  == proc[i] \notin {"none", "running"} \/ (Interrupts /\ proc[i] = "running")
ExitOf(i) == IF proc[i] \in {"running", "good", "silent", "garbled"} THEN "success" ELSE proc[i]

\* deserialize throws; what std::stol throws for the number of a parameter or of a shell
\* plugin is not an Error
Throws(i)   == ExitOf(i) = "success" /\ file[i] \in {"malformed", "badnumber"}
NotError(i) == Throws(i) /\ file[i] = "badnumber"

\* a faulty variant: what is in the file decides
ErrorByFile(exit, content) == IF content = "info" THEN "none" ELSE "system"

\* no file is a system error, unless the process crashed; with a failure, the code in the
\* file counts, and info where a code should be is "unknown"; "malformed" is the Error
\* of deserialize
ErrorOf(exit, content) ==
    IF exit = "crash" THEN "crash"
    ELSE IF content = "none" THEN "system"
    ELSE IF exit = "success" THEN IF content = "info" THEN "none" ELSE "malformed"
    ELSE IF content = "code" THEN "reported" ELSE "unknown"

\* TmpFile removes the file that was read, also when an exception passes
Gathered(i) == /\ file' = [file EXCEPT ![i] = "none"]
               /\ UNCHANGED proc
ResultOf(i) == [item |-> i, error |-> ErrorOf(ExitOf(i), file[i])]

-----------------------------------------------------------------------------
(* The caller: probeAsync and the future it returns.                       *)

Collector(from, to) == collector = from /\ collector' = to

\* vst2: the module itself is probed first, like the only plugin of a vst3 module; if
\* that cannot begin, probeAsync throws
StartOne ==  /\ (kind = "vst2" \/ N = 1) /\ collector = "start"
             /\ \/ Fork(Module) /\ collector' = "module"
                \/ collector' = "failed" /\ UNCHANGED <<proc, file>>
             /\ UNCHANGED <<kind, current, worker, task, result, shared, tail, plugins, asked, told>>

\* a vst3 factory knows its plugins: with several, the threads begin at once
StartThreads == /\ worker' = [w \in Workers |-> "take"]
                /\ asked' = 1 .. N
StartVST3 == /\ kind = "vst3" /\ N > 1 /\ Collector("start", "loop")
             /\ StartThreads
             /\ UNCHANGED <<kind, proc, file, current, task, result, shared, tail, plugins, told>>

\* a shell plugin is not reported itself; its plugins are probed by the threads
Shell == /\ Collector("module", "loop") /\ kind = "vst2" /\ N > 1
         /\ Ended(Module) /\ ~Throws(Module) /\ ErrorOf(ExitOf(Module), file[Module]) = "none"
         /\ Gathered(Module)
         /\ StartThreads
         /\ UNCHANGED <<kind, current, task, result, shared, tail, plugins, told>>

Single == /\ Collector("module", "single") /\ Ended(Module) /\ ~Throws(Module)
          /\ Gathered(Module)
          /\ current' = ResultOf(Module)
          /\ asked' = {Module}
          /\ UNCHANGED <<kind, worker, task, result, shared, tail, plugins, told>>

\* nothing catches what deserialize throws here: the future throws, without a callback
ModuleThrows == /\ Collector("module", "failed") /\ Ended(Module) /\ Throws(Module)
                /\ Gathered(Module)
                /\ UNCHANGED <<kind, current, worker, task, result, shared, tail, plugins, asked, told>>

\* valid results are kept, the callback is called with each
Report == /\ plugins' = IF current.error = "none" THEN plugins \cup {current.item} ELSE plugins
          /\ told' = Append(told, current.item)
          /\ UNCHANGED <<kind, proc, file, current, worker, task, result, shared, asked>>

ReportSingle == Collector("single", "join") /\ Report /\ UNCHANGED tail

-----------------------------------------------------------------------------
(* probePlugins: the collector.                                            *)

\* no result to report: wait for one, unless all have come
WaitOrEnd == collector' = IF Len(probeResults) < N THEN "wait" ELSE "join"

\* with the mutex: copy the next result, or begin to wait
Collect == /\ collector \in {"loop", "woken"}
           /\ IF tail < Len(probeResults)
              THEN current' = probeResults[tail + 1] /\ collector' = "report"
              ELSE WaitOrEnd /\ UNCHANGED current
           /\ UNCHANGED <<kind, proc, file, worker, task, result, shared, tail, plugins, asked, told>>

\* without it
ReportNext == Collector("report", "loop") /\ Report /\ tail' = tail + 1

\* the threads, if there are any, are joined, and the future returns
Join == /\ Collector("join", "over") /\ \A w \in Workers : worker[w] \in {"new", "end"}
        /\ UNCHANGED <<kind, proc, file, current, worker, task, result, shared, tail, plugins, asked, told>>

-----------------------------------------------------------------------------
(* probePlugins: the worker threads.                                       *)

\* a faulty variant: off by one, the last plugin is not probed
TakeButLast(w) == IF head < N - 1 THEN /\ task' = [task EXCEPT ![w] = head + 1]
                                       /\ worker' = [worker EXCEPT ![w] = "probe"]
                                       /\ head' = head + 1
                  ELSE /\ worker' = [worker EXCEPT ![w] = "end"] /\ UNCHANGED <<task, head>>

\* with the mutex: take the next plugin, or end
Take(w) == IF head < N THEN /\ task' = [task EXCEPT ![w] = head + 1]
                            /\ worker' = [worker EXCEPT ![w] = "probe"]
                            /\ head' = head + 1
                       ELSE /\ worker' = [worker EXCEPT ![w] = "end"] /\ UNCHANGED <<task, head>>

TakeFirst(w) == /\ worker[w] = "take" /\ Take(w)
                /\ UNCHANGED <<kind, proc, file, collector, current, result, tail, probeResults, plugins,
                               asked, told>>

\* the process is started, or cannot be: an Error, which the worker catches
StartProbe(w) ==
    /\ worker[w] = "probe"
    /\ \/ /\ Fork(task[w])
          /\ worker' = [worker EXCEPT ![w] = "wait"] /\ UNCHANGED result
       \/ /\ worker' = [worker EXCEPT ![w] = "push"]
          /\ result' = [result EXCEPT ![w] = [item |-> task[w], error |-> "system"]]
          /\ UNCHANGED <<proc, file>>
    /\ UNCHANGED <<kind, collector, current, task, shared, tail, plugins, asked, told>>

\* an Error of deserialize is caught too
EndProbe(w) ==
    /\ worker[w] = "wait" /\ Ended(task[w]) /\ ~NotError(task[w])
    /\ Gathered(task[w])
    /\ result' = [result EXCEPT ![w] = ResultOf(task[w])]
    /\ worker' = [worker EXCEPT ![w] = "push"]
    /\ UNCHANGED <<kind, collector, current, task, shared, tail, plugins, asked, told>>

\* what is not an Error leaves the thread: std::terminate, the host ends with its threads,
\* the other processes go on
Terminate(w) ==
    /\ worker[w] = "wait" /\ Ended(task[w]) /\ NotError(task[w])
    /\ collector' = "terminated" /\ worker' = [v \in Workers |-> "terminated"]
    /\ UNCHANGED <<kind, proc, file, current, task, result, shared, tail, plugins, asked, told>>

\* with the mutex: store the result, wake the collector, go on
Push(w) == /\ worker[w] = "push"
           /\ probeResults' = Append(probeResults, result[w])
           /\ collector' = IF collector = "wait" THEN "woken" ELSE collector
           /\ Take(w)
           /\ UNCHANGED <<kind, proc, file, current, result, tail, plugins, asked, told>>

Caller == \/ StartOne \/ StartVST3 \/ Shell \/ Single \/ ModuleThrows \/ ReportSingle
          \/ Collect \/ ReportNext \/ Join
Worker(w) == TakeFirst(w) \/ StartProbe(w) \/ EndProbe(w) \/ Terminate(w) \/ Push(w)

Next == Caller \/ (\E w \in Workers : Worker(w)) \/ (\E i \in Items : Process(i))

\* threads go on; a process ends (nothing limits how long it may take)
Spec == /\ Init /\ [][Next]_vars
        /\ WF_vars(Caller)
        /\ \A w \in Workers : WF_vars(Worker(w))
        /\ \A i \in Items : WF_vars(Process(i))

-----------------------------------------------------------------------------
(* Properties.                                                             *)

Promise == INSTANCE ProbingPromise WITH
    end <- IF collector \in {"over", "failed", "terminated"} THEN collector ELSE "no"

\* What the callers of probe() can rely on, with processes that end in any way and
\* leave anything: each plugin of the module is reported exactly once, unless the
\* module's own file makes probe() throw, or one with a bad number ends the host while
\* the plugins of the module are probed; and probing comes to an end
\* (IFactory::probePlugins, probePlugin, VST2Factory::probeAsync, VST3Factory::probeAsync).
PromiseKept == Promise!Spec

\* When probing is over or has thrown, the factory has exactly the plugins whose
\* processes ended well and left an info that can be read, although a process may have
\* written it and crashed later; and neither temporary files nor threads are left.
Outcome == collector \in {"over", "failed"} =>
    /\ plugins = {i \in asked : proc[i] = "good"}
    /\ \A i \in Items : file[i] = "none" /\ proc[i] # "running"
    /\ \A w \in Workers : worker[w] \in {"new", "end"}
=============================================================================
