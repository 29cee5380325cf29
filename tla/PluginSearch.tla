---------------------------- MODULE PluginSearch ----------------------------
(***************************************************************************)
(* Searching and probing plugins, and the dictionary and cache file they   *)
(* fill.  Two hosts share the design: the SuperCollider plugin             *)
(* (sc/src/VSTPlugin.cpp: vst_search, vst_clear, vst_probe and the NRT     *)
(* thread that runs them) and the Pd external (pd/src/vstplugin~.cpp:      *)
(* search, search_stop, search_clear and the work queue).  The worker that *)
(* walks the directories is the same; what stops it differs: one flag for  *)
(* all searches in SuperCollider, a flag of its own for each in Pd.        *)
(*                                                                         *)
(* A session starts with reading the cache file and may end, or crash, at  *)
(* any moment, also in the middle of writing that file.  Between sessions  *)
(* modules are removed or installed ("disk").                              *)
(***************************************************************************)
EXTENDS PluginDictionary

CONSTANTS Hosts,        \* which programs to model: a subset of {"sc", "pd"}
          Contents,     \* module path -> the plugins in it, a sequence
          Directories,  \* the directories to search: sequences of module paths
          Batch,        \* PROBE_PROCESSES: probes that run at the same time
          Tears,        \* bound: the lengths at which writing the file may be cut off
          Requests,     \* requests beside searches: {"clear", "probe"} or less
          Beside,       \* whether Pd probes on its own thread while the worker's probes are under way
          MaxRequests,  \* bound: searches, clears and probes of a run
          MaxSessions,  \* bound: sessions
          MaxChanges    \* bound: changes of what is on disk

Modules == DOMAIN Contents
Dirs    == DOMAIN Directories

\* a directory holds a module once
ASSUME SearchAssumption ==
    /\ Hosts \subseteq {"sc", "pd"} /\ Tears \subseteq Nat
    /\ Directories \in Seq(Seq(Modules))
    /\ \A d \in Dirs : IsInjective(Directories[d])
    /\ Batch \in Nat \ {0} /\ Beside \in BOOLEAN
    /\ MaxRequests \in Nat /\ MaxSessions \in Nat /\ MaxChanges \in Nat

VARIABLES
  host,       \* which host this behaviour is about
  sessions,   \* sessions started
  requests,   \* requests made
  changes,    \* changes of the disk
  disk,       \* modules that IFactory::load can load
  file,       \* the cache file, a stream of tokens
  saved,      \* history: the dictionary that was last written, and
  torn,       \* history: whether only a part of it reached the file
  dict,       \* gPluginManager
  searching,  \* sc: gSearching; pd: the number of x_search_data, or 0
  starting,   \* sc: the command was sent, gSearching is not set yet
  cancelled,  \* pd: the searches whose "cancel" is set
  sync,       \* pd: the synchronous search that keeps the Pd thread: "save", "nosave" or "no"
  todo,       \* pd: the modules that search has still to look at
  queue,      \* commands for the worker thread
  worker,     \* the worker thread: what it does and how far it has come
  done        \* commands that went back to the realtime or Pd thread

pdThread == <<sync, todo>>
vars == <<host, sessions, requests, changes, disk, file, saved, torn, dict, searching, starting,
          cancelled, pdThread, queue, worker, done>>
outside == <<host, requests, changes, disk>>

Idle == [pc |-> "idle", cmd |-> <<>>, dir |-> 0, module |-> 0, futures |-> <<>>,
         found |-> {}, cut |-> FALSE, save |-> FALSE]
Off == [Idle EXCEPT !.pc = "off"]

Init == /\ host \in Hosts
        /\ sessions = 0 /\ requests = 0 /\ changes = 0
        /\ disk = Modules
        /\ file = <<>> /\ saved = clear /\ torn = FALSE
        /\ dict = clear
        /\ searching = 0 /\ starting = 0 /\ cancelled = {}
        /\ sync = "no" /\ todo = <<>>
        /\ queue = <<>> /\ done = <<>>
        /\ worker = Off

-----------------------------------------------------------------------------
(* Sessions and the disk.                                                  *)

\* PluginLoad, vstplugin_tilde_setup: readIniFile (an Error is only reported)
Boot == /\ worker.pc = "off" /\ sessions < MaxSessions
        /\ sessions' = sessions + 1
        /\ \E result \in {read(clear, file, disk)} :
               /\ dict' = result.dict
               /\ file' = result.file
               /\ saved' = IF result.file # file THEN result.dict ELSE saved
               /\ torn' = (torn /\ result.file = file)
               /\ worker' = IF result.crash THEN Off ELSE Idle
        /\ UNCHANGED <<searching, starting, cancelled, pdThread, queue, done, outside>>

\* the process ends; while it writes the file, only a part of it is there (the last
\* session need not end: nothing follows it)
Quit == /\ worker.pc # "off" /\ sessions < MaxSessions
        /\ worker' = Off
        /\ dict' = clear /\ searching' = 0 /\ starting' = 0 /\ cancelled' = {}
        /\ sync' = "no" /\ todo' = <<>>
        /\ queue' = <<>> /\ done' = <<>>
        /\ \/ UNCHANGED <<file, saved, torn>>
           \/ /\ worker.pc = "save" \/ (sync = "save" /\ todo = <<>>)
              /\ \E all \in {doWrite(dict)}, n \in Tears : n < Len(all) /\ file' = SubSeq(all, 1, n)
              /\ saved' = clear /\ torn' = TRUE
        /\ UNCHANGED <<sessions, outside>>

\* a module is removed or installed between two sessions
Change == /\ changes < MaxChanges /\ worker.pc = "off" /\ sessions > 0
          /\ changes' = changes + 1
          /\ \E m \in Modules : disk' = IF m \in disk THEN disk \ {m} ELSE disk \cup {m}
          /\ UNCHANGED <<host, sessions, requests, file, saved, torn, dict, searching, starting,
                         cancelled, pdThread, queue, worker, done>>

-----------------------------------------------------------------------------
(* Requests, on the realtime thread (sc) or the Pd thread (pd).            *)

\* the thread has nothing else to do
Running == worker.pc # "off" /\ starting = 0 /\ sync = "no"
NextId  == requests + 1

Push(op, save, parallel, path) ==
    /\ requests < MaxRequests
    /\ requests' = NextId
    /\ queue' = Append(queue, [op |-> op, id |-> NextId, save |-> save,
                               parallel |-> parallel, path |-> path])

\* gSearching is set when the command is already on its way
vst_search == /\ host = "sc" /\ Running /\ searching = 0
              /\ \E save, parallel \in BOOLEAN : Push("search", save, parallel, <<>>)
              /\ starting' = NextId
              /\ UNCHANGED <<host, sessions, changes, disk, file, saved, torn, dict, searching,
                             cancelled, pdThread, worker, done>>
SetSearching == /\ starting # 0
                /\ searching' = starting /\ starting' = 0
                /\ UNCHANGED <<sessions, file, saved, torn, dict, cancelled, pdThread, queue, worker,
                                done, outside>>

vst_search_stop == /\ host = "sc" /\ Running /\ searching # 0
                   /\ searching' = 0
                   /\ UNCHANGED <<sessions, file, saved, torn, dict, starting, cancelled, pdThread, queue,
                                  worker, done, outside>>

\* vst_clear and vst_probe: refused while searching; done by the NRT thread
vst_clear == /\ host = "sc" /\ Running /\ searching = 0 /\ "clear" \in Requests
             /\ \E remove \in BOOLEAN : Push("clear", remove, FALSE, <<>>)
             /\ UNCHANGED <<host, sessions, changes, disk, file, saved, torn, dict, searching, starting,
                            cancelled, pdThread, worker, done>>
vst_probe == /\ host = "sc" /\ Running /\ searching = 0 /\ "probe" \in Requests
             /\ \E m \in Modules : Push("probe", FALSE, FALSE, m)
             /\ UNCHANGED <<host, sessions, changes, disk, file, saved, torn, dict, searching, starting,
                            cancelled, pdThread, worker, done>>

\* the "search -a" message; a search is always parallel
vstplugin_search ==
    /\ host = "pd" /\ Running /\ searching = 0
    /\ \E save \in BOOLEAN : Push("search", save, TRUE, <<>>)
    /\ searching' = NextId
    /\ UNCHANGED <<host, sessions, changes, disk, file, saved, torn, dict, starting, cancelled,
                   pdThread, worker, done>>
vstplugin_search_stop ==
    /\ host = "pd" /\ Running /\ searching # 0
    /\ cancelled' = cancelled \cup {searching} /\ searching' = 0
    /\ UNCHANGED <<sessions, file, saved, torn, dict, starting, pdThread, queue, worker, done, outside>>

\* search_clear runs at once, whatever the worker does
vstplugin_search_clear ==
    /\ host = "pd" /\ Running /\ "clear" \in Requests /\ requests < MaxRequests
    /\ requests' = NextId
    /\ dict' = clear
    /\ \E remove \in BOOLEAN : /\ file' = IF remove THEN <<>> ELSE file
                               /\ saved' = IF remove THEN clear ELSE saved
                               /\ torn' = (torn /\ ~remove)
    /\ UNCHANGED <<host, sessions, changes, disk, searching, starting, cancelled, pdThread, queue,
                   worker, done>>
\* opening a plugin by its path queries, and probes, it on the worker thread
vstplugin_open == /\ host = "pd" /\ Running /\ "probe" \in Requests
                  /\ \E m \in Modules : Push("probe", FALSE, FALSE, m)
                  /\ UNCHANGED <<host, sessions, changes, disk, file, saved, torn, dict, searching,
                                 starting, cancelled, pdThread, worker, done>>

-----------------------------------------------------------------------------
(* Loading and probing a module.                                           *)

\* "plugin name" or "plugin name.vst3"
makeKey(plugin) ==
    IF plugin.path[Len(plugin.path)] = ".vst3" THEN plugin.name \o <<".vst3">> ELSE plugin.name

\* a faulty variant: a module that is known is loaded once more
LoadedAgain(d, path) == ~isException(d, path) /\ path \in disk

\* loadFactory: refused for a black-listed module; one that does not load is black-listed
Loaded(d, path) == ~findFactory(d, path) /\ ~isException(d, path) /\ path \in disk
AfterLoad(d, path) ==
    IF findFactory(d, path) \/ isException(d, path) \/ path \in disk THEN d
    ELSE addException(d, path)

\* what a probe may report: the plugins that work, in order, or none
Outcomes(path) ==
    {SelectSeq(Contents[path], LAMBDA p : p \in good) : good \in SUBSET ToSet(Contents[path])}

\* addFactory, with the path as a key when the module has one plugin
AddKeys(keys, path, plugins) ==
    FoldLeft(LAMBDA ks, p : addPlugin(ks, makeKey(p), p),
             IF Len(plugins) = 1 THEN addPlugin(keys, path, plugins[1]) ELSE keys, plugins)
AddFactory(d, path, plugins) ==
    [addFactory(d, path, plugins) EXCEPT !.plugins = AddKeys(@, path, plugins)]

\* factory->valid(), else the module is black-listed
AfterProbe(d, path, plugins) ==
    IF plugins # <<>> THEN AddFactory(d, path, plugins) ELSE addException(d, path)

-----------------------------------------------------------------------------
(* Probing on the Pd thread: a search without "-a", an open that is not    *)
(* asynchronous, or a query of a plugin's information.  The code does not  *)
(* keep such a probe apart from those the worker has started: loadFactory  *)
(* looks at the dictionary before both.  "Beside" says whether that        *)
(* happens.  A probe of the Pd thread ends in the call that began it and   *)
(* is one step, so that without "Beside" no probes of the two threads      *)
(* overlap.                                                                *)

Alone == Beside \/ worker.futures = <<>>
Asked == requests < MaxRequests /\ requests' = NextId

\* a module is probed, or refused
ProbeNow(path) ==
    IF Loaded(dict, path)
    THEN \E plugins \in Outcomes(path) : dict' = AfterProbe(dict, path, plugins)
    ELSE dict' = AfterLoad(dict, path)

\* queryPlugin with the path of a module: the path may be a key; a module that is known
\* under no such key (it has several plugins) is refused, and so is a black-listed one
queryPlugin(path) == IF findPlugin(dict, path) THEN UNCHANGED dict ELSE ProbeNow(path)

vstplugin_query ==
    /\ host = "pd" /\ Running /\ Alone /\ "probe" \in Requests /\ Asked
    /\ \E path \in Modules : queryPlugin(path)
    /\ UNCHANGED <<host, sessions, changes, disk, file, saved, torn, searching, starting, cancelled,
                   pdThread, queue, worker, done>>

\* the whole search is one call; a module that is known is only posted
vstplugin_search_now ==
    /\ host = "pd" /\ Running /\ searching = 0 /\ Asked
    /\ sync' \in {"save", "nosave"} /\ todo' = FlattenSeq(Directories)
    /\ UNCHANGED <<host, sessions, changes, disk, file, saved, torn, dict, searching, starting,
                   cancelled, queue, worker, done>>
SearchNow ==
    /\ sync # "no" /\ todo # <<>> /\ Alone
    /\ todo' = Tail(todo)
    /\ IF findFactory(dict, Head(todo)) THEN UNCHANGED dict ELSE ProbeNow(Head(todo))
    /\ UNCHANGED <<sessions, file, saved, torn, searching, starting, cancelled, sync, queue, worker,
                   done, outside>>
SearchedNow ==
    /\ sync # "no" /\ todo = <<>>
    /\ sync' = "no"
    /\ \/ sync = "save" /\ file' = doWrite(dict) /\ saved' = dict /\ torn' = FALSE
       \/ sync = "nosave" /\ UNCHANGED <<file, saved, torn>>
    /\ UNCHANGED <<sessions, dict, searching, starting, cancelled, todo, queue, worker, done, outside>>

-----------------------------------------------------------------------------
(* The worker thread.                                                      *)

Working == UNCHANGED <<sessions, searching, starting, cancelled, pdThread, queue, outside>>

\* what tells a search to stop: a flag that is down, or a cancelled request
Stopped(cmd) == IF host = "sc" THEN searching = 0 ELSE cmd.id \in cancelled

Take == /\ worker.pc = "idle" /\ queue # <<>>
        /\ LET cmd == Head(queue)
           IN  worker' = [Idle EXCEPT !.pc = IF cmd.op = "search" THEN "dir" ELSE cmd.op,
                                      !.cmd = cmd, !.dir = 1, !.module = 1, !.save = cmd.save]
        /\ queue' = Tail(queue)
        /\ UNCHANGED <<sessions, file, saved, torn, dict, searching, starting, cancelled, pdThread,
                       done, outside>>

\* where a search goes when it has walked all directories
Walked(w) == [w EXCEPT !.pc = IF w.save THEN "save" ELSE "answer"]

\* a faulty variant: what is left of a batch is forgotten
DueFull(w, full) == w.futures # <<>> /\ (full \/ Len(w.futures) >= Batch)

\* after a callback of vst::search: a full batch of probes is collected, and at the end
\* of the directory what is left of it
Due(w, full) ==
    w.futures # <<>> /\ (full \/ Len(w.futures) >= Batch \/ w.module > Len(Directories[w.dir]))
Resume(w, full) == IF Due(w, full) THEN [w EXCEPT !.pc = "flush"]
                   ELSE IF w.module > Len(Directories[w.dir])
                   THEN [w EXCEPT !.pc = "dir", !.dir = @ + 1]
                   ELSE [w EXCEPT !.pc = "module"]
NextModule(w, full) == Resume([w EXCEPT !.module = @ + 1], full)

\* cmdSearch, vstplugin_search_do: before each directory the flag is looked at
NextDirectory ==
    /\ worker.pc = "dir"
    /\ worker' = IF worker.dir > Len(Directories) THEN Walked(worker)
                 ELSE IF Stopped(worker.cmd)
                 THEN Walked([worker EXCEPT !.save = FALSE, !.cut = TRUE])
                 ELSE Resume([worker EXCEPT !.module = 1], FALSE)
    /\ UNCHANGED <<file, saved, torn, dict, done>> /\ Working

File == Directories[worker.dir][worker.module]
Names(plugins) == {<<plugins[i].path, plugins[i].name>> : i \in DOMAIN plugins}
Found(w, plugins) == [w EXCEPT !.found = @ \cup Names(plugins)]

\* the callback of vst::search, for the next module
Skip == /\ worker.pc = "module" /\ Stopped(worker.cmd)
        /\ worker' = NextModule([worker EXCEPT !.cut = TRUE], FALSE)
        /\ UNCHANGED <<file, saved, torn, dict, done>> /\ Working

Known == /\ worker.pc = "module" /\ ~Stopped(worker.cmd) /\ findFactory(dict, File)
         /\ worker' = NextModule(Found(worker, dict.factories[File]), FALSE)
         /\ UNCHANGED <<file, saved, torn, dict, done>> /\ Working

\* a serial search probes at once
ProbeSerial ==
    /\ worker.pc = "module" /\ ~Stopped(worker.cmd) /\ ~findFactory(dict, File)
    /\ ~worker.cmd.parallel
    /\ \/ /\ Loaded(dict, File)
          /\ \E plugins \in Outcomes(File) :
                /\ dict' = AfterProbe(dict, File, plugins)
                /\ worker' = NextModule(Found(worker, plugins), FALSE)
       \/ /\ ~Loaded(dict, File)
          /\ dict' = AfterLoad(dict, File)
          /\ worker' = NextModule(worker, FALSE)
    /\ UNCHANGED <<file, saved, torn, done>> /\ Working

\* a parallel search starts a probe, whose result is collected later; a module that is
\* not loaded leaves an empty future, which takes a place in the batch (the empty ones
\* are not counted here: any of them may be the one that fills it)
ProbeParallel ==
    /\ worker.pc = "module" /\ ~Stopped(worker.cmd) /\ ~findFactory(dict, File)
    /\ worker.cmd.parallel
    /\ dict' = AfterLoad(dict, File)
    /\ \/ /\ Loaded(dict, File)
          /\ worker' = NextModule([worker EXCEPT !.futures = Append(@, File)], FALSE)
       \/ /\ ~Loaded(dict, File)
          /\ \E full \in BOOLEAN : worker' = NextModule(worker, full)
    /\ UNCHANGED <<file, saved, torn, done>> /\ Working

\* processFutures: one after the other, in the order they were started
Collected(w, rest) == IF rest # <<>> THEN [w EXCEPT !.futures = rest]
                      ELSE Resume([w EXCEPT !.futures = rest], FALSE)
ProcessFuture ==
    /\ worker.pc = "flush"
    /\ \E plugins \in Outcomes(Head(worker.futures)) :
          /\ dict' = AfterProbe(dict, Head(worker.futures), plugins)
          /\ worker' = Collected(Found(worker, plugins), Tail(worker.futures))
    /\ UNCHANGED <<file, saved, torn, done>> /\ Working

\* writeIniFile; a Pd search looks at its flag once more
MaySave == host = "pd" => ~Stopped(worker.cmd)
Save == /\ worker.pc = "save"
        /\ \/ MaySave /\ file' = doWrite(dict) /\ saved' = dict /\ torn' = FALSE
           \/ ~MaySave /\ UNCHANGED <<file, saved, torn>>
        /\ worker' = [worker EXCEPT !.pc = "answer"]
        /\ UNCHANGED <<dict, done>> /\ Working

\* a faulty variant: a search without a result has no last stage
AnswerIfAny == /\ worker.pc = "answer"
               /\ done' = IF worker.found = {} THEN done ELSE Append(done, worker.cmd)
               /\ worker' = Idle
               /\ UNCHANGED <<file, saved, torn, dict>> /\ Working

\* the result goes back to the thread that asked
Answer == /\ worker.pc = "answer"
          /\ done' = Append(done, worker.cmd)
          /\ worker' = Idle
          /\ UNCHANGED <<file, saved, torn, dict>> /\ Working

\* the NRT part of vst_clear: the cache file first, then the dictionary
Clear == /\ worker.pc = "clear"
         /\ dict' = clear
         /\ file' = IF worker.save THEN <<>> ELSE file
         /\ saved' = IF worker.save THEN clear ELSE saved
         /\ torn' = (torn /\ ~worker.save)
         /\ worker' = Idle
         /\ UNCHANGED done /\ Working

\* an asynchronous open queries the plugin in its second stage
Query == /\ worker.pc = "probe"
         /\ queryPlugin(worker.cmd.path)
         /\ worker' = [worker EXCEPT !.pc = "answer"]
         /\ UNCHANGED <<file, saved, torn, done>> /\ Working

-----------------------------------------------------------------------------
(* The last stage, on the thread that asked.                               *)

\* cmdSearchDone takes the flag down; cmdProbeDone and the Pd open do not touch it
SearchDone ==
    /\ done # <<>> /\ starting = 0 /\ sync = "no"
    /\ done' = Tail(done)
    /\ LET cmd == Head(done)
       IN  searching' = IF cmd.op = "search" /\ (host = "sc" \/ cmd.id \notin cancelled)
                        THEN 0 ELSE searching
    /\ UNCHANGED <<sessions, file, saved, torn, dict, starting, cancelled, pdThread, queue, worker,
                   outside>>

-----------------------------------------------------------------------------
Worker == \/ Take \/ NextDirectory \/ Skip \/ Known \/ ProbeSerial \/ ProbeParallel
          \/ ProcessFuture \/ Save \/ Answer \/ Clear \/ Query
Next == \/ Boot \/ Quit \/ Change
        \/ vst_search \/ SetSearching \/ vst_search_stop \/ vst_clear \/ vst_probe
        \/ vstplugin_search \/ vstplugin_search_stop \/ vstplugin_search_clear \/ vstplugin_open
        \/ vstplugin_query \/ vstplugin_search_now \/ SearchNow \/ SearchedNow
        \/ Worker \/ SearchDone

\* The threads run; nobody has to ask, to stop or to quit.  The first conjunct is
\* WF_vars(Worker) with its two parts written as predicates of the worker's state, which
\* are far cheaper to evaluate.
CanWork   == worker.pc # "off" /\ (worker.pc # "idle" \/ queue # <<>>)
HasWorked == CanWork /\ worker'.pc # "off" /\ worker' # worker
Fairness == /\ []<>~CanWork \/ []<><<HasWorked>>_vars
            /\ WF_vars(SetSearching) /\ WF_vars(SearchDone) /\ WF_vars(SearchNow \/ SearchedNow)
Spec == Init /\ [][Next]_vars /\ Fairness

-----------------------------------------------------------------------------
(* Properties.                                                             *)

\* A module is never both known and black-listed: a search would report its plugins while
\* opening it by its path is refused (loadFactory, addException).  Not so with Beside: of
\* two probes of one module at once the first may fail and the second not.
KnownOrIgnored == DOMAIN dict.factories \cap dict.exceptions = {}

\* The end of an entry, its keys and its lists agree between writing and reading: a
\* session that starts from a cache file that was written completely knows the plugins
\* and their keys, and the black list, of the session that wrote it, but for the plugins
\* of modules that are gone.
Restored(d) ==
    LET there == {key \in DOMAIN d.plugins : d.plugins[key].path \in disk}
    IN  /\ DOMAIN dict'.plugins = there
        /\ \A key \in there : dict'.plugins[key] = Carried(d.plugins[key])
        /\ dict'.exceptions = d.exceptions
CacheRestores == [][Boot /\ ~torn => Restored(saved)]_vars

\* A search that never saw its flag down leaves no module of its directories undecided and
\* answers with all plugins that are known in them, whether they were known before or
\* probed alone or in a batch (searchPlugins, processFutures).
Walkable == UNION {ToSet(Directories[d]) : d \in Dirs}
SearchComplete ==
    (host = "sc" /\ worker.pc = "answer" /\ worker.cmd.op = "search" /\ ~worker.cut) =>
        /\ Walkable \subseteq DOMAIN dict.factories \cup dict.exceptions
        /\ worker.found = UNION {Names(dict.factories[m]) : m \in DOMAIN dict.factories \cap Walkable}

\* A search ends: the flag does not stay up, whatever was stopped, started again or cleared
\* in between, so that another search is possible (cmdSearchDone, vstplugin_search_done).
SearchEnds == (searching # 0 \/ starting # 0) ~> (searching = 0)
=============================================================================
