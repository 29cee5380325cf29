# vstplugin in TLA+

TLA+ models of `vstplugin`, which runs VST plugins inside SuperCollider
(a server UGen with asynchronous commands) and Pure Data (an object with a
worker thread).  TLC checks them on small instances, TLAPS proves the most
important properties for all instances.  Line numbers are those of this
repository; `PROJECT.json` maps each definition to the lines it models.

## 1. The system

| Part | State | Operations | What makes it hard |
|---|---|---|---|
| **SC UGen and delegate** (`sc/src/VSTPlugin.cpp/.h`) | `plugin_`, `editor_`, `isLoading_`, `suspended_`, `mutex_`, `owner_`, reference count; the command data in flight | unit commands (`/open`, `/close`, `/reset`, `/program_read` ...), `next()`, stages 2-4 and cleanup of commands, `parameterAutomated` | three threads; the plugin is used long after it was checked; the UGen is freed at any time; allocation fails |
| **SC plugin search** (same file, 220-470, 2113-2330) | `gSearching`, `gPluginManager` | `/vst_search`, `stop`, `clear`, `probe` | one flag for all searches, set after the search was started; stop and restart; modules probed in batches |
| **Plugin instances** (`vst/Interface.h`, `VST2Plugin`, `VST3Plugin`) | the wrapped plugin, parameter caches and queues | creation, `process`, parameters, programs, destruction | called from RT, NRT and UI threads; thread affinity of creation and destruction |
| **Lock-free FIFO** (`vst/Utility.h`) | `readHead_`, `writeHead_`, `data_` | `push`, `pop`, `clear` | two threads without a lock |
| **UI event loops** (`vst/Window*.cpp`) | message queue, `ready_`, list of plugins | `create`, `destroy`, `postMessage`, update timer | a synchronous call between threads; Win32 has no lock around it |
| **Pd work queue** (`pd/src/vstplugin~.cpp` 60-200) | three queues, worker thread, `w_counter` | `push`, worker loop, `cancel`, `poll` | overflow queue, wait without a predicate, walking over a ring that another thread uses |
| **Pd object** (same file) | `x_plugin`, `x_command`, `x_async`, `x_uithread`, `x_mutex` | `open`, `close`, asynchronous commands, `perform`, destructor | results that arrive after the object changed or went |
| **Pd editor events** (same file, 743-830) | event vectors, `e_needclock`, clock | `post_event`, `tick` | UI thread, Pd lock, DSP on or off |
| **Pd search** (same file, 974-1065) | `x_search_data`, `gFileLock` | search, stop | cancellation, the object freed meanwhile |
| **Probing** (`vst/Plugin.cpp` 1235-1518, `probe.cpp`) | futures, worker threads, results | one process per plugin and sub-plugin | crashes of a subprocess, a wait without a predicate, what a temporary file and an exit code say together |
| **Plugin dictionary and cache** (`vst/PluginManager.h`, `vst/Plugin.cpp` 1857-2110) | factories, plugins by key, exceptions | `add...`, `find...`, `read`, `write` | file from an older version, or written half |
| **Presets** (`vst/Plugin.cpp` 1531-1812) | list of presets | scan, sort, add, rename, remove | order on which later calls rely |
| **File search, paths** | none | directory walk, default paths | I/O only |
| **sclang classes** (`sc/classes`) | what the client believes about the UGen | sending commands, tracking replies | replies arrive late |
| **Pd patches** | none | help, browsers | none |

How they interact.  A SuperCollider client sends unit commands; the delegate
answers them on the audio thread or sends a command through the server's two
FIFOs.  A command owns a reference to the delegate; so does a call from the
plugin's window.  Plugins with an editor are created and destroyed by a
synchronous call into the UI event loop.  Pd messages run on the Pd thread;
asynchronous ones are items of the work queue, whose callbacks the Pd thread
polls.  Both hosts keep the plugins they found in the dictionary, which search
and probing fill.

What makes each part correct, in one line each:

* delegate: whatever the order of commands, process calls, window events and the
  end of the UGen, nobody calls a plugin that is not there, nobody shares it
  with a suspending command, each plugin is released once, on the right thread,
  and every open and every suspension ends;
* FIFO: it is a queue, and its two threads never meet at an element;
* work queue and Pd object: no command is lost or run twice, queues keep their
  order, commands find the plugin they were issued for, every plugin has one
  owner;
* event loop: a create or destroy that returns has happened, and it returns;
* UGen: automated parameters follow their bus, bypassing an input makes no jumps, commands
  that came before the constructor run in the synth they were sent to;
* Pd editor: what a plugin reports reaches the outlet, with DSP on or off, and
  nobody waits for ever;
* search: a module is never known and black-listed at once, a search that was not
  stopped is complete, every search ends;
* probing: every plugin is reported once and the factory has those that were
  probed well, however the processes end, unless a file that cannot be parsed makes
  probing throw;
* dictionary and cache file: what a session wrote is what the next one reads;
* presets: the list and the files agree, and editors show what is loaded.

The hazards, each at its line and with the properties that watch it, are listed
in `PROJECT.json`.

## 2. The modules

Abstract specifications, which the others are shown to implement:

| Module | Says |
|---|---|
| `PluginLifecycle` | what a host owes to a plugin: created once, entered only while open, destroyed at most once and with nobody inside. `state`: not created, open, gone; `users`: the threads inside |
| `BoundedFifo` | a queue of bounded capacity between one writer and one reader. `items`; `offered`: the value of the push under way; `received`: what the last pop returned |
| `ProbingPromise` | what probing owes to its caller: it asks for some plugins, tells of each once, then it is over; or it throws before it has asked. While it asks for several, the host may end. `asked`, `told`, `end` |

State machines:

| Module | Models | State and code |
|---|---|---|
| `VSTPluginDelegate` | SC UGen and delegate: commands and plugin | `dlg`: the members; `mutex`: `mutex_`; `cmd`: the `CmdData` in flight with their stage; `toNrt`, `toRt`: the server's FIFOs; `rt`, `nrt`, `ui`: where each thread is; `ptr`: the plugin a thread is inside of; `life`: what became of each plugin; `reaped`: who ran the destructor |
| `VSTPluginUGen` | SC UGen on the RT thread: commands queued before the constructor, parameter mapping, automation, bypass | `mem`: `initialized_`, `queued_`, `unitCmdQueue_` in memory that the next synth may get; `pm`: `paramMapping_`, the list of `Mapping` structs and its free cells; `auto`: `paramState_`, and each parameter as the plugin has it; `bypass`, `pb`, `block`: the bypass input, the plugin's state of it, and the gains of the last block |
| `LockfreeFifo` | `LockfreeFifo` of `Utility.h` | `readHead`, `writeHead`, `data`; `readSeen`, `writeSeen`: what each thread has last seen of the other's index; where each is in its call, with its locals |
| `WorkQueue` | Pd's `t_workqueue` | `nrt`, `nrt2`, `rt`: the three queues; `counter`; `worker`: where the worker is in its loop; `item`: what it performs; `source`: the loop it took it from |
| `PdObject` | one `vstplugin~` on top of `WorkQueue` | `x`: `x_plugin`, `x_command`, `x_async`, `x_uithread`; `mutex`: `x_mutex`; `pd`: what the Pd thread does; `command`: the data of the items; `made`, `ended`: the threads that created and destroyed each plugin; `target`: history, the plugin a command was sent for |
| `UIEventLoop` | `EventLoop` of `WindowX11.cpp` and `WindowWin32.cpp` | `lock_`, `ready_`, `data`; `caller`: where each thread is in `create` or `destroy`; `events`; `plugins`: the instances with their windows |
| `PdEditor` | `t_vsteditor` of several objects, on top of `UIEventLoop` | `e_events` (the three event vectors), `e_mutex`, `e_clock`, `e_needclock`; `listener`; `work`, `results`: opens and closes under way; `dsp` |
| `PluginSearch` | search, stop, clear and probe of both hosts | `dict`: `gPluginManager`; `searching`: `gSearching`, or the `x_search_data` of Pd; `starting`, `cancelled`; `sync`, `todo`: the synchronous search of Pd that is under way; `queue`, `worker`, `done`: commands; `file`: the cache file; `disk`; `saved`, `torn`: history |
| `ProbePlugins` | `IFactory::probePlugin(s)`, `probeAsync`, `probe.cpp` | `proc`, `file`: processes and temporary files; `worker`, `task`, `result`, `head`: the threads; `collector`, `current`, `tail`, `probeResults`: the caller; `plugins`: what it returns |
| `PdPresets` | programs and presets of objects that share a plugin's list | `presets`: `PluginInfo::presets`; `files`; `state`, `shown`: each plugin's state and what its editor shows; `x_preset`, `x_command`; `queue`, `results`; `stale`: history, objects whose last data were refused |

Pure algorithms, as operators that the state machines use:

| Module | Models |
|---|---|
| `PluginBypass` | `setBypass` and processing of `VST2Plugin` and `VST3Plugin`, as gains at the two ends of a block (used by `VSTPluginUGen`) |
| `PluginDictionary` | `PluginManager` without its file (used by `PluginSearch`) |
| `PluginInfoFile` | `PluginInfo::serialize`, `deserialize` and the cache file, on streams of tokens (used by `PluginSearch`) |
| `PresetList` | `scanPresets`, `sortPresets`, `findPreset`, `addPreset`, `renamePreset`, `removePreset`, `makePreset` (used by `PdPresets`) |

`MCDelegate`, `MCUGen`, `MCSearch` and `MCPresets` are instances for TLC.  Proofs
(section 5) are in `VSTPluginDelegateProofs`, `VSTPluginUGenProofs`,
`LockfreeFifoProofs`, `PdObjectProofs` (with `WorkQueue`), `PdEditorProofs` (with
`UIEventLoop`), `ProbePluginsProofs`, `PluginSearchProofs` and `PdPresetsProofs`.

An action is a unit command, a message, a stage or a callback as a whole, with
every early return as a disjunct.  Calls that take time while another thread
may run (process, a method of the plugin, a stage that uses it) are two
actions, begin and end.  What a plugin does is not modelled, only that a thread
is inside it and what it may report.

Abstractions that matter:

* A null dereference or a use of something freed sets `crashed` and stops the
  model; invariants say when that cannot happen, and nothing hides it.
* In the delegate's model a command that could not be allocated (`AllocMayFail`)
  leaves what the code leaves; `Destruct` then destroys the plugin in place.
  There, and in `PdObject`, `UIThread::create` and `destroy` are one step, possible
  only while the UI thread is not inside a listener call, because the caller
  waits for it.  `UIEventLoop` has that call step by step.
* Reads of the other thread's index in the FIFO may be late: each thread has a
  view that moves forward at any time.  `push` loads `readHead_` relaxed; in C++
  terms that is not synchronised with the reader's copy, but a store cannot
  become visible before the load that guards it, which is the order the model
  has.  Several writers of the parameter queue are one writer, because
  `paramQueueMutex_` serialises them.
* `Reset` in `PdObject` stands for every message that sets `x_command` (reset and
  the preset commands): they lock, call and call back in the same way.  `PdPresets`
  has those commands with what they do to presets and files.
* The end of an object is in `PdObject`; `PdEditor` has objects that stay.
* `open` with the path of the plugin that is open returns at once (1356); as paths
  are not modelled, that is a message not sent.
* A message is not interrupted by the messages its outlets may send.
* In `PluginSearch` a plugin is what its module says, and modules are few; a
  description is kept as a stream of tokens in which the comma and the newline
  are tokens, which is what its line format depends on.
* In `PluginSearch` the Pd thread may probe, too: a search without `-a`, an open that is not
  asynchronous, the query of a plugin.  Each such probe is one step.  Futures that are null
  (a module that could not be loaded) take a place in a batch, so that any of them may be the one that
  fills it (`full`).
* In `PdPresets` the state of a plugin, and the content of a file, is one value, or `None` for a
  file that is no preset: a save that fails has created or truncated its file by then, or not.  A path is
  a folder and a stem: presets in subfolders, and files that differ only in how their extension
  is written, are left out.  `sortPresets` is a set of lists, as `std::sort` may leave
  presets that compare equal in any order.
* In `VSTPluginUGen` a bus has two levels, low and high, and a parameter the value it
  was last given; a block of samples is the gains at its two ends.
* In `ProbePlugins` a process that ends well leaves the info, nothing, or a file that `deserialize`
  refuses: with an `Error`, or with what `std::stol` throws for a bad number.  A file that is
  cut where it still parses counts as an info.

Switches.  Some constants say whether the environment may do something that the
code does not withstand and that no comment or document rules on.  The runs have
them FALSE; with TRUE the property named in the hazard list is violated:
`FreeUnbuilt` (a synth freed before its first block leaves its queued commands to the
next synth at that address), `Onto` and `Overlap` (a preset is renamed onto another, or
renamed or deleted while it is being saved), `Interrupts` (waitpid returns early, and
the status, 0, says that the process ended well), `Deadlocks` (Pd waits for the UI
thread while that waits for Pd's lock: the guards `MayWait` and `MayEmit` exclude it and
have no counterpart in the code), `Reopens` (an object is sent an open while an asynchronous
one is under way, which the code accepts: the result of the pending one replaces the plugin
in place, on the Pd thread, also one whose window the UI thread has), `Beside` (the Pd thread
probes while a batch of the worker's probes is under way: of two probes of one module one
may fail and the other not, and the module is known and black-listed) and `Overlaps` (two threads
call the Win32 event loop at once; `ui_answers` has it TRUE).  A theorem that needs one of
them FALSE says so in its assumptions.  `AllocMayFail` is TRUE in `delegate` and FALSE in
`delegate_fair`, whose properties need the memory.

Faulty variants.  Next to some actions there is one marked *Faulty*, with the
mistake it makes.  They are not part of any `Next`; substituted for the action
they show that the property listed with them in `PROJECT.json` depends on the
code as it is.

## 3. What TLC checks

Passing runs:

| Run | Instance | Properties | States |
|---|---|---|---|
| `delegate` | 2 plugins, 3 commands in flight, RTAlloc may fail, symmetry | `TypeOK`; `CommandsHavePlugin`: stages never find `plugin_` null; `OneSuspender`: suspension covers exactly one asynchronous command; `ProcessExclusion`: `process()` and guarded calls exclude a locked stage 2; `DestroyedWhereMade`; `OneOwner` | 634 000 |
| `delegate_fair` | 2 plugins, 2 commands, memory never runs out, fairness | `LifecycleSpec`: the delegate implements `PluginLifecycle`; `MadeAndClosedOnNrt`; `OpenAnswered`; `SuspensionEnds`; `FreedUnitReleasesAll` | 187 000 |
| `fifo` | ring of 4, 2 values, fairness | `TypeOK`; `NoRace`; `FifoSpec`: the ring implements `BoundedFifo`; `Delivered` | 57 000 |
| `ugen` | 4 kinds of plugins (VST2 and VST3, with parameters or with a bypass of their own), 2 mapping cells, 2 queued commands | `TypeOK`; `MappingList`: the mapping is one list of what is in memory, and fits the plugin; `AutomationFollows`: a parameter has the value its bus or client gave last, though only changes are sent; `CommandsReachTheirUnit`; `NoClick`: between blocks no share of the output jumps in a channel that has an input, nor in outputs without one unless soft bypass comes first | 105 000 |
| `pd_object` | rings of 2 (one item fits), 3 items, 2 plugins, fairness | `TypeOK`; `OneCommand`: `x_command` is exactly the command under way; `ProcessExclusion`; `CommandFindsPlugin`: while the object lives, a command that was sent with no open under way has its own plugin, undestroyed; `OneOwner`; `ItemsKept`; `OvertakenAcross`; `WorkerGetsDone` | 576 000 |
| `pd_editor` | X11 and Win32, 2 objects, the Pd and the worker thread, 2 plugins, 3 messages, 1 event, fairness | `OwnAnswer`: create and destroy answer their own caller; `WindowsFound`; `EventsDelivered`; `RequestsEnd` | 118 000 |
| `search` | both hosts; 3 modules in 2 directories, one of them twice; 2 requests, 2 sessions, 1 change on disk, the cache file cut off at 4 places, searches and queries also on the Pd thread; fairness | `KnownOrIgnored`; `SearchComplete`; `CacheRestores`; `SearchEnds` | 435 000 |
| `probe` | VST2 and VST3, 3 plugins, 2 threads, fairness | `Outcome`: what the factory has when probing is over or has thrown, and nothing is left behind; `PromiseKept`: it implements `ProbingPromise` | 649 000 |
| `pd_presets` | 2 objects, 4 names of which two share a file and two differ only in case, 2 values, 5 messages, symmetry of objects | `ListMatchesFiles`: the list and the files that hold presets agree; `EditorInSync`, unless data were refused | 2 571 000 |

Runs that find a disagreement between code and what is said about it:

| Run | What it shows |
|---|---|
| `delegate_suspension` | `/program_set` calls the plugin on the audio thread while an asynchronous command is in it on the NRT thread; the documentation says that messages are not accepted then |
| `pd_release` | an object freed during an asynchronous command destroys its editor plugin on the Pd thread, although a comment says it is released where it was opened |
| `ui_answers` | on Windows a thread that creates a plugin may be woken by the answer to another thread and report an error for a plugin that could be created, where a comment says that this should not happen |

Outcomes that the models have, and no run is spent on:

* A close refused because of a running command (`RefuseClose`) is never made up for,
  although the comment at `sc/src/VSTPlugin.cpp:1039` says that the command's cleanup
  will close: `Cleanup` does so only for a UGen that was freed.
* A parameter reported in stage 2, or by the window, is written to the UGen's
  queue while the RT thread may free the UGen (`NrtNotify`, `UiDeref`; the comment
  at `sc/src/VSTPlugin.h:85-88` says that a stage 2 must not access the UGen).
* `suspended_` is set before the command is allocated (`Suspending`); if that fails
  the UGen stays suspended (`sc/src/VSTPlugin.cpp:1191`).
* An open that was pending when a command was sent replaces, and destroys, the plugin that the
  worker is just resetting (`PollOpen` with `crashed`; `pd/src/vstplugin~.cpp:1299`; the comment at
  1359 says that nothing is opened while a command runs).  Freeing the object does so, too
  (`Free`).
* A command whose object was freed may run, and finds the object gone (`crashed` with
  `x.freed`).
* A process that ends well but leaves a file with a bad number ends the host (`Terminate`): `std::invalid_argument`
  is no `Error`, which is all that the worker threads catch (`vst/Plugin.cpp:1460`, 2015).  For
  a module that is probed alone, any exception of `deserialize` leaves probing without a
  callback (`ModuleThrows`).
* A save that fails leaves the file it opened empty, also one that held a preset (`WriteDo`;
  `vst/VST2Plugin.cpp:954-961`, `vst/VST3Plugin.cpp:1688-1695`).
* A bank that is refused halfway has changed programs of the plugin by then, and the editor is
  not updated (`Refused`; `pd/src/vstplugin~.cpp:1947`).
* When soft bypass has faded a plugin out, its tail is played at full gain in outputs without
  an input (excepted by `NoClick`).
* The worker of Pd may miss a notification (`Wait`, which tests without the mutex), and
  `cancel` walks the ring from one element before the first (161).

Bounds and why they are enough.  Two plugins: one to be replaced and its
replacement.  `Slots` = 3: a close, the open that follows it and one more
command; two commands with the liveness properties, where every pair of
commands still meets.  A ring of 4 has empty, full and wrapped states with both
views late.  In `WorkQueue` a ring of 2 is full with one item, so that two items
fill ring and overflow queue, and the third may overtake; the same bound makes
the worker wait for room.  `MaxId` bounds the items ever pushed (in the guard of
`Push`), `Plugins` and `MaxPlugins` the instances ever created: instances are not reused.
`Cells` = 2: one `Mapping` for each parameter, so that each may be the first or the last of
the list when it is moved or unmapped.  `MaxQueue` = 2: the array of queued commands grows,
and the order of commands shows.  `Batch` = 2, with three
modules: a full batch and a rest.  Two sessions: one that writes the cache file, and
one that reads, merges and writes it.  Two requests overlap in every way, among them a
stop and a second search; a third adds no new pair.  Three plugins and two probing threads: a
thread takes a second plugin while the other is still at its first.  Five
messages to two objects: presets are saved by both at once, one of them over the other's
file, and then renamed, deleted and loaded.  Three messages and one event in `PdEditor`: open, show and close, with the event at
any time between.

Deadlock is checked in `fifo` only.  The others may stop: `crashed` ends a model,
and a freed object with empty queues, a dead session or the bound on requests
leaves nothing to do.

Fairness.  None for the client: unit commands, messages, searches, stops,
notifications and quitting may never come.  What a thread has begun it finishes
(weak fairness).  Stage 3 and cleanup, the NRT stages, the worker's steps and
the Pd clock have strong fairness in `VSTPluginDelegate` and `PdObject`: the server drains its
FIFO between control blocks, Pd's scheduler calls the clock every millisecond,
and a mutex held only for the length of one block is free again and again; the
threads that want it block on it.  The worker's `Wait` is left without fairness,
as nothing promises a notification: `push` notifies without the mutex, and a
notification between the test and the wait is lost (the model has that; the item
then stays until the next push).  In `PdEditor` the threads go on, the scheduler comes to
clocks that are set, and to `perform` while DSP is on; whoever switches DSP off is free
to leave it off, and `EventsDelivered` excepts an event that counted on it.  In
`PluginSearch` the worker, the acknowledgement of a search, the step that sets
`gSearching` and a search on the Pd thread that has begun are fair.  In `ProbePlugins` the threads go on and a process ends; the code does not
limit the time of one, so that this is an assumption about plugins.

`SearchComplete` is stated for SuperCollider, whose answer is what the search found; Pd
reports plugins one by one, and its walk is the same actions.

## 4. Depth of the checks

`LifecycleSpec`, `FifoSpec` and `PromiseKept` are refinements: the abstract module is
instantiated with a mapping and its specification checked as a property.  The mapping of the
FIFO is the sequence of elements from the reader's index to the writer's; the
mapping of the life cycle reads `life` and the threads' `ptr`; the mapping of probing is
the collector's place and two histories.  `PromiseKept` includes the promise's fairness.

History variables are read by no guard: `saved`, `torn`, `asked`, `told`, `lost`, `target`, `stale`,
`messages`, `emitted` except for the bounds.  `life`, `made` and `ended` are ghosts except that an instance is
created at most once, and `reaped` except that a destructed delegate has no listener
left to lock.

`CacheRestores` compares two sessions: the dictionary after reading the file is what was
written, but for what the format does not carry (`Carried`) and modules that are gone,
whenever the file was written completely.  What comes of a torn file is checked by the
other properties of `search`, which hold from any such start.

## 5. What TLAPS proves

`VSTPluginDelegateProofs`, for any set of plugins, any number of commands in flight, with
or without failing allocations:

* `TypeCorrect`, `CommandsKeepPlugin`, `OneSuspenderAtATime`, `ProcessExcluded`.
* The argument is `Invariance`: `IInv == TypeOK /\ Safe` is inductive.  The safety
  properties alone are not: a step needs to know which command is at the head of a
  FIFO.  `Safe` is `CommandsHavePlugin` with `HeadsInv` (a thread that is in a stage works on the
  head of its FIFO, a command of the right kind and stage), `LoadingInv` (at most one
  open is pending, and while it is, `isLoading_` is set and no plugin is there),
  `SuspensionInv` (an asynchronous reset, read or write that is pending has the UGen
  suspended until its stage 3, and there is one at a time) and `MutexInv` (who
  holds `mutex_`, and that a call let through by check() means no suspension).
  Lemmas on the FIFOs and the command data come first, then one lemma per
  group of actions for types and one for `Safe`, with a step per action.
* Assumption: `DelegateAssumption` (the null pointer is no plugin).

Its second half, on top of `IInv` and for the same instances, is about who has a plugin:

* `PluginOwnedOnce` (`OneOwner`) and `ClosedWhereMade` (`DestroyedWhereMade`).  The invariant `OwnInv` says who
  may have a plugin, the delegate, an open command in stage 3 or a close command
  in stage 2, that no two have the same, that an open plugin is had by one
  of them (`HoldersInv`), and that whoever has a plugin knows whether the UI thread made it
  (`EditorInv`).  `OneOwner` alone is not inductive: it does not say which commands may carry a
  plugin.  Every action either leaves plugins with their holders (`Kept`), hands
  one from the delegate to a close command (`HandedOver`), from an open to the
  delegate, creates or ends one.
* `MadeAndClosed` (`MadeAndClosedOnNrt`), if memory does not run out.  Only `NrtOpen` and `NrtClose`
  change what becomes of a plugin: by `LoadingInv` the plugin that doneOpen puts into `plugin_`
  replaces none, which would be destroyed in stage 3, and the destructor sends a close command
  instead of destroying in place.
* `LifecycleImplemented`: `Spec => LifecycleSpec`, if memory does not run out (without memory
  for the close command the destructor ends its listener call and destroys the
  plugin in one step, which is no single step of `PluginLifecycle`).  It needs a third
  invariant, `InsideInv`: threads are inside `plugin_` only, and a thread that is idle is in no
  plugin.  So a plugin that a close command ends, which by `HoldersInv` is not `plugin_`, has
  nobody inside, and a thread that enters `plugin_` finds it open.

`LockfreeFifoProofs`, for every size of the ring and every set of values:

* `FifoTypeCorrect`, `FifoRaceFree`, and `FifoRefinement`: `Spec => FifoSpec`.
* The invariant `IInv` is `TypeOK /\ InOrder /\ WriterInv /\ ReaderInv`.  `InOrder` orders the
  two indices and the two late views round the ring: what the writer has seen of the
  reader is never ahead of the reader, and the other way round.  That is why a late
  view is safe, and without it neither thread's test says anything about the other.
  `WriterInv` and `ReaderInv` say what each thread has established at each of its
  steps.
* Refinement: each step maps to the step of `BoundedFifo` in which it takes effect
  (publishing the index), or to a stutter.

`ProbePluginsProofs`, for any number of plugins and threads:

* `ProbeOutcome` (`Outcome`), and `PromiseNeverBroken`: the initial states are those of `ProbingPromise`
  and every step is one it allows or a stutter, which is the safety part of
  `PromiseKept`.  The promise lets the host end only while several plugins are asked for, and
  probing throw only before any is: a result is counted only if its file could be read.
* The invariant has one part for each of the actors: how far the caller is and what it
  asked for (`PhaseInv`), that each thread is at a plugin of its own which has no result
  yet (`WorkersInv`), that results are correct and for different plugins (`ResultsInv`), and
  that what was reported is the results so far (`CollectInv`).  That all plugins are done
  when there are as many results as plugins is a pigeonhole argument (`AllDone`): were one
  missing, two of the results were for the same plugin.
* Assumptions: `ProbeAssumption`, and `~Interrupts`, since an interrupted waitpid is taken for
  success (section 2).

`PdObjectProofs`, for FIFOs of every size, any number of commands and plugins:

* `PdTypes`, `PdOneCommand`, `PdProcessExclusion`, `PdCommandFindsPlugin`, `PdOneOwner`, and the two action
  properties `PdItemsKept` and `PdOvertakenAcross`: all that the run `pd_object` checks, but for liveness.
* `QueueInv` is about the queues alone: an item is in one place, no two have the same id,
  and each of the two queues to the worker is in the order of the ids.  Elements of a ring
  are counted from its read index (`Turn`), so that "the next one" and "one more at the end"
  become facts about intervals modulo `N`; what each step of the queue does to the *set* of
  items is then stated once (the lemmas named `Effect`), cancelled items among them.
* On top of it, what an item implies for the object: an asynchronous command is pending
  exactly while `x_command` is set (`OneCommand`), the item the worker is at was sent for this
  plugin unless an open was under way when it was sent (`FindInv`: with a `target`, no open is
  pending, as none is sent while `x_command` is set), the command data have what the stage left in them
  (`CommandInv`), and who is inside the plugin holds `x_mutex` (`ThreadInv`).
* `OneOwner` is not inductive: it does not exclude that a plugin that was never made has
  been destroyed.  `OwnerInv` says so too, and which items may carry a plugin at all.
* Assumptions: `QueueAssumption` (the ring has a size) and `PdAssumption` (null is no plugin).

`PdEditorProofs`, for any number of objects, plugins, messages and events, on X11 and Win32:

* `EditorOwnAnswer` (`OwnAnswer`) and `EditorWindowsFound` (`WindowsFound`), if requests do not overlap on Win32
  (`~Overlaps`; the run `ui_answers` is the counterexample otherwise) and an object is sent no open
  while one is under way (`~Reopens`; with such opens `WindowsFound` is violated).
* The invariant has the type facts of the loop and of the objects, and: at most one request is under
  way (`OneRequest`: on X11 whoever waits holds `lock_`); the event for it is in the queue, or the
  UI thread has answered it, and the data it left are of that request (`Conversation`); the piece
  of work the worker is at stays first, and Pd does nothing else while it asks (`Occupied`); an
  instance has one owner, the object, a result on the way to one (which then has no plugin,
  `Vacant`), an answer to a thread, or the
  work that is to destroy it (`Owners`); an instance with a window is made and destroyed by
  requests, not in place (`Where`); and whatever the host has queued for a window finds it, and is
  ahead of the request that destroys it (`Shown`).  `WindowsFound` alone says nothing of the queue, and
  `OwnAnswer` nothing of how the answer came to be there.
* The steps of both modules are first reduced to some twenty kinds (`Steps`, `LoopStep`: a request is
  sent, taken, answered, an event is posted, an instance appears here, goes there), and each part
  of the invariant is proved of the kinds.
* Assumption: `LoopAssumption`; its last conjunct says that the null pointer is no thread, plugin
  or description.

`VSTPluginUGenProofs`, for any plugins, number of parameters and channels, and any amount of memory:

* `UGenTypes`, `UGenMappingList`, `UGenAutomationFollows`, `UGenNoClick` (the action property `NoClick`), and
  `UGenCommandsReachTheirUnit`, the last if no synth is freed before its first block (`~FreeUnbuilt`).
* `MapInv` is the classical invariant of a doubly linked list with an index into it: there is a
  sequence of all cells in memory (`Linked`) whose neighbours point to each other, and the table has
  for each parameter the one cell that names it.  `MappingList` alone is not inductive: unlinking needs
  that the table's pointer is to a cell of the list.
* `AutoInv` says that what the UGen remembers of a parameter is what it was last told to aim at, so that
  not passing on a value that has not changed loses nothing.
* `UnitInv` says what an unbuilt synth finds in its memory: no commands, or its own in order.
* `BypassInv` says where a block leaves the gains, for each kind of plugin and each way
  of bypassing, and that a plugin with a silent tail has none left.  `NoClick` is then a
  comparison of what `Process` starts from with what it makes, for channels with an input and for
  outputs without one.
* Assumption: `UGenAssumption`; that there are finitely many plugins bounds their parameters.

`PdPresetsProofs`, for any objects, presets, files and number of messages:

* `PresetsListMatchesFiles` (`ListMatchesFiles`).  The list alone (`ListInv`): each preset was found in
  a file or made for a name, no name is listed twice in a folder, and the part up to the last
  leading user preset is sorted.  Only that part: a preset that is added goes among the leading user
  presets, and one of the user's that stands behind a factory preset is never looked at.
  A save on its way relies on the list (`SavesInv`): it is for a preset that is listed, or for a new
  name which, if it is listed by now, is where `addPreset` looks for it (`Room`); two saves of one
  new name then add it once.  `FilesInv` says which files there are: those of the list, and, of those that hold a preset, no others but
  those whose save was written and did not come back.  The lemmas `Added`, `Renamed` and `Deleted` say
  what the operations do to any list, `SortedPrefix` and `ScannedList` what sorting and scanning do.
  Assumptions: `~Overlap` and `~Onto`, the switches of section 2, and `OwnFiles`: two names that the
  user's presets have do not share a file.  `bashPath` does not ensure that ("a/b" and "a_b"
  do), and it is needed: deleting one of two such presets deletes the other's file.
* `PresetsEditorInSync` (`EditorInSync`).  The invariant: an object is suspended exactly by one
  command, in the queue or done (`CommandsInv`), and a plugin differs from what its editor shows
  only while a read suspends its object, or after data that were refused (`ShownInv`).

`PluginSearchProofs`, for any modules, directories, size of the batches, and number of requests,
sessions and changes of the disk:

* `SearchCompletes` (`SearchComplete`).  The invariant says where a worker may be (`Place`), which
  modules are behind it (`Passed`), that these are known or black-listed but for the ones whose
  probes are under way, and that what a SuperCollider search has found is what is known of the
  modules behind it (`SearchInv`); and that a module with a probe under way is not in the dictionary
  (`DictInv`, for which the Pd thread must not probe beside it: `~Beside`).  `SearchComplete` speaks of the answer only.  The batches are in the lemmas `Resumed`
  and `Advanced`: a directory is not left with probes under way, so that the last
  directory is behind the worker with none.
* `KnownOrIgnoredKept`: `KnownOrIgnored`, if it holds after each reading of the cache file, and `~Beside`.  Every other
  step keeps it, as by `DictInv` a probe's result is for a module that is neither known
  nor black-listed, also when the dictionary was cleared meanwhile.  That it holds after
  reading, from a file that may be cut off, is left to TLC: the file is read by
  recursion over its text.
* Assumption: `SearchAssumption`.  Its second half says that a directory lists a module once.
  `vst::search` calls back for each entry of a directory, so that this is so; and it is
  needed: two probes of one module in one batch may end differently, which would leave
  it known and black-listed.

Only model-checked: `CacheRestores`, which is about the text of a cache file and so about
recursion over it, and all liveness (`Delivered`, `OpenAnswered`,
`SuspensionEnds`, `FreedUnitReleasesAll`, `WorkerGetsDone`, `EventsDelivered`, `RequestsEnd`, `SearchEnds` and the
fairness of `PromiseKept`).  Liveness under fairness and `ENABLED` are out of this prover's
reach; so are facts about recursive definitions by induction over data.  The modules that
are proved about, and those they use, declare no RECURSIVE operator.

## 6. What is not modelled, and the plan

Not modelled:

* The UI event loops of macOS (`WindowCocoa.mm`), where all runs on the main thread of the
  host application; the end of an event loop with the process; moving and
  resizing of windows.
* The translation to the VST2 and VST3 interfaces: it is data conversion against
  SDK headers that are not in the repository.  The global `shellPluginID`
  (`vst/VST2Plugin.cpp:190`), which two threads that open shell plugins at once share, is part
  of it.  So are the VST3 parameter queues between window, controller and processor,
  whose ring is `LockfreeFifo`.
* Replies to the SuperCollider client, reallocation of channel arrays, program
  names; `dsp` and `save` of the Pd object and the buffers of its `perform`.
* What a caller of `IFactory::probe` does with an exception that is not an `Error`: in
  `PluginSearch` a probe reports plugins or none.
* The end of an object that has a window (`pd/src/vstplugin~.cpp:2697`): `PdObject` has it, without
  the event loop; `PdEditor` does not.
* Labels with a newline in a description: `serialize` writes them as they are, and
  `deserialize` fails on what follows.  `WellFormed` keeps them out of the run.
* Directory walks, CPU architectures and default paths (I/O and tables); the
  sclang classes, whose commands the server must stand in any order; help and browser
  patches.

Plan, most important first:

1. The VST3 parameter queues, with the two threads that may write them.
2. An abstract call that `UIEventLoop` implements on X11, and its proof.
3. `VSTPluginController`: what the client believes, against the delegate.

## 7. Running

    tlc -workers 2 -config Delegate.cfg MCDelegate
    tlc -workers 2 -config DelegateFair.cfg MCDelegate
    tlc -workers 2 -config Fifo.cfg LockfreeFifo
    tlc -workers 2 -config UGen.cfg MCUGen
    tlc -workers 2 -config PdObject.cfg PdObject
    tlc -workers 2 -config PdEditor.cfg PdEditor
    tlc -workers 2 -config Search.cfg MCSearch
    tlc -workers 2 -config ProbePlugins.cfg ProbePlugins
    tlc -workers 2 -config PdPresets.cfg MCPresets
    tlapm VSTPluginDelegateProofs.tla
    tlapm LockfreeFifoProofs.tla
    tlapm ProbePluginsProofs.tla
    tlapm PdObjectProofs.tla
    tlapm PdEditorProofs.tla
    tlapm VSTPluginUGenProofs.tla
    tlapm PluginSearchProofs.tla
    tlapm PdPresetsProofs.tla

The three runs that end with a violation are `DelegateSuspension.cfg` (`MCDelegate`),
`PdRelease.cfg` (`PdObject`) and `UIAnswers.cfg` (`PdEditor`).  `PROJECT.json` lists the module,
configuration and properties of every run, the source lines of every definition,
the hazards and the theorems.
