----------------------------- MODULE VSTPluginUGen -----------------------------
(***************************************************************************)
(* The VSTPlugin UGen on the RT thread (sc/src/VSTPlugin.cpp): unit         *)
(* commands that arrive before its constructor, bypass, and the automation *)
(* of parameters by control busses, audio busses and UGen inputs.          *)
(*                                                                         *)
(* Asynchronous commands appear only by their results (a plugin is there   *)
(* or not, the UGen is suspended or not); VSTPluginDelegate models them.   *)
(***************************************************************************)
EXTENDS PluginBypass, Integers, Sequences, FiniteSets, SequencesExt, FiniteSetsExt

CONSTANTS Plugins,          \* what can be loaded: records, see PluginModels
          NoPlugin,
          Cells,            \* bound: RT memory for Mapping structs
          Nil,              \* a null Mapping*
          Ins, Outs,        \* channels of the UGen, [{"main", "aux"} -> Nat]
          Nums,             \* bus numbers sent by clients
          ParamInputs,      \* what the UGen's parameter control may name
          MaxQueue,         \* bound: commands queued for one synth
          Requests,         \* bound: bypass inputs tried with each plugin
          FreeUnbuilt       \* may a synth be freed before its first block?

Busses == {"main", "aux"}
PluginModels == [type : {"vst2", "vst3"}, own : BOOLEAN, params : Nat,
                 outs : [Busses -> Nat]]

ASSUME UGenAssumption ==
  /\ Plugins \subseteq PluginModels /\ IsFiniteSet(Plugins)
  /\ NoPlugin \notin Plugins
  /\ Nil \notin Cells /\ Nums \subseteq Int
  /\ Ins \in [Busses -> Nat] /\ Outs \in [Busses -> Nat]
  /\ MaxQueue \in Nat /\ ParamInputs \subseteq Int
  /\ Requests \in [Plugins -> SUBSET Bypass]
  /\ FreeUnbuilt \in BOOLEAN

VARIABLES
  unit,      \* the synth at this address: none, not constructed, constructed
  mem,       \* initialized_, queued_ and unitCmdQueue_ in its memory
  plugin,    \* delegate_->plugin()
  suspended, \* delegate_->suspended()
  bypass,    \* bypass_ of the UGen
  pb,        \* the plugin's bypass state
  block,     \* what the last block did
  pm,        \* the parameter mapping
  auto,      \* parameter values, seen by the UGen and by the plugin
  crashed    \* a null pointer was dereferenced

vars == <<unit, mem, plugin, suspended, bypass, pb, block, pm, auto,
          crashed>>

Max31  == 8     \* stands for 2^31, the bit that tells audio busses
Unseen == 9     \* stands for the largest float
Params == 0 .. Max({p.params : p \in Plugins}) - 1
Values == 0 .. 1
Empty  == [x \in {} |-> Nil]

\* a Mapping struct; bus is bus_, the number and the type in one word
Mappings == [index : Params, bus : 0 .. 2 * Max31 - 1, prev : Cells \cup {Nil},
             next : Cells \cup {Nil}]
NoList   == [cell |-> Empty, head |-> Nil, table |-> Empty, ok |-> FALSE]

TypeOK ==
  /\ unit \in {"none", "raw", "built"}
  /\ mem \in [initialized : BOOLEAN, queued : BOOLEAN,
              list : Seq(0 .. MaxQueue), sent : 0 .. MaxQueue]
  /\ plugin \in Plugins \cup {NoPlugin}
  /\ suspended \in BOOLEAN
  /\ bypass \in Bypass /\ pb \in BypassStates
  /\ DOMAIN pm = {"cell", "head", "table", "ok"}
  /\ DOMAIN pm.cell \subseteq Cells
  /\ \A c \in DOMAIN pm.cell : pm.cell[c] \in Mappings
  /\ pm.head \in Cells \cup {Nil}
  /\ \A i \in DOMAIN pm.table : pm.table[i] \in Cells \cup {Nil}
  /\ auto.value \in [Params -> Values] /\ auto.own \in [Params -> BOOLEAN]
  /\ auto.aim \in [Params -> Values \cup {Unseen}]
  /\ \A i \in DOMAIN auto.state : auto.state[i] \in Values \cup {Unseen}

NoBlock == [processed |-> FALSE, tail |-> FALSE, out |-> <<>>, feed |-> <<>>]
NoParams == [value |-> [i \in Params |-> 0], own |-> [i \in Params |-> FALSE],
             aim |-> [i \in Params |-> Unseen], state |-> Empty, ok |-> FALSE]

\* memory that something else has used
Foreign == [initialized |-> FALSE, queued |-> FALSE, list |-> <<>>, sent |-> 0]

Init ==
  /\ unit = "none"
  /\ mem = Foreign
  /\ plugin = NoPlugin /\ suspended = FALSE
  /\ bypass = "off" /\ pb = NotBypassed /\ block = NoBlock
  /\ pm = NoList /\ auto = NoParams
  /\ crashed = FALSE

audio  == <<plugin, suspended, bypass, pb, block, pm, auto>>
synth  == <<unit, mem>>
--------------------------------------------------------------------------------
(* Unit commands around the constructor.  RT memory is not zeroed: a synth *)
(* that gets the address of an earlier one finds its words.  Commands are  *)
(* numbered; 0 stands for one that was sent to an earlier synth.           *)

NewSynth ==
  /\ ~crashed /\ unit = "none"
  /\ unit' = "raw"
  /\ mem' \in {Foreign, [mem EXCEPT !.sent = 0,
                                    !.list = [k \in DOMAIN @ |-> 0]]}
  /\ UNCHANGED <<audio, crashed>>

\* runUnitCmd finds no magic word in initialized_; without memory for the
\* item the command is lost.
QueueUnitCmd ==
  /\ ~crashed /\ unit = "raw" /\ ~mem.initialized /\ mem.sent < MaxQueue
  /\ \E got \in BOOLEAN :
       LET list == IF mem.queued THEN mem.list ELSE <<>> IN
       mem' = [mem EXCEPT !.queued = TRUE, !.sent = @ + 1,
                 !.list = IF got THEN Append(list, mem.sent + 1) ELSE list]
  /\ UNCHANGED <<unit, audio, crashed>>

\* the commands the constructor is going to run
Pending == IF mem.queued THEN mem.list ELSE <<>>

\* a UGen without a plugin
NoPluginYet ==
  /\ plugin' = NoPlugin /\ suspended' = FALSE
  /\ bypass' = "off" /\ pb' = NotBypassed /\ block' = NoBlock
  /\ pm' = NoList /\ auto' = NoParams

\* VSTPlugin::VSTPlugin: the items are run and freed, but queued_ and
\* unitCmdQueue_ stay as they are.
Construct ==
  /\ ~crashed /\ unit = "raw"
  /\ unit' = "built"
  /\ mem' = [mem EXCEPT !.initialized = TRUE, !.sent = 0,
                        !.list = IF mem.queued THEN <<0>> ELSE <<>>]
  /\ NoPluginYet
  /\ UNCHANGED crashed

\* Faulty: the destructor leaves queued_ alone.
FreeSynthKeepQueued ==
  /\ ~crashed /\ unit = "built"
  /\ unit' = "none"
  /\ mem' = [mem EXCEPT !.initialized = FALSE]
  /\ NoPluginYet
  /\ UNCHANGED crashed

\* VSTPlugin::~VSTPlugin, which scsynth runs only for a constructed unit
FreeSynth ==
  /\ ~crashed
  /\ unit \in IF FreeUnbuilt THEN {"raw", "built"} ELSE {"built"}
  /\ unit' = "none"
  /\ mem' = IF unit = "raw" THEN mem
            ELSE [mem EXCEPT !.initialized = FALSE, !.queued = FALSE]
  /\ NoPluginYet
  /\ UNCHANGED crashed
--------------------------------------------------------------------------------
(* The parameter mapping: a table of pointers into a doubly linked list.   *)

Ready     == ~crashed /\ unit = "built"
Checked   == Ready /\ plugin # NoPlugin /\ ~suspended
HasParam(i) == i \in 0 .. plugin.params - 1

\* Faulty: the type is added to the number, which may be negative.
BusPlusType(num, isAudio) == IF isAudio THEN num + Max31 ELSE num

\* setBus: the last bit holds the type, whatever the number left in it
Bus(num, isAudio) ==
  LET bits == num % (2 * Max31) IN
  IF isAudio /\ bits < Max31 THEN bits + Max31 ELSE bits
IsAudio(bus) == bus \div Max31 = 1
Num(bus)     == bus % Max31

\* Faulty: the list is made from the new head without a link back to it.
MappedNoPrev(m, i, bus, c) ==
  LET new == [index |-> i, bus |-> bus, prev |-> Nil, next |-> m.head]
  IN  [m EXCEPT !.cell = [d \in DOMAIN @ \cup {c} |-> IF d = c THEN new ELSE @[d]],
                !.head = c, !.table[i] = c]

\* VSTPlugin::map for a parameter without mapping: new head of the list
Mapped(m, i, bus, c) ==
  LET new == [index |-> i, bus |-> bus, prev |-> Nil, next |-> m.head]
      linked == [d \in DOMAIN m.cell \cup {c} |->
                   IF d = c THEN new
                   ELSE IF d = m.head THEN [m.cell[d] EXCEPT !.prev = c]
                   ELSE m.cell[d]]
  IN  [m EXCEPT !.cell = linked, !.head = c, !.table[i] = c]

\* VSTPlugin::map, with or without memory for a new Mapping
Map(m, i, bus, memory) ==
  LET free == Cells \ DOMAIN m.cell IN
  IF m.table[i] # Nil THEN [m EXCEPT !.cell[m.table[i]].bus = bus]
  ELSE IF free = {} \/ ~memory THEN m
  ELSE Mapped(m, i, bus, CHOOSE c \in free : TRUE)

\* VSTPlugin::unmap
Unmap(m, i) ==
  LET c    == m.table[i]
      gone == m.cell[c]
      relinked == [d \in DOMAIN m.cell \ {c} |->
                     [m.cell[d] EXCEPT !.next = IF d = gone.prev THEN gone.next
                                                ELSE @,
                                       !.prev = IF d = gone.next THEN gone.prev
                                                ELSE @]]
  IN  IF c = Nil THEN m
      ELSE [m EXCEPT !.cell = relinked, !.table[i] = Nil,
                     !.head = IF gone.prev = Nil THEN gone.next ELSE @]

\* VSTPlugin::clearMapping
Cleared(m) == [m EXCEPT !.cell = Empty, !.head = Nil,
                        !.table = [i \in DOMAIN @ |-> Nil]]

\* /map, /mapa: a run of parameters and busses; indices out of range are skipped
MapParams ==
  /\ Checked
  /\ \E i \in Params, num \in Nums, count \in 1 .. 2, isAudio, memory \in BOOLEAN :
       LET step(m, k) ==
             IF HasParam(i + k) THEN Map(m, i + k, Bus(num + k, isAudio), memory)
             ELSE m
       IN  IF pm.ok
           THEN /\ pm' = IF count = 1 THEN step(pm, 0) ELSE step(step(pm, 0), 1)
                /\ UNCHANGED crashed
           ELSE crashed' = HasParam(i) /\ UNCHANGED pm
  /\ UNCHANGED <<synth, plugin, suspended, bypass, pb, block, auto>>

\* /unmap
UnmapParam ==
  /\ Checked
  /\ \E i \in Params :
       /\ HasParam(i)
       /\ IF pm.ok THEN pm' = Unmap(pm, i) /\ UNCHANGED crashed
          ELSE crashed' = TRUE /\ UNCHANGED pm
  /\ UNCHANGED <<synth, plugin, suspended, bypass, pb, block, auto>>

UnmapAll ==
  /\ Checked
  /\ pm' = Cleared(pm)
  /\ UNCHANGED <<synth, plugin, suspended, bypass, pb, block, auto, crashed>>

\* Faulty: what the UGen remembers of the parameter is not brought up to date.
SetParamKeepState ==
  /\ Checked
  /\ \E i \in Params, v \in Values :
       /\ HasParam(i)
       /\ auto' = [auto EXCEPT !.value[i] = v, !.own[i] = FALSE, !.aim[i] = v]
       /\ IF auto.ok /\ pm.ok THEN pm' = Unmap(pm, i) /\ UNCHANGED crashed
          ELSE crashed' = TRUE /\ UNCHANGED pm
  /\ UNCHANGED <<synth, plugin, suspended, bypass, pb, block>>

\* /set takes the parameter off its bus
SetParam ==
  /\ Checked
  /\ \E i \in Params, v \in Values :
       /\ HasParam(i)
       /\ auto' = [auto EXCEPT !.value[i] = v, !.own[i] = FALSE, !.aim[i] = v,
                     !.state = IF auto.ok THEN [@ EXCEPT ![i] = v] ELSE @]
       /\ IF auto.ok /\ pm.ok THEN pm' = Unmap(pm, i) /\ UNCHANGED crashed
          ELSE crashed' = TRUE /\ UNCHANGED pm
  /\ UNCHANGED <<synth, plugin, suspended, bypass, pb, block>>

\* a program, a preset or the editor changes a parameter behind the UGen
PluginMoves ==
  /\ Ready /\ plugin # NoPlugin
  /\ \E i \in Params, v \in Values :
       /\ HasParam(i) /\ v # auto.value[i]
       /\ auto' = [auto EXCEPT !.value[i] = v, !.own[i] = v # auto.aim[i]]
  /\ UNCHANGED <<synth, plugin, suspended, bypass, pb, block, pm, crashed>>
--------------------------------------------------------------------------------
(* What the asynchronous commands leave behind *)

\* VSTPlugin::update
Update(n, gotState, gotTable) ==
  /\ auto' = [NoParams EXCEPT !.ok = gotState,
                !.state = IF gotState THEN [i \in 0 .. n - 1 |-> Unseen] ELSE Empty]
  /\ pm' = [Cleared(pm) EXCEPT !.ok = gotTable,
              !.table = IF gotTable THEN [i \in 0 .. n - 1 |-> Nil] ELSE Empty]

\* doneOpen; the UGen's own bypass_ is not touched
Opened ==
  /\ Ready /\ plugin = NoPlugin
  /\ \E p \in Plugins : \E gotState, gotTable \in {FALSE, p.params > 0} :
       /\ plugin' = p
       /\ Update(p.params, gotState, gotTable)
  /\ pb' = NotBypassed
  /\ block' = NoBlock
  /\ UNCHANGED <<synth, suspended, bypass, crashed>>

\* close: the plugin goes, mapping and state stay until the next update()
Closed ==
  /\ Ready /\ plugin # NoPlugin
  /\ plugin' = NoPlugin /\ suspended' = FALSE
  /\ pb' = NotBypassed
  /\ block' = NoBlock
  /\ auto' = [NoParams EXCEPT !.state = auto.state, !.ok = auto.ok]
  /\ UNCHANGED <<synth, bypass, pm, crashed>>

\* an asynchronous command begins or ends
Suspend ==
  /\ Ready /\ plugin # NoPlugin
  /\ suspended' = ~suspended
  /\ UNCHANGED <<synth, plugin, bypass, pb, block, pm, auto, crashed>>
--------------------------------------------------------------------------------
(* VSTPlugin::next *)

\* The samples that automate a parameter in this block.  VST3 plugins take
\* every sample of an audio bus, VST2 plugins the first.
Samples(in, i) ==
  LET c   == IF i \in DOMAIN pm.table THEN pm.table[i] ELSE Nil
      bus == pm.cell[c].bus
      signal == IF plugin.type = "vst3" THEN in.audio ELSE <<in.audio[1]>>
  IN  IF c # Nil
        THEN IF IsAudio(bus) THEN IF Num(bus) = 0 THEN signal ELSE <<>>
             ELSE IF Num(bus) = 0 THEN <<in.control>> ELSE <<0>>
      ELSE IF in.index = i THEN <<in.param>> ELSE <<>>

\* parameters are sent when they differ from what was sent before
Automated(a, in) ==
  LET s(i)    == Samples(in, i)
      n       == DOMAIN a.state
      moves(i) == i \in n /\ \E k \in DOMAIN s(i) : s(i)[k] # a.state[i]
      aimed(i) == i \in n /\ s(i) # <<>>
  IN  [a EXCEPT !.state = [i \in n |-> IF aimed(i) THEN Last(s(i)) ELSE a.state[i]],
                !.value = [i \in Params |-> IF moves(i) THEN Last(s(i)) ELSE @[i]],
                !.own   = [i \in Params |-> @[i] /\ ~moves(i)],
                !.aim   = [i \in Params |-> IF aimed(i) THEN Last(s(i)) ELSE @[i]]]

\* an audio bus changes within every block
Inputs == {[bypass |-> request, control |-> c, audio |-> <<c, 1 - c>>,
            index |-> i, param |-> v] :
           request \in Requests[plugin], c \in Values, i \in ParamInputs, v \in Values}

\* the block of gains that process() makes for every channel of the UGen
Gained(b) ==
  [x \in Busses |-> [i \in 1 .. Outs[x] |->
     IF plugin.type = "vst2" THEN VST2Output(b, plugin, x, i, Ins[x])
     ELSE VST3Output(b, plugin, x, i, Ins[x])]]
Fed(b) ==
  [x \in Busses |-> [i \in 1 .. Ins[x] |->
     IF plugin.type = "vst3" THEN VST3Feed(b, plugin, i, Ins[x], Outs[x])
     ELSE IF x = "main" THEN Feed(b, plugin.own, TRUE, i <= Outs[x]) ELSE Flat(0)]]

\* history: the plugin sounds until it was flushed for long enough
Sounding(b, quiet) ==
  \/ \E x \in Busses : \E i \in DOMAIN Fed(b)[x] : Fed(b)[x][i][2] = 1
  \/ block.tail /\ ~(Called(b, plugin.own) /\ quiet)

ProcessWith(in, quiet) ==
  LET b == IF in.bypass # bypass THEN SetBypass(pb, in.bypass) ELSE pb IN
  /\ bypass' = in.bypass
  /\ pb' = Processed(b, plugin.own, quiet)
  /\ block' = [processed |-> TRUE, tail |-> Sounding(b, quiet),
               out |-> Gained(b), feed |-> Fed(b)]
  /\ IF auto.ok
       THEN /\ crashed' = (~pm.ok /\ in.index \in DOMAIN auto.state)
            /\ auto' = IF crashed' THEN auto ELSE Automated(auto, in)
       ELSE UNCHANGED <<auto, crashed>>

\* quiet: was the output silent in this block?
Process ==
  /\ Ready /\ plugin # NoPlugin
  /\ \E in \in Inputs :
       \E quiet \in IF in.bypass = "off" THEN {FALSE} ELSE BOOLEAN :
         ProcessWith(in, quiet)
  /\ UNCHANGED <<synth, plugin, suspended, pm>>

\* without a plugin, or when the lock is not to be had, input goes to output
PassThrough ==
  /\ Ready /\ (plugin = NoPlugin \/ suspended)
  /\ block' = [NoBlock EXCEPT !.tail = block.tail]
  /\ UNCHANGED <<synth, plugin, suspended, bypass, pb, pm, auto, crashed>>
--------------------------------------------------------------------------------
Next ==
  \/ NewSynth \/ QueueUnitCmd \/ Construct \/ FreeSynth
  \/ MapParams \/ UnmapParam \/ UnmapAll \/ SetParam \/ PluginMoves
  \/ Opened \/ Closed \/ Suspend \/ Process \/ PassThrough

Spec == Init /\ [][Next]_vars
--------------------------------------------------------------------------------
(* Properties *)

\* The mapping is one list, the same read forwards and backwards, of exactly
\* the Mapping structs in memory, and the table has a pointer to each under
\* its parameter; no parameter is out of range for the plugin that is loaded.
\* (update, map, unmap and clearMapping)
MappingList ==
  LET cell == pm.cell
      n    == Cardinality(DOMAIN cell)
      at(s, k) == IF k \in 1 .. n THEN s[k] ELSE Nil
  IN  /\ \E s \in [1 .. n -> DOMAIN cell] :
           /\ IsInjective(s)
           /\ pm.head = at(s, 1)
           /\ \A k \in 1 .. n : /\ cell[s[k]].next = at(s, k + 1)
                                /\ cell[s[k]].prev = at(s, k - 1)
      /\ \A c \in DOMAIN cell : /\ cell[c].index \in DOMAIN pm.table
                                /\ pm.table[cell[c].index] = c
      /\ \A i \in DOMAIN pm.table : pm.table[i] \in DOMAIN cell \cup {Nil}
      /\ plugin # NoPlugin => DOMAIN pm.table \subseteq 0 .. plugin.params - 1

\* A parameter has the value that a client or a bus gave it last, unless the
\* plugin changed it on its own, although only changes are passed on.
\* (next, setParam, update)
AutomationFollows ==
  plugin # NoPlugin =>
    \A i \in 0 .. plugin.params - 1 :
      auto.aim[i] = Unseen \/ auto.own[i] \/ auto.value[i] = auto.aim[i]

\* What the constructor is going to run was sent to this synth, in this order.
\* (runUnitCmd, queueUnitCmd and the comment above runUnitCmd)
CommandsReachTheirUnit ==
  unit = "raw" => /\ \A k \in DOMAIN Pending : Pending[k] > 0
                  /\ \A k, l \in DOMAIN Pending : k < l => Pending[k] < Pending[l]

\* Bypassing makes no jump from one processed block to the next.  Where the input
\* of a channel has an output there is none in the share of the input, none in
\* the share of the plugin as long as it sounds, and none in what the plugin is
\* fed as long as it is heard.  An output without an input of its number is
\* smooth as well, but not after a soft bypass: there the plugin's share is
\* faded out, then the tail is played in full.  (setBypass, doProcess)
Smooth(x, i) ==
  LET was == block.out[x][i]
      is  == block'.out[x][i]
  IN  /\ is.dry[1] = was.dry[2]
      /\ block.tail => is.wet[1] = was.wet[2]
FedSmoothly(x, i) ==
  \/ block'.feed[x][i][1] = block.feed[x][i][2]
  \/ block'.out[x][i].wet[1] = 0 /\ block.out[x][i].wet[2] = 0
Written(x) == IF plugin.type = "vst2" /\ x = "aux" THEN 0 ELSE plugin.outs[x]
Through(x) == 1 .. Min({Ins[x], Outs[x], Written(x)})
Alone(x)   == Ins[x] + 1 .. Min({Outs[x], Written(x)})
NoClick ==
  [][Process /\ block.processed /\ block'.processed =>
       \A x \in Busses :
         /\ \A i \in Through(x) : Smooth(x, i) /\ FedSmoothly(x, i)
         /\ pb.bypass # "soft" => \A i \in Alone(x) : Smooth(x, i)]_vars
================================================================================
