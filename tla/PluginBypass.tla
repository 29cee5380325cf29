------------------------------ MODULE PluginBypass ------------------------------
(***************************************************************************)
(* How a plugin instance is bypassed (vst/VST2Plugin.cpp and               *)
(* vst/VST3Plugin.cpp; the two agree but for the aux bus).                 *)
(*                                                                         *)
(* Samples are abstracted to gains.  One call of process() works on one    *)
(* block; a pair <<a, b>> is a gain that moves from a to b within it.      *)
(* A channel of the output is  dry * input + wet * plugin,  and the plugin *)
(* hears  feed * input.                                                    *)
(***************************************************************************)
EXTENDS Naturals

Bypass == {"off", "hard", "soft"}

\* bypass_, lastBypass_ and bypassSilent_
BypassStates == [bypass : Bypass, last : Bypass, silent : BOOLEAN]
NotBypassed  == [bypass |-> "off", last |-> "off", silent |-> FALSE]

Flat(g)  == <<g, g>>
Rev(g)   == <<1 - g[1], 1 - g[2]>>
Gains    == {Flat(0), Flat(1), <<0, 1>>, <<1, 0>>}
Channels == [dry : Gains, wet : Gains]
Silence  == [dry |-> Flat(0), wet |-> Flat(0)]

\* Faulty: the change from hard to soft bypass and back is taken.
SetBypassAnyChange(b, state) ==
  IF state = b.bypass THEN b
  ELSE [bypass |-> state, last |-> b.bypass, silent |-> FALSE]

\* hard <-> soft is ignored
SetBypass(b, state) ==
  IF state = b.bypass \/ "off" \notin {state, b.bypass} THEN b
  ELSE [bypass |-> state, last |-> b.bypass, silent |-> FALSE]

\* Does this block cross from processing to bypass or back?
Changing(b) == b.bypass # b.last
Kind(b) == IF ~Changing(b) THEN b.bypass
           ELSE IF "hard" \in {b.bypass, b.last} THEN "hard" ELSE "soft"
\* a plugin with a bypass of its own handles hard bypass itself
Handled(b, own) == IF own /\ Kind(b) = "hard" THEN "off" ELSE Kind(b)
Ramp(b, own)    == Changing(b) /\ Handled(b, own) # "off"
\* the share of the processed signal: rampDir at the first sample
Mix(b)          == IF b.bypass = "off" THEN <<0, 1>> ELSE <<1, 0>>
\* after the tail has died away the plugin is not called
Called(b, own)  == Handled(b, own) = "off" \/ Ramp(b, own) \/ ~b.silent

\* What an input channel of the plugin hears of the host's input.  In a soft
\* ramp the faded input is written to the output buffer of the same number,
\* so a channel without one hears silence.
Feed(b, own, hasInput, hasOutput) ==
  LET kind == Handled(b, own) IN
  IF ~hasInput \/ ~Called(b, own) THEN Flat(0)
  ELSE IF kind = "off" THEN Flat(1)
  ELSE IF ~Ramp(b, own) THEN Flat(0)
  ELSE IF kind = "hard" THEN Flat(1)
  ELSE IF hasOutput THEN Mix(b) ELSE Flat(0)

\* An output channel that the plugin writes.
Output(b, own, hasInput) ==
  LET kind == Handled(b, own)
      dry(g) == IF hasInput THEN g ELSE Flat(0)
  IN
  CASE kind = "off" -> [dry |-> Flat(0), wet |-> Flat(1)]
    [] kind # "off" /\ Ramp(b, own) ->
         [dry |-> dry(Rev(Mix(b))),
          wet |-> IF kind = "soft" /\ hasInput THEN Flat(1) ELSE Mix(b)]
    [] kind # "off" /\ ~Ramp(b, own) ->
         [dry |-> dry(Flat(1)),
          wet |-> IF kind = "soft" /\ ~b.silent THEN Flat(1) ELSE Flat(0)]

\* process() leaves lastBypass_ = bypass_; while the plugin is flushed with
\* silence it looks whether the output has become silent.
Processed(b, own, quiet) ==
  [b EXCEPT !.last = b.bypass,
            !.silent = IF Handled(b, own) = "off" \/ Changing(b) THEN @
                       ELSE @ \/ quiet]

\* The buffers of one bus after process(): channels the plugin does not have
\* are cleared.  plugin.outs["main"] is getNumOutputs(), plugin.outs["aux"] is
\* getNumAuxOutputs(); VST2 plugins have no aux bus.
VST2Output(b, plugin, bus, i, ins) ==
  IF bus = "aux" \/ i > plugin.outs["main"] THEN Silence
  ELSE Output(b, plugin.own, i <= ins)

VST3Output(b, plugin, bus, i, ins) ==
  IF i > plugin.outs[bus] THEN Silence ELSE Output(b, plugin.own, i <= ins)

VST3Feed(b, plugin, i, ins, outs) == Feed(b, plugin.own, i <= ins, i <= outs)
================================================================================
