--------------------------------- MODULE MCUGen ---------------------------------
(* Plugins and channels for model checking VSTPluginUGen. *)
EXTENDS VSTPluginUGen

Both(n, m) == [main |-> n, aux |-> m]
VST2 == [type |-> "vst2", own |-> FALSE, params |-> 2, outs |-> Both(2, 0)]
VST3 == [type |-> "vst3", own |-> FALSE, params |-> 1, outs |-> Both(2, 1)]
Self == [type |-> "vst2", own |-> TRUE,  params |-> 0, outs |-> Both(2, 0)]
Bare == [type |-> "vst3", own |-> FALSE, params |-> 0, outs |-> Both(2, 1)]
MCPlugins  == {VST2, VST3, Self, Bare}
MCRequests == [p \in MCPlugins |-> IF p.params > 0 THEN {"off"} ELSE Bypass]
MCIns  == Both(1, 1)
MCOuts == Both(3, 1)
MCNums == {-1, 0}
================================================================================
