------------------------------ MODULE MCSearch ------------------------------
(* Three modules: one with two plugins, one VST3, one with awkward names.  *)
EXTENDS PluginSearch

Plugin(path, name, category, params, programs, shell) ==
    [path |-> path, name |-> name, category |-> category, params |-> params,
     programs |-> programs, shell |-> shell]

Two  == <<"two", ".so">>
One  == <<"one", ".vst3">>
Odd  == <<"odd", ".so">>
Gain == [name |-> <<"gain", ",", "x">>, label |-> <<"dB">>, id |-> "0"]
Mix  == [name |-> <<"mix">>, label |-> <<>>, id |-> "1"]

MCContents == (Two :> <<Plugin(Two, <<"a">>, <<>>, <<Gain, Mix>>, <<>>, <<>>),
                        Plugin(Two, <<"b">>, <<>>, <<>>, <<<<"p">>, <<"q", ",", "r">>>>, <<>>)>>)
           @@ (One :> <<Plugin(One, <<"a">>, <<"Fx">>, <<Mix>>, <<<<"p">>>>, <<>>)>>)
           @@ (Odd :> <<Plugin(Odd, <<"s">>, <<"Shell">>, <<>>, <<>>, <<<<"sub">>>>)>>)
MCTears == {5, 24, 50, 71}
MCDirectories == <<<<Two, One, Odd>>, <<Two>>>>

ASSUME \A m \in Modules : \A i \in DOMAIN Contents[m] : WellFormed(Contents[m][i])
=============================================================================
