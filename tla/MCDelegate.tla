------------------------------- MODULE MCDelegate -------------------------------
EXTENDS VSTPluginDelegate, TLC

\* plugin instances and command slots are interchangeable
Symmetry == Permutations(Plugins) \cup Permutations(Slots)
================================================================================
