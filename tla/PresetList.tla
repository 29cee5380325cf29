----------------------------- MODULE PresetList -----------------------------
(***************************************************************************)
(* The preset list of a plugin description (vst/Plugin.cpp, PluginInfo),   *)
(* as operators on a sequence of presets [name, path, type].  A path is    *)
(* the pair of a folder and a stem; the user's folder is the one that can  *)
(* be written.  The list is shared by all objects that have opened this    *)
(* plugin.                                                                 *)
(***************************************************************************)
EXTENDS Naturals, Sequences, SequencesExt, FiniteSetsExt

CONSTANTS Names,        \* names of presets and, without what a path cannot hold, stems
          Stem,         \* bashPath: from a name to the stem of its file
          Rank          \* stringCompare: the place of a name in the alphabet

ASSUME PresetAssumption == Stem \in [Names -> Names] /\ Rank \in [Names -> Nat]

User   == "user"
Shared == "shared"

Types  == {User, Shared}
Preset == [name : Names, path : Types \X Names, type : Types]

makePreset(name) == [name |-> name, path |-> <<User, Stem[name]>>, type |-> User]

Before(p, q) == Rank[p.name] < Rank[q.name]

\* the number of user presets before the first other one
UserPrefix(list) == Min({i \in DOMAIN list : list[i].type # User} \cup {Len(list) + 1}) - 1

\* std::sort: presets that compare equal come in any order
Sorted(list) == \A i, j \in DOMAIN list : i < j => ~Before(list[j], list[i])

sortPresets(list) ==
    LET n == UserPrefix(list)
        Arranged(p) == [i \in DOMAIN list |-> IF i <= n THEN list[p[i]] ELSE list[i]]
    IN  {s \in {Arranged(p) : p \in SetToSeqs(1 .. n)} : Sorted(SubSeq(s, 1, n))}

\* all presets of all folders, the name of each taken from its file
Scanned(path) == [name |-> path[2], path |-> path, type |-> path[1]]
scanPresets(files) == {list \in SetToSeqs({Scanned(path) : path \in files}) : Sorted(list)}

\* the place of the first preset of this name, or 0
findPreset(list, name) == Min({i \in DOMAIN list : list[i].name = name} \cup {Len(list) + 1})
                             % (Len(list) + 1)

isUser(list, index) == index \in DOMAIN list /\ list[index].type = User

removed(list, index) == RemoveAt(list, index)
renamed(list, index, name) == sortPresets([list EXCEPT ![index] = makePreset(name)])

\* a faulty variant: the preset is always inserted
Inserted(list, preset) ==
    LET n == UserPrefix(list)
        i == Min({j \in 1 .. n : Before(preset, list[j])} \cup {n + 1})
    IN  InsertAt(list, i, preset)

\* among the leading user presets: one of the same name is replaced, else it is inserted
\* before the first that comes after it
addPreset(list, preset) ==
    LET n == UserPrefix(list)
        i == Min({j \in 1 .. n : list[j].name = preset.name \/ Before(preset, list[j])}
                    \cup {n + 1})
    IN  IF i <= n /\ list[i].name = preset.name THEN [list EXCEPT ![i] = preset]
        ELSE InsertAt(list, i, preset)
=============================================================================
