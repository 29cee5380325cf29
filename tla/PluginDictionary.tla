-------------------------- MODULE PluginDictionary --------------------------
(***************************************************************************)
(* PluginManager (vst/PluginManager.h): the modules that were loaded       *)
(* ("factories"), the plugins by their keys, and the black-listed modules, *)
(* as operators on a record.  Every operator takes the manager's lock for  *)
(* its whole length, so each is one step.                                  *)
(*                                                                         *)
(* A factory is the sequence of the plugins it is known to hold.  Plugins  *)
(* are compared by what they describe, where the code compares addresses.  *)
(***************************************************************************)
EXTENDS PluginInfoFile, FiniteSets

clear == [factories |-> <<>>, plugins |-> <<>>, exceptions |-> {}]

\* std::map::operator[] on the left of an assignment
Put(map, key, value) == [k \in DOMAIN map \cup {key} |-> IF k = key THEN value ELSE map[k]]

addFactory(dict, path, plugins) == [dict EXCEPT !.factories = Put(@, path, plugins)]
findFactory(dict, path)         == path \in DOMAIN dict.factories
addException(dict, path)        == [dict EXCEPT !.exceptions = @ \cup {path}]
isException(dict, path)         == path \in dict.exceptions
addPlugin(plugins, key, plugin) == Put(plugins, key, plugin)
findPlugin(dict, key)           == key \in DOMAIN dict.plugins

\* the inverse mapping, from a plugin to its keys
KeysOf(dict, plugin) == {key \in DOMAIN dict.plugins : dict.plugins[key] = plugin}
Entries(dict) ==
    SetToSeq({[desc |-> plugin, keys |-> SetToSeq(KeysOf(dict, plugin))]
                : plugin \in {dict.plugins[key] : key \in DOMAIN dict.plugins}})

doWrite(dict) == CacheFile(Entries(dict), SetToSeq(dict.exceptions))

-----------------------------------------------------------------------------
(* Reading the cache file.  "loadable" are the modules IFactory::load      *)
(* would load: a plugin whose module is gone is skipped.                   *)

\* factory->addPlugin, with a factory of its own for the first plugin of a module
ReadFactory(factories, desc) ==
    LET known == IF desc.path \in DOMAIN factories THEN factories[desc.path] ELSE <<>>
    IN  Put(factories, desc.path, Append(known, desc))
ReadFactories(factories, entries) ==
    FoldLeft(LAMBDA fs, entry : ReadFactory(fs, entry.desc), factories, entries)

\* a plugin is entered with all its keys
ReadKeys(plugins, entries) ==
    FoldLeft(LAMBDA ps, entry : FoldLeft(LAMBDA qs, key : Put(qs, key, entry.desc), ps, entry.keys),
             plugins, entries)

\* a plugin is left out if its module is gone, which makes the file outdated; an Error
\* keeps what was read before it
There(entries, known)    == SelectSeq(entries, LAMBDA entry : entry.desc.path \in known)
Outdated(entries, known) == \E i \in DOMAIN entries : entries[i].desc.path \notin known
Enter(dict, s, known) ==
    [factories  |-> ReadFactories(dict.factories, There(s.entries, known)),
     plugins    |-> ReadKeys(dict.plugins, There(s.entries, known)),
     exceptions |-> dict.exceptions \cup ToSet(s.exceptions)]
Update(dict, s, stream, outdated) ==
    [dict  |-> dict,
     crash |-> s.mode = "crash",
     file  |-> IF outdated /\ s.mode = "file" THEN doWrite(dict) ELSE stream]
ReadFile(dict, s, stream, known) ==
    Update(Enter(dict, s, known), s, stream, Outdated(s.entries, known))
read(dict, stream, loadable) ==
    ReadFile(dict, Deserialize(stream), stream, loadable \cup DOMAIN dict.factories)
=============================================================================
