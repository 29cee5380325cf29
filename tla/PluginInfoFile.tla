--------------------------- MODULE PluginInfoFile ---------------------------
(***************************************************************************)
(* The text form of plugin descriptions (vst/Plugin.cpp, PluginInfo::      *)
(* serialize and deserialize) and of the cache file made of them           *)
(* (vst/PluginManager.h, doWrite and read).  The cache file is how a       *)
(* search of one session reaches the next one, and the same text carries a *)
(* description from the probe process to the host.                         *)
(*                                                                         *)
(* A text is a sequence of tokens; "," and NL are tokens of their own, so  *)
(* that what they do to a line based format can be told.  A line is what   *)
(* stands between two NL.  Of the scalar fields path, name and category    *)
(* are kept; the others are written and read as they are.                  *)
(***************************************************************************)
EXTENDS Naturals, Sequences, SequencesExt, TLC

NL == "newline"
Hex == {"0", "1", "2"}                 \* ids of parameters
Counts == 0 .. 9                       \* the n of the lists
Numerals == {ToString(n) : n \in Counts}

NewDesc == [path |-> <<>>, name |-> <<>>, category |-> <<>>,
            params |-> <<>>, programs |-> <<>>, shell |-> <<>>]
NewParam == [name |-> <<>>, label |-> <<>>, id |-> "0"]

Concat(seqs) == FoldLeft(LAMBDA all, s : all \o s, <<>>, seqs)

-----------------------------------------------------------------------------
(* Writing: a stream of tokens, every piece followed by a newline.         *)

bashString(text) == [i \in DOMAIN text |-> IF text[i] \in {",", NL} THEN "_" ELSE text[i]]

\* a section, its number of items, and each of them as it is written
WriteList(section, items) ==
    <<section, NL, "n", "=", ToString(Len(items)), NL>> \o Concat(items)

WriteText(text)   == text \o <<NL>>
WriteTexts(texts) == [i \in DOMAIN texts |-> WriteText(texts[i])]
\* a faulty variant: the parameter's name is written as it is
WriteParamRaw(param) == param.name \o <<",">> \o param.label \o <<",", param.id, NL>>
WriteParam(param) == bashString(param.name) \o <<",">> \o param.label \o <<",", param.id, NL>>

Serialize(desc) ==
    <<"[plugin]", NL>>
        \o <<"path", "=">> \o WriteText(desc.path)
        \o <<"name", "=">> \o WriteText(desc.name)
        \o <<"category", "=">> \o WriteText(desc.category)
        \o WriteList("[parameters]", [i \in DOMAIN desc.params |-> WriteParam(desc.params[i])])
        \o WriteList("[programs]", WriteTexts(desc.programs))
        \o (IF desc.shell # <<>> THEN WriteList("[shell]", WriteTexts(desc.shell)) ELSE <<>>)

\* entries: [desc |-> PluginInfo, keys |-> its keys], one for each plugin that has a key
WriteEntry(entry) == Serialize(entry.desc) \o WriteList("[keys]", WriteTexts(entry.keys))

CacheFile(entries, exceptions) ==
    WriteList("[plugins]", [i \in DOMAIN entries |-> WriteEntry(entries[i])]) \o WriteList("[ignore]", WriteTexts(exceptions))

-----------------------------------------------------------------------------
(* Reading, one line at a time.  "mode" is where the reader stands:        *)
(*   "file"       the loop of PluginManager::read                          *)
(*   "plugin"     the loop of deserialize, "keys?" after it                *)
(*   "<list> n"   the line n=<count> of a list is next; then "<list>"      *)
(*   "error"      an Error was thrown; "crash": another exception, which   *)
(*                nobody catches                                           *)

Lines(stream) ==
    FoldLeft(LAMBDA ls, token : IF token = NL THEN Append(ls, <<>>)
                                ELSE [ls EXCEPT ![Len(ls)] = Append(@, token)],
             <<<<>>>>, stream)

splitString(text, sep) ==
    FoldLeft(LAMBDA args, token : IF token = sep THEN Append(args, <<>>)
                                  ELSE [args EXCEPT ![Len(args)] = Append(@, token)],
             <<<<>>>>, text)

Start == [mode |-> "file", left |-> 0, plugins |-> 0, start |-> FALSE, desc |-> NewDesc,
          keys |-> <<>>, entries |-> <<>>, exceptions |-> <<>>]

Go(s, mode)    == [s EXCEPT !.mode = mode]
Fresh(s)       == [s EXCEPT !.desc = NewDesc, !.keys = <<>>, !.start = FALSE]
\* deserialize has returned: the keys are read next
Described(s)   == Go(s, "keys?")
\* the entry is complete: the next one, or the loop of read again
Stored(s)      == [Fresh(s) EXCEPT !.entries = Append(@, [desc |-> s.desc, keys |-> s.keys]),
                                   !.plugins = @ - 1,
                                   !.mode = IF s.plugins > 1 THEN "plugin" ELSE "file"]

\* what follows the last line of a list
Listed(s) == CASE s.mode \in {"[plugins]", "[ignore]"} -> Go(s, "file")
               [] s.mode = "[parameters]" -> Go(s, "plugin")
               [] s.mode = "[programs]"   ->
                     IF s.desc.category # <<"Shell">> THEN Described(s) ELSE Go(s, "plugin")
               [] s.mode = "[shell]"      -> Described(s)
               [] s.mode = "[keys]"       -> Stored(s)

ListNames == {"[plugins]", "[ignore]", "[parameters]", "[programs]", "[shell]", "[keys]"}
CountOf == [name \in ListNames |-> name \o " n"]
IsCount(s)  == \E name \in ListNames : s.mode = CountOf[name]

\* getCount: the line must hold "=" and a number; a list of none ends at once,
\* and the plugins are not a list of lines
BeginList(s, name, n) ==
    IF name = "[plugins]" /\ n > 0
    THEN [Fresh(s) EXCEPT !.mode = "plugin", !.plugins = n]
    ELSE IF n = 0 THEN Listed(Go(s, name)) ELSE [s EXCEPT !.mode = name, !.left = n]
getCount(s, line) ==
    IF Len(line) = 3 /\ line[2] = "=" /\ line[3] \in Numerals
    THEN BeginList(s, CHOOSE l \in ListNames : s.mode = CountOf[l],
                   CHOOSE n \in Counts : ToString(n) = line[3])
    ELSE Go(s, "error")

\* a parameter: name, label and id are the first three fields; the id is converted
\* outside of any try block
ParamOf(args) ==
    IF Len(args) < 2 THEN NewParam
    ELSE [name |-> args[1], label |-> args[2],
          id |-> IF Len(args) >= 3 THEN args[3][1] ELSE NewParam.id]
ReadArgs(s, args) ==
    IF Len(args) >= 3 /\ (Len(args[3]) # 1 \/ args[3][1] \notin Hex)
    THEN Go(s, "crash")
    ELSE [s EXCEPT !.desc.params = Append(@, ParamOf(args))]

ReadItem(s, line) ==
    CASE s.mode = "[parameters]" -> ReadArgs(s, splitString(line, ","))
      [] s.mode = "[programs]"   -> [s EXCEPT !.desc.programs = Append(@, line)]
      [] s.mode = "[shell]"      -> [s EXCEPT !.desc.shell = Append(@, line)]
      [] s.mode = "[keys]"       -> [s EXCEPT !.keys = Append(@, line)]
      [] s.mode = "[ignore]"     -> [s EXCEPT !.exceptions = Append(@, line)]

Counted(s, left) ==
    IF s.mode = "crash" THEN s
    ELSE IF left = 0 THEN Listed([s EXCEPT !.left = 0]) ELSE [s EXCEPT !.left = left]
ReadList(s, line) == Counted(ReadItem(s, line), s.left - 1)

\* a line of a description outside of a list; a section clears its list first
ReadField(s, line) ==
    LET isKey == \E i \in DOMAIN line : line[i] = "="
        value == SubSeq(line, 3, Len(line))
    IN  IF line = <<"[plugin]">> THEN [s EXCEPT !.start = TRUE]
        ELSE IF line = <<"[parameters]">>
        THEN [s EXCEPT !.desc.params = <<>>, !.mode = CountOf["[parameters]"]]
        ELSE IF line = <<"[programs]">>
        THEN [s EXCEPT !.desc.programs = <<>>, !.mode = CountOf["[programs]"]]
        ELSE IF line = <<"[shell]">>
        THEN [s EXCEPT !.desc.shell = <<>>, !.mode = CountOf["[shell]"]]
        ELSE IF ~s.start \/ ~isKey THEN Go(s, "error")
        ELSE CASE line[1] = "path"     -> [s EXCEPT !.desc.path = value]
               [] line[1] = "name"     -> [s EXCEPT !.desc.name = value]
               [] line[1] = "category" -> [s EXCEPT !.desc.category = value]
               [] OTHER                -> s                    \* unknown key: a warning

ReadLine(s, line) ==
    IF s.mode \in {"error", "crash"} THEN s
    ELSE IF IsCount(s) THEN getCount(s, line)
    ELSE IF s.mode \in ListNames THEN ReadList(s, line)
    ELSE IF line = <<>> \/ line[1] \in {"#", ";"} THEN s       \* getLine
    ELSE IF s.mode = "keys?"
    THEN IF line = <<"[keys]">> THEN Go(s, CountOf["[keys]"]) ELSE Go(s, "error")
    ELSE IF s.mode = "plugin" THEN ReadField(s, line)
    ELSE IF line = <<"[plugins]">> THEN Go(s, CountOf["[plugins]"])
    ELSE IF line = <<"[ignore]">> THEN Go(s, CountOf["[ignore]"])
    ELSE Go(s, "error")

\* the end of the file: a count that is missing is an Error; whatever entry is under
\* way is stored as it is, without keys, and the entries that are missing are empty ones
AtEnd(s) ==
    IF s.mode \in {"error", "crash"} THEN s
    ELSE IF IsCount(s) THEN Go(s, "error")
    ELSE IF s.mode \in {"file", "[ignore]"} THEN Go(s, "file")
    ELSE [s EXCEPT !.entries = @ \o <<[desc |-> s.desc, keys |-> s.keys]>>
                                \o [i \in 1 .. s.plugins - 1 |-> [desc |-> NewDesc, keys |-> <<>>]],
                   !.mode = "file"]

\* a stream ends with a newline, which begins no further line
Complete(ls) == IF ls[Len(ls)] = <<>> THEN SubSeq(ls, 1, Len(ls) - 1) ELSE ls
Deserialize(stream) == AtEnd(FoldLeft(ReadLine, Start, Complete(Lines(stream))))

-----------------------------------------------------------------------------
\* what the format can carry: no newline outside of a parameter's name, no comma in a
\* label, and a shell's category only with its list of plugins
Plain(text)    == \A i \in DOMAIN text : text[i] \notin {NL, ","}
WellFormed(desc) ==
    /\ \A text \in {desc.path, desc.name, desc.category} : Plain(text)
    /\ \A i \in DOMAIN desc.params : Plain(desc.params[i].label)
    /\ \A i \in DOMAIN desc.programs : NL \notin ToSet(desc.programs[i])
    /\ desc.category = <<"Shell">> => desc.shell # <<>>

\* what comes back of a description: the parameters' names are bashed
Carried(desc) ==
    [desc EXCEPT !.params = [i \in DOMAIN @ |-> [@[i] EXCEPT !.name = bashString(@)]]]
=============================================================================
