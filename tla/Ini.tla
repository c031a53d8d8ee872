--------------------------------- MODULE Ini ---------------------------------
(***************************************************************************)
(* The INI dialect of the settings files (ini.rs of sharedlibs/totk-merge) *)
(* and what is kept in it: config.ini (config.rs), profiles (profile.rs),  *)
(* and the mod.ini of a mod (mods.rs).                                     *)
(*                                                                         *)
(* A file is a sequence of lines; how a line is spelled is left out, and   *)
(* so is the case of names.  A file cut short is a prefix of its lines.    *)
(***************************************************************************)
EXTENDS Naturals, SequencesExt

Section(name) == [kind |-> "section", key |-> name, value |-> ""]
Value(key, value) == [kind |-> "value", key |-> key, value |-> value]
Comment == [kind |-> "comment", key |-> "", value |-> ""]

Titled(name) == [name |-> name, entries |-> <<>>]
Unnamed == Titled("")

\* parse: the lines before the first header are the unnamed section.
ReadLine(sections, line) ==
  CASE line.kind = "section" -> Append(sections, Titled(line.key))
    [] line.kind = "value" -> [sections EXCEPT ![Len(sections)] = [name |-> @.name, entries |-> Append(@.entries, <<line.key, line.value>>)]]
    [] OTHER -> sections
Parse(lines) ==
  LET read[n \in 0..Len(lines)] == IF n = 0 THEN <<Unnamed>> ELSE ReadLine(read[n - 1], lines[n])
  IN read[Len(lines)]

\* Section::get takes the first line of a key, Config::parse the last.
Lookup(entries, key, fallback, last) ==
  LET found == {i \in 1..Len(entries) : entries[i][1] = key}
      place == IF last THEN Max(found) ELSE Min(found)
  IN IF found = {} THEN fallback ELSE entries[place][2]
Get(section, key, fallback) == Lookup(section.entries, key, fallback, FALSE)

Flag(value, fallback) == CASE value = "1" -> TRUE [] value = "0" -> FALSE [] OTHER -> fallback

\* The lines of a key in the unnamed section.
Headers(lines) == {i \in 1..Len(lines) : lines[i].kind = "section"}
LinesOf(lines, key) ==
  {i \in 1..Len(lines) : lines[i].kind = "value" /\ lines[i].key = key /\ \A j \in Headers(lines) : i < j}
IsSetOnce(lines, key) == lines \in Seq(ToSet(lines)) /\ \A i, j \in LinesOf(lines, key) : i = j

\* set_value: the first line of the key in the unnamed section, or a new one at its end.
SetValue(lines, key, value) ==
  LET headers == Headers(lines)
      there == LinesOf(lines, key)
      end == IF headers = {} THEN Len(lines) ELSE Min(headers) - 1
  IN IF there # {} THEN [lines EXCEPT ![Min(there)] = Value(key, value)]
     ELSE SubSeq(lines, 1, end) \o <<Value(key, value)>> \o SubSeq(lines, end + 1, Len(lines))

-----------------------------------------------------------------------------
(* config.ini: the active profile.                                         *)

ActiveProfile(lines) == Lookup(Parse(lines)[1].entries, "profile", "", TRUE)

-----------------------------------------------------------------------------
(* A profile: a list of mods, the winner first.  Of options, the one that  *)
(* is selected in each group; there is one group here.                     *)

Listed(folder, enabled, options) == [folder |-> folder, enabled |-> enabled, options |-> options]

\* The group there is, the key of its line, and what may be selected in it.
OptionGroup == "group"
OptionKey == "option.group"
OptionNames == {"", "on"}
Selected(option) == [group \in {OptionGroup} |-> option]

FoldersIn(list) == {list[i].folder : i \in 1..Len(list)}
FindEntry(list, folder) == {i \in 1..Len(list) : list[i].folder = folder}

\* to_ini: the lines of one mod.
EntryToIni(entry) ==
  <<Section("mod"), Value("folder", entry.folder), Value("enabled", IF entry.enabled THEN "1" ELSE "0")>>
  \o IF OptionGroup \in DOMAIN entry.options THEN <<Value(OptionKey, entry.options[OptionGroup])>> ELSE <<>>
ToIni(list) == <<Comment>> \o FlattenSeq([i \in 1..Len(list) |-> EntryToIni(list[i])])

OptionsIn(entries, key) ==
  IF \E i \in 1..Len(entries) : entries[i][1] = key THEN Selected(Lookup(entries, key, "", TRUE)) ELSE <<>>

\* Profile::parse: sections without a folder, and a folder's second one, are left out.
ReadSection(list, section) ==
  LET folder == Get(section, "folder", "") IN
  IF section.name # "mod" \/ folder = "" \/ FindEntry(list, folder) # {} THEN list
  ELSE Append(list, Listed(folder, Flag(Get(section, "enabled", "1"), TRUE), OptionsIn(section.entries, OptionKey)))
ListIn(sections) ==
  LET read[n \in 0..Len(sections)] == IF n = 0 THEN <<>> ELSE ReadSection(read[n - 1], sections[n])
  IN read[Len(sections)]
ParseProfile(lines) == ListIn(Parse(lines))

-----------------------------------------------------------------------------
(* mod.ini.                                                                *)

DefaultInfo == [name |-> "", version |-> "", enabled |-> TRUE, priority |-> 100, plugins |-> TRUE, options |-> <<>>]

\* What is not the default has a line; priority is a number, kept as one.
InfoToIni(info) ==
  LET Line(given, key, value) == IF given THEN <<Value(key, value)>> ELSE <<>>
  IN <<Value("name", info.name)>>
     \o Line(info.version # "", "version", info.version)
     \o Line(~info.enabled, "enabled", "0")
     \o Line(info.priority # 100, "priority", ToString(info.priority))
     \o Line(~info.plugins, "plugins", "0")
     \o IF DOMAIN info.options = {} THEN <<>>
        ELSE <<Section("options"), Value(OptionGroup, info.options[OptionGroup])>>

MaxPriority == 200
Priorities == 0..MaxPriority
ParseInfo(lines) ==
  LET sections == Parse(lines)
      top == sections[1].entries
      number == {n \in Priorities : ToString(n) = Lookup(top, "priority", "", TRUE)}
      options == {i \in 1..Len(sections) : sections[i].name = "options"}
  IN [name |-> Lookup(top, "name", "", TRUE), version |-> Lookup(top, "version", "", TRUE),
      enabled |-> Flag(Lookup(top, "enabled", "1", TRUE), TRUE),
      priority |-> IF number = {} THEN 100 ELSE CHOOSE n \in number : TRUE,
      plugins |-> Flag(Lookup(top, "plugins", "1", TRUE), TRUE),
      options |-> IF options = {} THEN <<>> ELSE OptionsIn(sections[Max(options)].entries, OptionGroup)]
=============================================================================
