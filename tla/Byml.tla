-------------------------------- MODULE Byml --------------------------------
(***************************************************************************)
(* BYML documents, and the changelogs of mods written in the same form     *)
(* (totk-formats/src/byml.rs), and how the entries of their arrays are     *)
(* told apart (sharedlibs/totk-merge/src/byml_keys.rs).                    *)
(*                                                                         *)
(* A node is a record with a type.  All kinds of scalar are one, and maps  *)
(* with hashed keys are maps: nothing below tells them apart.  Positions   *)
(* in arrays count from 1.                                                 *)
(***************************************************************************)
EXTENDS Naturals, Sequences, FiniteSets, SequencesExt

Scalar(value)       == [type |-> "scalar", value |-> value]
MapOf(entries)      == [type |-> "map", entries |-> entries]
ArrayOf(items)      == [type |-> "array", items |-> items]
ChangelogOf(changes) == [type |-> "array changelog", changes |-> changes]
Null    == [type |-> "null"]
Removal == [type |-> "changelog"]   \* Changelog(ChangeType::Remove)

IsContainer(node) == node.type \in {"map", "array", "array changelog"}
IsArray(node) == node.type = "array"

\* One change of an array changelog.
Change(index, kind, node, key) == [index |-> index, change |-> kind, node |-> node, key |-> key]

-----------------------------------------------------------------------------
(* Keys.  A pair of key fields is a key like another.                      *)

NoName  == "-"                      \* no array name, or no key field
NoKey   == [type |-> "no key"]

\* KeyName::get_key, try_get_key
KeyOf(node, field) ==
  IF node.type = "map" /\ field \in DOMAIN node.entries THEN node.entries[field] ELSE NoKey

\* create_index_cache: where a key is found; the last entry wins, 0 is nowhere.
IndexOf(items, field, key) ==
  LET at == {i \in DOMAIN items : KeyOf(items[i], field) = key}
  IN  IF key = NoKey \/ at = {} THEN 0 ELSE CHOOSE i \in at : \A j \in at : j <= i

\* common_key_name: a keyed array, one keyed in one type of document only, and
\* any other.
CommonKeyName(name, bgyml) ==
  CASE name = "Bones" -> "BoneName"
    [] name = "Actors" /\ bgyml = "bcett" -> "Hash"
    [] OTHER -> NoName

\* merger_key_name
MergerKeyName(name, bgyml) ==
  CASE name = "Property" -> "NameHash"
    [] name = "DefaultValue" -> IF bgyml = "Struct" THEN "Hash" ELSE NoName
    [] OTHER -> CommonKeyName(name, bgyml)

\* array_builder
ArrayBuilder(name, bgyml) ==
  CASE name = "Property" -> "NameHash"
    [] name = "Translate" -> "DirectIndex"
    [] CommonKeyName(name, bgyml) # NoName -> "Keyed"
    [] OTHER -> "Default"
=============================================================================
