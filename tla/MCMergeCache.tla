---------------------------- MODULE MCMergeCache ----------------------------
(***************************************************************************)
(* The merge cache with two sets of mods that share a file, one of which   *)
(* also ships a module and a file served from its folder.                  *)
(***************************************************************************)
EXTENDS MergeCache

CONSTANTS planA, planB, planC, v1, EUfr, USen, shared, onlyA, onlyB, module, link

MCLocaleLists == {{EUfr}}
MCBothLists == {{EUfr}, {EUfr, USen}}
MCContents == {shared, onlyA, onlyB, module}
MCMerged ==
  [pl \in Plans \X LocaleLists |->
     CASE pl[1] = planA -> {shared, onlyA}
       [] pl[1] = planB -> {shared, onlyB}
       [] OTHER -> {onlyA, onlyB}]
MCModules == [p \in Plans |-> IF p = planA THEN {module} ELSE {}]
MCLinked == [p \in Plans |-> IF p = planB THEN {link} ELSE {}]
\* As the files were made, the other way round, and by name.
MCListings == {EntryFiles, Reverse(EntryFiles), <<"code", "conflicts", "index", "locales", "patches", "plan", "profile", "stamp">>}
\* One read at a time, of those that decide something.
MCLostTogether ==
  {{<<"recent">>}, {<<"folders">>}, {<<"store">>}}
    \cup {{<<i, file>>} : i \in Ids, file \in {"stamp", "locales", "index", "patches", "code"}}
=============================================================================
