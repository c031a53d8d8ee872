----------------------------- MODULE Conflicts -----------------------------
(***************************************************************************)
(* The values several mods set differently, found before a merge           *)
(* (sharedlibs/totk-merge/src/conflicts.rs).                               *)
(***************************************************************************)
EXTENDS BymlMerge

\* key_text: how a row is named in the path of a value.
RowSegment(change) == IF change.key = NoKey THEN IndexSegment(change.index) ELSE <<"row", change.key>>

RECURSIVE Collect(_, _)

\* Mutant of Child: a removed key is no value.
ChildThatStays(path, value) == IF value = Removal THEN {} ELSE Collect(value, path)

\* child: a removed key or row is a value like another.
Child(path, value) == IF value = Removal THEN {[path |-> path, value |-> Removal]} ELSE Collect(value, path)

\* collect: the values a changelog sets, by path.  Additions to arrays are none.
Collect(node, path) ==
  CASE node.type = "map" ->
         UNION {Child(Append(path, KeySegment(key)), node.entries[key]) : key \in DOMAIN node.entries}
    [] node.type = "array changelog" ->
         UNION {LET change == node.changes[i]
                    here == Append(path, RowSegment(change))
                IN  CASE change.change = "add" -> {}
                      [] change.change = "remove" -> {[path |-> here, value |-> Removal]}
                      [] change.change = "edit" -> Child(here, change.node)
                : i \in DOMAIN node.changes}
    [] OTHER -> {[path |-> path, value |-> node]}

\* Mutant of Collisions: only values at one path are compared.
CollisionsOfValues(leaves) ==
  LET values(m, path) == {leaf.value : leaf \in {l \in leaves[m] : l.path = path}}
      sets(path) == {m \in DOMAIN leaves : values(m, path) # {}}
      paths == {leaf.path : leaf \in UNION {leaves[m] : m \in DOMAIN leaves}}
  IN  {path \in paths : \E m, n \in sets(path) : values(m, path) # values(n, path)}

\* collisions: the paths where mods (their leaves, lowest priority first) set
\* different values, or one replaces a node in which another sets one.
Collisions(leaves) ==
  LET values(m, path) == {leaf.value : leaf \in {l \in leaves[m] : l.path = path}}
      sets(path) == {m \in DOMAIN leaves : values(m, path) # {}}
      paths == {leaf.path : leaf \in UNION {leaves[m] : m \in DOMAIN leaves}}
      differ(path) == \E m, n \in sets(path) : values(m, path) # values(n, path)
      inside(path) == \E inner \in paths, m \in sets(path) : IsStrictPrefix(path, inner) /\ sets(inner) \ {m} # {}
  IN  {path \in paths : differ(path) \/ inside(path)}
=============================================================================
