---------------------------- MODULE ModConflicts ----------------------------
(***************************************************************************)
(* What several mods change differently, found before they are merged      *)
(* (sharedlibs/totk-merge/src/conflicts.rs find).  "loaded" is a sequence  *)
(* of mods, lowest priority first, each a sequence of changelogs.          *)
(***************************************************************************)
EXTENDS ModMerge

\* The entries of a file, each with the mod it is of.
Members(loaded, name) ==
  FlattenSeq([m \in DOMAIN loaded |-> FlattenSeq([c \in DOMAIN loaded[m] |->
    LET here == SelectSeq(loaded[m][c].entries, LAMBDA e : e.name = name /\ e.kind # "Placeholder")
    IN  [k \in DOMAIN here |-> [mod |-> m, changelog |-> loaded[m][c], entry |-> here[k]]]])])

\* Every changelog, by its mod and its place there.
Places(loaded) == UNION {{<<m, c>> : c \in DOMAIN loaded[m]} : m \in DOMAIN loaded}
Names(loaded) == {e.name : e \in UNION {ToSet(loaded[t[1]][t[2]].entries) : t \in Places(loaded)}}

-----------------------------------------------------------------------------
(* Values: a function from the path of a value to what is set there.       *)

\* sarc_leaves: a file of an archive is a value, or holds values.
RECURSIVE FileLeaves(_, _)
ArchiveLeaves(archive) ==
  LET files == {name \in DOMAIN archive.of : archive.of[name] # Deleted}
      inner(name) == IF MergerFor(name) \in {"Byml", "Msbt"} THEN FileLeaves(MergerFor(name), archive.of[name]) ELSE <<>>
      under(name) == {<<name>> \o path : path \in DOMAIN inner(name)}
      whole == {<<name>> : name \in {n \in files : MergerFor(n) \notin {"Byml", "Msbt"}}}
  IN  [path \in whole \cup UNION {under(name) : name \in files} |->
         IF Len(path) = 1 THEN archive.of[path[1]] ELSE inner(path[1])[Tail(path)]]

\* file_leaves.
FileLeaves(kind, content) ==
  IF kind = "Sarc" THEN ArchiveLeaves(content) ELSE [path \in {<<key>> : key \in DOMAIN content.of} |-> content.of[path[1]]]

\* collisions: of the leaves of two mods or more, a mod's own later changelogs
\* over its earlier ones.
Collide(leaves) ==
  LET paths == UNION {DOMAIN leaves[m] : m \in DOMAIN leaves}
      sets(path) == {m \in DOMAIN leaves : path \in DOMAIN leaves[m]}
  IN  \E path \in paths :
        \/ \E m, n \in sets(path) : leaves[m][path] # leaves[n][path]
        \/ \E inner \in paths, m \in sets(path) : IsStrictPrefix(path, inner) /\ sets(inner) \ {m} # {}

LeavesByMod(items) ==
  LET of(m) == FoldLeft(LAMBDA all, item : item.leaves @@ all, <<>>, SelectSeq(items, LAMBDA item : item.mod = m))
  IN  [m \in {items[i].mod : i \in DOMAIN items} |-> of(m)]

-----------------------------------------------------------------------------
\* file_conflict: the same file in several mods is none.
FileConflict(members) ==
  LET mods == {members[i].mod : i \in DOMAIN members}
      last(m) == SelectLastInSeq(members, LAMBDA member : member.mod = m)
      versions == {ReadMember(members[last(m)]) : m \in mods}
  IN  Missing \in versions \/ Cardinality(versions) > 1

\* value_conflict: nothing is said of a file that cannot be read.
ValueConflict(kind, members) ==
  LET content == [i \in DOMAIN members |-> ReadMember(members[i])]
      readable == \A i \in DOMAIN members : content[i].type \in (IF kind = "Sarc" THEN {"archive"} ELSE {"document", "changes"})
  IN  readable /\ Collide(LeavesByMod([i \in DOMAIN members |-> [mod |-> members[i].mod, leaves |-> FileLeaves(kind, content[i])]]))

\* Mutant of Conflict: packs and files nobody takes apart only ever add up.
ConflictOfValues(name, members) ==
  MergerFor(name) \notin {"None", "Bntx", "RsdbTag", "Pack"} /\ ValueConflict(MergerFor(name), members)

\* A round of find.
Conflict(name, members) ==
  CASE MergerFor(name) \in {"None", "Bntx"} -> FileConflict(members)
    [] MergerFor(name) \in {"RsdbTag", "Pack"} -> FALSE
    [] OTHER -> ValueConflict(MergerFor(name), members)

\* text_conflicts: the texts of one locale, mod by mod, file by file.
TextConflicts(loaded, locale) ==
  LET texts == {t \in Places(loaded) : loaded[t[1]][t[2]].mals # <<>>}
      archive(t) == LET changelog == loaded[t[1]][t[2]] IN Read(changelog, Stored(BestMals(changelog.mals, locale), NoVersion))
      readable == {t \in texts : archive(t).type = "archive"}
      files(t) == {name \in DOMAIN archive(t).of : archive(t).of[name].type \in {"document", "changes"}}
      holding(name) == SetToSortSeq({t \in readable : name \in files(t)}, LAMBDA s, t : s[1] < t[1] \/ (s[1] = t[1] /\ s[2] < t[2]))
      leaves(name) == [i \in DOMAIN holding(name) |->
                         LET t == holding(name)[i] IN [mod |-> t[1], leaves |-> FileLeaves("Msbt", archive(t).of[name])]]
  IN  {name \in UNION {files(t) : t \in readable} : Collide(LeavesByMod(leaves(name)))}

\* find: files, and texts, several mods change differently.
Conflicting(loaded, locale) ==
  LET shared == {name \in Names(loaded) : \E i, j \in DOMAIN Members(loaded, name) : Members(loaded, name)[i].mod # Members(loaded, name)[j].mod}
  IN  {name \in shared : Conflict(name, Members(loaded, name))} \cup TextConflicts(loaded, locale)
=============================================================================
