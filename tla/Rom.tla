-------------------------------- MODULE Rom --------------------------------
(***************************************************************************)
(* The game's own files and how they are named: canonical names            *)
(* (sharedlibs/totk-merge/src/canonical.rs), the way back to a path of the *)
(* game's and what is read there (rom.rs), and the table of resource sizes *)
(* (merger.rs collect_size, totk-formats/src/rstb.rs).                     *)
(***************************************************************************)
EXTENDS Integers, SequencesExt

VARIABLE game  \* the dump, read at the start and never written:
               \* [number, files, lookup, address, versions, stems, hashes, sized, locales, build, shortest, shop]

-----------------------------------------------------------------------------
(* What a file holds.  A document is a function from its keys to values;   *)
(* how documents are compared and merged is DocumentMerge's subject.       *)

Content(type, of, value) == [type |-> type, of |-> of, value |-> value]
Document(values) == Content("document", values, "")
Changes(values) == Content("changes", values, "")
Archive(files) == Content("archive", files, "")
Whole(value) == Content("whole", <<>>, value)             \* bytes nobody takes apart
Patch(records) == Content("patch", records, "")           \* an .ips file: <<address, byte>>
Empty == Content("empty", <<>>, "")
Deleted == Content("deleted", <<>>, "")                   \* DELETED_MARK
Missing == Content("missing", <<>>, "")                   \* no file
Gone == "gone"                                            \* the value of a removed key

\* Name(dir, stem, ext): a canonical name.  A path adds what get_canonical strips.
Name(dir, stem, ext) == [dir |-> dir, stem |-> stem, ext |-> ext]
NoVersion == -1
Path(root, name, version, suffix) == [root |-> root, name |-> name, version |-> version, suffix |-> suffix]

\* get_canonical: the name, the version found in it, the suffix as an attribute.
Canonical(path) == [name |-> path.name, version |-> path.version, attribute |-> path.suffix]

\* exefs_patch_file: a code patch in Atmosphere's own layout.
IsPatchOfAtmosphere(path) == path.root = "exefs_patches" /\ path.name.ext \in {".ips", ".pchtxt"}

\* from_mod_path: the part of a mod a path belongs to; nothing else is read.
Root(path) ==
  IF IsPatchOfAtmosphere(path) THEN "exefs"
  ELSE IF path.root \in {"romfs", "exefs", "cheats", "extras"} THEN path.root ELSE "none"

-----------------------------------------------------------------------------
RelativePath(name, version, suffix) == [name |-> name, version |-> version, suffix |-> suffix]
Versioned == {"AI", "Event/EventFlow", "Effect", "Sequence", "Logic"}

\* canonical_to_relative: through the address table and the tables of versions.
Relative(name, attribute) ==
  LET addressed == IF name \in DOMAIN game.address THEN game.address[name] ELSE [name |-> name, version |-> NoVersion]
      version == IF addressed.name.dir \in Versioned /\ addressed.name \in DOMAIN game.versions
                 THEN game.versions[addressed.name] ELSE addressed.version
  IN  RelativePath(addressed.name, version, attribute)

Found(content) == [content |-> content, missing |-> FALSE]

\* get_nested: a file of a pack, through the lookup; "missing" when the pack
\* that should have it does not.
Nested(name) ==
  IF name \notin DOMAIN game.lookup THEN Found(Missing)
  ELSE LET pack == game.lookup[name]
           relative == Relative(pack.name, pack.attribute)
       IN  IF relative \in DOMAIN game.files /\ name \in DOMAIN game.files[relative].of
           THEN Found(game.files[relative].of[name])
           ELSE [content |-> Missing, missing |-> TRUE]

\* get_vanilla: a file of the game, or of one of its packs.
Vanilla(relative) ==
  IF relative \in DOMAIN game.files THEN Found(game.files[relative])
  ELSE IF relative.version = NoVersion /\ relative.suffix = "" THEN Nested(relative.name) ELSE Found(Missing)

\* A name read as a path, as the builders of packs do.
VanillaNamed(name) == Vanilla(RelativePath(name, NoVersion, "")).content

\* get_vanilla_canonical.
VanillaOf(name, attribute) == Vanilla(Relative(name, attribute)).content

\* locales: the ones the game has message archives for.
Locales == {relative.name.stem : relative \in {r \in DOMAIN game.files : r.name.dir = "Mals"}}

-----------------------------------------------------------------------------
(* The size table: sizes by hash, and by name where hashes collide.  A     *)
(* size is written as the content it is the size of.                       *)

SizeTable == [names |-> <<>>, hashes |-> game.sized, added |-> <<>>]
\* The hash of a name: its own, but for the names that share one.
Hash(resource) == IF resource \in DOMAIN game.hashes THEN game.hashes[resource] ELSE resource

\* resource_name: a path without its suffix.
Resource(relative) == <<relative.name, relative.version>>

With(f, key, value) == [x \in DOMAIN f \cup {key} |-> IF x = key THEN value ELSE f[x]]

\* get_size: what the game finds.
SizeIn(table, resource) ==
  LET hash == Hash(resource)
  IN  CASE resource \in DOMAIN table.names -> table.names[resource]
        [] resource \notin DOMAIN table.names /\ hash \in DOMAIN table.hashes -> table.hashes[hash]
        [] resource \notin DOMAIN table.names /\ hash \notin DOMAIN table.hashes /\ hash \in DOMAIN table.added -> table.added[hash]
        [] OTHER -> Missing

\* Mutant of CollectSize: a hash another mod's resource added is taken for the same resource.
CollectSizeByHash(table, resource, size) ==
  LET hash == Hash(resource)
  IN  IF hash \in DOMAIN table.hashes THEN [table EXCEPT !.hashes = With(@, hash, size)]
      ELSE [table EXCEPT !.added = With(@, hash, size)]

\* collect_size, with name_size, try_add_hash, has_original_hash and their setters.
CollectSize(table, resource, size) ==
  LET hash == Hash(resource)
  IN  CASE resource \in DOMAIN table.names -> [table EXCEPT !.names = With(@, resource, size)]
        [] resource \notin DOMAIN table.names /\ hash \notin DOMAIN table.hashes \cup DOMAIN table.added ->
             [table EXCEPT !.added = With(@, hash, size)]
        [] resource \notin DOMAIN table.names /\ hash \in DOMAIN table.added \ DOMAIN table.hashes ->
             [table EXCEPT !.names = With(@, resource, size)]
        [] resource \notin DOMAIN table.names /\ hash \in DOMAIN table.hashes ->
             [table EXCEPT !.hashes = With(@, hash, size)]
=============================================================================
