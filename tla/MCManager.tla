------------------------------- MODULE MCManager -------------------------------
(***************************************************************************)
(* The manager on a card with a mod, a package and a profile that lists a  *)
(* third one, or one the manager never saw; two downloads of the third,    *)
(* one with files for the game and a plugin, the other with files only.    *)
(***************************************************************************)
EXTENDS Manager

MCNameOrder == <<"RomFSlite", "a", "b", "c", "c.tkcl", "downloads", "exefs", "f", "mod.ini", "p", "q", "romfs", "x.nro">>
MCPackageFiles == {"c.tkcl"}
MCPluginFiles == {"x.nro"}
MCPatchFiles == {}
MCGameFolders == {"Pack"}
MCFolderOf == "c.tkcl" :> "c"
MCExport == <<>>

Files1 == (<<>> :> "dir") @@ (<<"romfs">> :> "dir") @@ (<<"romfs", "f">> :> "v1")
FilesAndPlugin == (<<"x.nro">> :> "v1") @@ Files1
OtherFiles == (<<>> :> "dir") @@ (<<"romfs">> :> "dir") @@ (<<"romfs", "f">> :> "v2")

At(folder, files) == [p \in {ModPath(folder) \o q : q \in DOMAIN files} |-> files[SubSeq(p, 3, Len(p))]]
Named(folder, version) == [DefaultInfo EXCEPT !.name = folder, !.version = version]

MCArchives == ("b1" :> [tree |-> FilesAndPlugin, folder |-> "b", info |-> Named("b", "v1")])
           @@ ("b2" :> [tree |-> OtherFiles, folder |-> "b", info |-> Named("b", "v2")])
MCHandMods == "b" :> FilesAndPlugin

\* Never opened: a mod of low priority, and a package left among the mods.
NewCard ==
  [tree |-> At("a", Files1) @@ (ModsDir \o <<"c.tkcl">> :> "v0"),
   texts |-> (IniOf("a") :> InfoToIni([Named("a", "") EXCEPT !.priority = 10])) @@ (IniOf("c.tkcl") :> InfoToIni([Named("a", "") EXCEPT !.enabled = FALSE]))]
\* A profile that lists b, which is not installed.
UsedCard ==
  [tree |-> At("a", Files1) @@ At("c", (<<>> :> "dir") @@ (<<"c.tkcl">> :> "v0")),
   texts |-> (ConfigFile :> <<Comment, Value("profile", "p")>>)
             @@ (ProfileFile("p") :> ToIni(<<Listed("a", TRUE, <<>>), Listed("b", FALSE, <<>>), Listed("c", TRUE, Selected("on"))>>))]
MCMaxOf == [acts |-> 3, installs |-> 2, hand |-> 1, faults |-> 1, cuts |-> 1]
\* Nothing fails, the power may go.
MCMaxOfCuts == [acts |-> 3, installs |-> 2, hand |-> 1, faults |-> 0, cuts |-> 1]

MCCards == {NewCard, UsedCard}
=============================================================================
