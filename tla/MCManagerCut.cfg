SPECIFICATION Spec
CONSTANTS
  NameOrder <- MCNameOrder
  PackageFiles <- MCPackageFiles
  PluginFiles <- MCPluginFiles
  PatchFiles <- MCPatchFiles
  GameFolders <- MCGameFolders
  FolderOf <- MCFolderOf
  Export <- MCExport
  DefaultProfile = "p"
  NewNames = {"q"}
  Cards <- MCCards
  Archives <- MCArchives
  HandMods <- MCHandMods
  MaxEvents = 2
  MaxOf <- MCMaxOfCuts
INVARIANTS ChoicesSurvivePowerCuts
