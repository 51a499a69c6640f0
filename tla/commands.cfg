SPECIFICATION Spec
CONSTANTS
  XargsItems <- MCItems
  XargsNumbers = {0, 1, 2}
  XargsCodes = {0, 1, 2}
  FindTrees <- MCTrees
  FindQueries <- MCQueries
  FindStarts <- MCStarts
  MaxOthers = 1
  SedScripts <- MCScripts
  SedInputs <- MCInputs
  MaxIterations = 12
  MaxAddresses = 2
  CurlPolicies <- MCPolicies
  CurlOptions <- MCOptions
  CurlUrls <- MCUrls
  CurlAnswers <- MCAnswers
  DefaultMaxRedirects = 3
  TarPaths <- MCTarPaths
  TarIds = {1, 2, 3, 4, 5, 6, 7, 8, 9, 10}
  TarLimit = 0
  TarOrder <- MCTarOrder
  TarTrees <- MCTarTrees
  TarOptions <- MCTarOptions
  TarArchives <- MCArchives
  TarMaxEntries = 4
  TarMaxBytes = 9
  TarOthers <- MCTarOthers
  GzipRuns <- MCGzips
  SqliteRuns <- MCSqlite
  SqliteFiles <- MCFiles
  MaxDatabase = 4
  MaxResult = 4
  AwkPrograms <- MCAwk
  AwkInputs <- MCAwkInputs
  AwkSeparators <- MCSeparators
  MaxLoop = 3
  MaxDepth = 3
  AwkTexts <- MCAwkTexts
  GrepTrees <- MCGrepTrees
  GrepRuns <- MCGreps
  GrepDepth = 3
  CommonNames = {3}
  FindTexts <- MCFindTexts
  FindNumbers = {"1", "+1"}
  Exprs <- MCExprTexts
  MaxInteger = 127
  FileJobs <- MCFileJobs
  FileTrees <- MCFileTrees
  FilePaths <- MCFilePaths
  FileIds = {1, 2, 3, 4, 5, 6, 7, 8, 9, 10, 11, 12, 13, 14}
  FileLimit = 9
  FileOrder <- MCFileOrder
  Suffixes = {"a", "b"}
  MktempAttempts = 2
  PieceNames <- MCPieceNames
  Letters = 2
INVARIANTS XargsDelivers FindFinds SedIdioms CurlObeys ArchivesReturn SqliteSerializes AwkReads AwkReadsBack GrepSees FindReadsBack ExprComputes FilesAsTold
