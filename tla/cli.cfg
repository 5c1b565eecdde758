CONSTANTS
  Custom <- MCCustom
  ApiLists <- MCApiLists
  Lines <- MCLines
  Answers = {"", "yes", "9007199254740993"}
  Reads <- MCReads
  Configs <- MCConfigs
  BadAddr = {"no port"}
  Renders <- MCRenders
  HelpPath <- MCHelpPath
  ServiceSuffix <- MCServiceSuffix
  CreateSuffix <- MCCreateSuffix
  UpdateSuffix <- MCUpdateSuffix
  NoService = "none"
SPECIFICATION FairSpec
INVARIANTS TypeOK ShortestPathRuns SentAsAnswered HelpIsWhole
PROPERTIES ConfigSurvives LineAnswered RegistrationGetsThrough
