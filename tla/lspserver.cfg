SPECIFICATION ClientSpec
CONSTANTS
  Untitled = Untitled
  Main = Main
  Lib = Lib
  Package = Package
  Manifest = Manifest
  Uris = {Untitled, Main, Lib}
  Project = {Main, Lib}
  Ids = {1, 2}
  Profiles <- MCProfiles
  MaxSends = 4
INVARIANTS AnswersTheTextAsked PublishesAdvance NothingLeftShowing
PROPERTIES NoReplacedAnalysis Answered NewestAnalysed EndsWithInput
CHECK_DEADLOCK FALSE
