\* The agent, and each part of the SDK that shares no state with it.
CONSTANTS
  Names = {"lookup", "joke"}
  AppNames = {"lookup"}
  Skills <- MCSkills
  Registered = {"joke", "custom"}
  Multiple = {"custom"}
  SkillTools <- MCSkillTools
  SkillData <- MCSkillData
  CopyTools <- MCNoTools
  Calls = {c1, c2}
  Hosted = {a1, a2}
  Lifetime = 1
  MaxNow = 2
  MaxSkills = 2
  MaxData = 2
  None = None
  ContextNames = {"default", "other"}
  StepNames = {"a", "b"}
  Fields = {"text"}
  Actions = {"", "next_step", "b"}
  ToolNames = {"lookup", "next_step"}
  MaxContexts = 2
  MaxSteps = 2
  MaxListed = 4
  Routes <- MCRoutes
  Order <- MCOrder
  Bases <- MCBases
  MaxHostCalls = 3
  Titles = {"a", "b"}
  Appended = {"hints"}
  Replaced = {"languages"}
  PromptKeys = {"text"}
  Verbs = {"play"}
  MaxDocumentCalls = 5
  Timeouts <- MCTimeouts
  ErrorKeys = {"k"}
  Parameters = {"p"}
  MaxActions = 1
  MaxMapCalls = 3
  ParameterNames <- MCParameterNames
  BodyHash = "bodySHA256"
  Urls <- MCUrls
  Bodies <- MCBodies
  SigningKeys = {"k1", "k2"}
  SigningKey = "k1"
  Options <- MCOptions
  MaxBindings = 3
  Listing <- MCListing
SPECIFICATION MCSpec
SYMMETRY MCSymmetry
INVARIANTS RegistryIsConsistent LoadedSkillServes  SecureRunsByToken
  ValidFlowNavigates RenderersAgree  HooksAreServed CopyRendersAlike
  FunctionFollowsItsCalls ChangedIsRefused GenuineJsonIsAccepted ReturnedTookEffect
  AllItemsInOrder
CHECK_DEADLOCK FALSE
