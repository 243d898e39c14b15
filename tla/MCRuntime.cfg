SPECIFICATION Spec
CONSTANTS
  RuntimeParts = {"tables", "services", "modules", "refinements", "traits", "types"}
  TableActors = {1, 2}
  EtsOwners = {1}
  TableNames = {"n", "m"}
  TableKeys = {"k", "l"}
  TableValues = {"u", "v"}
  MaxRegistry = 2
  MaxTimers = 2
  MaxEtsTables = 2
  MaxEtsEntries = 2
  MaxDict = 2
  MaxTicks = 1
  MaxResets = 1
  Callers = {"c", "d"}
  MaxAgents = 1
  MaxAgentIds = 2
  MaxUpdates = 3
  AppNames = {"p", "q"}
  MaxApps = 2
  MaxSupervisors = 3
  EnvKeys = {"j", "k"}
  EnvValues = {"u", "v"}
  MaxAppEnv = 1
  MaxStages = 3
  MaxStageIds = 4
  MaxSubscribers = 2
  MaxStageOps = 4
  Pipelines <- MCPipelines
  StageKinds <- MCStageKinds
  FlowSources <- MCFlowSources
  MaxFlowSteps = 3
  MaxFlows = 2
  MaxFlowOps = 5
  ModuleNames = {"m", "n"}
  SymbolNames = {"x", "y"}
  Aliases = {"a"}
  MaxForms = 6
  MaxModuleDefs = 2
  RefineNames = {"P", "Q"}
  RefinePreds <- MCRefinePreds
  RefineBases = {"number", "any"}
  RefineValues <- MCRefineValues
  SharedSlot <- MCSharedSlot
  RefineAnds <- MCRefineAnds
  RefineOrs <- MCRefineOrs
  MaxRefineOps = 4
  BuiltinTypes = {"Number"}
  ProgramTypes = {"Point"}
  TraitNames = {"A", "B"}
  OpLists <- MCOpLists
  ImplLists <- MCImplLists
  FDT_MAX_TRAITS = 3
  FDT_MAX_OPS = 2
  MaxTraitOps = 4
  AnnotatedNames = {"f", "g"}
  TypePool <- MCTypePool
  TypedValues <- MCTypedValues
  MaxTypeOps = 3
  Nil = Nil
INVARIANTS
  ServicesSound ModulesSound TypesSound
CHECK_DEADLOCK FALSE
