------------------------------- MODULE Runtime -------------------------------
(* The tables and services around the actors and the evaluator's definitions *)
(* side by side: a behaviour picks one part and applies its operations.      *)
EXTENDS Integers, Sequences, FiniteSets, TLC

CONSTANTS
  RuntimeParts,                                         \* the parts looked at
  TableActors, EtsOwners, TableNames, TableKeys, TableValues,
  MaxRegistry, MaxTimers, MaxEtsTables, MaxEtsEntries, MaxDict, MaxTicks, MaxResets,
  Callers, MaxAgents, MaxAgentIds, MaxUpdates,
  AppNames, MaxApps, MaxSupervisors, EnvKeys, EnvValues, MaxAppEnv,
  MaxStages, MaxStageIds, MaxSubscribers, MaxStageOps, Pipelines, StageKinds,
  FlowSources, MaxFlows, MaxFlowSteps, MaxFlowOps,
  ModuleNames, SymbolNames, Aliases, MaxForms, MaxModuleDefs,
  RefineNames, RefinePreds, RefineBases, RefineValues, SharedSlot, RefineAnds, RefineOrs, MaxRefineOps,
  BuiltinTypes, ProgramTypes, TraitNames, OpLists, ImplLists, FDT_MAX_TRAITS, FDT_MAX_OPS, MaxTraitOps,
  AnnotatedNames, TypePool, TypedValues, MaxTypeOps,
  Nil

VARIABLES kind, obj, spec
vars == <<kind, obj, spec>>

AT == INSTANCE ActorTables
AS == INSTANCE ActorServices
MO == INSTANCE Modules
RE == INSTANCE Refinements
TR == INSTANCE Traits
TY == INSTANCE Types

Init ==
  /\ kind \in RuntimeParts
  /\ \/ kind = "tables" /\ AT!Init
     \/ kind = "services" /\ AS!Init
     \/ kind = "modules" /\ MO!Init
     \/ kind = "refinements" /\ RE!Init
     \/ kind = "traits" /\ TR!Init
     \/ kind = "types" /\ TY!Init

Next ==
  /\ UNCHANGED kind
  /\ \/ kind = "tables" /\ AT!Next
     \/ kind = "services" /\ AS!Next
     \/ kind = "modules" /\ MO!Next
     \/ kind = "refinements" /\ RE!Next
     \/ kind = "traits" /\ TR!Next
     \/ kind = "types" /\ TY!Next

Spec == Init /\ [][Next]_vars

-----------------------------------------------------------------------------
(* Properties. *)

\* The registry, the timers, the ETS tables and the process dictionaries answer
\* like the maps they stand for and forget an actor with its death, except for
\* what is added for it between its death and the sweep; agents, applications,
\* stages and flows keep their bounds and identities, a stage hands every event
\* on to those that subscribed before it, and a flow runs its steps in order, also
\* those that a function it calls adds.
ServicesSound ==
  /\ kind = "tables" => AT!TablesSound
  /\ kind = "services" => AS!ServicesSound

\* A name has the value of its last definition that its module shows, however
\* loads nest, fail and are answered from the cache; what is attributed to a
\* module was defined in it; and the cycle search finds the cycles there are.
ModulesSound == kind = "modules" => MO!ModulesSound

\* Subtyping keeps the values, inference gives a type the value has, validation
\* uses the declaration in force; a refinement answers what its predicate says
\* of the value, unless an answer was remembered from before a redefinition;
\* and a dispatch finds the operation that was given for the type, or the
\* trait's default.
TypesSound ==
  /\ kind = "types" => TY!TypesSound
  /\ kind = "refinements" => RE!RefinementsSound
  /\ kind = "traits" => TR!TraitsSound
=============================================================================
