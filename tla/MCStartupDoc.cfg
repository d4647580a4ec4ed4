SPECIFICATION Spec
CONSTANTS
  Written <- MCWritten
  Clis <- MCClis
  Envs <- MCEnvs
  SafeOutputs <- MCSafeOutputs
INVARIANTS
  ProcessesAreContainerized
  AgentsAreScoped
