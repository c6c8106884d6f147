SPECIFICATION Spec
CONSTANTS
  NULL = NULL
  Disks <- MCDisks
  Stdins <- MCStdins
  Commands <- MCCommands
  Compilations <- MCCompilations
  Executions <- MCExecutions
  UseCgroups = FALSE
  StdoutBytes = 3
  CompileBytes = 2
  CompileMemory = 10
  RunMemory = 10
INVARIANTS
  TypeOK
  VerdictIsEarned
  CompileErrorIsEarned
  VerdictIsFirstFailure
  HiddenShowsOnlyStderr
  VersionNamesTests
  CheckMeansChecked
PROPERTIES
  ImplementsCall
