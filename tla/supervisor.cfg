SPECIFICATION Spec
CONSTANTS
  web = web
  job = job
  main = main
  other = other
  Workers = {web, job}
  Callers = {main, other}
  Policy <- OnceOrNever
  MaxRestarts <- OneBudget
  RestartCap = 3
INVARIANTS TypeOK RestartBudget StatusAgrees StopDrains FailuresAreRestarted
PROPERTIES WaitIsComplete ResultIsOfLastRun StopReturnsAtLast FailureRunsAgain
