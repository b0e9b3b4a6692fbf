SPECIFICATION Spec
CONSTANTS
  Agents = {a, b}
  Nobody = Nobody
  AgentBudget = 1
  DefaultBudget = 2
  TokenSizes = {1}
  Importances = {1}
  WarmLimit = 1
  RecallLimit = 1
  MaxRecords = 3
  MaxSnaps = 1
  MaxFaults = 2
  PageAgents = {p}
  MaxActive = 3
  DefaultActive = 4
  PageSizes = {1, 2}
  Contents = {1, 2}
  MaxPages = 3
  MaxEvictions = 4
INVARIANTS TypeOK WithinBudget ForgottenStaysForgotten PagesAccounted PagedOutRecoverable
PROPERTY ImplementsStore
CHECK_DEADLOCK FALSE
SYMMETRY AgentSymmetry
