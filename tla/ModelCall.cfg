SPECIFICATION FairSpec
CONSTANTS
    NoProvider = NoProvider
    NoModel = NoModel
    c1 = c1  c2 = c2
    pa = pa  pb = pb  pc3 = pc3
    m1 = m1  m2 = m2  m3 = m3
    Calls = {c1, c2}
    Tasks <- MCTasks
    Plans <- MCPlans
    Accounts <- MCAccounts
    TreeLimit = 4
CHECK_DEADLOCK FALSE
INVARIANT BudgetKept
INVARIANT ResultFounded
PROPERTY ShownOnce
PROPERTY CallEnds
