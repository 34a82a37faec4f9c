SPECIFICATION Spec
CONSTANTS
  Req <- ManyReq
  User <- MCUser
  Role <- MCRole
  Requester <- ManyRequester
  Chains <- ManyChains
  Tx = {t1, t2, t3}
  Submitters = {t1}
SYMMETRY DecisionSymmetry
INVARIANTS OutcomeFollowsDecisions NothingOrderedUndecided
CHECK_DEADLOCK FALSE
