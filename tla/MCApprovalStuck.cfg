SPECIFICATION Spec
CONSTANTS
  Req <- MCReq
  User <- MCUser
  Role <- MCRole
  Requester <- MCRequester
  Chains <- TwoSteps
  Tx = {t1, t2}
  Submitters = {t1}
INVARIANT EveryStepApprovedAdvances
CHECK_DEADLOCK FALSE
