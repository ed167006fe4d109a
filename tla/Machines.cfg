SPECIFICATION Spec
CONSTANTS
  None = None
  MaxTrans = 2
  Drafts <- Families
  Vocabulary <- Trans
 
INVARIANT VerdictGiven
INVARIANT ReachedIsReachable
CHECK_DEADLOCK FALSE
