SPECIFICATION Spec
CONSTANT Names = {authorityCom, headerCom}
INVARIANT AuthorityPrecedence
CHECK_DEADLOCK FALSE
