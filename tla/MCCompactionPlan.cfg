SPECIFICATION Spec
INVARIANT PlanIsTheExpectedGroups
CHECK_DEADLOCK FALSE
