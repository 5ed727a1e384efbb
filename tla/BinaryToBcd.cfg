SPECIFICATION Spec
INVARIANT Decimal
CHECK_DEADLOCK FALSE
