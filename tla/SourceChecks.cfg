SPECIFICATION Spec
INVARIANT SourceChecksAreTyped
CHECK_DEADLOCK FALSE
