SPECIFICATION Spec
INVARIANT EndsCleanly
