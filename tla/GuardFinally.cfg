\* A guard that fails last leaves its catch object under the finally block.
SPECIFICATION UnwindSpec
CONSTANTS
    Programs <- GuardOnly
INVARIANTS UnwindsExactly
CHECK_DEADLOCK FALSE
