\* One mod changes a list that is compared by value.
CONSTANT Cases <- OneList
SPECIFICATION Spec
INVARIANT OneModIsKept
CHECK_DEADLOCK FALSE
