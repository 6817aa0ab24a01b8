SPECIFICATION Spec
INVARIANTS EstimatesExact TablesExact
PROPERTIES GreedyChoice MaximisersEnd
CHECK_DEADLOCK FALSE
