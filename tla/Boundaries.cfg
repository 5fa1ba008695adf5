SPECIFICATION BoundarySpec
CHECK_DEADLOCK FALSE
INVARIANTS RequestsMatchSchema ResultsMatchSchema OnlyJsonLeaves ToolCallsMatchSchema
