CONSTANTS
    Scalars = {"x"}
    Names = {"k"}
    EmptyName = ""
    Trees <- MCTrees
    ObjectCalls <- MCObjectCalls
    ArrayCalls <- MCArrayCalls
    MaxNodes = 7
    MaxHandles = 3
    Bodies <- MCBodies
    GetterKeys <- MCKeys
    GetterPaths <- MCPaths
SPECIFICATION MCSpec
INVARIANT Forest
INVARIANT CopiesAreSeparate
INVARIANT AcceptsExactlyValues
INVARIANT RoundTrip
INVARIANT ReadersAgree
PROPERTY AppendMerges
PROPERTY BuilderSettles
CHECK_DEADLOCK FALSE
