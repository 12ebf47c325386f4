\* A component inside a component, between paragraphs.
SPECIFICATION PatchSpec
CONSTANTS
    Value = {1, 2}
    Kinds = {"text", "p", "nested"}
    MaxChildren = 2
    Letter = {}
    MaxRendered = 0
INVARIANT PatchIsRender
CHECK_DEADLOCK FALSE
