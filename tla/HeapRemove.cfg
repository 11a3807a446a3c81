CONSTANTS
    Kinds <- HeapOnly
    HeapRemoves = TRUE
    Delays <- FewDelays
    MaxInserts = 7
SPECIFICATION Spec
PROPERTIES
    RemovesEarliest
