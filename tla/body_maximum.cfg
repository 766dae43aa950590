\* Three bodies of up to two chunks, each of any of three lengths.
SPECIFICATION Spec
CONSTANTS
    Streams = {s1, s2, s3}
    Lengths = {1, 2, 3}
    MaxChunks = 2
    PreReserve = TRUE
SYMMETRY StreamSymmetry
INVARIANTS
    TypeOK
    MaximumIsLargestChunk
PROPERTIES
    MaximumNeverShrinks
\* All bodies may be complete.
CHECK_DEADLOCK FALSE
