CONSTANTS
    Ring = 2
    Buffers = {b1, b2, b3}
    None = None
    Freers = 1
SPECIFICATION Spec
SYMMETRY BufferSymmetry
INVARIANT
    ReadDescriptorsGoBack
