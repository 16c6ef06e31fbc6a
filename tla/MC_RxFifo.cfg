SPECIFICATION FifoSpec
CONSTANTS
    Char <- MC_Char
    a = a
    b = b
    bufsz = 4
PROPERTIES ImplementsByteFifo
