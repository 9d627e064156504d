CONSTANTS
    Writer = {w1, w2}
    Version = {short, long}
    Length <- Lengths
    Inode = {i1, i2, i3, i4}
    NoInode = NoInode
    OneWriter = TRUE
    IOFaults = TRUE
    short = short  long = long
SPECIFICATION Spec
PROPERTIES AtomicReplace ReaderKeepsVersion
