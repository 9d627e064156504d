CONSTANTS
    Session = {s1}
    Client = {c1, c2}
    IOFaults = FALSE
SPECIFICATION Spec
PROPERTIES FinalStatesStay
CHECK_DEADLOCK FALSE
