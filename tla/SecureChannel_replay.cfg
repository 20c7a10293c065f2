\* Ten numbers, wraps within two of either end.
CONSTANTS
    Modulus = 10
    Window = 2
SPECIFICATION Spec
INVARIANTS
    NothingInherited
    NoReplay
