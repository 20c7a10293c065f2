\* Three sessions and words of four bits; the draws collide when they are salted.
CONSTANTS
    NSessions = 3
    Width = 4
    Draws = {0, 2, 9}
SPECIFICATION Spec
INVARIANTS
    SessionsDistinct
    TokenLeadsToSession
    IdentifierAlwaysFound
