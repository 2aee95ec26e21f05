SPECIFICATION Spec
CONSTANTS
    Number = {1, 2}
    CanId = {0, 5, 100}
INVARIANTS StateMatchesConfig IdentityConsistent ChangingBlinks
