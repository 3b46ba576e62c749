SPECIFICATION Spec
CONSTANTS
    Heights = {1}
    Rounds = {0, 1}
    Values = {A, B}
    Times = {1, 2}
    NoValue = NoValue
INVARIANT
    SignatureFits
