\* Eight keys in every order: the smallest tree in which a red uncle leads to a rotation above.
CONSTANTS
    NULL = NULL
    Nodes = {1, 2, 3, 4, 5, 6, 7, 8}
    Keys = {1, 2, 3, 4, 5, 6, 7, 8}
    Values = {1, 2, 3, 4, 5, 6, 7, 8}
    p_dictionary_evaluate_string <- MCDistinct
SPECIFICATION Spec
CONSTRAINT NamedByKey
INVARIANTS
    TreeIsRedBlack
    NothingLeaks
PROPERTY
    ImplementsMap
