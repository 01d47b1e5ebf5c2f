\* Keys that share a hash in pairs.
CONSTANTS
    NULL = NULL
    Nodes = {1, 2, 3, 4, 5}
    Keys = {1, 2, 3, 4, 5}
    Values = {0, 1, 2}
    p_dictionary_evaluate_string <- MCColliding
SPECIFICATION Spec
INVARIANT KeysAreUnique
