\* The transition_disable guard against the versions its comment names.
CONSTANTS
    Minors = {3, 4, 5}
    Patches = {0, 1, 2, 3, 4}
SPECIFICATION Spec
INVARIANT TransitionDisableMatchesComment
