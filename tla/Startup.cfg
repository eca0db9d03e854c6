SPECIFICATION Spec
CONSTANTS
    w1 = w1
    w2 = w2
    Wrapper = {w1, w2}
    Settings <- MCSettings
    ManyComputes = TRUE
SYMMETRY Symmetry
INVARIANTS
    SettingsAgree
    RegistrationJustified
CHECK_DEADLOCK FALSE
