SPECIFICATION Spec
CONSTANTS
    s1 = s1
    s2 = s2
    s3 = s3
    t1 = t1
    t2 = t2
    Session = {s1, s2, s3}
    Enabled = {"otelcol"}
    Tag = {t1, t2}
    Present = {"otelcol"}
SYMMETRY Symmetry
INVARIANTS
    TagsAreOfOneSession
    SettingsLostOnlyByTearing
    AgentIsCurrent
CHECK_DEADLOCK FALSE
