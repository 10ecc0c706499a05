SPECIFICATION Spec
CONSTANTS
    Conns = {c1, c2}
    Jobs = {j1, j2}
    Values = {v1, v2}
    None = None
    Merits = {"bronze", "silver"}
    Asked = {"golden"}
    JobAttempts = 2
    MaxEdits = 2
    MaxEvents = 2
    HookAttempts = 2
    Hazards = {"refuse", "unheard", "hookdies", "prune", "orphan", "config", "retry", "sqlfails", "throws", "conndies"}
    MaxHazards = 1
CHECK_DEADLOCK FALSE
SYMMETRY Interchangeable
INVARIANTS OneCurrent LevelIsLastEvent SentWasAccepted AcceptedOnce
PROPERTIES EventFromLevel ManualSurvivesMerge
