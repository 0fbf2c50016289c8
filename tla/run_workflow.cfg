CONSTANTS
  Workers = {w1, w2}
  Clients = {c1}
  MaxVersion = 4
  MaxFaults = 1
  MaxQueue = 2
  StartStages = {"QUEUED", "SELECTING", "SYNTHESIZING"}
SPECIFICATION StartSpec
SYMMETRY Symmetry
INVARIANTS TypeOK StageOwnsRow NoOrphan ShortfallConsented SynthesisBeforeRelease OutcomeDisclosesShortfall ConfinedByMode
PROPERTIES ImplementsLifecycle
CHECK_DEADLOCK FALSE
