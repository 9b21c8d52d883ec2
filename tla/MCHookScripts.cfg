CONSTANTS
  h1 = h1
  h2 = h2
  Hooks = {h1, h2}
  EventsOf <- MCEventsOf
  Environments <- MCEnvironments
  MaxChanges = 1
SPECIFICATION Spec
INVARIANTS DecisionStands GuardJustified DenialsAudited DisabledDoesNothing
PROPERTY EveryHookAnswers
CHECK_DEADLOCK FALSE
