\* Two threads, four events of which two share an idempotency key, two places
\* in the queue, one handler that fails.
SPECIFICATION InboxSpec
CONSTANTS
  Thread = {"main", "single"}
  Event <- MCEvent
  Key <- MCKey
  QueueLimit = 2
  MaxAttempts = 3
  MaxThrows = 1
INVARIANTS InboxTypeOK EffectsAtMostOnce FirstHandledInOrder
PROPERTY EventsAreHandled
CHECK_DEADLOCK FALSE
