SPECIFICATION Spec
CONSTANTS
  Changes <- MCChanges
  MaxChanges = 2
  MaxErrors = 2
INVARIANTS
  EventsTrue
  AnswerTrue
PROPERTIES
  StopsWhenTold
