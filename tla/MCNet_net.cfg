\* Sessions end.
SPECIFICATION Spec
INVARIANTS OnceWhole
PROPERTIES AnswersTrue
CHECK_DEADLOCK FALSE
