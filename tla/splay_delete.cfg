SPECIFICATION Spec
CONSTANTS
  AllKeys = {1, 2, 3, 4}
  Addresses = {1, 2, 3, 4}
  Careful = FALSE
INVARIANT DeletedIsGone
CHECK_DEADLOCK FALSE
