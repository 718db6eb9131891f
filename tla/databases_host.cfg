\* Three databases, two of the same name, two requests at the same time.
SPECIFICATION Spec
CONSTANTS
  Id = {1, 2, 3}
  Name = {"n1", "n2"}
  NameOf <- SameName
  Password = {p1, p2, p3}
  NoPassword = NoPassword
  Slot = {s1, s2}
  Limit = 1
  NoLimit = NoLimit
  Outcomes = {"done", "refused", "unanswered"}
  Overlap = FALSE
SYMMETRY Symmetry
VIEW View
CHECK_DEADLOCK FALSE
INVARIANTS TypeOK CredentialsWork NothingLeftOnHost LimitExceededByOthersOnly
