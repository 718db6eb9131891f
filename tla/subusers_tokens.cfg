\* Two users, two permissions, two changes at the same time, calls to the daemon
\* that are lost.
SPECIFICATION FairSpec
CONSTANTS
  User = {u1, u2}
  Permission = {"sftp"}
  Connect = "connect"
  Answers = {"accepted", "lost"}
  Id = {i1, i2}
  None = None
  Slot = {c1, c2}
  MaxTokens = 1
INVARIANTS TypeOK OwnerIsNoSubuser TokensCurrent
PROPERTIES AccessEnds
