SPECIFICATION Spec
CONSTANTS
  MAX_USERS = 3
  Root = root
  Empty = empty
  Names = {root, ann, bob}
  Passwords = {p, q}
  UID_VALUES = 8
  MaxCreated = 3
INVARIANTS AccountsDistinct RootStays SessionValid
PROPERTIES IsAccounts
