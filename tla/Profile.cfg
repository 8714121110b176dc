SPECIFICATION Spec
CONSTANTS
  Emails = {e1, e2}
  Passes = {p1, p2}
  Pwds = {w1, w2}
  Contacts = {c1}
  Empty = empty
  NoKey = nokey
  Absent = absent
  Torn = torn
  Unparsed = unparsed
  NoDialog = nodialog
  MaxIds = 2
INVARIANTS
  KeyKept SessionOwnsKey SignsUnderLock
PROPERTIES
  LoginRestores SavesAskedOnly
