\* Two accounts, either of which bootstrap-admin may create, two logins that
\* may be repeated, one operation of an administrator.
CONSTANTS
  a = a
  b = b
  l1 = l1
  l2 = l2
  o1 = o1
  Names = {a, b}
  Bootstraps = {a, b}
  Logins = {l1, l2}
  Operations = {o1}
  MaxFailures = 2
  MaxResets = 1
SPECIFICATION Spec
SYMMETRY Interchangeable
INVARIANTS
  SessionsTypeOK
  OldSessionsEnd
  OneFirstAdmin
