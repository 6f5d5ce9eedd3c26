CONSTANTS
  admin = admin
  user = user
  first = first
  secret = secret
  h1 = h1
  h2 = h2
  Users = {admin, user}
  Passwords = {first, secret}
  Nothing = Nothing
  Handlers = {h1, h2}
  MaxRequests = 4
  MaxFailures = 1
  MaxRestarts = 1
SPECIFICATION Spec
INVARIANTS
  TypeOK
  PasswordsAgree
PROPERTIES
  UsersAreWhole
CHECK_DEADLOCK FALSE
