CONSTANTS
  admin = admin
  user = user
  first = first
  secret = secret
  h1 = h1
  h2 = h2
  Users = {admin, user}
  Passwords = {first, secret}
  Nothing = Nothing
  Handlers = {h1, h2}
  MaxRequests = 2
  MaxFailures = 0
  MaxRestarts = 0
SPECIFICATION Spec
PROPERTIES
  OnlyChangedOnRequest
CHECK_DEADLOCK FALSE
