SPECIFICATION AccountsFairSpec
CONSTANTS
  ann = ann  bob = bob  secret = secret  other = other  endless = endless
  s1 = s1  s2 = s2  n1 = n1  n2 = n2
  Email = {ann, bob}
  Password = {secret, other, endless}
  TooLong = {endless}
  Signup = {s1, s2}
  Greeter = {n1, n2}
  UserFault = {"stop", "dberror", "unpublished", "duplicate"}
  MaxUserFaults = 2
INVARIANTS AccountsTypeOK CustomersAreAccounts CreatedCanLogIn WelcomedOnce
PROPERTY EveryAccountWelcomed
