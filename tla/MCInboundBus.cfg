SPECIFICATION Spec
CONSTANTS
    matrix = matrix
    email = email
    alice = alice
    bob = bob
    carol = carol
    k1 = k1
    k2 = k2
    s1 = s1
    s2 = s2
    a1 = a1
    Nothing = Nothing
    Channels = {matrix, email}
    Peers = {alice, bob, carol}
    Codes = {k1, k2}
    Secrets = {s1, s2}
    Asks = {a1}
    Tokened = {carol}
    Messages <- Traffic
    Owner <- Owners
    MaxFaults = 1
    MaxRevokes = 1
CHECK_DEADLOCK FALSE
INVARIANTS
  AdmittedWhilePaired
  TokensContained
  CodesBindOnce
  RowsTellTheTruth
