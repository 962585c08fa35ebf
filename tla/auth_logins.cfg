SPECIFICATION Spec
CONSTANTS
    l1 = l1  l2 = l2  l3 = l3  alice = alice  None = None
    Login = {l1, l2, l3}
    Request = {r1, r2}
    Identity = {alice}
    IdentityOf <- SameIdentity
INVARIANTS TypeOK OneShot OneAccountPerIdentity LiveCredentialHasSession NewestLoginSurvives LeakNeedsOverlap
SYMMETRY Symmetry
CHECK_DEADLOCK FALSE
