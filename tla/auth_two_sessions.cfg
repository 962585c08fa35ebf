SPECIFICATION Spec
CONSTANTS
    l1 = l1  l2 = l2  l3 = l3  alice = alice  None = None
    Login = {l1, l2}
    Request = {r1}
    Identity = {alice}
    IdentityOf <- SameIdentity
INVARIANT OneSessionPerAccount
SYMMETRY Symmetry
CHECK_DEADLOCK FALSE
