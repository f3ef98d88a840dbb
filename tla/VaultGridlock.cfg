\* Listing, creating and removing vaults at once: three handlers wait for each other.
SPECIFICATION Spec
CONSTANTS
    r1 = r1
    r2 = r2
    r3 = r3
    Requests <- MCRequests
    Kinds <- MCKinds
    RegisteredVaults = 2
INVARIANT NoGridlock
SYMMETRY RequestSymmetry
