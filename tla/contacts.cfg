\* Two onions, two seeds and one without an onion, an invite of a day, one crash or failed save.
\* Numbers are binary, so that the second contact's begins like the first's.
CONSTANTS
    o1 = o1
    o2 = o2
    k1 = k1
    k2 = k2
    k3 = k3
    Onions <- MCOnions
    Seeds <- MCSeeds
    Owners <- MCOwners
    Nobody = nobody
    Me = k3
    PeerInvites = {j1}
    Expiries = {0, 1}
    Invites = {i1}
    Ttls = {0, 1, 2}
    MAX_INVITE_TTL_SECS = 1
    MAX_PENDING_INVITES = 1
    Radix = 2
    MaxTime = 1
    MaxMishaps = 1
SYMMETRY MCSymmetry
SPECIFICATION Spec
INVARIANTS
    TrustIsEarned SessionsFitContacts
PROPERTIES
    NewContactsStartClean ClosedInvitesStayClosed SelectionStays
