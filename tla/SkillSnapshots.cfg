CONSTANTS
    a1 = a1
    a2 = a2
    k1 = k1
    d1 = d1
    d2 = d2
    v1 = v1
    ra = ra
    pa = pa
    Publisher = {a1, a2}
    Closer = {k1}
    Deleter = {d1, d2}
    Resolver = {v1}
    Request = {ra}
    Publication = {pa}
    Snapshot = {1, 2}
    RequestOf <- MCRequestOf
    SnapshotOf <- MCSnapshotOf
    PublicationOf <- MCPublicationOf
    Bindings <- MCBindings
    Nobody = Nobody
    Unreadable = Unreadable
    MaxCrashes = 1
SPECIFICATION Spec
INVARIANTS
    ReferencedSnapshotsExist
    ReferencesAreKept
PROPERTIES
    ResolvedSourcesAreRetained
SYMMETRY Twins
CHECK_DEADLOCK FALSE
