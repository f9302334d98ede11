CONSTANTS
    Identity = {i1, i2, i3}
    Key = {k1, k2, k3}
    Msg = {m1, m2}
    Absent = Absent
    Damaged = Damaged
    Plain = Plain
    MaxCrashes = 2
SPECIFICATION Spec
INVARIANTS IdentityOnDisk RunsAsOwner MessagesOpen
PROPERTY ComesBack
