CONSTANTS
    ta = ta
    tb = tb
    ann = ann
    bob = bob
    Tokens = {ta, tb}
    Users = {ann, bob}
    UserOf <- MCUserOf
    Admins = {ann}
    Locked = {bob}
    None = None
    MaxCalls = 3
SPECIFICATION FairSessionSpec
INVARIANTS
    FreshUnlessStrayed
    BadgesAreTheirs
PROPERTIES
    BootSettles
