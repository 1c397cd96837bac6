\* Two callers, with the key or without, and a top-up race for two slots and one warm host.
SPECIFICATION Spec
CONSTANTS
    r1 = r1
    r2 = r2
    r3 = r3
    f1 = f1
    admin = admin
    alice = alice
    bob = bob
    k1 = k1
    Request = {r1, r2}
    Filler = {f1}
    Nobody = Nobody
    Account = {admin, alice}
    Admin = admin
    NoAccount = NoAccount
    Key = {k1}
    NoKey = NoKey
    MaxHosts = 3
    Warm = 1
    AccountLimit = 1
    ProviderLimit = 2
    Unlimited = Unlimited
SYMMETRY Symmetry
INVARIANTS AdmissionInv OneCallerPerHost OneHostPerKey
CHECK_DEADLOCK FALSE
