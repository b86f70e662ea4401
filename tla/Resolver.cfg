SPECIFICATION ResolverSpec
CONSTANTS
    Requests = {c1, c2}
    Probers = {c2}
    Rotating = {"k1"}
    Keys = {"k1", "k2"}
    Targets = {"actor1", "actor2", "literal", "mangled"}
    Canonical = {"actor1", "actor2", "literal"}
    Permitted = {"actor1", "actor2"}
    Addresses = {"public1", "public2", "private"}
    Public = {"public1", "public2"}
    MaxAddresses = 2
    MaxRedirects = 1
    MaxEntries = 1
    TTL = 2
    FetchTimeout = 1
    MaxRotations = 1
    MaxTime = 3
    ActorOf <- MCActorOf
    Answers <- MCAnswers
    Documents <- MCDocuments
INVARIANTS KeyFresh PolicyHonest
CHECK_DEADLOCK FALSE
