CONSTANTS
    alice = alice
    bob = bob
    c1 = c1
    c2 = c2
    None = None
    Users <- TwoUsers
    Calls <- EachOther
    Clients <- TwoClients
    MaxAttempts = 3
    MaxFaults = 1
    MaxChanges = 5
SPECIFICATION FairSpec
INVARIANTS TypeOK NeverBoth
PROPERTIES AnswersWereTrue FriendsByConsent CallsReturn
