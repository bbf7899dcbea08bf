SPECIFICATION Spec
CONSTANTS
    Letters = 3
    maxNumeric = 2
    FamilyLetters = {0, 1}
    Stem <- MCStem
    Named <- MCNamed
    Listings <- MCListings
INVARIANTS DiscoverInv OpenedWithoutHoles AnyMemberFindsIt ExpectedAreMissing
CHECK_DEADLOCK FALSE
