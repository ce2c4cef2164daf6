SPECIFICATION Spec
CONSTANTS
    Requests = {r1, r2}
    Instances = {i1, i2}
    Emails = {root, invited, other}
    Root = root
    Invited = invited
    Super = super
    Clerk = clerk
    HandMade <- MCHandMade
    None = None
    Malformed = Malformed
    Limit = 2
    MaxFaults = 1
    Slugs <- MCSlugs
    Granted <- MCGranted
    Edits <- MCEdits
    Removable <- MCRemovable
    Entrants = {root, invited, other}
INVARIANTS TypeOK ReferencesHold MailsMatchInvitations OneCompletion UpMeansSeeded
PROPERTIES SeedFailsOnlyByRemoval OnlyOverlapsUndo LoneUpdatesApply ImplementsListing
CONSTRAINT PagingApart
SYMMETRY Symmetric
