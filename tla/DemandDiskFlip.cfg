SPECIFICATION Spec
CONSTANTS
    Readers = {r1}
    Cyls = {0}
    Ids <- TwoIds
    Skippable = {}
    Rescans = 0
    Retries = 0
    Revs = 5
    Loads <- FewLoads
    Flip = TRUE
    Nothing = Nothing
INVARIANTS
    FlipMovesTracks
