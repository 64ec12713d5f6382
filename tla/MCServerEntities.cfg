SPECIFICATION Spec
CONSTANTS
    stalker = stalker
    box = box
    launcher = launcher
    medkit = medkit
    rocket = rocket
    Nobody = Nobody
    Holders <- MCHolders
    Refusers <- MCRefusers
    Items <- MCItems
    Launchers <- MCLaunchers
    Rockets <- MCRockets
    MaxMessages = 3
INVARIANTS
    TypeOK
    VerifyEntities
    ViewAgrees
    OwnerOnLevel
PROPERTIES
    DestroyFindsNoOwner
    SpawnFindsIdFree
