CONSTANTS
    desk = desk
    cabinet = cabinet
    t1 = t1
    Areas <- TheAreas
    Default = desk
    InventoryAreas <- Cabinets
    Tabs = {t1}
    MaxHistory = 1
    MaxPhotos = 2
    MaxUpsets = 1
    None = None
SPECIFICATION Spec
INVARIANTS
    ControlsMatchWork
    StoresKeepTheirWord
PROPERTIES
    ChecksEnd
