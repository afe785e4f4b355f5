SPECIFICATION Spec
CONSTANTS
    Modules <- MCModuleSet
    Main = "main"
    Keys <- MCKeys
    Controllers <- MCControllers
    Apps <- MCApps
INVARIANTS
    ResolvedByScope
    ConstructionOrder
    RoutesServed
    EventsServed
PROPERTIES
    StartEnds
CHECK_DEADLOCK FALSE
