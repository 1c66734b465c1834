SPECIFICATION LifecycleSpec
CONSTANTS
    r1 = r1
    r2 = r2
    r3 = r3
    None = None
    System = System
    Launching = Launching
    Products = {1, 2}
    Revisions = {r1, r2, r3}
    Version <- SomeVersions
    MaximumGenerations = 2
    MaximumMarks = 2
PROPERTIES
    HotSwitch
