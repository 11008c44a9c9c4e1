CONSTANTS
    Addr = {a1, a2}
    MaxNetworks = 2
    Missing = Missing
    Cut = Cut
    Unreadable = Unreadable
    NoFile = NoFile
SPECIFICATION Spec
INVARIANTS
    ClientNamesKeptNetwork
    RunsWhole
    ClientMatches
PROPERTIES
    RestartKeeps
