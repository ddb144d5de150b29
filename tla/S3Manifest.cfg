SPECIFICATION Spec
CONSTANTS
    Writers = {w1, w2}
    Segments = {a, b}
    MaxEpoch = 2
    MaxLate = 2
    NoManifest = NoManifest
INVARIANTS
    ManifestInv
    SupersededFenced
    SwingWins
PROPERTIES
    ImplementsChain
    RaceResolves
