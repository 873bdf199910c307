\* Three providers, each on or off, weights set or not, every history of up to one send of each kind, switching during the scan, more sends during the sort.
CONSTANTS
    a = a
    b = b
    c = c
    Order <- ThreeNames
    Weights = {0, 30, 99}
    MinSamples = 1
    MaxCount = 1
SPECIFICATION Spec
INVARIANTS
    TypeOK
    EveryProviderOnce
    BestFirst
    OnlyTheSelectedMoves
    WeightsAddUp
    DrawIsProportional
\* The call returns; then nothing is left to do.
CHECK_DEADLOCK FALSE
