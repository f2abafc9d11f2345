CONSTANTS
    Base = 3
    Configs <- MCConfigs
    MaxChunk = 4
    MaxBytes = 8
SPECIFICATION Spec
INVARIANTS
    TypeOK
    FragmentationFree
    NothingHeldBack
    NoiseIsSkipped
