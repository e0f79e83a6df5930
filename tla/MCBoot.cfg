SPECIFICATION Spec
CONSTANTS
    Kernel <- MCKernel
    endOfKernel = 310
    ModuleAddr <- MCModuleAddr
    endOfBinary = 315
    STACK_POSITION = 600
    PAGE_SIZE = 40
    KernelPages = 1
    WIDTH = 3
    HEIGHT = 3
    UserCodes <- MCUserCodes
    SongBooks <- MCSongBooks
    Images <- MCImages
    ArgVectors <- MCArgVectors
    Numbers <- MCNumbers
    WordSize = 2
INVARIANTS MachineIsReady FirstProcessStarts DataIsUsed LibraryAgrees
