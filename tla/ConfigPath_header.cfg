SPECIFICATION Spec
CONSTANTS
    Program <- MCProgram
    Words <- MCWords
INVARIANTS
    KuMacroReachesKu
