SPECIFICATION Spec
CONSTANTS
    Program <- MCProgram
    Words <- MCWords
INVARIANTS
    StoresLand
    NothingMisdirected
PROPERTIES
    EnabledLast
    GetsConfigured
