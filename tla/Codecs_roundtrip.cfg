\* Inputs of each codec around its limits, edited by up to four steps.
SPECIFICATION Spec
CONSTANTS
    Domain <- MCDomain
    Machine <- MCMachine
    MaxSubs = 3
    KindKey <- MCKindKey
    MaxLen = 300
    MaxNesting = 4
    Bytes <- MCBytes
    Fields <- MCFields
    Words <- MCWords
    Opcodes <- MCOpcodes
    Entries <- MCEntries
    Controls <- MCControls
    Pieces <- MCPieces
    Values <- MCValues
    Changes <- MCChanges
    Seeds <- MCSeeds
PROPERTIES
    AuditValidatorExact
    AuditRoundTrip
    CompilesByPrecedence
    DecompilesExactly
    SddlRoundTrip
    RegistryReadsBack
CHECK_DEADLOCK FALSE
