SPECIFICATION Spec
CONSTANTS
    JSONCases <- MCJSON
    FormCases <- MCForm
    FileCases <- MCFiles
    Unspecified = Unspecified
INVARIANTS
    DecodesFitting
    LevelsLocate
    FormNeverWraps
    FilesChecked
CHECK_DEADLOCK FALSE
