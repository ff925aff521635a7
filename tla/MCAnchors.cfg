SPECIFICATION Spec
CONSTANTS
    NewLine = NewLine
    Patterns <- MCPatterns
    Subjects <- MCSubjects
INVARIANTS
    MatchesWhole
