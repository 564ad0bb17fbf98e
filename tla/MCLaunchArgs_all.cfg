SPECIFICATION Spec
CONSTANTS
    Versions = {"1.20", "1.21"}
    Flags <- MCFlags
    UserLines <- MCUserLines
    Fold <- MCFold
    Rejected <- MCRejected
    Sizes = {"1G", "2G"}
    DefaultSize = "1G"
    ImportedFile <- MCImported
    NoFile = NoFile
    MaxLines = 2
    MaxServ = 1
INVARIANTS
    TypeOK
    LaunchMatches
    PaperArgs
