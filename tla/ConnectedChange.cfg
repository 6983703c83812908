SPECIFICATION Spec
CONSTANTS
    Name <- MCName
    Fold <- MCFold
    Suffix <- MCSuffix
    Hidden = {".h"}
    Sensitive = {"secrets.md"}
    Unusable = {"con.md"}
    Text = {"t", "u"}
    Shape = {"link", "image"}
    Markdown = {"md", "mkd"}
    Origins <- MCOrigins
    Entries <- MCEntries
    Receivers <- MCReceivers
    None = None
CHECK_DEADLOCK FALSE
INVARIANTS
    MatchIsExact
    AcceptanceIsKept
