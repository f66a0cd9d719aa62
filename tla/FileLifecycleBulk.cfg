\* An old file and one that is uploaded, and two requests that complete, delete and
\* restore them, alone or together, with kills and database errors between their
\* statements, on a bucket that recognises a repeated completion.
SPECIFICATION Spec
CONSTANTS
    File = {f1, f2}
    Old = {f1}
    Request = {r1, r2}
    NoRequest = NoRequest
    Again = TRUE
    Faults = {"crash", "db"}
SYMMETRY Symmetric
INVARIANTS GoneIsClean LoggedHappened
PROPERTY LivesAsPromised
\* Everything may have been removed for good.
CHECK_DEADLOCK FALSE
