\* One new file, uploaded, completed, retried, deleted and restored, with lost
\* answers and kills, on a bucket that recognises a repeated completion.
SPECIFICATION FairSpec
CONSTANTS
    File = {f1}
    Old = {}
    Request = {r1, r2}
    NoRequest = NoRequest
    Again = TRUE
    Faults = {"crash", "lost"}
INVARIANTS
    ListedHasBytes
PROPERTY UploadsFinish
\* Everything may have been removed for good.
CHECK_DEADLOCK FALSE
