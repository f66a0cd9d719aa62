SPECIFICATION FairSpec
CONSTANTS
    f1 = f1
    File = {f1}
    NoFile = NoFile
    Born <- MCBorn
    Worker = {w1,w2}
    Batch = {b1,b2}
    Admin = {a1}
    Faults = {"bucket", "crash"}
INVARIANTS ReadyHasThumb ExclusiveClaim PendingIsMade
PROPERTIES ReadyStays ThumbsSettle
