\* One session of each role on a folder, a second one that is created, and a file.
SPECIFICATION Spec
CONSTANTS
    a = a
    e = e
    v = v
    d1 = d1
    d2 = d2
    f1 = f1
    User = {a, e, v}
    Role <- MCRole
    Folder = {d1, d2}
    First = {d1}
    File = {f1}
    Uploader <- MCUploader
    None = None
    MaxGrants = 2
    Grants <- MCGrants
    Faults = {"db"}
INVARIANTS TypeOK AllReachable RefusalHasReason
PROPERTY RevokeEnds
