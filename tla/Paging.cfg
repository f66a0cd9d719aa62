\* Five entries on pages of two, which come and go while an admin pages.
SPECIFICATION Spec
CONSTANTS
    e1 = e1
    e2 = e2
    e3 = e3
    e4 = e4
    e5 = e5
    Entry = {e1, e2, e3, e4, e5}
    Born <- MCBorn
    Limit = 2
    Faults = {"db"}
INVARIANTS NothingMissed
