\* Two handshakes at a time while the operator edits the file three times and
\* removes it in between.
CONSTANTS
    t1 = t1  t2 = t2
    Threads = {t1, t2}
    Keys = {k1}  Infos = {i1, i2}  NoInfo = NoInfo
    Missing = Missing  NoThread = NoThread
    MaxMtime = 3  FineMtime = TRUE
SPECIFICATION Spec
SYMMETRY ThreadSymmetry
INVARIANTS CacheCurrent LookupIsCurrent
