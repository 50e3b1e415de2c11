\* The most favourable build: AL is 0 at every call.
CONSTANTS
    CPU = {c1, c2}
    EntryAL = {0}
SPECIFICATION Spec
INVARIANT
    MutualExclusion
