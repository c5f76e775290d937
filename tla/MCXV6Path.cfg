\* Three processes, each making one of the calls of MCScripts, over a root
\* with four entries and directories of at most four entries, under fair
\* scheduling (no symmetry, as CallsReturn is a liveness property).
CONSTANTS
    Procs = {p1, p2, p3}
    Scripts <- MCScripts
    MAXENT = 4
SPECIFICATION FairSpec
INVARIANT UniqueNames
PROPERTY CallsReturn
