\* Two threads of one process, an unlinker, trees that come and go.
SPECIFICATION Spec
CONSTANTS
    l1 = l1
    l2 = l2
    l3 = l3
    t1 = t1
    t2 = t2
    d1 = d1
    d2 = d2
    Trees = {t1, t2}
    Linkers = {l1, l2}
    Unlinkers = {u1}
    Wants <- MCWants
    Pids = {d1}
    Pid <- MCPid
    Attempts = 2
    Missing = Missing
    File = File
    Dir = Dir
INVARIANTS StagedIsOwn StagesReclaimed LinkTruthful NamesSuffice
PROPERTIES AtomicViewSpec
