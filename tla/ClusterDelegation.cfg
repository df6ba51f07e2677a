CONSTANTS
    Clusters = {c1}
    Threads = {t1, t2}
    Nids = {n1, n2}
    NoCluster = NoCluster
    MaxEpoch = 2
SPECIFICATION Spec
PROPERTY CacheOnlyForward
