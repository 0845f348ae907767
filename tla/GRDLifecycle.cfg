SPECIFICATION MCSpec
CONSTANTS
    c1 = c1 n1 = n1
    Absent = Absent None = None
    Annotation = {"", "url"} NewAnnotation = {""} OtherFinalizer = {TRUE, FALSE} Overlapping = {FALSE}
    Backends = {"etcd", "file"}
    MaxUID = 2 MaxChanges = 2 MaxFaults = 1
    Deleter = {d1} Creator = {c1} Namespace = {n1}
    NamespaceOf <- MCNamespaceOf
INVARIANTS LifecycleTypeOK
PROPERTIES NoOrphans DeletionSticks DeletionCompletes ApprovalConverges
CHECK_DEADLOCK FALSE
