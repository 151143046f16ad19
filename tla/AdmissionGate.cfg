SPECIFICATION FairSpec
CONSTANTS
    gpu = gpu
    cpu = cpu
    unresolved = unresolved
    NoRuntime = NoRuntime
    Task = {t1, t2, t3, t4}
    Runtime <- MCRuntimes
    Priority <- MCPriority
    parallel_slots <- MCSlots
    queue_limit <- MCQueueLimit
INVARIANTS SlotAccounting QueueExact WorkConserving
PROPERTIES PoolSpec NoOvertaking TopPriorityServed
