CONSTANTS
    n1 = n1
    j1 = j1
    j2 = j2
    t1 = t1
    t2 = t2
    t3 = t3
    n2 = n2
    NoNode = NoNode
    MaxAttempts = 1
    Cancellable = {}
    Node = {n1}
    Reporting = {n1}
    Job = {j1, j2}
    Task = {t1, t2, t3}
    limits <- MCLimits
    task_limits <- MCTaskLimits
    job_id <- MCJobId
    priority <- MCPriority
    LocalTasks = {j1, j2}
    NamesModel = {}
    NodeConf <- MCStatic
    KeepDisk = {0}
    max_running_jobs = 2
    max_tasks = 2
SPECIFICATION RunnerSpec
INVARIANTS
    NoDeadlock
