CONSTANTS
    n1 = n1
    j1 = j1
    j2 = j2
    t1 = t1
    t2 = t2
    t3 = t3
    n2 = n2
    NoNode = NoNode
    MaxAttempts = 0
    Cancellable = {j1, t1}
    Node = {n1, n2}
    Reporting = {n1}
    Job = {j1, j2}
    Task = {t1, t2}
    limits <- MCLimits
    task_limits <- MCTaskLimits
    job_id <- MCJobId
    priority <- MCPriority
    LocalTasks = {j1, j2}
    NamesModel = {j2}
    NodeConf <- MCShrinking
    KeepDisk = {0, 1}
    max_running_jobs = 1
    max_tasks = 2
SPECIFICATION RunnerSpec
INVARIANTS
    Conservation
    ScheduledFits
