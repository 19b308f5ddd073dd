SPECIFICATION Spec
CONSTANTS
  task_cnt = 41
  Threads = {t1, t2}
INVARIANTS
  TypeOK
  EachTaskOnce
PROPERTIES
  AllTasksRun
