SPECIFICATION Spec
CONSTANTS
  Cpus = {c0, c1}
  BSP = c0
  Processes = {p1, p2}
  None = None
  Pool = {1, 2, 3, 4, 5, 6, 7, 8, 9, 10}
  KernelRoot = KernelRoot
  BootRoot = BootRoot
  LoaderTable = LoaderTable
  BootTable = BootTable
  KernelTable = KernelTable
  Slots = 4
  PAGESIZE = 1
  Half = 2
  STACK_TOP <- MCStackTop
INVARIANT StackMapped
CHECK_DEADLOCK FALSE
