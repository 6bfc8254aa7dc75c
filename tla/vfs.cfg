SPECIFICATION Spec
CONSTANTS
  Bsp = bsp
  Cpus = {bsp, ap}
  Objects = {o1, o2, o3, o4, o5}
  NULL = NULL
  None = None
  fs_list <- MCFsList
  Names <- MCNames
  Releases = {1, 2}
INVARIANTS MountsKept 
PROPERTIES LookupStable
SYMMETRY Symmetry
