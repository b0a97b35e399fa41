\* An unprivileged process on a kernel that supports every layer, panics unwind.
CONSTANTS
  Decodes = {d1, d2}
  Selectors <- MCSelectors
  MemLimits = {1, 3}
  CpuLimits = {1, 2}
  MiB = 2
  Infinity = 5
  HostAs = 5
  HostCpu = 5
  Built = {"landlock", "seccomp", "rlimit"}
  Refusing = {}
  Privileged = FALSE
  PanicAborts = FALSE
SPECIFICATION Spec
INVARIANTS
  StrictIsEnforced
  PostureIsHonest
  RefusalHasCause
  CapsHaveOwners
  WorkerIsJoined
PROPERTIES
  CallSpec
  EveryCallReturns
