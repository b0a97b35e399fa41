\* A privileged process, a build without landlock, a kernel that may refuse seccomp.
CONSTANTS
  Decodes = {d1, d2}
  Selectors <- MCDegradedSelectors
  MemLimits = {1, 3}
  CpuLimits = {1}
  MiB = 2
  Infinity = 5
  HostAs = 4
  HostCpu = 5
  Built = {"seccomp", "rlimit"}
  Refusing = {"seccomp"}
  Privileged = TRUE
  PanicAborts = TRUE
SPECIFICATION Spec
INVARIANTS
  PostureIsHonest
PROPERTIES
  SafeCallSpec
