\* Three calls that begin at once, while the host sets hooks and panics.
CONSTANTS
  Calls = {c1, c2, c3}
  HostThreads = {t1, t2}
  HostHooks = {h1, h2}
SPECIFICATION Spec
INVARIANTS
  WorkersAreSilent
  HostsAreHeard
PROPERTIES
  InstallationEnds
