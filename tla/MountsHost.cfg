SPECIFICATION Spec
CONSTANT MaxRuns = 2
INVARIANT HostUntouched
