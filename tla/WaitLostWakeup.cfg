\* Expected to fail: see the README, "Findings".
SPECIFICATION Spec
CONSTANT Subs = {s1}
INVARIANT NeverSleepsPastCommit
