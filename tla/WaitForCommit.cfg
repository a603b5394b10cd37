SPECIFICATION FairSpec
CONSTANT Subs = {s1, s2}
INVARIANT WokenByNextCommit
PROPERTY EventuallyServed
