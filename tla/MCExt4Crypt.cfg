\* One directory in any starting state (no policy, vold's policy with either
\* key, or a foreign policy; empty or not), two keys, other processes
\* creating and removing up to 2 entries, three e4crypt_policy_ensure()
\* calls with the right or a wrong policy_length.
CONSTANTS
    Dirs = {d1}
    Keys = {k1, k2}
    Garbage = garbage
    Lengths <- MCLengths
    MaxEntries = 2
    MaxCalls = 3
SPECIFICATION Spec
\* vold stops after MaxCalls calls; other processes may stop at any point.
CHECK_DEADLOCK FALSE
INVARIANT TypeOK

