------------------------------ MODULE Ext4Crypt ------------------------------
(***************************************************************************)
(* e4crypt_policy_ensure() of ext4_utils/ext4_crypt.cpp: vold gives a      *)
(* directory its file-based encryption policy, or checks the policy it     *)
(* already has.  The call is is_dir_empty(), then e4crypt_policy_set() on  *)
(* an empty directory or e4crypt_policy_check() (through                   *)
(* e4crypt_policy_get()) on a non-empty one.  Other processes may create   *)
(* entries in the directory between the emptiness test and the ioctl.      *)
(*                                                                         *)
(* A directory is its number of entries other than ".", ".." and           *)
(* lost+found, and its policy: none, or the modes and the 8-byte master    *)
(* key descriptor, a member of Keys.  Any opendir(), readdir(), open() or  *)
(* ioctl() may fail; the ioctls follow the ext4 rules: SET on a directory  *)
(* without a policy needs it empty, SET on one with a policy succeeds only *)
(* for the same policy, and GET fails on a directory without a policy.     *)
(***************************************************************************)
EXTENDS Integers

CONSTANTS
    Dirs,          \* directories vold ensures
    Keys,          \* master key descriptors
    Garbage,       \* a descriptor no key has: what stack residue may hold
    Lengths,       \* policy_length values passed in
    MaxEntries,    \* bound on the entries other processes create
    MaxCalls       \* bound on the number of e4crypt_policy_ensure() calls

EXT4_KEY_DESCRIPTOR_SIZE == 8

\* "." and "..", which readdir() returns and is_dir_empty() counts.
DotEntries == 2

\* The modes e4crypt_policy_set() writes: version 0, AES_256_XTS contents,
\* AES_256_CTS file names, flags 0.  Any other combination is Foreign.
Standard == "xts_cts"
Foreign == "foreign"

NoPolicy == [mode |-> "none", key |-> Garbage]
Policies == [mode : {Standard, Foreign}, key : Keys]

VARIABLES
    entries,   \* entries[d]: entries of d other than ".", ".." and lost+found
    policy,    \* policy[d]: the encryption policy of d in the file system
    pc,        \* "idle", or "set" / "check" after is_dir_empty()
    call,      \* the arguments of the call in progress
    ret,       \* what the last e4crypt_policy_ensure() returned (-1 before the first)
    calls      \* calls made (bounded by MaxCalls)

vars == <<entries, policy, pc, call, ret, calls>>

\* What SET_ENCRYPTION_POLICY leaves: a new policy on an empty directory.
KernelSetOK(d, key) ==
    IF policy[d] = NoPolicy THEN entries[d] = 0
    ELSE policy[d] = [mode |-> Standard, key |-> key]

ReturnBool(r) == pc' = "idle" /\ ret' = IF r = 0 THEN 0 ELSE 1

Return(r) == pc' = "idle" /\ ret' = r

Init ==
    /\ entries \in [Dirs -> 0..1]
    /\ policy \in [Dirs -> {NoPolicy} \cup Policies]
    /\ pc = "idle"
    /\ call = [dir |-> CHOOSE d \in Dirs : TRUE, key |-> CHOOSE k \in Keys : TRUE,
               len |-> EXT4_KEY_DESCRIPTOR_SIZE]
    /\ ret = -1
    /\ calls = 0

(* e4crypt_policy_ensure() up to is_dir_empty(): readdir() counts every   *)
(* entry but lost+found, "." and ".." included, and the directory is      *)
(* empty unless the count exceeds 2.  A failing opendir() or readdir()    *)
(* returns -1.                                                             *)
IsDirEmpty(d, key, len) ==
    /\ pc = "idle" /\ calls < MaxCalls
    /\ calls' = calls + 1
    /\ call' = [dir |-> d, key |-> key, len |-> len]
    /\ \/ /\ pc' = (IF DotEntries + entries[d] > 2 THEN "check" ELSE "set")
          /\ UNCHANGED ret
       \/ Return(-1)
    /\ UNCHANGED <<entries, policy>>

(* e4crypt_policy_set(): the length test, open(), the SET ioctl.          *)
PolicySet ==
    /\ pc = "set"
    /\ LET d == call.dir IN
       IF call.len # EXT4_KEY_DESCRIPTOR_SIZE
       THEN Return(-1) /\ UNCHANGED policy
       ELSE \/ Return(-1) /\ UNCHANGED policy          \* open() or the ioctl fails
            \/ /\ KernelSetOK(d, call.key)
               /\ policy' = [policy EXCEPT ![d] = [mode |-> Standard, key |-> call.key]]
               /\ Return(0)
            \/ ~KernelSetOK(d, call.key) /\ Return(-1) /\ UNCHANGED policy
    /\ UNCHANGED <<entries, call, calls>>

(* e4crypt_policy_get() as e4crypt_policy_check() sees it: a record of    *)
(* its bool result and the descriptor left in existing_policy.  When the  *)
(* GET ioctl fails, on any directory, the function returns -1, which is   *)
(* true as a bool, and existing_policy keeps whatever the stack held: a   *)
(* key descriptor or garbage.  The kernel always fails GET on a directory *)
(* without a policy.                                                      *)
GetIoctlFails == {[ok |-> TRUE, key |-> r] : r \in Keys \cup {Garbage}}

PolicyGet(d) ==
    {[ok |-> FALSE, key |-> Garbage]}                 \* open() fails
    \cup GetIoctlFails
    \cup IF policy[d] = NoPolicy THEN {}
         ELSE IF policy[d].mode # Standard THEN {[ok |-> FALSE, key |-> Garbage]}
         ELSE {[ok |-> TRUE, key |-> policy[d].key]}

(* e4crypt_policy_check(): the length test, e4crypt_policy_get(), then    *)
(* memcmp() of the expected and the existing descriptor.                   *)
PolicyCheck ==
    /\ pc = "check"
    /\ IF call.len # EXT4_KEY_DESCRIPTOR_SIZE
       THEN Return(-1)
       ELSE \E got \in PolicyGet(call.dir) :
              Return(IF got.ok /\ got.key = call.key THEN 0 ELSE -1)
    /\ UNCHANGED <<entries, policy, call, calls>>

(* Another process creates or removes an entry of d.                        *)
CreateEntry(d) ==
    /\ entries[d] < MaxEntries
    /\ entries' = [entries EXCEPT ![d] = @ + 1]
    /\ UNCHANGED <<policy, pc, call, ret, calls>>

RemoveEntry(d) ==
    /\ entries[d] > 0
    /\ entries' = [entries EXCEPT ![d] = @ - 1]
    /\ UNCHANGED <<policy, pc, call, ret, calls>>

Next ==
    \/ \E d \in Dirs, key \in Keys, len \in Lengths : IsDirEmpty(d, key, len)
    \/ PolicySet
    \/ PolicyCheck
    \/ \E d \in Dirs : CreateEntry(d) \/ RemoveEntry(d)

Spec == Init /\ [][Next]_vars

-----------------------------------------------------------------------------
(* Properties *)

TypeOK ==
    /\ entries \in [Dirs -> 0..MaxEntries]
    /\ policy \in [Dirs -> {NoPolicy} \cup Policies]
    /\ pc \in {"idle", "set", "check"}
    /\ ret \in {-1, 0}
    /\ calls \in 0..MaxCalls

\* The policy the call in progress asks for.
Wanted == [mode |-> Standard, key |-> call.key]

\* A call that returns 0 completes in this step.
Succeeds == pc' = "idle" /\ ret' = 0 /\ (pc # "idle" \/ calls' # calls)

(* e4crypt_policy_ensure() returns 0 only when the directory is encrypted  *)
(* with the policy asked for.                                              *)
EnsuredIsEncrypted ==
    [][Succeeds => policy'[call.dir] = Wanted]_vars
=============================================================================
