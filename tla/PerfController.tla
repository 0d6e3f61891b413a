--------------------------- MODULE PerfController ---------------------------
(***************************************************************************)
(* The netd PerfController of netd/server/PerfController.cpp.  It loads    *)
(* the PerfService client library with dlopen()/dlsym() into static        *)
(* function pointers (load_PerfService()), and keeps two static scenario   *)
(* handles: tether_perfHandle, for the CPU boost of USB tethering          *)
(* (enable_Perf_RPS(), disable_Perf()), and lowpower_perfHandle, for the   *)
(* little-CPU low power mode (enter_little_cpu(), exit_little_cpu()).      *)
(*                                                                         *)
(* Each call is one step: netd's command listener runs a command to its    *)
(* end before it reads the next one.  The PerfService scenario table,      *)
(* which lives in another process, is scn: a handle is a slot of it, and   *)
(* userRegScn() fails once all MaxScn slots are taken.                     *)
(*                                                                         *)
(* The kernel files PerfController writes with writeFile() are ack, for   *)
(* /proc/sys/net/ipv4/tcp_ack_number, and rps, an interface's             *)
(* queues/rx-0/rps_cpus.  writeFile() is outside the repository: a write  *)
(* may fail (no such file, the interface is gone), and one of zero bytes  *)
(* leaves the file as it was.                                              *)
(***************************************************************************)
EXTENDS Integers, FiniteSets

CONSTANTS
    BuildTypes,    \* values ro.build.type can have
    RndisIfaces,   \* interface names that start with "rndis"
    OtherIfaces,   \* every other interface name netd is given
    SimProps,      \* values of gsm.sim.ril.testsim(.2): pairs of "", "0", "1"
    TokenCounts,   \* comma-separated tokens in net.perf.cpu.core / .freq
    LibVersions,   \* what libperfservicenative.so can be: the symbols it exports
    FailCodes,     \* negative values userRegScn() returns on failure
    MaxScn,        \* scenario slots of PerfService
    MaxLoads,      \* bound on successful dlopen() calls (the refcount)
    AckSettings,   \* values netd passes to set_ack_reduction()
    RpsProps       \* values of net.perf.rps ("" when unset)

MAX_CLUSTER == 10

\* The symbols load_PerfService() looks up, in the order it looks them up.
Symbols == <<"userRegScn", "userRegScnConfig", "userUnregScn", "userEnable",
             "userDisable", "userResetAll", "userDisableAll", "dumpAll",
             "notifyUserStatus">>
SymbolSet == {Symbols[i] : i \in 1..9}

ASSUME FailCodes \subseteq Int /\ \A c \in FailCodes : c < 0
ASSUME MaxScn \in Nat /\ MaxLoads \in Nat

Slots == 0..(MaxScn - 1)

\* loadRet before any load_PerfService() call, which returns 0 or -1.
NotLoaded == 1

\* What a kernel file holds before netd writes it.
KernelDefault == "kernel"

Ifaces == RndisIfaces \cup OtherIfaces

VARIABLES
    tether_perfHandle,    \* static int, -1 when no tether scenario
    lowpower_perfHandle,  \* static int, -1 when no low power scenario
    ptr,                  \* symbol -> "NULL" or "lib": the static pointers
    refs,                 \* dlopen() reference count of the library
    lib,                  \* the installed library (a LibVersions element)
    buildType,            \* ro.build.type of this boot
    loadRet,              \* what the last load_PerfService() returned
    scn,                  \* PerfService: slot -> "free", "enabled", "disabled"
    crashed,              \* "none", or why netd died: "nullcall", "atoi", "overrun"
    ack,                  \* contents of /proc/sys/net/ipv4/tcp_ack_number
    rps                   \* interface -> contents of its rps_cpus

vars == <<tether_perfHandle, lowpower_perfHandle, ptr, refs, lib, buildType,
          loadRet, scn, crashed, ack, rps>>

ScnStates == {"free", "enabled", "disabled"}

Init ==
    /\ tether_perfHandle = -1
    /\ lowpower_perfHandle = -1
    /\ ptr = [s \in SymbolSet |-> "NULL"]
    /\ refs = 0
    /\ lib \in LibVersions
    /\ buildType \in BuildTypes
    /\ loadRet = NotLoaded
    /\ scn = [h \in Slots |-> "free"]
    /\ crashed = "none"
    /\ ack = KernelDefault
    /\ rps = [i \in Ifaces |-> KernelDefault]

(* writeFile(fname, v, strlen(v)): what the file may hold afterwards.     *)
Written(old, v) == IF v = "" THEN {old} ELSE {old, v}

(* is_eng(): ro.build.type equals "eng" (an unset property reads as "").   *)
is_eng == buildType = "eng"

(* is_testsim(): either SIM property is exactly "1".                        *)
is_testsim(sim) == sim[1] = "1" \/ sim[2] = "1"

(* A call through a static pointer is sound only if it was set from the   *)
(* library and the library is still mapped.                               *)
Callable(s) == ptr[s] = "lib" /\ refs > 0
CallsOK(S) == \A s \in S : Callable(s)

(***************************************************************************)
(* load_PerfService(): dlopen(), then each dlsym() in turn.  The first      *)
(* symbol the library lacks sets its pointer to NULL, dlclose()s the       *)
(* handle and returns -1; the pointers set before it keep their values.    *)
(* With no library dlopen() returns NULL, the first dlsym() fails and      *)
(* dlclose(NULL) does nothing: the same as a library exporting nothing,    *)
(* so a missing library is the empty symbol set.                           *)
(***************************************************************************)
FirstMissing(exported) ==
    IF \A i \in 1..9 : Symbols[i] \in exported THEN 10
    ELSE CHOOSE i \in 1..9 : Symbols[i] \notin exported
                             /\ \A j \in 1..(i - 1) : Symbols[j] \in exported

\* Mutant: only the first lookup is checked.
LoadPerfServiceFirstOnly ==
    /\ crashed = "none"
    /\ refs < MaxLoads
    /\ LET k == FirstMissing(lib) IN
       /\ ptr' = [s \in SymbolSet |->
                    LET i == CHOOSE j \in 1..9 : Symbols[j] = s IN
                    IF i < k THEN "lib" ELSE IF i = k THEN "NULL" ELSE ptr[s]]
       /\ loadRet' = IF k > 1 THEN 0 ELSE -1
       /\ refs' = IF k > 1 THEN refs + 1 ELSE refs
    /\ UNCHANGED <<tether_perfHandle, lowpower_perfHandle, lib, buildType, scn, crashed, ack, rps>>

LoadPerfService ==
    /\ crashed = "none"
    /\ refs < MaxLoads
    /\ LET k == FirstMissing(lib) IN
       /\ ptr' = [s \in SymbolSet |->
                    LET i == CHOOSE j \in 1..9 : Symbols[j] = s IN
                    IF i < k THEN "lib" ELSE IF i = k THEN "NULL" ELSE ptr[s]]
       /\ loadRet' = IF k = 10 THEN 0 ELSE -1
       /\ refs' = IF k = 10 THEN refs + 1 ELSE refs
    /\ UNCHANGED <<tether_perfHandle, lowpower_perfHandle, lib, buildType, scn, crashed, ack, rps>>

\* netd calls into PerfController once load_PerfService() has returned 0.
Usable == crashed = "none" /\ loadRet = 0

(***************************************************************************)
(* userRegScn(): the lowest free slot, or a failure code when none is.     *)
(***************************************************************************)
\* Mutant: the search runs one slot past the table.
RegResultsPastEnd ==
    IF \E h \in Slots : scn[h] = "free"
    THEN {CHOOSE h \in Slots : scn[h] = "free" /\ \A g \in Slots : g < h => scn[g] /= "free"}
    ELSE {MaxScn}

RegResults ==
    IF \E h \in Slots : scn[h] = "free"
    THEN {CHOOSE h \in Slots : scn[h] = "free" /\ \A g \in Slots : g < h => scn[g] /= "free"}
    ELSE FailCodes

(* The new state of a slot after a registration returned r, which is      *)
(* then configured and enabled.                                            *)
Registered(sc, r) == IF r \in Slots THEN [sc EXCEPT ![r] = "enabled"] ELSE sc

(* userDisable(handle): PerfService ignores a handle that names no slot.  *)
Disabled(sc, hnd) == IF hnd \in Slots THEN [sc EXCEPT ![hnd] = "disabled"] ELSE sc

(* The symbols a registration that returned r goes on to call.            *)
ConfigCalls(r) == IF r >= 0 THEN {"userRegScnConfig", "userEnable"} ELSE {}

(***************************************************************************)
(* The strtok() loops over net.perf.cpu.core and net.perf.cpu.freq: each   *)
(* iteration reads a token for core[i][0] and the next for core[i][1].     *)
(* With an odd count the last atoi() gets strtok()'s NULL; more than       *)
(* MAX_CLUSTER pairs write past the stack arrays.                          *)
(***************************************************************************)
Parse(n) == [cluster |-> (n + 1) \div 2, atoiNull |-> n % 2 = 1]
Overruns(n) == Parse(n).cluster > MAX_CLUSTER

(* How the two loops end netd, if they do.  An overrun of the stack array *)
(* is undefined: netd may die or go on.                                   *)
ParseFates(nc, nf) ==
    IF Parse(nc).atoiNull \/ Parse(nf).atoiNull THEN {"atoi"}
    ELSE IF Overruns(nc) \/ Overruns(nf) THEN {"overrun", "none"}
    ELSE {"none"}

(* EnableRPS(iface, rps): writes net.perf.rps into the interface's        *)
(* rps_cpus; enable_Perf_RPS() drops what it returns.                      *)
EnableRPS(iface) ==
    \E rp \in RpsProps :
        \E v \in Written(rps[iface], rp) : rps' = [rps EXCEPT ![iface] = v]

(***************************************************************************)
(* enable_Perf_RPS(intIface): returns at once on an eng build, for a      *)
(* non-rndis interface, or while a tether scenario is held; leaves low     *)
(* power mode (exit_little_cpu()); parses the properties; writes the RPS   *)
(* mask; registers a scenario, returning -1 with the failure code kept in  *)
(* tether_perfHandle; otherwise configures and enables it.                 *)
\* Mutant: low power mode is not left first.
EnablePerfRPSNoExit(iface, nc, nf) ==
    /\ Usable
    /\ ~is_eng
    /\ iface \in RndisIfaces
    /\ tether_perfHandle = -1
    /\ LET exitCalls == {}
           scn1 == scn
       IN /\ UNCHANGED lowpower_perfHandle
          /\ \E fate \in ParseFates(nc, nf) :
               \/ /\ fate /= "none"
                  /\ crashed' = fate
                  /\ scn' = scn1
                  /\ UNCHANGED <<tether_perfHandle, rps>>
               \/ /\ fate = "none"
                  /\ EnableRPS(iface)
                  /\ \E r \in RegResults :
                       /\ tether_perfHandle' = r
                       /\ scn' = Registered(scn1, r)
                       /\ crashed' = IF CallsOK(exitCalls \cup {"userRegScn"} \cup ConfigCalls(r))
                                     THEN "none" ELSE "nullcall"
    /\ UNCHANGED <<ptr, refs, lib, buildType, loadRet, ack>>

(***************************************************************************)
EnablePerfRPS(iface, nc, nf) ==
    /\ Usable
    /\ ~is_eng
    /\ iface \in RndisIfaces
    /\ tether_perfHandle = -1
    /\ LET exitCalls == IF lowpower_perfHandle /= -1 THEN {"userDisable"} ELSE {}
           scn1 == IF lowpower_perfHandle /= -1
                   THEN Disabled(scn, lowpower_perfHandle) ELSE scn
       IN /\ lowpower_perfHandle' = -1
          /\ \E fate \in ParseFates(nc, nf) :
               \/ /\ fate /= "none"
                  /\ crashed' = fate
                  /\ scn' = scn1
                  /\ UNCHANGED <<tether_perfHandle, rps>>
               \/ /\ fate = "none"
                  /\ EnableRPS(iface)
                  /\ \E r \in RegResults :
                       /\ tether_perfHandle' = r
                       /\ scn' = Registered(scn1, r)
                       /\ crashed' = IF CallsOK(exitCalls \cup {"userRegScn"} \cup ConfigCalls(r))
                                     THEN "none" ELSE "nullcall"
    /\ UNCHANGED <<ptr, refs, lib, buildType, loadRet, ack>>

(***************************************************************************)
(* disable_Perf(): returns at once on an eng build, unless a test SIM is  *)
(* inserted, or with no tether scenario; otherwise disables it.            *)
(***************************************************************************)
DisablePerf(sim) ==
    /\ Usable
    /\ ~is_eng
    /\ is_testsim(sim)
    /\ tether_perfHandle /= -1
    /\ scn' = Disabled(scn, tether_perfHandle)
    /\ tether_perfHandle' = -1
    /\ crashed' = IF CallsOK({"userDisable"}) THEN "none" ELSE "nullcall"
    /\ UNCHANGED <<lowpower_perfHandle, ptr, refs, lib, buildType, loadRet, ack, rps>>

(***************************************************************************)
(* enter_little_cpu(): only when neither scenario is held; registers,     *)
(* configures and enables the low power scenario.                         *)
(***************************************************************************)
EnterLittleCpu ==
    /\ Usable
    /\ lowpower_perfHandle = -1
    /\ tether_perfHandle = -1
    /\ \E r \in RegResults :
         /\ lowpower_perfHandle' = r
         /\ scn' = Registered(scn, r)
         /\ crashed' = IF CallsOK({"userRegScn"} \cup ConfigCalls(r))
                       THEN "none" ELSE "nullcall"
    /\ UNCHANGED <<tether_perfHandle, ptr, refs, lib, buildType, loadRet, ack, rps>>

(* exit_little_cpu(): disables the low power scenario, if one is held.    *)
ExitLittleCpu ==
    /\ Usable
    /\ lowpower_perfHandle /= -1
    /\ scn' = Disabled(scn, lowpower_perfHandle)
    /\ lowpower_perfHandle' = -1
    /\ crashed' = IF CallsOK({"userDisable"}) THEN "none" ELSE "nullcall"
    /\ UNCHANGED <<tether_perfHandle, ptr, refs, lib, buildType, loadRet, ack, rps>>

(* set_ack_reduction(ack_setting) and restore_ack_reduction(), which     *)
(* writes "1"; a failed write returns -1 and changes nothing.             *)
SetAckReduction(setting) ==
    /\ crashed = "none"
    /\ ack' \in Written(ack, setting)
    /\ UNCHANGED <<tether_perfHandle, lowpower_perfHandle, ptr, refs, lib,
                   buildType, loadRet, scn, crashed, rps>>

RestoreAckReduction == SetAckReduction("1")

(* The kernel drops an interface's rps_cpus when the interface goes away  *)
(* (the comment above disable_Perf()); a new one starts with the default. *)
IfaceReset(i) ==
    /\ rps[i] /= KernelDefault
    /\ rps' = [rps EXCEPT ![i] = KernelDefault]
    /\ UNCHANGED <<tether_perfHandle, lowpower_perfHandle, ptr, refs, lib,
                   buildType, loadRet, scn, crashed, ack>>

Next ==
    \/ LoadPerfService
    \/ \E i \in RndisIfaces \cup OtherIfaces, nc, nf \in TokenCounts :
          EnablePerfRPS(i, nc, nf)
    \/ \E sim \in SimProps : DisablePerf(sim)
    \/ EnterLittleCpu
    \/ ExitLittleCpu
    \/ \E a \in AckSettings : SetAckReduction(a)
    \/ RestoreAckReduction
    \/ \E i \in Ifaces : IfaceReset(i)

Spec == Init /\ [][Next]_vars

-----------------------------------------------------------------------------
Handles == {tether_perfHandle, lowpower_perfHandle}

TypeOK ==
    /\ tether_perfHandle \in {-1} \cup Slots \cup FailCodes
    /\ lowpower_perfHandle \in {-1} \cup Slots \cup FailCodes
    /\ ptr \in [SymbolSet -> {"NULL", "lib"}]
    /\ refs \in 0..MaxLoads
    /\ loadRet \in {NotLoaded, 0, -1}
    /\ scn \in [Slots -> ScnStates]
    /\ crashed \in {"none", "nullcall", "atoi", "overrun"}
    /\ ack \in {KernelDefault, "1"} \cup AckSettings
    /\ rps \in [Ifaces -> {KernelDefault} \cup RpsProps]

(* The boosts PerfService applies are exactly the scenarios netd holds a  *)
(* handle for, and at most one of tethering and low power is applied:     *)
(* enable_Perf_RPS() must leave low power mode before it registers, every *)
(* userDisable() must clear its handle, and a handle must never be        *)
(* overwritten while its scenario is enabled.                             *)
EnabledMatchesHandles ==
    LET enabled == {h \in Slots : scn[h] = "enabled"} IN
    /\ enabled = Handles \cap Slots
    /\ Cardinality(enabled) <= 1

(* netd never calls through a PerfService pointer that load_PerfService() *)
(* left NULL, whatever library is installed and however often it loads.   *)
NoNullCall == crashed /= "nullcall"

(* Every scenario netd registered in PerfService is either still named by *)
(* one of its handles or has been given back with userUnregScn().         *)
ScenariosReclaimed == \A h \in Slots : scn[h] /= "free" => h \in Handles

(* The core and frequency properties never end netd in enable_Perf_RPS(). *)
NoParseCrash == crashed \notin {"atoi", "overrun"}

(* While netd holds the tether boost, the RPS mask of net.perf.rps is in  *)
(* place on an rndis interface, as enable_Perf_RPS() logs ("tether        *)
(* perfservice and rps enable"): a failed EnableRPS() must not be left    *)
(* behind a held handle that keeps every later call from retrying it.     *)
RpsAppliedWhileBoosted ==
    tether_perfHandle \in Slots =>
        \E i \in RndisIfaces : rps[i] \in RpsProps \ {""}
=============================================================================
