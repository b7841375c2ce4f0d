---------------------------- MODULE ModemConfig -----------------------------
(***************************************************************************)
(* The copy of the modem configuration that init.qcom.sh makes at boot     *)
(* when the firmware has changed (init/init.qcom.sh, started by service    *)
(* qcom-sh of init.qcom.rc).  The files in /data survive a reboot, the     *)
(* property that announces the copy does not.  A reboot may come between   *)
(* any two steps of the script, and in the middle of rm and cp.            *)
(*                                                                         *)
(* Files written before a reboot are taken to be on disk, in order; write  *)
(* permissions are not modelled.                                           *)
(***************************************************************************)
EXTENDS Integers, Sequences

CONSTANTS
  Versions,     \* versions of the firmware: numbers, higher is newer
  MaxReboots    \* bound

ASSUME ModemAssumption ==
  Versions \subseteq Nat \ {0} /\ Versions # {} /\ MaxReboots \in Nat

\* configs stands for what firmware_mnt holds under mcfg/configs.
Files == {"configs", "ver_info", "mbn_ota"}
None  == 0
Part  == -1   \* a copy that was interrupted

VARIABLES
  fw,             \* version of the firmware on /vendor/firmware_mnt
  data, owner,    \* /data/vendor/modem_config: version and owner of each file
  pc, at,         \* the script, and the next of its Steps
  completed,      \* ro.vendor.ril.mbn_copy_completed
  interrupted,    \* history: since the folder was last emptied a reboot has
                  \* interrupted the copy
  rolledBack,     \* history: since then the firmware has become older
  reboots

history == <<interrupted, rolledBack, reboots>>
vars == <<fw, data, owner, pc, at, completed, history>>

Init ==
  /\ fw \in Versions
  /\ data = [f \in Files |-> None] /\ owner = [f \in Files |-> "root"]
  /\ pc = "boot" /\ at = 1 /\ completed = FALSE
  /\ interrupted = FALSE /\ rolledBack = FALSE /\ reboots = 0
-----------------------------------------------------------------------------
\* The body of the if.  The mutants write the version first, and change the
\* owner before there is anything to own.
StepsVersionFirst == <<"rm", "ver_info", "configs", "mbn_ota", "chown">>

StepsOwnerFirst == <<"rm", "chown", "configs", "ver_info", "mbn_ota">>

Steps == <<"rm", "configs", "ver_info", "mbn_ota", "chown">>

\* The condition of the if.
Outdated == data["ver_info"] # fw

Compare ==
  /\ pc = "boot"
  /\ pc' = "run" /\ at' = IF Outdated THEN 1 ELSE Len(Steps) + 1
  /\ UNCHANGED <<fw, data, owner, completed, history>>

Doing(s) == pc = "run" /\ at <= Len(Steps) /\ Steps[at] = s

\* rm -rf, one file after the other.
Remove(f) ==
  /\ Doing("rm") /\ data[f] # None
  /\ data' = [data EXCEPT ![f] = None]
  /\ UNCHANGED <<fw, owner, pc, at, completed, history>>

RemoveDone ==
  /\ Doing("rm") /\ \A f \in Files : data[f] = None
  /\ at' = at + 1
  /\ interrupted' = FALSE /\ rolledBack' = FALSE
  /\ UNCHANGED <<fw, data, owner, pc, completed, reboots>>

\* cp, which leaves an incomplete copy on its way.
CopyBegin(f) ==
  /\ Doing(f) /\ data[f] = None
  /\ data' = [data EXCEPT ![f] = Part] /\ owner' = [owner EXCEPT ![f] = "root"]
  /\ UNCHANGED <<fw, pc, at, completed, history>>

CopyEnd(f) ==
  /\ Doing(f) /\ data[f] = Part
  /\ data' = [data EXCEPT ![f] = fw]
  /\ at' = at + 1
  /\ UNCHANGED <<fw, owner, pc, completed, history>>

Chown ==
  /\ Doing("chown")
  /\ owner' = [f \in Files |-> "radio"]
  /\ at' = at + 1
  /\ UNCHANGED <<fw, data, pc, completed, history>>

Announce ==
  /\ pc = "run" /\ at > Len(Steps)
  /\ completed' = TRUE /\ pc' = "done"
  /\ UNCHANGED <<fw, data, owner, at, history>>

\* Another boot, perhaps with another firmware.
Reboot ==
  /\ reboots < MaxReboots /\ reboots' = reboots + 1
  /\ fw' \in Versions
  /\ pc' = "boot" /\ at' = 1 /\ completed' = FALSE
  /\ interrupted' = (interrupted \/ (pc = "run" /\ at <= Len(Steps)))
  /\ rolledBack' = (rolledBack \/ fw' < fw)
  /\ UNCHANGED <<data, owner>>

\* The device just runs.
Run == pc = "done" /\ UNCHANGED vars

Next ==
  \/ Compare \/ RemoveDone \/ Chown \/ Announce \/ Reboot \/ Run
  \/ \E f \in Files : Remove(f) \/ CopyBegin(f) \/ CopyEnd(f)

Spec == Init /\ [][Next]_vars
-----------------------------------------------------------------------------
\* When the copy is announced the configs are complete and of the running
\* firmware, in spite of reboots in the middle of this copy and of earlier ones,
\* unless the firmware has become older since the folder was last emptied.
ConfigsWhenCompleted == completed /\ ~rolledBack => data["configs"] = fw

\* "Make modem config folder and copy firmware config to that folder for RIL":
\* when the copy is announced every file is that of the running firmware and
\* belongs to the RIL.
CopiedWhenCompleted ==
  completed => \A f \in Files : data[f] = fw /\ owner[f] = "radio"

\* The same, unless a reboot has interrupted the copy: what an interrupted copy
\* leaves behind is gone with the next change of the firmware.
CopiedUnlessInterrupted == ~interrupted => CopiedWhenCompleted
=============================================================================
