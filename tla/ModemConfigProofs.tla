------------------------- MODULE ModemConfigProofs --------------------------
(***************************************************************************)
(* Theorems about ModemConfig, for any versions and any number of reboots. *)
(***************************************************************************)
EXTENDS ModemConfig, TLAPS

\* The types the proofs need: versions on disk, owners, and the place in Steps.
TypeOK ==
  /\ fw \in Versions /\ data \in [Files -> Versions \cup {None, Part}]
  /\ owner \in [Files -> {"root", "radio"}]
  /\ pc \in {"boot", "run", "done"} /\ at \in 1..6

\* The place in the script at which each of its steps runs.
LEMMA DoingAt ==
  ASSUME TypeOK
  PROVE  /\ Doing("rm") => pc = "run" /\ at = 1
         /\ Doing("configs") => pc = "run" /\ at = 2
         /\ Doing("ver_info") => pc = "run" /\ at = 3
         /\ Doing("mbn_ota") => pc = "run" /\ at = 4
         /\ Doing("chown") => pc = "run" /\ at = 5
         /\ at > Len(Steps) => at = 6
  BY DEF Doing, Steps, TypeOK

\* A file is copied at its own place only.
LEMMA CopyAt ==
  ASSUME TypeOK, NEW f \in Files, Doing(f)
  PROVE  /\ pc = "run"
         /\ \/ f = "configs" /\ at = 2
            \/ f = "ver_info" /\ at = 3
            \/ f = "mbn_ota" /\ at = 4
  BY DoingAt DEF Files

\* The script starts with values of these types, every step of it and every
\* reboot keeps them.
LEMMA TypeInit == Init => TypeOK
  BY DEF Init, TypeOK

LEMMA TypeStep == TypeOK /\ [Next]_vars => TypeOK'
<1> SUFFICES ASSUME TypeOK, [Next]_vars PROVE TypeOK'
  OBVIOUS
<1>1. CASE Compare
  <2>1. at' = 1 \/ at' = 6
    BY <1>1 DEF Compare, Steps
  <2> QED BY <1>1, <2>1 DEF Compare, TypeOK
<1>2. CASE RemoveDone \/ Chown
  <2>1. at < 6 /\ at' = at + 1
    BY <1>2, DoingAt DEF RemoveDone, Chown
  <2> QED BY <1>2, <2>1 DEF RemoveDone, Chown, TypeOK
<1>3. CASE Announce
  BY <1>3 DEF Announce, TypeOK
<1>4. CASE Reboot
  BY <1>4 DEF Reboot, TypeOK
<1>5. CASE Run \/ UNCHANGED vars
  BY <1>5 DEF Run, vars, TypeOK
<1>6. ASSUME NEW f \in Files, Remove(f)
      PROVE  TypeOK'
  BY <1>6 DEF Remove, TypeOK
<1>7. ASSUME NEW f \in Files, CopyBegin(f)
      PROVE  TypeOK'
  BY <1>7 DEF CopyBegin, TypeOK
<1>8. ASSUME NEW f \in Files, CopyEnd(f)
      PROVE  TypeOK'
  <2>1. at < 6 /\ at' = at + 1
    BY <1>8, CopyAt DEF CopyEnd
  <2> QED BY <1>8, <2>1 DEF CopyEnd, TypeOK
<1> QED BY <1>1, <1>2, <1>3, <1>4, <1>5, <1>6, <1>7, <1>8 DEF Next

LEMMA TypeCorrect == Spec => []TypeOK
  BY TypeInit, TypeStep, PTL DEF Spec
-----------------------------------------------------------------------------
\* Unless the firmware became older, a version of the running firmware is only
\* found beside its configs.  While rm and the copy of the configs run, the
\* version is another one.
ConfigsInv ==
  /\ ~rolledBack =>
       /\ \A f \in Files : data[f] <= fw
       /\ data["ver_info"] = fw => data["configs"] = fw
       /\ pc = "run" /\ at > 2 => data["configs"] = fw
       /\ pc = "done" => data["configs"] = fw
  /\ pc = "run" /\ at <= 2 => data["ver_info"] # fw
  /\ pc = "run" /\ at = 2 => data["ver_info"] = None
  /\ completed => pc = "done"

\* The configs are those of the running firmware whenever the copy is announced,
\* even if reboots interrupted it before, unless the firmware became older.
THEOREM ConfigsWhenCompletedAlways == Spec => []ConfigsWhenCompleted
<1>1. Init => ConfigsInv
  BY ModemAssumption DEF Init, ConfigsInv, None, Files
<1>2. TypeOK /\ ConfigsInv /\ [Next]_vars => ConfigsInv'
  <2> SUFFICES ASSUME TypeOK, ConfigsInv, [Next]_vars PROVE ConfigsInv'
    OBVIOUS
  <2> DEFINE Value == Versions \cup {None, Part}
  <2>1. /\ fw \in Nat \ {0} /\ Value \subseteq Int /\ None = 0 /\ Part = -1
        /\ data \in [Files -> Value] /\ at \in 1..6
        /\ "configs" \in Files /\ "ver_info" \in Files
    BY ModemAssumption DEF TypeOK, None, Part, Files
  <2>2. CASE Compare
    <3>1. UNCHANGED <<fw, data, completed, rolledBack>> /\ pc = "boot" /\ pc' = "run"
      BY <2>2 DEF Compare, history
    <3>2. IF data["ver_info"] # fw THEN at' = 1 ELSE at' = 6
      BY <2>2 DEF Compare, Outdated, Steps
    <3> QED BY <2>1, <3>1, <3>2 DEF ConfigsInv
  <2>3. CASE RemoveDone
    <3>1. /\ UNCHANGED <<fw, data, completed, pc>> /\ pc = "run" /\ at = 1 /\ at' = 2
          /\ \A f \in Files : data[f] = None
      BY <2>1, <2>3, DoingAt DEF RemoveDone
    <3> QED BY <2>1, <3>1 DEF ConfigsInv
  <2>4. CASE Chown
    <3>1. UNCHANGED <<fw, data, completed, rolledBack, pc>> /\ pc = "run" /\ at = 5 /\ at' = 6
      BY <2>4, DoingAt DEF Chown, history
    <3> QED BY <3>1 DEF ConfigsInv
  <2>5. CASE Announce
    <3>1. UNCHANGED <<fw, data, rolledBack>> /\ pc = "run" /\ at = 6 /\ pc' = "done"
      BY <2>5, DoingAt DEF Announce, history
    <3> QED BY <3>1 DEF ConfigsInv
  <2>6. CASE Reboot
    <3>1. /\ data' = data /\ pc' = "boot" /\ completed' = FALSE
          /\ fw' \in Nat \ {0}
          /\ ~rolledBack' => ~rolledBack /\ ~(fw' < fw)
      BY <2>6, ModemAssumption DEF Reboot
    <3>2. ASSUME ~rolledBack'
          PROVE  /\ \A f \in Files : data[f] <= fw'
                 /\ data["ver_info"] = fw' => data["configs"] = fw'
      <4>1. \A f \in Files : data[f] \in Int /\ data[f] <= fw
        BY <2>1, <3>1, <3>2 DEF ConfigsInv
      <4>2. fw <= fw'
        BY <2>1, <3>1, <3>2
      <4>3. data["ver_info"] = fw' => fw' = fw
        BY <2>1, <3>1, <4>1, <4>2
      <4>4. \A f \in Files : data[f] <= fw'
        BY <2>1, <3>1, <4>1, <4>2
      <4> QED BY <3>1, <3>2, <4>3, <4>4 DEF ConfigsInv
    <3> QED BY <3>1, <3>2 DEF ConfigsInv
  <2>7. CASE Run \/ UNCHANGED vars
    BY <2>7 DEF Run, vars, history, ConfigsInv
  <2>8. ASSUME NEW f \in Files, Remove(f)
        PROVE  ConfigsInv'
    <3>1. /\ UNCHANGED <<fw, completed, rolledBack, pc, at>> /\ pc = "run" /\ at = 1
          /\ data' = [data EXCEPT ![f] = None]
      BY <2>8, DoingAt DEF Remove, history
    <3> QED BY <2>1, <3>1 DEF ConfigsInv
  <2>9. ASSUME NEW f \in Files, CopyBegin(f)
        PROVE  ConfigsInv'
    <3>1. /\ UNCHANGED <<fw, completed, rolledBack, pc, at>> /\ pc = "run"
          /\ data' = [data EXCEPT ![f] = Part]
          /\ \/ f = "configs" /\ at = 2
             \/ f = "ver_info" /\ at = 3
             \/ f = "mbn_ota" /\ at = 4
      BY <2>9, CopyAt DEF CopyBegin, history
    <3> QED BY <2>1, <3>1 DEF ConfigsInv
  <2>10. ASSUME NEW f \in Files, CopyEnd(f)
         PROVE  ConfigsInv'
    <3>1. /\ UNCHANGED <<fw, completed, rolledBack, pc>> /\ pc = "run" /\ at' = at + 1
          /\ data' = [data EXCEPT ![f] = fw]
          /\ \/ f = "configs" /\ at = 2
             \/ f = "ver_info" /\ at = 3
             \/ f = "mbn_ota" /\ at = 4
      BY <2>10, CopyAt DEF CopyEnd, history
    <3> QED BY <2>1, <3>1 DEF ConfigsInv
  <2> QED BY <2>2, <2>3, <2>4, <2>5, <2>6, <2>7, <2>8, <2>9, <2>10 DEF Next
<1>3. ConfigsInv => ConfigsWhenCompleted
  BY DEF ConfigsInv, ConfigsWhenCompleted
<1> QED BY <1>1, <1>2, <1>3, TypeCorrect, PTL DEF Spec
-----------------------------------------------------------------------------
\* Between two boots nothing has been copied or everything has; the script
\* fills the folder in the order of its steps.
CopiedInv ==
  /\ completed => pc = "done"
  /\ ~interrupted =>
       /\ pc = "boot" => \/ \A f \in Files : data[f] = None
                         \/ \E v \in Versions : \A f \in Files : data[f] = v /\ owner[f] = "radio"
       /\ pc = "run" /\ at >= 3 => data["configs"] = fw
       /\ pc = "run" /\ at >= 4 => data["ver_info"] = fw
       /\ pc = "run" /\ at >= 5 => data["mbn_ota"] = fw
       /\ pc = "run" /\ at = 6 => \A f \in Files : owner[f] = "radio"
       /\ pc = "done" => \A f \in Files : data[f] = fw /\ owner[f] = "radio"

\* Unless a reboot interrupted the copy since the folder was last emptied, every
\* announced copy is complete, of the running firmware and owned by the RIL, for
\* any sequence of firmware versions.
THEOREM CopiedUnlessInterruptedAlways == Spec => []CopiedUnlessInterrupted
<1>1. Init => CopiedInv
  BY DEF Init, CopiedInv
<1>2. TypeOK /\ CopiedInv /\ [Next]_vars => CopiedInv'
  <2> SUFFICES ASSUME TypeOK, CopiedInv, [Next]_vars PROVE CopiedInv'
    OBVIOUS
  <2>1. /\ fw # None /\ at \in 1..6
        /\ DOMAIN data = Files /\ DOMAIN owner = Files
        /\ "configs" \in Files /\ "ver_info" \in Files /\ "mbn_ota" \in Files
    BY ModemAssumption DEF TypeOK, None, Files
  <2>2. CASE Compare
    <3>1. UNCHANGED <<fw, data, owner, completed, interrupted>> /\ pc = "boot" /\ pc' = "run"
      BY <2>2 DEF Compare, history
    <3>2. IF data["ver_info"] # fw THEN at' = 1 ELSE at' = 6
      BY <2>2 DEF Compare, Outdated, Steps
    <3>3. ~interrupted /\ data["ver_info"] = fw => \A f \in Files : data[f] = fw /\ owner[f] = "radio"
      BY <2>1, <3>1 DEF CopiedInv
    <3>4. CASE data["ver_info"] = fw
      BY <2>1, <3>1, <3>2, <3>3, <3>4 DEF CopiedInv
    <3>5. CASE data["ver_info"] # fw
      BY <3>1, <3>2, <3>5 DEF CopiedInv
    <3> QED BY <3>4, <3>5
  <2>3. CASE RemoveDone
    <3>1. UNCHANGED <<completed, pc>> /\ pc = "run" /\ at' = 2
      BY <2>3, DoingAt DEF RemoveDone
    <3> QED BY <3>1 DEF CopiedInv
  <2>4. CASE Chown
    <3>1. /\ UNCHANGED <<fw, data, completed, interrupted, pc>> /\ pc = "run" /\ at = 5 /\ at' = 6
          /\ owner' = [f \in Files |-> "radio"]
      BY <2>4, DoingAt DEF Chown, history
    <3> QED BY <3>1 DEF CopiedInv
  <2>5. CASE Announce
    <3>1. UNCHANGED <<fw, data, owner, interrupted>> /\ pc = "run" /\ at = 6 /\ pc' = "done"
      BY <2>5, DoingAt DEF Announce, history
    <3> QED BY <3>1 DEF CopiedInv, Files
  <2>6. CASE Reboot
    <3>1. /\ UNCHANGED <<data, owner>> /\ pc' = "boot" /\ completed' = FALSE
          /\ ~interrupted' => ~interrupted /\ ~(pc = "run" /\ at <= 5)
          /\ fw \in Versions /\ pc \in {"boot", "run", "done"}
      BY <2>6 DEF Reboot, Steps, TypeOK
    <3>2. ASSUME ~interrupted', pc # "boot"
          PROVE  \A f \in Files : data[f] = fw /\ owner[f] = "radio"
      BY <2>1, <3>1, <3>2 DEF CopiedInv, Files
    <3>3. CASE pc = "boot"
      BY <3>1, <3>3 DEF CopiedInv
    <3>4. CASE pc # "boot"
      BY <3>1, <3>2, <3>4 DEF CopiedInv
    <3> QED BY <3>3, <3>4
  <2>7. CASE Run \/ UNCHANGED vars
    BY <2>7 DEF Run, vars, history, CopiedInv
  <2>8. ASSUME NEW f \in Files, Remove(f)
        PROVE  CopiedInv'
    <3>1. UNCHANGED <<fw, completed, interrupted, pc, at>> /\ pc = "run" /\ at = 1
      BY <2>8, DoingAt DEF Remove, history
    <3> QED BY <3>1 DEF CopiedInv
  <2>9. ASSUME NEW f \in Files, CopyBegin(f)
        PROVE  CopiedInv'
    <3>1. /\ UNCHANGED <<fw, completed, interrupted, pc, at>> /\ pc = "run"
          /\ data' = [data EXCEPT ![f] = Part]
          /\ \/ f = "configs" /\ at = 2
             \/ f = "ver_info" /\ at = 3
             \/ f = "mbn_ota" /\ at = 4
      BY <2>9, CopyAt DEF CopyBegin, history
    <3> QED BY <2>1, <3>1 DEF CopiedInv
  <2>10. ASSUME NEW f \in Files, CopyEnd(f)
         PROVE  CopiedInv'
    <3>1. /\ UNCHANGED <<fw, owner, completed, interrupted, pc>> /\ pc = "run" /\ at' = at + 1
          /\ data' = [data EXCEPT ![f] = fw]
          /\ \/ f = "configs" /\ at = 2
             \/ f = "ver_info" /\ at = 3
             \/ f = "mbn_ota" /\ at = 4
      BY <2>10, CopyAt DEF CopyEnd, history
    <3> QED BY <2>1, <3>1 DEF CopiedInv
  <2> QED BY <2>2, <2>3, <2>4, <2>5, <2>6, <2>7, <2>8, <2>9, <2>10 DEF Next
<1>3. CopiedInv => CopiedUnlessInterrupted
  BY DEF CopiedInv, CopiedUnlessInterrupted, CopiedWhenCompleted
<1> QED BY <1>1, <1>2, <1>3, TypeCorrect, PTL DEF Spec
=============================================================================
