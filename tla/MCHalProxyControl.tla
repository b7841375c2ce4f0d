-------------------------- MODULE MCHalProxyControl -------------------------
(***************************************************************************)
(* A small instance of HalProxyControl.  The config files name a library   *)
(* that cannot be opened and one whose 2.0 entry reports version 2.1, so   *)
(* that the index of a sub-HAL is not its place in the files; the handle   *)
(* of "skipped" has its first byte taken; the first sub-HAL with direct    *)
(* channels is not the first of the list, nor the only one.                *)
(***************************************************************************)
EXTENDS HalProxyControl

MCFile == {"a", "b", "c", "missing", "mixed"}
MCConf == <<"missing", "a", "mixed", "b", "c">>

Lib(found, symbols, version) ==
  [found |-> found, symbols |-> symbols, version |-> version]
MCLibrary ==
  [f \in MCFile |-> CASE f = "missing" -> Lib(FALSE, {}, "other")
                      [] f = "mixed"   -> Lib(TRUE, {"2_0", "2_1"}, "2_1")
                      [] f = "a"       -> Lib(TRUE, {"2_0"}, "2_0")
                      [] OTHER         -> Lib(TRUE, {"2_1"}, "2_1")]

Sensor(name, handle, type, direct) ==
  [name |-> name, handle |-> handle, type |-> type, direct |-> direct]

MCName == {"skipped", "light", "gyro", "hid", "pen"}

MCStatic ==
  [f \in MCFile |-> CASE f = "a" -> {Sensor("skipped", IndexUnit + 2, "OTHER", FALSE)}
                      [] f = "b" -> {Sensor("light", 1, "QTI_WISE_LIGHT", TRUE)}
                      [] f = "c" -> {Sensor("gyro", 2, "OTHER", TRUE)}
                      [] OTHER   -> {}]

MCDynamic ==
  [f \in MCFile |-> CASE f = "a" -> {Sensor("hid", 3, "OTHER", FALSE)}
                      [] f = "c" -> {Sensor("pen", 1, "OTHER", FALSE)}
                      [] OTHER   -> {}]

\* -1 stands for all sensors in configDirectReport; no sub-HAL has it elsewhere.
MCBadHandles == {-1}
=============================================================================
