---------------------------- MODULE MCOperator ------------------------------
(* Small instances of Operator.                                            *)
EXTENDS Operator

CONSTANTS c1, c2

Ask(cpu, cores, memory) == [cpu |-> cpu, cores |-> cores, memory |-> memory]

\* Two processors, one core per socket, two units of memory.
Machine == Ask(2, 1, 2)

\* More processors; fewer, with more memory; more with the cores there are, and
\* less memory; other cores alone.
SomeWants == {Ask(3, 0, 0), Ask(1, 0, 3), Ask(3, 1, 1), Ask(0, 2, 0)}

HotPlug(add, remove, memory) ==
    [addCpu |-> add, removeCpu |-> remove, addMemory |-> memory]

\* No hot plug; all of it; processors only, with nothing said of memory.
SomeHotPlugs == {HotPlug("disabled", "disabled", "disabled"),
                 HotPlug("enabled", "enabled", "enabled"),
                 HotPlug("enabled", "enabled", "unset")}

\* A change of processors on a machine without hot plug.
JustReconfigure == {"reconfigure"}
JustProcessors == {Ask(3, 0, 0)}
NoHotPlug == {HotPlug("disabled", "disabled", "disabled")}

=============================================================================
