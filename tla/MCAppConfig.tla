---------------------------- MODULE MCAppConfig ----------------------------
(* Instances of AppConfig for TLC. *)
EXTENDS AppConfig, TLC

CONSTANTS p1, p2, r1, r2, r3, name, accent, v0, v1

\* accentColor may be left empty and has a default; appName is required.
Keys == {InstanceId, name, accent}
Defaults == [k \in Keys |-> IF k = InstanceId THEN Empty ELSE v0]

\* p1 takes its configuration from the table, p2 from the environment.
DisabledInP2 == [p \in Process |-> p = p2]
Enabled == [p \in Process |-> FALSE]
NameFromEnv == [k \in {name, accent} |-> IF k = name THEN v1 ELSE Absent]

\* r1 and r2 are made in p1, r3 in p2.
Homes == [r \in Request |-> IF r = r3 THEN p2 ELSE p1]

FirstBoot == [k \in Keys |-> Absent]
InUse == [k \in Keys |-> IF k = accent THEN Empty ELSE v0]
FirstBoots == {FirstBoot}
FirstBootOrInUse == {FirstBoot, InUse}
=============================================================================
