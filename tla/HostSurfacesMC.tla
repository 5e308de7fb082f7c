---------------------------- MODULE HostSurfacesMC ---------------------------
(***************************************************************************)
(* The surfaces a host application uses beside the durable path and the    *)
(* editor: the monitor, the low-level service operations and the repair of *)
(* legacy versions.  They share no state, so a behaviour is one of theirs, *)
(* with the others at rest.                                                *)
(***************************************************************************)
EXTENDS MonitorSession, HostService, LegacyVersions, TLC

CONSTANTS v1, v2, i1, i2, ask, work, fork, sig1, sig2, stageA, va, k1, k2

\* Two versions of a definition, and two instances of the first.
Versions == (i1 :> v1) @@ (i2 :> v1)
Filters == [all |-> Instance, block |-> {i1}]
AtFirst == (i1 :> 2) @@ (i2 :> 0)
RowsOf == (i1 :> 3) @@ (i2 :> 0)

\* A service task in a stage that leads to a form with a timeout, whose way
\* on is a gateway to the task.
Types == (ask :> "user") @@ (work :> "service") @@ (fork :> "gateway")
Nexts == (ask :> {}) @@ (work :> {ask}) @@ (fork :> {work})
Timeouts == (ask :> fork) @@ [b \in {work, fork} |-> Absent]
Waits == (ask :> {sig1, sig2}) @@ [b \in {work, fork} |-> {}]
Stages == (work :> stageA) @@ [b \in {ask, fork} |-> Absent]

\* Two or three rows of one version whose eligibility changes with time, one
\* whose numbers run out, one whose YAML disagrees; a second key in order.
Stored(key, version, index, from, until) ==
    [key |-> key, version |-> version, stated |-> version, index |-> index,
     active |-> TRUE, from |-> from, until |-> until]
SomeTables ==
    {<<Stored(k1, <<0, 0, 1>>, 1, 0, 9), Stored(k1, <<0, 0, 1>>, 1, 0, 1), Stored(k1, <<0, 0, 1>>, 2, 1, 9)>>,
     <<Stored(k1, <<0, 0, 0>>, 1, 0, 9), Stored(k1, <<0, 0, 0>>, 2, 0, 1), Stored(k1, <<0, 1, 1>>, 3, 0, 9)>>,
     <<Stored(k1, <<1, 1, 1>>, 1, 0, 9), Stored(k1, <<1, 1, 1>>, 2, 0, 9)>>,
     <<Stored(k1, <<0, 0, 1>>, 1, 0, 9), [Stored(k1, <<0, 0, 1>>, 1, 0, 9) EXCEPT !.stated = <<0, 0, 0>>]>>}
OldRows == {Stored(k1, <<0, 0, 1>>, 2, 0, 9), Stored(k2, <<0, 1, 1>>, 1, 0, 9)}

VARIABLE surface
surfaceVars == <<monitorVars, hostVars, repairVars, surface>>

SurfaceInit ==
    /\ MonitorInit /\ HostInit /\ RepairInit
    /\ surface \in {"monitor", "host", "repair"}
    /\ surface # "monitor" => scope = CHOOSE s \in Scope : TRUE
    /\ surface # "repair" => table = CHOOSE t \in Legacy : TRUE

SurfaceNext ==
    /\ UNCHANGED surface
    /\ \/ surface = "monitor" /\ MonitorNext /\ UNCHANGED <<hostVars, repairVars>>
       \/ surface = "host" /\ HostNext /\ UNCHANGED <<monitorVars, repairVars>>
       \/ surface = "repair" /\ RepairNext /\ UNCHANGED <<monitorVars, hostVars>>

CallerSymmetry == Permutations(Caller)

SurfaceSpec == SurfaceInit /\ [][SurfaceNext]_surfaceVars
=============================================================================
