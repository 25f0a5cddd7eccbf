--------------------------- MODULE KillSwitchOps ----------------------------
(***************************************************************************)
(* KillSwitchManager (safety/kill_switch.py): the state is the set of      *)
(* switches that are active, each a scope with its target.  The record a   *)
(* switch carries (reason, who activated it) only words the error.         *)
(***************************************************************************)

Global == <<"GLOBAL", "GLOBAL">>

\* The switches get_active_switch_record looks for, in its order.
SwitchesOf(request) ==
    {Global,
     <<"ACTION_TYPE", request.action>>,
     <<"CHANNEL", request.channel>>,
     <<"CUSTOMER", request.customer>>,
     <<"CASE", request.case>>}

\* Whether check_execution_allowed raises for the request.
Halted(switches, request) == SwitchesOf(request) \cap switches # {}

=============================================================================
