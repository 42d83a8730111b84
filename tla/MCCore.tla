------------------------------- MODULE MCCore -------------------------------
EXTENDS Core

CONSTANTS o1, o2

\* A call that makes sure of a core, beside every kind of call.
Pairs == {<<"StartTUN", k>> : k \in Kinds \ {"SetProxyMode"}} \cup
         {<<"StartProxy", k>> : k \in Kinds \ {"StartTUN", "StopTUN", "SaveSettings", "SetProxyMode"}} \cup
         {<<"SwitchMode", k>> : k \in {"SwitchMode", "SetProxyMode", "SaveSettings"}}
MCSchedules == {[o \in Ops |-> IF o = o1 THEN k[1] ELSE k[2]] : k \in Pairs}
=============================================================================
