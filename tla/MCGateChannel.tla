--------------------------- MODULE MCGateChannel ----------------------------
(***************************************************************************)
(* Gates to check: with and without deadline, with the default and with    *)
(* declared actions, with and without stop on reject.                      *)
(***************************************************************************)
EXTENDS GateChannel

\* One gate for every timeout policy and reaction to a rejection; the step
\* declares nothing, only accept, or a word the gate does not know.
MCConfigs ==
    {c \in GateConfig : c.declared \in {{}, {"accept"}, {"reject", "junk"}}}

\* The gates of the web API: no deadline.
WebConfigs == {c \in MCConfigs : c.onTimeout = "wait"}
=============================================================================
