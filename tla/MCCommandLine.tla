---------------------------- MODULE MCCommandLine ----------------------------
(***************************************************************************)
(* The commands in the foreground, in the background and misused, with up  *)
(* to three diagnostics (two are retained) and two entries, and with two   *)
(* interrupts, one of which can hit the cleanup after the other.           *)
(***************************************************************************)
EXTENDS CommandLine

Given(action, kind, options) ==
    [action |-> action, store |-> kind,
     options |-> [o \in {"mount", "simulate", "background", "custom"} |-> o \in options]]

AllModes ==
    { Given("create", "sqlite", o) :
        o \in {{}, {"simulate"}, {"background"}, {"mount"}, {"mount", "background"},
               {"mount", "background", "custom"}} }
    \cup { Given("mount", "sqlite", o) : o \in {{"mount"}, {"mount", "background"}} }
    \cup { Given("mount", "memory", o) : o \in {{"mount"}, {"mount", "background"}} }
    \cup { Given("show", "sqlite", {}), Given("run", "sqlite", {"mount"}) }
=============================================================================
