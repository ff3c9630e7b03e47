-------------------------- MODULE ArtifactRegister --------------------------
(***************************************************************************)
(* What the destination of concurrent SQLite builders promises, with no    *)
(* temporary files and no steps: an atomic register of whole artifacts.    *)
(*                                                                         *)
(* A writer publishes at most once, in one step.  Without overwrite it only*)
(* fills an empty register.  A loss of power may take the register back to *)
(* an artifact it held since it was last made durable.  What callers are   *)
(* told is true: "stored" survives a loss of power, "refused" never showed.*)
(***************************************************************************)
EXTENDS Integers, Sequences

CONSTANTS
    Writers, Overwriters, Old, NoFile,
    Durable         \* the host can make the register durable

VARIABLES
    current,        \* the artifact in the register
    recent,         \* those a loss of power may bring back
    log,            \* the artifacts published, in order
    told            \* what each caller knows

vars == <<current, recent, log, told>>

InLog(w) == \E i \in DOMAIN log : log[i] = w

Init ==
    /\ current \in {Old, NoFile}
    /\ recent = {current}
    /\ log    = << >>
    /\ told   = [w \in Writers |-> "nothing"]

Publish(w) ==
    /\ w \in Overwriters \/ current = NoFile
    /\ ~InLog(w) /\ told[w] = "nothing"
    /\ current' = w
    /\ recent'  = recent \cup {w}
    /\ log'     = Append(log, w)
    /\ UNCHANGED told

MakeDurable ==
    /\ recent' = {current}
    /\ UNCHANGED <<current, log, told>>

LosePower ==
    /\ current' \in recent
    /\ recent' = {current'}
    /\ UNCHANGED <<log, told>>

\* The artifact of w, or one published after it, is there to stay.
Survives(w) ==
    \A f \in recent : \E i, j \in DOMAIN log : log[i] = w /\ log[j] = f /\ i <= j

Tell(w, answer) ==
    /\ told[w] = "nothing"
    /\ told' = [told EXCEPT ![w] = answer]
    /\ UNCHANGED <<current, recent, log>>

Store(w)  == InLog(w) /\ (Durable => Survives(w)) /\ Tell(w, "stored")
Change(w) == InLog(w) /\ Tell(w, "changed")
Refuse(w) == ~InLog(w) /\ Tell(w, "refused")

Next ==
    \/ \E w \in Writers : Publish(w) \/ Store(w) \/ Change(w) \/ Refuse(w)
    \/ MakeDurable
    \/ LosePower

Spec == Init /\ [][Next]_vars
=============================================================================
