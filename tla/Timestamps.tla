------------------------------ MODULE Timestamps ------------------------------
(***************************************************************************)
(* The instant that a wall-clock time of a listing means (timestamps.py).  *)
(*                                                                         *)
(* A zone is an offset and the changes of it.  Local times, instants and   *)
(* offsets are integers in one unit.  The two operators on a zone are what *)
(* zoneinfo computes: the offset of a local time, which its fold picks     *)
(* where a change of offset makes the time repeated or missing, and the    *)
(* local time of an instant.                                               *)
(***************************************************************************)
EXTENDS Integers, FiniteSets, FiniteSetsExt

CONSTANTS
    FirstOffset,    \* the offset before any change
    Changes,        \* the changes of offset: at an instant, to an offset
    MinInstant,     \* datetime.min and datetime.max, as UTC
    MaxInstant

Ambiguous == {"reject", "earlier", "later"}

\* The offset after the changes of C.
Latest(C) == IF C = {} THEN FirstOffset ELSE (CHOOSE c \in C : \A d \in C : d.at <= c.at).to

OffsetBefore(c) == Latest({ d \in Changes : d.at < c.at })

\* The local times between these two are repeated or missing.
WallStart(c) == c.at + Min({c.to, OffsetBefore(c)})
WallEnd(c)   == c.at + Max({c.to, OffsetBefore(c)})

\* zoneinfo searches the changes by their local times, which it takes to be sorted:
\* a zone does not change again before the local times of its last change are over.
ASSUME ZoneAssumptions ==
    /\ FirstOffset \in Int /\ MinInstant \in Int /\ MaxInstant \in Int
    /\ Changes \subseteq [at : Int, to : Int] /\ IsFiniteSet(Changes)
    /\ \A c, d \in Changes : c.at = d.at => c = d
    /\ \A c, d \in Changes : c.at < d.at => WallEnd(c) <= WallStart(d)

\* tzinfo.utcoffset(): with fold 0 the clock follows the old offset through a
\* repeated or missing hour, with fold 1 the new one.
UtcOffset(local, fold) ==
    Latest({ c \in Changes : (IF fold = 0 THEN WallEnd(c) ELSE WallStart(c)) <= local })

\* tzinfo.fromutc().
LocalTime(instant) == instant + Latest({ c \in Changes : c.at <= instant })

InRange(instant) == instant \in MinInstant .. MaxInstant

\* Fault: what comes back from UTC is not compared.
CandidatesUnchecked(local) == { local - UtcOffset(local, fold) : fold \in {0, 1} }

\* localize(): the instants that read as the local time, one for each fold.
Candidates(local) ==
    { instant \in { local - UtcOffset(local, fold) : fold \in {0, 1} } :
        LocalTime(instant) = local }

\* The ValueErrors of localize(): a missing time, or a repeated one it must not
\* resolve.
Unlocalizable(local, ambiguous) ==
    \/ Candidates(local) = {}
    \/ Cardinality(Candidates(local)) > 1 /\ ambiguous = "reject"

\* astimezone(UTC) raises an OverflowError beyond the first and last datetime.
Overflows(local) == \E fold \in {0, 1} : ~InRange(local - UtcOffset(local, fold))

Localize(local, ambiguous) ==
    IF ambiguous = "later" THEN Max(Candidates(local)) ELSE Min(Candidates(local))
=============================================================================
