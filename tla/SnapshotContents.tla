--------------------------- MODULE SnapshotContents ---------------------------
(***************************************************************************)
(* What a snapshot builder promises, without inodes, walks or order.       *)
(*                                                                         *)
(* The state of a builder is the set of entries it accepted.  An entry is  *)
(* accepted exactly when it can be mounted and contradicts none of them,   *)
(* and what is published is a function of that set: which entries came     *)
(* before counts, their order does not.  SnapshotBuilder implements this   *)
(* specification.                                                          *)
(***************************************************************************)
EXTENDS Integers, Sequences, SequencesExt

CONSTANTS
    Entries,    \* the entries a caller may add
    Mountable,  \* those whose path can be mounted
    NONE

VARIABLES
    accepted,   \* the entries added so far
    verdict,    \* the last verdict and the entry it is about
    open,       \* calls still reach the tree
    contents    \* what was published, by path

vars == <<accepted, verdict, open, contents>>

NoVerdict == <<"none", NONE>>

\* Two entries agree when they can be observations of one file system.
Agree(e, f) ==
    /\ IsStrictPrefix(e.path, f.path) => e.kind = "directory"
    /\ IsStrictPrefix(f.path, e.path) => f.kind = "directory"
    /\ e.path = f.path =>
         /\ e.kind = f.kind
         /\ e.kind = "file" => e.meta = f.meta
         /\ "section_header" \notin {e.observation, f.observation}
              => e.meta.modified = f.meta.modified

Acceptable(e) == e \in Mountable /\ \A f \in accepted : Agree(e, f)

\* The paths of the entries of S and of their ancestors below the root.
Closure(S) == UNION { { SubSeq(e.path, 1, n) : n \in 1 .. Len(e.path) } : e \in S }

\* A path with entries has their kind, an ancestor without one is a directory.
\* The time is told by any entry but a section header, the size by a file's.
Contents(S) ==
    [p \in Closure(S) |->
       LET here == { e \in S : e.path = p }
           told == { e \in here : e.observation # "section_header" }
           kind == IF here = {} THEN "directory" ELSE (CHOOSE e \in here : TRUE).kind
       IN  [kind     |-> kind,
            modified |-> IF told = {} THEN NONE ELSE (CHOOSE e \in told : TRUE).meta.modified,
            size     |-> IF kind = "file" THEN (CHOOSE e \in told : TRUE).meta.size ELSE NONE]]

Init ==
    /\ accepted = {}
    /\ verdict  = NoVerdict
    /\ open     = TRUE
    /\ contents = NONE

Accept(e) ==
    /\ open /\ Acceptable(e)
    /\ accepted' = accepted \cup {e}
    /\ verdict'  = <<"accepted", e>>
    /\ UNCHANGED <<open, contents>>

Reject(e) ==
    /\ open /\ ~Acceptable(e)
    /\ verdict' = <<"rejected", e>>
    /\ UNCHANGED <<accepted, open, contents>>

\* The builder's storage failed: the entry gets no verdict.
Fail ==
    /\ open
    /\ verdict' = NoVerdict
    /\ UNCHANGED <<accepted, open, contents>>

Publish ==
    /\ open
    /\ open'     = FALSE
    /\ verdict'  = NoVerdict
    /\ contents' = Contents(accepted)
    /\ UNCHANGED accepted

Discard ==
    /\ open'    = FALSE
    /\ verdict' = NoVerdict
    /\ UNCHANGED <<accepted, contents>>

Next == (\E e \in Entries : Accept(e) \/ Reject(e)) \/ Fail \/ Publish \/ Discard

Spec == Init /\ [][Next]_vars
=============================================================================
