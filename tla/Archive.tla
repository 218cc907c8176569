------------------------------ MODULE Archive ------------------------------
(***************************************************************************)
(* What the data module promises about the candles of a file: an unbroken  *)
(* stretch of them, which grows at its end.  A file is lost only as a      *)
(* whole, when somebody asked for that, or when something goes wrong while *)
(* it is rewritten; a failure elsewhere takes nothing.                     *)
(***************************************************************************)
EXTENDS Naturals

CONSTANTS Files, MaxTime

VARIABLES
    archive,     \* [Files -> sets of opening times], {} for no file
    rewriting,   \* the files that are being written anew
    deleting,    \* the files somebody asked to delete
    mishaps      \* calls that failed and crashes, so far

archiveVars == <<archive, rewriting, deleting, mishaps>>

Unbroken(rows) == \A s, u \in rows : s .. u \subseteq rows

ArchiveInit ==
    /\ archive = [f \in Files |-> {}]
    /\ rewriting = {} /\ deleting = {}
    /\ mishaps = 0

Rewrite(f) ==
    /\ rewriting' = rewriting \cup {f}
    /\ UNCHANGED <<archive, deleting, mishaps>>

Extend(f, first, last) ==
    /\ f \in rewriting
    /\ \A t \in archive[f] : t < first
    /\ Unbroken(archive[f] \cup (first .. last))
    /\ archive' = [archive EXCEPT ![f] = @ \cup (first .. last)]
    /\ rewriting' = rewriting \ {f}
    /\ UNCHANGED <<deleting, mishaps>>

Ask(f) ==
    /\ deleting' = deleting \cup {f}
    /\ UNCHANGED <<archive, rewriting, mishaps>>

Delete(f) ==
    /\ f \in deleting
    /\ archive' = [archive EXCEPT ![f] = {}]
    /\ deleting' = deleting \ {f}
    /\ UNCHANGED <<rewriting, mishaps>>

Mishap(lost) ==
    /\ mishaps' = mishaps + 1
    /\ archive' = [f \in Files |-> IF f \in lost THEN {} ELSE archive[f]]
    /\ rewriting' = rewriting \ lost
    /\ deleting' \subseteq deleting

ArchiveNext ==
    \/ \E f \in Files :
          \/ Rewrite(f) \/ Ask(f) \/ Delete(f)
          \/ \E first, last \in 1 .. MaxTime : Extend(f, first, last)
    \/ \E lost \in SUBSET rewriting : Mishap(lost)

ArchiveSpec == ArchiveInit /\ [][ArchiveNext]_archiveVars
=============================================================================
