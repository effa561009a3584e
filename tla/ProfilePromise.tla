--------------------------- MODULE ProfilePromise ----------------------------
(***************************************************************************)
(* What the profiles table promises to whoever dispatches by it, said      *)
(* without rowids, processes and what they keep in locals                  *)
(* (crates/nid-storage/src/profile_repo.rs; module Profiles): a version of *)
(* a profile exists once, and one of them at a time changes its status.    *)
(* One comes into use together with the retirement of the one it takes     *)
(* over from; one that was quarantined stays so until it is removed.       *)
(***************************************************************************)
CONSTANTS Fps, Versions

VARIABLES
  rows,   \* a set of [fp, ver, status]
  apart   \* purges do not overlap other commands

vars == <<rows, apart>>

Init == rows = {} /\ apart \in BOOLEAN

As(row, status) == [row EXCEPT !.status = status]

Insert ==
  \E f \in Fps, v \in Versions :
    /\ \A row \in rows : <<row.fp, row.ver>> # <<f, v>>
    /\ rows' = rows \cup {[fp |-> f, ver |-> v, status |-> "pending"]}

\* By promote or rollback.  A rowid that a purge has freed may name any row.
Use(row) ==
  /\ apart => row.status \in {"pending", "superseded"}
  /\ rows' = {As(row, "active")} \cup
               {IF r.fp = row.fp /\ r.status = "active" THEN As(r, "superseded") ELSE r :
                  r \in rows \ {row}}

Quarantine(row) ==
  /\ apart => row.status # "pending"
  /\ rows' = (rows \ {row}) \cup {As(row, "quarantined")}

Remove(row) == rows' = rows \ {row}

\* A step changes some row.
Next ==
  /\ rows' # rows
  /\ Insert \/ \E row \in rows : Use(row) \/ Quarantine(row) \/ Remove(row)
  /\ UNCHANGED apart

Spec == Init /\ [][Next]_vars
=============================================================================
