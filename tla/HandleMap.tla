----------------------------- MODULE HandleMap -----------------------------
(***************************************************************************)
(* What an instance's handle table promises to the rest of the runtime:    *)
(* a partial map from non-zero handles to table entries.  A handle that is *)
(* in use is never handed out again, an entry is stored under one handle   *)
(* at a time and is never stored a second time after it was removed, and   *)
(* closing the table forgets everything for good.  Which unused handle an  *)
(* allocation returns is left open.                                        *)
(***************************************************************************)
EXTENDS Naturals

CONSTANTS Handles,                \* the non-zero handles
          Objects                 \* the entries that can ever be stored

VARIABLES map,                    \* handle -> entry, for the handles in use
          seen,                   \* entries that were stored at some time
          shut                    \* the table was closed

mapVars == <<map, seen, shut>>

MapInit ==
  /\ map = [h \in {} |-> 0]
  /\ seen = {}
  /\ shut = FALSE

Allocate ==
  \E h \in Handles \ DOMAIN map, o \in Objects \ seen :
    /\ ~shut
    /\ map' = [x \in DOMAIN map \cup {h} |-> IF x = h THEN o ELSE map[x]]
    /\ seen' = seen \cup {o}
    /\ UNCHANGED shut

Remove ==
  \E h \in DOMAIN map :
    /\ map' = [x \in DOMAIN map \ {h} |-> map[x]]
    /\ UNCHANGED <<seen, shut>>

Shut ==
  /\ ~shut
  /\ shut' = TRUE
  /\ map' = [h \in {} |-> 0]
  /\ UNCHANGED seen

MapNext == Allocate \/ Remove \/ Shut

MapSpec == MapInit /\ [][MapNext]_mapVars
=============================================================================
