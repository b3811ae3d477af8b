-------------------------- MODULE RegionDirectory ---------------------------
(***************************************************************************)
(* What the region cache is to its callers: one set of locations, each a   *)
(* range of keys with a version, that PD has given out.  Each call looks   *)
(* at the set, or changes it, in one step; that RegionCache keeps two maps *)
(* under different keys, asks PD between two critical sections and hands   *)
(* out contexts later than it reads them is not to be seen.                *)
(***************************************************************************)
EXTENDS RegionMeta

VARIABLES
    known,      \* the locations PD has given out so far
    locs,       \* the locations in the directory
    answer      \* the key and the location that locate_key has just answered

vars == <<known, locs, answer>>

\* locate_key is answered from the directory.
Hit(key) ==
    \E loc \in locs :
        /\ Contains(loc, key)
        /\ answer' = {[key |-> key, loc |-> loc]}
        /\ UNCHANGED <<known, locs>>

\* locate_key is answered from PD; what is learned takes the place of what
\* ended at the same key.
Learn(key) ==
    \E loc \in known :
        /\ Contains(loc, key)
        /\ answer' = {[key |-> key, loc |-> loc]}
        /\ locs' = {l \in locs : l.end_key # loc.end_key} \cup {loc}
        /\ UNCHANGED known

\* One version is forgotten, and nothing else.
Forget(v) ==
    /\ locs' = {l \in locs : l.region_ver_id # v}
    /\ answer' = {}
    /\ UNCHANGED known

\* PD gives out more; any other call leaves the directory as it is.
Other ==
    /\ known \subseteq known'
    /\ answer' = {}
    /\ UNCHANGED locs

Init == locs = {} /\ answer = {}

Next ==
    \/ \E key \in Key : Hit(key) \/ Learn(key)
    \/ \E v \in {l.region_ver_id : l \in known} : Forget(v)
    \/ Other

Spec == Init /\ [][Next]_vars

=============================================================================
