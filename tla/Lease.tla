------------------------------- MODULE Lease -------------------------------
(***************************************************************************)
(* What the collection_runs table promises to everybody who uses it as a   *)
(* lock service.  It plays that part twice: a run in an active status owns *)
(* its (platform, query_key, series_id) identity, and a run in status      *)
(* 'running' owns the OpenClaw agent in its agent_id column.  Both are the *)
(* same abstract object: resources that are free or held by one owner, and *)
(* owners that retire (reach a final status), give everything back and     *)
(* never hold anything again.                                              *)
(***************************************************************************)
CONSTANTS Resource, Owner, Free

VARIABLES holder,   \* the owner of each resource, or Free
          retired   \* owners that have reached a final status

leaseVars == <<holder, retired>>

LeaseTypeOK ==
  /\ holder \in [Resource -> Owner \cup {Free}]
  /\ retired \subseteq Owner

LeaseInit ==
  /\ holder = [x \in Resource |-> Free]
  /\ retired = {}

\* An owner that holds nothing and has not retired takes a free resource.
Acquire(x, o) ==
  /\ holder[x] = Free
  /\ o \notin retired
  /\ \A y \in Resource : holder[y] # o
  /\ holder' = [holder EXCEPT ![x] = o]
  /\ UNCHANGED retired

\* Owners reach their final status, and what they held becomes free.
Retire(S) ==
  /\ holder' = [x \in Resource |-> IF holder[x] \in S THEN Free ELSE holder[x]]
  /\ retired' = retired \cup S

LeaseNext ==
  \/ \E x \in Resource, o \in Owner : Acquire(x, o)
  \/ \E S \in SUBSET Owner : Retire(S)

LeaseSpec == LeaseInit /\ [][LeaseNext]_leaseVars

-----------------------------------------------------------------------------
\* No resource is held by an owner in a final status: a finished run blocks
\* neither its identity nor its agent.
RetiredHoldNothing == \A x \in Resource : holder[x] \notin retired

\* An owner holds at most one resource.
OneResourceEach ==
  \A x, y \in Resource : holder[x] = holder[y] /\ holder[x] # Free => x = y

\* A resource never passes from one owner to another without being free in
\* between: the next run gets an agent only after the previous one let go.
NoHandOver ==
  \A x \in Resource :
    holder[x] # Free /\ holder'[x] # holder[x] => holder'[x] = Free
=============================================================================
