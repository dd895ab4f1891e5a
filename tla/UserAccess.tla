------------------------------ MODULE UserAccess ------------------------------
(***************************************************************************)
(* The kitchens a demo user has access to and the one among them that is   *)
(* active (IdentityService).  The user switches to another one; an         *)
(* administrator sets both.  A request loads the user, checks or writes    *)
(* the accesses, and commits later; what it deletes others wait for.  The  *)
(* user stays active, and other users are as independent as their rows.    *)
(***************************************************************************)
EXTENDS DemoSeed

CONSTANT Request

VARIABLES request,    \* what each request holds until its commit
          overtaken   \* history: what counts was written by a request that another had overtaken

accessVars == <<request, overtaken>>

\* list_accessible_sppg_ids
Accessible == {k \in Kitchen : Access(k) \in rows}

\* The kitchens there are, for a user there is.
KnownKitchens == {k \in Kitchen : Row(Users, 1) \in rows /\ Row(Kitchens, k) \in rows}

Idle == \A q \in Request : request[q] = None

Opens(q, pending) == request[q] = None /\ request' = [request EXCEPT ![q] = pending]

\* switch_active_sppg.  The request itself is let through under a header that
\* names an accessible kitchen.
BeginSwitch(q, k) ==
  /\ k \in Accessible
  /\ Opens(q, [kind |-> "switch", loaded |-> activeKitchen, set |-> k, kept |-> {},
               removed |-> {}, added |-> {}, written |-> TRUE, fresh |-> TRUE])
  /\ UNCHANGED <<rows, activeKitchen, overtaken>>

\* update_user_sppg_access, and update_user, with the accesses to keep.
BeginUpdate(q, kept, k) ==
  /\ Row(Users, 1) \in rows
  /\ kept \subseteq KnownKitchens
  /\ k \in kept \cup {None}
  /\ Opens(q, [kind |-> "update", loaded |-> activeKitchen, set |-> k, kept |-> kept,
               removed |-> {}, added |-> {}, written |-> FALSE, fresh |-> TRUE])
  /\ UNCHANGED <<rows, activeKitchen, overtaken>>

\* remove_sppg_access_not_in waits for accesses another request is deleting;
\* add_sppg_access for those not there yet.
WriteAccesses(q) ==
  /\ request[q] # None
  /\ ~request[q].written
  /\ LET kept == request[q].kept IN
     /\ \A t \in Request : request[t] # None =>
          request[t].removed \cap (Accessible \ kept) = {}
     /\ request' = [request EXCEPT ![q].written = TRUE,
                                   ![q].removed = Accessible \ kept,
                                   ![q].added = kept \ Accessible]
  /\ UNCHANGED <<rows, activeKitchen, overtaken>>

\* The request is over, and overtakes those under way unless both are switches.
Overtakes(q) ==
  request' = [t \in Request |->
    IF t = q \/ request[t] = None THEN None
    ELSE [request[t] EXCEPT !.fresh = @ /\ {request[q].kind, request[t].kind} = {"switch"}]]

\* The column is written if the request changed it; a switch to the kitchen it found
\* active writes nothing, and what was overtaken before it stays so.
CommitAccess(q) ==
  /\ request[q] # None
  /\ request[q].written
  /\ request[q].added \cap Accessible = {}
  /\ LET p == request[q] IN
     /\ rows' = (rows \ {Access(k) : k \in p.removed}) \cup {Access(k) : k \in p.added}
     /\ activeKitchen' = IF p.set # p.loaded THEN p.set ELSE activeKitchen
     /\ overtaken' = \/ ~p.fresh
                     \/ overtaken /\ p.kind = "switch" /\ p.set = p.loaded
  /\ Overtakes(q)

\* The unique constraint refuses an access added meanwhile, or the client is lost.
LoseRequest(q) ==
  /\ request[q] # None
  /\ request' = [request EXCEPT ![q] = None]
  /\ UNCHANGED <<rows, activeKitchen, overtaken>>

AccessInit ==
  /\ request = [q \in Request |-> None]
  /\ overtaken = FALSE

BeginAccess ==
  \E q \in Request :
    \/ \E k \in Kitchen : BeginSwitch(q, k)
    \/ \E kept \in SUBSET Kitchen, k \in Kitchen \cup {None} : BeginUpdate(q, kept, k)

PursueAccess == \E q \in Request : WriteAccesses(q) \/ CommitAccess(q) \/ LoseRequest(q)
=============================================================================
