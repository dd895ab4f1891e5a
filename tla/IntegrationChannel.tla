--------------------------- MODULE IntegrationChannel ---------------------------
(***************************************************************************)
(* Messages to and from one external system (IntegrationService), their    *)
(* sync logs and outbox events, and the dispatch of those events, asked    *)
(* for directly or by a background job (PlatformOpsService,                *)
(* OutboxService).  A client that lost the answer sends the same key       *)
(* again.  Requests look for the key first and insert at their commit; the *)
(* unique constraints decide between those that overlap.                   *)
(***************************************************************************)
EXTENDS Integers, FiniteSets, Tables

CONSTANTS
    Session,
    Key,            \* idempotency keys, none of them blank
    Limits,         \* limits a dispatcher may name
    MaxAnswers      \* dispatches answered

ASSUME ChannelBounds == IsFiniteSet(Key) /\ Limits \subseteq Nat /\ MaxAnswers \in Nat

VARIABLES
    message,    \* message[n]: the n-th message committed
    log,        \* log[k]: the direction of the sync log with the key, if any
    event,      \* event[n]: the outbox event of message n
    job,        \* status of the sync job
    task,       \* status of the background job that dispatches
    answer,     \* history: what each dispatch answered
    session

vars == <<message, log, event, job, task, answer, session>>

Direction == {"INBOUND", "OUTBOUND"}

\* Each key gets one sync log, each message one key.
MessageId == 1 .. Cardinality(Key)
AnswerId == 1 .. MaxAnswers

\* by: it was sent by a run of the sync job.
MessageRow == [direction : Direction, key : Key, by : BOOLEAN]

EventRow == [status : {"PENDING", "DISPATCHED"}, retry_count : Nat]

\* before: the answers given when the dispatcher read its events.
AnswerRow == [events : SUBSET MessageId, before : SUBSET AnswerId]

Pending ==
    [kind : {"message"}, row : MessageRow] \cup
    [kind : {"log"}, key : Key, direction : Direction] \cup
    [kind : {"dispatch"}, by : BOOLEAN, row : AnswerRow]

ASSUME NoneIsNoRow ==
    /\ None \notin MessageRow /\ None \notin EventRow /\ None \notin AnswerRow
    /\ None \notin Direction /\ None \notin Pending
    /\ None \notin {"message", "log", "dispatch"}
-----------------------------------------------------------------------------
Existing(row) == {x \in DOMAIN row : row[x] # None}

Carries(direction, key) ==
    \E n \in Existing(message) : message[n].direction = direction /\ message[n].key = key

PendingEvents == {n \in Existing(event) : event[n].status = "PENDING"}

\* Mutant of Listed: events of any status.
ListedAny == Existing(event)

\* list_events(status="PENDING")
Listed == PendingEvents

\* Mutant of Newest: one too few.
NewestButOne(events, limit) ==
    {n \in events : Cardinality({m \in events : m >= n}) < limit}

\* events[:limit], the newest first
Newest(events, limit) ==
    {n \in events : Cardinality({m \in events : m >= n}) <= limit}

Holds(s, pending) == session[s] = None /\ session' = [session EXCEPT ![s] = pending]
Ends(s) == session' = [session EXCEPT ![s] = None]
Kind(s) == IF session[s] = None THEN None ELSE session[s].kind
-----------------------------------------------------------------------------
Init ==
    /\ message = [n \in MessageId |-> None]
    /\ log = [k \in Key |-> None]
    /\ event = [n \in MessageId |-> None]
    /\ job = "READY"
    /\ task = "PENDING"
    /\ answer = [a \in AnswerId |-> None]
    /\ session = [s \in Session |-> None]

\* create_inbound_message, receive_webhook, create_outbound_message, and
\* run_sync_job, which makes an outbound message.
BeginMessage(s, direction, key, by) ==
    /\ by => direction = "OUTBOUND"
    /\ ~Carries(direction, key)
    /\ Holds(s, [kind |-> "message", row |-> [direction |-> direction, key |-> key, by |-> by]])
    /\ UNCHANGED <<message, log, event, job, task, answer>>

\* Mutant of KeyTaken: messages keep a constraint each, sync logs have none.
KeyTakenByMessage(row) == Carries(row.direction, row.key)

\* The unique constraints of the messages and of the sync logs.
KeyTaken(row) == Carries(row.direction, row.key) \/ log[row.key] # None

\* RUNNING is never committed; a request that fails leaves the status alone.
JobAfter(row) == IF row.by /\ ~KeyTaken(row) THEN "SUCCESS" ELSE job

\* Message, log and event are inserted together, or the request fails.
CommitMessage(s) ==
    /\ Kind(s) = "message"
    /\ LET row == session[s].row
           n == Cardinality(Existing(message)) + 1
       IN IF KeyTaken(row) THEN UNCHANGED <<message, log, event>>
          ELSE /\ message' = [message EXCEPT ![n] = row]
               /\ log' = [log EXCEPT ![row.key] = row.direction]
               /\ event' = [event EXCEPT ![n] = [status |-> "PENDING", retry_count |-> 0]]
    /\ job' = JobAfter(session[s].row)
    /\ Ends(s)
    /\ UNCHANGED <<task, answer>>

\* create_sync_log, for exchanges made elsewhere.
BeginLog(s, direction, key) ==
    /\ log[key] = None
    /\ Holds(s, [kind |-> "log", direction |-> direction, key |-> key])
    /\ UNCHANGED <<message, log, event, job, task, answer>>

CommitLog(s) ==
    /\ Kind(s) = "log"
    /\ log' = [log EXCEPT ![session[s].key] = IF @ = None THEN session[s].direction ELSE @]
    /\ Ends(s)
    /\ UNCHANGED <<message, event, job, task, answer>>

\* dispatch_pending, by the background job or directly.
BeginDispatch(s, limit, by) ==
    /\ Holds(s, [kind |-> "dispatch", by |-> by,
                 row |-> [events |-> Newest(Listed, limit), before |-> Existing(answer)]])
    /\ UNCHANGED <<message, log, event, job, task, answer>>

\* The retry count is one more than was read.  A dispatch that found nothing
\* is not remembered.
CommitDispatch(s) ==
    /\ Kind(s) = "dispatch"
    /\ LET row == session[s].row
           a == Cardinality(Existing(answer)) + 1
       IN /\ event' = [n \in MessageId |->
                IF n \in row.events THEN [status |-> "DISPATCHED", retry_count |-> 1] ELSE event[n]]
          /\ IF row.events = {} THEN UNCHANGED answer
             ELSE a <= MaxAnswers /\ answer' = [answer EXCEPT ![a] = row]
    /\ task' = IF session[s].by THEN "SUCCESS" ELSE task
    /\ Ends(s)
    /\ UNCHANGED <<message, log, job>>

\* The client or the connection is lost.
Disconnect(s) ==
    /\ session[s] # None
    /\ Ends(s)
    /\ UNCHANGED <<message, log, event, job, task, answer>>

Next ==
    \E s \in Session :
        \/ \E direction \in Direction, key \in Key, by \in BOOLEAN : BeginMessage(s, direction, key, by)
        \/ \E direction \in Direction, key \in Key : BeginLog(s, direction, key)
        \/ \E limit \in Limits, by \in BOOLEAN : BeginDispatch(s, limit, by)
        \/ CommitMessage(s)
        \/ CommitLog(s)
        \/ CommitDispatch(s)
        \/ Disconnect(s)

\* Someone keeps dispatching, every request ends, and not every dispatch of a
\* session is lost.
DispatchSome(s) == \E limit \in Limits \ {0} : Listed # {} /\ BeginDispatch(s, limit, TRUE)

Spec ==
    /\ Init /\ [][Next]_vars
    /\ \A s \in Session :
          /\ WF_vars(CommitMessage(s) \/ CommitLog(s) \/ CommitDispatch(s) \/ Disconnect(s))
          /\ SF_vars(CommitDispatch(s) /\ answer' # answer)
    /\ SF_vars(\E s \in Session : DispatchSome(s))
-----------------------------------------------------------------------------
ChannelTypeOK ==
    /\ message \in [MessageId -> MessageRow \cup {None}]
    /\ log \in [Key -> Direction \cup {None}]
    /\ event \in [MessageId -> EventRow \cup {None}]
    /\ job \in {"READY", "SUCCESS"}
    /\ task \in {"PENDING", "SUCCESS"}
    /\ answer \in [AnswerId -> AnswerRow \cup {None}]
    /\ session \in [Session -> Pending \cup {None}]

KeysOf(numbers) == {message[n].key : n \in numbers}

Once == INSTANCE MessageOnce WITH
    accepted <- [k \in Key |-> Cardinality({n \in Existing(message) : message[n].key = k})],
    announced <- KeysOf(Existing(event)),
    dispatched <- KeysOf(Existing(event) \ PendingEvents)

(***************************************************************************)
(* However often a message is sent again, in whichever direction and       *)
(* however requests overlap, the channel accepts each key once and         *)
(* announces it in the same step.                                          *)
(***************************************************************************)
AcceptsOnce == Once!Spec

(***************************************************************************)
(* An event is given to two dispatchers only where they overlapped.  The   *)
(* retry count does not tell: it is one even then.                         *)
(***************************************************************************)
DispatchedTwiceNeedsOverlap ==
    \A a, b \in Existing(answer) :
        a # b /\ answer[a].events \cap answer[b].events # {}
            => a \notin answer[b].before /\ b \notin answer[a].before

(***************************************************************************)
(* Every event is dispatched in the end, although dispatchers take the     *)
(* newest first and no more than their limit, once no more messages come.  *)
(***************************************************************************)
EventsGetDispatched ==
    \A n \in MessageId : n \in PendingEvents ~> n \notin PendingEvents
=============================================================================
