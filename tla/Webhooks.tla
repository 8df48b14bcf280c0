------------------------------ MODULE Webhooks -------------------------------
(***************************************************************************)
(* Webhooks: the WebhookRegistry of ecn/api.py, its endpoints, those of    *)
(* ecn/tenant.py for the registry of a tenant, and the delivery of each    *)
(* round in a background task.                                             *)
(*                                                                         *)
(* The task of a round is created when the round is answered and begins    *)
(* later.  It reads the subscriptions once, in the order of their          *)
(* creation, and posts to one after the other, each post an await: others  *)
(* subscribe, unsubscribe and submit meanwhile, and the tasks of several   *)
(* rounds overlap.  What is posted is not read again.                      *)
(***************************************************************************)
EXTENDS Integers, Sequences, FiniteSets, Values

CONSTANTS
    Webhook,  \* ids of subscriptions; each is drawn once
    Round     \* rounds that are answered; each is dispatched once

_WEBHOOK_EVENTS == {"transaction", "fault"}

ASSUME WebhooksConstants ==
    None \notin Webhook /\ \A filter \in SUBSET _WEBHOOK_EVENTS : filter # None

VARIABLES
    _subscriptions, \* the ids of the subscriptions in the order of a dict
    hook_events,    \* hook_events[w]: the events w asked for, {} for all
    task,           \* task[r]: "none", "created", "posting" or "done"
    has_fault,      \* has_fault[r]: does round r have a faulty node
    remaining,      \* remaining[r]: the subscriptions the task of r has yet to come to
    \* history
    posted,         \* posted[r]: the webhooks posted to for r, in order
    standing,       \* standing[r]: those subscribed ever since r was answered
    withdrawn       \* withdrawn[r]: those removed again before the task of r began

webhook_vars == <<_subscriptions, hook_events, task, has_fault, remaining, posted, standing, withdrawn>>

Elements(s) == {s[i] : i \in DOMAIN s}
Subscriptions == Elements(_subscriptions)

WebhooksInit ==
    /\ _subscriptions = <<>>
    /\ hook_events = [w \in Webhook |-> None]
    /\ task = [r \in Round |-> "none"]
    /\ has_fault = [r \in Round |-> FALSE]
    /\ remaining = [r \in Round |-> <<>>]
    /\ posted = [r \in Round |-> <<>>]
    /\ standing = [r \in Round |-> {}]
    /\ withdrawn = [r \in Round |-> {}]

-----------------------------------------------------------------------------

\* POST /webhooks.  A filter with an unknown event is answered 422.
subscribe_webhook(w, filter) ==
    /\ hook_events[w] = None
    /\ hook_events' = [hook_events EXCEPT ![w] = filter]
    /\ _subscriptions' = Append(_subscriptions, w)
    /\ UNCHANGED <<task, has_fault, remaining, posted, standing, withdrawn>>

\* DELETE /webhooks/{id}.  An id that is not subscribed is answered 404.
unsubscribe_webhook(w) ==
    /\ \E i \in DOMAIN _subscriptions :
        /\ _subscriptions[i] = w
        /\ _subscriptions' = SubSeq(_subscriptions, 1, i - 1)
                                \o SubSeq(_subscriptions, i + 1, Len(_subscriptions))
    /\ standing' = [r \in Round |-> standing[r] \ {w}]
    /\ UNCHANGED <<hook_events, task, has_fault, remaining, posted, withdrawn>>

\* A round is answered, and its dispatch becomes a task.
CreateTask(r, fault) ==
    /\ task[r] = "none"
    /\ task' = [task EXCEPT ![r] = "created"]
    /\ has_fault' = [has_fault EXCEPT ![r] = fault]
    /\ standing' = [standing EXCEPT ![r] = Subscriptions]
    /\ UNCHANGED <<_subscriptions, hook_events, remaining, posted, withdrawn>>

-----------------------------------------------------------------------------
(* dispatch.                                                               *)

triggered(r) == IF has_fault[r] THEN {"transaction", "fault"} ELSE {"transaction"}

\* An empty filter is met by every round.
Matches(w, r) == hook_events[w] = {} \/ hook_events[w] \cap triggered(r) # {}

\* The task begins: it takes the subscriptions of now, if there are any.
StartDispatch(r) ==
    /\ task[r] = "created"
    /\ task' = [task EXCEPT ![r] = IF _subscriptions = <<>> THEN "done" ELSE "posting"]
    /\ remaining' = [remaining EXCEPT ![r] = _subscriptions]
    /\ withdrawn' = [withdrawn EXCEPT ![r] = {w \in Webhook : hook_events[w] # None} \ Subscriptions]
    /\ UNCHANGED <<_subscriptions, hook_events, has_fault, posted, standing>>

\* Those it skips on the way to the next one it posts to.
Skipped(r, i) == \A j \in 1 .. i - 1 : ~Matches(remaining[r][j], r)

\* Mutant: a post that raises ends the task.
Post_RaiseEnds(r, raises) ==
    /\ task[r] = "posting"
    /\ \E i \in DOMAIN remaining[r] :
        /\ Matches(remaining[r][i], r)
        /\ Skipped(r, i)
        /\ posted' = [posted EXCEPT ![r] = Append(@, remaining[r][i])]
        /\ remaining' = [remaining EXCEPT ![r] =
                IF raises THEN <<>> ELSE SubSeq(@, i + 1, Len(@))]
    /\ UNCHANGED <<_subscriptions, hook_events, task, has_fault, standing, withdrawn>>

\* Mutant: a post that raises is tried again.
Post_Retries(r, raises) ==
    /\ task[r] = "posting"
    /\ Len(posted[r]) <= Cardinality(Webhook)
    /\ \E i \in DOMAIN remaining[r] :
        /\ Matches(remaining[r][i], r)
        /\ Skipped(r, i)
        /\ posted' = [posted EXCEPT ![r] = Append(@, remaining[r][i])]
        /\ remaining' = [remaining EXCEPT ![r] =
                SubSeq(@, IF raises THEN i ELSE i + 1, Len(@))]
    /\ UNCHANGED <<_subscriptions, hook_events, task, has_fault, standing, withdrawn>>

\* The task posts to the next one that matches.  A post that raises is
\* logged, and the task goes on like after one that does not.
Post(r, raises) ==
    /\ task[r] = "posting"
    /\ \E i \in DOMAIN remaining[r] :
        /\ Matches(remaining[r][i], r)
        /\ Skipped(r, i)
        /\ posted' = [posted EXCEPT ![r] = Append(@, remaining[r][i])]
        /\ remaining' = [remaining EXCEPT ![r] = SubSeq(@, i + 1, Len(@))]
    /\ UNCHANGED <<_subscriptions, hook_events, task, has_fault, standing, withdrawn>>

EndDispatch(r) ==
    /\ task[r] = "posting"
    /\ Skipped(r, Len(remaining[r]) + 1)
    /\ task' = [task EXCEPT ![r] = "done"]
    /\ remaining' = [remaining EXCEPT ![r] = <<>>]
    /\ UNCHANGED <<_subscriptions, hook_events, has_fault, posted, standing, withdrawn>>

\* What the event loop runs of the task of a round.
Dispatch(r) == StartDispatch(r) \/ EndDispatch(r) \/ \E raises \in BOOLEAN : Post(r, raises)

WebhooksNext ==
    \/ \E w \in Webhook :
        \/ unsubscribe_webhook(w)
        \/ \E filter \in SUBSET _WEBHOOK_EVENTS : subscribe_webhook(w, filter)
    \/ \E r \in Round :
        \/ Dispatch(r)
        \/ \E fault \in BOOLEAN : CreateTask(r, fault)

WebhooksSpec == WebhooksInit /\ [][WebhooksNext]_webhook_vars

\* The event loop runs every task on, and a post takes 10 seconds at most.
WebhooksLiveSpec == WebhooksSpec /\ \A r \in Round : WF_webhook_vars(Dispatch(r))

-----------------------------------------------------------------------------
(* Properties                                                              *)

WebhooksTypeOK ==
    /\ _subscriptions \in Seq(Webhook)
    /\ hook_events \in [Webhook -> (SUBSET _WEBHOOK_EVENTS) \cup {None}]
    /\ task \in [Round -> {"none", "created", "posting", "done"}]
    /\ has_fault \in [Round -> BOOLEAN]
    /\ remaining \in [Round -> Seq(Webhook)]
    /\ posted \in [Round -> Seq(Webhook)]
    /\ standing \in [Round -> SUBSET Webhook]
    /\ withdrawn \in [Round -> SUBSET Webhook]

\* What a webhook asked for: all rounds, or only those with a fault.
Wanted(w, r) == hook_events[w] = {"fault"} => has_fault[r]

\* The posts of a round: never two to one webhook, never one that its filter
\* excludes, none to a webhook that was removed again before the task
\* began, and in the order of subscription, however subscriptions come and
\* go between the posts.  (A removal during the task does not keep the post
\* back: the list was read before.)
PostsAreDue ==
    \A r \in Round :
        /\ Cardinality(Elements(posted[r])) = Len(posted[r])
        /\ \A w \in Elements(posted[r]) : Wanted(w, r) /\ w \notin withdrawn[r]
        /\ \A i, j \in DOMAIN posted[r], k, l \in DOMAIN _subscriptions :
                /\ _subscriptions[k] = posted[r][i]
                /\ _subscriptions[l] = posted[r][j]
                => (i < j <=> k < l)

\* Whoever is subscribed when a round is answered, wants it and stays
\* subscribed is posted to in the end, whichever posts to others raise and
\* whoever comes and goes.
StandingHooksArePosted ==
    \A r \in Round, w \in Webhook :
        w \in standing[r] /\ Wanted(w, r)
            ~> w \in Elements(posted[r]) \/ w \notin standing[r]
=============================================================================
