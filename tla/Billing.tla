---------------------------------- MODULE Billing ----------------------------------
(***************************************************************************)
(* The Stripe subscription of one network: checkout, Stripe's events in    *)
(* any order and more than once, and the billing page, whose overview      *)
(* brings the quantities at Stripe to what the network has.                *)
(*                                                                         *)
(*   apps/web/server/utils/billing.ts                                      *)
(*   apps/web/server/api/settings/billing*, api/webhooks/stripe.post.ts    *)
(*   apps/web/app/pages/settings/billing.vue                               *)
(*                                                                         *)
(* What is billed is the catalog in the memory of the process; without one *)
(* it is the table properties, which nothing fills.  Every await of a      *)
(* request is a place where others run.                                    *)
(***************************************************************************)
EXTENDS Naturals, FiniteSets

CONSTANTS
    Tasks,          \* requests of the page and deliveries of Stripe that run at once
    FirstCatalogs,  \* what the network may begin with, by kind
    MaxCatalog,     \* bound: hotels, and properties, of the network
    MaxSubscriptions, MaxTurns, \* bounds: subscriptions made, changes of their status
    MaxCatalogMoves,    \* bound: properties added or removed
    MaxSetbacks         \* bound: failed requests, repeated deliveries and restarts

VARIABLES
    catalog,        \* kind -> how many the network has
    imported,       \* the catalog is in memory
    row,            \* network_billing
    customers,      \* customers made at Stripe
    sessions,       \* open checkout sessions: their line items
    subscriptions,  \* at Stripe: status, kinds with an item, quantities
    events,         \* of Stripe, not yet acknowledged
    task,
    undisturbed,    \* history: the last view ended with nothing in its way, and nothing came since
    turns, moved, setbacks
billingVars == <<catalog, imported, row, customers, sessions, subscriptions, events, task,
                 undisturbed, turns, moved, setbacks>>

Kinds == {"hotel", "property"}
SubscriptionIds == 1..MaxSubscriptions
ASSUME BillingAssumption ==
    FirstCatalogs \subseteq [Kinds -> Nat] /\ MaxCatalog \in Nat /\ MaxSubscriptions \in Nat
NoSubscription == [status |-> "none", items |-> {}, quantity |-> [k \in Kinds |-> 0]]
Keep == [customer |-> 0, subscription |-> 0, status |-> "keep"]
NoEvent == [type |-> "none", of |-> 0, status |-> "none"]
NoTask == [op |-> "none", at |-> "idle", counts |-> [k \in Kinds |-> 0], of |-> 0,
           existing |-> Keep, patch |-> Keep, event |-> NoEvent, todo |-> {}, clean |-> TRUE]

BillingInit ==
    /\ catalog \in FirstCatalogs /\ imported = TRUE
    /\ row = [customer |-> 0, subscription |-> 0, status |-> "none"]
    /\ customers = 0 /\ sessions = {} /\ events = {}
    /\ subscriptions = [i \in SubscriptionIds |-> NoSubscription]
    /\ task = [t \in Tasks |-> NoTask] /\ undisturbed = FALSE /\ turns = 0 /\ moved = 0 /\ setbacks = 0

\* Whatever is not a step of view t itself is in the way of every other view.
Disturb(except) ==
    /\ undisturbed' = FALSE
    /\ task' = [u \in Tasks |-> IF u \in except THEN task[u] ELSE [task[u] EXCEPT !.clean = FALSE]]
Step(t, r) ==
    /\ undisturbed' = FALSE
    /\ task' = [u \in Tasks |-> IF u = t THEN r ELSE [task[u] EXCEPT !.clean = FALSE]]
Setback == setbacks < MaxSetbacks /\ setbacks' = setbacks + 1
limits == <<turns, moved, setbacks>>

\* getBillableCounts
Counts == IF imported /\ \E k \in Kinds : catalog[k] > 0 THEN catalog ELSE [k \in Kinds |-> 0]

-----------------------------------------------------------------------------
(* The page.                                                               *)

Slip_NotPastDue(status) == status \in {"active", "trialing"}
Syncable(status) == status \in {"active", "trialing", "past_due"}
\* getBillingOverview: syncSubscriptionQuantities reads the row and counts.
View(t) ==
    /\ task[t] = NoTask /\ UNCHANGED <<catalog, imported, row, customers, sessions, subscriptions, events, limits>>
    /\ Step(t, [NoTask EXCEPT !.op = "view", !.counts = Counts, !.of = row.subscription,
                    !.at = IF row.subscription # 0 /\ Syncable(row.status) THEN "retrieve" ELSE "end"])
Retrieve(t) ==
    LET s == subscriptions[task[t].of]
    IN  /\ task[t].op = "view" /\ task[t].at = "retrieve"
        /\ Step(t, [task[t] EXCEPT !.at = "end",
                        !.todo = {k \in s.items : s.quantity[k] # task[t].counts[k]}])
        /\ UNCHANGED <<catalog, imported, row, customers, sessions, subscriptions, events, limits>>
\* Each item is a request; Stripe tells of the change.
UpdateItem(t, k) ==
    LET i == task[t].of
    IN  /\ task[t].op = "view" /\ k \in task[t].todo /\ subscriptions[i].status # "canceled"
        /\ subscriptions' = [subscriptions EXCEPT ![i].quantity[k] = task[t].counts[k]]
        /\ events' = events \cup {[type |-> "updated", of |-> i, status |-> subscriptions[i].status]}
        /\ Step(t, [task[t] EXCEPT !.todo = @ \ {k}])
        /\ UNCHANGED <<catalog, imported, row, customers, sessions, limits>>
ViewEnds(t) ==
    /\ task[t].op = "view" /\ task[t].at = "end" /\ task[t].todo = {}
    /\ undisturbed' = task[t].clean /\ task' = [task EXCEPT ![t] = NoTask]
    /\ UNCHANGED <<catalog, imported, row, customers, sessions, subscriptions, events, limits>>

\* createCheckoutSession, whether or not the network has a subscription.
Checkout(t) ==
    /\ task[t] = NoTask /\ \E k \in Kinds : Counts[k] > 0
    /\ customers < 2    \* bound
    /\ Step(t, [NoTask EXCEPT !.op = "checkout", !.counts = Counts,
                    !.at = IF row.customer = 0 THEN "customer" ELSE "session"])
    /\ UNCHANGED <<catalog, imported, row, customers, sessions, subscriptions, events, limits>>
CreateCustomer(t) ==
    /\ task[t].at = "customer" /\ customers' = customers + 1
    /\ Step(t, [task[t] EXCEPT !.at = "read", !.patch = [Keep EXCEPT !.customer = customers']])
    /\ UNCHANGED <<catalog, imported, row, sessions, subscriptions, events, limits>>
CreateSession(t) ==
    /\ task[t].at = "session" /\ Step(t, NoTask)
    /\ sessions' = sessions \cup {task[t].counts}
    /\ UNCHANGED <<catalog, imported, row, customers, subscriptions, events, limits>>

\* upsertNetworkBilling reads the row, then writes every column of it.
ReadRow(t) ==
    /\ task[t].at = "read" /\ Step(t, [task[t] EXCEPT !.at = "write", !.existing = row])
    /\ UNCHANGED <<catalog, imported, row, customers, sessions, subscriptions, events, limits>>
WriteRow(t) ==
    LET old == task[t].existing
        new == task[t].patch
    IN  /\ task[t].at = "write"
        /\ row' = [customer |-> IF new.customer = 0 THEN old.customer ELSE new.customer,
                   subscription |-> IF new.subscription = 0 THEN old.subscription ELSE new.subscription,
                   status |-> IF new.status = "keep" THEN old.status ELSE new.status]
        /\ Step(t, IF task[t].op = "checkout" THEN [task[t] EXCEPT !.at = "session"] ELSE NoTask)
        /\ events' = IF task[t].op = "checkout" THEN events ELSE events \ {task[t].event}
        /\ UNCHANGED <<catalog, imported, customers, sessions, subscriptions, limits>>

-----------------------------------------------------------------------------
(* Stripe.                                                                 *)

\* The customer pays for the items of a session.
Pay(counts) ==
    \E i \in SubscriptionIds :
        /\ counts \in sessions /\ subscriptions[i].status = "none"
        /\ \A j \in 1..(i - 1) : subscriptions[j].status # "none"
        /\ subscriptions' = [subscriptions EXCEPT ![i] =
               [status |-> "active", items |-> {k \in Kinds : counts[k] > 0}, quantity |-> counts]]
        /\ sessions' = sessions \ {counts}
        /\ events' = events \cup {[type |-> "completed", of |-> i, status |-> "active"]}
        /\ Disturb({}) /\ UNCHANGED <<catalog, imported, row, customers, limits>>
\* A payment fails or succeeds, or the subscription ends.
Turn(i, status, told) ==
    /\ subscriptions[i].status \notin {"none", "canceled", status}
    /\ turns < MaxTurns /\ turns' = turns + 1
    /\ subscriptions' = [subscriptions EXCEPT ![i].status = status]
    /\ events' = events \cup {[type |-> y, of |-> i, status |-> status] : y \in told}
    /\ Disturb({}) /\ UNCHANGED <<catalog, imported, row, customers, sessions, moved, setbacks>>

\* handleStripeWebhookEvent: what the event makes of the row.
Handle(t, e) ==
    LET patch ==
            CASE e.type \in {"updated", "deleted"} -> [Keep EXCEPT !.subscription = e.of, !.status = e.status]
              [] e.type \in {"paid", "failed"} -> [Keep EXCEPT !.status = e.status]
              [] OTHER -> Keep
    IN  /\ task[t] = NoTask /\ e \in events
        /\ \/ /\ e.type \in {"paid", "failed"} /\ row.subscription # e.of
              /\ events' = events \ {e} /\ UNCHANGED <<task, undisturbed>>
           \/ /\ e.type \in {"paid", "failed"} => row.subscription = e.of
              /\ Step(t, [NoTask EXCEPT !.op = "webhook", !.event = e, !.patch = patch,
                              !.at = IF e.type = "completed" THEN "subscription" ELSE "read"])
              /\ UNCHANGED events
        /\ UNCHANGED <<catalog, imported, row, customers, sessions, subscriptions, limits>>
\* checkout.session.completed asks Stripe for the status of now.
AskSubscription(t) ==
    LET i == task[t].event.of
    IN  /\ task[t].at = "subscription"
        /\ Step(t, [task[t] EXCEPT !.at = "read",
                        !.patch = [Keep EXCEPT !.subscription = i, !.status = subscriptions[i].status]])
        /\ UNCHANGED <<catalog, imported, row, customers, sessions, subscriptions, events, limits>>
\* An event comes again.
Repeat(e) ==
    /\ e \notin events /\ Setback /\ events' = events \cup {e}
    /\ subscriptions[e.of].status # "none" /\ (e.type = "deleted" => subscriptions[e.of].status = "canceled")
    /\ Disturb({}) /\ UNCHANGED <<catalog, imported, row, customers, sessions, subscriptions, turns, moved>>

-----------------------------------------------------------------------------
(* Around them.                                                            *)

Own(k, n) ==
    /\ n \in {catalog[k] - 1, catalog[k] + 1} \cap 0..MaxCatalog /\ imported
    /\ moved < MaxCatalogMoves /\ moved' = moved + 1
    /\ catalog' = [catalog EXCEPT ![k] = n] /\ Disturb({})
    /\ UNCHANGED <<imported, row, customers, sessions, subscriptions, events, turns, setbacks>>
\* A request fails; an event that is not acknowledged comes again.
TaskFails(t) ==
    /\ task[t] # NoTask /\ Setback /\ Step(t, NoTask)
    /\ UNCHANGED <<catalog, imported, row, customers, sessions, subscriptions, events, turns, moved>>
Restarted ==
    /\ Setback /\ imported' = FALSE /\ task' = [t \in Tasks |-> NoTask] /\ undisturbed' = FALSE
    /\ UNCHANGED <<catalog, row, customers, sessions, subscriptions, events, turns, moved>>
ImportedAgain ==
    /\ ~imported /\ imported' = TRUE /\ Disturb({})
    /\ UNCHANGED <<catalog, row, customers, sessions, subscriptions, events, limits>>

BillingNext ==
    \/ \E t \in Tasks :
        \/ View(t) \/ Retrieve(t) \/ (\E k \in Kinds : UpdateItem(t, k)) \/ ViewEnds(t)
        \/ Checkout(t) \/ CreateCustomer(t) \/ CreateSession(t) \/ ReadRow(t) \/ WriteRow(t)
        \/ AskSubscription(t) \/ (\E e \in events : Handle(t, e)) \/ TaskFails(t)
    \/ \E counts \in sessions : Pay(counts)
    \/ \E i \in SubscriptionIds :
        \/ Turn(i, "past_due", {"updated", "failed"}) \/ Turn(i, "active", {"updated", "paid"})
        \/ Turn(i, "canceled", {"deleted"})
        \/ \E y \in {"updated", "paid", "deleted"} :
             Repeat([type |-> y, of |-> i, status |-> IF y = "deleted" THEN "canceled" ELSE "active"])
    \/ \E k \in Kinds, n \in 0..MaxCatalog : Own(k, n)
    \/ Restarted \/ ImportedAgain
BillingSpec == BillingInit /\ [][BillingNext]_billingVars

-----------------------------------------------------------------------------
(* Properties.                                                             *)

\* The row names a subscription that lives, with the status it has.
RowAgrees ==
    /\ row.subscription # 0 /\ row.status = subscriptions[row.subscription].status
    /\ row.status # "canceled"
Billed == subscriptions[row.subscription]

\* However events, checkouts and views overlap, after such a view each item that the
\* subscription has bills what the network has of its kind, also while a payment is due.
ItemsBillCounts ==
    (undisturbed /\ RowAgrees /\ imported) => \A k \in Billed.items : Billed.quantity[k] = Counts[k]
=============================================================================
