---------------------------- MODULE RedisPubSub ----------------------------
(***************************************************************************)
(* subscribe and unsubscribe of RedisClient over the subscriber, a second  *)
(* connection that the first subscribe opens. Nobody awaits his turn: calls*)
(* on a channel overlap, and the connection may be down at any of them.    *)
(*                                                                         *)
(* node-redis, external: a command waits while there is no connection, and *)
(* may be rejected if the connection goes down before its reply; a handler *)
(* joins a channel that is listened to at once, without a command; after a *)
(* reconnection the library subscribes again to every channel it listens   *)
(* to. The registry `subscriptions` of the code is written and never read. *)
(***************************************************************************)
EXTENDS Naturals

CONSTANTS
  MaxCalls,   \* bound on the calls of subscribe and unsubscribe
  Channels,
  Handlers,
  NoHandler

ASSUME NoHandlerAssumption == NoHandler \notin Handlers

VARIABLES
  subscriber,     \* "none", "opening", "ready", "lost" or "closed"
  subscriptions,  \* channel -> the handler registered last
  listeners,      \* channel -> the handlers node-redis calls
  step,           \* step[c]: where call c is
  arg,            \* arg[c]: what c asks for
  earlier         \* earlier[c]: the calls that had ended when c began (history)

Calls == 1..MaxCalls   \* numbered in the order in which they begin

pubSubVars == <<subscriber, subscriptions, listeners, step, arg, earlier>>

Ended == {"done", "failed"}

Args == [op : {"subscribe"}, channel : Channels, handler : Handlers]
          \cup [op : {"unsubscribe"}, channel : Channels, handler : {NoHandler}]

PubSubTypeOK ==
  /\ subscriber \in {"none", "opening", "ready", "lost", "closed"}
  /\ subscriptions \in [Channels -> Handlers \cup {NoHandler}]
  /\ listeners \in [Channels -> SUBSET Handlers]
  /\ step \in [Calls -> {"idle", "opening", "sent"} \cup Ended]
  /\ arg \in [Calls -> Args \cup {NoHandler}]
  /\ earlier \in [Calls -> SUBSET Calls]

PubSubInit ==
  /\ subscriber = "none"
  /\ subscriptions = [ch \in Channels |-> NoHandler]
  /\ listeners = [ch \in Channels |-> {}]
  /\ step = [c \in Calls |-> "idle"]
  /\ arg = [c \in Calls |-> NoHandler]
  /\ earlier = [c \in Calls |-> {}]

-----------------------------------------------------------------------------

To(c, s) == step' = [step EXCEPT ![c] = s]

Begins(c, op) ==
  /\ step[c] = "idle" /\ \A d \in 1..(c - 1) : step[d] # "idle"
  /\ \E a \in Args : a.op = op /\ arg' = [arg EXCEPT ![c] = a]
  /\ earlier' = [earlier EXCEPT ![c] = {d \in Calls : step[d] \in Ended}]

\* The rest of subscribe, once there is a subscriber.
Register(c) ==
  LET ch == arg'[c].channel  h == arg'[c].handler
  IN /\ subscriptions' = [subscriptions EXCEPT ![ch] = h]
     /\ \/ /\ listeners[ch] # {}
           /\ listeners' = [listeners EXCEPT ![ch] = @ \cup {h}]
           /\ To(c, "done")
        \/ /\ listeners[ch] = {}
           /\ UNCHANGED listeners
           /\ To(c, "sent")

\* The first subscribe creates the subscriber and awaits its connection.
OpenSubscriber(c) ==
  /\ Begins(c, "subscribe")
  /\ subscriber = "none"
  /\ subscriber' = "opening"
  /\ To(c, "opening")
  /\ UNCHANGED <<subscriptions, listeners>>

\* A later one does not, whether the subscriber is connected yet or not.
Subscribe(c) ==
  /\ Begins(c, "subscribe")
  /\ subscriber # "none"
  /\ Register(c)
  /\ UNCHANGED subscriber

\* connect() of the subscriber has settled for the call that awaits it.
Opened(c) ==
  /\ step[c] = "opening" /\ subscriber \in {"ready", "lost"}
  /\ UNCHANGED <<subscriber, arg, earlier>>
  /\ Register(c)

\* The reply to SUBSCRIBE.
Subscribed(c) ==
  /\ step[c] = "sent" /\ arg[c].op = "subscribe" /\ subscriber = "ready"
  /\ listeners' = [listeners EXCEPT ![arg[c].channel] = @ \cup {arg[c].handler}]
  /\ To(c, "done")
  /\ UNCHANGED <<subscriber, subscriptions, arg, earlier>>

\* Mutant of Unsubscribe: nothing is done unless the subscriber is connected.
UnsubscribeIfReady(c) ==
  /\ Begins(c, "unsubscribe")
  /\ \/ /\ subscriber # "ready"
        /\ To(c, "done") /\ UNCHANGED subscriptions
     \/ /\ subscriber = "ready"
        /\ subscriptions' = [subscriptions EXCEPT ![arg'[c].channel] = NoHandler]
        /\ To(c, "sent")
  /\ UNCHANGED <<subscriber, listeners>>

Unsubscribe(c) ==
  /\ Begins(c, "unsubscribe")
  /\ \/ /\ subscriber = "none"
        /\ To(c, "done") /\ UNCHANGED subscriptions
     \/ /\ subscriber # "none"
        /\ subscriptions' = [subscriptions EXCEPT ![arg'[c].channel] = NoHandler]
        /\ To(c, "sent")
  /\ UNCHANGED <<subscriber, listeners>>

\* Mutant of Unsubscribed: UNSUBSCRIBE without the channel ends all of them.
UnsubscribedFromAll(c) ==
  /\ step[c] = "sent" /\ arg[c].op = "unsubscribe" /\ subscriber = "ready"
  /\ listeners' = [ch \in Channels |-> {}]
  /\ To(c, "done")
  /\ UNCHANGED <<subscriber, subscriptions, arg, earlier>>

\* The reply to UNSUBSCRIBE: every handler of the channel goes.
Unsubscribed(c) ==
  /\ step[c] = "sent" /\ arg[c].op = "unsubscribe" /\ subscriber = "ready"
  /\ listeners' = [listeners EXCEPT ![arg[c].channel] = {}]
  /\ To(c, "done")
  /\ UNCHANGED <<subscriber, subscriptions, arg, earlier>>

\* onModuleDestroy quits a subscriber that exists.
QuitSubscriber ==
  /\ subscriber = "ready"
  /\ subscriber' = "closed"
  /\ UNCHANGED <<subscriptions, listeners, step, arg, earlier>>

-----------------------------------------------------------------------------
(* The environment *)

\* The connection is there again, with the subscriptions it had.
SubscriberReady ==
  /\ subscriber \in {"opening", "lost"}
  /\ subscriber' = "ready"
  /\ UNCHANGED <<subscriptions, listeners, step, arg, earlier>>

\* The connection goes down; commands without a reply may be rejected.
SubscriberLost ==
  /\ subscriber = "ready"
  /\ subscriber' = "lost"
  /\ \E rejected \in SUBSET {c \in Calls : step[c] = "sent"} :
       step' = [c \in Calls |-> IF c \in rejected THEN "failed" ELSE step[c]]
  /\ UNCHANGED <<subscriptions, listeners, arg, earlier>>

PubSubNext ==
  \/ \E c \in Calls :
       \/ OpenSubscriber(c) \/ Subscribe(c) \/ Opened(c) \/ Subscribed(c)
       \/ Unsubscribe(c) \/ Unsubscribed(c)
  \/ QuitSubscriber \/ SubscriberReady \/ SubscriberLost

PubSubSpec == PubSubInit /\ [][PubSubNext]_pubSubVars

-----------------------------------------------------------------------------
(* Properties *)

On(op, ch) == {c \in Calls : step[c] # "idle" /\ arg[c].op = op /\ arg[c].channel = ch}

\* A subscription the caller was told of keeps its handler, through every
\* reconnection and whatever happens on other channels, until somebody
\* unsubscribes the channel (redis.client.ts:231-241).
SubscriptionsSurvive ==
  \A ch \in Channels : \A c \in On("subscribe", ch) :
    /\ step[c] = "done"
    /\ \A d \in On("unsubscribe", ch) : d \in earlier[c]
    => arg[c].handler \in listeners[ch] /\ subscriptions[ch] # NoHandler

\* When unsubscribe has returned, and no subscribe overlapped it or came later,
\* nothing listens on the channel, nor will after a reconnection
\* (redis.client.ts:246-252).
UnsubscribeIsFinal ==
  \A ch \in Channels : \A c \in On("unsubscribe", ch) :
    /\ step[c] = "done"
    /\ \A d \in On("subscribe", ch) : d \in earlier[c]
    => listeners[ch] = {} /\ subscriptions[ch] = NoHandler

=============================================================================
