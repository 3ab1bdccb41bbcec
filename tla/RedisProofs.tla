---------------------------- MODULE RedisProofs ----------------------------
(***************************************************************************)
(* Proofs about RedisClient. The distributed lock is exclusive up to its   *)
(* TTL, and nobody but its holder or the TTL frees it, for any number of   *)
(* takers; subscriptions last until somebody unsubscribes and then end, for*)
(* any calls on any channels; and what a pipeline returns can be relied on,*)
(* however long it is and however often it is executed.                    *)
(***************************************************************************)
EXTENDS RedisLock, RedisPubSub, RedisPipeline, TLAPS

-----------------------------------------------------------------------------
(* Locks *)

\* Whoever acts as the holder and has not outstayed the TTL has his token in the
\* key. LockIsExclusive alone says nothing of the key, so it is not inductive.
HoldersHaveTheKey == \A t \in Holding \ expired : lock = t

LockInv == LockTypeOK /\ HoldersHaveTheKey

\* A step in which one taker moves on without touching the key, and does not
\* become a holder by it, keeps the invariant.
LEMMA MovingOn ==
  ASSUME LockInv, NEW t \in Takers, NEW s \in Stages,
         stage' = [stage EXCEPT ![t] = s],
         s \in {"granted", "working", "unlocking"} => t \in Holding,
         UNCHANGED <<lock, lockTtl, expired>>
  PROVE  /\ HoldersHaveTheKey'
         /\ stage' \in [Takers -> Stages]
<1>1. stage' \in [Takers -> Stages]
  BY DEF LockInv, LockTypeOK
<1>2. Holding' \subseteq Holding
  BY DEF LockInv, LockTypeOK, Holding
<1> QED BY <1>1, <1>2 DEF LockInv, HoldersHaveTheKey

\* The steps of a taker's calls and of its connection, Redis apart.
LEMMA TakerMoves ==
  ASSUME LockInv, NEW t \in Takers,
         \/ AcquireRaw(t) \/ AcquireRequired(t) \/ SafeAcquire(t) \/ Granted(t)
         \/ Release(t) \/ Die(t) \/ Unlink(t) \/ Relink(t)
  PROVE  LockInv'
<1>0. /\ UNCHANGED <<lock, lockTtl, expired, safe>>
      /\ linked' \in [Takers -> BOOLEAN]
  BY DEF LockInv, LockTypeOK, AcquireRaw, AcquireRequired, SafeAcquire, Granted, Release,
         Die, Unlink, Relink, KeyKept
<1>1. \/ UNCHANGED stage
      \/ \E s \in Stages :
           /\ stage' = [stage EXCEPT ![t] = s]
           /\ s \in {"granted", "working", "unlocking"} => t \in Holding
  <2>1. CASE AcquireRaw(t)
    BY <2>1 DEF AcquireRaw, Enter, Stages
  <2>2. CASE AcquireRequired(t)
    BY <2>2 DEF AcquireRequired, Enter, Stages
  <2>3. CASE SafeAcquire(t)
    BY <2>3 DEF SafeAcquire, Enter, Stages
  <2>4. CASE Granted(t)
    BY <2>4 DEF Granted, Enter, Stages, Holding
  <2>5. CASE Release(t)
    BY <2>5 DEF Release, Enter, Stages, Holding
  <2>6. CASE Die(t)
    BY <2>6 DEF Die, Enter, Stages
  <2>7. CASE Unlink(t)
    BY <2>7 DEF Unlink, Enter, FailedAcquire, Stages
  <2>8. CASE Relink(t)
    BY <2>8 DEF Relink
  <2> QED BY <2>1, <2>2, <2>3, <2>4, <2>5, <2>6, <2>7, <2>8
<1>2. HoldersHaveTheKey' /\ stage' \in [Takers -> Stages]
  <2>1. CASE UNCHANGED stage
    BY <2>1, <1>0 DEF LockInv, LockTypeOK, HoldersHaveTheKey, Holding
  <2>2. CASE ~UNCHANGED stage
    <3>1. PICK s \in Stages :
            /\ stage' = [stage EXCEPT ![t] = s]
            /\ s \in {"granted", "working", "unlocking"} => t \in Holding
      BY <2>2, <1>1
    <3> QED BY <3>1, <1>0, MovingOn
  <2> QED BY <2>1, <2>2
<1> QED BY <1>0, <1>2 DEF LockInv, LockTypeOK

\* Every step keeps the invariant.
LEMMA LockStep ==
  ASSUME LockInv, [LockNext]_lockVars
  PROVE  LockInv'
<1>1. ASSUME NEW t \in Takers, SetNxEx(t)
      PROVE  LockInv'
  <2>1. LockTypeOK'
    BY <1>1 DEF SetNxEx, Enter, LockInv, LockTypeOK, Stages
  <2>2. CASE lock = Free
    <3>1. Holding \ expired = {}
      BY <2>2, FreeAssumption DEF LockInv, HoldersHaveTheKey, Holding
    <3>2. lock' = t /\ expired' = expired /\ Holding' \subseteq Holding \cup {t}
      BY <1>1, <2>2 DEF SetNxEx, Enter, LockInv, LockTypeOK, Holding
    <3> QED BY <2>1, <3>1, <3>2 DEF LockInv, HoldersHaveTheKey
  <2>3. CASE lock # Free
    <3>1. stage' = [stage EXCEPT ![t] = "refused"] /\ UNCHANGED <<lock, lockTtl, expired>>
      BY <1>1, <2>3 DEF SetNxEx, Enter
    <3> QED BY <2>1, <3>1, MovingOn DEF LockInv, Stages
  <2> QED BY <2>2, <2>3
<1>2. ASSUME NEW t \in Takers, CompareAndDelete(t)
      PROVE  LockInv'
  <2>1. LockTypeOK'
    BY <1>2 DEF CompareAndDelete, Enter, LockInv, LockTypeOK, Stages
  <2>2. Holding' \subseteq Holding \ {t} /\ expired' = expired
    BY <1>2 DEF CompareAndDelete, Enter, LockInv, LockTypeOK, Holding
  <2>3. lock' = lock \/ lock = t
    BY <1>2 DEF CompareAndDelete
  <2> QED BY <2>1, <2>2, <2>3 DEF LockInv, HoldersHaveTheKey
<1>3. CASE ExpireLock
  <2>1. LockTypeOK'
    BY <1>3 DEF ExpireLock, LockInv, LockTypeOK
  <2>2. Holding' = Holding /\ expired' = expired \cup {lock}
    BY <1>3 DEF ExpireLock, Holding
  <2> QED BY <2>1, <2>2 DEF LockInv, HoldersHaveTheKey
<1>4. CASE UNCHANGED lockVars
  BY <1>4 DEF lockVars, LockInv, LockTypeOK, HoldersHaveTheKey, Holding
<1> QED BY <1>1, <1>2, <1>3, <1>4, TakerMoves DEF LockNext

\* The key holds the token of every holder within its TTL
\* (redis.client.ts:388-417).
THEOREM LockInvariant == LockSpec => []LockInv
<1>1. LockInit => LockInv
  BY DEF LockInit, LockInv, LockTypeOK, HoldersHaveTheKey, Holding, Stages
<1>2. LockInv /\ [LockNext]_lockVars => LockInv'
  BY LockStep
<1> QED BY <1>1, <1>2, PTL DEF LockSpec

\* Two callers never hold the lock at once within its TTL, for any number of
\* takers and any loss of connections (redis.client.ts:388-417).
THEOREM Exclusive == LockSpec => []LockIsExclusive
<1>1. LockInv => LockIsExclusive
  BY DEF LockInv, HoldersHaveTheKey, LockIsExclusive
<1> QED BY <1>1, LockInvariant, PTL

\* Only the end of the TTL and the holder's own release free the key
\* (redis.client.ts:413-417).
THEOREM FreedByItsHolder == LockSpec => NobodyFreesForAnother
<1> DEFINE Kept == \A t \in Takers :
             lock = t /\ lock' # t => t \in expired' \/ stage[t] = "unlocking"
<1>1. ASSUME LockNext
      PROVE  Kept
  <2>1. ASSUME NEW t \in Takers, SetNxEx(t)
        PROVE  Kept
    BY <2>1, FreeAssumption DEF SetNxEx
  <2>2. ASSUME NEW t \in Takers, CompareAndDelete(t)
        PROVE  Kept
    BY <2>2 DEF CompareAndDelete
  <2>3. CASE ExpireLock
    BY <2>3 DEF ExpireLock
  <2>4. ASSUME NEW t \in Takers,
               \/ AcquireRaw(t) \/ AcquireRequired(t) \/ SafeAcquire(t) \/ Granted(t)
               \/ Release(t) \/ Die(t) \/ Unlink(t) \/ Relink(t)
        PROVE  Kept
    BY <2>4 DEF AcquireRaw, AcquireRequired, SafeAcquire, Granted, Release, Die, Unlink,
                Relink, KeyKept
  <2> QED BY <1>1, <2>1, <2>2, <2>3, <2>4 DEF LockNext
<1>2. [LockNext]_lockVars => [Kept]_lockVars
  BY <1>1
<1> QED BY <1>2, PTL DEF LockSpec, NobodyFreesForAnother

-----------------------------------------------------------------------------
(* Subscriptions *)

\* A call that has begun knows what it asks for, and only the calls that ended
\* before it are earlier.
CallsKnown ==
  \A c \in Calls :
    /\ step[c] # "idle" => arg[c] \in Args
    /\ step[c] = "opening" => arg[c].op = "subscribe"
    /\ \A d \in earlier[c] : step[d] \in Ended

\* Before the subscriber there is nothing that it could listen to.
NothingBefore ==
  subscriber = "none" =>
    \A ch \in Channels : listeners[ch] = {} /\ subscriptions[ch] = NoHandler

\* What a subscribe will find when its reply comes, unless somebody unsubscribes.
SubscribeStands ==
  \A ch \in Channels : \A c \in On("subscribe", ch) :
    /\ step[c] \in {"sent", "done"}
    /\ \A d \in On("unsubscribe", ch) : d \in earlier[c]
    => subscriptions[ch] # NoHandler

\* What an unsubscribe will find, unless somebody subscribes.
UnsubscribeStands ==
  \A ch \in Channels : \A c \in On("unsubscribe", ch) :
    /\ step[c] \in {"sent", "done"}
    /\ \A d \in On("subscribe", ch) : d \in earlier[c]
    => subscriptions[ch] = NoHandler

PubSubInv ==
  /\ PubSubTypeOK /\ CallsKnown /\ NothingBefore
  /\ SubscribeStands /\ UnsubscribeStands
  /\ SubscriptionsSurvive /\ UnsubscribeIsFinal

\* A step of call c, which begins with it or was under way: it moves on, asking
\* for what it asked for before, and is earlier than no call.
Moves(c, s) ==
  /\ step' \in [Calls -> {"idle", "opening", "sent"} \cup Ended]
  /\ arg' \in [Calls -> Args \cup {NoHandler}]
  /\ earlier' \in [Calls -> SUBSET Calls]
  /\ CallsKnown'
  /\ step[c] \notin Ended /\ step'[c] = s /\ arg'[c] \in Args
  /\ step[c] # "idle" => arg'[c] = arg[c]
  /\ \A d \in Calls \ {c} : step'[d] = step[d] /\ arg'[d] = arg[d]
  /\ \A d \in Calls : c \notin earlier'[d] /\ (step[d] # "idle" => earlier'[d] = earlier[d])

LEMMA CallMoves ==
  ASSUME PubSubInv, NEW c \in Calls, NEW s \in {"sent"} \cup Ended, To(c, s),
         step[c] \in {"opening", "sent"}, UNCHANGED <<arg, earlier>>
  PROVE  Moves(c, s)
<1>1. /\ step' \in [Calls -> {"idle", "opening", "sent"} \cup Ended]
      /\ \A d \in Calls \ {c} : step'[d] = step[d]
      /\ step'[c] = s
  BY DEF PubSubInv, PubSubTypeOK, To
<1>2. CallsKnown'
  BY <1>1 DEF PubSubInv, PubSubTypeOK, CallsKnown, Ended
<1>3. step[c] \notin Ended
  BY DEF Ended
<1> QED
  BY <1>1, <1>2, <1>3 DEF Moves, PubSubInv, PubSubTypeOK, CallsKnown

LEMMA CallBegins ==
  ASSUME PubSubInv, NEW c \in Calls, NEW op \in {"subscribe", "unsubscribe"},
         Begins(c, op), NEW s \in {"opening", "sent"} \cup Ended, To(c, s),
         s = "opening" => op = "subscribe"
  PROVE  Moves(c, s) /\ step[c] = "idle" /\ arg'[c].op = op
<1>1. PICK a \in Args : a.op = op /\ arg' = [arg EXCEPT ![c] = a]
  BY DEF Begins
<1>2. /\ step' \in [Calls -> {"idle", "opening", "sent"} \cup Ended]
      /\ \A d \in Calls \ {c} : step'[d] = step[d]
      /\ step'[c] = s
  BY DEF PubSubInv, PubSubTypeOK, To
<1>3. /\ arg' \in [Calls -> Args \cup {NoHandler}]
      /\ \A d \in Calls \ {c} : arg'[d] = arg[d]
      /\ arg'[c] = a
  BY <1>1 DEF PubSubInv, PubSubTypeOK
<1>4. /\ earlier' \in [Calls -> SUBSET Calls]
      /\ earlier'[c] = {d \in Calls : step[d] \in Ended}
      /\ \A d \in Calls \ {c} : earlier'[d] = earlier[d]
  BY DEF PubSubInv, PubSubTypeOK, Begins
<1>5. step[c] = "idle" /\ step[c] \notin Ended
  BY DEF Begins, Ended
<1>6. CallsKnown'
  BY <1>1, <1>2, <1>3, <1>4, <1>5 DEF PubSubInv, PubSubTypeOK, CallsKnown, Ended
<1>7. \A d \in Calls : c \notin earlier'[d]
  BY <1>4, <1>5 DEF PubSubInv, CallsKnown
<1> QED
  BY <1>1, <1>2, <1>3, <1>4, <1>5, <1>6, <1>7 DEF Moves

\* The calls on a channel after such a step.
LEMMA CallsOn ==
  ASSUME PubSubInv, NEW c \in Calls, NEW s \in {"opening", "sent"} \cup Ended,
         Moves(c, s), NEW ch, NEW op, NEW d \in On(op, ch)'
  PROVE  /\ d \in Calls
         /\ d # c => d \in On(op, ch) /\ step'[d] = step[d] /\ arg'[d] = arg[d]
                     /\ earlier'[d] = earlier[d]
         /\ d = c => arg'[c].op = op /\ arg'[c].channel = ch
  BY DEF Moves, On

LEMMA CallsStayOn ==
  ASSUME PubSubInv, NEW c \in Calls, NEW s \in {"opening", "sent"} \cup Ended,
         Moves(c, s), NEW ch, NEW op
  PROVE  /\ On(op, ch) \subseteq On(op, ch)'
         /\ arg'[c].op = op /\ arg'[c].channel = ch => c \in On(op, ch)'
  BY DEF Moves, On, Ended

\* Joining a channel keeps the invariant: the call is earlier than none, so that
\* whoever has unsubscribed this channel is promised nothing any more.
LEMMA Registers ==
  ASSUME PubSubInv, NEW c \in Calls, Register(c), NEW s \in {"sent", "done"},
         Moves(c, s), arg'[c].op = "subscribe", subscriber' # "none",
         subscriber' \in {"none", "opening", "ready", "lost", "closed"}
  PROVE  PubSubInv'
<1> DEFINE here == arg'[c].channel
<1>1. /\ arg'[c] \in Args /\ here \in Channels /\ arg'[c].handler \in Handlers
      /\ step'[c] = s
  BY DEF Moves, Args
<1>2. /\ subscriptions' \in [Channels -> Handlers \cup {NoHandler}]
      /\ subscriptions'[here] # NoHandler
      /\ \A ch \in Channels \ {here} : subscriptions'[ch] = subscriptions[ch]
  BY <1>1, NoHandlerAssumption DEF Register, PubSubInv, PubSubTypeOK
<1>3. /\ listeners' \in [Channels -> SUBSET Handlers]
      /\ \A ch \in Channels : listeners[ch] \subseteq listeners'[ch]
      /\ \A ch \in Channels \ {here} : listeners'[ch] = listeners[ch]
      /\ s = "done" => arg'[c].handler \in listeners'[here]
  <2>1. CASE listeners' = [listeners EXCEPT ![here] = @ \cup {arg'[c].handler}]
    BY <1>1, <2>1 DEF PubSubInv, PubSubTypeOK
  <2>2. CASE UNCHANGED listeners /\ To(c, "sent")
    <3>1. s = "sent"
      BY <1>1, <2>2 DEF To, PubSubInv, PubSubTypeOK
    <3> QED
      BY <2>2, <3>1 DEF PubSubInv, PubSubTypeOK
  <2> QED
    BY <2>1, <2>2 DEF Register
<1>4. PubSubTypeOK' /\ CallsKnown' /\ NothingBefore'
  BY <1>2, <1>3 DEF Moves, PubSubTypeOK, NothingBefore
<1>5. ASSUME NEW ch \in Channels, NEW d \in On("subscribe", ch)',
             step'[d] \in {"sent", "done"},
             \A e \in On("unsubscribe", ch)' : e \in earlier'[d]
      PROVE  /\ subscriptions'[ch] # NoHandler
             /\ step'[d] = "done" => arg'[d].handler \in listeners'[ch]
  <2>1. CASE d = c
    BY <1>1, <1>2, <1>3, <2>1, CallsOn DEF Ended
  <2>2. CASE d # c
    <3>1. /\ d \in Calls /\ d \in On("subscribe", ch) /\ step'[d] = step[d]
          /\ arg'[d] = arg[d] /\ earlier'[d] = earlier[d]
      BY <2>2, CallsOn DEF Ended
    <3>2. \A e \in On("unsubscribe", ch) : e \in earlier[d]
      BY <1>5, <3>1, CallsStayOn DEF Ended
    <3>3. /\ subscriptions[ch] # NoHandler
          /\ step[d] = "done" => arg[d].handler \in listeners[ch]
      BY <1>5, <3>1, <3>2 DEF PubSubInv, SubscribeStands, SubscriptionsSurvive
    <3> QED
      BY <1>2, <1>3, <3>1, <3>3
  <2> QED
    BY <2>1, <2>2
<1>6. ASSUME NEW ch \in Channels, NEW d \in On("unsubscribe", ch)',
             step'[d] \in {"sent", "done"},
             \A e \in On("subscribe", ch)' : e \in earlier'[d]
      PROVE  /\ subscriptions'[ch] = NoHandler
             /\ step'[d] = "done" => listeners'[ch] = {}
  <2>1. /\ d # c /\ d \in Calls /\ d \in On("unsubscribe", ch) /\ step'[d] = step[d]
        /\ earlier'[d] = earlier[d]
    BY CallsOn DEF Ended
  <2>2. c \notin earlier'[d]
    BY <2>1 DEF Moves
  <2>3. ch # here
    BY <1>6, <2>2, CallsStayOn DEF Ended
  <2>4. \A e \in On("subscribe", ch) : e \in earlier[d]
    BY <1>6, <2>1, CallsStayOn DEF Ended
  <2>5. subscriptions[ch] = NoHandler /\ (step[d] = "done" => listeners[ch] = {})
    BY <1>6, <2>1, <2>4 DEF PubSubInv, UnsubscribeStands, UnsubscribeIsFinal
  <2> QED
    BY <1>2, <1>3, <2>1, <2>3, <2>5
<1> QED
  BY <1>4, <1>5, <1>6 DEF PubSubInv, SubscribeStands, SubscriptionsSurvive,
     UnsubscribeStands, UnsubscribeIsFinal

\* The reply to a SUBSCRIBE keeps it: the channel still has its registration.
LEMMA Replied ==
  ASSUME PubSubInv, NEW c \in Calls, Subscribed(c)
  PROVE  PubSubInv'
<1> DEFINE here == arg[c].channel
<1>1. Moves(c, "done") /\ step[c] = "sent" /\ arg' = arg /\ earlier' = earlier
  BY CallMoves DEF Subscribed, Ended
<1>2. /\ arg[c] \in Args /\ here \in Channels /\ arg[c].handler \in Handlers
      /\ arg[c].op = "subscribe" /\ c \in On("subscribe", here)
  BY <1>1 DEF Subscribed, Args, On, Moves
<1>3. /\ listeners' \in [Channels -> SUBSET Handlers]
      /\ \A ch \in Channels : listeners[ch] \subseteq listeners'[ch]
      /\ \A ch \in Channels \ {here} : listeners'[ch] = listeners[ch]
      /\ arg[c].handler \in listeners'[here]
  BY <1>2 DEF Subscribed, PubSubInv, PubSubTypeOK
<1>4. UNCHANGED <<subscriber, subscriptions>> /\ subscriber = "ready"
  BY DEF Subscribed
<1>5. PubSubTypeOK' /\ CallsKnown' /\ NothingBefore'
  BY <1>1, <1>3, <1>4 DEF Moves, PubSubInv, PubSubTypeOK, NothingBefore
<1>6. ASSUME NEW ch \in Channels, NEW d \in On("subscribe", ch)',
             step'[d] \in {"sent", "done"},
             \A e \in On("unsubscribe", ch)' : e \in earlier'[d]
      PROVE  /\ subscriptions'[ch] # NoHandler
             /\ step'[d] = "done" => arg'[d].handler \in listeners'[ch]
  <2>1. \A e \in On("unsubscribe", ch) : e \in earlier[d]
    BY <1>1, <1>6, CallsStayOn DEF Ended
  <2>2. d \in On("subscribe", ch) /\ step[d] \in {"sent", "done"}
    BY <1>1, <1>2, <1>6, CallsOn DEF Ended, Moves
  <2>3. /\ subscriptions[ch] # NoHandler
        /\ step[d] = "done" => arg[d].handler \in listeners[ch]
    BY <2>1, <2>2 DEF PubSubInv, SubscribeStands, SubscriptionsSurvive
  <2>4. CASE d = c
    BY <1>1, <1>3, <1>4, <1>6, <2>3, <2>4, CallsOn DEF Ended
  <2>5. CASE d # c
    <3>1. step'[d] = step[d]
      BY <1>1, <1>6, <2>5, CallsOn DEF Ended
    <3> QED
      BY <1>1, <1>3, <1>4, <2>3, <3>1
  <2> QED
    BY <2>4, <2>5
<1>7. ASSUME NEW ch \in Channels, NEW d \in On("unsubscribe", ch)',
             step'[d] \in {"sent", "done"},
             \A e \in On("subscribe", ch)' : e \in earlier'[d]
      PROVE  /\ subscriptions'[ch] = NoHandler
             /\ step'[d] = "done" => listeners'[ch] = {}
  <2>1. d # c /\ d \in Calls /\ d \in On("unsubscribe", ch) /\ step'[d] = step[d]
    BY <1>1, <1>2, CallsOn DEF Ended
  <2>2. c \notin earlier'[d]
    BY <1>1, <2>1 DEF Moves
  <2>3. ch # here
    BY <1>1, <1>2, <1>7, <2>2, CallsStayOn DEF Ended
  <2>4. \A e \in On("subscribe", ch) : e \in earlier[d]
    BY <1>1, <1>7, CallsStayOn DEF Ended
  <2>5. subscriptions[ch] = NoHandler /\ (step[d] = "done" => listeners[ch] = {})
    BY <1>7, <2>1, <2>4 DEF PubSubInv, UnsubscribeStands, UnsubscribeIsFinal
  <2> QED
    BY <1>3, <1>4, <2>1, <2>3, <2>5
<1> QED
  BY <1>5, <1>6, <1>7 DEF PubSubInv, SubscribeStands, SubscriptionsSurvive,
     UnsubscribeStands, UnsubscribeIsFinal

\* Leaving a channel keeps the invariant, when the call begins and when its reply
\* comes: it is earlier than no call, so that no subscription of this channel is
\* promised to last any more.
LEMMA Leaves ==
  ASSUME PubSubInv, NEW c \in Calls, NEW s \in {"sent", "done"}, Moves(c, s),
         arg'[c].op = "unsubscribe", step[c] \in {"idle", "sent"},
         UNCHANGED subscriber,
         subscriptions' \in {subscriptions,
                             [subscriptions EXCEPT ![arg'[c].channel] = NoHandler]},
         listeners' \in {listeners, [listeners EXCEPT ![arg'[c].channel] = {}]},
         step[c] = "idle" => subscriptions'[arg'[c].channel] = NoHandler,
         s = "done" => listeners'[arg'[c].channel] = {}
  PROVE  PubSubInv'
<1> DEFINE here == arg'[c].channel
<1>1. here \in Channels /\ step'[c] = s
  BY DEF Moves, Args
<1>2. /\ subscriptions' \in [Channels -> Handlers \cup {NoHandler}]
      /\ \A ch \in Channels : subscriptions'[ch] \in {subscriptions[ch], NoHandler}
      /\ \A ch \in Channels \ {here} : subscriptions'[ch] = subscriptions[ch]
  BY <1>1 DEF PubSubInv, PubSubTypeOK
<1>3. /\ listeners' \in [Channels -> SUBSET Handlers]
      /\ \A ch \in Channels : listeners'[ch] \in {listeners[ch], {}}
      /\ \A ch \in Channels \ {here} : listeners'[ch] = listeners[ch]
  BY <1>1 DEF PubSubInv, PubSubTypeOK
<1>4. PubSubTypeOK' /\ CallsKnown' /\ NothingBefore'
  <2>1. NothingBefore'
    BY <1>2, <1>3 DEF PubSubInv, NothingBefore
  <2> QED
    BY <1>2, <1>3, <2>1 DEF Moves, PubSubInv, PubSubTypeOK
<1>5. ASSUME NEW ch \in Channels, NEW d \in On("subscribe", ch)',
             step'[d] \in {"sent", "done"},
             \A e \in On("unsubscribe", ch)' : e \in earlier'[d]
      PROVE  /\ subscriptions'[ch] # NoHandler
             /\ step'[d] = "done" => arg'[d].handler \in listeners'[ch]
  <2>1. /\ d # c /\ d \in Calls /\ d \in On("subscribe", ch) /\ step'[d] = step[d]
        /\ arg'[d] = arg[d] /\ earlier'[d] = earlier[d]
    BY CallsOn DEF Ended
  <2>2. c \notin earlier'[d]
    BY <2>1 DEF Moves
  <2>3. ch # here
    BY <1>5, <2>2, CallsStayOn DEF Ended
  <2>4. \A e \in On("unsubscribe", ch) : e \in earlier[d]
    BY <1>5, <2>1, CallsStayOn DEF Ended
  <2>5. /\ subscriptions[ch] # NoHandler
        /\ step[d] = "done" => arg[d].handler \in listeners[ch]
    BY <1>5, <2>1, <2>4 DEF PubSubInv, SubscribeStands, SubscriptionsSurvive
  <2> QED
    BY <1>2, <1>3, <2>1, <2>3, <2>5
<1>6. ASSUME NEW ch \in Channels, NEW d \in On("unsubscribe", ch)',
             step'[d] \in {"sent", "done"},
             \A e \in On("subscribe", ch)' : e \in earlier'[d]
      PROVE  /\ subscriptions'[ch] = NoHandler
             /\ step'[d] = "done" => listeners'[ch] = {}
  <2>1. CASE d = c /\ step[c] = "idle"
    BY <1>1, <2>1, CallsOn DEF Ended
  <2>2. CASE ~(d = c /\ step[c] = "idle")
    <3>1. /\ d \in On("unsubscribe", ch) /\ earlier'[d] = earlier[d]
          /\ step[d] \in {"sent", "done"}
      <4>1. CASE d # c
        BY <1>6, <4>1, CallsOn DEF Ended
      <4>2. CASE d = c
        <5>1. arg[c].op = "unsubscribe" /\ arg[c].channel = ch /\ step[c] = "sent"
          BY <2>2, <4>2, CallsOn DEF Moves, Ended
        <5> QED
          BY <4>2, <5>1 DEF On, Moves
      <4> QED
        BY <4>1, <4>2
    <3>2. \A e \in On("subscribe", ch) : e \in earlier[d]
      BY <1>6, <3>1, CallsStayOn DEF Ended
    <3>3. subscriptions[ch] = NoHandler /\ (step[d] = "done" => listeners[ch] = {})
      BY <3>1, <3>2 DEF PubSubInv, UnsubscribeStands, UnsubscribeIsFinal
    <3>4. d # c => step'[d] = step[d]
      BY CallsOn DEF Ended
    <3>5. d = c => ch = here
      BY CallsOn DEF Ended
    <3> QED
      BY <1>1, <1>2, <1>3, <3>3, <3>4, <3>5
  <2> QED
    BY <2>1, <2>2
<1> QED
  BY <1>4, <1>5, <1>6 DEF PubSubInv, SubscribeStands, SubscriptionsSurvive,
     UnsubscribeStands, UnsubscribeIsFinal

\* The first subscribe is promised nothing yet.
LEMMA Opens ==
  ASSUME PubSubInv, NEW c \in Calls, OpenSubscriber(c)
  PROVE  PubSubInv'
<1>1. Moves(c, "opening") /\ step[c] = "idle" /\ arg'[c].op = "subscribe"
  BY CallBegins DEF OpenSubscriber
<1>2. UNCHANGED <<subscriptions, listeners>> /\ subscriber' = "opening"
  BY DEF OpenSubscriber
<1>3. PubSubTypeOK' /\ CallsKnown' /\ NothingBefore'
  BY <1>1, <1>2 DEF Moves, PubSubInv, PubSubTypeOK, NothingBefore
<1>4. ASSUME NEW ch, NEW op \in {"subscribe", "unsubscribe"}, NEW d \in On(op, ch)',
             step'[d] \in {"sent", "done"}
      PROVE  /\ d \in On(op, ch) /\ step'[d] = step[d] /\ arg'[d] = arg[d]
             /\ earlier'[d] = earlier[d]
  BY <1>1, <1>4, CallsOn DEF Moves
<1>5. ASSUME NEW ch, NEW op \in {"subscribe", "unsubscribe"}
      PROVE  On(op, ch) \subseteq On(op, ch)'
  BY <1>1, CallsStayOn
<1> HIDE DEF Moves
<1>6. SubscribeStands' /\ SubscriptionsSurvive'
  BY <1>2, <1>4, <1>5 DEF PubSubInv, SubscribeStands, SubscriptionsSurvive
<1>7. UnsubscribeStands' /\ UnsubscribeIsFinal'
  BY <1>2, <1>4, <1>5 DEF PubSubInv, UnsubscribeStands, UnsubscribeIsFinal
<1> QED
  BY <1>3, <1>6, <1>7 DEF PubSubInv

\* The connection comes, goes and is closed without a promise being broken.
LEMMA ConnectionMoves ==
  ASSUME PubSubInv, QuitSubscriber \/ SubscriberReady \/ SubscriberLost
  PROVE  PubSubInv'
<1>1. /\ UNCHANGED <<subscriptions, listeners, arg, earlier>>
      /\ subscriber # "none" /\ subscriber' \in {"ready", "lost", "closed"}
      /\ step' \in [Calls -> {"idle", "opening", "sent"} \cup Ended]
      /\ \A d \in Calls : step'[d] = step[d] \/ (step[d] = "sent" /\ step'[d] = "failed")
  BY DEF QuitSubscriber, SubscriberReady, SubscriberLost, PubSubInv, PubSubTypeOK, Ended
<1>2. PubSubTypeOK' /\ CallsKnown' /\ NothingBefore'
  BY <1>1 DEF PubSubInv, PubSubTypeOK, CallsKnown, NothingBefore, Ended
<1>3. ASSUME NEW op, NEW ch PROVE On(op, ch)' = On(op, ch)
  BY <1>1 DEF On
<1>4. \A d \in Calls : step'[d] \in {"sent", "done"} => step'[d] = step[d]
  BY <1>1
<1>5. \A op, ch : On(op, ch) \subseteq Calls
  BY DEF On
<1>6. SubscribeStands' /\ SubscriptionsSurvive'
  BY <1>1, <1>3, <1>4, <1>5 DEF PubSubInv, SubscribeStands, SubscriptionsSurvive
<1>7. UnsubscribeStands' /\ UnsubscribeIsFinal'
  BY <1>1, <1>3, <1>4, <1>5 DEF PubSubInv, UnsubscribeStands, UnsubscribeIsFinal
<1> QED
  BY <1>2, <1>6, <1>7 DEF PubSubInv

LEMMA PubSubStep == PubSubInv /\ [PubSubNext]_pubSubVars => PubSubInv'
<1> SUFFICES ASSUME PubSubInv, [PubSubNext]_pubSubVars PROVE PubSubInv'
  OBVIOUS
<1>1. ASSUME NEW c \in Calls, Subscribe(c) PROVE PubSubInv'
  <2>1. PICK s \in {"sent", "done"} : To(c, s)
    BY <1>1 DEF Subscribe, Register
  <2>2. Moves(c, s) /\ arg'[c].op = "subscribe"
    BY <1>1, <2>1, CallBegins DEF Subscribe, Ended
  <2> QED
    BY <1>1, <2>2, Registers DEF Subscribe, PubSubInv, PubSubTypeOK
<1>2. ASSUME NEW c \in Calls, Opened(c) PROVE PubSubInv'
  <2>1. PICK s \in {"sent", "done"} : To(c, s)
    BY <1>2 DEF Opened, Register
  <2>2. Moves(c, s)
    BY <1>2, <2>1, CallMoves DEF Opened, Ended
  <2>3. arg'[c].op = "subscribe"
    BY <1>2 DEF Opened, PubSubInv, CallsKnown
  <2> QED
    BY <1>2, <2>2, <2>3, Registers DEF Opened
<1>3. ASSUME NEW c \in Calls, Unsubscribe(c) PROVE PubSubInv'
  <2>1. CASE subscriber = "none"
    <3>1. Moves(c, "done") /\ step[c] = "idle" /\ arg'[c].op = "unsubscribe"
      BY <1>3, <2>1, CallBegins DEF Unsubscribe, Ended
    <3>2. arg'[c].channel \in Channels
      BY <3>1 DEF Moves, Args
    <3>3. listeners[arg'[c].channel] = {} /\ subscriptions[arg'[c].channel] = NoHandler
      BY <2>1, <3>2 DEF PubSubInv, NothingBefore
    <3> QED
      BY <1>3, <2>1, <3>1, <3>3, Leaves DEF Unsubscribe
  <2>2. CASE subscriber # "none"
    <3>1. Moves(c, "sent") /\ step[c] = "idle" /\ arg'[c].op = "unsubscribe"
      BY <1>3, <2>2, CallBegins DEF Unsubscribe
    <3>2. arg'[c].channel \in Channels
      BY <3>1 DEF Moves, Args
    <3>3. subscriptions' = [subscriptions EXCEPT ![arg'[c].channel] = NoHandler]
      BY <1>3, <2>2 DEF Unsubscribe
    <3>4. subscriptions'[arg'[c].channel] = NoHandler
      BY <3>2, <3>3 DEF PubSubInv, PubSubTypeOK
    <3> QED
      BY <1>3, <3>1, <3>3, <3>4, Leaves DEF Unsubscribe
  <2> QED
    BY <2>1, <2>2
<1>4. ASSUME NEW c \in Calls, Unsubscribed(c) PROVE PubSubInv'
  <2>1. Moves(c, "done") /\ step[c] = "sent" /\ arg' = arg /\ arg[c].op = "unsubscribe"
    BY <1>4, CallMoves DEF Unsubscribed, Ended
  <2>2. arg[c].channel \in Channels
    BY <2>1 DEF Moves, Args
  <2>3. listeners'[arg'[c].channel] = {}
    BY <1>4, <2>1, <2>2 DEF Unsubscribed, PubSubInv, PubSubTypeOK
  <2> QED
    BY <1>4, <2>1, <2>3, Leaves DEF Unsubscribed
<1>5. CASE UNCHANGED pubSubVars
  <2>1. \A op, ch : On(op, ch)' = On(op, ch)
    BY <1>5 DEF On, pubSubVars
  <2> QED
    BY <1>5, <2>1 DEF pubSubVars, PubSubInv, PubSubTypeOK, CallsKnown, NothingBefore,
       SubscribeStands, UnsubscribeStands, SubscriptionsSurvive, UnsubscribeIsFinal
<1> QED
  BY <1>1, <1>2, <1>3, <1>4, <1>5, Opens, Replied, ConnectionMoves DEF PubSubNext

\* The invariant of the subscriptions: a call is promised something about its
\* channel from when its command is sent, as long as the calls that could undo
\* it all ended before it began (redis.client.ts:206-252).
THEOREM PubSubInvariant == PubSubSpec => []PubSubInv
<1>1. PubSubInit => PubSubInv
  BY DEF PubSubInit, PubSubInv, PubSubTypeOK, CallsKnown, NothingBefore, SubscribeStands,
     UnsubscribeStands, SubscriptionsSurvive, UnsubscribeIsFinal, On
<1> QED
  BY <1>1, PubSubStep, PTL DEF PubSubSpec

\* A subscription that the caller was told of keeps its handler until somebody
\* unsubscribes the channel, for any calls on any channels and any outages
\* (redis.client.ts:231-241).
THEOREM SubscriptionsLast == PubSubSpec => []SubscriptionsSurvive
<1>1. PubSubInv => SubscriptionsSurvive
  BY DEF PubSubInv
<1> QED
  BY <1>1, PubSubInvariant, PTL

\* After an unsubscribe that no subscribe overlapped or followed, nothing listens
\* (redis.client.ts:246-252).
THEOREM UnsubscribedForGood == PubSubSpec => []UnsubscribeIsFinal
<1>1. PubSubInv => UnsubscribeIsFinal
  BY DEF PubSubInv
<1> QED
  BY <1>1, PubSubInvariant, PTL

-----------------------------------------------------------------------------
(* Pipelines *)

Reply == [of : Nat, reply : {"ok", "error"}]

Entry == [error : BOOLEAN, of : Nat]

PipelineTypeOK ==
  /\ commands \in Seq(Verbs)
  /\ lenient \in BOOLEAN /\ up \in BOOLEAN /\ running \in BOOLEAN
  /\ execs \in Nat
  /\ executed \in Seq(Reply)
  /\ result \in Seq(Entry)

\* Redis executes the commands of the builder in their order, and the builder
\* gets no commands once it has been executed.
InOrder ==
  /\ Len(executed) <= Len(commands)
  /\ \A i \in 1..Len(executed) : executed[i].of = i
  /\ execs = 0 => executed = <<>> /\ ~running

PipelineInv == PipelineTypeOK /\ InOrder /\ PipelineTellsTheTruth

\* An error is reported by one entry.
LEMMA ErrorEntry ==
  /\ ErrorResult \in Seq(Entry)
  /\ ~lenient => \E i \in 1..Len(ErrorResult) : ErrorResult[i].error
<1> DEFINE e == [error |-> TRUE, of |-> 0]
<1>1. e \in Entry /\ e.error
  BY DEF Entry
<1>2. ErrorResult = IF lenient THEN <<>> ELSE <<e>>
  BY DEF ErrorResult
<1> HIDE DEF e
<1> QED
  BY <1>1, <1>2

LEMMA PipelineStep == PipelineInv /\ [PipelineNext]_pipelineVars => PipelineInv'
<1> SUFFICES ASSUME PipelineInv, [PipelineNext]_pipelineVars PROVE PipelineInv'
  OBVIOUS
<1> USE DEF PipelineInv
<1>1. ASSUME NEW verb \in Verbs, Add(verb) PROVE PipelineInv'
  <2>1. /\ execs = 0 /\ commands' = Append(commands, verb)
        /\ UNCHANGED <<lenient, up, execs, running, executed, result>>
    BY <1>1 DEF Add
  <2>2. commands' \in Seq(Verbs) /\ Len(commands') = Len(commands) + 1
    BY <2>1 DEF PipelineTypeOK
  <2>3. PipelineTypeOK'
    BY <2>1, <2>2 DEF PipelineTypeOK
  <2>4. InOrder' /\ executed = <<>>
    BY <2>1, <2>2 DEF InOrder, PipelineTypeOK
  <2>5. PipelineTellsTheTruth'
    BY <2>1 DEF PipelineTellsTheTruth
  <2> QED
    BY <2>3, <2>4, <2>5
<1>2. CASE Exec
  <2>1. /\ execs' = execs + 1 /\ executed' = <<>> /\ result' = <<>>
        /\ UNCHANGED <<commands, lenient, up>>
    BY <1>2 DEF Exec
  <2>2. running' \in BOOLEAN /\ (~lenient => running')
    BY <1>2 DEF Exec
  <2>3. executed' \in Seq(Reply) /\ result' \in Seq(Entry) /\ execs' \in Nat \ {0}
    BY <2>1 DEF PipelineTypeOK
  <2>4. PipelineTypeOK'
    BY <2>1, <2>2, <2>3 DEF PipelineTypeOK
  <2>5. InOrder'
    BY <2>1, <2>3 DEF InOrder, PipelineTypeOK
  <2>6. PipelineTellsTheTruth'
    BY <2>1, <2>2 DEF PipelineTellsTheTruth
  <2> QED
    BY <2>4, <2>5, <2>6
<1>3. CASE RedisExecutes
  <2>1. PICK reply \in Replies(commands[Len(executed) + 1]) :
          executed' = Append(executed, [of |-> Len(executed) + 1, reply |-> reply])
    BY <1>3 DEF RedisExecutes
  <2>2. reply \in {"ok", "error"}
    BY <2>1 DEF Replies
  <2>3. executed' \in Seq(Reply) /\ Len(executed') = Len(executed) + 1
    BY <2>1, <2>2 DEF PipelineTypeOK, Reply
  <2>4. \A i \in 1..Len(executed') : executed'[i].of = i
    BY <2>1, <2>3 DEF PipelineTypeOK, InOrder
  <2>5. /\ running /\ Len(executed) < Len(commands)
        /\ UNCHANGED <<commands, lenient, up, execs, running, result>>
    BY <1>3 DEF RedisExecutes
  <2> QED
    BY <2>3, <2>4, <2>5 DEF PipelineTypeOK, InOrder, PipelineTellsTheTruth
<1>4. CASE Settle
  <2>1. /\ running /\ ~running' /\ Len(executed) = Len(commands)
        /\ UNCHANGED <<commands, lenient, up, execs, executed>>
    BY <1>4 DEF Settle
  <2>2. running' \in BOOLEAN /\ execs # 0
    BY <1>4 DEF Settle, InOrder
  <2>3. CASE lenient \/ Failed(executed)
    <3>1. result' = ErrorResult
      BY <1>4, <2>3 DEF Settle, ErrorResult
    <3>2. result' \in Seq(Entry)
      BY <3>1, ErrorEntry
    <3>3. ~lenient => \E i \in 1..Len(result') : result'[i].error
      BY <3>1, ErrorEntry
    <3>4. PipelineTypeOK' /\ InOrder'
      BY <2>1, <2>2, <3>2 DEF PipelineTypeOK, InOrder
    <3>5. PipelineTellsTheTruth'
      BY <2>1, <3>3 DEF PipelineTellsTheTruth
    <3> QED
      BY <3>4, <3>5
  <2>4. CASE ~lenient /\ ~Failed(executed)
    <3>1. result' = [i \in 1..Len(executed) |-> [error |-> FALSE, of |-> executed[i].of]]
      BY <1>4, <2>4 DEF Settle
    <3>2. \A i \in 1..Len(executed) : executed[i] \in Reply /\ executed[i].reply # "error"
      BY <2>4 DEF PipelineTypeOK, Failed
    <3>3. \A i \in 1..Len(executed) : executed[i].reply = "ok" /\ executed[i].of = i
      BY <3>2 DEF Reply, InOrder
    <3>4. /\ result' \in Seq(Entry) /\ Len(result') = Len(executed)
          /\ \A i \in 1..Len(executed) : result'[i].of = executed[i].of
      <4>1. \A i \in 1..Len(executed) : [error |-> FALSE, of |-> executed[i].of] \in Entry
        BY <3>2 DEF Reply, Entry
      <4> QED
        BY <3>1, <4>1 DEF PipelineTypeOK
    <3>5. PipelineTypeOK' /\ InOrder'
      BY <2>1, <2>2, <3>4 DEF PipelineTypeOK, InOrder
    <3>6. PipelineTellsTheTruth'
      BY <2>1, <3>3, <3>4 DEF PipelineTellsTheTruth
    <3> QED
      BY <3>5, <3>6
  <2> QED
    BY <2>3, <2>4
<1>5. CASE PipelineDown
  <2>1. CASE UNCHANGED <<running, result>>
    BY <1>5, <2>1 DEF PipelineDown, PipelineTypeOK, InOrder, PipelineTellsTheTruth
  <2>2. CASE running /\ ~running' /\ result' = ErrorResult
    <3>1. result' \in Seq(Entry)
      BY <2>2, ErrorEntry
    <3>2. ~lenient => \E i \in 1..Len(result') : result'[i].error
      BY <2>2, ErrorEntry
    <3> QED
      BY <1>5, <2>2, <3>1, <3>2
         DEF PipelineDown, PipelineTypeOK, InOrder, PipelineTellsTheTruth
  <2> QED
    BY <1>5, <2>1, <2>2 DEF PipelineDown
<1>6. CASE PipelineUp
  BY <1>6 DEF PipelineUp, PipelineTypeOK, InOrder, PipelineTellsTheTruth
<1>7. CASE UNCHANGED pipelineVars
  BY <1>7 DEF pipelineVars, PipelineTypeOK, InOrder, PipelineTellsTheTruth
<1> QED
  BY <1>1, <1>2, <1>3, <1>4, <1>5, <1>6, <1>7 DEF PipelineNext

\* What the raw exec() returns without an error is the reply to each command of
\* the builder, however long it is, however often it is executed and wherever
\* the connection ends (redis.client.ts:496-503).
THEOREM RepliesAreTrue == PipelineSpec => []PipelineTellsTheTruth
<1>1. PipelineInit => PipelineInv
  <2> SUFFICES ASSUME PipelineInit PROVE PipelineInv
    OBVIOUS
  <2>1. /\ lenient \in BOOLEAN /\ up \in BOOLEAN /\ running \in BOOLEAN
        /\ commands = <<>> /\ executed = <<>> /\ result = <<>> /\ execs = 0
    BY DEF PipelineInit
  <2>2. commands \in Seq(Verbs) /\ executed \in Seq(Reply) /\ result \in Seq(Entry)
    BY <2>1
  <2>3. PipelineTypeOK
    BY <2>1, <2>2 DEF PipelineTypeOK
  <2>4. InOrder
    BY DEF PipelineInit, InOrder
  <2>5. PipelineTellsTheTruth
    BY DEF PipelineInit, PipelineTellsTheTruth
  <2> QED
    BY <2>3, <2>4, <2>5 DEF PipelineInv
<1>2. PipelineInv => PipelineTellsTheTruth
  BY DEF PipelineInv
<1> QED
  BY <1>1, <1>2, PipelineStep, PTL DEF PipelineSpec
=============================================================================
