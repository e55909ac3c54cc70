--------------------------- MODULE Subscriptions ---------------------------
(***************************************************************************)
(* AsyncPolicyAdapter and AsyncFrameSubscription                           *)
(* (src/pyxcp/transport/async_policy.py): the frames a listener thread     *)
(* feeds to the policy are mirrored into asyncio queues that tasks of an   *)
(* event loop read.                                                        *)
(*                                                                         *)
(* The threads meet in two places: the set of subscriptions, and the       *)
(* callbacks publish() and close() hand to the loop, which runs them later *)
(* and in order.  Frames are numbered in the order they were fed.          *)
(***************************************************************************)
EXTENDS Integers, Sequences

CONSTANTS
  Subs,           \* the subscriptions that may be made
  Categories,     \* of frames
  Wanted,         \* the categories a subscription is for
  MaxSizes,       \* the maxsize of its queue, 0: unlimited
  ConsumerCounts  \* the tasks that may wait in get() of one subscription

ASSUME SubsAssumption == Wanted \in [Subs -> SUBSET Categories]
ASSUME SizesAssumption == MaxSizes \subseteq Nat /\ ConsumerCounts \subseteq Nat \ {0}

VARIABLES
  maxsize, consumers,   \* constant during a behaviour
  fed,           \* the categories of the frames fed so far
  publishing,    \* feed(): the subscriptions it still has to publish the last frame to
  finalized,     \* AsyncPolicyAdapter._finalized
  subscribing,   \* subscriptions that have passed the test of _finalized
  subscribed,    \* AsyncPolicyAdapter._subscriptions
  closing,       \* those finalize() still has to close
  closed,        \* the subscriptions with _closed
  pending,       \* per subscription: callbacks the loop has yet to run
  queue,         \* per subscription: _queue, Sentinel is _sentinel
  waiting,       \* per subscription: tasks that wait in get()
  since,         \* history: frames fed before the subscription was made
  until,         \* history: frames fed before it was closed
  taken,         \* history: frames the tasks got
  dropped        \* history: frames a full queue or close() has cost

fixed == <<maxsize, consumers>>
feeding == <<fed, publishing>>
adapter == <<finalized, subscribing, subscribed, closing, closed, since, until>>
loop == <<pending, queue, waiting, taken, dropped>>
subVars == <<fixed, feeding, adapter, loop>>
Sentinel == 0
FedFrames == 1 .. Len(fed)

SubTypeOK ==
  /\ maxsize \in MaxSizes /\ consumers \in ConsumerCounts
  /\ fed \in Seq(Categories)
  /\ publishing \subseteq Subs /\ (publishing # {} => fed # <<>>)
  /\ finalized \in BOOLEAN
  /\ subscribing \subseteq Subs /\ subscribed \subseteq Subs
  /\ closing \subseteq Subs /\ closed \subseteq Subs
  /\ subscribed \cap closed = {}
  /\ pending \in [Subs -> Seq(Nat)] /\ queue \in [Subs -> Seq(Nat)]
  /\ \A s \in Subs : maxsize > 0 => Len(queue[s]) <= maxsize
  /\ waiting \in [Subs -> Nat]
  /\ \A s \in Subs : waiting[s] <= consumers
  /\ since \in [Subs -> Nat] /\ until \in [Subs -> Nat]
  /\ taken \in [Subs -> Seq(Nat)] /\ dropped \in [Subs -> SUBSET Nat]

SubInit ==
  /\ maxsize \in MaxSizes /\ consumers \in ConsumerCounts
  /\ fed = <<>> /\ publishing = {}
  /\ finalized = FALSE
  /\ subscribing = {} /\ subscribed = {} /\ closing = {} /\ closed = {}
  /\ pending = [s \in Subs |-> <<>>] /\ queue = [s \in Subs |-> <<>>]
  /\ waiting = [s \in Subs |-> 0]
  /\ since = [s \in Subs |-> 0] /\ until = [s \in Subs |-> 0]
  /\ taken = [s \in Subs |-> <<>>] /\ dropped = [s \in Subs |-> {}]

-----------------------------------------------------------------------------
(* subscribe(), in whatever thread.                                        *)
New(s) == s \notin subscribing \cup subscribed \cup closed
SubscribeTest(s) ==
  /\ New(s) /\ ~finalized
  /\ subscribing' = subscribing \cup {s}
  /\ UNCHANGED <<fixed, feeding, finalized, subscribed, closing, closed, since, until, loop>>
SubscribeAdd(s) ==
  /\ s \in subscribing
  /\ subscribing' = subscribing \ {s} /\ subscribed' = subscribed \cup {s}
  /\ since' = [since EXCEPT ![s] = Len(fed)]
  /\ UNCHANGED <<fixed, feeding, finalized, closing, closed, until, loop>>

(* feed() goes through the subscriptions there were when it began;         *)
(* publish() hands a callback to the loop of each; that no loop is closed  *)
(* before its subscription is an assumption, as the callback is else an    *)
(* error in the listener.                                                  *)
FeedFrame(category) ==
  /\ publishing = {}
  /\ fed' = Append(fed, category)
  /\ publishing' = subscribed
  /\ UNCHANGED <<fixed, adapter, loop>>
Publish(s) ==
  /\ s \in publishing
  /\ publishing' = publishing \ {s}
  /\ pending' = [pending EXCEPT ![s] = Append(@, Len(fed))]
  /\ UNCHANGED <<fixed, fed, adapter, queue, waiting, taken, dropped>>

(* The loop runs a callback: _enqueue() or _close_queue().                 *)
Full(s) == maxsize > 0 /\ Len(queue[s]) = maxsize
Callback(s) == pending[s] # <<>> /\ pending' = [pending EXCEPT ![s] = Tail(@)]
Loses(s, frames) == dropped' = [dropped EXCEPT ![s] = @ \cup (frames \ {Sentinel})]

IgnoresUnwanted(s, n) == fed[n] \notin Wanted[s]     \* Mutant
Ignores(s, n) == s \in closed \/ fed[n] \notin Wanted[s]
Enqueue(s) ==
  /\ Callback(s) /\ Head(pending[s]) # Sentinel
  /\ LET n == Head(pending[s]) IN
       CASE Ignores(s, n) ->
              Loses(s, IF fed[n] \in Wanted[s] THEN {n} ELSE {}) /\ UNCHANGED queue
         [] ~Ignores(s, n) /\ Full(s) -> Loses(s, {n}) /\ UNCHANGED queue
         [] ~Ignores(s, n) /\ ~Full(s) ->
              queue' = [queue EXCEPT ![s] = Append(@, n)] /\ UNCHANGED dropped
  /\ UNCHANGED <<fixed, feeding, adapter, waiting, taken>>
WithSentinel(s) == Append(IF Full(s) THEN Tail(queue[s]) ELSE queue[s], Sentinel)
CloseQueue(s) ==
  /\ Callback(s) /\ Head(pending[s]) = Sentinel
  /\ queue' = [queue EXCEPT ![s] = WithSentinel(s)]
  /\ Loses(s, IF Full(s) THEN {Head(queue[s])} ELSE {})
  /\ UNCHANGED <<fixed, feeding, adapter, waiting, taken>>

(* close() of a subscription, and finalize() of the adapter, in whatever   *)
(* thread.                                                                 *)
Closes(s) ==
  IF s \in closed THEN UNCHANGED <<closed, subscribed, pending, until>>
  ELSE /\ closed' = closed \cup {s} /\ subscribed' = subscribed \ {s}
       /\ pending' = [pending EXCEPT ![s] = Append(@, Sentinel)]
       /\ until' = [until EXCEPT ![s] = Len(fed)]
Close(s) ==
  /\ s \in subscribed /\ Closes(s)
  /\ UNCHANGED <<fixed, feeding, finalized, subscribing, closing, since, queue, waiting,
                 taken, dropped>>
FinalizePolicy ==
  /\ ~finalized
  /\ finalized' = TRUE /\ closing' = subscribed
  /\ UNCHANGED <<fixed, feeding, subscribing, subscribed, closed, since, until, loop>>
FinalizeClose(s) ==
  /\ s \in closing
  /\ Closes(s)
  /\ closing' = closing \ {s}
  /\ UNCHANGED <<fixed, feeding, finalized, subscribing, since, queue, waiting, taken,
                 dropped>>

(* get(): a queue that is not empty is read at once; a closed and empty    *)
(* one raises, which changes nothing.                                      *)
Pops(s) ==
  /\ queue[s] # <<>>
  /\ queue' = [queue EXCEPT ![s] = Tail(@)]
  /\ taken' = IF Head(queue[s]) = Sentinel THEN taken
              ELSE [taken EXCEPT ![s] = Append(@, Head(queue[s]))]
GetAtOnce(s) ==
  /\ s \in subscribed \cup closed /\ waiting[s] < consumers
  /\ Pops(s)
  /\ UNCHANGED <<fixed, feeding, adapter, pending, waiting, dropped>>
GetWaits(s) ==
  /\ s \in subscribed \cup closed /\ waiting[s] < consumers
  /\ queue[s] = <<>> /\ s \notin closed
  /\ waiting' = [waiting EXCEPT ![s] = @ + 1]
  /\ UNCHANGED <<fixed, feeding, adapter, pending, queue, taken, dropped>>
GetReturns(s) ==
  /\ waiting[s] > 0
  /\ Pops(s)
  /\ waiting' = [waiting EXCEPT ![s] = @ - 1]
  /\ UNCHANGED <<fixed, feeding, adapter, pending, dropped>>

RunLoop(s) == Enqueue(s) \/ CloseQueue(s)
SubStep(s) ==
  \/ SubscribeTest(s) \/ SubscribeAdd(s) \/ Publish(s) \/ RunLoop(s) \/ Close(s) \/ FinalizeClose(s)
  \/ GetAtOnce(s) \/ GetWaits(s) \/ GetReturns(s)
SubNext ==
  \/ \E s \in Subs : SubStep(s)
  \/ \E category \in Categories : FeedFrame(category)
  \/ FinalizePolicy
SubSpec == SubInit /\ [][SubNext]_subVars

(* Loops run their callbacks, and a task that can go on does.              *)
SubFairness ==
  \A s \in Subs : /\ WF_subVars(Publish(s)) /\ WF_subVars(FinalizeClose(s))
                 /\ WF_subVars(RunLoop(s)) /\ WF_subVars(GetReturns(s))

-----------------------------------------------------------------------------
(* The tasks of a subscription get the frames they want, in the order they *)
(* were fed and none twice.  Every such frame that was fed between         *)
(* subscribe() and close() is got, on its way, or dropped; and a frame is  *)
(* dropped only by a limited queue or by close().                          *)
Ascending(seq) ==
  \A i, j \in 1 .. Len(seq) : i < j /\ seq[j] # Sentinel => seq[i] # Sentinel /\ seq[i] < seq[j]
On(seq) == {seq[i] : i \in 1 .. Len(seq)}
Ordered == \A s \in Subs : Ascending(taken[s] \o queue[s])
Span(s) ==
  IF s \in closed THEN since[s] + 1 .. until[s]
  ELSE IF s \in subscribed THEN since[s] + 1 .. Len(fed) ELSE {}
Filtered ==
  \A s \in Subs : \A n \in On(taken[s]) : n \in Span(s) /\ fed[n] \in Wanted[s]
Complete ==
  \A s \in Subs : \A n \in Span(s) :
    fed[n] \in Wanted[s] => n \in On(taken[s]) \cup On(queue[s]) \cup On(pending[s]) \cup dropped[s]
                               \cup (IF s \in publishing THEN {Len(fed)} ELSE {})
DroppedWhy ==
  \A s \in Subs : dropped[s] # {} => maxsize > 0 \/ s \in closed
SubscribersSee == Ordered /\ Filtered /\ Complete /\ DroppedWhy

(* A lone task that waits in get() of a subscription that was closed, by   *)
(* itself or by finalize(), is told so.                                    *)
ConsumersEnd ==
  \A s \in Subs : consumers = 1 /\ s \in closed \cup closing ~> waiting[s] = 0
=============================================================================
