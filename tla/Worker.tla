-------------------------------- MODULE Worker --------------------------------
(***************************************************************************)
(* The queue workers: activities.worker.service.ts, which writes activity  *)
(* rows, and notification.worker.service.ts, which sends mails.  They are  *)
(* the same program but for the work and for MAX_JOB_RETRIES.              *)
(*                                                                         *)
(* A message is in one place: unsent, ready in the main queue, delayed in  *)
(* a retry queue, unacked on the channel of a worker, or gone.  A handler  *)
(* is an async function: it goes on running when its channel is lost, and  *)
(* then acks through channelWrapper on whatever channel there is by then.  *)
(***************************************************************************)
EXTENDS Integers, FiniteSets

CONSTANTS
    Messages,     \* jobs the API publishes
    Workers,      \* worker processes, each with one channel (prefetch 1)
    MaxRetries,   \* MAX_JOB_RETRIES: 1 for activities, 2 for notifications
    MaxAttempts,  \* bound: failures of the work on one message
    MaxFaults,    \* bound: lost connections and crashes
    None          \* no delivery

ASSUME BoundsAssumption ==
    MaxRetries \in Nat /\ MaxAttempts \in Nat /\ MaxFaults \in Nat
ASSUME NoneAssumption == None \notin Messages

VARIABLES
    place,     \* where each message is
    tries,     \* the x-retry-count header of each message, 0 without one
    channel,   \* open; down, its connection lost; or dead, after a channel error
    unacked,   \* the delivery each channel has outstanding
    handler,   \* the handlers started on the present channel of each worker
    stale,     \* how many handlers of each message, started on former ones, are where
    rows,      \* how often the work on each message was done
    attempts,  \* how often it failed
    faults     \* lost connections and crashes so far

vars == <<place, tries, channel, unacked, handler, stale, rows, attempts, faults>>

Quiet  == [m \in Messages |-> "none"]
NoneOf == [m \in Messages |-> [running |-> 0, done |-> 0]]

Init ==
    /\ place = [m \in Messages |-> "unsent"]
    /\ tries = [m \in Messages |-> 0]
    /\ channel = [w \in Workers |-> "open"]
    /\ unacked = [w \in Workers |-> None]
    /\ handler = [w \in Workers |-> Quiet]
    /\ stale = [w \in Workers |-> NoneOf]
    /\ rows = [m \in Messages |-> 0]
    /\ attempts = [m \in Messages |-> 0]
    /\ faults = 0

-----------------------------------------------------------------------------
(* The broker. *)

\* Mutant: a message without a confirm is published once more.
PublishTwice(m) ==
    /\ place[m] \in {"unsent", "gone"}
    /\ place' = [place EXCEPT ![m] = "ready"]
    /\ UNCHANGED <<tries, channel, unacked, handler, stale, rows, attempts, faults>>

\* publishMessage: a persistent message in a durable queue.
Publish(m) ==
    /\ place[m] = "unsent"
    /\ place' = [place EXCEPT ![m] = "ready"]
    /\ UNCHANGED <<tries, channel, unacked, handler, stale, rows, attempts, faults>>

\* The consume callback: prefetch(1) allows one unacked delivery.
Deliver(w, m) ==
    /\ channel[w] = "open"
    /\ unacked[w] = None
    /\ place[m] = "ready"
    /\ place' = [place EXCEPT ![m] = "unacked"]
    /\ unacked' = [unacked EXCEPT ![w] = m]
    /\ handler' = [handler EXCEPT ![w][m] = "running"]
    /\ UNCHANGED <<tries, channel, stale, rows, attempts, faults>>

\* messageTtl of a retry queue: dead-lettered back to the main queue.
Expire(m) ==
    /\ place[m] = "delayed"
    /\ place' = [place EXCEPT ![m] = "ready"]
    /\ UNCHANGED <<tries, channel, unacked, handler, stale, rows, attempts, faults>>

\* Deliveries outstanding on the channel of w go back to the queue.
Requeue(w) ==
    /\ place' = [m \in Messages |-> IF m = unacked[w] THEN "ready" ELSE place[m]]
    /\ unacked' = [unacked EXCEPT ![w] = None]

\* The process of w dies and is started again: its handlers are gone, also those
\* that have rejected a message they were about to publish again.
Restart(w) ==
    /\ channel' = [channel EXCEPT ![w] = "down"]
    /\ Requeue(w)
    /\ handler' = [handler EXCEPT ![w] = Quiet]
    /\ stale' = [stale EXCEPT ![w] = NoneOf]

\* The handlers of a message on former channels, with that of the present one.
Joined(former, state) ==
    IF state \in {"running", "done"} THEN [former EXCEPT ![state] = @ + 1] ELSE former

\* The channel of w closes while the handlers in present run on it and those in
\* former on none.  A handler in retryMessage awaits a reply on that channel:
\* its rejection is handled by nobody and ends the process.
LoseChannel(w, how, present, former) ==
    IF \E m \in Messages : present[m] = "retrying"
    THEN Restart(w)
    ELSE /\ channel' = [channel EXCEPT ![w] = how]
         /\ Requeue(w)
         /\ handler' = [handler EXCEPT ![w] = Quiet]
         /\ stale' = [stale EXCEPT ![w] =
               [m \in Messages |-> Joined(former[m], present[m])]]

-----------------------------------------------------------------------------
(* Handlers on the present channel. *)

\* logActivity or sendMail returns.
Succeed(w, m) ==
    /\ handler[w][m] = "running"
    /\ handler' = [handler EXCEPT ![w][m] = "done"]
    /\ rows' = [rows EXCEPT ![m] = @ + 1]
    /\ UNCHANGED <<place, tries, channel, unacked, stale, attempts, faults>>

\* Mutant: the ack is sent before the work is done.
AckFirst(w, m) ==
    /\ handler[w][m] = "running"
    /\ unacked[w] = m
    /\ place' = [place EXCEPT ![m] = "gone"]
    /\ unacked' = [unacked EXCEPT ![w] = None]
    /\ UNCHANGED <<handler, channel, stale, tries, rows, attempts, faults>>

\* channelWrapper.ack.  When the delivery has been acked by a stale handler the
\* tag is unknown, and the broker closes the channel.
Ack(w, m) ==
    /\ handler[w][m] = "done"
    /\ IF unacked[w] = m
       THEN /\ place' = [place EXCEPT ![m] = "gone"]
            /\ unacked' = [unacked EXCEPT ![w] = None]
            /\ handler' = [handler EXCEPT ![w][m] = "none"]
            /\ UNCHANGED <<channel, stale>>
       ELSE LoseChannel(w, "dead", [handler[w] EXCEPT ![m] = "none"], stale[w])
    /\ UNCHANGED <<tries, rows, attempts, faults>>

\* Mutant: reject(msg, true), so the broker requeues what is retried as well.
RejectAndRequeue(w, m) ==
    /\ handler[w][m] = "running"
    /\ unacked[w] = m
    /\ attempts[m] < MaxAttempts
    /\ attempts' = [attempts EXCEPT ![m] = @ + 1]
    /\ place' = [place EXCEPT ![m] = "ready"]
    /\ unacked' = [unacked EXCEPT ![w] = None]
    /\ handler' = [handler EXCEPT ![w][m] = "retrying"]
    /\ UNCHANGED <<tries, channel, stale, rows, faults>>

\* Mutant: no reject at all, so the delivery stays outstanding on the channel.
RejectForgotten(w, m) ==
    /\ handler[w][m] = "running"
    /\ unacked[w] = m
    /\ attempts[m] < MaxAttempts
    /\ attempts' = [attempts EXCEPT ![m] = @ + 1]
    /\ handler' = [handler EXCEPT ![w][m] = "retrying"]
    /\ UNCHANGED <<place, tries, channel, unacked, stale, rows, faults>>

\* The work throws: channel.reject(msg, false) discards the delivery (no
\* dead-letter exchange is set on the main queue); the retry is still to come.
Reject(w, m) ==
    /\ handler[w][m] = "running"
    /\ unacked[w] = m
    /\ attempts[m] < MaxAttempts
    /\ attempts' = [attempts EXCEPT ![m] = @ + 1]
    /\ place' = [place EXCEPT ![m] = "gone"]
    /\ unacked' = [unacked EXCEPT ![w] = None]
    /\ handler' = [handler EXCEPT ![w][m] = "retrying"]
    /\ UNCHANGED <<tries, channel, stale, rows, faults>>

\* Mutant: the count is compared before it is incremented.
RetryOnceTooOften(w, m) ==
    /\ handler[w][m] = "retrying"
    /\ IF tries[m] > MaxRetries
       THEN /\ place' = [place EXCEPT ![m] = "ready"]
            /\ tries' = [tries EXCEPT ![m] = 0]
       ELSE /\ place' = [place EXCEPT ![m] = "delayed"]
            /\ tries' = [tries EXCEPT ![m] = @ + 1]
    /\ handler' = [handler EXCEPT ![w][m] = "none"]
    /\ UNCHANGED <<channel, unacked, stale, rows, attempts, faults>>

\* retryMessage, after its awaits: to the retry queue of the next count, or,
\* with the retries exhausted, to the main queue without the header.
RetryMessage(w, m) ==
    /\ handler[w][m] = "retrying"
    /\ IF tries[m] + 1 > MaxRetries
       THEN /\ place' = [place EXCEPT ![m] = "ready"]
            /\ tries' = [tries EXCEPT ![m] = 0]
       ELSE /\ place' = [place EXCEPT ![m] = "delayed"]
            /\ tries' = [tries EXCEPT ![m] = @ + 1]
    /\ handler' = [handler EXCEPT ![w][m] = "none"]
    /\ UNCHANGED <<channel, unacked, stale, rows, attempts, faults>>

-----------------------------------------------------------------------------
(* Faults, and handlers that outlive their channel. *)

Crash(w) ==
    /\ faults < MaxFaults
    /\ faults' = faults + 1
    /\ Restart(w)
    /\ UNCHANGED <<tries, rows, attempts>>

Disconnect(w) ==
    /\ faults < MaxFaults
    /\ faults' = faults + 1
    /\ LoseChannel(w, "down", handler[w], stale[w])
    /\ UNCHANGED <<tries, rows, attempts>>

\* amqp-connection-manager connects again and calls setupChannel.  It does so for
\* a lost connection, not for a channel the broker has closed.
Reconnect(w) ==
    /\ channel[w] = "down"
    /\ channel' = [channel EXCEPT ![w] = "open"]
    /\ UNCHANGED <<place, tries, unacked, handler, stale, rows, attempts, faults>>

StaleSucceed(w, m) ==
    /\ stale[w][m].running > 0
    /\ stale' = [stale EXCEPT ![w][m] = [running |-> @.running - 1, done |-> @.done + 1]]
    /\ rows' = [rows EXCEPT ![m] = @ + 1]
    /\ UNCHANGED <<place, tries, channel, unacked, handler, attempts, faults>>

\* The ack of a stale handler, on the present channel: without one, nothing; the
\* tag may be that of the delivery outstanding there, which is then taken for
\* done; an unknown tag closes the channel.
StaleAck(w, m) ==
    /\ stale[w][m].done > 0
    /\ \/ /\ channel[w] # "open"
          /\ stale' = [stale EXCEPT ![w][m].done = @ - 1]
          /\ UNCHANGED <<place, channel, unacked, handler>>
       \/ /\ channel[w] = "open"
          /\ unacked[w] # None
          /\ place' = [place EXCEPT ![unacked[w]] = "gone"]
          /\ unacked' = [unacked EXCEPT ![w] = None]
          /\ stale' = [stale EXCEPT ![w][m].done = @ - 1]
          /\ UNCHANGED <<channel, handler>>
       \/ /\ channel[w] = "open"
          /\ LoseChannel(w, "dead", handler[w], [stale[w] EXCEPT ![m].done = @ - 1])
    /\ UNCHANGED <<tries, rows, attempts, faults>>

\* reject throws on a closed channel, and on the present one when the delivery
\* has been acked for it: an unhandled rejection, so the process ends.
HopelessReject(w, m) ==
    /\ \/ stale[w][m].running > 0
       \/ handler[w][m] = "running" /\ unacked[w] # m
    /\ attempts[m] < MaxAttempts
    /\ attempts' = [attempts EXCEPT ![m] = @ + 1]
    /\ Restart(w)
    /\ UNCHANGED <<tries, rows, faults>>

-----------------------------------------------------------------------------

\* Nothing to do, or nobody left to do it: a dead channel stays dead until its
\* connection is lost.
Rest ==
    /\ \/ \A m \in Messages : place[m] = "gone"
       \/ \A w \in Workers : channel[w] = "dead"
    /\ UNCHANGED vars

BrokerStep == \E m \in Messages : Publish(m) \/ Expire(m)
HandlerStep(w) == \E m \in Messages :
    Deliver(w, m) \/ Succeed(w, m) \/ Ack(w, m) \/ RetryMessage(w, m)
        \/ StaleSucceed(w, m) \/ StaleAck(w, m)

Next ==
    \/ BrokerStep
    \/ \E w \in Workers :
          \/ HandlerStep(w) \/ Reconnect(w) \/ Crash(w) \/ Disconnect(w)
          \/ \E m \in Messages : Reject(w, m) \/ HopelessReject(w, m)
    \/ Rest

\* The broker delivers and expires, the event loop runs every handler on, and a
\* lost connection is made again.
Fairness ==
    /\ \A m \in Messages : WF_vars(Publish(m)) /\ WF_vars(Expire(m))
    /\ \A w \in Workers : WF_vars(HandlerStep(w)) /\ WF_vars(Reconnect(w))

Safety == Init /\ [][Next]_vars
Spec   == Safety /\ Fairness

-----------------------------------------------------------------------------
(* Properties. *)

Places   == {"unsent", "ready", "delayed", "unacked", "gone"}
Handlers == {"none", "running", "done", "retrying"}

TypeOK ==
    /\ place \in [Messages -> Places]
    /\ tries \in [Messages -> 0 .. MaxRetries]
    /\ channel \in [Workers -> {"open", "down", "dead"}]
    /\ unacked \in [Workers -> Messages \cup {None}]
    /\ handler \in [Workers -> [Messages -> Handlers]]
    /\ stale \in [Workers -> [Messages -> [running : Nat, done : Nat]]]
    /\ rows \in [Messages -> Nat]
    /\ attempts \in [Messages -> 0 .. MaxAttempts]
    /\ faults \in 0 .. MaxFaults

\* While nothing fails but the work itself, each message is worked on to the end
\* once, however often it is rejected and published again in between.
ExactlyOnceWithoutFaults ==
    faults = 0 =>
        \A m \in Messages :
            /\ rows[m] <= 1
            /\ place[m] = "gone" =>
                  rows[m] = 1 \/ \E w \in Workers : handler[w][m] = "retrying"

\* A message waits in a queue or on one channel, and no other channel, or
\* handler about to publish it again, can bring up a second copy of it.
OneCopy ==
    \A m \in Messages :
        /\ Cardinality({w \in Workers : unacked[w] = m})
             = IF place[m] = "unacked" THEN 1 ELSE 0
        /\ Cardinality({w \in Workers : handler[w][m] = "retrying"})
             <= IF place[m] = "gone" THEN 1 ELSE 0

\* A fault repeats the work on a message at most twice: the handler it cuts off
\* runs on, and its late ack can take a second handler off its channel.
FewRepeats == \A m \in Messages : rows[m] <= 1 + 2 * faults

\* A message is off: in no queue, on no channel, and in the hands of no handler that has
\* rejected it and is about to publish it again.
Off(m) == place[m] = "gone" /\ \A w \in Workers : handler[w][m] # "retrying"

\* However often it is rejected and published again, and whatever channels are lost, every
\* message is off for good in the end (its work done, or the message lost with the process
\* that was to publish it again), unless channel errors have left no worker that listens.
EveryMessageLeaves ==
    \A m \in Messages : <>[](Off(m) \/ \A w \in Workers : channel[w] = "dead")

\* What 'Exhausted max retries' says: a message whose retries are exhausted is
\* not tried again.
RetriesAreExhausted == faults = 0 => \A m \in Messages : attempts[m] <= 1 + MaxRetries

=============================================================================
