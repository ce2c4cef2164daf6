----------------------------- MODULE WorkerProofs -----------------------------
(***************************************************************************)
(* What holds of Worker for any messages, workers, retries, failures and   *)
(* faults.  The invariant says whose delivery a message is and who is      *)
(* about to publish it again; without faults, also how far its work is;    *)
(* with them, what they have cost and may still cost.                      *)
(***************************************************************************)
EXTENDS Worker, FiniteSetTheorems, TLAPS

-----------------------------------------------------------------------------
(* The inductive invariant. *)

\* A message is unacked on one channel exactly when its place says so.
OneHolder ==
    \A m \in Messages :
        /\ \A w \in Workers : unacked[w] = m => place[m] = "unacked"
        /\ place[m] = "unacked" => \E w \in Workers : unacked[w] = m
        /\ \A v, w \in Workers : unacked[v] = m /\ unacked[w] = m => v = w

\* One handler at most is about to publish a message again, which is nowhere then.
OneRetry ==
    \A m \in Messages :
        /\ \A w \in Workers : handler[w][m] = "retrying" => place[m] = "gone"
        /\ \A v, w \in Workers : handler[v][m] = "retrying" /\ handler[w][m] = "retrying" => v = w

\* Without faults no handler outlives its channel, and the rows tell what is done.
Channels ==
    \A w \in Workers, m \in Messages :
        /\ stale[w][m] = NoneOf[m]
        /\ handler[w][m] \in {"running", "done"} => unacked[w] = m

Work ==
    \A m \in Messages :
        /\ rows[m] \in {0, 1}
        /\ place[m] \in {"unsent", "ready", "delayed"} => rows[m] = 0
        /\ place[m] = "gone" => rows[m] = 1 \/ \E w \in Workers : handler[w][m] = "retrying"
        /\ \A w \in Workers : handler[w][m] \in {"running", "retrying"} => rows[m] = 0
        /\ \A w \in Workers : handler[w][m] = "done" => rows[m] = 1

Undisturbed == faults = 0 => Channels /\ Work

IInv == TypeOK /\ OneHolder /\ OneRetry /\ Undisturbed

-----------------------------------------------------------------------------
(* The loss of a channel, with the process or without it. *)

\* What Restart and LoseChannel have in common.  At most the running handlers of the
\* channel join those that run on without one.
Cut(w) ==
    /\ channel' \in [Workers -> {"open", "down", "dead"}] /\ channel'[w] # "open"
    /\ Requeue(w)
    /\ handler' = [handler EXCEPT ![w] = Quiet]
    /\ stale' \in [Workers -> [Messages -> [running : Nat, done : Nat]]]
    /\ \A v \in Workers : v # w => channel'[v] = channel[v] /\ stale'[v] = stale[v]
    /\ \A m \in Messages :
          stale'[w][m].running <= stale[w][m].running + IF handler[w][m] = "running" THEN 1 ELSE 0

LEMMA RestartCuts ==
    ASSUME TypeOK, NEW w \in Workers, Restart(w)
    PROVE  Cut(w)
<1>1. NoneOf \in [Messages -> [running : Nat, done : Nat]] /\ \A m \in Messages : NoneOf[m].running = 0
  BY DEF NoneOf
<1>2. \A m \in Messages : stale[w][m].running \in Nat
  BY DEF TypeOK
<1>. QED
  BY <1>1, <1>2 DEF TypeOK, Restart, Cut

\* A handler that outlives its channel is one more of its message.
LEMMA JoinedTyped ==
    ASSUME NEW former \in [running : Nat, done : Nat], NEW state
    PROVE  /\ Joined(former, state) \in [running : Nat, done : Nat]
           /\ Joined(former, state).running = former.running + IF state = "running" THEN 1 ELSE 0
BY DEF Joined

LEMMA LossCuts ==
    ASSUME TypeOK, NEW w \in Workers, NEW how \in {"down", "dead"},
           NEW present \in [Messages -> Handlers],
           NEW former \in [Messages -> [running : Nat, done : Nat]],
           \A m \in Messages : /\ present[m] \in {handler[w][m], "none"}
                               /\ former[m].running = stale[w][m].running,
           LoseChannel(w, how, present, former)
    PROVE  Cut(w)
<1>1. CASE \E m \in Messages : present[m] = "retrying"
  BY <1>1, RestartCuts DEF LoseChannel
<1>2. CASE \A m \in Messages : present[m] # "retrying"
  <2>. DEFINE left == [m \in Messages |-> Joined(former[m], present[m])]
  <2>1. /\ left \in [Messages -> [running : Nat, done : Nat]]
        /\ \A m \in Messages :
              left[m].running <= stale[w][m].running + IF handler[w][m] = "running" THEN 1 ELSE 0
    <3>. SUFFICES ASSUME NEW m \in Messages
                  PROVE  /\ Joined(former[m], present[m]) \in [running : Nat, done : Nat]
                         /\ Joined(former[m], present[m]).running <=
                               stale[w][m].running + IF handler[w][m] = "running" THEN 1 ELSE 0
      OBVIOUS
    <3>. QED
      BY JoinedTyped DEF TypeOK
  <2>. HIDE DEF left
  <2>2. /\ channel' = [channel EXCEPT ![w] = how] /\ Requeue(w)
        /\ handler' = [handler EXCEPT ![w] = Quiet] /\ stale' = [stale EXCEPT ![w] = left]
    BY <1>2 DEF LoseChannel, left
  <2>3. /\ stale' \in [Workers -> [Messages -> [running : Nat, done : Nat]]] /\ stale'[w] = left
        /\ \A v \in Workers : v # w => stale'[v] = stale[v]
    BY <2>1, <2>2 DEF TypeOK
  <2>4. /\ channel' \in [Workers -> {"open", "down", "dead"}] /\ channel'[w] # "open"
        /\ \A v \in Workers : v # w => channel'[v] = channel[v]
    BY <2>2 DEF TypeOK
  <2>. QED
    BY <2>1, <2>2, <2>3, <2>4 DEF Cut
<1>. QED
  BY <1>1, <1>2

LEMMA AckCuts ==
    ASSUME TypeOK, NEW w \in Workers, NEW m \in Messages,
           LoseChannel(w, "dead", [handler[w] EXCEPT ![m] = "none"], stale[w])
    PROVE  Cut(w)
<1>. DEFINE present == [handler[w] EXCEPT ![m] = "none"]
<1>1. /\ present \in [Messages -> Handlers]
      /\ \A n \in Messages : present[n] \in {handler[w][n], "none"}
      /\ stale[w] \in [Messages -> [running : Nat, done : Nat]]
  BY DEF TypeOK, Handlers
<1>. HIDE DEF present
<1>. QED
  BY <1>1, LossCuts DEF present

\* One handler of m that outlived its channel is over.
LEMMA OneLess ==
    ASSUME TypeOK, NEW w \in Workers, NEW m \in Messages, stale[w][m].done > 0
    PROVE  /\ [stale[w] EXCEPT ![m].done = @ - 1] \in [Messages -> [running : Nat, done : Nat]]
           /\ \A n \in Messages :
                 [stale[w] EXCEPT ![m].done = @ - 1][n].running = stale[w][n].running
<1>1. /\ stale[w] \in [Messages -> [running : Nat, done : Nat]]
      /\ stale[w][m].done \in Nat /\ stale[w][m].done - 1 \in Nat
  BY DEF TypeOK
<1>. QED
  BY <1>1

LEMMA StaleAckCuts ==
    ASSUME TypeOK, NEW w \in Workers, NEW m \in Messages, stale[w][m].done > 0,
           LoseChannel(w, "dead", handler[w], [stale[w] EXCEPT ![m].done = @ - 1])
    PROVE  Cut(w)
<1>. DEFINE former == [stale[w] EXCEPT ![m].done = @ - 1]
<1>1. /\ former \in [Messages -> [running : Nat, done : Nat]]
      /\ \A n \in Messages : former[n].running = stale[w][n].running
  BY OneLess
<1>. HIDE DEF former
<1>2. handler[w] \in [Messages -> Handlers]
  BY DEF TypeOK
<1>. QED
  BY <1>1, <1>2, LossCuts DEF former

LEMMA CutTyped ==
    ASSUME TypeOK, NEW w \in Workers, Cut(w),
           UNCHANGED <<tries, rows>>, attempts' \in [Messages -> 0 .. MaxAttempts],
           faults' \in 0 .. MaxFaults
    PROVE  TypeOK'
<1>1. /\ place' \in [Messages -> Places]
      /\ unacked' \in [Workers -> Messages \cup {None}]
  BY DEF TypeOK, Cut, Requeue, Places
<1>2. handler' \in [Workers -> [Messages -> Handlers]]
  BY DEF TypeOK, Cut, Quiet, Handlers
<1>. QED
  BY <1>1, <1>2 DEF TypeOK, Cut

\* The delivery goes back to the queue, and no handler on the channel retries it.
LEMMA CutKeepsOne ==
    ASSUME TypeOK, OneHolder, OneRetry, NEW w \in Workers, Cut(w)
    PROVE  OneHolder' /\ OneRetry'
<1>1. /\ unacked' = [unacked EXCEPT ![w] = None]
      /\ place' = [m \in Messages |-> IF m = unacked[w] THEN "ready" ELSE place[m]]
  BY DEF Cut, Requeue
<1>2. ASSUME NEW v \in Workers, NEW m \in Messages, handler'[v][m] = "retrying"
      PROVE  handler[v][m] = "retrying"
  BY <1>2 DEF TypeOK, Cut, Quiet
<1>3. OneHolder'
  BY <1>1, NoneAssumption DEF TypeOK, OneHolder
<1>4. OneRetry'
  <2>1. ASSUME NEW v \in Workers, NEW m \in Messages, handler'[v][m] = "retrying"
        PROVE  place'[m] = "gone"
    <3>1. place[m] = "gone"
      BY <1>2, <2>1 DEF OneRetry
    <3>2. m # unacked[w]
      BY <3>1 DEF OneHolder
    <3>. QED
      BY <1>1, <3>1, <3>2
  <2>. QED
    BY <1>2, <2>1 DEF OneRetry
<1>. QED
  BY <1>3, <1>4

-----------------------------------------------------------------------------
(* Type correctness. *)

LEMMA Typed ==
    ASSUME TypeOK, [Next]_vars
    PROVE  TypeOK'
<1>. USE BoundsAssumption
<1>1. CASE UNCHANGED vars
  BY <1>1 DEF TypeOK, vars
<1>2. ASSUME NEW m \in Messages, Publish(m) \/ Expire(m)
      PROVE  TypeOK'
  BY <1>2 DEF TypeOK, Publish, Expire, Places
<1>3. ASSUME NEW w \in Workers, NEW m \in Messages, Deliver(w, m)
      PROVE  TypeOK'
  BY <1>3 DEF TypeOK, Deliver, Places, Handlers
<1>4. ASSUME NEW w \in Workers, NEW m \in Messages, Succeed(w, m)
      PROVE  TypeOK'
  BY <1>4 DEF TypeOK, Succeed, Handlers
<1>5. ASSUME NEW w \in Workers, NEW m \in Messages, Ack(w, m)
      PROVE  TypeOK'
  <2>1. CASE unacked[w] = m
    <3>1. /\ place' = [place EXCEPT ![m] = "gone"]
          /\ unacked' = [unacked EXCEPT ![w] = None]
          /\ handler' = [handler EXCEPT ![w][m] = "none"]
          /\ UNCHANGED <<channel, stale, tries, rows, attempts, faults>>
      BY <1>5, <2>1 DEF Ack
    <3>2. handler' \in [Workers -> [Messages -> Handlers]]
      BY <3>1 DEF TypeOK, Handlers
    <3>. QED
      BY <3>1, <3>2 DEF TypeOK, Places
  <2>2. CASE unacked[w] # m
    <3>1. LoseChannel(w, "dead", [handler[w] EXCEPT ![m] = "none"], stale[w])
      BY <1>5, <2>2 DEF Ack
    <3>3. Cut(w)
      BY <3>1, AckCuts
    <3>4. UNCHANGED <<tries, rows, attempts, faults>>
      BY <1>5 DEF Ack
    <3>. QED
      BY <3>3, <3>4, CutTyped DEF TypeOK
  <2>. QED
    BY <2>1, <2>2
<1>6. ASSUME NEW w \in Workers, NEW m \in Messages, RetryMessage(w, m)
      PROVE  TypeOK'
  <2>1. /\ handler' = [handler EXCEPT ![w][m] = "none"]
        /\ UNCHANGED <<channel, unacked, stale, rows, attempts, faults>>
    BY <1>6 DEF RetryMessage
  <2>2. handler' \in [Workers -> [Messages -> Handlers]]
    BY <2>1 DEF TypeOK, Handlers
  <2>3. place' \in [Messages -> Places]
    BY <1>6 DEF TypeOK, RetryMessage, Places
  <2>4. tries' \in [Messages -> 0 .. MaxRetries]
    <3>1. \E n \in 0 .. MaxRetries : tries' = [tries EXCEPT ![m] = n]
      BY <1>6 DEF TypeOK, RetryMessage
    <3>. QED
      BY <3>1 DEF TypeOK
  <2>. QED
    BY <2>1, <2>2, <2>3, <2>4 DEF TypeOK
<1>7. ASSUME NEW w \in Workers, NEW m \in Messages, Reject(w, m)
      PROVE  TypeOK'
  BY <1>7 DEF TypeOK, Reject, Places, Handlers
<1>8. ASSUME NEW w \in Workers, NEW m \in Messages, StaleSucceed(w, m)
      PROVE  TypeOK'
  BY <1>8 DEF TypeOK, StaleSucceed, Handlers
<1>9. ASSUME NEW w \in Workers, NEW m \in Messages, StaleAck(w, m)
      PROVE  TypeOK'
  <2>2. CASE LoseChannel(w, "dead", handler[w], [stale[w] EXCEPT ![m].done = @ - 1])
    <3>1. Cut(w)
      BY <1>9, <2>2, StaleAckCuts DEF StaleAck
    <3>. QED
      BY <1>9, <3>1, CutTyped DEF StaleAck, TypeOK
  <2>3. CASE channel[w] # "open" /\ stale' = [stale EXCEPT ![w][m].done = @ - 1]
             /\ UNCHANGED <<place, channel, unacked, handler>>
    <3>1. stale' \in [Workers -> [Messages -> [running : Nat, done : Nat]]]
      BY <1>9, <2>3, OneLess DEF StaleAck, TypeOK
    <3>. QED
      BY <1>9, <2>3, <3>1 DEF StaleAck, TypeOK
  <2>4. CASE /\ unacked[w] # None
             /\ place' = [place EXCEPT ![unacked[w]] = "gone"]
             /\ unacked' = [unacked EXCEPT ![w] = None]
             /\ stale' = [stale EXCEPT ![w][m].done = @ - 1]
             /\ UNCHANGED <<channel, handler>>
    <3>1. stale' \in [Workers -> [Messages -> [running : Nat, done : Nat]]]
      BY <1>9, <2>4, OneLess DEF StaleAck, TypeOK
    <3>. QED
      BY <1>9, <2>4, <3>1 DEF StaleAck, TypeOK, Places
  <2>. QED
    BY <1>9, <2>2, <2>3, <2>4 DEF StaleAck
<1>10. ASSUME NEW w \in Workers, Reconnect(w)
       PROVE  TypeOK'
  BY <1>10 DEF TypeOK, Reconnect
<1>11. ASSUME NEW w \in Workers, Crash(w)
       PROVE  TypeOK'
  BY <1>11, RestartCuts, CutTyped DEF TypeOK, Crash
<1>12. ASSUME NEW w \in Workers, Disconnect(w)
       PROVE  TypeOK'
  <2>1. Cut(w)
    BY <1>12, LossCuts DEF Disconnect, TypeOK
  <2>. QED
    BY <1>12, <2>1, CutTyped DEF TypeOK, Disconnect
<1>13. ASSUME NEW w \in Workers, NEW m \in Messages, HopelessReject(w, m)
       PROVE  TypeOK'
  BY <1>13, RestartCuts, CutTyped DEF TypeOK, HopelessReject
<1>. QED
  BY <1>1, <1>2, <1>3, <1>4, <1>5, <1>6, <1>7, <1>8, <1>9, <1>10, <1>11, <1>12, <1>13
     DEF Next, BrokerStep, HandlerStep, Rest

-----------------------------------------------------------------------------
(* One copy of each message. *)

LEMMA StepKeepsOne ==
    ASSUME TypeOK, OneHolder, OneRetry, [Next]_vars
    PROVE  OneHolder' /\ OneRetry'
<1>. USE NoneAssumption
<1>1. CASE UNCHANGED vars
  BY <1>1 DEF OneHolder, OneRetry, vars
<1>2. ASSUME NEW m \in Messages, Publish(m) \/ Expire(m)
      PROVE  OneHolder' /\ OneRetry'
  BY <1>2 DEF TypeOK, OneHolder, OneRetry, Publish, Expire
<1>3. ASSUME NEW w \in Workers, NEW m \in Messages, Deliver(w, m)
      PROVE  OneHolder' /\ OneRetry'
  <2>1. OneHolder'
    BY <1>3 DEF TypeOK, OneHolder, Deliver
  <2>2. OneRetry'
    <3>1. \A v \in Workers, n \in Messages :
              handler'[v][n] = "retrying" => handler[v][n] = "retrying" /\ n # m
      BY <1>3 DEF TypeOK, OneRetry, Deliver
    <3>2. \A n \in Messages : n # m => place'[n] = place[n]
      BY <1>3 DEF TypeOK, Deliver
    <3>. QED
      BY <3>1, <3>2 DEF OneRetry
  <2>. QED
    BY <2>1, <2>2
<1>4. ASSUME NEW w \in Workers, NEW m \in Messages, Succeed(w, m)
      PROVE  OneHolder' /\ OneRetry'
  <2>1. \A v \in Workers, n \in Messages :
            handler'[v][n] = "retrying" => handler[v][n] = "retrying"
    BY <1>4 DEF TypeOK, Succeed
  <2>. QED
    BY <1>4, <2>1 DEF OneHolder, OneRetry, Succeed
<1>5. ASSUME NEW w \in Workers, NEW m \in Messages, Ack(w, m)
      PROVE  OneHolder' /\ OneRetry'
  <2>1. CASE unacked[w] = m
    <3>1. /\ place' = [place EXCEPT ![m] = "gone"]
          /\ unacked' = [unacked EXCEPT ![w] = None]
          /\ handler' = [handler EXCEPT ![w][m] = "none"]
      BY <1>5, <2>1 DEF Ack
    <3>2. OneHolder'
      BY <2>1, <3>1 DEF TypeOK, OneHolder
    <3>3. \A v \in Workers, n \in Messages :
              handler'[v][n] = "retrying" => handler[v][n] = "retrying"
      BY <3>1 DEF TypeOK
    <3>4. \A n \in Messages : place[n] = "gone" => place'[n] = "gone"
      BY <3>1 DEF TypeOK
    <3>. QED
      BY <3>2, <3>3, <3>4 DEF OneRetry
  <2>2. CASE unacked[w] # m
    <3>1. LoseChannel(w, "dead", [handler[w] EXCEPT ![m] = "none"], stale[w])
      BY <1>5, <2>2 DEF Ack
    <3>. QED
      BY <3>1, AckCuts, CutKeepsOne
  <2>. QED
    BY <2>1, <2>2
<1>6. ASSUME NEW w \in Workers, NEW m \in Messages, RetryMessage(w, m)
      PROVE  OneHolder' /\ OneRetry'
  <2>1. /\ handler[w][m] = "retrying"
        /\ handler' = [handler EXCEPT ![w][m] = "none"]
        /\ place'[m] \in {"ready", "delayed"}
        /\ \A n \in Messages : n # m => place'[n] = place[n]
        /\ UNCHANGED unacked
    BY <1>6 DEF TypeOK, RetryMessage
  <2>2. place[m] = "gone"
    BY <2>1 DEF OneRetry
  <2>3. OneHolder'
    BY <2>1, <2>2 DEF OneHolder
  <2>4. \A v \in Workers, n \in Messages :
            handler'[v][n] = "retrying" => handler[v][n] = "retrying" /\ n # m
    BY <2>1 DEF TypeOK, OneRetry
  <2>5. OneRetry'
    BY <2>1, <2>4 DEF OneRetry
  <2>. QED
    BY <2>3, <2>5
<1>7. ASSUME NEW w \in Workers, NEW m \in Messages, Reject(w, m)
      PROVE  OneHolder' /\ OneRetry'
  <2>1. /\ unacked[w] = m
        /\ place' = [place EXCEPT ![m] = "gone"]
        /\ unacked' = [unacked EXCEPT ![w] = None]
        /\ handler' = [handler EXCEPT ![w][m] = "retrying"]
    BY <1>7 DEF Reject
  <2>2. OneHolder'
    BY <2>1 DEF TypeOK, OneHolder
  <2>3. \A v \in Workers : handler[v][m] # "retrying"
    BY <2>1 DEF OneHolder, OneRetry
  <2>4. \A v \in Workers, n \in Messages :
            handler'[v][n] = "retrying" => (v = w /\ n = m) \/ (n # m /\ handler[v][n] = "retrying")
    BY <2>1, <2>3 DEF TypeOK
  <2>5. \A n \in Messages : place'[n] = IF n = m THEN "gone" ELSE place[n]
    BY <2>1 DEF TypeOK
  <2>6. OneRetry'
    BY <2>4, <2>5 DEF OneRetry
  <2>. QED
    BY <2>2, <2>6
<1>8. ASSUME NEW w \in Workers, NEW m \in Messages, StaleSucceed(w, m)
      PROVE  OneHolder' /\ OneRetry'
  BY <1>8 DEF OneHolder, OneRetry, StaleSucceed
<1>9. ASSUME NEW w \in Workers, NEW m \in Messages, StaleAck(w, m)
      PROVE  OneHolder' /\ OneRetry'
  <2>2. CASE LoseChannel(w, "dead", handler[w], [stale[w] EXCEPT ![m].done = @ - 1])
    BY <1>9, <2>2, StaleAckCuts, CutKeepsOne DEF StaleAck
  <2>3. CASE UNCHANGED <<place, channel, unacked, handler>>
    BY <2>3 DEF OneHolder, OneRetry
  <2>4. CASE /\ unacked[w] # None
             /\ place' = [place EXCEPT ![unacked[w]] = "gone"]
             /\ unacked' = [unacked EXCEPT ![w] = None]
             /\ UNCHANGED <<channel, handler>>
    BY <2>4 DEF TypeOK, OneHolder, OneRetry
  <2>. QED
    BY <1>9, <2>2, <2>3, <2>4 DEF StaleAck
<1>10. ASSUME NEW w \in Workers, Reconnect(w)
       PROVE  OneHolder' /\ OneRetry'
  BY <1>10 DEF OneHolder, OneRetry, Reconnect
<1>11. ASSUME NEW w \in Workers, Crash(w)
       PROVE  OneHolder' /\ OneRetry'
  BY <1>11, RestartCuts, CutKeepsOne DEF Crash
<1>12. ASSUME NEW w \in Workers, Disconnect(w)
       PROVE  OneHolder' /\ OneRetry'
  BY <1>12, LossCuts, CutKeepsOne DEF Disconnect, TypeOK
<1>13. ASSUME NEW w \in Workers, NEW m \in Messages, HopelessReject(w, m)
       PROVE  OneHolder' /\ OneRetry'
  BY <1>13, RestartCuts, CutKeepsOne DEF HopelessReject
<1>. QED
  BY <1>1, <1>2, <1>3, <1>4, <1>5, <1>6, <1>7, <1>8, <1>9, <1>10, <1>11, <1>12, <1>13
     DEF Next, BrokerStep, HandlerStep, Rest

-----------------------------------------------------------------------------
(* Work without faults. *)

LEMMA StepUndisturbed ==
    ASSUME TypeOK, OneHolder, OneRetry, Undisturbed, [Next]_vars
    PROVE  Undisturbed'
<1>. SUFFICES ASSUME faults' = 0
              PROVE  Channels' /\ Work'
  BY DEF Undisturbed
<1>. USE NoneAssumption
<1>1. ASSUME faults = 0
      PROVE  Channels /\ Work
  BY <1>1 DEF Undisturbed
<1>2. CASE UNCHANGED vars
  BY <1>1, <1>2 DEF Channels, Work, vars
<1>3. ASSUME NEW m \in Messages, Publish(m) \/ Expire(m)
      PROVE  Channels' /\ Work'
  <2>1. Channels /\ Work
    BY <1>1, <1>3 DEF Publish, Expire
  <2>. QED
    BY <1>3, <2>1 DEF TypeOK, Channels, Work, Publish, Expire
<1>4. ASSUME NEW w \in Workers, NEW m \in Messages, Deliver(w, m)
      PROVE  Channels' /\ Work'
  <2>1. /\ Channels /\ Work
        /\ UNCHANGED <<stale, rows>>
        /\ unacked[w] = None /\ unacked' = [unacked EXCEPT ![w] = m]
        /\ place[m] = "ready" /\ place' = [place EXCEPT ![m] = "unacked"]
        /\ handler' = [handler EXCEPT ![w][m] = "running"]
    BY <1>1, <1>4 DEF Deliver
  <2>2. \A v \in Workers, n \in Messages :
            handler'[v][n] = IF v = w /\ n = m THEN "running" ELSE handler[v][n]
    BY <2>1 DEF TypeOK
  <2>3. \A n \in Messages : handler[w][n] \notin {"running", "done"}
    BY <2>1 DEF Channels
  <2>4. Channels'
    BY <2>1, <2>2, <2>3 DEF TypeOK, Channels
  <2>5. \A v \in Workers : handler[v][m] \notin {"running", "done", "retrying"}
    BY <2>1 DEF Channels, OneHolder, OneRetry
  <2>6. \A n \in Messages : place'[n] = IF n = m THEN "unacked" ELSE place[n]
    BY <2>1 DEF TypeOK
  <2>7. Work'
    BY <2>1, <2>2, <2>5, <2>6 DEF Work
  <2>. QED
    BY <2>4, <2>7
<1>5. ASSUME NEW w \in Workers, NEW m \in Messages, Succeed(w, m)
      PROVE  Channels' /\ Work'
  <2>1. /\ Channels /\ Work
        /\ UNCHANGED <<place, unacked, stale>>
        /\ handler[w][m] = "running" /\ handler' = [handler EXCEPT ![w][m] = "done"]
        /\ rows' = [rows EXCEPT ![m] = @ + 1]
    BY <1>1, <1>5 DEF Succeed
  <2>2. \A v \in Workers, n \in Messages :
            handler'[v][n] = IF v = w /\ n = m THEN "done" ELSE handler[v][n]
    BY <2>1 DEF TypeOK
  <2>3. unacked[w] = m /\ place[m] = "unacked" /\ rows[m] = 0
    BY <2>1 DEF Channels, Work, OneHolder
  <2>4. \A v \in Workers : v # w => handler[v][m] \notin {"running", "done", "retrying"}
    BY <2>1, <2>3 DEF Channels, OneHolder, OneRetry
  <2>5. Channels'
    BY <2>1, <2>2, <2>3 DEF Channels
  <2>6. \A n \in Messages : rows'[n] = IF n = m THEN 1 ELSE rows[n]
    BY <2>1, <2>3 DEF TypeOK
  <2>7. Work'
    BY <2>1, <2>2, <2>3, <2>4, <2>6 DEF Work
  <2>. QED
    BY <2>5, <2>7
<1>6. ASSUME NEW w \in Workers, NEW m \in Messages, Ack(w, m)
      PROVE  Channels' /\ Work'
  <2>1. Channels /\ Work /\ handler[w][m] = "done" /\ UNCHANGED rows
    BY <1>1, <1>6 DEF Ack
  <2>2. unacked[w] = m
    BY <2>1 DEF Channels
  <2>3. /\ place' = [place EXCEPT ![m] = "gone"]
        /\ unacked' = [unacked EXCEPT ![w] = None]
        /\ handler' = [handler EXCEPT ![w][m] = "none"]
        /\ UNCHANGED stale
    BY <1>6, <2>2 DEF Ack
  <2>4. \A v \in Workers, n \in Messages :
            handler'[v][n] = IF v = w /\ n = m THEN "none" ELSE handler[v][n]
    BY <2>3 DEF TypeOK
  <2>5. \A n \in Messages : n # m => handler[w][n] \notin {"running", "done"}
    BY <2>1, <2>2 DEF Channels
  <2>6. Channels'
    BY <2>1, <2>3, <2>4, <2>5 DEF TypeOK, Channels
  <2>7. \A n \in Messages : place'[n] = IF n = m THEN "gone" ELSE place[n]
    BY <2>3 DEF TypeOK
  <2>8. rows[m] = 1
    BY <2>1 DEF Work
  <2>9. \A n \in Messages : n # m => \A v \in Workers : handler'[v][n] = handler[v][n]
    BY <2>4
  <2>10. Work'
    BY <2>1, <2>4, <2>7, <2>8, <2>9 DEF Work
  <2>. QED
    BY <2>6, <2>10
<1>7. ASSUME NEW w \in Workers, NEW m \in Messages, RetryMessage(w, m)
      PROVE  Channels' /\ Work'
  <2>1. /\ Channels /\ Work
        /\ handler[w][m] = "retrying"
        /\ handler' = [handler EXCEPT ![w][m] = "none"]
        /\ place'[m] \in {"ready", "delayed"}
        /\ \A n \in Messages : n # m => place'[n] = place[n]
        /\ UNCHANGED <<unacked, stale, rows>>
    BY <1>1, <1>7 DEF TypeOK, RetryMessage
  <2>2. \A v \in Workers, n \in Messages :
            handler'[v][n] = IF v = w /\ n = m THEN "none" ELSE handler[v][n]
    BY <2>1 DEF TypeOK
  <2>3. Channels'
    BY <2>1, <2>2 DEF Channels
  <2>4. \A n \in Messages : n # m => \A v \in Workers : handler'[v][n] = handler[v][n]
    BY <2>2
  <2>5. rows[m] = 0
    BY <2>1 DEF Work
  <2>6. Work'
    BY <2>1, <2>2, <2>4, <2>5 DEF Work
  <2>. QED
    BY <2>3, <2>6
<1>8. ASSUME NEW w \in Workers, NEW m \in Messages, Reject(w, m)
      PROVE  Channels' /\ Work'
  <2>1. /\ Channels /\ Work
        /\ handler[w][m] = "running" /\ unacked[w] = m
        /\ place' = [place EXCEPT ![m] = "gone"]
        /\ unacked' = [unacked EXCEPT ![w] = None]
        /\ handler' = [handler EXCEPT ![w][m] = "retrying"]
        /\ UNCHANGED <<stale, rows>>
    BY <1>1, <1>8 DEF Reject
  <2>2. \A v \in Workers, n \in Messages :
            handler'[v][n] = IF v = w /\ n = m THEN "retrying" ELSE handler[v][n]
    BY <2>1 DEF TypeOK
  <2>3. \A n \in Messages : n # m => handler[w][n] \notin {"running", "done"}
    BY <2>1 DEF Channels
  <2>4. Channels'
    BY <2>1, <2>2, <2>3 DEF TypeOK, Channels
  <2>5. \A n \in Messages : place'[n] = IF n = m THEN "gone" ELSE place[n]
    BY <2>1 DEF TypeOK
  <2>6. rows[m] = 0
    BY <2>1 DEF Work
  <2>7. \A n \in Messages : n # m => \A v \in Workers : handler'[v][n] = handler[v][n]
    BY <2>2
  <2>8. Work'
    BY <2>1, <2>2, <2>5, <2>6, <2>7 DEF Work
  <2>. QED
    BY <2>4, <2>8
<1>9. ASSUME NEW w \in Workers, NEW m \in Messages, StaleSucceed(w, m) \/ StaleAck(w, m)
      PROVE  FALSE
  BY <1>1, <1>9 DEF StaleSucceed, StaleAck, Channels, NoneOf
<1>10. ASSUME NEW w \in Workers, Reconnect(w)
       PROVE  Channels' /\ Work'
  BY <1>1, <1>10 DEF Channels, Work, Reconnect
<1>11. ASSUME NEW w \in Workers, Crash(w) \/ Disconnect(w)
       PROVE  FALSE
  BY <1>11 DEF Crash, Disconnect, TypeOK
<1>12. ASSUME NEW w \in Workers, NEW m \in Messages, HopelessReject(w, m)
       PROVE  FALSE
  BY <1>1, <1>12 DEF HopelessReject, Channels, NoneOf
<1>. QED
  BY <1>2, <1>3, <1>4, <1>5, <1>6, <1>7, <1>8, <1>9, <1>10, <1>11, <1>12
     DEF Next, BrokerStep, HandlerStep, Rest

-----------------------------------------------------------------------------
(* Where the handlers are. *)

\* A channel that is not open has nothing on it; a message has one handler on the
\* present channels, on that of its delivery unless a late ack has taken it off.
Handled ==
    /\ \A w \in Workers : channel[w] # "open" =>
          unacked[w] = None /\ \A m \in Messages : handler[w][m] = "none"
    /\ \A m \in Messages :
          /\ \A v, w \in Workers : handler[v][m] # "none" /\ handler[w][m] # "none" => v = w
          /\ \A w \in Workers :
                /\ unacked[w] = m => handler[w][m] \in {"running", "done"}
                /\ handler[w][m] # "none" => unacked[w] = m \/ place[m] = "gone"

LEMMA CutHandled ==
    ASSUME TypeOK, OneHolder, Handled, NEW w \in Workers, Cut(w)
    PROVE  Handled'
<1>. USE NoneAssumption
<1>1. /\ \A v \in Workers : v # w => channel'[v] = channel[v]
      /\ channel'[w] # "open"
      /\ unacked' = [unacked EXCEPT ![w] = None]
      /\ place' = [m \in Messages |-> IF m = unacked[w] THEN "ready" ELSE place[m]]
      /\ handler' = [handler EXCEPT ![w] = Quiet]
  BY DEF Cut, Requeue
<1>2. \A v \in Workers, m \in Messages :
         /\ handler'[v][m] = IF v = w THEN "none" ELSE handler[v][m]
         /\ unacked'[v] = IF v = w THEN None ELSE unacked[v]
  BY <1>1 DEF TypeOK, Quiet
<1>3. ASSUME NEW v \in Workers, channel'[v] # "open"
      PROVE  unacked'[v] = None /\ \A m \in Messages : handler'[v][m] = "none"
  BY <1>1, <1>2, <1>3 DEF TypeOK, Handled, Quiet
<1>4. ASSUME NEW m \in Messages, NEW v \in Workers, handler'[v][m] # "none"
      PROVE  unacked'[v] = m \/ place'[m] = "gone"
  <2>1. v # w /\ (unacked[v] = m \/ place[m] = "gone")
    BY <1>2, <1>4 DEF Handled
  <2>2. place[m] = "gone" => m # unacked[w]
    BY DEF OneHolder
  <2>. QED
    BY <1>1, <1>2, <2>1, <2>2
<1>. QED
  BY <1>2, <1>3, <1>4 DEF Handled

\* The handler of m goes on, or ends, and a delivery it has outstanding is gone.
LEMMA MovesHandled ==
    ASSUME TypeOK, OneHolder, Handled, NEW w \in Workers, NEW m \in Messages,
           NEW to \in {"none", "retrying"},
           handler[w][m] # "none", handler' = [handler EXCEPT ![w][m] = to],
           unacked' = [unacked EXCEPT ![w] = IF @ = m THEN None ELSE @],
           \A n \in Messages : n # m => place'[n] = place[n],
           to = "retrying" => place'[m] = "gone",
           UNCHANGED channel
    PROVE  Handled'
<1>. USE NoneAssumption
<1>1. \A v \in Workers, n \in Messages :
         /\ handler'[v][n] = IF v = w /\ n = m THEN to ELSE handler[v][n]
         /\ unacked'[v] = IF v = w /\ unacked[v] = m THEN None ELSE unacked[v]
  BY DEF TypeOK
<1>2. \A v \in Workers : v # w => handler[v][m] = "none" /\ unacked[v] # m
  BY DEF Handled
<1>3. \A v \in Workers : unacked'[v] # m
  BY <1>1, <1>2
<1>. QED
  BY <1>1, <1>2, <1>3 DEF Handled

LEMMA StepHandled ==
    ASSUME TypeOK, OneHolder, OneRetry, Handled, [Next]_vars
    PROVE  Handled'
<1>. USE NoneAssumption
<1>1. CASE UNCHANGED vars
  BY <1>1 DEF Handled, vars
<1>2. ASSUME NEW m \in Messages, Publish(m) \/ Expire(m)
      PROVE  Handled'
  BY <1>2 DEF TypeOK, Handled, Publish, Expire
<1>3. ASSUME NEW w \in Workers, NEW m \in Messages, Deliver(w, m)
      PROVE  Handled'
  <2>1. /\ channel[w] = "open" /\ unacked[w] = None /\ place[m] = "ready"
        /\ UNCHANGED channel
        /\ \A n \in Messages : place'[n] = IF n = m THEN "unacked" ELSE place[n]
        /\ \A v \in Workers : unacked'[v] = IF v = w THEN m ELSE unacked[v]
        /\ \A v \in Workers, n \in Messages :
              handler'[v][n] = IF v = w /\ n = m THEN "running" ELSE handler[v][n]
    BY <1>3 DEF TypeOK, Deliver
  <2>2. \A v \in Workers : handler[v][m] = "none"
    BY <2>1 DEF Handled, OneHolder
  <2>. QED
    BY <2>1, <2>2 DEF Handled
<1>4. ASSUME NEW w \in Workers, NEW m \in Messages, Succeed(w, m)
      PROVE  Handled'
  <2>1. \A v \in Workers, n \in Messages :
           handler'[v][n] = IF v = w /\ n = m THEN "done" ELSE handler[v][n]
    BY <1>4 DEF TypeOK, Succeed
  <2>. QED
    BY <1>4, <2>1 DEF Handled, Succeed
<1>5. ASSUME NEW w \in Workers, NEW m \in Messages, Ack(w, m)
      PROVE  Handled'
  <2>1. CASE unacked[w] = m
    <3>1. /\ handler[w][m] # "none" /\ handler' = [handler EXCEPT ![w][m] = "none"]
          /\ unacked' = [unacked EXCEPT ![w] = IF @ = m THEN None ELSE @]
          /\ \A n \in Messages : n # m => place'[n] = place[n]
          /\ UNCHANGED channel
      BY <1>5, <2>1 DEF Ack, TypeOK
    <3>. QED
      BY <3>1, MovesHandled
  <2>2. CASE unacked[w] # m
    <3>1. LoseChannel(w, "dead", [handler[w] EXCEPT ![m] = "none"], stale[w])
      BY <1>5, <2>2 DEF Ack
    <3>. QED
      BY <3>1, AckCuts, CutHandled
  <2>. QED
    BY <2>1, <2>2
<1>6. ASSUME NEW w \in Workers, NEW m \in Messages, RetryMessage(w, m)
      PROVE  Handled'
  <2>1. /\ handler[w][m] = "retrying" /\ place[m] = "gone"
        /\ handler' = [handler EXCEPT ![w][m] = "none"]
        /\ \A n \in Messages : n # m => place'[n] = place[n]
        /\ UNCHANGED <<channel, unacked>>
    BY <1>6 DEF TypeOK, OneRetry, RetryMessage
  <2>2. unacked[w] # m
    BY <2>1 DEF OneHolder
  <2>3. unacked' = [unacked EXCEPT ![w] = IF @ = m THEN None ELSE @]
    BY <2>1, <2>2 DEF TypeOK
  <2>. QED
    BY <2>1, <2>3, MovesHandled
<1>7. ASSUME NEW w \in Workers, NEW m \in Messages, Reject(w, m)
      PROVE  Handled'
  <2>1. /\ handler[w][m] = "running" /\ unacked[w] = m
        /\ handler' = [handler EXCEPT ![w][m] = "retrying"]
        /\ unacked' = [unacked EXCEPT ![w] = None]
        /\ \A n \in Messages : place'[n] = IF n = m THEN "gone" ELSE place[n]
        /\ UNCHANGED channel
    BY <1>7 DEF TypeOK, Reject
  <2>2. unacked' = [unacked EXCEPT ![w] = IF @ = m THEN None ELSE @]
    BY <2>1
  <2>. QED
    BY <2>1, <2>2, MovesHandled
<1>8. ASSUME NEW w \in Workers, NEW m \in Messages, StaleSucceed(w, m)
      PROVE  Handled'
  BY <1>8 DEF Handled, StaleSucceed
<1>9. ASSUME NEW w \in Workers, NEW m \in Messages, StaleAck(w, m)
      PROVE  Handled'
  <2>1. CASE LoseChannel(w, "dead", handler[w], [stale[w] EXCEPT ![m].done = @ - 1])
    BY <1>9, <2>1, StaleAckCuts, CutHandled DEF StaleAck
  <2>2. CASE UNCHANGED <<place, channel, unacked, handler>>
    BY <2>2 DEF Handled
  <2>3. CASE /\ unacked[w] # None
             /\ place' = [place EXCEPT ![unacked[w]] = "gone"]
             /\ unacked' = [unacked EXCEPT ![w] = None]
             /\ UNCHANGED <<channel, handler>>
    <3>1. /\ \A n \in Messages : place'[n] = IF n = unacked[w] THEN "gone" ELSE place[n]
          /\ \A v \in Workers : unacked'[v] = IF v = w THEN None ELSE unacked[v]
      BY <2>3 DEF TypeOK
    <3>. QED
      BY <2>3, <3>1 DEF Handled
  <2>. QED
    BY <1>9, <2>1, <2>2, <2>3 DEF StaleAck
<1>10. ASSUME NEW w \in Workers, Reconnect(w)
       PROVE  Handled'
  BY <1>10 DEF TypeOK, Handled, Reconnect
<1>11. ASSUME NEW w \in Workers, Crash(w)
       PROVE  Handled'
  BY <1>11, RestartCuts, CutHandled DEF Crash
<1>12. ASSUME NEW w \in Workers, Disconnect(w)
       PROVE  Handled'
  <2>1. Cut(w)
    BY <1>12, LossCuts DEF Disconnect, TypeOK
  <2>. QED
    BY <2>1, CutHandled
<1>13. ASSUME NEW w \in Workers, NEW m \in Messages, HopelessReject(w, m)
       PROVE  Handled'
  BY <1>13, RestartCuts, CutHandled DEF HopelessReject
<1>. QED
  BY <1>1, <1>2, <1>3, <1>4, <1>5, <1>6, <1>7, <1>8, <1>9, <1>10, <1>11, <1>12, <1>13
     DEF Next, BrokerStep, HandlerStep, Rest

-----------------------------------------------------------------------------
(* How often the work is repeated. *)

\* The work on a message is still to be done by a delivery or a retry of it, or is
\* being done on a present channel.
Pending(m) ==
    \/ place[m] \in {"unsent", "ready", "delayed"}
    \/ \E w \in Workers : handler[w][m] \in {"running", "retrying"}

\* The handlers of m that run on without their channel, numbered on each worker.
Leftover(m) == {p \in Workers \X (Nat \ {0}) : p[2] <= stale[p[1]][m].running}

\* How often the work on m was, is or will be done without another fault.
Runs(m) == rows[m] + Cardinality(Leftover(m)) + IF Pending(m) THEN 1 ELSE 0

\* The ack of w can still go wrong: one of its handlers has outlived its channel, or
\* has lost its delivery to the ack of such a one.  A dead channel takes no ack.
Charged ==
    {w \in Workers :
        /\ channel[w] # "dead"
        /\ \E m \in Messages :
              \/ stale[w][m].running > 0 \/ stale[w][m].done > 0
              \/ handler[w][m] \in {"running", "done"} /\ unacked[w] # m}

\* A fault may cost each message two runs: one at once, and one for the worker it
\* leaves charged, which is charged no more when its ack has gone wrong.
Paid ==
    /\ IsFiniteSet(Charged)
    /\ \A m \in Messages :
          IsFiniteSet(Leftover(m)) /\ Runs(m) + Cardinality(Charged) <= 1 + 2 * faults

LEMMA OneMore ==
    ASSUME NEW S, NEW T, NEW x, IsFiniteSet(S), T \subseteq S \cup {x}
    PROVE  /\ IsFiniteSet(T) /\ Cardinality(S) \in Nat /\ Cardinality(T) \in Nat
           /\ Cardinality(T) <= Cardinality(S) + 1
           /\ T \subseteq S => Cardinality(T) <= Cardinality(S)
           /\ x \in S /\ T \subseteq S \ {x} => Cardinality(T) + 1 <= Cardinality(S)
<1>1. /\ IsFiniteSet(S \cup {x}) /\ IsFiniteSet(S \ {x})
      /\ Cardinality(S \cup {x}) \in {Cardinality(S), Cardinality(S) + 1}
      /\ x \in S => Cardinality(S \ {x}) = Cardinality(S) - 1
  BY FS_AddElement, FS_RemoveElement
<1>2. IsFiniteSet(T) /\ Cardinality(T) <= Cardinality(S \cup {x})
  BY <1>1, FS_Subset
<1>3. T \subseteq S => Cardinality(T) <= Cardinality(S)
  BY FS_Subset
<1>4. T \subseteq S \ {x} => Cardinality(T) <= Cardinality(S \ {x})
  BY <1>1, FS_Subset
<1>5. Cardinality(S) \in Nat /\ Cardinality(T) \in Nat
  BY <1>2, FS_CardinalityType
<1>. QED
  BY <1>1, <1>2, <1>3, <1>4, <1>5

\* A step that takes off no channel, and no handler that outlived one.
LEMMA NoMoreRuns ==
    ASSUME TypeOK, Paid, UNCHANGED faults, Charged' \subseteq Charged,
           \A w \in Workers, m \in Messages : stale'[w][m].running = stale[w][m].running,
           \A m \in Messages :
              \/ rows'[m] = rows[m] /\ (Pending(m)' => Pending(m))
              \/ rows'[m] = rows[m] + 1 /\ Pending(m) /\ ~Pending(m)'
    PROVE  Paid'
<1>1. IsFiniteSet(Charged') /\ Cardinality(Charged') <= Cardinality(Charged)
      /\ Cardinality(Charged) \in Nat /\ Cardinality(Charged') \in Nat
  BY FS_Subset, FS_CardinalityType DEF Paid
<1>2. ASSUME NEW m \in Messages
      PROVE  IsFiniteSet(Leftover(m)') /\ Runs(m)' + Cardinality(Charged') <= 1 + 2 * faults
  <2>1. Leftover(m)' = Leftover(m)
    BY DEF Leftover
  <2>2. IsFiniteSet(Leftover(m)) /\ Cardinality(Leftover(m)) \in Nat
    BY FS_CardinalityType DEF Paid
  <2>3. rows[m] \in Nat /\ faults \in Nat
    BY BoundsAssumption DEF TypeOK
  <2>4. Runs(m) \in Nat /\ Runs(m)' \in Nat /\ Runs(m)' <= Runs(m)
    BY <2>1, <2>2, <2>3 DEF Runs
  <2>5. Runs(m) + Cardinality(Charged) <= 1 + 2 * faults
    BY DEF Paid
  <2>. QED
    BY <1>1, <2>1, <2>2, <2>3, <2>4, <2>5
<1>. QED
  BY <1>1, <1>2 DEF Paid

\* A handler that runs on has one run counted already; a delivery that goes back to
\* the queue is one more.
LEMMA CutRuns ==
    ASSUME TypeOK, OneHolder, OneRetry, Handled, NEW w \in Workers, Cut(w), UNCHANGED rows,
           NEW m \in Messages, IsFiniteSet(Leftover(m))
    PROVE  /\ IsFiniteSet(Leftover(m)') /\ Runs(m) \in Nat /\ Runs(m)' \in Nat
           /\ Runs(m)' <= Runs(m) + IF m = unacked[w] THEN 1 ELSE 0
<1>1. /\ place'[m] = IF m = unacked[w] THEN "ready" ELSE place[m]
      /\ \A v \in Workers : handler'[v][m] = IF v = w THEN "none" ELSE handler[v][m]
      /\ \A v \in Workers : v # w => stale'[v] = stale[v]
      /\ stale'[w][m].running <= stale[w][m].running + IF handler[w][m] = "running" THEN 1 ELSE 0
      /\ \A v \in Workers : stale[v][m].running \in Nat /\ stale'[v][m].running \in Nat
  BY DEF TypeOK, Cut, Requeue, Quiet
<1>. DEFINE x == <<w, stale[w][m].running + 1>>
<1>2. Leftover(m)' \subseteq Leftover(m) \cup {x}
  <2>. SUFFICES ASSUME NEW v \in Workers, NEW i \in Nat \ {0}, i <= stale'[v][m].running
                PROVE  i <= stale[v][m].running \/ <<v, i>> = x
    BY DEF Leftover
  <2>. QED
    BY <1>1
<1>3. handler[w][m] # "running" => Leftover(m)' \subseteq Leftover(m)
  <2>. SUFFICES ASSUME handler[w][m] # "running",
                       NEW v \in Workers, NEW i \in Nat \ {0}, i <= stale'[v][m].running
                PROVE  i <= stale[v][m].running
    BY DEF Leftover
  <2>. QED
    BY <1>1
<1>4. /\ IsFiniteSet(Leftover(m)') /\ Cardinality(Leftover(m)) \in Nat
      /\ Cardinality(Leftover(m)') \in Nat
      /\ Cardinality(Leftover(m)') <= Cardinality(Leftover(m)) + 1
      /\ handler[w][m] # "running" => Cardinality(Leftover(m)') <= Cardinality(Leftover(m))
  <2>. HIDE DEF x
  <2>. QED
    BY <1>2, <1>3, OneMore
<1>5. rows[m] \in Nat /\ rows'[m] = rows[m]
  BY DEF TypeOK
<1>6. CASE handler[w][m] = "running"
  <2>1. Pending(m)
    BY <1>6 DEF Pending
  <2>2. m # unacked[w] => ~Pending(m)'
    BY <1>1, <1>6 DEF Pending, Handled
  <2>. QED
    BY <1>4, <1>5, <2>1, <2>2 DEF Runs
<1>7. CASE handler[w][m] # "running"
  <2>1. m # unacked[w] => (Pending(m)' => Pending(m))
    BY <1>1 DEF Pending
  <2>. QED
    BY <1>4, <1>5, <1>7, <2>1 DEF Runs
<1>. QED
  BY <1>6, <1>7

LEMMA OthersCharged ==
    ASSUME TypeOK, NEW w \in Workers, Cut(w)
    PROVE  Charged' \subseteq Charged \cup {w}
<1>. SUFFICES ASSUME NEW v \in Workers, v # w, v \in Charged'
              PROVE  v \in Charged
  BY DEF Charged
<1>1. channel'[v] = channel[v] /\ stale'[v] = stale[v]
      /\ handler'[v] = handler[v] /\ unacked'[v] = unacked[v]
  BY DEF TypeOK, Cut, Requeue
<1>. QED
  BY <1>1 DEF Charged

\* A fault pays for the delivery and for the charge.
LEMMA FaultPays ==
    ASSUME TypeOK, OneHolder, OneRetry, Handled, Paid, NEW w \in Workers, Cut(w),
           UNCHANGED rows, faults' = faults + 1
    PROVE  Paid'
<1>1. /\ IsFiniteSet(Charged') /\ Cardinality(Charged) \in Nat /\ Cardinality(Charged') \in Nat
      /\ Cardinality(Charged') <= Cardinality(Charged) + 1
  BY OthersCharged, OneMore DEF Paid
<1>2. ASSUME NEW m \in Messages
      PROVE  IsFiniteSet(Leftover(m)') /\ Runs(m)' + Cardinality(Charged') <= 1 + 2 * faults'
  <2>1. faults \in Nat /\ IsFiniteSet(Leftover(m)) /\ Runs(m) + Cardinality(Charged) <= 1 + 2 * faults
    BY BoundsAssumption DEF TypeOK, Paid
  <2>2. /\ IsFiniteSet(Leftover(m)') /\ Runs(m) \in Nat /\ Runs(m)' \in Nat
        /\ Runs(m)' <= Runs(m) + 1
    BY <2>1, CutRuns
  <2>. QED
    BY <1>1, <2>1, <2>2
<1>. QED
  BY <1>1, <1>2 DEF Paid

\* The charge pays for the delivery of the channel that is lost with it.
LEMMA ChargePays ==
    ASSUME TypeOK, OneHolder, OneRetry, Handled, Paid, NEW w \in Workers, Cut(w),
           UNCHANGED <<rows, faults>>, w \notin Charged', w \in Charged \/ unacked[w] = None
    PROVE  Paid'
<1>1. Charged' \subseteq Charged \ {w}
  BY OthersCharged
<1>2. /\ IsFiniteSet(Charged') /\ Cardinality(Charged) \in Nat /\ Cardinality(Charged') \in Nat
      /\ Cardinality(Charged') <= Cardinality(Charged)
      /\ w \in Charged => Cardinality(Charged') + 1 <= Cardinality(Charged)
  BY <1>1, OneMore DEF Paid
<1>3. ASSUME NEW m \in Messages
      PROVE  IsFiniteSet(Leftover(m)') /\ Runs(m)' + Cardinality(Charged') <= 1 + 2 * faults
  <2>1. faults \in Nat /\ IsFiniteSet(Leftover(m)) /\ Runs(m) + Cardinality(Charged) <= 1 + 2 * faults
    BY BoundsAssumption DEF TypeOK, Paid
  <2>2. /\ IsFiniteSet(Leftover(m)') /\ Runs(m) \in Nat /\ Runs(m)' \in Nat
        /\ Runs(m)' <= Runs(m) + 1 /\ (m # unacked[w] => Runs(m)' <= Runs(m))
    BY <2>1, CutRuns
  <2>3. CASE w \in Charged
    BY <1>2, <2>1, <2>2, <2>3
  <2>4. CASE unacked[w] = None
    BY <1>2, <2>1, <2>2, <2>4, NoneAssumption
  <2>. QED
    BY <2>3, <2>4
<1>. QED
  BY <1>2, <1>3 DEF Paid

LEMMA RestartFrees ==
    ASSUME TypeOK, NEW w \in Workers, Restart(w)
    PROVE  w \notin Charged'
BY DEF TypeOK, Restart, Charged, Quiet, NoneOf

LEMMA LossFrees ==
    ASSUME TypeOK, NEW w \in Workers, NEW present, NEW former,
           LoseChannel(w, "dead", present, former)
    PROVE  w \notin Charged'
<1>1. CASE \E m \in Messages : present[m] = "retrying"
  BY <1>1, RestartFrees DEF LoseChannel
<1>2. CASE ~\E m \in Messages : present[m] = "retrying"
  <2>1. channel'[w] = "dead"
    BY <1>2 DEF TypeOK, LoseChannel
  <2>. QED
    BY <2>1 DEF Charged
<1>. QED
  BY <1>1, <1>2

LEMMA StepPays ==
    ASSUME TypeOK, OneHolder, OneRetry, Handled, Paid, [Next]_vars
    PROVE  Paid'
<1>. USE NoneAssumption
<1>1. CASE UNCHANGED vars
  BY <1>1 DEF Paid, Runs, Pending, Leftover, Charged, vars
<1>2. ASSUME NEW m \in Messages, Publish(m) \/ Expire(m)
      PROVE  Paid'
  <2>1. /\ place[m] \in {"unsent", "delayed"} /\ \A n \in Messages : n # m => place'[n] = place[n]
        /\ UNCHANGED <<channel, unacked, handler, stale, rows, faults>>
    BY <1>2 DEF TypeOK, Publish, Expire
  <2>2. \A n \in Messages : Pending(n)' => Pending(n)
    BY <2>1 DEF Pending
  <2>. QED
    BY <2>1, <2>2, NoMoreRuns DEF Charged
<1>3. ASSUME NEW w \in Workers, NEW m \in Messages, Deliver(w, m)
      PROVE  Paid'
  <2>1. /\ place[m] = "ready" /\ unacked[w] = None
        /\ \A n \in Messages : place'[n] = IF n = m THEN "unacked" ELSE place[n]
        /\ \A v \in Workers : unacked'[v] = IF v = w THEN m ELSE unacked[v]
        /\ \A v \in Workers, n \in Messages :
              handler'[v][n] = IF v = w /\ n = m THEN "running" ELSE handler[v][n]
        /\ UNCHANGED <<channel, stale, rows, faults>>
    BY <1>3 DEF TypeOK, Deliver
  <2>2. \A n \in Messages : Pending(n)' => Pending(n)
    BY <2>1 DEF Pending
  <2>3. Charged' \subseteq Charged
    BY <2>1 DEF Charged
  <2>. QED
    BY <2>1, <2>2, <2>3, NoMoreRuns
<1>4. ASSUME NEW w \in Workers, NEW m \in Messages, Succeed(w, m)
      PROVE  Paid'
  <2>1. /\ handler[w][m] = "running"
        /\ \A v \in Workers, n \in Messages :
              handler'[v][n] = IF v = w /\ n = m THEN "done" ELSE handler[v][n]
        /\ \A n \in Messages : rows'[n] = IF n = m THEN rows[m] + 1 ELSE rows[n]
        /\ UNCHANGED <<place, channel, unacked, stale, faults>>
    BY <1>4 DEF TypeOK, Succeed
  <2>2. place[m] \in {"unacked", "gone"} /\ \A v \in Workers : v # w => handler[v][m] = "none"
    BY <2>1 DEF Handled, OneHolder
  <2>3. Pending(m) /\ ~Pending(m)' /\ \A n \in Messages : n # m => (Pending(n)' => Pending(n))
    BY <2>1, <2>2 DEF Pending
  <2>4. Charged' \subseteq Charged
    BY <2>1 DEF Charged
  <2>. QED
    BY <2>1, <2>3, <2>4, NoMoreRuns
\* A handler of m with its delivery, which it ends or is to publish again.
<1>5. ASSUME NEW w \in Workers, NEW m \in Messages, NEW to \in {"none", "retrying"},
             handler' = [handler EXCEPT ![w][m] = to], unacked[w] = m,
             unacked' = [unacked EXCEPT ![w] = None], place' = [place EXCEPT ![m] = "gone"],
             to = "retrying" => handler[w][m] = "running",
             UNCHANGED <<channel, stale, rows, faults>>
      PROVE  Paid'
  <2>1. /\ \A n \in Messages : place'[n] = IF n = m THEN "gone" ELSE place[n]
        /\ \A v \in Workers : unacked'[v] = IF v = w THEN None ELSE unacked[v]
        /\ \A v \in Workers, n \in Messages :
              handler'[v][n] = IF v = w /\ n = m THEN to ELSE handler[v][n]
    BY <1>5 DEF TypeOK
  <2>2. \A n \in Messages : Pending(n)' => Pending(n)
    BY <1>5, <2>1 DEF Pending
  <2>3. Charged' \subseteq Charged
    BY <1>5, <2>1 DEF Charged
  <2>. QED
    BY <1>5, <2>2, <2>3, NoMoreRuns
<1>6. ASSUME NEW w \in Workers, NEW m \in Messages, Ack(w, m)
      PROVE  Paid'
  <2>1. CASE unacked[w] = m
    BY <1>5, <1>6, <2>1 DEF Ack
  <2>2. CASE unacked[w] # m
    <3>1. /\ handler[w][m] = "done" /\ UNCHANGED <<rows, faults>>
          /\ LoseChannel(w, "dead", [handler[w] EXCEPT ![m] = "none"], stale[w])
      BY <1>6, <2>2 DEF Ack
    <3>2. channel[w] = "open"
      BY <3>1 DEF Handled
    <3>3. w \in Charged
      BY <2>2, <3>1, <3>2 DEF Charged
    <3>. QED
      BY <3>1, <3>3, AckCuts, LossFrees, ChargePays
  <2>. QED
    BY <2>1, <2>2
<1>7. ASSUME NEW w \in Workers, NEW m \in Messages, RetryMessage(w, m)
      PROVE  Paid'
  <2>1. /\ handler[w][m] = "retrying"
        /\ \A v \in Workers, n \in Messages :
              handler'[v][n] = IF v = w /\ n = m THEN "none" ELSE handler[v][n]
        /\ \A n \in Messages : n # m => place'[n] = place[n]
        /\ UNCHANGED <<channel, unacked, stale, rows, faults>>
    BY <1>7 DEF TypeOK, RetryMessage
  <2>2. \A n \in Messages : Pending(n)' => Pending(n)
    BY <2>1 DEF Pending
  <2>3. Charged' \subseteq Charged
    BY <2>1 DEF Charged
  <2>. QED
    BY <2>1, <2>2, <2>3, NoMoreRuns
<1>8. ASSUME NEW w \in Workers, NEW m \in Messages, Reject(w, m)
      PROVE  Paid'
  BY <1>5, <1>8 DEF Reject
<1>9. ASSUME NEW w \in Workers, NEW m \in Messages, StaleSucceed(w, m)
      PROVE  Paid'
  <2>. DEFINE r == stale[w][m].running
              x == <<w, r>>
  <2>1. /\ r \in Nat \ {0}
        /\ stale'[w][m] = [running |-> r - 1, done |-> stale[w][m].done + 1]
        /\ \A v \in Workers, n \in Messages : ~(v = w /\ n = m) => stale'[v][n] = stale[v][n]
        /\ \A n \in Messages : rows'[n] = IF n = m THEN rows[m] + 1 ELSE rows[n]
        /\ UNCHANGED <<place, channel, unacked, handler, faults>>
    BY <1>9 DEF TypeOK, StaleSucceed
  <2>2. Charged' \subseteq Charged
    BY <2>1 DEF Charged
  <2>3. /\ IsFiniteSet(Charged') /\ Cardinality(Charged') <= Cardinality(Charged)
        /\ Cardinality(Charged) \in Nat /\ Cardinality(Charged') \in Nat
    BY <2>2, FS_Subset, FS_CardinalityType DEF Paid
  <2>4. x \in Leftover(m) /\ Leftover(m)' \subseteq Leftover(m) \ {x}
    <3>1. x \in Leftover(m)
      BY <2>1 DEF Leftover
    <3>2. ASSUME NEW v \in Workers, NEW i \in Nat \ {0}, i <= stale'[v][m].running
          PROVE  i <= stale[v][m].running /\ <<v, i>> # x
      BY <2>1, <3>2
    <3>. QED
      BY <3>1, <3>2 DEF Leftover
  <2>5. ASSUME NEW n \in Messages
        PROVE  IsFiniteSet(Leftover(n)') /\ Runs(n)' + Cardinality(Charged') <= 1 + 2 * faults
    <3>1. /\ rows[n] \in Nat /\ faults \in Nat /\ IsFiniteSet(Leftover(n))
          /\ Runs(n) + Cardinality(Charged) <= 1 + 2 * faults
      BY BoundsAssumption DEF TypeOK, Paid
    <3>2. Pending(n)' = Pending(n)
      BY <2>1 DEF Pending
    <3>3. CASE n = m
      <4>. HIDE DEF x
      <4>1. /\ IsFiniteSet(Leftover(n)')
            /\ Cardinality(Leftover(n)) \in Nat /\ Cardinality(Leftover(n)') \in Nat
            /\ Cardinality(Leftover(n)') + 1 <= Cardinality(Leftover(n))
        BY <2>4, <3>1, <3>3, OneMore
      <4>. QED
        BY <2>1, <2>3, <3>1, <3>2, <3>3, <4>1 DEF Runs
    <3>4. CASE n # m
      <4>1. Leftover(n)' = Leftover(n)
        BY <2>1, <3>4 DEF Leftover
      <4>2. Cardinality(Leftover(n)) \in Nat
        BY <3>1, FS_CardinalityType
      <4>. QED
        BY <2>1, <2>3, <3>1, <3>2, <3>4, <4>1, <4>2 DEF Runs
    <3>. QED
      BY <3>3, <3>4
  <2>. QED
    BY <2>1, <2>3, <2>5 DEF Paid
<1>10. ASSUME NEW w \in Workers, NEW m \in Messages, StaleAck(w, m)
       PROVE  Paid'
  <2>1. stale[w][m].done > 0 /\ UNCHANGED <<rows, faults>>
    BY <1>10 DEF StaleAck
  <2>2. ASSUME channel[w] = "open"
        PROVE  w \in Charged
    BY <2>1, <2>2 DEF Charged
  <2>3. CASE channel[w] = "open"
             /\ LoseChannel(w, "dead", handler[w], [stale[w] EXCEPT ![m].done = @ - 1])
    BY <2>1, <2>2, <2>3, StaleAckCuts, LossFrees, ChargePays
  <2>4. CASE /\ stale' = [stale EXCEPT ![w][m].done = @ - 1]
             /\ \/ UNCHANGED <<place, channel, unacked, handler>>
                \/ /\ channel[w] = "open" /\ unacked[w] # None
                   /\ place' = [place EXCEPT ![unacked[w]] = "gone"]
                   /\ unacked' = [unacked EXCEPT ![w] = None]
                   /\ UNCHANGED <<channel, handler>>
    <3>1. /\ \A v \in Workers, n \in Messages : stale'[v][n].running = stale[v][n].running
          /\ \A v \in Workers, n \in Messages : stale'[v][n].done > 0 => stale[v][n].done > 0
      BY <2>1, <2>4 DEF TypeOK
    <3>2. \A n \in Messages : place'[n] \in {place[n], "gone"}
      BY <2>4 DEF TypeOK
    <3>3. \A n \in Messages : Pending(n)' => Pending(n)
      BY <2>4, <3>2 DEF Pending
    <3>4. \A v \in Workers : unacked'[v] = unacked[v] \/ (v = w /\ channel[w] = "open")
      BY <2>4 DEF TypeOK
    <3>5. Charged' \subseteq Charged
      BY <2>2, <2>4, <3>1, <3>4 DEF Charged
    <3>. QED
      BY <2>1, <3>1, <3>3, <3>5, NoMoreRuns
  <2>. QED
    BY <1>10, <2>3, <2>4 DEF StaleAck
<1>11. ASSUME NEW w \in Workers, Reconnect(w)
       PROVE  Paid'
  <2>1. /\ \A v \in Workers : channel'[v] # "dead" => channel[v] # "dead"
        /\ UNCHANGED <<place, unacked, handler, stale, rows, faults>>
    BY <1>11 DEF TypeOK, Reconnect
  <2>. QED
    BY <2>1, NoMoreRuns DEF Charged, Pending
<1>12. ASSUME NEW w \in Workers, Crash(w)
       PROVE  Paid'
  BY <1>12, RestartCuts, FaultPays DEF Crash
<1>13. ASSUME NEW w \in Workers, Disconnect(w)
       PROVE  Paid'
  <2>1. Cut(w)
    BY <1>13, LossCuts DEF Disconnect, TypeOK
  <2>. QED
    BY <1>13, <2>1, FaultPays DEF Disconnect
<1>14. ASSUME NEW w \in Workers, NEW m \in Messages, HopelessReject(w, m)
       PROVE  Paid'
  <2>1. /\ Restart(w) /\ UNCHANGED <<rows, faults>>
        /\ \/ stale[w][m].running > 0
           \/ handler[w][m] = "running" /\ unacked[w] # m
    BY <1>14 DEF HopelessReject
  <2>2. w \in Charged \/ unacked[w] = None
    BY <2>1 DEF Charged, Handled
  <2>. QED
    BY <2>1, <2>2, RestartCuts, RestartFrees, ChargePays
<1>. QED
  BY <1>1, <1>2, <1>3, <1>4, <1>6, <1>7, <1>8, <1>9, <1>10, <1>11, <1>12, <1>13, <1>14
     DEF Next, BrokerStep, HandlerStep, Rest

-----------------------------------------------------------------------------
(* The theorems. *)

LEMMA Initially == Init => IInv
BY NoneAssumption, BoundsAssumption
   DEF Init, IInv, TypeOK, OneHolder, OneRetry, Undisturbed, Channels, Work, Quiet, NoneOf, Places, Handlers

LEMMA Invariance == Safety => []IInv
<1>1. IInv /\ [Next]_vars => IInv'
  BY Typed, StepKeepsOne, StepUndisturbed DEF IInv
<1>. QED
  BY Initially, <1>1, PTL DEF Safety

\* Every variable keeps its type; the retry count never passes MAX_JOB_RETRIES.
THEOREM TypeCorrect == Safety => []TypeOK
<1>1. IInv => TypeOK
  BY DEF IInv
<1>. QED
  BY <1>1, Invariance, PTL

\* A message is in one queue or on one channel, and only one handler can be about to
\* publish it again: crashes, lost channels and late acks make no second copy.
THEOREM OneCopyAlways == Safety => []OneCopy
<1>1. ASSUME OneHolder, OneRetry
      PROVE  OneCopy
  <2>. SUFFICES ASSUME NEW m \in Messages
                PROVE  /\ Cardinality({w \in Workers : unacked[w] = m})
                            = IF place[m] = "unacked" THEN 1 ELSE 0
                       /\ Cardinality({w \in Workers : handler[w][m] = "retrying"})
                            <= IF place[m] = "gone" THEN 1 ELSE 0
    BY DEF OneCopy
  <2>. DEFINE H == {w \in Workers : unacked[w] = m}
              R == {w \in Workers : handler[w][m] = "retrying"}
  <2>1. CASE place[m] = "unacked"
    <3>1. PICK w \in Workers : H = {w}
      BY <1>1, <2>1 DEF OneHolder
    <3>2. R = {}
      BY <1>1, <2>1 DEF OneRetry
    <3>3. Cardinality(H) = 1
      BY <3>1, FS_Singleton, Zenon
    <3>4. Cardinality(R) = 0
      BY <3>2, FS_EmptySet, Zenon
    <3>. HIDE DEF H, R
    <3>5. Cardinality(H) = (IF place[m] = "unacked" THEN 1 ELSE 0)
      BY <2>1, <3>3
    <3>6. Cardinality(R) <= (IF place[m] = "gone" THEN 1 ELSE 0)
      BY <2>1, <3>4
    <3>. QED
      BY <3>5, <3>6 DEF H, R
  <2>2. CASE place[m] # "unacked"
    <3>1. H = {}
      BY <1>1, <2>2 DEF OneHolder
    <3>2. R = {} \/ (place[m] = "gone" /\ \E w \in Workers : R = {w})
      BY <1>1 DEF OneRetry
    <3>3. Cardinality(H) = 0
      BY <3>1, FS_EmptySet, Zenon
    <3>4. Cardinality(R) = 0 \/ (place[m] = "gone" /\ Cardinality(R) = 1)
      BY <3>2, FS_Singleton, FS_EmptySet, Zenon
    <3>. HIDE DEF H, R
    <3>5. Cardinality(H) = (IF place[m] = "unacked" THEN 1 ELSE 0)
      BY <2>2, <3>3
    <3>6. Cardinality(R) <= (IF place[m] = "gone" THEN 1 ELSE 0)
      BY <3>4
    <3>. QED
      BY <3>5, <3>6 DEF H, R
  <2>. QED
    BY <2>1, <2>2
<1>2. IInv => OneCopy
  BY <1>1 DEF IInv
<1>. QED
  BY <1>2, Invariance, PTL

\* While nothing fails but the work itself, the work on each message is done once,
\* however often it is rejected and tried again.
THEOREM ExactlyOnce == Safety => []ExactlyOnceWithoutFaults
<1>1. IInv => ExactlyOnceWithoutFaults
  BY DEF IInv, Undisturbed, Work, ExactlyOnceWithoutFaults
<1>. QED
  BY <1>1, Invariance, PTL

\* What the repetitions need, on top of it.
LEMMA PaidInvariance == Safety => [](IInv /\ Handled /\ Paid)
<1>1. Init /\ IInv => Handled /\ Paid
  <2>. SUFFICES ASSUME Init, IInv
                PROVE  Handled /\ Paid
    OBVIOUS
  <2>1. Handled
    BY NoneAssumption DEF Init, Handled, Quiet
  <2>2. Charged = {} /\ \A m \in Messages : Leftover(m) = {}
    BY DEF Init, Charged, Leftover, Quiet, NoneOf
  <2>3. /\ IsFiniteSet(Charged) /\ Cardinality(Charged) = 0
        /\ \A m \in Messages : IsFiniteSet(Leftover(m)) /\ Cardinality(Leftover(m)) = 0
    BY <2>2, FS_EmptySet
  <2>4. Paid
    BY <2>3 DEF Init, Paid, Runs
  <2>. QED
    BY <2>1, <2>4
<1>2. IInv /\ Handled /\ Paid /\ [Next]_vars => Handled' /\ Paid'
  BY StepHandled, StepPays DEF IInv
<1>. QED
  BY <1>1, <1>2, Invariance, PTL DEF Safety

\* The work on a message is done at most once, and twice more for each fault: for the
\* handler a fault cuts off, and for the one whose delivery its late ack takes.
THEOREM RepeatsAreFew == Safety => []FewRepeats
<1>1. ASSUME IInv, Paid
      PROVE  FewRepeats
  <2>. SUFFICES ASSUME NEW m \in Messages
                PROVE  rows[m] <= 1 + 2 * faults
    BY DEF FewRepeats
  <2>1. /\ rows[m] \in Nat /\ faults \in Nat
        /\ Cardinality(Charged) \in Nat /\ Cardinality(Leftover(m)) \in Nat
        /\ Runs(m) + Cardinality(Charged) <= 1 + 2 * faults
    BY <1>1, BoundsAssumption, FS_CardinalityType DEF IInv, TypeOK, Paid
  <2>. QED
    BY <2>1 DEF Runs
<1>. QED
  BY <1>1, PaidInvariance, PTL

=============================================================================
