----------------------------- MODULE TimerDaemon -----------------------------
(***************************************************************************)
(* The shared (timeout ms) daemon of core.async: pkg/rt/async.go:40-190,   *)
(* together with the root scope's context generations it runs under        *)
(* (Scope.CancelAll and Scope.Go, pkg/vm/scope.go).                        *)
(*                                                                         *)
(* Threads: one caller of timeoutChan per timer, the daemon goroutines,    *)
(* the callers of CancelAll, and the clock.  An atomic step is a critical  *)
(* section of timerMu that reads nothing outside the mutex, or one access  *)
(* to state that is shared without it.  The two passes over timerQueue run *)
(* under timerMu but look at each entry's context, which CancelAll ends    *)
(* without the mutex, so a pass takes one step per entry.                  *)
(***************************************************************************)
EXTENDS Integers

CONSTANTS
    Timers,      \* the calls of timeoutChan (each makes one channel)
    Daemons,     \* identities of timerDaemon goroutines
    Delays,      \* the ms arguments, non-positive ones included
    MaxTime,     \* bound: the clock stops here
    MaxGen,      \* bound: number of CancelAll calls on the root scope
    NoOne        \* "timerMu is free"

ASSUME TimerConstants ==
    /\ Delays \subseteq Int
    /\ MaxTime \in Nat
    /\ MaxGen \in Nat
    /\ NoOne \notin Daemons

\* "no deadline kept": the zero time.Time that next.IsZero() tests for
NoDeadline == MaxTime + 1

VARIABLES
    now,           \* time.Now()
    gen,           \* vm.Goroutines.state: the current context generation
    displaced,     \* generations swapped out whose cancel() has not run yet
    cancelled,     \* generations whose Done channel is closed
    timerMu,       \* holder of timerMu, or NoOne
    timerQueue,    \* set of queued timers (the slice's order is never used)
    timerKick,     \* the buffered(1) kick channel holds a token
    timerRunning,
    tpc,           \* timer -> where its timeoutChan call is
    deadline,      \* timer -> timerEntry.deadline
    done,          \* timer -> generation of timerEntry.done
    closes,        \* timer -> number of close(ch) calls on its channel
    dpc,           \* daemon -> where its goroutine is
    dgen,          \* daemon -> generation of its ctx argument
    dnow,          \* daemon -> the local now of the current pass
    todo,          \* daemon -> entries the current pass has not looked at
    due,           \* daemon -> the local due / closeNow
    next           \* daemon -> the local next

scopeVars  == <<gen, displaced, cancelled>>
callVars   == <<tpc, deadline, done>>
daemonVars == <<dpc, dgen, dnow, todo, due, next>>
queueVars  == <<timerMu, timerQueue, timerKick, timerRunning>>
vars == <<now, scopeVars, callVars, daemonVars, queueVars, closes>>

CallPcs   == {"idle", "entry", "start", "kick", "returned"}
DaemonPcs == {"none", "lock", "scan", "close", "select",
              "stop", "stopScan", "stopClose", "exitClose"}

Init ==
    /\ now = 0
    /\ gen = 0 /\ displaced = {} /\ cancelled = {}
    /\ timerMu = NoOne /\ timerQueue = {}
    /\ timerKick = FALSE /\ timerRunning = FALSE
    /\ tpc = [t \in Timers |-> "idle"]
    /\ deadline = [t \in Timers |-> 0]
    /\ done = [t \in Timers |-> 0]
    /\ closes = [t \in Timers |-> 0]
    /\ dpc = [d \in Daemons |-> "none"]
    /\ dgen = [d \in Daemons |-> 0]
    /\ dnow = [d \in Daemons |-> 0]
    /\ todo = [d \in Daemons |-> {}]
    /\ due = [d \in Daemons |-> {}]
    /\ next = [d \in Daemons |-> NoDeadline]

-----------------------------------------------------------------------------
(* The clock and the root scope.                                           *)

Tick ==
    /\ now < MaxTime
    /\ now' = now + 1
    /\ UNCHANGED <<scopeVars, callVars, daemonVars, queueVars, closes>>

\* CancelAll installs the fresh generation first ...
CancelAllSwap ==
    /\ gen < MaxGen                                \* bound
    /\ gen' = gen + 1
    /\ displaced' = displaced \union {gen}
    /\ UNCHANGED <<now, cancelled, callVars, daemonVars, queueVars, closes>>

\* ... and cancels the one it displaced in a second, separate step.
CancelAllCancel(g) ==
    /\ g \in displaced
    /\ displaced' = displaced \ {g}
    /\ cancelled' = cancelled \union {g}
    /\ UNCHANGED <<now, gen, callVars, daemonVars, queueVars, closes>>

-----------------------------------------------------------------------------
(* timeoutChan(ms), run by the caller of timer t.                          *)

\* ms <= 0: the channel is closed at once and never queued.
TimeoutImmediate(t, ms) ==
    /\ tpc[t] = "idle" /\ ms <= 0
    /\ tpc' = [tpc EXCEPT ![t] = "returned"]
    /\ deadline' = [deadline EXCEPT ![t] = now]
    /\ closes' = [closes EXCEPT ![t] = @ + 1]
    /\ UNCHANGED <<now, scopeVars, done, daemonVars, queueVars>>

Deadline(ms) == now + ms

\* The entry is built, with the clock and the scope read, before the lock.
TimeoutEntry(t, ms) ==
    /\ tpc[t] = "idle" /\ ms > 0
    /\ now + ms <= MaxTime                      \* bound
    /\ tpc' = [tpc EXCEPT ![t] = "entry"]
    /\ deadline' = [deadline EXCEPT ![t] = Deadline(ms)]
    /\ done' = [done EXCEPT ![t] = gen]
    /\ UNCHANGED <<now, scopeVars, daemonVars, queueVars, closes>>

\* The critical section of timeoutChan: append, and claim the daemon start.
TimeoutEnqueue(t) ==
    /\ tpc[t] = "entry" /\ timerMu = NoOne
    /\ timerQueue' = timerQueue \union {t}
    /\ timerRunning' = TRUE
    /\ tpc' = [tpc EXCEPT ![t] = IF timerRunning THEN "kick" ELSE "start"]
    /\ UNCHANGED <<now, scopeVars, deadline, done, daemonVars, timerMu,
                   timerKick, closes>>

\* Scope.Go(timerDaemon): the new goroutine gets the context that is current
\* now, which need not be the one the entry was created under.
Spawn(d) ==
    /\ dpc[d] = "none"
    /\ dgen' = [dgen EXCEPT ![d] = gen]

TimeoutStart(t) ==
    /\ tpc[t] = "start"
    /\ \E d \in Daemons : Spawn(d) /\ dpc' = [dpc EXCEPT ![d] = "lock"]
    /\ tpc' = [tpc EXCEPT ![t] = "returned"]
    /\ UNCHANGED <<now, scopeVars, deadline, done, dnow, todo, due, next,
                   queueVars, closes>>

MutForgetsKick(t) ==
    /\ tpc[t] = "kick"
    /\ tpc' = [tpc EXCEPT ![t] = "returned"]
    /\ UNCHANGED <<now, scopeVars, deadline, done, daemonVars, queueVars, closes>>

\* The non-blocking send: a token that is already there is enough.
TimeoutKick(t) ==
    /\ tpc[t] = "kick"
    /\ timerKick' = TRUE
    /\ tpc' = [tpc EXCEPT ![t] = "returned"]
    /\ UNCHANGED <<now, scopeVars, deadline, done, daemonVars, timerMu,
                   timerQueue, timerRunning, closes>>

-----------------------------------------------------------------------------
(* timerDaemon(ctx), run by daemon d.                                      *)

MutAnyGeneration(t) == cancelled # {}

\* e.cancelled(): the entry's own context generation is done.
EntryCancelled(t) == done[t] \in cancelled

\* timerMu.Lock(); now := time.Now(); fresh due, keep and next.
ScanBegin(d) ==
    /\ dpc[d] = "lock" /\ timerMu = NoOne
    /\ timerMu' = d
    /\ dpc' = [dpc EXCEPT ![d] = "scan"]
    /\ dnow' = [dnow EXCEPT ![d] = now]
    /\ todo' = [todo EXCEPT ![d] = timerQueue]
    /\ due' = [due EXCEPT ![d] = {}]
    /\ next' = [next EXCEPT ![d] = NoDeadline]
    /\ UNCHANGED <<now, scopeVars, callVars, dgen, timerQueue, timerKick,
                   timerRunning, closes>>

\* One turn of the range loop: the entry moves to due, or is kept and its
\* deadline considered for next.
ScanEntry(d, t) ==
    /\ dpc[d] = "scan" /\ t \in todo[d]
    /\ todo' = [todo EXCEPT ![d] = @ \ {t}]
    /\ IF deadline[t] <= dnow[d] \/ EntryCancelled(t)
       THEN /\ due' = [due EXCEPT ![d] = @ \union {t}]
            /\ timerQueue' = timerQueue \ {t}
            /\ UNCHANGED next
       ELSE /\ next' = [next EXCEPT ![d] =
                            IF deadline[t] < @ THEN deadline[t] ELSE @]
            /\ UNCHANGED <<due, timerQueue>>
    /\ UNCHANGED <<now, scopeVars, callVars, dpc, dgen, dnow, timerMu,
                   timerKick, timerRunning, closes>>

ScanEnd(d) ==
    /\ dpc[d] = "scan" /\ todo[d] = {}
    /\ timerMu' = NoOne
    /\ dpc' = [dpc EXCEPT ![d] = "close"]
    /\ UNCHANGED <<now, scopeVars, callVars, dgen, dnow, todo, due, next,
                   timerQueue, timerKick, timerRunning, closes>>

\* for _, ch := range due { close(ch) }, outside the lock.  The loops of
\* timerDaemon, and of timerDaemonStop with and without a respawn to come,
\* are told apart by dpc[d].
CloseOne(d, t) ==
    /\ dpc[d] \in {"close", "stopClose", "exitClose"}
    /\ t \in due[d]
    /\ due' = [due EXCEPT ![d] = @ \ {t}]
    /\ closes' = [closes EXCEPT ![t] = @ + 1]
    /\ UNCHANGED <<now, scopeVars, callVars, dpc, dgen, dnow, todo, next,
                   queueVars>>

CloseEnd(d) ==
    /\ dpc[d] = "close" /\ due[d] = {}
    /\ dpc' = [dpc EXCEPT ![d] = "select"]
    /\ UNCHANGED <<now, scopeVars, callVars, dgen, dnow, todo, due, next,
                   queueVars, closes>>

\* The two selects.  Any ready case may be taken; the idle one has no timer.
WakeKick(d) ==
    /\ dpc[d] = "select" /\ timerKick
    /\ timerKick' = FALSE
    /\ dpc' = [dpc EXCEPT ![d] = "lock"]
    /\ UNCHANGED <<now, scopeVars, callVars, dgen, dnow, todo, due, next,
                   timerMu, timerQueue, timerRunning, closes>>

\* The timer is armed for the first timeout only.
MutNotRearmed(d) ==
    /\ dpc[d] = "select" /\ next[d] # NoDeadline /\ now >= next[d]
    /\ \A t \in Timers : closes[t] = 0
    /\ dpc' = [dpc EXCEPT ![d] = "lock"]
    /\ UNCHANGED <<now, scopeVars, callVars, dgen, dnow, todo, due, next,
                   queueVars, closes>>

WakeTimer(d) ==
    /\ dpc[d] = "select" /\ next[d] # NoDeadline /\ now >= next[d]
    /\ dpc' = [dpc EXCEPT ![d] = "lock"]
    /\ UNCHANGED <<now, scopeVars, callVars, dgen, dnow, todo, due, next,
                   queueVars, closes>>

WakeDone(d) ==
    /\ dpc[d] = "select" /\ dgen[d] \in cancelled
    /\ dpc' = [dpc EXCEPT ![d] = "stop"]
    /\ UNCHANGED <<now, scopeVars, callVars, dgen, dnow, todo, due, next,
                   queueVars, closes>>

-----------------------------------------------------------------------------
(* timerDaemonStop(), run by daemon d once its own context is done.        *)

StopBegin(d) ==
    /\ dpc[d] = "stop" /\ timerMu = NoOne
    /\ timerMu' = d
    /\ dpc' = [dpc EXCEPT ![d] = "stopScan"]
    /\ todo' = [todo EXCEPT ![d] = timerQueue]
    /\ due' = [due EXCEPT ![d] = {}]
    /\ UNCHANGED <<now, scopeVars, callVars, dgen, dnow, next, timerQueue,
                   timerKick, timerRunning, closes>>

\* Only the entry's own generation counts here, never its deadline.
StopEntry(d, t) ==
    /\ dpc[d] = "stopScan" /\ t \in todo[d]
    /\ todo' = [todo EXCEPT ![d] = @ \ {t}]
    /\ IF EntryCancelled(t)
       THEN /\ due' = [due EXCEPT ![d] = @ \union {t}]
            /\ timerQueue' = timerQueue \ {t}
       ELSE UNCHANGED <<due, timerQueue>>
    /\ UNCHANGED <<now, scopeVars, callVars, dpc, dgen, dnow, next, timerMu,
                   timerKick, timerRunning, closes>>

MutNeverRespawns == FALSE

Respawns == timerQueue # {}

\* respawn := len(keep) > 0; timerRunning is given up only without survivors.
StopEnd(d) ==
    /\ dpc[d] = "stopScan" /\ todo[d] = {}
    /\ timerMu' = NoOne
    /\ timerRunning' = Respawns
    /\ dpc' = [dpc EXCEPT ![d] =
                  IF Respawns THEN "stopClose" ELSE "exitClose"]
    /\ UNCHANGED <<now, scopeVars, callVars, dgen, dnow, todo, due, next,
                   timerQueue, timerKick, closes>>

\* After closeNow is done, a daemon without survivors returns.
Exit(d) ==
    /\ dpc[d] = "exitClose" /\ due[d] = {}
    /\ dpc' = [dpc EXCEPT ![d] = "none"]
    /\ UNCHANGED <<now, scopeVars, callVars, dgen, dnow, todo, due, next,
                   queueVars, closes>>

\* With survivors it hands the queue to a daemon of the current generation.
Respawn(d) ==
    /\ dpc[d] = "stopClose" /\ due[d] = {}
    /\ \E e \in Daemons :
          /\ Spawn(e)
          /\ dpc' = [dpc EXCEPT ![d] = "none", ![e] = "lock"]
    /\ UNCHANGED <<now, scopeVars, callVars, dnow, todo, due, next,
                   queueVars, closes>>

-----------------------------------------------------------------------------
timeoutChan(t) ==
    \/ \E ms \in Delays : TimeoutImmediate(t, ms) \/ TimeoutEntry(t, ms)
    \/ TimeoutEnqueue(t) \/ TimeoutStart(t) \/ TimeoutKick(t)

timerDaemonStop(d) ==
    \/ StopBegin(d) \/ StopEnd(d) \/ Exit(d) \/ Respawn(d)
    \/ \E t \in Timers : StopEntry(d, t)

timerDaemon(d) ==
    \/ ScanBegin(d) \/ ScanEnd(d) \/ CloseEnd(d)
    \/ \E t \in Timers : ScanEntry(d, t) \/ CloseOne(d, t)
    \/ WakeKick(d) \/ WakeTimer(d) \/ WakeDone(d)

Next ==
    \/ Tick
    \/ CancelAllSwap
    \/ \E g \in 0..MaxGen : CancelAllCancel(g)
    \/ \E t \in Timers : timeoutChan(t)
    \/ \E d \in Daemons : timerDaemon(d) \/ timerDaemonStop(d)

Spec == Init /\ [][Next]_vars

(* Every goroutine that can run does run, and time passes.  Making a call  *)
(* is not forced (the caller may never ask), finishing one is.             *)
Fairness ==
    /\ WF_vars(Tick)
    /\ \A g \in 0..MaxGen : WF_vars(CancelAllCancel(g))
    /\ \A t \in Timers :
          /\ WF_vars(TimeoutEnqueue(t))
          /\ WF_vars(TimeoutStart(t))
          /\ WF_vars(TimeoutKick(t))
    /\ \A d \in Daemons : WF_vars(timerDaemon(d) \/ timerDaemonStop(d))

FairSpec == Spec /\ Fairness

-----------------------------------------------------------------------------
(* Properties.                                                             *)

TypeOK ==
    /\ now \in 0..MaxTime
    /\ gen \in 0..MaxGen
    /\ displaced \subseteq 0..MaxGen /\ cancelled \subseteq 0..MaxGen
    /\ timerMu \in Daemons \union {NoOne}
    /\ timerQueue \subseteq Timers
    /\ timerKick \in BOOLEAN /\ timerRunning \in BOOLEAN
    /\ tpc \in [Timers -> CallPcs]
    /\ deadline \in [Timers -> 0..MaxTime]
    /\ done \in [Timers -> 0..MaxGen]
    /\ closes \in [Timers -> Nat]
    /\ dpc \in [Daemons -> DaemonPcs]
    /\ dgen \in [Daemons -> 0..MaxGen]
    /\ dnow \in [Daemons -> 0..MaxTime]
    /\ todo \in [Daemons -> SUBSET Timers]
    /\ due \in [Daemons -> SUBSET Timers]
    /\ next \in [Daemons -> 0..NoDeadline]

\* d is in charge of the queue: it will look at it again or hand it over.
Serving(d) == dpc[d] \notin {"none", "exitClose"}

(* "All (timeout ms) channels are closed by ONE long-lived goroutine": at  *)
(* any time at most one daemon is in charge of the queue or about to be    *)
(* started by a caller, there is one exactly when timerRunning says so,    *)
(* and there is one whenever a timeout is queued.  A stopping daemon gives *)
(* the role up, or hands it over, while callers race to claim it.          *)
OneServer ==
    /\ \A d, e \in Daemons : Serving(d) /\ Serving(e) => d = e
    /\ \A t, u \in Timers : tpc[t] = "start" /\ tpc[u] = "start" => t = u
    /\ \A t \in Timers, d \in Daemons : ~(tpc[t] = "start" /\ Serving(d))
    /\ timerRunning <=> \/ \E d \in Daemons : Serving(d)
                        \/ \E t \in Timers : tpc[t] = "start"
    /\ timerQueue # {} => timerRunning

(* No timeout is lost and no channel is closed twice (close of a closed    *)
(* channel panics the process): once timeoutChan has queued its entry, the *)
(* entry is in exactly one place - the queue, the due list of one daemon,  *)
(* or closed, once.                                                        *)
Enqueued(t) == tpc[t] \in {"start", "kick", "returned"}

EachClosedOnce ==
    \A t \in Timers :
        /\ closes[t] \in 0..1
        /\ t \in timerQueue => closes[t] = 0
        /\ \A d \in Daemons : t \in due[d] =>
              /\ closes[t] = 0 /\ t \notin timerQueue
              /\ \A e \in Daemons : t \in due[e] => d = e
        /\ Enqueued(t) <=> \/ closes[t] = 1
                           \/ t \in timerQueue
                           \/ \E d \in Daemons : t \in due[d]

(* "A timeout closes early only when ITS OWN context generation is         *)
(* cancelled" (async.go:53): a closed channel is past its deadline, or the *)
(* generation read by its own timeoutChan call is cancelled - whichever    *)
(* daemon, of whichever generation, closed it.                             *)
NeverEarly ==
    \A t \in Timers :
        closes[t] > 0 => deadline[t] <= now \/ done[t] \in cancelled

(* Every queued timeout is closed exactly once and not before its time.    *)
ClosedOnceInTime == EachClosedOnce /\ NeverEarly

(* No wake-up is lost: a daemon that is closing or parked will wake by the *)
(* earliest queued deadline.  An entry it has not seen has a kick token in *)
(* the channel, or a caller about to leave one, although tokens are        *)
(* dropped when one is there and may be left over from another daemon.     *)
KickPending == timerKick \/ \E t \in Timers : tpc[t] = "kick"

NoLostWakeup ==
    \A d \in Daemons : dpc[d] \in {"close", "select"} =>
        \/ KickPending
        \/ \A t \in timerQueue : next[d] <= deadline[t]

(* Every timeout fires: a queued channel is eventually closed, whatever    *)
(* CancelAll does to the daemons in between.                               *)
EveryTimeoutCloses ==
    \A t \in Timers : tpc[t] = "entry" ~> closes[t] = 1

-----------------------------------------------------------------------------
(* The inductive strengthening used by CoreAsyncProofs.                    *)

\* timerMu is held exactly during the two passes over the queue.
MutexInv == \A d \in Daemons : timerMu = d <=> dpc[d] \in {"scan", "stopScan"}

\* The local variables of a daemon.
LocalInv ==
    \A d \in Daemons :
        /\ dpc[d] \in {"scan", "stopScan"} => todo[d] \subseteq timerQueue
        /\ due[d] # {} => dpc[d] \in {"scan", "close", "stopScan",
                                      "stopClose", "exitClose"}
        /\ dnow[d] <= now

\* What a pass puts in due may be closed.
DueInv ==
    \A d \in Daemons : \A t \in due[d] :
        deadline[t] <= now \/ done[t] \in cancelled

\* What a pass has kept is covered by next.
ScanInv ==
    \A d \in Daemons : dpc[d] = "scan" =>
        \A t \in timerQueue \ todo[d] : next[d] <= deadline[t]

IInv ==
    /\ TypeOK /\ MutexInv /\ LocalInv
    /\ OneServer /\ EachClosedOnce
    /\ DueInv /\ NeverEarly
    /\ ScanInv /\ NoLostWakeup

=============================================================================
