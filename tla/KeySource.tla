----------------------------- MODULE KeySource ------------------------------
(***************************************************************************)
(* pkg/rt/keysource_queued.go: key input through a queue.  A goroutine     *)
(* blocks on the input and appends what it reads; ReadKey cuts one key at  *)
(* a time off the queue, and when the front is the beginning of a longer   *)
(* key it waits for the rest, for one grace period after each arrival.     *)
(* wake, called when the terminal is resized, interrupts a ReadKey.        *)
(*                                                                         *)
(* The mutex is only released in condWait and around Read, so what is done *)
(* under it is one step.  notify holds at most one token; who is woken     *)
(* takes the mutex again in a step of its own.                             *)
(***************************************************************************)
EXTENDS Integers, Sequences

CONSTANTS
    Readers,         \* goroutines
    Programs,        \* what may be typed, and who calls ReadKey and KeyPending
    MaxWakes         \* bound: who reads -> calls of wake

\* One byte of every kind scanKey tells apart; "x" and "[" end a CSI
\* sequence, "1" does not.
Bytes == {"esc", "[", "O", "1", "x", "lead", "cont"}

ASSUME KeySourceConstants ==
    /\ Programs \subseteq Seq(Bytes) \X SUBSET Readers /\ Programs # {}
    /\ MaxWakes \in [SUBSET Readers -> Nat]

VARIABLES
    input, callers,  \* the bytes typed, and the readers, in this behaviour
    chunk, eof,      \* what Read has returned: bytes, and an error or EOF
    lpc,             \* where readLoop is
    buf, done, wakePending, notify,
    wpc, wakes,      \* where wake is, and how often it was called
    kpc,             \* reader -> where its ReadKey is
    deadline,        \* reader -> of the grace period: none, running, passed
    before,          \* reader -> the length of buf when it began to wait
    told,            \* reader -> whether KeyPending has just answered true
    keys,            \* history: where in the input the keys returned end
    late,            \* history: positions a grace period passed after
    ends             \* history: what was left when a ReadKey returned ""

loopVars == <<chunk, eof, lpc>>
wakeVars == <<wpc, wakes>>
callVars == <<kpc, deadline, before, told, keys, ends>>
keyVars == <<input, callers, loopVars, buf, done, wakePending, notify, wakeVars,
          callVars, late>>

KeyInit ==
    /\ \E prog \in Programs : input = prog[1] /\ callers = prog[2]
    /\ chunk = <<>> /\ eof = FALSE /\ lpc = "off"
    /\ buf = <<>> /\ done = FALSE /\ wakePending = FALSE /\ notify = FALSE
    /\ wpc = "idle" /\ wakes = 0
    /\ kpc = [r \in Readers |-> "idle"]
    /\ deadline = [r \in Readers |-> "none"]
    /\ before = [r \in Readers |-> 0]
    /\ told = [r \in Readers |-> FALSE]
    /\ keys = <<>> /\ late = {} /\ ends = {}

\* Where the i-th key ends, and where the next one begins.
EndOf(i) == IF i = 0 THEN 0 ELSE keys[i]
Cut == EndOf(Len(keys))

\* How many of the typed bytes have been appended to the queue.
Arrived == Cut + Len(buf)

-----------------------------------------------------------------------------
(* scanKey: whether the front of b is a whole key, and how long it is.     *)

CsiEnds(b) == {i \in 3..Len(b) : b[i] \in {"[", "O", "x"}}
Ready(n) == [whole |-> TRUE, len |-> n]
NeedMore(n) == [whole |-> FALSE, len |-> n]

scanKey(b) ==
    CASE b = <<>>                         -> Ready(0)
      [] b = <<"esc">> \/ b = <<"lead">>  -> NeedMore(1)
      [] Len(b) > 1 /\ b[1] = "esc" /\ b[2] = "[" ->
            IF CsiEnds(b) = {} THEN NeedMore(Len(b))
            ELSE Ready(CHOOSE i \in CsiEnds(b) : \A j \in CsiEnds(b) : i <= j)
      [] Len(b) > 1 /\ b[1] = "esc" /\ b[2] = "O" ->
            IF Len(b) < 3 THEN NeedMore(2) ELSE Ready(3)
      [] Len(b) > 1 /\ b[1] = "lead" /\ b[2] = "cont" -> Ready(2)
      [] OTHER                            -> Ready(1)

-----------------------------------------------------------------------------
(* readLoop                                                                *)

\* Read returns any piece of what is typed; the input may end, or fail, with
\* or after its last bytes.
Read(k, end) ==
    /\ lpc = "read" /\ (k > 0 \/ end)
    /\ chunk' = SubSeq(input, Arrived + 1, Arrived + k)
    /\ eof' = end
    /\ lpc' = "append"
    /\ UNCHANGED <<input, callers, buf, done, wakePending, notify, wakeVars,
                   callVars, late>>

\* The bytes that come with an error are appended first.
AppendChunk ==
    /\ lpc = "append"
    /\ buf' = buf \o chunk
    /\ done' = eof
    /\ chunk' = <<>> /\ lpc' = "signal"
    /\ UNCHANGED <<input, callers, eof, wakePending, notify, wakeVars, callVars, late>>

MutSignalsData ==
    /\ lpc = "signal"
    /\ notify' = (notify \/ ~done)
    /\ lpc' = IF done THEN "ended" ELSE "read"
    /\ UNCHANGED <<input, callers, chunk, eof, buf, done, wakePending, wakeVars,
                   callVars, late>>

\* A token that is there already is enough: ReadKey looks again after each.
LoopSignal ==
    /\ lpc = "signal"
    /\ notify' = TRUE
    /\ lpc' = IF done THEN "ended" ELSE "read"
    /\ UNCHANGED <<input, callers, chunk, eof, buf, done, wakePending, wakeVars,
                   callVars, late>>

-----------------------------------------------------------------------------
(* wake                                                                    *)

Wake ==
    /\ wpc = "idle" /\ wakes < MaxWakes[callers]                      \* bound
    /\ wakes' = wakes + 1
    /\ IF done THEN UNCHANGED <<wakePending, wpc>>
       ELSE wakePending' = TRUE /\ wpc' = "signal"
    /\ UNCHANGED <<input, callers, loopVars, buf, done, notify, callVars, late>>

WakeSignal ==
    /\ wpc = "signal" /\ wpc' = "idle"
    /\ notify' = TRUE
    /\ UNCHANGED <<input, callers, loopVars, buf, done, wakePending, wakes, callVars, late>>

-----------------------------------------------------------------------------
(* ReadKey.  Serve and Stitch are its two loops with the mutex held, up to *)
(* the next condWait or the return; d is the deadline Stitch starts with.  *)

Start == lpc' = IF lpc = "off" THEN "read" ELSE lpc

Return(r) ==
    /\ kpc' = [kpc EXCEPT ![r] = "idle"]
    /\ deadline' = [deadline EXCEPT ![r] = "none"]

take(r, n) ==
    /\ buf' = SubSeq(buf, n + 1, Len(buf))
    /\ IF n = 0 THEN ends' = ends \union {<<done, Len(buf)>>} /\ UNCHANGED keys
       ELSE keys' = Append(keys, Cut + n) /\ UNCHANGED ends
    /\ Return(r)
    /\ UNCHANGED <<wakePending, before>>

\* The loop that stitches: a whole key, the end of the input and a grace
\* period that has passed cut the front off.
Stitch(r, d) ==
    LET s == scanKey(buf)
    IN  \/ (s.whole \/ done \/ d = "passed") /\ take(r, s.len)
        \/ /\ ~s.whole /\ ~done /\ d # "passed"
           /\ deadline' = [deadline EXCEPT ![r] = "running"]
           /\ before' = [before EXCEPT ![r] = Len(buf)]
           /\ kpc' = [kpc EXCEPT ![r] = "stitch"]
           /\ UNCHANGED <<buf, wakePending, keys, ends>>

\* The loop that waits for anything at all: the queue comes before the end
\* of the input, and the end before a wake.
Serve(r) ==
    \/ buf # <<>> /\ Stitch(r, "none")
    \/ buf = <<>> /\ done /\ take(r, 0)
    \/ /\ buf = <<>> /\ ~done /\ wakePending
       /\ wakePending' = FALSE
       /\ Return(r)
       /\ UNCHANGED <<buf, before, keys, ends>>
    \/ /\ buf = <<>> /\ ~done /\ ~wakePending
       /\ kpc' = [kpc EXCEPT ![r] = "wait"]
       /\ UNCHANGED <<buf, wakePending, deadline, before, keys, ends>>

ReadKey(r) ==
    /\ r \in callers /\ kpc[r] = "idle"
    /\ Start
    /\ Serve(r)
    /\ told' = [told EXCEPT ![r] = @ /\ kpc'[r] = "wait"]
    /\ UNCHANGED <<input, callers, chunk, eof, done, notify, wakeVars, late>>

\* condWait returns: by a token, or by the timer of a grace period.
Woken(r) ==
    /\ \/ kpc[r] \in {"wait", "stitch"} /\ notify /\ notify' = FALSE
       \/ kpc[r] = "stitch" /\ deadline[r] = "passed" /\ UNCHANGED notify
    /\ kpc' = [kpc EXCEPT ![r] = IF kpc[r] = "wait" THEN "lockWait" ELSE "lockStitch"]
    /\ UNCHANGED <<input, callers, loopVars, buf, done, wakePending, wakeVars, deadline,
                   before, told, keys, ends, late>>

MutNoNewWindow(r) ==
    /\ \/ kpc[r] = "lockWait" /\ Serve(r)
       \/ kpc[r] = "lockStitch" /\ Stitch(r, deadline[r])
    /\ UNCHANGED <<input, callers, loopVars, done, notify, wakeVars, told, late>>

MutStaleScan(r) ==
    /\ \/ kpc[r] = "lockWait" /\ Serve(r)
       \/ kpc[r] = "lockStitch" /\ deadline[r] = "passed" /\ take(r, before[r])
       \/ /\ kpc[r] = "lockStitch" /\ deadline[r] # "passed"
          /\ Stitch(r, IF Len(buf) > before[r] THEN "none" ELSE deadline[r])
    /\ UNCHANGED <<input, callers, loopVars, done, notify, wakeVars, told, late>>

\* ... and has the mutex again.  New bytes start a new grace period.
Resume(r) ==
    /\ \/ kpc[r] = "lockWait" /\ Serve(r)
       \/ /\ kpc[r] = "lockStitch"
          /\ Stitch(r, IF Len(buf) > before[r] THEN "none" ELSE deadline[r])
    /\ UNCHANGED <<input, callers, loopVars, done, notify, wakeVars, told, late>>

KeyPending(r) ==
    /\ r \in callers /\ kpc[r] = "idle"
    /\ Start
    /\ told' = [told EXCEPT ![r] = buf # <<>> \/ (~done /\ wakePending)]
    /\ UNCHANGED <<input, callers, chunk, eof, buf, done, wakePending, notify, wakeVars,
                   kpc, deadline, before, keys, ends, late>>

\* The grace period of a reader passes.
Tick(r) ==
    /\ deadline[r] = "running"
    /\ deadline' = [deadline EXCEPT ![r] = "passed"]
    /\ late' = late \union {Cut + before[r]}
    /\ UNCHANGED <<input, callers, loopVars, buf, done, wakePending, notify, wakeVars,
                   kpc, before, told, keys, ends>>

Loop == AppendChunk \/ LoopSignal

KeyNext ==
    \/ Loop \/ Wake \/ WakeSignal
    \/ \E k \in 0..(Len(input) - Arrived), end \in BOOLEAN : Read(k, end)
    \/ \E r \in Readers :
          ReadKey(r) \/ KeyPending(r) \/ Woken(r) \/ Resume(r) \/ Tick(r)

KeySpec == KeyInit /\ [][KeyNext]_keyVars

\* Time passes and a goroutine that can go on does; nobody has to type, to
\* resize the terminal or to call ReadKey.
FairKeySpec ==
    /\ KeySpec
    /\ WF_keyVars(Loop) /\ WF_keyVars(WakeSignal)
    /\ \A r \in Readers : WF_keyVars(Woken(r)) /\ WF_keyVars(Resume(r)) /\ WF_keyVars(Tick(r))

-----------------------------------------------------------------------------
(* Properties.                                                             *)

KeyTypeOK ==
    /\ <<input, callers>> \in Programs /\ chunk \in Seq(Bytes) /\ buf \in Seq(Bytes)
    /\ lpc \in {"off", "read", "append", "signal", "ended"}
    /\ wpc \in {"idle", "signal"} /\ wakes \in 0..MaxWakes[callers]
    /\ {eof, done, wakePending, notify} \subseteq BOOLEAN
    /\ kpc \in [Readers -> {"idle", "wait", "lockWait", "stitch", "lockStitch"}]
    /\ deadline \in [Readers -> {"none", "running", "passed"}]
    /\ before \in [Readers -> 0..Len(input)]
    /\ told \in [Readers -> BOOLEAN]
    /\ keys \in Seq(1..Len(input)) /\ late \subseteq Nat

(* The keys are the bytes as they were typed, however the reads cut them   *)
(* up: nothing is lost, repeated or reordered, and no key reaches past its *)
(* end into the next one - whoever reads, and although a ReadKey that      *)
(* waits for the rest of a key lets go of the mutex                        *)
(* (keysource_queued.go:225).                                              *)
WholeKey(i) == scanKey(SubSeq(input, EndOf(i - 1) + 1, Len(input))).len

BytesInTurn ==
    /\ buf = SubSeq(input, Cut + 1, Arrived)
    /\ \A i \in 1..Len(keys) : EndOf(i) - EndOf(i - 1) \in 1..WholeKey(i)

(* A key is cut short only where a whole grace period passed without a     *)
(* byte or the input ended ("the grace is inter-byte - each byte that      *)
(* arrives resets it", keysource_queued.go:190).                           *)
CutShortLate ==
    \A i \in 1..Len(keys) :
        \/ EndOf(i) - EndOf(i - 1) = WholeKey(i)
        \/ EndOf(i) \in late
        \/ done /\ EndOf(i) = Arrived

(* "" means the end of the input (keysource.go:35): nothing is left to     *)
(* read when ReadKey returns it, and KeyPending that answered true is      *)
(* followed by a ReadKey that does not wait for something to be typed.     *)
EndIsEnd ==
    /\ ends \subseteq {<<TRUE, 0>>}
    /\ \A r \in Readers : kpc[r] \in {"wait", "lockWait"} => ~told[r]

(* What ReadKey hands out to the only reader, as a terminal has one, is     *)
(* exactly the input, and its end the end.                                 *)
OneReader == \A r, q \in callers : r = q
KeysIntact == KeyTypeOK /\ (OneReader => CutShortLate /\ EndIsEnd)

(* A ReadKey of the only reader returns once there is a byte, a wake or    *)
(* the end of the input, although tokens are dropped when one is there,    *)
(* may be stale, and a bare escape is waited on.                           *)
KeysArrive ==
    \A r \in Readers :
        callers = {r} /\ kpc[r] # "idle" /\ (buf # <<>> \/ wakePending \/ done) ~> kpc[r] = "idle"
-----------------------------------------------------------------------------
(* The inductive strengthening of the invariants.                          *)

\* What Read returned continues where the queue ends.
ReadInv ==
    /\ Arrived + Len(chunk) <= Len(input)
    /\ chunk = SubSeq(input, Arrived + 1, Arrived + Len(chunk))

TurnInv == KeyTypeOK /\ ReadInv /\ BytesInTurn

\* A ReadKey waits for the rest of a key that it still has the beginning of,
\* and a grace period has passed after the last byte it had seen.
GraceInv ==
    \A r \in Readers :
        /\ kpc[r] \in {"stitch", "lockStitch"} => before[r] \in 1..Len(buf)
        /\ deadline[r] # "none" => kpc[r] \in {"stitch", "lockStitch"}
        /\ deadline[r] = "passed" => Cut + before[r] \in late
        /\ told[r] => kpc[r] = "idle" /\ (buf # <<>> \/ done \/ wakePending)
        /\ kpc[r] # "idle" \/ told[r] => r \in callers

\* Nothing is appended once the input has ended.
DoneInv == done => lpc \in {"signal", "ended"}

\* Of the only reader.
KeyInv == TurnInv /\ CutShortLate /\ EndIsEnd /\ GraceInv /\ DoneInv

KeysInv == TurnInv /\ (OneReader => KeyInv)
=============================================================================
