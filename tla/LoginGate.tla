----------------------------- MODULE LoginGate -----------------------------
(***************************************************************************)
(* POST /login: the per-client throttle and the bound on Argon2 checks.    *)
(*                                                                         *)
(* login_submit is a synchronous endpoint, so each attempt runs on its own *)
(* thread of the pool.  The gate (security.py) is guarded by a semaphore   *)
(* and a lock; the throttle (ratelimit.py) is an OrderedDict that nothing  *)
(* guards.  CPython 3.12 can switch threads after any call, so one step    *)
(* here is what runs between two calls: `get` on the table is one step,    *)
(* `del`, or `move_to_end`, on what it returned is another.  A window is   *)
(* an object: a thread can still hold one that has left the table.         *)
(***************************************************************************)
EXTENDS Integers, Sequences, FiniteSets

CONSTANTS
    Threads,        \* threads of the pool that run login_submit
    Keys,           \* client addresses, the keys of the throttle
    Cells,          \* bound of the model: room for live window objects
    None,           \* no window, no address
    MaxConcurrent,  \* login_max_concurrent_verifications
    MaxAttempts,    \* login_max_attempts
    MaxKeys,        \* max_keys of the table
    Window,         \* window_seconds, in ticks
    Second,         \* ticks in a second: time.monotonic() has fractions
    MaxTime         \* bound of the model: last tick of the clock

\* config.py bounds the settings below by 1.  A thread holds one window at
\* most and a key has one, so this many cells never run out.
ASSUME LoginAssumption ==
    /\ MaxConcurrent \in Nat \ {0} /\ MaxAttempts \in Nat \ {0}
    /\ MaxKeys \in Nat \ {0} /\ Window \in Nat \ {0}
    /\ Second \in Nat \ {0} /\ MaxTime \in Nat
    /\ IsFiniteSet(Threads) /\ IsFiniteSet(Keys)
    /\ Cells \subseteq Nat /\ IsFiniteSet(Cells)
    /\ Cardinality(Cells) >= Cardinality(Keys) + Cardinality(Threads)
    /\ None \notin Nat /\ None \notin Keys

VARIABLES
    now,                 \* time.monotonic()
    order,               \* keys of _windows, least recently used first
    win,                 \* the window under each key, or None
    started, failures,   \* fields of each window object
    slots, inFlight,     \* the gate: _semaphore and _in_flight
    pc, key,             \* each thread: next step, client address
    moment, seen,        \* its locals `moment` and `window`
    outcome,             \* password_is_correct, or that the check raised
    wait                 \* Retry-After of its 429 response, in seconds

table   == <<order, win, started, failures>>
gate    == <<slots, inFlight>>
locals  == <<key, moment, seen, outcome, wait>>
vars    == <<now, table, gate, pc, locals>>

Steps == {"idle", "retry.get", "retry.judge", "decide", "blocked",
          "admit", "enter", "verify", "leave", "release", "reset",
          "fail", "fail.get", "fail.judge", "count", "evict", "pop", "error"}

TypeOK ==
    /\ now \in 0..MaxTime
    /\ order \in Seq(Keys)
    /\ win \in [Keys -> Cells \cup {None}]
    /\ started \in [Cells -> 0..MaxTime] /\ failures \in [Cells -> Nat]
    /\ slots \in 0..MaxConcurrent /\ inFlight \in Nat
    /\ pc \in [Threads -> Steps] /\ key \in [Threads -> Keys \cup {None}]
    /\ moment \in [Threads -> 0..MaxTime]
    /\ seen \in [Threads -> Cells \cup {None}]
    /\ outcome \in [Threads -> {"none", "right", "wrong", "raised"}]
    /\ wait \in [Threads -> Nat]

Init ==
    /\ now = 0
    /\ order = <<>> /\ win = [k \in Keys |-> None]
    /\ started = [c \in Cells |-> 0] /\ failures = [c \in Cells |-> 0]
    /\ slots = MaxConcurrent /\ inFlight = 0
    /\ pc = [t \in Threads |-> "idle"] /\ key = [t \in Threads |-> None]
    /\ moment = [t \in Threads |-> 0] /\ seen = [t \in Threads |-> None]
    /\ outcome = [t \in Threads |-> "none"] /\ wait = [t \in Threads |-> 0]

Goto(t, step) == pc' = [pc EXCEPT ![t] = step]

-----------------------------------------------------------------------------
(* The table of windows *)

Live == {c \in Cells : (\E k \in Keys : win[k] = c) \/ (\E t \in Threads : seen[t] = c)}

Tabled == {k \in Keys : win[k] # None}

\* A key has one place in the dictionary, and the places after it move up.
Without(k) ==
    IF \E i \in DOMAIN order : order[i] = k
    THEN LET place == CHOOSE i \in DOMAIN order : order[i] = k
         IN  [i \in 1..(Len(order) - 1) |-> order[IF i < place THEN i ELSE i + 1]]
    ELSE order

\* del self._windows[key], pop(key), popitem
Drop(k) ==
    /\ order' = Without(k)
    /\ win' = [win EXCEPT ![k] = None]
    /\ UNCHANGED <<started, failures>>

MoveToEnd(k) ==
    /\ order' = Append(Without(k), k)
    /\ UNCHANGED <<win, started, failures>>

\* window = self._windows.get(key)
Get(t, here, next) ==
    /\ pc[t] = here
    /\ seen' = [seen EXCEPT ![t] = win[key[t]]]
    /\ Goto(t, next)
    /\ UNCHANGED <<now, table, gate, key, moment, outcome, wait>>

\* The rest of _current.  `del` and move_to_end act on the key as the table has
\* it now: on another window than `window`, or on nothing, which is a KeyError.
Expired(t) == moment[t] - started[seen[t]] >= Window

Judge(t, here, next) ==
    /\ pc[t] = here
    /\ \/ /\ seen[t] = None
          /\ Goto(t, next)
          /\ UNCHANGED <<table, seen>>
       \/ /\ seen[t] # None /\ Expired(t) /\ win[key[t]] # None
          /\ Drop(key[t])
          /\ seen' = [seen EXCEPT ![t] = None]
          /\ Goto(t, next)
       \/ /\ seen[t] # None /\ ~Expired(t) /\ win[key[t]] # None
          /\ MoveToEnd(key[t])
          /\ Goto(t, next)
          /\ UNCHANGED seen
       \/ /\ seen[t] # None /\ win[key[t]] = None
          /\ Goto(t, "error")
          /\ UNCHANGED <<table, seen>>
    /\ UNCHANGED <<now, gate, key, moment, outcome, wait>>

-----------------------------------------------------------------------------
(* retry_after: may this client try at all? *)

Finish(t) ==
    /\ Goto(t, "idle")
    /\ seen' = [seen EXCEPT ![t] = None]
    /\ moment' = [moment EXCEPT ![t] = 0]
    /\ outcome' = [outcome EXCEPT ![t] = "none"]
    /\ wait' = [wait EXCEPT ![t] = 0]
    /\ key' = [key EXCEPT ![t] = None]

Arrive(t, k) ==
    /\ pc[t] = "idle"
    /\ key' = [key EXCEPT ![t] = k]
    /\ moment' = [moment EXCEPT ![t] = now]
    /\ Goto(t, "retry.get")
    /\ UNCHANGED <<now, table, gate, seen, outcome, wait>>

\* Mutant: off by one.
MayTryOnceMore(t) == seen[t] # None => failures[seen[t]] <= MaxAttempts

MayTry(t) == seen[t] # None => failures[seen[t]] < MaxAttempts

\* Mutant: rounded down.
SecondsRoundedDown(t) ==
    LET whole == (started[seen[t]] + Window - moment[t]) \div Second
    IN  IF whole > 1 THEN whole ELSE 1

\* max(1, int(started_at + window_seconds - moment) + 1)
SecondsToWait(t) ==
    LET whole == (started[seen[t]] + Window - moment[t]) \div Second + 1
    IN  IF whole > 1 THEN whole ELSE 1

Decide(t) ==
    /\ pc[t] = "decide"
    /\ \/ /\ MayTry(t)
          /\ Goto(t, "admit")
          /\ seen' = [seen EXCEPT ![t] = None]
          /\ UNCHANGED wait
       \/ /\ ~MayTry(t)
          /\ wait' = [wait EXCEPT ![t] = SecondsToWait(t)]
          /\ Goto(t, "blocked")
          /\ UNCHANGED seen
    /\ UNCHANGED <<now, table, gate, key, moment, outcome>>

\* The 429 page, or the 500 of a call that raised.
Answer(t) ==
    /\ pc[t] \in {"blocked", "error"}
    /\ Finish(t)
    /\ UNCHANGED <<now, table, gate>>

-----------------------------------------------------------------------------
(* PasswordVerificationGate.admit *)

\* Mutant: a refused attempt is booked as a failure.
AdmitBooksRefusal(t) ==
    /\ pc[t] = "admit"
    /\ \/ slots > 0 /\ slots' = slots - 1 /\ Goto(t, "enter")
       \/ slots = 0 /\ Goto(t, "fail") /\ UNCHANGED slots
    /\ UNCHANGED <<now, table, inFlight, locals>>

\* acquire(blocking=False): no slot is the 503 page at once, never a wait.
Admit(t) ==
    /\ pc[t] = "admit"
    /\ \/ /\ slots > 0
          /\ slots' = slots - 1
          /\ Goto(t, "enter")
          /\ UNCHANGED locals
       \/ /\ slots = 0
          /\ Finish(t)
          /\ UNCHANGED slots
    /\ UNCHANGED <<now, table, inFlight>>

Enter(t) ==
    /\ pc[t] = "enter"
    /\ inFlight' = inFlight + 1
    /\ Goto(t, "verify")
    /\ UNCHANGED <<now, table, slots, locals>>

\* Mutant: no finally, a check that raises leaves with its slot.
VerifyEscapes(t) ==
    /\ pc[t] = "verify"
    /\ \E v \in {"right", "wrong", "raised"} :
          /\ outcome' = [outcome EXCEPT ![t] = v]
          /\ Goto(t, IF v = "raised" THEN "error" ELSE "leave")
    /\ UNCHANGED <<now, table, gate, key, moment, seen, wait>>

\* verify_view_password.  It turns the errors of a bad password or a malformed
\* hash into a wrong password; anything else is raised through the gate.
Verify(t) ==
    /\ pc[t] = "verify"
    /\ \E v \in {"right", "wrong", "raised"} : outcome' = [outcome EXCEPT ![t] = v]
    /\ Goto(t, "leave")
    /\ UNCHANGED <<now, table, gate, key, moment, seen, wait>>

\* The finally block.
Leave(t) ==
    /\ pc[t] = "leave"
    /\ inFlight' = inFlight - 1
    /\ Goto(t, "release")
    /\ UNCHANGED <<now, table, slots, locals>>

AfterGate(t) ==
    CASE outcome[t] = "right"  -> "reset"
      [] outcome[t] = "wrong"  -> "fail"
      [] outcome[t] = "raised" -> "error"

Release(t) ==
    /\ pc[t] = "release"
    /\ slots' = slots + 1
    /\ Goto(t, AfterGate(t))
    /\ UNCHANGED <<now, table, inFlight, locals>>

\* limiter.reset, then the session cookie.
Reset(t) ==
    /\ pc[t] = "reset"
    /\ Drop(key[t])
    /\ Finish(t)
    /\ UNCHANGED <<now, gate>>

-----------------------------------------------------------------------------
(* register_failure, then the 401 page *)

Fail(t) ==
    /\ pc[t] = "fail"
    /\ moment' = [moment EXCEPT ![t] = now]
    /\ Goto(t, "fail.get")
    /\ UNCHANGED <<now, table, gate, key, seen, outcome, wait>>

\* A new window takes the place of one another thread put there meanwhile; a
\* window that has left the table is counted on all the same.
Count(t) ==
    /\ pc[t] = "count"
    /\ \/ /\ seen[t] = None
          /\ Cells \ Live # {}  \* always so, by LoginAssumption
          /\ LET c == CHOOSE c \in Cells \ Live : TRUE IN
                /\ started' = [started EXCEPT ![c] = moment[t]]
                /\ failures' = [failures EXCEPT ![c] = 1]
                /\ win' = [win EXCEPT ![key[t]] = c]
          /\ order' = Append(Without(key[t]), key[t])
       \/ /\ seen[t] # None
          /\ failures' = [failures EXCEPT ![seen[t]] = @ + 1]
          /\ UNCHANGED <<order, win, started>>
    /\ seen' = [seen EXCEPT ![t] = None]
    /\ Goto(t, "evict")
    /\ UNCHANGED <<now, gate, key, moment, outcome, wait>>

\* Mutant: off by one.
OneTooMany == Len(order) > MaxKeys + 1

\* while len(self._windows) > self.max_keys
TooMany == Len(order) > MaxKeys

Evict(t) ==
    /\ pc[t] = "evict"
    /\ \/ TooMany /\ Goto(t, "pop") /\ UNCHANGED locals
       \/ ~TooMany /\ Finish(t)
    /\ UNCHANGED <<now, table, gate>>

\* popitem(last=False)
Pop(t) ==
    /\ pc[t] = "pop"
    /\ \/ order # <<>> /\ Drop(Head(order)) /\ Goto(t, "evict")
       \/ order = <<>> /\ Goto(t, "error") /\ UNCHANGED table
    /\ UNCHANGED <<now, gate, locals>>

-----------------------------------------------------------------------------
RetryAfter(t) ==
    \/ Get(t, "retry.get", "retry.judge")
    \/ Judge(t, "retry.judge", "decide")
    \/ Decide(t)

RegisterFailure(t) ==
    \/ Fail(t)
    \/ Get(t, "fail.get", "fail.judge")
    \/ Judge(t, "fail.judge", "count")
    \/ Count(t) \/ Evict(t) \/ Pop(t)

InGate(t) == Enter(t) \/ Verify(t) \/ Leave(t) \/ Release(t)

Step(t) ==
    \/ \E k \in Keys : Arrive(t, k)
    \/ RetryAfter(t) \/ Admit(t) \/ InGate(t) \/ Reset(t)
    \/ RegisterFailure(t) \/ Answer(t)

Tick ==
    /\ now < MaxTime
    /\ now' = now + 1
    /\ UNCHANGED <<table, gate, pc, locals>>

Next == Tick \/ \E t \in Threads : Step(t)

Spec == Init /\ [][Next]_vars

\* An admitted thread is scheduled, and an Argon2 check ends.
FairSpec == Spec /\ \A t \in Threads : WF_vars(InGate(t))

-----------------------------------------------------------------------------
(* What the login promises *)

Holding  == {t \in Threads : pc[t] \in {"enter", "verify", "leave", "release"}}
Counted  == {t \in Threads : pc[t] \in {"verify", "leave"}}
Evicting == {t \in Threads : pc[t] \in {"evict", "pop"}}

\* No two records of the gate drift apart, whatever order threads enter, leave,
\* raise or are turned away in: every slot is free or held by one thread, so at
\* most MaxConcurrent Argon2 checks run, and in_flight (`available` is computed
\* from it) is the number of threads between its increment and its decrement.
GateAccounted ==
    /\ slots + Cardinality(Holding) = MaxConcurrent
    /\ inFlight = Cardinality(Counted)

\* The dictionary and its order agree, and the table outgrows its cap by no more
\* than the threads that are still evicting: "the key table is capped".
TableBounded ==
    /\ {order[i] : i \in DOMAIN order} = Tabled
    /\ Len(order) = Cardinality(Tabled)
    /\ Len(order) <= MaxKeys + Cardinality(Evicting)

\* A window's count passes the limit only by the attempts that were let in
\* before it got there: retry_after and register_failure are not one step, so
\* each of the other threads can add one failure and no thread adds two.
FailuresBounded ==
    \A k \in Keys : win[k] # None =>
        failures[win[k]] <= MaxAttempts - 1 + Cardinality(Threads)

\* Retry-After points past the end of the window that blocked the client, and
\* not more than a second past it, although the clock has fractions and the
\* header has whole seconds.
WaitCoversWindow ==
    \A t \in Threads : pc[t] = "blocked" =>
        LET due   == started[seen[t]] + Window
            again == moment[t] + wait[t] * Second
        IN  due < again /\ again <= due + Second

\* Only a password found wrong counts against a client: neither an attempt the
\* gate sheds, nor one of another address, nor a check that raised does.
Fails(k) == IF win[k] = None THEN 0 ELSE failures[win[k]]

OnlyWrongPasswordsCount ==
    [][\A k \in Keys : Fails(k)' > Fails(k) =>
        \E t \in Threads : key[t] = k /\ outcome[t] = "wrong" /\ pc'[t] # pc[t]]_vars

\* A saturated gate opens again: "the slot is returned on the way out even if
\* the body raises", so a 503 is never for good.
GateReopens == slots = 0 ~> slots > 0

\* ratelimit.py: retry_after returns the "Seconds the caller must wait, or 0
\* when another attempt is allowed"; it has no third outcome.
LimiterAnswers == \A t \in Threads : pc[t] = "error" => outcome[t] = "raised"

-----------------------------------------------------------------------------
(* The inductive invariant behind GateAccounted and FailuresBounded *)

ValuesOK ==
    /\ win \in [Keys -> Cells \cup {None}]
    /\ seen \in [Threads -> Cells \cup {None}]
    /\ failures \in [Cells -> Nat]
    /\ slots \in Nat /\ inFlight \in Nat
    /\ pc \in [Threads -> Steps] /\ key \in [Threads -> Keys \cup {None}]
    /\ outcome \in [Threads -> {"none", "right", "wrong", "raised"}]

LocalsFit ==
    \A t \in Threads :
        /\ pc[t] = "idle" => seen[t] = None
        /\ pc[t] # "idle" => key[t] \in Keys
        /\ pc[t] \in {"leave", "release"} => outcome[t] # "none"

\* A window is under one key, and in the hands of that key's threads only.
OneOwner ==
    /\ \A j, k \in Keys : win[j] # None /\ win[j] = win[k] => j = k
    /\ \A t \in Threads, k \in Keys : seen[t] # None /\ seen[t] = win[k] => key[t] = k

\* Threads that may still add a failure to k's window although it is full:
\* those let in, and those about to decide on another window or on none.
LetIn == {"admit", "enter", "verify", "leave", "release",
          "fail", "fail.get", "fail.judge", "count"}

Loose(k) ==
    {t \in Threads : /\ key[t] = k
                     /\ \/ pc[t] \in LetIn
                        \/ pc[t] \in {"retry.judge", "decide"} /\ seen[t] # win[k]}

RoomForLoose ==
    \A k \in Keys : win[k] # None =>
        failures[win[k]] + Cardinality(Loose(k)) <= MaxAttempts - 1 + Cardinality(Threads)

LoginInv == ValuesOK /\ LocalsFit /\ GateAccounted /\ OneOwner /\ RoomForLoose

\* What stands behind TableBounded: no key is in the order twice; and behind
\* OnlyWrongPasswordsCount: who books a failure has found a password wrong.
OrderFits == order \in Seq(Keys) /\ \A i, j \in DOMAIN order : order[i] = order[j] => i = j

BookingIsWrong ==
    \A t \in Threads :
        pc[t] \in {"fail", "fail.get", "fail.judge", "count"} => outcome[t] = "wrong"

TableInv == OrderFits /\ TableBounded /\ BookingIsWrong

\* What stands behind WaitCoversWindow: a window that is about to be judged by
\* its count has not expired, and nobody moves its start.
WaitOK ==
    /\ now \in Nat /\ started \in [Cells -> Nat]
    /\ moment \in [Threads -> Nat] /\ wait \in [Threads -> Nat]
    /\ \A t \in Threads :
        /\ pc[t] \in {"decide", "blocked"} /\ seen[t] # None => ~Expired(t)
        /\ pc[t] = "blocked" => seen[t] # None
    /\ WaitCoversWindow
=============================================================================
