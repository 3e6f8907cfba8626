--------------------------- MODULE LoginGateProofs ---------------------------
(***************************************************************************)
(* Theorems about LoginGate for every set of threads and addresses and     *)
(* every value of the limits that satisfies LoginAssumption.               *)
(***************************************************************************)
EXTENDS LoginGate, FiniteSetTheorems, TLAPS

\* A set of threads that one step may leave or join, but for thread t only.
LEMMA OneThreadMoves ==
    ASSUME NEW t, NEW S, NEW T, IsFiniteSet(S), IsFiniteSet(T),
           \A u : u # t => (u \in S <=> u \in T)
    PROVE  /\ t \in S /\ t \in T => Cardinality(T) = Cardinality(S)
           /\ t \notin S /\ t \notin T => Cardinality(T) = Cardinality(S)
           /\ t \in S /\ t \notin T => Cardinality(T) = Cardinality(S) - 1
           /\ t \notin S /\ t \in T => Cardinality(T) = Cardinality(S) + 1
<1>1. (t \in S <=> t \in T) => S = T
  OBVIOUS
<1>2. t \in S /\ t \notin T => T = S \ {t}
  OBVIOUS
<1>3. t \notin S /\ t \in T => T = S \cup {t}
  OBVIOUS
<1>4. QED BY <1>1, <1>2, <1>3, FS_AddElement, FS_RemoveElement

\* The sets of threads the invariant counts are finite, and no larger than Threads.
LEMMA ThreadSetsFinite ==
    ASSUME NEW S \in SUBSET Threads
    PROVE  /\ IsFiniteSet(S) /\ Cardinality(S) \in Nat
           /\ Cardinality(S) <= Cardinality(Threads)
           /\ \A t \in Threads \ S : Cardinality(S) <= Cardinality(Threads) - 1
<1>1. /\ IsFiniteSet(S) /\ Cardinality(S) \in Nat /\ Cardinality(Threads) \in Nat
      /\ Cardinality(S) <= Cardinality(Threads)
      /\ Cardinality(S) = Cardinality(Threads) => S = Threads
  BY LoginAssumption, FS_Subset, FS_CardinalityType
<1>2. QED BY <1>1

\* A step that moves thread t from outside the gate to outside, or from one
\* step in it to another, keeps the account; the others are Admit and Release,
\* Enter and Leave.
LEMMA GateStep ==
    ASSUME LoginInv, NEW t \in Threads, NEW s \in Steps, Goto(t, s)
    PROVE  /\ t \in Holding' <=> s \in {"enter", "verify", "leave", "release"}
           /\ t \in Counted' <=> s \in {"verify", "leave"}
           /\ (t \in Holding <=> t \in Holding') => Cardinality(Holding') = Cardinality(Holding)
           /\ t \in Holding /\ t \notin Holding' =>
                Cardinality(Holding') = Cardinality(Holding) - 1
           /\ t \notin Holding /\ t \in Holding' =>
                Cardinality(Holding') = Cardinality(Holding) + 1
           /\ (t \in Counted <=> t \in Counted') => Cardinality(Counted') = Cardinality(Counted)
           /\ t \in Counted /\ t \notin Counted' =>
                Cardinality(Counted') = Cardinality(Counted) - 1
           /\ t \notin Counted /\ t \in Counted' =>
                Cardinality(Counted') = Cardinality(Counted) + 1
<1>1. /\ pc \in [Threads -> Steps]
      /\ pc' = [pc EXCEPT ![t] = s]
  BY DEF LoginInv, ValuesOK, Goto
<1>2. /\ t \in Holding' <=> s \in {"enter", "verify", "leave", "release"}
      /\ t \in Counted' <=> s \in {"verify", "leave"}
  BY <1>1 DEF Holding, Counted
<1>3. /\ \A u : u # t => (u \in Holding <=> u \in Holding')
      /\ \A u : u # t => (u \in Counted <=> u \in Counted')
  BY <1>1 DEF Holding, Counted
<1>4. /\ IsFiniteSet(Holding) /\ IsFiniteSet(Holding')
      /\ IsFiniteSet(Counted) /\ IsFiniteSet(Counted')
  BY ThreadSetsFinite DEF Holding, Counted
<1>5. /\ (t \in Holding <=> t \in Holding') => Cardinality(Holding') = Cardinality(Holding)
      /\ t \in Holding /\ t \notin Holding' => Cardinality(Holding') = Cardinality(Holding) - 1
      /\ t \notin Holding /\ t \in Holding' => Cardinality(Holding') = Cardinality(Holding) + 1
  BY <1>3, <1>4, OneThreadMoves
<1>6. /\ (t \in Counted <=> t \in Counted') => Cardinality(Counted') = Cardinality(Counted)
      /\ t \in Counted /\ t \notin Counted' => Cardinality(Counted') = Cardinality(Counted) - 1
      /\ t \notin Counted /\ t \in Counted' => Cardinality(Counted') = Cardinality(Counted) + 1
  BY <1>3, <1>4, OneThreadMoves
<1>. QED BY <1>2, <1>5, <1>6

\* The four actions that change a record of the gate.
LEMMA GateActionsKeepAccount ==
    ASSUME LoginInv, NEW t \in Threads, Admit(t) \/ InGate(t)
    PROVE  GateAccounted'
<1>. USE DEF LoginInv, GateAccounted
<1>0. Cardinality(Holding) \in Nat /\ Cardinality(Counted) \in Nat /\ MaxConcurrent \in Nat
  BY ThreadSetsFinite, LoginAssumption DEF Holding, Counted
<1>1. CASE Admit(t)
  <2>1. PICK s \in {"enter", "idle"} :
          /\ Goto(t, s) /\ inFlight' = inFlight
          /\ s = "enter" => slots' = slots - 1
          /\ s = "idle" => slots' = slots
    BY <1>1 DEF Admit, Finish
  <2>2. t \notin Holding /\ t \notin Counted
    BY <1>1 DEF Admit, Holding, Counted
  <2>. QED BY <1>0, <2>1, <2>2, GateStep DEF Steps, ValuesOK
<1>2. CASE Enter(t)
  <2>1. t \in Holding /\ t \notin Counted
    BY <1>2 DEF Enter, Holding, Counted
  <2>. QED BY <1>0, <1>2, <2>1, GateStep DEF Enter, gate, Steps, ValuesOK
<1>3. CASE Verify(t)
  <2>1. t \in Holding /\ t \in Counted
    BY <1>3 DEF Verify, Holding, Counted
  <2>. QED BY <1>0, <1>3, <2>1, GateStep DEF Verify, gate, Steps, ValuesOK
<1>4. CASE Leave(t)
  <2>1. t \in Holding /\ t \in Counted
    BY <1>4 DEF Leave, Holding, Counted
  <2>. QED BY <1>0, <1>4, <2>1, GateStep DEF Leave, gate, Steps, ValuesOK
<1>5. CASE Release(t)
  <2>1. t \in Holding /\ t \notin Counted
    BY <1>5 DEF Release, Holding, Counted
  <2>2. AfterGate(t) \in {"reset", "fail", "error"}
    BY <1>5 DEF Release, LocalsFit, ValuesOK, AfterGate
  <2>. QED BY <1>0, <1>5, <2>1, <2>2, GateStep DEF Release, gate, Steps, ValuesOK
<1>. QED BY <1>1, <1>2, <1>3, <1>4, <1>5 DEF InGate

\* What the other threads are doing is not disturbed by a step of t.
OnlyMoves(t) ==
    \A u \in Threads \ {t} : pc'[u] = pc[u] /\ key'[u] = key[u] /\ seen'[u] = seen[u]

\* A step of t changes who is loose for k by t at most, unless it changes k's window.
LEMMA LooseStep ==
    ASSUME NEW t \in Threads, NEW k \in Keys, OnlyMoves(t), win'[k] = win[k]
    PROVE  /\ Cardinality(Loose(k)) \in Nat /\ Cardinality(Loose(k)') \in Nat
           /\ (t \in Loose(k) <=> t \in Loose(k)') =>
                Cardinality(Loose(k)') = Cardinality(Loose(k))
           /\ t \in Loose(k) /\ t \notin Loose(k)' =>
                Cardinality(Loose(k)') = Cardinality(Loose(k)) - 1
           /\ t \notin Loose(k) /\ t \in Loose(k)' =>
                Cardinality(Loose(k)') = Cardinality(Loose(k)) + 1
<1>1. \A u : u # t => (u \in Loose(k) <=> u \in Loose(k)')
  BY DEF Loose, OnlyMoves
<1>2. /\ IsFiniteSet(Loose(k)) /\ Cardinality(Loose(k)) \in Nat
      /\ IsFiniteSet(Loose(k)') /\ Cardinality(Loose(k)') \in Nat
  BY ThreadSetsFinite DEF Loose
<1>. QED BY <1>1, <1>2, OneThreadMoves

\* A step that adds no failure, gives no key a new window and lets no thread
\* into a full window keeps the room.
LEMMA RoomIsKept ==
    ASSUME LoginInv, NEW t \in Threads, OnlyMoves(t), failures' = failures,
           \A k \in Keys : win'[k] = win[k] \/ win'[k] = None,
           \A k \in Keys : win'[k] # None /\ t \in Loose(k)' => t \in Loose(k)
    PROVE  RoomForLoose'
<1>1. SUFFICES ASSUME NEW k \in Keys, win'[k] # None
               PROVE  failures[win[k]] + Cardinality(Loose(k)') <=
                        MaxAttempts - 1 + Cardinality(Threads)
  BY DEF RoomForLoose, Loose
<1>2. win[k] \in Cells /\ win[k] # None /\ failures[win[k]] \in Nat
  BY <1>1, LoginAssumption DEF LoginInv, ValuesOK
<1>3. failures[win[k]] + Cardinality(Loose(k)) <= MaxAttempts - 1 + Cardinality(Threads)
  BY <1>2 DEF LoginInv, RoomForLoose
<1>4. Cardinality(Loose(k)') <= Cardinality(Loose(k)) /\ Cardinality(Loose(k)') \in Nat
      /\ Cardinality(Loose(k)) \in Nat
  BY <1>1, LooseStep
<1>5. MaxAttempts \in Nat /\ Cardinality(Threads) \in Nat
  BY LoginAssumption, ThreadSetsFinite
<1>. QED BY <1>2, <1>3, <1>4, <1>5

\* Moving t between steps outside the gate keeps the gate's account.
LEMMA OutsideGate ==
    ASSUME LoginInv, NEW t \in Threads, NEW s \in Steps, Goto(t, s), UNCHANGED gate,
           pc[t] \notin {"enter", "verify", "leave", "release"},
           s \notin {"enter", "verify", "leave", "release"}
    PROVE  GateAccounted'
<1>1. t \notin Holding /\ t \notin Counted
  BY DEF Holding, Counted
<1>. QED BY <1>1, GateStep DEF gate, LoginInv, GateAccounted

\* Reading the table: retry_after and register_failure alike.
LEMMA GetKeepsInv ==
    ASSUME LoginInv, NEW t \in Threads,
           \/ Get(t, "retry.get", "retry.judge")
           \/ Get(t, "fail.get", "fail.judge")
    PROVE  LoginInv'
<1>1. PICK s \in {"retry.judge", "fail.judge"} :
        /\ Goto(t, s)
        /\ pc[t] = IF s = "retry.judge" THEN "retry.get" ELSE "fail.get"
  BY DEF Get
<1>2. /\ seen' = [seen EXCEPT ![t] = win[key[t]]] /\ UNCHANGED <<table, gate, key, outcome>>
      /\ pc' = [pc EXCEPT ![t] = s] /\ pc[t] \in {"retry.get", "fail.get"}
  BY <1>1 DEF Get, Goto
<1>3. key[t] \in Keys
  BY <1>2 DEF LoginInv, LocalsFit
<1>4. ValuesOK'
  BY <1>1, <1>2, <1>3 DEF LoginInv, ValuesOK, Steps, table, gate
<1>5. LocalsFit'
  BY <1>1, <1>2, <1>3 DEF LoginInv, ValuesOK, LocalsFit
<1>6. OneOwner'
  BY <1>2, <1>3 DEF LoginInv, ValuesOK, OneOwner, table
<1>7. GateAccounted'
  BY <1>1, <1>2, OutsideGate DEF Steps
<1>8. RoomForLoose'
  <2>1. OnlyMoves(t) /\ failures' = failures /\ win' = win
    BY <1>2 DEF OnlyMoves, LoginInv, ValuesOK, table
  <2>2. \A k \in Keys : t \in Loose(k)' => t \in Loose(k)
    BY <1>1, <1>2 DEF Loose, LetIn, LoginInv, ValuesOK, table
  <2>. QED BY <2>1, <2>2, RoomIsKept
<1>. QED BY <1>4, <1>5, <1>6, <1>7, <1>8 DEF LoginInv

\* The rest of _current: a window expires, is used again, or is found gone.
LEMMA JudgeKeepsInv ==
    ASSUME LoginInv, NEW t \in Threads,
           \/ Judge(t, "retry.judge", "decide")
           \/ Judge(t, "fail.judge", "count")
    PROVE  LoginInv'
<1>1. PICK s \in {"decide", "count", "error"} :
        /\ Goto(t, s)
        /\ s = "decide" => pc[t] = "retry.judge"
        /\ s = "count" => pc[t] = "fail.judge"
        /\ pc[t] \in {"retry.judge", "fail.judge"}
        /\ UNCHANGED <<gate, key, outcome, failures>>
        /\ \/ win' = win /\ seen' = seen
           \/ win' = [win EXCEPT ![key[t]] = None] /\ seen' = [seen EXCEPT ![t] = None]
  BY DEF Judge, Drop, MoveToEnd, table
<1>2. pc' = [pc EXCEPT ![t] = s] /\ key[t] \in Keys /\ pc \in [Threads -> Steps]
  BY <1>1 DEF Goto, LoginInv, LocalsFit, ValuesOK
<1>3. ValuesOK'
  BY <1>1, <1>2 DEF LoginInv, ValuesOK, Steps, gate
<1>4. LocalsFit'
  BY <1>1, <1>2 DEF LoginInv, ValuesOK, LocalsFit
<1>5. OneOwner'
  BY <1>1, <1>2 DEF LoginInv, ValuesOK, OneOwner
<1>6. GateAccounted'
  BY <1>1, OutsideGate DEF Steps
<1>7. RoomForLoose'
  <2>1. OnlyMoves(t) /\ failures' = failures
    BY <1>1, <1>2 DEF OnlyMoves, LoginInv, ValuesOK
  <2>2. \A k \in Keys : win'[k] = win[k] \/ win'[k] = None
    BY <1>1 DEF LoginInv, ValuesOK
  <2>3. \A k \in Keys : win'[k] # None /\ t \in Loose(k)' => t \in Loose(k)
    BY <1>1, <1>2 DEF Loose, LetIn, LoginInv, ValuesOK
  <2>. QED BY <2>1, <2>2, <2>3, RoomIsKept
<1>. QED BY <1>3, <1>4, <1>5, <1>6, <1>7 DEF LoginInv

\* retry_after answers: a thread becomes loose only for a window that has room.
LEMMA DecideKeepsInv ==
    ASSUME LoginInv, NEW t \in Threads, Decide(t)
    PROVE  LoginInv'
<1>1. PICK s \in {"admit", "blocked"} :
        /\ Goto(t, s) /\ pc[t] = "decide"
        /\ UNCHANGED <<win, failures, gate, key, outcome>>
        /\ s = "admit" => MayTry(t) /\ seen' = [seen EXCEPT ![t] = None]
        /\ s = "blocked" => seen' = seen
  BY DEF Decide, table
<1>2. pc' = [pc EXCEPT ![t] = s] /\ key[t] \in Keys /\ pc \in [Threads -> Steps]
  BY <1>1 DEF Goto, LoginInv, LocalsFit, ValuesOK
<1>3. ValuesOK'
  BY <1>1, <1>2 DEF LoginInv, ValuesOK, Steps, gate
<1>4. LocalsFit'
  BY <1>1, <1>2 DEF LoginInv, ValuesOK, LocalsFit
<1>5. OneOwner'
  BY <1>1, <1>2 DEF LoginInv, ValuesOK, OneOwner
<1>6. GateAccounted'
  BY <1>1, OutsideGate DEF Steps
<1>7. OnlyMoves(t)
  BY <1>1, <1>2 DEF OnlyMoves, LoginInv, ValuesOK
<1>8. CASE \E k \in Keys : win[k] # None /\ t \in Loose(k)' /\ t \notin Loose(k)
  <2>1. PICK k \in Keys : win[k] # None /\ t \in Loose(k)' /\ t \notin Loose(k)
    BY <1>8
  <2>2. s = "admit" /\ seen[t] = win[k] /\ key[t] = k
    BY <1>1, <1>2, <2>1 DEF Loose, LetIn
  <2>3. failures[win[k]] \in Nat /\ failures[win[k]] < MaxAttempts
    BY <1>1, <2>1, <2>2 DEF MayTry, LoginInv, ValuesOK
  <2>4. failures'[win'[k]] + Cardinality(Loose(k)') <= MaxAttempts - 1 + Cardinality(Threads)
    <3>1. Cardinality(Loose(k)') \in Nat /\ Cardinality(Loose(k)') <= Cardinality(Threads)
      BY ThreadSetsFinite DEF Loose
    <3>2. MaxAttempts \in Nat /\ Cardinality(Threads) \in Nat
      BY LoginAssumption, ThreadSetsFinite
    <3>. QED BY <1>1, <2>3, <3>1, <3>2
  <2>5. ASSUME NEW j \in Keys, j # k, win[j] # None
        PROVE  failures'[win'[j]] + Cardinality(Loose(j)') <=
                 MaxAttempts - 1 + Cardinality(Threads)
    <3>1. t \notin Loose(j) /\ t \notin Loose(j)'
      BY <1>1, <2>2, <2>5 DEF Loose
    <3>2. Cardinality(Loose(j)') = Cardinality(Loose(j))
      BY <1>1, <1>7, <3>1, LooseStep
    <3>. QED BY <1>1, <2>5, <3>2 DEF LoginInv, RoomForLoose
  <2>6. RoomForLoose'
    BY <1>1, <2>4, <2>5 DEF RoomForLoose
  <2>. QED BY <1>3, <1>4, <1>5, <1>6, <2>6 DEF LoginInv
<1>9. CASE ~ \E k \in Keys : win[k] # None /\ t \in Loose(k)' /\ t \notin Loose(k)
  <2>1. RoomForLoose'
    BY <1>1, <1>7, <1>9, RoomIsKept
  <2>. QED BY <1>3, <1>4, <1>5, <1>6, <2>1 DEF LoginInv
<1>. QED BY <1>8, <1>9

\* A step that only drops windows or references to them, and lets nobody in.
LEMMA DropsOnly ==
    ASSUME LoginInv, NEW t \in Threads, NEW s \in Steps, Goto(t, s),
           failures' = failures, OnlyMoves(t),
           \A k \in Keys : win'[k] = win[k] \/ win'[k] = None,
           seen'[t] = None \/ (seen'[t] = seen[t] /\ key'[t] = key[t]),
           s \in LetIn => pc[t] \in LetIn /\ key'[t] = key[t],
           s \notin {"retry.judge", "decide"}
    PROVE  OneOwner' /\ RoomForLoose'
<1>1. pc' = [pc EXCEPT ![t] = s] /\ pc \in [Threads -> Steps]
  BY DEF LoginInv, ValuesOK, Goto
<1>2. OneOwner'
  BY DEF LoginInv, ValuesOK, OneOwner, OnlyMoves
<1>3. \A k \in Keys : t \in Loose(k)' => t \in Loose(k)
  BY <1>1 DEF Loose
<1>4. RoomForLoose'
  BY <1>3, RoomIsKept
<1>. QED BY <1>2, <1>4

\* A request begins, is answered, or is turned away at the gate.
LEMMA EndsKeepInv ==
    ASSUME LoginInv, NEW t \in Threads,
           (\E k \in Keys : Arrive(t, k)) \/ Answer(t) \/ Admit(t)
    PROVE  LoginInv'
<1>1. CASE \E k \in Keys : Arrive(t, k)
  <2>1. PICK k \in Keys : Arrive(t, k)
    BY <1>1
  <2>2. /\ pc[t] = "idle" /\ seen[t] = None /\ Goto(t, "retry.get")
        /\ key' = [key EXCEPT ![t] = k] /\ UNCHANGED <<win, failures, gate, seen, outcome>>
        /\ pc' = [pc EXCEPT ![t] = "retry.get"]
    BY <2>1 DEF Arrive, Goto, LoginInv, LocalsFit, table
  <2>3. ValuesOK' /\ LocalsFit' /\ OnlyMoves(t)
    BY <2>2 DEF LoginInv, ValuesOK, LocalsFit, Steps, gate, OnlyMoves
  <2>4. GateAccounted'
    BY <2>2, OutsideGate DEF Steps
  <2>5. OneOwner' /\ RoomForLoose'
    BY <2>2, <2>3, DropsOnly DEF Steps, LetIn
  <2>. QED BY <2>3, <2>4, <2>5 DEF LoginInv
<1>2. CASE Answer(t)
  <2>1. /\ pc[t] \in {"blocked", "error"} /\ Goto(t, "idle")
        /\ pc' = [pc EXCEPT ![t] = "idle"]
        /\ seen' = [seen EXCEPT ![t] = None] /\ key' = [key EXCEPT ![t] = None]
        /\ outcome' = [outcome EXCEPT ![t] = "none"] /\ UNCHANGED <<win, failures, gate>>
    BY <1>2 DEF Answer, Finish, Goto, table
  <2>2. ValuesOK' /\ LocalsFit' /\ OnlyMoves(t)
    BY <2>1 DEF LoginInv, ValuesOK, LocalsFit, Steps, gate, OnlyMoves
  <2>3. GateAccounted'
    BY <2>1, OutsideGate DEF Steps
  <2>4. seen'[t] = None
    BY <2>1 DEF LoginInv, ValuesOK
  <2>5. OneOwner' /\ RoomForLoose'
    BY <2>1, <2>2, <2>4, DropsOnly DEF Steps, LetIn
  <2>. QED BY <2>2, <2>3, <2>5 DEF LoginInv
<1>3. CASE Admit(t)
  <2>1. GateAccounted'
    BY <1>3, GateActionsKeepAccount
  <2>2. PICK s \in {"enter", "idle"} :
          /\ Goto(t, s) /\ pc' = [pc EXCEPT ![t] = s] /\ pc[t] = "admit"
          /\ slots' \in {slots, slots - 1} /\ (s = "enter" => slots > 0)
          /\ (slots' # slots => s = "enter")
          /\ UNCHANGED <<win, failures, inFlight>>
          /\ s = "enter" => UNCHANGED <<seen, key, outcome>>
          /\ s = "idle" => /\ seen' = [seen EXCEPT ![t] = None]
                           /\ key' = [key EXCEPT ![t] = None]
                           /\ outcome' = [outcome EXCEPT ![t] = "none"]
    BY <1>3 DEF Admit, Finish, Goto, table, locals
  <2>3. ValuesOK' /\ LocalsFit' /\ OnlyMoves(t)
    BY <2>2 DEF LoginInv, ValuesOK, LocalsFit, Steps, OnlyMoves
  <2>4. OneOwner' /\ RoomForLoose'
    <3>1. seen'[t] = None \/ (seen'[t] = seen[t] /\ key'[t] = key[t])
      BY <2>2 DEF LoginInv, ValuesOK
    <3>2. s \in LetIn => pc[t] \in LetIn /\ key'[t] = key[t]
      BY <2>2 DEF LetIn
    <3>. QED BY <2>2, <2>3, <3>1, <3>2, DropsOnly DEF Steps
  <2>. QED BY <2>1, <2>3, <2>4 DEF LoginInv
<1>. QED BY <1>1, <1>2, <1>3

\* An admitted attempt goes through the gate; the throttle is not touched.
LEMMA InGateKeepsInv ==
    ASSUME LoginInv, NEW t \in Threads, InGate(t)
    PROVE  LoginInv'
<1>1. GateAccounted'
  BY GateActionsKeepAccount
<1>2. PICK s \in {"verify", "leave", "release", "reset", "fail", "error"} :
        /\ Goto(t, s) /\ pc' = [pc EXCEPT ![t] = s]
        /\ pc[t] \in {"enter", "verify", "leave", "release"}
        /\ UNCHANGED <<win, failures, seen, key>>
        /\ s = "release" => pc[t] = "leave" /\ outcome' = outcome
        /\ s = "leave" => \E v \in {"right", "wrong", "raised"} :
                            outcome' = [outcome EXCEPT ![t] = v]
        /\ s # "leave" => outcome' = outcome
  <2>1. CASE Enter(t) \/ Verify(t) \/ Leave(t)
    BY <2>1 DEF Enter, Verify, Leave, Goto, table, locals
  <2>2. CASE Release(t)
    <3>1. AfterGate(t) \in {"reset", "fail", "error"}
      BY <2>2 DEF Release, LoginInv, LocalsFit, ValuesOK, AfterGate
    <3>. QED BY <2>2, <3>1 DEF Release, Goto, table, locals
  <2>. QED BY <2>1, <2>2 DEF InGate
<1>3. slots' \in Nat /\ inFlight' \in Nat
  <2>1. CASE Leave(t)
    <3>1. Cardinality(Counted) \in Nat /\ t \in Counted /\ IsFiniteSet(Counted)
      BY <2>1, ThreadSetsFinite DEF Leave, Counted
    <3>2. Cardinality(Counted) # 0
      BY <3>1, FS_EmptySet
    <3>. QED BY <2>1, <3>1, <3>2 DEF Leave, LoginInv, GateAccounted, ValuesOK
  <2>2. CASE Enter(t) \/ Verify(t) \/ Release(t)
    BY <2>2 DEF Enter, Verify, Release, LoginInv, ValuesOK, gate
  <2>. QED BY <2>1, <2>2 DEF InGate
<1>4. ValuesOK' /\ LocalsFit' /\ OnlyMoves(t)
  BY <1>2, <1>3 DEF LoginInv, ValuesOK, LocalsFit, Steps, OnlyMoves
<1>5. OneOwner' /\ RoomForLoose'
  BY <1>2, <1>4, DropsOnly DEF Steps, LetIn
<1>. QED BY <1>1, <1>4, <1>5 DEF LoginInv

\* The failure is booked: on the window in hand, or on a new one.
LEMMA CountKeepsInv ==
    ASSUME LoginInv, NEW t \in Threads, Count(t)
    PROVE  LoginInv'
<1>1. /\ pc[t] = "count" /\ Goto(t, "evict") /\ pc' = [pc EXCEPT ![t] = "evict"]
      /\ seen' = [seen EXCEPT ![t] = None] /\ UNCHANGED <<gate, key, outcome>>
      /\ key[t] \in Keys
  BY DEF Count, Goto, LoginInv, LocalsFit
<1>2. GateAccounted'
  BY <1>1, OutsideGate DEF Steps
<1>3. LocalsFit' /\ OnlyMoves(t) /\ \A k \in Keys : t \notin Loose(k)'
  BY <1>1 DEF LoginInv, ValuesOK, LocalsFit, OnlyMoves, Loose, LetIn
<1>4. MaxAttempts \in Nat \ {0} /\ Cardinality(Threads) \in Nat
  BY LoginAssumption, ThreadSetsFinite
<1>5. CASE seen[t] = None
  <2>1. PICK c \in Cells \ Live :
          /\ failures' = [failures EXCEPT ![c] = 1]
          /\ win' = [win EXCEPT ![key[t]] = c]
    BY <1>5 DEF Count
  <2>2. c # None /\ (\A k \in Keys : win[k] # c) /\ (\A u \in Threads : seen[u] # c)
    BY <2>1, LoginAssumption DEF Live
  <2>3. ValuesOK'
    BY <1>1, <2>1 DEF LoginInv, ValuesOK, Steps, gate
  <2>4. OneOwner'
    BY <1>1, <2>1, <2>2 DEF LoginInv, ValuesOK, OneOwner
  <2>5. ASSUME NEW k \in Keys, win'[k] # None
        PROVE  failures'[win'[k]] + Cardinality(Loose(k)') <=
                 MaxAttempts - 1 + Cardinality(Threads)
    <3>1. CASE k = key[t]
      <4>1. Cardinality(Loose(k)') \in Nat
            /\ Cardinality(Loose(k)') <= Cardinality(Threads) - 1
        BY <1>3, ThreadSetsFinite DEF Loose
      <4>2. failures'[win'[k]] = 1
        BY <2>1, <3>1 DEF LoginInv, ValuesOK
      <4>. QED BY <1>4, <4>1, <4>2
    <3>2. CASE k # key[t]
      <4>1. win'[k] = win[k] /\ failures'[win'[k]] = failures[win[k]]
        BY <2>1, <2>2, <3>2 DEF LoginInv, ValuesOK
      <4>2. t \notin Loose(k) /\ t \notin Loose(k)'
        BY <1>3, <3>2 DEF Loose
      <4>3. Cardinality(Loose(k)') = Cardinality(Loose(k))
        BY <1>3, <4>1, <4>2, LooseStep
      <4>. QED BY <2>5, <4>1, <4>3 DEF LoginInv, RoomForLoose
    <3>. QED BY <3>1, <3>2
  <2>6. RoomForLoose'
    BY <2>5 DEF RoomForLoose
  <2>. QED BY <1>2, <1>3, <2>3, <2>4, <2>6 DEF LoginInv
<1>6. CASE seen[t] # None
  <2>1. /\ failures' = [failures EXCEPT ![seen[t]] = failures[seen[t]] + 1]
        /\ win' = win /\ seen[t] \in Cells
    BY <1>6 DEF Count, LoginInv, ValuesOK
  <2>2. ValuesOK'
    BY <1>1, <2>1 DEF LoginInv, ValuesOK, Steps, gate
  <2>3. OneOwner'
    BY <1>1, <2>1 DEF LoginInv, ValuesOK, OneOwner
  <2>4. ASSUME NEW k \in Keys, win'[k] # None
        PROVE  failures'[win'[k]] + Cardinality(Loose(k)') <=
                 MaxAttempts - 1 + Cardinality(Threads)
    <3>1. win'[k] = win[k] /\ failures[win[k]] \in Nat
      BY <2>1, <2>4 DEF LoginInv, ValuesOK
    <3>2. failures[win[k]] + Cardinality(Loose(k)) <= MaxAttempts - 1 + Cardinality(Threads)
      BY <2>4, <3>1 DEF LoginInv, RoomForLoose
    <3>3. CASE win[k] = seen[t]
      <4>1. t \in Loose(k) /\ t \notin Loose(k)'
        BY <1>1, <1>3, <1>6, <3>3 DEF Loose, LetIn, LoginInv, OneOwner
      <4>2. Cardinality(Loose(k)') = Cardinality(Loose(k)) - 1
            /\ Cardinality(Loose(k)) \in Nat
        BY <1>3, <3>1, <4>1, LooseStep
      <4>3. failures'[win'[k]] = failures[win[k]] + 1
        BY <2>1, <3>1, <3>3 DEF LoginInv, ValuesOK
      <4>. QED BY <1>4, <3>1, <3>2, <4>2, <4>3
    <3>4. CASE win[k] # seen[t]
      <4>1. failures'[win'[k]] = failures[win[k]]
        BY <2>1, <3>1, <3>4 DEF LoginInv, ValuesOK
      <4>2. /\ Cardinality(Loose(k)') \in Nat /\ Cardinality(Loose(k)) \in Nat
            /\ Cardinality(Loose(k)') <= Cardinality(Loose(k))
        BY <1>3, <3>1, LooseStep
      <4>. QED BY <1>4, <3>1, <3>2, <4>1, <4>2
    <3>. QED BY <3>3, <3>4
  <2>5. RoomForLoose'
    BY <2>4 DEF RoomForLoose
  <2>. QED BY <1>2, <1>3, <2>2, <2>3, <2>5 DEF LoginInv
<1>. QED BY <1>5, <1>6

\* The steps around it: a right password, the clock read again, the eviction.
LEMMA TableStepsKeepInv ==
    ASSUME LoginInv, NEW t \in Threads, Reset(t) \/ Fail(t) \/ Evict(t) \/ Pop(t)
    PROVE  LoginInv'
<1>1. PICK s \in {"idle", "fail.get", "pop", "evict", "error"} :
        /\ Goto(t, s) /\ pc' = [pc EXCEPT ![t] = s]
        /\ pc[t] \in {"reset", "fail", "evict", "pop"}
        /\ s = "fail.get" => pc[t] = "fail"
        /\ UNCHANGED <<failures, gate>>
        /\ win' = win \/ \E k \in Keys : win' = [win EXCEPT ![k] = None]
        /\ s # "idle" => UNCHANGED <<seen, key, outcome>>
        /\ s = "idle" => /\ seen' = [seen EXCEPT ![t] = None]
                         /\ key' = [key EXCEPT ![t] = None]
                         /\ outcome' = [outcome EXCEPT ![t] = "none"]
  <2>1. CASE Reset(t)
    BY <2>1 DEF Reset, Drop, Finish, Goto, LoginInv, LocalsFit
  <2>2. CASE Fail(t)
    BY <2>2 DEF Fail, Goto, table
  <2>3. CASE Evict(t)
    BY <2>3 DEF Evict, Finish, Goto, table, locals
  <2>4. CASE Pop(t)
    <3>1. win' = win \/ \E k \in Keys : win' = [win EXCEPT ![k] = None]
      <4>1. CASE win' = win
        BY <4>1
      <4>2. CASE win' = [win EXCEPT ![Head(order)] = None]
        BY <4>2 DEF LoginInv, ValuesOK
      <4>. QED BY <2>4, <4>1, <4>2 DEF Pop, Drop, table
    <3>. QED BY <2>4, <3>1 DEF Pop, Drop, Goto, table, locals
  <2>. QED BY <2>1, <2>2, <2>3, <2>4
<1>2. ValuesOK' /\ LocalsFit' /\ OnlyMoves(t)
  BY <1>1 DEF LoginInv, ValuesOK, LocalsFit, Steps, gate, OnlyMoves
<1>3. GateAccounted'
  BY <1>1, OutsideGate DEF Steps
<1>4. OneOwner' /\ RoomForLoose'
  <2>1. \A k \in Keys : win'[k] = win[k] \/ win'[k] = None
    BY <1>1 DEF LoginInv, ValuesOK
  <2>2. seen'[t] = None \/ (seen'[t] = seen[t] /\ key'[t] = key[t])
    BY <1>1 DEF LoginInv, ValuesOK
  <2>3. s \in LetIn => pc[t] \in LetIn /\ key'[t] = key[t]
    BY <1>1 DEF LetIn
  <2>. QED BY <1>1, <1>2, <2>1, <2>2, <2>3, DropsOnly DEF Steps
<1>. QED BY <1>2, <1>3, <1>4 DEF LoginInv

-----------------------------------------------------------------------------
LEMMA InitInv == ASSUME Init PROVE LoginInv
<1>1. ValuesOK /\ LocalsFit /\ OneOwner /\ RoomForLoose
  BY LoginAssumption DEF Init, ValuesOK, LocalsFit, OneOwner, RoomForLoose, Steps
<1>2. Holding = {} /\ Counted = {}
  BY DEF Init, Holding, Counted
<1>3. GateAccounted
  BY <1>2, FS_EmptySet, LoginAssumption DEF Init, GateAccounted
<1>. QED BY <1>1, <1>3 DEF LoginInv

\* Steps that change nothing the invariant speaks of: stuttering and the clock.
LEMMA ElsewhereKeepsInv ==
    ASSUME LoginInv, UNCHANGED <<table, gate, pc, locals>>
    PROVE  LoginInv'
BY DEF LoginInv, ValuesOK, LocalsFit, GateAccounted, Holding, Counted, OneOwner,
  RoomForLoose, Loose, table, gate, locals

LEMMA NextKeepsInv == ASSUME LoginInv, [Next]_vars PROVE LoginInv'
<1>1. CASE Tick \/ UNCHANGED vars
  BY <1>1, ElsewhereKeepsInv DEF Tick, vars
<1>2. ASSUME NEW t \in Threads, Step(t) PROVE LoginInv'
  <2>1. CASE (\E k \in Keys : Arrive(t, k)) \/ Answer(t) \/ Admit(t)
    BY <2>1, EndsKeepInv
  <2>2. CASE RetryAfter(t)
    BY <2>2, GetKeepsInv, JudgeKeepsInv, DecideKeepsInv DEF RetryAfter
  <2>3. CASE InGate(t)
    BY <2>3, InGateKeepsInv
  <2>4. CASE Reset(t)
    BY <2>4, TableStepsKeepInv
  <2>5. CASE RegisterFailure(t)
    BY <2>5, GetKeepsInv, JudgeKeepsInv, CountKeepsInv, TableStepsKeepInv
      DEF RegisterFailure
  <2>. QED BY <1>2, <2>1, <2>2, <2>3, <2>4, <2>5 DEF Step
<1>. QED BY <1>1, <1>2 DEF Next

\* The inductive invariant.
THEOREM LoginInvariant == Spec => []LoginInv
BY InitInv, NextKeepsInv, PTL DEF Spec

\* The gate never loses or invents a slot, so no more than MaxConcurrent Argon2
\* checks run at a time: whatever the number of threads, and whether a check
\* succeeds, fails, raises or is turned away.
THEOREM LoginGateAccounted == Spec => [](GateAccounted /\ Cardinality(Holding) <= MaxConcurrent)
<1>1. LoginInv => GateAccounted /\ Cardinality(Holding) <= MaxConcurrent
  <2>1. Cardinality(Holding) \in Nat /\ MaxConcurrent \in Nat
    BY ThreadSetsFinite, LoginAssumption DEF Holding
  <2>. QED BY <2>1 DEF LoginInv, ValuesOK, GateAccounted
<1>. QED BY <1>1, LoginInvariant, PTL

\* The failures of a window in the table never exceed max_attempts by more than
\* the other threads of the pool, however retry_after and register_failure mix.
THEOREM LoginFailuresBounded == Spec => []FailuresBounded
<1>1. LoginInv => FailuresBounded
  <2>1. SUFFICES ASSUME LoginInv, NEW k \in Keys, win[k] # None
                 PROVE  failures[win[k]] <= MaxAttempts - 1 + Cardinality(Threads)
    BY DEF FailuresBounded
  <2>2. /\ failures[win[k]] \in Nat
        /\ failures[win[k]] + Cardinality(Loose(k)) <= MaxAttempts - 1 + Cardinality(Threads)
    BY <2>1 DEF LoginInv, ValuesOK, RoomForLoose
  <2>3. Cardinality(Loose(k)) \in Nat /\ Cardinality(Threads) \in Nat /\ MaxAttempts \in Nat
    BY ThreadSetsFinite, LoginAssumption DEF Loose
  <2>. QED BY <2>2, <2>3
<1>. QED BY <1>1, LoginInvariant, PTL

\* A window of d ticks to go, in whole seconds of s ticks, and one more.
LEMMA WholeSecondsCover ==
    ASSUME NEW d \in Nat, NEW s \in Nat \ {0}
    PROVE  /\ d \div s \in Nat
           /\ d < ((d \div s) + 1) * s
           /\ ((d \div s) + 1) * s <= d + s
OBVIOUS

\* The steps of thread t that leave the start of every window a thread may be
\* waiting for, and the clock, alone.
LEMMA WaitOfOthers ==
    ASSUME LoginInv, WaitOK, NEW t \in Threads, NEW u \in Threads, u # t,
           now' = now, pc'[u] = pc[u], seen'[u] = seen[u], moment'[u] = moment[u], wait'[u] = wait[u],
           seen[u] # None => started'[seen[u]] = started[seen[u]]
    PROVE  /\ pc'[u] \in {"decide", "blocked"} /\ seen'[u] # None => ~Expired(u)'
           /\ pc'[u] = "blocked" => seen'[u] # None
           /\ pc'[u] = "blocked" =>
                /\ started'[seen'[u]] + Window < moment'[u] + wait'[u] * Second
                /\ moment'[u] + wait'[u] * Second <= started'[seen'[u]] + Window + Second
BY DEF WaitOK, WaitCoversWindow, Expired

\* No step of a thread but Count moves the start of a window, and Count only
\* that of a cell nobody holds.
LEMMA StartsStay ==
    ASSUME LoginInv, NEW t \in Threads, Step(t)
    PROVE  \A u \in Threads : seen[u] # None => started'[seen[u]] = started[seen[u]]
<1>1. CASE Count(t)
  <2>1. CASE started' = started
    BY <2>1
  <2>2. CASE seen[t] = None
    <3>1. PICK c \in Cells \ Live : started' = [started EXCEPT ![c] = moment[t]]
      BY <1>1, <2>2 DEF Count
    <3>2. \A u \in Threads : seen[u] # c
      BY <3>1 DEF Live
    <3>3. QED BY <3>1, <3>2
  <2>3. QED BY <1>1, <2>1, <2>2 DEF Count
<1>2. CASE ~Count(t)
  BY <1>2 DEF Step, Arrive, RetryAfter, RegisterFailure, InGate, Get, Judge, Decide, Answer,
              Admit, Enter, Verify, Leave, Release, Reset, Fail, Evict, Pop, Drop, MoveToEnd, table
<1>3. QED BY <1>1, <1>2

\* A thread changes no locals but its own.
LEMMA LocalsOfOthers ==
    ASSUME LoginInv, WaitOK, NEW t \in Threads, Step(t), NEW u \in Threads, u # t
    PROVE  pc'[u] = pc[u] /\ seen'[u] = seen[u] /\ moment'[u] = moment[u] /\ wait'[u] = wait[u]
BY DEF Step, Arrive, RetryAfter, RegisterFailure, InGate, Get, Judge, Decide, Answer, Admit, Enter,
       Verify, Leave, Release, Reset, Fail, Count, Evict, Pop, Goto, Finish, locals,
       LoginInv, ValuesOK, WaitOK

\* What a step leaves of the thread's own claim.
LEMMA WaitOfStepping ==
    ASSUME LoginInv, WaitOK, NEW t \in Threads, Step(t)
    PROVE  /\ pc'[t] \in {"decide", "blocked"} /\ seen'[t] # None => ~Expired(t)'
           /\ pc'[t] = "blocked" =>
                /\ seen'[t] # None
                /\ started'[seen'[t]] + Window < moment'[t] + wait'[t] * Second
                /\ moment'[t] + wait'[t] * Second <= started'[seen'[t]] + Window + Second
<1>0. /\ pc \in [Threads -> Steps] /\ seen \in [Threads -> Cells \cup {None}]
      /\ started \in [Cells -> Nat] /\ moment \in [Threads -> Nat] /\ wait \in [Threads -> Nat]
      /\ Window \in Nat \ {0} /\ Second \in Nat \ {0}
  BY LoginAssumption DEF LoginInv, ValuesOK, WaitOK
<1>1. CASE Decide(t)
  <2>1. CASE MayTry(t)
    BY <1>0, <1>1, <2>1 DEF Decide, Goto
  <2>2. CASE ~MayTry(t)
    <3>1. /\ pc[t] = "decide" /\ seen' = seen /\ moment' = moment /\ started' = started
          /\ seen[t] # None /\ seen[t] \in Cells /\ pc'[t] = "blocked"
          /\ wait'[t] = SecondsToWait(t)
      BY <1>0, <1>1, <2>2 DEF Decide, Goto, MayTry, table
    <3>2. ~Expired(t) /\ ~Expired(t)'
      BY <3>1 DEF WaitOK, Expired
    <3>3. started[seen[t]] \in Nat /\ moment[t] \in Nat
      BY <1>0, <3>1
    <3>. DEFINE d == started[seen[t]] + Window - moment[t]
    <3>4. d \in Nat
      BY <1>0, <3>2, <3>3 DEF Expired
    <3>5. wait'[t] = (d \div Second) + 1
      <4>1. d \div Second \in Nat
        BY <1>0, <3>4, WholeSecondsCover
      <4>2. QED BY <3>1, <4>1 DEF SecondsToWait
    <3>6. d < wait'[t] * Second /\ wait'[t] * Second <= d + Second /\ wait'[t] * Second \in Nat
      <4>1. wait'[t] \in Nat
        <5>1. d \div Second \in Nat
          BY <1>0, <3>4, WholeSecondsCover
        <5>2. QED BY <3>5, <5>1
      <4>2. d < wait'[t] * Second /\ wait'[t] * Second <= d + Second
        BY <1>0, <3>4, <3>5, WholeSecondsCover
      <4>3. wait'[t] * Second \in Nat
        BY <1>0, <4>1
      <4>4. QED BY <4>2, <4>3
    <3>. HIDE DEF d
    <3>7. d = started[seen[t]] + Window - moment[t]
      BY DEF d
    <3>8. QED BY <1>0, <3>1, <3>2, <3>3, <3>4, <3>6, <3>7
  <2>3. QED BY <2>1, <2>2
<1>2. CASE Judge(t, "retry.judge", "decide") \/ Judge(t, "fail.judge", "count")
  <2>1. pc'[t] # "blocked"
    BY <1>0, <1>2 DEF Judge, Goto, Steps
  <2>2. ASSUME pc'[t] = "decide", seen'[t] # None PROVE ~Expired(t)'
    <3>1. seen[t] # None /\ ~Expired(t) /\ seen'[t] = seen[t] /\ moment' = moment /\ started' = started
      BY <1>0, <1>2, <2>2 DEF Judge, Goto, MoveToEnd, table
    <3>2. QED BY <3>1 DEF Expired
  <2>3. QED BY <2>1, <2>2
<1>3. CASE ~(Decide(t) \/ Judge(t, "retry.judge", "decide") \/ Judge(t, "fail.judge", "count"))
  <2>1. pc'[t] \notin {"decide", "blocked"}
    BY <1>0, <1>3 DEF Step, Arrive, RetryAfter, RegisterFailure, InGate, Get, Answer, Admit, Enter,
       Verify, Leave, Release, AfterGate, Reset, Fail, Count, Evict, Pop, Goto, Finish, LoginInv,
       LocalsFit, ValuesOK
  <2>2. QED BY <2>1
<1>4. QED BY <1>1, <1>2, <1>3

LEMMA WaitTypesKept ==
    ASSUME LoginInv, WaitOK, NEW t \in Threads, Step(t)
    PROVE  /\ now' \in Nat /\ started' \in [Cells -> Nat]
           /\ moment' \in [Threads -> Nat] /\ wait' \in [Threads -> Nat]
<1>0. /\ seen \in [Threads -> Cells \cup {None}] /\ started \in [Cells -> Nat] /\ now \in Nat
      /\ moment \in [Threads -> Nat] /\ wait \in [Threads -> Nat] /\ Second \in Nat \ {0}
  BY LoginAssumption DEF LoginInv, ValuesOK, WaitOK
<1>1. now' = now
  BY DEF Step, Arrive, RetryAfter, RegisterFailure, InGate, Get, Judge, Decide, Answer, Admit,
     Enter,
       Verify, Leave, Release, Reset, Fail, Count, Evict, Pop
<1>2. moment' \in [Threads -> Nat]
  BY <1>0 DEF Step, Arrive, RetryAfter, RegisterFailure, InGate, Get, Judge, Decide, Answer, Admit,
       Enter, Verify, Leave, Release, Reset, Fail, Count, Evict, Pop, Finish, locals
<1>3. started' \in [Cells -> Nat]
  <2>1. CASE Count(t)
    <3>1. CASE seen[t] = None
      <4>1. PICK c \in Cells \ Live : started' = [started EXCEPT ![c] = moment[t]]
        BY <2>1, <3>1 DEF Count
      <4>2. QED BY <1>0, <4>1
    <3>2. CASE seen[t] # None
      BY <1>0, <2>1, <3>2 DEF Count
    <3>3. QED BY <3>1, <3>2
  <2>2. CASE ~Count(t)
    BY <1>0, <2>2 DEF Step, Arrive, RetryAfter, RegisterFailure, InGate, Get, Judge, Decide, Answer,
       Admit, Enter, Verify, Leave, Release, Reset, Fail, Evict, Pop, Drop, MoveToEnd, table
  <2>3. QED BY <2>1, <2>2
<1>4. wait' \in [Threads -> Nat]
  <2>1. CASE Decide(t) /\ ~MayTry(t)
    <3>1. seen[t] # None /\ seen[t] \in Cells /\ pc[t] = "decide"
      BY <1>0, <2>1 DEF MayTry, Decide
    <3>2. ~Expired(t)
      BY <3>1 DEF WaitOK
    <3>3. started[seen[t]] + Window - moment[t] \in Nat
      <4>1. started[seen[t]] \in Nat /\ moment[t] \in Nat /\ Window \in Nat
        BY <1>0, <3>1, LoginAssumption
      <4>2. QED BY <3>2, <4>1 DEF Expired
    <3>4. (started[seen[t]] + Window - moment[t]) \div Second \in Nat
      BY <1>0, <3>3, WholeSecondsCover
    <3>5. SecondsToWait(t) \in Nat
      BY <3>4 DEF SecondsToWait
    <3>6. wait' = [wait EXCEPT ![t] = SecondsToWait(t)]
      BY <2>1 DEF Decide
    <3>7. QED BY <1>0, <3>5, <3>6
  <2>2. CASE ~(Decide(t) /\ ~MayTry(t))
    <3>1. wait' = wait \/ wait' = [wait EXCEPT ![t] = 0]
      BY <2>2 DEF Step, Arrive, RetryAfter, RegisterFailure, InGate, Get, Judge, Decide, Answer,
         Admit, Enter, Verify, Leave, Release, Reset, Fail, Count, Evict, Pop, Finish, locals
    <3>2. QED BY <1>0, <3>1
  <2>3. QED BY <2>1, <2>2
<1>5. QED BY <1>0, <1>1, <1>2, <1>3, <1>4

LEMMA WaitKept == ASSUME LoginInv, WaitOK, [Next]_vars PROVE WaitOK'
<1>1. CASE Tick \/ UNCHANGED vars
  BY <1>1 DEF Tick, vars, table, locals, WaitOK, WaitCoversWindow, Expired
<1>2. ASSUME NEW t \in Threads, Step(t) PROVE WaitOK'
  <2>1. ASSUME NEW u \in Threads
        PROVE  /\ pc'[u] \in {"decide", "blocked"} /\ seen'[u] # None => ~Expired(u)'
               /\ pc'[u] = "blocked" =>
                    /\ seen'[u] # None
                    /\ started'[seen'[u]] + Window < moment'[u] + wait'[u] * Second
                    /\ moment'[u] + wait'[u] * Second <= started'[seen'[u]] + Window + Second
    <3>1. now' = now
      BY <1>2 DEF Step, Arrive, RetryAfter, RegisterFailure, InGate, Get, Judge, Decide, Answer,
           Admit, Enter, Verify, Leave, Release, Reset, Fail, Count, Evict, Pop
    <3>2. CASE u = t
      BY <1>2, <3>2, WaitOfStepping
    <3>3. CASE u # t
      BY <1>2, <3>1, <3>3, LocalsOfOthers, StartsStay, WaitOfOthers
    <3>4. QED BY <3>2, <3>3
  <2>2. QED BY <1>2, <2>1, WaitTypesKept DEF WaitOK, WaitCoversWindow
<1>3. QED BY <1>1, <1>2 DEF Next

\* Retry-After covers the window, and no more than a second beyond it, whatever
\* the window, the fraction of the clock and the threads (ratelimit.py:55).
THEOREM LoginWaitCoversWindow == Spec => []WaitCoversWindow
<1>1. Init => WaitOK
  BY DEF Init, WaitOK, WaitCoversWindow
<1>2. WaitOK => WaitCoversWindow
  BY DEF WaitOK
<1>3. QED BY <1>1, <1>2, LoginInvariant, WaitKept, PTL DEF Spec

(***************************************************************************)
(* The table of the throttle.                                              *)
(***************************************************************************)

\* What is left of the order without one key.
Rest(w, k) ==
    /\ w \in Seq(Keys) /\ \A i, j \in DOMAIN w : w[i] = w[j] => i = j
    /\ {w[i] : i \in DOMAIN w} = {order[i] : i \in DOMAIN order} \ {k}
    /\ Len(w) = IF \E i \in DOMAIN order : order[i] = k THEN Len(order) - 1 ELSE Len(order)

LEMMA WithoutKey ==
    ASSUME OrderFits, NEW k \in Keys
    PROVE  Rest(Without(k), k)
<1>0. PICK w : w = Without(k)
  OBVIOUS
<1>1. CASE ~ \E i \in DOMAIN order : order[i] = k
  <2>1. w = order
    BY <1>0, <1>1 DEF Without
  <2>. QED BY <1>0, <1>1, <2>1 DEF OrderFits, Rest
<1>2. CASE \E i \in DOMAIN order : order[i] = k
  <2>. DEFINE n == Len(order)
             p == CHOOSE i \in DOMAIN order : order[i] = k
  <2>1. n \in Nat /\ DOMAIN order = 1..n /\ p \in 1..n /\ order[p] = k
    BY <1>2 DEF OrderFits
  <2>2. w = [i \in 1..(n - 1) |-> order[IF i < p THEN i ELSE i + 1]]
    BY <1>0, <1>2 DEF Without
  <2>. HIDE DEF p, n
  <2>3. n - 1 \in Nat /\ \A i \in 1..(n - 1) : (IF i < p THEN i ELSE i + 1) \in (1..n) \ {p}
    BY <2>1
  <2>4. \A i \in 1..n : order[i] \in Keys
    BY <2>1 DEF OrderFits
  <2>5. DOMAIN w = 1..(n - 1) /\ \A i \in 1..(n - 1) : w[i] = order[IF i < p THEN i ELSE i + 1]
    BY <2>2
  <2>6. w \in Seq(Keys) /\ Len(w) = n - 1
    <3>1. w \in [1..(n - 1) -> Keys]
      BY <2>2, <2>3, <2>4
    <3>. QED BY <2>3, <3>1
  <2>7. \A i, j \in DOMAIN w : w[i] = w[j] => i = j
    <3>1. \A i, j \in 1..n : order[i] = order[j] => i = j
      BY <2>1 DEF OrderFits
    <3>. QED BY <2>1, <2>3, <2>5, <3>1
  <2>8. {w[i] : i \in DOMAIN w} \subseteq {order[i] : i \in 1..n} \ {k}
    <3>1. \A i \in 1..n : i # p => order[i] # k
      BY <2>1 DEF OrderFits
    <3>. QED BY <2>3, <2>5, <3>1
  <2>9. ASSUME NEW i \in 1..n, order[i] # k PROVE \E j \in DOMAIN w : w[j] = order[i]
    <3>1. i # p
      BY <2>1, <2>9
    <3>2. CASE i < p
      <4>1. i \in 1..(n - 1) /\ w[i] = order[i]
        BY <2>1, <2>5, <3>2
      <4>. QED BY <2>5, <4>1
    <3>3. CASE i > p
      <4>1. i - 1 \in 1..(n - 1) /\ ~(i - 1 < p) /\ (i - 1) + 1 = i
        BY <2>1, <3>3
      <4>2. w[i - 1] = order[i]
        BY <2>5, <4>1
      <4>. QED BY <2>5, <4>1, <4>2
    <3>. QED BY <2>1, <3>1, <3>2, <3>3
  <2>10. {w[i] : i \in DOMAIN w} = {order[i] : i \in DOMAIN order} \ {k}
    <3>1. \A x \in {order[i] : i \in DOMAIN order} \ {k} : x \in {w[i] : i \in DOMAIN w}
      BY <2>1, <2>9
    <3>. QED BY <2>1, <2>8, <3>1
  <2>11. Len(w) = Len(order) - 1
    BY <2>6 DEF n
  <2>12. Rest(w, k)
    BY <1>2, <2>6, <2>7, <2>10, <2>11 DEF Rest
  <2>. QED BY <1>0, <2>12
<1>. QED BY <1>1, <1>2

\* The order and the dictionary have the same keys, each once.
Agree == /\ OrderFits
         /\ {order[i] : i \in DOMAIN order} = Tabled
         /\ Len(order) = Cardinality(Tabled)

LEMMA TabledIsFinite ==
    IsFiniteSet(Tabled) /\ Cardinality(Tabled) \in Nat
BY LoginAssumption, FS_Subset, FS_CardinalityType DEF Tabled

\* A key that leaves the dictionary leaves the order.
LEMMA DropAgrees ==
    ASSUME LoginInv, Agree, NEW k \in Keys, Drop(k)
    PROVE  /\ Agree' /\ Len(order') \in Nat /\ Len(order') <= Len(order)
           /\ win[k] # None => Len(order') = Len(order) - 1
<1>1. /\ order' = Without(k) /\ Tabled' = Tabled \ {k}
  BY DEF Drop, Tabled, LoginInv, ValuesOK
<1>2. k \in Tabled <=> \E i \in DOMAIN order : order[i] = k
  BY DEF Agree
<1>3. Cardinality(Tabled') = IF k \in Tabled THEN Cardinality(Tabled) - 1 ELSE Cardinality(Tabled)
  <2>1. k \notin Tabled => Tabled' = Tabled
    BY <1>1
  <2>. QED BY <1>1, <2>1, TabledIsFinite, FS_RemoveElement
<1>4. /\ OrderFits'
      /\ {order'[i] : i \in DOMAIN order'} = Tabled'
      /\ Len(order') = IF k \in Tabled THEN Len(order) - 1 ELSE Len(order)
  <2>1. Rest(order', k)
    BY <1>1, WithoutKey DEF Agree
  <2>. QED BY <1>1, <1>2, <2>1 DEF Agree, OrderFits, Rest
<1>5. Agree'
  BY <1>3, <1>4 DEF Agree
<1>6. win[k] # None <=> k \in Tabled
  BY DEF Tabled
<1>7. Len(order) \in Nat /\ Len(order') \in Nat
  BY <1>4 DEF Agree, OrderFits
<1>. QED BY <1>4, <1>5, <1>6, <1>7

\* A key that is used again, or used for the first time, is the last.
LEMMA LastAgrees ==
    ASSUME LoginInv, Agree, NEW k \in Keys, order' = Append(Without(k), k),
           Tabled' = Tabled \cup {k}
    PROVE  /\ Agree' /\ Len(order') \in Nat
           /\ Len(order') = IF k \in Tabled THEN Len(order) ELSE Len(order) + 1
<1>0. PICK w : w = Without(k)
  OBVIOUS
<1>1. k \in Tabled <=> \E i \in DOMAIN order : order[i] = k
  BY DEF Agree
<1>2. /\ w \in Seq(Keys) /\ \A i, j \in DOMAIN w : w[i] = w[j] => i = j
      /\ {w[i] : i \in DOMAIN w} = Tabled \ {k}
      /\ Len(w) = IF k \in Tabled THEN Len(order) - 1 ELSE Len(order)
  <2>1. Rest(w, k)
    BY <1>0, WithoutKey DEF Agree
  <2>. QED BY <1>1, <2>1 DEF Agree, Rest
<1>3. order' = Append(w, k) /\ Len(order) \in Nat
  BY <1>0 DEF Agree, OrderFits
<1>4. /\ Len(w) \in Nat /\ DOMAIN w = 1..Len(w) /\ order' \in Seq(Keys)
      /\ Len(order') = Len(w) + 1 /\ DOMAIN order' = 1..(Len(w) + 1)
      /\ order'[Len(w) + 1] = k /\ \A i \in 1..Len(w) : order'[i] = w[i]
  BY <1>2, <1>3
<1>5. \A i \in 1..Len(w) : w[i] # k
  BY <1>2, <1>4
<1>6. OrderFits'
  <2>1. ASSUME NEW i \in DOMAIN order', NEW j \in DOMAIN order', order'[i] = order'[j]
        PROVE  i = j
    <3>1. CASE i = Len(w) + 1 \/ j = Len(w) + 1
      BY <1>4, <1>5, <2>1, <3>1
    <3>2. CASE i \in 1..Len(w) /\ j \in 1..Len(w)
      BY <1>2, <1>4, <2>1, <3>2
    <3>. QED BY <1>4, <3>1, <3>2
  <2>. QED BY <1>4, <2>1 DEF OrderFits
<1>7. {order'[i] : i \in DOMAIN order'} = Tabled \cup {k}
  <2>1. \A i \in DOMAIN order' : order'[i] \in {w[j] : j \in DOMAIN w} \cup {k}
    BY <1>4
  <2>2. \A j \in DOMAIN w : w[j] \in {order'[i] : i \in DOMAIN order'}
    BY <1>4
  <2>3. k \in {order'[i] : i \in DOMAIN order'}
    BY <1>4
  <2>. QED BY <1>2, <2>1, <2>2, <2>3
<1>8. Len(order') = IF k \in Tabled THEN Len(order) ELSE Len(order) + 1
  BY <1>2, <1>3, <1>4
<1>9. Cardinality(Tabled') = IF k \in Tabled THEN Cardinality(Tabled) ELSE Cardinality(Tabled) + 1
  <2>1. k \in Tabled => Tabled' = Tabled
    OBVIOUS
  <2>. QED BY <2>1, TabledIsFinite, FS_AddElement
<1>10. Agree'
  BY <1>6, <1>7, <1>8, <1>9 DEF Agree
<1>. QED BY <1>4, <1>8, <1>10

\* A thread that starts, goes on or ends evicting moves the bound by one.
LEMMA EvictingStep ==
    ASSUME LoginInv, NEW t \in Threads, NEW s \in Steps, Goto(t, s)
    PROVE  /\ Cardinality(Evicting) \in Nat /\ Cardinality(Evicting') \in Nat
           /\ Cardinality(Evicting') =
                Cardinality(Evicting) - (IF pc[t] \in {"evict", "pop"} THEN 1 ELSE 0)
                                      + (IF s \in {"evict", "pop"} THEN 1 ELSE 0)
<1>1. pc' = [pc EXCEPT ![t] = s] /\ pc \in [Threads -> Steps]
  BY DEF Goto, LoginInv, ValuesOK
<1>2. /\ t \in Evicting <=> pc[t] \in {"evict", "pop"}
      /\ t \in Evicting' <=> s \in {"evict", "pop"}
      /\ \A u : u # t => (u \in Evicting <=> u \in Evicting')
  BY <1>1 DEF Evicting
<1>3. /\ IsFiniteSet(Evicting) /\ Cardinality(Evicting) \in Nat
      /\ IsFiniteSet(Evicting') /\ Cardinality(Evicting') \in Nat
  BY ThreadSetsFinite DEF Evicting
<1>. QED BY <1>2, <1>3, OneThreadMoves

\* The steps that read the table, and those that leave it alone.
LEMMA TableUntouched ==
    ASSUME LoginInv, TableBounded, OrderFits, NEW t \in Threads, NEW s \in Steps, Goto(t, s),
           UNCHANGED <<order, win>>, pc[t] \in {"evict", "pop"} => s \in {"evict", "pop"}
    PROVE  TableBounded' /\ OrderFits'
<1>1. Tabled' = Tabled
  BY DEF Tabled
<1>2. Cardinality(Evicting') >= Cardinality(Evicting) /\ Cardinality(Evicting) \in Nat
      /\ Cardinality(Evicting') \in Nat
  BY EvictingStep
<1>3. Len(order) \in Nat /\ MaxKeys \in Nat
  BY LoginAssumption DEF OrderFits
<1>. QED BY <1>1, <1>2, <1>3 DEF TableBounded, OrderFits

\* The step that books a failure is the one that adds a key, and its thread
\* does not leave register_failure before the table is back under its cap.
LEMMA TableKept ==
    ASSUME LoginInv, TableInv, NEW t \in Threads, Step(t)
    PROVE  TableBounded' /\ OrderFits'
<1>. USE DEF TableInv
<1>0. /\ Agree /\ Len(order) \in Nat /\ MaxKeys \in Nat /\ pc \in [Threads -> Steps]
      /\ Len(order) <= MaxKeys + Cardinality(Evicting) /\ Cardinality(Evicting) \in Nat
  BY LoginAssumption, ThreadSetsFinite
    DEF TableBounded, Agree, OrderFits, LoginInv, ValuesOK, Evicting
<1>1. CASE (\E k \in Keys : Arrive(t, k)) \/ Decide(t) \/ Answer(t) \/ Admit(t) \/ InGate(t)
           \/ Fail(t) \/ Get(t, "retry.get", "retry.judge") \/ Get(t, "fail.get", "fail.judge")
  <2>1. PICK s \in Steps : Goto(t, s)
    BY <1>1 DEF Arrive, Decide, Answer, Admit, InGate, Enter, Verify, Leave, Release, AfterGate,
      Fail, Get, Finish, Steps, LoginInv, LocalsFit, ValuesOK
  <2>2. UNCHANGED <<order, win>> /\ pc[t] \notin {"evict", "pop"}
    BY <1>1 DEF Arrive, Decide, Answer, Admit, InGate, Enter, Verify, Leave, Release, Fail, Get,
      table
  <2>. QED BY <2>1, <2>2, TableUntouched
<1>2. CASE Judge(t, "retry.judge", "decide") \/ Judge(t, "fail.judge", "count")
  <2>1. PICK s \in {"decide", "count", "error"} : Goto(t, s)
    BY <1>2 DEF Judge
  <2>2. key[t] \in Keys /\ pc[t] \notin {"evict", "pop"}
    BY <1>2 DEF Judge, LoginInv, LocalsFit
  <2>3. Cardinality(Evicting') = Cardinality(Evicting)
    BY <2>1, <2>2, EvictingStep DEF Steps
  <2>4. CASE UNCHANGED table
    BY <2>1, <2>2, <2>4, TableUntouched DEF table, Steps
  <2>5. CASE Drop(key[t])
    BY <1>0, <2>2, <2>3, <2>5, DropAgrees DEF Agree, TableBounded
  <2>6. CASE MoveToEnd(key[t]) /\ win[key[t]] # None
    <3>1. Tabled' = Tabled /\ key[t] \in Tabled /\ Tabled' = Tabled \cup {key[t]}
      BY <2>2, <2>6 DEF MoveToEnd, Tabled
    <3>2. Agree' /\ Len(order') = Len(order)
      BY <1>0, <2>2, <2>6, <3>1, LastAgrees DEF MoveToEnd
    <3>. QED BY <1>0, <2>3, <3>2 DEF Agree, TableBounded
  <2>. QED BY <1>2, <2>4, <2>5, <2>6 DEF Judge
<1>3. CASE Reset(t)
  <2>1. key[t] \in Keys /\ pc[t] = "reset" /\ Goto(t, "idle") /\ Drop(key[t])
    BY <1>3 DEF Reset, Finish, LoginInv, LocalsFit
  <2>2. Cardinality(Evicting') = Cardinality(Evicting)
    BY <2>1, EvictingStep DEF Steps
  <2>. QED BY <1>0, <2>1, <2>2, DropAgrees DEF Agree, TableBounded
<1>4. CASE Count(t)
  <2>1. key[t] \in Keys /\ pc[t] = "count" /\ Goto(t, "evict")
    BY <1>4 DEF Count, LoginInv, LocalsFit
  <2>2. Cardinality(Evicting') = Cardinality(Evicting) + 1
    BY <1>0, <2>1, EvictingStep DEF Steps
  <2>3. CASE UNCHANGED <<order, win>>
    BY <2>1, <2>3, TableUntouched DEF Steps
  <2>4. CASE seen[t] = None
    <3>1. PICK c \in Cells \ Live : win' = [win EXCEPT ![key[t]] = c]
      BY <1>4, <2>4 DEF Count
    <3>2. c # None
      BY LoginAssumption
    <3>3. Tabled' = Tabled \cup {key[t]}
      BY <2>1, <3>1, <3>2 DEF Tabled, LoginInv, ValuesOK
    <3>4. order' = Append(Without(key[t]), key[t])
      BY <1>4, <2>4 DEF Count
    <3>5. Agree' /\ Len(order') <= Len(order) + 1 /\ Len(order') \in Nat
      BY <1>0, <2>1, <3>3, <3>4, LastAgrees
    <3>. QED BY <1>0, <2>2, <3>5 DEF Agree, TableBounded
  <2>. QED BY <1>4, <2>3, <2>4 DEF Count
<1>5. CASE Evict(t)
  <2>1. CASE TooMany
    BY <1>5, <2>1, TableUntouched DEF Evict, Steps, table
  <2>2. CASE ~TooMany
    <3>1. UNCHANGED <<order, win>> /\ Len(order) <= MaxKeys /\ Goto(t, "idle")
      BY <1>0, <1>5, <2>2 DEF Evict, TooMany, Finish, table
    <3>2. Cardinality(Evicting') \in Nat
      BY ThreadSetsFinite DEF Evicting
    <3>. QED BY <1>0, <3>1, <3>2 DEF TableBounded, OrderFits, Tabled
  <2>. QED BY <2>1, <2>2
<1>6. CASE Pop(t)
  <2>1. Cardinality(Evicting') \in Nat
    BY ThreadSetsFinite DEF Evicting
  <2>2. CASE order = <<>>
    <3>1. UNCHANGED <<order, win>> /\ Len(order) = 0
      BY <1>6, <2>2 DEF Pop, table
    <3>. QED BY <1>0, <2>1, <3>1 DEF TableBounded, OrderFits, Tabled
  <2>3. CASE order # <<>>
    <3>1. Drop(Head(order)) /\ Goto(t, "evict") /\ pc[t] = "pop"
      BY <1>6, <2>3 DEF Pop
    <3>2. Head(order) \in Keys
      BY <2>3 DEF OrderFits
    <3>3. Cardinality(Evicting') = Cardinality(Evicting)
      BY <1>0, <3>1, EvictingStep DEF Steps
    <3>. QED BY <1>0, <3>1, <3>2, <3>3, DropAgrees DEF Agree, TableBounded
  <2>. QED BY <2>2, <2>3
<1>. QED BY <1>1, <1>2, <1>3, <1>4, <1>5, <1>6 DEF Step, RetryAfter, RegisterFailure

\* Only a password that was found wrong leads into register_failure.
LEMMA BookingKept ==
    ASSUME LoginInv, BookingIsWrong, NEW t \in Threads, Step(t)
    PROVE  BookingIsWrong'
<1>1. pc \in [Threads -> Steps] /\ outcome \in [Threads -> {"none", "right", "wrong", "raised"}]
  BY DEF LoginInv, ValuesOK
<1>2. \A u \in Threads \ {t} : pc'[u] = pc[u] /\ outcome'[u] = outcome[u]
  BY <1>1 DEF Step, Arrive, RetryAfter, RegisterFailure, InGate, Get, Judge, Decide, Answer,
    Admit, Enter, Verify, Leave, Release, Reset, Fail, Count, Evict, Pop, Goto, Finish, locals
<1>3. pc'[t] \in {"fail", "fail.get", "fail.judge", "count"} =>
        /\ outcome'[t] = outcome[t]
        /\ outcome[t] = "wrong" \/ pc[t] \in {"fail", "fail.get", "fail.judge"}
  <2>1. CASE Release(t)
    <3>1. outcome'[t] = outcome[t] /\ pc'[t] = AfterGate(t) /\ pc[t] = "release"
      BY <1>1, <2>1 DEF Release, Goto, locals
    <3>2. outcome[t] \in {"right", "wrong", "raised"}
      BY <1>1, <3>1 DEF LoginInv, LocalsFit
    <3>. QED BY <3>1, <3>2 DEF AfterGate
  <2>2. CASE RegisterFailure(t)
    BY <1>1, <2>2 DEF RegisterFailure, Get, Judge, Fail, Count, Evict, Pop, Goto, Finish, locals
  <2>3. CASE ~Release(t) /\ ~RegisterFailure(t)
    BY <1>1, <2>3 DEF Step, Arrive, RetryAfter, InGate, Get, Judge, Decide, Answer, Admit, Enter,
      Verify, Leave, Reset, Goto, Finish, locals
  <2>. QED BY <2>1, <2>2, <2>3
<1>. QED BY <1>2, <1>3 DEF BookingIsWrong

LEMMA TableInvKept == ASSUME LoginInv, TableInv, [Next]_vars PROVE TableInv'
<1>1. CASE Tick \/ UNCHANGED vars
  <2>1. UNCHANGED <<order, win, pc, outcome>>
    BY <1>1 DEF Tick, vars, table, locals
  <2>2. Tabled' = Tabled /\ Evicting' = Evicting
    BY <2>1 DEF Tabled, Evicting
  <2>. QED BY <2>1, <2>2 DEF TableInv, TableBounded, OrderFits, BookingIsWrong
<1>2. ASSUME NEW t \in Threads, Step(t) PROVE TableInv'
  BY <1>2, TableKept, BookingKept DEF TableInv
<1>. QED BY <1>1, <1>2 DEF Next

\* The table of the throttle never has a key twice, stays within its cap but for the threads
\* that are evicting, and only a wrong password brings a thread to booking a failure
\* (ratelimit.py:39-69).
THEOREM LoginTableInvariant == Spec => []TableInv
<1>1. Init => TableInv
  <2>. SUFFICES ASSUME Init PROVE TableInv
    OBVIOUS
  <2>1. Tabled = {} /\ Evicting = {} /\ order = <<>>
    BY DEF Init, Tabled, Evicting
  <2>2. BookingIsWrong
    BY DEF Init, BookingIsWrong
  <2>. QED BY <2>1, <2>2, FS_EmptySet, LoginAssumption DEF TableInv, OrderFits, TableBounded
<1>. QED BY <1>1, LoginInvariant, TableInvKept, PTL DEF Spec

\* The dictionary and its order of use never disagree, and the table passes its
\* cap by the threads that are still evicting and by no other.
THEOREM LoginTableBounded == Spec => []TableBounded
<1>1. TableInv => TableBounded
  BY DEF TableInv
<1>. QED BY <1>1, LoginTableInvariant, PTL

\* A failure appears only under the address of a thread whose password was
\* found wrong: neither another client's attempt, nor one that was turned away,
\* nor a check that raised counts.
THEOREM LoginOnlyWrongPasswordsCount == Spec => OnlyWrongPasswordsCount
<1>. DEFINE Booked == \A k \in Keys : Fails(k)' > Fails(k) =>
                        \E t \in Threads : key[t] = k /\ outcome[t] = "wrong" /\ pc'[t] # pc[t]
<1>1. ASSUME LoginInv, TableInv, Next PROVE Booked
  <2>0. /\ \A k \in Keys : Fails(k) \in Nat
        /\ win \in [Keys -> Cells \cup {None}] /\ failures \in [Cells -> Nat] /\ None \notin Cells
        /\ pc \in [Threads -> Steps]
    BY <1>1, LoginAssumption DEF LoginInv, ValuesOK, Fails
  <2>1. CASE Tick
    BY <2>0, <2>1 DEF Tick, Fails, table
  <2>2. ASSUME NEW t \in Threads, Step(t), ~Count(t) PROVE Booked
    <3>1. failures' = failures
      BY <2>2 DEF Step, Arrive, RetryAfter, RegisterFailure, InGate, Get, Judge, Decide, Answer,
        Admit, Enter, Verify, Leave, Release, Reset, Fail, Evict, Pop, Drop, MoveToEnd, table
    <3>2. \A k \in Keys : win'[k] \in {win[k], None}
      <4>1. win' = win \/ \E j : Drop(j)
        BY <2>2 DEF Step, Arrive, RetryAfter, RegisterFailure, InGate, Get, Judge, Decide, Answer,
          Admit, Enter, Verify, Leave, Release, Reset, Fail, Evict, Pop, MoveToEnd, table
      <4>. QED BY <2>0, <4>1 DEF Drop
    <3>3. \A k \in Keys : Fails(k)' \in {Fails(k), 0}
      BY <3>1, <3>2 DEF Fails
    <3>. QED BY <2>0, <3>3
  <2>3. ASSUME NEW t \in Threads, Count(t) PROVE Booked
    <3>1. key[t] \in Keys /\ outcome[t] = "wrong" /\ pc'[t] # pc[t]
      BY <1>1, <2>0, <2>3 DEF Count, Goto, LoginInv, LocalsFit, TableInv, BookingIsWrong
    <3>2. ASSUME NEW k \in Keys, k # key[t] PROVE Fails(k)' = Fails(k)
      <4>1. CASE seen[t] = None
        <5>1. PICK c \in Cells \ Live :
                failures' = [failures EXCEPT ![c] = 1] /\ win' = [win EXCEPT ![key[t]] = c]
          BY <2>3, <4>1 DEF Count
        <5>2. win'[k] = win[k] /\ win[k] # c
          BY <2>0, <3>2, <5>1 DEF Live
        <5>. QED BY <2>0, <5>1, <5>2 DEF Fails
      <4>2. CASE seen[t] # None
        <5>1. win' = win /\ failures' = [failures EXCEPT ![seen[t]] = failures[seen[t]] + 1]
          BY <2>3, <4>2 DEF Count
        <5>2. win[k] # seen[t]
          BY <1>1, <3>2, <4>2 DEF LoginInv, OneOwner
        <5>. QED BY <2>0, <5>1, <5>2 DEF Fails
      <4>. QED BY <4>1, <4>2
    <3>. QED BY <2>0, <3>1, <3>2
  <2>. QED BY <1>1, <2>1, <2>2, <2>3 DEF Next
<1>2. ASSUME LoginInv, TableInv, [Next]_vars PROVE [Booked]_vars
  BY <1>1, <1>2
<1>. QED BY <1>2, LoginInvariant, LoginTableInvariant, PTL DEF Spec, OnlyWrongPasswordsCount
=============================================================================
