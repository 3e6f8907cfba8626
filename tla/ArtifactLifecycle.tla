------------------------- MODULE ArtifactLifecycle -------------------------
(***************************************************************************)
(* What the store promises the callers of the API, with no filesystem, no  *)
(* janitor and no clock: an artifact is fresh, then live, then gone; each  *)
(* of those changes is one atomic step; it never comes back; and a reader  *)
(* that found it live gets all of it unless it is removed meanwhile.       *)
(***************************************************************************)
CONSTANTS Ids, Workers, None

VARIABLES
    status,   \* of each id: "fresh", "live" or "gone"
    request,  \* what each worker's read has come to
    target    \* the artifact it is about

vars == <<status, request, target>>

Answers == {"served", "partial", "missing"}

TypeOK ==
    /\ status \in [Ids -> {"fresh", "live", "gone"}]
    /\ request \in [Workers -> {"idle", "opened"} \cup Answers]
    /\ target \in [Workers -> Ids \cup {None}]

Init ==
    /\ status = [id \in Ids |-> "fresh"]
    /\ request = [w \in Workers |-> "idle"]
    /\ target = [w \in Workers |-> None]

\* A publish takes effect at one instant, or never does.
Publish(id) ==
    /\ status[id] = "fresh"
    /\ \E s \in {"live", "gone"} : status' = [status EXCEPT ![id] = s]
    /\ UNCHANGED <<request, target>>

\* By its owner, or by the janitor once it has expired.
Remove(id) ==
    /\ status[id] = "live"
    /\ status' = [status EXCEPT ![id] = "gone"]
    /\ UNCHANGED <<request, target>>

Open(w, id) ==
    /\ request[w] = "idle" /\ status[id] = "live"
    /\ request' = [request EXCEPT ![w] = "opened"]
    /\ target' = [target EXCEPT ![w] = id]
    /\ UNCHANGED status

Answer(w, answer) ==
    /\ request[w] = "opened"
    /\ answer # "served" => status[target[w]] = "gone"
    /\ request' = [request EXCEPT ![w] = answer]
    /\ UNCHANGED <<status, target>>

Close(w) ==
    /\ request[w] \in Answers
    /\ request' = [request EXCEPT ![w] = "idle"]
    /\ target' = [target EXCEPT ![w] = None]
    /\ UNCHANGED status

\* The process dies: the reads in progress are lost, and so is a publish that
\* had not taken effect.
Die ==
    /\ request' = [w \in Workers |-> "idle"]
    /\ target' = [w \in Workers |-> None]
    /\ \/ UNCHANGED status
       \/ \E id \in Ids : status[id] = "fresh" /\ status' = [status EXCEPT ![id] = "gone"]

Next ==
    \/ \E id \in Ids : Publish(id) \/ Remove(id)
    \/ \E w \in Workers :
          \/ \E id \in Ids : Open(w, id)
          \/ \E answer \in Answers : Answer(w, answer)
          \/ Close(w)
    \/ Die

Spec == Init /\ [][Next]_vars
=============================================================================
