----------------------------- MODULE MCLibrary -----------------------------
EXTENDS Library

CONSTANTS r1, r2, a1, a2, a3, t1, t2, n1, n2

Toggle(a) == [op |-> "toggle", id |-> a]
Erase(a) == [op |-> "delete", id |-> a]
Patch(a, t, n) == [op |-> "patch", id |-> a, topic |-> t, name |-> n]
Rename(t, n) == [op |-> "rename", topic |-> t, name |-> n]
Index(t) == [op |-> "index", selected |-> t]
Stored(t, n, f) == [topic |-> t, name |-> n, favorite |-> f, live |-> TRUE, rev |-> 0]

MCNewest == <<a1, a2, a3>>

\* Two changes of two artifacts, or of one.
ChangeTables ==
  {(a1 :> Stored(t1, n1, FALSE)) @@ (a2 :> Gone) @@ (a3 :> Gone),
   (a1 :> Stored(t1, NoName, TRUE)) @@ (a2 :> Stored(t2, n1, FALSE)) @@ (a3 :> Gone)}
ChangeCalls == {Toggle(a1), Toggle(a2), Erase(a1), Patch(a1, t2, n2), Patch(a1, t1, NoName)}

\* The page, or a rename, beside another call: libraries of up to three artifacts.
AnyRow == {Stored(t, n, f) : t \in {t1, t2}, n \in {n1, NoName}, f \in BOOLEAN} \union {Gone}
PageTables ==
  {(a1 :> r) @@ (a2 :> s) @@ (a3 :> l) :
     r, s \in AnyRow, l \in {Gone, Stored(t1, n2, FALSE)}}
PageCalls == {Patch(a2, t1, n2), Rename(t1, n1), Rename(t1, Blank), Rename(t2, n2),
              Index(t1), Index(NoName)}

MCTables == ChangeTables \union PageTables
MCCalls == ChangeCalls \union PageCalls

MCInit ==
  /\ Init
  /\ \/ rows \in ChangeTables /\ \A p \in Requests : call[p] \in ChangeCalls
     \/ call[r1] \in {Index(t1), Index(NoName), Rename(t1, n1)} /\ call[r2] \in PageCalls

MCSpec == MCInit /\ [][Next]_vars
=============================================================================
