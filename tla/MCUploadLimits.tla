--------------------------- MODULE MCUploadLimits ---------------------------
EXTENDS UploadLimits, FiniteSets

Plain(r) ==
  [route |-> r, authorized |-> TRUE, declared |-> NoValue, body |-> 0, title |-> 1,
   summary |-> 0, days |-> 0, content |-> 1, utf8 |-> TRUE, assets |-> <<>>]

Sent(q, overhead) == [q EXCEPT !.body = overhead + q.content + AssetBytes(q)]

\* Every combination of the fields' boundaries, in an otherwise legal publish.
FieldCases ==
  {Sent([Plain("publish") EXCEPT !.title = t, !.summary = s, !.days = d, !.utf8 = u], 1) :
     t \in 0..2, s \in {0, 2}, d \in {NoValue, -1, 0, 2, 3}, u \in BOOLEAN}

\* Every combination of the sizes around the limits, with two names and three files.
SizeCases ==
  {Sent([Plain("publish") EXCEPT !.content = c, !.assets = a], o) :
     c \in 0..4, o \in {1, 2, 3},
     a \in UNION {[1..n -> [name : Names, size : 0..3]] : n \in 0..1}
           \union {<<[name |-> x, size |-> m], [name |-> y, size |-> n]>> :
                     x \in SafeNames, y \in SafeNames, m \in 0..3, n \in 0..2}
           \union {[i \in 1..3 |-> [name |-> n, size |-> 0]] : n \in Names}}

\* Declared lengths that agree with the body, are too large, and too small,
\* with the token and without.
DeclaredCases ==
  {[Sent(Plain("publish"), o) EXCEPT !.declared = d, !.authorized = b] :
     d \in {NoValue, 0, 8, 9}, o \in {1, 7, 8}, b \in BOOLEAN}

ShareCases ==
  {[Plain(r) EXCEPT !.authorized = b, !.declared = d, !.body = n] :
     r \in {"redeem", "create"}, b \in BOOLEAN, d \in {NoValue, 0, 2, 3}, n \in 0..6}

MCRequests == FieldCases \union SizeCases \union DeclaredCases \union ShareCases
=============================================================================
