-------------------------- MODULE RenderingProofs --------------------------
(***************************************************************************)
(* Theorems about HeadingAnchors for every document and every value of the *)
(* limits that AnchorsAssumption allows, and about AssetReferences for     *)
(* every reference of any length and any artifacts with any assets.        *)
(***************************************************************************)
EXTENDS HeadingAnchors, AssetReferences, SequenceTheorems, FiniteSetTheorems,
        WellFoundedInduction, TLAPS

LEMMA WordsAreTokens ==
  ASSUME NEW s \in Seq(Word)
  PROVE  /\ s \in Seq(Token) /\ Len(s) \in Nat
         /\ \A i \in 1..Len(s) : s[i] \in Word /\ s[i] \in Token
<1>1. Word \subseteq Token
  BY AnchorsAssumption DEF Word, Token
<1>2. QED BY <1>1, ElementOfSeq

LEMMA BaseTyped ==
  ASSUME NEW text \in Seq(Word)
  PROVE  Base(text) \in Seq(Word) /\ Base(text) # <<>> /\ Len(Base(text)) <= MaxBase
<1>1. Slug(text) \in Seq(Word) /\ Len(Slug(text)) > 0
  BY DEF Slug, Word
<1>2. CASE Len(Slug(text)) > MaxBase
  <2>1. MaxBase \in 1..Len(Slug(text))
    BY <1>1, <1>2, AnchorsAssumption
  <2>2. SubSeq(Slug(text), 1, MaxBase) \in Seq(Word) /\ Len(SubSeq(Slug(text), 1, MaxBase)) = MaxBase
    BY <1>1, <2>1, SubSeqProperties
  <2>3. QED BY <1>2, <2>1, <2>2, AnchorsAssumption DEF Base
<1>3. CASE ~(Len(Slug(text)) > MaxBase)
  BY <1>1, <1>3, AnchorsAssumption DEF Base
<1>4. QED BY <1>2, <1>3

LEMMA AnchorTyped ==
  ASSUME NEW base \in Seq(Token), NEW n \in Nat
  PROVE  Anchor(base, n) \in Seq(Token) /\ Anchor(base, n) # NoId
<1>1. n \in Token
  BY DEF Token
<1>2. Append(base, n) \in Seq(Token)
  BY <1>1
<1>3. Anchor(base, n) \in Seq(Token)
  BY <1>2 DEF Anchor
<1>4. QED BY <1>3, AnchorsAssumption

\* A base that ends in no number and the count of its repetition can be read off the anchor.
LEMMA AnchorInjective ==
  ASSUME NEW b \in Seq(Token), NEW c \in Seq(Token), b # <<>>, c # <<>>,
         Last(b) \notin Nat, Last(c) \notin Nat,
         NEW m \in Nat, NEW n \in Nat, Anchor(b, m) = Anchor(c, n)
  PROVE  b = c /\ m = n
<1>1. CASE m = 0 /\ n = 0
  BY <1>1 DEF Anchor
<1>2. CASE m = 0 /\ n # 0
  <2>1. b = Append(c, n)
    BY <1>2 DEF Anchor
  <2>2. Last(b) = n
    BY <2>1 DEF Last
  <2>3. QED BY <2>2
<1>3. CASE m # 0 /\ n = 0
  <2>1. c = Append(b, m)
    BY <1>3 DEF Anchor
  <2>2. Last(c) = m
    BY <2>1 DEF Last
  <2>3. QED BY <2>2
<1>4. CASE m # 0 /\ n # 0
  <2>1. Append(b, m) = Append(c, n)
    BY <1>4 DEF Anchor
  <2>2. Len(b) = Len(c) /\ m = n
    BY <2>1
  <2>3. \A i \in 1..Len(b) : b[i] = c[i]
    BY <2>1, <2>2
  <2>4. QED BY <2>2, <2>3, SeqEqual
<1>5. QED BY <1>1, <1>2, <1>3, <1>4

LEMMA DocTyped ==
  ASSUME TypeOK
  PROVE  /\ doc \in Seq(Heading) /\ Len(doc) \in Nat /\ DOMAIN doc = 1..Len(doc)
         /\ \A k \in DOMAIN doc : /\ doc[k].text \in Seq(Token) /\ doc[k].raw \in BOOLEAN
                                  /\ BaseOf(k) \in Seq(Word) /\ BaseOf(k) \in Seq(Token)
                                  /\ BaseOf(k) # <<>> /\ Len(BaseOf(k)) <= MaxBase
<1>1. doc \in Seq(Heading)
  BY AnchorsAssumption DEF TypeOK
<1>2. \A k \in DOMAIN doc : doc[k].text \in Seq(Word) /\ doc[k].raw \in BOOLEAN
  <2>1. \A k \in DOMAIN doc : doc[k] \in Heading
    BY <1>1
  <2>2. QED BY <2>1 DEF Heading
<1>3. \A k \in DOMAIN doc :
        BaseOf(k) \in Seq(Word) /\ BaseOf(k) # <<>> /\ Len(BaseOf(k)) <= MaxBase
  BY <1>2, BaseTyped DEF BaseOf
<1>4. QED BY <1>1, <1>2, <1>3, WordsAreTokens

LEMMA AssignKeeps == ASSUME AnchorsInv, AssignAnchor PROVE AnchorsInv'
<1> DEFINE base == BaseOf(next)
           seen == used[base]
           anchor == Anchor(base, seen)
<1>1. /\ doc' = doc /\ at' = at /\ at = "assign" /\ next \in DOMAIN doc /\ ~doc[next].raw
      /\ next' = next + 1 /\ next \in Nat
      /\ base \in Seq(Token) /\ base # <<>> /\ base \in DOMAIN used /\ seen \in Nat
      /\ \A k \in DOMAIN doc : BaseOf(k)' = BaseOf(k)
      /\ DOMAIN doc \subseteq Nat
  <2>1. /\ doc' = doc /\ at' = at /\ at = "assign" /\ next' = next + 1
        /\ next <= Len(doc) /\ ~doc[next].raw
    BY DEF AssignAnchor
  <2>2. /\ DOMAIN doc = 1..Len(doc) /\ Len(doc) \in Nat
        /\ \A k \in DOMAIN doc : BaseOf(k) \in Seq(Token) /\ BaseOf(k) # <<>>
    BY DocTyped DEF AnchorsInv
  <2>3. next \in Nat /\ next >= 1
    BY <2>2 DEF AnchorsInv, TypeOK
  <2>4. next \in DOMAIN doc /\ DOMAIN doc \subseteq Nat
    BY <2>1, <2>2, <2>3
  <2>5. \A k \in DOMAIN doc : BaseOf(k)' = BaseOf(k)
    BY <2>1 DEF BaseOf
  <2>6. used \in [{BaseOf(k) : k \in DOMAIN doc} -> Nat]
    BY DEF AnchorsInv, TypeOK
  <2>7. base \in DOMAIN used /\ seen \in Nat
    BY <2>4, <2>6
  <2>8. QED BY <2>1, <2>2, <2>3, <2>4, <2>5, <2>7
<1>2. anchor \in Seq(Token) /\ anchor # NoId
  BY <1>1, AnchorTyped
<1>3. /\ used' = [used EXCEPT ![base] = seen + 1] /\ nth' = [nth EXCEPT ![next] = seen]
      /\ ids' = [ids EXCEPT ![next] = anchor]
  BY DEF AssignAnchor
<1>4. TypeOK'
  <2>1. next' \in 1..(Len(doc') + 1)
    BY <1>1, DocTyped DEF AnchorsInv
  <2>2. used' \in [{BaseOf(k)' : k \in DOMAIN doc'} -> Nat]
    <3>1. {BaseOf(k)' : k \in DOMAIN doc'} = {BaseOf(k) : k \in DOMAIN doc}
      BY <1>1
    <3>2. used' \in [{BaseOf(k) : k \in DOMAIN doc} -> Nat]
      BY <1>1, <1>3 DEF AnchorsInv, TypeOK
    <3>3. QED BY <3>1, <3>2
  <2>3. /\ ids' \in [DOMAIN doc' -> AnchorType \union {NoId}] /\ nth' \in [DOMAIN doc' -> Nat]
    BY <1>1, <1>2, <1>3 DEF AnchorsInv, TypeOK, AnchorType
  <2>4. QED BY <1>1, <2>1, <2>2, <2>3 DEF AnchorsInv, TypeOK
<1>5. Counted'
  <2>1. /\ nth'[next] = seen /\ ids'[next] = anchor /\ used'[base] = seen + 1
        /\ \A k \in DOMAIN doc \ {next} : nth'[k] = nth[k] /\ ids'[k] = ids[k]
        /\ \A k \in DOMAIN doc : BaseOf(k) # base => used'[BaseOf(k)] = used[BaseOf(k)]
    BY <1>1, <1>3 DEF AnchorsInv, TypeOK
  <2>2. \A k \in DOMAIN doc : nth[k] \in Nat /\ used[BaseOf(k)] \in Nat
    BY DEF AnchorsInv, TypeOK
  <2>3. SUFFICES ASSUME NEW k \in DOMAIN doc, k < next + 1, ~doc[k].raw
                 PROVE  /\ nth'[k] < used'[BaseOf(k)]
                        /\ ids'[k] \in {NoId, Anchor(BaseOf(k), nth'[k])}
                        /\ \A j \in DOMAIN doc : j < k /\ ~doc[j].raw /\ BaseOf(j) = BaseOf(k)
                                                 => nth'[j] < nth'[k]
    BY <1>1 DEF Counted
  <2>4. CASE k = next
    <3>1. \A j \in DOMAIN doc : j < next /\ ~doc[j].raw /\ BaseOf(j) = base => nth[j] < seen
      BY DEF AnchorsInv, Counted
    <3>2. QED BY <1>1, <2>1, <2>2, <2>4, <3>1
  <2>5. CASE k # next
    <3>1. k < next
      BY <1>1, <2>3, <2>5
    <3>2. /\ nth[k] < used[BaseOf(k)] /\ ids[k] \in {NoId, Anchor(BaseOf(k), nth[k])}
          /\ \A j \in DOMAIN doc : j < k /\ ~doc[j].raw /\ BaseOf(j) = BaseOf(k) => nth[j] < nth[k]
      BY <2>3, <3>1 DEF AnchorsInv, Counted
    <3>3. \A j \in DOMAIN doc : j < k => j # next
      BY <1>1, <3>1
    <3>4. nth'[k] < used'[BaseOf(k)]
      BY <1>1, <2>1, <2>2, <2>5, <3>2
    <3>5. QED BY <2>1, <2>5, <3>2, <3>3, <3>4
  <2>6. QED BY <2>4, <2>5
<1>6. NotYet'
  BY <1>1, <1>3 DEF AnchorsInv, TypeOK, NotYet
<1>7. SafeAreKept'
  <2>1. /\ nth'[next] = seen /\ ids'[next] = anchor
        /\ \A k \in DOMAIN doc \ {next} : nth'[k] = nth[k] /\ ids'[k] = ids[k]
    BY <1>1, <1>3 DEF AnchorsInv, TypeOK
  <2>2. SUFFICES ASSUME NEW k \in DOMAIN doc, k < next + 1, ~doc[k].raw,
                        Safe(Anchor(BaseOf(k), nth'[k]))
                 PROVE  ids'[k] = Anchor(BaseOf(k), nth'[k])
    BY <1>1 DEF SafeAreKept, Safe, Size
  <2>3. k # next => k < next
    BY <1>1, <2>2
  <2>4. QED BY <2>1, <2>2, <2>3 DEF AnchorsInv, SafeAreKept
<1>8. QED BY <1>4, <1>5, <1>6, <1>7 DEF AnchorsInv

\* The steps that count nothing: an id is passed on, or taken away.
LEMMA OthersKeep ==
  ASSUME AnchorsInv, PassRaw \/ Render \/ Sanitize \/ FilterToc \/ UNCHANGED vars
  PROVE  AnchorsInv'
<1>1. /\ doc' = doc /\ used' = used /\ nth' = nth /\ next' \in 1..(Len(doc) + 1)
      /\ next' \in {next, next + 1}
      /\ next' # next => next \in DOMAIN doc /\ doc[next].raw
      /\ at' \in {"assign", "sanitize", "filter", "done"}
      /\ \A k \in DOMAIN doc : BaseOf(k)' = BaseOf(k)
  BY DocTyped DEF AnchorsInv, TypeOK, PassRaw, Render, Sanitize, FilterToc, vars, BaseOf
<1>2. /\ ids' \in [DOMAIN doc -> AnchorType \union {NoId}]
      /\ \A k \in DOMAIN doc : ~doc[k].raw \/ k >= next' => ids'[k] \in {NoId, ids[k]}
      /\ \A k \in DOMAIN doc : ~doc[k].raw /\ ids[k] # NoId /\ Safe(ids[k]) => ids'[k] = ids[k]
  <2>1. CASE PassRaw
    <3>1. ids' = [ids EXCEPT ![next] = IF doc[next].text = <<>> THEN NoId ELSE doc[next].text]
          /\ next \in DOMAIN doc /\ doc[next].raw /\ next' = next + 1 /\ next \in Nat
      BY <2>1, DocTyped DEF AnchorsInv, TypeOK, PassRaw
    <3>2. doc[next].text \in AnchorType
      BY <3>1, DocTyped DEF AnchorsInv, AnchorType
    <3>3. QED BY <3>1, <3>2, DocTyped DEF AnchorsInv, TypeOK
  <2>2. CASE Sanitize
    BY <2>2 DEF AnchorsInv, TypeOK, Sanitize
  <2>3. CASE Render \/ FilterToc \/ UNCHANGED vars
    BY <2>3 DEF AnchorsInv, TypeOK, Render, FilterToc, vars
  <2>4. QED BY <2>1, <2>2, <2>3
<1>3. TypeOK'
  <2>1. {BaseOf(k)' : k \in DOMAIN doc'} = {BaseOf(k) : k \in DOMAIN doc}
    BY <1>1
  <2>2. QED BY <1>1, <1>2, <2>1 DEF AnchorsInv, TypeOK
<1>4. Counted'
  <2>1. \A k \in DOMAIN doc : k < next' /\ ~doc[k].raw => k < next
    BY <1>1, DocTyped DEF AnchorsInv, TypeOK
  <2>2. QED BY <1>1, <1>2, <2>1 DEF AnchorsInv, Counted
<1>5. NotYet'
  <2>1. \A k \in DOMAIN doc : k >= next' => k >= next
    BY <1>1, DocTyped DEF AnchorsInv, TypeOK
  <2>2. QED BY <1>1, <1>2, <2>1 DEF AnchorsInv, NotYet
<1>6. SafeAreKept'
  <2>1. SUFFICES ASSUME NEW k \in DOMAIN doc, k < next', ~doc[k].raw,
                        Safe(Anchor(BaseOf(k), nth[k]))
                 PROVE  ids'[k] = Anchor(BaseOf(k), nth[k])
    BY <1>1 DEF SafeAreKept, Safe, Size
  <2>2. k < next
    BY <1>1, <2>1, DocTyped DEF AnchorsInv, TypeOK
  <2>3. ids[k] = Anchor(BaseOf(k), nth[k])
    BY <2>1, <2>2 DEF AnchorsInv, SafeAreKept
  <2>4. ids[k] # NoId
    BY <2>3, DocTyped, AnchorTyped DEF AnchorsInv, TypeOK
  <2>5. QED BY <1>2, <2>1, <2>3, <2>4
<1>7. QED BY <1>3, <1>4, <1>5, <1>6 DEF AnchorsInv

LEMMA AnchorsInit == Init => AnchorsInv
BY AnchorsAssumption DEF Init, AnchorsInv, TypeOK, Counted, NotYet, SafeAreKept

LEMMA AnchorsStep == AnchorsInv /\ [Next]_vars => AnchorsInv'
BY AssignKeeps, OthersKeep DEF Next, Finished

\* Whoever has been counted apart is told apart.
LEMMA CountedIsDistinct == AnchorsInv => PlainAnchorsUnique
<1> SUFFICES ASSUME AnchorsInv, PlainDoc, NEW j \in DOMAIN doc, NEW k \in DOMAIN doc,
                    ids[j] # NoId, ids[j] = ids[k]
             PROVE  j = k
  BY DEF PlainAnchorsUnique, Distinct
<1>1. /\ j \in Nat /\ k \in Nat /\ next \in Nat /\ j < next /\ k < next
      /\ ~doc[j].raw /\ ~doc[k].raw /\ nth[j] \in Nat /\ nth[k] \in Nat
  BY DocTyped DEF AnchorsInv, TypeOK, NotYet, PlainDoc
<1>2. Anchor(BaseOf(j), nth[j]) = Anchor(BaseOf(k), nth[k])
  BY <1>1 DEF AnchorsInv, Counted
<1>3. BaseOf(j) = BaseOf(k) /\ nth[j] = nth[k]
  BY <1>1, <1>2, DocTyped, AnchorInjective DEF AnchorsInv, PlainDoc
<1>4. ~(j < k) /\ ~(k < j)
  BY <1>1, <1>3 DEF AnchorsInv, Counted
<1>5. QED BY <1>1, <1>4

\* The first repetitions of a base fit: the cut leaves room for one digit.
LEMMA FirstTenAreSafe ==
  ASSUME NEW b \in Seq(Word), Len(b) <= MaxBase, NEW n \in Nat, n < Ten
  PROVE  Safe(Anchor(b, n))
<1> DEFINE a == Anchor(b, n)
<1>1. a \in Seq(Token) /\ Len(a) \in Nat /\ Len(a) <= MaxBase + 1
  <2>1. b \in Seq(Token) /\ Len(b) \in Nat /\ n \in Token
    BY WordsAreTokens DEF Token
  <2>2. Append(b, n) \in Seq(Token) /\ Len(Append(b, n)) = Len(b) + 1
    BY <2>1
  <2>3. QED BY <2>1, <2>2, AnchorsAssumption DEF Anchor
<1>2. \A i \in 1..Len(a) : a[i] \notin Nat \/ a[i] < Ten
  <2>1. \A w \in Word : w \notin Nat \/ w < Ten
    BY AnchorsAssumption DEF Word
  <2>2. QED BY <2>1, WordsAreTokens DEF Anchor
<1>3. {i \in DOMAIN a : a[i] \in Nat /\ a[i] >= Ten} = {}
  <2> HIDE DEF a
  <2>1. QED BY <1>1, <1>2, AnchorsAssumption
<1>4. Size(a) = Len(a)
  <2> HIDE DEF a
  <2>1. Cardinality({i \in DOMAIN a : a[i] \in Nat /\ a[i] >= Ten}) = 0
    BY <1>3, FS_EmptySet
  <2>2. QED BY <1>1, <2>1 DEF Size
<1>5. QED BY <1>1, <1>4, AnchorsAssumption DEF Safe

LEMMA FirstTenAreKept == AnchorsInv => FirstTenKeepAnchors
<1> SUFFICES ASSUME AnchorsInv, NEW k \in DOMAIN doc, ~doc[k].raw, k < next, nth[k] < Ten
             PROVE  ids[k] # NoId
  BY DEF FirstTenKeepAnchors
<1>1. BaseOf(k) \in Seq(Word) /\ BaseOf(k) \in Seq(Token) /\ Len(BaseOf(k)) <= MaxBase /\ nth[k] \in Nat
  BY DocTyped DEF AnchorsInv, TypeOK
<1>2. ids[k] = Anchor(BaseOf(k), nth[k])
  BY <1>1, FirstTenAreSafe DEF AnchorsInv, SafeAreKept
<1>3. QED BY <1>1, <1>2, AnchorTyped

(* What the headings passed so far were given (rendering.py:294-310). *)
THEOREM AnchorsInvariant == Spec => []AnchorsInv
BY AnchorsInit, AnchorsStep, PTL DEF Spec

(* Every variable keeps its type. *)
THEOREM AnchorsTypeOK == Spec => []TypeOK
BY AnchorsInvariant, PTL DEF AnchorsInv

(* Headings that end in no number have distinct anchors, whatever their        *)
(* number, their length, the cut and the sanitiser's limit (rendering.py:303). *)
THEOREM PlainHeadingsAreDistinct == Spec => []PlainAnchorsUnique
BY AnchorsInvariant, CountedIsDistinct, PTL

(* The cut at 120 and the 120 characters that _SAFE_ANCHOR allows behind its   *)
(* prefix agree: whatever its text, a heading keeps its anchor through the    *)
(* sanitiser unless it repeats an earlier one for the tenth time or more.     *)
THEOREM FirstTenHeadingsKeepAnchors == Spec => []FirstTenKeepAnchors
BY AnchorsInvariant, FirstTenAreKept, PTL
-----------------------------------------------------------------------------
(***************************************************************************)
(* A recursive function on 0..n is a CHOOSE; that it has a value at all is *)
(* shown by induction, from the well-foundedness of the natural numbers.   *)
(***************************************************************************)
LEMMA LeastElement ==
  ASSUME NEW S \in SUBSET Nat, S # {}
  PROVE  \E n \in S : \A m \in S : n <= m
<1> DEFINE R == {p \in Nat \X Nat : p[1] < p[2]}
<1>1. IsWellFoundedOn(R, Nat)
  BY NatLessThanWellFounded DEF OpToRel
<1>2. PICK n \in S : \A m \in S : <<m, n>> \notin R
  <2> HIDE DEF R
  <2>1. QED BY <1>1, WFMin
<1>3. \A m \in S : ~(m < n)
  BY <1>2
<1>4. QED BY <1>3

LEMMA SetInduction ==
  ASSUME NEW S, 0 \in S, \A n \in Nat : n \in S => n + 1 \in S
  PROVE  Nat \subseteq S
<1> SUFFICES ASSUME ~(Nat \subseteq S) PROVE FALSE
  OBVIOUS
<1> DEFINE T == Nat \ S
<1>1. PICK n \in T : \A m \in T : n <= m
  <2>1. T # {} /\ T \in SUBSET Nat
    OBVIOUS
  <2> HIDE DEF T
  <2>2. QED BY <2>1, LeastElement
<1>2. n # 0 /\ n - 1 \in Nat
  OBVIOUS
<1>3. n - 1 \in S
  BY <1>1, <1>2
<1>4. n - 1 + 1 \in S
  BY <1>2, <1>3
<1>5. QED BY <1>4

\* A step taken once for each of n elements reaches a value of D.
Reaches(f, D, start, step, n) ==
  /\ f \in [0..n -> D] /\ f[0] = start
  /\ \A i \in 1..n : f[i] = step[<<i, f[i - 1]>>]

LEMMA Iterated ==
  ASSUME NEW D, NEW start \in D, NEW n \in Nat, NEW step,
         \A i \in 1..n, d \in D : step[<<i, d>>] \in D
  PROVE  \E f : Reaches(f, D, start, step, n)
<1> DEFINE S == {m \in Nat : m <= n => \E f : Reaches(f, D, start, step, m)}
<1>1. 0 \in S
  <2>1. Reaches([i \in 0..0 |-> start], D, start, step, 0)
    BY DEF Reaches
  <2>2. QED BY <2>1
<1>2. ASSUME NEW m \in Nat, m \in S PROVE m + 1 \in S
  <2> SUFFICES ASSUME m + 1 <= n PROVE \E f : Reaches(f, D, start, step, m + 1)
    OBVIOUS
  <2>1. PICK f : Reaches(f, D, start, step, m)
    BY <1>2
  <2> DEFINE g == [i \in 0..(m + 1) |-> IF i <= m THEN f[i] ELSE step[<<m + 1, f[m]>>]]
  <2>2. f[m] \in D /\ m + 1 \in 1..n
    BY <2>1 DEF Reaches
  <2>3. step[<<m + 1, f[m]>>] \in D
    BY <2>2
  <2>4. g \in [0..(m + 1) -> D] /\ g[0] = start
    BY <2>1, <2>3 DEF Reaches
  <2>5. ASSUME NEW i \in 1..(m + 1) PROVE g[i] = step[<<i, g[i - 1]>>]
    <3>1. CASE i <= m
      BY <2>1, <3>1 DEF Reaches
    <3>2. CASE i = m + 1
      <4>1. i - 1 = m /\ ~(i <= m) /\ m \in 0..(m + 1) /\ i \in 0..(m + 1) /\ m <= m
        BY <3>2
      <4>2. g[m] = f[m] /\ g[i] = step[<<m + 1, f[m]>>]
        BY <4>1
      <4> HIDE DEF g
      <4>3. QED BY <3>2, <4>1, <4>2
    <3>3. QED BY <3>1, <3>2
  <2> HIDE DEF g
  <2>6. Reaches(g, D, start, step, m + 1)
    BY <2>4, <2>5 DEF Reaches
  <2>7. QED BY <2>6
<1>3. n \in S
  <2> HIDE DEF S
  <2>1. QED BY <1>1, <1>2, SetInduction
<1>4. QED BY <1>3

\* What the list comprehension holds after each entry.
Filtered(f, entries) ==
  /\ f \in [0..Len(entries) -> Seq(Entry)] /\ f[0] = <<>>
  /\ \A i \in 1..Len(entries) :
       f[i] = IF OnPage(entries[i]) THEN Append(f[i - 1], entries[i]) ELSE f[i - 1]

LEMMA SurvivingIsFiltered ==
  ASSUME NEW entries \in Seq(Entry)
  PROVE  \E f : Filtered(f, entries) /\ Surviving(entries) = f[Len(entries)]
<1>1. PICK n : n = Len(entries)
  OBVIOUS
<1>2. n \in Nat /\ \A i \in 1..n : entries[i] \in Entry
  BY <1>1, ElementOfSeq
<1>3. PICK step : step = [p \in (1..n) \X Seq(Entry) |->
                            IF OnPage(entries[p[1]]) THEN Append(p[2], entries[p[1]]) ELSE p[2]]
  OBVIOUS
<1>4. ASSUME NEW i \in 1..n, NEW d \in Seq(Entry)
      PROVE  /\ step[<<i, d>>] = IF OnPage(entries[i]) THEN Append(d, entries[i]) ELSE d
             /\ step[<<i, d>>] \in Seq(Entry)
  <2>1. Append(d, entries[i]) \in Seq(Entry)
    BY <1>2
  <2>2. QED BY <1>3, <2>1
<1>5. PICK f : Reaches(f, Seq(Entry), <<>>, step, n)
  <2>1. <<>> \in Seq(Entry)
    OBVIOUS
  <2>2. \A i \in 1..n, d \in Seq(Entry) : step[<<i, d>>] \in Seq(Entry)
    BY <1>4
  <2>3. QED BY <1>2, <2>1, <2>2, Iterated
<1>6. ASSUME NEW i \in 1..n
      PROVE  f[i] = IF OnPage(entries[i]) THEN Append(f[i - 1], entries[i]) ELSE f[i - 1]
  <2>1. i - 1 \in 0..n
    BY <1>2
  <2>2. f[i - 1] \in Seq(Entry) /\ f[i] = step[<<i, f[i - 1]>>]
    BY <1>5, <2>1 DEF Reaches
  <2>3. QED BY <1>4, <2>2
<1> DEFINE F(h) == [i \in 0..Len(entries) |->
             IF i = 0 THEN <<>>
             ELSE IF OnPage(entries[i]) THEN Append(h[i - 1], entries[i]) ELSE h[i - 1]]
<1>7. f = F(f)
  <2>1. \A i \in 0..n : i = 0 \/ i \in 1..n
    BY <1>2
  <2>2. \A i \in 0..n : f[i] = F(f)[i]
    BY <1>1, <1>5, <1>6, <2>1 DEF Reaches
  <2>3. QED BY <1>1, <1>5, <2>2 DEF Reaches
<1>8. PICK g : g = F(g) /\ Surviving(entries) = g[n]
  <2>1. PICK g : g = CHOOSE h : h = F(h)
    OBVIOUS
  <2>2. g = F(g)
    BY <1>7, <2>1
  <2>3. Surviving(entries) = (CHOOSE h : h = F(h))[Len(entries)]
    BY DEF Surviving
  <2>4. Surviving(entries) = g[n]
    BY <1>1, <2>1, <2>3, Zenon
  <2>5. QED BY <2>2, <2>4
<1>9. g[0] = <<>> /\ \A i \in 1..n :
        g[i] = IF OnPage(entries[i]) THEN Append(g[i - 1], entries[i]) ELSE g[i - 1]
  <2>1. 0 \in 0..n /\ \A i \in 1..n : i \in 0..n /\ i # 0
    BY <1>2
  <2>2. QED BY <1>1, <1>8, <2>1
<1>10. g \in [0..n -> Seq(Entry)]
  <2> DEFINE S == {i \in Nat : i <= n => g[i] \in Seq(Entry)}
  <2>1. 0 \in S
    <3>1. <<>> \in Seq(Entry)
      OBVIOUS
    <3>2. QED BY <1>9, <3>1
  <2>2. ASSUME NEW i \in Nat, i \in S PROVE i + 1 \in S
    <3> SUFFICES ASSUME i + 1 <= n PROVE g[i + 1] \in Seq(Entry)
      OBVIOUS
    <3>1. i + 1 \in 1..n /\ (i + 1) - 1 = i /\ g[i] \in Seq(Entry)
      BY <1>2, <2>2
    <3>2. entries[i + 1] \in Entry
      BY <1>2, <3>1
    <3>3. Append(g[i], entries[i + 1]) \in Seq(Entry)
      BY <3>1, <3>2
    <3>4. QED BY <1>9, <3>1, <3>3
  <2>3. Nat \subseteq S
    <3> HIDE DEF S
    <3>1. QED BY <2>1, <2>2, SetInduction
  <2>4. \A i \in 0..n : g[i] \in Seq(Entry)
    BY <1>2, <2>3
  <2>5. QED BY <1>1, <1>8, <2>4
<1>11. QED BY <1>1, <1>8, <1>9, <1>10 DEF Filtered

\* The filter keeps the order, and exactly the entries that are on the page.
SurvivorsOf(kept, entries, n) ==
  /\ Ascending(kept)
  /\ \A a \in DOMAIN kept : \E j \in 1..n : kept[a] = entries[j] /\ OnPage(entries[j])
  /\ \A j \in 1..n : OnPage(entries[j]) => \E a \in DOMAIN kept : kept[a] = entries[j]

LEMMA OneMoreEntry ==
  ASSUME NEW entries \in Seq(Entry), Ascending(entries), NEW n \in Nat, n + 1 <= Len(entries),
         NEW kept \in Seq(Entry), SurvivorsOf(kept, entries, n), OnPage(entries[n + 1])
  PROVE  SurvivorsOf(Append(kept, entries[n + 1]), entries, n + 1)
<1> DEFINE longer == Append(kept, entries[n + 1])
<1>1. /\ n + 1 \in 1..Len(entries) /\ Len(kept) \in Nat /\ Len(entries) \in Nat
      /\ entries[n + 1] \in Entry
      /\ \A i \in 1..Len(entries) : entries[i].heading \in Nat
  <2>1. \A i \in 1..Len(entries) : entries[i] \in Entry
    BY ElementOfSeq
  <2>2. QED BY <2>1 DEF Entry
<1>2. /\ DOMAIN kept = 1..Len(kept) /\ DOMAIN longer = 1..(Len(kept) + 1)
      /\ longer[Len(kept) + 1] = entries[n + 1]
      /\ \A a \in 1..Len(kept) : longer[a] = kept[a]
  BY <1>1
<1> HIDE DEF longer
<1>3. ASSUME NEW a \in 1..Len(kept) PROVE kept[a].heading < entries[n + 1].heading
  <2>1. PICK j \in 1..n : kept[a] = entries[j]
    BY <1>2, <1>3 DEF SurvivorsOf
  <2>2. j \in DOMAIN entries /\ n + 1 \in DOMAIN entries /\ j < n + 1
    BY <1>1
  <2>3. QED BY <2>1, <2>2 DEF Ascending
<1>4. Ascending(longer)
  <2> SUFFICES ASSUME NEW i \in DOMAIN longer, NEW j \in DOMAIN longer, i < j
               PROVE  longer[i].heading < longer[j].heading
    BY DEF Ascending
  <2>1. CASE j = Len(kept) + 1
    BY <1>1, <1>2, <1>3, <2>1
  <2>2. CASE j # Len(kept) + 1
    <3>1. i \in DOMAIN kept /\ j \in DOMAIN kept
      BY <1>1, <1>2, <2>2
    <3>2. QED BY <1>2, <3>1 DEF SurvivorsOf, Ascending
  <2>3. QED BY <2>1, <2>2
<1>5. ASSUME NEW a \in DOMAIN longer
      PROVE  \E j \in 1..(n + 1) : longer[a] = entries[j] /\ OnPage(entries[j])
  <2>1. CASE a = Len(kept) + 1
    BY <1>2, <2>1
  <2>2. CASE a # Len(kept) + 1
    <3>1. a \in DOMAIN kept /\ longer[a] = kept[a]
      BY <1>1, <1>2, <2>2
    <3>2. PICK j \in 1..n : kept[a] = entries[j] /\ OnPage(entries[j])
      BY <3>1 DEF SurvivorsOf
    <3>3. j \in 1..(n + 1)
      OBVIOUS
    <3>4. QED BY <3>1, <3>2, <3>3
  <2>3. QED BY <2>1, <2>2
<1>6. ASSUME NEW j \in 1..(n + 1), OnPage(entries[j])
      PROVE  \E a \in DOMAIN longer : longer[a] = entries[j]
  <2>1. CASE j = n + 1
    <3>1. Len(kept) + 1 \in DOMAIN longer
      BY <1>1, <1>2
    <3>2. QED BY <1>2, <2>1, <3>1
  <2>2. CASE j # n + 1
    <3>1. j \in 1..n
      BY <2>2
    <3>2. PICK a \in DOMAIN kept : kept[a] = entries[j]
      BY <1>6, <3>1 DEF SurvivorsOf
    <3>3. a \in DOMAIN longer /\ longer[a] = kept[a]
      BY <1>1, <1>2
    <3>4. QED BY <3>2, <3>3
  <2>3. QED BY <2>1, <2>2
<1>7. QED BY <1>4, <1>5, <1>6 DEF SurvivorsOf, longer

LEMMA SurvivingAreThose ==
  ASSUME NEW entries \in Seq(Entry), Ascending(entries)
  PROVE  SurvivorsOf(Surviving(entries), entries, Len(entries))
<1>1. PICK f : Filtered(f, entries) /\ Surviving(entries) = f[Len(entries)]
  BY SurvivingIsFiltered
<1> DEFINE S == {n \in Nat : n <= Len(entries) => SurvivorsOf(f[n], entries, n)}
<1>2. 0 \in S
  <2>1. f[0] = <<>>
    BY <1>1 DEF Filtered
  <2>2. SurvivorsOf(<<>>, entries, 0)
    BY DEF SurvivorsOf, Ascending
  <2>3. QED BY <2>1, <2>2
<1>3. ASSUME NEW n \in Nat, n \in S PROVE n + 1 \in S
  <2> SUFFICES ASSUME n + 1 <= Len(entries) PROVE SurvivorsOf(f[n + 1], entries, n + 1)
    OBVIOUS
  <2>1. /\ n + 1 \in 1..Len(entries) /\ n \in 0..Len(entries) /\ (n + 1) - 1 = n
        /\ f[n] \in Seq(Entry)
        /\ f[n + 1] = IF OnPage(entries[n + 1]) THEN Append(f[n], entries[n + 1]) ELSE f[n]
    <3>1. n + 1 \in 1..Len(entries) /\ n \in 0..Len(entries) /\ (n + 1) - 1 = n
      OBVIOUS
    <3>2. QED BY <1>1, <3>1 DEF Filtered
  <2>2. SurvivorsOf(f[n], entries, n)
    BY <1>3, <2>1
  <2>3. CASE OnPage(entries[n + 1])
    BY <2>1, <2>2, <2>3, OneMoreEntry
  <2>4. CASE ~OnPage(entries[n + 1])
    <3>1. \A j \in 1..(n + 1) : OnPage(entries[j]) => j \in 1..n
      BY <2>4
    <3>2. 1..n \subseteq 1..(n + 1)
      OBVIOUS
    <3>3. f[n + 1] = f[n]
      BY <2>1, <2>4
    <3>4. QED BY <2>2, <3>1, <3>2, <3>3 DEF SurvivorsOf
  <2>5. QED BY <2>3, <2>4
<1>4. Len(entries) \in S
  <2> HIDE DEF S
  <2>1. QED BY <1>2, <1>3, SetInduction, LenProperties
<1>5. QED BY <1>1, <1>4

-----------------------------------------------------------------------------
LEMMA TocGrows == ASSUME AnchorsInv, TocInv, AssignAnchor PROVE TocInv'
<1> DEFINE anchor == Anchor(BaseOf(next), used[BaseOf(next)])
           entry == [heading |-> next, anchor |-> anchor]
<1>1. /\ doc' = doc /\ at' = at /\ at = "assign" /\ next \in DOMAIN doc /\ ~doc[next].raw
      /\ next' = next + 1 /\ next \in Nat /\ used[BaseOf(next)] \in Nat
      /\ BaseOf(next) \in Seq(Token) /\ DOMAIN doc \subseteq Nat
      /\ \A k \in DOMAIN doc : BaseOf(k)' = BaseOf(k) /\ (Listed(k)' <=> Listed(k))
  <2>1. /\ doc' = doc /\ at' = at /\ at = "assign" /\ next \in DOMAIN doc /\ ~doc[next].raw
        /\ next' = next + 1 /\ next \in Nat
    BY DocTyped DEF AnchorsInv, TypeOK, AssignAnchor
  <2>2. BaseOf(next) \in DOMAIN used /\ used[BaseOf(next)] \in Nat
    BY <2>1 DEF AnchorsInv, TypeOK
  <2>3. \A k \in DOMAIN doc : BaseOf(k)' = BaseOf(k) /\ (Listed(k)' <=> Listed(k))
    BY <2>1 DEF BaseOf, Listed
  <2>4. QED BY <2>1, <2>2, <2>3, DocTyped DEF AnchorsInv
<1>2. /\ nth'[next] = used[BaseOf(next)]
      /\ \A k \in DOMAIN doc \ {next} : nth'[k] = nth[k]
  BY <1>1 DEF AnchorsInv, TypeOK, AssignAnchor
<1>3. toc' = IF Listed(next) THEN Append(toc, entry) ELSE toc
  BY <1>1 DEF AssignAnchor, Listed
<1>4. entry \in Entry
  BY <1>1, AnchorTyped DEF Entry, AnchorType
<1> HIDE DEF entry, anchor
<1>5. /\ toc \in Seq(Entry) /\ Ascending(toc) /\ Len(toc) \in Nat /\ DOMAIN toc = 1..Len(toc)
      /\ \A i \in DOMAIN toc : /\ toc[i].heading \in DOMAIN doc /\ toc[i].heading < next
                               /\ Listed(toc[i].heading)
                               /\ toc[i].anchor = Anchor(BaseOf(toc[i].heading), nth[toc[i].heading])
      /\ \A k \in DOMAIN doc : k < next /\ Listed(k) => \E i \in DOMAIN toc : toc[i].heading = k
  BY <1>1 DEF TocInv, TocSoFar
<1>6. CASE ~Listed(next)
  <2>1. toc' = toc
    BY <1>3, <1>6
  <2>2. \A k \in DOMAIN doc : k < next + 1 /\ Listed(k) => k < next
    BY <1>1, <1>6
  <2>3. \A i \in DOMAIN toc : /\ toc[i].heading \in DOMAIN doc \ {next}
                              /\ toc[i].heading < next + 1
    BY <1>1, <1>5
  <2>4. TocSoFar'
    BY <1>1, <1>2, <1>5, <2>1, <2>2, <2>3 DEF TocSoFar, Ascending
  <2>5. QED BY <1>1, <2>4 DEF TocInv, TocMatchesPage
<1>7. CASE Listed(next)
  <2> DEFINE n == Len(toc)
  <2>1. /\ toc' = Append(toc, entry) /\ toc' \in Seq(Entry) /\ DOMAIN toc' = 1..(n + 1)
        /\ toc'[n + 1] = entry /\ \A i \in 1..n : toc'[i] = toc[i]
    BY <1>3, <1>4, <1>5, <1>7
  <2>2. entry.heading = next /\ entry.anchor = Anchor(BaseOf(next), nth'[next])
    BY <1>2 DEF entry, anchor
  <2>3. \A i \in 1..n : /\ toc'[i].heading \in DOMAIN doc \ {next} /\ toc'[i].heading < next
                        /\ Listed(toc'[i].heading)
                        /\ toc'[i].anchor = Anchor(BaseOf(toc'[i].heading), nth'[toc'[i].heading])
    <3>1. TAKE i \in 1..n
    <3>2. toc'[i] = toc[i] /\ i \in DOMAIN toc
      BY <1>5, <2>1
    <3>3. toc[i].heading \in DOMAIN doc \ {next}
      <4>1. toc[i].heading \in DOMAIN doc /\ toc[i].heading < next
        BY <1>5, <3>2
      <4>2. ~(next < next)
        BY <1>1
      <4>3. QED BY <4>1, <4>2
    <3>4. nth'[toc[i].heading] = nth[toc[i].heading]
      BY <1>2, <3>3
    <3>5. QED BY <1>5, <3>2, <3>3, <3>4
  <2>4. \A i \in 1..(n + 1) : i = n + 1 \/ i \in 1..n
    BY <1>5
  <2>5. Ascending(toc')
    <3> SUFFICES ASSUME NEW i \in 1..(n + 1), NEW j \in 1..(n + 1), i < j
                 PROVE  toc'[i].heading < toc'[j].heading
      BY <2>1 DEF Ascending
    <3>1. i \in 1..n
      BY <1>5
    <3>2. CASE j = n + 1
      BY <2>1, <2>2, <2>3, <3>1, <3>2
    <3>3. CASE j \in 1..n
      BY <1>5, <2>1, <3>1, <3>3 DEF Ascending
    <3>4. QED BY <2>4, <3>2, <3>3
  <2>6. ASSUME NEW i \in 1..(n + 1)
        PROVE  /\ toc'[i].heading \in DOMAIN doc /\ toc'[i].heading < next + 1
               /\ Listed(toc'[i].heading)
               /\ toc'[i].anchor = Anchor(BaseOf(toc'[i].heading), nth'[toc'[i].heading])
    <3>1. CASE i = n + 1
      BY <1>1, <1>7, <2>1, <2>2, <3>1
    <3>2. CASE i \in 1..n
      BY <1>1, <2>3, <3>2
    <3>3. QED BY <2>4, <3>1, <3>2
  <2>7. ASSUME NEW k \in DOMAIN doc, k < next + 1, Listed(k)
        PROVE  \E i \in 1..(n + 1) : toc'[i].heading = k
    <3>1. CASE k = next
      <4>1. n + 1 \in 1..(n + 1)
        BY <1>5
      <4>2. QED BY <2>1, <2>2, <3>1, <4>1
    <3>2. CASE k # next
      <4>1. k < next
        BY <1>1, <2>7, <3>2
      <4>2. PICK i \in 1..n : toc[i].heading = k
        BY <1>5, <2>7, <4>1
      <4>3. i \in 1..(n + 1)
        BY <1>5
      <4>4. QED BY <2>1, <4>2, <4>3
    <3>3. QED BY <3>1, <3>2
  <2> HIDE DEF n
  <2>8. TocSoFar'
    BY <1>1, <2>1, <2>5, <2>6, <2>7 DEF TocSoFar
  <2>9. QED BY <1>1, <2>8 DEF TocInv, TocMatchesPage
<1>8. QED BY <1>6, <1>7

\* Where no entry is made or taken away.
LEMMA TocStays ==
  ASSUME AnchorsInv, TocInv, PassRaw \/ Render \/ Sanitize \/ UNCHANGED vars
  PROVE  TocInv'
<1>1. /\ doc' = doc /\ toc' = toc /\ nth' = nth
      /\ \A k \in DOMAIN doc : BaseOf(k)' = BaseOf(k) /\ (Listed(k)' <=> Listed(k))
      /\ next \in Nat /\ DOMAIN doc \subseteq Nat /\ Len(doc) \in Nat
  BY DocTyped DEF AnchorsInv, TypeOK, PassRaw, Render, Sanitize, vars, BaseOf, Listed
<1>2. CASE UNCHANGED vars
  BY <1>1, <1>2 DEF vars, TocInv, TocSoFar, TocMatchesPage
<1>3. CASE PassRaw \/ Render \/ Sanitize
  <2>1. /\ at # "done" /\ at' # "done" /\ next' \in {next, next + 1}
        /\ next' = next \/ (at' = "assign" /\ ~Listed(next))
        /\ at' # "assign" => next' > Len(doc)
    BY <1>1, <1>3 DEF PassRaw, Render, Sanitize, Listed, TocInv
  <2>2. \A k \in DOMAIN doc : k < next => k < next'
    BY <1>1, <2>1
  <2>3. \A k \in DOMAIN doc : k < next' /\ Listed(k) => k < next
    BY <1>1, <2>1
  <2>4. TocSoFar
    BY <2>1 DEF TocInv
  <2>5. TocSoFar'
    BY <1>1, <2>2, <2>3, <2>4 DEF TocSoFar
  <2>6. QED BY <1>1, <2>1, <2>5 DEF TocInv, TocMatchesPage
<1>4. QED BY <1>2, <1>3

LEMMA TocFiltered == ASSUME AnchorsInv, TocInv, FilterToc PROVE TocInv'
<1> DEFINE n == Len(toc)
<1>1. /\ at' = "done" /\ UNCHANGED <<doc, next, ids, nth>> /\ toc' = Surviving(toc)
      /\ next > Len(doc) /\ TocSoFar
  BY DEF FilterToc, TocInv
<1>2. toc \in Seq(Entry) /\ Ascending(toc) /\ DOMAIN toc = 1..n
  BY <1>1 DEF TocSoFar
<1>3. SurvivorsOf(toc', toc, n)
  BY <1>1, <1>2, SurvivingAreThose
<1>4. \A e \in Range(toc') : \E k \in DOMAIN doc : ids[k] = e.anchor
  <2>1. \A a \in DOMAIN toc' : OnPage(toc'[a])
    BY <1>3 DEF SurvivorsOf
  <2>2. QED BY <2>1 DEF Range, OnPage
<1>5. ASSUME NEW k \in DOMAIN doc, Listed(k), ids[k] # NoId
      PROVE  \E e \in Range(toc') : e.heading = k /\ e.anchor = ids[k]
  <2>1. k < next /\ ~doc[k].raw
    BY <1>1, <1>5, DocTyped DEF AnchorsInv, TypeOK, Listed
  <2>2. PICK i \in DOMAIN toc : toc[i].heading = k
    BY <1>1, <1>5, <2>1 DEF TocSoFar
  <2>3. toc[i].anchor = ids[k]
    BY <1>1, <1>5, <2>1, <2>2 DEF TocSoFar, AnchorsInv, Counted
  <2>4. PICK a \in DOMAIN toc' : toc'[a] = toc[i]
    BY <1>2, <1>3, <2>2, <2>3 DEF SurvivorsOf, OnPage
  <2>5. QED BY <2>2, <2>3, <2>4 DEF Range
<1>6. TocMatchesPage'
  BY <1>1, <1>3, <1>4, <1>5 DEF TocMatchesPage, SurvivorsOf, Ascending, Listed
<1>7. QED BY <1>1, <1>6 DEF TocInv

LEMMA TocInit == Init => TocInv
<1> SUFFICES ASSUME Init PROVE TocInv
  OBVIOUS
<1>1. toc = <<>> /\ at = "assign" /\ next = 1 /\ doc \in Seq(Heading)
  BY AnchorsAssumption DEF Init
<1>2. TocSoFar
  BY <1>1 DEF TocSoFar, Ascending
<1>3. QED BY <1>1, <1>2 DEF TocInv, TocMatchesPage

LEMMA TocStep == AnchorsInv /\ TocInv /\ [Next]_vars => TocInv'
BY TocGrows, TocStays, TocFiltered DEF Next, Finished

(* The table of contents is made before the sanitiser runs and filtered after  *)
(* it (rendering.py:313-324): in the end it has, in their order, exactly the  *)
(* headings down to TOC_MAX_LEVEL that a link can reach, for every document.  *)
THEOREM TocIsThePage == Spec => []TocMatchesPage
<1>1. TocInv => TocMatchesPage
  BY DEF TocInv
<1>2. QED BY <1>1, TocInit, TocStep, AnchorsInvariant, PTL DEF Spec

-----------------------------------------------------------------------------
(***************************************************************************)
(* References.  A path without dots but one is what it was, but for that.  *)
(***************************************************************************)
\* path without its segment at d; all of it when d is behind the end.
Without(path, d, n) == [j \in 1..(IF n < d THEN n ELSE n - 1) |-> path[IF j < d THEN j ELSE j + 1]]

LEMMA UndotOneMore ==
  ASSUME NEW E, NEW path \in Seq(E), NEW d \in Nat \ {0}, NEW i \in 1..Len(path),
         path[i] # "..", path[i] = "." <=> i = d
  PROVE  Undot(Without(path, d, i - 1), path[i]) = Without(path, d, i)
<1>1. i \in Nat /\ i - 1 \in Nat /\ Len(path) \in Nat /\ \A j \in 1..Len(path) : path[j] \in E
  BY ElementOfSeq
<1>2. CASE i = d
  <2>1. Undot(Without(path, d, i - 1), path[i]) = Without(path, d, i - 1)
    BY <1>2 DEF Undot
  <2>2. (IF i - 1 < d THEN i - 1 ELSE (i - 1) - 1) = (IF i < d THEN i ELSE i - 1)
    BY <1>1, <1>2
  <2>3. QED BY <2>1, <2>2 DEF Without
<1>3. CASE i # d
  <2> DEFINE m == IF i - 1 < d THEN i - 1 ELSE (i - 1) - 1
             before == Without(path, d, i - 1)
             after == Without(path, d, i)
  <2>1. Undot(before, path[i]) = Append(before, path[i])
    BY <1>3 DEF Undot
  <2>2. m \in Nat /\ m + 1 = (IF i < d THEN i ELSE i - 1) /\ (IF m + 1 < d THEN m + 1 ELSE m + 2) = i
    BY <1>1, <1>3
  <2>3. before \in Seq(E) /\ Len(before) = m
    <3>1. \A j \in 1..m : (IF j < d THEN j ELSE j + 1) \in 1..Len(path)
      BY <1>1, <2>2
    <3>2. before = [j \in 1..m |-> path[IF j < d THEN j ELSE j + 1]]
      BY DEF Without
    <3>3. \A j \in 1..m : path[IF j < d THEN j ELSE j + 1] \in E
      BY <1>1, <3>1
    <3> HIDE DEF m, before
    <3>4. QED BY <2>2, <3>2, <3>3
  <2>4. after = [j \in 1..(m + 1) |-> path[IF j < d THEN j ELSE j + 1]]
    BY <2>2 DEF Without
  <2>5. \A j \in 1..m : before[j] = path[IF j < d THEN j ELSE j + 1]
    BY DEF Without
  <2> HIDE DEF m, before, after
  <2>6. \A j \in 1..(m + 1) : Append(before, path[i])[j] = after[j]
    <3>1. \A j \in 1..(m + 1) : j = m + 1 \/ j \in 1..m
      BY <2>2
    <3>2. after[m + 1] = path[i]
      <4>1. m + 1 \in 1..(m + 1)
        BY <2>2
      <4>2. after[m + 1] = path[IF m + 1 < d THEN m + 1 ELSE (m + 1) + 1]
        BY <2>4, <4>1
      <4>3. QED BY <2>2, <4>2
    <3>3. \A j \in 1..m : after[j] = before[j]
      BY <2>2, <2>4, <2>5
    <3>4. QED BY <1>1, <2>2, <2>3, <3>1, <3>2, <3>3
  <2>7. Append(before, path[i]) = after
    BY <1>1, <2>2, <2>3, <2>4, <2>6
  <2>8. QED BY <2>1, <2>7 DEF before, after
<1>4. QED BY <1>2, <1>3

LEMMA OneDot ==
  ASSUME NEW E, NEW path \in Seq(E), NEW d \in Nat \ {0},
         \A i \in 1..Len(path) : path[i] # ".." /\ (path[i] = "." <=> i = d)
  PROVE  Undotted(path) = Without(path, d, Len(path))
<1>1. Len(path) \in Nat
  OBVIOUS
<1> DEFINE F(h) == [i \in 0..Len(path) |-> IF i = 0 THEN <<>> ELSE Undot(h[i - 1], path[i])]
<1>2. PICK f : f = [i \in 0..Len(path) |-> Without(path, d, i)]
  OBVIOUS
<1>3. Without(path, d, 0) = <<>>
  <2>1. 1..(IF 0 < d THEN 0 ELSE 0 - 1) = {}
    OBVIOUS
  <2>2. QED BY <2>1 DEF Without
<1>4. \A i \in 1..Len(path) : Undot(Without(path, d, i - 1), path[i]) = Without(path, d, i)
  BY UndotOneMore
<1>5. \A i \in 1..Len(path) : i \in 0..Len(path) /\ i - 1 \in 0..Len(path) /\ i # 0
  BY <1>1
<1>6. f = F(f)
  <2>1. \A i \in 0..Len(path) : f[i] = F(f)[i]
    <3>1. 0 \in 0..Len(path) /\ \A i \in 0..Len(path) : i = 0 \/ i \in 1..Len(path)
      BY <1>1
    <3>2. f[0] = <<>>
      BY <1>2, <1>3, <3>1
    <3>3. \A i \in 1..Len(path) : f[i] = Undot(f[i - 1], path[i])
      BY <1>2, <1>4, <1>5
    <3>4. QED BY <1>5, <3>1, <3>2, <3>3
  <2>2. QED BY <1>2, <2>1
<1>7. PICK g : g = CHOOSE h : h = F(h)
  OBVIOUS
<1>8. g = F(g)
  BY <1>6, <1>7
<1>9. Undotted(path) = g[Len(path)]
  <2>1. Undotted(path) = (CHOOSE h : h = F(h))[Len(path)]
    BY DEF Undotted
  <2>2. QED BY <1>7, <2>1, Zenon
<1> DEFINE S == {i \in Nat : i <= Len(path) => g[i] = Without(path, d, i)}
<1>10. 0 \in S
  <2>1. 0 \in 0..Len(path)
    BY <1>1
  <2>2. g[0] = <<>>
    BY <1>8, <2>1
  <2>3. QED BY <1>3, <2>2
<1>11. ASSUME NEW i \in Nat, i \in S PROVE i + 1 \in S
  <2> SUFFICES ASSUME i + 1 <= Len(path) PROVE g[i + 1] = Without(path, d, i + 1)
    OBVIOUS
  <2>1. PICK k : k = i + 1
    OBVIOUS
  <2>2. k \in 1..Len(path) /\ k - 1 = i /\ g[k - 1] = Without(path, d, k - 1)
    BY <1>1, <1>11, <2>1
  <2>3. g[k] = Undot(g[k - 1], path[k])
    BY <1>5, <1>8, <2>2
  <2>4. g[k] = Without(path, d, k)
    BY <1>4, <2>2, <2>3
  <2>5. QED BY <2>1, <2>4
<1>12. Len(path) \in S
  <2> HIDE DEF S
  <2>1. QED BY <1>1, <1>10, <1>11, SetInduction
<1>13. QED BY <1>1, <1>9, <1>12

Dotless(path) == \A i \in 1..Len(path) : path[i] \notin {".", ".."}
Bare(path) == RemovePrefix(path, ".")

LEMMA NoDots ==
  ASSUME NEW E, NEW path \in Seq(E), Dotless(path), path # <<>>
  PROVE  RemoveDots(path) = path
<1>1. PICK n : n = Len(path)
  OBVIOUS
<1>2. n \in Nat /\ n # 0
  BY <1>1, EmptySeq
<1>3. Undotted(path) = Without(path, n + 1, n)
  <2>1. \A i \in 1..Len(path) : path[i] # ".." /\ (path[i] = "." <=> i = n + 1)
    BY <1>1, <1>2 DEF Dotless
  <2>2. n + 1 \in Nat \ {0}
    BY <1>2
  <2>3. QED BY <1>1, <2>1, <2>2, OneDot
<1>4. Without(path, n + 1, n) = [j \in 1..n |-> path[j]]
  BY <1>2 DEF Without
<1>5. path = [j \in 1..n |-> path[j]]
  BY <1>1
<1>6. Last(path) \notin {".", ".."}
  BY <1>1, <1>2 DEF Last, Dotless
<1>7. QED BY <1>3, <1>4, <1>5, <1>6 DEF RemoveDots

\* A leading dot behind the directory of the page is taken out, and nothing else.
LEMMA Joined ==
  ASSUME NEW E, NEW pre \in Seq(E), Dotless(pre), pre # <<>>,
         NEW path \in Seq(E), path # <<>>,
         \A i \in 1..Len(path) : path[i] # ".." /\ (path[i] = "." => i = 1 /\ Len(path) > 1)
  PROVE  RemoveDots(pre \o path) = pre \o Bare(path)
<1> DEFINE whole == pre \o path
<1>1. /\ Len(pre) \in Nat /\ Len(pre) # 0 /\ Len(path) \in Nat /\ Len(path) # 0
      /\ whole \in Seq(E) /\ Len(whole) = Len(pre) + Len(path)
  BY EmptySeq
<1>2. /\ \A i \in 1..Len(pre) : whole[i] = pre[i]
      /\ \A i \in 1..Len(path) : whole[Len(pre) + i] = path[i]
      /\ \A i \in 1..Len(whole) : i \in 1..Len(pre) \/ i - Len(pre) \in 1..Len(path)
      /\ \A i \in 1..Len(whole) : i > Len(pre) => whole[i] = path[i - Len(pre)]
  BY <1>1
<1>3. whole # <<>>
  BY <1>1
<1> HIDE DEF whole
<1>4. CASE path[1] # "."
  <2>1. \A i \in 1..Len(path) : path[i] \notin {".", ".."}
    BY <1>4
  <2>2. Dotless(whole)
    <3>1. ASSUME NEW i \in 1..Len(whole) PROVE whole[i] \notin {".", ".."}
      <4>1. CASE i \in 1..Len(pre)
        BY <1>2, <4>1 DEF Dotless
      <4>2. CASE i \notin 1..Len(pre)
        <5>1. i > Len(pre) /\ i - Len(pre) \in 1..Len(path)
          BY <1>1, <1>2, <4>2
        <5>2. QED BY <1>2, <2>1, <5>1
      <4>3. QED BY <4>1, <4>2
    <3>2. QED BY <3>1 DEF Dotless
  <2>3. RemoveDots(whole) = whole
    BY <1>1, <1>3, <2>2, NoDots
  <2>4. QED BY <1>4, <2>3 DEF whole, Bare, RemovePrefix
<1>5. CASE path[1] = "."
  <2>1. PICK d : d = Len(pre) + 1
    OBVIOUS
  <2>2. PICK n : n = Len(whole)
    OBVIOUS
  <2>3. /\ d \in Nat \ {0} /\ n \in Nat /\ d < n /\ n = Len(pre) + Len(path)
        /\ 1 \in 1..Len(path) /\ Len(path) > 1
    BY <1>1, <1>5, <2>1, <2>2
  <2>4. \A i \in 1..Len(whole) : whole[i] # ".." /\ (whole[i] = "." <=> i = d)
    <3>1. \A i \in 1..Len(pre) : whole[i] \notin {".", ".."} /\ i # d
      <4>1. \A i \in 1..Len(pre) : i # d
        BY <1>1, <2>1
      <4>2. \A i \in 1..Len(pre) : whole[i] \notin {".", ".."}
        BY <1>2 DEF Dotless
      <4>3. QED BY <4>1, <4>2
    <3>2. \A i \in 1..Len(whole) : i - Len(pre) \in 1..Len(path) =>
            whole[i] = path[i - Len(pre)] /\ (i = d <=> i - Len(pre) = 1)
      BY <1>1, <1>2, <2>1
    <3>3. QED BY <1>2, <1>5, <3>1, <3>2
  <2>5. Undotted(whole) = Without(whole, d, n)
    BY <1>1, <2>2, <2>3, <2>4, OneDot
  <2>6. Last(whole) \notin {".", ".."}
    <3>1. whole[n] # ".." /\ whole[n] # "."
      BY <2>2, <2>3, <2>4
    <3>2. QED BY <2>2, <3>1 DEF Last
  <2>7. RemoveDots(whole) = [j \in 1..(n - 1) |-> whole[IF j < d THEN j ELSE j + 1]]
    <3>1. (IF n < d THEN n ELSE n - 1) = n - 1
      BY <2>3
    <3>2. QED BY <2>5, <2>6, <3>1 DEF RemoveDots, Without
  <2>8. PICK rest : rest = Tail(path)
    OBVIOUS
  <2>9. rest \in Seq(E) /\ Len(rest) = Len(path) - 1 /\ \A j \in 1..Len(rest) : rest[j] = path[j + 1]
    BY <1>1, <2>8, HeadTailProperties
  <2>10. pre \o rest \in Seq(E) /\ Len(pre \o rest) = n - 1
    <3>1. pre \o rest \in Seq(E) /\ Len(pre \o rest) = Len(pre) + Len(rest)
      BY <2>9, ConcatProperties, Zenon
    <3>2. Len(pre) + Len(rest) = n - 1
      BY <1>1, <2>3, <2>9
    <3>3. QED BY <3>1, <3>2
  <2>11. \A j \in 1..(n - 1) : (pre \o rest)[j] = whole[IF j < d THEN j ELSE j + 1]
    <3> SUFFICES ASSUME NEW j \in 1..(n - 1)
                 PROVE  (pre \o rest)[j] = whole[IF j < d THEN j ELSE j + 1]
      OBVIOUS
    <3>1. CASE j < d
      <4>1. j \in 1..Len(pre) /\ (pre \o rest)[j] = pre[j]
        BY <1>1, <2>1, <2>9, <3>1
      <4>2. QED BY <1>2, <3>1, <4>1
    <3>2. CASE ~(j < d)
      <4>1. PICK k : k = j - Len(pre)
        OBVIOUS
      <4>2. k \in 1..Len(rest) /\ j = Len(pre) + k /\ k + 1 \in 1..Len(path)
        BY <1>1, <2>1, <2>3, <2>9, <3>2, <4>1
      <4>3. (pre \o rest)[j] = rest[k]
        BY <1>1, <2>9, <4>2
      <4>4. whole[Len(pre) + (k + 1)] = path[k + 1]
        BY <1>2, <4>2
      <4>5. Len(pre) + (k + 1) = j + 1
        BY <1>1, <4>2
      <4>6. QED BY <2>9, <3>2, <4>2, <4>3, <4>4, <4>5
    <3>3. QED BY <3>1, <3>2
  <2>12. pre \o rest = [j \in 1..(n - 1) |-> (pre \o rest)[j]]
    <3>1. PICK cat : cat = pre \o rest
      OBVIOUS
    <3>2. cat \in [1..Len(cat) -> E] /\ Len(cat) = n - 1
      BY <2>10, <3>1, LenProperties
    <3>3. cat = [j \in 1..(n - 1) |-> cat[j]]
      BY <3>2
    <3>4. QED BY <3>1, <3>3
  <2>13. RemoveDots(whole) = pre \o rest
    BY <2>7, <2>11, <2>12
  <2>14. QED BY <1>5, <2>3, <2>8, <2>13 DEF whole, Bare, RemovePrefix
<1>6. QED BY <1>4, <1>5

-----------------------------------------------------------------------------
LEMMA AssetFields ==
  ASSUME NEW asset \in Asset
  PROVE  /\ asset = [artifact |-> asset.artifact, name |-> asset.name]
         /\ asset.artifact \in DOMAIN Attached /\ asset.name \in SafeNames
BY DEF Asset

\* Which of the four routes an address reaches.
Opens(u, p, a, x) ==
  \/ p = "viewed" /\ u = <<"a", a, "assets", x>>
  \/ p = "shared" /\ a = Own /\ u = <<"s", Share, "assets", x>>
  \/ a = Own /\ Below(u, <<"embed", Own, FrameToken>>, x)
  \/ a = Own /\ Below(u, <<"s", Share, "embed", ShareToken>>, x)

LEMMA ServedIsOpen ==
  ASSUME NEW u, NEW p, NEW asset
  PROVE  asset \in Served(u, p) <=>
           /\ asset \in Asset /\ asset.name \in Attached[asset.artifact]
           /\ Opens(u, p, asset.artifact, asset.name)
<1>1. ASSUME NEW a, NEW x \in SafeNames PROVE Registered(a, x) <=> x \in Attached[a]
  BY DEF Registered, IsSafeAssetName
<1>2. QED BY <1>1, AssetFields
     DEF Served, Opens, ViewAsset, SharedAsset, EmbedAsset, SharedEmbedAsset

LEMMA RelativePath ==
  ASSUME NEW r \in Reference, r.kind = "relative"
  PROVE  /\ r.path \in Seq(Written) /\ Len(r.path) \in Nat
         /\ r = [kind |-> "relative", attribute |-> r.attribute, path |-> r.path]
         /\ r.attribute \in {"src", "href"} /\ r.path \in Paths
<1>1. /\ r.path \in Paths
      /\ r = [kind |-> "relative", attribute |-> r.attribute, path |-> r.path]
      /\ r.attribute \in {"src", "href"}
  BY DEF Reference
<1>2. PICK n \in 0..MaxPath : r.path \in [1..n -> Written]
  BY <1>1 DEF Paths
<1>3. n \in Nat
  <2>1. MaxPath \in Nat
    BY ReferencesAssumption
  <2>2. n \in 0..MaxPath
    BY <1>2
  <2>3. QED BY <2>1, <2>2
<1>4. r.path \in Seq(Written) /\ Len(r.path) = n
  BY <1>2, <1>3
<1>5. QED BY <1>1, <1>3, <1>4

LEMMA ShownIsALink ==
  ASSUME NEW r \in Reference, r.kind = "relative", NEW p \in Pages
  PROVE  /\ Shown(r, p) # Nothing /\ Shown(r, p).kind \in {"relative", "rooted"}
<1> DEFINE Parts == Written \union {"a", "s", "assets", Own, Share}
           candidate == RemovePrefix(RemovePrefix(r.path, "."), "assets")
<1>1. /\ r.path \in Seq(Written) /\ r.path \in Seq(Parts)
      /\ r = [kind |-> "relative", attribute |-> r.attribute, path |-> r.path]
      /\ r.attribute \in {"src", "href"}
  BY RelativePath
<1>2. r \in Link
  BY <1>1 DEF Link
<1>3. CASE ~(p \in Markdown /\ IsSafeAssetName(candidate))
  <2>1. Shown(r, p) = r
    BY <1>1, <1>3 DEF Shown, AttributeFilter, ResolveAssetReference
  <2>2. QED BY <1>2, <2>1, ReferencesAssumption
<1>4. CASE p \in Markdown /\ IsSafeAssetName(candidate)
  <2>1. Shown(r, p) = [kind |-> "rooted", attribute |-> r.attribute,
                       path |-> AssetBase(p) \o candidate]
    BY <1>1, <1>4 DEF Shown, AttributeFilter, ResolveAssetReference
  <2>2. candidate \in Seq(Parts)
    <3>1. \A q \in Seq(Parts) : \A g : RemovePrefix(q, g) \in Seq(Parts)
      BY DEF RemovePrefix
    <3>2. QED BY <1>1, <3>1
  <2>3. AssetBase(p) \in Seq(Parts)
    <3>1. {"a", "s", "assets", Own, Share} \subseteq Parts
      OBVIOUS
    <3> HIDE DEF Parts
    <3>2. QED BY <3>1 DEF AssetBase
  <2>4. AssetBase(p) \o candidate \in Seq(Parts)
    BY <2>2, <2>3, ConcatProperties, Zenon
  <2>5. [kind |-> "rooted", attribute |-> r.attribute, path |-> AssetBase(p) \o candidate] \in Link
    BY <1>1, <2>4 DEF Link
  <2>6. Shown(r, p) \in Link /\ Shown(r, p).kind = "rooted"
    BY <2>1, <2>5
  <2>7. QED BY <2>6, ReferencesAssumption
<1>5. QED BY <1>3, <1>4

LEMMA RefInitially == RefInit => RefInv
BY DEF RefInit, RefInv

LEMMA RefKept == RefInv /\ [RefNext]_refVars => RefInv'
<1> SUFFICES ASSUME RefInv, [RefNext]_refVars PROVE RefInv'
  OBVIOUS
<1>1. CASE Show
  BY <1>1 DEF Show, RefInv
<1>2. CASE Request
  <2>1. CASE ref # Nothing /\ ref.kind \in {"relative", "rooted"}
    BY <1>2, <2>1 DEF Request, RefInv, Asked
  <2>2. CASE ~(ref # Nothing /\ ref.kind \in {"relative", "rooted"})
    <3>1. ref = Shown(written, page) /\ answer = Nothing
      BY <1>2 DEF Request, RefInv
    <3>2. written.kind # "relative"
      BY <2>2, <3>1, ShownIsALink DEF RefInv
    <3>3. QED BY <1>2, <2>2, <3>1, <3>2 DEF Request, RefInv
  <2>3. QED BY <2>1, <2>2
<1>3. CASE Respond
  BY <1>3 DEF Respond, RefInv
<1>4. CASE UNCHANGED refVars
  BY <1>4 DEF refVars, RefInv
<1>5. QED BY <1>1, <1>2, <1>3, <1>4 DEF RefNext, Shipped

(* What becomes of a reference, step by step (rendering.py:157-197 and the    *)
(* asset routes of routers/viewer.py).                                        *)
THEOREM ReferencesInvariant == RefSpec => []RefInv
BY RefInitially, RefKept, PTL DEF RefSpec

(* A share and a frame show one artifact: for every reference, however many   *)
(* its segments and dots, no file of another artifact comes back on them, and *)
(* on no page a file that is not registered (routers/viewer.py:521-640).      *)
THEOREM ReferencesStayInside == RefSpec => []OwnAssetsOnly
<1>1. ASSUME RefInv PROVE OwnAssetsOnly
  <2>1. answer # Nothing => answer \in Served(Asked(written, page), page)
    BY <1>1 DEF RefInv
  <2>2. QED BY <1>1, <2>1, ServedIsOpen DEF RefInv, OwnAssetsOnly, ReferencesTypeOK, Opens
<1>2. QED BY <1>1, ReferencesInvariant, PTL

-----------------------------------------------------------------------------
Segments ==
  Written \union {"a", "s", "assets", "embed", Blank} \union {Own, Share, FrameToken, ShareToken}
Dir(p) ==
  CASE p = "viewed"      -> <<"a">>
    [] p = "shared"      -> <<"s">>
    [] p = "framed"      -> <<"embed", Own, FrameToken>>
    [] p = "sharedFrame" -> <<"s", Share, "embed", ShareToken>>

LEMMA Drawn ==
  /\ Own \in Segments /\ Share \in Segments /\ FrameToken \in Segments /\ ShareToken \in Segments
  /\ "a" \in Segments /\ "s" \in Segments /\ "assets" \in Segments /\ "embed" \in Segments
  /\ Blank \in Segments
  /\ \A x \in Written : x \in Segments /\ x # Own /\ x # Share
  /\ \A x \in SafeNames : x \in Written /\ x # Blank /\ x # "." /\ x # ".."
  /\ \A x \in Attached[Own] : x \in SafeNames
  /\ Own # "." /\ Own # ".." /\ Share # "." /\ Share # ".."
  /\ FrameToken # "." /\ FrameToken # ".." /\ ShareToken # "." /\ ShareToken # ".."
  /\ Own \in DOMAIN Attached
BY ReferencesAssumption DEF Segments

LEMMA SeqOfOne ==
  ASSUME NEW E, NEW q \in Seq(E), Len(q) = 1 PROVE q = <<q[1]>> /\ q[1] \in E
BY LenProperties

LEMMA SeqOfTwo ==
  ASSUME NEW E, NEW q \in Seq(E), Len(q) = 2
  PROVE  q = <<q[1], q[2]>>
<1>1. \A i \in 1..2 : q[i] \in E
  BY ElementOfSeq
<1>2. q[1] \in E /\ q[2] \in E
  BY <1>1
<1>3. <<q[1], q[2]>> \in Seq(E) /\ Len(<<q[1], q[2]>>) = 2
  BY <1>2
<1>4. \A i \in 1..2 : q[i] = <<q[1], q[2]>>[i]
  OBVIOUS
<1>5. QED BY <1>3, <1>4, SeqEqual

LEMMA SeqOfThree ==
  ASSUME NEW E, NEW q \in Seq(E), Len(q) = 3
  PROVE  q = <<q[1], q[2], q[3]>>
<1>1. \A i \in 1..3 : q[i] \in E
  BY ElementOfSeq
<1>2. q[1] \in E /\ q[2] \in E /\ q[3] \in E
  BY <1>1
<1>3. <<q[1], q[2], q[3]>> \in Seq(E) /\ Len(<<q[1], q[2], q[3]>>) = 3
  BY <1>2
<1>4. \A i \in 1..3 : q[i] = <<q[1], q[2], q[3]>>[i]
  OBVIOUS
<1>5. QED BY <1>3, <1>4, SeqEqual

LEMMA SeqOfFour ==
  ASSUME NEW E, NEW q \in Seq(E), Len(q) = 4
  PROVE  q = <<q[1], q[2], q[3], q[4]>>
<1>1. \A i \in 1..4 : q[i] \in E
  BY ElementOfSeq
<1>2. q[1] \in E /\ q[2] \in E /\ q[3] \in E /\ q[4] \in E
  BY <1>1
<1>3. <<q[1], q[2], q[3], q[4]>> \in Seq(E) /\ Len(<<q[1], q[2], q[3], q[4]>>) = 4
  BY <1>2
<1>4. \A i \in 1..4 : q[i] = <<q[1], q[2], q[3], q[4]>>[i]
  OBVIOUS
<1>5. QED BY <1>3, <1>4, SeqEqual

LEMMA FrontIs ==
  ASSUME NEW E, NEW q \in Seq(E), NEW t \in Seq(E), Len(q) = Len(t) + 1,
         \A i \in 1..Len(t) : q[i] = t[i]
  PROVE  Front(q) = t
<1>1. Len(t) \in Nat /\ \A i \in 1..Len(t) : q[i] \in E
  BY ElementOfSeq
<1>2. Front(q) = SubSeq(q, 1, Len(t))
  BY <1>1 DEF Front
<1>3. /\ SubSeq(q, 1, Len(t)) \in Seq(E) /\ Len(SubSeq(q, 1, Len(t))) = Len(t)
      /\ \A i \in 1..Len(t) : SubSeq(q, 1, Len(t))[i] = q[i]
  BY <1>1, SubSeqProperties
<1>4. QED BY <1>2, <1>3, SeqEqual

LEMMA Dirs ==
  ASSUME NEW p \in Pages
  PROVE  /\ Front(Address(p)) = Dir(p) /\ Dir(p) \in Seq(Segments) /\ Dir(p) # <<>>
         /\ Dotless(Dir(p))
<1>1. CASE p = "viewed"
  <2>1. Address(p) = <<"a", Own>> /\ Dir(p) = <<"a">>
    BY <1>1 DEF Address, Dir
  <2>2. <<"a", Own>> \in Seq(Segments) /\ <<"a">> \in Seq(Segments)
    BY Drawn
  <2>3. Front(<<"a", Own>>) = <<"a">>
    <3>1. /\ Len(<<"a", Own>>) = Len(<<"a">>) + 1
          /\ \A i \in 1..Len(<<"a">>) : <<"a", Own>>[i] = <<"a">>[i]
      OBVIOUS
    <3>2. QED BY <2>2, <3>1, FrontIs, Zenon
  <2>4. Dotless(<<"a">>)
    BY Drawn DEF Dotless
  <2>5. QED BY <2>1, <2>2, <2>3, <2>4
<1>2. CASE p = "shared"
  <2>1. Address(p) = <<"s", Share>> /\ Dir(p) = <<"s">>
    BY <1>2 DEF Address, Dir
  <2>2. <<"s", Share>> \in Seq(Segments) /\ <<"s">> \in Seq(Segments)
    BY Drawn
  <2>3. Front(<<"s", Share>>) = <<"s">>
    <3>1. /\ Len(<<"s", Share>>) = Len(<<"s">>) + 1
          /\ \A i \in 1..Len(<<"s">>) : <<"s", Share>>[i] = <<"s">>[i]
      OBVIOUS
    <3>2. QED BY <2>2, <3>1, FrontIs, Zenon
  <2>4. Dotless(<<"s">>)
    BY Drawn DEF Dotless
  <2>5. QED BY <2>1, <2>2, <2>3, <2>4
<1>3. CASE p = "framed"
  <2>1. Address(p) = <<"embed", Own, FrameToken, Blank>> /\ Dir(p) = <<"embed", Own, FrameToken>>
    BY <1>3 DEF Address, Dir
  <2>2. /\ <<"embed", Own, FrameToken, Blank>> \in Seq(Segments)
        /\ <<"embed", Own, FrameToken>> \in Seq(Segments)
    BY Drawn
  <2>3. Front(<<"embed", Own, FrameToken, Blank>>) = <<"embed", Own, FrameToken>>
    <3>1. /\ Len(<<"embed", Own, FrameToken, Blank>>) = Len(<<"embed", Own, FrameToken>>) + 1
          /\ \A i \in 1..Len(<<"embed", Own, FrameToken>>) :
               <<"embed", Own, FrameToken, Blank>>[i] = <<"embed", Own, FrameToken>>[i]
      OBVIOUS
    <3>2. QED BY <2>2, <3>1, FrontIs, Zenon
  <2>4. Dotless(<<"embed", Own, FrameToken>>)
    BY Drawn DEF Dotless
  <2>5. QED BY <2>1, <2>2, <2>3, <2>4
<1>4. CASE p = "sharedFrame"
  <2>1. /\ Address(p) = <<"s", Share, "embed", ShareToken, Blank>>
        /\ Dir(p) = <<"s", Share, "embed", ShareToken>>
    BY <1>4 DEF Address, Dir
  <2>2. /\ <<"s", Share, "embed", ShareToken, Blank>> \in Seq(Segments)
        /\ <<"s", Share, "embed", ShareToken>> \in Seq(Segments)
    BY Drawn
  <2>3. Front(<<"s", Share, "embed", ShareToken, Blank>>) = <<"s", Share, "embed", ShareToken>>
    <3>1. /\ Len(<<"s", Share, "embed", ShareToken, Blank>>)
                = Len(<<"s", Share, "embed", ShareToken>>) + 1
          /\ \A i \in 1..Len(<<"s", Share, "embed", ShareToken>>) :
               <<"s", Share, "embed", ShareToken, Blank>>[i]
                 = <<"s", Share, "embed", ShareToken>>[i]
      OBVIOUS
    <3>2. QED BY <2>2, <3>1, FrontIs, Zenon
  <2>4. Dotless(<<"s", Share, "embed", ShareToken>>)
    BY Drawn DEF Dotless
  <2>5. QED BY <2>1, <2>2, <2>3, <2>4
<1>5. QED BY <1>1, <1>2, <1>3, <1>4 DEF Pages

\* What RemovePrefix may have been given.
LEMMA PrefixRemoved ==
  ASSUME NEW E, NEW q \in Seq(E), NEW g, NEW t, RemovePrefix(q, g) = t
  PROVE  q = t \/ (t \in Seq(E) /\ q[1] = g /\ q = <<g>> \o t)
<1>1. CASE Len(q) > 1 /\ q[1] = g
  <2>1. t = Tail(q) /\ q # <<>> /\ g \in E
    BY <1>1 DEF RemovePrefix
  <2>2. t \in Seq(E) /\ Len(t) = Len(q) - 1 /\ \A i \in 1..Len(t) : t[i] = q[i + 1]
    BY <2>1, HeadTailProperties
  <2>3. <<g>> \o t \in Seq(E) /\ Len(<<g>> \o t) = Len(q)
    BY <2>1, <2>2
  <2>4. \A i \in 1..Len(q) : (<<g>> \o t)[i] = q[i]
    BY <1>1, <2>2
  <2>5. QED BY <1>1, <2>2, <2>3, <2>4, SeqEqual
<1>2. CASE ~(Len(q) > 1 /\ q[1] = g)
  BY <1>2 DEF RemovePrefix
<1>3. QED BY <1>1, <1>2

LEMMA PrefixSplit ==
  ASSUME NEW E, NEW q \in Seq(E), NEW g
  PROVE  q = RemovePrefix(q, g) \/ q = <<g>> \o RemovePrefix(q, g)
<1>1. PICK t : RemovePrefix(q, g) = t
  OBVIOUS
<1>2. q = t \/ (t \in Seq(E) /\ q[1] = g /\ q = <<g>> \o t)
  BY <1>1, PrefixRemoved
<1>3. QED BY <1>1, <1>2, Zenon

Spelled(path, x) == path \in {<<x>>, <<".", x>>, <<"assets", x>>, <<".", "assets", x>>}
Candidate(path) == RemovePrefix(RemovePrefix(path, "."), "assets")

LEMMA SpelledIsCandidate ==
  ASSUME NEW x \in SafeNames, NEW path, Spelled(path, x)
  PROVE  Candidate(path) = <<x>>
<1>1. x # "."
  BY Drawn
<1>2. CASE path = <<x>>
  BY <1>2 DEF Candidate, RemovePrefix
<1>3. CASE path = <<".", x>>
  BY <1>3 DEF Candidate, RemovePrefix
<1>4. CASE path = <<"assets", x>>
  BY <1>4 DEF Candidate, RemovePrefix
<1>5. CASE path = <<".", "assets", x>>
  <2>1. RemovePrefix(path, ".") = <<"assets", x>>
    BY <1>5 DEF RemovePrefix
  <2>2. RemovePrefix(<<"assets", x>>, "assets") = <<x>>
    BY DEF RemovePrefix
  <2>3. QED BY <2>1, <2>2 DEF Candidate
<1>6. QED BY <1>2, <1>3, <1>4, <1>5 DEF Spelled

LEMMA BareIsSpelled ==
  ASSUME NEW path \in Seq(Written), NEW x, Bare(path) \in {<<x>>, <<"assets", x>>}
  PROVE  Spelled(path, x)
<1>1. path = Bare(path) \/ (path \in Seq(Written) /\ path = <<".">> \o Bare(path))
  BY PrefixRemoved DEF Bare
<1>2. CASE path = <<".">> \o <<x>>
  <2>1. path \in Seq(Written) /\ Len(path) = 2 /\ path[1] = "." /\ path[2] = x
    BY <1>2
  <2>2. QED BY <2>1, SeqOfTwo DEF Spelled
<1>3. CASE path = <<".">> \o <<"assets", x>>
  <2>1. path \in Seq(Written) /\ Len(path) = 3 /\ path[1] = "." /\ path[2] = "assets" /\ path[3] = x
    BY <1>3
  <2>2. QED BY <2>1, SeqOfThree DEF Spelled
<1>4. QED BY <1>1, <1>2, <1>3 DEF Spelled

LEMMA SpelledIsBare ==
  ASSUME NEW x \in SafeNames, NEW path, Spelled(path, x)
  PROVE  Bare(path) \in {<<x>>, <<"assets", x>>}
<1>1. x # "."
  BY Drawn
<1>2. CASE path = <<x>>
  BY <1>2 DEF Bare, RemovePrefix
<1>3. CASE path = <<".", x>>
  BY <1>3 DEF Bare, RemovePrefix
<1>4. CASE path = <<"assets", x>>
  BY <1>4 DEF Bare, RemovePrefix
<1>5. CASE path = <<".", "assets", x>>
  BY <1>5 DEF Bare, RemovePrefix
<1>6. QED BY <1>2, <1>3, <1>4, <1>5 DEF Spelled

LEMMA CandidateIsSpelled ==
  ASSUME NEW path \in Seq(Written), NEW x, Candidate(path) = <<x>>
  PROVE  Spelled(path, x)
<1>1. PICK q : q = RemovePrefix(path, ".")
  OBVIOUS
<1>2. q \in Seq(Written)
  BY <1>1 DEF RemovePrefix
<1>3. q = <<x>> \/ q = <<"assets">> \o <<x>>
  <2>1. RemovePrefix(q, "assets") = <<x>>
    BY <1>1 DEF Candidate
  <2>2. q = RemovePrefix(q, "assets") \/ q = <<"assets">> \o RemovePrefix(q, "assets")
    BY <1>2, PrefixSplit, Zenon
  <2>3. QED BY <2>1, <2>2, Zenon
<1>4. q = <<x>> \/ q = <<"assets", x>>
  <2>1. CASE q = <<"assets">> \o <<x>>
    <3>1. Len(q) = 2 /\ q[1] = "assets" /\ q[2] = x
      BY <2>1
    <3>2. QED BY <1>2, <3>1, SeqOfTwo
  <2>2. QED BY <1>3, <2>1
<1>5. QED BY <1>1, <1>4, BareIsSpelled DEF Bare

-----------------------------------------------------------------------------
LEMMA BareIsWritten ==
  ASSUME NEW r \in Reference, Plain(r), r.path # <<>>
  PROVE  /\ Bare(r.path) \in Seq(Written) /\ Len(Bare(r.path)) \in Nat /\ Len(Bare(r.path)) # 0
         /\ \A i \in 1..Len(Bare(r.path)) : Bare(r.path)[i] # Blank
<1>1. PICK path : path = r.path
  OBVIOUS
<1>2. /\ path \in Seq(Written) /\ Len(path) \in Nat /\ Len(path) # 0
      /\ \A i \in 1..Len(path) : path[i] # Blank
  BY <1>1, RelativePath, EmptySeq DEF Plain
<1>3. CASE Len(path) > 1 /\ path[1] = "."
  <2>1. /\ Tail(path) \in Seq(Written) /\ Len(Tail(path)) = Len(path) - 1
        /\ \A i \in 1..Len(Tail(path)) : Tail(path)[i] = path[i + 1]
    BY <1>2, <1>3, HeadTailProperties
  <2>2. Bare(r.path) = Tail(path)
    BY <1>1, <1>3 DEF Bare, RemovePrefix
  <2>3. \A i \in 1..Len(Tail(path)) : i + 1 \in 1..Len(path)
    BY <1>2, <2>1
  <2>4. QED BY <1>2, <1>3, <2>1, <2>2, <2>3
<1>4. CASE ~(Len(path) > 1 /\ path[1] = ".")
  BY <1>1, <1>2, <1>4 DEF Bare, RemovePrefix
<1>5. QED BY <1>3, <1>4

\* A reference that is left alone is resolved in the directory of its page.
LEMMA DirUrl ==
  ASSUME NEW r \in Reference, Plain(r), r.path # <<>>, NEW p \in Pages
  PROVE  Resolved(r, p) = Dir(p) \o Bare(r.path)
<1>1. /\ r.path \in Seq(Written) /\ r.kind = "relative"
      /\ \A i \in 1..Len(r.path) :
           r.path[i] # ".." /\ (r.path[i] = "." => i = 1 /\ Len(r.path) > 1)
  BY RelativePath DEF Plain
<1>2. r.path \in Seq(Segments)
  <2>1. \A i \in 1..Len(r.path) : r.path[i] \in Segments
    BY <1>1, Drawn, ElementOfSeq
  <2>2. QED BY <1>1, <2>1
<1>3. RemoveDots(Dir(p) \o r.path) = Dir(p) \o Bare(r.path)
  BY <1>1, <1>2, Dirs, Joined
<1>4. QED BY <1>1, <1>3, Dirs DEF Resolved

LEMMA LeftAlone ==
  ASSUME NEW r \in Reference, Plain(r), NEW p \in Pages,
         p \in Markdown => \A x \in SafeNames : ~Spelled(r.path, x)
  PROVE  Asked(r, p) = Resolved(r, p)
<1>1. r.path \in Seq(Written) /\ r.kind = "relative"
  BY RelativePath DEF Plain
<1>2. CASE p \in Markdown
  <2>1. Candidate(r.path) \in Seq(Written)
    <3>1. \A q \in Seq(Written) : \A g : RemovePrefix(q, g) \in Seq(Written)
      BY DEF RemovePrefix
    <3>2. QED BY <1>1, <3>1 DEF Candidate
  <2>2. ~IsSafeAssetName(Candidate(r.path))
    <3>1. SUFFICES ASSUME IsSafeAssetName(Candidate(r.path)) PROVE FALSE
      OBVIOUS
    <3>2. PICK c : c = Candidate(r.path)
      OBVIOUS
    <3>3. c \in Seq(Written) /\ Len(c) = 1 /\ c[1] \in SafeNames
      BY <2>1, <3>1, <3>2 DEF IsSafeAssetName
    <3>4. c = <<c[1]>>
      BY <3>3, SeqOfOne
    <3>5. Spelled(r.path, c[1])
      BY <1>1, <3>2, <3>4, CandidateIsSpelled
    <3>6. QED BY <1>2, <3>3, <3>5
  <2>3. QED BY <1>1, <1>2, <2>2
       DEF Asked, Shown, AttributeFilter, ResolveAssetReference, Candidate
<1>3. CASE p \notin Markdown
  BY <1>3 DEF Asked, Shown
<1>4. QED BY <1>2, <1>3

\* A file that is named is asked for where its artifact keeps it.
LEMMA Rewritten ==
  ASSUME NEW r \in Reference, r.kind = "relative", NEW p \in Markdown,
         NEW x \in SafeNames, Spelled(r.path, x)
  PROVE  Asked(r, p) = (IF p = "viewed" THEN <<"a", Own, "assets", x>>
                        ELSE <<"s", Share, "assets", x>>)
<1>1. Candidate(r.path) = <<x>>
  BY SpelledIsCandidate
<1>2. IsSafeAssetName(<<x>>)
  BY DEF IsSafeAssetName
<1>3. r = [kind |-> "relative", attribute |-> r.attribute, path |-> r.path]
  BY RelativePath
<1>4. Shown(r, p) = [kind |-> "rooted", attribute |-> r.attribute, path |-> AssetBase(p) \o <<x>>]
  BY <1>1, <1>2, <1>3 DEF Shown, AttributeFilter, ResolveAssetReference, Candidate
<1>5. Asked(r, p) = RemoveDots(AssetBase(p) \o <<x>>)
  BY <1>4 DEF Asked, Resolved
<1>6. x \in Segments /\ x # "." /\ x # ".."
  BY Drawn
<1>7. CASE p = "viewed"
  <2>1. PICK u : u = <<"a", Own, "assets">> \o <<x>>
    OBVIOUS
  <2>2. u \in Seq(Segments) /\ Len(u) = 4 /\ u[1] = "a" /\ u[2] = Own /\ u[3] = "assets" /\ u[4] = x
    BY <1>6, <2>1, Drawn
  <2>3. u = <<"a", Own, "assets", x>>
    BY <2>2, SeqOfFour
  <2>4. Dotless(u) /\ u # <<>>
    <3>1. /\ u[1] \notin {".", ".."} /\ u[2] \notin {".", ".."}
          /\ u[3] \notin {".", ".."} /\ u[4] \notin {".", ".."}
      BY <1>6, <2>2, Drawn
    <3>2. \A i \in 1..4 : u[i] \notin {".", ".."}
      BY <3>1
    <3>3. u # <<>>
      BY <2>3
    <3>4. QED BY <2>2, <3>2, <3>3 DEF Dotless
  <2>5. RemoveDots(u) = u
    BY <2>2, <2>4, NoDots
  <2>6. QED BY <1>5, <1>7, <2>1, <2>3, <2>5 DEF AssetBase
<1>8. CASE p # "viewed"
  <2>1. PICK u : u = <<"s", Share, "assets">> \o <<x>>
    OBVIOUS
  <2>2. u \in Seq(Segments) /\ Len(u) = 4 /\ u[1] = "s" /\ u[2] = Share /\ u[3] = "assets" /\ u[4] = x
    BY <1>6, <2>1, Drawn
  <2>3. u = <<"s", Share, "assets", x>>
    BY <2>2, SeqOfFour
  <2>4. Dotless(u) /\ u # <<>>
    <3>1. /\ u[1] \notin {".", ".."} /\ u[2] \notin {".", ".."}
          /\ u[3] \notin {".", ".."} /\ u[4] \notin {".", ".."}
      BY <1>6, <2>2, Drawn
    <3>2. \A i \in 1..4 : u[i] \notin {".", ".."}
      BY <3>1
    <3>3. u # <<>>
      BY <2>3
    <3>4. QED BY <2>2, <3>2, <3>3 DEF Dotless
  <2>5. RemoveDots(u) = u
    BY <2>2, <2>4, NoDots
  <2>6. QED BY <1>5, <1>8, <2>1, <2>3, <2>5 DEF AssetBase
<1>9. QED BY <1>7, <1>8

LEMMA BlanksAreSegments ==
  ASSUME NEW k \in Nat, Blank \in Segments
  PROVE  /\ [i \in 1..k |-> Blank] \in Seq(Segments) /\ Len([i \in 1..k |-> Blank]) = k
         /\ \A i \in 1..k : [j \in 1..k |-> Blank][i] = Blank
<1>1. [i \in 1..k |-> Blank] \in [1..k -> Segments]
  OBVIOUS
<1>2. QED BY <1>1, SeqDef, LenProperties

LEMMA BelowPoints ==
  ASSUME NEW pre \in Seq(Segments), NEW x \in Segments, NEW u, Below(u, pre, x)
  PROVE  /\ Len(u) \in Nat /\ Len(u) > Len(pre)
         /\ \A i \in 1..Len(pre) : u[i] = pre[i]
         /\ Len(u) = Len(pre) + 1 => u[Len(pre) + 1] = x
<1>1. Len(pre) \in Nat /\ "assets" \in Segments /\ Blank \in Segments
  BY Drawn
<1>2. CASE u = pre \o <<"assets", x>>
  BY <1>1, <1>2
<1>3. CASE u = Append(pre, x)
  BY <1>1, <1>3
<1>4. ASSUME NEW k \in 1..MaxPath, u = Append(pre, x) \o [i \in 1..k |-> Blank]
      PROVE  /\ Len(u) \in Nat /\ Len(u) > Len(pre) + 1
             /\ \A i \in 1..Len(pre) : u[i] = pre[i]
  <2> DEFINE head == Append(pre, x)
             tail == [i \in 1..k |-> Blank]
  <2>1. k \in Nat /\ k > 0
    BY ReferencesAssumption
  <2>2. tail \in Seq(Segments) /\ Len(tail) = k
    BY <1>1, <2>1, BlanksAreSegments
  <2>3. /\ head \in Seq(Segments) /\ Len(head) = Len(pre) + 1
        /\ \A i \in 1..Len(pre) : head[i] = pre[i]
    BY <1>1, AppendProperties
  <2>4. u = head \o tail
    BY <1>4
  <2> HIDE DEF head, tail
  <2>5. /\ Len(head \o tail) = Len(head) + Len(tail)
        /\ \A i \in 1..Len(head) : (head \o tail)[i] = head[i]
    <3>1. \A i \in 1..Len(head) : i \in 1..(Len(head) + Len(tail)) /\ i <= Len(head)
      BY <2>1, <2>2, <2>3, <1>1
    <3>2. /\ Len(head \o tail) = Len(head) + Len(tail)
          /\ \A i \in 1..(Len(head) + Len(tail)) :
               (head \o tail)[i] = IF i <= Len(head) THEN head[i] ELSE tail[i - Len(head)]
      BY <2>2, <2>3, ConcatProperties, Zenon
    <3>3. QED BY <3>1, <3>2
  <2>6. \A i \in 1..Len(pre) : i \in 1..Len(head)
    BY <1>1, <2>3
  <2>7. Len(u) = Len(pre) + 1 + k
    BY <2>2, <2>3, <2>4, <2>5
  <2>8. \A i \in 1..Len(pre) : u[i] = pre[i]
    BY <2>3, <2>4, <2>5, <2>6
  <2>9. QED BY <1>1, <2>1, <2>7, <2>8
<1>5. CASE \E k \in 1..MaxPath : u = Append(pre, x) \o [i \in 1..k |-> Blank]
  <2>1. Len(u) \in Nat /\ Len(u) > Len(pre) + 1 /\ \A i \in 1..Len(pre) : u[i] = pre[i]
    BY <1>4, <1>5, Zenon
  <2>2. QED BY <1>1, <2>1
<1>6. \/ u = pre \o <<"assets", x>> \/ u = Append(pre, x)
      \/ \E k \in 1..MaxPath : u = Append(pre, x) \o [i \in 1..k |-> Blank]
  BY Zenon DEF Below
<1>7. QED BY <1>2, <1>3, <1>5, <1>6, Zenon

LEMMA BlankIsNothing == "assets" # Blank /\ "." # Blank
BY Zenon DEF Blank

LEMMA SpelledIsPlain ==
  ASSUME NEW r \in Reference, r.kind = "relative", NEW x \in SafeNames, Spelled(r.path, x)
  PROVE  Plain(r)
<1>1. x # Blank /\ x # "." /\ x # ".." /\ "assets" # Blank /\ "." # Blank
  BY Drawn, BlankIsNothing
<1>2. PICK path : path = r.path
  OBVIOUS
<1>3. CASE path = <<x>>
  BY <1>1, <1>2, <1>3 DEF Plain
<1>4. CASE path = <<".", x>>
  BY <1>1, <1>2, <1>4 DEF Plain
<1>5. CASE path = <<"assets", x>>
  BY <1>1, <1>2, <1>5 DEF Plain
<1>6. CASE path = <<".", "assets", x>>
  BY <1>1, <1>2, <1>6 DEF Plain
<1>7. QED BY <1>2, <1>3, <1>4, <1>5, <1>6 DEF Spelled

\* What a frame's two routes open lies below a path that only the frame has.
LEMMA NotBelow ==
  ASSUME NEW u, NEW x \in SafeNames
  PROVE  /\ Below(u, <<"embed", Own, FrameToken>>, x) => u[1] = "embed"
         /\ Below(u, <<"s", Share, "embed", ShareToken>>, x) =>
              u[1] = "s" /\ u[2] = Share /\ Len(u) > 4
<1>1. /\ x \in Segments /\ <<"embed", Own, FrameToken>> \in Seq(Segments)
      /\ <<"s", Share, "embed", ShareToken>> \in Seq(Segments)
  BY Drawn
<1>2. ASSUME Below(u, <<"embed", Own, FrameToken>>, x) PROVE u[1] = "embed"
  <2>1. PICK pre : pre = <<"embed", Own, FrameToken>>
    OBVIOUS
  <2>2. pre \in Seq(Segments) /\ Below(u, pre, x) /\ 1 \in 1..Len(pre) /\ pre[1] = "embed"
    BY <1>1, <1>2, <2>1
  <2>3. u[1] = pre[1]
    BY <1>1, <2>2, BelowPoints
  <2>4. QED BY <2>2, <2>3
<1>3. ASSUME Below(u, <<"s", Share, "embed", ShareToken>>, x)
      PROVE  u[1] = "s" /\ u[2] = Share /\ Len(u) > 4
  <2>1. PICK pre : pre = <<"s", Share, "embed", ShareToken>>
    OBVIOUS
  <2>2. pre \in Seq(Segments) /\ Below(u, pre, x)
    BY <1>1, <1>3, <2>1
  <2>3. Len(pre) = 4 /\ pre[1] = "s" /\ pre[2] = Share
    BY <2>1
  <2>4. /\ Len(u) \in Nat /\ Len(u) > Len(pre)
        /\ \A i \in 1..Len(pre) : u[i] = pre[i]
    BY <1>1, <2>2, BelowPoints
  <2>5. u[1] = pre[1] /\ u[2] = pre[2]
    BY <2>3, <2>4
  <2>6. Len(u) > 4
    BY <2>3, <2>4
  <2>7. QED BY <2>3, <2>5, <2>6
<1>4. QED BY <1>2, <1>3

\* A frame and a share's frame: the file below the directory of the frame.
LEMMA FramesOpen ==
  ASSUME NEW r \in Reference, Plain(r), NEW p \in {"framed", "sharedFrame"},
         NEW a, NEW x \in SafeNames
  PROVE  Opens(Asked(r, p), p, a, x) <=> a = Own /\ Spelled(r.path, x)
<1>1. PICK u : u = Asked(r, p)
  OBVIOUS
<1>2. u = Resolved(r, p) /\ r.kind = "relative" /\ r.path \in Seq(Written)
  BY <1>1, LeftAlone, RelativePath DEF Markdown, Pages, Plain
<1>3. ASSUME u[1] = Dir(p)[1]
      PROVE  Opens(u, p, a, x) <=> a = Own /\ Below(u, Dir(p), x)
  <2>1. x \in Segments /\ <<"embed", Own, FrameToken>> \in Seq(Segments)
        /\ <<"s", Share, "embed", ShareToken>> \in Seq(Segments)
    BY Drawn
  <2>2. /\ Below(u, <<"embed", Own, FrameToken>>, x) => u[1] = "embed"
        /\ Below(u, <<"s", Share, "embed", ShareToken>>, x) => u[1] = "s"
    BY NotBelow
  <2>3. Dir(p) = IF p = "framed" THEN <<"embed", Own, FrameToken>>
                 ELSE <<"s", Share, "embed", ShareToken>>
    BY DEF Dir
  <2>4. u[1] = IF p = "framed" THEN "embed" ELSE "s"
    BY <1>3, <2>3
  <2>5. p # "viewed" /\ p # "shared"
    OBVIOUS
  <2>6. Opens(u, p, a, x) <=>
          a = Own /\ (\/ Below(u, <<"embed", Own, FrameToken>>, x)
                     \/ Below(u, <<"s", Share, "embed", ShareToken>>, x))
    BY <2>5, Zenon DEF Opens
  <2>7. CASE p = "framed"
    <3>1. ~Below(u, <<"s", Share, "embed", ShareToken>>, x)
      BY <2>2, <2>4, <2>7
    <3>2. QED BY <2>3, <2>6, <2>7, <3>1
  <2>8. CASE p # "framed"
    <3>1. ~Below(u, <<"embed", Own, FrameToken>>, x)
      BY <2>2, <2>4, <2>8
    <3>2. QED BY <2>3, <2>6, <2>8, <3>1
  <2>9. QED BY <2>7, <2>8
<1>4. CASE r.path = <<>>
  <2>1. u = Address(p)
    BY <1>2, <1>4 DEF Resolved
  <2>2. Len(u) = Len(Dir(p)) + 1 /\ u[Len(Dir(p)) + 1] = Blank /\ u[1] = Dir(p)[1]
    BY <2>1 DEF Address, Dir
  <2>3. ~Below(u, Dir(p), x)
    <3>1. x \in Segments /\ x # Blank /\ Dir(p) \in Seq(Segments) /\ p \in Pages
      BY Drawn, Dirs DEF Pages
    <3>2. QED BY <2>2, <3>1, BelowPoints
  <2>4. ~Spelled(r.path, x)
    BY <1>4 DEF Spelled
  <2>5. QED BY <1>1, <1>3, <2>2, <2>3, <2>4
<1>5. CASE r.path # <<>>
  <2>1. PICK b : b = Bare(r.path)
    OBVIOUS
  <2>2. PICK pre : pre = Dir(p)
    OBVIOUS
  <2>3. /\ u = pre \o b /\ pre \in Seq(Segments) /\ b \in Seq(Segments)
        /\ \A i \in 1..Len(b) : b[i] # Blank
    <3>1. b \in Seq(Written) /\ \A i \in 1..Len(b) : b[i] # Blank
      BY <1>5, <2>1, BareIsWritten
    <3>2. \A i \in 1..Len(b) : b[i] \in Segments
      BY <3>1, Drawn, ElementOfSeq
    <3>3. b \in Seq(Segments)
      BY <3>1, <3>2
    <3>4. p \in Pages
      BY DEF Pages
    <3>5. u = pre \o b /\ pre \in Seq(Segments)
      BY <1>2, <1>5, <2>1, <2>2, <3>4, DirUrl, Dirs
    <3>6. QED BY <3>1, <3>3, <3>5
  <2>4. Below(u, pre, x) <=> b \in {<<x>>, <<"assets", x>>}
    <3>1. x \in Segments /\ "assets" \in Segments /\ Blank \in Segments
      BY Drawn
    <3>2. <<x>> \in Seq(Segments) /\ <<"assets", x>> \in Seq(Segments)
      BY <3>1
    <3>3. Append(pre, x) = pre \o <<x>>
      <4>1. Append(pre, x) \in Seq(Segments) /\ pre \o <<x>> \in Seq(Segments)
            /\ Len(Append(pre, x)) = Len(pre \o <<x>>)
        BY <2>3, <3>1, <3>2
      <4>2. \A i \in 1..Len(Append(pre, x)) : Append(pre, x)[i] = (pre \o <<x>>)[i]
        BY <2>3, <3>1, <3>2
      <4>3. QED BY <4>1, <4>2, SeqEqual
    <3>4. \A t \in Seq(Segments) : pre \o b = pre \o t => b = t
      BY <2>3, ConcatSimplifications
    <3>5. ASSUME NEW k \in 1..MaxPath, u = Append(pre, x) \o [i \in 1..k |-> Blank]
          PROVE  FALSE
      <4>1. k \in Nat /\ k > 0
        BY ReferencesAssumption
      <4>2. PICK tail : tail = [i \in 1..k |-> Blank]
        OBVIOUS
      <4>3. tail \in Seq(Segments) /\ Len(tail) = k /\ tail[1] = Blank
        BY <3>1, <4>1, <4>2, BlanksAreSegments
      <4>4. PICK head : head = Append(pre, x)
        OBVIOUS
      <4>5. head \in Seq(Segments) /\ Len(head) = Len(pre) + 1 /\ Len(pre) \in Nat
        BY <2>3, <3>1, <4>4, AppendProperties, LenProperties
      <4>6. /\ u = head \o tail /\ Len(head \o tail) = Len(head) + k
            /\ (head \o tail)[Len(head) + 1] = Blank
        BY <3>5, <4>1, <4>2, <4>3, <4>4, <4>5, ConcatProperties
      <4>7. Len(u) = Len(pre) + Len(b) /\ Len(b) \in Nat
        BY <2>3, ConcatProperties, LenProperties
      <4>8. 2 \in 1..Len(b) /\ Len(head) + 1 = Len(pre) + 2
        BY <4>1, <4>5, <4>6, <4>7
      <4>9. u[Len(pre) + 2] = b[2]
        BY <2>3, <4>5, <4>7, <4>8, ConcatProperties
      <4>10. QED BY <2>3, <4>6, <4>8, <4>9
    <3>6. QED BY <2>3, <3>2, <3>3, <3>4, <3>5 DEF Below
  <2>5. b \in {<<x>>, <<"assets", x>>} <=> Spelled(r.path, x)
    BY <1>2, <2>1, BareIsSpelled, SpelledIsBare
  <2>6. u[1] = Dir(p)[1]
    <3>1. Len(pre) \in Nat /\ Len(pre) # 0
      BY <2>2, <2>3, Dirs, EmptySeq DEF Pages
    <3>2. QED BY <2>2, <2>3, <3>1
  <2>7. QED BY <1>1, <1>3, <2>2, <2>4, <2>5, <2>6
<1>6. QED BY <1>4, <1>5

\* A page of rendered Markdown: the file that was named, and no other.
LEMMA NamedOpens ==
  ASSUME NEW r \in Reference, r.kind = "relative", NEW p \in Markdown, NEW y \in SafeNames,
         Spelled(r.path, y), NEW a, NEW x \in SafeNames
  PROVE  Opens(Asked(r, p), p, a, x) <=> a = Own /\ x = y
<1>1. PICK u : u = Asked(r, p)
  OBVIOUS
<1>2. CASE p = "viewed"
  <2>1. u = <<"a", Own, "assets", y>>
    BY <1>1, <1>2, Rewritten
  <2>2. Len(u) = 4 /\ u[1] = "a"
    BY <2>1
  <2>3. ~Below(u, <<"embed", Own, FrameToken>>, x) /\ ~Below(u, <<"s", Share, "embed", ShareToken>>, x)
    BY <2>2, NotBelow
  <2>4. u = <<"a", a, "assets", x>> <=> a = Own /\ x = y
    BY <2>1
  <2>5. QED BY <1>1, <1>2, <2>3, <2>4, Zenon DEF Opens
<1>3. CASE p = "shared"
  <2>1. u = <<"s", Share, "assets", y>>
    BY <1>1, <1>3, Rewritten
  <2>2. Len(u) = 4 /\ u[1] = "s" /\ ~(Len(u) > 4) /\ u[1] # "embed"
    BY <2>1
  <2>3. ~Below(u, <<"embed", Own, FrameToken>>, x) /\ ~Below(u, <<"s", Share, "embed", ShareToken>>, x)
    BY <2>2, NotBelow
  <2>4. u = <<"s", Share, "assets", x>> <=> x = y
    BY <2>1
  <2>5. QED BY <1>1, <1>3, <2>3, <2>4, Zenon DEF Opens
<1>4. QED BY <1>2, <1>3 DEF Markdown

\* What names no file is asked for beside the page, where its artifact keeps none.
LEMMA UnnamedStaysShut ==
  ASSUME NEW r \in Reference, Plain(r), NEW p \in Markdown,
         \A y \in SafeNames : ~Spelled(r.path, y), NEW x \in SafeNames
  PROVE  ~Opens(Asked(r, p), p, Own, x)
<1>1. PICK u : u = Asked(r, p)
  OBVIOUS
<1>2. u = Resolved(r, p) /\ p \in Pages /\ r.kind = "relative"
  BY <1>1, LeftAlone DEF Markdown, Pages, Plain
<1>3. /\ u[1] = IF p = "viewed" THEN "a" ELSE "s"
      /\ Len(u) > 2 => u[2] # Own /\ u[2] # Share
  <2>1. CASE r.path = <<>>
    <3>1. u = Address(p)
      BY <1>2, <2>1 DEF Resolved
    <3>2. QED BY <3>1 DEF Address, Markdown
  <2>2. CASE r.path # <<>>
    <3>1. PICK b : b = Bare(r.path)
      OBVIOUS
    <3>2. b \in Seq(Written) /\ Len(b) # 0
      BY <2>2, <3>1, BareIsWritten
    <3>3. b[1] # Own /\ b[1] # Share
      <4>1. 1 \in 1..Len(b)
        BY <3>2
      <4>2. b[1] \in Written
        BY <3>2, <4>1, ElementOfSeq
      <4>3. QED BY <4>2, Drawn
    <3>4. u = Dir(p) \o b
      BY <1>2, <2>2, <3>1, DirUrl
    <3>5. Dir(p) = IF p = "viewed" THEN <<"a">> ELSE <<"s">>
      BY DEF Dir, Markdown
    <3>6. u[1] = (IF p = "viewed" THEN "a" ELSE "s") /\ u[2] = b[1]
      BY <3>2, <3>4, <3>5
    <3>7. QED BY <3>3, <3>6
  <2>3. QED BY <2>1, <2>2
<1>4. ~Below(u, <<"embed", Own, FrameToken>>, x) /\ ~Below(u, <<"s", Share, "embed", ShareToken>>, x)
  BY <1>3, NotBelow
<1>5. u # <<"a", Own, "assets", x>> /\ u # <<"s", Share, "assets", x>>
  BY <1>3
<1>6. QED BY <1>1, <1>4, <1>5, Zenon DEF Opens

\* On every page the same references open the same files of the artifact.
LEMMA OpensIffSpelled ==
  ASSUME NEW r \in Reference, Plain(r), NEW p \in Pages, NEW x \in SafeNames
  PROVE  Opens(Asked(r, p), p, Own, x) <=> Spelled(r.path, x)
<1>1. r.kind = "relative"
  BY DEF Plain
<1>2. CASE p \in Markdown
  <2>1. CASE \A y \in SafeNames : ~Spelled(r.path, y)
    BY <1>2, <2>1, UnnamedStaysShut
  <2>2. ASSUME NEW y \in SafeNames, Spelled(r.path, y)
        PROVE  Opens(Asked(r, p), p, Own, x) <=> Spelled(r.path, x)
    <3>1. Opens(Asked(r, p), p, Own, x) <=> x = y
      BY <1>1, <1>2, <2>2, NamedOpens
    <3>2. Spelled(r.path, x) => x = y
      <4>1. Spelled(r.path, x) => <<x>> = <<y>>
        BY <2>2, SpelledIsCandidate
      <4>2. QED BY <4>1
    <3>3. QED BY <2>2, <3>1, <3>2
  <2>3. QED BY <2>1, <2>2
<1>3. CASE p \notin Markdown
  <2>1. p \in {"framed", "sharedFrame"}
    BY <1>3 DEF Markdown, Pages
  <2>2. QED BY <2>1, FramesOpen
<1>4. QED BY <1>2, <1>3

(* The two renderers agree (rendering.py:157-181, routers/viewer.py:478-640): *)
(* a reference without ".." and empty segments gets the same asset of the     *)
(* artifact on every page it can be shown on, or on none.                     *)
THEOREM PagesServeAlike == RefSpec => []PagesAgree
<1>1. ASSUME NEW r \in Reference, Plain(r), NEW p \in Pages, NEW q \in Pages
      PROVE  OwnAsset(r, p) \subseteq OwnAsset(r, q)
  <2>1. SUFFICES ASSUME NEW asset \in OwnAsset(r, p) PROVE asset \in OwnAsset(r, q)
    OBVIOUS
  <2>2. asset \in Served(Asked(r, p), p) /\ asset.artifact = Own
    BY <2>1 DEF OwnAsset, Asked
  <2>3. /\ asset \in Asset /\ asset.name \in Attached[Own] /\ asset.name \in SafeNames
        /\ Opens(Asked(r, p), p, Own, asset.name)
    BY <2>2, ServedIsOpen, AssetFields
  <2>4. Opens(Asked(r, q), q, Own, asset.name)
    BY <1>1, <2>3, OpensIffSpelled
  <2>5. asset \in Served(Asked(r, q), q)
    BY <2>2, <2>3, <2>4, ServedIsOpen
  <2>6. QED BY <2>2, <2>5 DEF OwnAsset, Asked
<1>2. ASSUME RefInv PROVE PagesAgree
  <2>1. ASSUME NEW p \in Pages, NEW q \in Pages, Plain(written)
        PROVE  OwnAsset(written, p) = OwnAsset(written, q)
    <3>1. written \in Reference
      BY <1>2 DEF RefInv
    <3>2. /\ OwnAsset(written, p) \subseteq OwnAsset(written, q)
          /\ OwnAsset(written, q) \subseteq OwnAsset(written, p)
      BY <1>1, <2>1, <3>1
    <3>3. QED BY <3>2
  <2>2. QED BY <1>2, <2>1 DEF RefInv, PagesAgree
<1>3. QED BY <1>2, ReferencesInvariant, PTL

(* "Both spellings are how people actually write Markdown next to their       *)
(* attachments, so both are accepted" (rendering.py:166): an attached file    *)
(* written as x, ./x, assets/x or ./assets/x is served on all four pages, for *)
(* every name that is_safe_asset_name accepts, "assets" among them.           *)
THEOREM EverySpellingIsServed == RefSpec => []EverySpellingServes
<1>1. ASSUME NEW r \in Reference, r.kind = "relative", NEW p \in Pages,
             NEW x \in Attached[Own], Spelled(r.path, x)
      PROVE  Served(Asked(r, p), p) = {[artifact |-> Own, name |-> x]}
  <2>1. x \in SafeNames /\ Own \in DOMAIN Attached /\ x # Blank /\ x # "." /\ x # ".."
        /\ "assets" \in Segments
    BY Drawn
  <2>2. ASSUME NEW a, NEW y \in SafeNames
        PROVE  Opens(Asked(r, p), p, a, y) <=> a = Own /\ y = x
    <3>1. CASE p \in Markdown
      BY <1>1, <2>1, <3>1, NamedOpens
    <3>2. CASE p \notin Markdown
      <4>1. p \in {"framed", "sharedFrame"}
        BY <3>2 DEF Markdown, Pages
      <4>2. Spelled(r.path, y) <=> y = x
        <5>1. Spelled(r.path, y) => <<y>> = <<x>>
          BY <1>1, <2>1, SpelledIsCandidate
        <5>2. QED BY <1>1, <5>1
      <4>3. Plain(r)
        BY <1>1, <2>1, SpelledIsPlain
      <4>4. QED BY <4>1, <4>2, <4>3, FramesOpen
    <3>3. QED BY <3>1, <3>2
  <2>3. PICK named : named = [artifact |-> Own, name |-> x]
    OBVIOUS
  <2>4. named \in Asset /\ named.artifact = Own /\ named.name = x
    BY <2>1, <2>3 DEF Asset
  <2>5. named \in Served(Asked(r, p), p)
    BY <2>1, <2>2, <2>4, ServedIsOpen
  <2>6. \A asset \in Served(Asked(r, p), p) : asset = named
    BY <2>2, <2>3, ServedIsOpen, AssetFields
  <2>7. QED BY <2>3, <2>5, <2>6
<1>2. ASSUME RefInv PROVE EverySpellingServes
  <2>1. SUFFICES ASSUME stage = "answered", written.kind = "relative",
                        NEW x \in Attached[Own], Spelled(written.path, x)
                 PROVE  answer = [artifact |-> Own, name |-> x]
    BY DEF EverySpellingServes, Spelled
  <2>2. Served(Asked(written, page), page) = {[artifact |-> Own, name |-> x]}
    BY <1>1, <1>2, <2>1 DEF RefInv
  <2>3. QED BY <1>2, <2>1, <2>2 DEF RefInv
<1>3. QED BY <1>2, ReferencesInvariant, PTL
=============================================================================
