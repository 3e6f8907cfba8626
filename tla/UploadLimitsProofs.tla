------------------------- MODULE UploadLimitsProofs -------------------------
(***************************************************************************)
(* Theorems about UploadLimits for every set of requests and every value   *)
(* of the limits that satisfies UploadAssumption.                          *)
(***************************************************************************)
EXTENDS UploadLimits, SequenceTheorems, WellFoundedInduction, TLAPS

\* The limits are numbers, and so is what a request says of itself.
LEMMA Limits ==
  /\ MaxContent \in Nat /\ MaxAssetBytes \in Nat /\ MaxAssets \in Nat
  /\ ShareFormMax \in Nat /\ EnvelopeRoom \in Nat /\ MaxRequest \in Nat
  /\ ReadChunk \in Nat /\ ReadChunk > 0 /\ MaxMessage \in Nat /\ MaxMessage > 0
BY UploadAssumption DEF MaxRequest

LEMMA RequestFields ==
  ASSUME req \in RequestType
  PROVE  /\ req.body \in Nat /\ req.content \in Nat /\ req.authorized \in BOOLEAN
         /\ req.assets \in Seq([name : Names, size : Nat])
         /\ Len(req.assets) \in Nat
         /\ \A i \in 1..Len(req.assets) : req.assets[i].size \in Nat
<1>1. req.assets \in Seq([name : Names, size : Nat])
  BY DEF RequestType
<1>2. \A i \in 1..Len(req.assets) : req.assets[i] \in [name : Names, size : Nat]
  BY <1>1, ElementOfSeq
<1>3. QED BY <1>1, <1>2 DEF RequestType

\* The two forms the list of answers takes.
LEMMA NoAnswer == <<>> \in Seq(Statuses) /\ Len(<<>>) = 0
OBVIOUS

LEMMA OneAnswer ==
  ASSUME NEW v \in Statuses
  PROVE  /\ <<v>> \in Seq(Statuses) /\ Len(<<v>>) = 1 /\ <<v>> # <<>>
         /\ Append(<<>>, v) = <<v>>
OBVIOUS

\* One read of a part takes at most a byte more than what is still allowed,
\* never more than the part has, and nothing only at its end.
LEMMA ChunkBounded ==
  ASSUME NEW limit \in Nat, NEW size \in Nat, pulled \in Nat,
         pulled <= limit, pulled <= size
  PROVE  /\ Chunk(limit, size) \in Nat
         /\ pulled + Chunk(limit, size) <= limit + 1
         /\ pulled + Chunk(limit, size) <= size
         /\ Chunk(limit, size) = 0 => pulled = size
BY Limits DEF Chunk, Least

LEMMA UploadInit == Init => UploadInv
<1> SUFFICES ASSUME Init PROVE UploadInv
  OBVIOUS
<1>1. req \in RequestType
  BY UploadAssumption DEF Init
<1>2. Ceiling \in Nat
  BY Limits DEF Ceiling
<1>3. TypeOK /\ ParsedWithinReceived
  <2>1. answers \in Seq(Statuses) /\ outcome \in Statuses
    BY NoAnswer DEF Init, Statuses
  <2>2. received + unsent = req.body /\ unsent \in Nat
    BY <1>1, RequestFields DEF Init
  <2>3. TypeOK
    BY <1>1, <2>1, <2>2, Limits DEF Init, TypeOK, Stages
  <2>4. QED BY <2>3 DEF Init, ParsedWithinReceived
<1>4. PeakBounded /\ ParsedBounded /\ AnswerOnce /\ RejectedLeavesNothing
  BY <1>2, Limits DEF Init, PeakBounded, ParsedBounded, AnswerOnce, RejectedLeavesNothing
<1>5. CountersOK /\ RepliesOK /\ BudgetOK
  BY <1>2, Limits DEF Init, CountersOK, RepliesOK, BudgetOK, Reading, Closing
<1>6. QED BY <1>3, <1>4, <1>5 DEF UploadInv, Init

LEMMA GateKeeps == ASSUME UploadInv, Gate PROVE UploadInv'
<1>1. /\ req' = req /\ Ceiling' = Ceiling /\ Ceiling \in Nat
      /\ UNCHANGED <<unsent, received, parsed, exceeded, pulled, part, remaining,
                     started, stored, outcome>>
  BY Limits DEF Gate, Goto, channel, reading, Ceiling, IsShareBody
<1>2. /\ stage = "gate" /\ answers = <<>> /\ ~started /\ ~stored /\ ~exceeded
      /\ part = 0 /\ pulled = 0 /\ remaining = MaxAssetBytes
  BY DEF UploadInv, Gate, RepliesOK, CountersOK, BudgetOK, Closing, Reading
<1>3. /\ stage' \in {"done", "session", "body"}
      /\ answers' = <<>> \/ (answers' = <<413>> /\ stage' = "done")
  BY <1>2 DEF Gate, Goto
<1>4. answers' \in Seq(Statuses) /\ Len(answers') <= 1
  <2>1. 413 \in Statuses
    BY DEF Statuses
  <2>2. <<413>> \in Seq(Statuses) /\ Len(<<413>>) = 1
    BY <2>1, OneAnswer
  <2>3. CASE answers' = <<>> BY <2>3, NoAnswer
  <2>4. CASE answers' = <<413>> BY <2>2, <2>4
  <2>5. QED BY <1>3, <2>3, <2>4
<1>5. TypeOK' /\ AnswerOnce' /\ RejectedLeavesNothing'
  BY <1>1, <1>2, <1>3, <1>4 DEF UploadInv, TypeOK, AnswerOnce, RejectedLeavesNothing, Stages
<1>6. PeakBounded' /\ ParsedBounded' /\ ParsedWithinReceived'
  BY <1>1, <1>2, Limits
     DEF UploadInv, TypeOK, PeakBounded, ParsedBounded, ParsedWithinReceived
<1>7. CountersOK' /\ RepliesOK' /\ BudgetOK'
  BY <1>1, <1>2, <1>3, Limits
     DEF UploadInv, TypeOK, CountersOK, RepliesOK, BudgetOK, Closing, Reading
<1>8. QED BY <1>1, <1>2, <1>5, <1>6, <1>7 DEF UploadInv

LEMMA SessionKeeps == ASSUME UploadInv, Session PROVE UploadInv'
<1>1. /\ req' = req /\ MaxRequest \in Nat /\ Ceiling' = Ceiling
      /\ Len(req.assets) \in Nat
  BY Limits, RequestFields
     DEF UploadInv, TypeOK, Ceiling, IsShareBody, Session, Goto, Reject, channel,
         reading, reply
<1>2. TypeOK' /\ ParsedWithinReceived'
  BY <1>1
     DEF UploadInv, TypeOK, ParsedWithinReceived, Stages, Statuses, Session, Goto,
         Reject, channel, reading, reply
<1>3. PeakBounded' /\ ParsedBounded' /\ AnswerOnce'
  BY <1>1, Limits
     DEF UploadInv, TypeOK, PeakBounded, ParsedBounded, AnswerOnce, RepliesOK, BudgetOK,
         CountersOK, Closing, Session, Goto, Reject, channel, reading, reply
<1>4. RejectedLeavesNothing' /\ (stored' => stage' \in Closing)
  BY <1>1
     DEF UploadInv, TypeOK, RejectedLeavesNothing, AnswerOnce, CountersOK, RepliesOK,
         Reading, Closing, Session, Goto, Reject, channel, reading, reply
<1>5. CountersOK' /\ RepliesOK'
  BY <1>1
     DEF UploadInv, TypeOK, AnswerOnce, CountersOK, RepliesOK, Reading, Closing,
         Session, Goto, Reject, channel, reading, reply
<1>6. BudgetOK'
  BY <1>1, Limits
     DEF UploadInv, TypeOK, BudgetOK, Closing, Reading, Session, Goto, Reject, channel,
         reading, reply
<1>7. QED BY <1>2, <1>3, <1>4, <1>5, <1>6 DEF UploadInv

LEMMA DependenciesKeeps == ASSUME UploadInv, Dependencies PROVE UploadInv'
<1>1. /\ req' = req /\ MaxRequest \in Nat /\ Ceiling' = Ceiling
      /\ Len(req.assets) \in Nat
  BY Limits, RequestFields
     DEF UploadInv, TypeOK, Ceiling, IsShareBody, Dependencies, Goto, Reject, channel,
         reading, reply
<1>2. TypeOK' /\ ParsedWithinReceived'
  BY <1>1
     DEF UploadInv, TypeOK, ParsedWithinReceived, Stages, Statuses, Dependencies, Goto,
         Reject, channel, reading, reply
<1>3. PeakBounded' /\ ParsedBounded' /\ AnswerOnce'
  BY <1>1, Limits
     DEF UploadInv, TypeOK, PeakBounded, ParsedBounded, AnswerOnce, RepliesOK, BudgetOK,
         CountersOK, Closing, Dependencies, Goto, Reject, channel, reading, reply
<1>4. RejectedLeavesNothing' /\ (stored' => stage' \in Closing)
  BY <1>1
     DEF UploadInv, TypeOK, RejectedLeavesNothing, AnswerOnce, CountersOK, RepliesOK,
         Reading, Closing, Dependencies, Goto, Reject, channel, reading, reply
<1>5. CountersOK' /\ RepliesOK'
  BY <1>1
     DEF UploadInv, TypeOK, AnswerOnce, CountersOK, RepliesOK, Reading, Closing,
         Dependencies, Goto, Reject, channel, reading, reply
<1>6. BudgetOK'
  BY <1>1, Limits
     DEF UploadInv, TypeOK, BudgetOK, Closing, Dependencies, Goto, Reject, channel,
         reading, reply
<1>7. QED BY <1>2, <1>3, <1>4, <1>5, <1>6 DEF UploadInv

LEMMA FieldsKeeps == ASSUME UploadInv, Fields PROVE UploadInv'
<1>1. /\ req' = req /\ MaxRequest \in Nat /\ Ceiling' = Ceiling
      /\ Len(req.assets) \in Nat
  BY Limits, RequestFields
     DEF UploadInv, TypeOK, Ceiling, IsShareBody, Fields, Goto, Reject, channel,
         reading, reply
<1>2. TypeOK' /\ ParsedWithinReceived'
  BY <1>1
     DEF UploadInv, TypeOK, ParsedWithinReceived, Stages, Statuses, Fields, Goto,
         Reject, channel, reading, reply
<1>3. PeakBounded' /\ ParsedBounded' /\ AnswerOnce'
  BY <1>1, Limits
     DEF UploadInv, TypeOK, PeakBounded, ParsedBounded, AnswerOnce, RepliesOK, BudgetOK,
         CountersOK, Closing, Fields, Goto, Reject, channel, reading, reply
<1>4. RejectedLeavesNothing' /\ (stored' => stage' \in Closing)
  BY <1>1
     DEF UploadInv, TypeOK, RejectedLeavesNothing, AnswerOnce, CountersOK, RepliesOK,
         Reading, Closing, Fields, Goto, Reject, channel, reading, reply
<1>5. CountersOK' /\ RepliesOK'
  BY <1>1
     DEF UploadInv, TypeOK, AnswerOnce, CountersOK, RepliesOK, Reading, Closing, Fields,
         Goto, Reject, channel, reading, reply
<1>6. BudgetOK'
  <2>1. /\ req.content \in Nat
        /\ req.assets # <<>> => Len(req.assets) >= 1 /\ req.assets[1].size \in Nat
    BY RequestFields, EmptySeq DEF UploadInv, TypeOK
  <2>2. QED BY <1>1, <2>1, Limits
         DEF UploadInv, TypeOK, BudgetOK, Closing, Fields, Goto, Reject, channel,
             reading, reply
<1>7. QED BY <1>2, <1>3, <1>4, <1>5, <1>6 DEF UploadInv

LEMMA CountAssetsKeeps == ASSUME UploadInv, CountAssets PROVE UploadInv'
<1>1. /\ req' = req /\ MaxRequest \in Nat /\ Ceiling' = Ceiling
      /\ Len(req.assets) \in Nat
  BY Limits, RequestFields
     DEF UploadInv, TypeOK, Ceiling, IsShareBody, CountAssets, Goto, Reject, channel,
         reply
<1>2. TypeOK' /\ ParsedWithinReceived'
  BY <1>1
     DEF UploadInv, TypeOK, ParsedWithinReceived, Stages, Statuses, CountAssets, Goto,
         Reject, channel, reply
<1>3. PeakBounded' /\ ParsedBounded' /\ AnswerOnce'
  BY <1>1, Limits
     DEF UploadInv, TypeOK, PeakBounded, ParsedBounded, AnswerOnce, RepliesOK, BudgetOK,
         CountersOK, Closing, CountAssets, Goto, Reject, channel, reply
<1>4. RejectedLeavesNothing' /\ (stored' => stage' \in Closing)
  BY <1>1
     DEF UploadInv, TypeOK, RejectedLeavesNothing, AnswerOnce, CountersOK, RepliesOK,
         Reading, Closing, CountAssets, Goto, Reject, channel, reply
<1>5. CountersOK' /\ RepliesOK'
  BY <1>1
     DEF UploadInv, TypeOK, AnswerOnce, CountersOK, RepliesOK, Reading, Closing,
         CountAssets, Goto, Reject, channel, reply
<1>6. BudgetOK'
  <2>1. /\ req.content \in Nat
        /\ req.assets # <<>> => Len(req.assets) >= 1 /\ req.assets[1].size \in Nat
    BY RequestFields, EmptySeq DEF UploadInv, TypeOK
  <2>2. QED BY <1>1, <2>1, Limits
         DEF UploadInv, TypeOK, BudgetOK, Closing, CountAssets, Goto, Reject, channel,
             reply
<1>7. QED BY <1>2, <1>3, <1>4, <1>5, <1>6 DEF UploadInv

LEMMA ValidateAssetsKeeps == ASSUME UploadInv, ValidateAssets PROVE UploadInv'
<1>1. /\ req' = req /\ MaxRequest \in Nat /\ Ceiling' = Ceiling
      /\ Len(req.assets) \in Nat
  BY Limits, RequestFields
     DEF UploadInv, TypeOK, Ceiling, IsShareBody, ValidateAssets, Goto, Reject, channel,
         reading, reply
<1>2. TypeOK' /\ ParsedWithinReceived'
  BY <1>1
     DEF UploadInv, TypeOK, ParsedWithinReceived, Stages, Statuses, ValidateAssets,
         Goto, Reject, channel, reading, reply
<1>3. PeakBounded' /\ ParsedBounded' /\ AnswerOnce'
  BY <1>1, Limits
     DEF UploadInv, TypeOK, PeakBounded, ParsedBounded, AnswerOnce, RepliesOK, BudgetOK,
         CountersOK, Closing, ValidateAssets, Goto, Reject, channel, reading, reply
<1>4. RejectedLeavesNothing' /\ (stored' => stage' \in Closing)
  BY <1>1
     DEF UploadInv, TypeOK, RejectedLeavesNothing, AnswerOnce, CountersOK, RepliesOK,
         Reading, Closing, ValidateAssets, Goto, Reject, channel, reading, reply
<1>5. CountersOK' /\ RepliesOK'
  BY <1>1
     DEF UploadInv, TypeOK, AnswerOnce, CountersOK, RepliesOK, Reading, Closing,
         ValidateAssets, Goto, Reject, channel, reading, reply
<1>6. BudgetOK'
  BY <1>1, Limits
     DEF UploadInv, TypeOK, BudgetOK, Closing, ValidateAssets, Goto, Reject, channel,
         reading, reply
<1>7. QED BY <1>2, <1>3, <1>4, <1>5, <1>6 DEF UploadInv

LEMMA CreateKeeps == ASSUME UploadInv, Create PROVE UploadInv'
<1>1. /\ req' = req /\ MaxRequest \in Nat /\ Ceiling' = Ceiling
      /\ Len(req.assets) \in Nat
  BY Limits, RequestFields
     DEF UploadInv, TypeOK, Ceiling, IsShareBody, Create, Reject, channel, reading,
         reply
<1>2. TypeOK' /\ ParsedWithinReceived'
  BY <1>1
     DEF UploadInv, TypeOK, ParsedWithinReceived, Stages, Statuses, Create, Reject,
         channel, reading, reply
<1>3. PeakBounded' /\ ParsedBounded' /\ AnswerOnce'
  BY <1>1, Limits
     DEF UploadInv, TypeOK, PeakBounded, ParsedBounded, AnswerOnce, RepliesOK, BudgetOK,
         CountersOK, Closing, Create, Reject, channel, reading, reply
<1>4. RejectedLeavesNothing' /\ (stored' => stage' \in Closing)
  BY <1>1
     DEF UploadInv, TypeOK, RejectedLeavesNothing, AnswerOnce, CountersOK, RepliesOK,
         Reading, Closing, Create, Reject, channel, reading, reply
<1>5. CountersOK' /\ RepliesOK'
  BY <1>1
     DEF UploadInv, TypeOK, AnswerOnce, CountersOK, RepliesOK, Reading, Closing, Create,
         Reject, channel, reading, reply
<1>6. BudgetOK'
  BY <1>1, Limits
     DEF UploadInv, TypeOK, BudgetOK, Closing, Create, Reject, channel, reading, reply
<1>7. QED BY <1>2, <1>3, <1>4, <1>5, <1>6 DEF UploadInv

LEMMA HandlerKeeps == ASSUME UploadInv, Handler PROVE UploadInv'
<1>1. /\ req' = req /\ MaxRequest \in Nat /\ Ceiling' = Ceiling
      /\ Len(req.assets) \in Nat
  BY Limits, RequestFields
     DEF UploadInv, TypeOK, Ceiling, IsShareBody, Handler, Reject, channel, reading,
         reply
<1>2. TypeOK' /\ ParsedWithinReceived'
  BY <1>1
     DEF UploadInv, TypeOK, ParsedWithinReceived, Stages, Statuses, Handler, Reject,
         channel, reading, reply
<1>3. PeakBounded' /\ ParsedBounded' /\ AnswerOnce'
  BY <1>1, Limits
     DEF UploadInv, TypeOK, PeakBounded, ParsedBounded, AnswerOnce, RepliesOK, BudgetOK,
         CountersOK, Closing, Handler, Reject, channel, reading, reply
<1>4. RejectedLeavesNothing' /\ (stored' => stage' \in Closing)
  BY <1>1
     DEF UploadInv, TypeOK, RejectedLeavesNothing, AnswerOnce, CountersOK, RepliesOK,
         Reading, Closing, Handler, Reject, channel, reading, reply
<1>5. CountersOK' /\ RepliesOK'
  BY <1>1
     DEF UploadInv, TypeOK, AnswerOnce, CountersOK, RepliesOK, Reading, Closing,
         Handler, Reject, channel, reading, reply
<1>6. BudgetOK'
  BY <1>1, Limits
     DEF UploadInv, TypeOK, BudgetOK, Closing, Handler, Reject, channel, reading, reply
<1>7. QED BY <1>2, <1>3, <1>4, <1>5, <1>6 DEF UploadInv

LEMMA AnswerKeeps == ASSUME UploadInv, Answer PROVE UploadInv'
<1>1. /\ req' = req /\ Ceiling' = Ceiling /\ Ceiling \in Nat
      /\ UNCHANGED <<unsent, received, parsed, exceeded, pulled, part, remaining,
                     stored, outcome>>
      /\ stage = "answer" /\ stage' = "returned"
  BY Limits DEF Answer, Goto, channel, reading, Ceiling, IsShareBody
<1>2. answers = <<>> /\ ~started
  BY <1>1 DEF UploadInv, RepliesOK
<1>3. /\ <<outcome>> \in Seq(Statuses) /\ Len(<<outcome>>) = 1 /\ <<outcome>> # <<>>
      /\ Append(<<>>, outcome) = <<outcome>>
  BY OneAnswer DEF UploadInv, TypeOK
<1>4. \/ exceeded /\ answers' = <<>> /\ ~started' /\ started' \in BOOLEAN
      \/ ~exceeded /\ answers' = <<outcome>> /\ started' = TRUE
  BY <1>1, <1>2 DEF Answer, reply, UploadInv, TypeOK
<1>a. answers' \in Seq(Statuses) /\ Len(answers') <= 1
  <2>1. CASE answers' = <<>> BY <2>1, NoAnswer
  <2>2. CASE answers' = <<outcome>> BY <1>3, <2>2
  <2>3. QED BY <1>4, <2>1, <2>2
<1>5. TypeOK' /\ AnswerOnce' /\ RejectedLeavesNothing'
  BY <1>1, <1>2, <1>3, <1>4, <1>a
     DEF UploadInv, TypeOK, AnswerOnce, RejectedLeavesNothing, Stages
<1>6. PeakBounded' /\ ParsedBounded' /\ ParsedWithinReceived'
  BY <1>1 DEF UploadInv, TypeOK, PeakBounded, ParsedBounded, ParsedWithinReceived
<1>7. CountersOK' /\ RepliesOK' /\ BudgetOK'
  BY <1>1, <1>2, <1>3, <1>4, Limits
     DEF UploadInv, TypeOK, CountersOK, RepliesOK, BudgetOK, Closing, Reading
<1>8. QED BY <1>1, <1>5, <1>6, <1>7 DEF UploadInv, Closing

LEMMA ReturnedKeeps == ASSUME UploadInv, Returned PROVE UploadInv'
<1>1. /\ req' = req /\ Ceiling' = Ceiling /\ Ceiling \in Nat
      /\ UNCHANGED <<unsent, received, parsed, exceeded, pulled, part, remaining,
                     stored, outcome>>
      /\ stage = "returned" /\ stage' = "done"
  BY Limits DEF Returned, Goto, channel, reading, Ceiling, IsShareBody
<1>2. exceeded /\ ~started => answers = <<>>
  BY <1>1 DEF UploadInv, RepliesOK
<1>3. /\ <<413>> \in Seq(Statuses) /\ Len(<<413>>) = 1 /\ <<413>> # <<>>
      /\ Append(<<>>, 413) = <<413>>
  <2>1. 413 \in Statuses
    BY DEF Statuses
  <2>2. QED BY <2>1, OneAnswer
<1>4. \/ exceeded /\ answers' = <<413>> /\ started' = TRUE
      \/ answers' = answers /\ started' = started
  <2>1. CASE exceeded /\ ~started
    <3>1. started' = TRUE /\ answers' = Append(answers, 413)
      BY <2>1 DEF Returned
    <3>2. answers = <<>>
      BY <1>2, <2>1
    <3>3. answers' = <<413>>
      BY <1>3, <3>1, <3>2
    <3>4. QED BY <2>1, <3>1, <3>3
  <2>2. CASE ~(exceeded /\ ~started)
    BY <2>2 DEF Returned, reply
  <2>3. QED BY <2>1, <2>2
<1>a. answers' \in Seq(Statuses) /\ Len(answers') <= 1
  <2>1. CASE answers' = answers BY <2>1 DEF UploadInv, TypeOK, AnswerOnce
  <2>2. CASE answers' = <<413>> BY <1>3, <2>2
  <2>3. QED BY <1>4, <2>1, <2>2
<1>5. TypeOK' /\ AnswerOnce' /\ RejectedLeavesNothing'
  <2>1. TypeOK'
    BY <1>1, <1>4, <1>a DEF UploadInv, TypeOK, Stages
  <2>2. AnswerOnce'
    BY <1>1, <1>4, <1>a DEF UploadInv, AnswerOnce
  <2>3. RejectedLeavesNothing'
    BY <1>1, <1>4 DEF UploadInv, RejectedLeavesNothing
  <2>4. QED BY <2>1, <2>2, <2>3
<1>6. PeakBounded' /\ ParsedBounded' /\ ParsedWithinReceived'
  BY <1>1 DEF UploadInv, TypeOK, PeakBounded, ParsedBounded, ParsedWithinReceived
<1>7. CountersOK' /\ RepliesOK' /\ BudgetOK'
  BY <1>1, <1>2, <1>3, <1>4, Limits
     DEF UploadInv, TypeOK, CountersOK, RepliesOK, BudgetOK, Closing, Reading
<1>8. QED BY <1>1, <1>5, <1>6, <1>7 DEF UploadInv, Closing

LEMMA DisconnectKeeps == ASSUME UploadInv, Disconnect PROVE UploadInv'
<1>1. /\ req' = req /\ MaxRequest \in Nat /\ Ceiling' = Ceiling
      /\ Len(req.assets) \in Nat
  BY Limits, RequestFields
     DEF UploadInv, TypeOK, Ceiling, IsShareBody, Disconnect, Goto, channel, reading,
         reply
<1>2. TypeOK' /\ ParsedWithinReceived'
  BY <1>1
     DEF UploadInv, TypeOK, ParsedWithinReceived, Stages, Statuses, Disconnect, Goto,
         channel, reading, reply
<1>3. PeakBounded' /\ ParsedBounded' /\ AnswerOnce'
  BY <1>1, Limits
     DEF UploadInv, TypeOK, PeakBounded, ParsedBounded, AnswerOnce, RepliesOK, BudgetOK,
         CountersOK, Closing, Disconnect, Goto, channel, reading, reply
<1>4. RejectedLeavesNothing' /\ (stored' => stage' \in Closing)
  BY <1>1
     DEF UploadInv, TypeOK, RejectedLeavesNothing, AnswerOnce, CountersOK, RepliesOK,
         Reading, Closing, Disconnect, Goto, channel, reading, reply
<1>5. CountersOK' /\ RepliesOK'
  BY <1>1
     DEF UploadInv, TypeOK, AnswerOnce, CountersOK, RepliesOK, Reading, Closing,
         Disconnect, Goto, channel, reading, reply
<1>6. BudgetOK'
  BY <1>1, Limits
     DEF UploadInv, TypeOK, BudgetOK, Closing, Disconnect, Goto, channel, reading, reply
<1>7. QED BY <1>2, <1>3, <1>4, <1>5, <1>6 DEF UploadInv

\* A message is counted before anything is done with it.
LEMMA ReceiveKeeps == ASSUME UploadInv, NEW n \in 0..MaxMessage, Receive(n) PROVE UploadInv'
<1>1. /\ req' = req /\ Ceiling' = Ceiling /\ Ceiling \in Nat /\ n \in Nat
      /\ UNCHANGED <<pulled, part, remaining, started, answers, stored>>
      /\ stage = "body" /\ answers = <<>> /\ ~started /\ ~stored /\ ~exceeded
      /\ part = 0 /\ pulled = 0 /\ remaining = MaxAssetBytes
  BY Limits DEF Receive, reading, reply, Ceiling, IsShareBody, UploadInv, RepliesOK,
                CountersOK, BudgetOK, Closing, Reading
<1>2. /\ unsent' \in Nat /\ received' \in Nat /\ received' + unsent' = req.body
      /\ received' <= Ceiling + MaxMessage
  <2>1. /\ unsent \in Nat /\ received \in Nat /\ received + unsent = req.body
        /\ received <= Ceiling /\ req.body \in Nat
    BY <1>1, RequestFields DEF UploadInv, TypeOK, CountersOK
  <2>2. n <= unsent /\ unsent' = unsent - n /\ received' = received + n /\ n <= MaxMessage
    BY DEF Receive
  <2>3. QED BY <1>1, <2>1, <2>2, Limits
<1>3. \/ /\ received' > Ceiling /\ exceeded' = TRUE /\ parsed' = parsed
         /\ stage' \in {"answer", "returned"}
      \/ /\ received' <= Ceiling /\ exceeded' = exceeded /\ parsed' = parsed + n
         /\ stage' \in {"body", "dependencies", "handler"}
         /\ stage' # "body" => unsent' = 0
  BY <1>1, <1>2 DEF Receive, Goto, Reject, AfterBody
<1>4. /\ parsed' \in Nat /\ parsed' <= Ceiling /\ parsed' <= received'
      /\ exceeded' \in BOOLEAN /\ outcome' \in Statuses
  <2>1. /\ parsed <= received /\ parsed \in Nat /\ received \in Nat /\ parsed <= Ceiling
        /\ outcome \in Statuses /\ exceeded \in BOOLEAN
    BY DEF UploadInv, ParsedWithinReceived, ParsedBounded, TypeOK
  <2>2. outcome' \in Statuses
    BY <2>1 DEF Receive, Goto, Reject, Statuses
  <2>3. received' = received + n
    BY DEF Receive
  <2>4. n \in Nat /\ Ceiling \in Nat /\ Ceiling' = Ceiling
    BY <1>1
  <2>5. CASE exceeded' = TRUE /\ parsed' = parsed
    BY <2>1, <2>2, <2>3, <2>4, <2>5
  <2>6. CASE received' <= Ceiling /\ exceeded' = exceeded /\ parsed' = parsed + n
    BY <2>1, <2>2, <2>3, <2>4, <2>6
  <2>7. QED BY <1>3, <2>5, <2>6
<1>5. TypeOK' /\ ParsedWithinReceived'
  <2>1. /\ req \in RequestType /\ pulled \in Nat /\ part \in Nat /\ remaining \in Nat
        /\ started \in BOOLEAN /\ stored \in BOOLEAN /\ answers \in Seq(Statuses)
    BY DEF UploadInv, TypeOK
  <2>2. stage' \in Stages
    BY <1>3 DEF Stages
  <2>3. QED BY <1>1, <1>2, <1>4, <2>1, <2>2 DEF TypeOK, ParsedWithinReceived
<1>6. PeakBounded' /\ ParsedBounded' /\ AnswerOnce' /\ RejectedLeavesNothing'
  BY <1>1, <1>2, <1>4, Limits
     DEF UploadInv, PeakBounded, ParsedBounded, AnswerOnce, RejectedLeavesNothing
<1>7. CountersOK' /\ RepliesOK' /\ BudgetOK'
  BY <1>1, <1>2, <1>3, Limits
     DEF UploadInv, CountersOK, RepliesOK, BudgetOK, Closing, Reading
<1>8. QED BY <1>1, <1>5, <1>6, <1>7 DEF UploadInv

LEMMA ReadContentKeeps == ASSUME UploadInv, ReadContent PROVE UploadInv'
<1> DEFINE chunk == Chunk(MaxContent, req.content)
<1>1. /\ UNCHANGED <<req, unsent, received, parsed, exceeded, part, remaining, started,
                     answers, stored>>
      /\ Ceiling' = Ceiling /\ stage = "content" /\ answers = <<>> /\ ~started /\ ~stored
      /\ part = 0 /\ remaining = MaxAssetBytes /\ unsent = 0 /\ ~exceeded /\ req.authorized
      /\ pulled <= MaxContent /\ pulled <= req.content
  BY
     DEF ReadContent, channel, reply, Ceiling, IsShareBody, UploadInv, RepliesOK,
         CountersOK,
         BudgetOK, Closing, Reading
<1>2. req.content \in Nat /\ pulled \in Nat
  BY RequestFields DEF UploadInv, TypeOK
<1>3. /\ chunk \in Nat /\ pulled + chunk <= MaxContent + 1
      /\ pulled + chunk <= req.content
  BY <1>1, <1>2, Limits, ChunkBounded
<1>4. /\ outcome' \in Statuses /\ pulled' \in Nat /\ pulled' <= MaxContent + 1
      /\ stage' \in {"content", "count", "answer"}
      /\ stage' = "content" => pulled' <= MaxContent /\ pulled' <= req.content
      /\ stage' = "count" => pulled' = 0
  <2>1. outcome \in Statuses
    BY DEF UploadInv, TypeOK
  <2>2. CASE chunk = 0
    BY <1>1, <2>1, <2>2, Limits DEF ReadContent, Goto, Reject, Statuses
  <2>3. CASE chunk # 0
    <3>1. /\ pulled' = pulled + chunk
          /\ IF pulled' > MaxContent THEN Reject(413) ELSE Goto("content")
      BY <2>3 DEF ReadContent
    <3>2. pulled' \in Nat /\ pulled' <= MaxContent + 1 /\ pulled' <= req.content
      BY <1>2, <1>3, <3>1, Limits
    <3>3. CASE pulled' > MaxContent
      BY <2>1, <3>1, <3>2, <3>3 DEF Reject, Statuses
    <3>4. CASE ~(pulled' > MaxContent)
      BY <2>1, <3>1, <3>2, <3>4, Limits DEF Goto
    <3>5. QED BY <3>3, <3>4
  <2>4. QED BY <2>2, <2>3
<1>5. TypeOK' /\ ParsedWithinReceived'
  BY <1>1, <1>4 DEF UploadInv, TypeOK, ParsedWithinReceived, Stages
<1>6. PeakBounded' /\ ParsedBounded' /\ AnswerOnce' /\ RejectedLeavesNothing'
  BY <1>1, <1>4 DEF UploadInv, PeakBounded, ParsedBounded, AnswerOnce, RejectedLeavesNothing
<1>7. CountersOK' /\ RepliesOK' /\ BudgetOK'
  BY <1>1, <1>4 DEF UploadInv, CountersOK, RepliesOK, BudgetOK, Closing, Reading
<1>8. QED BY <1>1, <1>5, <1>6, <1>7 DEF UploadInv

\* What a part may still hold and what the earlier ones hold add up to the limit.
LEMMA PeakWithin ==
  ASSUME NEW m \in Nat, NEW p \in Nat, NEW r \in Nat, p <= r + 1
  PROVE  (m - r) + p <= m + 1
OBVIOUS

LEMMA ReadAssetKeeps == ASSUME UploadInv, ReadAsset PROVE UploadInv'
<1> DEFINE size == req.assets[part].size
           chunk == Chunk(remaining, size)
<1>1. /\ UNCHANGED <<req, unsent, received, parsed, exceeded, started, answers, stored>>
      /\ Ceiling' = Ceiling /\ stage = "assets" /\ answers = <<>> /\ ~started /\ ~stored
      /\ part # 0 /\ part <= Len(req.assets) /\ remaining <= MaxAssetBytes
      /\ unsent = 0 /\ ~exceeded /\ req.authorized
      /\ pulled <= remaining /\ pulled <= size
  BY DEF ReadAsset, channel, reply, Ceiling, IsShareBody, UploadInv, RepliesOK, CountersOK,
         BudgetOK, Closing, Reading
<1>2. /\ Len(req.assets) \in Nat /\ pulled \in Nat /\ part \in Nat /\ remaining \in Nat
      /\ \A i \in 1..Len(req.assets) : req.assets[i].size \in Nat
  BY RequestFields DEF UploadInv, TypeOK
<1>3. size \in Nat
  BY <1>1, <1>2
<1>4. /\ chunk \in Nat /\ pulled + chunk <= remaining + 1 /\ pulled + chunk <= size
  BY <1>1, <1>2, <1>3, ChunkBounded
<1>5. /\ outcome' \in Statuses /\ pulled' \in Nat /\ part' \in Nat /\ part' # 0
      /\ remaining' \in Nat /\ remaining' <= MaxAssetBytes /\ pulled' <= remaining' + 1
      /\ stage' \in {"assets", "names", "answer"}
      /\ stage' = "names" => pulled' = 0
      /\ stage' = "assets" => /\ pulled' <= remaining' /\ part' <= Len(req.assets)
                              /\ pulled' <= req.assets[part'].size
  <2>1. outcome' \in Statuses
    <3>1. outcome \in Statuses
      BY DEF UploadInv, TypeOK
    <3>2. outcome' \in {outcome, 413}
      BY DEF ReadAsset, Goto, Reject
    <3>3. QED BY <3>1, <3>2 DEF Statuses
  <2>2. CASE chunk = 0
    <3>1. /\ remaining' = remaining - pulled /\ pulled' = 0 /\ part' = part + 1
          /\ stage' = IF part < Len(req.assets) THEN "assets" ELSE "names"
      BY <2>2 DEF ReadAsset, Goto
    <3>2. stage' = "assets" => part' \in 1..Len(req.assets)
      BY <1>1, <1>2, <3>1
    <3>3. QED BY <1>1, <1>2, <2>1, <3>1, <3>2, Limits
  <2>3. CASE chunk # 0
    <3>1. /\ pulled' = pulled + chunk /\ part' = part /\ remaining' = remaining
          /\ stage' = IF pulled' > remaining THEN "answer" ELSE "assets"
      BY <2>3 DEF ReadAsset, Goto, Reject
    <3>2. QED BY <1>1, <1>2, <1>3, <1>4, <2>1, <3>1, Limits
  <2>4. QED BY <2>2, <2>3
<1>6. TypeOK' /\ ParsedWithinReceived'
  BY <1>1, <1>5 DEF UploadInv, TypeOK, ParsedWithinReceived, Stages
<1>7. PeakBounded' /\ ParsedBounded' /\ AnswerOnce' /\ RejectedLeavesNothing'
  <2>1. part' # 0
    BY <1>1, <1>5 DEF UploadInv, TypeOK, BudgetOK
  <2>2. (MaxAssetBytes - remaining') + pulled' <= MaxAssetBytes + 1
    <3>1. /\ MaxAssetBytes \in Nat /\ pulled' \in Nat /\ remaining' \in Nat
          /\ pulled' <= remaining' + 1
      BY <1>5, Limits
    <3>2. QED BY <3>1, PeakWithin
  <2>3. PeakBounded'
    BY <2>1, <2>2 DEF PeakBounded
  <2>4. QED BY <1>1, <2>3 DEF UploadInv, ParsedBounded, AnswerOnce, RejectedLeavesNothing
<1>8. CountersOK' /\ RepliesOK' /\ BudgetOK'
  BY <1>1, <1>2, <1>5 DEF UploadInv, CountersOK, RepliesOK, BudgetOK, Closing, Reading
<1>9. QED BY <1>1, <1>6, <1>7, <1>8 DEF UploadInv

LEMMA UploadStep == UploadInv /\ [Next]_vars => UploadInv'
<1> SUFFICES ASSUME UploadInv, [Next]_vars PROVE UploadInv'
  OBVIOUS
<1>1. CASE Gate BY <1>1, GateKeeps
<1>2. CASE Session BY <1>2, SessionKeeps
<1>3. CASE Dependencies BY <1>3, DependenciesKeeps
<1>4. CASE Fields BY <1>4, FieldsKeeps
<1>5. CASE ReadContent BY <1>5, ReadContentKeeps
<1>6. CASE CountAssets BY <1>6, CountAssetsKeeps
<1>7. CASE ReadAsset BY <1>7, ReadAssetKeeps
<1>8. CASE ValidateAssets BY <1>8, ValidateAssetsKeeps
<1>9. CASE Create BY <1>9, CreateKeeps
<1>10. CASE Handler BY <1>10, HandlerKeeps
<1>11. CASE Answer BY <1>11, AnswerKeeps
<1>12. CASE Returned BY <1>12, ReturnedKeeps
<1>13. CASE Disconnect BY <1>13, DisconnectKeeps
<1>14. ASSUME NEW n \in 0..MaxMessage, Receive(n) PROVE UploadInv'
  BY <1>14, ReceiveKeeps
<1>15. CASE UNCHANGED vars
  <2>1. UNCHANGED Ceiling
    BY <1>15 DEF vars, Ceiling, IsShareBody
  <2>2. QED
    BY <1>15, <2>1 DEF vars, UploadInv, TypeOK, PeakBounded, ParsedBounded, AnswerOnce,
       RejectedLeavesNothing, ParsedWithinReceived, CountersOK, RepliesOK, BudgetOK
<1>16. 0 \in 0..MaxMessage /\ 1..MaxMessage \subseteq 0..MaxMessage
  BY Limits
<1>17. QED
  BY <1>1, <1>2, <1>3, <1>4, <1>5, <1>6, <1>7, <1>8, <1>9, <1>10, <1>11, <1>12, <1>13,
     <1>14, <1>15, <1>16 DEF Next, Server, Done

\* The inductive invariant: what was counted, parsed, read and answered, stage by stage
\* (middleware.py:83-131, dependencies.py:74-110, routers/api.py:49-158).
THEOREM UploadInvariant == Spec => []UploadInv
<1>1. QED BY UploadInit, UploadStep, PTL DEF Spec

\* Every variable keeps its type, and no byte of the client's is lost count of.
THEOREM UploadTypeOK == Spec => []TypeOK
<1>1. UploadInv => TypeOK
  BY DEF UploadInv
<1>2. QED BY <1>1, UploadInvariant, PTL

\* read_bounded and the shared budget of _collect_assets: whatever the client
\* sends and declares, no more than one byte past a limit is ever held.
THEOREM PeakIsBounded == Spec => []PeakBounded
<1>1. UploadInv => PeakBounded
  BY DEF UploadInv
<1>2. QED BY <1>1, UploadInvariant, PTL

\* MaxBodySizeMiddleware: the parser never sees a byte past the ceiling.
THEOREM ParsedIsBounded == Spec => []ParsedBounded
<1>1. UploadInv => ParsedBounded
  BY DEF UploadInv
<1>2. QED BY <1>1, UploadInvariant, PTL

\* Both together: what is held of one request stays bounded for all limits.
THEOREM HeldIsBounded == Spec => []HeldBounded
<1>1. PeakBounded /\ ParsedBounded => HeldBounded
  BY DEF HeldBounded
<1>2. QED BY <1>1, PeakIsBounded, ParsedIsBounded, PTL

\* MaxBodySizeMiddleware: never two answers, and 413 for a body that was cut off.
THEOREM AnsweredOnce == Spec => []AnswerOnce
<1>1. UploadInv => AnswerOnce
  BY DEF UploadInv
<1>2. QED BY <1>1, UploadInvariant, PTL

\* publish_artifact: what is stored was authorized, arrived whole and is answered 201.
THEOREM RejectionLeavesNothing == Spec => []RejectedLeavesNothing
<1>1. UploadInv => RejectedLeavesNothing
  BY DEF UploadInv
<1>2. QED BY <1>1, UploadInvariant, PTL

(***************************************************************************)
(* The answer is the one the settings call for.  It rests on the sum of    *)
(* the attached files, a recursive function: that there is such a function *)
(* is shown by induction, from the well-foundedness of the natural numbers.*)
(***************************************************************************)
LEMMA LeastElement ==
  ASSUME NEW S \in SUBSET Nat, S # {}
  PROVE  \E n \in S : \A m \in S : n <= m
<1> DEFINE R == {p \in Nat \X Nat : p[1] < p[2]}
<1>1. IsWellFoundedOn(R, Nat)
  BY NatLessThanWellFounded DEF OpToRel
<1>2. PICK n \in S : \A m \in S : <<m, n>> \notin R
  <2> HIDE DEF R
  <2>1. QED BY <1>1, WFMin
<1>3. \A m \in S : ~(m < n)
  BY <1>2
<1>4. QED BY <1>3

LEMMA SetInduction ==
  ASSUME NEW S, 0 \in S, \A n \in Nat : n \in S => n + 1 \in S
  PROVE  Nat \subseteq S
<1> SUFFICES ASSUME ~(Nat \subseteq S) PROVE FALSE
  OBVIOUS
<1> DEFINE T == Nat \ S
<1>1. PICK n \in T : \A m \in T : n <= m
  <2>1. T # {} /\ T \in SUBSET Nat
    OBVIOUS
  <2> HIDE DEF T
  <2>2. QED BY <2>1, LeastElement
<1>2. n # 0 /\ n - 1 \in Nat
  OBVIOUS
<1>3. n - 1 \in S
  BY <1>1, <1>2
<1>4. n - 1 + 1 \in S
  BY <1>2, <1>3
<1>5. QED BY <1>4

\* The running sum of the sizes of a list of files.
SumsUp(f, files, n) ==
  /\ f \in [0..n -> Nat] /\ f[0] = 0
  /\ \A i \in 1..n : f[i] = f[i - 1] + files[i].size

LEMMA SumsExist ==
  ASSUME NEW files \in Seq([name : Names, size : Nat])
  PROVE  \E f : SumsUp(f, files, Len(files))
<1> DEFINE S == {n \in Nat : n <= Len(files) => \E f : SumsUp(f, files, n)}
<1>0. /\ Len(files) \in Nat
      /\ \A i \in 1..Len(files) : files[i].size \in Nat
  <2>1. \A i \in 1..Len(files) : files[i] \in [name : Names, size : Nat]
    BY ElementOfSeq
  <2>2. QED BY <2>1
<1>1. 0 \in S
  <2>1. SumsUp([i \in 0..0 |-> 0], files, 0)
    BY DEF SumsUp
  <2>2. QED BY <2>1
<1>2. ASSUME NEW n \in Nat, n \in S PROVE n + 1 \in S
  <2> SUFFICES ASSUME n + 1 <= Len(files) PROVE \E f : SumsUp(f, files, n + 1)
    OBVIOUS
  <2>1. PICK f : SumsUp(f, files, n)
    BY <1>0, <1>2
  <2> DEFINE g == [i \in 0..(n + 1) |-> IF i <= n THEN f[i] ELSE f[n] + files[n + 1].size]
  <2>2. files[n + 1].size \in Nat /\ f[n] \in Nat
    BY <1>0, <2>1 DEF SumsUp
  <2>3. g \in [0..(n + 1) -> Nat]
    BY <2>1, <2>2 DEF SumsUp
  <2>4. g[0] = 0
    BY <2>1 DEF SumsUp
  <2>5. ASSUME NEW i \in 1..(n + 1) PROVE g[i] = g[i - 1] + files[i].size
    <3>1. CASE i <= n
      BY <2>1, <3>1 DEF SumsUp
    <3>2. CASE i = n + 1
      <4>1. ~(i <= n) /\ i - 1 = n /\ n \in 0..(n + 1) /\ i \in 0..(n + 1) /\ n <= n
        BY <3>2
      <4>2. g[i] = f[n] + files[n + 1].size
        BY <4>1
      <4>3. g[n] = f[n]
        BY <4>1
      <4>4. QED BY <3>2, <4>1, <4>2, <4>3
    <3>3. QED BY <3>1, <3>2
  <2> HIDE DEF g
  <2>6. SumsUp(g, files, n + 1)
    BY <2>3, <2>4, <2>5 DEF SumsUp
  <2>7. QED BY <2>6
<1> HIDE DEF S
<1>3. Len(files) \in S
  BY <1>0, <1>1, <1>2, SetInduction
<1>4. QED BY <1>3 DEF S

\* BytesUpTo is that sum.
LEMMA BytesAddUp ==
  ASSUME NEW files \in Seq([name : Names, size : Nat])
  PROVE  SumsUp(BytesUpTo(files), files, Len(files))
<1> DEFINE n == Len(files)
           F(f) == [i \in 0..n |-> IF i = 0 THEN 0 ELSE f[i - 1] + files[i].size]
<1>1. PICK f : SumsUp(f, files, n)
  BY SumsExist
<1>2. n \in Nat
  OBVIOUS
<1>3. f = F(f)
  BY <1>1, <1>2 DEF SumsUp
<1>4. BytesUpTo(files) = CHOOSE g : g = F(g)
  BY DEF BytesUpTo
<1>5. PICK g : g = BytesUpTo(files) /\ g = F(g)
  BY <1>3, <1>4
<1>6. DOMAIN g = 0..n /\ g[0] = 0 /\ \A i \in 1..n : g[i] = g[i - 1] + files[i].size
  BY <1>2, <1>5
<1> DEFINE S == {i \in Nat : i <= n => g[i] \in Nat}
<1>7. Nat \subseteq S
  <2>1. 0 \in S
    BY <1>6
  <2>2. ASSUME NEW i \in Nat, i \in S PROVE i + 1 \in S
    <3> SUFFICES ASSUME i + 1 <= n PROVE g[i + 1] \in Nat
      OBVIOUS
    <3>1. files[i + 1].size \in Nat
      <4>1. i + 1 \in 1..Len(files)
        BY <1>2
      <4>2. files[i + 1] \in [name : Names, size : Nat]
        BY <4>1, ElementOfSeq
      <4>3. QED BY <4>2
    <3>2. g[i] \in Nat /\ g[i + 1] = g[i] + files[i + 1].size
      BY <1>2, <1>6, <2>2
    <3>3. QED BY <3>1, <3>2
  <2> HIDE DEF S
  <2>3. QED BY <2>1, <2>2, SetInduction
<1>8. \A i \in 0..n : g[i] \in Nat
  BY <1>2, <1>7
<1>9. g \in [0..n -> Nat]
  BY <1>5, <1>8
<1>10. QED BY <1>5, <1>6, <1>9 DEF SumsUp

\* Files only add to the sum.
LEMMA SumsGrow ==
  ASSUME NEW files, NEW n \in Nat, NEW f, SumsUp(f, files, n),
         \A i \in 1..n : files[i].size \in Nat, NEW i \in 0..n
  PROVE  f[i] <= f[n]
<1> DEFINE S == {d \in Nat : i + d <= n => f[i] <= f[i + d]}
<1>1. 0 \in S
  BY DEF SumsUp
<1>2. ASSUME NEW d \in Nat, d \in S PROVE d + 1 \in S
  <2> SUFFICES ASSUME i + (d + 1) <= n PROVE f[i] <= f[i + (d + 1)]
    OBVIOUS
  <2>1. /\ i + (d + 1) \in 1..n /\ (i + (d + 1)) - 1 = i + d
        /\ f[i + (d + 1)] = f[i + d] + files[i + (d + 1)].size
    <3>1. i + (d + 1) \in 1..n /\ (i + (d + 1)) - 1 = i + d
      OBVIOUS
    <3>2. f[i + (d + 1)] = f[(i + (d + 1)) - 1] + files[i + (d + 1)].size
      BY <3>1 DEF SumsUp
    <3>3. QED BY <3>1, <3>2
  <2>2. f[i] <= f[i + d] /\ f[i] \in Nat /\ f[i + d] \in Nat /\ files[i + (d + 1)].size \in Nat
    BY <1>2, <2>1 DEF SumsUp
  <2>3. QED BY <2>1, <2>2
<1>3. Nat \subseteq S
  <2> HIDE DEF S
  <2>1. QED BY <1>1, <1>2, SetInduction
<1>4. n - i \in S
  BY <1>3
<1>5. QED BY <1>4

\* What a part adds, and that no later part takes it away.
LEMMA AssetSums ==
  ASSUME req \in RequestType
  PROVE  /\ AssetBytes(req) \in Nat
         /\ BytesUpTo(req.assets)[0] = 0
         /\ \A i \in 1..Len(req.assets) :
              /\ BytesUpTo(req.assets)[i - 1] \in Nat /\ BytesUpTo(req.assets)[i] \in Nat
              /\ BytesUpTo(req.assets)[i] = BytesUpTo(req.assets)[i - 1] + req.assets[i].size
              /\ BytesUpTo(req.assets)[i] <= AssetBytes(req)
<1>1. PICK f : f = BytesUpTo(req.assets)
  OBVIOUS
<1>2. /\ Len(req.assets) \in Nat
      /\ \A i \in 1..Len(req.assets) : req.assets[i].size \in Nat
  BY RequestFields
<1>3. SumsUp(f, req.assets, Len(req.assets))
  BY <1>1, RequestFields, BytesAddUp
<1>4. \A i \in 0..Len(req.assets) : f[i] <= f[Len(req.assets)]
  BY <1>2, <1>3, SumsGrow
<1>5. AssetBytes(req) = f[Len(req.assets)]
  BY <1>1 DEF AssetBytes
<1>6. ASSUME NEW i \in 1..Len(req.assets)
      PROVE  /\ f[i - 1] \in Nat /\ f[i] \in Nat
             /\ f[i] = f[i - 1] + req.assets[i].size
             /\ f[i] <= f[Len(req.assets)]
  <2>1. i \in 0..Len(req.assets) /\ i - 1 \in 0..Len(req.assets)
    BY <1>2
  <2>2. QED BY <1>3, <1>4, <2>1 DEF SumsUp
<1>7. f[0] = 0 /\ f[Len(req.assets)] \in Nat
  <2>1. Len(req.assets) \in 0..Len(req.assets)
    BY <1>2
  <2>2. QED BY <1>3, <2>1 DEF SumsUp
<1>8. QED
  <2> HIDE DEF AssetBytes
  <2>1. QED BY <1>1, <1>5, <1>6, <1>7

\* The request, the flag and the answers are as they were: what is left to show
\* of a step is what the new stage relies on, or that its status is justified.
LEMMA HandlingKeeps ==
  ASSUME VerdictsInv, UNCHANGED <<req, exceeded, answers>>, CheckedOK',
         req.route = "publish" /\ stage' = "answer" => Justified(outcome')
  PROVE  VerdictsInv'
<1>1. Ceiling' = Ceiling
  BY DEF Ceiling, IsShareBody
<1>2. \A v : Justified(v) => Justified(v)'
  BY DEF Justified
<1>3. Justified(outcome') => Justified(outcome)'
  BY DEF Justified
<1>4. QED BY <1>1, <1>2, <1>3 DEF VerdictsInv

\* Nothing is read of a publish whose body was too long.
LEMMA BodyFits ==
  ASSUME UploadInv, VerdictsInv, stage \in PublishStages
  PROVE  req.route = "publish" /\ req.body <= MaxRequest /\ req.body \in Nat
<1>1. /\ unsent = 0 /\ ~exceeded /\ received <= Ceiling /\ received + unsent = req.body
      /\ received \in Nat
  BY DEF UploadInv, CountersOK, TypeOK, PublishStages, Reading, Closing
<1>2. req.route = "publish" /\ Ceiling = MaxRequest
  BY DEF VerdictsInv, CheckedOK, Ceiling, IsShareBody
<1>3. QED BY <1>1, <1>2

LEMMA DependenciesJustified ==
  ASSUME UploadInv, VerdictsInv, Dependencies
  PROVE  VerdictsInv'
<1>1. /\ stage = "dependencies" /\ UNCHANGED <<req, exceeded, answers>>
      /\ req.route = "publish" /\ req.body <= MaxRequest
  BY BodyFits DEF Dependencies, channel, reply, PublishStages
<1>2. CASE ~req.authorized
  BY <1>1, <1>2, HandlingKeeps DEF Dependencies, Reject, Justified, CheckedOK, PublishStages,
     Reading
<1>3. CASE Declares(req, MaxRequest) /\ req.authorized
  BY <1>1, <1>3, HandlingKeeps
     DEF Dependencies, Reject, Justified, TooLarge, CheckedOK, PublishStages, Reading
<1>4. CASE req.authorized /\ ~Declares(req, MaxRequest)
  BY <1>1, <1>4, HandlingKeeps DEF Dependencies, Goto, CheckedOK, PublishStages, Reading
<1>5. QED BY <1>2, <1>3, <1>4

\* The checks of the fields are those of a well-formed request.
LEMMA FieldsAreChecked ==
  ASSUME req \in RequestType
  PROVE  WellFormed(req) =>
           /\ TitleOK(req) /\ SummaryOK(req) /\ DaysOK(req)
           /\ req.content > 0 /\ req.utf8 /\ NamesOK(req)
<1>1. /\ req.title \in Nat /\ req.summary \in Nat /\ MaxTitle \in Nat /\ MaxSummary \in Nat
      /\ MaxDays \in Nat /\ DefaultDays \in Nat
  BY UploadAssumption DEF RequestType
<1>2. ASSUME WellFormed(req) PROVE TitleOK(req) /\ SummaryOK(req) /\ DaysOK(req)
  BY <1>1, <1>2 DEF WellFormed, TitleOK, SummaryOK, DaysOK
<1>3. ASSUME WellFormed(req) PROVE NamesOK(req)
  <2>1. Len(req.assets) \in Nat /\ DOMAIN req.assets = 1..Len(req.assets)
    BY RequestFields
  <2>2. ASSUME NEW i \in DOMAIN req.assets, NEW j \in DOMAIN req.assets, j < i
        PROVE  req.assets[i].name # req.assets[j].name
    <3>1. j \in 1..(i - 1)
      BY <2>1, <2>2
    <3>2. QED BY <1>3, <3>1 DEF WellFormed
  <2>3. QED BY <1>3, <2>1, <2>2 DEF WellFormed, NamesOK
<1>4. QED BY <1>2, <1>3 DEF WellFormed

LEMMA ChecksSuffice ==
  ASSUME req \in RequestType, TitleOK(req), SummaryOK(req), DaysOK(req),
         req.content > 0, req.utf8, NamesOK(req)
  PROVE  WellFormed(req)
<1>1. /\ req.title \in Nat /\ req.summary \in Nat /\ MaxTitle \in Nat /\ MaxSummary \in Nat
      /\ MaxDays \in Nat /\ DefaultDays \in Nat /\ NoValue \notin Int
      /\ req.days \in Int \union {NoValue}
  BY UploadAssumption DEF RequestType
<1>2. Days(req) \in 0..MaxDays
  BY <1>1 DEF DaysOK, Days
<1>3. Len(req.assets) \in Nat /\ DOMAIN req.assets = 1..Len(req.assets)
  BY RequestFields
<1>4. ASSUME NEW i \in DOMAIN req.assets, NEW j \in 1..(i - 1)
      PROVE  req.assets[i].name # req.assets[j].name
  <2>1. j \in DOMAIN req.assets /\ j # i
    BY <1>3
  <2>2. QED BY <2>1 DEF NamesOK
<1>5. \A i \in DOMAIN req.assets :
        req.assets[i].name \in SafeNames \ {req.assets[j].name : j \in 1..(i - 1)}
  BY <1>4 DEF NamesOK
<1>6. req.title \in 1..MaxTitle /\ req.summary \in 0..MaxSummary
  BY <1>1 DEF TitleOK, SummaryOK
<1>7. QED BY <1>2, <1>5, <1>6 DEF WellFormed

LEMMA FieldsJustified ==
  ASSUME UploadInv, VerdictsInv, Fields
  PROVE  VerdictsInv'
<1>1. /\ stage = "fields" /\ UNCHANGED <<req, exceeded, answers>> /\ req \in RequestType
  BY DEF Fields, channel, reply, UploadInv, TypeOK
<1>2. CASE TitleOK(req) /\ SummaryOK(req) /\ DaysOK(req)
  BY <1>1, <1>2, HandlingKeeps DEF Fields, Goto, CheckedOK, VerdictsInv, PublishStages, Reading
<1>3. CASE ~(TitleOK(req) /\ SummaryOK(req) /\ DaysOK(req))
  <2>1. ~WellFormed(req)
    BY <1>1, <1>3, FieldsAreChecked
  <2>2. QED BY <1>1, <1>3, <2>1, HandlingKeeps
       DEF Fields, Reject, Justified, CheckedOK, PublishStages, Reading
<1>4. QED BY <1>2, <1>3

LEMMA ReadContentJustified ==
  ASSUME UploadInv, VerdictsInv, ReadContent
  PROVE  VerdictsInv'
<1> DEFINE chunk == Chunk(MaxContent, req.content)
<1>1. /\ stage = "content" /\ UNCHANGED <<req, exceeded, answers>> /\ req \in RequestType
      /\ pulled \in Nat /\ pulled <= MaxContent /\ pulled <= req.content /\ req.content \in Nat
  BY RequestFields DEF ReadContent, channel, reply, UploadInv, TypeOK, BudgetOK
<1>2. /\ chunk \in Nat /\ pulled + chunk <= req.content
      /\ chunk = 0 => pulled = req.content
  BY <1>1, Limits, ChunkBounded
<1>3. CASE chunk = 0
  <2>1. req.content <= MaxContent
    BY <1>1, <1>2, <1>3
  <2>2. CASE req.content = 0 \/ ~req.utf8
    <3>1. ~WellFormed(req)
      BY <1>1, <2>2, FieldsAreChecked
    <3>2. QED BY <1>1, <1>3, <2>2, <3>1, HandlingKeeps
         DEF ReadContent, Reject, Justified, CheckedOK, PublishStages, Reading
  <2>3. CASE ~(req.content = 0 \/ ~req.utf8)
    BY <1>1, <1>3, <2>1, <2>3, HandlingKeeps
       DEF ReadContent, Goto, CheckedOK, VerdictsInv, PublishStages, Reading
  <2>4. QED BY <2>2, <2>3
<1>4. CASE chunk # 0
  <2>1. /\ pulled' = pulled + chunk
        /\ IF pulled' > MaxContent THEN Reject(413) ELSE Goto("content")
    BY <1>4 DEF ReadContent
  <2>2. CASE pulled' > MaxContent
    <3>1. req.content > MaxContent
      BY <1>1, <1>2, <2>1, <2>2, Limits
    <3>2. QED BY <1>1, <2>1, <2>2, <3>1, HandlingKeeps
         DEF Reject, Justified, TooLarge, CheckedOK, PublishStages, Reading
  <2>3. CASE ~(pulled' > MaxContent)
    BY <1>1, <2>1, <2>3, HandlingKeeps DEF Goto, CheckedOK, VerdictsInv, PublishStages, Reading
  <2>4. QED BY <2>2, <2>3
<1>5. QED BY <1>3, <1>4

LEMMA CountAssetsJustified ==
  ASSUME UploadInv, VerdictsInv, CountAssets
  PROVE  VerdictsInv'
<1>1. /\ stage = "count" /\ UNCHANGED <<req, exceeded, answers>> /\ req \in RequestType
      /\ part' = 1 /\ remaining' = remaining /\ remaining = MaxAssetBytes
      /\ Len(req.assets) \in Nat
  BY RequestFields DEF CountAssets, channel, reply, UploadInv, TypeOK, BudgetOK, Closing
<1>2. CASE Len(req.assets) > MaxAssets
  BY <1>1, <1>2, HandlingKeeps
     DEF CountAssets, Reject, Justified, TooLarge, CheckedOK, PublishStages, Reading
<1>3. CASE ~(Len(req.assets) > MaxAssets)
  <2>1. Len(req.assets) <= MaxAssets
    BY <1>1, <1>3, Limits
  <2>2. BytesUpTo(req.assets)[0] = 0
    BY <1>1, AssetSums
  <2>3. req.assets = <<>> => AssetBytes(req) = 0
    BY <2>2 DEF AssetBytes
  <2>4. BytesUpTo(req.assets)[1 - 1] = 0 /\ MaxAssetBytes - 0 = MaxAssetBytes
    BY <2>2, Limits
  <2>5. stage' = (IF req.assets = <<>> THEN "names" ELSE "assets")
    BY <1>3 DEF CountAssets, Goto
  <2>6. CheckedOK'
    BY <1>1, <2>1, <2>3, <2>4, <2>5, Limits DEF CheckedOK, VerdictsInv, PublishStages, Reading
  <2>7. QED BY <1>1, <2>5, <2>6, HandlingKeeps
<1>4. QED BY <1>2, <1>3

LEMMA ReadAssetJustified ==
  ASSUME UploadInv, VerdictsInv, ReadAsset
  PROVE  VerdictsInv'
<1> DEFINE size == req.assets[part].size
           before == BytesUpTo(req.assets)[part - 1]
           chunk == Chunk(remaining, size)
<1>1. /\ stage = "assets" /\ UNCHANGED <<req, exceeded, answers>> /\ req \in RequestType
      /\ pulled \in Nat /\ pulled <= remaining /\ pulled <= size
      /\ part \in Nat /\ part # 0 /\ part <= Len(req.assets) /\ remaining \in Nat
  BY DEF ReadAsset, channel, reply, UploadInv, TypeOK, BudgetOK
<1>2. /\ part \in 1..Len(req.assets) /\ Len(req.assets) \in Nat /\ size \in Nat
  BY <1>1, RequestFields
<1>3. /\ before \in Nat /\ BytesUpTo(req.assets)[part] = before + size
      /\ before + size <= AssetBytes(req) /\ AssetBytes(req) \in Nat
  BY <1>1, <1>2, AssetSums
<1>4. remaining = MaxAssetBytes - before
  BY <1>1 DEF VerdictsInv, CheckedOK
<1>5. /\ chunk \in Nat /\ pulled + chunk <= size
      /\ chunk = 0 => pulled = size
  BY <1>1, <1>2, ChunkBounded
<1>6. CASE chunk = 0
  <2>1. /\ remaining' = remaining - pulled /\ part' = part + 1
        /\ stage' = IF part < Len(req.assets) THEN "assets" ELSE "names"
    BY <1>6 DEF ReadAsset, Goto
  <2>2. /\ part' - 1 = part /\ pulled = size
        /\ remaining' = MaxAssetBytes - BytesUpTo(req.assets)[part]
    <3> HIDE DEF size, before, chunk
    <3>1. part' - 1 = part /\ pulled = size
      BY <1>1, <1>5, <1>6, <2>1
    <3>2. remaining' = (MaxAssetBytes - before) - size
      BY <1>4, <2>1, <3>1
    <3>3. QED BY <1>2, <1>3, <3>1, <3>2, Limits
  <2>3. stage' = "names" => AssetBytes(req) <= MaxAssetBytes
    <3>1. before + size <= MaxAssetBytes
      <4> HIDE DEF size, before, chunk
      <4>1. pulled = size /\ pulled <= MaxAssetBytes - before
        BY <1>1, <1>4, <2>2
      <4>2. QED BY <1>2, <1>3, <4>1, Limits
    <3>2. stage' = "names" => part = Len(req.assets)
      BY <1>2, <2>1
    <3>3. part = Len(req.assets) => AssetBytes(req) = before + size
      BY <1>3 DEF AssetBytes
    <3>4. QED BY <3>1, <3>2, <3>3
  <2>4. CheckedOK'
    BY <1>1, <2>1, <2>2, <2>3 DEF CheckedOK, VerdictsInv, PublishStages, Reading
  <2>5. QED BY <1>1, <2>1, <2>4, HandlingKeeps
<1>7. CASE chunk # 0
  <2>1. /\ pulled' = pulled + chunk /\ part' = part /\ remaining' = remaining
        /\ IF pulled' > remaining THEN Reject(413) ELSE Goto("assets")
    BY <1>7 DEF ReadAsset
  <2>2. CASE pulled' > remaining
    <3>1. AssetBytes(req) > MaxAssetBytes
      <4> HIDE DEF size, before, chunk
      <4>1. pulled + chunk > MaxAssetBytes - before
        BY <1>4, <2>1, <2>2
      <4>2. size > MaxAssetBytes - before
        BY <1>1, <1>2, <1>3, <1>5, <4>1, Limits
      <4>3. QED BY <1>2, <1>3, <4>2, Limits
    <3>2. QED BY <1>1, <2>1, <2>2, <3>1, HandlingKeeps
         DEF Reject, Justified, TooLarge, CheckedOK, PublishStages, Reading
  <2>3. CASE ~(pulled' > remaining)
    BY <1>1, <2>1, <2>3, HandlingKeeps DEF Goto, CheckedOK, VerdictsInv, PublishStages, Reading
  <2>4. QED BY <2>2, <2>3
<1>8. QED BY <1>6, <1>7

LEMMA ValidateAssetsJustified ==
  ASSUME UploadInv, VerdictsInv, ValidateAssets
  PROVE  VerdictsInv'
<1>1. /\ stage = "names" /\ UNCHANGED <<req, exceeded, answers>> /\ req \in RequestType
  BY DEF ValidateAssets, channel, reply, UploadInv, TypeOK
<1>2. ~(AssetBytes(req) > MaxAssetBytes)
  BY <1>1, AssetSums, Limits DEF VerdictsInv, CheckedOK
<1>3. CASE NamesOK(req)
  BY <1>1, <1>2, <1>3, HandlingKeeps
     DEF ValidateAssets, Goto, CheckedOK, VerdictsInv, PublishStages, Reading
<1>4. CASE ~NamesOK(req)
  <2>1. ~WellFormed(req)
    BY <1>1, <1>4, FieldsAreChecked
  <2>2. QED BY <1>1, <1>4, <2>1, HandlingKeeps
       DEF ValidateAssets, Reject, Justified, CheckedOK, PublishStages, Reading
<1>5. QED BY <1>3, <1>4

LEMMA CreateJustified ==
  ASSUME UploadInv, VerdictsInv, Create
  PROVE  VerdictsInv'
<1>1. /\ stage = "create" /\ UNCHANGED <<req, exceeded, answers>> /\ req \in RequestType
      /\ req.authorized
  BY DEF Create, channel, reply, UploadInv, TypeOK, CountersOK, Reading
<1>2. /\ req.content <= MaxContent /\ Len(req.assets) <= MaxAssets
      /\ AssetBytes(req) <= MaxAssetBytes /\ req.body <= MaxRequest
      /\ ~Declares(req, MaxRequest)
      /\ TitleOK(req) /\ SummaryOK(req) /\ DaysOK(req)
      /\ req.content > 0 /\ req.utf8 /\ NamesOK(req)
  BY <1>1 DEF VerdictsInv, CheckedOK, Reading
<1>3. ~TooLarge(req)
  BY <1>1, <1>2, RequestFields, AssetSums, Limits DEF TooLarge
<1>4. WellFormed(req)
  BY <1>1, <1>2, ChecksSuffice
<1>5. QED BY <1>1, <1>3, <1>4, HandlingKeeps
     DEF Create, Reject, Justified, CheckedOK, PublishStages, Reading

\* The middleware, around all that.
LEMMA ReceiveJustified ==
  ASSUME UploadInv, VerdictsInv, NEW n \in 0..MaxMessage, Receive(n)
  PROVE  VerdictsInv'
<1>1. /\ stage = "body" /\ req' = req /\ answers' = answers /\ answers = <<>>
      /\ Ceiling' = Ceiling /\ Ceiling \in Nat
  BY Limits DEF Receive, reply, Ceiling, IsShareBody, UploadInv, RepliesOK
<1>2. CASE received' > Ceiling
  <2>1. /\ exceeded' = TRUE
        /\ IF req.route = "create" THEN Goto("returned") ELSE Reject(400)
    BY <1>1, <1>2 DEF Receive
  <2>2. req.body > Ceiling
    <3>1. unsent \in Nat /\ received \in Nat /\ received + unsent = req.body /\ n <= unsent
      BY DEF UploadInv, TypeOK, Receive
    <3>2. QED BY <1>1, <1>2, <3>1 DEF Receive
  <2>3. CheckedOK'
    BY <2>1 DEF Goto, Reject, CheckedOK, PublishStages, Reading
  <2>4. stage' = "answer" => Justified(outcome)'
    BY <2>1 DEF Goto, Reject, Justified
  <2>5. QED BY <1>1, <2>1, <2>2, <2>3, <2>4 DEF VerdictsInv
<1>3. CASE ~(received' > Ceiling)
  <2>1. exceeded' = exceeded /\ stage' \in {"body", AfterBody}
    BY <1>1, <1>3 DEF Receive, Goto
  <2>2. CheckedOK'
    BY <1>1, <2>1 DEF AfterBody, CheckedOK, PublishStages, Reading
  <2>3. QED BY <1>1, <2>1, <2>2, HandlingKeeps DEF AfterBody
<1>4. QED BY <1>2, <1>3

LEMMA OutsideJustified ==
  ASSUME UploadInv, VerdictsInv, Gate \/ Session \/ Disconnect \/ Handler
  PROVE  VerdictsInv'
<1>1. CASE Gate
  <2>1. /\ req' = req /\ exceeded' = exceeded /\ answers = <<>> /\ Ceiling' = Ceiling
        /\ stage' \in {"done", "session", "body"}
        /\ stage' = "session" => req.route = "create"
        /\ answers' = <<>> \/ req.route # "publish"
    BY <1>1 DEF Gate, Goto, channel, Ceiling, IsShareBody, UploadInv, RepliesOK
  <2>2. QED BY <2>1 DEF VerdictsInv, CheckedOK, PublishStages, Reading
<1>2. CASE Session \/ Disconnect \/ Handler
  <2>1. /\ UNCHANGED <<req, exceeded, answers>>
        /\ stage' \in {"body", "answer", "done"}
        /\ stage' = "answer" => req.route # "publish"
    BY <1>2 DEF Session, Disconnect, Handler, Goto, Reject, channel, reply, VerdictsInv, CheckedOK
  <2>2. QED BY <2>1, HandlingKeeps DEF CheckedOK, PublishStages, Reading
<1>3. QED BY <1>1, <1>2

LEMMA RepliesJustified ==
  ASSUME UploadInv, VerdictsInv, Answer \/ Returned
  PROVE  VerdictsInv'
<1>1. /\ UNCHANGED <<req, exceeded>> /\ Ceiling' = Ceiling
      /\ stage' \in {"returned", "done"}
  BY DEF Answer, Returned, Goto, channel, Ceiling, IsShareBody
<1>2. \A v : Justified(v)' <=> Justified(v)
  BY <1>1 DEF Justified
<1>3. PICK v : answers' = answers \/ (answers = <<>> /\ answers' = <<v>>
                                      /\ (req.route = "publish" => Justified(v)))
  <2>1. CASE Answer
    <3>1. answers = <<>> /\ stage = "answer"
      BY <2>1 DEF Answer, UploadInv, RepliesOK
    <3>2. req.route = "publish" => Justified(outcome)
      BY <3>1 DEF VerdictsInv
    <3>3. answers' = answers \/ answers' = <<outcome>>
      BY <2>1, <3>1 DEF Answer, reply
    <3>4. QED BY <3>1, <3>2, <3>3
  <2>2. CASE Returned
    <3>1. CASE exceeded /\ ~started
      <4>1. answers = <<>> /\ answers' = <<413>>
        BY <2>2, <3>1 DEF Returned, UploadInv, RepliesOK
      <4>2. req.route = "publish" => TooLarge(req)
        BY <3>1 DEF VerdictsInv, Ceiling, IsShareBody, TooLarge
      <4>3. QED BY <4>1, <4>2 DEF Justified
    <3>2. CASE ~(exceeded /\ ~started)
      BY <2>2, <3>2 DEF Returned, reply
    <3>3. QED BY <3>1, <3>2
  <2>3. QED BY <2>1, <2>2
<1>4. req.route = "publish" => \A i \in DOMAIN answers' : Justified(answers'[i])
  BY <1>3 DEF VerdictsInv
<1>5. CheckedOK'
  BY <1>1 DEF CheckedOK, PublishStages, Reading
<1>6. QED BY <1>1, <1>2, <1>4, <1>5 DEF VerdictsInv

LEMMA VerdictsStep == UploadInv /\ VerdictsInv /\ [Next]_vars => VerdictsInv'
<1> SUFFICES ASSUME UploadInv, VerdictsInv, [Next]_vars PROVE VerdictsInv'
  OBVIOUS
<1>1. CASE Gate \/ Session \/ Disconnect \/ Handler
  BY <1>1, OutsideJustified
<1>2. CASE Answer \/ Returned
  BY <1>2, RepliesJustified
<1>3. CASE Dependencies \/ Fields \/ ReadContent \/ CountAssets
  BY <1>3, DependenciesJustified, FieldsJustified, ReadContentJustified, CountAssetsJustified
<1>4. CASE ReadAsset \/ ValidateAssets \/ Create
  BY <1>4, ReadAssetJustified, ValidateAssetsJustified, CreateJustified
<1>5. ASSUME NEW n \in 0..MaxMessage, Receive(n) PROVE VerdictsInv'
  BY <1>5, ReceiveJustified
<1>6. CASE UNCHANGED vars
  BY <1>6 DEF vars, VerdictsInv, CheckedOK, Justified, Ceiling, IsShareBody
<1>7. 0 \in 0..MaxMessage /\ 1..MaxMessage \subseteq 0..MaxMessage
  BY Limits
<1>8. QED BY <1>1, <1>2, <1>3, <1>4, <1>5, <1>6, <1>7 DEF Next, Server, Done

\* Middleware, dependencies, bounded reads and validators agree at every
\* boundary, for all limits and all requests: 201 exactly for what the settings
\* allow, 413 only for what is too large and 422 only for what is malformed.
THEOREM AnswersAreExact == Spec => []VerdictsExact
<1>1. Init => VerdictsInv
  <2>1. SUFFICES ASSUME Init PROVE VerdictsInv
    OBVIOUS
  <2>2. stage = "gate" /\ answers = <<>> /\ exceeded = FALSE
    BY <2>1 DEF Init
  <2>3. QED BY <2>2 DEF VerdictsInv, CheckedOK, PublishStages, Reading
<1>2. ASSUME UploadInv, VerdictsInv PROVE VerdictsExact
  <2>1. SUFFICES ASSUME req.route = "publish", answers # <<>>
                 PROVE  /\ answers = <<201>> <=>
                             req.authorized /\ ~TooLarge(req) /\ WellFormed(req)
                        /\ answers = <<413>> => TooLarge(req)
                        /\ answers = <<422>> => ~WellFormed(req)
    BY DEF VerdictsExact
  <2>2. PICK v : answers = <<v>> /\ Justified(v)
    <3>1. answers \in Seq(Statuses) /\ Len(answers) = 1
      <4>1. answers \in Seq(Statuses) /\ Len(answers) <= 1
        BY <1>2 DEF UploadInv, TypeOK, AnswerOnce
      <4>2. Len(answers) \in Nat /\ Len(answers) # 0
        BY <2>1, <4>1, EmptySeq
      <4>3. \A n \in Nat : n <= 1 /\ n # 0 => n = 1
        OBVIOUS
      <4>4. Len(answers) = 1
        BY <4>1, <4>2, <4>3, Zenon
      <4>5. QED BY <4>1, <4>4
    <3>2. 1 \in DOMAIN answers /\ answers = <<answers[1]>>
      BY <3>1
    <3>3. QED BY <1>2, <2>1, <3>2 DEF VerdictsInv
  <2>3. v = 400 => FALSE
    BY <1>2, <2>2 DEF UploadInv, AnswerOnce, Justified
  <2>4. QED BY <2>2, <2>3 DEF Justified
<1>3. QED BY <1>1, <1>2, UploadInvariant, VerdictsStep, PTL DEF Spec

=============================================================================
