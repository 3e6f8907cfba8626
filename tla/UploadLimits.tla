---------------------------- MODULE UploadLimits ----------------------------
(***************************************************************************)
(* One upload on its way through the service: the body-size middleware on  *)
(* the ASGI receive channel (middleware.py), the framework that parses the *)
(* form, the route's dependencies (dependencies.py), the checks and the    *)
(* bounded reads of publish_artifact (validation.py, routers/api.py), and  *)
(* the answer on its way back out through the same middleware.             *)
(*                                                                         *)
(* Sizes are numbers of bytes or characters; a file name is a model value; *)
(* what a share route does with an admitted body is in ShareAccess.  Each  *)
(* request has its own counters, so one request is the whole system here.  *)
(***************************************************************************)
EXTENDS Integers, Sequences

CONSTANTS
  Requests,       \* the requests a client may make (see RequestType)
  Names,          \* names of attached files, already stripped
  SafeNames,      \* those that is_safe_asset_name accepts
  NoValue,        \* an absent header or form field
  MaxTitle, MaxSummary, DefaultDays, MaxDays,   \* settings, in characters and days
  MaxContent, MaxAssetBytes, MaxAssets,         \* settings, in bytes and files
  EnvelopeRoom,   \* 64 KiB of part headers
  ShareFormMax,   \* SHARE_FORM_MAX_BYTES
  ReadChunk,      \* READ_CHUNK_BYTES
  MaxMessage      \* the most bytes one message of the receive channel carries

RequestType ==
  [route: {"publish", "redeem", "create"}, authorized: BOOLEAN,
   declared: Nat \union {NoValue}, body: Nat,
   title: Nat, summary: Nat, days: Int \union {NoValue},
   content: Nat, utf8: BOOLEAN, assets: Seq([name: Names, size: Nat])]

ASSUME UploadAssumption ==
  /\ Requests \subseteq RequestType
  /\ SafeNames \subseteq Names
  /\ NoValue \notin Int
  /\ {MaxTitle, MaxSummary, DefaultDays, MaxDays, MaxContent, MaxAssetBytes,
      MaxAssets, EnvelopeRoom, ShareFormMax} \subseteq Nat
  /\ {ReadChunk, MaxMessage} \subseteq Nat \ {0}

VARIABLES
  req,        \* the request
  stage,      \* where its handling is
  unsent,     \* bytes the client has still to send
  received,   \* the middleware's count of bytes that arrived
  parsed,     \* bytes the middleware let through to the form parser
  exceeded,   \* the middleware's flag
  started,    \* the middleware's response_started
  outcome,    \* the status the application decided on
  answers,    \* the statuses that reached the client
  pulled,     \* `total` of the read_bounded call in progress
  part,       \* the attached file being read, 0 while the content is
  remaining,  \* what is left of max_asset_bytes
  stored      \* whether store.create was called

vars == <<req, stage, unsent, received, parsed, exceeded, started, outcome,
          answers, pulled, part, remaining, stored>>
channel == <<unsent, received, parsed, exceeded>>
reading == <<pulled, part, remaining>>
reply == <<started, answers>>

Stages == {"gate", "body", "session", "dependencies", "fields", "content", "count",
           "assets", "names", "create", "handler", "answer", "returned", "done"}
Statuses == {200, 201, 400, 401, 403, 413, 422}

MaxRequest == MaxContent + MaxAssetBytes + EnvelopeRoom
IsShareBody(q) == q.route \in {"redeem", "create"}
Ceiling == IF IsShareBody(req) THEN ShareFormMax ELSE MaxRequest
Declares(q, limit) == q.declared \in Nat /\ q.declared > limit

\* The bytes of the first i files, for each i.
BytesUpTo(files) ==
  LET upTo[i \in 0..Len(files)] == IF i = 0 THEN 0 ELSE upTo[i - 1] + files[i].size
  IN  upTo
AssetBytes(q) == BytesUpTo(q.assets)[Len(q.assets)]

-----------------------------------------------------------------------------
Init ==
  /\ req \in Requests
  /\ stage = "gate"
  /\ unsent = req.body /\ received = 0 /\ parsed = 0
  /\ exceeded = FALSE /\ started = FALSE
  /\ outcome = 200 /\ answers = <<>>
  /\ pulled = 0 /\ part = 0 /\ remaining = MaxAssetBytes
  /\ stored = FALSE

Goto(next) == stage' = next /\ UNCHANGED outcome
Reject(status) == stage' = "answer" /\ outcome' = status

(* MaxBodySizeMiddleware.__call__ before the application runs: the two small *)
(* share forms are refused on their declared length, nothing else is.        *)
Gate ==
  /\ stage = "gate"
  /\ IF IsShareBody(req) /\ Declares(req, ShareFormMax)
     THEN answers' = <<413>> /\ Goto("done")
     ELSE /\ Goto(IF req.route = "create" THEN "session" ELSE "body")
          /\ UNCHANGED answers
  /\ UNCHANGED <<req, channel, reading, started, stored>>

(* create_share_link looks at the session before it asks for the form. *)
Session ==
  /\ stage = "session"
  /\ IF req.authorized THEN Goto("body") ELSE Reject(403)
  /\ UNCHANGED <<req, channel, reading, reply, stored>>

(* The framework parses a declared form or body before it resolves the     *)
(* dependencies of the route.                                              *)
AfterBody == IF req.route = "publish" THEN "dependencies" ELSE "handler"

(* One message of the body: bounded_receive counts it and either hands it    *)
(* on or raises.  What the framework makes of the exception is a 400; raised *)
(* under create_share_link's own request.form() it goes straight to the      *)
(* middleware.                                                               *)
Receive(n) ==
  /\ stage = "body"
  /\ n <= unsent /\ (n = 0 => unsent = 0)
  /\ unsent' = unsent - n
  /\ received' = received + n
  /\ IF received' > Ceiling
     THEN /\ exceeded' = TRUE
          /\ IF req.route = "create" THEN Goto("returned") ELSE Reject(400)
          /\ UNCHANGED parsed
     ELSE /\ parsed' = parsed + n
          /\ Goto(IF unsent' = 0 THEN AfterBody ELSE "body")
          /\ UNCHANGED exceeded
  /\ UNCHANGED <<req, reading, reply, stored>>

(* The client goes away in the middle of its body; nobody is left to answer. *)
Disconnect ==
  /\ stage = "body" /\ unsent > 0
  /\ Goto("done")
  /\ UNCHANGED <<req, channel, reading, reply, stored>>

(* require_api_token, then enforce_request_size. *)
Dependencies ==
  /\ stage = "dependencies"
  /\ IF ~req.authorized THEN Reject(401)
     ELSE IF Declares(req, MaxRequest) THEN Reject(413)
     ELSE Goto("fields")
  /\ UNCHANGED <<req, channel, reading, reply, stored>>

TitleOK(q) == q.title # 0 /\ q.title <= MaxTitle
SummaryOK(q) == q.summary <= MaxSummary
Days(q) == IF q.days = NoValue THEN DefaultDays ELSE q.days
DaysOK(q) == Days(q) >= 0 /\ Days(q) <= MaxDays

Fields ==
  /\ stage = "fields"
  /\ IF TitleOK(req) /\ SummaryOK(req) /\ DaysOK(req) THEN Goto("content") ELSE Reject(422)
  /\ UNCHANGED <<req, channel, reading, reply, stored>>

Least(a, b) == IF a <= b THEN a ELSE b

\* Mutant: every read asks for a whole chunk.
ChunkWhole(limit, size) == Least(ReadChunk, size - pulled)
\* Mutant: the one byte past the limit is not asked for.
ChunkExact(limit, size) == Least(Least(ReadChunk, limit - pulled), size - pulled)

(* One turn of the loop of read_bounded over a part of `size` bytes: what    *)
(* upload.read(wanted) returns, never more than one byte past the limit.     *)
Chunk(limit, size) == Least(Least(ReadChunk, limit - pulled + 1), size - pulled)

ReadContent ==
  /\ stage = "content"
  /\ LET chunk == Chunk(MaxContent, req.content) IN
     IF chunk = 0
     THEN /\ IF req.content = 0 \/ ~req.utf8 THEN Reject(422) ELSE Goto("count")
          /\ pulled' = 0
     ELSE /\ pulled' = pulled + chunk
          /\ IF pulled' > MaxContent THEN Reject(413) ELSE Goto("content")
  /\ UNCHANGED <<req, channel, part, remaining, reply, stored>>

CountAssets ==
  /\ stage = "count"
  /\ part' = 1
  /\ IF Len(req.assets) > MaxAssets THEN Reject(413)
     ELSE Goto(IF req.assets = <<>> THEN "names" ELSE "assets")
  /\ UNCHANGED <<req, channel, pulled, remaining, reply, stored>>

(* The loop of _collect_assets: each part draws on what the earlier ones left. *)
ReadAsset ==
  /\ stage = "assets"
  /\ LET chunk == Chunk(remaining, req.assets[part].size) IN
     IF chunk = 0
     THEN /\ remaining' = remaining - pulled
          /\ pulled' = 0 /\ part' = part + 1
          /\ Goto(IF part < Len(req.assets) THEN "assets" ELSE "names")
     ELSE /\ pulled' = pulled + chunk
          /\ IF pulled' > remaining THEN Reject(413) ELSE Goto("assets")
          /\ UNCHANGED <<part, remaining>>
  /\ UNCHANGED <<req, channel, reply, stored>>

NamesOK(q) ==
  /\ \A i \in DOMAIN q.assets : q.assets[i].name \in SafeNames
  /\ \A i, j \in DOMAIN q.assets : q.assets[i].name = q.assets[j].name => i = j

\* Mutant: the artifact is stored first and its names are looked at afterwards.
ValidateAfterCreate ==
  /\ stage = "names"
  /\ stored' = TRUE
  /\ IF ~NamesOK(req) THEN Reject(422) ELSE Reject(201)
  /\ UNCHANGED <<req, channel, reading, reply>>

(* validate_assets: the names, then the total once more. *)
ValidateAssets ==
  /\ stage = "names"
  /\ IF ~NamesOK(req) THEN Reject(422)
     ELSE IF AssetBytes(req) > MaxAssetBytes THEN Reject(413)
     ELSE Goto("create")
  /\ UNCHANGED <<req, channel, reading, reply, stored>>

Create ==
  /\ stage = "create"
  /\ stored' = TRUE
  /\ Reject(201)
  /\ UNCHANGED <<req, channel, reading, reply>>

(* An admitted share form: what the route does with it is in ShareAccess. *)
Handler ==
  /\ stage = "handler"
  /\ Reject(200)
  /\ UNCHANGED <<req, channel, reading, reply, stored>>

(* watched_send: an answer about a body that was cut off is dropped. *)
Answer ==
  /\ stage = "answer"
  /\ IF exceeded /\ ~started
     THEN UNCHANGED reply
     ELSE started' = TRUE /\ answers' = Append(answers, outcome)
  /\ Goto("returned")
  /\ UNCHANGED <<req, channel, reading, stored>>

\* Mutant: the middleware leaves the answer to the application.
ReturnedSilent ==
  /\ stage = "returned"
  /\ Goto("done")
  /\ UNCHANGED <<req, channel, reading, reply, stored>>

(* The application has returned: the middleware's own answer, if one is due. *)
Returned ==
  /\ stage = "returned"
  /\ IF exceeded /\ ~started
     THEN started' = TRUE /\ answers' = Append(answers, 413)
     ELSE UNCHANGED reply
  /\ Goto("done")
  /\ UNCHANGED <<req, channel, reading, stored>>

Done == stage = "done" /\ UNCHANGED vars

Server ==
  \/ Gate \/ Session \/ Dependencies \/ Fields \/ ReadContent \/ CountAssets
  \/ ReadAsset \/ ValidateAssets \/ Create \/ Handler \/ Answer \/ Returned
  \/ Receive(0)
Next == Server \/ (\E n \in 1..MaxMessage : Receive(n)) \/ Disconnect \/ Done

(* The event loop runs what is ready.  Nothing makes a client send. *)
Spec == Init /\ [][Next]_vars /\ WF_vars(Server)

-----------------------------------------------------------------------------
(* Every variable keeps its type, and the client's bytes are accounted for. *)
TypeOK ==
  /\ req \in RequestType /\ stage \in Stages
  /\ unsent \in Nat /\ received \in Nat /\ parsed \in Nat
  /\ pulled \in Nat /\ part \in Nat /\ remaining \in Nat
  /\ received + unsent = req.body
  /\ exceeded \in BOOLEAN /\ started \in BOOLEAN /\ stored \in BOOLEAN
  /\ outcome \in Statuses /\ answers \in Seq(Statuses)

(* read_bounded (validation.py:32-53) never holds more than its limit plus    *)
(* one byte, and the attached files together never more than max_asset_bytes  *)
(* plus one, however much the client sends and whatever length it declares.   *)
PeakBounded ==
  IF part = 0 THEN pulled <= MaxContent + 1
  ELSE (MaxAssetBytes - remaining) + pulled <= MaxAssetBytes + 1

(* MaxBodySizeMiddleware: no byte past the ceiling reaches the parser, and at *)
(* most one message past it is taken from the network.                       *)
ParsedBounded == parsed <= Ceiling /\ received <= Ceiling + MaxMessage

(* Whatever a client sends and declares, what the service holds of it stays  *)
(* bounded, in the parser and in the bounded reads behind it.                *)
HeldBounded == PeakBounded /\ ParsedBounded

(* watched_send and the end of __call__: a request gets at most one answer,  *)
(* and when its body was cut off that answer is the 413.                     *)
AnswerOnce ==
  /\ Len(answers) <= 1
  /\ exceeded => answers \in {<<>>, <<413>>}

(* "Everything is checked before a single byte is written, so a rejected     *)
(* publish leaves no directory, no temporary file and no metadata row        *)
(* behind" (validation.py:3): the artifact is stored only by a publisher     *)
(* whose whole body arrived, and then the answer is a 201.                   *)
RejectedLeavesNothing ==
  stored => /\ req.authorized /\ unsent = 0 /\ ~exceeded
            /\ outcome = 201 /\ answers \in {<<>>, <<201>>}

(* What the settings allow, over the request as a whole. *)
TooLarge(q) ==
  \/ q.body > MaxRequest \/ Declares(q, MaxRequest)
  \/ q.content > MaxContent \/ Len(q.assets) > MaxAssets \/ AssetBytes(q) > MaxAssetBytes
WellFormed(q) ==
  /\ q.title \in 1..MaxTitle /\ q.summary \in 0..MaxSummary
  /\ Days(q) \in 0..MaxDays
  /\ q.content > 0 /\ q.utf8
  /\ \A i \in DOMAIN q.assets :
       q.assets[i].name \in SafeNames \ {q.assets[j].name : j \in 1..(i - 1)}

(* The limits of the middleware, of the dependency, of the bounded reads and *)
(* of the validators agree at every boundary: a publish is accepted exactly  *)
(* when the request as a whole is within the settings, 413 is said only of a *)
(* request over some limit, and 422 only of a malformed one.                 *)
VerdictsExact ==
  req.route = "publish" /\ answers # <<>> =>
    /\ answers = <<201>> <=> req.authorized /\ ~TooLarge(req) /\ WellFormed(req)
    /\ answers = <<413>> => TooLarge(req)
    /\ answers = <<422>> => ~WellFormed(req)

(* A request whose body is cut off, or complete, is answered, and not twice:  *)
(* the answer that watched_send drops is always made up for, and made up for *)
(* only then (middleware.py:96-124).                                         *)
EveryBodyAnsweredOnce ==
  /\ []AnswerOnce
  /\ (stage # "done" /\ (exceeded \/ unsent = 0)) ~> (answers # <<>>)

-----------------------------------------------------------------------------
(* The inductive invariant: what each stage may rely on. *)
Reading == {"fields", "content", "count", "assets", "names", "create"}
Closing == {"answer", "returned", "done"}

ParsedWithinReceived == parsed <= received

CountersOK ==
  /\ exceeded \/ received <= Ceiling
  /\ stage \in {"dependencies", "handler"} \union Reading => unsent = 0
  /\ stage \in Reading => req.authorized
  /\ exceeded => stage \in Closing

RepliesOK ==
  /\ stage \notin {"returned", "done"} => answers = <<>> /\ ~started
  /\ stage = "returned" /\ answers # <<>> => started
  /\ exceeded /\ started => stage = "done"

BudgetOK ==
  /\ remaining <= MaxAssetBytes
  /\ stage \notin {"assets", "content"} \union Closing => pulled = 0
  /\ stage \notin {"assets", "names", "create"} \union Closing
       => part = 0 /\ remaining = MaxAssetBytes
  /\ stage = "content" => pulled <= MaxContent /\ pulled <= req.content
  /\ stage \in {"assets", "names", "create"} => part # 0
  /\ stage = "assets" => /\ part <= Len(req.assets)
                         /\ pulled <= remaining /\ pulled <= req.assets[part].size

\* What the stages passed so far have established of a publish.
PublishStages == {"dependencies"} \union Reading
CheckedOK ==
  /\ stage \in PublishStages => req.route = "publish"
  /\ stage \in {"session", "handler"} => req.route # "publish"
  /\ stage \in Reading => req.body <= MaxRequest /\ ~Declares(req, MaxRequest)
  /\ stage \in Reading \ {"fields"} => TitleOK(req) /\ SummaryOK(req) /\ DaysOK(req)
  /\ stage \in {"count", "assets", "names", "create"} =>
       req.content > 0 /\ req.content <= MaxContent /\ req.utf8
  /\ stage \in {"assets", "names", "create"} => Len(req.assets) <= MaxAssets
  /\ stage = "assets" => remaining = MaxAssetBytes - BytesUpTo(req.assets)[part - 1]
  /\ stage \in {"names", "create"} => AssetBytes(req) <= MaxAssetBytes
  /\ stage = "create" => NamesOK(req)

\* A status that says of the publish what is the case.
Justified(status) ==
  /\ status \in {201, 400, 401, 413, 422}
  /\ status = 201 => req.authorized /\ ~TooLarge(req) /\ WellFormed(req)
  /\ status = 400 => exceeded
  /\ status = 401 => ~req.authorized
  /\ status = 413 => TooLarge(req)
  /\ status = 422 => ~WellFormed(req)

VerdictsInv ==
  /\ CheckedOK
  /\ exceeded => req.body > Ceiling
  /\ req.route = "publish" =>
       /\ stage = "answer" => Justified(outcome)
       /\ \A i \in DOMAIN answers : Justified(answers[i])

UploadInv ==
  /\ TypeOK /\ PeakBounded /\ ParsedBounded /\ AnswerOnce /\ RejectedLeavesNothing
  /\ stored => stage \in Closing
  /\ ParsedWithinReceived /\ CountersOK /\ RepliesOK /\ BudgetOK

=============================================================================
