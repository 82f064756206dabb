---------------------------- MODULE GatewayProofs ----------------------------
(***************************************************************************)
(* Theorems about the gateway's outbox and about its request queue, for    *)
(* any number of requests, users, sessions, webhook calls, failing file    *)
(* accesses and restarts.                                                  *)
(*                                                                         *)
(* Whoever is told of an answer finds it because of the order in which the *)
(* webhook works: the index gets a line only when the file has been begun, *)
(* and nobody is told without a line.  Nobody is forgotten because the     *)
(* poll that stops watching for a request has found such a line.           *)
(***************************************************************************)
EXTENDS Gateway, GatewayQueue, DataLemmas

Lines == Requests \cup Broken

\* A handler belongs to its request.
HandlersOwn == \A r \in Requests : handlers[r] # NoWaiter => handlers[r] \in {"chat", "telemetry"} \X {r}

\* The poll reads the response of the line it has found.
PollFound == poll.at = "reading" => poll.line \in 1..Len(index) /\ index[poll.line] \in Requests

\* A webhook has opened its file, and so has one that has left a line.
FilesBegun ==
  /\ \A h \in Sends : InProgress(h) => file[h[1]] # "none"
  /\ \A i \in 1..Len(index) : index[i] \in Requests => file[index[i]] # "none"

OutboxTypes == GatewayTypeOK /\ HandlersOwn /\ PollFound /\ FilesBegun

\* The type invariant part by part.
ChatTypes ==
  /\ chat \in [Requests -> {"new", "recording", "asking", "accepted", "refused"}]
  /\ registered \in Seq([session : Sessions \cup Requests, user : Users])
  /\ asked \subseteq Requests

WaitTypes ==
  /\ handlers \in [Requests -> Waiters \cup {NoWaiter}]
  /\ waiter \in [Waiters -> {"none", "waiting", "told", "timed out", "gone"}]
  /\ watched \subseteq Requests /\ unreadable \subseteq Requests

HookTypes ==
  /\ skill \in [Sends -> {"unsent", "waiting", "succeeded", "failed"}]
  /\ hook \in [Sends -> {"none", "writing", "appending", "done", "failed"}]
  /\ file \in [Requests -> {"none", "torn", "whole"}]
  /\ mixed \subseteq Requests

IndexTypes == index \in Seq(Requests \cup Broken)

PollTypes ==
  /\ poll \in [at : {"idle", "scanning", "reading"}, line : Nat, upto : Nat]
  /\ poll.line <= poll.upto /\ poll.upto <= Len(index)

CountTypes == faults \in 0..MaxFaults /\ restarts \in 0..MaxRestarts

Parts == ChatTypes /\ WaitTypes /\ HookTypes /\ IndexTypes /\ PollTypes /\ CountTypes

\* The index has a line of the request, or one that a crash has damaged.
Indexed(r) ==
  \/ \E i \in 1..Len(index) : index[i] = r
  \/ \E i \in 1..Len(index) : index[i] \in Broken

\* Whoever was told was told of something that the outbox holds.
ToldIndexed ==
  \A w \in Waiters : waiter[w] = "told" => file[w[2]] # "none" /\ Indexed(w[2])

-----------------------------------------------------------------------------
(* What a step leaves of the files *)

\* The lines of requests stay, damaged lines stay damaged, and a new line is
\* that of a webhook that was about to append it.
Grown(lines) ==
  /\ lines \in Seq(Lines) /\ Len(lines) >= Len(index)
  /\ \A i \in 1..Len(index) :
       /\ index[i] \in Requests => lines[i] = index[i]
       /\ index[i] \in Broken => lines[i] \in Broken
  /\ \A i \in 1..Len(lines) : lines[i] \in Requests =>
       \/ i \in 1..Len(index) /\ lines[i] = index[i]
       \/ \E h \in Sends : hook[h] = "appending" /\ lines[i] = h[1]

LEMMA SendForm ==
  ASSUME NEW h \in Sends
  PROVE  h[1] \in Requests /\ h[2] \in 1..MaxSends /\ h = <<h[1], h[2]>>
BY DEF Sends

LEMMA WaiterForm ==
  ASSUME NEW w \in Waiters
  PROVE  w[2] \in Requests /\ w[1] \in {"chat", "telemetry"} /\ w = <<w[1], w[2]>>
BY DEF Waiters

LEMMA IndexForm ==
  ASSUME GatewayTypeOK
  PROVE  /\ index \in Seq(Lines) /\ Len(index) \in Nat
         /\ \A i \in 1..Len(index) : index[i] \in Lines
<1>1. index \in Seq(Lines)
  BY Zenon DEF GatewayTypeOK, Lines
<1>. QED  BY <1>1

LEMMA SameGrown ==
  ASSUME GatewayTypeOK  PROVE Grown(index)
BY IndexForm DEF Grown

\* A line is appended, or glued to what a crash has left.
LEMMA LineGrows ==
  ASSUME GatewayTypeOK, NEW r \in Requests \cup {"torn"},
         r = "torn" \/ \E h \in Sends : hook[h] = "appending" /\ r = h[1]
  PROVE  /\ Grown(WithLine(r))
         /\ \E i \in 1..Len(WithLine(r)) : WithLine(r)[i] \in {r} \cup Broken
<1>. DEFINE n == Len(index)
            lines == WithLine(r)
<1>1. /\ index \in Seq(Lines) /\ n \in Nat /\ r \in Lines
      /\ \A i \in 1..n : index[i] \in Lines
      /\ Requests \cap Broken = {} /\ "torn" \in Broken /\ "glued" \in Broken
  BY GatewayAssumption, IndexForm DEF Lines, Broken
<1>2. CASE index # <<>> /\ index[n] = "torn"
  <2>1. lines = [index EXCEPT ![n] = "glued"] /\ n \in 1..n
    BY <1>1, <1>2 DEF WithLine
  <2>2. PICK m \in Nat : index \in [1..m -> Lines]
    BY <1>1, SeqDef
  <2>3. m = n
    BY <2>2
  <2>4. lines \in [1..n -> Lines] /\ lines[n] = "glued" /\ \A i \in 1..n : i # n => lines[i] = index[i]
    BY <1>1, <2>1, <2>2, <2>3 DEF Lines
  <2>5. lines \in Seq(Lines) /\ Len(lines) = n
    <3>. HIDE DEF lines, n
    <3>1. lines \in Seq(Lines) /\ DOMAIN lines = 1..n
      BY <1>1, <2>4, SeqDef
    <3>. QED  BY <1>1, <3>1, LenProperties
  <2>. HIDE DEF lines
  <2>6. \A i \in 1..n :
          /\ index[i] \in Requests => lines[i] = index[i]
          /\ index[i] \in Broken => lines[i] \in Broken
    BY <1>1, <1>2, <2>4
  <2>7. \A i \in 1..Len(lines) : lines[i] \in Requests => i \in 1..n /\ lines[i] = index[i]
    BY <1>1, <2>4, <2>5
  <2>8. Grown(lines)
    BY <1>1, <2>5, <2>6, <2>7 DEF Grown
  <2>. QED  BY <1>1, <2>1, <2>4, <2>5, <2>8 DEF lines
<1>3. CASE ~(index # <<>> /\ index[n] = "torn")
  <2>1. lines = Append(index, r)
    BY <1>3 DEF WithLine
  <2>2. /\ lines \in Seq(Lines) /\ Len(lines) = n + 1 /\ lines[n + 1] = r
        /\ \A i \in 1..n : lines[i] = index[i]
    BY <1>1, <2>1
  <2>. HIDE DEF lines
  <2>3. ASSUME NEW i \in 1..Len(lines), lines[i] \in Requests
        PROVE  \/ i \in 1..n /\ lines[i] = index[i]
               \/ \E h \in Sends : hook[h] = "appending" /\ lines[i] = h[1]
    <3>1. CASE i = n + 1
      BY <1>1, <2>2, <2>3, <3>1
    <3>2. CASE i # n + 1
      BY <1>1, <2>2, <3>2
    <3>. QED  BY <3>1, <3>2
  <2>4. Grown(lines)
    BY <1>1, <2>2, <2>3 DEF Grown
  <2>5. n + 1 \in 1..Len(lines) /\ lines[n + 1] \in {r} \cup Broken
    BY <1>1, <2>2
  <2>. QED  BY <2>4, <2>5 DEF lines
<1>. QED  BY <1>2, <1>3

\* So does an append that is broken off.
LEMMA LeftGrown ==
  ASSUME GatewayTypeOK, NEW h \in Sends, NEW lines \in LinesLeft(h)
  PROVE  Grown(lines)
<1>1. CASE lines = index
  BY <1>1, SameGrown
<1>2. CASE hook[h] = "appending" /\ lines = WithLine("torn")
  BY <1>2, LineGrows
<1>. QED  BY <1>1, <1>2 DEF LinesLeft

LEMMA IndexGrows ==
  ASSUME GatewayTypeOK, [GatewayNext]_gatewayVars
  PROVE  Grown(index')
<1>a. index' = index => Grown(index')
  BY SameGrown
<1>1. ASSUME NEW r \in Requests, Chat(r)  PROVE index' = index
  BY <1>1 DEF Chat, ChatReceive, RecordRaw, RecordFails, RequestManagerAccepts, SubmitReturns,
     SubmitFails, StreamTelemetry, hookVars
<1>2. ASSUME NEW w \in Waiters, WaitTimesOut(w)  PROVE index' = index
  BY <1>2 DEF WaitTimesOut, hookVars
<1>3. ASSUME NEW h \in Sends, Webhook(h)  PROVE Grown(index')
  <2>1. CASE IndexAndAnnounce(h)
    <3>1. index' = WithLine(h[1]) /\ hook[h] = "appending" /\ h[1] \in Requests
      BY <2>1, SendForm DEF IndexAndAnnounce
    <3>. QED  BY <3>1, LineGrows
  <2>2. CASE SaveFails(h)
    <3>1. index' \in LinesLeft(h)
      BY <2>2 DEF SaveFails
    <3>. QED  BY <1>a, <3>1, LeftGrown
  <2>3. CASE ~IndexAndAnnounce(h) /\ ~SaveFails(h)
    BY <1>a, <1>3, <2>3 DEF Webhook, SendIrResult, SendFails, SkillTimesOut, FileWritten
  <2>. QED  BY <2>1, <2>2, <2>3
<1>4. ASSUME Poll  PROVE index' = index
  BY <1>4 DEF Poll, PollReadsIndex, PollScans, PollReadsFile, hookVars
<1>5. ASSUME Restart  PROVE Grown(index')
  <2>1. index' \in LinesAfterCrash
    BY <1>5 DEF Restart
  <2>2. CASE index' = index
    BY <1>a, <2>2
  <2>3. ASSUME NEW h \in Sends, hook[h] = "appending",
               index' \in LinesLeft(h) \cup {WithLine(h[1])}
        PROVE  Grown(index')
    <3>1. Grown(WithLine(h[1]))
      BY <2>3, SendForm, LineGrows
    <3>. QED  BY <2>3, <3>1, LeftGrown
  <2>. DEFINE Left(h) == IF hook[h] = "appending" THEN LinesLeft(h) \cup {WithLine(h[1])} ELSE {}
  <2>4. index' = index \/ \E h \in Sends : index' \in Left(h)
    <3>1. index' \in {index} \cup UNION {Left(h) : h \in Sends}
      BY <2>1, Zenon DEF LinesAfterCrash
    <3>. QED  BY <3>1, Zenon
  <2>. QED  BY <2>2, <2>3, <2>4
<1>6. CASE UNCHANGED gatewayVars
  BY <1>a, <1>6 DEF gatewayVars, hookVars
<1>7. CASE PollReadFails
  BY <1>a, <1>7 DEF PollReadFails, hookVars
<1>. QED  BY <1>a, <1>1, <1>2, <1>3, <1>4, <1>5, <1>6, <1>7 DEF GatewayNext
-----------------------------------------------------------------------------
(* Type correctness of the gateway *)

LEMMA GatewayTypeParts ==
  /\ GatewayTypeOK <=> Parts
  /\ GatewayTypeOK' <=> Parts'
BY Zenon
   DEF GatewayTypeOK, Parts, ChatTypes, WaitTypes, HookTypes, IndexTypes, PollTypes, CountTypes

LEMMA GatewayInitial == GatewayInit => OutboxTypes /\ NobodyForgotten /\ ToldIndexed
<1>. SUFFICES ASSUME GatewayInit  PROVE OutboxTypes /\ NobodyForgotten /\ ToldIndexed
  OBVIOUS
<1>1. GatewayTypeOK
  BY GatewayAssumption DEF GatewayInit, GatewayTypeOK, Idle, NoWaiter
<1>2. HandlersOwn /\ NobodyForgotten
  BY DEF GatewayInit, HandlersOwn, NobodyForgotten
<1>3. PollFound /\ FilesBegun /\ ToldIndexed
  BY DEF GatewayInit, PollFound, FilesBegun, ToldIndexed, InProgress, Idle
<1>. QED  BY <1>1, <1>2, <1>3 DEF OutboxTypes

\* The router gives a session of the user, or a new one.
LEMMA RouteForm ==
  ASSUME ChatTypes, NEW r \in Requests, NEW u \in Users
  PROVE  DetermineRoute(r, u) \in Sessions \cup Requests
<1>. DEFINE S == [session : Sessions \cup Requests, user : Users]
<1>1. registered \in Seq(S)
  BY Zenon DEF ChatTypes
<1>2. Len(registered) \in Nat /\ \A i \in 1..Len(registered) : registered[i] \in S
  <2>. HIDE DEF S
  <2>. QED  BY <1>1
<1>3. CASE SessionsOf(u) # {}
  <2>. DEFINE last == CHOOSE i \in SessionsOf(u) : \A k \in SessionsOf(u) : k <= i
  <2>1. SessionsOf(u) \in SUBSET Nat /\ IsFiniteSet(SessionsOf(u))
    <3>1. SessionsOf(u) \subseteq 1..Len(registered)
      BY DEF SessionsOf
    <3>2. IsFiniteSet(1..Len(registered)) /\ 1..Len(registered) \subseteq Nat
      BY <1>2, FS_Interval
    <3>. QED  BY <3>1, <3>2, FS_Subset
  <2>2. \E i \in SessionsOf(u) : \A k \in SessionsOf(u) : k <= i
    BY <1>3, <2>1, GreatestNatural, Zenon
  <2>3. last \in SessionsOf(u)
    BY <2>2, Zenon
  <2>4. registered[last].session \in Sessions \cup Requests
    <3>. HIDE DEF last
    <3>. QED  BY <1>2, <2>3 DEF SessionsOf
  <2>. QED  BY <1>3, <2>4 DEF DetermineRoute
<1>. QED  BY <1>3 DEF DetermineRoute

LEMMA RegisterForm ==
  ASSUME ChatTypes, NEW s \in Sessions \cup Requests, NEW u \in Users
  PROVE  RegisterSession(s, u) \in Seq([session : Sessions \cup Requests, user : Users])
<1>. DEFINE S == [session : Sessions \cup Requests, user : Users]
            old == {i \in 1..Len(registered) : registered[i].session = s}
            others == IF old = {} THEN registered ELSE RemoveAt(registered, CHOOSE i \in old : TRUE)
<1>1. registered \in Seq(S)
  BY Zenon DEF ChatTypes
<1>2. old # {} => (CHOOSE i \in old : TRUE) \in 1..Len(registered)
  OBVIOUS
<1>3. others \in Seq(S)
  <2>. HIDE DEF S, old
  <2>. QED  BY <1>1, <1>2, RemoveAtShortens
<1>4. [session |-> s, user |-> u] \in S
  OBVIOUS
<1>5. RegisterSession(s, u) = Append(others, [session |-> s, user |-> u])
  BY DEF RegisterSession
<1>. HIDE DEF S, old, others
<1>6. RegisterSession(s, u) \in Seq(S)
  BY <1>3, <1>4, <1>5
<1>. QED  BY <1>6 DEF S

LEMMA ChatTypesStep ==
  ASSUME OutboxTypes, [GatewayNext]_gatewayVars
  PROVE  ChatTypes'
<1>0. ChatTypes
  BY GatewayTypeParts DEF OutboxTypes, Parts
<1>a. UNCHANGED chatVars => ChatTypes'
  BY <1>0 DEF ChatTypes, chatVars
<1>1. ASSUME NEW r \in Requests, Chat(r)  PROVE ChatTypes'
  <2>1. ASSUME NEW u \in Users, NEW named \in {{}} \cup {{s} : s \in Sessions},
               ChatReceive(r, u, named)
        PROVE  ChatTypes'
    <3>1. PICK s \in Sessions \cup Requests :
             registered' = registered \/ registered' = RegisterSession(s, u)
      <4>1. CASE named = {}
        BY <1>0, <2>1, <4>1, RouteForm DEF ChatReceive
      <4>2. CASE named # {}
        <5>1. (CHOOSE n \in named : TRUE) \in Sessions
          BY <4>2
        <5>. QED  BY <2>1, <4>2, <5>1 DEF ChatReceive
      <4>. QED  BY <4>1, <4>2
    <3>2. registered' \in Seq([session : Sessions \cup Requests, user : Users])
      <4>1. registered \in Seq([session : Sessions \cup Requests, user : Users])
        BY <1>0, Zenon DEF ChatTypes
      <4>2. RegisterSession(s, u) \in Seq([session : Sessions \cup Requests, user : Users])
        BY <1>0, RegisterForm
      <4>. QED  BY <3>1, <4>1, <4>2, Zenon
    <3>3. chat' = [chat EXCEPT ![r] = "recording"] /\ asked' = asked
      BY <2>1 DEF ChatReceive
    <3>. QED  BY <1>0, <3>2, <3>3 DEF ChatTypes
  <2>2. CASE RecordRaw(r)
    BY <1>0, <2>2 DEF RecordRaw, ChatTypes
  <2>3. CASE RecordFails(r)
    BY <1>0, <2>3 DEF RecordFails, ChatTypes
  <2>4. CASE RequestManagerAccepts(r)
    BY <1>0, <2>4 DEF RequestManagerAccepts, ChatTypes
  <2>5. CASE SubmitReturns(r)
    BY <1>0, <2>5 DEF SubmitReturns, ChatTypes
  <2>6. CASE SubmitFails(r)
    BY <1>0, <2>6 DEF SubmitFails, ChatTypes
  <2>7. CASE StreamTelemetry(r)
    BY <1>a, <2>7 DEF StreamTelemetry
  <2>. QED  BY <1>1, <2>1, <2>2, <2>3, <2>4, <2>5, <2>6, <2>7 DEF Chat
<1>2. ASSUME NEW w \in Waiters, WaitTimesOut(w)  PROVE ChatTypes'
  BY <1>2, <1>a DEF WaitTimesOut
<1>3. ASSUME NEW h \in Sends, Webhook(h)  PROVE ChatTypes'
  BY <1>3, <1>a DEF Webhook, SendIrResult, SendFails, SkillTimesOut, FileWritten,
     IndexAndAnnounce, SaveFails
<1>4. ASSUME Poll  PROVE ChatTypes'
  BY <1>4, <1>a DEF Poll, PollReadsIndex, PollScans, PollReadsFile
<1>5. ASSUME Restart  PROVE ChatTypes'
  BY <1>0, <1>5 DEF Restart, ChatTypes
<1>6. CASE UNCHANGED gatewayVars
  BY <1>a, <1>6 DEF gatewayVars
<1>7. CASE PollReadFails
  BY <1>a, <1>7 DEF PollReadFails
<1>. QED  BY <1>1, <1>2, <1>3, <1>4, <1>5, <1>6, <1>7 DEF GatewayNext

LEMMA HookTypesStep ==
  ASSUME OutboxTypes, [GatewayNext]_gatewayVars
  PROVE  HookTypes'
<1>0. HookTypes
  BY GatewayTypeParts DEF OutboxTypes, Parts
<1>a. UNCHANGED hookVars => HookTypes'
  BY <1>0 DEF HookTypes, hookVars
<1>1. ASSUME NEW r \in Requests, Chat(r)  PROVE HookTypes'
  BY <1>1, <1>a DEF Chat, ChatReceive, RecordRaw, RecordFails, RequestManagerAccepts,
     SubmitReturns, SubmitFails, StreamTelemetry
<1>2. ASSUME NEW w \in Waiters, WaitTimesOut(w)  PROVE HookTypes'
  BY <1>2, <1>a DEF WaitTimesOut
<1>3. ASSUME NEW h \in Sends, Webhook(h)  PROVE HookTypes'
  <2>0. h[1] \in Requests /\ h = <<h[1], h[2]>>
    BY SendForm
  <2>1. CASE SendIrResult(h[1], h[2])
    BY <1>0, <2>0, <2>1 DEF SendIrResult, HookTypes
  <2>2. CASE SendFails(h)
    BY <1>0, <2>2 DEF SendFails, HookTypes
  <2>3. CASE SkillTimesOut(h)
    BY <1>0, <2>3 DEF SkillTimesOut, HookTypes
  <2>4. CASE FileWritten(h)
    <3>1. PICK content \in {"torn", "whole"} : file' = [file EXCEPT ![h[1]] = content]
      BY <2>4 DEF FileWritten
    <3>. QED  BY <1>0, <2>0, <2>4, <3>1 DEF FileWritten, HookTypes
  <2>5. CASE IndexAndAnnounce(h)
    BY <1>0, <2>5 DEF IndexAndAnnounce, Answered, HookTypes
  <2>6. CASE SaveFails(h)
    BY <1>0, <2>6 DEF SaveFails, HookTypes
  <2>. QED  BY <1>3, <2>1, <2>2, <2>3, <2>4, <2>5, <2>6 DEF Webhook
<1>4. ASSUME Poll  PROVE HookTypes'
  BY <1>4, <1>a DEF Poll, PollReadsIndex, PollScans, PollReadsFile
<1>5. ASSUME Restart  PROVE HookTypes'
  BY <1>0, <1>5 DEF Restart, HookTypes
<1>6. CASE UNCHANGED gatewayVars
  BY <1>a, <1>6 DEF gatewayVars
<1>7. CASE PollReadFails
  BY <1>a, <1>7 DEF PollReadFails
<1>. QED  BY <1>1, <1>2, <1>3, <1>4, <1>5, <1>6, <1>7 DEF GatewayNext

LEMMA CountTypesStep ==
  ASSUME OutboxTypes, [GatewayNext]_gatewayVars
  PROVE  CountTypes'
<1>0. CountTypes
  BY GatewayTypeParts DEF OutboxTypes, Parts
<1>a. UNCHANGED <<faults, restarts>> => CountTypes'
  BY <1>0 DEF CountTypes
<1>b. faults < MaxFaults /\ faults' = faults + 1 /\ restarts' = restarts => CountTypes'
  BY <1>0, GatewayAssumption DEF CountTypes
<1>1. ASSUME NEW r \in Requests, Chat(r)  PROVE CountTypes'
  BY <1>1, <1>a, <1>b DEF Chat, ChatReceive, RecordRaw, RecordFails, RequestManagerAccepts,
     SubmitReturns, SubmitFails, StreamTelemetry
<1>2. ASSUME NEW w \in Waiters, WaitTimesOut(w)  PROVE CountTypes'
  BY <1>2, <1>a DEF WaitTimesOut
<1>3. ASSUME NEW h \in Sends, Webhook(h)  PROVE CountTypes'
  BY <1>3, <1>a, <1>b DEF Webhook, SendIrResult, SendFails, SkillTimesOut, FileWritten,
     IndexAndAnnounce, SaveFails
<1>4. ASSUME Poll  PROVE CountTypes'
  BY <1>4, <1>a DEF Poll, PollReadsIndex, PollScans, PollReadsFile
<1>5. ASSUME Restart  PROVE CountTypes'
  BY <1>0, <1>5, GatewayAssumption DEF Restart, CountTypes
<1>6. CASE UNCHANGED gatewayVars
  BY <1>a, <1>6 DEF gatewayVars
<1>7. CASE PollReadFails
  BY <1>b, <1>7 DEF PollReadFails
<1>. QED  BY <1>1, <1>2, <1>3, <1>4, <1>5, <1>6, <1>7 DEF GatewayNext

\* Who is told, and whose handler goes, when an answer is announced.
LEMMA HandledForm ==
  ASSUME WaitTypes, HandlersOwn, NEW r \in Requests, HandleResponse(r)
  PROVE  /\ handlers' = [handlers EXCEPT ![r] = NoWaiter]
         /\ waiter' \in [Waiters -> {"none", "waiting", "told", "timed out", "gone"}]
         /\ \A w \in Waiters : waiter'[w] # waiter[w] => w[2] = r /\ handlers[r] = w
<1>1. handlers[r] # NoWaiter => handlers[r] \in Waiters /\ handlers[r][2] = r
  BY DEF HandlersOwn, Waiters
<1>. QED  BY <1>1 DEF WaitTypes, HandleResponse

LEMMA WaitTypesStep ==
  ASSUME OutboxTypes, [GatewayNext]_gatewayVars
  PROVE  WaitTypes' /\ HandlersOwn'
<1>. DEFINE Goal == WaitTypes' /\ HandlersOwn'
<1>. SUFFICES Goal
  OBVIOUS
<1>0. WaitTypes /\ HandlersOwn
  BY GatewayTypeParts DEF OutboxTypes, Parts
<1>a. UNCHANGED waitVars => Goal
  BY <1>0 DEF WaitTypes, HandlersOwn, waitVars
<1>b. ASSUME NEW r \in Requests, NEW kind \in {"chat", "telemetry"}, WaitForResponse(<<kind, r>>, r)
      PROVE  Goal
  <2>1. <<kind, r>> \in Waiters
    BY DEF Waiters
  <2>2. WaitTypes'
    BY <1>0, <1>b, <2>1 DEF WaitForResponse, WaitTypes
  <2>3. HandlersOwn'
    BY <1>0, <1>b DEF WaitForResponse, WaitTypes, HandlersOwn
  <2>. QED  BY <2>2, <2>3
<1>c. ASSUME NEW r \in Requests, HandleResponse(r), UNCHANGED <<watched, unreadable>>
      PROVE  Goal
  <2>1. /\ handlers' = [handlers EXCEPT ![r] = NoWaiter]
        /\ waiter' \in [Waiters -> {"none", "waiting", "told", "timed out", "gone"}]
    BY <1>0, <1>c, HandledForm
  <2>. QED  BY <1>0, <1>c, <2>1 DEF WaitTypes, HandlersOwn
<1>. HIDE DEF Goal
<1>1. ASSUME NEW r \in Requests, Chat(r)  PROVE Goal
  BY <1>1, <1>a, <1>b DEF Chat, ChatReceive, RecordRaw, RecordFails, RequestManagerAccepts,
     SubmitReturns, SubmitFails, StreamTelemetry
<1>2. ASSUME NEW w \in Waiters, WaitTimesOut(w)  PROVE Goal
  <2>1. w[2] \in Requests
    BY WaiterForm
  <2>. QED  BY <1>0, <1>2, <2>1 DEF WaitTimesOut, WaitTypes, HandlersOwn, Goal
<1>3. ASSUME NEW h \in Sends, Webhook(h)  PROVE Goal
  <2>1. h[1] \in Requests
    BY SendForm
  <2>. QED  BY <1>3, <1>a, <1>c, <2>1
         DEF Webhook, SendIrResult, SendFails, SkillTimesOut, FileWritten,
            IndexAndAnnounce, SaveFails
<1>4. ASSUME Poll  PROVE Goal
  <2>1. CASE PollReadsIndex
    BY <1>a, <2>1 DEF PollReadsIndex
  <2>2. CASE PollScans
    <3>1. watched' \subseteq watched /\ UNCHANGED <<handlers, waiter, unreadable>>
      BY <2>2 DEF PollScans
    <3>. QED  BY <1>0, <3>1 DEF WaitTypes, HandlersOwn, Goal
  <2>3. CASE PollReadsFile
    <3>1. index[poll.line] \in Requests
      BY <2>3 DEF PollReadsFile, OutboxTypes, PollFound
    <3>. QED  BY <1>a, <1>c, <2>3, <3>1 DEF PollReadsFile, waitVars
  <2>. QED  BY <1>4, <2>1, <2>2, <2>3 DEF Poll
<1>5. ASSUME Restart  PROVE Goal
  BY <1>0, <1>5 DEF Restart, WaitTypes, HandlersOwn, Goal
<1>6. CASE UNCHANGED gatewayVars
  BY <1>a, <1>6 DEF gatewayVars
<1>7. ASSUME PollReadFails  PROVE Goal
  <2>1. index[poll.line] \in Requests
    BY <1>7 DEF PollReadFails, OutboxTypes, PollFound
  <2>. QED  BY <1>0, <1>7, <2>1 DEF PollReadFails, WaitTypes, HandlersOwn, Goal
<1>. QED  BY <1>1, <1>2, <1>3, <1>4, <1>5, <1>6, <1>7 DEF GatewayNext
\* The lines that the poll has still to read, and the next of them.
Hits == {i \in poll.line + 1..poll.upto : index[i] \in watched}
Hit == CHOOSE x \in Hits : \A y \in Hits : x <= y

LEMMA FoundLine ==
  ASSUME PollTypes, IndexTypes, Hits # {}
  PROVE  Hit \in Nat /\ Hit <= poll.upto /\ Hit \in 1..Len(index) /\ index[Hit] \in watched
<1>1. poll.line \in Nat /\ poll.upto \in Nat /\ Len(index) \in Nat /\ poll.upto <= Len(index)
  BY DEF PollTypes, IndexTypes
<1>2. Hits \in SUBSET Nat
  BY <1>1 DEF Hits
<1>3. \E x \in Hits : \A y \in Hits : x <= y
  BY <1>2, LeastNatural, Zenon
<1>4. Hit \in Hits
  BY <1>3, Zenon DEF Hit
<1>5. Hit \in poll.line + 1..poll.upto /\ index[Hit] \in watched
  BY <1>4 DEF Hits
<1>. QED  BY <1>1, <1>5

\* What the poll does with it.
LEMMA ScanForm ==
  ASSUME PollScans
  PROVE  /\ UNCHANGED <<handlers, waiter, unreadable, hookVars>>
         /\ Hits = {} => poll' = Idle /\ UNCHANGED watched
         /\ Hits # {} => poll' = [poll EXCEPT !.at = "reading", !.line = Hit]
                         /\ watched' = watched \ {index[Hit]}
BY DEF PollScans, Hits, Hit

LEMMA PollTypesStep ==
  ASSUME OutboxTypes, [GatewayNext]_gatewayVars
  PROVE  IndexTypes' /\ PollTypes' /\ PollFound'
<1>. DEFINE Goal == PollTypes' /\ PollFound'
<1>0. PollTypes /\ IndexTypes /\ WaitTypes /\ PollFound
  BY GatewayTypeParts DEF OutboxTypes, Parts
<1>1. /\ index' \in Seq(Requests \cup Broken) /\ Len(index') >= Len(index)
      /\ \A i \in 1..Len(index) : index[i] \in Requests => index'[i] = index[i]
  BY IndexGrows, Zenon DEF Grown, Lines, OutboxTypes
<1>2. Len(index) \in Nat /\ Len(index') \in Nat
  BY <1>0, <1>1 DEF IndexTypes
<1>3. poll.line \in Nat /\ poll.upto \in Nat /\ poll.line <= poll.upto /\ poll.upto <= Len(index)
  BY <1>0 DEF PollTypes
<1>4. IndexTypes'
  BY <1>1 DEF IndexTypes
<1>a. ASSUME UNCHANGED poll  PROVE Goal
  <2>1. PollTypes'
    BY <1>a, <1>0, <1>1, <1>2, <1>3 DEF PollTypes
  <2>2. PollFound'
    BY <1>a, <1>0, <1>1, <1>2, <1>3 DEF PollFound
  <2>. QED  BY <2>1, <2>2
<1>b. ASSUME poll' = Idle  PROVE Goal
  BY <1>b, <1>2 DEF PollTypes, PollFound, Idle
<1>. HIDE DEF Goal
<1>5. ASSUME NEW r \in Requests, Chat(r)  PROVE Goal
  BY <1>5, <1>a DEF Chat, ChatReceive, RecordRaw, RecordFails, RequestManagerAccepts,
     SubmitReturns, SubmitFails, StreamTelemetry
<1>6. ASSUME NEW w \in Waiters, WaitTimesOut(w)  PROVE Goal
  BY <1>6, <1>a DEF WaitTimesOut
<1>7. ASSUME NEW h \in Sends, Webhook(h)  PROVE Goal
  BY <1>7, <1>a DEF Webhook, SendIrResult, SendFails, SkillTimesOut, FileWritten,
     IndexAndAnnounce, SaveFails
<1>8. ASSUME Poll  PROVE Goal
  <2>1. CASE PollReadsIndex
    <3>1. poll' = [at |-> "scanning", line |-> 0, upto |-> Len(index)] /\ index' = index
      BY <2>1 DEF PollReadsIndex, hookVars
    <3>. QED  BY <1>2, <3>1 DEF Goal, PollTypes, PollFound
  <2>2. CASE PollScans
    <3>1. CASE Hits = {}
      BY <1>b, <2>2, <3>1, ScanForm
    <3>2. CASE Hits # {}
      <4>1. poll' = [poll EXCEPT !.at = "reading", !.line = Hit] /\ index' = index
        BY <2>2, <3>2, ScanForm DEF hookVars
      <4>2. Hit \in Nat /\ Hit <= poll.upto /\ Hit \in 1..Len(index) /\ index[Hit] \in watched
        BY <1>0, <3>2, FoundLine
      <4>3. index[Hit] \in Requests
        BY <1>0, <4>2 DEF WaitTypes
      <4>4. PollTypes'
        BY <1>0, <1>3, <4>1, <4>2 DEF PollTypes
      <4>5. PollFound'
        BY <1>0, <4>1, <4>2, <4>3 DEF PollTypes, PollFound
      <4>. QED  BY <4>4, <4>5 DEF Goal
    <3>. QED  BY <3>1, <3>2
  <2>3. CASE PollReadsFile
    <3>1. poll' = [poll EXCEPT !.at = "scanning"] /\ index' = index
      BY <2>3 DEF PollReadsFile, hookVars
    <3>. QED  BY <1>0, <1>3, <3>1 DEF Goal, PollTypes, PollFound
  <2>. QED  BY <1>8, <2>1, <2>2, <2>3 DEF Poll
<1>9. ASSUME Restart  PROVE Goal
  BY <1>9, <1>b DEF Restart
<1>10. ASSUME UNCHANGED gatewayVars  PROVE Goal
  BY <1>a, <1>10 DEF gatewayVars
<1>11. ASSUME PollReadFails  PROVE Goal
  <2>1. poll' = [poll EXCEPT !.at = "scanning"] /\ index' = index
    BY <1>11 DEF PollReadFails, hookVars
  <2>. QED  BY <1>0, <1>3, <2>1 DEF Goal, PollTypes, PollFound
<1>12. Goal
  BY <1>5, <1>6, <1>7, <1>8, <1>9, <1>10, <1>11 DEF GatewayNext
<1>. QED  BY <1>4, <1>12 DEF Goal

LEMMA FilesBegunStep ==
  ASSUME OutboxTypes, [GatewayNext]_gatewayVars
  PROVE  FilesBegun' /\ \A r \in Requests : file[r] # "none" => file'[r] # "none"
<1>. DEFINE Goal == /\ \A r \in Requests : file[r] # "none" => file'[r] # "none"
                    /\ \A h \in Sends : InProgress(h)' => file'[h[1]] # "none"
<1>0. HookTypes /\ FilesBegun
  BY GatewayTypeParts DEF OutboxTypes, Parts
<1>a. ASSUME UNCHANGED <<hook, file>>  PROVE Goal
  BY <1>0, <1>a DEF FilesBegun, InProgress
<1>b. ASSUME NEW h \in Sends, UNCHANGED file,
             hook' = [hook EXCEPT ![h] = "done"] \/ hook' = [hook EXCEPT ![h] = "failed"]
      PROVE  Goal
  BY <1>0, <1>b DEF FilesBegun, InProgress, HookTypes
<1>1. ASSUME NEW r \in Requests, Chat(r)  PROVE Goal
  <2>1. UNCHANGED <<hook, file>>
    BY <1>1 DEF Chat, ChatReceive, RecordRaw, RecordFails, RequestManagerAccepts,
       SubmitReturns, SubmitFails, StreamTelemetry, hookVars
  <2>. QED  BY <2>1, <1>a
<1>2. ASSUME NEW w \in Waiters, WaitTimesOut(w)  PROVE Goal
  BY <1>2, <1>a DEF WaitTimesOut, hookVars
<1>3. ASSUME NEW h \in Sends, Webhook(h)  PROVE Goal
  <2>0. h[1] \in Requests /\ h = <<h[1], h[2]>> /\ \A g \in Sends : g[1] \in Requests
    BY SendForm
  <2>1. CASE SendIrResult(h[1], h[2])
    <3>1. file' = [file EXCEPT ![h[1]] = "torn"] /\ hook' = [hook EXCEPT ![h] = "writing"]
      BY <2>0, <2>1 DEF SendIrResult
    <3>. QED  BY <1>0, <2>0, <3>1 DEF FilesBegun, InProgress, HookTypes
  <2>2. CASE SendFails(h) \/ SkillTimesOut(h)
    <3>1. UNCHANGED <<hook, file>>
      BY <2>2 DEF SendFails, SkillTimesOut
    <3>. QED  BY <1>a, <3>1
  <2>3. CASE FileWritten(h)
    <3>1. PICK content \in {"torn", "whole"} :
            file' = [file EXCEPT ![h[1]] = content] /\ hook' = [hook EXCEPT ![h] = "appending"]
      BY <2>3 DEF FileWritten
    <3>. QED  BY <1>0, <2>0, <3>1 DEF FilesBegun, InProgress, HookTypes
  <2>4. CASE IndexAndAnnounce(h) \/ SaveFails(h)
    <3>1. /\ UNCHANGED file
          /\ hook' = [hook EXCEPT ![h] = "done"] \/ hook' = [hook EXCEPT ![h] = "failed"]
      BY <2>4 DEF IndexAndAnnounce, SaveFails
    <3>. QED  BY <1>b, <3>1
  <2>. HIDE DEF Goal
  <2>. QED  BY <1>3, <2>1, <2>2, <2>3, <2>4 DEF Webhook
<1>4. ASSUME Poll  PROVE Goal
  <2>1. UNCHANGED <<hook, file>>
    BY <1>4 DEF Poll, PollReadsIndex, PollScans, PollReadsFile, hookVars
  <2>. QED  BY <2>1, <1>a
<1>5. ASSUME Restart  PROVE Goal
  <2>1. UNCHANGED file /\ hook' = [h \in Sends |-> IF InProgress(h) THEN "failed" ELSE hook[h]]
    BY <1>5 DEF Restart
  <2>. QED  BY <1>0, <2>1 DEF FilesBegun, InProgress
<1>6. ASSUME UNCHANGED gatewayVars  PROVE Goal
  BY <1>a, <1>6 DEF gatewayVars, hookVars
<1>7. ASSUME PollReadFails  PROVE Goal
  BY <1>a, <1>7 DEF PollReadFails, hookVars
<1>8. Goal
  <2>. HIDE DEF Goal
  <2>. QED  BY <1>1, <1>2, <1>3, <1>4, <1>5, <1>6, <1>7 DEF GatewayNext
<1>9. \A i \in 1..Len(index') : index'[i] \in Requests => file'[index'[i]] # "none"
  <2>1. \A i \in 1..Len(index') : index'[i] \in Requests =>
          \/ i \in 1..Len(index) /\ index'[i] = index[i]
          \/ \E h \in Sends : hook[h] = "appending" /\ index'[i] = h[1]
    BY IndexGrows, Zenon DEF Grown, OutboxTypes
  <2>2. \A h \in Sends : hook[h] = "appending" => file[h[1]] # "none"
    BY <1>0 DEF FilesBegun, InProgress
  <2>3. \A i \in 1..Len(index') : index'[i] \in Requests => file[index'[i]] # "none"
    BY <1>0, <2>1, <2>2 DEF FilesBegun
  <2>. QED  BY <1>8, <2>3
<1>. QED  BY <1>8, <1>9 DEF FilesBegun

LEMMA OutboxTypesStep ==
  ASSUME OutboxTypes, [GatewayNext]_gatewayVars
  PROVE  OutboxTypes'
<1>1. Parts'
  BY ChatTypesStep, WaitTypesStep, HookTypesStep, PollTypesStep, CountTypesStep DEF Parts
<1>. QED  BY <1>1, GatewayTypeParts, WaitTypesStep, PollTypesStep, FilesBegunStep DEF OutboxTypes

\* Every variable of the gateway keeps its type, the poll stays inside the index,
\* and the bounds on faults and restarts hold.  (The whole of the gateway's chat,
\* webhook and poll handlers.)
THEOREM GatewayTypeCorrect == GatewaySpec => []GatewayTypeOK
<1>1. GatewayInit => OutboxTypes
  BY GatewayInitial
<1>2. OutboxTypes /\ [GatewayNext]_gatewayVars => OutboxTypes'
  BY OutboxTypesStep
<1>3. OutboxTypes => GatewayTypeOK
  BY DEF OutboxTypes
<1>. QED  BY <1>1, <1>2, <1>3, PTL DEF GatewaySpec
-----------------------------------------------------------------------------
(* Nobody is forgotten *)

\* Why the holder of a request's handler will hear of the answer.
Remembered(r) ==
  \/ r \in watched
  \/ poll.at = "reading" /\ index[poll.line] = r
  \/ \E n \in 1..MaxSends : InProgress(<<r, n>>) \/ hook[<<r, n>>] = "failed"
  \/ file[r] = "torn" \/ r \in unreadable

LEMMA NobodyForgottenStep ==
  ASSUME OutboxTypes, NobodyForgotten, [GatewayNext]_gatewayVars
  PROVE  NobodyForgotten'
<1>0. WaitTypes /\ HookTypes /\ PollTypes /\ HandlersOwn /\ PollFound /\ FilesBegun
  BY GatewayTypeParts DEF OutboxTypes, Parts
<1>. SUFFICES ASSUME NEW q \in Requests, handlers'[q] # NoWaiter  PROVE Remembered(q)'
  BY DEF NobodyForgotten, Remembered, InProgress
<1>a. handlers[q] # NoWaiter => Remembered(q)
  BY DEF NobodyForgotten, Remembered
<1>b. ASSUME handlers[q] # NoWaiter, UNCHANGED <<hookVars, poll>>, q \in watched => q \in watched',
             q \in unreadable => q \in unreadable'
      PROVE  Remembered(q)'
  BY <1>a, <1>b DEF Remembered, InProgress, hookVars
<1>c. ASSUME NEW r \in Requests, NEW kind, WaitForResponse(<<kind, r>>, r), UNCHANGED <<hookVars, poll>>
      PROVE  Remembered(q)'
  <2>1. CASE q = r
    BY <1>c, <2>1 DEF WaitForResponse, Remembered
  <2>2. CASE q # r
    <3>1. /\ handlers'[q] = handlers[q] /\ watched \subseteq watched'
          /\ q \in unreadable => q \in unreadable'
      BY <1>0, <1>c, <2>2 DEF WaitForResponse, WaitTypes
    <3>. QED  BY <1>b, <1>c, <3>1
  <2>. QED  BY <2>1, <2>2
<1>d. ASSUME UNCHANGED <<waitVars, hookVars, poll>>  PROVE Remembered(q)'
  BY <1>b, <1>d DEF waitVars
<1>1. ASSUME NEW r \in Requests, Chat(r)  PROVE Remembered(q)'
  <2>1. \/ UNCHANGED <<waitVars, hookVars, poll>>
        \/ /\ \E kind \in {"chat", "telemetry"} : WaitForResponse(<<kind, r>>, r)
           /\ UNCHANGED <<hookVars, poll>>
    BY <1>1 DEF Chat, ChatReceive, RecordRaw, RecordFails, RequestManagerAccepts,
       SubmitReturns, SubmitFails, StreamTelemetry
  <2>. QED  BY <1>c, <1>d, <2>1
<1>2. ASSUME NEW w \in Waiters, WaitTimesOut(w)  PROVE Remembered(q)'
  <2>1. /\ handlers' = [handlers EXCEPT ![w[2]] = NoWaiter] /\ w[2] \in Requests
        /\ UNCHANGED <<watched, unreadable, hookVars, poll>>
    BY <1>2, WaiterForm DEF WaitTimesOut
  <2>2. handlers[q] # NoWaiter
    BY <1>0, <2>1 DEF WaitTypes
  <2>. QED  BY <1>b, <2>1, <2>2
<1>3. ASSUME NEW h \in Sends, Webhook(h)  PROVE Remembered(q)'
  <2>0. h[1] \in Requests /\ h[2] \in 1..MaxSends /\ h = <<h[1], h[2]>>
        /\ \A n \in 1..MaxSends : <<q, n>> \in Sends
    BY SendForm DEF Sends
  <2>1. CASE SendIrResult(h[1], h[2])
    <3>1. /\ file' = [file EXCEPT ![h[1]] = "torn"] /\ hook' = [hook EXCEPT ![h] = "writing"]
          /\ UNCHANGED <<handlers, watched, unreadable, index, poll>>
      BY <2>0, <2>1 DEF SendIrResult, waitVars
    <3>2. Remembered(q)
      BY <1>a, <3>1
    <3>. QED  BY <1>0, <2>0, <3>1, <3>2 DEF Remembered, InProgress, HookTypes
  <2>2. CASE SendFails(h) \/ SkillTimesOut(h)
    <3>1. UNCHANGED <<handlers, watched, unreadable, hook, file, index, poll>>
      BY <2>2 DEF SendFails, SkillTimesOut, waitVars
    <3>. QED  BY <1>a, <3>1 DEF Remembered, InProgress
  <2>3. CASE FileWritten(h)
    <3>1. /\ \E content \in {"torn", "whole"} : file' = [file EXCEPT ![h[1]] = content]
          /\ hook' = [hook EXCEPT ![h] = "appending"]
          /\ UNCHANGED <<handlers, watched, unreadable, index, poll>>
      BY <2>3 DEF FileWritten, waitVars
    <3>2. Remembered(q)
      BY <1>a, <3>1
    <3>3. CASE q = h[1]
      BY <1>0, <2>0, <3>1, <3>3 DEF Remembered, InProgress, HookTypes
    <3>4. CASE q # h[1]
      BY <1>0, <2>0, <3>1, <3>2, <3>4 DEF Remembered, InProgress, HookTypes
    <3>. QED  BY <3>3, <3>4
  <2>4. CASE IndexAndAnnounce(h)
    <3>1. /\ handlers' = [handlers EXCEPT ![h[1]] = NoWaiter] /\ hook' = [hook EXCEPT ![h] = "done"]
          /\ UNCHANGED <<watched, unreadable, file, poll>>
      BY <2>4 DEF IndexAndAnnounce, HandleResponse
    <3>2. q # h[1] /\ Remembered(q)
      BY <1>0, <1>a, <3>1 DEF WaitTypes
    <3>3. poll.at = "reading" => index'[poll.line] = index[poll.line]
      BY <1>0, IndexGrows DEF PollFound, Grown, OutboxTypes
    <3>4. ASSUME NEW n \in 1..MaxSends, InProgress(<<q, n>>) \/ hook[<<q, n>>] = "failed"
          PROVE  Remembered(q)'
      <4>1. hook'[<<q, n>>] = hook[<<q, n>>]
        BY <1>0, <2>0, <3>1, <3>2 DEF HookTypes
      <4>. QED  BY <3>4, <4>1 DEF Remembered, InProgress
    <3>5. CASE q \in watched \/ file[q] = "torn" \/ q \in unreadable
      BY <3>1, <3>5 DEF Remembered
    <3>6. CASE poll.at = "reading" /\ index[poll.line] = q
      BY <3>1, <3>3, <3>6 DEF Remembered
    <3>. QED  BY <3>2, <3>4, <3>5, <3>6 DEF Remembered
  <2>5. CASE SaveFails(h)
    <3>1. /\ hook' = [hook EXCEPT ![h] = "failed"]
          /\ UNCHANGED <<handlers, watched, unreadable, file, poll>>
      BY <2>5 DEF SaveFails, waitVars
    <3>2. Remembered(q)
      BY <1>a, <3>1
    <3>3. poll.at = "reading" => index'[poll.line] = index[poll.line]
      BY <1>0, IndexGrows DEF PollFound, Grown, OutboxTypes
    <3>. QED  BY <1>0, <2>0, <3>1, <3>2, <3>3 DEF Remembered, InProgress, HookTypes
  <2>. QED  BY <1>3, <2>1, <2>2, <2>3, <2>4, <2>5 DEF Webhook
<1>4. ASSUME Poll  PROVE Remembered(q)'
  <2>1. CASE PollReadsIndex
    <3>1. UNCHANGED <<handlers, watched, unreadable, hook, file, index>> /\ poll.at = "idle"
      BY <2>1 DEF PollReadsIndex, waitVars, hookVars
    <3>. QED  BY <1>a, <3>1 DEF Remembered, InProgress
  <2>2. CASE PollScans
    <3>1. /\ UNCHANGED <<handlers, unreadable, hook, file, index>>
          /\ poll.at = "scanning" /\ Remembered(q)
      BY <1>a, <2>2 DEF PollScans, hookVars
    <3>2. CASE Hits = {}
      BY <2>2, <3>1, <3>2, ScanForm DEF Remembered, InProgress
    <3>3. CASE Hits # {}
      <4>1. poll' = [poll EXCEPT !.at = "reading", !.line = Hit] /\ watched' = watched \ {index[Hit]}
        BY <2>2, <3>3, ScanForm
      <4>. QED  BY <1>0, <3>1, <4>1 DEF Remembered, InProgress, PollTypes
    <3>. QED  BY <3>2, <3>3
  <2>3. CASE PollReadsFile
    <3>. DEFINE r == index[poll.line]
    <3>1. /\ r \in Requests /\ poll.at = "reading"
          /\ UNCHANGED <<watched, unreadable, hook, file, index>>
          /\ file[r] = "whole" => handlers' = [handlers EXCEPT ![r] = NoWaiter]
          /\ file[r] # "whole" => handlers' = handlers
      BY <1>0, <2>3 DEF PollReadsFile, PollFound, HandleResponse, hookVars
    <3>2. CASE q = r
      <4>1. file[r] # "whole" /\ file[r] # "none"
        BY <1>0, <2>3, <3>1, <3>2 DEF PollFound, FilesBegun, WaitTypes
      <4>. QED  BY <1>0, <3>1, <3>2, <4>1 DEF HookTypes, Remembered
    <3>3. CASE q # r
      <4>1. Remembered(q)
        BY <1>0, <1>a, <3>1, <3>3 DEF WaitTypes
      <4>. QED  BY <3>1, <3>3, <4>1 DEF Remembered, InProgress
    <3>. QED  BY <3>2, <3>3
  <2>. QED  BY <1>4, <2>1, <2>2, <2>3 DEF Poll
<1>5. ASSUME Restart  PROVE FALSE
  BY <1>5 DEF Restart
<1>6. CASE UNCHANGED gatewayVars
  BY <1>d, <1>6 DEF gatewayVars
<1>7. CASE PollReadFails
  <2>1. /\ UNCHANGED <<handlers, watched, hook, file, index>>
        /\ poll' = [poll EXCEPT !.at = "scanning"]
        /\ unreadable' = unreadable \cup {index[poll.line]}
    BY <1>7 DEF PollReadFails, hookVars
  <2>2. Remembered(q)
    BY <1>a, <2>1
  <2>. QED  BY <1>0, <2>1, <2>2 DEF Remembered, InProgress
<1>. QED  BY <1>1, <1>2, <1>3, <1>4, <1>5, <1>6, <1>7 DEF GatewayNext

\* A waiter that holds a request's handler will hear of the answer, unless a file
\* is left incomplete, a save fails or the poll cannot read the response: in any
\* order of registering, polling, announcing, timing out and restarting, for any
\* number of requests, of webhook calls and of failing accesses.  (waitForResponse,
\* pollOutbox and saveResponseToOutbox.)
THEOREM NobodyIsForgotten == GatewaySpec => []NobodyForgotten
<1>1. GatewayInit => OutboxTypes /\ NobodyForgotten
  BY GatewayInitial
<1>2. OutboxTypes /\ NobodyForgotten /\ [GatewayNext]_gatewayVars => OutboxTypes' /\ NobodyForgotten'
  BY OutboxTypesStep, NobodyForgottenStep
<1>. QED  BY <1>1, <1>2, PTL DEF GatewaySpec

-----------------------------------------------------------------------------
(* Whoever was told finds the answer *)

LEMMA ToldIndexedStep ==
  ASSUME OutboxTypes, ToldIndexed, [GatewayNext]_gatewayVars
  PROVE  ToldIndexed'
<1>0. WaitTypes /\ HookTypes /\ IndexTypes /\ HandlersOwn /\ PollFound /\ FilesBegun
  BY GatewayTypeParts DEF OutboxTypes, Parts
<1>1. \A r \in Requests : file[r] # "none" => file'[r] # "none"
  BY FilesBegunStep
<1>2. Grown(index')
  BY IndexGrows DEF OutboxTypes
<1>3. ASSUME NEW r \in Requests, Indexed(r)  PROVE Indexed(r)'
  <2>1. Len(index) \in Nat /\ Len(index') \in Nat /\ Len(index') >= Len(index)
    BY <1>0, <1>2 DEF IndexTypes, Grown
  <2>2. \A i \in 1..Len(index) : i \in 1..Len(index') /\ (index[i] = r => index'[i] = r)
                                 /\ (index[i] \in Broken => index'[i] \in Broken)
    BY <1>2, <2>1 DEF Grown
  <2>. QED  BY <1>3, <2>2 DEF Indexed
<1>. SUFFICES ASSUME NEW w \in Waiters, waiter'[w] = "told"
              PROVE  file'[w[2]] # "none" /\ Indexed(w[2])'
  BY DEF ToldIndexed, Indexed
<1>4. w[2] \in Requests
  BY WaiterForm
<1>5. CASE waiter[w] = "told"
  BY <1>1, <1>3, <1>4, <1>5 DEF ToldIndexed
<1>6. CASE waiter[w] # "told"
  <2>1. ASSUME NEW r \in Requests, Chat(r)  PROVE waiter'[w] # "told"
    BY <1>0, <1>6, <2>1 DEF Chat, ChatReceive, RecordRaw, RecordFails, RequestManagerAccepts,
       SubmitReturns, SubmitFails, StreamTelemetry, WaitForResponse, waitVars, WaitTypes
  <2>2. ASSUME NEW x \in Waiters, WaitTimesOut(x)  PROVE waiter'[w] # "told"
    BY <1>0, <1>6, <2>2 DEF WaitTimesOut, WaitTypes
  <2>3. ASSUME NEW h \in Sends, Webhook(h)  PROVE file'[w[2]] # "none" /\ Indexed(w[2])'
    <3>1. IndexAndAnnounce(h)
      BY <1>6, <2>3 DEF Webhook, SendIrResult, SendFails, SkillTimesOut, FileWritten, SaveFails,
         waitVars
    <3>2. h[1] \in Requests /\ hook[h] = "appending" /\ index' = WithLine(h[1])
      BY <3>1, SendForm DEF IndexAndAnnounce
    <3>3. w[2] = h[1]
      BY <1>0, <1>6, <3>1, <3>2, HandledForm DEF IndexAndAnnounce
    <3>4. \E i \in 1..Len(index') : index'[i] \in {h[1]} \cup Broken
      BY <3>2, LineGrows DEF OutboxTypes
    <3>5. file[w[2]] # "none"
      BY <1>0, <3>2, <3>3 DEF FilesBegun, InProgress
    <3>. QED  BY <1>1, <1>4, <3>3, <3>4, <3>5 DEF Indexed
  <2>4. ASSUME Poll  PROVE file'[w[2]] # "none" /\ Indexed(w[2])'
    <3>1. PollReadsFile
      BY <1>6, <2>4 DEF Poll, PollReadsIndex, PollScans, waitVars
    <3>2. poll.line \in 1..Len(index) /\ index[poll.line] \in Requests
      BY <1>0, <3>1 DEF PollReadsFile, PollFound
    <3>3. HandleResponse(index[poll.line])
      BY <1>6, <3>1 DEF PollReadsFile
    <3>4. w[2] = index[poll.line]
      BY <1>0, <1>6, <3>2, <3>3, HandledForm
    <3>5. file[w[2]] # "none" /\ Indexed(w[2])
      BY <1>0, <3>2, <3>4 DEF FilesBegun, Indexed
    <3>. QED  BY <1>1, <1>3, <1>4, <3>5
  <2>5. ASSUME Restart  PROVE waiter'[w] # "told"
    BY <1>6, <2>5 DEF Restart
  <2>6. ASSUME UNCHANGED gatewayVars  PROVE waiter'[w] # "told"
    BY <1>6, <2>6 DEF gatewayVars, waitVars
  <2>7. ASSUME PollReadFails  PROVE waiter'[w] # "told"
    BY <1>6, <2>7 DEF PollReadFails
  <2>. QED  BY <2>1, <2>2, <2>3, <2>4, <2>5, <2>6, <2>7 DEF GatewayNext
<1>. QED  BY <1>5, <1>6

LEMMA ToldFind ==
  ASSUME OutboxTypes, ToldIndexed  PROVE AnswerIsFound
<1>1. HookTypes
  BY GatewayTypeParts DEF OutboxTypes, Parts
<1>. SUFFICES ASSUME NEW w \in Waiters, waiter[w] = "told", file[w[2]] # "torn",
                     \A i \in 1..Len(index) : index[i] \notin Broken,
                     NEW reachable \in BOOLEAN
              PROVE  RequestStatus(w[2], reachable) = "completed"
  BY DEF AnswerIsFound
<1>2. w[2] \in Requests
  BY WaiterForm
<1>3. file[w[2]] = "whole"
  BY <1>1, <1>2 DEF ToldIndexed, HookTypes
<1>4. PICK i \in 1..Len(index) : index[i] = w[2]
  BY DEF ToldIndexed, Indexed
<1>5. Len(index) \in Nat
  BY IndexForm DEF OutboxTypes
<1>6. \A j \in 1..i - 1 : index[j] \notin Broken
  BY <1>5
<1>7. Lookup(w[2])
  BY <1>3, <1>4, <1>6 DEF Lookup
<1>. QED  BY <1>7 DEF RequestStatus

\* Whoever was told of an answer can ask for it later, also after restarts, and
\* gets it, unless a file is incomplete or a crash has damaged a line: because
\* the webhook appends the line before it announces, and because neither files
\* nor lines of requests ever go away.  (saveResponseToOutbox against
\* getRequestStatus.)
THEOREM ToldAnswersAreFound == GatewaySpec => []AnswerIsFound
<1>1. GatewayInit => OutboxTypes /\ ToldIndexed
  BY GatewayInitial
<1>2. OutboxTypes /\ ToldIndexed /\ [GatewayNext]_gatewayVars => OutboxTypes' /\ ToldIndexed'
  BY OutboxTypesStep, ToldIndexedStep
<1>3. OutboxTypes /\ ToldIndexed => AnswerIsFound
  BY ToldFind
<1>. QED  BY <1>1, <1>2, <1>3, PTL DEF GatewaySpec
-----------------------------------------------------------------------------
(* The request queue: one session *)

Statuses == {"new", "pending", "processing", "completed", "cancelled"}
Open == {"pending", "processing"}

\* A session's array, the statuses of requests, the index that is held and the
\* request being processed: the array has each request once, and the request
\* being processed is one of them.
LaneOK(q, st, w, b) ==
  /\ Distinct(q)
  /\ \A n \in 1..Len(q) : st[q[n]] # "new"
  /\ w = 0 => b = {}
  /\ w # 0 => \E n \in 1..Len(q) : b = {q[n]} /\ st[q[n]] = "processing"

\* What holds as well until a cancellation shifts the array below that index.
LaneWhole(q, st, w, b) ==
  /\ w # 0 => w \in 1..Len(q) /\ b = {q[w]}
  /\ \A n \in 1..Len(q) : st[q[n]] \in Open /\ (st[q[n]] = "processing" => q[n] \in b)

QueueInv ==
  /\ \A s \in Lanes :
       /\ LaneOK(queue[s], status, work[s], busy[s])
       /\ s \notin shifted => LaneWhole(queue[s], status, work[s], busy[s])
  /\ \A s, t \in Lanes : s # t => ToSet(queue[s]) \cap ToSet(queue[t]) = {}
  /\ shifted = {} => \A i \in Items : status[i] \in Open =>
                        \E s \in Lanes : i \in ToSet(queue[s])

LaneTypes ==
  /\ queue \in [Lanes -> Seq(Items)]
  /\ status \in [Items -> Statuses]
  /\ due \subseteq Items
  /\ work \in [Lanes -> 0..Cardinality(Items)]
  /\ busy \in [Lanes -> SUBSET Items]
  /\ shifted \subseteq Lanes

TaskTypes ==
  /\ task \in [Tasks -> {Nothing, "once", "cron", "done", "cancelled"}]
  /\ timers \subseteq {t \in Tasks : task[t] \in {"once", "cron"}}
  /\ fired \in [Tasks -> 0..MaxFirings]

LEMMA QueueTypeParts ==
  /\ QueueTypeOK <=> LaneTypes /\ TaskTypes
  /\ QueueTypeOK' <=> LaneTypes' /\ TaskTypes'
BY Zenon DEF QueueTypeOK, LaneTypes, TaskTypes, Statuses

LEMMA ElementForm ==
  ASSUME NEW q \in Seq(Items), NEW x
  PROVE  /\ x \in ToSet(q) <=> \E n \in 1..Len(q) : q[n] = x
         /\ \A n \in 1..Len(q) : q[n] \in Items /\ q[n] \in ToSet(q)
         /\ Len(q) \in Nat
BY ToSetElements

\* What processQueue takes up next, and what it makes of it.
First(q, st, d) ==
  CHOOSE n \in Eligible(q, st, d) : \A m \in Eligible(q, st, d) : n <= m
NextStatus(q, st, d) ==
  IF Eligible(q, st, d) = {} THEN st ELSE [st EXCEPT ![q[First(q, st, d)]] = "processing"]
NextWork(q, st, d) == IF Eligible(q, st, d) = {} THEN 0 ELSE First(q, st, d)
NextBusy(q, st, d) == IF Eligible(q, st, d) = {} THEN {} ELSE {q[First(q, st, d)]}

LEMMA FirstForm ==
  ASSUME NEW q \in Seq(Items), NEW st, NEW d, Eligible(q, st, d) # {}
  PROVE  First(q, st, d) \in 1..Len(q) /\ st[q[First(q, st, d)]] = "pending"
<1>. DEFINE E == Eligible(q, st, d)
<1>1. E \in SUBSET (1..Len(q)) /\ \A n \in E : st[q[n]] = "pending"
  BY DEF Eligible
<1>2. \E n \in E : \A m \in E : n <= m
  <2>1. E \in SUBSET Nat /\ E # {}
    BY <1>1
  <2>. HIDE DEF E
  <2>. QED  BY <2>1, LeastNatural, Zenon
<1>3. First(q, st, d) \in E
  BY <1>2, Zenon DEF First
<1>. QED  BY <1>1, <1>3

LEMMA LaneProcessed ==
  ASSUME NEW q \in Seq(Items), NEW st \in [Items -> Statuses], NEW d, Distinct(q),
         \A n \in 1..Len(q) : st[q[n]] # "new"
  PROVE  /\ LaneOK(q, NextStatus(q, st, d), NextWork(q, st, d), NextBusy(q, st, d))
         /\ (\A n \in 1..Len(q) : st[q[n]] = "pending") =>
              LaneWhole(q, NextStatus(q, st, d), NextWork(q, st, d), NextBusy(q, st, d))
         /\ NextStatus(q, st, d) \in [Items -> Statuses]
         /\ NextWork(q, st, d) \in 0..Cardinality(Items)
         /\ NextBusy(q, st, d) \subseteq Items
         /\ \A x \in Items : NextStatus(q, st, d)[x] # st[x] =>
              x \in ToSet(q) /\ st[x] = "pending" /\ NextStatus(q, st, d)[x] = "processing"
<1>. DEFINE f == First(q, st, d)
<1>0. Len(q) \in Nat /\ Cardinality(Items) \in Nat /\ Len(q) <= Cardinality(Items)
      /\ \A n \in 1..Len(q) : q[n] \in Items /\ q[n] \in ToSet(q)
  BY QueueAssumption, FS_CardinalityType, DistinctLength, ElementForm
<1>1. CASE Eligible(q, st, d) = {}
  <2>1. NextStatus(q, st, d) = st /\ NextWork(q, st, d) = 0 /\ NextBusy(q, st, d) = {}
    BY <1>1 DEF NextStatus, NextWork, NextBusy
  <2>2. LaneOK(q, st, 0, {})
    BY DEF LaneOK
  <2>3. (\A n \in 1..Len(q) : st[q[n]] = "pending") => LaneWhole(q, st, 0, {})
    BY DEF LaneWhole, Open
  <2>. QED  BY <1>0, <2>1, <2>2, <2>3
<1>2. CASE Eligible(q, st, d) # {}
  <2>. DEFINE new == [st EXCEPT ![q[f]] = "processing"]
  <2>1. NextStatus(q, st, d) = new /\ NextWork(q, st, d) = f /\ NextBusy(q, st, d) = {q[f]}
    BY <1>2 DEF NextStatus, NextWork, NextBusy
  <2>2. f \in 1..Len(q) /\ st[q[f]] = "pending" /\ q[f] \in Items
    BY <1>0, <1>2, FirstForm
  <2>3. /\ new \in [Items -> Statuses] /\ new[q[f]] = "processing"
        /\ \A x \in Items : x # q[f] => new[x] = st[x]
    BY <2>2 DEF Statuses
  <2>. HIDE DEF f, new
  <2>4. LaneOK(q, new, f, {q[f]})
    BY <1>0, <2>2, <2>3 DEF LaneOK
  <2>5. (\A n \in 1..Len(q) : st[q[n]] = "pending") => LaneWhole(q, new, f, {q[f]})
    BY <1>0, <2>2, <2>3 DEF LaneWhole, Open
  <2>6. f \in 0..Cardinality(Items) /\ {q[f]} \subseteq Items
    BY <1>0, <2>2
  <2>7. \A x \in Items : new[x] # st[x] => x \in ToSet(q) /\ st[x] = "pending" /\ new[x] = "processing"
    BY <1>0, <2>2, <2>3
  <2>. QED  BY <2>1, <2>3, <2>4, <2>5, <2>6, <2>7
<1>. QED  BY <1>1, <1>2

LEMMA ProcessForm ==
  ASSUME NEW STATE q, NEW STATE st, NEW STATE d, NEW s \in Lanes, ProcessQueue(s, q, st, d)
  PROVE  /\ queue' = [queue EXCEPT ![s] = q] /\ due' = d
         /\ status' = NextStatus(q, st, d)
         /\ work' = [work EXCEPT ![s] = NextWork(q, st, d)]
         /\ busy' = [busy EXCEPT ![s] = NextBusy(q, st, d)]
BY DEF ProcessQueue, NextStatus, NextWork, NextBusy, First

-----------------------------------------------------------------------------
(* A step in one session leaves the other sessions alone *)

\* What a step in the session may do to the array and to the statuses.
LaneChange(s) ==
  /\ \A t \in Lanes \ {s} : queue'[t] = queue[t] /\ work'[t] = work[t] /\ busy'[t] = busy[t]
  /\ \A x \in Items : status'[x] # status[x] => x \in ToSet(queue[s]) \/ status[x] = "new"
  /\ \A x \in ToSet(queue'[s]) : x \in ToSet(queue[s]) \/ status[x] = "new"
  /\ LaneOK(queue'[s], status', work'[s], busy'[s])
  /\ shifted \subseteq shifted' /\ shifted' \subseteq shifted \cup {s}
  /\ s \notin shifted' => LaneWhole(queue'[s], status', work'[s], busy'[s])
  /\ shifted' = {} => \A x \in Items : status'[x] \in Open =>
        x \in ToSet(queue'[s]) \/ (status[x] \in Open /\ x \notin ToSet(queue[s]))

LEMMA LaneChangeKeeps ==
  ASSUME LaneTypes, LaneTypes', QueueInv, NEW s \in Lanes, LaneChange(s)
  PROVE  QueueInv'
<1>1. ASSUME NEW t \in Lanes \ {s}
      PROVE  /\ queue'[t] = queue[t] /\ work'[t] = work[t] /\ busy'[t] = busy[t]
             /\ \A n \in 1..Len(queue[t]) : status'[queue[t][n]] = status[queue[t][n]]
  <2>1. queue[t] \in Seq(Items)
    BY DEF LaneTypes
  <2>2. ASSUME NEW n \in 1..Len(queue[t])
        PROVE  status'[queue[t][n]] = status[queue[t][n]]
    <3>1. queue[t][n] \in Items /\ queue[t][n] \in ToSet(queue[t])
      BY <2>1, ElementForm
    <3>2. queue[t][n] \notin ToSet(queue[s]) /\ status[queue[t][n]] # "new"
      BY <3>1 DEF QueueInv, LaneOK
    <3>. QED  BY <3>1, <3>2 DEF LaneChange
  <2>. QED  BY <2>2 DEF LaneChange
<1>2. ASSUME NEW t \in Lanes
      PROVE  /\ LaneOK(queue'[t], status', work'[t], busy'[t])
             /\ t \notin shifted' => LaneWhole(queue'[t], status', work'[t], busy'[t])
  <2>1. CASE t = s
    BY <2>1 DEF LaneChange
  <2>2. CASE t # s
    <3>1. LaneOK(queue[t], status, work[t], busy[t])
          /\ (t \notin shifted => LaneWhole(queue[t], status, work[t], busy[t]))
      BY DEF QueueInv
    <3>2. t \notin shifted' => t \notin shifted
      BY DEF LaneChange
    <3>. QED  BY <1>1, <2>2, <3>1, <3>2, SMTT(20) DEF LaneOK, LaneWhole
  <2>. QED  BY <2>1, <2>2
<1>3. ASSUME NEW t \in Lanes \ {s}  PROVE ToSet(queue'[s]) \cap ToSet(queue'[t]) = {}
  <2>1. queue'[t] = queue[t] /\ queue[t] \in Seq(Items)
    BY <1>1 DEF LaneTypes
  <2>2. ASSUME NEW x \in ToSet(queue'[s]), x \in ToSet(queue[t])  PROVE FALSE
    <3>1. x \in ToSet(queue[s]) \/ status[x] = "new"
      BY DEF LaneChange
    <3>2. x \notin ToSet(queue[s])
      BY <2>2 DEF QueueInv
    <3>3. PICK n \in 1..Len(queue[t]) : queue[t][n] = x
      BY <2>1, <2>2, ElementForm
    <3>4. status[x] # "new"
      BY <3>3 DEF QueueInv, LaneOK
    <3>. QED  BY <3>1, <3>2, <3>4
  <2>. QED  BY <2>1, <2>2
<1>4. ASSUME NEW t \in Lanes, NEW u \in Lanes, t # u  PROVE ToSet(queue'[t]) \cap ToSet(queue'[u]) = {}
  <2>1. CASE t # s /\ u # s
    BY <1>1, <1>4, <2>1 DEF QueueInv
  <2>. QED  BY <1>3, <1>4, <2>1
<1>5. ASSUME shifted' = {}, NEW i \in Items, status'[i] \in Open
      PROVE  \E t \in Lanes : i \in ToSet(queue'[t])
  <2>1. CASE i \in ToSet(queue'[s])
    BY <2>1
  <2>2. CASE i \notin ToSet(queue'[s])
    <3>1. status[i] \in Open /\ i \notin ToSet(queue[s]) /\ shifted = {}
      BY <1>5, <2>2 DEF LaneChange
    <3>2. PICK t \in Lanes : i \in ToSet(queue[t])
      BY <3>1 DEF QueueInv
    <3>. QED  BY <1>1, <3>1, <3>2
  <2>. QED  BY <2>1, <2>2
<1>. QED  BY <1>2, <1>4, <1>5 DEF QueueInv
-----------------------------------------------------------------------------
(* The steps of the request queue *)

QueueOK == QueueTypeOK /\ QueueInv

\* A request that is new is in no array.
LEMMA NewIsNowhere ==
  ASSUME LaneTypes, QueueInv, NEW i \in Items, status[i] = "new", NEW s \in Lanes
  PROVE  i \notin ToSet(queue[s])
<1>1. queue[s] \in Seq(Items)
  BY DEF LaneTypes
<1>2. \A n \in 1..Len(queue[s]) : status[queue[s][n]] # "new"
  BY DEF QueueInv, LaneOK
<1>. QED  BY <1>1, <1>2, ElementForm

\* The array with a new request at its end.
LEMMA Appended ==
  ASSUME LaneTypes, QueueInv, NEW i \in Items, status[i] = "new", NEW s \in Lanes
  PROVE  LET q == Append(queue[s], i)
             st == [status EXCEPT ![i] = "pending"]
         IN /\ q \in Seq(Items) /\ ToSet(q) = ToSet(queue[s]) \cup {i} /\ Distinct(q)
            /\ st \in [Items -> Statuses] /\ st[i] = "pending"
            /\ \A x \in Items : x # i => st[x] = status[x]
            /\ \A n \in 1..Len(q) : IF n = Len(queue[s]) + 1 THEN q[n] = i
                 ELSE n \in 1..Len(queue[s]) /\ q[n] = queue[s][n] /\ st[q[n]] = status[q[n]]
            /\ LaneOK(q, st, work[s], busy[s])
            /\ s \notin shifted => LaneWhole(q, st, work[s], busy[s])
<1>. DEFINE old == queue[s]
            q == Append(old, i)
            st == [status EXCEPT ![i] = "pending"]
<1>1. old \in Seq(Items) /\ Len(old) \in Nat
      /\ \A n \in 1..Len(old) : old[n] \in Items /\ old[n] \in ToSet(old)
  BY ElementForm DEF LaneTypes
<1>2. i \notin ToSet(old)
  BY NewIsNowhere
<1>3. /\ LaneOK(old, status, work[s], busy[s])
      /\ s \notin shifted => LaneWhole(old, status, work[s], busy[s])
  BY DEF QueueInv
<1>4. status \in [Items -> Statuses]
  BY DEF LaneTypes
<1>. HIDE DEF old
<1>5. q \in Seq(Items) /\ ToSet(q) = ToSet(old) \cup {i} /\ Distinct(q)
  BY <1>1, <1>2, <1>3, AppendDistinct DEF LaneOK
<1>6. Len(q) = Len(old) + 1 /\ q[Len(old) + 1] = i /\ \A n \in 1..Len(old) : q[n] = old[n]
  BY <1>1
<1>7. /\ st \in [Items -> Statuses] /\ st[i] = "pending"
      /\ \A x \in Items : x # i => st[x] = status[x]
  BY <1>4 DEF Statuses
<1>. HIDE DEF q, st
<1>8. ASSUME NEW n \in 1..Len(q)
      PROVE  IF n = Len(old) + 1 THEN q[n] = i
             ELSE n \in 1..Len(old) /\ q[n] = old[n] /\ q[n] # i /\ st[q[n]] = status[q[n]]
  BY <1>1, <1>2, <1>6, <1>7
<1>9. LaneOK(q, st, work[s], busy[s])
  <2>1. \A n \in 1..Len(q) : st[q[n]] # "new"
    BY <1>3, <1>7, <1>8 DEF LaneOK
  <2>2. ASSUME work[s] # 0  PROVE \E n \in 1..Len(q) : busy[s] = {q[n]} /\ st[q[n]] = "processing"
    <3>1. PICK n \in 1..Len(old) : busy[s] = {old[n]} /\ status[old[n]] = "processing"
      BY <1>3, <2>2 DEF LaneOK
    <3>2. n \in 1..Len(q) /\ n # Len(old) + 1
      BY <1>1, <1>6
    <3>. QED  BY <1>8, <3>1, <3>2
  <2>. QED  BY <1>3, <1>5, <2>1, <2>2 DEF LaneOK
<1>10. ASSUME s \notin shifted  PROVE LaneWhole(q, st, work[s], busy[s])
  <2>1. work[s] # 0 => work[s] \in 1..Len(q) /\ busy[s] = {q[work[s]]}
    BY <1>1, <1>3, <1>6, <1>10 DEF LaneWhole
  <2>2. \A n \in 1..Len(q) : st[q[n]] \in Open /\ (st[q[n]] = "processing" => q[n] \in busy[s])
    BY <1>3, <1>7, <1>8, <1>10 DEF LaneWhole, Open
  <2>. QED  BY <2>1, <2>2 DEF LaneWhole
<1>11. \A n \in 1..Len(q) : IF n = Len(old) + 1 THEN q[n] = i
                 ELSE n \in 1..Len(old) /\ q[n] = old[n] /\ st[q[n]] = status[q[n]]
  BY <1>8
<1>. QED  BY <1>5, <1>7, <1>9, <1>10, <1>11 DEF q, st, old

\* A request that only joins the array.
LEMMA JoinStep ==
  ASSUME LaneTypes, QueueInv, NEW i \in Items, status[i] = "new", NEW s \in Lanes,
         queue' = [queue EXCEPT ![s] = Append(@, i)], status' = [status EXCEPT ![i] = "pending"],
         due' \subseteq Items, UNCHANGED <<work, busy, shifted>>
  PROVE  LaneTypes' /\ LaneChange(s)
<1>. DEFINE q == Append(queue[s], i)
            st == [status EXCEPT ![i] = "pending"]
<1>1. /\ q \in Seq(Items) /\ ToSet(q) = ToSet(queue[s]) \cup {i}
      /\ st \in [Items -> Statuses]
      /\ \A x \in Items : x # i => st[x] = status[x]
      /\ LaneOK(q, st, work[s], busy[s])
      /\ s \notin shifted => LaneWhole(q, st, work[s], busy[s])
  BY Appended
<1>. HIDE DEF q, st
<1>2. queue' = [queue EXCEPT ![s] = q] /\ status' = st
  BY DEF q, st
<1>3. LaneTypes'
  BY <1>1, <1>2 DEF LaneTypes
<1>4. queue'[s] = q /\ \A t \in Lanes \ {s} : queue'[t] = queue[t]
  BY <1>2 DEF LaneTypes
<1>5. \A x \in Items : status'[x] # status[x] => status[x] = "new"
  BY <1>1, <1>2
<1>6. \A x \in ToSet(queue'[s]) : x \in ToSet(queue[s]) \/ status[x] = "new"
  BY <1>1, <1>4
<1>7. \A x \in Items : status'[x] \in Open =>
        x \in ToSet(queue'[s]) \/ (status[x] \in Open /\ x \notin ToSet(queue[s]))
  BY <1>1, <1>2, <1>4
<1>. QED  BY <1>1, <1>2, <1>3, <1>4, <1>5, <1>6, <1>7 DEF LaneChange

\* processQueue takes up the next request of an array that has lost one request
\* that is over, or none.
LEMMA ProcessStep ==
  ASSUME LaneTypes, QueueInv, NEW s \in Lanes,
         NEW STATE q, NEW STATE st, NEW STATE d, ProcessQueue(s, q, st, d), UNCHANGED shifted,
         q \in Seq(Items), st \in [Items -> Statuses], d \subseteq Items, Distinct(q),
         \A n \in 1..Len(q) : st[q[n]] # "new",
         s \notin shifted => \A n \in 1..Len(q) : st[q[n]] = "pending",
         \A x \in Items : st[x] # status[x] => x \in ToSet(queue[s]) \/ status[x] = "new",
         \A x \in ToSet(q) : x \in ToSet(queue[s]) \/ status[x] = "new",
         shifted = {} => \A x \in Items : st[x] \in Open =>
           x \in ToSet(q) \/ (status[x] \in Open /\ x \notin ToSet(queue[s]))
  PROVE  LaneTypes' /\ LaneChange(s)
<1>. DEFINE new == NextStatus(q, st, d)
            w == NextWork(q, st, d)
            b == NextBusy(q, st, d)
<1>1. /\ queue' = [queue EXCEPT ![s] = q] /\ due' = d /\ status' = new
      /\ work' = [work EXCEPT ![s] = w] /\ busy' = [busy EXCEPT ![s] = b]
  BY ProcessForm
<1>2. /\ LaneOK(q, new, w, b)
      /\ (\A n \in 1..Len(q) : st[q[n]] = "pending") => LaneWhole(q, new, w, b)
      /\ new \in [Items -> Statuses] /\ w \in 0..Cardinality(Items) /\ b \subseteq Items
      /\ \A x \in Items : new[x] # st[x] =>
           x \in ToSet(q) /\ st[x] = "pending" /\ new[x] = "processing"
  BY LaneProcessed
<1>. HIDE DEF new, w, b
<1>3. LaneTypes'
  BY <1>1, <1>2 DEF LaneTypes
<1>4. /\ queue'[s] = q /\ work'[s] = w /\ busy'[s] = b
      /\ \A t \in Lanes \ {s} : queue'[t] = queue[t] /\ work'[t] = work[t] /\ busy'[t] = busy[t]
  BY <1>1 DEF LaneTypes
<1>5. \A x \in Items : status'[x] # status[x] => x \in ToSet(queue[s]) \/ status[x] = "new"
  BY <1>1, <1>2
<1>6. shifted' = {} => \A x \in Items : status'[x] \in Open =>
        x \in ToSet(queue'[s]) \/ (status[x] \in Open /\ x \notin ToSet(queue[s]))
  BY <1>1, <1>2, <1>4
<1>. QED  BY <1>1, <1>2, <1>3, <1>4, <1>5, <1>6 DEF LaneChange

LEMMA AddStep ==
  ASSUME LaneTypes, QueueInv, NEW i \in Items, status[i] = "new", NEW s \in Lanes,
         Add(i, s), UNCHANGED shifted
  PROVE  LaneTypes' /\ LaneChange(s)
<1>1. due \subseteq Items
  BY DEF LaneTypes
<1>2. CASE work[s] # 0
  BY <1>1, <1>2, JoinStep DEF Add
<1>3. CASE work[s] = 0
  <2>. DEFINE q == Append(queue[s], i)
              st == [status EXCEPT ![i] = "pending"]
              d == due \cup {i}
  <2>1. ProcessQueue(s, q, st, d)
    BY <1>3 DEF Add
  <2>2. /\ q \in Seq(Items) /\ ToSet(q) = ToSet(queue[s]) \cup {i} /\ Distinct(q)
        /\ st \in [Items -> Statuses]
        /\ \A x \in Items : x # i => st[x] = status[x]
        /\ LaneOK(q, st, work[s], busy[s])
    BY Appended
  <2>a. s \notin shifted => \A n \in 1..Len(q) : st[q[n]] = "pending"
    <3>1. busy[s] = {}
      BY <1>3, <2>2 DEF LaneOK
    <3>2. s \notin shifted => LaneWhole(q, st, work[s], busy[s])
      BY Appended
    <3>. QED  BY <3>1, <3>2 DEF LaneWhole, Open
  <2>3. d \subseteq Items
    BY <1>1
  <2>. HIDE DEF q, st, d
  <2>4. \A n \in 1..Len(q) : st[q[n]] # "new"
    BY <2>2 DEF LaneOK
  <2>5. \A x \in Items : st[x] # status[x] => x \in ToSet(queue[s]) \/ status[x] = "new"
    BY <2>2
  <2>6. \A x \in ToSet(q) : x \in ToSet(queue[s]) \/ status[x] = "new"
    BY <2>2
  <2>7. \A x \in Items : st[x] \in Open =>
          x \in ToSet(q) \/ (status[x] \in Open /\ x \notin ToSet(queue[s]))
    BY <2>2
  <2>. QED  BY <2>1, <2>2, <2>a, <2>3, <2>4, <2>5, <2>6, <2>7, ProcessStep
<1>. QED  BY <1>2, <1>3

LEMMA FinishStep ==
  ASSUME LaneTypes, QueueInv, NEW s \in Lanes, FinishItem(s)
  PROVE  LaneTypes' /\ LaneChange(s)
<1>. DEFINE old == queue[s]
            w == work[s]
            q == IF w <= Len(old) THEN RemoveAt(old, w) ELSE old
            st == [i \in Items |-> IF i \in busy[s] THEN "completed" ELSE status[i]]
<1>1. ProcessQueue(s, q, st, due) /\ UNCHANGED shifted /\ w # 0
  BY DEF FinishItem
<1>2. /\ old \in Seq(Items) /\ Len(old) \in Nat
      /\ \A n \in 1..Len(old) : old[n] \in Items /\ old[n] \in ToSet(old)
      /\ \A x : x \in ToSet(old) <=> \E n \in 1..Len(old) : old[n] = x
  BY ElementForm DEF LaneTypes
<1>3. w \in Nat /\ due \subseteq Items /\ status \in [Items -> Statuses] /\ busy[s] \subseteq Items
  <2>1. Cardinality(Items) \in Nat /\ w \in 0..Cardinality(Items)
    BY QueueAssumption, FS_CardinalityType DEF LaneTypes
  <2>. QED  BY <2>1 DEF LaneTypes
<1>4. /\ Distinct(old) /\ \A n \in 1..Len(old) : status[old[n]] # "new"
      /\ \E n \in 1..Len(old) : busy[s] = {old[n]} /\ status[old[n]] = "processing"
      /\ s \notin shifted => LaneWhole(old, status, w, busy[s])
  BY <1>1 DEF QueueInv, LaneOK
<1>5. /\ st \in [Items -> Statuses]
      /\ \A x \in Items : st[x] = IF x \in busy[s] THEN "completed" ELSE status[x]
  BY <1>3 DEF Statuses
<1>. HIDE DEF old, w, st
<1>6. /\ q \in Seq(Items) /\ Distinct(q) /\ ToSet(q) \subseteq ToSet(old)
      /\ w <= Len(old) => ToSet(q) = ToSet(old) \ {old[w]}
  <2>1. CASE w <= Len(old)
    <3>1. w \in 1..Len(old)
      BY <1>1, <1>2, <1>3, <2>1
    <3>2. RemoveAt(old, w) \in Seq(Items) /\ Distinct(RemoveAt(old, w))
          /\ ToSet(RemoveAt(old, w)) = ToSet(old) \ {old[w]}
      BY <1>2, <1>4, <3>1, RemoveAtShortens, RemoveDistinct
    <3>3. q = RemoveAt(old, w)
      BY <2>1
    <3>. HIDE DEF q
    <3>. QED  BY <3>2, <3>3
  <2>2. CASE ~(w <= Len(old))
    BY <1>2, <1>4, <2>2
  <2>. QED  BY <2>1, <2>2
<1>. HIDE DEF q
<1>7. \A n \in 1..Len(q) : q[n] \in Items /\ q[n] \in ToSet(q) /\ q[n] \in ToSet(old)
  BY <1>6, ElementForm
<1>8. \A n \in 1..Len(q) : st[q[n]] # "new"
  BY <1>2, <1>4, <1>5, <1>7
<1>9. ASSUME s \notin shifted
      PROVE  /\ \A n \in 1..Len(q) : st[q[n]] = "pending"
             /\ busy[s] = {old[w]} /\ ToSet(q) = ToSet(old) \ {old[w]}
  <2>1. w \in 1..Len(old) /\ busy[s] = {old[w]}
    BY <1>1, <1>4, <1>9 DEF LaneWhole
  <2>2. ToSet(q) = ToSet(old) \ {old[w]}
    BY <1>2, <1>6, <2>1
  <2>3. \A x \in ToSet(old) : status[x] \in Open /\ (status[x] = "processing" => x \in busy[s])
    BY <1>2, <1>4, <1>9 DEF LaneWhole
  <2>4. \A x \in ToSet(q) : x \in Items => st[x] = "pending"
    BY <1>5, <2>1, <2>2, <2>3 DEF Open
  <2>. QED  BY <1>7, <2>1, <2>2, <2>4
<1>10. \A x \in Items : st[x] # status[x] => x \in ToSet(old)
  BY <1>2, <1>4, <1>5
<1>11. shifted = {} => \A x \in Items : st[x] \in Open =>
         x \in ToSet(q) \/ (status[x] \in Open /\ x \notin ToSet(old))
  BY <1>5, <1>9 DEF Open
<1>12. old = queue[s]
  BY DEF old
<1>. QED  BY <1>1, <1>3, <1>5, <1>6, <1>8, <1>9, <1>10, <1>11, <1>12, ProcessStep

LEMMA CancelStep ==
  ASSUME LaneTypes, QueueInv, NEW i \in Items, NEW s \in Lanes, CancelItem(i, s)
  PROVE  LaneTypes' /\ LaneChange(s)
<1>. DEFINE old == queue[s]
            w == work[s]
            b == busy[s]
<1>1. PICK n \in 1..Len(old) :
        /\ old[n] = i /\ queue' = [queue EXCEPT ![s] = RemoveAt(old, n)]
        /\ shifted' = IF n < w THEN shifted \cup {s} ELSE shifted
  BY DEF CancelItem
<1>. DEFINE q == RemoveAt(old, n)
<1>2. /\ status[i] = "pending" /\ status' = [status EXCEPT ![i] = "cancelled"]
      /\ UNCHANGED <<due, work, busy>>
  BY DEF CancelItem
<1>3. /\ old \in Seq(Items) /\ Len(old) \in Nat
      /\ \A k \in 1..Len(old) : old[k] \in Items /\ old[k] \in ToSet(old)
  BY ElementForm DEF LaneTypes
<1>4. w \in Nat
  <2>1. Cardinality(Items) \in Nat /\ w \in 0..Cardinality(Items)
    BY QueueAssumption, FS_CardinalityType DEF LaneTypes
  <2>. QED  BY <2>1
<1>5. LaneOK(old, status, w, b) /\ (s \notin shifted => LaneWhole(old, status, w, b))
  BY DEF QueueInv
<1>6. /\ status' \in [Items -> Statuses] /\ status'[i] = "cancelled"
      /\ \A x \in Items : x # i => status'[x] = status[x]
  BY <1>2 DEF LaneTypes, Statuses
<1>7. queue'[s] = q /\ \A t \in Lanes \ {s} : queue'[t] = queue[t]
  BY <1>1 DEF LaneTypes
<1>. HIDE DEF old, w, b
<1>8. /\ q \in Seq(Items) /\ Len(q) = Len(old) - 1 /\ Distinct(q) /\ ToSet(q) = ToSet(old) \ {i}
      /\ \A k \in 1..Len(q) : q[k] = IF k < n THEN old[k] ELSE old[k + 1]
  BY <1>1, <1>3, <1>5, RemoveAtShortens, RemoveAtElements, RemoveDistinct DEF LaneOK
<1>. HIDE DEF q
<1>9. \A k \in 1..Len(q) : q[k] \in Items /\ q[k] # i /\ q[k] \in ToSet(old)
  BY <1>8, ElementForm
<1>10. \A x \in ToSet(old) : \E k \in 1..Len(old) : old[k] = x
  BY <1>3, ElementForm
<1>11. LaneOK(q, status', w, b)
  <2>1. \A k \in 1..Len(q) : status'[q[k]] # "new"
    BY <1>5, <1>6, <1>9, <1>10 DEF LaneOK
  <2>2. ASSUME w # 0  PROVE \E k \in 1..Len(q) : b = {q[k]} /\ status'[q[k]] = "processing"
    <3>1. PICK k \in 1..Len(old) : b = {old[k]} /\ status[old[k]] = "processing"
      BY <1>5, <2>2 DEF LaneOK
    <3>2. old[k] \in ToSet(q) /\ old[k] # i /\ old[k] \in Items
      BY <1>2, <1>3, <1>8, <3>1
    <3>3. PICK m \in 1..Len(q) : q[m] = old[k]
      BY <1>8, <3>2, ElementForm
    <3>. QED  BY <1>6, <3>1, <3>2, <3>3
  <2>. QED  BY <1>5, <1>8, <2>1, <2>2 DEF LaneOK
<1>12. ASSUME s \notin shifted'  PROVE LaneWhole(q, status', w, b)
  <2>1. s \notin shifted /\ ~(n < w) /\ LaneWhole(old, status, w, b)
    BY <1>1, <1>5, <1>12
  <2>2. ASSUME w # 0  PROVE w \in 1..Len(q) /\ b = {q[w]}
    <3>1. w \in 1..Len(old) /\ b = {old[w]}
      BY <2>1, <2>2 DEF LaneWhole
    <3>2. status[old[w]] = "processing"
      BY <1>5, <2>2, <3>1 DEF LaneOK
    <3>3. w < n
      BY <1>1, <1>2, <1>4, <2>1, <3>2
    <3>. QED  BY <1>3, <1>4, <1>8, <3>1, <3>3
  <2>3. \A k \in 1..Len(q) : status'[q[k]] \in Open /\ (status'[q[k]] = "processing" => q[k] \in b)
    <3>1. \A x \in ToSet(old) : status[x] \in Open /\ (status[x] = "processing" => x \in b)
      BY <1>10, <2>1 DEF LaneWhole
    <3>. QED  BY <1>6, <1>9, <3>1
  <2>. QED  BY <2>2, <2>3 DEF LaneWhole
<1>13. LaneTypes'
  BY <1>1, <1>2, <1>6, <1>8 DEF LaneTypes, q
<1>14. \A x \in Items : status'[x] # status[x] => x \in ToSet(old)
  BY <1>1, <1>3, <1>6
<1>15. \A x \in Items : status'[x] \in Open =>
         x \in ToSet(q) \/ (status[x] \in Open /\ x \notin ToSet(old))
  BY <1>6, <1>8 DEF Open
<1>16. LaneOK(queue'[s], status', work'[s], busy'[s])
       /\ (s \notin shifted' => LaneWhole(queue'[s], status', work'[s], busy'[s]))
  BY <1>2, <1>7, <1>11, <1>12 DEF w, b
<1>17. /\ \A t \in Lanes \ {s} : queue'[t] = queue[t] /\ work'[t] = work[t] /\ busy'[t] = busy[t]
       /\ shifted \subseteq shifted' /\ shifted' \subseteq shifted \cup {s}
       /\ \A x \in ToSet(queue'[s]) : x \in ToSet(old)
  BY <1>1, <1>2, <1>7, <1>8
<1>18. shifted' = {} => \A x \in Items : status'[x] \in Open =>
         x \in ToSet(queue'[s]) \/ (status[x] \in Open /\ x \notin ToSet(old))
  BY <1>7, <1>15
<1>. QED  BY <1>13, <1>14, <1>16, <1>17, <1>18 DEF LaneChange, old

\* The scheduler's own state.
LEMMA TaskTypesStep ==
  ASSUME QueueTypeOK, [QueueNext]_queueVars
  PROVE  TaskTypes'
<1>0. TaskTypes
  BY QueueTypeParts
<1>a. UNCHANGED taskVars => TaskTypes'
  BY <1>0 DEF TaskTypes, taskVars
<1>1. ASSUME NEW i \in Items, NEW s \in Lanes, Enqueue(i, s) \/ ScheduleItem(i, s) \/ CancelItem(i, s)
      PROVE  TaskTypes'
  BY <1>1, <1>a DEF Enqueue, ScheduleItem, CancelItem
<1>2. ASSUME NEW t \in Tasks, NEW i \in Items, NEW s \in Lanes, NEW kind \in {"once", "cron"},
             ExecuteTask(t, i, s, kind)
      PROVE  TaskTypes'
  <2>1. fired' \in [Tasks -> 0..MaxFirings]
    BY <1>0, <1>2, QueueAssumption DEF ExecuteTask, TaskTypes
  <2>2. task' \in [Tasks -> {Nothing, "once", "cron", "done", "cancelled"}]
    BY <1>0, <1>2 DEF ExecuteTask, TaskTypes
  <2>3. timers' \subseteq {x \in Tasks : task'[x] \in {"once", "cron"}}
    BY <1>0, <1>2 DEF ExecuteTask, TaskTypes
  <2>. QED  BY <2>1, <2>2, <2>3 DEF TaskTypes
<1>3. ASSUME NEW t \in Tasks, NEW i \in Items, NEW s \in Lanes,
             ScheduleInPast(t, i, s) \/ TimerFires(t, i, s)
      PROVE  TaskTypes'
  <2>1. t \in timers => task[t] \in {"once", "cron"}
    BY <1>0 DEF TaskTypes
  <2>. QED  BY <1>2, <1>3, <2>1 DEF ScheduleInPast, TimerFires
<1>4. ASSUME NEW i \in Items, TimeComes(i)  PROVE TaskTypes'
  BY <1>4, <1>a DEF TimeComes
<1>5. ASSUME NEW s \in Lanes, FinishItem(s)  PROVE TaskTypes'
  BY <1>5, <1>a DEF FinishItem
<1>6. ASSUME NEW t \in Tasks, NEW kind \in {"once", "cron"}, ScheduleTask(t, kind)
      PROVE  TaskTypes'
  BY <1>0, <1>6 DEF ScheduleTask, TaskTypes
<1>7. ASSUME NEW t \in Tasks, CancelTask(t)  PROVE TaskTypes'
  BY <1>0, <1>7 DEF CancelTask, TaskTypes
<1>8. ASSUME DestroyScheduler  PROVE TaskTypes'
  BY <1>0, <1>8 DEF DestroyScheduler, TaskTypes
<1>9. CASE UNCHANGED queueVars
  BY <1>a, <1>9 DEF queueVars, taskVars
<1>. QED  BY <1>1, <1>3, <1>4, <1>5, <1>6, <1>7, <1>8, <1>9 DEF QueueNext

LEMMA QueueStep ==
  ASSUME QueueOK, [QueueNext]_queueVars
  PROVE  QueueOK'
<1>. DEFINE Goal == LaneTypes' /\ QueueInv'
<1>0. LaneTypes /\ QueueInv
  BY QueueTypeParts DEF QueueOK
<1>a. ASSUME NEW s \in Lanes, LaneTypes', LaneChange(s)  PROVE Goal
  BY <1>0, <1>a, LaneChangeKeeps
<1>b. ASSUME UNCHANGED <<queue, status, work, busy, shifted>>, due' \subseteq Items  PROVE Goal
  BY <1>0, <1>b DEF LaneTypes, QueueInv
<1>c. due \subseteq Items
  BY <1>0 DEF LaneTypes
<1>. HIDE DEF Goal
<1>1. ASSUME NEW i \in Items, NEW s \in Lanes, Enqueue(i, s)  PROVE Goal
  BY <1>0, <1>1, <1>a, AddStep DEF Enqueue
<1>2. ASSUME NEW i \in Items, NEW s \in Lanes, ScheduleItem(i, s)  PROVE Goal
  BY <1>0, <1>2, <1>a, <1>c, JoinStep DEF ScheduleItem
<1>3. ASSUME NEW i \in Items, NEW s \in Lanes, CancelItem(i, s)  PROVE Goal
  BY <1>0, <1>3, <1>a, CancelStep
<1>4. ASSUME NEW t \in Tasks, NEW i \in Items, NEW s \in Lanes,
             ScheduleInPast(t, i, s) \/ TimerFires(t, i, s)
      PROVE  Goal
  BY <1>0, <1>4, <1>a, AddStep DEF ScheduleInPast, TimerFires, ExecuteTask
<1>5. ASSUME NEW i \in Items, TimeComes(i)  PROVE Goal
  BY <1>5, <1>b, <1>c DEF TimeComes
<1>6. ASSUME NEW s \in Lanes, FinishItem(s)  PROVE Goal
  BY <1>0, <1>6, <1>a, FinishStep
<1>7. ASSUME NEW t \in Tasks, NEW kind \in {"once", "cron"}, ScheduleTask(t, kind) \/ CancelTask(t)
      PROVE  Goal
  BY <1>7, <1>b, <1>c DEF ScheduleTask, CancelTask
<1>8. ASSUME DestroyScheduler  PROVE Goal
  BY <1>8, <1>b, <1>c DEF DestroyScheduler
<1>9. ASSUME UNCHANGED queueVars  PROVE Goal
  BY <1>9, <1>b, <1>c DEF queueVars
<1>10. Goal
  BY <1>1, <1>2, <1>3, <1>4, <1>5, <1>6, <1>7, <1>8, <1>9 DEF QueueNext, QueueOK
<1>11. TaskTypes'
  BY TaskTypesStep DEF QueueOK
<1>. QED  BY <1>10, <1>11, QueueTypeParts DEF Goal, QueueOK

LEMMA QueueInitial == QueueInit => QueueOK
<1>. SUFFICES ASSUME QueueInit  PROVE QueueOK
  OBVIOUS
<1>1. Cardinality(Items) \in Nat /\ MaxFirings \in Nat
  BY QueueAssumption, FS_CardinalityType
<1>2. LaneTypes
  BY <1>1 DEF QueueInit, LaneTypes, Statuses
<1>3. TaskTypes
  BY <1>1 DEF QueueInit, TaskTypes
<1>4. \A s \in Lanes : queue[s] = <<>> /\ work[s] = 0 /\ busy[s] = {} /\ ToSet(queue[s]) = {}
  BY ToSetEmpty DEF QueueInit
<1>5. \A i \in Items : status[i] \notin Open
  BY DEF QueueInit, Open
<1>6. QueueInv
  BY <1>4, <1>5 DEF QueueInv, LaneOK, LaneWhole, Distinct
<1>. QED  BY <1>2, <1>3, <1>6, QueueTypeParts DEF QueueOK

\* The arrays hold a request once or not at all.
LEMMA PlacesCounted ==
  ASSUME QueueOK, NEW i \in Items
  PROVE  LET places == {p \in Lanes \X (1..Cardinality(Items)) :
                          p[2] <= Len(queue[p[1]]) /\ queue[p[1]][p[2]] = i}
         IN Cardinality(places) = 1 <=> \E s \in Lanes : i \in ToSet(queue[s])
<1>. DEFINE places == {p \in Lanes \X (1..Cardinality(Items)) :
                         p[2] <= Len(queue[p[1]]) /\ queue[p[1]][p[2]] = i}
<1>0. LaneTypes /\ QueueInv
  BY QueueTypeParts DEF QueueOK
<1>1. ASSUME NEW s \in Lanes
      PROVE  /\ Cardinality(Items) \in Nat
             /\ Len(queue[s]) \in 0..Cardinality(Items) /\ Distinct(queue[s])
             /\ i \in ToSet(queue[s]) <=> \E n \in 1..Len(queue[s]) : queue[s][n] = i
  <2>1. queue[s] \in Seq(Items) /\ Distinct(queue[s])
    BY <1>0 DEF LaneTypes, QueueInv, LaneOK
  <2>2. Cardinality(Items) \in Nat /\ Len(queue[s]) \in Nat /\ Len(queue[s]) <= Cardinality(Items)
    BY <2>1, QueueAssumption, FS_CardinalityType, DistinctLength, ElementForm
  <2>. QED  BY <2>1, <2>2, ElementForm
<1>2. CASE \E s \in Lanes : i \in ToSet(queue[s])
  <2>1. PICK s \in Lanes : i \in ToSet(queue[s])
    BY <1>2
  <2>2. PICK n \in 1..Len(queue[s]) : queue[s][n] = i
    BY <1>1, <2>1
  <2>3. <<s, n>> \in places
    BY <1>1, <2>2
  <2>4. ASSUME NEW p \in places  PROVE p = <<s, n>>
    <3>1. /\ p = <<p[1], p[2]>> /\ p[1] \in Lanes /\ p[2] \in 1..Cardinality(Items)
          /\ p[2] <= Len(queue[p[1]]) /\ queue[p[1]][p[2]] = i
      OBVIOUS
    <3>2. p[2] \in 1..Len(queue[p[1]])
      BY <1>1, <3>1
    <3>3. i \in ToSet(queue[p[1]])
      BY <1>1, <3>1, <3>2
    <3>4. p[1] = s
      BY <1>0, <2>1, <3>1, <3>3 DEF QueueInv
    <3>5. p[2] = n
      BY <1>1, <2>2, <3>1, <3>2, <3>4 DEF Distinct
    <3>. QED  BY <3>1, <3>4, <3>5
  <2>5. places = {<<s, n>>}
    <3>. HIDE DEF places
    <3>. QED  BY <2>3, <2>4
  <2>. HIDE DEF places
  <2>6. Cardinality(places) = 1
    BY <2>5, FS_Singleton
  <2>. QED  BY <1>2, <2>6 DEF places
<1>3. CASE ~ \E s \in Lanes : i \in ToSet(queue[s])
  <2>1. places = {}
    <3>. SUFFICES ASSUME NEW p \in places  PROVE FALSE
      OBVIOUS
    <3>1. /\ p[1] \in Lanes /\ p[2] \in 1..Cardinality(Items)
          /\ p[2] <= Len(queue[p[1]]) /\ queue[p[1]][p[2]] = i
      OBVIOUS
    <3>2. p[2] \in 1..Len(queue[p[1]])
      BY <1>1, <3>1
    <3>. QED  BY <1>1, <1>3, <3>1, <3>2
  <2>. HIDE DEF places
  <2>2. Cardinality(places) = 0
    BY <2>1, FS_EmptySet
  <2>. QED  BY <1>3, <2>2 DEF places
<1>. QED  BY <1>2, <1>3

LEMMA QueueLosesNothing ==
  ASSUME QueueOK  PROVE NoneLost
<1>0. LaneTypes /\ QueueInv
  BY QueueTypeParts DEF QueueOK
<1>1. ASSUME NEW s \in Lanes \ shifted, work[s] # 0
      PROVE  work[s] <= Len(queue[s]) /\ busy[s] = {queue[s][work[s]]}
  <2>1. work[s] \in 1..Len(queue[s]) /\ busy[s] = {queue[s][work[s]]}
    BY <1>0, <1>1 DEF QueueInv, LaneWhole
  <2>2. Len(queue[s]) \in Nat
    BY <1>0, ElementForm DEF LaneTypes
  <2>. QED  BY <2>1, <2>2
<1>2. ASSUME shifted = {}, NEW i \in Items
      PROVE  status[i] \in {"pending", "processing"} <=> \E s \in Lanes : i \in ToSet(queue[s])
  <2>1. ASSUME NEW s \in Lanes, i \in ToSet(queue[s])  PROVE status[i] \in Open
    <3>1. PICK n \in 1..Len(queue[s]) : queue[s][n] = i
      BY <1>0, <2>1, ElementForm DEF LaneTypes
    <3>. QED  BY <1>0, <1>2, <3>1 DEF QueueInv, LaneWhole
  <2>2. status[i] \in Open => \E s \in Lanes : i \in ToSet(queue[s])
    BY <1>0, <1>2 DEF QueueInv
  <2>. QED  BY <2>1, <2>2 DEF Open
<1>3. shifted = {} => \A i \in Items :
        status[i] \in {"pending", "processing"} <=>
          Cardinality({p \in Lanes \X (1..Cardinality(Items)) :
                         p[2] <= Len(queue[p[1]]) /\ queue[p[1]][p[2]] = i}) = 1
  BY <1>2, PlacesCounted
<1>. QED  BY <1>1, <1>3 DEF NoneLost

\* The arrays, the index that processQueue holds across its wait and the timers
\* keep their form, and a timer belongs to a task that is still scheduled, through
\* every order of enqueue, cancellation, processing and scheduled tasks.
THEOREM QueueTypeCorrect == QueueSpec => []QueueTypeOK
<1>1. QueueInit => QueueOK
  BY QueueInitial
<1>2. QueueOK /\ [QueueNext]_queueVars => QueueOK'
  BY QueueStep
<1>3. QueueOK => QueueTypeOK
  BY DEF QueueOK
<1>. QED  BY <1>1, <1>2, <1>3, PTL DEF QueueSpec

\* Unless a cancellation has shifted a session's array, the arrays hold, once
\* each, the requests that are pending or being processed, and the index that
\* processQueue holds across its wait is that of the request it processes: for
\* any number of sessions, requests and tasks of the scheduler.  (enqueue,
\* processQueue and cancelRequest of request-queue.service.ts.)
THEOREM NoRequestLost == QueueSpec => []NoneLost
<1>1. QueueInit => QueueOK
  BY QueueInitial
<1>2. QueueOK /\ [QueueNext]_queueVars => QueueOK'
  BY QueueStep
<1>3. QueueOK => NoneLost
  BY QueueLosesNothing
<1>. QED  BY <1>1, <1>2, <1>3, PTL DEF QueueSpec

=============================================================================
