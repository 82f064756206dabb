------------------------------- MODULE Gateway -------------------------------
(***************************************************************************)
(* The gateway's way from a chat request to its answer                     *)
(* (agent-kernel/apps/gateway/src: gateway/, core/storage.service.ts,      *)
(* router/, raw-request/, grpc/) and back from the kernel's gateway skill  *)
(* (kernel-v2/src/skills/gateway_skill.rs): a request is recorded and      *)
(* handed to the request manager; the kernel posts the answer to a         *)
(* webhook, which writes it into the outbox, appends a line to the         *)
(* outbox's index and announces it; clients wait for it by request id, and *)
(* a poll of the index finds what was announced before anybody waited.     *)
(*                                                                         *)
(* The gateway is one Node.js process: an action is the code between two   *)
(* suspensions on I/O or timers.  Restart stands for its death and start.  *)
(***************************************************************************)
EXTENDS Integers, Sequences, FiniteSets, SequencesExt

CONSTANTS
  Requests,     \* chat requests, each with an id of its own
  Users,        \* users who send them
  Sessions,     \* session ids that clients may name
  MaxSends,     \* bound on the results the kernel posts for one request
  MaxFaults,    \* bound on file accesses that fail
  MaxRestarts   \* bound on restarts of the gateway

\* What a line of the index may be besides a request: the part of a line a
\* crash has left, and that part with the next line glued to it.
Broken == {"torn", "glued"}

ASSUME GatewayAssumption ==
  /\ MaxSends \in Nat /\ MaxFaults \in Nat /\ MaxRestarts \in Nat
  /\ IsFiniteSet(Requests) /\ IsFiniteSet(Users) /\ IsFiniteSet(Sessions)
  /\ Requests \cap (Sessions \cup Broken) = {}

VARIABLES
  chat,        \* where handleChatRequest is with each request
  registered,  \* RouterService.sessions, in the order of registration
  asked,       \* the requests the request manager has accepted
  handlers,    \* GatewayService.responseHandlers: who is told of an answer
  waiter,      \* the promises waitForResponse has returned
  watched,     \* StorageService.watchedRequestIds
  unreadable,  \* requests whose response the poll could not read (history)
  skill,       \* the kernel's calls of the webhook
  hook,        \* the webhook's side of each call
  file,        \* the response file of each request
  mixed,       \* requests whose response file two webhooks wrote at once
  index,       \* the lines of outbox/index.jsonl
  poll,        \* the poll loop
  faults, restarts

chatVars == <<chat, registered, asked>>
waitVars == <<handlers, waiter, watched, unreadable>>
hookVars == <<skill, hook, file, mixed, index>>
gatewayVars == <<chatVars, waitVars, hookVars, poll, faults, restarts>>

NoWaiter == <<"nobody">>
Waiters == {"chat", "telemetry"} \X Requests
Sends == Requests \X (1..MaxSends)
Idle == [at |-> "idle", line |-> 0, upto |-> 0]

GatewayInit ==
  /\ chat = [r \in Requests |-> "new"]
  /\ registered = <<>>
  /\ asked = {}
  /\ handlers = [r \in Requests |-> NoWaiter]
  /\ waiter = [w \in Waiters |-> "none"]
  /\ watched = {}
  /\ unreadable = {}
  /\ skill = [h \in Sends |-> "unsent"]
  /\ hook = [h \in Sends |-> "none"]
  /\ file = [r \in Requests |-> "none"]
  /\ mixed = {}
  /\ index = <<>>
  /\ poll = Idle
  /\ faults = 0
  /\ restarts = 0

-----------------------------------------------------------------------------
(* handleChatRequest *)

\* The places of a user's sessions.
SessionsOf(u) == {i \in 1..Len(registered) : registered[i].user = u}

\* The session registered last: nobody tells the router of later activity, and
\* isProcessing stays false, since the request queue that would is not loaded.
\* A new session's id is written as the request that creates it.
DetermineRoute(r, u) ==
  IF SessionsOf(u) = {} THEN r
  ELSE registered[CHOOSE i \in SessionsOf(u) : \A k \in SessionsOf(u) : k <= i].session

\* Map.set: a session that another user has registered changes hands.
RegisterSession(s, u) ==
  LET old == {i \in 1..Len(registered) : registered[i].session = s}
      others == IF old = {} THEN registered ELSE RemoveAt(registered, CHOOSE i \in old : TRUE)
  IN Append(others, [session |-> s, user |-> u])

ChatReceive(r, u, named) ==
  LET s == IF named = {} THEN DetermineRoute(r, u) ELSE CHOOSE n \in named : TRUE
      known == \E i \in SessionsOf(u) : registered[i].session = s
  IN /\ chat[r] = "new"
     /\ registered' = IF known THEN registered ELSE RegisterSession(s, u)
     /\ chat' = [chat EXCEPT ![r] = "recording"]
     /\ UNCHANGED <<asked, waitVars, hookVars, poll, faults, restarts>>

\* saveRawRequest has written the file and its index line; the conversion of the
\* request touches no file, since a chat request has no attachment.
RecordRaw(r) ==
  /\ chat[r] = "recording"
  /\ chat' = [chat EXCEPT ![r] = "asking"]
  /\ UNCHANGED <<registered, asked, waitVars, hookVars, poll, faults, restarts>>

RecordFails(r) ==
  /\ chat[r] = "recording" /\ faults < MaxFaults
  /\ chat' = [chat EXCEPT ![r] = "refused"]
  /\ faults' = faults + 1
  /\ UNCHANGED <<registered, asked, waitVars, hookVars, poll, restarts>>

\* The request manager's side of submitRequest.
RequestManagerAccepts(r) ==
  /\ chat[r] = "asking" /\ r \notin asked
  /\ asked' = asked \cup {r}
  /\ UNCHANGED <<chat, registered, waitVars, hookVars, poll, faults, restarts>>

\* Mutant: the outbox is not watched for the request.
WaitUnwatched(w, r) ==
  /\ waiter' = [waiter EXCEPT ![w] = "waiting"]
  /\ handlers' = [handlers EXCEPT ![r] = w]
  /\ unreadable' = unreadable \ {r}
  /\ UNCHANGED watched

\* One handler per request: a second waiter takes the place of the first, whose
\* timer runs on.
WaitForResponse(w, r) ==
  /\ waiter' = [waiter EXCEPT ![w] = "waiting"]
  /\ handlers' = [handlers EXCEPT ![r] = w]
  /\ watched' = watched \cup {r}
  /\ unreadable' = unreadable \ {r}

\* submitRequest returns; a streamed chat goes on to wait, a plain one is done.
SubmitReturns(r) ==
  /\ chat[r] = "asking" /\ r \in asked
  /\ chat' = [chat EXCEPT ![r] = "accepted"]
  /\ \/ WaitForResponse(<<"chat", r>>, r)
     \/ UNCHANGED waitVars
  /\ UNCHANGED <<registered, asked, hookVars, poll, faults, restarts>>

\* The call fails, whether or not the request manager has taken the request.
SubmitFails(r) ==
  /\ chat[r] = "asking" /\ faults < MaxFaults
  /\ chat' = [chat EXCEPT ![r] = "refused"]
  /\ faults' = faults + 1
  /\ UNCHANGED <<registered, asked, waitVars, hookVars, poll, restarts>>

\* streamTelemetry: a client asks for the telemetry of a request it has sent.
StreamTelemetry(r) ==
  /\ chat[r] = "accepted" /\ waiter[<<"telemetry", r>>] = "none"
  /\ WaitForResponse(<<"telemetry", r>>, r)
  /\ UNCHANGED <<chatVars, hookVars, poll, faults, restarts>>

\* The timer of a waiter: it deletes the request's handler, whoever's it is.
WaitTimesOut(w) ==
  /\ waiter[w] = "waiting"
  /\ waiter' = [waiter EXCEPT ![w] = "timed out"]
  /\ handlers' = [handlers EXCEPT ![w[2]] = NoWaiter]
  /\ UNCHANGED <<chatVars, watched, unreadable, hookVars, poll, faults, restarts>>

-----------------------------------------------------------------------------
(* The webhook and the outbox *)

\* The listener of the outbox; without a handler the announcement is lost.
HandleResponse(r) ==
  /\ waiter' = IF handlers[r] = NoWaiter THEN waiter
               ELSE [waiter EXCEPT ![handlers[r]] = "told"]
  /\ handlers' = [handlers EXCEPT ![r] = NoWaiter]

InProgress(h) == hook[h] \in {"writing", "appending"}

\* The skill posts; a call follows the one before it, which may have timed out.
\* The webhook opens the response file, which empties it.
SendIrResult(r, n) ==
  /\ r \in asked /\ skill[<<r, n>>] = "unsent"
  /\ n > 1 => skill[<<r, n - 1>>] \in {"succeeded", "failed"}
  /\ skill' = [skill EXCEPT ![<<r, n>>] = "waiting"]
  /\ hook' = [hook EXCEPT ![<<r, n>>] = "writing"]
  /\ file' = [file EXCEPT ![r] = "torn"]
  /\ mixed' = IF \E k \in 1..MaxSends : hook[<<r, k>>] = "writing"
              THEN mixed \cup {r} ELSE mixed \ {r}
  /\ UNCHANGED <<chatVars, waitVars, index, poll, faults, restarts>>

\* The gateway cannot be reached, or cannot make the outbox's directory.
SendFails(h) ==
  /\ h[1] \in asked /\ skill[h] = "unsent" /\ faults < MaxFaults
  /\ h[2] > 1 => skill[<<h[1], h[2] - 1>>] \in {"succeeded", "failed"}
  /\ skill' = [skill EXCEPT ![h] = "failed"]
  /\ faults' = faults + 1
  /\ UNCHANGED <<chatVars, waitVars, hook, file, mixed, index, poll, restarts>>

\* The skill gives up after five seconds, the webhook runs on.
SkillTimesOut(h) ==
  /\ skill[h] = "waiting"
  /\ skill' = [skill EXCEPT ![h] = "failed"]
  /\ UNCHANGED <<chatVars, waitVars, hook, file, mixed, index, poll, faults, restarts>>

\* What two writers of one file leave is a whole response or a mixture.
FileWritten(h) ==
  /\ hook[h] = "writing"
  /\ hook' = [hook EXCEPT ![h] = "appending"]
  /\ file' \in {[file EXCEPT ![h[1]] = content] : content \in
        IF \E k \in 1..MaxSends : k # h[2] /\ hook[<<h[1], k>>] = "writing" THEN {"torn"}
        ELSE IF h[1] \in mixed THEN {"whole", "torn"} ELSE {"whole"}}
  /\ UNCHANGED <<chatVars, waitVars, skill, mixed, index, poll, faults, restarts>>

WithLine(r) ==
  IF index # <<>> /\ index[Len(index)] = "torn"
  THEN [index EXCEPT ![Len(index)] = "glued"] ELSE Append(index, r)

Answered(h) == IF skill[h] = "waiting" THEN [skill EXCEPT ![h] = "succeeded"] ELSE skill

\* Mutant: the answer is announced and the line is not written.
AnnounceUnindexed(h) ==
  /\ hook[h] = "appending"
  /\ hook' = [hook EXCEPT ![h] = "done"]
  /\ HandleResponse(h[1])
  /\ skill' = Answered(h)
  /\ UNCHANGED <<chatVars, watched, unreadable, file, mixed, index, poll, faults, restarts>>

\* The line is appended, then the answer announced, then the call answered.
IndexAndAnnounce(h) ==
  /\ hook[h] = "appending"
  /\ hook' = [hook EXCEPT ![h] = "done"]
  /\ index' = WithLine(h[1])
  /\ HandleResponse(h[1])
  /\ skill' = Answered(h)
  /\ UNCHANGED <<chatVars, watched, unreadable, file, mixed, poll, faults, restarts>>

\* What an append that is broken off may have left of the lines.
LinesLeft(h) == {index} \cup (IF hook[h] = "appending" THEN {WithLine("torn")} ELSE {})

\* saveResponseToOutbox throws, the webhook answers 500.
SaveFails(h) ==
  /\ InProgress(h) /\ faults < MaxFaults
  /\ hook' = [hook EXCEPT ![h] = "failed"]
  /\ skill' = IF skill[h] = "waiting" THEN [skill EXCEPT ![h] = "failed"] ELSE skill
  /\ index' \in LinesLeft(h)
  /\ faults' = faults + 1
  /\ UNCHANGED <<chatVars, waitVars, file, mixed, poll, restarts>>

-----------------------------------------------------------------------------
(* pollOutbox *)

PollReadsIndex ==
  /\ poll.at = "idle"
  /\ poll' = [at |-> "scanning", line |-> 0, upto |-> Len(index)]
  /\ UNCHANGED <<chatVars, waitVars, hookVars, faults, restarts>>

\* Mutant: the loop starts behind the line it should start with.
PollSkips ==
  LET hits == {i \in poll.line + 2..poll.upto : index[i] \in watched}
      i == CHOOSE x \in hits : \A y \in hits : x <= y
  IN /\ poll.at = "scanning"
     /\ IF hits = {} THEN poll' = Idle /\ UNCHANGED watched
        ELSE /\ poll' = [poll EXCEPT !.at = "reading", !.line = i]
             /\ watched' = watched \ {index[i]}
     /\ UNCHANGED <<chatVars, handlers, waiter, unreadable, hookVars, faults, restarts>>

\* The loop runs without a suspension up to the next line that is watched for.
\* Lines that do not parse are skipped.
PollScans ==
  LET hits == {i \in poll.line + 1..poll.upto : index[i] \in watched}
      i == CHOOSE x \in hits : \A y \in hits : x <= y
  IN /\ poll.at = "scanning"
     /\ IF hits = {} THEN poll' = Idle /\ UNCHANGED watched
        ELSE /\ poll' = [poll EXCEPT !.at = "reading", !.line = i]
             /\ watched' = watched \ {index[i]}
     /\ UNCHANGED <<chatVars, handlers, waiter, unreadable, hookVars, faults, restarts>>

\* A response that does not parse is passed over, and no longer watched for.
PollReadsFile ==
  LET r == index[poll.line] IN
  /\ poll.at = "reading"
  /\ poll' = [poll EXCEPT !.at = "scanning"]
  /\ IF file[r] = "whole" THEN HandleResponse(r) ELSE UNCHANGED <<handlers, waiter>>
  /\ UNCHANGED <<chatVars, watched, unreadable, hookVars, faults, restarts>>

\* The file cannot be read: the error is swallowed like that of a line that does
\* not parse, and the request has left the watched ones already.  (A read of the
\* index that fails leaves the poll idle.)
PollReadFails ==
  /\ poll.at = "reading" /\ faults < MaxFaults
  /\ poll' = [poll EXCEPT !.at = "scanning"]
  /\ unreadable' = unreadable \cup {index[poll.line]}
  /\ faults' = faults + 1
  /\ UNCHANGED <<chatVars, handlers, waiter, watched, hookVars, restarts>>

-----------------------------------------------------------------------------
(* The gateway dies and starts again: memory is lost, files stay as they are.  *)

LinesAfterCrash ==
  {index} \cup UNION {IF hook[h] = "appending" THEN LinesLeft(h) \cup {WithLine(h[1])} ELSE {} :
                        h \in Sends}

Restart ==
  /\ restarts < MaxRestarts
  /\ restarts' = restarts + 1
  /\ chat' = [r \in Requests |->
                IF chat[r] \in {"recording", "asking"} THEN "refused" ELSE chat[r]]
  /\ registered' = <<>>
  /\ handlers' = [r \in Requests |-> NoWaiter]
  /\ waiter' = [w \in Waiters |-> IF waiter[w] = "waiting" THEN "gone" ELSE waiter[w]]
  /\ watched' = {} /\ unreadable' = {}
  /\ skill' = [h \in Sends |->
                 IF InProgress(h) /\ skill[h] = "waiting" THEN "failed" ELSE skill[h]]
  /\ hook' = [h \in Sends |-> IF InProgress(h) THEN "failed" ELSE hook[h]]
  /\ index' \in LinesAfterCrash
  /\ poll' = Idle
  /\ UNCHANGED <<asked, file, mixed, faults>>

-----------------------------------------------------------------------------

Chat(r) ==
  \/ \E u \in Users, named \in {{}} \cup {{s} : s \in Sessions} : ChatReceive(r, u, named)
  \/ RecordRaw(r) \/ RecordFails(r)
  \/ RequestManagerAccepts(r) \/ SubmitReturns(r) \/ SubmitFails(r)
  \/ StreamTelemetry(r)

Webhook(h) ==
  \/ SendIrResult(h[1], h[2]) \/ SendFails(h) \/ SkillTimesOut(h)
  \/ FileWritten(h) \/ IndexAndAnnounce(h) \/ SaveFails(h)

Poll == PollReadsIndex \/ PollScans \/ PollReadsFile

GatewayNext ==
  \/ \E r \in Requests : Chat(r)
  \/ \E w \in Waiters : WaitTimesOut(w)
  \/ \E h \in Sends : Webhook(h)
  \/ Poll \/ PollReadFails
  \/ Restart

\* The poll repeats every half second and file accesses end; nothing is assumed
\* of clients, of the request manager, of the kernel or of the five minutes of a
\* waiter.
GatewayFairness ==
  /\ WF_gatewayVars(Poll)
  /\ \A h \in Sends : WF_gatewayVars(FileWritten(h) \/ IndexAndAnnounce(h))

GatewaySpec == GatewayInit /\ [][GatewayNext]_gatewayVars /\ GatewayFairness

-----------------------------------------------------------------------------
(* Properties *)

GatewayTypeOK ==
  /\ chat \in [Requests -> {"new", "recording", "asking", "accepted", "refused"}]
  /\ registered \in Seq([session : Sessions \cup Requests, user : Users])
  /\ asked \subseteq Requests /\ watched \subseteq Requests /\ mixed \subseteq Requests
  /\ unreadable \subseteq Requests
  /\ handlers \in [Requests -> Waiters \cup {NoWaiter}]
  /\ waiter \in [Waiters -> {"none", "waiting", "told", "timed out", "gone"}]
  /\ skill \in [Sends -> {"unsent", "waiting", "succeeded", "failed"}]
  /\ hook \in [Sends -> {"none", "writing", "appending", "done", "failed"}]
  /\ file \in [Requests -> {"none", "torn", "whole"}]
  /\ index \in Seq(Requests \cup Broken)
  /\ poll \in [at : {"idle", "scanning", "reading"}, line : Nat, upto : Nat]
  /\ poll.line <= poll.upto /\ poll.upto <= Len(index)
  /\ faults \in 0..MaxFaults /\ restarts \in 0..MaxRestarts

\* A waiter that holds a request's handler will hear of the answer: the outbox
\* is watched for the request, or the poll is reading its response, or a webhook
\* that has begun to save it will announce it.  The exceptions are a file that
\* was left incomplete, a save that failed and a response that the poll could not
\* read, which it does not try again.  (waitForResponse, pollOutbox and
\* saveResponseToOutbox of gateway.service.ts and storage.service.ts, which
\* register, unregister and announce on both sides of file accesses.)
NobodyForgotten ==
  \A r \in Requests : handlers[r] # NoWaiter =>
    \/ r \in watched
    \/ poll.at = "reading" /\ index[poll.line] = r
    \/ \E n \in 1..MaxSends : InProgress(<<r, n>>) \/ hook[<<r, n>>] = "failed"
    \/ file[r] = "torn" \/ r \in unreadable

\* getResponseFromOutbox: the first line of the request, unless a line before it
\* does not parse; then its file.
Lookup(r) ==
  /\ \E i \in 1..Len(index) :
       index[i] = r /\ \A j \in 1..i - 1 : index[j] \notin Broken
  /\ file[r] = "whole"

\* getRequestStatus: the request manager's answer is a name where the table has
\* numbers, so it finds nothing there; when the request manager does not answer
\* the index decides.
RequestStatus(r, reachable) ==
  IF Lookup(r) THEN "completed"
  ELSE IF reachable THEN "not_found"
  ELSE IF \E i \in 1..Len(index) :
            index[i] = r /\ \A j \in 1..i - 1 : index[j] \notin Broken
       THEN "completed" ELSE "not_found"

\* Whoever was told of an answer can ask for it later, also after a restart, and
\* gets it, unless a later response is just being written, a file was left
\* incomplete, or a crash has damaged a line of the index.  (The order of write,
\* append and announcement in saveResponseToOutbox against getRequestStatus.)
AnswerIsFound ==
  \A w \in Waiters : waiter[w] = "told" =>
    \/ \A reachable \in BOOLEAN : RequestStatus(w[2], reachable) = "completed"
    \/ file[w[2]] = "torn"
    \/ \E i \in 1..Len(index) : index[i] \in Broken

\* An answer in the outbox reaches the waiter that holds the request's handler
\* without waiting for the waiter's timer, unless a save of it fails, its file
\* is left incomplete or the poll cannot read it.  (pollOutbox makes up for an
\* announcement that came before the handler.)
AnswerReaches ==
  [](\A w \in Waiters :
       handlers[w[2]] = w /\ file[w[2]] = "whole" /\ (\E i \in 1..Len(index) : index[i] = w[2])
       => <>(\/ handlers[w[2]] # w \/ file[w[2]] = "torn" \/ w[2] \in unreadable
             \/ \E n \in 1..MaxSends : hook[<<w[2], n>>] = "failed"))

=============================================================================
