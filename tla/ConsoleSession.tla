--------------------------- MODULE ConsoleSession ---------------------------
(***************************************************************************)
(* One console session of the gateway (handlers/console.go): the handler   *)
(* that reads the client's messages, the streamer that follows the pod's   *)
(* log into a pipe, the pump that sends what comes out of the pipe, and a  *)
(* goroutine per command.  Pump and commands write to one websocket under  *)
(* one mutex.  The handler waits for the streamer, the streamer for the    *)
(* pump to take its chunk, the pump for the mutex or for the client to     *)
(* read: nothing but the loss of the connection breaks that chain, since   *)
(* neither the pipe nor a websocket write listens to the context.          *)
(*                                                                         *)
(* Left out: the HTTP upgrade (a request refused there starts nothing),    *)
(* what messages, chunks and outputs contain, and the token itself.        *)
(***************************************************************************)
EXTENDS Naturals, Sequences, FiniteSets

CONSTANTS Commands,    \* commands the client may send, each once
          MaxChunks,   \* bound: chunks of log the pod writes
          MaxInbox     \* bound: messages sent and not yet read

ASSUME CommandsAssumption == Commands \cap {"auth", "junk", "pump", "none"} = {}
ASSUME BoundsAssumption == MaxChunks \in Nat /\ MaxInbox \in Nat

VARIABLES peer,      \* the client's end: open, closing (close frame sent), gone
          reads,     \* whether the client takes what is written to it
          inbox,     \* messages under way to the handler
          asked,     \* commands the client has sent
          handler, cancelled,      \* the handler, and its context
          streamer, read,          \* the log reader, and chunks read so far
          pump, buf,               \* the pump, and the chunk it took last
          cmd,       \* the goroutine of each command
          writeMu,   \* who holds the write mutex
          broken,    \* the websocket refuses every further write
          logged     \* log chunks the client has been sent

vars == <<peer, reads, inbox, asked, handler, cancelled, streamer, read, pump,
          buf, cmd, writeMu, broken, logged>>

client == <<peer, reads, inbox, asked>>
server == <<handler, cancelled, streamer, read, pump, buf, cmd>>
socket == <<writeMu, broken, logged>>

Messages == {"auth", "junk"} \cup Commands
Writers == {"pump"} \cup Commands

TypeOK ==
  /\ peer \in {"open", "closing", "gone"}
  /\ reads \in BOOLEAN
  /\ inbox \in Seq(Messages)
  /\ asked \subseteq Commands
  /\ handler \in {"waitForAuth", "serving", "waiting", "returned"}
  /\ cancelled \in BOOLEAN
  /\ streamer \in {"off", "opening", "reading", "writing", "closed"}
  /\ read \in Nat
  /\ pump \in {"off", "reading", "sending", "writing", "done"} /\ buf \in Nat
  /\ cmd \in [Commands -> {"off", "opening", "running", "sending", "writing",
                           "done"}]
  /\ writeMu \in Writers \cup {"none"}
  /\ broken \in BOOLEAN
  /\ logged \in Seq(Nat)

Init ==
  /\ peer = "open" /\ reads = TRUE /\ inbox = <<>> /\ asked = {}
  /\ handler = "waitForAuth" /\ cancelled = FALSE
  /\ streamer = "off" /\ read = 0
  /\ pump = "off" /\ buf = 0
  /\ cmd = [c \in Commands |-> "off"]
  /\ writeMu = "none" /\ broken = FALSE /\ logged = <<>>

-----------------------------------------------------------------------------
(* The handler. *)

\* ReadMessage fails: the connection is lost, or the close frame is reached.
ReadFails == peer = "gone" \/ (peer = "closing" /\ inbox = <<>>)

\* Something is in the middle of a websocket write.
Writing == pump = "writing" \/ \E c \in Commands : cmd[c] = "writing"

\* waitForAuth: the first message decides.  On success the streamer and the
\* pump start; anything else closes the session.
waitForAuth ==
  /\ handler = "waitForAuth"
  /\ \/ /\ inbox # <<>> /\ Head(inbox) = "auth"
        /\ inbox' = Tail(inbox)
        /\ handler' = "serving"
        /\ streamer' = "opening" /\ pump' = "reading"
        /\ UNCHANGED cancelled
     \/ /\ inbox # <<>> /\ Head(inbox) # "auth"
        /\ inbox' = Tail(inbox)
        /\ handler' = "returned" /\ cancelled' = TRUE
        /\ UNCHANGED <<streamer, pump>>
     \/ /\ ReadFails
        /\ handler' = "returned" /\ cancelled' = TRUE
        /\ UNCHANGED <<inbox, streamer, pump>>
  /\ UNCHANGED <<peer, reads, asked, read, buf, cmd, socket>>

\* Mutant: the event of the message is not looked at.
ReadMessageAny ==
  /\ handler = "serving" /\ inbox # <<>>
  /\ inbox' = Tail(inbox)
  /\ cmd' = [m \in DOMAIN cmd \cup {Head(inbox)} |->
               IF m = Head(inbox) THEN "opening" ELSE cmd[m]]
  /\ UNCHANGED <<peer, reads, asked, handler, cancelled, streamer, read, pump,
                 buf, socket>>

\* The read loop: a command starts a goroutine, anything else is skipped.
ReadMessage ==
  /\ handler = "serving" /\ inbox # <<>>
  /\ inbox' = Tail(inbox)
  /\ cmd' = [c \in Commands |-> IF c = Head(inbox) THEN "opening" ELSE cmd[c]]
  /\ UNCHANGED <<peer, reads, asked, handler, cancelled, streamer, read, pump,
                 buf, socket>>

\* The read loop ends: cancel.  The websocket answers a close frame, after
\* which it refuses writes, unless a write in progress keeps it from doing so.
StopReading ==
  /\ handler = "serving" /\ ReadFails
  /\ cancelled' = TRUE
  /\ handler' = "waiting"
  /\ broken' = (broken \/ (peer = "closing" /\ ~ Writing))
  /\ UNCHANGED <<client, streamer, read, pump, buf, cmd, writeMu, logged>>

\* wg.Wait, then the deferred Close of the connection.
Return ==
  /\ handler = "waiting" /\ streamer = "closed"
  /\ handler' = "returned"
  /\ UNCHANGED <<client, cancelled, streamer, read, pump, buf, cmd, socket>>

-----------------------------------------------------------------------------
(* The streamer: StreamLogs and Reader.Stream. *)

\* Find the GameServer and its pod: either may be missing, the pod of
\* status.podName may be gone, and a cancelled context fails every request.
findPodForGameServer(found, failed) ==
  IF cancelled THEN {failed} ELSE {found, failed}

\* StreamLogs finds the pod and opens its log.
OpenLog ==
  /\ streamer = "opening"
  /\ streamer' \in findPodForGameServer("reading", "closed")
  /\ UNCHANGED <<client, handler, cancelled, read, pump, buf, cmd, socket>>

\* A chunk arrives and is offered to the pipe.
ReadLog ==
  /\ streamer = "reading" /\ read < MaxChunks
  /\ read' = read + 1
  /\ streamer' = "writing"
  /\ UNCHANGED <<client, handler, cancelled, pump, buf, cmd, socket>>

\* The log ends with its pod, or fails.
EndOfLog ==
  /\ streamer = "reading"
  /\ streamer' = "closed"
  /\ UNCHANGED <<client, handler, cancelled, read, pump, buf, cmd, socket>>

\* Mutant: the streamer does not wait for a busy pump.
PipeDrops ==
  /\ streamer = "writing"
  /\ streamer' = "reading"
  /\ IF pump = "reading" THEN pump' = "sending" /\ buf' = read
     ELSE UNCHANGED <<pump, buf>>
  /\ UNCHANGED <<client, handler, cancelled, read, cmd, socket>>

\* The pipe hands the chunk over; Write and Read return together.
Pipe ==
  /\ streamer = "writing" /\ pump = "reading"
  /\ streamer' = "reading"
  /\ pump' = "sending" /\ buf' = read
  /\ UNCHANGED <<client, handler, cancelled, read, cmd, socket>>

-----------------------------------------------------------------------------
(* sendEvent. *)

\* Whether a websocket write can end well, and whether it can fail.
Delivers == ~ broken /\ reads /\ peer # "gone" /\ handler # "returned"
Refused == broken \/ peer = "gone" \/ handler = "returned"

\* Mutant: no mutex.
LockNone(p) == writeMu' = writeMu

\* writeMu.Lock
Lock(p) == writeMu = "none" /\ writeMu' = p

\* Mutant: a failed write returns without unlocking.
SentKeepsLock(delivered) ==
  \/ Delivers /\ delivered /\ writeMu' = "none" /\ UNCHANGED broken
  \/ Refused /\ writeMu' = writeMu /\ broken' = TRUE /\ UNCHANGED logged

\* Mutant: only a failed write unlocks.
SentUnlocksOnError(delivered) ==
  \/ Delivers /\ delivered /\ UNCHANGED <<writeMu, broken>>
  \/ Refused /\ writeMu' = "none" /\ broken' = TRUE /\ UNCHANGED logged

\* WriteMessage and the deferred Unlock; a failed write is only logged, and the
\* websocket fails from then on.
Sent(delivered) ==
  /\ \/ Delivers /\ delivered /\ UNCHANGED broken
     \/ Refused /\ broken' = TRUE /\ UNCHANGED logged
  /\ writeMu' = "none"

PumpLock ==
  /\ pump = "sending"
  /\ Lock("pump")
  /\ pump' = "writing"
  /\ UNCHANGED <<client, handler, cancelled, streamer, read, buf, cmd,
                 broken, logged>>

PumpSends ==
  /\ pump = "writing"
  /\ Sent(logged' = Append(logged, buf))
  /\ pump' = "reading"
  /\ UNCHANGED <<client, handler, cancelled, streamer, read, buf, cmd>>

\* The streamer has closed the pipe.
PumpEnds ==
  /\ pump = "reading" /\ streamer = "closed"
  /\ pump' = "done"
  /\ UNCHANGED <<client, handler, cancelled, streamer, read, buf, cmd, socket>>

-----------------------------------------------------------------------------
(* Commands: ExecCommand and ExecStream. *)

Step(c, from, to) ==
  /\ cmd[c] = from
  /\ \E s \in to : cmd' = [cmd EXCEPT ![c] = s]
  /\ UNCHANGED <<client, handler, cancelled, streamer, read, pump, buf>>

\* ExecCommand finds the pod and starts the command in it.
OpenExec(c) ==
  /\ Step(c, "opening", findPodForGameServer("running", "done"))
  /\ UNCHANGED socket

\* The command ends, fails or is cancelled, with or without output.
EndOfExec(c) ==
  /\ Step(c, "running", {"sending", "done"})
  /\ UNCHANGED socket

CommandLock(c) ==
  /\ Step(c, "sending", {"writing"})
  /\ Lock(c)
  /\ UNCHANGED <<broken, logged>>

CommandSends(c) ==
  /\ Step(c, "writing", {"done"})
  /\ Sent(UNCHANGED logged)

-----------------------------------------------------------------------------
(* The client. *)

ClientSends(m) ==
  /\ peer = "open" /\ Len(inbox) < MaxInbox
  /\ m \notin asked
  /\ inbox' = Append(inbox, m)
  /\ asked' = asked \cup ({m} \cap Commands)
  /\ UNCHANGED <<peer, reads, server, socket>>

\* The client closes properly, or its connection is lost.
ClientLeaves ==
  /\ \/ peer = "open" /\ peer' = "closing" /\ UNCHANGED reads
     \/ peer # "gone" /\ peer' = "gone" /\ reads' = FALSE
  /\ UNCHANGED <<inbox, asked, server, socket>>

\* The client stops reading, so that writes block, or resumes.
ClientStalls ==
  /\ peer # "gone"
  /\ reads' = ~ reads
  /\ UNCHANGED <<peer, inbox, asked, server, socket>>

Command(c) == OpenExec(c) \/ EndOfExec(c) \/ CommandLock(c) \/ CommandSends(c)

Next ==
  \/ waitForAuth \/ ReadMessage \/ StopReading \/ Return
  \/ OpenLog \/ ReadLog \/ EndOfLog \/ Pipe
  \/ PumpLock \/ PumpSends \/ PumpEnds
  \/ \E c \in Commands : Command(c)
  \/ \E m \in Messages : ClientSends(m)
  \/ ClientLeaves \/ ClientStalls

Spec == Init /\ [][Next]_vars

\* Goroutines that can run do; a log and a command end when the context is
\* cancelled, but neither needs to end before.  Nothing is assumed of the client.
Fairness ==
  /\ WF_vars(waitForAuth) /\ WF_vars(ReadMessage) /\ WF_vars(StopReading)
  /\ WF_vars(Return)
  /\ WF_vars(OpenLog) /\ WF_vars(EndOfLog /\ cancelled) /\ WF_vars(Pipe)
  /\ SF_vars(PumpLock) /\ WF_vars(PumpSends) /\ WF_vars(PumpEnds)
  /\ \A c \in Commands :
       /\ WF_vars(OpenExec(c)) /\ WF_vars(EndOfExec(c) /\ cancelled)
       /\ SF_vars(CommandLock(c)) /\ WF_vars(CommandSends(c))

FairSpec == Spec /\ Fairness

-----------------------------------------------------------------------------
(* Properties. *)

\* The websocket's contract: never two writes at once, whichever of the pump
\* and the commands send.
OneWriter ==
  /\ pump = "writing" => \A c \in Commands : cmd[c] # "writing"
  /\ \A c, d \in Commands : cmd[c] = "writing" /\ cmd[d] = "writing" => c = d

\* Chunks read from the log and still on their way.
InFlight ==
  (IF streamer = "writing" THEN 1 ELSE 0)
  + (IF pump \in {"sending", "writing"} THEN 1 ELSE 0)

\* The log reaches the client in order and without a gap, across the pipe, the
\* pump and the mutex, up to the point where the connection breaks.
LogUnbroken ==
  /\ \A i \in 1 .. Len(logged) : logged[i] = i
  /\ ~ broken => Len(logged) + InFlight = read

Ended ==
  /\ handler = "returned"
  /\ streamer \in {"off", "closed"}
  /\ pump \in {"off", "done"}
  /\ \A c \in Commands : cmd[c] \in {"off", "done"}

\* Some goroutine can go on without help from the client, the pod's log or a
\* command that has not been cancelled.
CanGoOn ==
  \/ handler \in {"waitForAuth", "serving"} /\ (inbox # <<>> \/ ReadFails)
  \/ handler = "waiting" /\ streamer = "closed"
  \/ streamer = "opening" \/ (streamer = "reading" /\ cancelled)
  \/ pump = "reading" /\ streamer \in {"writing", "closed"}
  \/ pump = "sending" /\ writeMu = "none"
  \/ pump = "writing" /\ (Delivers \/ Refused)
  \/ \E c \in Commands :
       \/ cmd[c] = "opening" \/ (cmd[c] = "running" /\ cancelled)
       \/ cmd[c] = "sending" /\ writeMu = "none"
       \/ cmd[c] = "writing" /\ (Delivers \/ Refused)

\* No mutual wait outlives the client: once the connection is lost, or closed by
\* a client that reads on, the session has ended or one of handler, streamer,
\* pump and commands can go on, whoever waits for the pipe, the mutex, the
\* websocket or the streamer.
NeverStuck == peer = "gone" \/ (peer = "closing" /\ reads) => Ended \/ CanGoOn

\* When the connection is lost the session ends with all its goroutines, in
\* whatever mutual wait it was; when the client closes it properly, too, as long
\* as it goes on reading.
SessionEnds ==
  /\ peer = "gone" ~> Ended
  /\ peer = "closing" ~> (Ended \/ ~ reads)

\* A chunk that was read from the log is sent to a client that stays and reads,
\* whatever the commands do with the mutex.
ChunksArrive ==
  \A i \in 1 .. MaxChunks :
    read >= i ~> (Len(logged) >= i \/ ~ reads \/ peer # "open")

=============================================================================
