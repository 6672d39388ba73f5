------------------------ MODULE ConsoleSessionProofs ------------------------
(***************************************************************************)
(* For every set of commands and every bound on messages and log chunks:   *)
(* the websocket never has two writers, the log arrives without a gap, and *)
(* no mutual wait outlives the client.                                     *)
(***************************************************************************)
EXTENDS ConsoleSession, TLAPS

\* Who is in the middle of a write holds the mutex.
LockHeld ==
  /\ pump = "writing" => writeMu = "pump"
  /\ \A c \in Commands : cmd[c] = "writing" => writeMu = c

\* While the websocket works, the pump's buffer is the next chunk to send.
NextChunk ==
  ~ broken /\ pump \in {"sending", "writing"} => buf = Len(logged) + 1

\* Before the session is authenticated nothing has been read.
NothingYet ==
  handler = "waitForAuth" \/ pump = "off" =>
    pump = "off" /\ streamer = "off" /\ read = 0 /\ logged = <<>>

\* The inductive invariant.
SessionInv == TypeOK /\ LockHeld /\ NextChunk /\ NothingYet /\ LogUnbroken

-----------------------------------------------------------------------------
\* The handler's steps, the streamer's, the pump's, a command's and the
\* client's: what each preserves.  First, the initial state.
LEMMA InitSession == Init => SessionInv
<1> SUFFICES ASSUME Init PROVE SessionInv
  OBVIOUS
<1>1. TypeOK
  <2>1. inbox \in Seq(Messages) /\ logged \in Seq(Nat)
    BY DEF Init
  <2>2. cmd \in [Commands -> {"off", "opening", "running", "sending", "writing",
                             "done"}]
    BY DEF Init
  <2>3. reads \in BOOLEAN /\ cancelled \in BOOLEAN /\ broken \in BOOLEAN
    BY DEF Init
  <2> QED
    BY <2>1, <2>2, <2>3 DEF Init, TypeOK
<1>2. LockHeld /\ NextChunk /\ NothingYet
  BY DEF Init, LockHeld, NextChunk, NothingYet
<1>3. LogUnbroken
  BY DEF Init, LogUnbroken, InFlight
<1> QED
  BY <1>1, <1>2, <1>3 DEF SessionInv

\* Every step keeps the types.
LEMMA TypeStep == TypeOK /\ [Next]_vars => TypeOK'
<1> SUFFICES ASSUME TypeOK, [Next]_vars PROVE TypeOK'
  OBVIOUS
<1> USE CommandsAssumption
<1>1. CASE waitForAuth
  <2>0. (inbox # <<>> /\ inbox' = Tail(inbox)) \/ inbox' = inbox
    BY <1>1, Zenon DEF waitForAuth
  <2>1. inbox' \in Seq(Messages)
    BY <2>0 DEF TypeOK
  <2>2. cancelled' \in BOOLEAN
    BY <1>1 DEF TypeOK, waitForAuth
  <2> QED
    BY <1>1, <2>1, <2>2 DEF TypeOK, waitForAuth, socket
<1>2. CASE ReadMessage
  BY <1>2 DEF TypeOK, ReadMessage, socket
<1>3. CASE StopReading
  BY <1>3 DEF TypeOK, StopReading, client
<1>4. CASE Return
  BY <1>4 DEF TypeOK, Return, client, socket
<1>5. CASE OpenLog
  BY <1>5 DEF TypeOK, OpenLog, findPodForGameServer, client, socket
<1>6. CASE ReadLog
  BY <1>6 DEF TypeOK, ReadLog, client, socket
<1>7. CASE EndOfLog
  BY <1>7 DEF TypeOK, EndOfLog, client, socket
<1>8. CASE Pipe
  BY <1>8 DEF TypeOK, Pipe, client, socket
<1>9. CASE PumpLock
  BY <1>9 DEF TypeOK, PumpLock, Lock, client, Writers
<1>10. CASE PumpSends
  <2>1. logged' \in Seq(Nat)
    BY <1>10 DEF TypeOK, PumpSends, Sent
  <2>2. broken' \in BOOLEAN
    BY <1>10 DEF TypeOK, PumpSends, Sent
  <2> QED
    BY <1>10, <2>1, <2>2 DEF TypeOK, PumpSends, Sent, client
<1>11. CASE PumpEnds
  BY <1>11 DEF TypeOK, PumpEnds, client, socket
<1>12. ASSUME NEW c \in Commands, Command(c) PROVE TypeOK'
  <2>1. CASE OpenExec(c)
    BY <2>1 DEF TypeOK, OpenExec, findPodForGameServer, Step, client, socket
  <2>2. CASE EndOfExec(c)
    BY <2>2 DEF TypeOK, EndOfExec, Step, client, socket
  <2>3. CASE CommandLock(c)
    BY <2>3 DEF TypeOK, CommandLock, Step, Lock, client, Writers
  <2>4. CASE CommandSends(c)
    BY <2>4 DEF TypeOK, CommandSends, Step, Sent, Delivers, Refused, client
  <2> QED
    BY <1>12, <2>1, <2>2, <2>3, <2>4 DEF Command
<1>13. ASSUME NEW m \in Messages, ClientSends(m) PROVE TypeOK'
  BY <1>13 DEF TypeOK, ClientSends, server, socket
<1>14. CASE ClientLeaves
  BY <1>14 DEF TypeOK, ClientLeaves, server, socket
<1>15. CASE ClientStalls
  BY <1>15 DEF TypeOK, ClientStalls, server, socket
<1>16. CASE UNCHANGED vars
  BY <1>16 DEF TypeOK, vars
<1> QED
  BY <1>1, <1>2, <1>3, <1>4, <1>5, <1>6, <1>7, <1>8, <1>9, <1>10, <1>11, <1>12,
     <1>13, <1>14, <1>15, <1>16 DEF Next

-----------------------------------------------------------------------------
\* Only the sender that took the mutex writes.
LEMMA LockStep == TypeOK /\ LockHeld /\ [Next]_vars => LockHeld'
<1> SUFFICES ASSUME TypeOK, LockHeld, [Next]_vars PROVE LockHeld'
  OBVIOUS
<1> USE CommandsAssumption
<1>1. CASE UNCHANGED <<pump, cmd, writeMu>>
  BY <1>1 DEF LockHeld
<1>2. CASE waitForAuth
  BY <1>2 DEF LockHeld, TypeOK, waitForAuth, socket
<1>3. CASE ReadMessage
  BY <1>3 DEF LockHeld, TypeOK, ReadMessage, socket
<1>4. CASE Pipe
  BY <1>4 DEF LockHeld, TypeOK, Pipe, socket
<1>5. CASE PumpLock
  BY <1>5 DEF LockHeld, TypeOK, PumpLock, Lock
<1>6. CASE PumpSends
  BY <1>6 DEF LockHeld, TypeOK, PumpSends, Sent
<1>7. CASE PumpEnds
  BY <1>7 DEF LockHeld, TypeOK, PumpEnds, socket
<1>8. ASSUME NEW c \in Commands, Command(c) PROVE LockHeld'
  <2>1. CASE OpenExec(c)
    BY <2>1 DEF LockHeld, TypeOK, OpenExec, findPodForGameServer, Step, socket
  <2>2. CASE EndOfExec(c)
    BY <2>2 DEF LockHeld, TypeOK, EndOfExec, Step, socket
  <2>3. CASE CommandLock(c)
    BY <2>3 DEF LockHeld, TypeOK, CommandLock, Step, Lock
  <2>4. CASE CommandSends(c)
    BY <2>4 DEF LockHeld, TypeOK, CommandSends, Step, Sent
  <2> QED
    BY <1>8, <2>1, <2>2, <2>3, <2>4 DEF Command
<1>9. CASE StopReading \/ Return \/ OpenLog \/ ReadLog \/ EndOfLog
  BY <1>9, <1>1 DEF StopReading, Return, OpenLog, ReadLog, EndOfLog, socket
<1>10. CASE (\E m \in Messages : ClientSends(m)) \/ ClientLeaves \/ ClientStalls
  BY <1>10, <1>1 DEF ClientSends, ClientLeaves, ClientStalls, server, socket
<1> QED
  BY <1>1, <1>2, <1>3, <1>4, <1>5, <1>6, <1>7, <1>8, <1>9, <1>10 DEF Next, vars

\* Where a chunk is: read, in the pipe, in the buffer, sent.
ChunkInv == NextChunk /\ NothingYet /\ LogUnbroken

\* A step that moves no chunk.
LEMMA ChunkFrame ==
  ASSUME ChunkInv, TypeOK, broken => broken',
         handler' = "waitForAuth" => handler = "waitForAuth",
         UNCHANGED <<streamer, read, pump, buf, logged>>
  PROVE  ChunkInv'
BY DEF ChunkInv, NextChunk, NothingYet, LogUnbroken, InFlight, TypeOK

\* Every step keeps count of the chunks.
LEMMA ChunkStep == TypeOK /\ ChunkInv /\ [Next]_vars => ChunkInv'
<1> SUFFICES ASSUME TypeOK, ChunkInv, [Next]_vars PROVE ChunkInv'
  OBVIOUS
<1> USE DEF ChunkInv, NextChunk, NothingYet, LogUnbroken, InFlight
<1>1. CASE waitForAuth
  BY <1>1 DEF TypeOK, waitForAuth, socket
<1>2. CASE OpenLog
  BY <1>2 DEF TypeOK, OpenLog, findPodForGameServer, socket
<1>3. CASE ReadLog
  BY <1>3 DEF TypeOK, ReadLog, socket
<1>4. CASE EndOfLog
  BY <1>4 DEF TypeOK, EndOfLog, socket
<1>5. CASE Pipe
  BY <1>5 DEF TypeOK, Pipe, socket
<1>6. CASE PumpLock
  BY <1>6 DEF TypeOK, PumpLock
<1>7. CASE PumpSends
  <2>1. NothingYet' /\ NextChunk'
    BY <1>7 DEF PumpSends
  <2>2. LogUnbroken'
    <3>1. (~ broken /\ ~ broken' /\ logged' = Append(logged, buf))
            \/ (broken' /\ logged' = logged)
      BY <1>7 DEF PumpSends, Sent, Delivers, TypeOK
    <3>2. pump = "writing" /\ pump' = "reading" /\ UNCHANGED <<streamer, read>>
      BY <1>7 DEF PumpSends
    <3>3. CASE ~ broken /\ ~ broken' /\ logged' = Append(logged, buf)
      <4>1. buf = Len(logged) + 1 /\ Len(logged') = Len(logged) + 1
        BY <3>2, <3>3 DEF TypeOK
      <4>2. \A i \in 1 .. Len(logged') : logged'[i] = i
        BY <3>3, <4>1 DEF TypeOK
      <4> QED
        BY <3>2, <3>3, <4>1, <4>2 DEF TypeOK
    <3>4. CASE broken' /\ logged' = logged
      BY <3>2, <3>4
    <3> QED
      BY <3>1, <3>3, <3>4
  <2> QED
    BY <2>1, <2>2
<1>8. CASE PumpEnds
  BY <1>8 DEF TypeOK, PumpEnds, socket
<1>9. CASE ReadMessage \/ StopReading \/ Return
  BY <1>9, ChunkFrame DEF ReadMessage, StopReading, Return, socket
<1>10. ASSUME NEW c \in Commands, Command(c) PROVE ChunkInv'
  BY <1>10, ChunkFrame
     DEF Command, OpenExec, EndOfExec, CommandLock, CommandSends, Step, Sent, socket
<1>11. CASE (\E m \in Messages : ClientSends(m)) \/ ClientLeaves \/ ClientStalls
  BY <1>11, ChunkFrame DEF ClientSends, ClientLeaves, ClientStalls, server, socket
<1>12. CASE UNCHANGED vars
  BY <1>12, ChunkFrame DEF vars
<1> QED
  BY <1>1, <1>2, <1>3, <1>4, <1>5, <1>6, <1>7, <1>8, <1>9, <1>10, <1>11, <1>12
     DEF Next

-----------------------------------------------------------------------------
\* The inductive invariant holds in every state of the session.
LEMMA SessionInvariant == Spec => []SessionInv
<1>1. SessionInv /\ [Next]_vars => SessionInv'
  BY TypeStep, LockStep, ChunkStep DEF SessionInv, ChunkInv
<1> QED
  BY <1>1, InitSession, PTL DEF Spec

\* The state of a console session keeps its types.
THEOREM ConsoleTypeOK == Spec => []TypeOK
<1>1. SessionInv => TypeOK
  BY DEF SessionInv
<1> QED
  BY <1>1, SessionInvariant, PTL

\* sendEvent keeps the websocket's contract for any number of commands: no two
\* goroutines are ever in the middle of a write.
THEOREM NeverTwoWriters == Spec => []OneWriter
<1>1. SessionInv => OneWriter
  BY CommandsAssumption DEF SessionInv, LockHeld, OneWriter
<1> QED
  BY <1>1, SessionInvariant, PTL

\* The log reaches the client in order and without a gap, for any length of the
\* log and whatever the commands, the client and the pod do.
THEOREM LogArrivesInOrder == Spec => []LogUnbroken
<1>1. SessionInv => LogUnbroken
  BY DEF SessionInv
<1> QED
  BY <1>1, SessionInvariant, PTL

-----------------------------------------------------------------------------
(* No mutual wait outlives the client. *)

\* A command is on its way at most once and starts once.
OnceInv ==
  /\ \A i \in 1 .. Len(inbox) :
       inbox[i] \in Commands => inbox[i] \in asked /\ cmd[inbox[i]] = "off"
  /\ \A i, j \in 1 .. Len(inbox) : inbox[i] = inbox[j] /\ inbox[i] \in Commands => i = j
  /\ \A c \in Commands \ asked : cmd[c] = "off"

\* Whoever holds the mutex is in the middle of a write.
HolderWrites ==
  /\ writeMu = "pump" => pump = "writing"
  /\ \A c \in Commands : writeMu = c => cmd[c] = "writing"

\* In which order handler, streamer and pump come and go.
OrderInv ==
  /\ handler = "waitForAuth" => streamer = "off"
  /\ handler \in {"serving", "waiting"} => streamer # "off"
  /\ handler \in {"waiting", "returned"} => cancelled
  /\ handler = "returned" => streamer \in {"off", "closed"}
  /\ pump = "off" <=> streamer = "off"
  /\ pump = "done" => streamer = "closed"

\* What the client sends comes once; what the handler reads has not started.
LEMMA OnceStep == TypeOK /\ OnceInv /\ [Next]_vars => OnceInv'
<1> SUFFICES ASSUME TypeOK, OnceInv, [Next]_vars PROVE OnceInv'
  OBVIOUS
<1>0. inbox \in Seq(Messages) /\ asked \subseteq Commands
      /\ Commands \cap {"auth", "junk", "pump", "none"} = {}
  BY CommandsAssumption DEF TypeOK
<1>1. CASE UNCHANGED <<inbox, asked, cmd>>
  BY <1>1 DEF OnceInv
<1>2. ASSUME inbox # <<>>, inbox' = Tail(inbox)
      PROVE  /\ Len(inbox') = Len(inbox) - 1 /\ Len(inbox) \in Nat \ {0}
             /\ \A i \in 1 .. Len(inbox') : inbox'[i] = inbox[i + 1]
             /\ Head(inbox) = inbox[1]
  BY <1>0, <1>2
<1>3. ASSUME inbox # <<>>, inbox' = Tail(inbox), UNCHANGED <<asked, cmd>> PROVE OnceInv'
  BY <1>2, <1>3 DEF OnceInv
<1>4. CASE waitForAuth
  BY <1>1, <1>3, <1>4 DEF waitForAuth
<1>5. CASE ReadMessage
  <2>1. /\ inbox # <<>> /\ inbox' = Tail(inbox) /\ asked' = asked
        /\ \A c \in Commands : cmd'[c] = IF c = inbox[1] THEN "opening" ELSE cmd[c]
    BY <1>2, <1>5 DEF ReadMessage
  <2>2. \A i \in 1 .. Len(inbox') : inbox'[i] = inbox[i + 1] /\ i + 1 \in 1 .. Len(inbox)
                                    /\ 1 \in 1 .. Len(inbox) /\ i + 1 # 1
    BY <1>2, <2>1
  <2>3. \A i \in 1 .. Len(inbox') : inbox'[i] \in Commands => inbox'[i] # inbox[1]
    BY <2>2 DEF OnceInv
  <2>4. \A i \in 1 .. Len(inbox') :
          inbox'[i] \in Commands => inbox'[i] \in asked' /\ cmd'[inbox'[i]] = "off"
    BY <2>1, <2>2, <2>3 DEF OnceInv
  <2>5. \A i, j \in 1 .. Len(inbox') :
          inbox'[i] = inbox'[j] /\ inbox'[i] \in Commands => i = j
    BY <2>2 DEF OnceInv
  <2>6. \A c \in Commands \ asked' : cmd'[c] = "off"
    <3>1. 1 \in 1 .. Len(inbox)
      BY <1>2, <2>1
    <3> QED
      BY <2>1, <3>1 DEF OnceInv
  <2> QED
    BY <2>4, <2>5, <2>6 DEF OnceInv
<1>6. ASSUME NEW c \in Commands, Command(c) PROVE OnceInv'
  <2>1. PICK s : cmd' = [cmd EXCEPT ![c] = s]
    BY <1>6 DEF Command, OpenExec, EndOfExec, CommandLock, CommandSends, Step
  <2>2. cmd[c] # "off" /\ UNCHANGED <<inbox, asked>>
    BY <1>6 DEF Command, OpenExec, EndOfExec, CommandLock, CommandSends, Step, client
  <2> QED
    BY <2>1, <2>2 DEF OnceInv, TypeOK
<1>7. ASSUME NEW m \in Messages, ClientSends(m) PROVE OnceInv'
  <2>1. /\ m \notin asked /\ inbox' = Append(inbox, m) /\ cmd' = cmd
        /\ asked' = asked \cup ({m} \cap Commands)
    BY <1>7 DEF ClientSends, server
  <2>2. /\ Len(inbox') = Len(inbox) + 1 /\ Len(inbox) \in Nat
        /\ \A i \in 1 .. Len(inbox) : inbox'[i] = inbox[i]
        /\ inbox'[Len(inbox) + 1] = m
    BY <1>0, <2>1
  <2> QED
    BY <2>1, <2>2 DEF OnceInv
<1>8. CASE \/ StopReading \/ Return \/ OpenLog \/ ReadLog \/ EndOfLog \/ Pipe
           \/ PumpLock \/ PumpSends \/ PumpEnds
  BY <1>1, <1>8 DEF StopReading, Return, OpenLog, ReadLog, EndOfLog, Pipe, PumpLock,
                    PumpSends, PumpEnds, client
<1>9. CASE ClientLeaves \/ ClientStalls
  BY <1>1, <1>9 DEF ClientLeaves, ClientStalls, server
<1> QED
  BY <1>1, <1>4, <1>5, <1>6, <1>7, <1>8, <1>9 DEF Next, vars

\* The mutex is given back with the write.
LEMMA HolderStep ==
  TypeOK /\ OnceInv /\ OrderInv /\ LockHeld /\ HolderWrites /\ [Next]_vars => HolderWrites'
<1> SUFFICES ASSUME TypeOK, OnceInv, OrderInv, LockHeld, HolderWrites, [Next]_vars
             PROVE HolderWrites'
  OBVIOUS
<1> USE CommandsAssumption
<1>1. CASE UNCHANGED <<pump, cmd, writeMu>>
  BY <1>1 DEF HolderWrites
<1>2. CASE waitForAuth
  BY <1>2 DEF HolderWrites, OrderInv, TypeOK, waitForAuth, socket
<1>3. CASE ReadMessage
  <2>1. Head(inbox) \in Commands => cmd[Head(inbox)] = "off"
    <3>1. 1 \in 1 .. Len(inbox) /\ Head(inbox) = inbox[1]
      BY <1>3 DEF ReadMessage, TypeOK
    <3> QED
      BY <3>1 DEF OnceInv
  <2> QED
    BY <1>3, <2>1 DEF HolderWrites, TypeOK, ReadMessage, socket
<1>4. CASE Pipe
  BY <1>4 DEF HolderWrites, TypeOK, Pipe, socket
<1>5. CASE PumpLock
  BY <1>5 DEF HolderWrites, TypeOK, PumpLock, Lock
<1>6. CASE PumpSends
  BY <1>6 DEF HolderWrites, TypeOK, PumpSends, Sent
<1>7. CASE PumpEnds
  BY <1>7 DEF HolderWrites, TypeOK, PumpEnds, socket
<1>8. ASSUME NEW c \in Commands, Command(c) PROVE HolderWrites'
  <2>1. CASE OpenExec(c)
    BY <2>1 DEF HolderWrites, TypeOK, OpenExec, findPodForGameServer, Step, socket
  <2>2. CASE EndOfExec(c)
    BY <2>2 DEF HolderWrites, TypeOK, EndOfExec, Step, socket
  <2>3. CASE CommandLock(c)
    BY <2>3 DEF HolderWrites, TypeOK, CommandLock, Step, Lock
  <2>4. CASE CommandSends(c)
    BY <2>4 DEF HolderWrites, TypeOK, CommandSends, Step, Sent
  <2> QED
    BY <1>8, <2>1, <2>2, <2>3, <2>4 DEF Command
<1>9. CASE StopReading \/ Return \/ OpenLog \/ ReadLog \/ EndOfLog
  BY <1>9, <1>1 DEF StopReading, Return, OpenLog, ReadLog, EndOfLog, socket
<1>10. CASE (\E m \in Messages : ClientSends(m)) \/ ClientLeaves \/ ClientStalls
  BY <1>10, <1>1 DEF ClientSends, ClientLeaves, ClientStalls, server, socket
<1> QED
  BY <1>1, <1>2, <1>3, <1>4, <1>5, <1>6, <1>7, <1>8, <1>9, <1>10 DEF Next, vars

\* The handler outlives the streamer, and the pump leaves after it.
LEMMA OrderStep == TypeOK /\ OrderInv /\ [Next]_vars => OrderInv'
<1> SUFFICES ASSUME TypeOK, OrderInv, [Next]_vars PROVE OrderInv'
  OBVIOUS
<1>1. CASE UNCHANGED <<handler, cancelled, streamer, pump>>
  BY <1>1 DEF OrderInv
<1>2. CASE waitForAuth
  BY <1>2 DEF OrderInv, waitForAuth
<1>3. CASE StopReading \/ Return
  BY <1>3 DEF OrderInv, StopReading, Return
<1>4. CASE OpenLog
  BY <1>4 DEF OrderInv, OpenLog, findPodForGameServer
<1>5. CASE ReadLog \/ EndOfLog \/ Pipe
  BY <1>5 DEF OrderInv, ReadLog, EndOfLog, Pipe
<1>6. CASE PumpLock \/ PumpSends \/ PumpEnds
  BY <1>6 DEF OrderInv, PumpLock, PumpSends, PumpEnds
<1>7. CASE ReadMessage \/ \E c \in Commands : Command(c)
  BY <1>1, <1>7 DEF ReadMessage, Command, OpenExec, EndOfExec, CommandLock, CommandSends,
                    Step
<1>8. CASE (\E m \in Messages : ClientSends(m)) \/ ClientLeaves \/ ClientStalls
  BY <1>1, <1>8 DEF ClientSends, ClientLeaves, ClientStalls, server
<1> QED
  BY <1>1, <1>2, <1>3, <1>4, <1>5, <1>6, <1>7, <1>8 DEF Next, vars

\* Who waits for the mutex waits for a write that ends.
LEMMA WriteEnds ==
  ASSUME TypeOK, HolderWrites, peer = "gone" \/ reads, writeMu # "none"
  PROVE  CanGoOn
<1>1. Delivers \/ Refused
  BY DEF Delivers, Refused
<1>2. pump = "writing" \/ \E c \in Commands : cmd[c] = "writing"
  BY DEF TypeOK, Writers, HolderWrites
<1> QED
  BY <1>1, <1>2 DEF CanGoOn

\* Once the client is gone, or closing and reading, no wait is mutual: for any
\* number of commands and any log, the session has ended or can go on.
THEOREM SessionNeverStuck == Spec => []NeverStuck
<1>1. Init => OnceInv /\ HolderWrites /\ OrderInv
  BY CommandsAssumption DEF Init, OnceInv, HolderWrites, OrderInv
<1>2. SessionInv /\ OnceInv /\ HolderWrites /\ OrderInv /\ [Next]_vars =>
        OnceInv' /\ HolderWrites' /\ OrderInv'
  BY OnceStep, HolderStep, OrderStep DEF SessionInv
<1>3. SessionInv /\ OnceInv /\ HolderWrites /\ OrderInv => NeverStuck
  <2> SUFFICES ASSUME TypeOK, HolderWrites, OrderInv,
                      peer = "gone" \/ (peer = "closing" /\ reads), ~ CanGoOn
               PROVE  Ended
    BY DEF SessionInv, NeverStuck
  <2>1. writeMu = "none" /\ (Delivers \/ Refused)
    BY WriteEnds DEF Delivers, Refused
  <2>2. pump \notin {"sending", "writing"}
    BY <2>1 DEF CanGoOn
  <2>3. handler \notin {"waitForAuth", "serving"}
    BY DEF CanGoOn, ReadFails
  <2>4. cancelled
    BY <2>3 DEF TypeOK, OrderInv
  <2>5. streamer \in {"off", "closed"}
    BY <2>2, <2>4 DEF CanGoOn, OrderInv, TypeOK
  <2>6. handler = "returned"
    BY <2>3, <2>5 DEF CanGoOn, OrderInv, TypeOK
  <2>7. pump \in {"off", "done"}
    BY <2>2, <2>5 DEF CanGoOn, OrderInv, TypeOK
  <2>8. ASSUME NEW c \in Commands PROVE cmd[c] \in {"off", "done"}
    BY <2>1, <2>4 DEF CanGoOn, TypeOK
  <2> QED
    BY <2>5, <2>6, <2>7, <2>8 DEF Ended
<1> QED
  BY <1>1, <1>2, <1>3, SessionInvariant, PTL DEF Spec
=============================================================================
