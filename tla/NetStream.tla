----------------------------- MODULE NetStream ------------------------------
(***************************************************************************)
(* One TCP flow of the native TUN: an application's connection is ended by *)
(* a socket of the user-space stack (smoltcp, external), and the loop of   *)
(* handle_socket (vendor/netstack-smoltcp, tcp.rs) moves its bytes to and  *)
(* from the TcpStream that TcpTunnel::relay reads and writes.  Both sides  *)
(* meet in a control block under a lock; they wake each other by stored    *)
(* wakers and by one Notify.  Bytes are counted in units.                  *)
(***************************************************************************)
EXTENDS Naturals

CONSTANTS RecvBuffer, SendBuffer,   \* the size of each buffer on the way in, out
          FromApp, ToApp            \* bounds the units sent each way

ASSUME StreamAssumption == {RecvBuffer, SendBuffer, FromApp, ToApp} \subseteq Nat

VARIABLES app,       \* the application's end of the connection
          sock,      \* smoltcp's socket: its state and what its buffers hold
          ctl,       \* TcpSocketControl
          loop,      \* handle_socket: at its "visit" of the sockets, or in "park"
          notified,  \* the permit Notify stores
          reader, writer,    \* the two halves of the relay
          taken, given,      \* the units it has read and written
          dropped, removed   \* the TcpStream is dropped, the socket removed

streamVars ==
    <<app, sock, ctl, loop, notified, reader, writer, taken, given, dropped, removed>>

SInit ==
    /\ app = [sent |-> 0, fin |-> FALSE, got |-> 0, gotFin |-> FALSE, reset |-> FALSE]
    /\ sock = [state |-> "Listen", rx |-> 0, tx |-> 0]
    /\ ctl = [recvState |-> "Normal", sendState |-> "Normal", recv |-> 0, send |-> 0,
              recvWaker |-> FALSE, sendWaker |-> FALSE]
    /\ loop = "park" /\ notified = FALSE
    /\ reader = "run" /\ writer = "run"
    /\ taken = 0 /\ given = 0
    /\ dropped = FALSE /\ removed = FALSE

-----------------------------------------------------------------------------
(* What smoltcp answers about a socket, and what close does to it.         *)

MayRecv(state, rx) == state \in {"Established", "FinWait1", "FinWait2"} \/ rx > 0
MaySend(state) == state \in {"Established", "CloseWait"}

CloseSocket(state) ==
    CASE state = "Listen" -> "Closed"
      [] state \in {"SynReceived", "Established"} -> "FinWait1"
      [] state = "CloseWait" -> "LastAck"
      [] OTHER -> state

(* What happens to the connection while the interface is polled.           *)

Wire(state, rx, tx) == sock' = [state |-> state, rx |-> rx, tx |-> tx]

Handshake ==
    /\ ~app.reset
    /\ \/ sock.state = "Listen" /\ Wire("SynReceived", 0, 0)
       \/ sock.state = "SynReceived" /\ Wire("Established", 0, 0)
    /\ UNCHANGED app

AppSends ==
    /\ sock.state \in {"Established", "FinWait1", "FinWait2"}
    /\ ~app.fin /\ app.sent < FromApp /\ sock.rx < RecvBuffer
    /\ app' = [app EXCEPT !.sent = @ + 1]
    /\ Wire(sock.state, sock.rx + 1, sock.tx)

AppCloses ==
    /\ ~app.fin
    /\ app' = [app EXCEPT !.fin = TRUE]
    /\ \/ sock.state = "Established" /\ Wire("CloseWait", sock.rx, sock.tx)
       \/ sock.state = "FinWait1" /\ Wire("Closing", sock.rx, sock.tx)
       \/ sock.state = "FinWait2" /\ Wire("TimeWait", sock.rx, sock.tx)

AppReceives ==
    /\ sock.tx > 0
    /\ app' = [app EXCEPT !.got = @ + 1]
    /\ Wire(sock.state, sock.rx, sock.tx - 1)

FinAcked ==
    /\ sock.tx = 0
    /\ app' = [app EXCEPT !.gotFin = TRUE]
    /\ \/ sock.state = "FinWait1" /\ Wire("FinWait2", sock.rx, 0)
       \/ sock.state = "Closing" /\ Wire("TimeWait", sock.rx, 0)
       \/ sock.state = "LastAck" /\ Wire("Closed", sock.rx, 0)

Expires == sock.state = "TimeWait" /\ Wire("Closed", sock.rx, 0) /\ UNCHANGED app

\* The application gives up; a socket that is reset during the handshake
\* listens again.
AppResets ==
    /\ sock.state # "Listen" /\ ~app.reset
    /\ app' = [app EXCEPT !.reset = TRUE]
    /\ IF sock.state = "SynReceived" THEN Wire("Listen", 0, 0)
       ELSE Wire("Closed", sock.rx, 0)

Answering == Handshake \/ AppReceives \/ FinAcked \/ Expires

\* The packets of the application: handle_packet notifies the loop of each,
\* and the loop polls the interface, and so the socket, before it visits it.
Packet(A) ==
    /\ ~removed /\ sock.state # "Closed"
    /\ A
    /\ notified' = TRUE
    /\ UNCHANGED <<ctl, loop, reader, writer, taken, given, dropped, removed>>

-----------------------------------------------------------------------------
(* handle_socket.                                                          *)

\* A wake-up takes the waker out of the control block.
WakeReader == reader' = IF ctl.recvWaker THEN "run" ELSE reader
WakeWriter ==
    writer' = CASE ctl.sendWaker /\ writer = "full" -> "run"
                [] ctl.sendWaker /\ writer = "shutting" -> "shut"
                [] OTHER -> writer

\* A closed socket, or one whose stream was dropped, is removed.
RemoveSocket ==
    /\ removed' = TRUE
    /\ sock' = [sock EXCEPT !.state = "Closed"]
    /\ ctl' = [ctl EXCEPT !.recvState = "Closed", !.sendState = "Closed",
                          !.recvWaker = FALSE, !.sendWaker = FALSE]
    /\ WakeReader /\ WakeWriter

\* Mutant: the write half is closed although bytes for it are left.
Closing_Early == ctl.sendState = "Close"

\* The write half is closed once its bytes are in the socket.
Closing == ctl.sendState = "Close" /\ ctl.send = 0

\* Mutant: a shutdown that waits is not woken when the FIN is scheduled.
WakesSender_WrittenOnly(put) == put > 0

WakesSender(put) == Closing \/ put > 0

\* Mutant: the end of the stream is told as soon as the peer has closed.
ReadHalfEnds_AtFin(state, left) ==
    ctl.recvState = "Normal" /\ state \in {"CloseWait", "LastAck", "Closing", "TimeWait", "Closed"}

\* The peer has closed its half and what it sent is out of the socket.
ReadHalfEnds(state, left) ==
    /\ ctl.recvState = "Normal" /\ ~MayRecv(state, left)
    /\ state \notin {"Listen", "SynReceived", "Established", "FinWait1", "FinWait2"}

Least(m, n) == IF m <= n THEN m ELSE n

\* Bytes move from the socket to the reader's buffer and from the writer's.
ServeSocket ==
    LET state == IF Closing THEN CloseSocket(sock.state) ELSE sock.state
        take == Least(sock.rx, RecvBuffer - ctl.recv)
        put == IF MaySend(state) THEN Least(ctl.send, SendBuffer - sock.tx) ELSE 0
        ends == ReadHalfEnds(state, sock.rx - take)
        wakes == WakesSender(put)
    IN  /\ Wire(state, sock.rx - take, sock.tx + put)
        /\ ctl' = [recvState |-> IF ends THEN "Closed" ELSE ctl.recvState,
                   sendState |-> IF Closing THEN "Closing" ELSE ctl.sendState,
                   recv |-> ctl.recv + take, send |-> ctl.send - put,
                   recvWaker |-> ctl.recvWaker /\ ~ends /\ take = 0,
                   sendWaker |-> ctl.sendWaker /\ ~wakes]
        /\ IF ends \/ take > 0 THEN WakeReader ELSE UNCHANGED reader
        /\ IF wakes THEN WakeWriter ELSE UNCHANGED writer
        /\ UNCHANGED removed

Visit ==
    /\ loop = "visit" /\ loop' = "park"
    /\ IF removed THEN UNCHANGED <<sock, ctl, reader, writer, removed>>
       ELSE IF ctl.recvState = "Close" \/ sock.state = "Closed" THEN RemoveSocket
       ELSE ServeSocket
    /\ UNCHANGED <<app, notified, taken, given, dropped>>

\* The loop goes on when it is notified, or when a timer of the interface is due.
Resume ==
    /\ loop = "park" /\ loop' = "visit" /\ notified' = FALSE
    /\ UNCHANGED <<app, sock, ctl, reader, writer, taken, given, dropped, removed>>

-----------------------------------------------------------------------------
(* The TcpStream.                                                          *)

PollRead ==
    /\ reader = "run" /\ ~dropped
    /\ IF ctl.recv > 0
       THEN \E n \in 1..ctl.recv :
              /\ ctl' = [ctl EXCEPT !.recv = @ - n]
              /\ taken' = taken + n
              /\ notified' = TRUE
              /\ UNCHANGED reader
       ELSE /\ reader' = IF ctl.recvState = "Closed" THEN "eof" ELSE "wait"
            /\ ctl' = [ctl EXCEPT !.recvWaker = @ \/ ctl.recvState # "Closed"]
            /\ UNCHANGED <<taken, notified>>
    /\ UNCHANGED <<app, sock, loop, writer, given, dropped, removed>>

\* A write to a half that is closed fails.
PollWrite ==
    /\ writer = "run" /\ ~dropped /\ given < ToApp
    /\ IF ctl.sendState # "Normal"
       THEN writer' = "broken" /\ UNCHANGED <<ctl, given, notified>>
       ELSE IF ctl.send = SendBuffer
       THEN writer' = "full" /\ ctl' = [ctl EXCEPT !.sendWaker = TRUE]
            /\ UNCHANGED <<given, notified>>
       ELSE \E n \in 1..Least(SendBuffer - ctl.send, ToApp - given) :
              /\ ctl' = [ctl EXCEPT !.send = @ + n]
              /\ given' = given + n
              /\ notified' = TRUE
              /\ UNCHANGED writer
    /\ UNCHANGED <<app, sock, loop, reader, taken, dropped, removed>>

\* What the relay copies from the tunnel is at its end.
SourceEnds ==
    /\ writer = "run" /\ ~dropped /\ writer' = "shut"
    /\ UNCHANGED <<app, sock, ctl, loop, notified, reader, taken, given, dropped, removed>>

PollShutdown ==
    /\ writer = "shut" /\ ~dropped
    /\ IF ctl.sendState \in {"Closing", "Closed"}
       THEN writer' = "done" /\ UNCHANGED <<ctl, notified>>
       ELSE /\ writer' = "shutting"
            /\ ctl' = [ctl EXCEPT !.sendState = "Close", !.sendWaker = TRUE]
            /\ notified' = TRUE
    /\ UNCHANGED <<app, sock, loop, reader, taken, given, dropped, removed>>

\* The relay has ended, well or not (a half that failed, the tunnel, or the
\* session): a half that is still open is asked to close.
DropStream ==
    /\ ~dropped /\ dropped' = TRUE
    /\ ctl' = [ctl EXCEPT !.recvState = IF @ = "Normal" THEN "Close" ELSE @,
                          !.sendState = IF @ = "Normal" THEN "Close" ELSE @]
    /\ notified' = TRUE
    /\ UNCHANGED <<app, sock, loop, reader, writer, taken, given, removed>>

RelayDone == ((reader = "eof" /\ writer = "done") \/ writer = "broken") /\ DropStream

-----------------------------------------------------------------------------
Loop == Visit \/ Resume

SNext ==
    \/ Packet(Answering \/ AppSends \/ AppCloses \/ AppResets)
    \/ Loop \/ PollRead \/ PollWrite \/ SourceEnds \/ PollShutdown \/ DropStream

SSpec == SInit /\ [][SNext]_streamVars

-----------------------------------------------------------------------------
STypeOK ==
    /\ sock.rx \in 0..RecvBuffer /\ ctl.recv \in 0..RecvBuffer
    /\ sock.tx \in 0..SendBuffer /\ ctl.send \in 0..SendBuffer
    /\ {ctl.recvState, ctl.sendState} \subseteq {"Normal", "Close", "Closing", "Closed"}

\* Every unit is in one place: those the application sent were read or are in
\* a buffer, those the relay wrote have arrived or are in one, until the
\* connection is cut.
UnitsKept ==
    /\ taken + ctl.recv + sock.rx = app.sent
    /\ ~removed /\ ~app.reset => app.got + sock.tx + ctl.send = given

\* Until the connection is closed the relay is told the end of the stream only when
\* the application has closed its half and all it sent was read.
EofExact == reader = "eof" /\ sock.state # "Closed" => app.fin /\ taken = app.sent

\* "SHUT_WR - only close once the send_buffer has been fully drained": the
\* application sees the end of the stream only behind everything written.
FinBehindData == app.gotFin /\ ~app.reset => app.got = given

\* No wake-up is lost: a half that waits has its waker in the control block,
\* and what it waits for is not there.
NoLostWake ==
    ~dropped =>
        /\ reader = "wait" => ctl.recvWaker /\ ctl.recv = 0 /\ ctl.recvState = "Normal"
        /\ writer = "full" => ctl.sendWaker /\ ctl.send = SendBuffer /\ ctl.sendState = "Normal"
        /\ writer = "shutting" => ctl.sendWaker /\ ctl.sendState = "Close"

\* The loop never sleeps over work: parked and without a notification it has
\* nothing to move, no socket to remove and no half to close (a FIN waits for
\* bytes that are still in the socket).
NoSleepOnWork ==
    loop = "park" /\ ~notified /\ ~removed =>
        /\ sock.rx = 0 \/ ctl.recv = RecvBuffer
        /\ MaySend(sock.state) => ctl.send = 0 \/ sock.tx = SendBuffer
        /\ ctl.recvState # "Close"
        /\ ctl.sendState = "Close" => ctl.send + sock.tx > 0

StreamInv ==
    STypeOK /\ UnitsKept /\ EofExact /\ FinBehindData /\ NoLostWake /\ NoSleepOnWork

\* A stream that was dropped gives up its socket, and with it the admission
\* permit, when the application answers; and a shutdown that was asked for is
\* completed, unless the application went away before its handshake.
Lingering ==
    \/ dropped /\ ~removed
    \/ ~dropped /\ writer \in {"shut", "shutting"} /\ (app.reset => sock.state # "Listen")
=============================================================================
