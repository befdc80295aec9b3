----------------------------- MODULE SshGateway -----------------------------
(***************************************************************************)
(* The SSH gateway (cmd/spoond-sshd-gateway): the control plane, whose     *)
(* commands become backend calls that are repeated after a transport       *)
(* error, and the session relay, which joins an SSH channel to a process   *)
(* stream with three goroutines: stdin, requests, and the stream's frames. *)
(* The backend may take a request and answer after the caller gave up.     *)
(***************************************************************************)
EXTENDS Integers, Sequences, FiniteSets

CONSTANTS
    GwVerbs,       \* the control commands tried
    GwTyped,       \* bound on what the client types, and on what is printed
    GwScenarios    \* what may happen: one set of names per behaviour

VARIABLES
    gwCtl,      \* the control command: its calls left, attempt, answer
    gwLate,     \* calls the backend took and has not finished
    gwMade,     \* how often the backend carried out each call
    gwChan,     \* the SSH channel: what the client sent and was given
    gwPump,     \* the stdin goroutine: running or over
    gwUp,       \* frames on their way to the backend
    gwProc,     \* the process in the guest, and the backend loop that feeds it
    gwDown,     \* frames on their way to the gateway
    gwMain,     \* handleSession's own goroutine
    gwmay

gwvars == <<gwCtl, gwLate, gwMade, gwChan, gwPump, gwUp, gwProc, gwDown, gwMain, gwmay>>
gwSession == <<gwChan, gwPump, gwUp, gwProc, gwDown, gwMain>>
gwControl == <<gwCtl, gwLate, gwMade>>

GwMay(x) == x \in gwmay

-----------------------------------------------------------------------------
(***************************************************************************)
(* The control plane: each verb is a sequence of backend calls.            *)
(***************************************************************************)

\* Mutant: the save goes through the client that repeats every call.
SnapshotCallsRetried(v) ==
    [save |-> <<[call |-> "save", tries |-> 4]>>,
     show |-> <<[call |-> "read", tries |-> 4]>>,
     unsave |-> <<[call |-> "unsave", tries |-> 4]>>][v]

\* snapshot save is tried once, list, show and rm are repeated.
SnapshotCalls(v) ==
    [save |-> <<[call |-> "save", tries |-> 1]>>,
     show |-> <<[call |-> "read", tries |-> 4]>>,
     unsave |-> <<[call |-> "unsave", tries |-> 4]>>][v]

\* new and create: an image that is not an alias is looked up first.
CreateCalls(v) ==
    [create |-> <<[call |-> "create", tries |-> 4]>>,
     new |-> <<[call |-> "read", tries |-> 4], [call |-> "create", tries |-> 4]>>][v]

\* ls, stat, keepalive, suspend, resume, rm.
LeaseCalls(v) ==
    [ls |-> <<[call |-> "read", tries |-> 4]>>,
     resume |-> <<[call |-> "resume", tries |-> 4]>>,
     rm |-> <<[call |-> "delete", tries |-> 4]>>][v]

\* shelly reads the lease, then runs its script in the guest.
ShellyCalls(v) ==
    [shelly |-> <<[call |-> "read", tries |-> 4], [call |-> "exec", tries |-> 4]>>][v]

\* ssh-key ls, add and rm.
KeyCalls(v) ==
    [keys |-> <<[call |-> "read", tries |-> 4]>>,
     addkey |-> <<[call |-> "adduser", tries |-> 4]>>][v]

\* share add resolves a grantee given by name before it grants.
ShareCalls(v) ==
    [share |-> <<[call |-> "read", tries |-> 4], [call |-> "grant", tries |-> 4]>>,
     unshare |-> <<[call |-> "revoke", tries |-> 4]>>][v]

CallsOf(v) ==
    CASE v \in {"save", "show", "unsave"} -> SnapshotCalls(v)
      [] v \in {"create", "new"} -> CreateCalls(v)
      [] v \in {"ls", "resume", "rm"} -> LeaseCalls(v)
      [] v \in {"shelly"} -> ShellyCalls(v)
      [] v \in {"keys", "addkey"} -> KeyCalls(v)
      [] v \in {"share", "unshare"} -> ShareCalls(v)

GwCalls == {"read", "save", "unsave", "create", "resume", "delete", "exec", "adduser",
            "grant", "revoke"}

\* handleControlPlane runs one exec request's command.
CtlBegin ==
    /\ GwMay("ctl")
    /\ gwCtl.pc = "idle"
    /\ \E v \in GwVerbs :
        gwCtl' = [pc |-> "call", calls |-> CallsOf(v), tried |-> 0, unheard |-> {}]
    /\ UNCHANGED <<gwLate, gwMade, gwSession, gwmay>>

Call == Head(gwCtl.calls).call

\* Mutant: an answer is not enough to end the attempts.
AnsweredOnce ==
    gwCtl' = [gwCtl EXCEPT !.pc = IF gwCtl.tried = 1 /\ Len(gwCtl.calls) = 1
                                  THEN "told" ELSE "call",
                           !.calls = IF gwCtl.tried = 1 THEN Tail(@) ELSE @,
                           !.tried = 1 - @]

\* An answer in the 200s: the next call, or the command's output.
Answered ==
    gwCtl' = [gwCtl EXCEPT !.pc = IF Len(gwCtl.calls) = 1 THEN "told" ELSE "call",
                           !.calls = Tail(@), !.tried = 0]

\* Mutant: one attempt more than the backoff table has entries for.
MayRepeatOnce == gwCtl.tried < Head(gwCtl.calls).tries

MayRepeat == gwCtl.tried + 1 < Head(gwCtl.calls).tries

\* A transport error: the call is repeated after a pause, up to its attempts.
\* What was taken unheard is remembered as <<call, attempt>>.
Unanswered(taken) ==
    gwCtl' = [(IF MayRepeat THEN [gwCtl EXCEPT !.tried = @ + 1]
                            ELSE [gwCtl EXCEPT !.pc = "failed"])
              EXCEPT !.unheard = @ \union taken]

\* backendJSONOnceWith: carried out and answered; refused by the backend (never
\* repeated); not taken at all; or taken, and given up on before the answer.
CtlCall ==
    /\ gwCtl.pc = "call"
    /\ \/ /\ Answered
          /\ gwMade' = [gwMade EXCEPT ![Call] = @ + 1]
          /\ UNCHANGED gwLate
       \/ /\ GwMay("refuse")
          /\ gwCtl' = [gwCtl EXCEPT !.pc = "failed"]
          /\ UNCHANGED <<gwMade, gwLate>>
       \/ /\ GwMay("down")
          /\ Unanswered({})
          /\ UNCHANGED <<gwMade, gwLate>>
       \/ /\ GwMay("late")
          /\ Unanswered({<<Call, gwCtl.tried>>})
          /\ gwLate' = Append(gwLate, Call)
          /\ UNCHANGED gwMade
    /\ UNCHANGED <<gwSession, gwmay>>

\* The backend finishes a request whose caller has gone.
LateCall ==
    /\ gwLate # <<>>
    /\ gwMade' = [gwMade EXCEPT ![Head(gwLate)] = @ + 1]
    /\ gwLate' = Tail(gwLate)
    /\ UNCHANGED <<gwCtl, gwSession, gwmay>>

-----------------------------------------------------------------------------
(***************************************************************************)
(* A session: the channel's requests up to shell, exec or subsystem, the   *)
(* resume of a suspended lease, the stream's first frame, and the relay.   *)
(***************************************************************************)

\* Frames that carry no text; typed and printed text is numbered from 1.
FEof == -1
FResize == -2
FStop == -3
FKill == -4
FHangup == -5
FExit == -6
FError == -7
FClosed == -8
FIntr == -9

\* Client side: typing, closing stdin, leaving, resizing, signalling.
ClientTypes ==
    /\ gwMain.pc = "relay"
    /\ gwChan.open /\ ~gwChan.eof
    /\ gwChan.typed < GwTyped
    /\ gwChan' = [gwChan EXCEPT !.typed = @ + 1, !.in = Append(@, gwChan.typed + 1)]
    /\ UNCHANGED <<gwPump, gwUp, gwProc, gwDown, gwMain, gwControl, gwmay>>

ClientEof ==
    /\ gwMain.pc = "relay"
    /\ gwChan.open /\ ~gwChan.eof
    /\ gwChan' = [gwChan EXCEPT !.eof = TRUE]
    /\ UNCHANGED <<gwPump, gwUp, gwProc, gwDown, gwMain, gwControl, gwmay>>

ClientLeaves ==
    /\ GwMay("leave")
    /\ gwMain.pc \in {"attach", "dial", "relay"}
    /\ gwChan.open
    /\ gwChan' = [gwChan EXCEPT !.open = FALSE, !.in = <<>>]
    /\ UNCHANGED <<gwPump, gwUp, gwProc, gwDown, gwMain, gwControl, gwmay>>

\* A frame is written whole under the socket's mutex; to a closed socket it is
\* dropped.
FrameUp(f) == gwUp' = IF gwMain.ws THEN Append(gwUp, f) ELSE gwUp

\* The requests goroutine: window-change, TERM and KILL, and with a terminal INT.
SessionRequest ==
    /\ GwMay("signal")
    /\ gwMain.pc = "relay"
    /\ gwChan.open /\ gwChan.signals = 0
    /\ gwChan' = [gwChan EXCEPT !.signals = 1]
    /\ \E f \in {FResize, FStop, FKill} \union (IF gwProc.pty THEN {FIntr} ELSE {}) :
         FrameUp(f)
    /\ UNCHANGED <<gwPump, gwProc, gwDown, gwMain, gwControl, gwmay>>

\* Mutant: the end of stdin is seen before what was typed is read.
StdinOverEarly == gwChan.eof \/ ~gwChan.open

StdinOver == gwChan.in = <<>> /\ (gwChan.eof \/ ~gwChan.open)

\* Mutant: the goroutine returns at the end of stdin without a word.
StdinEndsUntold == UNCHANGED gwUp

StdinEnds == FrameUp(FEof)

\* The stdin goroutine: one read, one frame; at the end an eof frame.
Pump ==
    /\ gwPump
    /\ gwMain.pc = "relay"
    /\ \/ /\ ~StdinOver
          /\ gwChan.in # <<>>
          /\ FrameUp(Head(gwChan.in))
          /\ gwChan' = [gwChan EXCEPT !.in = Tail(@)]
          /\ UNCHANGED gwPump
       \/ /\ StdinOver
          /\ StdinEnds
          /\ gwPump' = FALSE
          /\ UNCHANGED gwChan
    /\ UNCHANGED <<gwProc, gwDown, gwMain, gwControl, gwmay>>

\* What the frame loop does with a frame.  The call into the guest may fail, and
\* its error is dropped: what was typed is lost, and stdin stays open, as it does
\* for a process with a terminal.  A signal is the last thing the loop reads.
FrameTaken(f, ok) ==
    CASE f \in {FStop, FKill} -> [gwProc EXCEPT !.loop = "waits"]
      [] f = FHangup -> [gwProc EXCEPT !.loop = "over"]
      [] f \in {FResize, FIntr} -> gwProc
      [] f = FEof -> IF ok /\ ~gwProc.pty THEN [gwProc EXCEPT !.eof = TRUE]
                                          ELSE [gwProc EXCEPT !.deaf = TRUE]
      [] OTHER -> IF ok THEN [gwProc EXCEPT !.read = Append(@, f)]
                        ELSE [gwProc EXCEPT !.missed = @ \union {f}]

\* handleStream's frame loop takes the next frame; a closed socket ends it and
\* leaves the process running.
GuestTakes ==
    /\ gwProc.loop = "reads"
    /\ gwUp # <<>>
    /\ gwUp' = Tail(gwUp)
    /\ \E ok \in {TRUE} \union (IF GwMay("fail") THEN {FALSE} ELSE {}) :
        gwProc' = FrameTaken(Head(gwUp), ok)
    /\ UNCHANGED <<gwChan, gwPump, gwDown, gwMain, gwControl, gwmay>>

GuestPrints ==
    /\ gwProc.state = "running"
    /\ gwProc.printed < GwTyped
    /\ gwProc' = [gwProc EXCEPT !.printed = @ + 1]
    /\ gwDown' = Append(gwDown, gwProc.printed + 1)
    /\ UNCHANGED <<gwChan, gwPump, gwUp, gwMain, gwControl, gwmay>>

\* The process ends, by itself or because it heeds the end of its input or a
\* signal, or it never does; its exit frame follows its output.
GuestExits ==
    /\ gwProc.state = "running"
    /\ gwProc' = [gwProc EXCEPT !.state = "exited"]
    /\ gwDown' = Append(gwDown, FExit)
    /\ UNCHANGED <<gwChan, gwPump, gwUp, gwMain, gwControl, gwmay>>

\* The stream breaks: an error frame, or the socket simply closes.
StreamBreaks ==
    /\ GwMay("break")
    /\ gwProc.state = "running"
    /\ gwMain.ws
    /\ gwProc' = [gwProc EXCEPT !.state = "cut"]
    /\ \E f \in {FError, FClosed} : gwDown' = Append(gwDown, f)
    /\ UNCHANGED <<gwChan, gwPump, gwUp, gwMain, gwControl, gwmay>>

\* The session is over: the channel closes with it, and the socket.
SessionOver(status) ==
    /\ gwMain' = [gwMain EXCEPT !.pc = "over", !.ws = FALSE, !.status = status]
    /\ gwUp' = IF gwMain.ws THEN Append(gwUp, FHangup) ELSE gwUp

\* PublicKeyCallback: the local list, or the identity store where the backend
\* has one; a key neither knows ends the connection.
ConnAuth ==
    /\ GwMay("session")
    /\ gwMain.pc = "auth"
    /\ \/ gwMain' = [gwMain EXCEPT !.pc = "conn"] /\ UNCHANGED gwUp
       \/ GwMay("refuse") /\ SessionOver("none")
    /\ UNCHANGED <<gwChan, gwPump, gwProc, gwDown, gwControl, gwmay>>

\* handleConn: the user name is a lease id, a name that resolves to one, or a
\* new lease; what cannot be created is told on the first channel.
ConnResolve ==
    /\ gwMain.pc = "conn"
    /\ \/ gwMain' = [gwMain EXCEPT !.pc = "start"] /\ UNCHANGED gwUp
       \/ GwMay("refuse") /\ SessionOver("none")
    /\ UNCHANGED <<gwChan, gwPump, gwProc, gwDown, gwControl, gwmay>>

\* handleSession up to its shell, exec or subsystem request; a channel may end
\* without one, and a subsystem other than sftp is refused.
SessionChoose ==
    /\ gwMain.pc = "start"
    /\ \/ gwMain' = [gwMain EXCEPT !.pc = "attach"] /\ UNCHANGED gwUp
       \/ SessionOver("none")
    /\ UNCHANGED <<gwChan, gwPump, gwProc, gwDown, gwControl, gwmay>>

\* The lease's state is read; a suspended one is resumed, and a refusal ends the
\* session with status 1.  A read that fails is passed over.
SessionResume ==
    /\ gwMain.pc = "attach"
    /\ \/ gwMain' = [gwMain EXCEPT !.pc = "dial"] /\ UNCHANGED gwUp
       \/ GwMay("refuse") /\ SessionOver("refused")
    /\ UNCHANGED <<gwChan, gwPump, gwProc, gwDown, gwControl, gwmay>>

\* The stream is dialled and told what to run, and whether at a terminal.
SessionDial ==
    /\ gwMain.pc = "dial"
    /\ \/ /\ gwMain' = [gwMain EXCEPT !.pc = "relay", !.ws = TRUE]
          /\ \E pty \in BOOLEAN :
               gwProc' = [gwProc EXCEPT !.state = "running", !.loop = "reads", !.pty = pty]
          /\ UNCHANGED gwUp
       \/ /\ GwMay("refuse")
          /\ SessionOver("none")
          /\ UNCHANGED gwProc
    /\ UNCHANGED <<gwChan, gwPump, gwDown, gwControl, gwmay>>

OutputUnwritable == SessionOver("none")

\* Mutant: the exit is reported as soon as it is anywhere in the socket.
NextFrameExit == IF \E i \in 1..Len(gwDown) : gwDown[i] = FExit THEN FExit ELSE Head(gwDown)

NextFrame == Head(gwDown)

\* The main loop: output to the channel, an exit or an error ends the session
\* with its status, a closed socket without one.
RelayFrame ==
    /\ gwMain.pc = "relay"
    /\ gwDown # <<>>
    /\ gwDown' = Tail(gwDown)
    /\ CASE NextFrame = FExit ->
              SessionOver(IF gwChan.open THEN "exit" ELSE "none") /\ UNCHANGED gwChan
         [] NextFrame = FError ->
              SessionOver(IF gwChan.open THEN "255" ELSE "none") /\ UNCHANGED gwChan
         [] NextFrame = FClosed -> SessionOver("none") /\ UNCHANGED gwChan
         [] OTHER -> IF gwChan.open
                     THEN /\ gwChan' = [gwChan EXCEPT !.out = Append(@, NextFrame)]
                          /\ UNCHANGED <<gwMain, gwUp>>
                     ELSE OutputUnwritable /\ UNCHANGED gwChan
    /\ UNCHANGED <<gwPump, gwProc, gwControl, gwmay>>

-----------------------------------------------------------------------------
GWInit ==
    /\ gwmay \in GwScenarios
    /\ gwCtl = [pc |-> "idle", calls |-> <<>>, tried |-> 0, unheard |-> {}]
    /\ gwLate = <<>>
    /\ gwMade = [c \in GwCalls |-> 0]
    /\ gwChan = [open |-> TRUE, eof |-> FALSE, in |-> <<>>, typed |-> 0, signals |-> 0,
                 out |-> <<>>]
    /\ gwPump = TRUE
    /\ gwUp = <<>>
    /\ gwProc = [state |-> "none", loop |-> "none", pty |-> FALSE, read |-> <<>>,
                 missed |-> {}, eof |-> FALSE, deaf |-> FALSE, printed |-> 0]
    /\ gwDown = <<>>
    /\ gwMain = [pc |-> "auth", ws |-> FALSE, status |-> "none"]

GWNext ==
    \/ CtlBegin \/ CtlCall \/ LateCall
    \/ ConnAuth \/ ConnResolve \/ SessionChoose \/ SessionResume \/ SessionDial
    \/ ClientTypes \/ ClientEof \/ ClientLeaves \/ SessionRequest
    \/ Pump \/ RelayFrame
    \/ GuestTakes \/ GuestPrints \/ GuestExits \/ StreamBreaks

GWSpec == GWInit /\ [][GWNext]_gwvars

-----------------------------------------------------------------------------
(***************************************************************************)
(* Properties.                                                             *)
(***************************************************************************)

\* A save command makes at most one version, although the backend may carry a
\* request out after the gateway has given up on it and reported a failure.
SavedAtMostOnce == gwMade["save"] <= 1

\* A call that changes something is carried out again only for an attempt whose
\* answer was lost, and never more often than it has attempts: a create or a new
\* user given up on may exist besides the one reported, one per lost answer.
RepeatsOnlyUnheard ==
    \A c \in GwCalls \ {"read"} :
        LET unheard == {u \in gwCtl.unheard : u[1] = c}
        IN  /\ gwMade[c] <= Cardinality(unheard) + 1
            /\ gwMade[c] <= 4

\* What the process reads is what the client typed, in order and without a gap
\* but for the writes whose error was dropped, and stdin ends only after all of
\* it: closing the channel's input loses nothing, whatever resizes and signals
\* are written to the same socket in between.
StdinInOrder ==
    /\ \A i, j \in 1..Len(gwProc.read) : i < j => gwProc.read[i] < gwProc.read[j]
    /\ \A i \in 1..Len(gwProc.read) :
         1..gwProc.read[i] \subseteq gwProc.missed \union {gwProc.read[k] : k \in 1..i}
    /\ (gwProc.eof /\ gwMain.pc = "relay" /\ gwChan.open)
         => Len(gwProc.read) + Cardinality(gwProc.missed) = gwChan.typed

\* The exit status reaches the client only after every line the process printed.
OutputBeforeStatus == gwMain.status = "exit" => Len(gwChan.out) = gwProc.printed

\* A client that leaves is noticed: its session ends, or the process has been told
\* that its input is over.  Only a terminal session, a failed close and a loop
\* that stopped reading at a signal keep the process from hearing of it.  A
\* process that does not heed it holds the session open for nobody until it
\* prints or ends; then the session is over too.
LeavingEndsIt ==
    /\ (~gwChan.open /\ gwMain.pc = "relay")
         ~> (gwMain.pc = "over" \/ gwProc.eof \/ gwProc.deaf \/ gwProc.loop = "waits")
    /\ (~gwChan.open /\ gwMain.pc = "relay" /\ (gwProc.state # "running" \/ gwDown # <<>>))
         ~> (gwMain.pc = "over")

\* The gateway saves at most once what it is asked to save, repeats another call
\* only for an answer it did not get, and relays a session in order, its status
\* last.
GatewayRelays ==
  /\ SavedAtMostOnce
  /\ RepeatsOnlyUnheard
  /\ StdinInOrder
  /\ OutputBeforeStatus
=============================================================================
