----------------------------- MODULE GuestFiles -----------------------------
(***************************************************************************)
(* Two reads of a guest's files that outlive one look at it: a byte range  *)
(* (api/files.go), which asks the size and then the bytes, and a directory *)
(* watch (api/files_watch.go, substrate/e2b/watch.go), whose stream ends   *)
(* with an event that names what became of the lease.                      *)
(***************************************************************************)
EXTENDS Integers, Sequences, FiniteSets, SequencesExt

CONSTANTS
    FileMax,      \* the longest file
    ReadMax,      \* maxFileBytes
    ChangeMax,    \* guest-side changes
    GfScenarios   \* what may happen: one set of names per behaviour

VARIABLES
    gfFile,    \* the file's bytes in the guest
    gfRead,    \* the range request: range, step, size seen, answer
    gfLease,   \* the lease as the store shows it, what is under way, and whether
               \* that takes longer than the settle window
    gfStream,  \* the substrate's event channel: events, closed, what cut it off
    gfEvents,  \* lifecycle events the subscription holds
    gfWatch,   \* the watch: step, started, pending signal
    gfOut,     \* what the client received
    gfMade,    \* changes made in the guest while the watch was ready
    gfmay

gfvars == <<gfFile, gfRead, gfLease, gfStream, gfEvents, gfWatch, gfOut, gfMade, gfmay>>

GfMay(x) == x \in gfmay
WatchReady == 0
WatchError == -1
NoAnswer == [status |-> 0, from |-> 0, to |-> 0, bytes |-> <<>>]

\* parseByteRange: a first and a last byte, an open end (last -1) or a suffix of
\* last bytes (first -1).
ByteRanges ==
    {br \in [first : -1..FileMax, last : -1..FileMax] :
        IF br.first = -1 THEN br.last >= 0 ELSE br.last = -1 \/ br.first <= br.last}

FileOf(n) == [i \in 1..n |-> i]

GFInit ==
    /\ gfmay \in GfScenarios
    /\ gfFile \in {FileOf(n) : n \in 0..FileMax}
    /\ GfMay("watch") => gfFile = <<>>
    /\ gfRead = [pc |-> "idle", br |-> [first |-> 0, last |-> 0], size |-> 0, ans |-> NoAnswer]
    /\ gfLease = [state |-> "running", op |-> "none", slow |-> FALSE]
    /\ gfStream = [q |-> <<>>, closed |-> FALSE, by |-> "none"]
    /\ gfEvents = <<>>
    /\ gfWatch = [pc |-> "idle", started |-> FALSE, pending |-> FALSE]
    /\ gfOut = <<>> /\ gfMade = {}

-----------------------------------------------------------------------------
(***************************************************************************)
(* The range.  Positions count from 0, as the header's do.                 *)
(***************************************************************************)

\* Mutant: the last byte asked for is not the end.
ResolveOpen(br, size) ==
    IF br.first < 0
    THEN [ok |-> br.last > 0 /\ size > 0,
          from |-> IF size - br.last < 0 THEN 0 ELSE size - br.last, to |-> size - 1]
    ELSE [ok |-> br.first < size, from |-> br.first, to |-> size - 1]

\* byteRange.resolve, against the size the stat gave.
Resolve(br, size) ==
    IF br.first < 0
    THEN [ok |-> br.last > 0 /\ size > 0,
          from |-> IF size - br.last < 0 THEN 0 ELSE size - br.last, to |-> size - 1]
    ELSE [ok |-> br.first < size, from |-> br.first,
          to |-> IF br.last >= 0 /\ br.last < size - 1 THEN br.last ELSE size - 1]

RangeStats ==
    /\ GfMay("range") /\ gfRead.pc = "idle"
    /\ \E br \in ByteRanges :
        gfRead' = [gfRead EXCEPT !.pc = "stated", !.br = br, !.size = Len(gfFile)]
    /\ UNCHANGED <<gfFile, gfLease, gfStream, gfEvents, gfWatch, gfOut, gfMade, gfmay>>

\* The guest truncates or extends the file between the stat and the read.
FileChanges ==
    /\ GfMay("range") /\ gfRead.pc = "stated" /\ Len(gfFile) = gfRead.size
    /\ \E n \in 0..FileMax : n # Len(gfFile) /\ gfFile' = FileOf(n)
    /\ UNCHANGED <<gfRead, gfLease, gfStream, gfEvents, gfWatch, gfOut, gfMade, gfmay>>

\* serveFileRange: a range the size cannot satisfy is 416; else at most ReadMax
\* bytes from the resolved start, and the end that the bytes read give.
RangeServed ==
    /\ gfRead.pc = "stated"
    /\ LET r == Resolve(gfRead.br, gfRead.size)
           want == IF r.to - r.from + 1 > ReadMax THEN ReadMax ELSE r.to - r.from + 1
           data == SubSeq(gfFile, r.from + 1,
                          IF r.from + want < Len(gfFile) THEN r.from + want ELSE Len(gfFile))
       IN gfRead' = [gfRead EXCEPT !.pc = "done",
              !.ans = IF ~r.ok \/ data = <<>> THEN [NoAnswer EXCEPT !.status = 416]
                      ELSE [status |-> 206, from |-> r.from, to |-> r.from + Len(data) - 1,
                            bytes |-> data]]
    /\ UNCHANGED <<gfFile, gfLease, gfStream, gfEvents, gfWatch, gfOut, gfMade, gfmay>>

-----------------------------------------------------------------------------
(***************************************************************************)
(* The watch: the guest's side, and the lease's.                           *)
(***************************************************************************)

\* handleFileWatch's gate, stat and slot; the substrate's stream opens with ready.
WatchOpens ==
    /\ GfMay("watch") /\ gfWatch.pc = "idle" /\ gfLease.state = "running"
    /\ gfLease.op = "none"
    /\ gfWatch' = [gfWatch EXCEPT !.pc = "loop"]
    /\ gfStream' = [gfStream EXCEPT !.q = Append(@, WatchReady)]
    /\ UNCHANGED <<gfFile, gfRead, gfLease, gfEvents, gfOut, gfMade, gfmay>>

\* A change under the directory, while the guest's watch stands.
GuestChanges ==
    /\ gfWatch.pc = "loop" /\ gfStream.by = "none" /\ gfLease.op = "none"
    /\ Cardinality(gfMade) < ChangeMax
    /\ LET c == Cardinality(gfMade) + 1
       IN /\ gfStream' = [gfStream EXCEPT !.q = Append(@, c)]
          /\ gfMade' = gfMade \cup {c}
    /\ UNCHANGED <<gfFile, gfRead, gfLease, gfEvents, gfWatch, gfOut, gfmay>>

\* readWatchStream's end: an error event for a dropped connection, then the close.
StreamEnds(drop, by) ==
    gfStream' = [q |-> IF drop THEN Append(gfStream.q, WatchError) ELSE gfStream.q,
                 closed |-> TRUE, by |-> by]

\* The transport drops with the lease running on; a half-open stream breaks.
TransportDrops ==
    /\ GfMay("transport") /\ gfWatch.pc = "loop" /\ ~gfStream.closed /\ gfLease.op = "none"
    /\ \E drop \in BOOLEAN : StreamEnds(drop, IF gfStream.by = "none" THEN "transport" ELSE gfStream.by)
    /\ UNCHANGED <<gfFile, gfRead, gfLease, gfEvents, gfWatch, gfOut, gfMade, gfmay>>

\* What ends the guest a watch stands in: a pause, a loss, a release; a restart or
\* a restore, after which the lease runs in another guest.
GuestEnds == {"suspended", "lost", "gone", "restarted"}

\* The guest goes down first: the stream ends before the store shows it, or hangs
\* half-open.  A dropped stream says so with an error.  A snapshot can take minutes.
LeaseEnds(op) ==
    /\ op \in GuestEnds \cap gfmay
    /\ gfLease.state = "running" /\ gfLease.op = "none" /\ gfWatch.pc \notin {"idle", "done"}
    /\ \E slow \in BOOLEAN : gfLease' = [gfLease EXCEPT !.op = op, !.slow = slow]
    /\ \/ gfStream.closed /\ UNCHANGED gfStream
       \/ ~gfStream.closed /\ GfMay("hang") /\ gfStream' = [gfStream EXCEPT !.by = op]
       \/ ~gfStream.closed /\ StreamEnds(GfMay("dropped"), op)
    /\ UNCHANGED <<gfFile, gfRead, gfEvents, gfWatch, gfOut, gfMade, gfmay>>

\* The store shows it, and the event is published (a full subscription drops it).
LeaseEnded ==
    /\ gfLease.op \in GuestEnds
    /\ gfLease' = [gfLease EXCEPT !.state = IF gfLease.op = "restarted" THEN "running" ELSE gfLease.op,
                                  !.op = "none"]
    /\ gfEvents' \in {Append(gfEvents, gfLease.op), gfEvents}
    /\ gfmay' = gfmay \ {"restarted"}
    /\ UNCHANGED <<gfFile, gfRead, gfStream, gfWatch, gfOut, gfMade>>

\* The owner resumes a suspended lease, in a new guest.
LeaseResumes ==
    /\ GfMay("resume") /\ gfLease.state = "suspended" /\ gfLease.op = "none"
    /\ gfLease' = [gfLease EXCEPT !.state = "running", !.slow = FALSE]
    /\ gfmay' = gfmay \ {"resume", "suspended"}
    /\ UNCHANGED <<gfFile, gfRead, gfStream, gfEvents, gfWatch, gfOut, gfMade>>

-----------------------------------------------------------------------------
(***************************************************************************)
(* The watch: the handler's loop.                                          *)
(***************************************************************************)

\* watchExitCode.
ExitCode(state) == IF state = "running" THEN "watch_ended" ELSE state

Ends(code) ==
    /\ gfOut' = Append(gfOut, [kind |-> "error", code |-> code, paths |-> {}])
    /\ gfWatch' = [gfWatch EXCEPT !.pc = "done"]

\* A lifecycle event: ignored before ready; ends the watch when the store agrees,
\* else is kept for the settling pass.
LoopLeaseEvent ==
    /\ gfWatch.pc = "loop" /\ gfEvents # <<>>
    /\ gfEvents' = Tail(gfEvents)
    /\ CASE ~gfWatch.started -> UNCHANGED <<gfWatch, gfOut>>
         [] gfLease.state # "running" -> Ends(ExitCode(gfLease.state))
         [] OTHER -> gfWatch' = [gfWatch EXCEPT !.pending = TRUE] /\ UNCHANGED gfOut
    /\ UNCHANGED <<gfFile, gfRead, gfLease, gfStream, gfMade, gfmay>>

LoopReady ==
    /\ gfWatch.pc = "loop" /\ gfStream.q # <<>> /\ Head(gfStream.q) = WatchReady
    /\ gfStream' = [gfStream EXCEPT !.q = Tail(@)]
    /\ gfWatch' = [gfWatch EXCEPT !.started = TRUE]
    /\ gfOut' = Append(gfOut, [kind |-> "ready", code |-> "", paths |-> {}])
    /\ UNCHANGED <<gfFile, gfRead, gfLease, gfEvents, gfMade, gfmay>>

\* Mutant: the window keeps the change it started with.
GatheredFirst(q, n) == {q[1]}

\* The paths of the first n events of the window, errors aside.
Gathered(q, n) == {q[i] : i \in 1..n} \cap 1..ChangeMax

\* flushCoalescedChange: the changes that arrive within the window become one event;
\* an error inside it settles the lease's state, as a close does.
LoopChange ==
    /\ gfWatch.pc = "loop" /\ gfStream.q # <<>> /\ Head(gfStream.q) \in 1..ChangeMax
    /\ \E n \in 1..Len(gfStream.q) :
        /\ \A i \in 1..(n - 1) : gfStream.q[i] \in 1..ChangeMax
        /\ LET line == [kind |-> "change", code |-> "", paths |-> Gathered(gfStream.q, n)]
           IN gfOut' = IF gfWatch.started THEN Append(gfOut, line) ELSE gfOut
        /\ gfStream' = [gfStream EXCEPT !.q = SubSeq(@, n + 1, Len(@))]
        /\ gfWatch' = [gfWatch EXCEPT !.pc = IF gfStream.q[n] = WatchError THEN "settle" ELSE @]
    /\ UNCHANGED <<gfFile, gfRead, gfLease, gfEvents, gfMade, gfmay>>

\* The substrate's own error event: the lease's state decides the code, at once.
LoopError ==
    /\ gfWatch.pc = "loop" /\ gfStream.q # <<>> /\ Head(gfStream.q) = WatchError
    /\ Ends(ExitCode(gfLease.state))
    /\ gfStream' = [gfStream EXCEPT !.q = Tail(@)]
    /\ UNCHANGED <<gfFile, gfRead, gfLease, gfEvents, gfMade, gfmay>>

\* Mutant: a closed stream is the end of the watch, at once.
AfterCloseAtOnce == "named"

\* After the close the handler settles before it names the end.
AfterClose == "settle"

LoopClosed ==
    /\ gfWatch.pc = "loop" /\ gfStream.q = <<>> /\ gfStream.closed
    /\ gfWatch' = [gfWatch EXCEPT !.pc = AfterClose]
    /\ UNCHANGED <<gfFile, gfRead, gfLease, gfStream, gfEvents, gfOut, gfMade, gfmay>>

\* Mutant: only a pending signal is checked.
LoopCheckPending ==
    /\ gfWatch.pc = "loop" /\ gfWatch.pending
    /\ gfWatch' = [gfWatch EXCEPT !.pc = "check", !.pending = FALSE]
    /\ UNCHANGED <<gfFile, gfRead, gfLease, gfStream, gfEvents, gfOut, gfMade, gfmay>>

\* The lease check: a pending signal, or a lease no longer running, is settled.
LoopLeaseCheck ==
    /\ gfWatch.pc = "loop"
    /\ gfWatch.pending \/ gfLease.state # "running"
    /\ gfWatch' = [gfWatch EXCEPT !.pc = "check", !.pending = FALSE]
    /\ UNCHANGED <<gfFile, gfRead, gfLease, gfStream, gfEvents, gfOut, gfMade, gfmay>>

\* settleLease sees the lease out of running and names it.
SettleSees ==
    /\ gfWatch.pc \in {"settle", "check", "named"} /\ gfLease.state # "running"
    /\ Ends(ExitCode(gfLease.state))
    /\ UNCHANGED <<gfFile, gfRead, gfLease, gfStream, gfEvents, gfMade, gfmay>>

\* The settle window is over with the lease running: a closed stream ends the watch,
\* a check goes back to the loop.  An operation that cut the stream and is not slow
\* is over by then.
SettleOver ==
    /\ gfWatch.pc \in {"settle", "check", "named"} /\ gfLease.state = "running"
    /\ \/ gfLease.op = "none" \/ gfLease.slow
       \/ gfWatch.pc # "settle" \/ gfStream.by \in {"transport", "restarted"}
    /\ IF gfWatch.pc = "check"
       THEN gfWatch' = [gfWatch EXCEPT !.pc = "loop"] /\ UNCHANGED gfOut
       ELSE Ends(ExitCode("running"))
    /\ UNCHANGED <<gfFile, gfRead, gfLease, gfStream, gfEvents, gfMade, gfmay>>

-----------------------------------------------------------------------------
GfSettled ==
    \/ gfRead.pc = "done" \/ gfWatch.pc = "done"
    \/ gfWatch.pc = "loop" /\ gfStream.q = <<>> /\ ~gfStream.closed /\ gfLease.op = "none"

GfLoop ==
    \/ LoopLeaseEvent \/ LoopReady \/ LoopChange \/ LoopError \/ LoopClosed \/ LoopLeaseCheck
    \/ SettleSees \/ SettleOver

GFNext ==
    \/ RangeStats \/ FileChanges \/ RangeServed
    \/ WatchOpens \/ GuestChanges \/ TransportDrops
    \/ \E op \in GuestEnds : LeaseEnds(op)
    \/ LeaseEnded \/ LeaseResumes
    \/ LoopLeaseEvent \/ LoopReady \/ LoopChange \/ LoopError \/ LoopClosed \/ LoopLeaseCheck
    \/ SettleSees \/ SettleOver
    \/ GfSettled /\ UNCHANGED gfvars

GFSpec == GFInit /\ [][GFNext]_gfvars

-----------------------------------------------------------------------------
\* The bytes of a 206 are the file's bytes at the positions its Content-Range
\* names, and they are bytes the client asked for, whatever the guest did to the
\* file between the stat and the read (serveFileRange).
RangeIsHonest ==
    gfRead.pc = "done" /\ gfRead.ans.status = 206 =>
        LET a == gfRead.ans IN
        /\ a.bytes = SubSeq(gfFile, a.from + 1, a.to + 1)
        /\ Len(a.bytes) \in 1..ReadMax
        /\ IF gfRead.br.first >= 0
           THEN a.from = gfRead.br.first /\ (gfRead.br.last >= 0 => a.to <= gfRead.br.last)
           ELSE a.from >= 0 /\ a.from >= gfRead.size - gfRead.br.last

\* The terminal event names what ended the watch: a watch that a pause, a loss or a
\* release ended says watch_ended only when that took longer than the settle window,
\* or the owner has resumed the lease in between; the end of the stream may come
\* first (settleLease).  A restart has nothing else to say.
EndIsNamed ==
    \A i \in 1..Len(gfOut) :
        gfOut[i].code = "watch_ended" =>
            \/ gfStream.by \in {"transport", "restarted"} \/ gfLease.slow
            \/ gfLease.state = "running" /\ gfLease.op = "none"

\* The client of a watch gets ready first, the error last and only once, and, when
\* the stream ended by itself, every change made since ready in between (the
\* coalescing window drops none).
WatchIsWhole ==
    gfOut # <<>> /\ gfWatch.started =>
        /\ gfOut[1].kind = "ready"
        /\ \A i \in 1..Len(gfOut) : gfOut[i].kind = "error" => i = Len(gfOut)
        /\ gfWatch.pc = "done" /\ Last(gfOut).code = "watch_ended" =>
             gfMade \subseteq UNION {gfOut[i].paths : i \in 1..Len(gfOut)}

\* A watch ends after its lease did: the client is not left on a silent stream
\* (watchEndsOn, the lease check).
WatchEnds ==
    gfWatch.pc = "loop" /\ gfLease.state # "running" ~>
        gfWatch.pc = "done" \/ gfLease.state = "running"

\* A range and a watch say what the guest's files were, and a watch that ends
\* says why.
FilesAreHonest ==
  /\ RangeIsHonest
  /\ EndIsNamed
  /\ WatchIsWhole
=============================================================================
