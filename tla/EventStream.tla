---------------------------- MODULE EventStream ----------------------------
(***************************************************************************)
(* The lease event bus and one server-sent-events stream of it             *)
(* (api/events.go, api/events_sse.go): a ring of the last events, a        *)
(* buffered channel that sheds the oldest event when the reader is slow,   *)
(* a client that loses its connection and comes back with the id it read   *)
(* last, and a restart that begins a new epoch.                            *)
(*                                                                         *)
(* An event is its sequence number and whether the stream's filter and     *)
(* visibility check let it through; sequence numbers start at 1.           *)
(***************************************************************************)
EXTENDS Naturals, Sequences, FiniteSets

CONSTANTS
  RingSize,       \* leaseEventRingSize
  SubBuffer,      \* leaseEventSubBuffer
  EvBound,        \* bound: events emitted in an epoch
  EvScenarios     \* sets of events, one chosen per behaviour

EvEvents == {"restart", "badid", "lose"}
ASSUME EvAssumption ==
  /\ {RingSize, EvBound} \subseteq Nat \ {0}
  /\ SubBuffer \in Nat \ {0, 1}
  /\ EvScenarios \subseteq SUBSET EvEvents

VARIABLES
  epoch, seq, ring,   \* eventBus: the epoch, the last number, the kept events
  ch,                 \* the subscription's channel; a gap marker is 0
  conn,               \* the handler: [at, replay, gap]
  pos,                \* the client's Last-Event-ID: [epoch, seq]
  seen, got,          \* history: numbers read in pos.epoch, and how many reads
  base, warned,       \* history: losses up to here predate the stream, or were announced
  mine,               \* history: numbers of the events that are the client's to see
  emay

evvars == <<epoch, seq, ring, ch, conn, pos, seen, got, base, warned, mine, emay>>

Off == [at |-> "off", replay |-> <<>>, gap |-> FALSE, from |-> 0]

EVInit ==
  /\ epoch = 1 /\ seq = 0 /\ ring = <<>> /\ ch = <<>> /\ conn = Off
  /\ pos = [epoch |-> 0, seq |-> 0] /\ seen = {} /\ got = 0 /\ base = 0 /\ warned = 0
  /\ mine = {} /\ emay \in EvScenarios

(***************************************************************************)
(* The bus.                                                                *)
(***************************************************************************)
\* eventSub.send: when the channel is full its oldest entry makes room.
SendEvent(q, e) == IF Len(q) < SubBuffer THEN Append(q, e) ELSE Append(Tail(q), e)

\* Mutant: what was shed is not announced.
SendOnly(q, e) == SendEvent(q, e)

\* deliver: the event, and behind it a gap marker when anything was shed.
Deliver(q, e) == IF Len(q) < SubBuffer THEN SendEvent(q, e) ELSE SendEvent(SendEvent(q, e), 0)

\* emitTakeBack, which every emit comes to: number, ring, subscribers.
Emit(visible) ==
  /\ seq < EvBound
  /\ seq' = seq + 1
  /\ ring' = IF Len(ring) < RingSize THEN Append(ring, seq + 1)
             ELSE Append(Tail(ring), seq + 1)
  /\ mine' = IF visible THEN mine \cup {seq + 1} ELSE mine
  /\ ch' = IF visible /\ conn.at # "off" THEN Deliver(ch, seq + 1) ELSE ch
  /\ UNCHANGED <<epoch, conn, pos, seen, got, base, warned, emay>>

\* Mutant: the event right after the position may already have left the ring.
InRingLate(s) == s + 2 >= ring[1]

\* replayAfterLocked: the position's next event is still kept.
InRing(s) == s + 1 >= ring[1]

\* The gap the stream must announce: another epoch, past the newest, out of the ring.
MustGap(p) ==
  \/ p.epoch # epoch
  \/ p.seq > seq
  \/ ring # <<>> /\ p.seq # seq /\ ~InRing(p.seq)

\* Mutant: the event the client read last is replayed again.
ReplayedFrom(p) == SelectSeq(ring, LAMBDA s : s >= p.seq /\ s \in mine)

\* What is replayed: the kept events after the position, the client's only.
Replayed(p) == SelectSeq(ring, LAMBDA s : s > p.seq /\ s \in mine)

(***************************************************************************)
(* streamEvents.                                                           *)
(***************************************************************************)
\* subscribeWithReplay: registered and replayed under one lock.  A client without a
\* position starts at the newest event; an id that does not parse is a gap.
Connect(how) ==
  /\ conn.at = "off"
  /\ how = "fresh" => pos.epoch = 0
  /\ how = "id" => pos.epoch # 0
  /\ how = "bad" => "badid" \in emay /\ pos.epoch # 0
  /\ ch' = <<>>
  /\ LET gap == how = "bad" \/ (how = "id" /\ MustGap(pos)) IN
     /\ conn' = [at |-> "replay", gap |-> gap, from |-> seq,
                 replay |-> IF how = "id" /\ ~gap THEN Replayed(pos) ELSE <<>>]
  /\ base' = IF how = "fresh" THEN seq ELSE base
  /\ UNCHANGED <<epoch, seq, ring, pos, seen, got, warned, mine, emay>>

\* The client reads an event with its id.
Reads(s) ==
  /\ seen' = seen \cup {s} /\ got' = got + 1 /\ pos' = [epoch |-> epoch, seq |-> s]

\* writeVisible, one replayed event at a time.
WriteReplay ==
  /\ conn.at = "replay" /\ conn.replay # <<>>
  /\ Reads(Head(conn.replay)) /\ conn' = [conn EXCEPT !.replay = Tail(@)]
  /\ UNCHANGED <<epoch, seq, ring, ch, base, warned, mine, emay>>

\* The connect-time gap carries the position at the subscription as its id.
WriteGap ==
  /\ conn.at = "replay" /\ conn.replay = <<>>
  /\ conn' = [conn EXCEPT !.at = "live", !.gap = FALSE]
  /\ IF conn.gap
     THEN /\ pos' = [epoch |-> epoch, seq |-> conn.from]
          /\ warned' = conn.from /\ base' = conn.from
          /\ seen' = {} /\ got' = 0
     ELSE UNCHANGED <<pos, warned, base, seen, got>>
  /\ UNCHANGED <<epoch, seq, ring, ch, mine, emay>>

\* A live event, or a marker without an id: what the client has read so far is
\* followed by a hole it now knows of.
WriteLive ==
  /\ conn.at = "live" /\ ch # <<>> /\ ch' = Tail(ch)
  /\ IF Head(ch) = 0 THEN warned' = pos.seq /\ UNCHANGED <<seen, got, pos>>
     ELSE Reads(Head(ch)) /\ UNCHANGED warned
  /\ UNCHANGED <<epoch, seq, ring, conn, base, mine, emay>>

\* The connection ends: unsubscribe, and what is in the channel is gone.
StreamDrops ==
  /\ conn.at # "off"
  /\ "lose" \in emay \/ \A i \in DOMAIN ch : ch[i] # 0
  /\ conn' = Off /\ ch' = <<>>
  /\ UNCHANGED <<epoch, seq, ring, pos, seen, got, base, warned, mine, emay>>

\* The backend restarts: an empty ring and another epoch (newEventEpoch).
BusRestart ==
  /\ "restart" \in emay /\ emay' = emay \ {"restart"}
  /\ epoch' = epoch + 1 /\ seq' = 0 /\ ring' = <<>> /\ ch' = <<>> /\ conn' = Off
  /\ mine' = {}
  /\ UNCHANGED <<pos, seen, got, base, warned>>

EVNext ==
  \/ \E v \in BOOLEAN : Emit(v)
  \/ \E how \in {"fresh", "id", "bad"} : Connect(how)
  \/ WriteReplay \/ WriteGap \/ WriteLive \/ StreamDrops \/ BusRestart

EVSpec == EVInit /\ [][EVNext]_evvars

(***************************************************************************)
(* Properties.                                                             *)
(***************************************************************************)
\* Every event of the client's, up to the last id it has read, was read, was announced
\* as lost, or has its announcement in the channel: across reconnects, replays,
\* overruns and restarts nothing goes missing unsaid (replayAfterLocked, deliver).
NoSilentLoss ==
  pos.epoch = epoch =>
    \A s \in mine : base < s /\ s <= pos.seq =>
        \/ s \in seen \/ s <= warned
        \/ \E i \in DOMAIN ch : ch[i] = 0

\* No event is read twice and none out of order: the replay and the live events meet
\* without overlap (subscribeWithReplay).
ReadOnceInOrder ==
  /\ got = Cardinality(seen)
  /\ \A s \in seen : s <= pos.seq

\* A client that stays connected reads every event of its, or is told of the loss.
EventArrives ==
  \A s \in 1 .. EvBound :
    (s \in mine /\ conn.at # "off" /\ base < s)
      ~> (s \in seen \/ s <= warned \/ conn.at = "off" \/ s \notin mine)

\* A client reads every event once and in order, or is told of the gap.
StreamIsWhole ==
  /\ NoSilentLoss
  /\ ReadOnceInOrder
=============================================================================
