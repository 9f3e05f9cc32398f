---------------------------- MODULE EventStream -----------------------------
(***************************************************************************)
(* The events of one run and the page that follows them: EventBroker with  *)
(* its ring buffer and the bounded queue of a subscriber, the generator    *)
(* _run_sse, the route run_stream with its fallback on the persisted       *)
(* record, and the retention of a finished controller.                     *)
(*                                                                         *)
(* An event is its sequence number; of its contents only which one ended   *)
(* the run is kept (end).  The buffer is always the newest MaxEvents       *)
(* numbers, a queue a set of numbers, for both are filled in order.  The   *)
(* publisher may be a thread (tuning), so it may step between any two      *)
(* steps of the generator; readers do not share anything, one is enough.   *)
(***************************************************************************)
EXTENDS Naturals, FiniteSets

CONSTANTS MaxEvents,     \* the ring buffer
          QueueSize,     \* a subscriber's queue
          MaxSeq,        \* bound: events of the run
          MaxConnects    \* bound: connections of the reader

ASSUME StreamAssumption == /\ MaxEvents \in Nat \ {0}
                           /\ QueueSize \in Nat \ {0}
                           /\ MaxSeq \in Nat
                           /\ MaxConnects \in Nat

VARIABLES
  seq, end,      \* the last number published, the number that ended the run
  run,           \* the controller: "active", its end published ("ended"), that
                 \* end on record ("recorded"), "done" and retained, "forgotten"
                 \* by the retention, "lost" with the service
  record,        \* "starting", "running", "terminal", "unknown"
  at,            \* the generator: see Connected; "out", "closed" by the server
  after,         \* the number the client asked from
  todo, queue,   \* to be replayed, and received since the subscription
  missed,        \* published to the full queue
  seen, told,    \* delivered on this connection; the truncation warning
  knows,         \* the client knows that the run is over
  connects

broker == <<seq, end>>
controller == <<run, record>>
connection == <<at, after, todo, queue, missed, seen, told>>
streamVars == <<broker, controller, connection, knows, connects>>

Gone == {"forgotten", "lost"}

(* Subscribed, replaying the buffer, draining the queue, looking at the    *)
(* controller when it is empty, draining it once more when the run is done.*)
Connected == {"subscribed", "replaying", "draining", "looking", "last"}

StreamInit ==
  /\ seq = 0
  /\ end = 0
  /\ run = "active"
  /\ record = "starting"
  /\ at = "out"
  /\ after = 0
  /\ todo = {}
  /\ queue = {}
  /\ missed = {}
  /\ seen = {}
  /\ told = FALSE
  /\ knows = FALSE
  /\ connects = 0

-----------------------------------------------------------------------------
(* The broker. *)

Oldest == IF seq > MaxEvents THEN seq - MaxEvents + 1 ELSE 1
Buffered == Oldest..seq

(* Numbered, buffered, offered to the subscriber; a full queue drops it.   *)
Publish ==
  /\ seq < MaxSeq
  /\ seq' = seq + 1
  /\ IF at \in Connected /\ Cardinality(queue) < QueueSize
     THEN queue' = queue \cup {seq'} /\ UNCHANGED missed
     ELSE /\ missed' = IF at \in Connected THEN missed \cup {seq'} ELSE missed
          /\ UNCHANGED queue
  /\ UNCHANGED <<at, after, todo, seen, told, knows, connects>>

(* Mutant of Truncated: nothing is missing while the buffer is not full.   *)
TruncatedWhenFull(from) == seq > MaxEvents /\ Oldest > from + 2

(* replay_truncated *)
Truncated(from) == seq > 0 /\ Oldest > from + 1

(* The events subscribe() returns with the queue it registers.             *)
Replayable(from) == {s \in Buffered : s > from}

-----------------------------------------------------------------------------
(* The controller. *)

Report ==
  /\ run = "active"
  /\ Publish
  /\ UNCHANGED <<end, controller>>

(* The record says running once a phase or an identity is reported.        *)
RecordRunning ==
  /\ run = "active"
  /\ record' = "running"
  /\ UNCHANGED <<broker, run, connection, knows, connects>>

PublishEnd ==
  /\ run = "active"
  /\ Publish
  /\ end' = seq'
  /\ run' = "ended"
  /\ UNCHANGED record

(* The terminal record, whose write may fail. *)
RecordEnd ==
  /\ run = "ended"
  /\ run' = "recorded"
  /\ record' \in {record, "terminal"}
  /\ UNCHANGED <<broker, connection, knows, connects>>

(* What is published after the end: the event of the finalizer, and the    *)
(* output of a training a tuning session has left.                         *)
PublishLate ==
  /\ run \in {"ended", "recorded", "done", "forgotten"}
  /\ Publish
  /\ UNCHANGED <<end, controller>>

(* Mutant of MarkDone: done before the end is published. *)
MarkDoneEarly ==
  /\ run \in {"active", "recorded"}
  /\ run' = "done"
  /\ UNCHANGED <<broker, record, connection, knows, connects>>

(* Marked done and moved to the retention. *)
MarkDone ==
  /\ run = "recorded"
  /\ run' = "done"
  /\ UNCHANGED <<broker, record, connection, knows, connects>>

(* The retention is over: by age, or by the number of retained runs.       *)
Forget ==
  /\ run = "done"
  /\ run' = "forgotten"
  /\ UNCHANGED <<broker, record, connection, knows, connects>>

-----------------------------------------------------------------------------
(* The client and its stream. *)

Drop ==
  /\ at' = "out"
  /\ todo' = {}
  /\ queue' = {}
  /\ missed' = {}
  /\ seen' = {}
  /\ told' = FALSE
  /\ UNCHANGED <<after, knows, connects>>

(* The service dies: its controllers, brokers and streams with it. *)
Restart ==
  /\ run # "lost"
  /\ run' = "lost"
  /\ UNCHANGED <<broker, record>>
  /\ Drop

(* The client asks for what follows the number it has (the start route and *)
(* a first look: 0; a reload: that of the last event of a running record,  *)
(* which is never the end).                                                *)
Connect ==
  /\ at \in {"out", "closed"}
  /\ connects < MaxConnects
  /\ connects' = connects + 1
  /\ ~knows
  /\ \E from \in 0..seq : (end # 0 => from < end) /\ after' = from

Subscribe ==
  /\ Connect
  /\ run \notin Gone
  /\ at' = "subscribed"
  /\ todo' = Replayable(after')
  /\ queue' = {}
  /\ missed' = {}
  /\ seen' = {}
  /\ told' = FALSE
  /\ UNCHANGED <<broker, controller, knows>>

(* Without a controller the record is all there is: a running one is       *)
(* reconciled (to "unknown" when its process cannot be identified, which   *)
(* the client does not take for an end; the write may fail), and its       *)
(* status is sent as one last event.                                       *)
AskRecord ==
  /\ Connect
  /\ run \in Gone
  /\ at' = "closed"
  /\ \E status \in IF record = "running" THEN {"terminal", "unknown"}
                                        ELSE {record} :
       /\ record' \in {record, status}
       /\ knows' = (status = "terminal")
  /\ told' = TRUE
  /\ todo' = {}
  /\ queue' = {}
  /\ missed' = {}
  /\ seen' = {}
  /\ UNCHANGED <<broker, run>>

(* The generator reads the buffer a second time, after the subscription.   *)
Warn ==
  /\ at = "subscribed"
  /\ at' = "replaying"
  /\ told' = Truncated(after)
  /\ UNCHANGED <<broker, controller, after, todo, queue, missed, seen,
                 knows, connects>>

(* The earliest of the events that are there. *)
Deliver(s, events) ==
  /\ \A t \in events : s <= t
  /\ seen' = seen \cup {s}
  /\ knows' = (knows \/ s = end)
  /\ UNCHANGED <<broker, controller, after, missed, told, connects>>

Replay ==
  /\ at = "replaying"
  /\ IF todo = {}
     THEN /\ at' = "draining"
          /\ UNCHANGED <<broker, controller, after, todo, queue, missed,
                         seen, told, knows, connects>>
     ELSE \E s \in todo :
          /\ Deliver(s, todo)
          /\ todo' = todo \ {s}
          /\ UNCHANGED <<at, queue>>

Drain ==
  /\ at \in {"draining", "last"}
  /\ \E s \in queue : Deliver(s, queue) /\ queue' = queue \ {s}
  /\ UNCHANGED <<at, todo>>

(* get_nowait finds nothing. *)
FindEmpty ==
  /\ at = "draining"
  /\ queue = {}
  /\ at' = "looking"
  /\ UNCHANGED <<broker, controller, after, todo, queue, missed, seen, told,
                 knows, connects>>

(* Then is_done() decides whether to sleep, or to drain once more what was *)
(* published in between.                                                   *)
LookAtRun ==
  /\ at = "looking"
  /\ at' = IF run \in {"done", "forgotten"} THEN "last" ELSE "draining"
  /\ UNCHANGED <<broker, controller, after, todo, queue, missed, seen, told,
                 knows, connects>>

Close ==
  /\ at = "last"
  /\ queue = {}
  /\ at' = "closed"
  /\ UNCHANGED <<broker, controller, after, todo, queue, missed, seen, told,
                 knows, connects>>

(* The client goes away: the generator unsubscribes, the run goes on.      *)
Disconnect ==
  /\ at \in Connected
  /\ Drop
  /\ UNCHANGED <<broker, controller>>

-----------------------------------------------------------------------------
Run == Report \/ RecordRunning \/ PublishEnd \/ RecordEnd \/ PublishLate
       \/ MarkDone \/ Forget

Stream == Warn \/ Replay \/ Drain \/ FindEmpty \/ LookAtRun \/ Close

StreamNext == Run \/ Subscribe \/ AskRecord \/ Stream \/ Disconnect \/ Restart

StreamSpec == StreamInit /\ [][StreamNext]_streamVars

(* The event loop serves every open stream; nothing forces a run to end or *)
(* a client to stay.                                                       *)
StreamFairSpec == StreamSpec /\ WF_streamVars(Stream)

-----------------------------------------------------------------------------
(* Properties. *)

(* A connection never delivers an event twice or out of order, replay and  *)
(* live events included, so the client's filter by number discards nothing *)
(* (subscribe registers and snapshots under one lock).                     *)
DeliveredInOrder ==
  [][\A s \in seen' \ seen : s > after /\ \A t \in seen : t < s]_streamVars

(* Every event after the number the client asked from has been delivered,  *)
(* is on its way, was dropped by the full queue, or was evicted before the *)
(* first one replayed, and then the client was warned.                     *)
GapsAreKnown ==
  at \in Connected =>
    \A s \in (after + 1)..seq :
      \/ s \in seen \cup todo \cup queue \cup missed
      \/ /\ at = "subscribed" \/ told
         /\ \A t \in seen \cup todo \cup queue \cup missed : s < t

(* A stream the server closes has delivered the end of the run, unless the *)
(* client was too slow or asked too late (events.py: "terminal facts are   *)
(* ... re-delivered by a resubscribe").                                    *)
ClosedStreamHasEnd ==
  at = "closed" => \/ knows
                   \/ end \in missed
                   \/ told

(* A client that stays connected past the end of the run learns it, or the *)
(* stream tells it that something is missing.                              *)
ReaderLearnsEnd ==
  run = "done" /\ at \in Connected
    ~> knows \/ end \in missed \/ told \/ at = "out"

(* What a reader may not miss unawares: neither an event nor the end.      *)
NothingMissedUnawares == GapsAreKnown /\ ClosedStreamHasEnd

(* The events come in order and once, and the end comes.                   *)
ReaderIsServed == DeliveredInOrder /\ ReaderLearnsEnd
=============================================================================
