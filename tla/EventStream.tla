----------------------------- MODULE EventStream ----------------------------
(***************************************************************************)
(* The event stream of the control room: the emitter with its numbered     *)
(* ring buffer and one bounded queue per subscriber                        *)
(* (services/event_emitter.py), and the websocket handlers that replay the *)
(* buffer to a client and then drain its queue (routes/events.py).         *)
(*                                                                         *)
(* emit() and subscribe() + recent_events() never suspend; a handler       *)
(* suspends in each send and in queue.get().  Events are their numbers.    *)
(***************************************************************************)
EXTENDS Naturals, SequencesExt

CONSTANTS
    Clients,     \* websocket connections
    BufferSize,  \* maxlen of the ring buffer (ws_event_buffer_size)
    QueueSize,   \* maxsize of a subscriber's queue (256 in the code)
    MaxSeq       \* bound of the model: events emitted

ASSUME StreamAssumption == {BufferSize, QueueSize, MaxSeq} \subseteq Nat \ {0}

VARIABLES
    seq,     \* EventEmitter._seq, the number of the last event
    buffer,  \* EventEmitter._buffer
    conn,    \* conn[c]: "closed", "open", or "gone" (the client has left and
             \* the handler does not know)
    since,   \* since[c]: the since_seq c connected with
    replay,  \* replay[c]: buffered events c's handler has yet to send
    queue,   \* queue[c]: c's subscriber queue
    sent,    \* sent[c]: what c received on this connection
    lost     \* lost[c]: events the emitter could no longer or not give to c

vars == <<seq, buffer, conn, since, replay, queue, sent, lost>>

Subscribed == {c \in Clients : conn[c] # "closed"}

TypeOK ==
    /\ seq \in 0 .. MaxSeq
    /\ buffer \in Seq(1 .. MaxSeq) /\ Len(buffer) <= BufferSize
    /\ conn \in [Clients -> {"closed", "open", "gone"}]
    /\ since \in [Clients -> 0 .. MaxSeq]
    /\ replay \in [Clients -> Seq(1 .. MaxSeq)]
    /\ queue \in [Clients -> Seq(1 .. MaxSeq)]
    /\ \A c \in Clients : Len(queue[c]) <= QueueSize /\ Len(replay[c]) <= BufferSize
    /\ sent \in [Clients -> Seq(1 .. MaxSeq)]
    /\ lost \in [Clients -> SUBSET (1 .. MaxSeq)]

Init ==
    /\ seq = 0
    /\ buffer = <<>>
    /\ conn = [c \in Clients |-> "closed"]
    /\ since = [c \in Clients |-> 0]
    /\ replay = [c \in Clients |-> <<>>]
    /\ queue = [c \in Clients |-> <<>>]
    /\ sent = [c \in Clients |-> <<>>]
    /\ lost = [c \in Clients |-> {}]

-----------------------------------------------------------------------------
(* The emitter.                                                            *)

\* Mutant: the buffer has no maxlen.
PushUnbounded(s, e) == Append(s, e)

\* deque(maxlen): the oldest event makes room.
Push(s, e) == IF Len(s) < BufferSize THEN Append(s, e) ELSE Append(Tail(s), e)

\* Mutant: a full queue makes room for the new event instead of refusing it.
OfferDroppingOldest(q, e) == IF Len(q) < QueueSize THEN Append(q, e) ELSE Append(Tail(q), e)

\* put_nowait; QueueFull is swallowed.
Offer(q, e) == IF Len(q) < QueueSize THEN Append(q, e) ELSE q

Emit ==
    /\ seq < MaxSeq
    /\ LET e == seq + 1 IN
         /\ seq' = e
         /\ buffer' = Push(buffer, e)
         /\ queue' = [c \in Clients |-> IF c \in Subscribed THEN Offer(queue[c], e) ELSE queue[c]]
         /\ lost' = [c \in Clients |->
                       IF c \in Subscribed /\ Len(queue[c]) = QueueSize
                         THEN lost[c] \cup {e} ELSE lost[c]]
    /\ UNCHANGED <<conn, since, replay, sent>>

\* recent_events: the events after s, which are the end of the buffer, whose
\* numbers increase.
Recent(s) ==
    LET known == Cardinality({i \in DOMAIN buffer : buffer[i] <= s})
    IN  SubSeq(buffer, known + 1, Len(buffer))

-----------------------------------------------------------------------------
(* The websocket handler of connection c.                                  *)

\* A client connects with the last number it knows of, and the handler
\* subscribes and takes what the buffer has after it, in one step.  What the
\* buffer has dropped by then is lost to this client.
Connect(c, s) ==
    /\ conn[c] = "closed"
    /\ conn' = [conn EXCEPT ![c] = "open"]
    /\ since' = [since EXCEPT ![c] = s]
    /\ replay' = [replay EXCEPT ![c] = Recent(s)]
    /\ queue' = [queue EXCEPT ![c] = <<>>]
    /\ sent' = [sent EXCEPT ![c] = <<>>]
    /\ lost' = [lost EXCEPT ![c] = (s + 1 .. seq) \ Range(buffer)]
    /\ UNCHANGED <<seq, buffer>>

\* send_json in the loop over the buffered events.
SendReplay(c) ==
    /\ conn[c] = "open"
    /\ replay[c] # <<>>
    /\ sent' = [sent EXCEPT ![c] = Append(@, Head(replay[c]))]
    /\ replay' = [replay EXCEPT ![c] = Tail(@)]
    /\ UNCHANGED <<seq, buffer, conn, since, queue, lost>>

\* Mutant: the queue is drained before the replay is over.
DrainsAtOnce(c) == queue[c] # <<>>

\* Mutant: events are collected until the queue is full.
DrainsFull(c) == replay[c] = <<>> /\ Len(queue[c]) = QueueSize

\* queue.get() is reached when the replay is over.
Drains(c) == replay[c] = <<>> /\ queue[c] # <<>>

\* queue.get() and send_json.
SendQueued(c) ==
    /\ conn[c] = "open"
    /\ Drains(c)
    /\ sent' = [sent EXCEPT ![c] = Append(@, Head(queue[c]))]
    /\ queue' = [queue EXCEPT ![c] = Tail(@)]
    /\ UNCHANGED <<seq, buffer, conn, since, replay, lost>>

\* The client goes away.  The handler does not look: it is only told by a send.
Leave(c) ==
    /\ conn[c] = "open"
    /\ conn' = [conn EXCEPT ![c] = "gone"]
    /\ UNCHANGED <<seq, buffer, since, replay, queue, sent, lost>>

\* Mutant: the failure of a send is swallowed inside the loop.
SendFailsQuietly(c) ==
    /\ conn[c] = "gone"
    /\ Drains(c)
    /\ queue' = [queue EXCEPT ![c] = Tail(@)]
    /\ UNCHANGED <<seq, buffer, conn, since, replay, sent, lost>>

\* WebSocketDisconnect from a send: unsubscribe.
SendFails(c) ==
    /\ conn[c] = "gone"
    /\ replay[c] # <<>> \/ Drains(c)
    /\ conn' = [conn EXCEPT ![c] = "closed"]
    /\ replay' = [replay EXCEPT ![c] = <<>>]
    /\ queue' = [queue EXCEPT ![c] = <<>>]
    /\ UNCHANGED <<seq, buffer, since, sent, lost>>

HandlerStep(c) == SendReplay(c) \/ SendQueued(c) \/ SendFails(c)

Next ==
    \/ Emit
    \/ \E c \in Clients : HandlerStep(c) \/ Leave(c) \/ \E s \in 0 .. seq : Connect(c, s)

Spec == Init /\ [][Next]_vars

\* The loop runs every handler that has something to send, and sends end.
FairSpec == Spec /\ \A c \in Clients : WF_vars(HandlerStep(c))

-----------------------------------------------------------------------------
(* Properties.                                                             *)

Increasing(s) == \A i, j \in DOMAIN s : i < j => s[i] < s[j]

\* What a client gets, has waiting in the replay and has waiting in the queue
\* is one strictly increasing run of events after since_seq: nothing is sent
\* twice and nothing out of order, although the replay and the queue are filled
\* at different times (events.py:15-21).
InOrderOnce ==
    \A c \in Subscribed :
        LET line == sent[c] \o replay[c] \o queue[c]
        IN  Increasing(line) /\ \A i \in DOMAIN line : line[i] > since[c]

\* No event disappears between the replay and the queue: every event after
\* since_seq was sent, is on its way, or was given up at one of the two limits
\* the emitter has, its ring buffer and a full queue (event_emitter.py:19-25).
EveryEventAccounted ==
    \A c \in Subscribed :
        LET line == sent[c] \o replay[c] \o queue[c]
        IN  /\ Range(line) \cup lost[c] = since[c] + 1 .. seq
            /\ Range(line) \cap lost[c] = {}

\* A client that stays gets every event that waits for it.
WaitingIsSent ==
    \A c \in Clients : \A e \in 1 .. MaxSeq :
        conn[c] = "open" /\ e \in Range(replay[c] \o queue[c])
            ~> conn[c] # "open" \/ e \in Range(sent[c])

\* A connection whose client is gone is closed as soon as anything happens: its
\* queue does not stay subscribed while events are emitted (events.py:18-25).
GoneIsReleased ==
    \A c \in Clients :
        conn[c] = "gone" /\ replay[c] \o queue[c] # <<>> ~> conn[c] = "closed"

=============================================================================
