---- MODULE Channel ----
(***************************************************************************)
(* One direction of a SocketChannel or UCXChannel: calls of send and       *)
(* send_buffers on one side, the loop of on_new_channel on the other, and  *)
(* the frames in between: eleven bytes of information, the header, the     *)
(* buffers and, after a switch_to_copy_to message, the raw data.           *)
(*                                                                         *)
(* A socket carries bytes and a message is written at once; a UCX endpoint *)
(* matches each recv with one send and fails when the sizes differ, and a  *)
(* message is sent frame by frame under a lock.                            *)
(***************************************************************************)
EXTENDS Naturals, Sequences, FiniteSets, SequencesExt

CONSTANTS Senders,   \* calls of send or send_buffers, one message each
          Shapes,    \* the messages: sizes of buffers, sizes of raw data, ref, readable
          InfoSize,  \* 11, to be told from the sizes of other frames only by chance
          HeadSize   \* the length of a pickled header

VARIABLES kind,    \* socket or ucx
          post,    \* per sender: pc, message, frames still to send
          sendq,   \* _send_lock: the holder and those who wait
          wire,    \* frames on their way
          rcv,     \* on_new_channel: pc, frames to come, message being received
          arrived, \* messages handed to process_message or copied, with their frames
          order,   \* history: the senders in the order their messages were sent
          cut,     \* history: a sender was cancelled between two frames
          shut     \* the sending side closed the channel

channelVars == <<kind, post, sendq, wire, rcv, arrived, order, cut, shut>>

\* The parts of a message: 1 and 2, then the buffers.
Info == 1
Header == 2
Frame(s, part, size) == [from |-> s, part |-> part, size |-> size]

\* AioSerializer and, for a copy, the local buffers behind it.
Frames(s, m) ==
    <<Frame(s, Info, InfoSize), Frame(s, Header, HeadSize)>>
    \o [k \in DOMAIN m.bufs |-> Frame(s, 2 + k, m.bufs[k])]
    \o [k \in DOMAIN m.data |-> Frame(s, 2 + Len(m.bufs) + k, m.data[k])]

Idle == [pc |-> "info", need |-> <<>>, from |-> "none", got |-> <<>>]
Init ==
    /\ kind \in {"socket", "ucx"}
    /\ post = [s \in Senders |-> [pc |-> "idle", msg |-> CHOOSE m \in Shapes : TRUE, left |-> <<>>]]
    /\ sendq = <<>> /\ wire = <<>> /\ arrived = <<>> /\ order = <<>>
    /\ rcv = Idle
    /\ cut = FALSE /\ shut = FALSE

\* send: the message is serialized, perhaps in a thread.
Send(s, m) ==
    /\ post[s].pc = "idle" /\ ~shut
    /\ kind = "ucx" \/ m.data = <<>>
    /\ post' = [post EXCEPT ![s] = [pc |-> "serial", msg |-> m, left |-> Frames(s, m)]]
    /\ UNCHANGED <<kind, sendq, wire, rcv, arrived, order, cut, shut>>

\* write_buffers of a socket: the bytes of all buffers without an await, those
\* of an empty one being none.
WriteBuffers(s) ==
    /\ kind = "socket" /\ post[s].pc = "serial" /\ ~shut
    /\ wire' = wire \o SelectSeq(post[s].left, LAMBDA f : f.size > 0)
    /\ order' = Append(order, s)
    /\ post' = [post EXCEPT ![s].pc = "done", ![s].left = <<>>]
    /\ UNCHANGED <<kind, sendq, rcv, arrived, cut, shut>>

\* send_buffers of UCX: the lock, then one awaited send for each buffer.
Enqueue(s) ==
    /\ kind = "ucx" /\ post[s].pc = "serial"
    /\ post' = [post EXCEPT ![s].pc = "locked"]
    /\ sendq' = Append(sendq, s)
    /\ UNCHANGED <<kind, wire, rcv, arrived, order, cut, shut>>

SendFrameUnlocked(s) ==
    /\ post[s].pc = "locked" /\ ~shut
    /\ wire' = Append(wire, Head(post[s].left))
    /\ order' = IF Head(post[s].left).part = Info THEN Append(order, s) ELSE order
    /\ LET left == Tail(post[s].left)
       IN /\ post' = [post EXCEPT ![s].left = left, ![s].pc = IF left = <<>> THEN "done" ELSE @]
          /\ sendq' = IF left = <<>> THEN SelectSeq(sendq, LAMBDA t : t # s) ELSE sendq
    /\ UNCHANGED <<kind, rcv, arrived, cut, shut>>
SendFrame(s) ==
    /\ post[s].pc = "locked" /\ Head(sendq) = s /\ ~shut
    /\ wire' = Append(wire, Head(post[s].left))
    /\ order' = IF Head(post[s].left).part = Info THEN Append(order, s) ELSE order
    /\ LET left == Tail(post[s].left)
       IN /\ post' = [post EXCEPT ![s].left = left, ![s].pc = IF left = <<>> THEN "done" ELSE @]
          /\ sendq' = IF left = <<>> THEN Tail(sendq) ELSE sendq
    /\ UNCHANGED <<kind, rcv, arrived, cut, shut>>

\* The endpoint is gone: UCXBaseException, ChannelClosed for the sender.
SendFails(s) ==
    /\ shut \/ rcv.pc = "broken"
    /\ \/ post[s].pc = "serial"
       \/ post[s].pc = "locked" /\ Head(sendq) = s
    /\ post' = [post EXCEPT ![s].pc = "failed", ![s].left = <<>>]
    /\ sendq' = SelectSeq(sendq, LAMBDA t : t # s)
    /\ UNCHANGED <<kind, wire, rcv, arrived, order, cut, shut>>

\* The task that sends is cancelled; the lock is given up.
CancelSend(s) ==
    /\ post[s].pc \in {"serial", "locked"}
    /\ post' = [post EXCEPT ![s].pc = "cancelled", ![s].left = <<>>]
    /\ sendq' = SelectSeq(sendq, LAMBDA t : t # s)
    /\ cut' = (cut \/ (Len(post[s].left) < Len(Frames(s, post[s].msg))))
    /\ UNCHANGED <<kind, wire, rcv, arrived, order, shut>>

\* The sending side closes, or dies: what was sent before can still be read
\* from a socket; a UCX endpoint may lose it.
Close ==
    /\ ~shut
    /\ shut' = TRUE
    /\ wire' \in IF kind = "ucx" THEN {wire, <<>>} ELSE {wire}
    /\ UNCHANGED <<kind, post, sendq, rcv, arrived, order, cut>>

-----------------------------------------------------------------------------
Broken == rcv.pc \in {"broken", "dead"}
Break == rcv' = [Idle EXCEPT !.pc = "broken"]

\* A recv of the given size gets the first frame.
Fits(f, size) == f.size = size
Receiving == ~Broken /\ wire # <<>>
Take == wire' = Tail(wire)

\* recv: information and header are only recognised by their contents.
RecvInfo ==
    /\ Receiving /\ rcv.pc = "info"
    /\ Take
    /\ IF Head(wire).part = Info /\ Fits(Head(wire), InfoSize)
       THEN rcv' = [Idle EXCEPT !.pc = "header", !.from = Head(wire).from]
       ELSE Break
    /\ UNCHANGED <<kind, post, sendq, arrived, order, cut, shut>>

\* The header tells the sizes; a buffer of size 0 is not received.
Needed(sizes) == SelectSeq(sizes, LAMBDA n : n > 0)
Message(s) == post[s].msg
\* process_message; a copy without its buffer answers with an error and goes on
\* to the next message, any other copy receives the data.
Onward(r) ==
    rcv' = IF Message(r.from).data = <<>>
           THEN [Idle EXCEPT !.pc = IF Message(r.from).readable THEN "info" ELSE "dead"]
           ELSE IF ~Message(r.from).ref THEN Idle
           ELSE [r EXCEPT !.pc = "data", !.need = Message(r.from).data, !.got = <<>>]
Deliver(r) ==
    /\ arrived' = Append(arrived, [from |-> r.from, frames |-> r.got])
    /\ Onward(r)
Receive(r) ==
    IF r.need # <<>> THEN rcv' = r /\ UNCHANGED arrived
    ELSE IF r.pc = "body" THEN Deliver(r)
    ELSE /\ rcv' = Idle
         /\ arrived' = Append(arrived, [from |-> r.from, frames |-> r.got])

RecvHeader ==
    /\ Receiving /\ rcv.pc = "header"
    /\ Take
    /\ IF Head(wire).part = Header /\ Fits(Head(wire), HeadSize)
       THEN Receive([rcv EXCEPT !.pc = "body", !.need = Needed(Message(Head(wire).from).bufs),
                                !.from = Head(wire).from])
       ELSE Break /\ UNCHANGED arrived
    /\ UNCHANGED <<kind, post, sendq, order, cut, shut>>

\* The buffers of a message, or recv_buffers into the remote buffers.
RecvBuffer ==
    /\ Receiving /\ rcv.pc \in {"body", "data"}
    /\ Take
    /\ IF Fits(Head(wire), Head(rcv.need))
       THEN Receive([rcv EXCEPT !.need = Tail(@), !.got = Append(@, Head(wire))])
       ELSE Break /\ UNCHANGED arrived
    /\ UNCHANGED <<kind, post, sendq, order, cut, shut>>

\* The end of the stream: EOFError, the loop closes the channel and ends.
RecvEOF ==
    /\ ~Broken /\ shut /\ wire = <<>>
    /\ Break
    /\ UNCHANGED <<kind, post, sendq, wire, arrived, order, cut, shut>>

Next ==
    \/ \E s \in Senders : \/ \E m \in Shapes : Send(s, m)
                          \/ WriteBuffers(s) \/ Enqueue(s) \/ SendFrame(s)
                          \/ SendFails(s) \/ CancelSend(s)
    \/ Close \/ RecvInfo \/ RecvHeader \/ RecvBuffer \/ RecvEOF

-----------------------------------------------------------------------------
\* What arrives was sent: every buffer of a message is the buffer of its
\* sender, in its place, however many calls send at the same time.  Only
\* after a sender was cancelled in the middle may a frame of the next message
\* be taken for the missing one, if its size happens to be the same.
ArrivesWhole ==
    cut \/ \A k \in DOMAIN arrived : LET a == arrived[k] IN
        \A i \in DOMAIN a.frames : a.frames[i].from = a.from

\* Messages arrive in the order in which they were sent, each once.
ArrivesInOrder ==
    LET first == {k \in DOMAIN arrived : \A j \in 1..(k - 1) : arrived[j].from # arrived[k].from}
        froms == [i \in 1..Cardinality(first) |->
                    arrived[CHOOSE k \in first : Cardinality({j \in first : j <= k}) = i].from]
    IN cut \/ IsPrefix(froms, order)

\* The receiver stops only for a cause: the channel was closed, a sender was
\* cancelled in the middle, a message cannot be deserialized (the loop dies
\* with the error), or with UCX the buffer to copy to is gone or an empty
\* buffer was sent, which is a frame nobody receives.
Causes ==
    \/ shut \/ cut
    \/ \E s \in ToSet(order) : LET m == post[s].msg IN
          \/ ~m.readable
          \/ kind = "ucx" /\ (~m.ref \/ \E k \in DOMAIN m.bufs : m.bufs[k] = 0)
StopsOnlyForCause == Broken => Causes

\* Without such a cause nothing is lost or left over: when all is sent and
\* nothing on its way, every message has arrived.
NothingLost ==
    wire = <<>> /\ sendq = <<>> /\ ~Causes /\ (\A s \in Senders : post[s].pc # "serial")
        => rcv = Idle /\ \A s \in Senders : post[s].pc = "done" => \E k \in DOMAIN arrived : arrived[k].from = s

\* What a channel promises its users.
Delivered == ArrivesWhole /\ ArrivesInOrder /\ StopsOnlyForCause /\ NothingLost
====
