---- MODULE CopyTo ----
(***************************************************************************)
(* Copying local buffers or file objects to remote ones over a channel     *)
(* that carries messages: ClientActorContext.copy_to, the sender loops of  *)
(* IndigenActorContext, the handlers of the pool that owns the remote      *)
(* objects, and the weak registries behind BufferRef and FileObjectRef.    *)
(*                                                                         *)
(* Byte k of local object i is the pair <<i, k>>, so that a misplaced byte *)
(* is visible.  A step of the sender is the code between two awaits, or    *)
(* one turn of a loop that awaits nothing; a step of the remote pool is a  *)
(* message (buffers) or one awaited write (file objects).                  *)
(***************************************************************************)
EXTENDS Naturals, Sequences, FiniteSets, SequencesExt

CONSTANTS MaxObjects,   \* bound on len(local_buffers_or_fileobjs)
          MaxLength,    \* bound on the length of a local object
          BlockSizes    \* the values of block_size, DEFAULT_TRANSFER_BLOCK_SIZE included

VARIABLES copy,     \* the arguments of copy_to: kind of refs, lengths, block_size
          sender,   \* locals of copy_to_buffers / copy_to_fileobjs
          wire,     \* the message being carried or handled, as a list of items
          remote,   \* contents of the remote objects
          gone,     \* remote objects whose last strong reference is dropped
          biggest   \* history: bytes of the largest block sent

copyVars == <<copy, sender, wire, remote, gone, biggest>>

Lengths == UNION {[1..n -> 0..MaxLength] : n \in 1..MaxObjects}
Objects == DOMAIN copy.lens

\* An item of a block: the bytes from..from+len-1 of object obj, to be put at
\* offset `start` of the remote buffer (a remote file appends).
Item(obj, start, from, len) == [obj |-> obj, start |-> start, from |-> from, len |-> len]
Bytes(item) == [k \in 1..item.len |-> <<item.obj, item.from + k - 1>>]
Size(block) == FoldLeft(LAMBDA n, item : n + item.len, 0, block)

\* copy_to refuses empty lists, lists of different lengths, refs to several
\* addresses and a block_size of 0, and then picks the loop by the type of the
\* first ref.
Init ==
    /\ copy \in [kind : {"buffers", "fileobjs"}, lens : Lengths, bs : BlockSizes]
    /\ sender = [pc |-> "loop", i |-> 1, last |-> 0, cur |-> 0, block |-> <<>>]
    /\ wire = <<>>
    /\ remote = [i \in Objects |->
                   IF copy.kind = "buffers" THEN [k \in 1..copy.lens[i] |-> <<>>] ELSE <<>>]
    /\ gone = {}
    /\ biggest = 0

\* _call_with_client with the block: the sender awaits the reply.
Post(block, resume) ==
    /\ wire' = block
    /\ biggest' = IF Size(block) > biggest THEN Size(block) ELSE biggest
    /\ sender' = [resume EXCEPT !.pc = "await", !.block = <<>>, !.cur = 0]

Looping(kind) == sender.pc = "loop" /\ copy.kind = kind /\ sender.i \in Objects
Left == copy.lens[sender.i] - sender.last   \* len(l_buf), or what is left to read
NextObject(s) == [s EXCEPT !.i = @ + 1, !.last = 0]

\* A buffer that leaves room in the block is only accumulated.
Accumulate ==
    /\ Looping("buffers")
    /\ sender.last = 0
    /\ sender.cur + Left < copy.bs
    /\ sender' = NextObject([sender EXCEPT
                    !.block = Append(@, Item(sender.i, 0, 0, Left)), !.cur = @ + Left])
    /\ UNCHANGED <<copy, wire, remote, gone, biggest>>

\* One turn of the inner while: what fits completes the block, which is sent.
Cut ==
    /\ Looping("buffers")
    /\ sender.cur + Left > copy.bs
    /\ LET remain == copy.bs - sender.cur
       IN Post(Append(sender.block, Item(sender.i, sender.last, sender.last, remain)),
               [sender EXCEPT !.last = @ + remain])
    /\ UNCHANGED <<copy, remote, gone>>

\* The end of the inner while: the rest opens a block of its own, or joins the
\* block it exactly completes; current_buf_size is set to the rest alone.
\* (`Accumulate' has taken the buffers that never reach the inner while.)
Rest ==
    /\ Looping("buffers")
    /\ sender.cur + Left <= copy.bs
    /\ sender.last > 0 \/ sender.cur + Left = copy.bs
    /\ sender' = NextObject(
          IF Left = 0 THEN sender
          ELSE [sender EXCEPT
                  !.block = Append(@, Item(sender.i, sender.last, sender.last, Left)),
                  !.cur = Left])
    /\ UNCHANGED <<copy, wire, remote, gone, biggest>>

\* file_obj.read(block_size): up to block_size bytes; the block is sent once
\* it holds block_size bytes.
Read ==
    /\ Looping("fileobjs")
    /\ Left > 0
    /\ LET n     == IF Left < copy.bs THEN Left ELSE copy.bs
           block == Append(sender.block, Item(sender.i, 0, sender.last, n))
           read  == [sender EXCEPT !.last = @ + n]
       IN IF sender.cur + n >= copy.bs
          THEN Post(block, read)
          ELSE /\ sender' = [read EXCEPT !.block = block, !.cur = @ + n]
               /\ UNCHANGED <<wire, biggest>>
    /\ UNCHANGED <<copy, remote, gone>>

ReadEOF ==
    /\ Looping("fileobjs")
    /\ Left = 0
    /\ sender' = NextObject(sender)
    /\ UNCHANGED <<copy, wire, remote, gone, biggest>>

FlushNothing ==
    /\ sender.pc = "loop"
    /\ sender.i \notin Objects
    /\ sender' = [sender EXCEPT !.pc = "done"]
    /\ UNCHANGED <<copy, wire, remote, gone, biggest>>

\* After the last object: the block that is left is sent, or the copy returns.
Flush ==
    /\ sender.pc = "loop"
    /\ sender.i \notin Objects
    /\ IF sender.block # <<>>
       THEN Post(sender.block, sender)
       ELSE /\ sender' = [sender EXCEPT !.pc = "done"]
            /\ UNCHANGED <<wire, biggest>>
    /\ UNCHANGED <<copy, remote, gone>>

\* The sender takes the reply, result or error alike, and goes on.
Replied == sender' = [sender EXCEPT !.pc = "loop"]

\* buffer[start : start + _len] = data
Written(buf, item) ==
    [k \in DOMAIN buf |-> IF k > item.start /\ k <= item.start + item.len
                          THEN Bytes(item)[k - item.start] ELSE buf[k]]

\* handle_copy_to_buffers_message: the whole block without an await; a lookup
\* that raises KeyError ends it with an ErrorMessage, the items before it stay.
HandleBuffers ==
    /\ sender.pc = "await" /\ copy.kind = "buffers"
    /\ LET bad  == {j \in DOMAIN wire : wire[j].obj \in gone}
           good == IF bad = {} THEN wire
                   ELSE SubSeq(wire, 1, (CHOOSE j \in bad : \A l \in bad : j <= l) - 1)
       IN remote' = FoldLeft(LAMBDA r, item : [r EXCEPT ![item.obj] = Written(@, item)],
                             remote, good)
    /\ wire' = <<>>
    /\ Replied
    /\ UNCHANGED <<copy, gone, biggest>>

\* handle_copy_to_fileobjs_message: one awaited write at a time.
HandleFile ==
    /\ sender.pc = "await" /\ copy.kind = "fileobjs"
    /\ wire # <<>> /\ Head(wire).obj \notin gone
    /\ remote' = [remote EXCEPT ![Head(wire).obj] = @ \o Bytes(Head(wire))]
    /\ wire' = Tail(wire)
    /\ IF Len(wire) = 1 THEN Replied ELSE UNCHANGED sender
    /\ UNCHANGED <<copy, gone, biggest>>

HandleFileError ==
    /\ sender.pc = "await" /\ copy.kind = "fileobjs"
    /\ wire # <<>> /\ Head(wire).obj \in gone
    /\ wire' = <<>>
    /\ Replied
    /\ UNCHANGED <<copy, remote, gone, biggest>>

\* The owner drops the object: the WeakValueDictionary forgets the ref.
Drop(i) ==
    /\ sender.pc # "done"
    /\ i \notin gone
    /\ gone' = gone \cup {i}
    /\ UNCHANGED <<copy, sender, wire, remote, biggest>>

Next ==
    \/ Accumulate \/ Cut \/ Rest \/ Read \/ ReadEOF \/ Flush
    \/ HandleBuffers \/ HandleFile \/ HandleFileError
    \/ \E i \in Objects : Drop(i)

Local(i) == [k \in 1..copy.lens[i] |-> <<i, k - 1>>]

\* A copy that returned, while the remote objects were alive, has put every
\* byte of every local object at its place: however the lengths and the block
\* size cut the data, no byte is lost, doubled or misplaced.  On the way a
\* remote buffer holds at each place its own byte or none, even after other
\* objects are dropped and blocks are cut short by an error; as long as no
\* object is dropped a remote file is a prefix of the local one, so that a
\* reader never sees a hole; and a message of a file copy stays below twice the
\* block size, although the size is only looked at after a whole read was added.
CopyExact ==
    /\ sender.pc = "done" /\ gone = {} => \A i \in Objects : remote[i] = Local(i)
    /\ IF copy.kind = "buffers"
       THEN \A i \in Objects : \A k \in DOMAIN remote[i] : remote[i][k] \in {<<>>, <<i, k - 1>>}
       ELSE gone = {} => \A i \in Objects : IsPrefix(remote[i], Local(i))
    /\ copy.kind = "fileobjs" => biggest < 2 * copy.bs
====
