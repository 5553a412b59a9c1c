------------------------------ MODULE Transfer ------------------------------
(***************************************************************************)
(* One direction of a connection while a file is sent: handleReceiveFile   *)
(* (side "server") or the client's sendfile (side "client"), the sender's  *)
(* IO loop, the socket, and the receiver's JsonCodec over its input        *)
(* buffer.  The file goes straight to the socket, the messages around it   *)
(* through the loop; other senders use the same connection.                *)
(*                                                                         *)
(* A byte is a token: a message is one token, its kind, and CR LF.  The    *)
(* header's filename and filesize are those of the file being sent.  The   *)
(* output buffer is the queue that TcpConnProofs shows a Buffer to be.     *)
(***************************************************************************)
EXTENDS Buffer, FiniteSets

CONSTANTS
  Files,      \* the files to choose from, sequences of bytes
  WireSize,   \* bound: bytes the socket takes before it would block
  MaxChats    \* bound: messages of the other senders

\* The header, a chat message, SEND_FILE_END and the message that closes.
MessageKinds == {"h", "m", "e", "f"}

ASSUME TransferAssumption ==
  /\ Files \subseteq Seq(Bytes) /\ MessageKinds \cup {"CR", "LF"} \subseteq Bytes
  /\ WireSize \in Nat \ {0} /\ MaxChats \in Nat

VARIABLES
  side,      \* which function sends the file
  pc,        \* its thread
  file,      \* the file
  copied,    \* how much of it sendfile has written
  mapped,    \* m_userConnMap leads to the connection
  holder,    \* another worker has looked the connection up and not yet sent
  chats,     \* messages the other senders have still to send
  loopQ,     \* sendInLoop functors queued in the sender's loop
  outputBuffer, \* m_outputBuffer; the channel is writing while it is not empty
  wire,      \* bytes in the socket
  inbuf,     \* m_inputBuffer of the receiver
  busy,      \* the receiver is in onMessage
  left,      \* m_fileTransferStates: the bytes the file still lacks, or None
  got,       \* the bytes of the file so far
  decoded,   \* history: files stored and messages handed on, in order
  sent,      \* history: the kinds of the messages transmitted, in order
  intruders, \* history: messages transmitted in the middle of the file
  faults     \* history: what else went wrong

queues   == <<loopQ, outputBuffer, wire>>
sender   == <<side, pc, file, copied, mapped>>
others   == <<holder, chats>>
receiver == <<inbuf, busy, left, got, decoded>>
history  == <<sent, intruders, faults>>
transferVars == <<sender, others, queues, receiver, history>>

None == -1
Frame(kind) == <<kind, "CR", "LF">>
Least(i, j) == IF i <= j THEN i ELSE j
Space == WireSize - Len(wire)

TransferInit ==
  /\ side \in {"server", "client"} /\ pc = "idle" /\ file \in Files /\ copied = 0
  /\ mapped = TRUE /\ holder = FALSE /\ chats = MaxChats
  /\ loopQ = <<>> /\ outputBuffer = <<>> /\ wire = <<>>
  /\ inbuf = EmptyBuffer /\ busy = FALSE /\ left = None /\ got = <<>>
  /\ decoded = <<>> /\ sent = <<>> /\ intruders = 0 /\ faults = {}

-----------------------------------------------------------------------------
(* The sender's IO loop. *)

HeaderOut == pc = "copying" /\ \A i \in 1..Len(loopQ) : loopQ[i] # "h"

\* sendInLoop: write what the socket takes, keep the rest.
Transmit(kind) ==
  LET n == IF outputBuffer = <<>> THEN Least(3, Space) ELSE 0
  IN /\ wire' = wire \o SubSeq(Frame(kind), 1, n)
     /\ outputBuffer' = outputBuffer \o SubSeq(Frame(kind), n + 1, 3)
     /\ sent' = Append(sent, kind)
     /\ intruders' = IF HeaderOut /\ copied < Len(file) THEN intruders + 1 ELSE intruders

\* A queued sendInLoop runs.
SendQueued ==
  /\ loopQ # <<>>
  /\ Transmit(Head(loopQ))
  /\ loopQ' = Tail(loopQ)
  /\ UNCHANGED <<sender, others, receiver, faults>>

\* The socket has room again.
HandleWrite ==
  LET n == Least(Len(outputBuffer), Space)
  IN /\ n > 0
     /\ wire' = wire \o SubSeq(outputBuffer, 1, n)
     /\ outputBuffer' = SubSeq(outputBuffer, n + 1, Len(outputBuffer))
     /\ UNCHANGED <<sender, others, loopQ, receiver, history>>

-----------------------------------------------------------------------------
(* The thread that sends the file. *)

\* Mutation: the user stays mapped.
MutUnmap ==
  /\ pc = "idle" /\ pc' = "unmapped"
  /\ UNCHANGED <<side, file, copied, mapped, others, queues, receiver, history>>

\* The server's worker takes the user out of m_userConnMap first.
Unmap ==
  /\ pc = "idle" /\ pc' = "unmapped"
  /\ mapped' = (side = "client")
  /\ UNCHANGED <<side, file, copied, others, queues, receiver, history>>

\* send from another thread: queued in the loop.
Post(kind) ==
  /\ loopQ' = Append(loopQ, kind)
  /\ UNCHANGED <<outputBuffer, wire, history>>

SendHeader ==
  /\ pc = "unmapped" /\ pc' = "copying"
  /\ Post("h")
  /\ UNCHANGED <<side, file, copied, mapped, others, receiver>>

\* sendfile, on the socket made blocking.  Only the usleep before it lets the
\* header go first.  Of a truncated file sendfile writes nothing, for ever.
CopyFile ==
  LET n == Least(Len(file) - copied, Space)
  IN /\ pc = "copying" /\ n > 0 /\ "truncated" \notin faults
     /\ wire' = wire \o SubSeq(file, copied + 1, copied + n)
     /\ copied' = copied + n
     /\ faults' = IF HeaderOut /\ outputBuffer = <<>> THEN faults ELSE faults \cup {"overtook"}
     /\ UNCHANGED <<side, pc, file, mapped, others, loopQ, outputBuffer, receiver, sent, intruders>>

\* Another upload of the same name opens the file for writing.
Truncate ==
  /\ side = "server" /\ pc = "copying" /\ copied < Len(file)
  /\ faults' = faults \cup {"truncated"}
  /\ UNCHANGED <<sender, others, queues, receiver, sent, intruders>>

Remap ==
  /\ pc = "copying" /\ copied = Len(file) /\ pc' = "mapped"
  /\ mapped' = TRUE
  /\ UNCHANGED <<side, file, copied, others, queues, receiver, history>>

\* The client's ::send on the socket, now non-blocking: its result is ignored.
DirectSend(kind) ==
  /\ wire' = wire \o SubSeq(Frame(kind), 1, Least(3, Space))
  /\ sent' = Append(sent, kind)
  /\ faults' = faults \cup (IF Space < 3 THEN {"cut"} ELSE {})
                 \cup (IF outputBuffer # <<>> \/ loopQ # <<>> THEN {"overtook"} ELSE {})
  /\ UNCHANGED <<loopQ, outputBuffer, intruders>>

\* SEND_FILE_END, then RECEIVE_FILE_FINISH (server) or SEND_FILE_DATABASE (client).
SendAfter(from, to, kind) ==
  /\ pc = from /\ pc' = to
  /\ \/ side = "server" /\ Post(kind)
     \/ side = "client" /\ DirectSend(kind)
  /\ UNCHANGED <<side, file, copied, mapped, others, receiver>>

SendEnd  == SendAfter("mapped", "ended", "e")
SendLast == SendAfter("ended", "done", "f")

-----------------------------------------------------------------------------
(* Other senders on the connection. *)

\* A chat handler of the server finds the connection, and sends later.
Look ==
  /\ side = "server" /\ mapped /\ ~holder /\ chats > 0
  /\ holder' = TRUE
  /\ UNCHANGED <<sender, chats, queues, receiver, history>>

Deliver ==
  /\ holder /\ holder' = FALSE
  /\ chats' = chats - 1
  /\ Post("m")
  /\ UNCHANGED <<sender, receiver>>

\* The client's loop sends CHECK_BLOCK when a BLOCK_FRIEND_SUCCESS comes in.
SendFromLoop ==
  /\ side = "client" /\ chats > 0
  /\ chats' = chats - 1
  /\ Transmit("m")
  /\ UNCHANGED <<sender, holder, loopQ, receiver, faults>>

-----------------------------------------------------------------------------
(* The receiver: handleRead, then onMessage, one round of its loop a step. *)

HandleRead ==
  /\ ~busy /\ busy' = TRUE
  /\ \E n \in 1..Least(Len(wire), ReadvLimit(inbuf)) :
       /\ inbuf' = readFd(inbuf, SubSeq(wire, 1, n))
       /\ wire' = SubSeq(wire, n + 1, Len(wire))
  /\ UNCHANGED <<sender, others, loopQ, outputBuffer, left, got, decoded, history>>

\* The places of CR LF in the readable bytes, and the text before the first.
CRLFs == {i \in 1..(readableBytes(inbuf) - 1) :
            Contents(inbuf)[i] = "CR" /\ Contents(inbuf)[i + 1] = "LF"}
findCRLF == CHOOSE i \in CRLFs : \A j \in CRLFs : i <= j
Text == SubSeq(Contents(inbuf), 1, findCRLF - 1)

\* Nothing left, or no complete message.
Leave ==
  /\ busy /\ busy' = FALSE
  /\ readableBytes(inbuf) = 0 \/ (left = None /\ CRLFs = {})
  /\ UNCHANGED <<sender, others, queues, inbuf, left, got, decoded, history>>

\* Mutation: the LF stays behind.
MutRetrieveText == inbuf' = retrieve(inbuf, findCRLF)

RetrieveText == inbuf' = retrieve(inbuf, findCRLF + 1)

\* Mutation: onMessage returns after a message.
MutMessage ==
  /\ busy /\ busy' = FALSE
  /\ left = None /\ CRLFs # {} /\ Text # <<"h">>
  /\ RetrieveText
  /\ decoded' = Append(decoded, Text)
  /\ UNCHANGED <<sender, others, queues, left, got, history>>

\* Any message but a header.  SEND_FILE_END finds no file to end: there is one
\* only in the other branch.
Message ==
  /\ busy /\ left = None /\ CRLFs # {} /\ Text # <<"h">>
  /\ RetrieveText
  /\ decoded' = Append(decoded, Text)
  /\ UNCHANGED <<sender, others, queues, busy, left, got, history>>

Header ==
  /\ busy /\ left = None /\ CRLFs # {} /\ Text = <<"h">>
  /\ RetrieveText
  /\ left' = Len(file) /\ got' = <<>>
  /\ UNCHANGED <<sender, others, queues, busy, decoded, history>>

\* The file cannot be opened: onMessage returns, the file's bytes are to come.
HeaderFails ==
  /\ busy /\ left = None /\ CRLFs # {} /\ Text = <<"h">>
  /\ RetrieveText
  /\ busy' = FALSE
  /\ faults' = faults \cup {"not opened"}
  /\ UNCHANGED <<sender, others, queues, left, got, decoded, sent, intruders>>

\* Bytes of the file; an empty file takes a round without bytes.
FileBytes ==
  LET n == Least(readableBytes(inbuf), left)
  IN /\ busy /\ left # None /\ readableBytes(inbuf) > 0
     /\ inbuf' = retrieve(inbuf, n)
     /\ got' = got \o SubSeq(Contents(inbuf), 1, n)
     /\ left' = IF left = n THEN None ELSE left - n
     /\ decoded' = IF left = n THEN Append(decoded, got') ELSE decoded
     /\ UNCHANGED <<sender, others, queues, busy, history>>

-----------------------------------------------------------------------------
Loop    == SendQueued \/ HandleWrite
Thread  == Unmap \/ SendHeader \/ CopyFile \/ Remap \/ SendEnd \/ SendLast
Receive == HandleRead \/ Leave \/ Message \/ Header \/ HeaderFails \/ FileBytes
Others  == Look \/ Deliver \/ SendFromLoop

\* What a stream that has lost its framing is taken for is not followed.
Framed == faults = {} /\ intruders <= 1

TransferNext == Framed /\ (Loop \/ Thread \/ Truncate \/ Others \/ Receive)

TransferSpec == TransferInit /\ [][TransferNext]_transferVars

\* Each thread and both loops go on while they can.
TransferFairSpec ==
  /\ TransferSpec
  /\ WF_transferVars(Framed /\ SendQueued) /\ WF_transferVars(Framed /\ HandleWrite)
  /\ WF_transferVars(Framed /\ Thread) /\ WF_transferVars(Framed /\ Deliver)
  /\ WF_transferVars(Framed /\ Receive)

-----------------------------------------------------------------------------
\* The input buffer keeps its indices in order over bytes that were written,
\* whatever makeSpace moved, and the rest has its type.
TransferTypeOK ==
  /\ side \in {"server", "client"}
  /\ pc \in {"idle", "unmapped", "copying", "mapped", "ended", "done"}
  /\ file \in Files /\ copied \in 0..Len(file)
  /\ mapped \in BOOLEAN /\ holder \in BOOLEAN /\ chats \in 0..MaxChats
  /\ loopQ \in Seq(MessageKinds) /\ outputBuffer \in Seq(Bytes)
  /\ wire \in Seq(Bytes) /\ Len(wire) <= WireSize
  /\ BufferOK(inbuf) /\ busy \in BOOLEAN
  /\ left \in Nat \cup {None} /\ got \in Seq(Bytes)
  /\ decoded \in Seq(Seq(Bytes)) /\ sent \in Seq(MessageKinds)
  /\ intruders \in Nat
  /\ faults \subseteq {"overtook", "truncated", "cut", "not opened"}

\* What the receiver makes of a message, or of the header and its file.
Meant(kind) == IF kind = "h" THEN file ELSE <<kind>>

Undisturbed == faults = {} /\ intruders = 0

\* Wherever the stream is cut into reads, and also when the file's bytes look
\* like the end of a message, the receiver gets the messages and the file that
\* were transmitted, in order (JsonCodec::onMessage, Buffer::readFd).
Faithful ==
  Undisturbed => /\ Len(decoded) <= Len(sent)
                 /\ \A i \in 1..Len(decoded) : decoded[i] = Meant(sent[i])

\* handleReceiveFile unmaps the user so that chat messages stay out of the
\* file: no more get in than were looked up before.
FewIntruders == side = "server" => intruders <= 1

\* An undisturbed transfer ends with everything received: no message stays in
\* a buffer until the next one comes (the loop in onMessage, handleWrite).
Delivered == pc = "unmapped" ~> (~Undisturbed \/ (pc = "done" /\ Len(decoded) = Len(sent)))
=============================================================================
