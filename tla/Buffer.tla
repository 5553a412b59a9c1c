------------------------------- MODULE Buffer -------------------------------
(***************************************************************************)
(* mars::Buffer: a vector of bytes of which those from m_readIndex to      *)
(* m_writeIndex are readable.  A buffer is a record; the operators are the *)
(* class's methods.  Bytes that no index covers keep their old value, or   *)
(* are Unset in a part that resize has added.                              *)
(***************************************************************************)
EXTENDS Integers, Sequences

CONSTANTS
  Bytes,         \* the values of a byte
  Unset,         \* a byte that has not been written
  CheapPrepend,  \* kCheapPrepend
  InitialSize,   \* kInitialSize
  ExtraSize      \* sizeof(extrabuf) in readFd

ASSUME BufferAssumption ==
  /\ CheapPrepend \in Nat /\ InitialSize \in Nat /\ ExtraSize \in Nat

EmptyBuffer ==
  [data  |-> [i \in 1..(CheapPrepend + InitialSize) |-> Unset],
   size  |-> CheapPrepend + InitialSize,
   read  |-> CheapPrepend,
   write |-> CheapPrepend]

\* The indices are in order, and the readable bytes have been written.
BufferOK(b) ==
  /\ b.size \in Nat /\ b.read \in Nat /\ b.write \in Nat
  /\ CheapPrepend <= b.read /\ b.read <= b.write /\ b.write <= b.size
  /\ b.data \in [1..b.size -> Bytes \cup {Unset}]
  /\ \A i \in (b.read + 1)..b.write : b.data[i] \in Bytes

readableBytes(b)    == b.write - b.read
writableBytes(b)    == b.size - b.write
prependableBytes(b) == b.read

\* The readable bytes.
Contents(b) == [i \in 1..readableBytes(b) |-> b.data[b.read + i]]

\* resize: the vector grows, or its end is cut off.
Resized(b, n) ==
  [data |-> [i \in 1..n |-> IF i <= b.size THEN b.data[i] ELSE Unset],
   size |-> n, read |-> b.read, write |-> b.write]

\* The readable bytes move to the front.
Compacted(b) ==
  [data  |-> [i \in 1..b.size |->
               IF CheapPrepend < i /\ i <= CheapPrepend + readableBytes(b)
               THEN b.data[b.read + i - CheapPrepend] ELSE b.data[i]],
   size  |-> b.size,
   read  |-> CheapPrepend,
   write |-> CheapPrepend + readableBytes(b)]

makeSpace(b, n) ==
  IF writableBytes(b) + prependableBytes(b) < n + CheapPrepend
  THEN Resized(b, b.write + n)
  ELSE Compacted(b)

ensureWritableBytes(b, n) == IF writableBytes(b) < n THEN makeSpace(b, n) ELSE b

\* Bytes are copied behind the write index, which moves on (hasWritten).
Filled(b, s) ==
  [data  |-> [i \in 1..b.size |->
               IF b.write < i /\ i <= b.write + Len(s) THEN s[i - b.write] ELSE b.data[i]],
   size  |-> b.size,
   read  |-> b.read,
   write |-> b.write + Len(s)]

append(b, s) == Filled(ensureWritableBytes(b, Len(s)), s)

\* readv fills the writable part and then extrabuf, which is appended.
readFd(b, s) ==
  IF Len(s) <= writableBytes(b) THEN Filled(b, s)
  ELSE append(Filled(b, SubSeq(s, 1, writableBytes(b))),
              SubSeq(s, writableBytes(b) + 1, Len(s)))

\* The most that one readv takes: extrabuf is left out when the buffer has room.
ReadvLimit(b) == writableBytes(b) + (IF writableBytes(b) < ExtraSize THEN ExtraSize ELSE 0)

retrieveAll(b) ==
  [data |-> b.data, size |-> b.size, read |-> CheapPrepend, write |-> CheapPrepend]

retrieve(b, n) ==
  IF n < readableBytes(b)
  THEN [data |-> b.data, size |-> b.size, read |-> b.read + n, write |-> b.write]
  ELSE retrieveAll(b)
=============================================================================
