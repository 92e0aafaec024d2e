------------------------------ MODULE Transfers ------------------------------
(***************************************************************************)
(* The loops that move a whole buffer: send_all, write_all, pwrite_all and  *)
(* send_all_to on one side, recv_exact, peek_exact, read_exact and          *)
(* pread_exact on the other (io/net/*.rs, io/fs/read.rs, io/fs/write.rs).   *)
(* Byte i of the message has the value i.  The kernel moves at least one    *)
(* and at most as many bytes as asked for; a position of the medium that    *)
(* nobody has written holds 0.                                              *)
(***************************************************************************)
EXTENDS FiniteSetsExt, Integers

CONSTANTS
    Length,      \* the length of the message and of the reader's buffer
    Offset       \* where the positioned operations begin

ASSUME LengthsAssumption == Length \in Nat \ {0} /\ Offset \in Nat

VARIABLES
    way,         \* the pair of loops in use, and whether they have deadlines
    medium,      \* the bytes in the socket or the file
    tail,        \* how many of them there are
    head,        \* the kernel's position of the reader
    written, writer,   \* sent, and whether the loop is over
    read, reader,      \* received, likewise
    buf,         \* the reader's buffer
    partial      \* history: a peek has returned before the buffer was full

transferVars == <<way, medium, tail, head, written, writer, read, reader, buf, partial>>

Ways == [to : {"socket", "address"}, from : {"recv", "peek"}, bounded : BOOLEAN]
        \union [to : {"file"}, from : {"read"}, bounded : {FALSE}]
        \union [to : {"offset"}, from : {"pread"}, bounded : {FALSE}]

TransferTypeOK ==
    /\ way \in Ways
    /\ medium \in [1..(Offset + Length) -> 0..Length]
    /\ tail \in 0..(Offset + Length) /\ head \in 0..Length
    /\ written \in 0..Length /\ read \in 0..Length
    /\ writer \in {"busy", "ok", "err"} /\ reader \in {"busy", "ok", "err"}
    /\ buf \in [1..Length -> 0..Length]
    /\ partial \in BOOLEAN

TransferInit ==
    /\ way \in Ways
    /\ medium = [p \in 1..(Offset + Length) |-> 0]
    /\ tail = 0 /\ head = 0
    /\ written = 0 /\ writer = "busy"
    /\ read = 0 /\ reader = "busy"
    /\ buf = [i \in 1..Length |-> 0]
    /\ partial = FALSE

-----------------------------------------------------------------------------
\* One turn of a sending loop: the kernel takes n bytes of &buf[written..] and
\* puts them behind position `at`.
Takes(n, at) ==
    /\ writer = "busy" /\ n \in 1..(Length - written)
    /\ medium' = [p \in DOMAIN medium |-> IF p \in (at + 1)..(at + n) THEN written + p - at ELSE medium[p]]
    /\ tail' = at + n
    /\ written' = written + n
    /\ writer' = IF written' < Length THEN "busy" ELSE "ok"
    /\ UNCHANGED <<way, head, read, reader, buf, partial>>

SendAll == way.to = "socket" /\ ~way.bounded /\ \E n \in 1..Length : Takes(n, tail)

\* A datagram is sent whole or not at all.
SendAllTo == way.to = "address" /\ ~way.bounded /\ Takes(Length - written, tail)

WriteAll == way.to = "file" /\ \E n \in 1..Length : Takes(n, tail)

PwriteAll == way.to = "offset" /\ \E n \in 1..Length : Takes(n, Offset + written)

\* The call fails, or its deadline passes: `?` leaves the loop.
WriterFails ==
    /\ writer = "busy" /\ writer' = "err"
    /\ UNCHANGED <<way, medium, tail, head, written, read, reader, buf, partial>>

SendAllWithDeadline ==
    /\ way.to = "socket" /\ way.bounded
    /\ \/ \E n \in 1..Length : Takes(n, tail)
       \/ WriterFails

SendAllToWithDeadline ==
    /\ way.to = "address" /\ way.bounded
    /\ \/ Takes(Length - written, tail)
       \/ WriterFails

-----------------------------------------------------------------------------
\* One turn of a receiving loop: the kernel fills n bytes of &mut buf[read..] with
\* those behind position `at`; its own position is then `next`.  A datagram is
\* received whole.
Gives(n, at, next) ==
    /\ reader = "busy" /\ n \in 1..Min({Length - read, tail - at})
    /\ way.to = "address" => n = tail - at
    /\ buf' = [i \in DOMAIN buf |-> IF i \in (read + 1)..(read + n) THEN medium[at + i - read] ELSE buf[i]]
    /\ read' = read + n
    /\ reader' = IF read' < Length THEN "busy" ELSE "ok"
    /\ head' = next
    /\ partial' = (partial \/ (way.from = "peek" /\ read' < Length))
    /\ UNCHANGED <<way, medium, tail, written, writer>>

RecvExact == way.from = "recv" /\ ~way.bounded /\ \E n \in 1..Length : Gives(n, head, head + n)

\* A peek does not consume: every turn sees the same first bytes.
PeekExact == way.from = "peek" /\ ~way.bounded /\ \E n \in 1..Length : Gives(n, head, head)

ReadExact == way.from = "read" /\ \E n \in 1..Length : Gives(n, head, head + n)

\* Slip: pread_exact() does not add what it has read to the offset.
PreadExactAtOffset == way.from = "pread" /\ \E n \in 1..Length : Gives(n, Offset, head)

PreadExact == way.from = "pread" /\ \E n \in 1..Length : Gives(n, Offset + read, head)

ReaderFails ==
    /\ reader = "busy" /\ reader' = "err"
    /\ UNCHANGED <<way, medium, tail, head, written, writer, read, buf, partial>>

RecvExactWithDeadline ==
    /\ way.from = "recv" /\ way.bounded
    /\ \/ \E n \in 1..Length : Gives(n, head, head + n)
       \/ ReaderFails

PeekExactWithDeadline ==
    /\ way.from = "peek" /\ way.bounded
    /\ \/ \E n \in 1..Length : Gives(n, head, head)
       \/ ReaderFails

\* A call at the end of the file or of the stream returns 0 bytes: the loop calls again.
Writing ==
    \/ SendAll \/ SendAllTo \/ SendAllWithDeadline \/ SendAllToWithDeadline
    \/ WriteAll \/ PwriteAll

Reading ==
    \/ RecvExact \/ RecvExactWithDeadline \/ PeekExact \/ PeekExactWithDeadline
    \/ ReadExact \/ PreadExact

TransferNext == Writing \/ Reading \/ WriterFails \/ ReaderFails

-----------------------------------------------------------------------------
\* When send_all(), write_all() or pwrite_all() returns Ok, the message is in the
\* medium in order and without gaps, however the kernel has cut it up; when
\* recv_exact(), read_exact() or pread_exact() returns Ok, the buffer is the
\* message.  The same holds of peek_exact() as long as no peek was short.
TransferIsExact ==
    /\ writer = "ok" => \A i \in 1..Length :
                           medium[IF way.to = "offset" THEN Offset + i ELSE i] = i
    /\ reader = "ok" /\ ~partial => \A i \in 1..Length : buf[i] = i

\* Once the whole message has been sent, the receiving loop returns (it does not
\* if the sender stops halfway: 0 bytes are not an error to it).
TransferEnds == (writer = "ok") ~> (reader # "busy")

=============================================================================
