----------------------------- MODULE Descriptors -----------------------------
(***************************************************************************)
(* The sockets and files of net/ and fs/ as owners of descriptors: how each *)
(* type comes by one (connect, bind, accept, open), gives it away (into_raw, *)
(* the connect of a datagram socket) and closes it: by Drop, which starts a  *)
(* close that the I/O worker carries out later, or by a call of close(),     *)
(* after which Drop closes the number once more.  The kernel reuses the      *)
(* lowest free number at once, so a close of a stale number would hit        *)
(* another owner's descriptor.                                               *)
(***************************************************************************)
EXTENDS FiniteSetsExt, Integers

CONSTANTS
    Owners,        \* variables of the program that may hold a socket or a file
    MaxFd,         \* bound: the process's limit of descriptors
    MaxMade,       \* bound: descriptors opened in all
    MaxAddrs,      \* bound: addresses that a name resolves to
    NoSocket       \* no value

VARIABLES
    fds,           \* the kernel: the serial number of what each descriptor is, 0 if closed
    made,          \* descriptors opened so far
    own,           \* what each owner holds: a type, a descriptor, and whether as a bare number
    job,           \* the connect or bind each owner is in
    closing,       \* the closes that were started and not carried out, and by whom
    leaked,        \* open descriptors that no value refers to
    twice,         \* history: a value was closed by close() and again, by close() or Drop
    failed         \* the error of a close for which Drop has panicked

descriptorVars == <<fds, made, own, job, closing, leaked, twice, failed>>
endVars == <<twice, failed>>

TcpStream             == [name |-> "TcpStream", way |-> "connect"]
UnixStream            == [name |-> "UnixStream", way |-> "connect"]
TcpListener           == [name |-> "TcpListener", way |-> "bind"]
UnixListener          == [name |-> "UnixListener", way |-> "bind"]
UdpSocket             == [name |-> "UdpSocket", way |-> "bind"]
UnixDatagram          == [name |-> "UnixDatagram", way |-> "bind"]
UdpConnectedSocket    == [name |-> "UdpConnectedSocket", way |-> "datagram"]
UnixConnectedDatagram == [name |-> "UnixConnectedDatagram", way |-> "datagram"]
File                  == [name |-> "File", way |-> "open"]

Made == {TcpStream, UnixStream, TcpListener, UnixListener, UdpSocket, UnixDatagram}
Types == Made \union {UdpConnectedSocket, UnixConnectedDatagram, File}

\* What accept() of a listener gives, and what connect() makes of a datagram socket.
Accepted == [l \in {TcpListener, UnixListener} |-> IF l = TcpListener THEN TcpStream ELSE UnixStream]
Connected ==
    [d \in {UdpSocket, UnixDatagram} |-> IF d = UdpSocket THEN UdpConnectedSocket ELSE UnixConnectedDatagram]

Value(type, it) == [type |-> type, it |-> it, raw |-> FALSE, closed |-> FALSE]
Descriptor == [fd : 1..MaxFd, serial : 1..MaxMade]

DescriptorTypeOK ==
    /\ fds \in [1..MaxFd -> 0..MaxMade]
    /\ made \in 0..MaxMade
    /\ own \in [Owners -> [type : Types, it : Descriptor, raw : BOOLEAN, closed : BOOLEAN]
                          \union {NoSocket}]
    /\ job \in [Owners -> [type : Types, left : 0..MaxAddrs, it : Descriptor \union {NoSocket}]
                          \union {NoSocket}]
    /\ closing \subseteq [it : Descriptor, by : {"close", "drop"}]
    /\ leaked \subseteq Descriptor
    /\ twice \in BOOLEAN /\ failed \in {"none", "error", "not open"}

DescriptorInit ==
    /\ fds = [d \in 1..MaxFd |-> 0]
    /\ made = 0
    /\ own = [o \in Owners |-> NoSocket]
    /\ job = [o \in Owners |-> NoSocket]
    /\ closing = {}
    /\ leaked = {}
    /\ twice = FALSE /\ failed = "none"

-----------------------------------------------------------------------------
\* The kernel opens a descriptor, `it`, on the lowest free number.
Opens(it) ==
    LET free == {d \in 1..MaxFd : fds[d] = 0}
    IN /\ free # {} /\ made < MaxMade
       /\ it = [fd |-> Min(free), serial |-> made + 1]
       /\ made' = made + 1
       /\ fds' = [fds EXCEPT ![it.fd] = it.serial]

Idle(o) == own[o] = NoSocket /\ job[o] = NoSocket

\* A value that is used.  One that close() was called on is only dropped, forgotten or
\* closed again.
Live(o) == own[o] # NoSocket /\ ~own[o].raw /\ ~own[o].closed

\* connect() of a stream, bind(): each_addr over the addresses of the name.
Begin(o, type) ==
    /\ Idle(o)
    /\ \E n \in 0..MaxAddrs : job' = [job EXCEPT ![o] = [type |-> type, left |-> n, it |-> NoSocket]]
    /\ UNCHANGED <<fds, made, own, closing, leaked, endVars>>

\* connect() of a datagram socket: it takes the raw descriptor out of the socket.
BeginConnectDatagram(o) ==
    /\ Live(o) /\ own[o].type \in DOMAIN Connected
    /\ \E n \in 0..MaxAddrs :
          job' = [job EXCEPT ![o] = [type |-> Connected[own[o].type], left |-> n, it |-> own[o].it]]
    /\ own' = [own EXCEPT ![o] = NoSocket]
    /\ UNCHANGED <<fds, made, closing, leaked, endVars>>

\* The socket for the next address (new_for_addr, new_socket), or the error of it.
NewSocket(o) ==
    /\ job[o] # NoSocket /\ job[o].it = NoSocket /\ job[o].left > 0
    /\ \/ \E it \in Descriptor : Opens(it) /\ job' = [job EXCEPT ![o].it = it]
       \/ job' = [job EXCEPT ![o].left = @ - 1] /\ UNCHANGED <<fds, made>>
    /\ UNCHANGED <<own, closing, leaked, endVars>>

\* The call for an address has succeeded: the value is made from the descriptor.
Succeeds(o) ==
    /\ own' = [own EXCEPT ![o] = Value(job[o].type, job[o].it)]
    /\ job' = [job EXCEPT ![o] = NoSocket]
    /\ UNCHANGED <<fds, made, closing, leaked, endVars>>

\* AsyncConnectStream::connect: the stream is a value, `?` drops it.
ConnectStream(o) ==
    /\ job[o] # NoSocket /\ job[o].type.way = "connect" /\ job[o].it # NoSocket
    /\ \/ Succeeds(o)
       \/ /\ job' = [job EXCEPT ![o].left = @ - 1, ![o].it = NoSocket]
          /\ closing' = closing \union {[it |-> job[o].it, by |-> "drop"]}
          /\ UNCHANGED <<fds, made, own, leaked, endVars>>

\* bind_with_config: the descriptor is a number until the end, `?` forgets it.
BindWithConfig(o) ==
    /\ job[o] # NoSocket /\ job[o].type.way = "bind" /\ job[o].it # NoSocket
    /\ \/ Succeeds(o)
       \/ /\ job' = [job EXCEPT ![o].left = @ - 1, ![o].it = NoSocket]
          /\ leaked' = leaked \union {job[o].it}
          /\ UNCHANGED <<fds, made, own, closing, endVars>>

\* AsyncConnectDatagram::connect: all addresses are tried on one descriptor.
ConnectDatagram(o) ==
    /\ job[o] # NoSocket /\ job[o].type.way = "datagram" /\ job[o].left > 0
    /\ \/ Succeeds(o)
       \/ job' = [job EXCEPT ![o].left = @ - 1] /\ UNCHANGED <<fds, made, own, closing, leaked, endVars>>

\* each_addr has no more addresses: the last error, or "could not resolve".
EachAddrFails(o) ==
    /\ job[o] # NoSocket /\ job[o].left = 0
    /\ job' = [job EXCEPT ![o] = NoSocket]
    /\ leaked' = leaked \union ({job[o].it} \ {NoSocket})
    /\ UNCHANGED <<fds, made, own, closing, endVars>>

\* accept() of listener l gives a stream to o; File::open.
Accept(o, l) ==
    /\ Idle(o) /\ Live(l) /\ own[l].type \in DOMAIN Accepted
    /\ \E it \in Descriptor :
          Opens(it) /\ own' = [own EXCEPT ![o] = Value(Accepted[own[l].type], it)]
    /\ UNCHANGED <<job, closing, leaked, endVars>>

OpenFile(o) ==
    /\ Idle(o)
    /\ \E it \in Descriptor : Opens(it) /\ own' = [own EXCEPT ![o] = Value(File, it)]
    /\ UNCHANGED <<job, closing, leaked, endVars>>

\* into_raw_fd, From<TcpStream> for std::net::TcpStream and the like: the value is
\* not dropped (ManuallyDrop), the caller has the descriptor.
IntoRaw(o) ==
    /\ Live(o)
    /\ own' = [own EXCEPT ![o].raw = TRUE]
    /\ UNCHANGED <<fds, made, job, closing, leaked, endVars>>

\* from_raw_fd, From<std::net::TcpStream> for TcpStream and the like.
FromRaw(o) ==
    /\ own[o] # NoSocket /\ own[o].raw
    /\ own' = [own EXCEPT ![o].raw = FALSE]
    /\ UNCHANGED <<fds, made, job, closing, leaked, endVars>>

\* A close of what o holds is started.
Closing(o, by) ==
    /\ closing' = closing \union {[it |-> own[o].it, by |-> by]}
    /\ twice' = (twice \/ own[o].closed)

\* Drop of a socket or a file: a local task begins to close it.
Drop(o) ==
    /\ own[o] # NoSocket /\ ~own[o].raw
    /\ own' = [own EXCEPT ![o] = NoSocket]
    /\ Closing(o, "drop")
    /\ UNCHANGED <<fds, made, job, leaked, failed>>

\* AsyncSocketClose::close, AsyncFileClose::close: the value keeps its number.
CloseByHand(o) ==
    /\ own[o] # NoSocket /\ ~own[o].raw
    /\ own' = [own EXCEPT ![o].closed = TRUE]
    /\ Closing(o, "close")
    /\ UNCHANGED <<fds, made, job, leaked, failed>>

\* A program that calls close() is told to see to it that the value is not dropped.
Forget(o) ==
    /\ own[o] # NoSocket /\ own[o].closed
    /\ own' = [own EXCEPT ![o] = NoSocket]
    /\ UNCHANGED <<fds, made, job, closing, leaked, endVars>>

\* The kernel closes the number it is given, whatever it now is, or says that it is not
\* open; an error of the device is told after the number is free.  Drop's expect() panics.
Closes(c) ==
    LET result == IF fds[c.it.fd] = 0 THEN {"not open"} ELSE {"none", "error"}
    IN /\ c \in closing
       /\ closing' = closing \ {c}
       /\ fds' = [fds EXCEPT ![c.it.fd] = 0]
       /\ \E r \in result : failed' = IF c.by = "drop" THEN r ELSE failed
       /\ UNCHANGED <<made, own, job, leaked, twice>>

\* Nothing is said about what follows a panic, and after a value was closed twice the
\* closes under way are carried out, which may hit another owner's descriptor, and no more.
DescriptorNext ==
    /\ failed = "none"
    /\ \/ \E c \in closing : Closes(c)
       \/ ~twice /\ \E o \in Owners :
          \/ \E type \in Made : Begin(o, type)
          \/ BeginConnectDatagram(o) \/ NewSocket(o)
          \/ ConnectStream(o) \/ BindWithConfig(o) \/ ConnectDatagram(o) \/ EachAddrFails(o)
          \/ \E l \in Owners : Accept(o, l)
          \/ OpenFile(o) \/ IntoRaw(o) \/ FromRaw(o)
          \/ Drop(o) \/ CloseByHand(o) \/ Forget(o)

-----------------------------------------------------------------------------
\* Every descriptor that something refers to (a value, a call under way, a close
\* not yet carried out) is open and is the one that was opened for it, no two of
\* these refer to one descriptor, and an open descriptor that nothing refers to
\* is one that a failed bind() or connect() of a datagram socket has left behind.
\* So the late close that Drop starts never hits a number that was reused, and does not
\* panic because the number is not open; also when close() was called on the value, as
\* long as the value is then forgotten and neither dropped nor closed again.
DescriptorsHaveOneOwner ==
    LET holders == {<<"own", o, own[o].it>> : o \in {x \in Owners : own[x] # NoSocket /\ ~own[x].closed}}
              \union {<<"job", o, job[o].it>> :
                         o \in {x \in Owners : job[x] # NoSocket /\ job[x].it # NoSocket}}
              \union {<<"closing", c, c.it>> : c \in closing}
              \union {<<"leaked", it, it>> : it \in leaked}
    IN twice \/ /\ \A h \in holders : fds[h[3].fd] = h[3].serial
                /\ \A h, k \in holders : h # k => h[3].fd # k[3].fd
                /\ \A d \in 1..MaxFd : fds[d] # 0 => \E h \in holders : h[3].fd = d
                /\ failed # "not open"

=============================================================================
