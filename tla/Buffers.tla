------------------------------- MODULE Buffers -------------------------------
(***************************************************************************)
(* The buffers of io/buf: a pool per executor with a few fixed buffers that *)
(* are registered in that executor's ring by index, and with others of the  *)
(* default capacity; and with_buffer(), which lends a buffer to a shared    *)
(* task for as long as the task is made local.  Calls of with_buffer() may  *)
(* be nested, and the return of each makes the task shared.  Of the bytes   *)
(* the model keeps how many at the front are those that the program has put *)
(* there.                                                                   *)
(***************************************************************************)
EXTENDS FiniteSetsExt, Integers, SequencesExt

CONSTANTS
    Threads,         \* executors
    FixedCount,      \* number_of_fixed_buffers
    DefaultCap,      \* default_buffer_cap
    Holders,         \* tasks, each with a buffer of its own or with calls of with_buffer()
    MaxBuffers,      \* bound: the buffers in use at one time
    MaxLen,          \* bound: the length of a buffer
    MaxPooled,       \* bound: buffers that are not fixed kept in a pool
    Nothing          \* no buffer

VARIABLES
    pool,            \* BufPool of each executor: its fixed buffers and how many others
    held,            \* the calls of with_buffer() each holder is in, with their buffers
    where,           \* the executor each holder runs on
    shared,          \* the holders whose task is shared
    exposed,         \* history: a task was made shared while it had a buffer
    panicked         \* an assertion has failed

bufferVars == <<pool, held, where, shared, exposed, panicked>>

FixedIndex == [home : Threads, index : 1..FixedCount]
NonFixed == [home |-> Nothing, index |-> 0]

\* The steps of with_buffer(): the buffer is taken, the future with the buffer runs, it
\* has dropped the buffer.  A buffer that is held without it is the task's "own".
Steps == {"own", "lent", "local", "given back"}

BufferTypeOK ==
    /\ pool \in [Threads -> [fixed : SUBSET FixedIndex, other : 0..MaxPooled]]
    /\ \A h \in Holders : \A c \in Range(held[h]) :
          /\ c.buf \in [id : FixedIndex \union {NonFixed}, cap : 0..MaxLen, len : 0..MaxLen,
                        put : 0..MaxLen] \union {Nothing}
          /\ c.parent \in Threads /\ c.step \in Steps
    /\ where \in [Holders -> Threads]
    /\ shared \subseteq Holders
    /\ exposed \in BOOLEAN /\ panicked \in BOOLEAN

BufferInit ==
    /\ pool = [e \in Threads |-> [fixed |-> {i \in FixedIndex : i.home = e}, other |-> 0]]
    /\ held = [h \in Holders |-> <<>>]
    /\ where \in [Holders -> Threads]
    /\ shared = Holders
    /\ exposed = FALSE /\ panicked = FALSE

-----------------------------------------------------------------------------
\* get_buffer_with_any_len: a fixed buffer, else another of the pool, else a new one.
Taken(p) ==
    IF p.fixed # {} THEN {[pool |-> [p EXCEPT !.fixed = @ \ {i}], id |-> i] : i \in p.fixed}
    ELSE {[pool |-> [p EXCEPT !.other = Max({@ - 1, 0})], id |-> NonFixed]}

\* put, by Drop and release: a buffer of another capacity is deallocated.
Put(p, b) ==
    IF b.id # NonFixed THEN [p EXCEPT !.fixed = @ \union {b.id}]
    ELSE IF b.cap = DefaultCap THEN [p EXCEPT !.other = Min({@ + 1, MaxPooled})] ELSE p

AtStep(h, step) == held[h] # <<>> /\ Last(held[h]).step = step
Buf(h) == Last(held[h]).buf
Bounded == MapThenSumSet(LAMBDA h : Len(held[h]), Holders) < MaxBuffers

\* The pool of the executor and the calls of h.
Becomes(h, p, calls) ==
    /\ pool' = [pool EXCEPT ![where[h]] = p]
    /\ held' = [held EXCEPT ![h] = calls]
Writes(h, p, b) == Becomes(h, p, [held[h] EXCEPT ![Len(held[h])].buf = b])

\* A buffer of the pool: buffer() has length 0, full_buffer() has the length of its
\* capacity and any content.
TakesFromPool(h, step) ==
    \E t \in Taken(pool[where[h]]), len \in {0, DefaultCap} :
       Becomes(h, t.pool, Append(held[h],
                 [buf |-> [id |-> t.id, cap |-> DefaultCap, len |-> len, put |-> len],
                  parent |-> where[h], step |-> step]))

Get(h) ==
    /\ held[h] = <<>> /\ Bounded
    /\ TakesFromPool(h, "own")
    /\ UNCHANGED <<where, shared, exposed, panicked>>

\* From<Vec<u8>>: a buffer that never was in a pool, of any capacity.
FromVec(h, cap) ==
    /\ held[h] = <<>> /\ Bounded
    /\ Becomes(h, pool[where[h]],
               <<[buf |-> [id |-> NonFixed, cap |-> cap, len |-> cap, put |-> cap],
                  parent |-> where[h], step |-> "own"]>>)
    /\ UNCHANGED <<where, shared, exposed, panicked>>

DropBuffer(h) ==
    /\ AtStep(h, "own")
    /\ Becomes(h, Put(pool[where[h]], Buf(h)), <<>>)
    /\ UNCHANGED <<where, shared, exposed, panicked>>

\* resize: a shorter length, or a new buffer (of the pool, if it has that capacity)
\* with a copy of the content; the old one goes back to the pool.
Resized(p, b, n) ==
    IF n < b.len THEN {[pool |-> p, buf |-> [b EXCEPT !.len = n]]}
    ELSE LET new(id) == [id |-> id, cap |-> n, len |-> b.len, put |-> b.len]
         IN IF n = DefaultCap THEN {[pool |-> Put(t.pool, b), buf |-> new(t.id)] : t \in Taken(p)}
            ELSE {[pool |-> Put(p, b), buf |-> new(NonFixed)]}

Uses(h) == AtStep(h, "own") \/ AtStep(h, "local")

Resize(h, n) ==
    /\ Uses(h) /\ (n = 0 => Buf(h).len > 0)
    /\ \E r \in Resized(pool[where[h]], Buf(h), n) : Writes(h, r.pool, r.buf)
    /\ UNCHANGED <<where, shared, exposed, panicked>>

\* resize(0) of an empty buffer: new_non_fixed asserts that the size is not 0.  (A build
\* without assertions allocates no bytes, which is undefined; nothing is said of it.)
ResizeToNothing(h) ==
    /\ Uses(h) /\ Buf(h).len = 0
    /\ panicked' = TRUE
    /\ UNCHANGED <<pool, held, where, shared, exposed>>

\* append: resized to fit exactly if there is no room.
AppendBytes(h, n) ==
    /\ Uses(h) /\ Buf(h).len + n <= MaxLen
    /\ LET b == Buf(h)
           longer(c) == [c EXCEPT !.len = @ + n, !.put = IF @ < c.len THEN @ ELSE c.len + n]
       IN IF n > b.cap - b.len
          THEN \E r \in Resized(pool[where[h]], b, b.len + n) : Writes(h, r.pool, longer(r.buf))
          ELSE Writes(h, pool[where[h]], longer(b))
    /\ UNCHANGED <<where, shared, exposed, panicked>>

\* clear, set_len: within the capacity; the program accepts what is in the bytes.
SetLen(h, n) ==
    /\ Uses(h) /\ n <= Buf(h).cap
    /\ Writes(h, pool[where[h]], [Buf(h) EXCEPT !.len = n, !.put = Max({@, n})])
    /\ UNCHANGED <<where, shared, exposed, panicked>>

-----------------------------------------------------------------------------
\* A shared task may go on anywhere after each await.  It has no Buffer then, which is
\* not Send; it has a SendableBuffer if it was made shared inside with_buffer().
Move(h, e) ==
    /\ h \in shared /\ (held[h] = <<>> \/ AtStep(h, "local"))
    /\ where' = [where EXCEPT ![h] = e]
    /\ UNCHANGED <<pool, held, shared, exposed, panicked>>

\* with_any_len_buffer, with_buffer, with_full_buffer, from a shared task or from the
\* future of another such call: take a buffer and ask for the locality to be changed.
WithBuffer(h) ==
    /\ (held[h] = <<>> \/ AtStep(h, "local")) /\ Bounded
    /\ TakesFromPool(h, "lent")
    /\ UNCHANGED <<where, shared, exposed, panicked>>

NowAt(h, step) == [held EXCEPT ![h][Len(held[h])].step = step]

\* Slip: the task that holds the buffer is queued as a shared task.
ChangeLocalityNowhere(h) ==
    /\ AtStep(h, "lent")
    /\ held' = NowAt(h, "local")
    /\ \E e \in Threads : where' = [where EXCEPT ![h] = e]
    /\ UNCHANGED <<pool, shared, exposed, panicked>>

\* handle_call, ChangeCurrentTaskLocality(local): the task goes on on this executor.
ChangeLocality(h) ==
    /\ AtStep(h, "lent")
    /\ held' = NowAt(h, "local")
    /\ shared' = shared \ {h}
    /\ UNCHANGED <<pool, where, exposed, panicked>>

\* The future that was given the buffer is done and has dropped it.
GiveBack(h) ==
    /\ AtStep(h, "local")
    /\ Becomes(h, Put(pool[where[h]], Buf(h)),
               [held[h] EXCEPT ![Len(held[h])] = [@ EXCEPT !.buf = Nothing, !.step = "given back"]])
    /\ UNCHANGED <<where, shared, exposed, panicked>>

\* handle_call, ChangeCurrentTaskLocality(shared): the task goes on on an executor e.  With
\* debug_assertions with_buffer() panics there unless it is the one it was called on;
\* otherwise it returns, to the caller's future, which may have a buffer of its own.
ReturnShared(h, e) ==
    /\ AtStep(h, "given back")
    /\ where' = [where EXCEPT ![h] = e]
    /\ shared' = shared \union {h}
    /\ held' = [held EXCEPT ![h] = Front(@)]
    /\ exposed' = (exposed \/ Len(held[h]) > 1)
    /\ \/ UNCHANGED panicked
       \/ e # Last(held[h]).parent /\ panicked' = TRUE
    /\ UNCHANGED pool

\* Nothing is said about what follows a panic.
BufferNext ==
    /\ ~panicked
    /\ \E h \in Holders :
          \/ Get(h) \/ DropBuffer(h) \/ WithBuffer(h) \/ ChangeLocality(h) \/ GiveBack(h)
          \/ ResizeToNothing(h)
          \/ \E n \in 0..MaxLen : FromVec(h, n) \/ Resize(h, n) \/ SetLen(h, n)
          \/ \E n \in 1..MaxLen : AppendBytes(h, n)
          \/ \E e \in Threads : Move(h, e) \/ ReturnShared(h, e)

-----------------------------------------------------------------------------
\* A fixed buffer is in one pool or in one hand, and is never lost.  Unless a nested call
\* of with_buffer() has made a task shared that has the buffer of the outer call, the pool
\* is that of the executor whose ring knows the index, and the task that has the buffer
\* runs there: a request with the index is not given to another ring.
FixedBuffersStayHome ==
    \A i \in FixedIndex :
       LET users == {<<h, n>> \in Holders \X (1..MaxBuffers) :
                        /\ n \in DOMAIN held[h] /\ held[h][n].buf # Nothing
                        /\ held[h][n].buf.id = i}
           pools == {e \in Threads : i \in pool[e].fixed}
       IN /\ Cardinality(users) + Cardinality(pools) = 1
          /\ ~exposed => pools \subseteq {i.home} /\ \A u \in users : where[u[1]] = i.home

\* A task that runs the future of a with_buffer() that has not been nested is local, and
\* has not left the executor it was called on.
LentTasksStay ==
    \A h \in Holders : AtStep(h, "local") /\ ~exposed =>
       h \notin shared /\ \A c \in Range(held[h]) : c.parent = where[h]

\* The length of a buffer is within its capacity, and all of its bytes are those that
\* the program has put there, through every resize() and append().
ContentIsKept ==
    \A h \in Holders : \A c \in Range(held[h]) :
       c.buf # Nothing => c.buf.len <= c.buf.cap /\ c.buf.len <= c.buf.put

=============================================================================
