------------------------------- MODULE Queues -------------------------------
(***************************************************************************)
(* Facts about the queues of tasks that the primitives keep: a sequence     *)
(* that holds the members of a set, each of them once, after a push to its  *)
(* end (Vec::push, VecDeque::push_back), a pop from its end (Vec::pop) and  *)
(* a pop from its front (VecDeque::pop_front).                              *)
(***************************************************************************)
EXTENDS Integers, Sequences, Functions, SequenceTheorems, TLAPS

\* q holds exactly the members of S, each of them once.
Once(q, S) ==
    /\ \A x \in S : \E i \in DOMAIN q : q[i] = x
    /\ \A i \in DOMAIN q : q[i] \in S
    /\ \A i, j \in DOMAIN q : q[i] = q[j] => i = j

\* An empty queue holds nobody.
LEMMA OnceEmpty == ASSUME NEW S PROVE Once(<<>>, S) <=> S = {}
  BY DEF Once

\* A push adds a task that was not there.
LEMMA OnceAppend ==
    ASSUME NEW T, NEW q \in Seq(T), NEW S, NEW x \in T, x \notin S, Once(q, S)
    PROVE  Append(q, x) \in Seq(T) /\ Once(Append(q, x), S \cup {x})
<1> DEFINE n == Len(q)
           r == Append(q, x)
<1>1. n \in Nat /\ DOMAIN q = 1 .. n /\ r \in Seq(T) /\ DOMAIN r = 1 .. (n + 1)
  OBVIOUS
<1>2. r[n + 1] = x /\ \A i \in 1 .. n : r[i] = q[i]
  OBVIOUS
<1> HIDE DEF n, r
<1>3. /\ \A i \in 1 .. (n + 1) : i \in 1 .. n \/ i = n + 1
      /\ \A i \in 1 .. n : i \in 1 .. (n + 1)
      /\ n + 1 \in 1 .. (n + 1)
  BY <1>1
<1>4. \A i \in 1 .. n : q[i] # x
  BY <1>1 DEF Once
<1>5. \A y \in S \cup {x} : \E i \in DOMAIN r : r[i] = y
  <2>1. ASSUME NEW y \in S PROVE \E i \in DOMAIN r : r[i] = y
    <3>1. PICK i \in 1 .. n : q[i] = y
      BY <1>1, Zenon DEF Once
    <3> QED BY <1>1, <1>2, <1>3, <3>1, Zenon
  <2>2. \E i \in DOMAIN r : r[i] = x
    BY <1>1, <1>2, <1>3, Zenon
  <2> QED BY <2>1, <2>2, Zenon
<1>6. \A i \in DOMAIN r : r[i] \in S \cup {x}
  BY <1>1, <1>2, <1>3, Zenon DEF Once
<1>7. \A i, j \in DOMAIN r : r[i] = r[j] => i = j
  BY <1>1, <1>2, <1>3, <1>4, Zenon DEF Once
<1>8. Once(r, S \cup {x})
  BY <1>5, <1>6, <1>7, Zenon DEF Once
<1> QED BY <1>1, <1>8 DEF r

\* A pop takes the task pushed last.
LEMMA OncePop ==
    ASSUME NEW T, NEW q \in Seq(T), NEW S, Once(q, S), q # <<>>
    PROVE  LET n == Len(q) IN
           /\ n \in Nat /\ n > 0 /\ n \in DOMAIN q /\ q[n] \in S /\ q[n] \in T
           /\ SubSeq(q, 1, n - 1) \in Seq(T)
           /\ Once(SubSeq(q, 1, n - 1), S \ {q[n]})
<1> DEFINE n == Len(q)
           r == SubSeq(q, 1, n - 1)
<1>1. /\ n \in Nat /\ n > 0 /\ DOMAIN q = 1 .. n /\ n \in 1 .. n /\ q[n] \in T
      /\ r \in Seq(T) /\ DOMAIN r = 1 .. (n - 1)
  OBVIOUS
<1>2. \A i \in 1 .. (n - 1) : r[i] = q[i]
  BY <1>1
<1> HIDE DEF n, r
<1>3. \A i \in 1 .. (n - 1) : i \in 1 .. n /\ i # n
  BY <1>1
<1>4. \A i \in 1 .. n : i \in 1 .. (n - 1) \/ i = n
  BY <1>1
<1>5. q[n] \in S
  BY <1>1, Zenon DEF Once
<1>6. \A y \in S \ {q[n]} : \E i \in DOMAIN r : r[i] = y
  <2> TAKE y \in S \ {q[n]}
  <2>1. PICK i \in 1 .. n : q[i] = y
    BY <1>1, Zenon DEF Once
  <2>2. i \in 1 .. (n - 1)
    BY <1>4, <2>1, Zenon
  <2> QED BY <1>1, <1>2, <2>1, <2>2, Zenon
<1>7. \A i \in DOMAIN r : r[i] \in S \ {q[n]}
  <2> TAKE i \in DOMAIN r
  <2>1. i \in 1 .. n /\ i # n /\ r[i] = q[i]
    BY <1>1, <1>2, <1>3, Zenon
  <2> QED BY <1>1, <2>1, Zenon DEF Once
<1>8. \A i, j \in DOMAIN r : r[i] = r[j] => i = j
  BY <1>1, <1>2, <1>3, Zenon DEF Once
<1>9. Once(r, S \ {q[n]})
  BY <1>6, <1>7, <1>8, Zenon DEF Once
<1> QED BY <1>1, <1>5, <1>9 DEF n, r

\* A pop takes the task pushed first.
LEMMA OnceTail ==
    ASSUME NEW T, NEW q \in Seq(T), NEW S, Once(q, S), q # <<>>
    PROVE  /\ Head(q) \in S /\ Head(q) \in T /\ Tail(q) \in Seq(T)
           /\ Once(Tail(q), S \ {Head(q)})
<1> DEFINE n == Len(q)
           r == Tail(q)
           h == Head(q)
<1>1. /\ n \in Nat /\ n > 0 /\ DOMAIN q = 1 .. n /\ 1 \in 1 .. n /\ h = q[1] /\ h \in T
      /\ r \in Seq(T) /\ DOMAIN r = 1 .. (n - 1)
  OBVIOUS
<1>2. \A i \in 1 .. (n - 1) : r[i] = q[i + 1]
  BY <1>1
<1> HIDE DEF n, r, h
<1>3. \A i \in 1 .. (n - 1) : i + 1 \in 1 .. n /\ i + 1 # 1
  BY <1>1
<1>4. \A i \in 1 .. n : i = 1 \/ (i - 1 \in 1 .. (n - 1) /\ (i - 1) + 1 = i)
  BY <1>1
<1>5. h \in S
  BY <1>1, Zenon DEF Once
<1>6. \A y \in S \ {h} : \E i \in DOMAIN r : r[i] = y
  <2> TAKE y \in S \ {h}
  <2>1. PICK i \in 1 .. n : q[i] = y
    BY <1>1, Zenon DEF Once
  <2>2. i - 1 \in 1 .. (n - 1) /\ (i - 1) + 1 = i
    BY <1>1, <1>4, <2>1
  <2>3. r[i - 1] = y
    BY <1>2, <2>1, <2>2, Zenon
  <2> QED BY <1>1, <2>2, <2>3, Zenon
<1>7. \A i \in DOMAIN r : r[i] \in S \ {h}
  <2> TAKE i \in DOMAIN r
  <2>1. i + 1 \in 1 .. n /\ i + 1 # 1 /\ r[i] = q[i + 1]
    BY <1>1, <1>2, <1>3, Zenon
  <2> QED BY <1>1, <2>1, Zenon DEF Once
<1>8. \A i, j \in DOMAIN r : r[i] = r[j] => i = j
  <2> SUFFICES ASSUME NEW i \in DOMAIN r, NEW j \in DOMAIN r, r[i] = r[j] PROVE i = j
    OBVIOUS
  <2>1. i + 1 \in 1 .. n /\ j + 1 \in 1 .. n /\ q[i + 1] = q[j + 1]
    BY <1>1, <1>2, <1>3, Zenon
  <2>2. i + 1 = j + 1
    BY <1>1, <2>1, Zenon DEF Once
  <2> QED BY <1>1, <2>2
<1>9. Once(r, S \ {h})
  BY <1>6, <1>7, <1>8, Zenon DEF Once
<1> QED BY <1>1, <1>5, <1>9 DEF h, r

\* The set a queue is a queue of is the set of its members.
LEMMA OnceMembers ==
    ASSUME NEW q, NEW S, Once(q, S) PROVE S = {q[i] : i \in DOMAIN q}
  BY DEF Once

-----------------------------------------------------------------------------
(* A channel is its storage followed by the values of its waiting senders *)

\* The values f of the members of q, in their order.
Image(q, f) == [i \in DOMAIN q |-> f[q[i]]]

\* The sequence of values has the length of the queue; only the values of the members
\* of the queue matter.
LEMMA ImageType ==
    ASSUME NEW D, NEW q \in Seq(D), NEW T, NEW f \in [D -> T]
    PROVE  Image(q, f) \in Seq(T)
<1>1. DOMAIN q = 1 .. Len(q) /\ Len(q) \in Nat /\ \A i \in DOMAIN q : f[q[i]] \in T
  OBVIOUS
<1> QED BY <1>1 DEF Image

\* Two functions that agree on the members of a queue have the same image.
LEMMA ImageSame ==
    ASSUME NEW q, NEW f, NEW g, \A i \in DOMAIN q : f[q[i]] = g[q[i]]
    PROVE  Image(q, f) = Image(q, g)
  BY DEF Image

\* The value of a pushed task comes last.
LEMMA ImageAppend ==
    ASSUME NEW D, NEW q \in Seq(D), NEW f, NEW x \in D
    PROVE  Image(Append(q, x), f) = Append(Image(q, f), f[x])
<1> DEFINE T == {f[y] : y \in D}
           r == Append(q, x)
           a == Image(r, f)
           g == Image(q, f)
           b == Append(g, f[x])
           n == Len(q)
<1>1. /\ r \in Seq(D) /\ Len(r) = n + 1 /\ n \in Nat /\ f[x] \in T
      /\ \A i \in 1 .. (n + 1) : r[i] = IF i = n + 1 THEN x ELSE q[i]
  OBVIOUS
<1>2. g \in Seq(T) /\ Len(g) = n /\ \A i \in 1 .. n : g[i] = f[q[i]]
  <2>1. DOMAIN q = 1 .. n /\ n \in Nat /\ \A i \in DOMAIN q : f[q[i]] \in T
    OBVIOUS
  <2> QED BY <2>1 DEF Image
<1>0. \A y \in D : f[y] \in T
  OBVIOUS
<1> HIDE DEF r, g, n, T
<1>3. a \in Seq(T) /\ Len(a) = Len(r) /\ \A i \in 1 .. Len(r) : a[i] = f[r[i]]
  <2>1. DOMAIN r = 1 .. Len(r) /\ Len(r) \in Nat /\ \A i \in DOMAIN r : f[r[i]] \in T
    BY <1>0, <1>1
  <2> QED BY <2>1 DEF Image
<1>4. b \in Seq(T) /\ Len(b) = n + 1 /\ \A i \in 1 .. (n + 1) : b[i] = IF i = n + 1 THEN f[x] ELSE g[i]
  BY <1>1, <1>2
<1> HIDE DEF a, b
<1>5. \A i \in 1 .. (n + 1) : i = n + 1 \/ i \in 1 .. n
  BY <1>1
<1>6. \A i \in 1 .. Len(a) : a[i] = b[i]
  <2> SUFFICES ASSUME NEW i \in 1 .. (n + 1) PROVE a[i] = b[i]
    BY <1>1, <1>3
  <2>1. a[i] = f[r[i]]
    BY <1>1, <1>3
  <2>2. CASE i = n + 1
    BY <1>1, <1>4, <2>1, <2>2
  <2>3. CASE i # n + 1
    BY <1>1, <1>2, <1>4, <1>5, <2>1, <2>3
  <2> QED BY <2>2, <2>3
<1>7. a = b
  BY <1>1, <1>3, <1>4, <1>6, SeqEqual
<1> QED BY <1>7 DEF a, b, r, g

\* The value of the first task comes first.
LEMMA ImageTail ==
    ASSUME NEW D, NEW q \in Seq(D), NEW f, q # <<>>
    PROVE  /\ Image(q, f) # <<>> /\ Head(Image(q, f)) = f[Head(q)]
           /\ Image(Tail(q), f) = Tail(Image(q, f))
<1> DEFINE T == {f[y] : y \in D}
           r == Tail(q)
           a == Image(r, f)
           g == Image(q, f)
           b == Tail(g)
           n == Len(q)
<1>1. /\ n \in Nat /\ n > 0 /\ r \in Seq(D) /\ Len(r) = n - 1 /\ Head(q) = q[1]
      /\ \A i \in 1 .. (n - 1) : r[i] = q[i + 1]
  OBVIOUS
<1>2. g \in Seq(T) /\ Len(g) = n /\ \A i \in 1 .. n : g[i] = f[q[i]]
  <2>1. DOMAIN q = 1 .. n /\ n \in Nat /\ \A i \in DOMAIN q : f[q[i]] \in T
    OBVIOUS
  <2> QED BY <2>1 DEF Image
<1>0. \A y \in D : f[y] \in T
  OBVIOUS
<1> HIDE DEF n, g, r, T
<1>3. a \in Seq(T) /\ Len(a) = Len(r) /\ \A i \in 1 .. Len(r) : a[i] = f[r[i]]
  <2>1. DOMAIN r = 1 .. Len(r) /\ Len(r) \in Nat /\ \A i \in DOMAIN r : f[r[i]] \in T
    BY <1>0, <1>1
  <2> QED BY <2>1 DEF Image
<1>4. g # <<>> /\ Head(g) = f[Head(q)]
  BY <1>1, <1>2
<1>5. b \in Seq(T) /\ Len(b) = n - 1 /\ \A i \in 1 .. (n - 1) : b[i] = g[i + 1]
  BY <1>1, <1>2, <1>4
<1> HIDE DEF a, b
<1>6. \A i \in 1 .. (n - 1) : i + 1 \in 1 .. n
  BY <1>1
<1>7. \A i \in 1 .. Len(a) : a[i] = b[i]
  <2> SUFFICES ASSUME NEW i \in 1 .. (n - 1) PROVE a[i] = b[i]
    BY <1>1, <1>3
  <2>1. a[i] = f[r[i]] /\ r[i] = q[i + 1]
    BY <1>1, <1>3
  <2>2. b[i] = g[i + 1] /\ g[i + 1] = f[q[i + 1]]
    BY <1>2, <1>5, <1>6
  <2> QED BY <2>1, <2>2
<1>8. a = b
  BY <1>1, <1>3, <1>5, <1>7, SeqEqual
<1> QED BY <1>4, <1>8 DEF a, b, g, r

\* What is pushed to the second part is pushed to the whole.
LEMMA CatAppend ==
    ASSUME NEW T, NEW s \in Seq(T), NEW t \in Seq(T), NEW x \in T
    PROVE  s \o Append(t, x) = Append(s \o t, x)
<1>1. <<x>> \in Seq(T) /\ s \o t \in Seq(T)
  BY ConcatProperties
<1>2. Append(t, x) = t \o <<x>> /\ Append(s \o t, x) = (s \o t) \o <<x>>
  BY <1>1, AppendIsConcat
<1> QED BY <1>1, <1>2, ConcatAssociative

\* What is taken from the first part is taken from the whole.
LEMMA CatTail ==
    ASSUME NEW T, NEW s \in Seq(T), NEW t \in Seq(T), s # <<>>
    PROVE  /\ s \o t # <<>> /\ Head(s \o t) = Head(s)
           /\ Tail(s) \o t = Tail(s \o t)
<1> DEFINE a == Tail(s) \o t
           c == s \o t
           b == Tail(c)
<1>1. /\ Tail(s) \in Seq(T) /\ Len(Tail(s)) = Len(s) - 1 /\ Head(s) = s[1]
      /\ \A i \in 1 .. (Len(s) - 1) : Tail(s)[i] = s[i + 1]
      /\ Len(s) \in Nat /\ Len(s) > 0 /\ Len(t) \in Nat
  OBVIOUS
<1>2. /\ a \in Seq(T) /\ Len(a) = Len(s) - 1 + Len(t)
      /\ \A i \in 1 .. (Len(s) - 1 + Len(t)) :
            a[i] = IF i <= Len(s) - 1 THEN Tail(s)[i] ELSE t[i - (Len(s) - 1)]
  BY <1>1, ConcatProperties
<1>3. /\ c \in Seq(T) /\ Len(c) = Len(s) + Len(t)
      /\ \A i \in 1 .. (Len(s) + Len(t)) : c[i] = IF i <= Len(s) THEN s[i] ELSE t[i - Len(s)]
  BY ConcatProperties
<1> HIDE DEF c
<1>4. c # <<>> /\ Head(c) = Head(s)
  BY <1>1, <1>3
<1>5. /\ b \in Seq(T) /\ Len(b) = Len(s) + Len(t) - 1
      /\ \A i \in 1 .. (Len(s) + Len(t) - 1) : b[i] = c[i + 1]
  BY <1>1, <1>3, <1>4
<1> HIDE DEF a, b
<1>6. \A i \in 1 .. Len(a) : a[i] = b[i]
  <2> SUFFICES ASSUME NEW i \in 1 .. (Len(s) + Len(t) - 1) PROVE a[i] = b[i]
    BY <1>1, <1>2
  <2>1. i \in 1 .. (Len(s) - 1 + Len(t)) /\ i + 1 \in 1 .. (Len(s) + Len(t))
    BY <1>1
  <2>2. CASE i <= Len(s) - 1
    <3>1. i \in 1 .. (Len(s) - 1) /\ i + 1 <= Len(s)
      BY <1>1, <2>2
    <3> QED BY <1>1, <1>2, <1>3, <1>5, <2>1, <2>2, <3>1
  <2>3. CASE ~(i <= Len(s) - 1)
    <3>1. i - (Len(s) - 1) = (i + 1) - Len(s) /\ ~(i + 1 <= Len(s))
      BY <1>1, <2>3
    <3> QED BY <1>2, <1>3, <1>5, <2>1, <2>3, <3>1
  <2> QED BY <2>2, <2>3
<1>7. a = b
  BY <1>1, <1>2, <1>5, <1>6, SeqEqual
<1> QED BY <1>4, <1>7 DEF a, b, c

\* The first member of the second part moves to the end of the first.
LEMMA CatShift ==
    ASSUME NEW T, NEW s \in Seq(T), NEW t \in Seq(T), t # <<>>
    PROVE  Append(s, Head(t)) \o Tail(t) = s \o t
<1> DEFINE h == Head(t)
<1>1. h \in T /\ <<h>> \in Seq(T) /\ Tail(t) \in Seq(T)
  OBVIOUS
<1>2. <<h>> \o Tail(t) = t
  OBVIOUS
<1> HIDE DEF h
<1>3. Append(s, h) = s \o <<h>>
  BY <1>1, AppendIsConcat
<1>4. (s \o <<h>>) \o Tail(t) = s \o (<<h>> \o Tail(t))
  BY <1>1, ConcatAssociative
<1> QED BY <1>2, <1>3, <1>4 DEF h

\* The first part is a prefix of the whole.
LEMMA CatPrefix ==
    ASSUME NEW T, NEW s \in Seq(T), NEW t \in Seq(T)
    PROVE  Len(s) \in 0 .. Len(s \o t) /\ SubSeq(s \o t, 1, Len(s)) = s
<1> DEFINE c == s \o t
           a == SubSeq(c, 1, Len(s))
<1>1. /\ c \in Seq(T) /\ Len(c) = Len(s) + Len(t) /\ Len(s) \in Nat /\ Len(t) \in Nat
      /\ \A i \in 1 .. (Len(s) + Len(t)) : c[i] = IF i <= Len(s) THEN s[i] ELSE t[i - Len(s)]
  BY ConcatProperties
<1> HIDE DEF c
<1>2. Len(s) \in 0 .. Len(c)
  BY <1>1
<1>3. a \in Seq(T) /\ Len(a) = Len(s) /\ \A i \in 1 .. Len(s) : a[i] = c[i]
  BY <1>1, <1>2
<1> HIDE DEF a
<1>4. \A i \in 1 .. Len(a) : a[i] = s[i]
  BY <1>1, <1>3
<1>5. a = s
  BY <1>3, <1>4, SeqEqual
<1> QED BY <1>2, <1>5 DEF a, c

-----------------------------------------------------------------------------
(* What is in a queue *)

\* The members of an empty queue, of a longer one and of a concatenation.
LEMMA RangeEmpty == Range(<<>>) = {}
  BY DEF Range

\* A pushed element is a member.
LEMMA RangeAppend ==
    ASSUME NEW D, NEW s \in Seq(D), NEW x \in D
    PROVE  Append(s, x) \in Seq(D) /\ Range(Append(s, x)) = Range(s) \cup {x}
<1> DEFINE r == Append(s, x)
           n == Len(s)
<1>1. /\ r \in Seq(D) /\ DOMAIN r = 1 .. (n + 1) /\ DOMAIN s = 1 .. n /\ n \in Nat
      /\ r[n + 1] = x /\ \A i \in 1 .. n : r[i] = s[i]
  OBVIOUS
<1> HIDE DEF r, n
<1>2. \A i \in 1 .. (n + 1) : i = n + 1 \/ i \in 1 .. n
  BY <1>1
<1>3. Range(r) \subseteq Range(s) \cup {x}
  BY <1>1, <1>2 DEF Range
<1>4. n + 1 \in 1 .. (n + 1) /\ \A i \in 1 .. n : i \in 1 .. (n + 1)
  BY <1>1
<1>5. Range(s) \cup {x} \subseteq Range(r)
  BY <1>1, <1>4 DEF Range
<1> QED BY <1>1, <1>3, <1>5 DEF r

\* A concatenation has the members of both parts.
LEMMA RangeCat ==
    ASSUME NEW D, NEW s \in Seq(D), NEW t \in Seq(D)
    PROVE  s \o t \in Seq(D) /\ Range(s \o t) = Range(s) \cup Range(t)
<1> DEFINE r == s \o t
           m == Len(s)
           n == Len(t)
<1>1. /\ r \in Seq(D) /\ Len(r) = m + n
      /\ \A i \in 1 .. (m + n) : r[i] = IF i <= m THEN s[i] ELSE t[i - m]
  BY ConcatProperties
<1>2. DOMAIN s = 1 .. m /\ DOMAIN t = 1 .. n /\ m \in Nat /\ n \in Nat
  OBVIOUS
<1> HIDE DEF r, m, n
<1>3. DOMAIN r = 1 .. (m + n)
  BY <1>1, <1>2
<1>4. \A i \in 1 .. m : i \in 1 .. (m + n) /\ r[i] = s[i]
  BY <1>1, <1>2
<1>5. \A i \in 1 .. n : m + i \in 1 .. (m + n) /\ r[m + i] = t[i]
  <2> TAKE i \in 1 .. n
  <2>1. m + i \in 1 .. (m + n) /\ ~(m + i <= m) /\ (m + i) - m = i
    BY <1>2
  <2>2. r[m + i] = t[(m + i) - m]
    BY <1>1, <2>1
  <2> QED BY <2>1, <2>2
<1>6. \A i \in 1 .. (m + n) : i \in 1 .. m \/ (\E j \in 1 .. n : i = m + j)
  <2> TAKE i \in 1 .. (m + n)
  <2>1. CASE i <= m
    BY <1>2, <2>1
  <2>2. CASE ~(i <= m)
    <3>1. i - m \in 1 .. n /\ i = m + (i - m)
      BY <1>2, <2>2
    <3> QED BY <3>1
  <2> QED BY <2>1, <2>2
<1>7. Range(r) \subseteq Range(s) \cup Range(t)
  <2>1. \A i \in 1 .. (m + n) : (\E j \in 1 .. m : r[i] = s[j]) \/ \E j \in 1 .. n : r[i] = t[j]
    BY <1>4, <1>5, <1>6
  <2> QED BY <1>2, <1>3, <2>1 DEF Range
<1>8. Range(s) \subseteq Range(r)
  BY <1>2, <1>3, <1>4 DEF Range
<1>9. Range(t) \subseteq Range(r)
  BY <1>2, <1>3, <1>5 DEF Range
<1> QED BY <1>1, <1>7, <1>8, <1>9 DEF r

-----------------------------------------------------------------------------
(* A list from which one element is cut, and one that is rotated past it *)

\* The parts before and after the i-th element.
LEMMA PartsOf ==
    ASSUME NEW D, NEW q \in Seq(D), NEW i \in DOMAIN q
    PROVE  /\ i \in Nat /\ i >= 1 /\ i <= Len(q) /\ Len(q) \in Nat
           /\ SubSeq(q, 1, i - 1) \in Seq(D) /\ Len(SubSeq(q, 1, i - 1)) = i - 1
           /\ \A k \in 1 .. (i - 1) : SubSeq(q, 1, i - 1)[k] = q[k]
           /\ SubSeq(q, i + 1, Len(q)) \in Seq(D)
           /\ Len(SubSeq(q, i + 1, Len(q))) = Len(q) - i
           /\ \A k \in 1 .. (Len(q) - i) : SubSeq(q, i + 1, Len(q))[k] = q[i + k]
<1>1. i \in Nat /\ i >= 1 /\ i <= Len(q) /\ Len(q) \in Nat
  OBVIOUS
<1>2. (\A k \in 1 .. (i - 1) : q[k] \in D) /\ (\A k \in (i + 1) .. Len(q) : q[k] \in D)
  BY <1>1
<1>3. /\ SubSeq(q, 1, i - 1) \in Seq(D) /\ Len(SubSeq(q, 1, i - 1)) = i - 1
      /\ \A k \in 1 .. (i - 1) : SubSeq(q, 1, i - 1)[k] = q[k]
  BY <1>1, <1>2, SubSeqProperties
<1>4. /\ SubSeq(q, i + 1, Len(q)) \in Seq(D)
      /\ Len(SubSeq(q, i + 1, Len(q))) = Len(q) - i
      /\ \A k \in 1 .. (Len(q) - i) : SubSeq(q, i + 1, Len(q))[k] = q[i + k]
  BY <1>1, <1>2, SubSeqProperties
<1> QED BY <1>1, <1>3, <1>4

\* The parts of q (of length n) before and after its i-th element.
Parts(q, n, i, a, b) ==
    /\ Len(a) = i - 1 /\ \A k \in 1 .. (i - 1) : a[k] = q[k]
    /\ Len(b) = n - i /\ \A k \in 1 .. (n - i) : b[k] = q[i + k]

\* The list without its i-th element, put together from its two parts.
LEMMA CutParts ==
    ASSUME NEW D, NEW q \in Seq(D), NEW S, Once(q, S), NEW n \in Nat, n = Len(q),
           NEW i \in 1 .. n, NEW a \in Seq(D), NEW b \in Seq(D),
           Parts(q, n, i, a, b)
    PROVE  a \o b \in Seq(D) /\ Once(a \o b, S \ {q[i]})
<1> USE DEF Parts
<1>1. PICK r : r = a \o b
  OBVIOUS
<1>2. DOMAIN q = 1 .. n
  OBVIOUS
<1>3. /\ r \in Seq(D) /\ Len(r) = n - 1
      /\ \A k \in 1 .. (n - 1) : r[k] = IF k <= i - 1 THEN a[k] ELSE b[k - (i - 1)]
  <2>1. Len(a) + Len(b) = n - 1
    OBVIOUS
  <2>2. /\ r \in Seq(D) /\ Len(r) = Len(a) + Len(b)
        /\ \A k \in 1 .. (Len(a) + Len(b)) :
              r[k] = IF k <= Len(a) THEN a[k] ELSE b[k - Len(a)]
    BY <1>1, ConcatProperties
  <2> QED BY <2>1, <2>2
<1>4. DOMAIN r = 1 .. (n - 1)
  BY <1>1, <1>3
<1>5. ASSUME NEW k \in 1 .. (n - 1)
      PROVE  /\ k < i => r[k] = q[k] /\ k \in 1 .. n /\ k # i
             /\ ~(k < i) => r[k] = q[k + 1] /\ k + 1 \in 1 .. n /\ k + 1 # i
  <2>1. CASE k < i
    <3>1. k <= i - 1 /\ k \in 1 .. (i - 1) /\ k \in 1 .. n /\ k # i
      BY <2>1
    <3>2. r[k] = a[k] /\ a[k] = q[k]
      BY <1>3, <3>1
    <3> QED BY <2>1, <3>1, <3>2
  <2>2. CASE ~(k < i)
    <3>1. ~(k <= i - 1) /\ k - (i - 1) \in 1 .. (n - i) /\ i + (k - (i - 1)) = k + 1
      BY <1>1, <2>2
    <3>2. r[k] = b[k - (i - 1)] /\ b[k - (i - 1)] = q[i + (k - (i - 1))]
      BY <1>1, <1>3, <3>1
    <3>3. r[k] = q[k + 1]
      BY <3>1, <3>2
    <3>4. k + 1 \in 1 .. n /\ k + 1 # i
      BY <1>1, <2>2
    <3> QED BY <2>2, <3>3, <3>4
  <2> QED BY <2>1, <2>2
<1>6. \A x \in S \ {q[i]} : \E k \in DOMAIN r : r[k] = x
  <2> TAKE x \in S \ {q[i]}
  <2>1. PICK j \in 1 .. n : q[j] = x /\ j # i
    BY <1>2 DEF Once
  <2>2. CASE j < i
    <3>1. j \in 1 .. (n - 1)
      BY <1>1, <2>2
    <3> QED BY <1>4, <1>5, <2>1, <2>2, <3>1
  <2>3. CASE ~(j < i)
    <3>1. PICK k \in 1 .. (n - 1) : k = j - 1 /\ ~(k < i) /\ k + 1 = j
      BY <1>1, <2>1, <2>3
    <3>2. r[k] = q[k + 1] /\ k \in DOMAIN r
      BY <1>4, <1>5, <3>1
    <3> QED BY <2>1, <3>1, <3>2
  <2> QED BY <2>2, <2>3
<1>7. \A k \in DOMAIN r : r[k] \in S \ {q[i]}
  <2> TAKE k \in DOMAIN r
  <2>1. PICK j \in 1 .. n : r[k] = q[j] /\ j # i
    BY <1>4, <1>5
  <2> QED BY <1>2, <2>1 DEF Once
<1>8. \A k, m \in DOMAIN r : r[k] = r[m] => k = m
  <2> SUFFICES ASSUME NEW k \in 1 .. (n - 1), NEW m \in 1 .. (n - 1), r[k] = r[m] PROVE k = m
    BY <1>4
  <2>1. PICK j \in 1 .. n : r[k] = q[j] /\ j = (IF k < i THEN k ELSE k + 1)
    BY <1>5
  <2>2. PICK l \in 1 .. n : r[m] = q[l] /\ l = (IF m < i THEN m ELSE m + 1)
    BY <1>5
  <2>3. q[j] = q[l] /\ j \in DOMAIN q /\ l \in DOMAIN q
    BY <1>2, <2>1, <2>2
  <2>4. j = l
    BY <2>3 DEF Once
  <2> QED BY <1>1, <2>1, <2>2, <2>4
<1>9. Once(r, S \ {q[i]})
  BY <1>6, <1>7, <1>8 DEF Once
<1> QED BY <1>1, <1>3, <1>9

\* v does not hold the i-th element of q and begins with the one after it.
LeftOut(D, q, n, i, v) ==
    /\ v \in Seq(D) /\ q[i] \notin Range(v)
    /\ n > 1 => Head(v) = IF i < n THEN q[i + 1] ELSE q[1]

\* The list rotated past its i-th element, which is left out.
LEMMA RotatedParts ==
    ASSUME NEW D, NEW q \in Seq(D), NEW S, Once(q, S), NEW n \in Nat, n = Len(q),
           NEW i \in 1 .. n, NEW a \in Seq(D), NEW b \in Seq(D),
           Parts(q, n, i, a, b)
    PROVE  LeftOut(D, q, n, i, b \o a)
<1> USE DEF Parts
<1>2. b \o a \in Seq(D) /\ Range(b \o a) = Range(b) \cup Range(a)
  BY RangeCat
<1>3. \A k \in 1 .. (i - 1) : k \in DOMAIN q /\ k # i
  OBVIOUS
<1>4. q[i] \notin Range(a)
  <2> SUFFICES ASSUME NEW k \in 1 .. (i - 1), a[k] = q[i] PROVE FALSE
    BY DEF Range
  <2>1. q[k] = q[i] /\ k \in DOMAIN q /\ i \in DOMAIN q /\ k # i
    BY <1>3
  <2> QED BY <2>1 DEF Once
<1>5. \A k \in 1 .. (n - i) : i + k \in DOMAIN q /\ i + k # i
  OBVIOUS
<1>6. q[i] \notin Range(b)
  <2> SUFFICES ASSUME NEW k \in 1 .. (n - i), b[k] = q[i] PROVE FALSE
    BY DEF Range
  <2>1. q[i + k] = q[i] /\ i + k \in DOMAIN q /\ i \in DOMAIN q /\ i + k # i
    BY <1>5
  <2> QED BY <2>1 DEF Once
<1>7. ASSUME n > 1 PROVE Head(b \o a) = IF i < n THEN q[i + 1] ELSE q[1]
  <2>1. CASE i < n
    <3>1. b # <<>> /\ Head(b) = b[1] /\ b[1] = q[i + 1]
      BY <2>1
    <3> QED BY <2>1, <3>1, CatTail
  <2>2. CASE i = n
    <3>1. b = <<>> /\ Head(a) = a[1] /\ a[1] = q[1]
      BY <1>7, <2>2
    <3>2. b \o a = a
      BY <3>1, ConcatEmptySeq
    <3> QED BY <2>2, <3>1, <3>2
  <2>3. i < n \/ i = n
    OBVIOUS
  <2> QED BY <2>1, <2>2, <2>3
<1> QED BY <1>2, <1>4, <1>6, <1>7 DEF LeftOut

\* Cutting an element out of a list (Vec::retain).
LEMMA OnceCut ==
    ASSUME NEW D, NEW q \in Seq(D), NEW i \in DOMAIN q, NEW S, Once(q, S)
    PROVE  /\ SubSeq(q, 1, i - 1) \o SubSeq(q, i + 1, Len(q)) \in Seq(D)
           /\ Once(SubSeq(q, 1, i - 1) \o SubSeq(q, i + 1, Len(q)), S \ {q[i]})
<1>1. PICK a, b, n : a = SubSeq(q, 1, i - 1) /\ b = SubSeq(q, i + 1, Len(q)) /\ n = Len(q)
  OBVIOUS
<1>2. /\ i \in Nat /\ i >= 1 /\ i <= n /\ n \in Nat
      /\ a \in Seq(D) /\ Len(a) = i - 1 /\ \A k \in 1 .. (i - 1) : a[k] = q[k]
      /\ b \in Seq(D) /\ Len(b) = n - i /\ \A k \in 1 .. (n - i) : b[k] = q[i + k]
  BY <1>1, PartsOf, Zenon
<1>3. i \in 1 .. n
  BY <1>2
<1>4. Parts(q, n, i, a, b)
  BY <1>2 DEF Parts
<1>5. a \o b \in Seq(D) /\ Once(a \o b, S \ {q[i]})
  BY <1>1, <1>2, <1>3, <1>4, CutParts
<1> QED BY <1>1, <1>5

\* Rotating a list past one of its elements (the neighbours an executor copies).
LEMMA Rotated ==
    ASSUME NEW D, NEW q \in Seq(D), NEW S, Once(q, S), NEW i \in DOMAIN q, NEW v,
           v = SubSeq(q, i + 1, Len(q)) \o SubSeq(q, 1, i - 1)
    PROVE  /\ v \in Seq(D) /\ q[i] \notin Range(v)
           /\ Len(q) > 1 => Head(v) = IF i < Len(q) THEN q[i + 1] ELSE q[1]
<1>1. PICK a, b, n : a = SubSeq(q, 1, i - 1) /\ b = SubSeq(q, i + 1, Len(q)) /\ n = Len(q)
  OBVIOUS
<1>2. /\ i \in Nat /\ i >= 1 /\ i <= n /\ n \in Nat
      /\ a \in Seq(D) /\ Len(a) = i - 1 /\ \A k \in 1 .. (i - 1) : a[k] = q[k]
      /\ b \in Seq(D) /\ Len(b) = n - i /\ \A k \in 1 .. (n - i) : b[k] = q[i + k]
  BY <1>1, PartsOf, Zenon
<1>3. i \in 1 .. n
  BY <1>2
<1>4. Parts(q, n, i, a, b)
  BY <1>2 DEF Parts
<1>5. v = b \o a
  BY <1>1
<1>6. LeftOut(D, q, n, i, b \o a)
  BY <1>1, <1>2, <1>3, <1>4, RotatedParts
<1>7. LeftOut(D, q, n, i, v)
  BY <1>5, <1>6, Zenon
<1> QED BY <1>1, <1>7 DEF LeftOut

-----------------------------------------------------------------------------
(* Parts of a queue that move together *)

\* Nobody is twice in the queue.
Distinct(q) == \A i, j \in DOMAIN q : q[i] = q[j] => i = j

\* An empty queue repeats nothing ...
LEMMA DistinctEmpty == Distinct(<<>>)
  BY DEF Distinct

\* ... nor does a queue of one element.
LEMMA DistinctOne == ASSUME NEW x PROVE Distinct(<<x>>) /\ Range(<<x>>) = {x}
  BY DEF Distinct, Range

\* One queue behind another.
LEMMA DistinctCat ==
    ASSUME NEW D, NEW a \in Seq(D), NEW b \in Seq(D), Distinct(a), Distinct(b),
           Range(a) \cap Range(b) = {}
    PROVE  Distinct(a \o b)
<1>1. PICK r, m, n : r = a \o b /\ m = Len(a) /\ n = Len(b)
  OBVIOUS
<1>2. m \in Nat /\ n \in Nat /\ DOMAIN a = 1 .. m /\ DOMAIN b = 1 .. n
  BY <1>1
<1>3. /\ Len(r) = m + n /\ r \in Seq(D)
      /\ \A k \in 1 .. (m + n) : r[k] = IF k <= m THEN a[k] ELSE b[k - m]
  BY <1>1, ConcatProperties
<1>4. DOMAIN r = 1 .. (m + n)
  BY <1>2, <1>3
<1>5. \A k \in 1 .. m, l \in 1 .. n : a[k] # b[l]
  BY <1>2 DEF Range
<1>6. ASSUME NEW k \in 1 .. (m + n), NEW l \in 1 .. (m + n), r[k] = r[l] PROVE k = l
  <2>1. CASE k <= m /\ l <= m
    <3>1. k \in 1 .. m /\ l \in 1 .. m
      BY <1>2, <2>1
    <3>2. a[k] = a[l]
      BY <1>3, <1>6, <2>1
    <3> QED BY <1>2, <3>1, <3>2 DEF Distinct
  <2>2. CASE k > m /\ l > m
    <3>1. k - m \in 1 .. n /\ l - m \in 1 .. n
      BY <1>2, <2>2
    <3>2. b[k - m] = b[l - m]
      BY <1>2, <1>3, <1>6, <2>2
    <3>3. k - m = l - m
      BY <1>2, <3>1, <3>2 DEF Distinct
    <3> QED BY <1>2, <3>3
  <2>3. CASE k <= m /\ l > m
    <3>1. k \in 1 .. m /\ l - m \in 1 .. n
      BY <1>2, <2>3
    <3>2. a[k] = b[l - m]
      BY <1>2, <1>3, <1>6, <2>3
    <3> QED BY <1>5, <3>1, <3>2
  <2>4. CASE k > m /\ l <= m
    <3>1. l \in 1 .. m /\ k - m \in 1 .. n
      BY <1>2, <2>4
    <3>2. a[l] = b[k - m]
      BY <1>2, <1>3, <1>6, <2>4
    <3> QED BY <1>5, <3>1, <3>2
  <2>5. (k <= m \/ k > m) /\ (l <= m \/ l > m)
    BY <1>2
  <2> QED BY <2>1, <2>2, <2>3, <2>4, <2>5
<1>7. Distinct(r)
  BY <1>4, <1>6 DEF Distinct
<1> QED BY <1>1, <1>7

\* a and b are the first n members of q and the rest.
SplitOf(D, q, n, a, b) ==
    /\ a \in Seq(D) /\ b \in Seq(D)
    /\ Len(a) = n /\ Len(b) = Len(q) - n
    /\ \A k \in 1 .. (Len(q) - n) : b[k] = q[n + k]
    /\ \A x : x \in Range(q) <=> x \in Range(a) \/ x \in Range(b)
    /\ Distinct(q) => Distinct(a) /\ Distinct(b) /\ Range(a) \cap Range(b) = {}

\* A queue cut behind its n-th element.
LEMMA Split ==
    ASSUME NEW D, NEW q \in Seq(D), NEW n \in 0 .. Len(q)
    PROVE  SplitOf(D, q, n, SubSeq(q, 1, n), SubSeq(q, n + 1, Len(q)))
<1>1. PICK a, b, m : a = SubSeq(q, 1, n) /\ b = SubSeq(q, n + 1, Len(q)) /\ m = Len(q)
  OBVIOUS
<1>2. n \in Nat /\ m \in Nat /\ n <= m /\ DOMAIN q = 1 .. m
  BY <1>1
<1>3. (\A k \in 1 .. n : q[k] \in D) /\ (\A k \in (n + 1) .. m : q[k] \in D)
  BY <1>1, <1>2
<1>4. a \in Seq(D) /\ Len(a) = n /\ \A k \in 1 .. n : a[k] = q[k]
  BY <1>1, <1>2, <1>3, SubSeqProperties
<1>5. b \in Seq(D) /\ Len(b) = m - n /\ \A k \in 1 .. (m - n) : b[k] = q[n + k]
  BY <1>1, <1>2, <1>3, SubSeqProperties
<1> HIDE <1>1
<1>6. DOMAIN a = 1 .. n /\ DOMAIN b = 1 .. (m - n)
  BY <1>2, <1>4, <1>5
<1>7. ASSUME NEW x PROVE x \in Range(q) <=> x \in Range(a) \/ x \in Range(b)
  <2>1. ASSUME x \in Range(q) PROVE x \in Range(a) \/ x \in Range(b)
    <3>1. PICK k \in 1 .. m : q[k] = x
      BY <1>2, <2>1 DEF Range
    <3>2. CASE k <= n
      <4>1. k \in 1 .. n
        BY <3>2
      <4> QED BY <1>4, <1>6, <3>1, <4>1 DEF Range
    <3>3. CASE ~(k <= n)
      <4>1. k - n \in 1 .. (m - n) /\ n + (k - n) = k
        BY <1>2, <3>3
      <4>2. b[k - n] = x
        BY <1>5, <3>1, <4>1
      <4> QED BY <1>6, <4>1, <4>2 DEF Range
    <3> QED BY <3>2, <3>3
  <2>2. ASSUME x \in Range(a) PROVE x \in Range(q)
    <3>1. PICK k \in 1 .. n : a[k] = x
      BY <1>6, <2>2 DEF Range
    <3>2. k \in 1 .. m
      BY <1>2
    <3> QED BY <1>2, <1>4, <3>1, <3>2 DEF Range
  <2>3. ASSUME x \in Range(b) PROVE x \in Range(q)
    <3>1. PICK k \in 1 .. (m - n) : b[k] = x
      BY <1>6, <2>3 DEF Range
    <3>2. n + k \in 1 .. m
      BY <1>2
    <3> QED BY <1>2, <1>5, <3>1, <3>2 DEF Range
  <2> QED BY <2>1, <2>2, <2>3
<1>8. ASSUME Distinct(q) PROVE Distinct(a) /\ Distinct(b) /\ Range(a) \cap Range(b) = {}
  <2>1. Distinct(a)
    <3> SUFFICES ASSUME NEW i \in 1 .. n, NEW j \in 1 .. n, a[i] = a[j] PROVE i = j
      BY <1>6 DEF Distinct
    <3>1. i \in 1 .. m /\ j \in 1 .. m
      BY <1>2
    <3>2. q[i] = q[j]
      BY <1>4
    <3> QED BY <1>2, <1>8, <3>1, <3>2 DEF Distinct
  <2>2. Distinct(b)
    <3> SUFFICES ASSUME NEW i \in 1 .. (m - n), NEW j \in 1 .. (m - n), b[i] = b[j] PROVE i = j
      BY <1>6 DEF Distinct
    <3>1. n + i \in 1 .. m /\ n + j \in 1 .. m
      BY <1>2
    <3>2. q[n + i] = q[n + j]
      BY <1>5
    <3>3. n + i = n + j
      BY <1>2, <1>8, <3>1, <3>2 DEF Distinct
    <3> QED BY <1>2, <3>3
  <2>3. ASSUME NEW i \in 1 .. n, NEW j \in 1 .. (m - n), a[i] = b[j] PROVE FALSE
    <3>1. i \in 1 .. m /\ n + j \in 1 .. m /\ i # n + j
      BY <1>2
    <3>2. q[i] = q[n + j]
      BY <1>4, <1>5, <2>3
    <3> QED BY <1>2, <1>8, <3>1, <3>2 DEF Distinct
  <2>4. Range(a) \cap Range(b) = {}
    BY <1>6, <2>3 DEF Range
  <2> QED BY <2>1, <2>2, <2>4
<1>9. SplitOf(D, q, n, a, b)
  <2>1. m = Len(q)
    BY <1>1
  <2> QED BY <1>4, <1>5, <1>7, <1>8, <2>1 DEF SplitOf
<1> QED BY <1>1, <1>9

-----------------------------------------------------------------------------
(* A family of queues between which the members of S move *)

\* The members of a and of b are those of q, and none is in both or twice in one.
Parted(q, a, b) ==
    /\ Distinct(a) /\ Distinct(b) /\ Range(a) \cap Range(b) = {}
    /\ \A x : x \in Range(q) <=> x \in Range(a) \/ x \in Range(b)

\* The queues f[p] hold the members of S, each of them in one place of one queue.
Holds(D, P, f, S) ==
    /\ \A p \in P : f[p] \in Seq(D) /\ Distinct(f[p])
    /\ \A p, q \in P : \A x : x \in Range(f[p]) /\ x \in Range(f[q]) => p = q
    /\ \A x : x \in S <=> \E p \in P : x \in Range(f[p])

\* g is f but for the queue p, which is a.
Changed(P, f, g, p, a) == g[p] = a /\ \A r \in P \ {p} : g[r] = f[r]

\* g is f but for what moved: p keeps a, and b has been put behind q.
MovedTo(P, f, g, p, q, a, b) ==
    g[p] = a /\ g[q] = f[q] \o b /\ \A r \in P \ {p, q} : g[r] = f[r]

\* Putting a queue in another order.
LEMMA HoldsReorder ==
    ASSUME NEW D, NEW P, NEW f, NEW S, Holds(D, P, f, S), NEW p \in P, NEW a \in Seq(D),
           Distinct(a), Range(a) = Range(f[p]), NEW g, Changed(P, f, g, p, a)
    PROVE  Holds(D, P, g, S)
<1>1. \A r \in P : Range(g[r]) = Range(f[r]) /\ g[r] \in Seq(D) /\ Distinct(g[r])
  BY DEF Holds, Changed
<1> QED BY <1>1 DEF Holds

\* A new member.
LEMMA HoldsPut ==
    ASSUME NEW D, NEW P, NEW f, NEW S, Holds(D, P, f, S), NEW p \in P, NEW x \in D, x \notin S,
           NEW g, Changed(P, f, g, p, Append(f[p], x))
    PROVE  Holds(D, P, g, S \cup {x})
<1>1. PICK a : a = Append(f[p], x)
  OBVIOUS
<1>2. f[p] \in Seq(D) /\ Distinct(f[p]) /\ x \notin Range(f[p])
  BY DEF Holds
<1>3. Once(f[p], Range(f[p]))
  BY <1>2 DEF Once, Distinct, Range
<1>4. a \in Seq(D) /\ Range(a) = Range(f[p]) \cup {x} /\ Distinct(a)
  <2>1. PICK q, R : q = f[p] /\ R = Range(f[p])
    OBVIOUS
  <2>2. a = Append(q, x) /\ q \in Seq(D) /\ Once(q, R) /\ x \notin R /\ R = Range(q)
    BY <1>1, <1>2, <1>3, <2>1
  <2>3. a \in Seq(D) /\ Once(a, R \cup {x})
    BY <2>2, OnceAppend
  <2>4. Range(a) = Range(q) \cup {x}
    BY <2>2, RangeAppend
  <2> QED BY <2>1, <2>3, <2>4 DEF Once, Distinct
<1>5. \A r \in P : g[r] \in Seq(D) /\ Distinct(g[r])
  BY <1>1, <1>4 DEF Holds, Changed
<1>6. \A r \in P : \A y : y \in Range(g[r]) <=> y \in Range(f[r]) \/ (r = p /\ y = x)
  BY <1>1, <1>4 DEF Changed
<1>7. \A r \in P : x \notin Range(f[r])
  BY DEF Holds
<1>8. ASSUME NEW r \in P, NEW q \in P, NEW y, y \in Range(g[r]), y \in Range(g[q])
      PROVE  r = q
  <2>1. CASE y = x
    BY <1>6, <1>7, <1>8, <2>1
  <2>2. CASE y # x
    BY <1>6, <1>8, <2>2 DEF Holds
  <2> QED BY <2>1, <2>2
<1>9. \A y : y \in S \cup {x} <=> \E r \in P : y \in Range(g[r])
  BY <1>6 DEF Holds
<1> QED BY <1>5, <1>8, <1>9 DEF Holds

\* Members that leave.
LEMMA HoldsDrop ==
    ASSUME NEW D, NEW P, NEW f, NEW S, Holds(D, P, f, S), NEW p \in P, NEW a \in Seq(D), NEW b,
           Parted(f[p], a, b), NEW g, Changed(P, f, g, p, a)
    PROVE  Holds(D, P, g, S \ Range(b))
<1>1. \A r \in P : g[r] \in Seq(D) /\ Distinct(g[r])
  BY DEF Holds, Changed, Parted
<1>2. \A y \in Range(b) : y \in Range(f[p]) /\ \A r \in P : y \in Range(f[r]) => r = p
  BY DEF Holds, Parted
<1>3. \A r \in P : \A y : y \in Range(g[r]) <=> y \in Range(f[r]) /\ y \notin Range(b)
  <2> TAKE r \in P
  <2>1. CASE r = p
    BY <2>1 DEF Changed, Parted
  <2>2. CASE r # p
    BY <1>2, <2>2 DEF Changed
  <2> QED BY <2>1, <2>2
<1>4. \A r, q \in P : \A y : y \in Range(g[r]) /\ y \in Range(g[q]) => r = q
  BY <1>3 DEF Holds
<1>5. \A y : y \in S \ Range(b) <=> \E r \in P : y \in Range(g[r])
  BY <1>3 DEF Holds
<1> QED BY <1>1, <1>4, <1>5 DEF Holds

\* Members that move to another queue.
LEMMA HoldsMove ==
    ASSUME NEW D, NEW P, NEW f, NEW S, Holds(D, P, f, S), NEW p \in P, NEW q \in P, p # q,
           NEW a \in Seq(D), NEW b \in Seq(D), Parted(f[p], a, b),
           NEW g, MovedTo(P, f, g, p, q, a, b)
    PROVE  Holds(D, P, g, S)
<1>1. f[q] \in Seq(D) /\ Distinct(f[q]) /\ Range(f[q]) \cap Range(b) = {}
  BY DEF Holds, Parted
<1>2. PICK c : c = f[q] \o b
  OBVIOUS
<1>3. c \in Seq(D) /\ Distinct(c) /\ Range(c) = Range(f[q]) \cup Range(b)
  BY <1>1, <1>2, DistinctCat, RangeCat DEF Parted
<1>4. g[p] = a /\ g[q] = c /\ \A r \in P \ {p, q} : g[r] = f[r]
  BY <1>2 DEF MovedTo
<1> HIDE <1>2
<1>5. \A r \in P : g[r] \in Seq(D) /\ Distinct(g[r])
  <2> TAKE r \in P
  <2>1. CASE r = p
    BY <1>4, <2>1 DEF Parted
  <2>2. CASE r = q
    BY <1>3, <1>4, <2>2
  <2>3. CASE r \notin {p, q}
    BY <1>4, <2>3 DEF Holds
  <2> QED BY <2>1, <2>2, <2>3
<1>6. \A r \in P : \A y : y \in Range(g[r]) <=> \/ y \in Range(f[r]) /\ y \notin Range(b)
                                                \/ r = q /\ y \in Range(b)
  <2> TAKE r \in P
  <2>1. CASE r = p
    BY <1>4, <2>1 DEF Parted
  <2>2. CASE r = q
    BY <1>1, <1>3, <1>4, <2>2
  <2>3. CASE r \notin {p, q}
    <3>1. \A y \in Range(b) : y \notin Range(f[r])
      BY <2>3 DEF Holds, Parted
    <3> QED BY <1>4, <2>3, <3>1
  <2> QED BY <2>1, <2>2, <2>3
<1>7. \A r, s \in P : \A y : y \in Range(g[r]) /\ y \in Range(g[s]) => r = s
  BY <1>6 DEF Holds
<1>8. \A y \in Range(b) : y \in Range(f[p])
  BY DEF Parted
<1>9. \A y : (\E r \in P : y \in Range(g[r])) <=> \E r \in P : y \in Range(f[r])
  BY <1>6, <1>8
<1> QED BY <1>5, <1>7, <1>9 DEF Holds

\* A queue that is cut in two, with either part kept; one that is left as a whole.
LEMMA SplitParts ==
    ASSUME NEW D, NEW q \in Seq(D), NEW n, NEW a, NEW b, SplitOf(D, q, n, a, b), Distinct(q)
    PROVE  Parted(q, a, b) /\ Parted(q, b, a)
  BY DEF SplitOf, Parted

\* A queue that is moved as a whole leaves nothing behind.
LEMMA WholeParts == ASSUME NEW q, Distinct(q) PROVE Parted(q, <<>>, q)
  BY RangeEmpty, DistinctEmpty DEF Parted

\* The last member and the rest.
LEMMA PopParts ==
    ASSUME NEW D, NEW q \in Seq(D), q # <<>>, Distinct(q)
    PROVE  /\ SubSeq(q, 1, Len(q) - 1) \in Seq(D) /\ q[Len(q)] \in D
           /\ Parted(q, SubSeq(q, 1, Len(q) - 1), <<q[Len(q)]>>)
<1>1. PICK n, a, x : n = Len(q) /\ a = SubSeq(q, 1, n - 1) /\ x = q[n]
  OBVIOUS
<1>2. PICK R : R = Range(q)
  OBVIOUS
<1>3. Once(q, R)
  BY <1>2 DEF Once, Distinct, Range
<1>4. x \in R /\ x \in D /\ a \in Seq(D) /\ Once(a, R \ {x})
  <2>1. /\ q[Len(q)] \in R /\ q[Len(q)] \in D /\ SubSeq(q, 1, Len(q) - 1) \in Seq(D)
        /\ Once(SubSeq(q, 1, Len(q) - 1), R \ {q[Len(q)]})
    BY <1>3, OncePop, Zenon
  <2> QED BY <1>1, <2>1, Zenon
<1>5. Distinct(a) /\ Range(a) = R \ {x}
  BY <1>4 DEF Once, Distinct, Range
<1>6. Parted(q, a, <<x>>)
  BY <1>2, <1>4, <1>5, DistinctOne DEF Parted
<1> QED BY <1>1, <1>4, <1>6

=============================================================================
