----------------------------- MODULE Pipe_proofs -----------------------------
(***************************************************************************)
(* What the operators of Pipe do to the items of a pipe, for items of any  *)
(* type, and what recursion over a finite sequence defines: the lemmas on  *)
(* which the proofs about the streams rest.                                *)
(***************************************************************************)
EXTENDS Pipe, SequenceTheorems, FiniteSetTheorems, TLAPS

Pipes(Items) == [queue : Seq(Items), sendClosed : BOOLEAN, recvClosed : BOOLEAN]

(* A new pipe is empty and open at both ends. *)
LEMMA NewPipeType ==
  ASSUME NEW Items
  PROVE  /\ NewPipe \in Pipes(Items)
         /\ NewPipe.queue = <<>> /\ ~NewPipe.sendClosed /\ ~NewPipe.recvClosed
BY DEF NewPipe, Pipes

(* An item that is sent goes to the end of the queue. *)
LEMMA SentProperties ==
  ASSUME NEW Items, NEW pipe \in Pipes(Items), NEW item \in Items
  PROVE  LET p == Sent(pipe, item)
         IN  /\ p \in Pipes(Items)
             /\ p.sendClosed = pipe.sendClosed /\ p.recvClosed = pipe.recvClosed
             /\ Len(p.queue) = Len(pipe.queue) + 1
             /\ \A k \in 1 .. Len(pipe.queue) : p.queue[k] = pipe.queue[k]
             /\ p.queue[Len(pipe.queue) + 1] = item
<1> DEFINE q == Append(pipe.queue, item)
<1>1. pipe.queue \in Seq(Items)
  BY DEF Pipes
<1>2. /\ q \in Seq(Items) /\ Len(q) = Len(pipe.queue) + 1
      /\ \A k \in 1 .. Len(pipe.queue) : q[k] = pipe.queue[k]
      /\ q[Len(pipe.queue) + 1] = item
  BY <1>1, AppendProperties
<1>3. Sent(pipe, item) = [pipe EXCEPT !.queue = q]
  BY DEF Sent
<1> HIDE DEF q
<1>4. /\ Sent(pipe, item) \in Pipes(Items) /\ Sent(pipe, item).queue = q
      /\ Sent(pipe, item).sendClosed = pipe.sendClosed
      /\ Sent(pipe, item).recvClosed = pipe.recvClosed
  BY <1>2, <1>3 DEF Pipes
<1> QED
  BY <1>2, <1>4

(* The item received is the first of the queue, and the others move up; an *)
(* empty pipe that can be received from gives EOF and stays as it is.      *)
LEMMA ReceivedProperties ==
  ASSUME NEW Items, NEW pipe \in Pipes(Items), CanRecv(pipe)
  PROVE  LET p == Received(pipe)
         IN  /\ p \in Pipes(Items)
             /\ p.sendClosed = pipe.sendClosed /\ p.recvClosed = pipe.recvClosed
             /\ \/ /\ pipe.queue = <<>> /\ pipe.sendClosed
                   /\ NextItem(pipe) = EOFItem /\ p = pipe
                \/ /\ pipe.queue # <<>> /\ Len(pipe.queue) > 0
                   /\ NextItem(pipe) = pipe.queue[1] /\ pipe.queue[1] \in Items
                   /\ Len(p.queue) = Len(pipe.queue) - 1
                   /\ \A k \in 1 .. Len(p.queue) : p.queue[k] = pipe.queue[k + 1]
<1>1. pipe.queue \in Seq(Items) /\ pipe.sendClosed \in BOOLEAN
  BY DEF Pipes
<1>2. CASE pipe.queue = <<>>
  BY <1>1, <1>2 DEF CanRecv, Received, NextItem
<1>3. CASE pipe.queue # <<>>
  <2> DEFINE q == Tail(pipe.queue)
  <2>1. /\ q \in Seq(Items) /\ Len(q) = Len(pipe.queue) - 1
        /\ \A k \in 1 .. Len(q) : q[k] = pipe.queue[k + 1]
        /\ Head(pipe.queue) \in Items /\ Head(pipe.queue) = pipe.queue[1]
        /\ Len(pipe.queue) > 0
    BY <1>1, <1>3, HeadTailProperties, EmptySeq
  <2>2. Received(pipe) = [pipe EXCEPT !.queue = q] /\ NextItem(pipe) = Head(pipe.queue)
    BY <1>3 DEF Received, NextItem
  <2> HIDE DEF q
  <2>3. /\ Received(pipe) \in Pipes(Items) /\ Received(pipe).queue = q
        /\ Received(pipe).sendClosed = pipe.sendClosed
        /\ Received(pipe).recvClosed = pipe.recvClosed
    BY <2>1, <2>2 DEF Pipes
  <2> QED
    BY <1>3, <2>1, <2>2, <2>3
<1> QED
  BY <1>2, <1>3

(* Closing an end of a pipe changes nothing else of it. *)
LEMMA ClosedProperties ==
  ASSUME NEW Items, NEW pipe \in Pipes(Items)
  PROVE  /\ LET p == [pipe EXCEPT !.sendClosed = TRUE]
            IN  /\ p \in Pipes(Items) /\ p.sendClosed
                /\ p.queue = pipe.queue /\ p.recvClosed = pipe.recvClosed
         /\ LET p == [pipe EXCEPT !.recvClosed = TRUE]
            IN  /\ p \in Pipes(Items) /\ p.recvClosed
                /\ p.queue = pipe.queue /\ p.sendClosed = pipe.sendClosed
BY DEF Pipes
(* What is appended to the queue is appended to all that went before it.   *)
LEMMA AppendToTheQueue ==
  ASSUME NEW Items, NEW s \in Seq(Items), NEW q \in Seq(Items), NEW i \in Items
  PROVE  s \o Append(q, i) = Append(s \o q, i)
<1>1. /\ Append(q, i) \in Seq(Items) /\ Len(Append(q, i)) = Len(q) + 1
      /\ Append(q, i)[Len(q) + 1] = i /\ \A k \in 1 .. Len(q) : Append(q, i)[k] = q[k]
  BY AppendProperties
<1>2. /\ s \o q \in Seq(Items) /\ Len(s \o q) = Len(s) + Len(q)
      /\ \A k \in 1 .. Len(s) + Len(q) :
           (s \o q)[k] = IF k <= Len(s) THEN s[k] ELSE q[k - Len(s)]
  BY ConcatProperties
<1> DEFINE a == Append(q, i)
           c == s \o q
           l == s \o a
           r == Append(c, i)
<1> HIDE DEF a, c
<1>3. /\ l \in Seq(Items) /\ Len(l) = Len(s) + Len(q) + 1
      /\ \A k \in 1 .. Len(s) + Len(a) : l[k] = IF k <= Len(s) THEN s[k] ELSE a[k - Len(s)]
  BY <1>1, ConcatProperties, LenProperties DEF a
<1>4. /\ r \in Seq(Items) /\ Len(r) = Len(s) + Len(q) + 1 /\ r[Len(s) + Len(q) + 1] = i
      /\ \A k \in 1 .. Len(s) + Len(q) : r[k] = c[k]
  BY <1>2, AppendProperties DEF c
<1>5. Len(s) \in Nat /\ Len(q) \in Nat
  BY LenProperties
<1> HIDE DEF l, r
<1>6. ASSUME NEW k \in 1 .. Len(l)
      PROVE  l[k] = r[k]
  <2>1. k \in 1 .. Len(s) + Len(a) /\ Len(a) = Len(q) + 1
    BY <1>1, <1>3, <1>5 DEF a
  <2>2. CASE k <= Len(s)
    <3>1. k \in 1 .. Len(s) + Len(q)
      BY <1>5, <2>1, <2>2
    <3> QED
      BY <1>2, <1>3, <1>4, <2>1, <2>2, <3>1 DEF c
  <2>3. CASE k > Len(s) /\ k <= Len(s) + Len(q)
    <3>1. k \in 1 .. Len(s) + Len(q) /\ k - Len(s) \in 1 .. Len(q) /\ ~(k <= Len(s))
      BY <1>5, <2>1, <2>3
    <3>2. l[k] = a[k - Len(s)] /\ a[k - Len(s)] = q[k - Len(s)]
      BY <1>1, <1>3, <2>1, <3>1 DEF a
    <3>3. r[k] = q[k - Len(s)]
      BY <1>2, <1>4, <3>1 DEF c
    <3> QED
      BY <3>2, <3>3
  <2>4. CASE k = Len(s) + Len(q) + 1
    <3>1. k - Len(s) = Len(q) + 1 /\ ~(k <= Len(s))
      BY <1>5, <2>4
    <3>2. l[k] = a[Len(q) + 1] /\ a[Len(q) + 1] = i
      BY <1>1, <1>3, <2>1, <3>1 DEF a
    <3> QED
      BY <1>4, <2>4, <3>2
  <2> QED
    BY <1>3, <1>5, <2>2, <2>3, <2>4
<1>7. l = r
  BY <1>3, <1>4, <1>6, SeqEqual
<1> QED
  BY <1>7 DEF l, r, a, c

(* What is taken from the queue goes to the end of what was received.      *)
LEMMA TakeFromTheQueue ==
  ASSUME NEW Items, NEW s \in Seq(Items), NEW q \in Seq(Items), q # <<>>
  PROVE  Append(s, q[1]) \o Tail(q) = s \o q
<1> DEFINE a == Append(s, q[1])
           t == Tail(q)
           l == a \o t
           r == s \o q
<1>1. /\ t \in Seq(Items) /\ Len(t) = Len(q) - 1 /\ \A k \in 1 .. Len(t) : t[k] = q[k + 1]
      /\ Len(q) \in Nat /\ Len(q) > 0 /\ Len(s) \in Nat /\ q[1] \in Items
  BY HeadTailProperties, EmptySeq, LenProperties
<1>2. /\ a \in Seq(Items) /\ Len(a) = Len(s) + 1 /\ a[Len(s) + 1] = q[1]
      /\ \A k \in 1 .. Len(s) : a[k] = s[k]
  BY <1>1, AppendProperties
<1> HIDE DEF a, t
<1>3. /\ l \in Seq(Items) /\ Len(l) = Len(a) + Len(t)
      /\ \A k \in 1 .. Len(a) + Len(t) : l[k] = IF k <= Len(a) THEN a[k] ELSE t[k - Len(a)]
  BY <1>1, <1>2, ConcatProperties
<1>4. /\ r \in Seq(Items) /\ Len(r) = Len(s) + Len(q)
      /\ \A k \in 1 .. Len(s) + Len(q) : r[k] = IF k <= Len(s) THEN s[k] ELSE q[k - Len(s)]
  BY ConcatProperties
<1> HIDE DEF l, r
<1>5. ASSUME NEW k \in 1 .. Len(l)
      PROVE  l[k] = r[k]
  <2>1. k \in 1 .. Len(a) + Len(t) /\ k \in 1 .. Len(s) + Len(q)
    BY <1>1, <1>2, <1>3
  <2>2. CASE k <= Len(s)
    <3>1. k \in 1 .. Len(s) /\ k <= Len(a)
      BY <1>1, <1>2, <2>1, <2>2
    <3> QED
      BY <1>2, <1>3, <1>4, <2>1, <2>2, <3>1
  <2>3. CASE k = Len(s) + 1
    <3>1. k <= Len(a) /\ ~(k <= Len(s)) /\ k - Len(s) = 1
      BY <1>1, <1>2, <2>3
    <3> QED
      BY <1>2, <1>3, <1>4, <2>1, <2>3, <3>1
  <2>4. CASE k > Len(s) + 1
    <3>1. /\ ~(k <= Len(a)) /\ ~(k <= Len(s)) /\ k - Len(a) \in 1 .. Len(t)
          /\ k - Len(s) = (k - Len(a)) + 1
      BY <1>1, <1>2, <2>1, <2>4
    <3>2. l[k] = t[k - Len(a)] /\ t[k - Len(a)] = q[(k - Len(a)) + 1]
      BY <1>1, <1>3, <2>1, <3>1
    <3>3. r[k] = q[k - Len(s)]
      BY <1>4, <2>1, <3>1
    <3> QED
      BY <3>1, <3>2, <3>3
  <2> QED
    BY <1>1, <2>1, <2>2, <2>3, <2>4
<1>6. Len(l) = Len(r)
  BY <1>1, <1>2, <1>3, <1>4
<1>7. l = r
  BY <1>3, <1>4, <1>5, <1>6, SeqEqual
<1> QED
  BY <1>7 DEF l, r, a, t

-----------------------------------------------------------------------------
(* Induction over the length of what went through a pipe.  The induction   *)
(* theorems of the library quantify over operators; these are about sets   *)
(* and functions, which is enough for what is computed chunk by chunk.     *)

(* A set of which 0 and the successors of its elements are elements holds  *)
(* every number: were one missing, adding 1 would be an injection of the   *)
(* finite set of the elements below it into a smaller one.                 *)
LEMMA SetInduction ==
  ASSUME NEW S, 0 \in S, \A n \in S : n + 1 \in S
  PROVE  Nat \subseteq S
<1> SUFFICES ASSUME NEW x \in Nat, x \notin S PROVE FALSE
  OBVIOUS
<1> DEFINE A == S \cap (0 .. x)
           f == [y \in A |-> y + 1]
<1>1. IsFiniteSet(A) /\ 0 \in A
  <2>1. IsFiniteSet(0 .. x)
    BY FS_Interval
  <2>2. IsFiniteSet(S \cap (0 .. x))
    BY <2>1, FS_Intersection
  <2> QED
    BY <2>2
<1>2. f \in [A -> A \ {0}]
  OBVIOUS
<1>3. /\ IsFiniteSet(A \ {0}) /\ Cardinality(A) \in Nat
      /\ Cardinality(A \ {0}) = Cardinality(A) - 1
  <2> HIDE DEF A
  <2> QED
    BY <1>1, FS_RemoveElement, FS_CardinalityType
<1>4. PICK y, z \in A : y # z /\ f[y] = f[z]
  <2> HIDE DEF A, f
  <2>1. Cardinality(A \ {0}) < Cardinality(A)
    BY <1>3
  <2> QED
    BY <1>1, <1>2, <1>3, <2>1, FS_PigeonHole
<1> QED
  BY <1>4

(* Functions that begin with the same value and go on from equal values to *)
(* equal values are equal.                                                 *)
LEMMA RecursionIsUnique ==
  ASSUME NEW n \in Nat, NEW f, NEW g, f[0] = g[0],
         \A k \in 1 .. n : f[k - 1] = g[k - 1] => f[k] = g[k]
  PROVE  \A k \in 0 .. n : f[k] = g[k]
<1> DEFINE S == {k \in Nat : k <= n => f[k] = g[k]}
<1>1. 0 \in S
  OBVIOUS
<1>2. ASSUME NEW k \in S PROVE k + 1 \in S
  <2>1. CASE k + 1 <= n
    <3>1. k + 1 \in 1 .. n /\ (k + 1) - 1 = k /\ k <= n
      BY <2>1
    <3>2. f[k] = g[k]
      BY <3>1
    <3> QED
      BY <3>1, <3>2
  <2>2. CASE ~(k + 1 <= n)
    BY <2>2
  <2> QED
    BY <2>1, <2>2
<1>3. Nat \subseteq S
  <2> HIDE DEF S
  <2> QED
    BY <1>1, <1>2, SetInduction
<1> QED
  BY <1>3

(* A function that is defined by its first value and by the step from one  *)
(* value to the next exists.                                               *)
LEMMA RecursionExists ==
  ASSUME NEW X, NEW c \in X, NEW n \in Nat, NEW step \in [1 .. n -> [X -> X]]
  PROVE  \E f \in [0 .. n -> X] :
           f[0] = c /\ \A k \in 1 .. n : f[k] = step[k][f[k - 1]]
<1> DEFINE Steps(f, m) == f[0] = c /\ \A k \in 1 .. m : f[k] = step[k][f[k - 1]]
           S == {m \in Nat : m <= n => \E f \in [0 .. m -> X] : Steps(f, m)}
<1>1. 0 \in S
  <2>1. [k \in 0 .. 0 |-> c] \in [0 .. 0 -> X] /\ Steps([k \in 0 .. 0 |-> c], 0)
    OBVIOUS
  <2> QED
    BY <2>1
<1>2. ASSUME NEW m \in S PROVE m + 1 \in S
  <2> SUFFICES ASSUME m + 1 <= n
               PROVE  \E f \in [0 .. (m + 1) -> X] : Steps(f, m + 1)
    OBVIOUS
  <2>1. PICK f \in [0 .. m -> X] : Steps(f, m)
    OBVIOUS
  <2> DEFINE v == step[m + 1][f[m]]
             g == [k \in 0 .. (m + 1) |-> IF k = m + 1 THEN v ELSE f[k]]
  <2>2. v \in X
    <3>1. m \in 0 .. m /\ m + 1 \in 1 .. n
      OBVIOUS
    <3>2. f[m] \in X /\ step[m + 1] \in [X -> X]
      BY <3>1
    <3> QED
      BY <3>2
  <2>3. g \in [0 .. (m + 1) -> X]
    <3> HIDE DEF v
    <3> QED
      BY <2>2
  <2>4. g[0] = c
    BY <2>1
  <2>5. ASSUME NEW k \in 1 .. (m + 1) PROVE g[k] = step[k][g[k - 1]]
    <3>1. k - 1 \in 0 .. m /\ g[k - 1] = f[k - 1]
      OBVIOUS
    <3>2. CASE k = m + 1
      <4>1. k - 1 = m /\ g[k] = v
        BY <3>2
      <4>2. g[k - 1] = f[m]
        BY <3>1, <4>1
      <4> QED
        BY <3>2, <4>1, <4>2
    <3>3. CASE k # m + 1
      <4>1. k \in 1 .. m /\ g[k] = f[k]
        BY <3>3
      <4> QED
        BY <2>1, <3>1, <4>1
    <3> QED
      BY <3>2, <3>3
  <2> HIDE DEF g
  <2> QED
    BY <2>3, <2>4, <2>5
<1>3. Nat \subseteq S
  <2> HIDE DEF S
  <2> QED
    BY <1>1, <1>2, SetInduction
<1>4. n \in S
  <2> HIDE DEF S
  <2> QED
    BY <1>3
<1> QED
  BY <1>4
=============================================================================
