-------------------- MODULE ResponsesConversation_proofs --------------------
(***************************************************************************)
(* Proofs about ResponsesConversation: that every request pairs calls and  *)
(* results, and that the history of a caller who changes nothing is        *)
(* accepted and replays the reasoning of all answers in order, for         *)
(* conversations, answers and numbers of calls of any size.                *)
(*                                                                         *)
(* A request is computed from the history message by message, so what it   *)
(* holds is shown by induction over the messages.  For pairing any history *)
(* will do.  For the other two the state invariant says which answer every *)
(* assistant message of such a history is, that a result is of a call of   *)
(* an earlier answer, not answered before, and that no two answers share   *)
(* the id of a call or of a reasoning item.                                *)
(***************************************************************************)
EXTENDS ResponsesConversation, Pipe_proofs

(* The types of the variables.  The items of a request and of an answer    *)
(* are both a type and an id.                                              *)
ItemTypes == {"message", "call", "reasoning", "bad", "function_call", "output_text",
              "function_call_output", "input_text"}
Items == [type : ItemTypes, id : Nat]
Names == {"", "lookup", "other"}
Encodings == {"none", "raw", "any", "other"}
Calls == [id : Nat, name : Names, valid : BOOLEAN]
Extras == [encoding : Encodings, items : Seq(Nat)]
Messages == [role : {"system", "user", "assistant", "tool"}, text : BOOLEAN,
             thought : BOOLEAN, extra : Extras, calls : Seq(Calls), answers : Nat,
             name : Names]
Accs == [ok : BOOLEAN, items : Seq(Items), pending : SUBSET [id : Nat, name : Names],
         seen : SUBSET Nat]

Typed ==
  /\ history \in Seq(Messages) /\ answers \in Seq(Seq(Items)) /\ changes \in Nat
  /\ phase \in {"caller", "server"} /\ streams \in BOOLEAN

(* A request is that of the history as it is, until the history changes.   *)
RequestIsCurrent ==
  \/ request = NoRequest /\ phase = "caller"
  \/ \E opts \in Options : request = Request(history, opts)

-----------------------------------------------------------------------------
(* The ids of a type, counted item by item, as defined and as a function.  *)
AreNumbers(f, s, type) ==
  f = [n \in 0 .. Len(s) |->
         IF n = 0 THEN <<>>
         ELSE IF s[n].type = type THEN Append(f[n - 1], s[n].id)
         ELSE f[n - 1]]

Counted(f, s, type) ==
  /\ f \in [0 .. Len(s) -> Seq(Nat)] /\ f[0] = <<>>
  /\ \A k \in 1 .. Len(s) :
       f[k] = IF s[k].type = type THEN Append(f[k - 1], s[k].id) ELSE f[k - 1]

(* The ids of a type exist. *)
LEMMA NumbersExist ==
  ASSUME NEW s \in Seq(Items), NEW type
  PROVE  \E f : Counted(f, s, type) /\ Numbers(s, type) = f[Len(s)]
<1> DEFINE n == Len(s)
           X == Seq(Nat)
           step == [k \in 1 .. n |-> [v \in X |->
                      IF s[k].type = type THEN Append(v, s[k].id) ELSE v]]
<1>1. n \in Nat
  BY LenProperties
<1>2. ASSUME NEW v \in X, NEW k \in 1 .. n
      PROVE  /\ step[k][v] = IF s[k].type = type THEN Append(v, s[k].id) ELSE v
             /\ step[k][v] \in X
  <2>1. step[k][v] = IF s[k].type = type THEN Append(v, s[k].id) ELSE v
    OBVIOUS
  <2>2. s[k].id \in Nat
    <3>1. s[k] \in Items
      OBVIOUS
    <3> QED
      BY <3>1 DEF Items
  <2>3. step[k][v] \in X
    <3> HIDE DEF step
    <3> QED
      BY <2>1, <2>2, AppendProperties
  <2> QED
    BY <2>1, <2>3
<1>3. step \in [1 .. n -> [X -> X]]
  BY <1>2
<1>4. PICK f \in [0 .. n -> X] :
        f[0] = <<>> /\ \A k \in 1 .. n : f[k] = step[k][f[k - 1]]
  <2> DEFINE c == <<>>
  <2>1. c \in X
    OBVIOUS
  <2> HIDE DEF X, step, n, c
  <2>2. \E f \in [0 .. n -> X] :
          f[0] = c /\ \A k \in 1 .. n : f[k] = step[k][f[k - 1]]
    BY <1>1, <1>3, <2>1, RecursionExists
  <2> QED
    BY <2>2 DEF c
<1>5. AreNumbers(f, s, type)
  <2>1. ASSUME NEW k \in 1 .. n
        PROVE  f[k] = IF s[k].type = type THEN Append(f[k - 1], s[k].id) ELSE f[k - 1]
    <3>1. f[k - 1] \in X
      BY <1>1
    <3> HIDE DEF step, X
    <3> QED
      BY <1>2, <1>4, <3>1
  <2>2. f = [k \in 0 .. n |-> f[k]]
    OBVIOUS
  <2>3. \A k \in 0 .. n : k # 0 => k \in 1 .. n
    BY <1>1
  <2> HIDE DEF n, X, step
  <2>4. \A k \in 0 .. n :
          f[k] = IF k = 0 THEN <<>>
                 ELSE IF s[k].type = type THEN Append(f[k - 1], s[k].id) ELSE f[k - 1]
    BY <1>4, <2>1, <2>3
  <2>5. f = [k \in 0 .. n |->
               IF k = 0 THEN <<>>
               ELSE IF s[k].type = type THEN Append(f[k - 1], s[k].id) ELSE f[k - 1]]
    BY <2>2, <2>4
  <2> QED
    BY <2>5 DEF AreNumbers, n
<1> DEFINE g == CHOOSE h : AreNumbers(h, s, type)
<1>6. AreNumbers(g, s, type)
  BY <1>5
<1>7. Numbers(s, type) = g[Len(s)]
  BY DEF Numbers, AreNumbers
<1> HIDE DEF g, X, step
<1>8. \A k \in 0 .. n :
        g[k] = IF k = 0 THEN <<>>
               ELSE IF s[k].type = type THEN Append(g[k - 1], s[k].id) ELSE g[k - 1]
  BY <1>6 DEF AreNumbers
<1>9. g[0] = <<>> /\ \A k \in 1 .. n :
        g[k] = IF s[k].type = type THEN Append(g[k - 1], s[k].id) ELSE g[k - 1]
  BY <1>1, <1>8
<1>10. \A k \in 1 .. n :
         f[k] = IF s[k].type = type THEN Append(f[k - 1], s[k].id) ELSE f[k - 1]
  <2>1. \A k \in 0 .. n :
        f[k] = IF k = 0 THEN <<>>
               ELSE IF s[k].type = type THEN Append(f[k - 1], s[k].id) ELSE f[k - 1]
    BY <1>5 DEF AreNumbers
  <2>2. \A k \in 1 .. n : k \in 0 .. n /\ k # 0
    BY <1>1
  <2> HIDE DEF n
  <2> QED
    BY <2>1, <2>2
<1>11. \A k \in 0 .. n : g[k] = f[k]
  <2>1. g[0] = f[0] /\ \A k \in 1 .. n : g[k - 1] = f[k - 1] => g[k] = f[k]
    <3>1. g[0] = f[0]
      BY <1>4, <1>9
    <3>2. ASSUME NEW k \in 1 .. n, g[k - 1] = f[k - 1] PROVE g[k] = f[k]
      <4>1. f[k] = IF s[k].type = type THEN Append(f[k - 1], s[k].id) ELSE f[k - 1]
        BY <1>10
      <4>2. g[k] = IF s[k].type = type THEN Append(g[k - 1], s[k].id) ELSE g[k - 1]
        BY <1>9
      <4> HIDE DEF n
      <4> QED
        BY <3>2, <4>1, <4>2
    <3> QED
      BY <3>1, <3>2
  <2> HIDE DEF n
  <2> QED
    BY <1>1, <2>1, RecursionIsUnique, ZenonT(60)
<1>12. Numbers(s, type) = f[n]
  BY <1>1, <1>7, <1>11
<1>13. Counted(f, s, type)
  BY <1>4, <1>10 DEF X, Counted
<1> QED
  BY <1>12, <1>13

(* The ids of a type are a sequence of numbers, those of the items of the  *)
(* type.                                                                   *)
LEMMA NumbersProperties ==
  ASSUME NEW s \in Seq(Items), NEW type
  PROVE  /\ Numbers(s, type) \in Seq(Nat)
         /\ ToSet(Numbers(s, type)) = {s[k].id : k \in {j \in 1 .. Len(s) : s[j].type = type}}
<1> DEFINE n == Len(s)
           Ids(k) == {s[i].id : i \in {j \in 1 .. k : s[j].type = type}}
<1>1. n \in Nat
  BY LenProperties
<1>2. PICK f : Counted(f, s, type) /\ Numbers(s, type) = f[Len(s)]
  BY NumbersExist
<1>3. /\ f \in [0 .. n -> Seq(Nat)] /\ f[0] = <<>> /\ Numbers(s, type) = f[n]
      /\ \A k \in 1 .. n :
             f[k] = IF s[k].type = type THEN Append(f[k - 1], s[k].id) ELSE f[k - 1]
  BY <1>2 DEF Counted
<1> DEFINE S == {k \in Nat : k <= n => ToSet(f[k]) = Ids(k)}
<1>4. 0 \in S
  <2>1. ToSet(f[0]) = {} /\ 1 .. 0 = {}
    BY <1>3 DEF ToSet
  <2>2. Ids(0) = {}
    BY <2>1
  <2> QED
    BY <2>1, <2>2
<1>5. ASSUME NEW k \in S PROVE k + 1 \in S
  <2> SUFFICES ASSUME k + 1 <= n PROVE ToSet(f[k + 1]) = Ids(k + 1)
    OBVIOUS
  <2>1. k + 1 \in 1 .. n /\ (k + 1) - 1 = k /\ k \in 0 .. n /\ ToSet(f[k]) = Ids(k)
    BY <1>1
  <2>2. f[k] \in Seq(Nat) /\ s[k + 1] \in Items
    BY <1>3, <2>1
  <2>3. CASE s[k + 1].type = type
    <3>1. f[k + 1] = Append(f[k], s[k + 1].id)
      BY <1>3, <2>1, <2>3
    <3>2. Ids(k + 1) = Ids(k) \cup {s[k + 1].id}
      <4>1. 1 .. (k + 1) = (1 .. k) \cup {k + 1}
        BY <2>1
      <4>2. {j \in 1 .. (k + 1) : s[j].type = type}
              = {j \in 1 .. k : s[j].type = type} \cup {k + 1}
        BY <2>3, <4>1
      <4> QED
        BY <4>2
    <3>3. s[k + 1].id \in Nat
      BY <2>2 DEF Items
    <3>4. ToSet(Append(f[k], s[k + 1].id)) = ToSet(f[k]) \cup {s[k + 1].id}
      <4> DEFINE a == f[k]
                 i == s[k + 1].id
                 b == Append(a, i)
      <4>1. /\ Len(b) = Len(a) + 1 /\ \A j \in 1 .. Len(a) : b[j] = a[j]
            /\ b[Len(a) + 1] = i /\ Len(a) \in Nat
            /\ DOMAIN b = 1 .. Len(b) /\ DOMAIN a = 1 .. Len(a)
        BY <2>2, <3>3, AppendProperties, LenProperties
      <4> HIDE DEF a, b, i
      <4>2. 1 .. (Len(a) + 1) = (1 .. Len(a)) \cup {Len(a) + 1}
        BY <4>1
      <4>3. {b[j] : j \in 1 .. (Len(a) + 1)} = {a[j] : j \in 1 .. Len(a)} \cup {i}
        BY <4>1, <4>2
      <4> QED
        BY <4>1, <4>3 DEF ToSet, a, b, i
    <3> QED
      BY <2>1, <3>1, <3>2, <3>4
  <2>4. CASE s[k + 1].type # type
    <3>1. f[k + 1] = f[k]
      BY <1>3, <2>1, <2>4
    <3>2. {j \in 1 .. (k + 1) : s[j].type = type} = {j \in 1 .. k : s[j].type = type}
      <4>1. 1 .. (k + 1) = (1 .. k) \cup {k + 1}
        BY <2>1
      <4> QED
        BY <2>4, <4>1
    <3> QED
      BY <2>1, <3>1, <3>2
  <2> QED
    BY <2>3, <2>4
<1>6. Nat \subseteq S
  <2> HIDE DEF S
  <2> QED
    BY <1>4, <1>5, SetInduction
<1>7. n \in S /\ f[n] \in Seq(Nat)
  <2>1. n \in S
    <3> HIDE DEF S
    <3> QED
      BY <1>1, <1>6
  <2>2. n \in 0 .. n
    BY <1>1
  <2> HIDE DEF S
  <2>3. f[n] \in Seq(Nat)
    BY <1>3, <2>2
  <2> QED
    BY <2>1, <2>3
<1>8. ToSet(f[n]) = Ids(n)
  BY <1>1, <1>7
<1> QED
  BY <1>3, <1>7, <1>8

(* No items have no ids. *)
LEMMA NumbersOfNone ==
  ASSUME NEW type
  PROVE  Numbers(<<>>, type) = <<>>
<1>1. <<>> \in Seq(Items) /\ Len(<<>>) = 0
  OBVIOUS
<1>2. PICK f : Counted(f, <<>>, type) /\ Numbers(<<>>, type) = f[Len(<<>>)]
  BY <1>1, NumbersExist
<1> QED
  BY <1>1, <1>2 DEF Counted

(* The ids of two sequences of items are those of the first, then those of *)
(* the second.                                                             *)
LEMMA NumbersOfConcat ==
  ASSUME NEW s \in Seq(Items), NEW t \in Seq(Items), NEW type
  PROVE  Numbers(s \o t, type) = Numbers(s, type) \o Numbers(t, type)
<1> DEFINE u == s \o t
           m == Len(s)
           n == Len(t)
<1>1. /\ m \in Nat /\ n \in Nat /\ u \in Seq(Items) /\ Len(u) = m + n
      /\ \A k \in 1 .. m + n : u[k] = IF k <= m THEN s[k] ELSE t[k - m]
  BY LenProperties, ConcatProperties
<1> HIDE DEF u
<1>2. PICK f : Counted(f, s, type) /\ Numbers(s, type) = f[m]
  BY NumbersExist
<1>3. PICK g : Counted(g, t, type) /\ Numbers(t, type) = g[n]
  BY NumbersExist
<1>4. PICK h : Counted(h, u, type) /\ Numbers(u, type) = h[m + n]
  <2>1. PICK h : Counted(h, u, type) /\ Numbers(u, type) = h[Len(u)]
    BY <1>1, NumbersExist
  <2> QED
    BY <1>1, <2>1
<1>5. /\ f \in [0 .. m -> Seq(Nat)] /\ f[0] = <<>>
      /\ \A k \in 1 .. m :
           f[k] = IF s[k].type = type THEN Append(f[k - 1], s[k].id) ELSE f[k - 1]
  BY <1>2 DEF Counted
<1>6. /\ g \in [0 .. n -> Seq(Nat)] /\ g[0] = <<>>
      /\ \A k \in 1 .. n :
           g[k] = IF t[k].type = type THEN Append(g[k - 1], t[k].id) ELSE g[k - 1]
  BY <1>3 DEF Counted
<1>7. /\ h \in [0 .. m + n -> Seq(Nat)] /\ h[0] = <<>>
      /\ \A k \in 1 .. m + n :
           h[k] = IF u[k].type = type THEN Append(h[k - 1], u[k].id) ELSE h[k - 1]
  <2>1. /\ h \in [0 .. Len(u) -> Seq(Nat)] /\ h[0] = <<>>
        /\ \A k \in 1 .. Len(u) :
             h[k] = IF u[k].type = type THEN Append(h[k - 1], u[k].id) ELSE h[k - 1]
    BY <1>4 DEF Counted
  <2> QED
    BY <1>1, <2>1
<1> HIDE DEF m, n
<1>8. \A k \in 0 .. m : h[k] = f[k]
  <2>1. ASSUME NEW k \in 1 .. m, h[k - 1] = f[k - 1] PROVE h[k] = f[k]
    <3>1. k \in 1 .. m + n /\ u[k] = s[k]
      BY <1>1
    <3>2. h[k] = IF u[k].type = type THEN Append(h[k - 1], u[k].id) ELSE h[k - 1]
      BY <1>7, <3>1
    <3>3. f[k] = IF s[k].type = type THEN Append(f[k - 1], s[k].id) ELSE f[k - 1]
      BY <1>5
    <3> QED
      BY <2>1, <3>1, <3>2, <3>3
  <2>2. h[0] = f[0]
    BY <1>5, <1>7
  <2>3. \A k \in 1 .. m : h[k - 1] = f[k - 1] => h[k] = f[k]
    BY <2>1
  <2> QED
    BY <1>1, <2>2, <2>3, RecursionIsUnique, ZenonT(60)
<1> DEFINE F == [k \in 0 .. n |-> h[m + k]]
           G == [k \in 0 .. n |-> f[m] \o g[k]]
<1>9. \A k \in 0 .. n : F[k] = h[m + k] /\ G[k] = f[m] \o g[k]
  OBVIOUS
<1> HIDE DEF F, G
<1>10. f[m] \in Seq(Nat) /\ \A k \in 0 .. n : g[k] \in Seq(Nat)
  <2>1. m \in 0 .. m
    BY <1>1
  <2> QED
    BY <1>5, <1>6, <2>1
<1>11. F[0] = G[0]
  <2>1. 0 \in 0 .. n /\ m + 0 = m /\ m \in 0 .. m
    BY <1>1
  <2>2. F[0] = f[m] /\ G[0] = f[m] \o <<>>
    BY <1>6, <1>8, <1>9, <2>1
  <2> QED
    BY <1>10, <2>2, ConcatEmptySeq
<1>12. ASSUME NEW k \in 1 .. n, F[k - 1] = G[k - 1] PROVE F[k] = G[k]
  <2>1. /\ k \in 0 .. n /\ k - 1 \in 0 .. n /\ m + k \in 1 .. m + n
        /\ (m + k) - 1 = m + (k - 1) /\ ~(m + k <= m) /\ (m + k) - m = k
    BY <1>1
  <2>2. u[m + k] = t[k] /\ t[k].id \in Nat
    <3>1. t[k] \in Items
      BY DEF n
    <3> QED
      BY <1>1, <2>1, <3>1 DEF Items
  <2>3. h[m + (k - 1)] = f[m] \o g[k - 1]
    BY <1>9, <1>12, <2>1
  <2>4. h[m + k] = IF t[k].type = type THEN Append(h[m + (k - 1)], t[k].id)
                   ELSE h[m + (k - 1)]
    BY <1>7, <2>1, <2>2
  <2>5. f[m] \o Append(g[k - 1], t[k].id) = Append(f[m] \o g[k - 1], t[k].id)
    <3> DEFINE a == f[m]
               b == g[k - 1]
               i == t[k].id
    <3>1. a \in Seq(Nat) /\ b \in Seq(Nat) /\ i \in Nat
      BY <1>10, <2>1, <2>2
    <3> HIDE DEF a, b, i
    <3>2. a \o Append(b, i) = Append(a \o b, i)
      BY <3>1, AppendToTheQueue
    <3> QED
      BY <3>2 DEF a, b, i
  <2>6. h[m + k] = f[m] \o g[k]
    BY <1>6, <2>3, <2>4, <2>5
  <2> QED
    BY <1>9, <2>1, <2>6
<1>13. \A k \in 0 .. n : F[k] = G[k]
  BY <1>1, <1>11, <1>12, RecursionIsUnique, ZenonT(60)
<1>14. h[m + n] = f[m] \o g[n]
  <2>1. n \in 0 .. n
    BY <1>1
  <2> QED
    BY <1>9, <1>13, <2>1
<1> QED
  BY <1>2, <1>3, <1>4, <1>14 DEF u

(* Items that are all of the type have all their ids. *)
LEMMA NumbersOfAll ==
  ASSUME NEW s \in Seq(Items), NEW type, \A k \in 1 .. Len(s) : s[k].type = type
  PROVE  Numbers(s, type) = [k \in 1 .. Len(s) |-> s[k].id]
<1> DEFINE n == Len(s)
<1>1. n \in Nat
  BY LenProperties
<1>2. PICK f : Counted(f, s, type) /\ Numbers(s, type) = f[n]
  BY NumbersExist
<1>3. /\ f[0] = <<>>
      /\ \A k \in 1 .. n :
           f[k] = IF s[k].type = type THEN Append(f[k - 1], s[k].id) ELSE f[k - 1]
  BY <1>2 DEF Counted
<1> DEFINE G == [k \in 0 .. n |-> [j \in 1 .. k |-> s[j].id]]
<1>4. \A k \in 0 .. n : G[k] = [j \in 1 .. k |-> s[j].id]
  OBVIOUS
<1> HIDE DEF G
<1>5. f[0] = G[0]
  <2>1. 0 \in 0 .. n /\ 1 .. 0 = {}
    BY <1>1
  <2>2. G[0] = [j \in {} |-> s[j].id]
    BY <1>4, <2>1
  <2> QED
    BY <1>3, <2>2
<1>6. ASSUME NEW k \in 1 .. n, f[k - 1] = G[k - 1] PROVE f[k] = G[k]
  <2>1. k - 1 \in 0 .. n /\ k \in 0 .. n /\ k - 1 \in Nat /\ (k - 1) + 1 = k
    BY <1>1
  <2> DEFINE a == [j \in 1 .. (k - 1) |-> s[j].id]
             i == s[k].id
  <2>2. \A j \in 1 .. n : s[j].id \in Nat
    <3>1. \A j \in 1 .. n : s[j] \in Items
      OBVIOUS
    <3> QED
      BY <3>1 DEF Items
  <2>3. a \in Seq(Nat) /\ Len(a) = k - 1
    <3>1. \A j \in 1 .. (k - 1) : s[j].id \in Nat
      BY <1>1, <2>2
    <3>2. a \in [1 .. (k - 1) -> Nat]
      BY <3>1
    <3>3. DOMAIN a = 1 .. (k - 1)
      OBVIOUS
    <3> HIDE DEF a
    <3> QED
      BY <2>1, <3>2, <3>3
  <2>4. \A j \in 1 .. (k - 1) : a[j] = s[j].id
    OBVIOUS
  <2>5. i \in Nat
    BY <2>2
  <2> DEFINE b == Append(a, i)
  <2> HIDE DEF a, i
  <2>6. b \in Seq(Nat) /\ Len(b) = k /\ b[k] = i /\ \A j \in 1 .. (k - 1) : b[j] = a[j]
    BY <2>1, <2>3, <2>5, AppendProperties
  <2> HIDE DEF b
  <2>7. \A j \in 1 .. k : b[j] = s[j].id
    <3>1. \A j \in 1 .. k : j # k => j \in 1 .. (k - 1)
      BY <1>1
    <3> QED
      BY <2>4, <2>6, <3>1 DEF i
  <2>8. b = [j \in 1 .. k |-> s[j].id]
    <3>1. b = [j \in 1 .. k |-> b[j]]
      BY <2>6
    <3> QED
      BY <2>7, <3>1
  <2>9. f[k] = Append(G[k - 1], i)
    BY <1>3, <1>6 DEF i
  <2> QED
    BY <1>4, <2>1, <2>8, <2>9 DEF a, b
<1>7. \A k \in 0 .. n : f[k] = G[k]
  <2> HIDE DEF n
  <2> QED
    BY <1>1, <1>5, <1>6, RecursionIsUnique, ZenonT(60)
<1>8. n \in 0 .. n
  BY <1>1
<1> QED
  BY <1>2, <1>4, <1>7, <1>8

(* Items none of which is of the type have none of its ids. *)
LEMMA NumbersOfOthers ==
  ASSUME NEW s \in Seq(Items), NEW type, \A k \in 1 .. Len(s) : s[k].type # type
  PROVE  Numbers(s, type) = <<>>
<1> DEFINE n == Numbers(s, type)
<1>1. n \in Seq(Nat) /\ ToSet(n) = {s[k].id : k \in {j \in 1 .. Len(s) : s[j].type = type}}
  BY NumbersProperties
<1> HIDE DEF n
<1>2. ToSet(n) = {}
  BY <1>1
<1>3. Len(n) \in Nat /\ DOMAIN n = 1 .. Len(n)
  BY <1>1, LenProperties
<1>4. ~(1 \in 1 .. Len(n))
  BY <1>2, <1>3 DEF ToSet
<1>5. Len(n) = 0
  BY <1>3, <1>4
<1>6. n = <<>>
  BY <1>1, <1>5, EmptySeq
<1> QED
  BY <1>6 DEF n

-----------------------------------------------------------------------------
(* What the messages of a history add to a request                         *)

(* The items of calls, one by one.                                         *)
LEMMA CallItemsType ==
  ASSUME NEW calls \in Seq(Calls)
  PROVE  /\ CallItems(calls) \in Seq(Items) /\ Len(CallItems(calls)) = Len(calls)
         /\ \A k \in 1 .. Len(calls) :
              CallItems(calls)[k] = Item("function_call", calls[k].id)
<1>1. Len(calls) \in Nat /\ DOMAIN calls = 1 .. Len(calls)
  BY LenProperties
<1> DEFINE n == Len(calls)
           c == [k \in 1 .. n |-> Item("function_call", calls[k].id)]
<1>2. CallItems(calls) = c
  BY <1>1 DEF CallItems
<1>3. \A k \in 1 .. n : Item("function_call", calls[k].id) \in Items
  <2>1. \A k \in 1 .. n : calls[k] \in Calls
    OBVIOUS
  <2> QED
    BY <2>1 DEF Item, Items, ItemTypes, Calls
<1>4. c \in Seq(Items) /\ Len(c) = n
  <2>1. c \in [1 .. n -> Items]
    BY <1>3
  <2> QED
    BY <1>1, <2>1
<1> QED
  BY <1>2, <1>4

(* The items of the reasoning in an Extra, one by one.                     *)
LEMMA ReasoningItemsType ==
  ASSUME NEW extra \in Extras
  PROVE  /\ ReasoningItems(extra) \in Seq(Items)
         /\ Len(ReasoningItems(extra)) = Len(extra.items)
         /\ \A k \in 1 .. Len(extra.items) :
              ReasoningItems(extra)[k] = Item("reasoning", extra.items[k])
<1> DEFINE s == extra.items
           n == Len(s)
           c == [k \in 1 .. n |-> Item("reasoning", s[k])]
<1>1. s \in Seq(Nat)
  BY DEF Extras
<1>2. ReasoningItems(extra) = [k \in DOMAIN s |-> Item("reasoning", s[k])]
  BY DEF ReasoningItems
<1> HIDE DEF s
<1>3. n \in Nat /\ DOMAIN s = 1 .. n
  BY <1>1, LenProperties
<1>4. \A k \in 1 .. n : Item("reasoning", s[k]) \in Items
  BY <1>1 DEF Item, Items, ItemTypes
<1>5. c \in Seq(Items) /\ Len(c) = n
  <2>1. c \in [1 .. n -> Items]
    BY <1>4
  <2> QED
    BY <1>3, <2>1
<1> QED
  BY <1>2, <1>3, <1>5 DEF s

(* What an assistant message adds: its reasoning, its text and its calls.  *)
TextItems(m) == IF m.text THEN <<Item("output_text", 0)>> ELSE <<>>
Added(s, m) == s \o ReasoningItems(m.extra) \o TextItems(m) \o CallItems(m.calls)

(* The item of a text, if there is one.                                    *)
LEMMA TextItemsType ==
  ASSUME NEW m
  PROVE  /\ TextItems(m) \in Seq(Items)
         /\ \A k \in 1 .. Len(TextItems(m)) : TextItems(m)[k] = Item("output_text", 0)
<1> DEFINE x == TextItems(m)
           i == Item("output_text", 0)
<1>1. i \in Items
  BY DEF Item, Items, ItemTypes
<1> HIDE DEF i
<1>2. <<i>> \in Seq(Items) /\ \A k \in 1 .. Len(<<i>>) : <<i>>[k] = i
  BY <1>1
<1>3. x = <<i>> \/ x = <<>>
  BY DEF TextItems, i
<1> HIDE DEF x
<1>4. CASE x = <<>>
  <2>1. Len(<<>>) = 0 /\ <<>> \in Seq(Items) /\ 1 .. 0 = {}
    OBVIOUS
  <2> QED
    BY <1>4, <2>1 DEF x
<1>5. CASE x = <<i>>
  BY <1>2, <1>5 DEF i, x
<1> QED
  BY <1>3, <1>4, <1>5

Placed(t, first, s, m) ==
  /\ t \in Seq(Items) /\ first \in Nat /\ Len(t) = first + Len(m.calls)
  /\ Len(s) \in Nat /\ Len(m.extra.items) \in Nat /\ Len(m.calls) \in Nat
  /\ first >= Len(s) + Len(m.extra.items)
  /\ \A k \in 1 .. Len(s) : t[k] = s[k]
  /\ \A k \in 1 .. Len(m.extra.items) :
       t[Len(s) + k] = Item("reasoning", m.extra.items[k])
  /\ \A k \in Len(s) + Len(m.extra.items) + 1 .. first : t[k] = Item("output_text", 0)
  /\ \A k \in 1 .. Len(m.calls) : t[first + k] = Item("function_call", m.calls[k].id)

(* Which item stands where after an assistant message: those before it as  *)
(* they were, then its reasoning, its text, if any, and its calls.         *)
LEMMA AddedItems ==
  ASSUME NEW s \in Seq(Items), NEW m \in Messages
  PROVE  \E first : Placed(Added(s, m), first, s, m)
<1> DEFINE r == ReasoningItems(m.extra)
           x == TextItems(m)
           c == CallItems(m.calls)
           e == m.extra.items
           f == Len(s) + Len(e) + Len(x)
<1>1. m.extra \in Extras /\ m.calls \in Seq(Calls) /\ e \in Seq(Nat)
  BY DEF Messages, Extras
<1>2. /\ r \in Seq(Items) /\ Len(r) = Len(e)
      /\ \A k \in 1 .. Len(e) : r[k] = Item("reasoning", e[k])
  BY <1>1, ReasoningItemsType
<1>3. /\ c \in Seq(Items) /\ Len(c) = Len(m.calls)
      /\ \A k \in 1 .. Len(m.calls) : c[k] = Item("function_call", m.calls[k].id)
  BY <1>1, CallItemsType
<1>4. x \in Seq(Items) /\ \A k \in 1 .. Len(x) : x[k] = Item("output_text", 0)
  BY TextItemsType
<1> DEFINE u == s \o r
           v == u \o x
           t == v \o c
<1>5. Added(s, m) = t
  BY DEF Added
<1>6. Len(s) \in Nat /\ Len(e) \in Nat /\ Len(x) \in Nat /\ Len(m.calls) \in Nat
  BY <1>1, <1>4, LenProperties
<1> HIDE DEF r, x, c, e
<1>7. /\ u \in Seq(Items) /\ Len(u) = Len(s) + Len(e)
      /\ \A k \in 1 .. Len(s) + Len(e) : u[k] = IF k <= Len(s) THEN s[k] ELSE r[k - Len(s)]
  <2>1. /\ u \in Seq(Items) /\ Len(u) = Len(s) + Len(r)
        /\ \A k \in 1 .. Len(s) + Len(r) : u[k] = IF k <= Len(s) THEN s[k] ELSE r[k - Len(s)]
    BY <1>2, ConcatProperties
  <2> QED
    BY <1>2, <2>1
<1> HIDE DEF u
<1>8. /\ v \in Seq(Items) /\ Len(v) = f
      /\ \A k \in 1 .. f : v[k] = IF k <= Len(u) THEN u[k] ELSE x[k - Len(u)]
  <2>1. /\ v \in Seq(Items) /\ Len(v) = Len(u) + Len(x)
        /\ \A k \in 1 .. Len(u) + Len(x) : v[k] = IF k <= Len(u) THEN u[k] ELSE x[k - Len(u)]
    BY <1>4, <1>7, ConcatProperties
  <2> QED
    BY <1>7, <2>1
<1> HIDE DEF v, f
<1>9. /\ t \in Seq(Items) /\ Len(t) = f + Len(m.calls)
      /\ \A k \in 1 .. f + Len(m.calls) : t[k] = IF k <= f THEN v[k] ELSE c[k - f]
  <2>1. /\ t \in Seq(Items) /\ Len(t) = Len(v) + Len(c)
        /\ \A k \in 1 .. Len(v) + Len(c) : t[k] = IF k <= Len(v) THEN v[k] ELSE c[k - Len(v)]
    BY <1>3, <1>8, ConcatProperties
  <2> QED
    BY <1>3, <1>8, <2>1
<1> HIDE DEF t
<1>10. f \in Nat /\ f = Len(s) + Len(e) + Len(x) /\ f >= Len(s) + Len(e)
  BY <1>6 DEF f
<1> DEFINE a == Len(s)
           b == Len(e)
           l == Len(x)
           q == Len(m.calls)
           w == Len(u)
<1>11. /\ a \in Nat /\ b \in Nat /\ l \in Nat /\ q \in Nat /\ w = a + b
       /\ f \in Nat /\ f = a + b + l
  BY <1>6, <1>7, <1>10
<1>12. ASSUME NEW k \in 1 .. a PROVE t[k] = s[k]
  <2>1. /\ k \in 1 .. a + b /\ k \in 1 .. f /\ k \in 1 .. f + q
        /\ k <= a /\ k <= w /\ k <= f
    <3> HIDE DEF a, b, l, q, w
    <3> QED
      BY <1>11
  <2> QED
    BY <1>7, <1>8, <1>9, <2>1
<1>13. ASSUME NEW k \in 1 .. b PROVE t[a + k] = Item("reasoning", e[k])
  <2> DEFINE j == a + k
  <2>1. /\ j \in 1 .. a + b /\ j \in 1 .. f /\ j \in 1 .. f + q
        /\ ~(j <= a) /\ j <= w /\ j <= f /\ j - a = k
    <3> HIDE DEF a, b, l, q, w
    <3> QED
      BY <1>11
  <2> HIDE DEF j
  <2>2. t[j] = r[k]
    BY <1>7, <1>8, <1>9, <2>1
  <2> QED
    BY <1>2, <2>2 DEF j
<1>14. ASSUME NEW k \in a + b + 1 .. f PROVE t[k] = Item("output_text", 0)
  <2>1. /\ k \in 1 .. f /\ k \in 1 .. f + q /\ k <= f /\ ~(k <= w)
        /\ k - w \in 1 .. l
    <3> HIDE DEF a, b, l, q, w
    <3> QED
      BY <1>11
  <2> QED
    BY <1>4, <1>8, <1>9, <2>1
<1>15. ASSUME NEW k \in 1 .. q
       PROVE  t[f + k] = Item("function_call", m.calls[k].id)
  <2> DEFINE j == f + k
  <2>1. j \in 1 .. f + q /\ ~(j <= f) /\ j - f = k
    <3> HIDE DEF a, b, l, q, w
    <3> QED
      BY <1>11
  <2> HIDE DEF j
  <2>2. t[j] = c[k]
    BY <1>9, <2>1
  <2> QED
    BY <1>3, <2>2 DEF j
<1>16. Placed(t, f, s, m)
  BY <1>6, <1>9, <1>10, <1>12, <1>13, <1>14, <1>15 DEF Placed, e
<1> QED
  BY <1>5, <1>16

NewPending(m) == {[id |-> m.calls[k].id, name |-> m.calls[k].name] : k \in DOMAIN m.calls}

(* An assistant message that fits adds its items, its calls to those       *)
(* pending and their ids to those seen.                                    *)
LEMMA AssistantTurnDoes ==
  ASSUME NEW acc \in Accs, NEW m \in Messages
  PROVE  \/ /\ m.answers # Blank \/ ~ReasoningFits(m.extra) \/ ~CallsFit(acc, m.calls)
            /\ AssistantTurn(acc, m) = Rejected
         \/ /\ m.answers = Blank /\ ReasoningFits(m.extra) /\ CallsFit(acc, m.calls)
            /\ AssistantTurn(acc, m) \in Accs
            /\ AssistantTurn(acc, m).ok = acc.ok
            /\ AssistantTurn(acc, m).items = Added(acc.items, m)
            /\ AssistantTurn(acc, m).pending = acc.pending \cup NewPending(m)
            /\ AssistantTurn(acc, m).seen = acc.seen \cup IdsOf(m.calls)
<1>1. CASE m.answers # Blank \/ ~ReasoningFits(m.extra) \/ ~CallsFit(acc, m.calls)
  BY <1>1 DEF AssistantTurn
<1>2. CASE m.answers = Blank /\ ReasoningFits(m.extra) /\ CallsFit(acc, m.calls)
  <2> DEFINE i == Added(acc.items, m)
             p == acc.pending \cup NewPending(m)
             n == acc.seen \cup IdsOf(m.calls)
             b == [acc EXCEPT !.items = i, !.pending = p, !.seen = n]
  <2>1. AssistantTurn(acc, m) = b
    BY <1>2 DEF AssistantTurn, Added, TextItems, NewPending
  <2>2. /\ acc.items \in Seq(Items) /\ acc.pending \subseteq [id : Nat, name : Names]
        /\ acc.seen \subseteq Nat /\ m.calls \in Seq(Calls)
    BY DEF Accs, Messages
  <2>3. i \in Seq(Items)
    BY <2>2, AddedItems DEF Placed
  <2>4. \A k \in DOMAIN m.calls : m.calls[k].id \in Nat /\ m.calls[k].name \in Names
    <3>1. \A k \in DOMAIN m.calls : m.calls[k] \in Calls
      BY <2>2
    <3> QED
      BY <3>1 DEF Calls
  <2>5. p \subseteq [id : Nat, name : Names]
    BY <2>2, <2>4 DEF NewPending
  <2>6. n \subseteq Nat
    BY <2>2, <2>4 DEF IdsOf
  <2> HIDE DEF i, p, n
  <2>7. b \in Accs /\ b.ok = acc.ok /\ b.items = i /\ b.pending = p /\ b.seen = n
    BY <2>3, <2>5, <2>6 DEF Accs
  <2> QED
    BY <1>2, <2>1, <2>7 DEF i, p, n
<1> QED
  BY <1>1, <1>2

(* A result that fits answers a pending call.                              *)
LEMMA ToolTurnDoes ==
  ASSUME NEW acc \in Accs, NEW m \in Messages
  PROVE  \/ /\ \/ m.answers = Blank \/ Pending(acc, m.answers) = {} \/ m.calls # <<>>
               \/ \E p \in Pending(acc, m.answers) : m.name \notin {"", p.name}
            /\ ToolTurn(acc, m) = Rejected
         \/ /\ m.answers # Blank /\ Pending(acc, m.answers) # {}
            /\ ToolTurn(acc, m) \in Accs
            /\ ToolTurn(acc, m).ok = acc.ok
            /\ ToolTurn(acc, m).items
                 = Append(acc.items, Item("function_call_output", m.answers))
            /\ ToolTurn(acc, m).pending = acc.pending \ Pending(acc, m.answers)
            /\ ToolTurn(acc, m).seen = acc.seen
<1> DEFINE bad == \/ m.answers = Blank \/ Pending(acc, m.answers) = {} \/ m.calls # <<>>
                  \/ \E p \in Pending(acc, m.answers) : m.name \notin {"", p.name}
<1>1. CASE bad
  BY <1>1 DEF ToolTurn
<1>2. CASE ~bad
  <2> DEFINE i == Append(acc.items, Item("function_call_output", m.answers))
             p == acc.pending \ Pending(acc, m.answers)
             b == [acc EXCEPT !.items = i, !.pending = p]
  <2>1. ToolTurn(acc, m) = b
    BY <1>2 DEF ToolTurn
  <2>2. /\ acc.items \in Seq(Items) /\ acc.pending \subseteq [id : Nat, name : Names]
        /\ Item("function_call_output", m.answers) \in Items
    BY DEF Accs, Messages, Item, Items, ItemTypes
  <2>3. i \in Seq(Items)
    BY <2>2, AppendProperties
  <2>4. p \subseteq [id : Nat, name : Names]
    BY <2>2
  <2> HIDE DEF i, p
  <2>5. b \in Accs /\ b.ok = acc.ok /\ b.items = i /\ b.pending = p /\ b.seen = acc.seen
    BY <2>3, <2>4 DEF Accs
  <2> QED
    BY <1>2, <2>1, <2>5 DEF i, p
<1> QED
  BY <1>1, <1>2

(* A prompt adds its text, unless it is that of the system, which goes     *)
(* into the instructions.                                                  *)
LEMMA OtherTurnDoes ==
  ASSUME NEW acc \in Accs, NEW m \in Messages
  PROVE  \/ (m.calls # <<>> \/ m.answers # Blank) /\ OtherTurn(acc, m) = Rejected
         \/ m.calls = <<>> /\ m.answers = Blank /\ OtherTurn(acc, m) = acc
         \/ /\ m.calls = <<>> /\ m.answers = Blank
            /\ OtherTurn(acc, m) \in Accs
            /\ OtherTurn(acc, m).ok = acc.ok
            /\ OtherTurn(acc, m).items = Append(acc.items, Item("input_text", 0))
            /\ OtherTurn(acc, m).pending = acc.pending
            /\ OtherTurn(acc, m).seen = acc.seen
<1>1. CASE m.calls # <<>> \/ m.answers # Blank
  BY <1>1 DEF OtherTurn
<1>2. CASE m.calls = <<>> /\ m.answers = Blank /\ m.role = "system"
  BY <1>2 DEF OtherTurn
<1>3. CASE m.calls = <<>> /\ m.answers = Blank /\ m.role # "system"
  <2> DEFINE i == Append(acc.items, Item("input_text", 0))
             b == [acc EXCEPT !.items = i]
  <2>1. OtherTurn(acc, m) = b
    BY <1>3 DEF OtherTurn
  <2>2. acc.items \in Seq(Items) /\ Item("input_text", 0) \in Items
    BY DEF Accs, Item, Items, ItemTypes
  <2>3. i \in Seq(Items)
    BY <2>2, AppendProperties
  <2> HIDE DEF i
  <2>4. /\ b \in Accs /\ b.ok = acc.ok /\ b.items = i /\ b.pending = acc.pending
        /\ b.seen = acc.seen
    BY <2>3 DEF Accs
  <2> QED
    BY <1>3, <2>1, <2>4 DEF i
<1> QED
  BY <1>1, <1>2, <1>3

(* What is rejected is not ok and has nothing in it.                       *)
LEMMA RejectedType ==
  /\ Rejected \in Accs /\ ~Rejected.ok /\ Rejected.items = <<>> /\ Rejected.pending = {}
  /\ Rejected.seen = {}
BY DEF Rejected, Accs

(* Every message makes an input of an input.                               *)
LEMMA WithMessageType ==
  ASSUME NEW acc \in Accs, NEW m \in Messages
  PROVE  WithMessage(acc, m) \in Accs
<1>1. AssistantTurn(acc, m) \in Accs
  BY AssistantTurnDoes, RejectedType
<1>2. ToolTurn(acc, m) \in Accs
  BY ToolTurnDoes, RejectedType
<1>3. OtherTurn(acc, m) \in Accs
  BY OtherTurnDoes, RejectedType
<1> QED
  BY <1>1, <1>2, <1>3, RejectedType DEF WithMessage

(* The input, message by message, as defined and as a function.            *)
Nothing == [Rejected EXCEPT !.ok = TRUE]

(* The input of no message is ok and has nothing in it.                    *)
LEMMA NothingType ==
  /\ Nothing \in Accs /\ Nothing.ok /\ Nothing.items = <<>> /\ Nothing.pending = {}
  /\ Nothing.seen = {}
BY RejectedType DEF Nothing, Accs

AreInputs(f, messages) ==
  f = [n \in 0 .. Len(messages) |->
         IF n = 0 THEN [Rejected EXCEPT !.ok = TRUE]
         ELSE WithMessage(f[n - 1], messages[n])]

Folded(f, messages) ==
  /\ f \in [0 .. Len(messages) -> Accs] /\ f[0] = Nothing
  /\ \A k \in 1 .. Len(messages) : f[k] = WithMessage(f[k - 1], messages[k])

(* The input of a history exists. *)
LEMMA InputExists ==
  ASSUME NEW messages \in Seq(Messages)
  PROVE  \E f : Folded(f, messages) /\ Input(messages) = f[Len(messages)]
<1> DEFINE n == Len(messages)
           step == [k \in 1 .. n |-> [a \in Accs |-> WithMessage(a, messages[k])]]
<1>1. n \in Nat
  BY LenProperties
<1>2. ASSUME NEW a \in Accs, NEW k \in 1 .. n
      PROVE  step[k][a] = WithMessage(a, messages[k]) /\ step[k][a] \in Accs
  <2>1. step[k][a] = WithMessage(a, messages[k])
    OBVIOUS
  <2>2. messages[k] \in Messages
    OBVIOUS
  <2>3. WithMessage(a, messages[k]) \in Accs
    BY <2>2, WithMessageType
  <2> HIDE DEF step
  <2> QED
    BY <2>1, <2>3
<1>3. step \in [1 .. n -> [Accs -> Accs]]
  BY <1>2
<1>4. PICK f \in [0 .. n -> Accs] :
        f[0] = Nothing /\ \A k \in 1 .. n : f[k] = step[k][f[k - 1]]
  <2>1. Nothing \in Accs
    BY NothingType
  <2> HIDE DEF step, n
  <2>2. \E f \in [0 .. n -> Accs] :
          f[0] = Nothing /\ \A k \in 1 .. n : f[k] = step[k][f[k - 1]]
    BY <1>1, <1>3, <2>1, RecursionExists
  <2> QED
    BY <2>2
<1>5. \A k \in 1 .. n : f[k] = WithMessage(f[k - 1], messages[k])
  <2> SUFFICES ASSUME NEW k \in 1 .. n PROVE f[k] = WithMessage(f[k - 1], messages[k])
    OBVIOUS
  <2>1. f[k - 1] \in Accs
    BY <1>1
  <2> HIDE DEF step
  <2> QED
    BY <1>2, <1>4, <2>1
<1> HIDE DEF step
<1>6. AreInputs(f, messages)
  <2>1. f = [k \in 0 .. n |-> f[k]]
    OBVIOUS
  <2>2. \A k \in 0 .. n : k # 0 => k \in 1 .. n
    BY <1>1
  <2> HIDE DEF n
  <2>3. \A k \in 0 .. n :
          f[k] = IF k = 0 THEN Nothing ELSE WithMessage(f[k - 1], messages[k])
    BY <1>4, <1>5, <2>2
  <2>4. f = [k \in 0 .. n |-> IF k = 0 THEN Nothing ELSE WithMessage(f[k - 1], messages[k])]
    BY <2>1, <2>3
  <2> QED
    BY <2>4 DEF AreInputs, n, Nothing
<1> DEFINE g == CHOOSE h : AreInputs(h, messages)
<1>7. AreInputs(g, messages)
  BY <1>6
<1>8. Input(messages) = g[n]
  BY DEF Input, AreInputs
<1> HIDE DEF g
<1>9. \A k \in 0 .. n :
        g[k] = IF k = 0 THEN Nothing ELSE WithMessage(g[k - 1], messages[k])
  BY <1>7 DEF AreInputs, Nothing
<1>10. \A k \in 0 .. n : g[k] = f[k]
  <2>1. \A k \in 1 .. n : k \in 0 .. n /\ k # 0
    BY <1>1
  <2> HIDE DEF n
  <2>2. g[0] = f[0]
    BY <1>1, <1>4, <1>9
  <2>3. ASSUME NEW k \in 1 .. n, g[k - 1] = f[k - 1] PROVE g[k] = f[k]
    BY <1>5, <1>9, <2>1, <2>3
  <2> QED
    BY <1>1, <2>2, <2>3, RecursionIsUnique, ZenonT(60)
<1>11. Input(messages) = f[n]
  BY <1>1, <1>8, <1>10
<1>12. Folded(f, messages)
  BY <1>4, <1>5 DEF Folded
<1> QED
  BY <1>11, <1>12

-----------------------------------------------------------------------------
(* Calls and results are paired *)

IsCall(items, k, id) == k \in 1 .. Len(items) /\ items[k] = Item("function_call", id)
IsResult(items, k, id) ==
  k \in 1 .. Len(items) /\ items[k] = Item("function_call_output", id)

(* No call is there twice, no result either, a result stands behind its    *)
(* call, which is then no longer pending, and what is pending is there.    *)
Paired(acc) ==
  /\ \A k, id \in Nat : IsCall(acc.items, k, id) => id \in acc.seen
  /\ \A j, k, id \in Nat : IsCall(acc.items, j, id) /\ IsCall(acc.items, k, id) => j = k
  /\ \A j, k, id \in Nat :
       IsResult(acc.items, j, id) /\ IsResult(acc.items, k, id) => j = k
  /\ \A k, id \in Nat : IsResult(acc.items, k, id) =>
       /\ \E j \in 1 .. k - 1 : IsCall(acc.items, j, id)
       /\ \A p \in acc.pending : p.id # id
  /\ \A p \in acc.pending : \E k \in Nat : IsCall(acc.items, k, p.id)

(* An input without items is paired.                                       *)
LEMMA NothingIsPaired ==
  ASSUME NEW acc, acc.items = <<>>, acc.pending = {}
  PROVE  Paired(acc)
<1>1. \A k : ~(k \in 1 .. Len(acc.items))
  OBVIOUS
<1> QED
  BY <1>1 DEF Paired, IsCall, IsResult

(* An assistant message keeps calls and results paired.                    *)
LEMMA AssistantKeepsPairs ==
  ASSUME NEW acc \in Accs, NEW m \in Messages, Paired(acc)
  PROVE  Paired(AssistantTurn(acc, m))
<1> DEFINE b == AssistantTurn(acc, m)
           s == acc.items
           t == b.items
           n == Len(s)
           q == Len(m.calls)
<1>1. CASE b = Rejected
  BY <1>1, RejectedType, NothingIsPaired
<1>2. CASE b # Rejected
  <2>1. /\ CallsFit(acc, m.calls) /\ b \in Accs /\ t = Added(s, m)
        /\ b.pending = acc.pending \cup NewPending(m)
        /\ b.seen = acc.seen \cup IdsOf(m.calls)
    BY <1>2, AssistantTurnDoes
  <2> HIDE DEF b
  <2>2. s \in Seq(Items)
    BY DEF Accs
  <2>3. PICK f : Placed(t, f, s, m)
    BY <2>1, <2>2, AddedItems
  <2>4. /\ f \in Nat /\ n \in Nat /\ q \in Nat /\ f >= n /\ Len(t) = f + q
        /\ \A k \in 1 .. n : t[k] = s[k]
        /\ \A k \in 1 .. q : t[f + k] = Item("function_call", m.calls[k].id)
    <3> DEFINE e == Len(m.extra.items)
    <3>1. /\ f \in Nat /\ n \in Nat /\ q \in Nat /\ e \in Nat /\ f >= n + e /\ Len(t) = f + q
          /\ \A k \in 1 .. n : t[k] = s[k]
          /\ \A k \in 1 .. q : t[f + k] = Item("function_call", m.calls[k].id)
      BY <2>3 DEF Placed
    <3> HIDE DEF n, q, e, t, s
    <3> QED
      BY <3>1
  <2>5. ASSUME NEW k \in n + 1 .. f
        PROVE  t[k].type \in {"reasoning", "output_text"}
    <3> DEFINE e == Len(m.extra.items)
    <3>1. /\ e \in Nat /\ n \in Nat /\ f \in Nat
          /\ \A j \in 1 .. e : t[n + j] = Item("reasoning", m.extra.items[j])
          /\ \A j \in n + e + 1 .. f : t[j] = Item("output_text", 0)
      BY <2>3 DEF Placed
    <3> HIDE DEF n, e, t, s
    <3>2. CASE k <= n + e
      <4>1. k - n \in 1 .. e /\ n + (k - n) = k
        BY <3>1, <3>2
      <4>2. t[k] = Item("reasoning", m.extra.items[k - n])
        BY <3>1, <4>1
      <4> QED
        BY <4>2 DEF Item
    <3>3. CASE ~(k <= n + e)
      <4>1. k \in n + e + 1 .. f
        BY <3>1, <3>3
      <4>2. t[k] = Item("output_text", 0)
        BY <3>1, <4>1
      <4> QED
        BY <4>2 DEF Item
    <3> QED
      BY <3>2, <3>3
  <2>6. DOMAIN m.calls = 1 .. q
    <3>1. m.calls \in Seq(Calls)
      BY DEF Messages
    <3> QED
      BY <3>1, LenProperties
  <2> HIDE DEF n, q, t, s
  <2>7. ASSUME NEW k \in Nat, NEW id \in Nat, IsCall(t, k, id)
        PROVE  \/ IsCall(s, k, id) /\ k <= n
               \/ \E j \in 1 .. q : k = f + j /\ m.calls[j].id = id
    <3>1. k \in 1 .. f + q /\ t[k] = Item("function_call", id)
      BY <2>4, <2>7 DEF IsCall
    <3>2. CASE k <= n
      <4>1. k \in 1 .. n
        BY <2>4, <3>1, <3>2
      <4>2. s[k] = Item("function_call", id)
        BY <2>4, <3>1, <4>1
      <4> QED
        BY <4>1, <4>2 DEF IsCall, n
    <3>3. CASE n < k /\ k <= f
      <4>1. k \in n + 1 .. f
        BY <2>4, <3>1, <3>3
      <4>2. t[k].type \in {"reasoning", "output_text"}
        BY <2>5, <4>1
      <4> QED
        BY <3>1, <4>2 DEF Item
    <3>4. CASE f < k
      <4>1. k - f \in 1 .. q /\ k = f + (k - f)
        BY <2>4, <3>1, <3>4
      <4>2. t[k] = Item("function_call", m.calls[k - f].id)
        BY <2>4, <4>1
      <4>3. m.calls[k - f].id = id
        BY <3>1, <4>2 DEF Item
      <4> QED
        BY <4>1, <4>3
    <3> QED
      BY <2>4, <3>1, <3>2, <3>3, <3>4
  <2>8. ASSUME NEW k \in Nat, NEW id \in Nat, IsResult(t, k, id)
        PROVE  IsResult(s, k, id) /\ k <= n
    <3>1. k \in 1 .. f + q /\ t[k] = Item("function_call_output", id)
      BY <2>4, <2>8 DEF IsResult
    <3>2. CASE k <= n
      <4>1. k \in 1 .. n
        BY <2>4, <3>1, <3>2
      <4>2. s[k] = Item("function_call_output", id)
        BY <2>4, <3>1, <4>1
      <4> QED
        BY <4>1, <4>2 DEF IsResult, n
    <3>3. CASE n < k /\ k <= f
      <4>1. k \in n + 1 .. f
        BY <2>4, <3>1, <3>3
      <4>2. t[k].type \in {"reasoning", "output_text"}
        BY <2>5, <4>1
      <4> QED
        BY <3>1, <4>2 DEF Item
    <3>4. CASE f < k
      <4>1. k - f \in 1 .. q /\ k = f + (k - f)
        BY <2>4, <3>1, <3>4
      <4>2. t[k] = Item("function_call", m.calls[k - f].id)
        BY <2>4, <4>1
      <4> QED
        BY <3>1, <4>2 DEF Item
    <3> QED
      BY <2>4, <3>1, <3>2, <3>3, <3>4
  <2>9. ASSUME NEW k \in Nat, NEW id \in Nat, IsCall(s, k, id)
        PROVE  IsCall(t, k, id)
    <3>1. k \in 1 .. n /\ s[k] = Item("function_call", id)
      BY <2>9 DEF IsCall, n
    <3>2. k \in 1 .. Len(t) /\ t[k] = s[k]
      BY <2>4, <3>1
    <3> QED
      BY <3>1, <3>2 DEF IsCall
  <2>10. ASSUME NEW j \in 1 .. q
         PROVE  /\ IsCall(t, f + j, m.calls[j].id) /\ m.calls[j].id \in IdsOf(m.calls)
                /\ m.calls[j].id \notin acc.seen /\ f + j \in Nat
                /\ \A l \in 1 .. q : m.calls[l].id = m.calls[j].id => l = j
    <3>1. f + j \in 1 .. Len(t) /\ f + j \in Nat
      BY <2>4
    <3> QED
      BY <2>1, <2>4, <2>6, <3>1 DEF IsCall, CallsFit, IdsOf
  <2>11. ASSUME NEW k \in Nat, NEW id \in Nat, IsCall(t, k, id) PROVE id \in b.seen
    BY <2>1, <2>7, <2>10, <2>11 DEF Paired, s
  <2>12. ASSUME NEW j \in Nat, NEW k \in Nat, NEW id \in Nat,
                IsCall(t, j, id), IsCall(t, k, id)
         PROVE  j = k
    <3>1. CASE IsCall(s, j, id)
      <4>1. id \in acc.seen
        BY <3>1 DEF Paired, s
      <4>2. IsCall(s, k, id)
        BY <2>7, <2>10, <2>12, <4>1
      <4> QED
        BY <3>1, <4>2 DEF Paired, s
    <3>2. CASE ~IsCall(s, j, id)
      <4>1. PICK x \in 1 .. q : j = f + x /\ m.calls[x].id = id
        BY <2>7, <2>12, <3>2
      <4>2. ~IsCall(s, k, id)
        <5>1. id \notin acc.seen
          BY <2>10, <4>1
        <5> QED
          BY <5>1 DEF Paired, s
      <4>3. PICK y \in 1 .. q : k = f + y /\ m.calls[y].id = id
        BY <2>7, <2>12, <4>2
      <4> QED
        BY <2>10, <4>1, <4>3
    <3> QED
      BY <3>1, <3>2
  <2>13. ASSUME NEW j \in Nat, NEW k \in Nat, NEW id \in Nat,
                IsResult(t, j, id), IsResult(t, k, id)
         PROVE  j = k
    BY <2>8, <2>13 DEF Paired, s
  <2>14. ASSUME NEW k \in Nat, NEW id \in Nat, IsResult(t, k, id)
         PROVE  /\ \E j \in 1 .. k - 1 : IsCall(t, j, id)
                /\ \A p \in b.pending : p.id # id
    <3>1. PICK j \in 1 .. k - 1 : IsCall(s, j, id)
      BY <2>8, <2>14 DEF Paired, s
    <3>2. \A p \in acc.pending : p.id # id
      BY <2>8, <2>14 DEF Paired, s
    <3>3. j \in Nat
      OBVIOUS
    <3>4. id \in acc.seen
      BY <3>1, <3>3 DEF Paired, s
    <3>5. \A p \in NewPending(m) : p.id # id
      <4> SUFFICES ASSUME NEW l \in 1 .. q PROVE m.calls[l].id # id
        BY <2>6 DEF NewPending
      <4> QED
        BY <2>10, <3>4
    <3>6. IsCall(t, j, id)
      BY <2>9, <3>1, <3>3
    <3> QED
      BY <2>1, <3>2, <3>5, <3>6
  <2>15. ASSUME NEW p \in b.pending PROVE \E k \in Nat : IsCall(t, k, p.id)
    <3>1. CASE p \in acc.pending
      <4>1. PICK k \in Nat : IsCall(s, k, p.id)
        BY <3>1 DEF Paired, s
      <4>2. p.id \in Nat
        BY <3>1 DEF Accs
      <4> QED
        BY <2>9, <4>1, <4>2
    <3>2. CASE p \in NewPending(m)
      <4>1. PICK l \in 1 .. q : p.id = m.calls[l].id
        BY <2>6, <3>2 DEF NewPending
      <4> QED
        BY <2>10, <4>1
    <3> QED
      BY <2>1, <3>1, <3>2
  <2>16. /\ \A k, id \in Nat : IsCall(b.items, k, id) => id \in b.seen
         /\ \A j, k, id \in Nat : IsCall(b.items, j, id) /\ IsCall(b.items, k, id) => j = k
         /\ \A j, k, id \in Nat :
              IsResult(b.items, j, id) /\ IsResult(b.items, k, id) => j = k
    BY <2>11, <2>12, <2>13 DEF t
  <2>17. /\ \A k, id \in Nat : IsResult(b.items, k, id) =>
              /\ \E j \in 1 .. k - 1 : IsCall(b.items, j, id)
              /\ \A p \in b.pending : p.id # id
         /\ \A p \in b.pending : \E k \in Nat : IsCall(b.items, k, p.id)
    BY <2>14, <2>15 DEF t
  <2> QED
    BY <2>16, <2>17 DEF Paired, b
<1> QED
  BY <1>1, <1>2

(* One item more of another type than a call.                              *)
LEMMA PlacesOfAppend ==
  ASSUME NEW s \in Seq(Items), NEW i \in Items, NEW k \in Nat, NEW id \in Nat
  PROVE  LET t == Append(s, i)
         IN  /\ i.type # "function_call" => (IsCall(t, k, id) <=> IsCall(s, k, id))
             /\ IsResult(t, k, id) <=> \/ IsResult(s, k, id)
                                       \/ (k = Len(s) + 1 /\ i = Item("function_call_output", id))
<1> DEFINE t == Append(s, i)
           n == Len(s)
<1>1. /\ n \in Nat /\ Len(t) = n + 1 /\ t[n + 1] = i /\ \A j \in 1 .. n : t[j] = s[j]
  BY AppendProperties, LenProperties
<1> SUFFICES /\ i.type # "function_call" => (IsCall(t, k, id) <=> IsCall(s, k, id))
             /\ IsResult(t, k, id) <=> \/ IsResult(s, k, id)
                                       \/ (k = n + 1 /\ i = Item("function_call_output", id))
  OBVIOUS
<1> HIDE DEF t
<1>2. CASE k = n + 1
  <2>1. ~IsCall(s, k, id) /\ ~IsResult(s, k, id)
    BY <1>1, <1>2 DEF IsCall, IsResult
  <2>2. k \in 1 .. Len(t) /\ t[k] = i
    BY <1>1, <1>2
  <2>3. IsCall(t, k, id) => i.type = "function_call"
    BY <2>2 DEF IsCall, Item
  <2>4. IsResult(t, k, id) <=> i = Item("function_call_output", id)
    BY <2>2 DEF IsResult
  <2> QED
    BY <1>2, <2>1, <2>3, <2>4
<1>3. CASE k # n + 1
  <2>1. k \in 1 .. Len(t) <=> k \in 1 .. n
    BY <1>1, <1>3
  <2>2. k \in 1 .. n => t[k] = s[k]
    BY <1>1
  <2> HIDE DEF n
  <2>3. IsCall(t, k, id) <=> IsCall(s, k, id)
    BY <2>1, <2>2 DEF IsCall, n
  <2>4. IsResult(t, k, id) <=> IsResult(s, k, id)
    BY <2>1, <2>2 DEF IsResult, n
  <2> QED
    BY <1>3, <2>3, <2>4
<1> QED
  BY <1>2, <1>3

(* A result keeps calls and results paired.                                *)
LEMMA ToolKeepsPairs ==
  ASSUME NEW acc \in Accs, NEW m \in Messages, Paired(acc)
  PROVE  Paired(ToolTurn(acc, m))
<1> DEFINE b == ToolTurn(acc, m)
           s == acc.items
           t == b.items
           i == Item("function_call_output", m.answers)
<1>1. CASE b = Rejected
  BY <1>1, RejectedType, NothingIsPaired
<1>2. CASE b # Rejected
  <2>1. /\ Pending(acc, m.answers) # {} /\ t = Append(s, i)
        /\ b.pending = acc.pending \ Pending(acc, m.answers) /\ b.seen = acc.seen
    BY <1>2, ToolTurnDoes
  <2>2. s \in Seq(Items) /\ m.answers \in Nat
    BY DEF Accs, Messages
  <2>3. i \in Items /\ i.type = "function_call_output"
    BY <2>2 DEF Item, Items, ItemTypes
  <2>4. \A id \in Nat : i = Item("function_call_output", id) => id = m.answers
    BY DEF Item
  <2> HIDE DEF i, b
  <2>5. ASSUME NEW k \in Nat, NEW id \in Nat
        PROVE  /\ IsCall(t, k, id) <=> IsCall(s, k, id)
               /\ IsResult(t, k, id) =>
                    IsResult(s, k, id) \/ (k = Len(s) + 1 /\ id = m.answers)
    <3>1. /\ i.type # "function_call" => (IsCall(t, k, id) <=> IsCall(s, k, id))
          /\ IsResult(t, k, id) <=> \/ IsResult(s, k, id)
                                    \/ (k = Len(s) + 1 /\ i = Item("function_call_output", id))
      <4> HIDE DEF t, s
      <4> QED
        BY <2>1, <2>2, <2>3, PlacesOfAppend
    <3> QED
      BY <2>3, <2>4, <3>1
  <2> HIDE DEF t, s
  <2>6. PICK p \in acc.pending : p.id = m.answers
    BY <2>1 DEF Pending
  <2>7. \A k \in Nat : ~IsResult(s, k, m.answers)
    BY <2>2, <2>6 DEF Paired, s
  <2>8. ASSUME NEW j \in Nat, NEW k \in Nat, NEW id \in Nat,
               IsResult(t, j, id), IsResult(t, k, id)
        PROVE  j = k
    <3>1. CASE id = m.answers
      <4>1. j = Len(s) + 1 /\ k = Len(s) + 1
        BY <2>5, <2>7, <2>8, <3>1
      <4> QED
        BY <4>1
    <3>2. CASE id # m.answers
      <4>1. IsResult(s, j, id) /\ IsResult(s, k, id)
        BY <2>5, <2>8, <3>2
      <4> QED
        BY <4>1 DEF Paired, s
    <3> QED
      BY <3>1, <3>2
  <2>9. ASSUME NEW k \in Nat, NEW id \in Nat, IsResult(t, k, id)
        PROVE  /\ \E j \in 1 .. k - 1 : IsCall(t, j, id)
               /\ \A q \in b.pending : q.id # id
    <3>1. CASE IsResult(s, k, id)
      <4>1. PICK j \in 1 .. k - 1 : IsCall(s, j, id)
        BY <3>1 DEF Paired, s
      <4>2. j \in Nat
        OBVIOUS
      <4>3. IsCall(t, j, id)
        BY <2>5, <4>1, <4>2
      <4>4. \A q \in acc.pending : q.id # id
        BY <3>1 DEF Paired, s
      <4> QED
        BY <2>1, <4>3, <4>4
    <3>2. CASE k = Len(s) + 1 /\ id = m.answers
      <4>1. PICK j \in Nat : IsCall(s, j, p.id)
        BY DEF Paired, s
      <4>2. j \in 1 .. Len(s) /\ Len(s) \in Nat
        BY <2>2, <4>1, LenProperties DEF IsCall
      <4>3. j \in 1 .. k - 1
        BY <3>2, <4>2
      <4>4. IsCall(t, j, id)
        BY <2>2, <2>5, <2>6, <3>2, <4>1
      <4>5. \A q \in b.pending : q.id # id
        BY <2>1, <3>2 DEF Pending
      <4> QED
        BY <4>3, <4>4, <4>5
    <3> QED
      BY <2>5, <2>9, <3>1, <3>2
  <2>10. ASSUME NEW q \in b.pending PROVE \E k \in Nat : IsCall(t, k, q.id)
    <3>1. q \in acc.pending
      BY <2>1
    <3>2. PICK k \in Nat : IsCall(s, k, q.id)
      BY <3>1 DEF Paired, s
    <3>3. q.id \in Nat
      BY <3>1 DEF Accs
    <3> QED
      BY <2>5, <3>2, <3>3
  <2>11. /\ \A k, id \in Nat : IsCall(t, k, id) => id \in b.seen
         /\ \A j, k, id \in Nat : IsCall(t, j, id) /\ IsCall(t, k, id) => j = k
    BY <2>1, <2>5 DEF Paired, s
  <2> QED
    BY <2>8, <2>9, <2>10, <2>11 DEF Paired, t, b
<1> QED
  BY <1>1, <1>2

(* A prompt keeps calls and results paired.                                *)
LEMMA OtherKeepsPairs ==
  ASSUME NEW acc \in Accs, NEW m \in Messages, Paired(acc)
  PROVE  Paired(OtherTurn(acc, m))
<1> DEFINE b == OtherTurn(acc, m)
           s == acc.items
           t == b.items
           i == Item("input_text", 0)
<1>1. CASE b = Rejected
  BY <1>1, RejectedType, NothingIsPaired
<1>2. CASE b = acc
  BY <1>2
<1>3. CASE b # Rejected /\ b # acc
  <2>1. t = Append(s, i) /\ b.pending = acc.pending /\ b.seen = acc.seen
    BY <1>3, OtherTurnDoes
  <2>2. s \in Seq(Items)
    BY DEF Accs
  <2>3. i \in Items /\ \A id : i.type # "function_call" /\ i # Item("function_call_output", id)
    BY DEF Item, Items, ItemTypes
  <2> HIDE DEF i, b
  <2>4. \A k, id \in Nat : /\ IsCall(t, k, id) <=> IsCall(s, k, id)
                           /\ IsResult(t, k, id) <=> IsResult(s, k, id)
    <3> SUFFICES ASSUME NEW k \in Nat, NEW id \in Nat
                 PROVE  /\ IsCall(t, k, id) <=> IsCall(s, k, id)
                        /\ IsResult(t, k, id) <=> IsResult(s, k, id)
      OBVIOUS
    <3>1. /\ i.type # "function_call" => (IsCall(t, k, id) <=> IsCall(s, k, id))
          /\ IsResult(t, k, id) <=> \/ IsResult(s, k, id)
                                    \/ (k = Len(s) + 1 /\ i = Item("function_call_output", id))
      <4> HIDE DEF t, s
      <4> QED
        BY <2>1, <2>2, <2>3, PlacesOfAppend
    <3> QED
      BY <2>3, <3>1
  <2>5. \A k \in Nat : \A j \in 1 .. k - 1 : j \in Nat
    OBVIOUS
  <2>6. \A p \in acc.pending : p.id \in Nat
    BY DEF Accs
  <2> HIDE DEF t
  <2>7. /\ \A k, id \in Nat : IsCall(t, k, id) => id \in b.seen
        /\ \A j, k, id \in Nat : IsCall(t, j, id) /\ IsCall(t, k, id) => j = k
        /\ \A j, k, id \in Nat : IsResult(t, j, id) /\ IsResult(t, k, id) => j = k
    BY <2>1, <2>4 DEF Paired
  <2>8. ASSUME NEW k \in Nat, NEW id \in Nat, IsResult(t, k, id)
        PROVE  /\ \E j \in 1 .. k - 1 : IsCall(t, j, id)
               /\ \A p \in b.pending : p.id # id
    <3>1. IsResult(s, k, id)
      BY <2>4, <2>8
    <3> QED
      BY <2>1, <2>4, <2>5, <3>1 DEF Paired
  <2>9. \A p \in b.pending : \E k \in Nat : IsCall(t, k, p.id)
    BY <2>1, <2>4, <2>6 DEF Paired
  <2> QED
    BY <2>7, <2>8, <2>9 DEF Paired, t, b
<1> QED
  BY <1>1, <1>2, <1>3

(* Every message keeps calls and results paired.                           *)
LEMMA MessageKeepsPairs ==
  ASSUME NEW acc \in Accs, NEW m \in Messages, Paired(acc)
  PROVE  Paired(WithMessage(acc, m))
<1>1. Paired(Rejected)
  BY RejectedType, NothingIsPaired
<1> QED
  BY <1>1, AssistantKeepsPairs, ToolKeepsPairs, OtherKeepsPairs DEF WithMessage

(* Whatever a history is, its input is paired.                             *)
LEMMA InputIsPaired ==
  ASSUME NEW messages \in Seq(Messages)
  PROVE  Input(messages) \in Accs /\ Paired(Input(messages))
<1> DEFINE n == Len(messages)
<1>1. n \in Nat
  BY LenProperties
<1>2. PICK f : Folded(f, messages) /\ Input(messages) = f[n]
  BY InputExists
<1>3. /\ f \in [0 .. n -> Accs] /\ f[0] = Nothing
      /\ \A k \in 1 .. n : f[k] = WithMessage(f[k - 1], messages[k])
  BY <1>2 DEF Folded
<1> DEFINE S == {k \in Nat : k <= n => Paired(f[k])}
<1>4. 0 \in S
  BY <1>3, NothingType, NothingIsPaired
<1>5. ASSUME NEW k \in S PROVE k + 1 \in S
  <2> SUFFICES ASSUME k + 1 <= n PROVE Paired(f[k + 1])
    OBVIOUS
  <2>1. k + 1 \in 1 .. n /\ (k + 1) - 1 = k /\ k \in 0 .. n /\ Paired(f[k])
    BY <1>1
  <2>2. f[k] \in Accs /\ messages[k + 1] \in Messages
    BY <1>3, <2>1
  <2>3. f[k + 1] = WithMessage(f[k], messages[k + 1])
    BY <1>3, <2>1
  <2> QED
    BY <2>1, <2>2, <2>3, MessageKeepsPairs
<1>6. n \in S
  <2> HIDE DEF S
  <2> QED
    BY <1>1, <1>4, <1>5, SetInduction
<1>7. n \in 0 .. n
  BY <1>1
<1> QED
  BY <1>1, <1>2, <1>3, <1>6, <1>7

-----------------------------------------------------------------------------
(* The history of a caller who changes nothing                             *)

(* The ids of the calls or reasoning items of an answer.                   *)
IdsGiven(output, type) == ToSet(Numbers(output, type))

(* The identities of the server's calls and reasoning items: numbers from  *)
(* 1 to what it has given, no answer's those of another, and no call of an *)
(* answer twice.                                                           *)
IdsAreFresh ==
  \A a \in 1 .. Len(answers) :
    /\ Len(answers[a]) <= MaxItems /\ IsInjective(Numbers(answers[a], "call"))
    /\ \A type \in {"call", "reasoning"} :
         \A id \in IdsGiven(answers[a], type) :
           /\ 0 < id /\ id <= GivenOf(type)
           /\ \A b \in 1 .. Len(answers) : id \in IdsGiven(answers[b], type) => a = b

IsPrompt(m) ==
  m.role \in {"system", "user"} /\ m.calls = <<>> /\ m.answers = Blank /\ ~m.thought

IsAnswer(m, output) ==
  /\ m.role = "assistant" /\ m.answers = Blank
  /\ m.extra.encoding \in {"none", "raw", "any"}
  /\ m.extra.items = Numbers(output, "reasoning")
  /\ m.calls = LET calls == Numbers(output, "call")
               IN  [k \in DOMAIN calls |-> Call(calls[k], "lookup", TRUE)]

(* The k-th message is a result of a call of one of the answers up to a,   *)
(* and the first of that call.                                             *)
IsFirstResult(h, k, ans, a) ==
  /\ h[k].role = "tool" /\ h[k].calls = <<>> /\ h[k].name # "other" /\ ~h[k].thought
  /\ \E b \in 1 .. a : h[k].answers \in IdsGiven(ans[b], "call")
  /\ \A j \in 1 .. k - 1 : h[j].answers # h[k].answers

(* upto[k] is how many of the answers are among the first k messages.      *)
IsHonest(h, ans, upto) ==
  /\ upto \in [0 .. Len(h) -> 0 .. Len(ans)] /\ upto[0] = 0 /\ upto[Len(h)] = Len(ans)
  /\ \A k \in 1 .. Len(h) :
       \/ IsPrompt(h[k]) /\ upto[k] = upto[k - 1]
       \/ IsFirstResult(h, k, ans, upto[k - 1]) /\ upto[k] = upto[k - 1]
       \/ upto[k] = upto[k - 1] + 1 /\ IsAnswer(h[k], ans[upto[k]])

HistoryIsHonest == changes = 0 => \E upto : IsHonest(history, answers, upto)

Inv == Typed /\ RequestIsCurrent /\ IdsAreFresh /\ HistoryIsHonest

-----------------------------------------------------------------------------
(* The messages of the caller and of the server *)

(* The bounds are numbers.                                                 *)
LEMMA ParametersAreNumbers ==
  /\ MaxCalls \in Nat /\ MaxMessages \in Nat /\ MaxPrompts \in Nat
  /\ MaxItems \in Nat /\ MaxAnswers \in Nat /\ MaxChanges \in Nat
BY ConversationAssumption

(* The ids of calls are numbers, an absent id too.                         *)
LEMMA CallIdsType ==
  CallIds \cup {Blank} \subseteq Nat
BY ParametersAreNumbers DEF CallIds, Blank

(* A message of any role is a message.                                     *)
LEMMA MsgType ==
  ASSUME NEW role \in {"system", "user", "assistant", "tool"}
  PROVE  /\ Msg(role) \in Messages /\ Msg(role).role = role /\ ~Msg(role).thought
         /\ Msg(role).extra = NoExtra /\ Msg(role).calls = <<>>
         /\ Msg(role).answers = Blank /\ Msg(role).name = ""
<1>1. NoExtra \in Extras
  BY DEF NoExtra, Extras, Encodings
<1>2. <<>> \in Seq(Calls) /\ Blank \in Nat /\ "" \in Names
  BY DEF Blank, Names
<1> QED
  BY <1>1, <1>2 DEF Msg, Messages

(* What the caller adds as a prompt is one.                                *)
LEMMA PromptMessagesType ==
  ASSUME NEW m \in PromptMessages
  PROVE  m \in Messages /\ IsPrompt(m)
BY MsgType DEF PromptMessages, IsPrompt

(* What the caller adds as a result is a message of that role.             *)
LEMMA ResultMessagesType ==
  ASSUME NEW m \in ResultMessages
  PROVE  m \in Messages /\ m.role = "tool" /\ m.calls = <<>> /\ ~m.thought
<1> DEFINE I == CallIds \cup {Blank}
           N == {"", "lookup", "other"}
<1>1. PICK id \in I, name \in N : m = Result(id, name)
  BY DEF ResultMessages
<1>2. id \in Nat /\ name \in Names
  BY CallIdsType DEF Names, I, N
<1> QED
  BY <1>1, <1>2, MsgType DEF Messages, Result

(* What the caller makes up as an answer is a message.                     *)
LEMMA ForeignMessagesType ==
  ASSUME NEW m \in ForeignMessages
  PROVE  m \in Messages
<1> DEFINE c == Msg("assistant")
<1>1. c \in Messages /\ c.extra = NoExtra
  BY MsgType
<1>2. ASSUME NEW id \in Nat, NEW name \in Names, NEW valid \in BOOLEAN
      PROVE  Call(id, name, valid) \in Calls
  BY DEF Call, Calls
<1>3. CASE m = [c EXCEPT !.extra.encoding = "other"]
  <2> DEFINE e == [NoExtra EXCEPT !.encoding = "other"]
  <2>1. e \in Extras
    <3>1. NoExtra \in Extras
      BY DEF NoExtra, Extras, Encodings
    <3> QED
      BY <3>1 DEF Extras, Encodings
  <2>2. m = [c EXCEPT !.extra = e]
    BY <1>1, <1>3
  <2> HIDE DEF e, c
  <2> QED
    BY <1>1, <2>1, <2>2 DEF Messages
<1>4. ASSUME NEW calls \in Seq(Calls), m = [c EXCEPT !.calls = calls]
      PROVE  m \in Messages
  <2> HIDE DEF c
  <2> QED
    BY <1>1, <1>4 DEF Messages
<1>5. ASSUME NEW d \in Calls, NEW e \in Calls
      PROVE  <<d>> \in Seq(Calls) /\ <<d, e>> \in Seq(Calls)
  OBVIOUS
<1>6. ASSUME NEW i \in CallIds \cup {Blank}
      PROVE  <<Call(i, "lookup", TRUE)>> \in Seq(Calls)
  <2>1. i \in Nat
    BY CallIdsType
  <2>2. Call(i, "lookup", TRUE) \in Calls
    BY <1>2, <2>1 DEF Names
  <2> QED
    BY <1>5, <2>2
<1>7. /\ <<Call(1, "", TRUE)>> \in Seq(Calls) /\ <<Call(1, "lookup", FALSE)>> \in Seq(Calls)
      /\ <<Call(1, "lookup", TRUE), Call(1, "other", TRUE)>> \in Seq(Calls)
  <2>1. /\ Call(1, "", TRUE) \in Calls /\ Call(1, "lookup", FALSE) \in Calls
        /\ Call(1, "lookup", TRUE) \in Calls /\ Call(1, "other", TRUE) \in Calls
    BY <1>2 DEF Names
  <2> QED
    BY <1>5, <2>1
<1> DEFINE S == {<<Call(i, "lookup", TRUE)>> : i \in CallIds \cup {Blank}}
                  \cup {<<Call(1, "", TRUE)>>, <<Call(1, "lookup", FALSE)>>,
                        <<Call(1, "lookup", TRUE), Call(1, "other", TRUE)>>}
<1>8. S \subseteq Seq(Calls)
  BY <1>6, <1>7
<1>9. \/ m = [c EXCEPT !.extra.encoding = "other"]
      \/ m \in {[c EXCEPT !.calls = calls] : calls \in S}
  BY DEF ForeignMessages
<1> HIDE DEF c, S
<1> QED
  BY <1>3, <1>4, <1>8, <1>9

(* How many ids of a type were given is a number.                          *)
LEMMA GivenOfType ==
  ASSUME NEW type, answers \in Seq(Seq(Items))
  PROVE  /\ IsFiniteSet({at \in (DOMAIN answers) \X (1 .. MaxItems) :
                         /\ at[2] \in DOMAIN answers[at[1]]
                         /\ answers[at[1]][at[2]].type = type})
         /\ GivenOf(type) \in Nat
<1> DEFINE P == {at \in (DOMAIN answers) \X (1 .. MaxItems) :
                   /\ at[2] \in DOMAIN answers[at[1]]
                   /\ answers[at[1]][at[2]].type = type}
<1>1. DOMAIN answers = 1 .. Len(answers) /\ Len(answers) \in Nat /\ MaxItems \in Nat
  BY LenProperties, ParametersAreNumbers
<1>2. IsFiniteSet(1 .. Len(answers)) /\ IsFiniteSet(1 .. MaxItems)
  BY <1>1, FS_Interval
<1>3. IsFiniteSet((DOMAIN answers) \X (1 .. MaxItems))
  BY <1>1, <1>2, FS_Product
<1>4. IsFiniteSet(P)
  <2>1. P \subseteq (DOMAIN answers) \X (1 .. MaxItems)
    OBVIOUS
  <2> HIDE DEF P
  <2> QED
    BY <1>3, <2>1, FS_Subset
<1>5. Cardinality(P) \in Nat
  <2> HIDE DEF P
  <2> QED
    BY <1>4, FS_CardinalityType
<1> QED
  BY <1>4, <1>5 DEF GivenOf

(* How many items of a type there are so far is a number.                  *)
LEMMA UpToType ==
  ASSUME NEW shape, NEW k \in Nat, NEW type
  PROVE  /\ IsFiniteSet({j \in 1 .. k : shape[j] = type}) /\ UpTo(shape, k, type) \in Nat
<1> DEFINE U == {j \in 1 .. k : shape[j] = type}
<1>1. IsFiniteSet(U)
  <2>1. IsFiniteSet(1 .. k)
    BY FS_Interval
  <2>2. U \subseteq 1 .. k
    OBVIOUS
  <2> HIDE DEF U
  <2> QED
    BY <2>1, <2>2, FS_Subset
<1>2. Cardinality(U) \in Nat
  <2> HIDE DEF U
  <2> QED
    BY <1>1, FS_CardinalityType
<1> QED
  BY <1>1, <1>2 DEF UpTo

TypeOf(kind) == IF kind = "repeat" THEN "call" ELSE kind
IdOf(shape, k) ==
  IF shape[k] = "message" THEN 0
  ELSE GivenOf(TypeOf(shape[k])) + UpTo(shape, k, TypeOf(shape[k]))

(* The items of an answer, one by one.                                     *)
LEMMA OutputType ==
  ASSUME NEW shape \in Shapes, answers \in Seq(Seq(Items))
  PROVE  /\ shape \in Seq({"message", "call", "repeat", "reasoning", "bad"})
         /\ Len(shape) \in Nat /\ DOMAIN shape = 1 .. Len(shape)
         /\ OutputOf(shape) \in Seq(Items) /\ Len(OutputOf(shape)) = Len(shape)
         /\ \A k \in 1 .. Len(shape) :
              OutputOf(shape)[k] = Item(TypeOf(shape[k]), IdOf(shape, k))
<1> DEFINE n == Len(shape)
           Kinds == {"message", "call", "repeat", "reasoning", "bad"}
<1>1. shape \in Seq(Kinds)
  <2>1. CASE shape = <<"bad">>
    BY <2>1
  <2>2. CASE shape \in SeqOf({"message", "call", "repeat", "reasoning"}, MaxItems)
    <3>1. PICK l \in 0 .. MaxItems : shape \in [1 .. l -> {"message", "call", "repeat", "reasoning"}]
      BY <2>2 DEF SeqOf
    <3>2. l \in Nat /\ shape \in [1 .. l -> Kinds]
      BY <3>1, ParametersAreNumbers
    <3> HIDE DEF Kinds
    <3> QED
      BY <3>2
  <2> QED
    BY <2>1, <2>2 DEF Shapes
<1>2. n \in Nat /\ DOMAIN shape = 1 .. n
  BY <1>1, LenProperties
<1> DEFINE o == [k \in 1 .. n |-> Item(TypeOf(shape[k]), IdOf(shape, k))]
<1>3. OutputOf(shape) = o
  BY <1>2 DEF OutputOf, Item, TypeOf, IdOf
<1>4. ASSUME NEW k \in 1 .. n PROVE Item(TypeOf(shape[k]), IdOf(shape, k)) \in Items
  <2>1. shape[k] \in Kinds
    BY <1>1
  <2>2. TypeOf(shape[k]) \in ItemTypes
    BY <2>1 DEF TypeOf, ItemTypes
  <2>3. IdOf(shape, k) \in Nat
    <3>1. GivenOf(TypeOf(shape[k])) \in Nat
      BY GivenOfType
    <3>2. UpTo(shape, k, TypeOf(shape[k])) \in Nat
      <4>1. k \in Nat
        BY <1>2
      <4> QED
        BY <4>1, UpToType
    <3> QED
      BY <3>1, <3>2 DEF IdOf
  <2> QED
    BY <2>2, <2>3 DEF Item, Items
<1>5. o \in Seq(Items) /\ Len(o) = n
  <2>1. o \in [1 .. n -> Items]
    BY <1>4
  <2> QED
    BY <1>2, <2>1
<1> HIDE DEF n
<1>6. \A k \in 1 .. n : o[k] = Item(TypeOf(shape[k]), IdOf(shape, k))
  OBVIOUS
<1> HIDE DEF o
<1> QED
  BY <1>1, <1>2, <1>3, <1>5, <1>6 DEF n

(* An answer that is decoded is a message that is that answer.             *)
LEMMA AssembledType ==
  ASSUME NEW output \in Seq(Items), NEW thought \in BOOLEAN
  PROVE  Assembled(output, thought) \in Messages /\ IsAnswer(Assembled(output, thought), output)
<1> DEFINE raws == Numbers(output, "reasoning")
           calls == Numbers(output, "call")
           x == IF raws = <<>> THEN NoExtra ELSE [encoding |-> "raw", items |-> raws]
           c == [k \in DOMAIN calls |-> Call(calls[k], "lookup", TRUE)]
           t == Numbers(output, "message") # <<>>
           m == [Msg("assistant") EXCEPT !.text = t, !.extra = x, !.calls = c]
           a == [m EXCEPT !.thought = thought]
<1>1. Assembled(output, thought) = a
  BY DEF Assembled, Decoded
<1>2. raws \in Seq(Nat) /\ calls \in Seq(Nat)
  BY NumbersProperties
<1> HIDE DEF raws, calls
<1>3. x \in Extras /\ x.items = raws /\ x.encoding \in {"none", "raw", "any"}
  BY <1>2 DEF NoExtra, Extras, Encodings
<1>4. c \in Seq(Calls)
  <2>1. DOMAIN calls = 1 .. Len(calls) /\ Len(calls) \in Nat
    BY <1>2, LenProperties
  <2>2. \A k \in 1 .. Len(calls) : Call(calls[k], "lookup", TRUE) \in Calls
    BY <1>2 DEF Call, Calls, Names
  <2>3. c \in [1 .. Len(calls) -> Calls]
    BY <2>1, <2>2
  <2> HIDE DEF c
  <2> QED
    BY <2>1, <2>3
<1>5. t \in BOOLEAN
  OBVIOUS
<1> HIDE DEF x, c, t
<1>6. /\ m \in Messages /\ m.role = "assistant" /\ m.answers = Blank
      /\ m.extra = x /\ m.calls = c
  BY <1>3, <1>4, <1>5, MsgType DEF Messages
<1> HIDE DEF m
<1>7. /\ a \in Messages /\ a.role = "assistant" /\ a.answers = Blank
      /\ a.extra = x /\ a.calls = c
  BY <1>6 DEF Messages
<1> HIDE DEF a
<1>8. IsAnswer(a, output)
  BY <1>3, <1>7 DEF IsAnswer, raws, calls, c
<1> QED
  BY <1>1, <1>7, <1>8

-----------------------------------------------------------------------------
(* What keeps a history honest *)

(* A message more, with the answer it is, if it is one.                    *)
LEMMA HonestGrows ==
  ASSUME NEW h \in Seq(Messages), NEW ans \in Seq(Seq(Items)), NEW upto,
         NEW m \in Messages, NEW more \in Seq(Seq(Items)), NEW last \in Nat,
         IsHonest(h, ans, upto),
         Len(more) = last, Len(ans) <= last, \A a \in 1 .. Len(ans) : more[a] = ans[a],
         \/ IsPrompt(m) /\ last = Len(ans)
         \/ /\ m.role = "tool" /\ m.calls = <<>> /\ m.name # "other" /\ ~m.thought
            /\ \E b \in 1 .. Len(ans) : m.answers \in IdsGiven(ans[b], "call")
            /\ \A j \in 1 .. Len(h) : h[j].answers # m.answers
            /\ last = Len(ans)
         \/ last = Len(ans) + 1 /\ IsAnswer(m, more[last])
  PROVE  \E u : IsHonest(Append(h, m), more, u)
<1> DEFINE n == Len(h)
           g == Append(h, m)
           u == [k \in 0 .. n + 1 |-> IF k = n + 1 THEN last ELSE upto[k]]
<1>1. /\ n \in Nat /\ Len(g) = n + 1 /\ g[n + 1] = m /\ \A k \in 1 .. n : g[k] = h[k]
  BY AppendProperties, LenProperties
<1>2. Len(ans) \in Nat
  BY LenProperties
<1>3. /\ upto \in [0 .. n -> 0 .. Len(ans)] /\ upto[0] = 0 /\ upto[n] = Len(ans)
      /\ \A k \in 1 .. n :
           \/ IsPrompt(h[k]) /\ upto[k] = upto[k - 1]
           \/ IsFirstResult(h, k, ans, upto[k - 1]) /\ upto[k] = upto[k - 1]
           \/ upto[k] = upto[k - 1] + 1 /\ IsAnswer(h[k], ans[upto[k]])
  BY DEF IsHonest
<1> HIDE DEF g, n
<1>4. u[n + 1] = last /\ \A k \in 0 .. n : u[k] = upto[k]
  BY <1>1
<1>5. u \in [0 .. n + 1 -> 0 .. last]
  <2>1. ASSUME NEW k \in 0 .. n + 1 PROVE u[k] \in 0 .. last
    <3>1. CASE k = n + 1
      BY <1>4, <3>1
    <3>2. CASE k # n + 1
      <4>1. k \in 0 .. n
        BY <1>1, <3>2
      <4>2. upto[k] \in 0 .. Len(ans)
        BY <1>3, <4>1
      <4> QED
        BY <1>2, <1>4, <4>1, <4>2
    <3> QED
      BY <3>1, <3>2
  <2> QED
    BY <2>1
<1> HIDE DEF u
<1>6. ASSUME NEW k \in 1 .. n
      PROVE  \/ IsPrompt(g[k]) /\ u[k] = u[k - 1]
             \/ IsFirstResult(g, k, more, u[k - 1]) /\ u[k] = u[k - 1]
             \/ u[k] = u[k - 1] + 1 /\ IsAnswer(g[k], more[u[k]])
  <2>1. /\ k \in 0 .. n /\ k - 1 \in 0 .. n /\ g[k] = h[k]
        /\ u[k] = upto[k] /\ u[k - 1] = upto[k - 1]
    BY <1>1, <1>4
  <2>2. upto[k] \in 0 .. Len(ans) /\ upto[k - 1] \in 0 .. Len(ans)
    BY <1>3, <2>1
  <2>3. CASE IsFirstResult(h, k, ans, upto[k - 1])
    <3>1. \A j \in 1 .. k - 1 : g[j] = h[j]
      BY <1>1
    <3>2. \A b \in 1 .. upto[k - 1] : more[b] = ans[b]
      BY <1>2, <2>2
    <3>3. IsFirstResult(g, k, more, upto[k - 1])
      BY <2>1, <2>3, <3>1, <3>2 DEF IsFirstResult
    <3>4. upto[k] = upto[k - 1] \/ IsPrompt(h[k]) \/ IsAnswer(h[k], ans[upto[k]])
      BY <1>3
    <3>5. upto[k] = upto[k - 1]
      BY <1>3, <2>3 DEF IsFirstResult, IsPrompt, IsAnswer
    <3> QED
      BY <2>1, <3>3, <3>5
  <2>4. CASE upto[k] = upto[k - 1] + 1 /\ IsAnswer(h[k], ans[upto[k]])
    <3>1. upto[k] \in 1 .. Len(ans)
      BY <2>2, <2>4
    <3> QED
      BY <2>1, <2>4, <3>1
  <2> QED
    BY <1>3, <2>1, <2>3, <2>4
<1>7. \/ IsPrompt(g[n + 1]) /\ u[n + 1] = u[n]
      \/ IsFirstResult(g, n + 1, more, u[n]) /\ u[n + 1] = u[n]
      \/ u[n + 1] = u[n] + 1 /\ IsAnswer(g[n + 1], more[u[n + 1]])
  <2>1. n \in 0 .. n /\ u[n] = Len(ans) /\ u[n + 1] = last /\ g[n + 1] = m
    BY <1>1, <1>3, <1>4
  <2>2. ASSUME m.role = "tool", m.calls = <<>>, m.name # "other", ~m.thought,
               \E b \in 1 .. Len(ans) : m.answers \in IdsGiven(ans[b], "call"),
               \A j \in 1 .. Len(h) : h[j].answers # m.answers
        PROVE  IsFirstResult(g, n + 1, more, Len(ans))
    <3>1. \A j \in 1 .. (n + 1) - 1 : j \in 1 .. n /\ g[j] = h[j]
      BY <1>1
    <3>2. \A b \in 1 .. Len(ans) : more[b] = ans[b]
      OBVIOUS
    <3> QED
      BY <2>1, <2>2, <3>1, <3>2 DEF IsFirstResult, n
  <2> QED
    BY <2>1, <2>2
<1>8. \A k \in 1 .. n + 1 :
        \/ IsPrompt(g[k]) /\ u[k] = u[k - 1]
        \/ IsFirstResult(g, k, more, u[k - 1]) /\ u[k] = u[k - 1]
        \/ u[k] = u[k - 1] + 1 /\ IsAnswer(g[k], more[u[k]])
  <2> SUFFICES ASSUME NEW k \in 1 .. n + 1
               PROVE  \/ IsPrompt(g[k]) /\ u[k] = u[k - 1]
                      \/ IsFirstResult(g, k, more, u[k - 1]) /\ u[k] = u[k - 1]
                      \/ u[k] = u[k - 1] + 1 /\ IsAnswer(g[k], more[u[k]])
    OBVIOUS
  <2>1. CASE k = n + 1
    <3>1. k - 1 = n
      BY <1>1, <2>1
    <3> QED
      BY <1>7, <2>1, <3>1
  <2>2. CASE k # n + 1
    <3>1. k \in 1 .. n
      BY <1>1, <2>2
    <3> QED
      BY <1>6, <3>1
  <2> QED
    BY <2>1, <2>2
<1>9. u[0] = 0
  <2>1. 0 \in 0 .. n
    BY <1>1
  <2> QED
    BY <1>3, <1>4, <2>1
<1>10. IsHonest(g, more, u)
  BY <1>1, <1>4, <1>5, <1>8, <1>9 DEF IsHonest
<1> QED
  BY <1>10 DEF g

(* Storing a history changes nothing but the encoding of reasoning items.  *)
LEMMA HonestIsStored ==
  ASSUME NEW h \in Seq(Messages), NEW ans \in Seq(Seq(Items))
  PROVE  LET stored == [k \in DOMAIN h |->
                          [h[k] EXCEPT !.extra.encoding = IF @ = "raw" THEN "any" ELSE @]]
         IN  /\ stored \in Seq(Messages)
             /\ \A upto : IsHonest(h, ans, upto) => IsHonest(stored, ans, upto)
<1> DEFINE n == Len(h)
           Stored(m) == [m EXCEPT !.extra.encoding = IF @ = "raw" THEN "any" ELSE @]
           g == [k \in 1 .. n |-> Stored(h[k])]
<1>1. n \in Nat /\ DOMAIN h = 1 .. n
  BY LenProperties
<1>2. ASSUME NEW m \in Messages
      PROVE  /\ Stored(m) \in Messages /\ Stored(m).role = m.role
             /\ Stored(m).answers = m.answers /\ Stored(m).calls = m.calls
             /\ Stored(m).thought = m.thought /\ Stored(m).name = m.name
             /\ Stored(m).extra.items = m.extra.items
             /\ m.extra.encoding \in {"none", "raw", "any"} =>
                  Stored(m).extra.encoding \in {"none", "raw", "any"}
  <2> DEFINE c == IF m.extra.encoding = "raw" THEN "any" ELSE m.extra.encoding
             e == [m.extra EXCEPT !.encoding = c]
  <2>1. Stored(m) = [m EXCEPT !.extra = e]
    OBVIOUS
  <2>2. m.extra \in Extras
    BY DEF Messages
  <2>3. c \in Encodings
    BY <2>2 DEF Encodings, Extras
  <2> HIDE DEF c
  <2>4. e \in Extras /\ e.items = m.extra.items /\ e.encoding = c
    BY <2>2, <2>3 DEF Extras
  <2> HIDE DEF e, Stored
  <2> QED
    BY <2>1, <2>4 DEF Messages, c
<1> HIDE DEF Stored
<1>3. \A k \in 1 .. n : h[k] \in Messages /\ g[k] = Stored(h[k])
  OBVIOUS
<1>4. g \in Seq(Messages) /\ Len(g) = n
  <2>1. g \in [1 .. n -> Messages]
    BY <1>2
  <2> HIDE DEF g, n
  <2> QED
    BY <1>1, <2>1
<1> HIDE DEF g, n
<1>5. ASSUME NEW upto, IsHonest(h, ans, upto) PROVE IsHonest(g, ans, upto)
  <2>1. /\ upto \in [0 .. n -> 0 .. Len(ans)] /\ upto[0] = 0 /\ upto[n] = Len(ans)
        /\ \A k \in 1 .. n :
             \/ IsPrompt(h[k]) /\ upto[k] = upto[k - 1]
             \/ IsFirstResult(h, k, ans, upto[k - 1]) /\ upto[k] = upto[k - 1]
             \/ upto[k] = upto[k - 1] + 1 /\ IsAnswer(h[k], ans[upto[k]])
    BY <1>5 DEF IsHonest, n
  <2>2. ASSUME NEW k \in 1 .. n
        PROVE  /\ IsPrompt(h[k]) => IsPrompt(g[k])
               /\ IsFirstResult(h, k, ans, upto[k - 1]) => IsFirstResult(g, k, ans, upto[k - 1])
               /\ IsAnswer(h[k], ans[upto[k]]) => IsAnswer(g[k], ans[upto[k]])
    <3>1. /\ g[k].role = h[k].role /\ g[k].answers = h[k].answers /\ g[k].calls = h[k].calls
          /\ g[k].thought = h[k].thought /\ g[k].name = h[k].name
          /\ g[k].extra.items = h[k].extra.items
          /\ h[k].extra.encoding \in {"none", "raw", "any"} =>
               g[k].extra.encoding \in {"none", "raw", "any"}
      BY <1>2, <1>3
    <3>2. ASSUME NEW j \in 1 .. k - 1 PROVE g[j].answers = h[j].answers
      <4>1. j \in 1 .. n
        BY <1>1
      <4> QED
        BY <1>2, <1>3, <4>1
    <3> QED
      BY <3>1, <3>2 DEF IsPrompt, IsFirstResult, IsAnswer
  <2>3. IsHonest(g, ans, upto)
    BY <1>4, <2>1, <2>2 DEF IsHonest
  <2> QED
    BY <2>3
<1> QED
  BY <1>1, <1>4, <1>5 DEF g, Stored, n

-----------------------------------------------------------------------------
(* The ids of a new answer are new *)

PlacesOf(type) == {at \in (DOMAIN answers) \X (1 .. MaxItems) :
                     /\ at[2] \in DOMAIN answers[at[1]]
                     /\ answers[at[1]][at[2]].type = type}

(* An answer more never makes fewer ids of those given.                    *)
LEMMA GivenGrows ==
  ASSUME answers \in Seq(Seq(Items)), answers' \in Seq(Seq(Items)),
         NEW o \in Seq(Items), answers' = Append(answers, o), NEW type
  PROVE  /\ IsFiniteSet(PlacesOf(type)) /\ IsFiniteSet(PlacesOf(type)')
         /\ GivenOf(type) \in Nat /\ GivenOf(type) = Cardinality(PlacesOf(type))
         /\ GivenOf(type)' \in Nat /\ GivenOf(type)' = Cardinality(PlacesOf(type)')
         /\ PlacesOf(type) \subseteq PlacesOf(type)' /\ GivenOf(type) <= GivenOf(type)'
<1> DEFINE n == Len(answers)
           P == PlacesOf(type)
           Q == PlacesOf(type)'
<1>1. /\ n \in Nat /\ DOMAIN answers = 1 .. n /\ DOMAIN answers' = 1 .. n + 1
      /\ answers'[n + 1] = o /\ \A a \in 1 .. n : answers'[a] = answers[a]
  BY AppendProperties, LenProperties
<1>2. IsFiniteSet(P) /\ GivenOf(type) \in Nat /\ GivenOf(type) = Cardinality(P)
  BY GivenOfType DEF GivenOf, PlacesOf
<1>3. IsFiniteSet(Q) /\ GivenOf(type)' \in Nat /\ GivenOf(type)' = Cardinality(Q)
  <2>1. (answers \in Seq(Seq(Items)))' =>
          (IsFiniteSet(PlacesOf(type)) /\ GivenOf(type) \in Nat)'
    BY GivenOfType, PTL DEF PlacesOf
  <2> QED
    BY <2>1 DEF GivenOf, PlacesOf
<1>4. P \subseteq Q
  <2> SUFFICES ASSUME NEW x \in P PROVE x \in Q
    OBVIOUS
  <2>1. /\ x \in (1 .. n) \X (1 .. MaxItems) /\ x[2] \in DOMAIN answers[x[1]]
        /\ answers[x[1]][x[2]].type = type
    BY <1>1 DEF PlacesOf
  <2>2. x \in (1 .. n + 1) \X (1 .. MaxItems) /\ x[1] \in 1 .. n
    BY <1>1, <2>1
  <2>3. answers'[x[1]] = answers[x[1]]
    BY <1>1, <2>2
  <2> QED
    BY <1>1, <2>1, <2>2, <2>3 DEF PlacesOf
<1> HIDE DEF P, Q
<1>5. Cardinality(P) <= Cardinality(Q)
  <2>1. IsFiniteSet(Q)
    BY <1>3
  <2> QED
    BY <1>4, <2>1, FS_Subset
<1> QED
  BY <1>2, <1>3, <1>4, <1>5 DEF P, Q

(* With an answer more, the id of an item of it is above all ids given     *)
(* before and not above those given now.                                   *)
LEMMA IdsGrow ==
  ASSUME answers \in Seq(Seq(Items)), answers' \in Seq(Seq(Items)),
         NEW shape \in Shapes, Len(shape) <= MaxItems,
         answers' = Append(answers, OutputOf(shape)),
         NEW type \in {"call", "reasoning"},
         NEW k \in 1 .. Len(shape), TypeOf(shape[k]) = type
  PROVE  /\ IdOf(shape, k) \in Nat
         /\ GivenOf(type) < IdOf(shape, k) /\ IdOf(shape, k) <= GivenOf(type)'
<1> DEFINE n == Len(answers)
           o == OutputOf(shape)
           U == {j \in 1 .. k : shape[j] = type}
           at == [j \in U |-> <<n + 1, j>>]
           P == PlacesOf(type)
           Q == PlacesOf(type)'
<1>1. /\ n \in Nat /\ DOMAIN answers = 1 .. n /\ DOMAIN answers' = 1 .. n + 1
      /\ answers'[n + 1] = o /\ \A a \in 1 .. n : answers'[a] = answers[a]
  BY AppendProperties, LenProperties, OutputType
<1>2. /\ o \in Seq(Items) /\ DOMAIN o = 1 .. Len(shape) /\ Len(shape) \in Nat
      /\ DOMAIN shape = 1 .. Len(shape)
      /\ \A j \in 1 .. Len(shape) : o[j] = Item(TypeOf(shape[j]), IdOf(shape, j))
  BY OutputType, LenProperties
<1>3. /\ IsFiniteSet(P) /\ GivenOf(type) \in Nat /\ GivenOf(type) = Cardinality(P)
      /\ IsFiniteSet(Q) /\ GivenOf(type)' \in Nat /\ GivenOf(type)' = Cardinality(Q)
      /\ P \subseteq Q
  BY <1>2, GivenGrows
<1> HIDE DEF o
<1>4. k \in Nat /\ k <= MaxItems /\ MaxItems \in Nat
  BY <1>2, ParametersAreNumbers
<1>5. IsFiniteSet(U) /\ UpTo(shape, k, type) = Cardinality(U) /\ Cardinality(U) \in Nat
  <2>1. /\ IsFiniteSet({j \in 1 .. k : shape[j] = type})
        /\ UpTo(shape, k, type) \in Nat
    <3>1. k \in Nat
      BY <1>4
    <3> HIDE DEF U
    <3> QED
      BY ONLY <3>1, UpToType
  <2>2. UpTo(shape, k, type) = Cardinality(U)
    BY DEF UpTo
  <2> QED
    BY <2>1, <2>2
<1>6. Cardinality(U) > 0
  <2>1. PICK j \in 1 .. k : shape[j] = type
    <3>1. CASE shape[k] = type
      BY <1>4, <3>1
    <3>2. CASE shape[k] # type
      <4>1. shape[k] = "repeat" /\ type = "call"
        BY <3>2 DEF TypeOf
      <4>2. shape # <<"bad">>
        <5> SUFFICES ASSUME shape = <<"bad">> PROVE FALSE
          OBVIOUS
        <5>1. Len(shape) = 1 /\ shape[1] = "bad"
          OBVIOUS
        <5>2. k = 1
          BY <5>1
        <5> QED
          BY <4>1, <5>1, <5>2
      <4>3. \E j \in 1 .. k - 1 : shape[j] = "call"
        BY <1>2, <4>1, <4>2 DEF Shapes
      <4> QED
        BY <1>4, <4>1, <4>3
    <3> QED
      BY <3>1, <3>2
  <2>2. U # {}
    BY <2>1
  <2> HIDE DEF U
  <2> QED
    BY <1>5, <2>2, FS_EmptySet
<1>7. ASSUME NEW j \in U
      PROVE  at[j] = <<n + 1, j>> /\ at[j] \in Q \ P
  <2>1. at[j] = <<n + 1, j>>
    OBVIOUS
  <2>2. j \in 1 .. Len(shape) /\ j \in 1 .. MaxItems /\ shape[j] = type
    BY <1>2, <1>4
  <2>3. o[j].type = type
    BY <1>2, <2>2 DEF Item, TypeOf
  <2>4. <<n + 1, j>> \in Q
    <3> DEFINE x == <<n + 1, j>>
    <3>1. x \in (1 .. n + 1) \X (1 .. MaxItems) /\ x[1] = n + 1 /\ x[2] = j
      BY <1>1, <2>2
    <3>2. x[2] \in DOMAIN answers'[x[1]] /\ answers'[x[1]][x[2]].type = type
      BY <1>1, <1>2, <2>2, <2>3, <3>1
    <3> HIDE DEF x
    <3>3. x \in Q
      BY <1>1, <3>1, <3>2 DEF PlacesOf
    <3> QED
      BY <3>3 DEF x
  <2>5. <<n + 1, j>> \notin P
    BY <1>1 DEF PlacesOf
  <2> QED
    BY <2>1, <2>4, <2>5
<1> HIDE DEF P, Q
<1>8. at \in Injection(U, Q \ P)
  <2>1. at \in [U -> Q \ P]
    <3>1. \A j \in U : at[j] \in Q \ P
      BY <1>7
    <3> QED
      BY <3>1
  <2>2. \A i, j \in U : at[i] = at[j] => i = j
    BY <1>7
  <2>3. DOMAIN at = U
    OBVIOUS
  <2> HIDE DEF at, U
  <2> QED
    BY <2>1, <2>2, <2>3 DEF Injection, IsInjective
<1>9. IsFiniteSet(Q \ P) /\ Cardinality(Q \ P) = Cardinality(Q) - Cardinality(P)
  <2>1. Q \cap P = P
    BY <1>3
  <2>2. /\ IsFiniteSet(Q \ P)
        /\ Cardinality(Q \ P) = Cardinality(Q) - Cardinality(Q \cap P)
    <3>1. IsFiniteSet(Q)
      BY <1>3
    <3> QED
      BY <3>1, FS_Difference
  <2> QED
    BY <2>1, <2>2
<1>10. Cardinality(U) <= Cardinality(Q \ P)
  <2> HIDE DEF at, U
  <2> QED
    BY <1>8, <1>9, FS_Injection
<1>11. IdOf(shape, k) = Cardinality(P) + Cardinality(U)
  <2>1. shape[k] # "message"
    BY DEF TypeOf
  <2> HIDE DEF U
  <2> QED
    BY <1>3, <1>5, <2>1 DEF IdOf
<1> HIDE DEF U
<1> QED
  BY <1>3, <1>5, <1>6, <1>9, <1>10, <1>11

(* An answer that is decoded is none of a bad item.                        *)
LEMMA DecodedShape ==
  ASSUME NEW shape \in Shapes, answers \in Seq(Seq(Items)), Decodes(OutputOf(shape))
  PROVE  Len(shape) <= MaxItems
<1> DEFINE o == OutputOf(shape)
<1>1. shape # <<"bad">>
  <2> SUFFICES ASSUME shape = <<"bad">> PROVE FALSE
    OBVIOUS
  <2>1. Len(shape) = 1 /\ shape[1] = "bad"
    OBVIOUS
  <2>2. o \in Seq(Items) /\ Len(o) = 1 /\ o[1].type = "bad"
    <3>1. /\ o \in Seq(Items) /\ Len(o) = Len(shape)
          /\ \A k \in 1 .. Len(shape) : o[k] = Item(TypeOf(shape[k]), IdOf(shape, k))
      BY OutputType
    <3> HIDE DEF o
    <3>2. o[1] = Item("bad", IdOf(shape, 1))
      BY <2>1, <3>1 DEF TypeOf
    <3>3. o[1].type = "bad"
      BY <3>2 DEF Item
    <3> QED
      BY <2>1, <3>1, <3>3
  <2> HIDE DEF o
  <2>3. ToSet(Numbers(o, "bad")) = {o[k].id : k \in {j \in 1 .. Len(o) : o[j].type = "bad"}}
    BY <2>2, NumbersProperties
  <2>4. o[1].id \in ToSet(Numbers(o, "bad"))
    BY <2>2, <2>3
  <2>5. Numbers(o, "bad") = <<>>
    BY DEF Decodes, o
  <2> QED
    BY <2>4, <2>5 DEF ToSet
<1>2. PICK l \in 0 .. MaxItems :
        shape \in [1 .. l -> {"message", "call", "repeat", "reasoning"}]
  BY <1>1 DEF Shapes, SeqOf
<1>3. Len(shape) = l
  BY <1>2, ParametersAreNumbers
<1> QED
  BY <1>2, <1>3, ParametersAreNumbers

(* The ids of an answer more are fresh too.                                *)
LEMMA AnswerIsFresh ==
  ASSUME answers \in Seq(Seq(Items)), IdsAreFresh, NEW shape \in Shapes,
         Decodes(OutputOf(shape)), answers' = Append(answers, OutputOf(shape))
  PROVE  answers' \in Seq(Seq(Items)) /\ IdsAreFresh'
<1> DEFINE n == Len(answers)
           o == OutputOf(shape)
           l == Len(shape)
<1>1. /\ o \in Seq(Items) /\ Len(o) = l /\ l \in Nat
      /\ \A k \in 1 .. l : o[k] = Item(TypeOf(shape[k]), IdOf(shape, k))
  BY OutputType
<1>2. l <= MaxItems
  BY DecodedShape
<1>3. /\ answers' \in Seq(Seq(Items)) /\ n \in Nat /\ Len(answers') = n + 1
      /\ answers'[n + 1] = o /\ \A a \in 1 .. n : answers'[a] = answers[a]
  BY <1>1, AppendProperties, LenProperties
<1>4. IsInjective(Numbers(o, "call"))
  BY DEF Decodes
<1> HIDE DEF n, l
<1>5. ASSUME NEW type \in {"call", "reasoning"}
      PROVE  /\ GivenOf(type) \in Nat /\ GivenOf(type)' \in Nat
             /\ GivenOf(type) <= GivenOf(type)'
             /\ \A id \in IdsGiven(o, type) :
                  id \in Nat /\ GivenOf(type) < id /\ id <= GivenOf(type)'
  <2>1. /\ GivenOf(type) \in Nat /\ GivenOf(type)' \in Nat
        /\ GivenOf(type) <= GivenOf(type)'
    BY <1>1, <1>3, GivenGrows
  <2>2. IdsGiven(o, type) = {o[k].id : k \in {j \in 1 .. Len(o) : o[j].type = type}}
    <3> HIDE DEF o
    <3> QED
      BY <1>1, NumbersProperties DEF IdsGiven
  <2>3. ASSUME NEW k \in 1 .. l, o[k].type = type
        PROVE  o[k].id \in Nat /\ GivenOf(type) < o[k].id /\ o[k].id <= GivenOf(type)'
    <3>1. TypeOf(shape[k]) = type /\ o[k].id = IdOf(shape, k)
      BY <1>1, <2>3 DEF Item
    <3> QED
      BY <1>2, <1>3, <3>1, IdsGrow DEF l
  <2> HIDE DEF o
  <2> QED
    BY <1>1, <2>1, <2>2, <2>3
<1> HIDE DEF o
<1>6. \A a \in 1 .. n :
        /\ Len(answers[a]) <= MaxItems /\ IsInjective(Numbers(answers[a], "call"))
        /\ \A type \in {"call", "reasoning"} :
             \A id \in IdsGiven(answers[a], type) :
               /\ 0 < id /\ id <= GivenOf(type)
               /\ \A b \in 1 .. n : id \in IdsGiven(answers[b], type) => a = b
  BY DEF IdsAreFresh, n
<1>7. ASSUME NEW a \in 1 .. n + 1
      PROVE  /\ Len(answers'[a]) <= MaxItems /\ IsInjective(Numbers(answers'[a], "call"))
             /\ \A type \in {"call", "reasoning"} :
                  \A id \in IdsGiven(answers'[a], type) :
                    /\ 0 < id /\ id <= GivenOf(type)'
                    /\ \A b \in 1 .. n + 1 : id \in IdsGiven(answers'[b], type) => a = b
  <2>1. CASE a = n + 1
    <3>1. answers'[a] = o
      BY <1>3, <2>1
    <3>2. ASSUME NEW type \in {"call", "reasoning"}, NEW id \in IdsGiven(o, type),
                 NEW b \in 1 .. n + 1, id \in IdsGiven(answers'[b], type)
          PROVE  a = b
      <4> SUFFICES ASSUME b # n + 1 PROVE FALSE
        BY <2>1
      <4>1. b \in 1 .. n
        BY <1>3
      <4>2. answers'[b] = answers[b]
        BY <1>3, <4>1
      <4>3. id <= GivenOf(type)
        BY <1>6, <3>2, <4>1, <4>2
      <4>4. GivenOf(type) < id /\ id \in Nat /\ GivenOf(type) \in Nat
        BY <1>5
      <4> QED
        BY <4>3, <4>4
    <3>3. ASSUME NEW type \in {"call", "reasoning"}, NEW id \in IdsGiven(o, type)
          PROVE  0 < id /\ id <= GivenOf(type)'
      BY <1>5
    <3> QED
      BY <1>1, <1>2, <1>4, <3>1, <3>2, <3>3
  <2>2. CASE a # n + 1
    <3>1. a \in 1 .. n /\ answers'[a] = answers[a]
      BY <1>3, <2>2
    <3>2. ASSUME NEW type \in {"call", "reasoning"}, NEW id \in IdsGiven(answers[a], type)
          PROVE  id \in Nat /\ 0 < id /\ id <= GivenOf(type) /\ id <= GivenOf(type)'
      <4>1. 0 < id /\ id <= GivenOf(type)
        BY <1>6, <3>1
      <4>2. id \in Nat
        <5>1. answers[a] \in Seq(Items)
          BY <3>1 DEF n
        <5>2. Numbers(answers[a], type) \in Seq(Nat)
          BY <5>1, NumbersProperties
        <5> QED
          BY <5>2 DEF IdsGiven, ToSet
      <4>3. GivenOf(type) \in Nat /\ GivenOf(type)' \in Nat /\ GivenOf(type) <= GivenOf(type)'
        BY <1>5
      <4> QED
        BY <4>1, <4>2, <4>3
    <3>3. ASSUME NEW type \in {"call", "reasoning"}, NEW id \in IdsGiven(answers[a], type),
                 NEW b \in 1 .. n + 1, id \in IdsGiven(answers'[b], type)
          PROVE  a = b
      <4>1. CASE b = n + 1
        <5>1. id \in IdsGiven(o, type)
          BY <1>3, <3>3, <4>1
        <5>2. GivenOf(type) < id /\ GivenOf(type) \in Nat
          BY <1>5, <5>1
        <5> QED
          BY <3>2, <5>2
      <4>2. CASE b # n + 1
        <5>1. b \in 1 .. n /\ answers'[b] = answers[b]
          BY <1>3, <4>2
        <5> QED
          BY <1>6, <3>1, <3>3, <5>1
      <4> QED
        BY <4>1, <4>2
    <3> QED
      BY <1>6, <3>1, <3>2, <3>3
  <2> QED
    BY <2>1, <2>2
<1>8. 1 .. Len(answers') = 1 .. n + 1
  BY <1>3
<1>9. ASSUME NEW a \in 1 .. Len(answers')
      PROVE  /\ Len(answers'[a]) <= MaxItems /\ IsInjective(Numbers(answers'[a], "call"))
             /\ \A type \in {"call", "reasoning"} :
                  \A id \in IdsGiven(answers'[a], type) :
                    /\ 0 < id /\ id <= GivenOf(type)'
                    /\ \A b \in 1 .. Len(answers') :
                         id \in IdsGiven(answers'[b], type) => a = b
  <2> DEFINE I == 1 .. n + 1
  <2>1. 1 .. Len(answers') = I /\ a \in I
    BY <1>8
  <2>2. /\ Len(answers'[a]) <= MaxItems /\ IsInjective(Numbers(answers'[a], "call"))
        /\ \A type \in {"call", "reasoning"} :
             \A id \in IdsGiven(answers'[a], type) :
               /\ 0 < id /\ id <= GivenOf(type)'
               /\ \A b \in I : id \in IdsGiven(answers'[b], type) => a = b
    BY <1>7, <2>1
  <2> HIDE DEF I
  <2> QED
    BY <2>1, <2>2
<1>10. IdsAreFresh'
  BY <1>9 DEF IdsAreFresh
<1> QED
  BY <1>3, <1>10

-----------------------------------------------------------------------------
(* Every step keeps the invariant *)

(* Nothing becomes of the ids as long as there is no new answer.           *)
LEMMA FreshAsBefore ==
  ASSUME IdsAreFresh, answers' = answers
  PROVE  IdsAreFresh'
<1>1. ASSUME NEW type \in {"call", "reasoning"} PROVE GivenOf(type)' = GivenOf(type)
  BY DEF GivenOf
<1>2. ASSUME NEW a \in 1 .. Len(answers')
      PROVE  /\ Len(answers'[a]) <= MaxItems /\ IsInjective(Numbers(answers'[a], "call"))
             /\ \A type \in {"call", "reasoning"} :
                  \A id \in IdsGiven(answers'[a], type) :
                    /\ 0 < id /\ id <= GivenOf(type)'
                    /\ \A b \in 1 .. Len(answers') :
                         id \in IdsGiven(answers'[b], type) => a = b
  <2>1. a \in 1 .. Len(answers)
    OBVIOUS
  <2>2. /\ Len(answers[a]) <= MaxItems /\ IsInjective(Numbers(answers[a], "call"))
        /\ \A type \in {"call", "reasoning"} :
             \A id \in IdsGiven(answers[a], type) :
               /\ 0 < id /\ id <= GivenOf(type)
               /\ \A b \in 1 .. Len(answers) : id \in IdsGiven(answers[b], type) => a = b
    BY <2>1 DEF IdsAreFresh
  <2>3. ASSUME NEW type \in {"call", "reasoning"}, NEW id \in IdsGiven(answers'[a], type)
        PROVE  0 < id /\ id <= GivenOf(type)'
    BY <1>1, <2>2
  <2>4. ASSUME NEW type \in {"call", "reasoning"}, NEW id \in IdsGiven(answers'[a], type),
               NEW b \in 1 .. Len(answers'), id \in IdsGiven(answers'[b], type)
        PROVE  a = b
    BY <2>2, <2>4
  <2>5. Len(answers'[a]) <= MaxItems /\ IsInjective(Numbers(answers'[a], "call"))
    BY <2>2
  <2> QED
    BY <2>3, <2>4, <2>5
<1> QED
  BY <1>2 DEF IdsAreFresh

(* The invariant holds initially.                                          *)
LEMMA InitInv == Init => Inv
<1> SUFFICES ASSUME Init PROVE Inv
  OBVIOUS
<1>1. history = <<>> /\ answers = <<>> /\ Len(history) = 0 /\ Len(answers) = 0
  BY DEF Init
<1>2. Typed
  <2>1. history \in Seq(Messages) /\ answers \in Seq(Seq(Items))
    BY <1>1, EmptySeq
  <2> QED
    BY <2>1 DEF Init, Typed
<1>3. RequestIsCurrent
  BY DEF Init, RequestIsCurrent
<1>4. IdsAreFresh
  BY <1>1 DEF IdsAreFresh
<1>5. IsHonest(history, answers, [k \in 0 .. 0 |-> 0])
  BY <1>1 DEF IsHonest
<1> QED
  BY <1>2, <1>3, <1>4, <1>5 DEF Inv, HistoryIsHonest

(* A message that the caller adds.                                         *)
LEMMA AddsInv ==
  ASSUME Inv, NEW m \in Messages, NEW change \in {0, 1}, Adds(m, change),
         change = 0 => \/ IsPrompt(m)
                       \/ /\ m.role = "tool" /\ m.calls = <<>> /\ ~m.thought
                          /\ m.answers \in Given \ Answered /\ m.name # "other"
  PROVE  Inv'
<1>1. /\ history \in Seq(Messages) /\ answers \in Seq(Seq(Items)) /\ changes \in Nat
      /\ history' = Append(history, m) /\ changes' = changes + change
      /\ request' = NoRequest /\ phase = "caller" /\ phase' = phase
      /\ streams \in BOOLEAN /\ streams' = streams /\ answers' = answers
  BY DEF Adds, Inv, Typed
<1>2. Typed'
  <2>1. history' \in Seq(Messages)
    BY <1>1, AppendProperties
  <2>2. changes' \in Nat
    BY <1>1
  <2> QED
    BY <1>1, <2>1, <2>2 DEF Typed
<1>3. RequestIsCurrent'
  BY <1>1 DEF RequestIsCurrent
<1>4. IdsAreFresh'
  BY <1>1, FreshAsBefore DEF Inv
<1>5. HistoryIsHonest'
  <2> SUFFICES ASSUME changes' = 0 PROVE \E u : IsHonest(history', answers', u)
    BY DEF HistoryIsHonest
  <2>1. changes = 0 /\ change = 0
    BY <1>1
  <2>2. PICK upto : IsHonest(history, answers, upto)
    BY <2>1 DEF Inv, HistoryIsHonest
  <2> DEFINE last == Len(answers)
  <2>3. \/ IsPrompt(m) /\ last = Len(answers)
        \/ /\ m.role = "tool" /\ m.calls = <<>> /\ m.name # "other" /\ ~m.thought
           /\ \E b \in 1 .. Len(answers) : m.answers \in IdsGiven(answers[b], "call")
           /\ \A j \in 1 .. Len(history) : history[j].answers # m.answers
           /\ last = Len(answers)
    <3>1. DOMAIN answers = 1 .. Len(answers) /\ DOMAIN history = 1 .. Len(history)
      BY <1>1, LenProperties
    <3> QED
      BY <2>1, <3>1 DEF Given, Answered, IdsGiven
  <2>4. last \in Nat /\ Len(answers) = last /\ Len(answers) <= last
    BY <1>1, LenProperties
  <2> HIDE DEF last
  <2>5. \E u : IsHonest(Append(history, m), answers, u)
    BY <1>1, <2>2, <2>3, <2>4, HonestGrows
  <2> QED
    BY <1>1, <2>5
<1> QED
  BY <1>2, <1>3, <1>4, <1>5 DEF Inv

(* The history is written to JSON and read back.                           *)
LEMMA StoresInv ==
  ASSUME Inv, Stores
  PROVE  Inv'
<1>1. /\ history \in Seq(Messages) /\ answers \in Seq(Seq(Items)) /\ changes \in Nat
      /\ request' = NoRequest /\ phase = "caller" /\ phase' = phase
      /\ changes' = changes /\ streams \in BOOLEAN /\ streams' = streams
      /\ answers' = answers
  BY DEF Stores, Inv, Typed
<1>2. /\ history' \in Seq(Messages)
      /\ \A upto : IsHonest(history, answers, upto) => IsHonest(history', answers, upto)
  BY <1>1, HonestIsStored DEF Stores
<1>3. history' \in Seq(Messages)
  BY <1>2
<1>4. Typed' /\ RequestIsCurrent'
  BY <1>1, <1>3 DEF Typed, RequestIsCurrent
<1>5. IdsAreFresh'
  BY <1>1, FreshAsBefore DEF Inv
<1>6. HistoryIsHonest'
  BY <1>1, <1>2 DEF Inv, HistoryIsHonest
<1> QED
  BY <1>4, <1>5, <1>6 DEF Inv

(* The oldest message is dropped, which is a change.                       *)
LEMMA ForgetsInv ==
  ASSUME Inv, Forgets
  PROVE  Inv'
<1>1. /\ history \in Seq(Messages) /\ answers \in Seq(Seq(Items)) /\ changes \in Nat
      /\ history # <<>> /\ history' = Tail(history)
      /\ request' = NoRequest /\ phase = "caller" /\ phase' = phase
      /\ changes' = changes + 1 /\ streams \in BOOLEAN /\ streams' = streams
      /\ answers' = answers
  BY DEF Forgets, Inv, Typed
<1>2. history' \in Seq(Messages) /\ changes' \in Nat /\ changes' # 0
  BY <1>1, HeadTailProperties
<1>3. Typed' /\ RequestIsCurrent'
  BY <1>1, <1>2 DEF Typed, RequestIsCurrent
<1>4. IdsAreFresh'
  BY <1>1, FreshAsBefore DEF Inv
<1>5. HistoryIsHonest'
  BY <1>2 DEF HistoryIsHonest
<1> QED
  BY <1>3, <1>4, <1>5 DEF Inv

(* A request is built from the history as it is.                           *)
LEMMA SendsInv ==
  ASSUME Inv, NEW opts \in Options, NEW stream \in BOOLEAN, Sends(opts, stream)
  PROVE  Inv'
<1>1. /\ history' = history /\ answers' = answers /\ changes' = changes
      /\ request' = Request(history, opts)
  BY DEF Sends
<1>2. phase' \in {"caller", "server"} /\ streams' \in BOOLEAN
  BY DEF Sends, Inv, Typed
<1>3. Typed'
  BY <1>1, <1>2 DEF Inv, Typed
<1>4. RequestIsCurrent'
  BY <1>1 DEF RequestIsCurrent
<1>5. IdsAreFresh' /\ HistoryIsHonest'
  BY <1>1, FreshAsBefore DEF Inv, HistoryIsHonest
<1> QED
  BY <1>3, <1>4, <1>5 DEF Inv

(* The server gives no answer.                                             *)
LEMMA FailsInv ==
  ASSUME Inv, Fails
  PROVE  Inv'
<1>1. /\ history' = history /\ answers' = answers /\ changes' = changes
      /\ request' = NoRequest /\ phase' = "caller" /\ streams' = FALSE
  BY DEF Fails
<1>2. Typed' /\ RequestIsCurrent'
  BY <1>1 DEF Inv, Typed, RequestIsCurrent
<1>3. IdsAreFresh' /\ HistoryIsHonest'
  BY <1>1, FreshAsBefore DEF Inv, HistoryIsHonest
<1> QED
  BY <1>2, <1>3 DEF Inv

(* The server answers: the answer is decoded and added, or refused.        *)
LEMMA AnswersInv ==
  ASSUME Inv, NEW shape \in Shapes, NEW thought \in BOOLEAN, Answers(shape, thought)
  PROVE  Inv'
<1> DEFINE output == OutputOf(shape)
           m == Assembled(output, thought)
<1>1. /\ history \in Seq(Messages) /\ answers \in Seq(Seq(Items)) /\ changes \in Nat
      /\ request' = NoRequest /\ phase' = "caller" /\ streams' = FALSE
      /\ changes' = changes
  BY DEF Answers, Inv, Typed
<1>2. CASE ~Decodes(output)
  <2>1. history' = history /\ answers' = answers
    BY <1>2 DEF Answers
  <2>2. Typed' /\ RequestIsCurrent'
    BY <1>1, <2>1 DEF Typed, RequestIsCurrent
  <2>3. IdsAreFresh' /\ HistoryIsHonest'
    BY <1>1, <2>1, FreshAsBefore DEF Inv, HistoryIsHonest
  <2> QED
    BY <2>2, <2>3 DEF Inv
<1>3. CASE Decodes(output)
  <2>1. answers' = Append(answers, output) /\ history' = Append(history, m)
    BY <1>3 DEF Answers
  <2>2. output \in Seq(Items)
    BY <1>1, OutputType
  <2>3. m \in Messages /\ IsAnswer(m, output)
    BY <2>2, AssembledType
  <2>4. answers' \in Seq(Seq(Items)) /\ IdsAreFresh'
    BY <1>1, <1>3, <2>1, AnswerIsFresh DEF Inv
  <2> HIDE DEF output, m
  <2>5. history' \in Seq(Messages)
    BY <1>1, <2>1, <2>3, AppendProperties
  <2>6. Typed' /\ RequestIsCurrent'
    BY <1>1, <2>4, <2>5 DEF Typed, RequestIsCurrent
  <2>7. HistoryIsHonest'
    <3> SUFFICES ASSUME changes' = 0 PROVE \E u : IsHonest(history', answers', u)
      BY DEF HistoryIsHonest
    <3>1. PICK upto : IsHonest(history, answers, upto)
      BY <1>1 DEF Inv, HistoryIsHonest
    <3> DEFINE more == Append(answers, output)
               n == Len(answers)
               last == n + 1
    <3>2. /\ more \in Seq(Seq(Items)) /\ n \in Nat /\ Len(more) = last /\ more[last] = output
          /\ \A a \in 1 .. n : more[a] = answers[a]
      BY <1>1, <2>2, AppendProperties, LenProperties
    <3>3. last \in Nat /\ n <= last
      BY <3>2
    <3>4. last = Len(answers) + 1 /\ IsAnswer(m, more[last])
      BY <2>3, <3>2
    <3> HIDE DEF more, last
    <3>5. \E u : IsHonest(Append(history, m), more, u)
      BY <1>1, <2>3, <3>1, <3>2, <3>3, <3>4, HonestGrows
    <3> QED
      BY <2>1, <3>5 DEF more
  <2> QED
    BY <2>4, <2>6, <2>7 DEF Inv
<1> QED
  BY <1>2, <1>3

(* The invariant holds in every reachable state, for every bound.          *)
THEOREM InvHolds == Spec => []Inv
<1>1. ASSUME Inv, [Next]_vars PROVE Inv'
  <2>1. ASSUME NEW m \in PromptMessages, AddsPrompt(m) PROVE Inv'
    BY <1>1, <2>1, AddsInv, PromptMessagesType DEF AddsPrompt
  <2>2. ASSUME NEW m \in ResultMessages, AddsResult(m) PROVE Inv'
    <3> DEFINE change == IF m.answers \in Given \ Answered /\ m.name # "other" THEN 0 ELSE 1
    <3>1. change \in {0, 1} /\ Adds(m, change)
      BY <2>2 DEF AddsResult
    <3>2. change = 0 => m.answers \in Given \ Answered /\ m.name # "other"
      OBVIOUS
    <3> HIDE DEF change
    <3>3. m \in Messages /\ m.role = "tool" /\ m.calls = <<>> /\ ~m.thought
      BY ResultMessagesType
    <3> QED
      BY <1>1, <3>1, <3>2, <3>3, AddsInv
  <2>3. ASSUME NEW m \in ForeignMessages, AddsAssistant(m) PROVE Inv'
    BY <1>1, <2>3, AddsInv, ForeignMessagesType DEF AddsAssistant
  <2>4. ASSUME Stores PROVE Inv'
    BY <1>1, <2>4, StoresInv
  <2>5. ASSUME Forgets PROVE Inv'
    BY <1>1, <2>5, ForgetsInv
  <2>6. ASSUME NEW opts \in Options, NEW stream \in BOOLEAN, Sends(opts, stream)
        PROVE  Inv'
    BY <1>1, <2>6, SendsInv
  <2>7. ASSUME Fails PROVE Inv'
    BY <1>1, <2>7, FailsInv
  <2>8. ASSUME NEW shape \in Shapes, NEW thought \in BOOLEAN, Answers(shape, thought)
        PROVE  Inv'
    BY <1>1, <2>8, AnswersInv
  <2>9. CASE UNCHANGED vars
    <3>1. IdsAreFresh'
      BY <1>1, <2>9, FreshAsBefore DEF vars, Inv
    <3>2. Typed' /\ RequestIsCurrent' /\ HistoryIsHonest'
      BY <1>1, <2>9 DEF vars, Inv, Typed, RequestIsCurrent, HistoryIsHonest
    <3> QED
      BY <3>1, <3>2 DEF Inv
  <2> QED
    BY <1>1, <2>1, <2>2, <2>3, <2>4, <2>5, <2>6, <2>7, <2>8, <2>9 DEF Next
<1> QED
  BY <1>1, InitInv, PTL DEF Spec

-----------------------------------------------------------------------------
(* Every request is paired *)

(* A request has the items of a history, or none.                          *)
LEMMA RequestIsInput ==
  ASSUME NEW messages, NEW opts
  PROVE  \/ /\ Request(messages, opts).status = "options"
            /\ Request(messages, opts).items = <<>>
         \/ /\ Request(messages, opts).items = Input(messages).items
            /\ Request(messages, opts).status
                 = IF Input(messages).ok THEN "built" ELSE "input"
<1> DEFINE input == Input(messages)
           other == opts.sampling \/ ~ToolsFit(opts.tools) \/ ToolChoice(opts) = "invalid"
<1>1. Request(messages, opts)
        = IF other THEN [status |-> "options", items |-> <<>>]
          ELSE [status |-> IF input.ok THEN "built" ELSE "input", items |-> input.items]
  BY DEF Request
<1> HIDE DEF input, other
<1>2. \/ Request(messages, opts) = [status |-> "options", items |-> <<>>]
      \/ Request(messages, opts)
           = [status |-> IF input.ok THEN "built" ELSE "input", items |-> input.items]
  BY <1>1
<1> QED
  BY <1>2 DEF input

(* A request of the history as it is pairs calls and results.              *)
LEMMA CurrentRequestIsPaired ==
  ASSUME Typed, RequestIsCurrent
  PROVE  CallsArePaired
<1>1. \E acc \in Accs : Paired(acc) /\ request.items = acc.items
  <2>1. CASE request.items = <<>>
    BY <2>1, NothingType, NothingIsPaired
  <2>2. CASE \E opts \in Options : request = Request(history, opts)
    BY <2>1, <2>2, RequestIsInput, InputIsPaired DEF Typed
  <2> QED
    BY <2>1, <2>2 DEF RequestIsCurrent, NoRequest
<1>2. PICK acc \in Accs : Paired(acc) /\ request.items = acc.items
  BY <1>1
<1> DEFINE s == request.items
           n == Len(s)
<1>3. s \in Seq(Items) /\ n \in Nat /\ DOMAIN s = 1 .. n
  BY <1>2, LenProperties DEF Accs
<1>4. ASSUME NEW type, NEW id \in IdsIn(type)
      PROVE  id \in Nat /\ \E k \in 1 .. n : s[k] = Item(type, id)
  <2>1. PICK k \in 1 .. n : s[k].type = type /\ s[k].id = id
    BY <1>3 DEF IdsIn
  <2>2. s[k] \in Items
    BY <1>3
  <2> QED
    BY <2>1, <2>2 DEF Items, Item
<1>5. ASSUME NEW type, NEW id
      PROVE  Positions(type, id) = {k \in 1 .. n : s[k] = Item(type, id)}
  BY <1>3 DEF Positions
<1>6. /\ \A j, k, id \in Nat : IsCall(s, j, id) /\ IsCall(s, k, id) => j = k
      /\ \A j, k, id \in Nat : IsResult(s, j, id) /\ IsResult(s, k, id) => j = k
      /\ \A k, id \in Nat :
           IsResult(s, k, id) => \E j \in 1 .. k - 1 : IsCall(s, j, id)
  BY <1>2 DEF Paired
<1>7. ASSUME NEW id \in IdsIn("function_call")
      PROVE  Cardinality(Positions("function_call", id)) = 1
  <2>1. PICK k \in 1 .. n : s[k] = Item("function_call", id)
    BY <1>4
  <2>2. k \in Nat /\ id \in Nat
    BY <1>3, <1>4
  <2>3. Positions("function_call", id) = {k}
    <3>1. ASSUME NEW j \in 1 .. n, s[j] = Item("function_call", id) PROVE j = k
      <4>1. j \in Nat
        BY <1>3
      <4> QED
        BY <1>6, <2>1, <2>2, <3>1, <4>1 DEF IsCall
    <3> QED
      BY <1>5, <2>1, <3>1
  <2> QED
    BY <2>3, FS_Singleton
<1>8. ASSUME NEW id \in IdsIn("function_call_output")
      PROVE  /\ Cardinality(Positions("function_call_output", id)) = 1
             /\ \E call \in Positions("function_call", id) :
                  \A result \in Positions("function_call_output", id) : call < result
  <2>1. PICK k \in 1 .. n : s[k] = Item("function_call_output", id)
    BY <1>4
  <2>2. k \in Nat /\ id \in Nat
    BY <1>3, <1>4
  <2>3. Positions("function_call_output", id) = {k}
    <3>1. ASSUME NEW j \in 1 .. n, s[j] = Item("function_call_output", id) PROVE j = k
      <4>1. j \in Nat
        BY <1>3
      <4> QED
        BY <1>6, <2>1, <2>2, <3>1, <4>1 DEF IsResult
    <3> QED
      BY <1>5, <2>1, <3>1
  <2>4. PICK j \in 1 .. k - 1 : IsCall(s, j, id)
    BY <1>6, <2>1, <2>2 DEF IsResult
  <2>5. j \in Positions("function_call", id) /\ j < k
    BY <1>5, <2>2, <2>4 DEF IsCall
  <2> QED
    BY <2>3, <2>5, FS_Singleton
<1> QED
  BY <1>7, <1>8 DEF CallsArePaired

(* A request holds every call once, and every result once and behind its   *)
(* call, whatever history the caller sends (responsesMessagesToInput).     *)
THEOREM CallsStayPaired == Spec => []CallsArePaired
<1>1. Inv => CallsArePaired
  BY CurrentRequestIsPaired DEF Inv
<1> QED
  BY <1>1, InvHolds, PTL

-----------------------------------------------------------------------------
(* An honest history is accepted *)

(* A prompt is accepted.                                                   *)
LEMMA PromptFits ==
  ASSUME NEW acc \in Accs, acc.ok, NEW m \in Messages, IsPrompt(m)
  PROVE  /\ WithMessage(acc, m).ok /\ WithMessage(acc, m).pending = acc.pending
         /\ WithMessage(acc, m).seen = acc.seen
<1>1. WithMessage(acc, m) = OtherTurn(acc, m)
  BY DEF WithMessage, IsPrompt, HasUnsupportedContent
<1> QED
  BY <1>1, OtherTurnDoes DEF IsPrompt

(* A result of a pending call is accepted, and the call no longer pending. *)
LEMMA ResultFits ==
  ASSUME NEW acc \in Accs, acc.ok, NEW m \in Messages,
         m.role = "tool", m.calls = <<>>, m.name # "other", ~m.thought, m.answers # Blank,
         [id |-> m.answers, name |-> "lookup"] \in acc.pending,
         \A p \in acc.pending : p.name = "lookup"
  PROVE  /\ WithMessage(acc, m).ok
         /\ WithMessage(acc, m).pending = acc.pending \ Pending(acc, m.answers)
         /\ WithMessage(acc, m).seen = acc.seen
<1>1. WithMessage(acc, m) = ToolTurn(acc, m)
  BY DEF WithMessage, HasUnsupportedContent
<1>2. Pending(acc, m.answers) # {}
  BY DEF Pending
<1>3. \A p \in Pending(acc, m.answers) : m.name \in {"", p.name}
  BY DEF Pending, Messages, Names
<1> QED
  BY <1>1, <1>2, <1>3, ToolTurnDoes

(* An answer with calls not seen before is accepted, its calls then pending. *)
LEMMA AnswerFits ==
  ASSUME NEW acc \in Accs, acc.ok, NEW m \in Messages, ~m.thought,
         NEW output \in Seq(Items), IsAnswer(m, output),
         IsInjective(Numbers(output, "call")),
         \A id \in IdsGiven(output, "call") : id # Blank /\ id \notin acc.seen
  PROVE  /\ WithMessage(acc, m).ok
         /\ WithMessage(acc, m).pending = acc.pending \cup
              {[id |-> id, name |-> "lookup"] : id \in IdsGiven(output, "call")}
         /\ WithMessage(acc, m).seen = acc.seen \cup IdsGiven(output, "call")
<1> DEFINE calls == Numbers(output, "call")
<1>1. WithMessage(acc, m) = AssistantTurn(acc, m)
  BY DEF WithMessage, HasUnsupportedContent, IsAnswer
<1>2. /\ m.answers = Blank /\ m.extra.encoding \in {"none", "raw", "any"}
      /\ m.calls = [k \in DOMAIN calls |-> Call(calls[k], "lookup", TRUE)]
  BY DEF IsAnswer
<1>3. calls \in Seq(Nat) /\ IdsGiven(output, "call") = {calls[k] : k \in DOMAIN calls}
  BY NumbersProperties DEF IdsGiven, ToSet
<1>4. \A j, k \in DOMAIN calls : calls[j] = calls[k] => j = k
  BY DEF IsInjective
<1>5. \A k \in DOMAIN calls : calls[k] # Blank /\ calls[k] \notin acc.seen
  BY <1>3
<1> HIDE DEF calls
<1>6. /\ DOMAIN m.calls = DOMAIN calls
      /\ \A k \in DOMAIN calls :
           /\ m.calls[k].id = calls[k] /\ m.calls[k].name = "lookup" /\ m.calls[k].valid
  BY <1>2 DEF Call
<1>7. CallsFit(acc, m.calls)
  <2> DEFINE c == m.calls
  <2>1. ASSUME NEW k \in DOMAIN c
        PROVE  c[k].id # Blank /\ c[k].name # "" /\ c[k].valid /\ c[k].id \notin acc.seen
    BY <1>5, <1>6
  <2>2. \A j, k \in DOMAIN c : c[j].id = c[k].id => j = k
    BY <1>4, <1>6
  <2> HIDE DEF c
  <2>3. CallsFit(acc, c)
    BY <2>1, <2>2 DEF CallsFit
  <2> QED
    BY <2>3 DEF c
<1>8. ReasoningFits(m.extra)
  BY <1>2 DEF ReasoningFits
<1>9. NewPending(m) = {[id |-> id, name |-> "lookup"] : id \in IdsGiven(output, "call")}
  <2>1. NewPending(m)
          = {[id |-> m.calls[k].id, name |-> m.calls[k].name] : k \in DOMAIN calls}
    BY <1>6 DEF NewPending
  <2>2. NewPending(m) = {[id |-> calls[k], name |-> "lookup"] : k \in DOMAIN calls}
    BY <1>6, <2>1
  <2> QED
    BY <1>3, <2>2
<1>10. IdsOf(m.calls) = IdsGiven(output, "call")
  BY <1>3, <1>6 DEF IdsOf
<1> QED
  BY <1>1, <1>2, <1>7, <1>8, <1>9, <1>10, AssistantTurnDoes

(* What is known of the input of the first k messages, among which are u   *)
(* answers: no call has been seen that is not theirs, and a call without a *)
(* result is pending under its name.                                       *)
Accepted(acc, k, u) ==
  /\ acc \in Accs /\ acc.ok
  /\ \A id \in acc.seen : \E a \in 1 .. u : id \in IdsGiven(answers[a], "call")
  /\ \A a \in 1 .. u : \A id \in IdsGiven(answers[a], "call") :
       \/ \E j \in 1 .. k : history[j].answers = id
       \/ [id |-> id, name |-> "lookup"] \in acc.pending
  /\ \A p \in acc.pending : p.name = "lookup"

(* One message more of an honest history is accepted.                      *)
LEMMA MessageIsAccepted ==
  ASSUME Typed, IdsAreFresh, NEW upto, IsHonest(history, answers, upto),
         NEW k \in 1 .. Len(history), ~history[k].thought,
         NEW acc, Accepted(acc, k - 1, upto[k - 1])
  PROVE  Accepted(WithMessage(acc, history[k]), k, upto[k])
<1> DEFINE m == history[k]
           v == upto[k - 1]
           u == upto[k]
           b == WithMessage(acc, m)
           n == Len(answers)
<1>1. /\ k \in Nat /\ k - 1 \in Nat /\ n \in Nat /\ v \in 0 .. n /\ u \in 0 .. n
      /\ m \in Messages /\ acc \in Accs /\ k - 1 \in 0 .. Len(history)
  <2>1. Len(history) \in Nat /\ Len(answers) \in Nat
    BY LenProperties DEF Typed
  <2>2. upto \in [0 .. Len(history) -> 0 .. n]
    BY DEF IsHonest
  <2>3. k \in Nat /\ k - 1 \in Nat /\ k \in 0 .. Len(history) /\ k - 1 \in 0 .. Len(history)
    BY <2>1
  <2>4. m \in Messages
    BY DEF Typed
  <2> HIDE DEF n, m
  <2> QED
    BY <2>1, <2>2, <2>3, <2>4 DEF Accepted, n
<1>2. \/ IsPrompt(m) /\ u = v
      \/ IsFirstResult(history, k, answers, v) /\ u = v
      \/ u = v + 1 /\ IsAnswer(m, answers[u])
  BY DEF IsHonest
<1>3. /\ acc.ok
      /\ \A id \in acc.seen : \E a \in 1 .. v : id \in IdsGiven(answers[a], "call")
      /\ \A a \in 1 .. v : \A id \in IdsGiven(answers[a], "call") :
           \/ \E j \in 1 .. k - 1 : history[j].answers = id
           \/ [id |-> id, name |-> "lookup"] \in acc.pending
      /\ \A p \in acc.pending : p.name = "lookup"
  BY DEF Accepted
<1>4. b \in Accs
  BY <1>1, WithMessageType
<1>5. \A j \in 1 .. k - 1 : j \in 1 .. k
  BY <1>1
<1>6. \A a \in 1 .. v : a \in 1 .. n
  BY <1>1
<1>7. k \in 1 .. k
  BY <1>1
<1>8. ASSUME NEW a \in 1 .. n, NEW id \in IdsGiven(answers[a], "call")
      PROVE  id # Blank /\ \A c \in 1 .. n : id \in IdsGiven(answers[c], "call") => a = c
  <2>1. 0 < id
    BY DEF IdsAreFresh
  <2> QED
    BY <2>1 DEF IdsAreFresh, Blank
<1>9. m.thought = history[k].thought
  OBVIOUS
<1> HIDE DEF v, u, n
<1>10. CASE IsPrompt(m) /\ u = v
  <2>1. b.ok /\ b.pending = acc.pending /\ b.seen = acc.seen
    BY <1>1, <1>3, <1>10, PromptFits
  <2> HIDE DEF b, m
  <2>2. Accepted(b, k, u)
    BY <1>3, <1>4, <1>5, <1>10, <2>1 DEF Accepted
  <2> QED
    BY <2>2 DEF b, m, u
<1>11. CASE IsFirstResult(history, k, answers, v) /\ u = v
  <2>1. /\ m.role = "tool" /\ m.calls = <<>> /\ m.name # "other" /\ ~m.thought
        /\ \A j \in 1 .. k - 1 : history[j].answers # m.answers
    BY <1>11 DEF IsFirstResult
  <2>2. PICK c \in 1 .. v : m.answers \in IdsGiven(answers[c], "call")
    BY <1>11 DEF IsFirstResult
  <2>3. m.answers # Blank /\ [id |-> m.answers, name |-> "lookup"] \in acc.pending
    BY <1>3, <1>6, <1>8, <2>1, <2>2
  <2>4. b.ok /\ b.pending = acc.pending \ Pending(acc, m.answers) /\ b.seen = acc.seen
    BY <1>1, <1>3, <2>1, <2>3, ResultFits
  <2>5. ASSUME NEW a \in 1 .. v, NEW id \in IdsGiven(answers[a], "call")
        PROVE  \/ \E j \in 1 .. k : history[j].answers = id
               \/ [id |-> id, name |-> "lookup"] \in b.pending
    <3>1. CASE id = m.answers
      BY <1>7, <3>1
    <3>2. CASE id # m.answers
      <4>1. [id |-> id, name |-> "lookup"] \notin Pending(acc, m.answers)
        BY <3>2 DEF Pending
      <4> QED
        BY <1>3, <1>5, <2>4, <4>1
    <3> QED
      BY <3>1, <3>2
  <2> HIDE DEF b, m
  <2>6. Accepted(b, k, u)
    BY <1>3, <1>4, <1>11, <2>4, <2>5 DEF Accepted
  <2> QED
    BY <2>6 DEF b, m, u
<1>12. CASE u = v + 1 /\ IsAnswer(m, answers[u])
  <2> DEFINE o == answers[u]
             ids == IdsGiven(o, "call")
  <2>1. u \in 1 .. n /\ v \in Nat /\ u \notin 1 .. v /\ 1 .. u = (1 .. v) \cup {u}
    BY <1>1, <1>12
  <2>2. o \in Seq(Items) /\ IsInjective(Numbers(o, "call"))
    BY <2>1 DEF Typed, IdsAreFresh, n
  <2>3. \A id \in ids : id # Blank /\ id \notin acc.seen
    BY <1>3, <1>6, <1>8, <2>1
  <2>4. ~m.thought
    BY <1>9
  <2>5. IsAnswer(m, o)
    BY <1>12
  <2> HIDE DEF o, b, m
  <2>6. /\ b.ok /\ b.seen = acc.seen \cup ids
        /\ b.pending = acc.pending \cup {[id |-> id, name |-> "lookup"] : id \in ids}
    BY <1>1, <1>3, <2>2, <2>3, <2>4, <2>5, AnswerFits DEF b
  <2>7. \A id \in b.seen : \E a \in 1 .. u : id \in IdsGiven(answers[a], "call")
    BY <1>3, <2>1, <2>6 DEF o
  <2>8. ASSUME NEW a \in 1 .. u, NEW id \in IdsGiven(answers[a], "call")
        PROVE  \/ \E j \in 1 .. k : history[j].answers = id
               \/ [id |-> id, name |-> "lookup"] \in b.pending
    <3>1. CASE a = u
      BY <2>6, <3>1 DEF o
    <3>2. CASE a \in 1 .. v
      BY <1>3, <1>5, <2>6, <3>2
    <3> QED
      BY <2>1, <3>1, <3>2
  <2>9. \A p \in b.pending : p.name = "lookup"
    BY <1>3, <2>6
  <2>10. Accepted(b, k, u)
    BY <1>4, <2>6, <2>7, <2>8, <2>9 DEF Accepted
  <2> QED
    BY <2>10 DEF b, m, u
<1> QED
  BY <1>2, <1>10, <1>11, <1>12

(* The input of an honest history is built.                                *)
LEMMA HonestInputIsAccepted ==
  ASSUME Typed, IdsAreFresh, NEW upto, IsHonest(history, answers, upto),
         \A k \in DOMAIN history : ~history[k].thought
  PROVE  Input(history).ok
<1> DEFINE n == Len(history)
<1>1. n \in Nat /\ DOMAIN history = 1 .. n /\ history \in Seq(Messages)
  BY LenProperties DEF Typed
<1>2. PICK f : Folded(f, history) /\ Input(history) = f[n]
  BY <1>1, InputExists
<1>3. /\ f[0] = Nothing /\ \A k \in 1 .. n : f[k] = WithMessage(f[k - 1], history[k])
  BY <1>2 DEF Folded
<1> DEFINE S == {k \in Nat : k <= n => Accepted(f[k], k, upto[k])}
<1>4. 0 \in S
  <2>1. upto[0] = 0
    BY DEF IsHonest
  <2>2. Accepted(Nothing, 0, 0)
    BY NothingType DEF Accepted
  <2> QED
    BY <1>3, <2>1, <2>2
<1>5. ASSUME NEW k \in S PROVE k + 1 \in S
  <2> SUFFICES ASSUME k + 1 <= n PROVE Accepted(f[k + 1], k + 1, upto[k + 1])
    OBVIOUS
  <2>1. k + 1 \in 1 .. n /\ (k + 1) - 1 = k /\ Accepted(f[k], k, upto[k])
    BY <1>1
  <2> DEFINE j == k + 1
  <2>2. j \in 1 .. n /\ Accepted(f[j - 1], j - 1, upto[j - 1]) /\ ~history[j].thought
    BY <1>1, <2>1
  <2>3. f[j] = WithMessage(f[j - 1], history[j])
    BY <1>3, <2>2
  <2> HIDE DEF j, S
  <2>4. Accepted(f[j], j, upto[j])
    BY <2>2, <2>3, MessageIsAccepted
  <2> QED
    BY <2>4 DEF j
<1>6. n \in S
  <2> HIDE DEF S
  <2> QED
    BY <1>1, <1>4, <1>5, SetInduction
<1> QED
  BY <1>1, <1>2, <1>6 DEF Accepted

(* A caller that keeps every answer whole and answers its calls once is    *)
(* never refused for its history (responsesMessagesToInput).               *)
THEOREM HonestHistoriesAreAccepted == Spec => []HonestHistoryIsAccepted
<1>1. Inv => HonestHistoryIsAccepted
  <2> SUFFICES ASSUME Inv, changes = 0, \A k \in DOMAIN history : ~history[k].thought
               PROVE  request.status # "input"
    BY DEF HonestHistoryIsAccepted, Unchanged
  <2>1. CASE request = NoRequest
    BY <2>1 DEF NoRequest
  <2>2. CASE \E opts \in Options : request = Request(history, opts)
    <3>1. Input(history).ok
      BY HonestInputIsAccepted DEF Inv, HistoryIsHonest
    <3> QED
      BY <2>2, <3>1, RequestIsInput
  <2> QED
    BY <2>1, <2>2 DEF Inv, RequestIsCurrent
<1> QED
  BY <1>1, InvHolds, PTL

-----------------------------------------------------------------------------
(* The reasoning of an honest history is replayed *)

(* Sequences one after the other, as defined and as a function.            *)
Flattened(f, seqs) ==
  /\ f \in [0 .. Len(seqs) -> Seq(Nat)] /\ f[0] = <<>>
  /\ \A k \in 1 .. Len(seqs) : f[k] = f[k - 1] \o seqs[k]

AreFlat(f, seqs) ==
  f = [i \in 1 .. Len(seqs) |-> IF i = 1 THEN seqs[i] ELSE f[i - 1] \o seqs[i]]

(* Flattening is that function.                                            *)
LEMMA FlattenExists ==
  ASSUME NEW seqs \in Seq(Seq(Nat))
  PROVE  \E f : Flattened(f, seqs) /\ FlattenSeq(seqs) = f[Len(seqs)]
<1> DEFINE n == Len(seqs)
           X == Seq(Nat)
           step == [k \in 1 .. n |-> [v \in X |-> v \o seqs[k]]]
<1>1. n \in Nat
  BY LenProperties
<1>2. ASSUME NEW v \in X, NEW k \in 1 .. n
      PROVE  step[k][v] = v \o seqs[k] /\ step[k][v] \in X
  <2>1. step[k][v] = v \o seqs[k]
    OBVIOUS
  <2>2. seqs[k] \in Seq(Nat)
    OBVIOUS
  <2> HIDE DEF step
  <2> QED
    BY <2>1, <2>2, ConcatProperties
<1>3. step \in [1 .. n -> [X -> X]]
  BY <1>2
<1>4. PICK f \in [0 .. n -> X] :
        f[0] = <<>> /\ \A k \in 1 .. n : f[k] = step[k][f[k - 1]]
  <2> DEFINE c == <<>>
  <2>1. c \in X
    OBVIOUS
  <2> HIDE DEF X, step, n, c
  <2>2. \E f \in [0 .. n -> X] :
          f[0] = c /\ \A k \in 1 .. n : f[k] = step[k][f[k - 1]]
    BY <1>1, <1>3, <2>1, RecursionExists, SMTT(60)
  <2> QED
    BY <2>2 DEF c
<1>5. \A k \in 1 .. n : f[k] = f[k - 1] \o seqs[k]
  <2> SUFFICES ASSUME NEW k \in 1 .. n PROVE f[k] = f[k - 1] \o seqs[k]
    OBVIOUS
  <2> HIDE DEF step, X, n
  <2>1. k - 1 \in 0 .. n
    BY <1>1
  <2>2. f[k - 1] \in X
    BY <2>1
  <2> QED
    BY <1>2, <1>4, <2>2
<1> HIDE DEF step
<1>6. Flattened(f, seqs)
  BY <1>4, <1>5 DEF Flattened
<1>7. CASE n = 0
  <2>1. seqs = <<>>
    BY <1>7, EmptySeq
  <2>2. FlattenSeq(seqs) = seqs
    BY <1>7 DEF FlattenSeq
  <2> QED
    BY <1>4, <1>6, <1>7, <2>1, <2>2
<1>8. CASE n # 0
  <2> DEFINE h == [i \in 1 .. n |-> f[i]]
             g == CHOOSE e : AreFlat(e, seqs)
  <2>1. \A i \in 1 .. n : h[i] = IF i = 1 THEN seqs[i] ELSE h[i - 1] \o seqs[i]
    <3> SUFFICES ASSUME NEW i \in 1 .. n
                 PROVE  h[i] = IF i = 1 THEN seqs[i] ELSE h[i - 1] \o seqs[i]
      OBVIOUS
    <3>1. CASE i = 1
      <4>1. f[i] = <<>> \o seqs[i]
        <5>1. f[i] = f[i - 1] \o seqs[i]
          BY <1>5
        <5>2. i - 1 = 0 /\ f[0] = <<>>
          BY <1>4, <3>1
        <5> QED
          BY <5>1, <5>2
      <4>2. seqs[i] \in Seq(Nat)
        OBVIOUS
      <4>3. <<>> \o seqs[i] = seqs[i]
        BY <4>2, ConcatEmptySeq
      <4> QED
        BY <3>1, <4>1, <4>3
    <3>2. CASE i # 1
      <4>1. i - 1 \in 1 .. n
        BY <1>1, <3>2
      <4>2. h[i] = f[i] /\ h[i - 1] = f[i - 1]
        BY <4>1
      <4> HIDE DEF h
      <4> QED
        BY <1>5, <3>2, <4>2
    <3> QED
      BY <3>1, <3>2
  <2>2. AreFlat(h, seqs)
    <3>1. h = [i \in 1 .. n |-> h[i]]
      OBVIOUS
    <3> HIDE DEF h
    <3>2. h = [i \in 1 .. n |-> IF i = 1 THEN seqs[i] ELSE h[i - 1] \o seqs[i]]
      BY <2>1, <3>1
    <3> QED
      BY <3>2 DEF AreFlat
  <2>3. AreFlat(g, seqs)
    BY <2>2
  <2>4. FlattenSeq(seqs) = g[n]
    BY <1>8 DEF FlattenSeq, AreFlat
  <2> HIDE DEF g, h
  <2>5. \A i \in 1 .. n : g[i] = IF i = 1 THEN seqs[i] ELSE g[i - 1] \o seqs[i]
    BY <2>3 DEF AreFlat
  <2> DEFINE e == [k \in 0 .. n |-> IF k = 0 THEN <<>> ELSE g[k]]
  <2>6. e[0] = f[0]
    BY <1>1, <1>4
  <2>7. ASSUME NEW k \in 1 .. n, e[k - 1] = f[k - 1] PROVE e[k] = f[k]
    <3>1. e[k] = g[k]
      BY <1>1
    <3>2. CASE k = 1
      BY <2>1, <2>5, <3>1, <3>2 DEF h
    <3>3. CASE k # 1
      <4>1. e[k - 1] = g[k - 1]
        BY <1>1, <3>3
      <4> HIDE DEF e
      <4> QED
        BY <1>5, <2>5, <2>7, <3>1, <3>3, <4>1
    <3> QED
      BY <3>2, <3>3
  <2>8. n \in 0 .. n /\ e[n] = g[n]
    BY <1>1, <1>8
  <2> HIDE DEF e, n
  <2>9. \A k \in 0 .. n : e[k] = f[k]
    BY <1>1, <2>6, <2>7, RecursionIsUnique, ZenonT(60)
  <2>10. FlattenSeq(seqs) = f[n]
    BY <2>4, <2>8, <2>9
  <2> QED
    BY <1>6, <2>10 DEF n
<1> QED
  BY <1>7, <1>8

Stands(items, type, j, id) == j \in 1 .. Len(items) /\ items[j] = Item(type, id)

(* What is known of the items of an input with the first u answers: their  *)
(* reasoning is there in its order, there are no calls or reasoning items  *)
(* but theirs, and a reasoning item stands before the calls of its answer  *)
(* and of those after it, and behind the calls of those before it.         *)
Replays(items, u, flat) ==
  /\ Numbers(items, "reasoning") = flat[u]
  /\ \A j, id : Stands(items, "reasoning", j, id) =>
       \E a \in 1 .. u : id \in IdsGiven(answers[a], "reasoning")
  /\ \A j, id : Stands(items, "function_call", j, id) =>
       \E a \in 1 .. u : id \in IdsGiven(answers[a], "call")
  /\ \A a, b \in 1 .. u :
       \A r \in IdsGiven(answers[a], "reasoning"), c \in IdsGiven(answers[b], "call") :
         \A j, k : Stands(items, "reasoning", j, r) /\ Stands(items, "function_call", k, c)
                     => (a <= b <=> j < k)

(* An item of another type changes none of it.                             *)
LEMMA OtherItemReplays ==
  ASSUME NEW items \in Seq(Items), NEW u, NEW flat, Replays(items, u, flat),
         NEW x \in Items, x.type \notin {"reasoning", "function_call"}
  PROVE  Replays(Append(items, x), u, flat)
<1> DEFINE n == Len(items)
           t == Append(items, x)
<1>1. /\ n \in Nat /\ Len(t) = n + 1 /\ t[n + 1] = x /\ \A k \in 1 .. n : t[k] = items[k]
  BY AppendProperties, LenProperties
<1>2. Numbers(t, "reasoning") = Numbers(items, "reasoning")
  <2> DEFINE y == <<x>>
  <2>1. y \in Seq(Items) /\ Len(y) = 1 /\ \A k \in 1 .. Len(y) : y[k].type # "reasoning"
    OBVIOUS
  <2>2. t = items \o y
    OBVIOUS
  <2> HIDE DEF y, t
  <2>3. Numbers(t, "reasoning") = Numbers(items, "reasoning") \o Numbers(y, "reasoning")
    BY <2>1, <2>2, NumbersOfConcat
  <2>4. Numbers(y, "reasoning") = <<>>
    BY <2>1, NumbersOfOthers
  <2>5. Numbers(items, "reasoning") \in Seq(Nat)
    BY NumbersProperties
  <2> QED
    BY <2>3, <2>4, <2>5, ConcatEmptySeq
<1> HIDE DEF t
<1>3. ASSUME NEW type \in {"reasoning", "function_call"}, NEW j, NEW id,
             Stands(t, type, j, id)
      PROVE  Stands(items, type, j, id)
  <2>1. j # n + 1
    BY <1>1, <1>3 DEF Stands, Item
  <2>2. j \in 1 .. n
    BY <1>1, <1>3, <2>1 DEF Stands
  <2> QED
    BY <1>1, <1>3, <2>2 DEF Stands
<1> HIDE DEF n
<1>4. Replays(t, u, flat)
  BY <1>2, <1>3 DEF Replays
<1> QED
  BY <1>4 DEF t

(* The reasoning among the items that an assistant message adds is its own. *)
LEMMA NumbersOfAdded ==
  ASSUME NEW s \in Seq(Items), NEW m \in Messages
  PROVE  Numbers(Added(s, m), "reasoning") = Numbers(s, "reasoning") \o m.extra.items
<1> DEFINE r == ReasoningItems(m.extra)
           x == TextItems(m)
           c == CallItems(m.calls)
           e == m.extra.items
           N(items) == Numbers(items, "reasoning")
<1>1. m.extra \in Extras /\ m.calls \in Seq(Calls) /\ e \in Seq(Nat)
  BY DEF Messages, Extras
<1>2. /\ r \in Seq(Items) /\ Len(r) = Len(e)
      /\ \A k \in 1 .. Len(e) : r[k] = Item("reasoning", e[k])
  BY <1>1, ReasoningItemsType
<1>3. /\ c \in Seq(Items) /\ Len(c) = Len(m.calls)
      /\ \A k \in 1 .. Len(m.calls) : c[k] = Item("function_call", m.calls[k].id)
  BY <1>1, CallItemsType
<1>4. x \in Seq(Items) /\ \A k \in 1 .. Len(x) : x[k] = Item("output_text", 0)
  BY TextItemsType
<1> HIDE DEF r, x, c
<1>5. N(x) = <<>> /\ N(c) = <<>>
  <2>1. \A k \in 1 .. Len(x) : x[k].type # "reasoning"
    BY <1>4 DEF Item
  <2>2. \A k \in 1 .. Len(c) : c[k].type # "reasoning"
    <3> SUFFICES ASSUME NEW k \in 1 .. Len(c) PROVE c[k].type # "reasoning"
      OBVIOUS
    <3>1. c[k] = Item("function_call", m.calls[k].id)
      BY <1>3
    <3> QED
      BY <3>1 DEF Item
  <2> QED
    BY <1>3, <1>4, <2>1, <2>2, NumbersOfOthers
<1>6. N(r) = e
  <2>1. \A k \in 1 .. Len(r) : r[k].type = "reasoning" /\ r[k].id = e[k]
    <3> SUFFICES ASSUME NEW k \in 1 .. Len(r)
                 PROVE  r[k].type = "reasoning" /\ r[k].id = e[k]
      OBVIOUS
    <3>1. r[k] = Item("reasoning", e[k])
      BY <1>2
    <3> QED
      BY <3>1 DEF Item
  <2>2. N(r) = [k \in 1 .. Len(r) |-> r[k].id]
    BY <1>2, <2>1, NumbersOfAll
  <2>3. e = [k \in 1 .. Len(e) |-> e[k]]
    BY <1>1
  <2> HIDE DEF e, N
  <2> QED
    BY <1>2, <2>1, <2>2, <2>3
<1> HIDE DEF e
<1>7. N(s) \in Seq(Nat)
  BY NumbersProperties
<1>8. ASSUME NEW a \in Seq(Items), NEW b \in Seq(Items)
      PROVE  a \o b \in Seq(Items) /\ N(a \o b) = N(a) \o N(b)
  BY NumbersOfConcat, ConcatProperties
<1> HIDE DEF N
<1>9. s \o r \in Seq(Items) /\ N(s \o r) = N(s) \o e
  BY <1>2, <1>6, <1>8
<1>10. N(s) \o e \in Seq(Nat)
  BY <1>1, <1>7, ConcatProperties
<1>11. (s \o r) \o x \in Seq(Items) /\ N((s \o r) \o x) = N(s \o r) \o N(x)
  BY <1>4, <1>8, <1>9
<1>12. N((s \o r) \o x \o c) = N((s \o r) \o x) \o N(c)
  BY <1>3, <1>8, <1>11
<1>13. Added(s, m) = s \o r \o x \o c
  BY DEF Added, r, x, c
<1>14. N(s \o r \o x \o c) = N(s) \o e
  BY <1>5, <1>9, <1>10, <1>11, <1>12, ConcatEmptySeq
<1> QED
  BY <1>13, <1>14 DEF N, e

(* What is rejected stays rejected.                                        *)
LEMMA OkBefore ==
  ASSUME NEW acc, NEW m, WithMessage(acc, m).ok
  PROVE  acc.ok
BY RejectedType DEF WithMessage

(* The answer of number u adds its reasoning items and its calls.          *)
LEMMA AnswerReplays ==
  ASSUME Typed, IdsAreFresh, NEW acc \in Accs, NEW m \in Messages,
         NEW u \in 1 .. Len(answers), IsAnswer(m, answers[u]), WithMessage(acc, m).ok,
         NEW flat, flat[u] = flat[u - 1] \o Numbers(answers[u], "reasoning"),
         Replays(acc.items, u - 1, flat)
  PROVE  Replays(WithMessage(acc, m).items, u, flat)
<1> DEFINE s == acc.items
           o == answers[u]
           e == m.extra.items
           calls == Numbers(o, "call")
           t == Added(s, m)
           n == Len(answers)
<1>1. /\ n \in Nat /\ u \in Nat /\ u - 1 \in Nat /\ \A a \in 1 .. u : a \in Nat /\ a \in 1 .. n
      /\ \A a \in 1 .. u : a = u \/ a \in 1 .. u - 1
      /\ \A a \in 1 .. u - 1 : a \in 1 .. u /\ a < u
  <2>1. n \in Nat
    BY LenProperties DEF Typed
  <2> HIDE DEF n
  <2> QED
    BY <2>1 DEF n
<1>2. s \in Seq(Items) /\ o \in Seq(Items)
  BY DEF Accs, Typed
<1>3. WithMessage(acc, m).items = t
  <2>1. WithMessage(acc, m) = AssistantTurn(acc, m)
    BY RejectedType DEF WithMessage, IsAnswer
  <2>2. AssistantTurn(acc, m) # Rejected
    BY <2>1, RejectedType
  <2> QED
    BY <2>1, <2>2, AssistantTurnDoes
<1>4. e = Numbers(o, "reasoning")
  BY DEF IsAnswer
<1>5. m.calls = [k \in DOMAIN calls |-> Call(calls[k], "lookup", TRUE)]
  BY DEF IsAnswer
<1>6. Numbers(t, "reasoning") = flat[u]
  BY <1>2, <1>4, NumbersOfAdded DEF Replays
<1>7. PICK first : Placed(t, first, s, m)
  BY <1>2, AddedItems
<1> DEFINE q == Len(s)
           w == Len(e)
           l == Len(m.calls)
<1>8. /\ first \in Nat /\ q \in Nat /\ w \in Nat /\ l \in Nat
      /\ Len(t) = first + l /\ first >= q + w
      /\ \A k \in 1 .. q : t[k] = s[k]
      /\ \A k \in 1 .. w : t[q + k] = Item("reasoning", e[k])
      /\ \A k \in q + w + 1 .. first : t[k] = Item("output_text", 0)
      /\ \A k \in 1 .. l : t[first + k] = Item("function_call", m.calls[k].id)
  BY <1>7 DEF Placed
<1>9. \A k \in 1 .. w : e[k] \in IdsGiven(o, "reasoning")
  <2>1. e \in Seq(Nat)
    BY <1>2, <1>4, NumbersProperties
  <2>2. DOMAIN e = 1 .. w
    BY <2>1, LenProperties
  <2> QED
    BY <1>4, <2>2 DEF IdsGiven, ToSet
<1>10. \A k \in 1 .. l : m.calls[k].id \in IdsGiven(o, "call")
  <2>1. calls \in Seq(Nat) /\ DOMAIN calls = 1 .. Len(calls)
    BY <1>2, NumbersProperties, LenProperties
  <2>2. m.calls \in Seq(Calls) /\ DOMAIN m.calls = 1 .. l
    BY LenProperties DEF Messages
  <2> HIDE DEF calls, l
  <2>3. \A k \in DOMAIN m.calls : k \in DOMAIN calls /\ m.calls[k].id = calls[k]
    BY <1>5 DEF Call
  <2> QED
    BY <2>2, <2>3 DEF IdsGiven, ToSet, calls
<1>11. ASSUME NEW type \in {"reasoning", "call"}, NEW a \in 1 .. u, NEW b \in 1 .. u,
              NEW id \in IdsGiven(answers[a], type), id \in IdsGiven(answers[b], type)
       PROVE  a = b
  BY <1>1, <1>11 DEF IdsAreFresh
<1> HIDE DEF t, q, w, l, e, calls, n
(* Where a reasoning item stands, and where a call.                        *)
<1>12. ASSUME NEW j, NEW id, Stands(t, "reasoning", j, id)
       PROVE  \/ j \in 1 .. q /\ Stands(s, "reasoning", j, id)
              \/ /\ j \in Nat /\ q < j /\ j <= q + w
                 /\ id \in IdsGiven(o, "reasoning")
  <2>1. j \in 1 .. first + l /\ t[j] = Item("reasoning", id)
    BY <1>8, <1>12 DEF Stands
  <2>2. j \in Nat
    BY <1>8, <2>1
  <2>3. CASE j <= q
    <3>1. j \in 1 .. q
      BY <1>8, <2>1, <2>2, <2>3
    <3> QED
      BY <1>8, <2>1, <3>1 DEF Stands, q
  <2>4. CASE q < j /\ j <= q + w
    <3> DEFINE k == j - q
    <3>1. k \in 1 .. w /\ q + k = j
      BY <1>8, <2>2, <2>4
    <3> HIDE DEF k
    <3>2. Item("reasoning", id) = Item("reasoning", e[k])
      BY <1>8, <2>1, <3>1
    <3>3. id = e[k]
      BY <3>2 DEF Item
    <3> QED
      BY <1>9, <2>2, <2>4, <3>1, <3>3
  <2>5. CASE q + w < j /\ j <= first
    <3>1. j \in q + w + 1 .. first
      BY <1>8, <2>2, <2>5
    <3>2. Item("reasoning", id) = Item("output_text", 0)
      BY <1>8, <2>1, <3>1
    <3> QED
      BY <3>2 DEF Item
  <2>6. CASE first < j
    <3> DEFINE k == j - first
    <3>1. k \in 1 .. l /\ first + k = j
      BY <1>8, <2>1, <2>2, <2>6
    <3> HIDE DEF k
    <3>2. Item("reasoning", id) = Item("function_call", m.calls[k].id)
      BY <1>8, <2>1, <3>1
    <3> QED
      BY <3>2 DEF Item
  <2> QED
    BY <1>8, <2>2, <2>3, <2>4, <2>5, <2>6
<1>13. ASSUME NEW j, NEW id, Stands(t, "function_call", j, id)
       PROVE  \/ j \in 1 .. q /\ Stands(s, "function_call", j, id)
              \/ j \in Nat /\ first < j /\ id \in IdsGiven(o, "call")
  <2>1. j \in 1 .. first + l /\ t[j] = Item("function_call", id)
    BY <1>8, <1>13 DEF Stands
  <2>2. j \in Nat
    BY <1>8, <2>1
  <2>3. CASE j <= q
    <3>1. j \in 1 .. q
      BY <1>8, <2>1, <2>2, <2>3
    <3> QED
      BY <1>8, <2>1, <3>1 DEF Stands, q
  <2>4. CASE q < j /\ j <= q + w
    <3> DEFINE k == j - q
    <3>1. k \in 1 .. w /\ q + k = j
      BY <1>8, <2>2, <2>4
    <3> HIDE DEF k
    <3>2. Item("function_call", id) = Item("reasoning", e[k])
      BY <1>8, <2>1, <3>1
    <3> QED
      BY <3>2 DEF Item
  <2>5. CASE q + w < j /\ j <= first
    <3>1. j \in q + w + 1 .. first
      BY <1>8, <2>2, <2>5
    <3>2. Item("function_call", id) = Item("output_text", 0)
      BY <1>8, <2>1, <3>1
    <3> QED
      BY <3>2 DEF Item
  <2>6. CASE first < j
    <3> DEFINE k == j - first
    <3>1. k \in 1 .. l /\ first + k = j
      BY <1>8, <2>1, <2>2, <2>6
    <3> HIDE DEF k
    <3>2. Item("function_call", id) = Item("function_call", m.calls[k].id)
      BY <1>8, <2>1, <3>1
    <3>3. id = m.calls[k].id
      BY <3>2 DEF Item
    <3> QED
      BY <1>10, <2>2, <2>6, <3>1, <3>3
  <2> QED
    BY <1>8, <2>2, <2>3, <2>4, <2>5, <2>6
<1>14. ASSUME NEW j, NEW id, Stands(s, "reasoning", j, id)
       PROVE  \E a \in 1 .. u - 1 : id \in IdsGiven(answers[a], "reasoning")
  BY <1>14 DEF Replays
<1>15. ASSUME NEW j, NEW id, Stands(s, "function_call", j, id)
       PROVE  \E a \in 1 .. u - 1 : id \in IdsGiven(answers[a], "call")
  BY <1>15 DEF Replays
<1>16. u \in 1 .. u
  BY <1>1
<1>17. ASSUME NEW j, NEW id, Stands(t, "reasoning", j, id)
       PROVE  \E a \in 1 .. u : id \in IdsGiven(answers[a], "reasoning")
  BY <1>1, <1>12, <1>14, <1>16, <1>17
<1>18. ASSUME NEW j, NEW id, Stands(t, "function_call", j, id)
       PROVE  \E a \in 1 .. u : id \in IdsGiven(answers[a], "call")
  BY <1>1, <1>13, <1>15, <1>16, <1>18
<1>19. ASSUME NEW a \in 1 .. u, NEW b \in 1 .. u,
              NEW r \in IdsGiven(answers[a], "reasoning"),
              NEW c \in IdsGiven(answers[b], "call"), NEW j, NEW k,
              Stands(t, "reasoning", j, r), Stands(t, "function_call", k, c)
       PROVE  a <= b <=> j < k
  <2>1. \/ j \in 1 .. q /\ Stands(s, "reasoning", j, r) /\ a \in 1 .. u - 1
        \/ j \in Nat /\ q < j /\ j <= q + w /\ a = u
    <3>1. CASE j \in 1 .. q /\ Stands(s, "reasoning", j, r)
      <4>1. PICK d \in 1 .. u - 1 : r \in IdsGiven(answers[d], "reasoning")
        BY <1>14, <3>1
      <4>2. d \in 1 .. u
        BY <1>1
      <4>3. a = d
        BY <1>11, <4>1, <4>2
      <4> QED
        BY <3>1, <4>3
    <3>2. CASE j \in Nat /\ q < j /\ j <= q + w /\ r \in IdsGiven(o, "reasoning")
      <4>1. a = u
        BY <1>11, <1>16, <3>2
      <4> QED
        BY <3>2, <4>1
    <3> QED
      BY <1>12, <1>19, <3>1, <3>2
  <2>2. \/ k \in 1 .. q /\ Stands(s, "function_call", k, c) /\ b \in 1 .. u - 1
        \/ k \in Nat /\ first < k /\ b = u
    <3>1. CASE k \in 1 .. q /\ Stands(s, "function_call", k, c)
      <4>1. PICK d \in 1 .. u - 1 : c \in IdsGiven(answers[d], "call")
        BY <1>15, <3>1
      <4>2. d \in 1 .. u
        BY <1>1
      <4>3. b = d
        BY <1>11, <4>1, <4>2
      <4> QED
        BY <3>1, <4>3
    <3>2. CASE k \in Nat /\ first < k /\ c \in IdsGiven(o, "call")
      <4>1. b = u
        BY <1>11, <1>16, <3>2
      <4> QED
        BY <3>2, <4>1
    <3> QED
      BY <1>13, <1>19, <3>1, <3>2
  <2>3. CASE /\ Stands(s, "reasoning", j, r) /\ a \in 1 .. u - 1
             /\ Stands(s, "function_call", k, c) /\ b \in 1 .. u - 1
    BY <2>3 DEF Replays
  <2>4. CASE /\ j \in 1 .. q /\ a \in 1 .. u - 1
             /\ k \in Nat /\ first < k /\ b = u
    BY <1>1, <1>8, <2>4
  <2>5. CASE /\ j \in Nat /\ q < j /\ a = u
             /\ k \in 1 .. q /\ b \in 1 .. u - 1
    BY <1>1, <1>8, <2>5
  <2>6. CASE /\ j \in Nat /\ j <= q + w /\ a = u
             /\ k \in Nat /\ first < k /\ b = u
    BY <1>1, <1>8, <2>6
  <2> QED
    BY <2>1, <2>2, <2>3, <2>4, <2>5, <2>6
<1> HIDE DEF s, o
<1>20. Replays(t, u, flat)
  BY <1>6, <1>17, <1>18, <1>19 DEF Replays
<1> QED
  BY <1>3, <1>20

(* One message more of an honest history replays what it should.           *)
LEMMA MessageReplays ==
  ASSUME Typed, IdsAreFresh, NEW upto, IsHonest(history, answers, upto),
         NEW k \in 1 .. Len(history), NEW acc \in Accs, WithMessage(acc, history[k]).ok,
         NEW flat,
         \A u \in 1 .. Len(answers) :
           flat[u] = flat[u - 1] \o Numbers(answers[u], "reasoning"),
         Replays(acc.items, upto[k - 1], flat)
  PROVE  Replays(WithMessage(acc, history[k]).items, upto[k], flat)
<1> DEFINE m == history[k]
           v == upto[k - 1]
           u == upto[k]
           b == WithMessage(acc, m)
           n == Len(answers)
<1>1. /\ n \in Nat /\ v \in 0 .. n /\ u \in 0 .. n /\ m \in Messages
      /\ acc.items \in Seq(Items)
  <2>1. Len(history) \in Nat /\ Len(answers) \in Nat
    BY LenProperties DEF Typed
  <2>2. upto \in [0 .. Len(history) -> 0 .. n]
    BY DEF IsHonest
  <2>3. k \in 0 .. Len(history) /\ k - 1 \in 0 .. Len(history)
    BY <2>1
  <2>4. m \in Messages /\ acc.items \in Seq(Items)
    BY DEF Typed, Accs
  <2> HIDE DEF n, m
  <2> QED
    BY <2>1, <2>2, <2>3, <2>4 DEF n
<1>2. \/ IsPrompt(m) /\ u = v
      \/ IsFirstResult(history, k, answers, v) /\ u = v
      \/ u = v + 1 /\ IsAnswer(m, answers[u])
  BY DEF IsHonest
<1>3. b # Rejected
  BY RejectedType
<1>4. CASE IsPrompt(m) /\ u = v
  <2>1. b = OtherTurn(acc, m)
    BY <1>3, <1>4 DEF WithMessage, IsPrompt
  <2>2. b = acc \/ b.items = Append(acc.items, Item("input_text", 0))
    BY <1>1, <1>3, <2>1, OtherTurnDoes
  <2>3. Item("input_text", 0) \in Items
        /\ Item("input_text", 0).type \notin {"reasoning", "function_call"}
    BY DEF Item, Items, ItemTypes
  <2> HIDE DEF b
  <2> QED
    BY <1>1, <1>4, <2>2, <2>3, OtherItemReplays DEF b
<1>5. CASE IsFirstResult(history, k, answers, v) /\ u = v
  <2> DEFINE x == Item("function_call_output", m.answers)
  <2>1. b = ToolTurn(acc, m)
    BY <1>3, <1>5 DEF WithMessage, IsFirstResult
  <2>2. b.items = Append(acc.items, x)
    <3>1. ToolTurn(acc, m) # Rejected
      BY <1>3, <2>1
    <3> HIDE DEF b, m
    <3>2. ToolTurn(acc, m).items = Append(acc.items, x)
      BY <1>1, <3>1, ToolTurnDoes
    <3> QED
      BY <2>1, <3>2
  <2>3. x \in Items /\ x.type \notin {"reasoning", "function_call"}
    BY <1>1 DEF Item, Items, ItemTypes, Messages
  <2> HIDE DEF b, x
  <2> QED
    BY <1>1, <1>5, <2>2, <2>3, OtherItemReplays DEF b
<1>6. CASE u = v + 1 /\ IsAnswer(m, answers[u])
  <2>1. u \in 1 .. n /\ u - 1 = v
    BY <1>1, <1>6
  <2>2. flat[u] = flat[u - 1] \o Numbers(answers[u], "reasoning")
    BY <2>1
  <2> HIDE DEF u, v, m
  <2>3. Replays(WithMessage(acc, m).items, u, flat)
    BY <1>1, <1>6, <2>1, <2>2, AnswerReplays DEF v, m
  <2> QED
    BY <2>3 DEF u, m
<1> QED
  BY <1>2, <1>4, <1>5, <1>6

(* The input of an honest history, if it is built, replays the answers.    *)
LEMMA HonestInputReplays ==
  ASSUME Typed, IdsAreFresh, NEW upto, IsHonest(history, answers, upto),
         Input(history).ok,
         NEW flat, flat[0] = <<>>,
         \A u \in 1 .. Len(answers) :
           flat[u] = flat[u - 1] \o Numbers(answers[u], "reasoning")
  PROVE  Replays(Input(history).items, Len(answers), flat)
<1> DEFINE n == Len(history)
<1>1. n \in Nat /\ history \in Seq(Messages)
  BY LenProperties DEF Typed
<1>2. PICK f : Folded(f, history) /\ Input(history) = f[n]
  BY <1>1, InputExists
<1>3. /\ f \in [0 .. n -> Accs] /\ f[0] = Nothing
      /\ \A k \in 1 .. n : f[k] = WithMessage(f[k - 1], history[k])
  BY <1>2 DEF Folded
<1> DEFINE S == {k \in Nat : k <= n => (f[k].ok => Replays(f[k].items, upto[k], flat))}
<1>4. 0 \in S
  <2>1. upto[0] = 0
    BY DEF IsHonest
  <2>2. Replays(<<>>, 0, flat)
    <3>1. Numbers(<<>>, "reasoning") = <<>>
      BY NumbersOfNone
    <3>2. ~\E j : j \in 1 .. Len(<<>>)
      OBVIOUS
    <3> QED
      BY <3>1, <3>2 DEF Replays, Stands
  <2> QED
    BY <1>3, <2>1, <2>2, NothingType
<1>5. ASSUME NEW k \in S PROVE k + 1 \in S
  <2> SUFFICES ASSUME k + 1 <= n, f[k + 1].ok
               PROVE  Replays(f[k + 1].items, upto[k + 1], flat)
    OBVIOUS
  <2> DEFINE j == k + 1
  <2>1. j \in 1 .. n /\ j - 1 = k /\ j - 1 \in 0 .. n
    BY <1>1
  <2>2. f[k].ok => Replays(f[k].items, upto[k], flat)
    BY <2>1
  <2>3. f[j].ok
    OBVIOUS
  <2> HIDE DEF j, S
  <2>4. f[j - 1] \in Accs /\ f[j] = WithMessage(f[j - 1], history[j])
    BY <1>3, <2>1
  <2>5. f[j - 1].ok
    BY <2>3, <2>4, OkBefore
  <2>6. Replays(f[j - 1].items, upto[j - 1], flat)
    BY <2>1, <2>2, <2>5
  <2>7. Replays(f[j].items, upto[j], flat)
    BY <2>1, <2>3, <2>4, <2>6, MessageReplays
  <2> QED
    BY <2>7 DEF j
<1>6. n \in S
  <2> HIDE DEF S
  <2> QED
    BY <1>1, <1>4, <1>5, SetInduction
<1>7. Replays(f[n].items, upto[n], flat)
  BY <1>1, <1>2, <1>6
<1> QED
  BY <1>2, <1>7 DEF IsHonest

(* In a state of the invariant the request replays the reasoning.          *)
LEMMA InvReplays == Inv => ReasoningIsReplayed
<1> SUFFICES ASSUME Inv, changes = 0, request.status = "built"
             PROVE  /\ Numbers(request.items, "reasoning")
                         = FlattenSeq([a \in DOMAIN answers |-> Numbers(answers[a], "reasoning")])
                    /\ \A a, b \in DOMAIN answers :
                         \A r \in ToSet(Numbers(answers[a], "reasoning")),
                            c \in ToSet(Numbers(answers[b], "call")) :
                           \A j \in Positions("reasoning", r),
                              k \in Positions("function_call", c) :
                             a <= b <=> j < k
  BY DEF ReasoningIsReplayed, Unchanged
<1> DEFINE n == Len(answers)
           raws == [a \in 1 .. n |-> Numbers(answers[a], "reasoning")]
<1>1. n \in Nat /\ DOMAIN answers = 1 .. n
  BY LenProperties DEF Inv, Typed
<1>2. raws \in Seq(Seq(Nat)) /\ Len(raws) = n
  <2>1. \A a \in 1 .. n : Numbers(answers[a], "reasoning") \in Seq(Nat)
    <3> SUFFICES ASSUME NEW a \in 1 .. n PROVE Numbers(answers[a], "reasoning") \in Seq(Nat)
      OBVIOUS
    <3>1. answers[a] \in Seq(Items)
      BY DEF Inv, Typed
    <3> QED
      BY <3>1, NumbersProperties
  <2>2. raws \in [1 .. n -> Seq(Nat)]
    BY <2>1
  <2> HIDE DEF raws, n
  <2> QED
    BY <1>1, <2>2
<1>3. \A a \in 1 .. n : raws[a] = Numbers(answers[a], "reasoning")
  OBVIOUS
<1>4. raws = [a \in DOMAIN answers |-> Numbers(answers[a], "reasoning")]
  BY <1>1
<1> HIDE DEF raws
<1>5. PICK flat : Flattened(flat, raws) /\ FlattenSeq(raws) = flat[Len(raws)]
  BY <1>2, FlattenExists
<1>6. /\ flat[0] = <<>>
      /\ \A u \in 1 .. n : flat[u] = flat[u - 1] \o Numbers(answers[u], "reasoning")
  BY <1>2, <1>3, <1>5 DEF Flattened
<1>7. request.items = Input(history).items /\ Input(history).ok
  <2>1. request # NoRequest
    BY DEF NoRequest
  <2>2. PICK opts \in Options : request = Request(history, opts)
    BY <2>1 DEF Inv, RequestIsCurrent
  <2> QED
    BY <2>2, RequestIsInput
<1>8. PICK upto : IsHonest(history, answers, upto)
  BY DEF Inv, HistoryIsHonest
<1>9. Replays(request.items, n, flat)
  BY <1>6, <1>7, <1>8, HonestInputReplays DEF Inv
<1>10. Numbers(request.items, "reasoning") = FlattenSeq(raws)
  BY <1>2, <1>5, <1>9 DEF Replays
<1>11. DOMAIN request.items = 1 .. Len(request.items)
  <2>1. request.items \in Seq(Items)
    BY <1>7, InputIsPaired DEF Accs, Inv, Typed
  <2> QED
    BY <2>1, LenProperties
<1>12. ASSUME NEW a \in 1 .. n, NEW b \in 1 .. n,
              NEW r \in ToSet(Numbers(answers[a], "reasoning")),
              NEW c \in ToSet(Numbers(answers[b], "call")),
              NEW j \in Positions("reasoning", r), NEW k \in Positions("function_call", c)
       PROVE  a <= b <=> j < k
  <2>1. /\ Stands(request.items, "reasoning", j, r)
        /\ Stands(request.items, "function_call", k, c)
    BY <1>11 DEF Stands, Positions
  <2> HIDE DEF n
  <2> QED
    BY <1>9, <2>1 DEF Replays, IdsGiven
<1> HIDE DEF n
<1> QED
  BY <1>1, <1>4, <1>10, <1>12

(* Every request of a caller that changes nothing replays all reasoning    *)
(* items of the answers, once and in their order, each before the calls of *)
(* its answer and behind those of the answers before                       *)
(* (decodeResponsesResponse, responsesReasoningFromExtra).                 *)
THEOREM ReasoningStaysReplayed == Spec => []ReasoningIsReplayed
BY InvReplays, InvHolds, PTL

=============================================================================
