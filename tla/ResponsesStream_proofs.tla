------------------------- MODULE ResponsesStream_proofs -----------------------
(***************************************************************************)
(* Proofs about ResponsesStream, for any number of outputs, ids, texts and *)
(* any budget.                                                             *)
(*                                                                         *)
(* Every handler takes the state to another by a Step on one output: what  *)
(* it may do to the fields of that output, and the chunk, if any, that     *)
(* tells the caller of it.  Whatever the chunks sent so far say of the     *)
(* state (Covers) is preserved by a Step (StepCovers), so that one lemma   *)
(* per handler is enough, and response.completed, which takes a step for   *)
(* every item, follows by induction over the items.                        *)
(***************************************************************************)
EXTENDS ResponsesStream, Pipe_proofs

-----------------------------------------------------------------------------
(* Types *)

Tokens == UNION {Range(t) : t \in Texts \cup ArgumentTexts}
Contents == Seq(Tokens)

CallRecords ==
  [index : Int, callID : CallIDs \cup {NoID}, args : Contents,
   doneArgs : ArgumentTexts \cup {<<None>>}, sawDelta : BOOLEAN, completed : BOOLEAN]

States ==
  [outputs   : [Index -> ItemTypes \cup {None}],
   calls     : [Index -> CallRecords],
   callIDs   : [CallIDs -> Index \cup {-1}],
   outputIDs : [Index -> ItemIDs \cup {NoID}],
   itemIDs   : [ItemIDs -> Index \cup {-1}],
   reasoning : [Index -> RawReasoning \cup {None}],
   finished  : [Index -> BOOLEAN],
   text      : [Index -> Contents],
   nextCall  : Nat,
   retained  : Nat]

Chunks ==
  [kind : {"text", "reasoning", "call"}, output : Index, index : Int,
   callID : CallIDs \cup {NoID}, data : Contents]

(* The texts of events are sequences of tokens. *)
LEMMA TextsAreContents == Texts \cup ArgumentTexts \subseteq Contents
<1> SUFFICES ASSUME NEW t \in Texts \cup ArgumentTexts PROVE t \in Contents
  OBVIOUS
<1>1. t \in Seq(Range(t))
  BY ResponsesAssumption
<1>2. Range(t) \subseteq Tokens
  BY DEF Tokens
<1>3. Len(t) \in Nat /\ DOMAIN t = 1 .. Len(t) /\ \A k \in 1 .. Len(t) : t[k] \in Range(t)
  BY <1>1
<1>4. t = [k \in 1 .. Len(t) |-> t[k]]
  BY <1>1
<1> QED
  BY <1>1, <1>2, <1>3 DEF Contents

(* Index is a finite set. *)
LEMMA IndexIsFinite == IsFiniteSet(Index) /\ -1 \notin Index /\ Index \subseteq Nat
BY ResponsesAssumption, FS_Interval DEF Index

(* The items of an event, by type. *)
LEMMA ItemFields ==
  ASSUME NEW item \in Items
  PROVE  /\ item.id \in ItemIDs \cup {NoID}
         /\ item.type \in ItemTypes
         /\ item.type = "message" => item.text \in Contents
         /\ item.type = "function_call" =>
              item.callID \in CallIDs \cup {NoID} /\ item.args \in ArgumentTexts
                /\ item.args \in Contents
         /\ item.type = "reasoning" => item.raw \in RawReasoning
<1>1. CASE \E id \in ItemIDs \cup {NoID}, t \in Texts : item = MessageItem(id, t)
  BY <1>1, TextsAreContents DEF MessageItem, ItemTypes
<1>2. CASE \E id \in ItemIDs \cup {NoID}, c \in CallIDs \cup {NoID}, a \in ArgumentTexts :
             item = CallItem(id, c, a)
  BY <1>2, TextsAreContents DEF CallItem, ItemTypes
<1>3. CASE \E id \in ItemIDs \cup {NoID}, r \in RawReasoning : item = ReasoningItem(id, r)
  BY <1>3 DEF ReasoningItem, ItemTypes
<1> QED
  BY <1>1, <1>2, <1>3 DEF Items

-----------------------------------------------------------------------------
(* What the chunks sent so far add up to *)

(* The chunks of one output, when one more is sent.                        *)
LEMMA ChunksOfAppend ==
  ASSUME NEW sent \in Seq(Chunks), NEW c \in Chunks, NEW i, NEW kind
  PROVE  /\ ChunksOf(sent, i, kind) \subseteq 1 .. Len(sent)
         /\ ChunksOf(Append(sent, c), i, kind) =
              IF c.kind = kind /\ c.output = i
              THEN ChunksOf(sent, i, kind) \cup {Len(sent) + 1} ELSE ChunksOf(sent, i, kind)
<1> DEFINE n == Len(sent)
           t == Append(sent, c)
<1>1. /\ n \in Nat /\ DOMAIN sent = 1 .. n /\ DOMAIN t = 1 .. n + 1
      /\ t[n + 1] = c /\ \A k \in 1 .. n : t[k] = sent[k]
  BY AppendProperties, LenProperties
<1>2. \A k \in 1 .. n + 1 : k \in 1 .. n \/ k = n + 1
  BY <1>1
<1>3. \A k \in 1 .. n : k \in 1 .. n + 1 /\ k # n + 1
  BY <1>1
<1>4. n + 1 \in 1 .. n + 1
  BY <1>1
<1> HIDE DEF n, t
<1>5. ChunksOf(sent, i, kind) = {k \in 1 .. n : sent[k].kind = kind /\ sent[k].output = i}
  BY <1>1 DEF ChunksOf
<1>6. ChunksOf(t, i, kind) = {k \in 1 .. n + 1 : t[k].kind = kind /\ t[k].output = i}
  BY <1>1 DEF ChunksOf
<1>7. CASE c.kind = kind /\ c.output = i
  BY <1>1, <1>2, <1>3, <1>4, <1>5, <1>6, <1>7 DEF n, t
<1>8. CASE ~(c.kind = kind /\ c.output = i)
  BY <1>1, <1>2, <1>3, <1>4, <1>5, <1>6, <1>8 DEF n, t
<1> QED
  BY <1>7, <1>8

(* What an output was sent is joined chunk by chunk.                       *)
IsTheJoin(f, sent, i, kind) ==
  f = [k \in 0 .. Len(sent) |->
         IF k = 0 THEN <<>>
         ELSE IF k \in ChunksOf(sent, i, kind) THEN f[k - 1] \o sent[k].data
         ELSE f[k - 1]]

(* The join exists.                                                        *)
LEMMA JoinExists ==
  ASSUME NEW sent \in Seq(Chunks), NEW i, NEW kind
  PROVE  \E f \in [0 .. Len(sent) -> Contents] :
           IsTheJoin(f, sent, i, kind) /\ DeliveredData(sent, i, kind) = f[Len(sent)]
<1> DEFINE n == Len(sent)
           step == [k \in 1 .. n |-> [v \in Contents |->
                      IF k \in ChunksOf(sent, i, kind) THEN v \o sent[k].data ELSE v]]
<1>1. n \in Nat
  BY LenProperties
<1>2. ASSUME NEW v \in Contents, NEW k \in 1 .. n
      PROVE  /\ step[k][v] = IF k \in ChunksOf(sent, i, kind) THEN v \o sent[k].data ELSE v
             /\ step[k][v] \in Contents
  <2>1. step[k][v] = IF k \in ChunksOf(sent, i, kind) THEN v \o sent[k].data ELSE v
    OBVIOUS
  <2>2. sent[k].data \in Contents
    <3>1. sent[k] \in Chunks
      OBVIOUS
    <3> QED
      BY <3>1 DEF Chunks
  <2>3. step[k][v] \in Contents
    <3> HIDE DEF step
    <3> QED
      BY <2>1, <2>2, ConcatProperties DEF Contents
  <2> QED
    BY <2>1, <2>3
<1>3. step \in [1 .. n -> [Contents -> Contents]]
  BY <1>2
<1>4. PICK f \in [0 .. n -> Contents] :
        f[0] = <<>> /\ \A k \in 1 .. n : f[k] = step[k][f[k - 1]]
  <2> DEFINE c == <<>>
  <2>1. c \in Contents
    BY DEF Contents
  <2> HIDE DEF step, n, c
  <2>2. \E f \in [0 .. n -> Contents] :
          f[0] = c /\ \A k \in 1 .. n : f[k] = step[k][f[k - 1]]
    BY <1>1, <1>3, <2>1, RecursionExists
  <2> QED
    BY <2>2 DEF c
<1>5. IsTheJoin(f, sent, i, kind)
  <2>1. ASSUME NEW k \in 1 .. n
        PROVE  f[k] = IF k \in ChunksOf(sent, i, kind) THEN f[k - 1] \o sent[k].data
                      ELSE f[k - 1]
    <3>1. f[k - 1] \in Contents
      BY <1>1
    <3> HIDE DEF step
    <3> QED
      BY <1>2, <1>4, <3>1
  <2>2. f = [k \in 0 .. n |-> f[k]]
    OBVIOUS
  <2>3. \A k \in 0 .. n : k # 0 => k \in 1 .. n
    BY <1>1
  <2> HIDE DEF n, step
  <2>4. \A k \in 0 .. n :
          f[k] = IF k = 0 THEN <<>>
                 ELSE IF k \in ChunksOf(sent, i, kind) THEN f[k - 1] \o sent[k].data
                      ELSE f[k - 1]
    BY <1>4, <2>1, <2>3
  <2>5. f = [k \in 0 .. n |->
                 IF k = 0 THEN <<>>
                 ELSE IF k \in ChunksOf(sent, i, kind) THEN f[k - 1] \o sent[k].data
                      ELSE f[k - 1]]
    BY <2>2, <2>4
  <2> QED
    BY <2>5 DEF IsTheJoin, n
<1> DEFINE g == CHOOSE h : IsTheJoin(h, sent, i, kind)
<1>6. IsTheJoin(g, sent, i, kind)
  BY <1>5
<1>7. DeliveredData(sent, i, kind) = g[Len(sent)]
  BY DEF DeliveredData, IsTheJoin
<1>8. \A k \in 0 .. n : g[k] = f[k]
  <2>1. g[0] = f[0] /\ \A k \in 1 .. n : g[k - 1] = f[k - 1] => g[k] = f[k]
    <3>1. \A k \in 0 .. n : k # 0 => k \in 1 .. n
      BY <1>1
    <3>2. 0 \in 0 .. n /\ \A k \in 1 .. n : k \in 0 .. n /\ k # 0
      BY <1>1
    <3>3. \A k \in 0 .. n :
            /\ f[k] = IF k = 0 THEN <<>>
                      ELSE IF k \in ChunksOf(sent, i, kind) THEN f[k - 1] \o sent[k].data
                           ELSE f[k - 1]
            /\ g[k] = IF k = 0 THEN <<>>
                      ELSE IF k \in ChunksOf(sent, i, kind) THEN g[k - 1] \o sent[k].data
                           ELSE g[k - 1]
      <4> HIDE DEF g
      <4> QED
        BY <1>5, <1>6 DEF IsTheJoin, n
    <3> HIDE DEF n, g
    <3> QED
      BY <3>2, <3>3
  <2> HIDE DEF g, n
  <2> QED
    BY <1>1, <2>1, RecursionIsUnique, ZenonT(60)
<1>9. n \in 0 .. n
  BY <1>1
<1> QED
  BY <1>5, <1>7, <1>8, <1>9

(* Nothing sent is no data.                                                *)
LEMMA DataOfNothing ==
  ASSUME NEW i, NEW kind
  PROVE  DeliveredData(<<>>, i, kind) = <<>>
<1>0. PICK none : none = <<>>
  OBVIOUS
<1>1. none \in Seq(Chunks) /\ Len(none) = 0
  BY <1>0
<1>2. PICK f \in [0 .. Len(none) -> Contents] :
        IsTheJoin(f, none, i, kind) /\ DeliveredData(none, i, kind) = f[Len(none)]
  BY <1>1, JoinExists
<1>3. 0 \in 0 .. Len(none)
  BY <1>1
<1>4. f[0] = <<>>
  BY <1>2, <1>3 DEF IsTheJoin
<1> QED
  BY <1>0, <1>1, <1>2, <1>4

(* What an output was sent grows by the data of its chunks.                *)
LEMMA DataOfAppend ==
  ASSUME NEW sent \in Seq(Chunks), NEW c \in Chunks, NEW i, NEW kind
  PROVE  /\ DeliveredData(sent, i, kind) \in Contents
         /\ DeliveredData(Append(sent, c), i, kind) =
              IF c.kind = kind /\ c.output = i
              THEN DeliveredData(sent, i, kind) \o c.data ELSE DeliveredData(sent, i, kind)
<1> DEFINE n == Len(sent)
           t == Append(sent, c)
<1>1. /\ n \in Nat /\ t \in Seq(Chunks) /\ Len(t) = n + 1
      /\ t[n + 1] = c /\ \A k \in 1 .. n : t[k] = sent[k]
  BY AppendProperties, LenProperties
<1>2. /\ ChunksOf(sent, i, kind) \subseteq 1 .. n
      /\ ChunksOf(t, i, kind) = IF c.kind = kind /\ c.output = i
                                THEN ChunksOf(sent, i, kind) \cup {n + 1}
                                ELSE ChunksOf(sent, i, kind)
  BY ChunksOfAppend
<1>3. PICK f : /\ f \in [0 .. n -> Contents] /\ IsTheJoin(f, sent, i, kind)
               /\ DeliveredData(sent, i, kind) = f[n]
  BY JoinExists
<1> HIDE DEF n, t
<1>4. PICK g : IsTheJoin(g, t, i, kind) /\ DeliveredData(t, i, kind) = g[n + 1]
  BY <1>1, JoinExists
<1>5. /\ f[0] = <<>>
      /\ \A k \in 1 .. n : f[k] = IF k \in ChunksOf(sent, i, kind)
                                  THEN f[k - 1] \o sent[k].data ELSE f[k - 1]
  <2>1. \A k \in 0 .. n : f[k] = IF k = 0 THEN <<>>
                                 ELSE IF k \in ChunksOf(sent, i, kind)
                                      THEN f[k - 1] \o sent[k].data ELSE f[k - 1]
    BY <1>3 DEF IsTheJoin, n
  <2>2. 0 \in 0 .. n /\ \A k \in 1 .. n : k \in 0 .. n /\ k # 0
    BY <1>1
  <2> QED
    BY <2>1, <2>2
<1>6. /\ g[0] = <<>>
      /\ \A k \in 1 .. n + 1 : g[k] = IF k \in ChunksOf(t, i, kind)
                                      THEN g[k - 1] \o t[k].data ELSE g[k - 1]
  <2>1. \A k \in 0 .. n + 1 : g[k] = IF k = 0 THEN <<>>
                                     ELSE IF k \in ChunksOf(t, i, kind)
                                          THEN g[k - 1] \o t[k].data ELSE g[k - 1]
    BY <1>1, <1>4 DEF IsTheJoin
  <2>2. 0 \in 0 .. n + 1 /\ \A k \in 1 .. n + 1 : k \in 0 .. n + 1 /\ k # 0
    BY <1>1
  <2> QED
    BY <2>1, <2>2
<1>7. \A k \in 1 .. n : f[k - 1] = g[k - 1] => f[k] = g[k]
  <2> SUFFICES ASSUME NEW k \in 1 .. n, f[k - 1] = g[k - 1] PROVE f[k] = g[k]
    OBVIOUS
  <2>1. k \in 1 .. n + 1 /\ k # n + 1 /\ t[k] = sent[k]
    BY <1>1
  <2>2. k \in ChunksOf(t, i, kind) <=> k \in ChunksOf(sent, i, kind)
    BY <1>2, <2>1
  <2> QED
    BY <1>5, <1>6, <2>1, <2>2
<1>8. f[n] = g[n]
  <2>1. f[0] = g[0]
    BY <1>5, <1>6
  <2>2. n \in Nat
    BY <1>1
  <2>3. \A k \in 0 .. n : f[k] = g[k]
    BY <1>7, <2>1, <2>2, RecursionIsUnique, ZenonT(60)
  <2> QED
    BY <1>1, <2>3
<1>9. g[n + 1] = IF n + 1 \in ChunksOf(t, i, kind) THEN g[n] \o c.data ELSE g[n]
  <2>1. n + 1 \in 1 .. n + 1 /\ (n + 1) - 1 = n
    BY <1>1
  <2> QED
    BY <1>1, <1>6, <2>1
<1>10. n + 1 \in ChunksOf(t, i, kind) <=> c.kind = kind /\ c.output = i
  <2>1. n + 1 \notin 1 .. n
    BY <1>1
  <2> QED
    BY <1>2, <2>1
<1>11. DeliveredData(t, i, kind) = IF c.kind = kind /\ c.output = i
                                   THEN DeliveredData(sent, i, kind) \o c.data
                                   ELSE DeliveredData(sent, i, kind)
  BY <1>3, <1>4, <1>8, <1>9, <1>10
<1>12. DeliveredData(sent, i, kind) \in Contents
  <2>1. n \in 0 .. n
    BY <1>1
  <2> QED
    BY <1>3, <2>1
<1> QED
  BY <1>11, <1>12 DEF t

(* The ids an output was sent grow by that of its call chunks.             *)
LEMMA CallIDsOfAppend ==
  ASSUME NEW sent \in Seq(Chunks), NEW c \in Chunks, NEW i
  PROVE  DeliveredCallIDs(Append(sent, c), i) =
           IF c.kind = "call" /\ c.output = i
           THEN DeliveredCallIDs(sent, i) \cup ({c.callID} \ {NoID})
           ELSE DeliveredCallIDs(sent, i)
<1> DEFINE n == Len(sent)
           t == Append(sent, c)
           S == ChunksOf(sent, i, "call")
           T == ChunksOf(t, i, "call")
<1>1. /\ n \in Nat /\ t[n + 1] = c /\ \A k \in 1 .. n : t[k] = sent[k]
  BY AppendProperties, LenProperties
<1>2. /\ S \subseteq 1 .. n
      /\ T = IF c.kind = "call" /\ c.output = i THEN S \cup {n + 1} ELSE S
  BY ChunksOfAppend
<1>3. /\ DeliveredCallIDs(sent, i) = {sent[k].callID : k \in S} \ {NoID}
      /\ DeliveredCallIDs(t, i) = {t[k].callID : k \in T} \ {NoID}
  BY DEF DeliveredCallIDs
<1>4. \A k \in S : t[k] = sent[k]
  BY <1>1, <1>2
<1> HIDE DEF t, S, T, n
<1>5. DeliveredCallIDs(t, i) =
        IF c.kind = "call" /\ c.output = i
        THEN DeliveredCallIDs(sent, i) \cup ({c.callID} \ {NoID})
        ELSE DeliveredCallIDs(sent, i)
  BY <1>1, <1>2, <1>3, <1>4
<1> QED
  BY <1>5 DEF t

(* The weight of what was sent is summed chunk by chunk.                   *)
IsTheSum(f, sent) ==
  f = [k \in 0 .. Len(sent) |-> IF k = 0 THEN 0 ELSE f[k - 1] + Len(sent[k].data)]

(* The sum exists.                                                         *)
LEMMA SumExists ==
  ASSUME NEW sent \in Seq(Chunks)
  PROVE  \E f : /\ f \in [0 .. Len(sent) -> Nat] /\ Weight(sent) = f[Len(sent)] /\ f[0] = 0
                /\ \A k \in 1 .. Len(sent) : f[k] = f[k - 1] + Len(sent[k].data)
<1> DEFINE n == Len(sent)
           step == [k \in 1 .. n |-> [v \in Nat |-> v + Len(sent[k].data)]]
<1>1. n \in Nat
  BY LenProperties
<1>2. ASSUME NEW v \in Nat, NEW k \in 1 .. n
      PROVE  step[k][v] = v + Len(sent[k].data) /\ step[k][v] \in Nat
  <2>1. step[k][v] = v + Len(sent[k].data)
    OBVIOUS
  <2>2. sent[k] \in Chunks
    OBVIOUS
  <2>3. Len(sent[k].data) \in Nat
    BY <2>2, LenProperties DEF Chunks, Contents
  <2> HIDE DEF step
  <2> QED
    BY <2>1, <2>3
<1>3. step \in [1 .. n -> [Nat -> Nat]]
  BY <1>2
<1>4. PICK f : /\ f \in [0 .. n -> Nat] /\ f[0] = 0
               /\ \A k \in 1 .. n : f[k] = step[k][f[k - 1]]
  <2> DEFINE zero == 0
             X == Nat
  <2>1. zero \in X /\ step \in [1 .. n -> [X -> X]]
    BY <1>3
  <2> HIDE DEF step, n, zero, X
  <2>2. \E f \in [0 .. n -> X] :
          f[0] = zero /\ \A k \in 1 .. n : f[k] = step[k][f[k - 1]]
    BY <1>1, <2>1, RecursionExists
  <2> QED
    BY <2>2 DEF zero, X
<1>5. ASSUME NEW k \in 1 .. n PROVE f[k] = f[k - 1] + Len(sent[k].data)
  <2>1. k - 1 \in 0 .. n
    BY <1>1
  <2>2. f[k - 1] \in Nat
    BY <1>4, <2>1
  <2> HIDE DEF step
  <2> QED
    BY <1>2, <1>4, <2>2
<1>6. 0 \in 0 .. n /\ \A k \in 1 .. n : k \in 0 .. n /\ k # 0
  BY <1>1
<1>7. \A k \in 0 .. n : k # 0 => k \in 1 .. n
  BY <1>1
<1>8. IsTheSum(f, sent)
  <2> HIDE DEF n, step
  <2>1. f = [k \in 0 .. n |-> f[k]]
    BY <1>4
  <2>2. \A k \in 0 .. n : f[k] = IF k = 0 THEN 0 ELSE f[k - 1] + Len(sent[k].data)
    BY <1>4, <1>5, <1>7
  <2>3. f = [k \in 0 .. n |-> IF k = 0 THEN 0 ELSE f[k - 1] + Len(sent[k].data)]
    BY <2>1, <2>2
  <2> QED
    BY <2>3 DEF IsTheSum, n
<1> DEFINE g == CHOOSE h : IsTheSum(h, sent)
<1>9. IsTheSum(g, sent)
  BY <1>8
<1>10. Weight(sent) = g[n]
  BY DEF Weight, IsTheSum
<1>11. g[n] = f[n]
  <2>1. \A k \in 0 .. n : g[k] = IF k = 0 THEN 0 ELSE g[k - 1] + Len(sent[k].data)
    <3> HIDE DEF g
    <3> QED
      BY <1>9 DEF IsTheSum, n
  <2> HIDE DEF n, g
  <2>2. g[0] = f[0] /\ \A k \in 1 .. n : g[k - 1] = f[k - 1] => g[k] = f[k]
    BY <1>4, <1>5, <1>6, <2>1
  <2>3. n \in Nat
    BY <1>1
  <2>4. \A k \in 0 .. n : g[k] = f[k]
    BY <2>2, <2>3, RecursionIsUnique, SMTT(30)
  <2>5. n \in 0 .. n
    BY <1>1
  <2> QED
    BY <2>4, <2>5
<1> QED
  BY <1>4, <1>5, <1>10, <1>11

(* p is what was sent at an earlier time. *)
Precedes(p, sent) ==
  /\ p \in Seq(Chunks) /\ sent \in Seq(Chunks) /\ Len(p) <= Len(sent)
  /\ \A k \in 1 .. Len(p) : p[k] = sent[k]

(* Nothing sent weighs nothing. *)
LEMMA WeightOfNothing == Weight(<<>>) = 0
<1>0. PICK none : none = <<>>
  OBVIOUS
<1>1. none \in Seq(Chunks) /\ Len(none) = 0
  BY <1>0
<1>2. PICK f : Weight(none) = f[Len(none)] /\ f[0] = 0
  BY <1>1, SumExists
<1> QED
  BY <1>0, <1>1, <1>2

(* The weight of what was sent is a number, grows by that of a chunk, and  *)
(* was no larger earlier.                                                  *)
LEMMA WeightOfEarlier ==
  ASSUME NEW p, NEW sent, Precedes(p, sent)
  PROVE  /\ Weight(p) \in Nat /\ Weight(sent) \in Nat /\ Weight(p) <= Weight(sent)
         /\ Len(sent) = Len(p) + 1 => Weight(sent) = Weight(p) + Len(sent[Len(sent)].data)
<1> DEFINE n == Len(sent)
           m == Len(p)
<1>1. /\ p \in Seq(Chunks) /\ sent \in Seq(Chunks) /\ m \in Nat /\ n \in Nat /\ m <= n
      /\ \A k \in 1 .. m : p[k] = sent[k]
  BY LenProperties DEF Precedes
<1>2. PICK f : /\ f \in [0 .. n -> Nat] /\ Weight(sent) = f[n] /\ f[0] = 0
               /\ \A k \in 1 .. n : f[k] = f[k - 1] + Len(sent[k].data)
  BY <1>1, SumExists
<1>3. PICK g : /\ Weight(p) = g[m] /\ g[0] = 0
               /\ \A k \in 1 .. m : g[k] = g[k - 1] + Len(p[k].data)
  BY <1>1, SumExists
<1> HIDE DEF n, m
<1>4. g[m] = f[m]
  <2>1. \A k \in 1 .. m : g[k - 1] = f[k - 1] => g[k] = f[k]
    <3>1. \A k \in 1 .. m : k \in 1 .. n
      BY <1>1
    <3> QED
      BY <1>1, <1>2, <1>3, <3>1
  <2>2. g[0] = f[0] /\ m \in Nat
    BY <1>1, <1>2, <1>3
  <2>3. \A k \in 0 .. m : g[k] = f[k]
    BY <2>1, <2>2, RecursionIsUnique, SMTT(30)
  <2> QED
    BY <1>1, <2>3
<1>5. \A k \in 0 .. n : f[k] \in Nat
  BY <1>2
<1>6. ASSUME NEW k \in 1 .. n PROVE f[k - 1] <= f[k]
  <2>1. sent[k] \in Chunks
    BY <1>1 DEF n
  <2>2. Len(sent[k].data) \in Nat
    BY <2>1, LenProperties DEF Chunks, Contents
  <2>3. k - 1 \in 0 .. n
    BY <1>1
  <2> QED
    BY <1>2, <1>5, <2>2, <2>3
<1>7. f[m] <= f[n]
  <2> DEFINE S == {d \in Nat : m + d <= n => f[m] <= f[m + d]}
  <2>1. 0 \in S
    BY <1>1, <1>5
  <2>2. ASSUME NEW d \in S PROVE d + 1 \in S
    <3> SUFFICES ASSUME m + (d + 1) <= n PROVE f[m] <= f[m + (d + 1)]
      BY <1>1
    <3>1. /\ m + (d + 1) \in 1 .. n /\ (m + (d + 1)) - 1 = m + d /\ m + d <= n
          /\ m + d \in 0 .. n /\ m \in 0 .. n /\ m + (d + 1) \in 0 .. n
      BY <1>1
    <3>2. f[m + d] <= f[m + (d + 1)]
      BY <1>6, <3>1
    <3>3. f[m] <= f[m + d]
      BY <3>1
    <3> HIDE DEF S
    <3> QED
      BY <1>5, <3>1, <3>2, <3>3
  <2>3. Nat \subseteq S
    <3> HIDE DEF S
    <3> QED
      BY <2>1, <2>2, SetInduction
  <2>4. n - m \in Nat /\ m + (n - m) = n
    BY <1>1
  <2>5. n - m \in S
    <3> HIDE DEF S
    <3> QED
      BY <2>3, <2>4
  <2>6. m + (n - m) <= n => f[m] <= f[m + (n - m)]
    BY <2>5
  <2> HIDE DEF S
  <2> QED
    BY <1>1, <2>4, <2>6
<1>8. m \in 0 .. n /\ n \in 0 .. n
  BY <1>1
<1>9. ASSUME n = m + 1 PROVE f[n] = f[m] + Len(sent[n].data)
  <2>1. n \in 1 .. n /\ n - 1 = m
    BY <1>1, <1>9
  <2> QED
    BY <1>2, <2>1
<1>10. Weight(p) = f[m] /\ Weight(sent) = f[n] /\ f[m] \in Nat /\ f[n] \in Nat
  BY <1>2, <1>3, <1>4, <1>5, <1>8
<1> QED
  BY <1>7, <1>9, <1>10 DEF n, m

(* What was sent precedes it with one more chunk. *)
LEMMA AppendPrecedes ==
  ASSUME NEW sent \in Seq(Chunks), NEW c \in Chunks
  PROVE  /\ Precedes(sent, Append(sent, c)) /\ Append(sent, c) \in Seq(Chunks)
         /\ Len(Append(sent, c)) = Len(sent) + 1 /\ Append(sent, c)[Len(sent) + 1] = c
         /\ \A k \in 1 .. Len(sent) : Append(sent, c)[k] = sent[k]
BY AppendProperties, LenProperties DEF Precedes

(* What is sent of some chunks precedes what would be sent with all. *)
LEMMA CutPrecedes ==
  ASSUME NEW sent \in Seq(Chunks), NEW cs \in Seq(Chunks), NEW m \in 0 .. Len(cs)
  PROVE  Precedes(sent \o SubSeq(cs, 1, m), sent \o cs)
<1> DEFINE u == SubSeq(cs, 1, m)
           p == sent \o u
           w == sent \o cs
<1>1. /\ Len(cs) \in Nat /\ Len(sent) \in Nat /\ m \in Nat /\ m <= Len(cs)
  BY LenProperties
<1>2. u \in Seq(Chunks) /\ Len(u) = m /\ \A k \in 1 .. m : u[k] = cs[k]
  <2>1. \A k \in 1 .. m : cs[k] \in Chunks
    BY <1>1
  <2> QED
    BY <1>1, <2>1, SubSeqProperties
<1> HIDE DEF u
<1>3. /\ p \in Seq(Chunks) /\ Len(p) = Len(sent) + Len(u)
      /\ \A k \in 1 .. Len(sent) + Len(u) :
           p[k] = IF k <= Len(sent) THEN sent[k] ELSE u[k - Len(sent)]
  BY <1>2, ConcatProperties
<1>4. /\ w \in Seq(Chunks) /\ Len(w) = Len(sent) + Len(cs)
      /\ \A k \in 1 .. Len(sent) + Len(cs) :
           w[k] = IF k <= Len(sent) THEN sent[k] ELSE cs[k - Len(sent)]
  BY ConcatProperties
<1> HIDE DEF p, w
<1>5. ASSUME NEW k \in 1 .. Len(p) PROVE p[k] = w[k]
  <2>1. k \in 1 .. Len(sent) + Len(u) /\ k \in 1 .. Len(sent) + Len(cs)
    BY <1>1, <1>2, <1>3
  <2>2. CASE k <= Len(sent)
    BY <1>3, <1>4, <2>1, <2>2
  <2>3. CASE ~(k <= Len(sent))
    <3>1. k - Len(sent) \in 1 .. m
      BY <1>1, <1>2, <2>1, <2>3
    <3> QED
      BY <1>2, <1>3, <1>4, <2>1, <2>3, <3>1
  <2> QED
    BY <2>2, <2>3
<1>6. Len(p) <= Len(w)
  BY <1>1, <1>2, <1>3, <1>4
<1>7. Precedes(p, w)
  BY <1>3, <1>4, <1>5, <1>6 DEF Precedes
<1> QED
  BY <1>7 DEF p, w, u

-----------------------------------------------------------------------------
(* What a state may be, and what a handler may do to it *)

IDsOwned(s) ==
  \A i \in Index, id \in ItemIDs : s.itemIDs[id] = i <=> s.outputIDs[i] = id

(* An output that is no call yet has nothing of one; only deltas and       *)
(* completion bring arguments; a completed call has its id.                *)
CallIsSound(s, i) ==
  LET call == s.calls[i]
  IN  /\ call.index \in -1 .. s.nextCall - 1
      /\ call.index = -1 => call.callID = NoID /\ ~call.sawDelta /\ ~call.completed
      /\ ~call.sawDelta /\ ~call.completed => call.args = <<>>
      /\ call.completed => call.callID # NoID
      /\ call.callID # NoID => s.callIDs[call.callID] = i

CallsAreApart(s) ==
  \A i, j \in Index :
    s.calls[i].index = s.calls[j].index /\ s.calls[i].index # -1 => i = j

Sound(s) ==
  /\ IDsOwned(s)
  /\ s.retained <= MaxRetained
  /\ \A i \in Index : CallIsSound(s, i)
  /\ CallsAreApart(s)

(* Only output i has changed. *)
OnlyOutput(s, t, i) ==
  \A j \in Index \ {i} :
    /\ t.outputs[j] = s.outputs[j] /\ t.calls[j] = s.calls[j] /\ t.text[j] = s.text[j]
    /\ t.reasoning[j] = s.reasoning[j] /\ t.finished[j] = s.finished[j]

(* Nothing that the caller has to be told; reasoning may be kept. *)
Quiet(s, t, i) ==
  /\ t.text[i] = s.text[i]
  /\ t.calls[i].args = s.calls[i].args
  /\ t.calls[i].index = s.calls[i].index /\ t.calls[i].callID = s.calls[i].callID
  /\ t.nextCall = s.nextCall
  /\ \/ t.reasoning[i] = s.reasoning[i] /\ t.retained = s.retained
     \/ s.reasoning[i] = None /\ t.retained = s.retained + 1

(* The chunk c tells the caller all there is to tell. *)
Loud(s, t, c, i) ==
  /\ c \in Chunks /\ c.output = i
  /\ t.reasoning[i] = s.reasoning[i]
  /\ t.retained = s.retained + Len(c.data)
  /\ \/ /\ c.kind = "text" /\ t.text[i] = s.text[i] \o c.data
        /\ t.calls[i] = s.calls[i] /\ t.nextCall = s.nextCall
     \/ /\ c.kind = "reasoning" /\ t.text[i] = s.text[i]
        /\ t.calls[i] = s.calls[i] /\ t.nextCall = s.nextCall
     \/ /\ c.kind = "call" /\ t.text[i] = s.text[i]
        /\ t.calls[i].args = s.calls[i].args \o c.data
        /\ c.index = t.calls[i].index /\ c.callID = t.calls[i].callID
        /\ s.calls[i].callID \in {NoID, c.callID}
        /\ \/ s.calls[i].index = c.index /\ c.index # -1 /\ t.nextCall = s.nextCall
           \/ s.calls[i].index = -1 /\ c.index = s.nextCall /\ t.nextCall = s.nextCall + 1

Step(s, t, cs, i) ==
  /\ t \in States /\ Sound(t) /\ OnlyOutput(s, t, i)
  /\ \/ cs = <<>> /\ Quiet(s, t, i)
     \/ \E c \in Chunks : cs = <<c>> /\ Loud(s, t, c, i)

-----------------------------------------------------------------------------
(* What the chunks sent say of the state *)

ToldOf(s, sent, i) ==
  /\ s.text[i] = DeliveredData(sent, i, "text")
  /\ s.calls[i].args = DeliveredData(sent, i, "call")
  /\ DeliveredCallIDs(sent, i) = {s.calls[i].callID} \ {NoID}

(* The indexes shown are those given out, each for its own output and id.  *)
Numbered(s, sent) ==
  /\ \A k \in CallsIn(sent) :
       LET call == s.calls[sent[k].output]
       IN  /\ sent[k].index = call.index /\ call.index # -1
           /\ sent[k].callID \in {NoID, call.callID}
  /\ {sent[k].index : k \in CallsIn(sent)} = 0 .. s.nextCall - 1

GapFree(sent) ==
  \A k \in CallsIn(sent) :
    sent[k].index \in IndexesBefore(sent, k) \cup {Cardinality(IndexesBefore(sent, k))}

InBudget(s, sent) == Weight(sent) + Cardinality(Kept(s)) <= s.retained

Covers(s, sent) ==
  /\ \A i \in Index : ToldOf(s, sent, i)
  /\ Numbered(s, sent)
  /\ GapFree(sent)
  /\ InBudget(s, sent)

(* Reasoning that is kept on one output is one more at most. *)
LEMMA KeptOfStep ==
  ASSUME NEW s \in States, NEW t \in States, NEW i \in Index, OnlyOutput(s, t, i)
  PROVE  /\ Cardinality(Kept(s)) \in Nat /\ Cardinality(Kept(t)) \in Nat
         /\ t.reasoning[i] = s.reasoning[i] => Kept(t) = Kept(s)
         /\ s.reasoning[i] = None => Cardinality(Kept(t)) <= Cardinality(Kept(s)) + 1
<1>1. Kept(s) \subseteq Index /\ Kept(t) \subseteq Index
  BY DEF Kept
<1>2. IsFiniteSet(Kept(s)) /\ IsFiniteSet(Kept(t))
  BY <1>1, IndexIsFinite, FS_Subset
<1>3. Cardinality(Kept(s)) \in Nat /\ Cardinality(Kept(t)) \in Nat
  BY <1>2, FS_CardinalityType
<1>4. ASSUME t.reasoning[i] = s.reasoning[i] PROVE Kept(t) = Kept(s)
  BY <1>4 DEF Kept, OnlyOutput
<1>5. ASSUME s.reasoning[i] = None
      PROVE  Cardinality(Kept(t)) <= Cardinality(Kept(s)) + 1
  <2>1. i \notin Kept(s) /\ Kept(t) \subseteq Kept(s) \cup {i}
    BY <1>5 DEF Kept, OnlyOutput
  <2>2. /\ IsFiniteSet(Kept(s) \cup {i})
        /\ Cardinality(Kept(s) \cup {i}) = Cardinality(Kept(s)) + 1
    BY <1>2, <2>1, FS_AddElement
  <2>3. Cardinality(Kept(t)) <= Cardinality(Kept(s) \cup {i})
    BY <2>1, <2>2, FS_Subset
  <2> QED
    BY <2>2, <2>3
<1> QED
  BY <1>3, <1>4, <1>5

(* The chunks of calls, when one more chunk is sent.                       *)
LEMMA CallsOfAppend ==
  ASSUME NEW sent \in Seq(Chunks), NEW c \in Chunks
  PROVE  /\ CallsIn(sent) \subseteq 1 .. Len(sent)
         /\ CallsIn(Append(sent, c)) =
              IF c.kind = "call" THEN CallsIn(sent) \cup {Len(sent) + 1} ELSE CallsIn(sent)
         /\ \A k \in 1 .. Len(sent) :
              IndexesBefore(Append(sent, c), k) = IndexesBefore(sent, k)
         /\ IndexesBefore(Append(sent, c), Len(sent) + 1) =
              {sent[k].index : k \in CallsIn(sent)}
<1> DEFINE n == Len(sent)
           t == Append(sent, c)
<1>1. /\ n \in Nat /\ DOMAIN sent = 1 .. n /\ DOMAIN t = 1 .. n + 1
      /\ t[n + 1] = c /\ \A k \in 1 .. n : t[k] = sent[k]
  BY AppendProperties, LenProperties
<1>2. \A k \in 1 .. n + 1 : k \in 1 .. n \/ k = n + 1
  BY <1>1
<1>3. \A k \in 1 .. n : k \in 1 .. n + 1 /\ k # n + 1 /\ k < n + 1 /\ ~(n + 1 < k)
  BY <1>1
<1>4. n + 1 \in 1 .. n + 1 /\ ~(n + 1 < n + 1)
  BY <1>1
<1> HIDE DEF n, t
<1>5. CallsIn(sent) = {k \in 1 .. n : sent[k].kind = "call"}
  BY <1>1 DEF CallsIn
<1>6. CallsIn(t) = {k \in 1 .. n + 1 : t[k].kind = "call"}
  BY <1>1 DEF CallsIn
<1>7. CallsIn(t) = IF c.kind = "call" THEN CallsIn(sent) \cup {n + 1} ELSE CallsIn(sent)
  <2>1. CASE c.kind = "call"
    BY <1>1, <1>2, <1>3, <1>4, <1>5, <1>6, <2>1
  <2>2. CASE c.kind # "call"
    BY <1>1, <1>2, <1>3, <1>4, <1>5, <1>6, <2>2
  <2> QED
    BY <2>1, <2>2
<1>8. CallsIn(sent) \subseteq 1 .. n
  BY <1>5
<1>9. ASSUME NEW m \in 1 .. n + 1
      PROVE  /\ {j \in CallsIn(t) : j < m} = {j \in CallsIn(sent) : j < m}
             /\ IndexesBefore(t, m) = IndexesBefore(sent, m)
  <2>1. ~(n + 1 < m)
    BY <1>2, <1>3, <1>4
  <2>2. {j \in CallsIn(t) : j < m} = {j \in CallsIn(sent) : j < m}
    BY <1>7, <2>1
  <2>3. \A k \in {j \in CallsIn(sent) : j < m} : t[k] = sent[k]
    BY <1>1, <1>8
  <2>4. /\ IndexesBefore(t, m) = {t[k].index : k \in {j \in CallsIn(t) : j < m}}
        /\ IndexesBefore(sent, m) = {sent[k].index : k \in {j \in CallsIn(sent) : j < m}}
    BY DEF IndexesBefore
  <2> QED
    BY <2>2, <2>3, <2>4
<1>10. IndexesBefore(sent, n + 1) = {sent[k].index : k \in CallsIn(sent)}
  <2>1. {j \in CallsIn(sent) : j < n + 1} = CallsIn(sent)
    BY <1>3, <1>8
  <2> QED
    BY <2>1 DEF IndexesBefore
<1>11. /\ \A k \in 1 .. n : IndexesBefore(t, k) = IndexesBefore(sent, k)
       /\ IndexesBefore(t, n + 1) = {sent[k].index : k \in CallsIn(sent)}
  BY <1>3, <1>4, <1>9, <1>10
<1> QED
  BY <1>7, <1>8, <1>11 DEF n, t

(* A step without a chunk, seen by the caller. *)
LEMMA QuietCovers ==
  ASSUME NEW s \in States, NEW t \in States, NEW i \in Index, NEW sent \in Seq(Chunks),
         OnlyOutput(s, t, i), Quiet(s, t, i), Covers(s, sent)
  PROVE  Covers(t, sent)
<1>1. /\ \A j \in Index : t.text[j] = s.text[j] /\ t.calls[j].args = s.calls[j].args
           /\ t.calls[j].index = s.calls[j].index /\ t.calls[j].callID = s.calls[j].callID
      /\ t.nextCall = s.nextCall
  BY DEF OnlyOutput, Quiet
<1>2. \A j \in Index : ToldOf(t, sent, j)
  BY <1>1 DEF Covers, ToldOf
<1>3. Numbered(t, sent)
  <2>1. \A k \in CallsIn(sent) : sent[k].output \in Index
    <3>1. \A k \in CallsIn(sent) : sent[k] \in Chunks
      BY DEF CallsIn
    <3> QED
      BY <3>1 DEF Chunks
  <2> QED
    BY <1>1, <2>1 DEF Covers, Numbered
<1>4. InBudget(t, sent)
  <2>1. Precedes(sent, sent)
    BY LenProperties DEF Precedes
  <2>2. Weight(sent) \in Nat
    BY <2>1, WeightOfEarlier
  <2>3. s.retained \in Nat /\ t.retained \in Nat
    BY DEF States
  <2>4. CASE t.reasoning[i] = s.reasoning[i] /\ t.retained = s.retained
    BY <2>4, KeptOfStep DEF Covers, InBudget
  <2>5. CASE s.reasoning[i] = None /\ t.retained = s.retained + 1
    <3>1. /\ Cardinality(Kept(s)) \in Nat /\ Cardinality(Kept(t)) \in Nat
          /\ Cardinality(Kept(t)) <= Cardinality(Kept(s)) + 1
      BY <2>5, KeptOfStep
    <3> QED
      BY <2>2, <2>3, <2>5, <3>1 DEF Covers, InBudget
  <2> QED
    BY <2>4, <2>5 DEF Quiet
<1> QED
  BY <1>2, <1>3, <1>4 DEF Covers

(* A step with a chunk, seen by the caller who has the chunk. *)
LEMMA LoudCovers ==
  ASSUME NEW s \in States, NEW t \in States, NEW i \in Index, NEW sent \in Seq(Chunks),
         NEW c \in Chunks, Sound(s), OnlyOutput(s, t, i), Loud(s, t, c, i), Covers(s, sent)
  PROVE  Covers(t, Append(sent, c))
<1> DEFINE w == Append(sent, c)
           n == Len(sent)
<1>1. /\ w \in Seq(Chunks) /\ Precedes(sent, w) /\ Len(w) = n + 1 /\ w[n + 1] = c /\ n \in Nat
      /\ \A k \in 1 .. n : w[k] = sent[k]
  BY AppendPrecedes, LenProperties
<1>2. \A j \in Index : /\ DeliveredData(w, j, "text") =
                            IF c.kind = "text" /\ j = i
                            THEN DeliveredData(sent, j, "text") \o c.data
                            ELSE DeliveredData(sent, j, "text")
                       /\ DeliveredData(w, j, "call") =
                            IF c.kind = "call" /\ j = i
                            THEN DeliveredData(sent, j, "call") \o c.data
                            ELSE DeliveredData(sent, j, "call")
                       /\ DeliveredCallIDs(w, j) =
                            IF c.kind = "call" /\ j = i
                            THEN DeliveredCallIDs(sent, j) \cup ({c.callID} \ {NoID})
                            ELSE DeliveredCallIDs(sent, j)
  <2> SUFFICES ASSUME NEW j \in Index
               PROVE  /\ DeliveredData(w, j, "text") =
                            IF c.kind = "text" /\ j = i
                            THEN DeliveredData(sent, j, "text") \o c.data
                            ELSE DeliveredData(sent, j, "text")
                      /\ DeliveredData(w, j, "call") =
                            IF c.kind = "call" /\ j = i
                            THEN DeliveredData(sent, j, "call") \o c.data
                            ELSE DeliveredData(sent, j, "call")
                      /\ DeliveredCallIDs(w, j) =
                            IF c.kind = "call" /\ j = i
                            THEN DeliveredCallIDs(sent, j) \cup ({c.callID} \ {NoID})
                            ELSE DeliveredCallIDs(sent, j)
    OBVIOUS
  <2>1. c.output = i
    BY DEF Loud
  <2>2. DeliveredData(w, j, "text") = IF c.kind = "text" /\ c.output = j
                                      THEN DeliveredData(sent, j, "text") \o c.data
                                      ELSE DeliveredData(sent, j, "text")
    BY DataOfAppend
  <2>3. DeliveredData(w, j, "call") = IF c.kind = "call" /\ c.output = j
                                      THEN DeliveredData(sent, j, "call") \o c.data
                                      ELSE DeliveredData(sent, j, "call")
    BY DataOfAppend
  <2>4. DeliveredCallIDs(w, j) = IF c.kind = "call" /\ c.output = j
                                 THEN DeliveredCallIDs(sent, j) \cup ({c.callID} \ {NoID})
                                 ELSE DeliveredCallIDs(sent, j)
    BY CallIDsOfAppend
  <2> HIDE DEF w
  <2> QED
    BY <2>1, <2>2, <2>3, <2>4
<1>3. /\ CallsIn(sent) \subseteq 1 .. n
      /\ CallsIn(w) = IF c.kind = "call" THEN CallsIn(sent) \cup {n + 1} ELSE CallsIn(sent)
      /\ \A k \in 1 .. n : IndexesBefore(w, k) = IndexesBefore(sent, k)
      /\ IndexesBefore(w, n + 1) = {sent[k].index : k \in CallsIn(sent)}
  BY CallsOfAppend
<1>4. Weight(w) = Weight(sent) + Len(c.data) /\ Weight(sent) \in Nat
  <2> HIDE DEF w
  <2>1. /\ Weight(sent) \in Nat
        /\ Len(w) = Len(sent) + 1 => Weight(w) = Weight(sent) + Len(w[Len(w)].data)
    BY <1>1, WeightOfEarlier
  <2> QED
    BY <1>1, <2>1
<1>5. Len(c.data) \in Nat
  BY LenProperties DEF Chunks, Contents
<1> HIDE DEF w, n
<1>6. \A j \in Index \ {i} : ToldOf(t, w, j)
  BY <1>2 DEF Covers, ToldOf, OnlyOutput
<1>7. ToldOf(t, w, i)
  <2>1. CASE c.kind = "text"
    BY <1>2, <2>1 DEF Covers, ToldOf, Loud
  <2>2. CASE c.kind = "reasoning"
    BY <1>2, <2>2 DEF Covers, ToldOf, Loud
  <2>3. CASE c.kind = "call"
    <3>1. /\ t.text[i] = s.text[i] /\ t.calls[i].args = s.calls[i].args \o c.data
          /\ t.calls[i].callID = c.callID /\ s.calls[i].callID \in {NoID, c.callID}
      BY <2>3 DEF Loud
    <3>2. /\ s.text[i] = DeliveredData(sent, i, "text")
          /\ s.calls[i].args = DeliveredData(sent, i, "call")
          /\ DeliveredCallIDs(sent, i) = {s.calls[i].callID} \ {NoID}
      BY DEF Covers, ToldOf
    <3>3. DeliveredCallIDs(w, i) = DeliveredCallIDs(sent, i) \cup ({c.callID} \ {NoID})
      BY <1>2, <2>3
    <3>4. DeliveredCallIDs(w, i) = {t.calls[i].callID} \ {NoID}
      BY <3>1, <3>2, <3>3
    <3>5. DeliveredData(w, i, "text") = t.text[i] /\ DeliveredData(w, i, "call") = t.calls[i].args
      BY <1>2, <2>3, <3>1, <3>2
    <3> QED
      BY <3>4, <3>5 DEF ToldOf
  <2> QED
    BY <2>1, <2>2, <2>3 DEF Chunks
<1>8. \A j \in Index : ToldOf(t, w, j)
  BY <1>6, <1>7
<1>13. InBudget(t, w)
  <2>1. t.reasoning[i] = s.reasoning[i] /\ t.retained = s.retained + Len(c.data)
    BY DEF Loud
  <2>2. Kept(t) = Kept(s) /\ Cardinality(Kept(s)) \in Nat
    BY <2>1, KeptOfStep
  <2>3. s.retained \in Nat
    BY DEF States
  <2> QED
    BY <1>4, <1>5, <2>1, <2>2, <2>3 DEF Covers, InBudget
<1>9. s.nextCall \in Nat
  BY DEF States
<1>10. \A k \in CallsIn(sent) : /\ k \in 1 .. n /\ w[k] = sent[k] /\ sent[k].output \in Index
                                /\ sent[k].kind = "call" /\ sent[k].index = w[k].index
  <2>1. \A k \in CallsIn(sent) : sent[k] \in Chunks /\ sent[k].kind = "call"
    BY DEF CallsIn
  <2> QED
    BY <1>1, <1>3, <2>1 DEF Chunks
<1>11. CASE c.kind # "call"
  <2>1. \A j \in Index : t.calls[j] = s.calls[j]
    BY <1>11 DEF OnlyOutput, Loud
  <2>2. t.nextCall = s.nextCall
    BY <1>11 DEF Loud
  <2>3. CallsIn(w) = CallsIn(sent)
    BY <1>3, <1>11
  <2>4. {w[k].index : k \in CallsIn(w)} = {sent[k].index : k \in CallsIn(sent)}
    BY <1>10, <2>3
  <2>5. Numbered(t, w)
    BY <1>10, <2>1, <2>2, <2>3, <2>4 DEF Covers, Numbered
  <2>6. GapFree(w)
    BY <1>3, <1>10, <2>3 DEF Covers, GapFree
  <2> QED
    BY <1>8, <1>13, <2>5, <2>6 DEF Covers, w
<1>12. CASE c.kind = "call"
  <2>1. /\ c.index = t.calls[i].index /\ c.callID = t.calls[i].callID
        /\ s.calls[i].callID \in {NoID, c.callID}
        /\ \/ s.calls[i].index = c.index /\ c.index # -1 /\ t.nextCall = s.nextCall
           \/ s.calls[i].index = -1 /\ c.index = s.nextCall /\ t.nextCall = s.nextCall + 1
    BY <1>12 DEF Loud
  <2>2. CallsIn(w) = CallsIn(sent) \cup {n + 1} /\ c.output = i
    BY <1>3, <1>12 DEF Loud
  <2>3. \A k \in CallsIn(sent) :
          /\ sent[k].index = s.calls[sent[k].output].index
          /\ s.calls[sent[k].output].index # -1
          /\ sent[k].callID \in {NoID, s.calls[sent[k].output].callID}
    BY DEF Covers, Numbered
  <2>4. {sent[k].index : k \in CallsIn(sent)} = 0 .. s.nextCall - 1
    BY DEF Covers, Numbered
  <2>5. c.index # -1
    BY <1>9, <2>1
  <2>6. ASSUME NEW k \in CallsIn(w)
        PROVE  /\ w[k].index = t.calls[w[k].output].index
               /\ t.calls[w[k].output].index # -1
               /\ w[k].callID \in {NoID, t.calls[w[k].output].callID}
    <3>1. CASE k = n + 1
      BY <1>1, <2>1, <2>2, <2>5, <3>1
    <3>2. CASE k \in CallsIn(sent)
      <4>1. CASE sent[k].output = i
        BY <1>10, <2>1, <2>3, <3>2, <4>1
      <4>2. CASE sent[k].output # i
        <5>1. t.calls[sent[k].output] = s.calls[sent[k].output]
          BY <1>10, <3>2, <4>2 DEF OnlyOutput
        <5> QED
          BY <1>10, <2>3, <3>2, <5>1
      <4> QED
        BY <4>1, <4>2
    <3> QED
      BY <2>2, <3>1, <3>2
  <2>7. {w[k].index : k \in CallsIn(w)} = (0 .. s.nextCall - 1) \cup {c.index}
    <3>1. {w[k].index : k \in CallsIn(w)} = {w[k].index : k \in CallsIn(sent)} \cup {w[n + 1].index}
      BY <2>2
    <3>2. {w[k].index : k \in CallsIn(sent)} = {sent[k].index : k \in CallsIn(sent)}
      BY <1>10
    <3> QED
      BY <1>1, <2>4, <3>1, <3>2
  <2>8. \/ c.index \in 0 .. s.nextCall - 1 /\ t.nextCall = s.nextCall
        \/ c.index = s.nextCall /\ t.nextCall = s.nextCall + 1
    <3>1. s.calls[i].index \in -1 .. s.nextCall - 1
      BY DEF Sound, CallIsSound
    <3> QED
      BY <1>9, <2>1, <3>1
  <2>9. {w[k].index : k \in CallsIn(w)} = 0 .. t.nextCall - 1
    <3>1. CASE c.index \in 0 .. s.nextCall - 1 /\ t.nextCall = s.nextCall
      BY <2>7, <3>1
    <3>2. CASE c.index = s.nextCall /\ t.nextCall = s.nextCall + 1
      <4>1. (0 .. s.nextCall - 1) \cup {s.nextCall} = 0 .. s.nextCall
        BY <1>9
      <4>2. t.nextCall - 1 = s.nextCall
        BY <1>9, <3>2
      <4> QED
        BY <2>7, <3>2, <4>1, <4>2
    <3> QED
      BY <2>8, <3>1, <3>2
  <2>10. Numbered(t, w)
    BY <2>6, <2>9 DEF Numbered
  <2>11. Cardinality(0 .. s.nextCall - 1) = s.nextCall
    BY <1>9, FS_Interval, SMTT(30)
  <2>12. ASSUME NEW k \in CallsIn(w)
         PROVE  w[k].index \in IndexesBefore(w, k) \cup {Cardinality(IndexesBefore(w, k))}
    <3>1. CASE k = n + 1
      <4>1. IndexesBefore(w, k) = 0 .. s.nextCall - 1
        BY <1>3, <2>4, <3>1
      <4> QED
        BY <1>1, <2>8, <2>11, <3>1, <4>1
    <3>2. CASE k \in CallsIn(sent)
      BY <1>3, <1>10, <3>2 DEF Covers, GapFree
    <3> QED
      BY <2>2, <3>1, <3>2
  <2>13. GapFree(w)
    BY <2>12 DEF GapFree
  <2> QED
    BY <1>8, <1>13, <2>10, <2>13 DEF Covers, w
<1> QED
  BY <1>11, <1>12 DEF w

(* Whatever the chunks sent say of the state, they say after a step. *)
LEMMA StepCovers ==
  ASSUME NEW s \in States, NEW t, NEW i \in Index, NEW sent \in Seq(Chunks), NEW cs,
         Sound(s), Step(s, t, cs, i), Covers(s, sent)
  PROVE  cs \in Seq(Chunks) /\ sent \o cs \in Seq(Chunks) /\ Covers(t, sent \o cs)
<1>1. t \in States /\ OnlyOutput(s, t, i)
  BY DEF Step
<1>2. CASE cs = <<>> /\ Quiet(s, t, i)
  <2>1. sent \o cs = sent /\ cs \in Seq(Chunks)
    BY <1>2
  <2> QED
    BY <1>1, <1>2, <2>1, QuietCovers
<1>3. CASE \E c \in Chunks : cs = <<c>> /\ Loud(s, t, c, i)
  <2>1. PICK c \in Chunks : cs = <<c>> /\ Loud(s, t, c, i)
    BY <1>3
  <2>2. cs \in Seq(Chunks) /\ sent \o cs = Append(sent, c)
    BY <2>1
  <2>3. Covers(t, Append(sent, c)) /\ Append(sent, c) \in Seq(Chunks)
    BY <1>1, <2>1, LoudCovers, AppendPrecedes
  <2> QED
    BY <2>2, <2>3
<1> QED
  BY <1>2, <1>3 DEF Step

-----------------------------------------------------------------------------
(* The updates of which the handlers are made, field by field *)

SameProgress(s, u) ==
  /\ u.calls = s.calls /\ u.callIDs = s.callIDs /\ u.reasoning = s.reasoning
  /\ u.text = s.text /\ u.nextCall = s.nextCall /\ u.retained = s.retained
SameIDs(s, u) == u.outputIDs = s.outputIDs /\ u.itemIDs = s.itemIDs
SameTypes(s, u) == u.outputs = s.outputs /\ u.finished = s.finished

(* An id that may be claimed is owned by its output from then on. *)
LEMMA ClaimItemKeeps ==
  ASSUME NEW s \in States, NEW i \in Index, NEW id \in ItemIDs \cup {NoID},
         MayClaimItem(s, i, id), IDsOwned(s)
  PROVE  LET u == ClaimItem(s, i, id)
         IN  u \in States /\ IDsOwned(u) /\ SameProgress(s, u) /\ SameTypes(s, u)
<1>1. CASE id = NoID
  BY <1>1 DEF ClaimItem, SameProgress, SameTypes
<1>2. CASE id # NoID
  <2> DEFINE outputIDs == [s.outputIDs EXCEPT ![i] = id]
             itemIDs == [s.itemIDs EXCEPT ![id] = i]
             u == [s EXCEPT !.outputIDs = outputIDs, !.itemIDs = itemIDs]
  <2>1. id \in ItemIDs /\ s.outputIDs[i] \in {NoID, id} /\ s.itemIDs[id] \in {-1, i}
    BY <1>2 DEF MayClaimItem
  <2>2. ClaimItem(s, i, id) = u
    BY <1>2 DEF ClaimItem
  <2>3. /\ s.outputIDs \in [Index -> ItemIDs \cup {NoID}]
        /\ s.itemIDs \in [ItemIDs -> Index \cup {-1}]
    BY DEF States
  <2>4. /\ outputIDs \in [Index -> ItemIDs \cup {NoID}]
        /\ itemIDs \in [ItemIDs -> Index \cup {-1}]
    BY <2>1, <2>3
  <2>5. \A j \in Index, d \in ItemIDs : itemIDs[d] = j <=> outputIDs[j] = d
    <3> SUFFICES ASSUME NEW j \in Index, NEW d \in ItemIDs
                 PROVE  itemIDs[d] = j <=> outputIDs[j] = d
      OBVIOUS
    <3>1. s.itemIDs[d] = j <=> s.outputIDs[j] = d
      BY DEF IDsOwned
    <3>2. s.itemIDs[id] = j <=> s.outputIDs[j] = id
      BY <2>1 DEF IDsOwned
    <3>3. /\ itemIDs[d] = IF d = id THEN i ELSE s.itemIDs[d]
          /\ outputIDs[j] = IF j = i THEN id ELSE s.outputIDs[j]
      BY <2>3
    <3>4. d # NoID /\ j # -1 /\ i # -1
      BY ResponsesAssumption, IndexIsFinite
    <3> HIDE DEF itemIDs, outputIDs
    <3>5. CASE d = id /\ j = i
      BY <3>3, <3>5
    <3>6. CASE d = id /\ j # i
      BY <2>1, <3>2, <3>3, <3>4, <3>6
    <3>7. CASE d # id /\ j = i
      BY <2>1, <3>1, <3>3, <3>4, <3>7
    <3>8. CASE d # id /\ j # i
      BY <3>1, <3>3, <3>8
    <3> QED
      BY <3>5, <3>6, <3>7, <3>8
  <2> HIDE DEF outputIDs, itemIDs
  <2>6. u \in States
    BY <2>4 DEF States
  <2>7. /\ u.outputIDs = outputIDs /\ u.itemIDs = itemIDs
        /\ SameProgress(s, u) /\ SameTypes(s, u)
    BY DEF States, SameProgress, SameTypes
  <2>8. IDsOwned(u)
    BY <2>5, <2>7 DEF IDsOwned
  <2> QED
    BY <2>2, <2>6, <2>7, <2>8
<1> QED
  BY <1>1, <1>2

(* An output gets a type, and nothing else changes. *)
LEMMA OutputsKeep ==
  ASSUME NEW s \in States, NEW i \in Index, NEW type \in ItemTypes
  PROVE  LET u == [s EXCEPT !.outputs[i] = type]
         IN  /\ u \in States /\ SameProgress(s, u) /\ SameIDs(s, u)
             /\ u.finished = s.finished /\ u.outputs = [s.outputs EXCEPT ![i] = type]
<1> DEFINE f == [s.outputs EXCEPT ![i] = type]
<1>1. f \in [Index -> ItemTypes \cup {None}]
  BY DEF States
<1> HIDE DEF f
<1>2. [s EXCEPT !.outputs = f] \in States
  BY <1>1 DEF States
<1>3. LET u == [s EXCEPT !.outputs = f]
      IN  SameProgress(s, u) /\ SameIDs(s, u) /\ u.finished = s.finished /\ u.outputs = f
  BY DEF States, SameProgress, SameIDs
<1> QED
  BY <1>2, <1>3 DEF f

(* An item is marked finished, and nothing else changes. *)
LEMMA FinishedKeeps ==
  ASSUME NEW s \in States, NEW i \in Index
  PROVE  LET u == [s EXCEPT !.finished[i] = TRUE]
         IN  /\ u \in States /\ SameProgress(s, u) /\ SameIDs(s, u)
             /\ u.outputs = s.outputs /\ u.finished = [s.finished EXCEPT ![i] = TRUE]
<1> DEFINE f == [s.finished EXCEPT ![i] = TRUE]
<1>1. f \in [Index -> BOOLEAN]
  BY DEF States
<1> HIDE DEF f
<1>2. [s EXCEPT !.finished = f] \in States
  BY <1>1 DEF States
<1>3. LET u == [s EXCEPT !.finished = f]
      IN  SameProgress(s, u) /\ SameIDs(s, u) /\ u.outputs = s.outputs /\ u.finished = f
  BY DEF States, SameProgress, SameIDs
<1> QED
  BY <1>2, <1>3 DEF f

(* A claimed call id belongs to its output, and nothing else changes. *)
LEMMA ClaimCallKeeps ==
  ASSUME NEW s \in States, NEW i \in Index, NEW id \in CallIDs \cup {NoID}
  PROVE  LET u == ClaimCall(s, i, id)
         IN  /\ u \in States /\ SameIDs(s, u) /\ SameTypes(s, u)
             /\ u.calls = s.calls /\ u.reasoning = s.reasoning /\ u.text = s.text
             /\ u.nextCall = s.nextCall /\ u.retained = s.retained
             /\ \A d \in CallIDs : u.callIDs[d] = IF d = id THEN i ELSE s.callIDs[d]
<1>1. CASE id = NoID
  <2>1. \A d \in CallIDs : d # id
    BY <1>1, ResponsesAssumption
  <2> QED
    BY <1>1, <2>1 DEF ClaimCall, SameIDs, SameTypes
<1>2. CASE id # NoID
  <2> DEFINE f == [s.callIDs EXCEPT ![id] = i]
             u == [s EXCEPT !.callIDs = f]
  <2>1. /\ f \in [CallIDs -> Index \cup {-1}]
        /\ \A d \in CallIDs : f[d] = IF d = id THEN i ELSE s.callIDs[d]
    BY <1>2 DEF States
  <2>2. ClaimCall(s, i, id) = u
    BY <1>2 DEF ClaimCall
  <2> HIDE DEF f
  <2>3. u \in States
    BY <2>1 DEF States
  <2>4. /\ SameIDs(s, u) /\ SameTypes(s, u) /\ u.callIDs = f
        /\ u.calls = s.calls /\ u.reasoning = s.reasoning /\ u.text = s.text
        /\ u.nextCall = s.nextCall /\ u.retained = s.retained
    BY DEF States, SameIDs, SameTypes
  <2> QED
    BY <2>1, <2>2, <2>3, <2>4
<1> QED
  BY <1>1, <1>2

(* The budget is charged, and nothing else changes. *)
LEMMA RetainKeeps ==
  ASSUME NEW s \in States, NEW n \in Nat
  PROVE  LET u == Retain(s, n)
         IN  /\ u \in States /\ SameIDs(s, u) /\ SameTypes(s, u)
             /\ u.calls = s.calls /\ u.callIDs = s.callIDs /\ u.reasoning = s.reasoning
             /\ u.text = s.text /\ u.nextCall = s.nextCall
             /\ u.retained = s.retained + n
<1> DEFINE m == s.retained + n
<1>1. m \in Nat
  BY DEF States
<1>2. Retain(s, n) = [s EXCEPT !.retained = m]
  BY DEF Retain
<1> HIDE DEF m
<1>3. [s EXCEPT !.retained = m] \in States
  BY <1>1 DEF States
<1>4. LET u == [s EXCEPT !.retained = m]
      IN  /\ SameIDs(s, u) /\ SameTypes(s, u)
          /\ u.calls = s.calls /\ u.callIDs = s.callIDs /\ u.reasoning = s.reasoning
          /\ u.text = s.text /\ u.nextCall = s.nextCall /\ u.retained = m
  BY DEF States, SameIDs, SameTypes
<1> QED
  BY <1>2, <1>3, <1>4 DEF m

(* One call changes, and nothing else. *)
LEMMA CallsKeep ==
  ASSUME NEW s \in States, NEW i \in Index, NEW call \in CallRecords
  PROVE  LET u == [s EXCEPT !.calls = [s.calls EXCEPT ![i] = call]]
         IN  /\ u \in States /\ SameIDs(s, u) /\ SameTypes(s, u)
             /\ u.callIDs = s.callIDs /\ u.reasoning = s.reasoning /\ u.text = s.text
             /\ u.nextCall = s.nextCall /\ u.retained = s.retained
             /\ u.calls[i] = call /\ \A j \in Index \ {i} : u.calls[j] = s.calls[j]
<1> DEFINE f == [s.calls EXCEPT ![i] = call]
<1>1. /\ f \in [Index -> CallRecords] /\ f[i] = call
      /\ \A j \in Index \ {i} : f[j] = s.calls[j]
  BY DEF States
<1> HIDE DEF f
<1>2. [s EXCEPT !.calls = f] \in States
  BY <1>1 DEF States
<1>3. LET u == [s EXCEPT !.calls = f]
      IN  /\ SameIDs(s, u) /\ SameTypes(s, u) /\ u.calls = f
          /\ u.callIDs = s.callIDs /\ u.reasoning = s.reasoning /\ u.text = s.text
          /\ u.nextCall = s.nextCall /\ u.retained = s.retained
  BY DEF States, SameIDs, SameTypes
<1> QED
  BY <1>1, <1>2, <1>3 DEF f

(* One text changes, and nothing else. *)
LEMMA TextKeeps ==
  ASSUME NEW s \in States, NEW i \in Index, NEW text \in Contents
  PROVE  LET u == [s EXCEPT !.text[i] = text]
         IN  /\ u \in States /\ SameIDs(s, u) /\ SameTypes(s, u)
             /\ u.callIDs = s.callIDs /\ u.reasoning = s.reasoning /\ u.calls = s.calls
             /\ u.nextCall = s.nextCall /\ u.retained = s.retained
             /\ u.text[i] = text /\ \A j \in Index \ {i} : u.text[j] = s.text[j]
<1> DEFINE f == [s.text EXCEPT ![i] = text]
<1>1. /\ f \in [Index -> Contents] /\ f[i] = text
      /\ \A j \in Index \ {i} : f[j] = s.text[j]
  BY DEF States
<1> HIDE DEF f
<1>2. [s EXCEPT !.text = f] \in States
  BY <1>1 DEF States
<1>3. LET u == [s EXCEPT !.text = f]
      IN  /\ SameIDs(s, u) /\ SameTypes(s, u) /\ u.text = f
          /\ u.callIDs = s.callIDs /\ u.reasoning = s.reasoning /\ u.calls = s.calls
          /\ u.nextCall = s.nextCall /\ u.retained = s.retained
  BY DEF States, SameIDs, SameTypes
<1> QED
  BY <1>1, <1>2, <1>3 DEF f

(* The reasoning of one output is kept, and nothing else changes. *)
LEMMA ReasoningKeeps ==
  ASSUME NEW s \in States, NEW i \in Index, NEW raw \in RawReasoning
  PROVE  LET u == [s EXCEPT !.reasoning[i] = raw]
         IN  /\ u \in States /\ SameIDs(s, u) /\ SameTypes(s, u)
             /\ u.callIDs = s.callIDs /\ u.text = s.text /\ u.calls = s.calls
             /\ u.nextCall = s.nextCall /\ u.retained = s.retained
             /\ u.reasoning[i] = raw
             /\ \A j \in Index \ {i} : u.reasoning[j] = s.reasoning[j]
<1> DEFINE f == [s.reasoning EXCEPT ![i] = raw]
<1>1. /\ f \in [Index -> RawReasoning \cup {None}] /\ f[i] = raw
      /\ \A j \in Index \ {i} : f[j] = s.reasoning[j]
  BY DEF States
<1> HIDE DEF f
<1>2. [s EXCEPT !.reasoning = f] \in States
  BY <1>1 DEF States
<1>3. LET u == [s EXCEPT !.reasoning = f]
      IN  /\ SameIDs(s, u) /\ SameTypes(s, u) /\ u.reasoning = f
          /\ u.callIDs = s.callIDs /\ u.text = s.text /\ u.calls = s.calls
          /\ u.nextCall = s.nextCall /\ u.retained = s.retained
  BY DEF States, SameIDs, SameTypes
<1> QED
  BY <1>1, <1>2, <1>3 DEF f

(* The next tool index grows by one, and nothing else changes. *)
LEMMA NextCallKeeps ==
  ASSUME NEW s \in States
  PROVE  LET u == [s EXCEPT !.nextCall = @ + 1]
         IN  /\ u \in States /\ SameIDs(s, u) /\ SameTypes(s, u)
             /\ u.callIDs = s.callIDs /\ u.text = s.text /\ u.calls = s.calls
             /\ u.reasoning = s.reasoning /\ u.retained = s.retained
             /\ u.nextCall = s.nextCall + 1
<1> DEFINE m == s.nextCall + 1
<1>1. m \in Nat
  BY DEF States
<1> HIDE DEF m
<1>2. [s EXCEPT !.nextCall = m] \in States
  BY <1>1 DEF States
<1>3. LET u == [s EXCEPT !.nextCall = m]
      IN  /\ SameIDs(s, u) /\ SameTypes(s, u)
          /\ u.callIDs = s.callIDs /\ u.text = s.text /\ u.calls = s.calls
          /\ u.reasoning = s.reasoning /\ u.retained = s.retained /\ u.nextCall = m
  BY DEF States, SameIDs, SameTypes
<1> QED
  BY <1>2, <1>3 DEF m

-----------------------------------------------------------------------------
(* Steps are made of updates *)

(* What ids, types and finishing change beside a step. *)
Settles(s, u, i) ==
  /\ u \in States /\ SameProgress(s, u) /\ IDsOwned(u)
  /\ \A j \in Index \ {i} : u.outputs[j] = s.outputs[j] /\ u.finished[j] = s.finished[j]

(* A sound state stays sound when no more than these change. *)
LEMMA SettledIsSound ==
  ASSUME NEW s, NEW u, NEW i, Sound(s), Settles(s, u, i)
  PROVE  Sound(u)
BY DEF Settles, Sound, SameProgress, CallIsSound, CallsAreApart

(* A step may follow such a change, *)
LEMMA SettlesFirst ==
  ASSUME NEW s, NEW u, NEW t, NEW i \in Index, NEW cs, Settles(s, u, i), Step(u, t, cs, i)
  PROVE  Step(s, t, cs, i)
<1>1. /\ u.calls = s.calls /\ u.reasoning = s.reasoning /\ u.text = s.text
      /\ u.nextCall = s.nextCall /\ u.retained = s.retained
  BY DEF Settles, SameProgress
<1>2. OnlyOutput(s, t, i)
  BY <1>1 DEF Settles, Step, OnlyOutput
<1>3. Quiet(u, t, i) => Quiet(s, t, i)
  BY <1>1 DEF Quiet
<1>4. \A c : Loud(u, t, c, i) => Loud(s, t, c, i)
  BY <1>1 DEF Loud
<1> QED
  BY <1>2, <1>3, <1>4 DEF Step

(* or precede it, and is a step from the first state to the last. *)
LEMMA SettlesLast ==
  ASSUME NEW s, NEW t, NEW u, NEW i \in Index, NEW cs, Step(s, t, cs, i), Settles(t, u, i)
  PROVE  Step(s, u, cs, i)
<1>1. /\ u.calls = t.calls /\ u.reasoning = t.reasoning /\ u.text = t.text
      /\ u.nextCall = t.nextCall /\ u.retained = t.retained
  BY DEF Settles, SameProgress
<1>2. OnlyOutput(s, u, i)
  BY <1>1 DEF Settles, Step, OnlyOutput
<1>3. Quiet(s, t, i) => Quiet(s, u, i)
  BY <1>1 DEF Quiet
<1>4. \A c : Loud(s, t, c, i) => Loud(s, u, c, i)
  BY <1>1 DEF Loud
<1>5. u \in States /\ Sound(u)
  BY SettledIsSound DEF Step, Settles
<1> QED
  BY <1>2, <1>3, <1>4, <1>5 DEF Step

(* Claiming an item, with or without fixing its type, settles. *)
LEMMA ClaimSettles ==
  ASSUME NEW s \in States, NEW i \in Index, NEW item \in Items,
         Sound(s), MayClaimItem(s, i, item.id)
  PROVE  /\ LET u == ClaimItem(s, i, item.id)
            IN  Settles(s, u, i) /\ u.outputs = s.outputs /\ u.finished = s.finished
         /\ LET u == [ClaimItem(s, i, item.id) EXCEPT !.outputs[i] = item.type]
            IN  /\ Settles(s, u, i) /\ u.finished = s.finished
                /\ u.outputs = [s.outputs EXCEPT ![i] = item.type]
<1> DEFINE v == ClaimItem(s, i, item.id)
           u == [v EXCEPT !.outputs[i] = item.type]
<1>1. item.id \in ItemIDs \cup {NoID} /\ item.type \in ItemTypes /\ IDsOwned(s)
  BY ItemFields DEF Sound
<1>2. v \in States /\ IDsOwned(v) /\ SameProgress(s, v) /\ SameTypes(s, v)
  BY <1>1, ClaimItemKeeps
<1> HIDE DEF v
<1>3. /\ u \in States /\ SameProgress(v, u) /\ SameIDs(v, u)
      /\ u.finished = v.finished /\ u.outputs = [v.outputs EXCEPT ![i] = item.type]
  BY <1>1, <1>2, OutputsKeep
<1> HIDE DEF u
<1>4. Settles(s, v, i) /\ v.outputs = s.outputs /\ v.finished = s.finished
  BY <1>2 DEF Settles, SameTypes
<1>5. IDsOwned(u) /\ SameProgress(s, u)
  BY <1>2, <1>3 DEF IDsOwned, SameIDs, SameProgress
<1>6. u.finished = s.finished /\ u.outputs = [s.outputs EXCEPT ![i] = item.type]
  BY <1>3, <1>4
<1>7. \A j \in Index \ {i} : u.outputs[j] = s.outputs[j]
  BY <1>6 DEF States
<1>8. Settles(s, u, i)
  BY <1>3, <1>5, <1>6, <1>7 DEF Settles
<1> QED
  BY <1>4, <1>6, <1>8 DEF u, v

(* Finishing an item is such a change. *)
LEMMA FinishSettles ==
  ASSUME NEW s \in States, NEW i \in Index, Sound(s)
  PROVE  LET u == [s EXCEPT !.finished[i] = TRUE]
         IN  /\ Settles(s, u, i) /\ u.outputs = s.outputs
             /\ u.finished = [s.finished EXCEPT ![i] = TRUE]
<1> DEFINE u == [s EXCEPT !.finished[i] = TRUE]
<1>1. /\ u \in States /\ SameProgress(s, u) /\ SameIDs(s, u)
      /\ u.outputs = s.outputs /\ u.finished = [s.finished EXCEPT ![i] = TRUE]
  BY FinishedKeeps
<1> HIDE DEF u
<1>2. IDsOwned(u)
  BY <1>1 DEF Sound, IDsOwned, SameIDs
<1>3. \A j \in Index \ {i} : u.finished[j] = s.finished[j]
  BY <1>1 DEF States
<1> QED
  BY <1>1, <1>2, <1>3 DEF Settles, u

(* A change of one call, with the id it claims, keeps the calls sound. *)
LEMMA CallChangeIsSound ==
  ASSUME NEW s \in States, NEW u \in States, NEW i \in Index, NEW id \in CallIDs \cup {NoID},
         Sound(s), MayClaimCall(s, i, id), SameIDs(s, u), u.retained <= MaxRetained,
         \A j \in Index \ {i} : u.calls[j] = s.calls[j],
         \A d \in CallIDs : u.callIDs[d] = IF d = id THEN i ELSE s.callIDs[d],
         CallIsSound(u, i),
         \/ u.calls[i].index = s.calls[i].index /\ u.nextCall = s.nextCall
         \/ u.calls[i].index = s.nextCall /\ u.nextCall = s.nextCall + 1
  PROVE  Sound(u)
<1>1. s.nextCall \in Nat /\ u.nextCall \in Nat
  BY DEF States
<1>2. \A j \in Index : CallIsSound(s, j) /\ s.calls[j].index \in -1 .. s.nextCall - 1
  BY DEF Sound, CallIsSound
<1>3. ASSUME NEW j \in Index \ {i} PROVE CallIsSound(u, j)
  <2>1. u.calls[j] = s.calls[j] /\ s.calls[j] \in CallRecords
    BY DEF States
  <2>2. s.calls[j].index \in -1 .. u.nextCall - 1
    BY <1>1, <1>2
  <2>3. ASSUME s.calls[j].callID # NoID PROVE u.callIDs[s.calls[j].callID] = j
    <3>1. s.calls[j].callID \in CallIDs
      BY <2>1, <2>3 DEF CallRecords
    <3>2. s.callIDs[s.calls[j].callID] = j
      BY <1>2, <2>3 DEF CallIsSound
    <3>3. s.calls[j].callID # id
      <4>1. j # -1 /\ j # i
        BY IndexIsFinite
      <4> QED
        BY <2>3, <3>2, <4>1 DEF MayClaimCall
    <3> QED
      BY <3>1, <3>2, <3>3
  <2> QED
    BY <1>2, <2>1, <2>2, <2>3 DEF CallIsSound
<1>4. CallsAreApart(u)
  <2> SUFFICES ASSUME NEW j \in Index, NEW k \in Index,
                      u.calls[j].index = u.calls[k].index, u.calls[j].index # -1
               PROVE  j = k
    BY DEF CallsAreApart
  <2>1. \A a, b \in Index : s.calls[a].index = s.calls[b].index /\ s.calls[a].index # -1 => a = b
    BY DEF Sound, CallsAreApart
  <2>2. CASE u.calls[i].index = s.calls[i].index
    BY <2>1, <2>2
  <2>3. CASE u.calls[i].index = s.nextCall
    <3>1. \A a \in Index \ {i} : u.calls[a].index < s.nextCall
      BY <1>1, <1>2
    <3> QED
      BY <1>1, <2>1, <2>3, <3>1
  <2> QED
    BY <2>2, <2>3
<1>5. IDsOwned(u)
  BY DEF Sound, IDsOwned, SameIDs
<1>6. \A j \in Index : CallIsSound(u, j)
  BY <1>3
<1> QED
  BY <1>4, <1>5, <1>6 DEF Sound

-----------------------------------------------------------------------------
(* The handlers take steps *)

Only(cs, kind) == \A c : cs = <<c>> => c.kind = kind

(* The result of a handler is the state and the chunks it was given. *)
LEMMA DoesFields ==
  ASSUME NEW s, NEW cs
  PROVE  Does(s, cs).ok /\ Does(s, cs).state = s /\ Does(s, cs).chunks = cs /\ ~Fails.ok
BY DEF Does, Fails

(* What is no call has nothing of one. *)
LEMMA NoCallFields ==
  /\ NoCall \in CallRecords /\ NoCall.args = <<>>
  /\ NoCall.index = -1 /\ NoCall.callID = NoID /\ ~NoCall.sawDelta /\ ~NoCall.completed
<1> DEFINE none == <<>>
           unset == <<None>>
<1>1. NoCall = [index |-> -1, callID |-> NoID, args |-> none, doneArgs |-> unset,
                sawDelta |-> FALSE, completed |-> FALSE]
  BY Zenon DEF NoCall
<1>2. none \in Contents /\ unset \in ArgumentTexts \cup {<<None>>}
  BY DEF Contents
<1> HIDE DEF none, unset
<1>3. NoCall \in CallRecords
  BY <1>1, <1>2 DEF CallRecords
<1>4. /\ NoCall.args = none
      /\ NoCall.index = -1 /\ NoCall.callID = NoID /\ ~NoCall.sawDelta /\ ~NoCall.completed
  BY <1>1
<1> QED
  BY <1>3, <1>4 DEF none

(* A new call has the next index, and nothing more than its id. *)
LEMMA NewCallKeeps ==
  ASSUME NEW s \in States, NEW i \in Index, NEW id \in CallIDs \cup {NoID},
         Sound(s), MayClaimCall(s, i, id)
  PROVE  LET u == NewCall(s, i, id)
         IN  /\ u \in States /\ SameIDs(s, u) /\ SameTypes(s, u) /\ Sound(u)
             /\ u.text = s.text /\ u.reasoning = s.reasoning /\ u.retained = s.retained
             /\ u.nextCall = s.nextCall + 1
             /\ \A j \in Index \ {i} : u.calls[j] = s.calls[j]
             /\ \A d \in CallIDs : u.callIDs[d] = IF d = id THEN i ELSE s.callIDs[d]
             /\ u.calls[i].index = s.nextCall /\ u.calls[i].callID = id
             /\ u.calls[i].args = <<>> /\ ~u.calls[i].sawDelta /\ ~u.calls[i].completed
<1> DEFINE v == ClaimCall(s, i, id)
           call == [NoCall EXCEPT !.index = s.nextCall, !.callID = id]
           f == [v.calls EXCEPT ![i] = call]
           m == v.nextCall + 1
           u == [v EXCEPT !.calls = f, !.nextCall = m]
<1>1. /\ v \in States /\ SameIDs(s, v) /\ SameTypes(s, v)
      /\ v.calls = s.calls /\ v.reasoning = s.reasoning /\ v.text = s.text
      /\ v.nextCall = s.nextCall /\ v.retained = s.retained
      /\ \A d \in CallIDs : v.callIDs[d] = IF d = id THEN i ELSE s.callIDs[d]
  BY ClaimCallKeeps
<1>2. s.nextCall \in Nat
  BY DEF States
<1>3. call \in CallRecords
  <2> DEFINE x == s.nextCall
  <2>1. NoCall \in CallRecords /\ x \in Int
    BY <1>2, NoCallFields
  <2> HIDE DEF x
  <2>2. [NoCall EXCEPT !.index = x, !.callID = id] \in CallRecords
    BY <2>1 DEF CallRecords
  <2> QED
    BY <2>2 DEF x
<1>4. /\ call.index = s.nextCall /\ call.callID = id
      /\ call.args = <<>> /\ ~call.sawDelta /\ ~call.completed
  BY NoCallFields DEF CallRecords
<1>5. NewCall(s, i, id) = u
  BY DEF NewCall
<1> HIDE DEF v, call
<1>6. /\ f \in [Index -> CallRecords] /\ f[i] = call
      /\ \A j \in Index \ {i} : f[j] = s.calls[j]
  BY <1>1, <1>3 DEF States
<1>7. m \in Nat /\ m = s.nextCall + 1
  BY <1>1, <1>2
<1> HIDE DEF f, m
<1>8. u \in States
  BY <1>1, <1>6, <1>7 DEF States
<1>9. /\ u.calls = f /\ u.nextCall = m /\ u.callIDs = v.callIDs
      /\ u.text = s.text /\ u.reasoning = s.reasoning /\ u.retained = s.retained
      /\ SameIDs(s, u) /\ SameTypes(s, u)
  BY <1>1 DEF States, SameIDs, SameTypes
<1> HIDE DEF u
<1>10. CallIsSound(u, i)
  <2>1. id # NoID => u.callIDs[id] = i
    BY <1>1, <1>9
  <2>2. s.nextCall \in -1 .. u.nextCall - 1 /\ s.nextCall # -1
    BY <1>2, <1>7, <1>9
  <2> QED
    BY <1>4, <1>6, <1>9, <2>1, <2>2 DEF CallIsSound
<1>11. u.retained <= MaxRetained
  BY <1>9 DEF Sound
<1>12. Sound(u)
  <2>1. u.calls[i].index = s.nextCall /\ u.nextCall = s.nextCall + 1
    BY <1>4, <1>6, <1>7, <1>9
  <2>2. \A j \in Index \ {i} : u.calls[j] = s.calls[j]
    BY <1>6, <1>9
  <2>3. \A d \in CallIDs : u.callIDs[d] = IF d = id THEN i ELSE s.callIDs[d]
    BY <1>1, <1>9
  <2> QED
    BY <1>8, <1>9, <1>10, <1>11, <2>1, <2>2, <2>3, CallChangeIsSound
<1>13. u.calls[i] = call
  BY <1>6, <1>9
<1>14. /\ \A j \in Index \ {i} : u.calls[j] = s.calls[j]
       /\ \A d \in CallIDs : u.callIDs[d] = IF d = id THEN i ELSE s.callIDs[d]
       /\ u.nextCall = s.nextCall + 1
  BY <1>1, <1>6, <1>7, <1>9
<1> QED
  BY <1>4, <1>5, <1>8, <1>9, <1>12, <1>13, <1>14 DEF call

(* The chunks are chunks. *)
LEMMA ChunkFields ==
  ASSUME NEW i \in Index, NEW data \in Contents, NEW call \in CallRecords
  PROVE  /\ TextChunk(i, data) \in Chunks /\ TextChunk(i, data).kind = "text"
         /\ TextChunk(i, data).output = i /\ TextChunk(i, data).data = data
         /\ ReasoningChunk(i) \in Chunks /\ ReasoningChunk(i).kind = "reasoning"
         /\ ReasoningChunk(i).output = i /\ ReasoningChunk(i).data = <<>>
         /\ ToolCallChunk(i, call, data) \in Chunks
         /\ ToolCallChunk(i, call, data).kind = "call"
         /\ ToolCallChunk(i, call, data).output = i /\ ToolCallChunk(i, call, data).data = data
         /\ ToolCallChunk(i, call, data).index = call.index
         /\ ToolCallChunk(i, call, data).callID = call.callID
<1>1. NoID \in CallIDs \cup {NoID} /\ <<>> \in Contents
  BY DEF Contents
<1> QED
  BY <1>1 DEF TextChunk, ReasoningChunk, ToolCallChunk, Chunks, CallRecords

(* An item announced. *)
LEMMA AddItemStep ==
  ASSUME NEW s \in States, NEW i \in Index, NEW item \in Items, Sound(s),
         s.calls[i].index # -1 => s.outputs[i] = "function_call", AddItem(s, i, item).ok
  PROVE  LET h == AddItem(s, i, item)
         IN  /\ Step(s, h.state, h.chunks, i) /\ Only(h.chunks, "call")
             /\ s.outputs[i] = None /\ h.state.outputs[i] = item.type
             /\ h.state.finished = s.finished
             /\ h.state.calls[i].index # -1 => item.type = "function_call"
             /\ h.chunks # <<>> => item.type = "function_call"
<1> DEFINE h == AddItem(s, i, item)
           claimed == [ClaimItem(s, i, item.id) EXCEPT !.outputs[i] = item.type]
           added == NewCall(claimed, i, item.callID)
<1>1. s.outputs[i] = None /\ MayClaimItem(s, i, item.id)
  BY DoesFields DEF AddItem
<1>2. /\ Settles(s, claimed, i) /\ claimed.finished = s.finished
      /\ claimed.outputs = [s.outputs EXCEPT ![i] = item.type]
  BY <1>1, ClaimSettles
<1>3. item.type # "function_call" => h = Does(claimed, <<>>)
  BY <1>1, DoesFields DEF AddItem
<1>4. item.type = "function_call" =>
        /\ MayClaimCall(s, i, item.callID)
        /\ h = Does(added, <<ToolCallChunk(i, added.calls[i], <<>>)>>)
  BY <1>1, DoesFields DEF AddItem
<1> HIDE DEF h, claimed
<1>5. /\ claimed \in States /\ Sound(claimed) /\ SameProgress(s, claimed)
      /\ claimed.outputs[i] = item.type
  BY <1>2, SettledIsSound DEF Settles, States
<1>6. CASE item.type # "function_call"
  <2>1. h.state = claimed /\ h.chunks = <<>>
    BY <1>3, <1>6, DoesFields
  <2>2. Step(s, claimed, <<>>, i)
    <3>1. Quiet(s, claimed, i)
      BY <1>5 DEF Quiet, SameProgress
    <3>2. OnlyOutput(s, claimed, i)
      BY <1>2, <1>5 DEF Settles, SameProgress, OnlyOutput
    <3> QED
      BY <1>5, <3>1, <3>2 DEF Step
  <2>3. Only(<<>>, "call")
    BY DEF Only
  <2>4. claimed.calls[i].index = -1
    BY <1>1, <1>5 DEF SameProgress, None
  <2> QED
    BY <1>1, <1>2, <1>5, <2>1, <2>2, <2>3, <2>4 DEF h
<1>7. CASE item.type = "function_call"
  <2> DEFINE c == ToolCallChunk(i, added.calls[i], <<>>)
  <2>1. h.state = added /\ h.chunks = <<c>>
    BY <1>4, <1>7, DoesFields
  <2>2. item.callID \in CallIDs \cup {NoID}
    BY <1>7, ItemFields
  <2>3. MayClaimCall(claimed, i, item.callID)
    BY <1>4, <1>5, <1>7 DEF MayClaimCall, SameProgress
  <2>4. /\ added \in States /\ SameTypes(claimed, added) /\ Sound(added)
        /\ added.text = claimed.text /\ added.reasoning = claimed.reasoning
        /\ added.retained = claimed.retained /\ added.nextCall = claimed.nextCall + 1
        /\ \A j \in Index \ {i} : added.calls[j] = claimed.calls[j]
        /\ added.calls[i].index = claimed.nextCall /\ added.calls[i].args = <<>>
    BY <1>5, <2>2, <2>3, NewCallKeeps
  <2> HIDE DEF added
  <2>5. added.calls[i] \in CallRecords /\ <<>> \in Contents
    BY <2>4 DEF States, Contents
  <2>6. /\ c \in Chunks /\ c.kind = "call" /\ c.output = i /\ c.data = <<>>
        /\ c.index = added.calls[i].index /\ c.callID = added.calls[i].callID
    BY <2>5, ChunkFields
  <2> HIDE DEF c
  <2>7. s.calls[i].index = -1 /\ s.calls[i].callID = NoID /\ s.calls[i].args = <<>>
    <3>1. s.calls[i].index = -1
      BY <1>1 DEF None
    <3> QED
      BY <3>1 DEF Sound, CallIsSound
  <2>8. /\ claimed.calls = s.calls /\ claimed.text = s.text /\ claimed.reasoning = s.reasoning
        /\ claimed.nextCall = s.nextCall /\ claimed.retained = s.retained
    BY <1>5 DEF SameProgress
  <2>9. s.retained \in Nat
    BY DEF States
  <2>10. Loud(claimed, added, c, i)
    <3>1. added.calls[i].args = claimed.calls[i].args \o c.data
      BY <2>4, <2>6, <2>7, <2>8
    <3>2. added.retained = claimed.retained + Len(c.data)
      BY <2>4, <2>6, <2>8, <2>9
    <3> QED
      BY <2>4, <2>6, <2>7, <2>8, <3>1, <3>2 DEF Loud
  <2>11. OnlyOutput(claimed, added, i)
    BY <2>4 DEF OnlyOutput, SameTypes
  <2>12. Step(claimed, added, <<c>>, i)
    BY <2>4, <2>6, <2>10, <2>11 DEF Step
  <2>13. Step(s, added, <<c>>, i)
    BY <1>2, <2>12, SettlesFirst
  <2>14. Only(<<c>>, "call")
    BY <2>6 DEF Only
  <2>15. added.outputs[i] = item.type /\ added.finished = s.finished
    BY <1>2, <1>5, <2>4 DEF SameTypes
  <2> QED
    BY <1>1, <1>7, <2>1, <2>13, <2>14, <2>15 DEF h
<1> QED
  BY <1>6, <1>7 DEF h

(* What a snapshot adds to what it extends. *)
LEMMA SuffixCompletes ==
  ASSUME NEW sent \in Contents, NEW snapshot \in Contents, IsPrefix(sent, snapshot)
  PROVE  Suffix(sent, snapshot) \in Contents /\ sent \o Suffix(sent, snapshot) = snapshot
<1> DEFINE m == Len(sent)
           n == Len(snapshot)
           u == SubSeq(snapshot, m + 1, n)
           w == sent \o u
<1>1. /\ sent \in Seq(Tokens) /\ snapshot \in Seq(Tokens) /\ m \in Nat /\ n \in Nat /\ m <= n
      /\ SubSeq(sent, 1, m) = SubSeq(snapshot, 1, m)
  BY LenProperties DEF Contents, IsPrefix
<1>2. ASSUME NEW k \in 1 .. m PROVE sent[k] = snapshot[k]
  <2>1. /\ \A l \in 1 .. m : sent[l] \in Tokens /\ snapshot[l] \in Tokens
        /\ 1 \in Int /\ m \in Int /\ (1 + k) - 1 = k /\ k \in 1 .. (m - 1) + 1
    BY <1>1
  <2>2. SubSeq(sent, 1, m)[k] = sent[1 + k - 1] /\ SubSeq(snapshot, 1, m)[k] = snapshot[1 + k - 1]
    BY <2>1, SubSeqProperties
  <2> QED
    BY <1>1, <2>1, <2>2
<1>3. /\ u \in Seq(Tokens) /\ Len(u) = n - m /\ \A k \in 1 .. n - m : u[k] = snapshot[m + k]
  <2>1. /\ \A l \in m + 1 .. n : snapshot[l] \in Tokens
        /\ m + 1 \in Int /\ n \in Int
    BY <1>1
  <2>2. /\ u \in Seq(Tokens) /\ Len(u) = IF m + 1 <= n THEN n - (m + 1) + 1 ELSE 0
        /\ \A k \in 1 .. n - (m + 1) + 1 : u[k] = snapshot[(m + 1) + k - 1]
    BY <2>1, SubSeqProperties
  <2> HIDE DEF u, m, n
  <2> QED
    BY <1>1, <2>2
<1> HIDE DEF u, m, n
<1>4. /\ w \in Seq(Tokens) /\ Len(w) = m + Len(u)
      /\ \A k \in 1 .. m + Len(u) : w[k] = IF k <= m THEN sent[k] ELSE u[k - m]
  BY <1>1, <1>3, ConcatProperties DEF m
<1> HIDE DEF w
<1>5. Len(w) = Len(snapshot)
  BY <1>1, <1>3, <1>4 DEF n
<1>6. ASSUME NEW k \in 1 .. Len(w) PROVE w[k] = snapshot[k]
  <2>1. k \in 1 .. m + Len(u) /\ k \in 1 .. n
    BY <1>1, <1>3, <1>4
  <2>2. CASE k <= m
    <3>1. k \in 1 .. m
      BY <1>1, <2>1, <2>2
    <3> QED
      BY <1>2, <1>4, <2>1, <2>2, <3>1
  <2>3. CASE ~(k <= m)
    <3>1. k - m \in 1 .. n - m /\ m + (k - m) = k
      BY <1>1, <2>1, <2>3
    <3>2. w[k] = u[k - m] /\ u[k - m] = snapshot[m + (k - m)]
      BY <1>3, <1>4, <2>1, <2>3, <3>1
    <3> QED
      BY <3>1, <3>2
  <2> QED
    BY <2>2, <2>3
<1>7. w = snapshot
  BY <1>1, <1>4, <1>5, <1>6, SeqEqual
<1>8. Suffix(sent, snapshot) = u
  BY DEF Suffix, u, m, n
<1> QED
  BY <1>3, <1>7, <1>8 DEF w, Contents

(* A state stays sound while its calls and ids are the same. *)
LEMMA SameCallsAreSound ==
  ASSUME NEW s \in States, NEW u \in States, Sound(s), SameIDs(s, u), u.calls = s.calls,
         u.callIDs = s.callIDs, u.nextCall = s.nextCall, u.retained <= MaxRetained
  PROVE  Sound(u)
<1>1. IDsOwned(u)
  BY DEF Sound, IDsOwned, SameIDs
<1>2. \A i \in Index : CallIsSound(u, i)
  BY DEF Sound, CallIsSound
<1>3. CallsAreApart(u)
  BY DEF Sound, CallsAreApart
<1> QED
  BY <1>1, <1>2, <1>3 DEF Sound

SameCalls(s, t) == t.calls = s.calls
HasText(t, i, text) == t.text[i] = text

(* A text grows by what is sent of it, if anything is. *)
Grown(s, i, n, text) == [Retain(s, n) EXCEPT !.text[i] = text]
TextChunks(i, delta) == IF delta = <<>> THEN <<>> ELSE <<TextChunk(i, delta)>>

(* Every field after a text has grown, and the step that it is. *)
LEMMA TextGrows ==
  ASSUME NEW s \in States, NEW i \in Index, NEW delta \in Contents, NEW text, Sound(s),
         Retains(s, Len(delta)), text = s.text[i] \o delta
  PROVE  /\ Step(s, Grown(s, i, Len(delta), text), TextChunks(i, delta), i)
         /\ Only(TextChunks(i, delta), "text")
         /\ SameTypes(s, Grown(s, i, Len(delta), text))
         /\ SameCalls(s, Grown(s, i, Len(delta), text))
         /\ HasText(Grown(s, i, Len(delta), text), i, text)
<1> DEFINE n == Len(delta)
           v == Retain(s, n)
           t == Grown(s, i, Len(delta), text)
           cs == TextChunks(i, delta)
<1>1. n \in Nat /\ s.text[i] \in Contents /\ s.retained \in Nat
  BY LenProperties DEF States, Contents
<1>2. text \in Contents
  BY <1>1, ConcatProperties DEF Contents
<1>3. s.retained + n <= MaxRetained
  BY DEF Retains
<1>4. delta = <<>> => n = 0 /\ text = s.text[i]
  BY <1>1 DEF Contents
<1> HIDE DEF n
<1>5. /\ v \in States /\ SameIDs(s, v) /\ SameTypes(s, v)
      /\ v.calls = s.calls /\ v.callIDs = s.callIDs /\ v.reasoning = s.reasoning
      /\ v.text = s.text /\ v.nextCall = s.nextCall
      /\ v.retained = s.retained + n
  BY <1>1, RetainKeeps
<1> HIDE DEF v
<1>6. /\ t \in States /\ SameIDs(v, t) /\ SameTypes(v, t)
      /\ t.callIDs = v.callIDs /\ t.reasoning = v.reasoning /\ t.calls = v.calls
      /\ t.nextCall = v.nextCall /\ t.retained = v.retained
      /\ t.text[i] = text /\ \A j \in Index \ {i} : t.text[j] = v.text[j]
  <2> DEFINE w == [v EXCEPT !.text[i] = text]
  <2>1. /\ w \in States /\ SameIDs(v, w) /\ SameTypes(v, w)
        /\ w.callIDs = v.callIDs /\ w.reasoning = v.reasoning /\ w.calls = v.calls
        /\ w.nextCall = v.nextCall /\ w.retained = v.retained
        /\ w.text[i] = text /\ \A j \in Index \ {i} : w.text[j] = v.text[j]
    BY <1>2, <1>5, TextKeeps, ZenonT(30)
  <2>2. t = w
    BY DEF Grown, v, n
  <2> HIDE DEF w, t
  <2> QED
    BY <2>1, <2>2
<1> HIDE DEF t
<1>7. SameIDs(s, t) /\ SameTypes(s, t)
  BY <1>5, <1>6 DEF SameIDs, SameTypes
<1>12. SameCalls(s, t)
  BY <1>5, <1>6 DEF SameCalls
<1>13. HasText(t, i, text)
  BY <1>6 DEF HasText
<1>8. Sound(t)
  <2>1. t.retained <= MaxRetained
    BY <1>3, <1>5, <1>6
  <2> QED
    BY <1>5, <1>6, <1>7, <2>1, SameCallsAreSound
<1>9. OnlyOutput(s, t, i)
  BY <1>5, <1>6, <1>7 DEF OnlyOutput, SameTypes
<1>10. CASE delta = <<>>
  <2>1. cs = <<>>
    BY <1>10 DEF TextChunks
  <2>2. Quiet(s, t, i)
    BY <1>1, <1>4, <1>5, <1>6, <1>10 DEF Quiet
  <2>3. Only(cs, "text")
    BY <2>1 DEF Only
  <2> QED
    BY <1>6, <1>7, <1>8, <1>9, <1>12, <1>13, <2>1, <2>2, <2>3 DEF Step, t
<1>11. CASE delta # <<>>
  <2> DEFINE c == TextChunk(i, delta)
  <2>1. cs = <<c>>
    BY <1>11 DEF TextChunks
  <2>2. c \in Chunks /\ c.kind = "text" /\ c.output = i /\ c.data = delta
    BY NoCallFields, ChunkFields
  <2> HIDE DEF c
  <2>3. Loud(s, t, c, i)
    BY <1>5, <1>6, <2>2 DEF Loud, n
  <2>4. Only(cs, "text")
    BY <2>1, <2>2 DEF Only
  <2> QED
    BY <1>6, <1>7, <1>8, <1>9, <1>12, <1>13, <2>1, <2>2, <2>3, <2>4 DEF Step, t
<1> QED
  BY <1>10, <1>11

(* A delta of a text. *)
LEMMA TextDeltaStep ==
  ASSUME NEW s \in States, NEW i \in Index, NEW delta \in Texts, Sound(s),
         TextDelta(s, i, delta).ok
  PROVE  LET h == TextDelta(s, i, delta)
         IN  /\ Step(s, h.state, h.chunks, i) /\ Only(h.chunks, "text")
             /\ s.outputs[i] = "message" /\ ~s.finished[i]
             /\ SameTypes(s, h.state) /\ SameCalls(s, h.state)
<1> DEFINE h == TextDelta(s, i, delta)
           text == s.text[i] \o delta
           t == [Retain(s, Len(delta)) EXCEPT !.text[i] = text]
           cs == IF delta = <<>> THEN <<>> ELSE <<TextChunk(i, delta)>>
<1>1. delta \in Contents
  BY TextsAreContents
<1>2. Len(delta) \in Nat
  BY <1>1, LenProperties DEF Contents
<1>3. s.outputs[i] = "message" /\ ~s.finished[i] /\ Retains(s, Len(delta))
  BY DoesFields DEF TextDelta
<1>4. Retain(s, Len(delta)).text = s.text
  BY <1>2, RetainKeeps
<1>5. t = [Retain(s, Len(delta)) EXCEPT !.text[i] = @ \o delta]
  BY <1>4
<1>6. h = Does(t, cs)
  BY <1>3, <1>5 DEF TextDelta
<1>7. h.state = t /\ h.chunks = cs
  BY <1>6, DoesFields
<1>8. Step(s, t, cs, i) /\ Only(cs, "text") /\ SameTypes(s, t) /\ SameCalls(s, t)
  <2>1. t = Grown(s, i, Len(delta), text) /\ cs = TextChunks(i, delta)
    BY DEF Grown, TextChunks
  <2>2. text = s.text[i] \o delta
    OBVIOUS
  <2> HIDE DEF t, cs, text
  <2> DEFINE g == Grown(s, i, Len(delta), text)
  <2>3. Step(s, g, TextChunks(i, delta), i)
    BY <1>1, <1>3, <2>2, TextGrows
  <2>4. Only(TextChunks(i, delta), "text") /\ SameTypes(s, g)
    BY <1>1, <1>3, <2>2, TextGrows
  <2>5. SameCalls(s, g)
    BY <1>1, <1>3, <2>2, TextGrows
  <2> QED
    BY <2>1, <2>3, <2>4, <2>5
<1> HIDE DEF h, t, cs
<1> QED
  BY <1>3, <1>7, <1>8 DEF h

(* A snapshot of a text. *)
LEMMA ReconcileMessageStep ==
  ASSUME NEW s \in States, NEW i \in Index, NEW item \in Items, item.type = "message",
         Sound(s), ReconcileMessage(s, i, item).ok
  PROVE  LET h == ReconcileMessage(s, i, item)
         IN  /\ Step(s, h.state, h.chunks, i) /\ Only(h.chunks, "text")
             /\ s.finished[i] => h.chunks = <<>>
             /\ SameTypes(s, h.state) /\ SameCalls(s, h.state)
             /\ h.state.text[i] = item.text
<1> DEFINE h == ReconcileMessage(s, i, item)
           suffix == Suffix(s.text[i], item.text)
           t == [Retain(s, Len(suffix)) EXCEPT !.text[i] = item.text]
           cs == IF suffix = <<>> THEN <<>> ELSE <<TextChunk(i, suffix)>>
<1>1. item.text \in Contents /\ s.text[i] \in Contents
  BY ItemFields DEF States
<1>2. CASE s.finished[i]
  <2>1. item.text = s.text[i] /\ h = Does(s, <<>>)
    BY <1>2, DoesFields DEF ReconcileMessage
  <2>2. h.state = s /\ h.chunks = <<>>
    BY <2>1, DoesFields
  <2>3. Step(s, s, <<>>, i)
    BY DEF Step, OnlyOutput, Quiet
  <2>4. SameTypes(s, s) /\ SameCalls(s, s) /\ Only(<<>>, "text")
    BY DEF SameTypes, SameCalls, Only
  <2> HIDE DEF h
  <2> QED
    BY <2>1, <2>2, <2>3, <2>4 DEF h
<1>3. CASE ~s.finished[i]
  <2>1. IsPrefix(s.text[i], item.text) /\ Retains(s, Len(suffix))
    BY <1>3, DoesFields DEF ReconcileMessage
  <2>2. h = Does(t, cs)
    BY <1>3, <2>1 DEF ReconcileMessage
  <2>3. h.state = t /\ h.chunks = cs
    BY <2>2, DoesFields
  <2>4. suffix \in Contents /\ item.text = s.text[i] \o suffix
    BY <1>1, <2>1, SuffixCompletes
  <2> HIDE DEF suffix, t, cs
  <2>5. /\ Step(s, t, cs, i) /\ Only(cs, "text") /\ SameTypes(s, t) /\ SameCalls(s, t)
        /\ t.text[i] = item.text
    <3>1. t = Grown(s, i, Len(suffix), item.text) /\ cs = TextChunks(i, suffix)
      BY DEF Grown, TextChunks, t, cs
    <3> DEFINE x == item.text
    <3>2. x = s.text[i] \o suffix
      BY <2>4
    <3> HIDE DEF x
    <3> DEFINE g == Grown(s, i, Len(suffix), x)
    <3>3. Step(s, g, TextChunks(i, suffix), i)
      BY <2>1, <2>4, <3>2, TextGrows
    <3>4. Only(TextChunks(i, suffix), "text") /\ SameTypes(s, g)
      BY <2>1, <2>4, <3>2, TextGrows
    <3>5. SameCalls(s, g)
      BY <2>1, <2>4, <3>2, TextGrows
    <3>6. HasText(g, i, x)
      BY <2>1, <2>4, <3>2, TextGrows
    <3> QED
      BY <3>1, <3>3, <3>4, <3>5, <3>6 DEF x, HasText
  <2> HIDE DEF h
  <2> QED
    BY <1>3, <2>3, <2>5 DEF h
<1> QED
  BY <1>2, <1>3

(* A delta of a reasoning item is passed on, and leaves nothing behind. *)
LEMMA ReasoningDeltaStep ==
  ASSUME NEW s \in States, NEW i \in Index, Sound(s), ReasoningDelta(s, i).ok
  PROVE  LET h == ReasoningDelta(s, i)
         IN  /\ Step(s, h.state, h.chunks, i) /\ Only(h.chunks, "reasoning")
             /\ s.outputs[i] = "reasoning" /\ ~s.finished[i] /\ h.state = s
<1> DEFINE h == ReasoningDelta(s, i)
           c == ReasoningChunk(i)
<1>1. s.outputs[i] = "reasoning" /\ ~s.finished[i] /\ h = Does(s, <<c>>)
  BY DoesFields DEF ReasoningDelta
<1>2. h.state = s /\ h.chunks = <<c>>
  BY <1>1, DoesFields
<1>3. c \in Chunks /\ c.kind = "reasoning" /\ c.output = i /\ c.data = <<>>
  <2>1. NoCall \in CallRecords /\ <<>> \in Contents
    BY NoCallFields DEF Contents
  <2> QED
    BY <2>1, ChunkFields
<1> HIDE DEF h, c
<1>4. s.retained \in Nat /\ Len(c.data) = 0
  BY <1>3 DEF States
<1>5. Loud(s, s, c, i)
  BY <1>3, <1>4 DEF Loud
<1>6. Step(s, s, <<c>>, i) /\ Only(<<c>>, "reasoning")
  BY <1>3, <1>5 DEF Step, OnlyOutput, Only
<1> QED
  BY <1>1, <1>2, <1>6 DEF h

(* A reasoning item is kept, at the price of one. *)
LEMMA FinishReasoningStep ==
  ASSUME NEW s \in States, NEW i \in Index, NEW item \in Items, item.type = "reasoning",
         Sound(s), FinishReasoning(s, i, item).ok
  PROVE  LET h == FinishReasoning(s, i, item)
         IN  /\ Step(s, h.state, h.chunks, i) /\ h.chunks = <<>>
             /\ SameTypes(s, h.state) /\ SameCalls(s, h.state)
             /\ h.state.reasoning[i] = item.raw
<1> DEFINE h == FinishReasoning(s, i, item)
           v == Retain(s, 1)
           t == [v EXCEPT !.reasoning[i] = item.raw]
<1>1. s.reasoning[i] = None /\ Retains(s, 1) /\ h = Does(t, <<>>)
  BY DoesFields DEF FinishReasoning
<1>2. h.state = t /\ h.chunks = <<>>
  BY <1>1, DoesFields
<1>3. item.raw \in RawReasoning
  BY ItemFields
<1>4. /\ v \in States /\ SameIDs(s, v) /\ SameTypes(s, v)
      /\ v.calls = s.calls /\ v.callIDs = s.callIDs /\ v.reasoning = s.reasoning
      /\ v.text = s.text /\ v.nextCall = s.nextCall
      /\ v.retained = s.retained + 1
  BY RetainKeeps
<1> HIDE DEF v
<1>5. /\ t \in States /\ SameIDs(v, t) /\ SameTypes(v, t)
      /\ t.callIDs = v.callIDs /\ t.text = v.text /\ t.calls = v.calls
      /\ t.nextCall = v.nextCall /\ t.retained = v.retained
      /\ t.reasoning[i] = item.raw
      /\ \A j \in Index \ {i} : t.reasoning[j] = v.reasoning[j]
  BY <1>3, <1>4, ReasoningKeeps
<1> HIDE DEF h, t
<1>6. SameIDs(s, t) /\ SameTypes(s, t)
  BY <1>4, <1>5 DEF SameIDs, SameTypes
<1>7. t.retained <= MaxRetained
  BY <1>1, <1>4, <1>5 DEF Retains
<1>8. Sound(t)
  BY <1>4, <1>5, <1>6, <1>7, SameCallsAreSound
<1>9. OnlyOutput(s, t, i) /\ Quiet(s, t, i)
  BY <1>1, <1>4, <1>5, <1>6 DEF OnlyOutput, SameTypes, Quiet
<1>10. Step(s, t, <<>>, i)
  BY <1>5, <1>8, <1>9 DEF Step
<1> QED
  BY <1>2, <1>4, <1>5, <1>6, <1>10 DEF h, SameCalls

(* One that is kept already must be the same. *)
LEMMA ReconcileReasoningStep ==
  ASSUME NEW s \in States, NEW i \in Index, NEW item \in Items, item.type = "reasoning",
         Sound(s), ReconcileReasoning(s, i, item).ok
  PROVE  LET h == ReconcileReasoning(s, i, item)
         IN  /\ Step(s, h.state, h.chunks, i) /\ h.chunks = <<>>
             /\ SameTypes(s, h.state) /\ SameCalls(s, h.state)
             /\ h.state.reasoning[i] = item.raw
<1> DEFINE h == ReconcileReasoning(s, i, item)
<1>1. CASE s.reasoning[i] = None
  <2>1. h = FinishReasoning(s, i, item)
    BY <1>1 DEF ReconcileReasoning
  <2> HIDE DEF h
  <2>2. FinishReasoning(s, i, item).ok
    BY <2>1 DEF h
  <2> QED
    BY <2>1, <2>2, FinishReasoningStep DEF h
<1>2. CASE s.reasoning[i] # None
  <2>1. s.reasoning[i] = item.raw /\ h = Does(s, <<>>)
    BY <1>2, DoesFields DEF ReconcileReasoning
  <2>2. h.state = s /\ h.chunks = <<>>
    BY <2>1, DoesFields
  <2>3. Step(s, s, <<>>, i)
    BY DEF Step, OnlyOutput, Quiet
  <2>4. SameTypes(s, s) /\ SameCalls(s, s)
    BY DEF SameTypes, SameCalls
  <2> HIDE DEF h
  <2> QED
    BY <2>1, <2>2, <2>3, <2>4 DEF h
<1> QED
  BY <1>1, <1>2

(* A handler changes the call of its output, and no other. *)
ChangesCall(s, u, i) ==
  /\ u \in States /\ SameIDs(s, u) /\ SameTypes(s, u)
  /\ u.callIDs = s.callIDs /\ u.reasoning = s.reasoning /\ u.text = s.text
  /\ u.nextCall = s.nextCall /\ u.retained = s.retained
  /\ \A j \in Index \ {i} : u.calls[j] = s.calls[j]

(* Deltas change the arguments of a call. *)
LEMMA ArgumentsKeep ==
  ASSUME NEW s \in States, NEW i \in Index, NEW args \in Contents
  PROVE  LET u == [s EXCEPT !.calls[i].sawDelta = TRUE, !.calls[i].args = args]
         IN  /\ ChangesCall(s, u, i)
             /\ u.calls[i].args = args /\ u.calls[i].sawDelta
             /\ u.calls[i].index = s.calls[i].index
             /\ u.calls[i].callID = s.calls[i].callID
             /\ u.calls[i].completed = s.calls[i].completed
<1> DEFINE u == [s EXCEPT !.calls[i].sawDelta = TRUE, !.calls[i].args = args]
           call == [s.calls[i] EXCEPT !.sawDelta = TRUE, !.args = args]
           v == [s EXCEPT !.calls = [s.calls EXCEPT ![i] = call]]
<1>1. u.calls = [s.calls EXCEPT ![i] = call] /\ u = [s EXCEPT !.calls = u.calls]
  BY DEF States, CallRecords
<1>2. s.calls[i] \in CallRecords
  BY DEF States
<1>3. call \in CallRecords
  BY <1>2 DEF CallRecords
<1>4. /\ call.args = args /\ call.sawDelta
      /\ call.index = s.calls[i].index /\ call.callID = s.calls[i].callID
      /\ call.completed = s.calls[i].completed
  BY <1>2 DEF CallRecords
<1> HIDE DEF call
<1>5. u = v
  BY <1>1
<1>6. ChangesCall(s, v, i) /\ v.calls[i] = call
  BY <1>3, CallsKeep DEF ChangesCall
<1> HIDE DEF u, v
<1>7. u.calls[i] = call /\ ChangesCall(s, u, i)
  BY <1>5, <1>6
<1> QED
  BY <1>4, <1>7 DEF u

(* The end of the arguments is noted. *)
LEMMA DoneArgumentsKeep ==
  ASSUME NEW s \in States, NEW i \in Index, NEW args \in ArgumentTexts
  PROVE  LET u == [s EXCEPT !.calls[i].doneArgs = args]
         IN  /\ ChangesCall(s, u, i)
             /\ u.calls[i].args = s.calls[i].args
             /\ u.calls[i].sawDelta = s.calls[i].sawDelta
             /\ u.calls[i].index = s.calls[i].index
             /\ u.calls[i].callID = s.calls[i].callID
             /\ u.calls[i].completed = s.calls[i].completed
<1> DEFINE u == [s EXCEPT !.calls[i].doneArgs = args]
           call == [s.calls[i] EXCEPT !.doneArgs = args]
           v == [s EXCEPT !.calls = [s.calls EXCEPT ![i] = call]]
<1>1. u.calls = [s.calls EXCEPT ![i] = call] /\ u = [s EXCEPT !.calls = u.calls]
  BY DEF States, CallRecords
<1>2. s.calls[i] \in CallRecords
  BY DEF States
<1>3. call \in CallRecords
  BY <1>2 DEF CallRecords
<1>4. /\ call.args = s.calls[i].args /\ call.sawDelta = s.calls[i].sawDelta
      /\ call.index = s.calls[i].index /\ call.callID = s.calls[i].callID
      /\ call.completed = s.calls[i].completed
  BY <1>2 DEF CallRecords
<1> HIDE DEF call
<1>5. u = v
  BY <1>1
<1>6. ChangesCall(s, v, i) /\ v.calls[i] = call
  BY <1>3, CallsKeep DEF ChangesCall
<1> HIDE DEF u, v
<1>7. u.calls[i] = call /\ ChangesCall(s, u, i)
  BY <1>5, <1>6
<1> QED
  BY <1>4, <1>7 DEF u

(* A whole item gives the call its id. *)
LEMMA CallIDKeeps ==
  ASSUME NEW s \in States, NEW i \in Index, NEW id \in CallIDs \cup {NoID}
  PROVE  LET u == [s EXCEPT !.calls[i].callID = id]
         IN  /\ ChangesCall(s, u, i)
             /\ u.calls[i].args = s.calls[i].args
             /\ u.calls[i].sawDelta = s.calls[i].sawDelta
             /\ u.calls[i].index = s.calls[i].index
             /\ u.calls[i].callID = id
             /\ u.calls[i].completed = s.calls[i].completed
<1> DEFINE u == [s EXCEPT !.calls[i].callID = id]
           call == [s.calls[i] EXCEPT !.callID = id]
           v == [s EXCEPT !.calls = [s.calls EXCEPT ![i] = call]]
<1>1. u.calls = [s.calls EXCEPT ![i] = call] /\ u = [s EXCEPT !.calls = u.calls]
  BY DEF States, CallRecords
<1>2. s.calls[i] \in CallRecords
  BY DEF States
<1>3. call \in CallRecords
  BY <1>2 DEF CallRecords
<1>4. /\ call.args = s.calls[i].args /\ call.sawDelta = s.calls[i].sawDelta
      /\ call.index = s.calls[i].index /\ call.callID = id
      /\ call.completed = s.calls[i].completed
  BY <1>2 DEF CallRecords
<1> HIDE DEF call
<1>5. u = v
  BY <1>1
<1>6. ChangesCall(s, v, i) /\ v.calls[i] = call
  BY <1>3, CallsKeep DEF ChangesCall
<1> HIDE DEF u, v
<1>7. u.calls[i] = call /\ ChangesCall(s, u, i)
  BY <1>5, <1>6
<1> QED
  BY <1>4, <1>7 DEF u

(* A whole item completes the call. *)
LEMMA CompletedKeeps ==
  ASSUME NEW s \in States, NEW i \in Index
  PROVE  LET u == [s EXCEPT !.calls[i].completed = TRUE]
         IN  /\ ChangesCall(s, u, i)
             /\ u.calls[i].args = s.calls[i].args
             /\ u.calls[i].sawDelta = s.calls[i].sawDelta
             /\ u.calls[i].index = s.calls[i].index
             /\ u.calls[i].callID = s.calls[i].callID
             /\ u.calls[i].completed
<1> DEFINE u == [s EXCEPT !.calls[i].completed = TRUE]
           call == [s.calls[i] EXCEPT !.completed = TRUE]
           v == [s EXCEPT !.calls = [s.calls EXCEPT ![i] = call]]
<1>1. u.calls = [s.calls EXCEPT ![i] = call] /\ u = [s EXCEPT !.calls = u.calls]
  BY DEF States, CallRecords
<1>2. s.calls[i] \in CallRecords
  BY DEF States
<1>3. call \in CallRecords
  BY <1>2 DEF CallRecords
<1>4. /\ call.args = s.calls[i].args /\ call.sawDelta = s.calls[i].sawDelta
      /\ call.index = s.calls[i].index /\ call.callID = s.calls[i].callID
      /\ call.completed
  BY <1>2 DEF CallRecords
<1> HIDE DEF call
<1>5. u = v
  BY <1>1
<1>6. ChangesCall(s, v, i) /\ v.calls[i] = call
  BY <1>3, CallsKeep DEF ChangesCall
<1> HIDE DEF u, v
<1>7. u.calls[i] = call /\ ChangesCall(s, u, i)
  BY <1>5, <1>6
<1> QED
  BY <1>4, <1>7 DEF u

(* A call without deltas gets the arguments of the item. *)
LEMMA ItemArgumentsKeep ==
  ASSUME NEW s \in States, NEW i \in Index, NEW args \in Contents
  PROVE  LET u == [s EXCEPT !.calls[i].args = args]
         IN  /\ ChangesCall(s, u, i)
             /\ u.calls[i].args = args
             /\ u.calls[i].sawDelta = s.calls[i].sawDelta
             /\ u.calls[i].index = s.calls[i].index
             /\ u.calls[i].callID = s.calls[i].callID
             /\ u.calls[i].completed = s.calls[i].completed
<1> DEFINE u == [s EXCEPT !.calls[i].args = args]
           call == [s.calls[i] EXCEPT !.args = args]
           v == [s EXCEPT !.calls = [s.calls EXCEPT ![i] = call]]
<1>1. u.calls = [s.calls EXCEPT ![i] = call] /\ u = [s EXCEPT !.calls = u.calls]
  BY DEF States, CallRecords
<1>2. s.calls[i] \in CallRecords
  BY DEF States
<1>3. call \in CallRecords
  BY <1>2 DEF CallRecords
<1>4. /\ call.args = args /\ call.sawDelta = s.calls[i].sawDelta
      /\ call.index = s.calls[i].index /\ call.callID = s.calls[i].callID
      /\ call.completed = s.calls[i].completed
  BY <1>2 DEF CallRecords
<1> HIDE DEF call
<1>5. u = v
  BY <1>1
<1>6. ChangesCall(s, v, i) /\ v.calls[i] = call
  BY <1>3, CallsKeep DEF ChangesCall
<1> HIDE DEF u, v
<1>7. u.calls[i] = call /\ ChangesCall(s, u, i)
  BY <1>5, <1>6
<1> QED
  BY <1>4, <1>7 DEF u

-----------------------------------------------------------------------------
(* The handlers of calls *)

(* A delta of the arguments of a call. *)
LEMMA AddArgumentsStep ==
  ASSUME NEW s \in States, NEW i \in Index, NEW delta \in ArgumentTexts, Sound(s),
         AddArguments(s, i, delta).ok
  PROVE  LET h == AddArguments(s, i, delta)
         IN  /\ Step(s, h.state, h.chunks, i) /\ Only(h.chunks, "call")
             /\ s.calls[i].index # -1 /\ ~s.calls[i].completed
             /\ SameTypes(s, h.state)
<1> DEFINE h == AddArguments(s, i, delta)
           n == Len(delta)
           v == Retain(s, n)
           args == s.calls[i].args \o delta
           t == [v EXCEPT !.calls[i].sawDelta = TRUE, !.calls[i].args = args]
           c == ToolCallChunk(i, s.calls[i], delta)
<1>1. s.calls[i].index # -1 /\ ~s.calls[i].completed /\ Retains(s, n)
  BY DoesFields DEF AddArguments
<1>2. s.calls[i] \in CallRecords /\ s.retained \in Nat /\ delta \in Contents
  BY TextsAreContents DEF States
<1>3. n \in Nat /\ args \in Contents
  BY <1>2, LenProperties, ConcatProperties DEF Contents, CallRecords
<1>4. CASE delta = <<>>
  <2>1. h = Does(s, <<>>)
    BY <1>1, <1>4, DoesFields DEF AddArguments
  <2>2. h.state = s /\ h.chunks = <<>>
    BY <2>1, DoesFields
  <2>3. Step(s, s, <<>>, i)
    BY DEF Step, OnlyOutput, Quiet
  <2>4. SameTypes(s, s) /\ Only(<<>>, "call")
    BY DEF SameTypes, Only
  <2> HIDE DEF h
  <2> QED
    BY <1>1, <2>2, <2>3, <2>4 DEF h
<1>5. CASE delta # <<>>
  <2>1. /\ v \in States /\ SameIDs(s, v) /\ SameTypes(s, v)
        /\ v.calls = s.calls /\ v.callIDs = s.callIDs /\ v.reasoning = s.reasoning
        /\ v.text = s.text /\ v.nextCall = s.nextCall
        /\ v.retained = s.retained + n
    BY <1>3, RetainKeeps
  <2>2. h = Does(t, <<c>>)
    <3>1. h = Does([v EXCEPT !.calls[i].sawDelta = TRUE, !.calls[i].args = @ \o delta], <<c>>)
      BY <1>1, <1>5, DoesFields DEF AddArguments
    <3> HIDE DEF h, v, c
    <3>2. v.calls[i] \in CallRecords /\ v.calls \in [Index -> CallRecords]
      BY <2>1 DEF States
    <3>3. [v EXCEPT !.calls[i].sawDelta = TRUE, !.calls[i].args = @ \o delta] = t
      BY <2>1, <3>2 DEF States, CallRecords
    <3> QED
      BY <3>1, <3>3
  <2>3. h.state = t /\ h.chunks = <<c>>
    BY <2>2, DoesFields
  <2> HIDE DEF v, args
  <2>4. /\ ChangesCall(v, t, i)
        /\ t.calls[i].args = args /\ t.calls[i].sawDelta
        /\ t.calls[i].index = v.calls[i].index
        /\ t.calls[i].callID = v.calls[i].callID
        /\ t.calls[i].completed = v.calls[i].completed
    BY <1>3, <2>1, ArgumentsKeep
  <2>5. /\ c \in Chunks /\ c.kind = "call" /\ c.output = i /\ c.data = delta
        /\ c.index = s.calls[i].index /\ c.callID = s.calls[i].callID
    BY <1>2, ChunkFields
  <2> HIDE DEF h, t, c, n
  <2>6. /\ t \in States /\ SameIDs(s, t) /\ SameTypes(s, t)
        /\ t.callIDs = s.callIDs /\ t.reasoning = s.reasoning /\ t.text = s.text
        /\ t.nextCall = s.nextCall /\ t.retained = s.retained + n
        /\ \A j \in Index \ {i} : t.calls[j] = s.calls[j]
        /\ t.calls[i].index = s.calls[i].index
        /\ t.calls[i].callID = s.calls[i].callID
        /\ t.calls[i].completed = s.calls[i].completed
    BY <2>1, <2>4 DEF ChangesCall, SameIDs, SameTypes
  <2>7. CallIsSound(s, i)
    BY DEF Sound
  <2>8. CallIsSound(t, i)
    BY <1>1, <2>4, <2>6, <2>7 DEF CallIsSound
  <2>9. Sound(t)
    <3>1. t.retained <= MaxRetained
      BY <1>1, <2>6 DEF Retains
    <3>2. NoID \in CallIDs \cup {NoID} /\ MayClaimCall(s, i, NoID)
      BY DEF MayClaimCall
    <3>3. \A d \in CallIDs : t.callIDs[d] = IF d = NoID THEN i ELSE s.callIDs[d]
      BY <2>6, ResponsesAssumption
    <3> QED
      BY <2>6, <2>8, <3>1, <3>2, <3>3, CallChangeIsSound
  <2>10. OnlyOutput(s, t, i)
    BY <2>6 DEF OnlyOutput, SameTypes
  <2>11. Loud(s, t, c, i)
    BY <1>1, <2>4, <2>5, <2>6 DEF Loud, n, args
  <2>12. Step(s, t, <<c>>, i) /\ Only(<<c>>, "call")
    BY <2>5, <2>6, <2>9, <2>10, <2>11 DEF Step, Only
  <2> QED
    BY <1>1, <2>3, <2>6, <2>12 DEF h
<1> QED
  BY <1>4, <1>5

(* The end of the arguments of a call. *)
LEMMA FinishArgumentsStep ==
  ASSUME NEW s \in States, NEW i \in Index, NEW args \in ArgumentTexts, Sound(s),
         FinishArguments(s, i, args).ok
  PROVE  LET h == FinishArguments(s, i, args)
         IN  /\ Step(s, h.state, h.chunks, i) /\ h.chunks = <<>>
             /\ s.calls[i].index # -1 /\ ~s.calls[i].completed
             /\ SameTypes(s, h.state)
<1> DEFINE h == FinishArguments(s, i, args)
           t == [s EXCEPT !.calls[i].doneArgs = args]
<1>1. s.calls[i].index # -1 /\ ~s.calls[i].completed /\ h = Does(t, <<>>)
  BY DoesFields DEF FinishArguments
<1>2. h.state = t /\ h.chunks = <<>>
  BY <1>1, DoesFields
<1>3. /\ ChangesCall(s, t, i)
      /\ t.calls[i].args = s.calls[i].args
      /\ t.calls[i].sawDelta = s.calls[i].sawDelta
      /\ t.calls[i].index = s.calls[i].index
      /\ t.calls[i].callID = s.calls[i].callID
      /\ t.calls[i].completed = s.calls[i].completed
  BY DoneArgumentsKeep
<1> HIDE DEF h, t
<1>4. /\ t \in States /\ SameIDs(s, t) /\ SameTypes(s, t)
      /\ t.callIDs = s.callIDs /\ t.reasoning = s.reasoning /\ t.text = s.text
      /\ t.nextCall = s.nextCall /\ t.retained = s.retained
      /\ \A j \in Index \ {i} : t.calls[j] = s.calls[j]
  BY <1>3 DEF ChangesCall
<1>5. CallIsSound(s, i) /\ s.retained <= MaxRetained
  BY DEF Sound
<1>6. CallIsSound(t, i)
  BY <1>3, <1>4, <1>5 DEF CallIsSound
<1>7. Sound(t)
  <2>1. t.retained <= MaxRetained
    BY <1>4, <1>5
  <2>2. NoID \in CallIDs \cup {NoID} /\ MayClaimCall(s, i, NoID)
    BY DEF MayClaimCall
  <2>3. \A d \in CallIDs : t.callIDs[d] = IF d = NoID THEN i ELSE s.callIDs[d]
    BY <1>4, ResponsesAssumption
  <2> QED
    BY <1>3, <1>4, <1>6, <2>1, <2>2, <2>3, CallChangeIsSound
<1>8. OnlyOutput(s, t, i) /\ Quiet(s, t, i)
  BY <1>3, <1>4 DEF OnlyOutput, SameTypes, Quiet
<1>9. Step(s, t, <<>>, i)
  BY <1>4, <1>7, <1>8 DEF Step
<1> QED
  BY <1>1, <1>2, <1>4, <1>9 DEF h

(* A call with its index and id: what CompleteCall starts from. *)
KnownCall(s, i, id) ==
  IF s.calls[i].index = -1 THEN NewCall(s, i, id)
  ELSE [ClaimCall(s, i, id) EXCEPT !.calls[i].callID = id]

(* A call is known by its id, and as new if it was not heard of. *)
LEMMA KnownCallKeeps ==
  ASSUME NEW s \in States, NEW i \in Index, NEW id \in CallIDs,
         Sound(s), MayClaimCall(s, i, id), ~s.calls[i].completed
  PROVE  LET u == KnownCall(s, i, id)
         IN  /\ u \in States /\ SameIDs(s, u) /\ SameTypes(s, u)
             /\ u.text = s.text /\ u.reasoning = s.reasoning /\ u.retained = s.retained
             /\ \A j \in Index \ {i} : u.calls[j] = s.calls[j]
             /\ \A d \in CallIDs : u.callIDs[d] = IF d = id THEN i ELSE s.callIDs[d]
             /\ \/ s.calls[i].index = -1 /\ u.calls[i].index = s.nextCall
                   /\ u.nextCall = s.nextCall + 1
                \/ s.calls[i].index # -1 /\ u.calls[i].index = s.calls[i].index
                   /\ u.nextCall = s.nextCall
             /\ u.calls[i].callID = id /\ u.calls[i].args = s.calls[i].args
             /\ u.calls[i].sawDelta = s.calls[i].sawDelta /\ ~u.calls[i].completed
<1> DEFINE u == KnownCall(s, i, id)
           v == ClaimCall(s, i, id)
<1>1. CASE s.calls[i].index = -1
  <2>1. u = NewCall(s, i, id)
    BY <1>1 DEF KnownCall
  <2>2. s.calls[i].args = <<>> /\ ~s.calls[i].sawDelta
    BY <1>1 DEF Sound, CallIsSound
  <2>3. s.calls[i].sawDelta \in BOOLEAN
    BY DEF States, CallRecords
  <2> DEFINE w == NewCall(s, i, id)
  <2>4. /\ w \in States /\ SameIDs(s, w) /\ SameTypes(s, w)
        /\ w.text = s.text /\ w.reasoning = s.reasoning /\ w.retained = s.retained
        /\ w.nextCall = s.nextCall + 1
        /\ \A j \in Index \ {i} : w.calls[j] = s.calls[j]
        /\ \A d \in CallIDs : w.callIDs[d] = IF d = id THEN i ELSE s.callIDs[d]
        /\ w.calls[i].index = s.nextCall /\ w.calls[i].callID = id
        /\ w.calls[i].args = <<>> /\ ~w.calls[i].sawDelta /\ ~w.calls[i].completed
    BY NewCallKeeps
  <2> HIDE DEF u, w
  <2>5. w.calls[i].sawDelta \in BOOLEAN
    BY <2>4 DEF States, CallRecords
  <2>6. u = w
    BY <2>1 DEF w
  <2>7. w.calls[i].sawDelta = s.calls[i].sawDelta
    BY <2>2, <2>3, <2>4, <2>5
  <2> QED
    BY <1>1, <2>2, <2>4, <2>6, <2>7 DEF u
<1>2. CASE s.calls[i].index # -1
  <2> DEFINE w == [v EXCEPT !.calls[i].callID = id]
  <2>1. u = w
    BY <1>2 DEF KnownCall
  <2>2. /\ v \in States /\ SameIDs(s, v) /\ SameTypes(s, v)
        /\ v.calls = s.calls /\ v.reasoning = s.reasoning /\ v.text = s.text
        /\ v.nextCall = s.nextCall /\ v.retained = s.retained
        /\ \A d \in CallIDs : v.callIDs[d] = IF d = id THEN i ELSE s.callIDs[d]
    BY ClaimCallKeeps
  <2> HIDE DEF v
  <2>3. /\ ChangesCall(v, w, i)
        /\ w.calls[i].args = v.calls[i].args
        /\ w.calls[i].sawDelta = v.calls[i].sawDelta
        /\ w.calls[i].index = v.calls[i].index
        /\ w.calls[i].callID = id
        /\ w.calls[i].completed = v.calls[i].completed
    BY <2>2, CallIDKeeps
  <2> HIDE DEF u, w
  <2>4. /\ w \in States /\ SameIDs(s, w) /\ SameTypes(s, w)
        /\ w.text = s.text /\ w.reasoning = s.reasoning /\ w.retained = s.retained
        /\ w.nextCall = s.nextCall
        /\ \A j \in Index \ {i} : w.calls[j] = s.calls[j]
        /\ \A d \in CallIDs : w.callIDs[d] = IF d = id THEN i ELSE s.callIDs[d]
    BY <2>2, <2>3 DEF ChangesCall, SameIDs, SameTypes
  <2> QED
    BY <1>2, <2>1, <2>2, <2>3, <2>4 DEF u
<1> QED
  BY <1>1, <1>2

(* A whole item completes its call. *)
LEMMA CompleteCallStep ==
  ASSUME NEW s \in States, NEW i \in Index, NEW item \in Items, item.type = "function_call",
         Sound(s), ~CallMismatch(s, i, item), ~s.calls[i].completed,
         CompleteCall(s, i, item).ok
  PROVE  LET h == CompleteCall(s, i, item)
         IN  /\ Step(s, h.state, h.chunks, i) /\ Only(h.chunks, "call")
             /\ SameTypes(s, h.state) /\ h.state.calls[i].completed
             /\ h.state.calls[i].args = item.args /\ h.state.calls[i].callID = item.callID
<1> DEFINE h == CompleteCall(s, i, item)
           id == item.callID
           args == item.args
           v == KnownCall(s, i, id)
           w == [v EXCEPT !.calls[i].completed = TRUE]
           r == Retain(w, Len(args))
           t == [r EXCEPT !.calls[i].args = args]
           c == ToolCallChunk(i, w.calls[i], <<>>)
           d == ToolCallChunk(i, w.calls[i], args)
<1>1. /\ id \in CallIDs /\ args \in Contents /\ MayClaimCall(s, i, id) /\ id # NoID
      /\ s.calls[i].index # -1 => s.calls[i].callID \in {NoID, id}
  BY ItemFields DEF CallMismatch
<1>2. h = IF s.calls[i].sawDelta
          THEN IF w.calls[i].args # args THEN Fails
               ELSE Does(w, IF s.calls[i].callID = NoID THEN <<c>> ELSE <<>>)
          ELSE IF ~Retains(s, Len(args)) THEN Fails ELSE Does(t, <<d>>)
  BY DEF CompleteCall, KnownCall
<1>3. /\ v \in States /\ SameIDs(s, v) /\ SameTypes(s, v)
      /\ v.text = s.text /\ v.reasoning = s.reasoning /\ v.retained = s.retained
      /\ \A j \in Index \ {i} : v.calls[j] = s.calls[j]
      /\ \A e \in CallIDs : v.callIDs[e] = IF e = id THEN i ELSE s.callIDs[e]
      /\ \/ s.calls[i].index = -1 /\ v.calls[i].index = s.nextCall
            /\ v.nextCall = s.nextCall + 1
         \/ s.calls[i].index # -1 /\ v.calls[i].index = s.calls[i].index
            /\ v.nextCall = s.nextCall
      /\ v.calls[i].callID = id /\ v.calls[i].args = s.calls[i].args
      /\ v.calls[i].sawDelta = s.calls[i].sawDelta
  <2> HIDE DEF id
  <2> QED
    BY <1>1, KnownCallKeeps
<1> HIDE DEF v
<1>4. /\ ChangesCall(v, w, i)
      /\ w.calls[i].args = v.calls[i].args
      /\ w.calls[i].sawDelta = v.calls[i].sawDelta
      /\ w.calls[i].index = v.calls[i].index
      /\ w.calls[i].callID = v.calls[i].callID
      /\ w.calls[i].completed
  BY <1>3, CompletedKeeps
<1> HIDE DEF w, id, args
<1>5. /\ w \in States /\ SameIDs(s, w) /\ SameTypes(s, w)
      /\ w.text = s.text /\ w.reasoning = s.reasoning /\ w.retained = s.retained
      /\ w.nextCall = v.nextCall
      /\ \A j \in Index \ {i} : w.calls[j] = s.calls[j]
      /\ \A e \in CallIDs : w.callIDs[e] = IF e = id THEN i ELSE s.callIDs[e]
      /\ w.calls[i].callID = id /\ w.calls[i].args = s.calls[i].args
  BY <1>3, <1>4 DEF ChangesCall, SameIDs, SameTypes
<1>6. /\ w.calls[i].index \in Nat
      /\ \/ s.calls[i].index = -1 /\ w.calls[i].index = s.nextCall
            /\ w.nextCall = s.nextCall + 1
         \/ s.calls[i].index # -1 /\ w.calls[i].index = s.calls[i].index
            /\ w.nextCall = s.nextCall
  <2>1. /\ s.nextCall \in Nat /\ s.calls[i].index \in -1 .. s.nextCall - 1
    BY DEF States, Sound, CallIsSound
  <2> QED
    BY <1>3, <1>4, <1>5, <2>1
<1>7. w.calls[i] \in CallRecords /\ <<>> \in Contents /\ s.retained \in Nat /\ Len(args) \in Nat
      /\ s.calls[i].args \in Contents
  BY <1>1, <1>5, LenProperties DEF States, CallRecords, Contents
<1>8. /\ c \in Chunks /\ c.kind = "call" /\ c.output = i /\ c.data = <<>>
      /\ c.index = w.calls[i].index /\ c.callID = id
      /\ d \in Chunks /\ d.kind = "call" /\ d.output = i /\ d.data = args
      /\ d.index = w.calls[i].index /\ d.callID = id
  BY <1>1, <1>5, <1>7, ChunkFields
<1> HIDE DEF c, d
(* A state with the call known and complete is sound. *)
<1>9. ASSUME NEW u \in States, SameIDs(s, u), u.retained <= MaxRetained,
             u.nextCall = w.nextCall, u.callIDs = w.callIDs,
             \A j \in Index \ {i} : u.calls[j] = s.calls[j],
             u.calls[i].index = w.calls[i].index, u.calls[i].callID = id,
             u.calls[i].completed
      PROVE  Sound(u)
  <2>1. s.nextCall \in Nat /\ s.calls[i].index \in -1 .. s.nextCall - 1
    BY DEF States, Sound, CallIsSound
  <2>2. u.calls[i].index \in -1 .. u.nextCall - 1 /\ u.calls[i].index # -1
    BY <1>6, <1>9, <2>1
  <2>3. u.callIDs[id] = i
    BY <1>1, <1>5, <1>9
  <2>4. CallIsSound(u, i)
    BY <1>1, <1>9, <2>2, <2>3 DEF CallIsSound
  <2>5. \/ u.calls[i].index = s.calls[i].index /\ u.nextCall = s.nextCall
        \/ u.calls[i].index = s.nextCall /\ u.nextCall = s.nextCall + 1
    BY <1>6, <1>9
  <2>6. \A e \in CallIDs : u.callIDs[e] = IF e = id THEN i ELSE s.callIDs[e]
    BY <1>5, <1>9
  <2>7. id \in CallIDs \cup {NoID}
    BY <1>1
  <2> QED
    BY <1>1, <1>9, <2>4, <2>5, <2>6, <2>7, CallChangeIsSound
<1>10. CASE s.calls[i].sawDelta
  <2> DEFINE cs == IF s.calls[i].callID = NoID THEN <<c>> ELSE <<>>
  <2>1. w.calls[i].args = args /\ h = Does(w, cs)
    BY <1>2, <1>10, DoesFields
  <2>2. h.state = w /\ h.chunks = cs
    BY <2>1, DoesFields
  <2>3. s.calls[i].index # -1
    BY <1>10 DEF Sound, CallIsSound
  <2>4. Sound(w)
    <3>1. w.retained <= MaxRetained
      BY <1>5 DEF Sound
    <3> QED
      BY <1>4, <1>5, <1>9, <3>1
  <2>5. OnlyOutput(s, w, i)
    BY <1>5 DEF OnlyOutput, SameTypes
  <2>6. CASE s.calls[i].callID = NoID
    <3>1. cs = <<c>>
      BY <2>6
    <3>2. Loud(s, w, c, i)
      <4>1. w.calls[i].args = s.calls[i].args \o c.data
        BY <1>5, <1>7, <1>8 DEF Contents
      <4>2. w.retained = s.retained + Len(c.data)
        BY <1>5, <1>7, <1>8
      <4>3. s.calls[i].index = c.index /\ c.index # -1 /\ w.nextCall = s.nextCall
        BY <1>6, <1>8, <2>3
      <4> QED
        BY <1>5, <1>8, <2>6, <4>1, <4>2, <4>3 DEF Loud
    <3>3. Step(s, w, <<c>>, i) /\ Only(<<c>>, "call")
      BY <1>5, <1>8, <2>4, <2>5, <3>2 DEF Step, Only
    <3> HIDE DEF h, cs
    <3> QED
      BY <1>4, <1>5, <2>1, <2>2, <3>1, <3>3 DEF h, args, id
  <2>7. CASE s.calls[i].callID # NoID
    <3>1. cs = <<>>
      BY <2>7
    <3>2. Quiet(s, w, i)
      BY <1>1, <1>5, <1>6, <2>3, <2>7 DEF Quiet
    <3>3. Step(s, w, <<>>, i) /\ Only(<<>>, "call")
      BY <1>5, <2>4, <2>5, <3>2 DEF Step, Only
    <3> HIDE DEF h, cs
    <3> QED
      BY <1>4, <1>5, <2>1, <2>2, <3>1, <3>3 DEF h, args, id
  <2> QED
    BY <2>6, <2>7
<1>11. CASE ~s.calls[i].sawDelta
  <2>1. Retains(s, Len(args)) /\ h = Does(t, <<d>>)
    BY <1>2, <1>11, DoesFields
  <2>2. h.state = t /\ h.chunks = <<d>>
    BY <2>1, DoesFields
  <2>3. s.calls[i].args = <<>>
    BY <1>11 DEF Sound, CallIsSound
  <2>4. /\ r \in States /\ SameIDs(w, r) /\ SameTypes(w, r)
        /\ r.calls = w.calls /\ r.callIDs = w.callIDs /\ r.reasoning = w.reasoning
        /\ r.text = w.text /\ r.nextCall = w.nextCall
        /\ r.retained = w.retained + Len(args)
    BY <1>5, <1>7, RetainKeeps
  <2> HIDE DEF r
  <2>5. /\ ChangesCall(r, t, i)
        /\ t.calls[i].args = args
        /\ t.calls[i].index = r.calls[i].index
        /\ t.calls[i].callID = r.calls[i].callID
        /\ t.calls[i].completed = r.calls[i].completed
    BY <1>1, <2>4, ItemArgumentsKeep
  <2> HIDE DEF t
  <2>6. /\ t \in States /\ SameIDs(s, t) /\ SameTypes(s, t)
        /\ t.text = s.text /\ t.reasoning = s.reasoning
        /\ t.retained = s.retained + Len(args)
        /\ t.nextCall = w.nextCall /\ t.callIDs = w.callIDs
        /\ \A j \in Index \ {i} : t.calls[j] = s.calls[j]
        /\ t.calls[i].index = w.calls[i].index /\ t.calls[i].callID = id
        /\ t.calls[i].completed
    BY <1>4, <1>5, <2>4, <2>5 DEF ChangesCall, SameIDs, SameTypes
  <2>7. Sound(t)
    <3>1. t.retained <= MaxRetained
      BY <2>1, <2>6 DEF Retains
    <3> QED
      BY <1>9, <2>6, <3>1
  <2>8. OnlyOutput(s, t, i)
    BY <2>6 DEF OnlyOutput, SameTypes
  <2>9. Loud(s, t, d, i)
    <3>1. t.calls[i].args = s.calls[i].args \o d.data
      BY <1>1, <1>8, <2>3, <2>5 DEF Contents
    <3>2. s.calls[i].callID \in {NoID, d.callID}
      <4>1. s.calls[i].index = -1 => s.calls[i].callID = NoID
        BY DEF Sound, CallIsSound
      <4> QED
        BY <1>1, <1>8, <4>1
    <3>3. \/ s.calls[i].index = d.index /\ d.index # -1 /\ t.nextCall = s.nextCall
          \/ s.calls[i].index = -1 /\ d.index = s.nextCall /\ t.nextCall = s.nextCall + 1
      BY <1>6, <1>8, <2>6
    <3> QED
      BY <1>8, <2>6, <3>1, <3>2, <3>3 DEF Loud
  <2>10. Step(s, t, <<d>>, i) /\ Only(<<d>>, "call")
    BY <1>8, <2>6, <2>7, <2>8, <2>9 DEF Step, Only
  <2> HIDE DEF h
  <2> QED
    BY <2>2, <2>5, <2>6, <2>10 DEF h, args, id
<1>12. s.calls[i].sawDelta \in BOOLEAN
  BY DEF States, CallRecords
<1> QED
  BY <1>10, <1>11, <1>12

(* output_item.done of a call. *)
LEMMA FinishCallStep ==
  ASSUME NEW s \in States, NEW i \in Index, NEW item \in Items, item.type = "function_call",
         Sound(s), FinishCall(s, i, item).ok
  PROVE  LET h == FinishCall(s, i, item)
         IN  /\ Step(s, h.state, h.chunks, i) /\ Only(h.chunks, "call")
             /\ SameTypes(s, h.state) /\ h.state.calls[i].completed
<1>1. /\ ~CallMismatch(s, i, item) /\ ~s.calls[i].completed
      /\ FinishCall(s, i, item) = CompleteCall(s, i, item)
  BY DoesFields DEF FinishCall
<1> QED
  BY <1>1, CompleteCallStep

(* A call of the completed response; one that is complete must be the same. *)
LEMMA ReconcileCallStep ==
  ASSUME NEW s \in States, NEW i \in Index, NEW item \in Items, item.type = "function_call",
         Sound(s), ReconcileCall(s, i, item).ok
  PROVE  LET h == ReconcileCall(s, i, item)
         IN  /\ Step(s, h.state, h.chunks, i) /\ Only(h.chunks, "call")
             /\ s.calls[i].completed => h.chunks = <<>>
             /\ SameTypes(s, h.state) /\ item.callID # NoID
             /\ h.state.calls[i].args = item.args /\ h.state.calls[i].callID = item.callID
<1> DEFINE h == ReconcileCall(s, i, item)
           id == item.callID
           t == ClaimCall(s, i, id)
<1>1. ~CallMismatch(s, i, item)
  BY DoesFields DEF ReconcileCall
<1>2. /\ id \in CallIDs /\ MayClaimCall(s, i, id) /\ id # NoID
      /\ s.calls[i].index # -1 => s.calls[i].callID \in {NoID, id}
  BY <1>1, ItemFields DEF CallMismatch
<1>3. CASE ~s.calls[i].completed
  <2>1. h = CompleteCall(s, i, item)
    BY <1>1, <1>3 DEF ReconcileCall
  <2> DEFINE g == CompleteCall(s, i, item)
  <2>2. g.ok
    BY <2>1
  <2>3. /\ Step(s, g.state, g.chunks, i) /\ Only(g.chunks, "call")
        /\ SameTypes(s, g.state)
        /\ g.state.calls[i].args = item.args /\ g.state.calls[i].callID = item.callID
    BY <1>1, <1>3, <2>2, CompleteCallStep
  <2>4. h = g
    BY <2>1
  <2> HIDE DEF h, g
  <2> QED
    BY <1>2, <1>3, <2>3, <2>4 DEF h
<1>4. CASE s.calls[i].completed
  <2>1. s.calls[i].args = item.args /\ h = Does(t, <<>>)
    BY <1>1, <1>4, DoesFields DEF ReconcileCall
  <2>2. h.state = t /\ h.chunks = <<>>
    BY <2>1, DoesFields
  <2>3. CallIsSound(s, i) /\ s.retained <= MaxRetained
    BY DEF Sound
  <2>4. s.calls[i].callID = id
    BY <1>2, <1>4, <2>3 DEF CallIsSound
  <2> HIDE DEF id
  <2>5. /\ t \in States /\ SameIDs(s, t) /\ SameTypes(s, t)
        /\ t.calls = s.calls /\ t.reasoning = s.reasoning /\ t.text = s.text
        /\ t.nextCall = s.nextCall /\ t.retained = s.retained
        /\ \A d \in CallIDs : t.callIDs[d] = IF d = id THEN i ELSE s.callIDs[d]
    BY <1>2, ClaimCallKeeps
  <2> HIDE DEF t, h
  <2>6. CallIsSound(t, i)
    BY <1>2, <2>3, <2>4, <2>5 DEF CallIsSound
  <2>7. Sound(t)
    <3>1. t.retained <= MaxRetained /\ id \in CallIDs \cup {NoID}
      BY <1>2, <2>3, <2>5
    <3>2. /\ \A j \in Index \ {i} : t.calls[j] = s.calls[j]
          /\ t.calls[i].index = s.calls[i].index
      BY <2>5
    <3> QED
      BY <1>2, <2>5, <2>6, <3>1, <3>2, CallChangeIsSound
  <2>8. OnlyOutput(s, t, i) /\ Quiet(s, t, i)
    BY <2>5 DEF OnlyOutput, SameTypes, Quiet
  <2>9. Step(s, t, <<>>, i) /\ Only(<<>>, "call")
    BY <2>5, <2>7, <2>8 DEF Step, Only
  <2> QED
    BY <1>2, <2>1, <2>2, <2>4, <2>5, <2>9 DEF h, id
<1> QED
  BY <1>3, <1>4

-----------------------------------------------------------------------------
(* The handlers of whole items *)

TypeOf(kind) ==
  CASE kind = "text" -> "message" [] kind = "call" -> "function_call"
    [] kind = "reasoning" -> "reasoning"

Of(cs, type) == \A c : cs = <<c>> => TypeOf(c.kind) = type

(* The chunks of a kind are of the items of its type. *)
LEMMA KindsOfTypes ==
  ASSUME NEW cs
  PROVE  /\ Only(cs, "text") => Of(cs, "message")
         /\ Only(cs, "call") => Of(cs, "function_call")
         /\ Only(cs, "reasoning") => Of(cs, "reasoning")
         /\ cs = <<>> => Of(cs, "reasoning")
BY DEF Only, Of, TypeOf

(* While the stream is open, a call is an output of that type, and a       *)
(* finished item is known and, if it is a call, complete.                  *)
StreamingAt(s, i) ==
  /\ s.calls[i].index # -1 => s.outputs[i] = "function_call"
  /\ s.finished[i] => /\ s.outputs[i] # None
                      /\ s.outputs[i] = "function_call" => s.calls[i].completed

(* What the state has is what the item says. *)
HasItem(s, i, item) ==
  /\ item.type = "message" => s.text[i] = item.text
  /\ item.type = "function_call" =>
       s.calls[i].args = item.args /\ s.calls[i].callID = item.callID /\ item.callID # NoID
  /\ item.type = "reasoning" => s.reasoning[i] = item.raw

(* output_item.done *)
LEMMA FinishItemStep ==
  ASSUME NEW s \in States, NEW i \in Index, NEW item \in Items, Sound(s),
         s.calls[i].index # -1 => s.outputs[i] = "function_call", FinishItem(s, i, item).ok
  PROVE  LET h == FinishItem(s, i, item)
         IN  /\ Step(s, h.state, h.chunks, i) /\ Of(h.chunks, item.type)
             /\ ~s.finished[i] /\ s.outputs[i] \in {None, item.type}
             /\ h.state.outputs[i] = item.type /\ StreamingAt(h.state, i)
<1> DEFINE h == FinishItem(s, i, item)
           claimed == [ClaimItem(s, i, item.id) EXCEPT !.outputs[i] = item.type]
           step == CASE item.type = "function_call" -> FinishCall(claimed, i, item)
                     [] item.type = "reasoning"     -> FinishReasoning(claimed, i, item)
                     [] item.type = "message"       -> ReconcileMessage(claimed, i, item)
           t == step.state
           u == [t EXCEPT !.finished[i] = TRUE]
<1>1. /\ ~s.finished[i] /\ MayClaimItem(s, i, item.id) /\ s.outputs[i] \in {None, item.type}
      /\ step.ok /\ h = Does(u, step.chunks)
  BY DoesFields DEF FinishItem
<1> HIDE DEF step, u
<1>2. h.state = u /\ h.chunks = step.chunks
  BY <1>1, DoesFields
<1>3. /\ Settles(s, claimed, i) /\ claimed.finished = s.finished
      /\ claimed.outputs = [s.outputs EXCEPT ![i] = item.type]
  BY <1>1, ClaimSettles
<1>4. item.type \in ItemTypes
  BY ItemFields
<1> HIDE DEF claimed
<1>13. claimed.outputs[i] = item.type
  BY <1>3 DEF States
<1>5. /\ claimed \in States /\ Sound(claimed) /\ claimed.outputs[i] = item.type
      /\ claimed.calls = s.calls
  BY <1>3, <1>13, SettledIsSound DEF Settles, SameProgress
<1>6. /\ Step(claimed, t, step.chunks, i) /\ Of(step.chunks, item.type)
      /\ SameTypes(claimed, t)
      /\ item.type = "function_call" => t.calls[i].completed
      /\ item.type # "function_call" => t.calls = claimed.calls
  <2>1. CASE item.type = "function_call"
    <3>1. step = FinishCall(claimed, i, item)
      BY <2>1 DEF step
    <3>2. FinishCall(claimed, i, item).ok
      BY <1>1, <3>1
    <3> DEFINE g == FinishCall(claimed, i, item)
    <3>3. /\ Step(claimed, g.state, g.chunks, i) /\ Only(g.chunks, "call")
          /\ SameTypes(claimed, g.state) /\ g.state.calls[i].completed
      BY <1>5, <2>1, <3>2, FinishCallStep
    <3> HIDE DEF g
    <3> QED
      BY <2>1, <3>1, <3>3, KindsOfTypes DEF g
  <2>2. CASE item.type = "reasoning"
    <3>1. step = FinishReasoning(claimed, i, item)
      BY <2>2 DEF step
    <3>2. FinishReasoning(claimed, i, item).ok
      BY <1>1, <3>1
    <3> DEFINE g == FinishReasoning(claimed, i, item)
    <3>3. /\ Step(claimed, g.state, g.chunks, i) /\ g.chunks = <<>>
          /\ SameTypes(claimed, g.state) /\ SameCalls(claimed, g.state)
      BY <1>5, <2>2, <3>2, FinishReasoningStep
    <3> HIDE DEF g
    <3> QED
      BY <2>2, <3>1, <3>3, KindsOfTypes DEF g, SameCalls
  <2>3. CASE item.type = "message"
    <3>1. step = ReconcileMessage(claimed, i, item)
      BY <2>3 DEF step
    <3>2. ReconcileMessage(claimed, i, item).ok
      BY <1>1, <3>1
    <3> DEFINE g == ReconcileMessage(claimed, i, item)
    <3>3. /\ Step(claimed, g.state, g.chunks, i) /\ Only(g.chunks, "text")
          /\ SameTypes(claimed, g.state) /\ SameCalls(claimed, g.state)
      BY <1>5, <2>3, <3>2, ReconcileMessageStep
    <3> HIDE DEF g
    <3> QED
      BY <2>3, <3>1, <3>3, KindsOfTypes DEF g, SameCalls
  <2> HIDE DEF t
  <2> QED
    BY <1>4, <2>1, <2>2, <2>3 DEF ItemTypes
<1> HIDE DEF t
<1>7. t \in States /\ Sound(t)
  BY <1>6 DEF Step
<1>8. /\ Settles(t, u, i) /\ u.outputs = t.outputs
      /\ u.finished = [t.finished EXCEPT ![i] = TRUE]
  BY <1>7, FinishSettles DEF u
<1> HIDE DEF h
<1>9. Step(s, t, step.chunks, i)
  BY <1>3, <1>6, SettlesFirst
<1>10. Step(s, u, step.chunks, i)
  BY <1>8, <1>9, SettlesLast
<1>11. u.outputs[i] = item.type /\ u.calls = t.calls
  BY <1>5, <1>6, <1>8 DEF SameTypes, Settles, SameProgress
<1>12. StreamingAt(u, i)
  <2>1. item.type # None
    BY <1>4 DEF ItemTypes, None
  <2>2. CASE item.type = "function_call"
    BY <1>6, <1>11, <2>1, <2>2 DEF StreamingAt
  <2>3. CASE item.type # "function_call"
    <3>1. s.calls[i].index = -1
      BY <1>1, <2>3 DEF None
    <3>2. u.calls[i].index = -1
      BY <1>5, <1>6, <1>11, <2>3, <3>1
    <3> QED
      BY <1>11, <2>1, <2>3, <3>2 DEF StreamingAt
  <2> QED
    BY <2>2, <2>3
<1> QED
  BY <1>1, <1>2, <1>6, <1>10, <1>11, <1>12 DEF h

(* An item of the completed response. *)
LEMMA ReconcileItemStep ==
  ASSUME NEW s \in States, NEW i \in Index, NEW item \in Items, Sound(s),
         ReconcileItem(s, i, item).ok
  PROVE  LET h == ReconcileItem(s, i, item)
         IN  /\ Step(s, h.state, h.chunks, i) /\ Of(h.chunks, item.type)
             /\ s.outputs[i] \in {None, item.type}
             /\ SameTypes(s, h.state) /\ HasItem(h.state, i, item)
             /\ StreamingAt(s, i) /\ s.finished[i] => h.chunks = <<>>
<1> DEFINE h == ReconcileItem(s, i, item)
           claimed == ClaimItem(s, i, item.id)
<1>1. MayClaimItem(s, i, item.id) /\ s.outputs[i] \in {None, item.type}
  BY DoesFields DEF ReconcileItem
<1>2. h = CASE item.type = "function_call" -> ReconcileCall(claimed, i, item)
            [] item.type = "reasoning"     -> ReconcileReasoning(claimed, i, item)
            [] item.type = "message"       -> ReconcileMessage(claimed, i, item)
  BY <1>1 DEF ReconcileItem
<1>3. Settles(s, claimed, i) /\ SameTypes(s, claimed)
  BY <1>1, ClaimSettles, ZenonT(30) DEF SameTypes
<1>4. item.type \in ItemTypes
  BY ItemFields
<1> HIDE DEF claimed
<1>5. claimed \in States /\ Sound(claimed) /\ claimed.calls = s.calls
  BY <1>3, SettledIsSound DEF Settles, SameProgress
<1>6. /\ Step(claimed, h.state, h.chunks, i) /\ Of(h.chunks, item.type)
      /\ SameTypes(claimed, h.state) /\ HasItem(h.state, i, item)
      /\ StreamingAt(s, i) /\ s.finished[i] => h.chunks = <<>>
  <2>1. CASE item.type = "function_call"
    <3>1. h = ReconcileCall(claimed, i, item)
      BY <1>2, <2>1
    <3> HIDE DEF h
    <3> DEFINE g == ReconcileCall(claimed, i, item)
    <3>2. g.ok
      BY <3>1 DEF h
    <3>3. /\ Step(claimed, g.state, g.chunks, i) /\ Only(g.chunks, "call")
          /\ claimed.calls[i].completed => g.chunks = <<>>
          /\ SameTypes(claimed, g.state) /\ item.callID # NoID
          /\ g.state.calls[i].args = item.args /\ g.state.calls[i].callID = item.callID
      BY <1>5, <2>1, <3>2, ReconcileCallStep
    <3> HIDE DEF g
    <3>4. HasItem(g.state, i, item)
      BY <2>1, <3>3 DEF HasItem
    <3>5. StreamingAt(s, i) /\ s.finished[i] => g.chunks = <<>>
      BY <1>1, <1>5, <2>1, <3>3 DEF StreamingAt
    <3> QED
      BY <2>1, <3>1, <3>3, <3>4, <3>5, KindsOfTypes DEF g
  <2>2. CASE item.type = "reasoning"
    <3>1. h = ReconcileReasoning(claimed, i, item)
      BY <1>2, <2>2
    <3> HIDE DEF h
    <3> DEFINE g == ReconcileReasoning(claimed, i, item)
    <3>2. g.ok
      BY <3>1 DEF h
    <3>3. /\ Step(claimed, g.state, g.chunks, i) /\ g.chunks = <<>>
          /\ SameTypes(claimed, g.state) /\ g.state.reasoning[i] = item.raw
      BY <1>5, <2>2, <3>2, ReconcileReasoningStep
    <3> HIDE DEF g
    <3>4. HasItem(g.state, i, item)
      BY <2>2, <3>3 DEF HasItem
    <3> QED
      BY <2>2, <3>1, <3>3, <3>4, KindsOfTypes DEF g
  <2>3. CASE item.type = "message"
    <3>1. h = ReconcileMessage(claimed, i, item)
      BY <1>2, <2>3
    <3> HIDE DEF h
    <3> DEFINE g == ReconcileMessage(claimed, i, item)
    <3>2. g.ok
      BY <3>1 DEF h
    <3>3. /\ Step(claimed, g.state, g.chunks, i) /\ Only(g.chunks, "text")
          /\ claimed.finished[i] => g.chunks = <<>>
          /\ SameTypes(claimed, g.state) /\ g.state.text[i] = item.text
      BY <1>5, <2>3, <3>2, ReconcileMessageStep
    <3> HIDE DEF g
    <3>4. HasItem(g.state, i, item)
      BY <2>3, <3>3 DEF HasItem
    <3> QED
      BY <1>3, <2>3, <3>1, <3>3, <3>4, KindsOfTypes DEF g, SameTypes
  <2> HIDE DEF h
  <2> QED
    BY <1>4, <2>1, <2>2, <2>3 DEF ItemTypes
<1> HIDE DEF h
<1>7. Step(s, h.state, h.chunks, i)
  BY <1>3, <1>6, SettlesFirst
<1>8. SameTypes(s, h.state)
  BY <1>3, <1>6 DEF SameTypes
<1> QED
  BY <1>1, <1>6, <1>7, <1>8 DEF h

-----------------------------------------------------------------------------
(* The completed response, item by item *)

(* One more item on top of what was reconciled so far. *)
Reconciled(r, items, k) ==
  IF ~r.ok THEN Fails
  ELSE LET next == ReconcileItem(r.state, k - 1, items[k])
       IN  IF next.ok THEN Does(next.state, r.chunks \o next.chunks) ELSE Fails

IsReconciled(f, s, items) ==
  f = [k \in 0 .. Len(items) |->
         IF k = 0 THEN Does(s, <<>>) ELSE Reconciled(f[k - 1], items, k)]

Results == {Fails} \cup {Does(t, cs) : t \in {u \in States : Sound(u)}, cs \in Seq(Chunks)}

(* The items of an event. *)
LEMMA ItemsOfEvents ==
  ASSUME NEW items \in BoundedSeq(Items, MaxIndex + 1)
  PROVE  /\ items \in Seq(Items) /\ Len(items) \in 0 .. MaxIndex + 1
         /\ \A k \in 1 .. Len(items) : items[k] \in Items /\ k - 1 \in Index
<1>1. MaxIndex \in Nat
  BY ResponsesAssumption
<1>2. PICK m \in 0 .. MaxIndex + 1 : items \in [1 .. m -> Items]
  BY DEF BoundedSeq, SeqOf
<1>3. items \in Seq(Items) /\ Len(items) = m
  BY <1>2
<1>4. \A k \in 1 .. m : items[k] \in Items /\ k - 1 \in 0 .. MaxIndex
  BY <1>1, <1>2
<1> QED
  BY <1>2, <1>3, <1>4 DEF Index

(* The results. *)
LEMMA ResultsAre ==
  ASSUME NEW t \in States, Sound(t), NEW cs \in Seq(Chunks)
  PROVE  Does(t, cs) \in Results
<1> DEFINE S == {u \in States : Sound(u)}
<1>1. t \in S
  OBVIOUS
<1> HIDE DEF S
<1>2. Does(t, cs) \in {Does(u, x) : u \in S, x \in Seq(Chunks)}
  BY <1>1
<1> QED
  BY <1>2 DEF Results, S

(* What is reconciled is a state that is sound, and chunks. *)
LEMMA ReconciledIsResult ==
  ASSUME NEW items \in BoundedSeq(Items, MaxIndex + 1), NEW k \in 1 .. Len(items),
         NEW r \in Results
  PROVE  Reconciled(r, items, k) \in Results
<1> DEFINE i == k - 1
           item == items[k]
           h == ReconcileItem(r.state, i, item)
<1>1. i \in Index /\ item \in Items
  BY ItemsOfEvents
<1>2. CASE ~r.ok
  BY <1>2 DEF Reconciled, Results
<1>3. CASE r.ok /\ ~h.ok
  BY <1>3 DEF Reconciled, Results
<1>4. CASE r.ok /\ h.ok
  <2>1. PICK t \in {u \in States : Sound(u)}, cs \in Seq(Chunks) : r = Does(t, cs)
    BY <1>4, DoesFields DEF Results
  <2>2. r.state = t /\ r.chunks = cs /\ t \in States /\ Sound(t)
    BY <2>1, DoesFields
  <2>3. Reconciled(r, items, k) = Does(h.state, cs \o h.chunks)
    BY <1>4, <2>2 DEF Reconciled
  <2> DEFINE g == ReconcileItem(t, i, item)
  <2> HIDE DEF i, item
  <2>4. g.ok /\ h = g
    BY <1>4, <2>2
  <2>5. Step(t, g.state, g.chunks, i)
    BY <1>1, <2>2, <2>4, ReconcileItemStep
  <2> HIDE DEF h, g
  <2>6. h.state \in States /\ Sound(h.state) /\ h.chunks \in Seq(Chunks)
    <3>1. g.state \in States /\ Sound(g.state)
      BY <2>5 DEF Step
    <3>2. g.chunks = <<>> \/ \E c \in Chunks : g.chunks = <<c>>
      BY <2>5 DEF Step
    <3> DEFINE x == g.chunks
    <3>3. x = <<>> \/ \E c \in Chunks : x = <<c>>
      BY <3>2
    <3> HIDE DEF x
    <3>4. x \in Seq(Chunks)
      <4>1. CASE x = <<>>
        BY <4>1
      <4>2. CASE \E c \in Chunks : x = <<c>>
        BY <4>2
      <4> QED
        BY <3>3, <4>1, <4>2
    <3> QED
      BY <2>4, <3>1, <3>4 DEF x
  <2>7. cs \o h.chunks \in Seq(Chunks)
    BY <2>6, ConcatProperties
  <2> QED
    BY <2>3, <2>6, <2>7, ResultsAre
<1> QED
  BY <1>2, <1>3, <1>4

(* Reconcile goes through the items one by one. *)
LEMMA ReconcileIsStepwise ==
  ASSUME NEW s \in States, Sound(s), NEW items \in BoundedSeq(Items, MaxIndex + 1)
  PROVE  \E f : /\ Reconcile(s, items) = f[Len(items)]
                /\ f[0] = Does(s, <<>>)
                /\ \A k \in 0 .. Len(items) : f[k] \in Results
                /\ \A k \in 1 .. Len(items) : f[k] = Reconciled(f[k - 1], items, k)
<1> DEFINE n == Len(items)
           zero == Does(s, <<>>)
           step == [k \in 1 .. n |-> [r \in Results |-> Reconciled(r, items, k)]]
<1>1. n \in Nat
  BY ItemsOfEvents
<1>2. zero \in Results
  <2>1. <<>> \in Seq(Chunks)
    OBVIOUS
  <2> QED
    BY <2>1, ResultsAre
<1>3. \A k \in 1 .. n, r \in Results : step[k][r] = Reconciled(r, items, k)
  OBVIOUS
<1>4. step \in [1 .. n -> [Results -> Results]]
  BY ReconciledIsResult
<1>5. PICK f \in [0 .. n -> Results] :
        f[0] = zero /\ \A k \in 1 .. n : f[k] = step[k][f[k - 1]]
  <2> DEFINE X == Results
  <2>1. zero \in X /\ step \in [1 .. n -> [X -> X]]
    BY <1>2, <1>4
  <2> HIDE DEF step, n, zero, X
  <2>2. \E f \in [0 .. n -> X] :
          f[0] = zero /\ \A k \in 1 .. n : f[k] = step[k][f[k - 1]]
    BY <1>1, <2>1, RecursionExists
  <2> QED
    BY <2>2 DEF X
<1>6. \A k \in 1 .. n : k - 1 \in 0 .. n
  BY <1>1
<1>7. \A k \in 0 .. n : k # 0 => k \in 1 .. n
  BY <1>1
<1>8. \A k \in 1 .. n : f[k] = Reconciled(f[k - 1], items, k)
  <2> HIDE DEF step, n, zero
  <2> QED
    BY <1>3, <1>5, <1>6
<1> HIDE DEF step, zero
<1>9. IsReconciled(f, s, items)
  <2>1. f = [k \in 0 .. n |-> f[k]]
    OBVIOUS
  <2> HIDE DEF n
  <2>2. \A k \in 0 .. n : f[k] = IF k = 0 THEN zero ELSE Reconciled(f[k - 1], items, k)
    BY <1>5, <1>7, <1>8
  <2>3. f = [k \in 0 .. n |-> IF k = 0 THEN zero ELSE Reconciled(f[k - 1], items, k)]
    BY <2>1, <2>2
  <2> QED
    BY <2>3 DEF IsReconciled, n, zero
<1> DEFINE g == CHOOSE h : IsReconciled(h, s, items)
<1>10. IsReconciled(g, s, items)
  BY <1>9
<1>11. Reconcile(s, items) = g[Len(items)]
  BY DEF Reconcile, IsReconciled, Reconciled
<1>12. /\ g[0] = zero
       /\ \A k \in 1 .. n : g[k] = Reconciled(g[k - 1], items, k)
  <2> HIDE DEF g
  <2>1. \A k \in 0 .. n : g[k] = IF k = 0 THEN zero ELSE Reconciled(g[k - 1], items, k)
    BY <1>10 DEF IsReconciled, zero, n
  <2>2. 0 \in 0 .. n /\ \A k \in 1 .. n : k \in 0 .. n /\ k # 0
    BY <1>1
  <2> HIDE DEF n
  <2> QED
    BY <2>1, <2>2
<1>13. g[n] = f[n]
  <2> HIDE DEF g, n
  <2>1. g[0] = f[0] /\ \A k \in 1 .. n : g[k - 1] = f[k - 1] => g[k] = f[k]
    BY <1>5, <1>8, <1>12
  <2>2. \A k \in 0 .. n : g[k] = f[k]
    BY <1>1, <2>1, RecursionIsUnique, ZenonT(60)
  <2> QED
    BY <1>1, <2>2
<1>14. Reconcile(s, items) = f[n]
  BY <1>11, <1>13
<1> HIDE DEF g
<1> QED
  BY <1>5, <1>8, <1>14 DEF n, zero

(* Reasoning that is kept stays. *)
LEMMA StepKeepsReasoning ==
  ASSUME NEW s \in States, NEW t, NEW i \in Index, NEW cs, Step(s, t, cs, i)
  PROVE  Kept(s) \subseteq Kept(t)
<1>1. \A j \in Index \ {i} : t.reasoning[j] = s.reasoning[j]
  BY DEF Step, OnlyOutput
<1>2. t.reasoning[i] = s.reasoning[i] \/ s.reasoning[i] = None
  BY DEF Step, Quiet, Loud
<1> QED
  BY <1>1, <1>2 DEF Kept

(* The chunks of a step, after the others. *)
LEMMA ChunksOfStep ==
  ASSUME NEW s \in States, NEW t \in States, NEW i \in Index,
         NEW sent \in Seq(Chunks), NEW cs \in Seq(Chunks), NEW x, Step(s, t, x, i)
  PROVE  /\ cs \o x \in Seq(Chunks) /\ (sent \o cs) \o x = sent \o (cs \o x)
         /\ x # <<>> => \E c \in Chunks : x = <<c>> /\ c.output = i
         /\ \A m \in 1 .. Len(cs \o x) :
              \/ m \in 1 .. Len(cs) /\ (cs \o x)[m] = cs[m]
              \/ x = <<(cs \o x)[m]>>
<1>1. CASE x = <<>>
  <2>1. cs \o x = cs /\ (sent \o cs) \o x = sent \o cs
    BY <1>1
  <2> QED
    BY <1>1, <2>1
<1>2. CASE \E c \in Chunks : x = <<c>> /\ Loud(s, t, c, i)
  <2>1. PICK c \in Chunks : x = <<c>> /\ Loud(s, t, c, i)
    BY <1>2
  <2>2. sent \o cs \in Seq(Chunks)
    BY ConcatProperties
  <2>3. cs \o x = Append(cs, c) /\ (sent \o cs) \o x = Append(sent \o cs, c)
    BY <2>1, <2>2
  <2>4. sent \o Append(cs, c) = Append(sent \o cs, c)
    BY AppendToTheQueue
  <2>5. /\ Append(cs, c) \in Seq(Chunks) /\ Len(Append(cs, c)) = Len(cs) + 1
        /\ Append(cs, c)[Len(cs) + 1] = c
        /\ \A m \in 1 .. Len(cs) : Append(cs, c)[m] = cs[m]
    BY AppendPrecedes
  <2>6. \A m \in 1 .. Len(cs) + 1 : m \in 1 .. Len(cs) \/ m = Len(cs) + 1
    BY LenProperties
  <2>7. c.output = i
    BY <2>1 DEF Loud
  <2> DEFINE w == cs \o x
             a == Append(cs, c)
  <2> HIDE DEF w, a
  <2>8. w = a
    BY <2>3 DEF w, a
  <2>9. \A m \in 1 .. Len(w) : \/ m \in 1 .. Len(cs) /\ w[m] = cs[m]
                               \/ x = <<w[m]>>
    BY <2>1, <2>5, <2>6, <2>8 DEF a
  <2> QED
    BY <2>1, <2>3, <2>4, <2>5, <2>7, <2>9 DEF w
<1> QED
  BY <1>1, <1>2 DEF Step

(* What is known when the first n items are reconciled: the chunks so far  *)
(* tell the caller all of it, they are of these items and their types, and *)
(* of none that was finished; the calls of the others are as they were.    *)
ReconciledTo(s, sent, items, n, t, cs) ==
  /\ t \in States /\ Sound(t) /\ cs \in Seq(Chunks) /\ sent \o cs \in Seq(Chunks)
  /\ Covers(t, sent \o cs)
  /\ SameTypes(s, t) /\ Kept(s) \subseteq Kept(t)
  /\ \A i \in Index : i < n =>
       HasItem(t, i, items[i + 1]) /\ s.outputs[i] \in {None, items[i + 1].type}
  /\ \A i \in Index : i >= n => t.calls[i] = s.calls[i]
  /\ \A m \in 1 .. Len(cs) :
       LET i == cs[m].output
       IN  /\ i \in Index /\ i < n /\ TypeOf(cs[m].kind) = items[i + 1].type
           /\ ~s.finished[i]

(* One more item. *)
LEMMA ReconcileOneMore ==
  ASSUME NEW s \in States, NEW sent \in Seq(Chunks), \A j \in Index : StreamingAt(s, j),
         NEW items \in BoundedSeq(Items, MaxIndex + 1), NEW i \in Index, i < Len(items),
         NEW t, NEW cs, ReconciledTo(s, sent, items, i, t, cs),
         ReconcileItem(t, i, items[i + 1]).ok
  PROVE  LET h == ReconcileItem(t, i, items[i + 1])
         IN  ReconciledTo(s, sent, items, i + 1, h.state, cs \o h.chunks)
<1> DEFINE item == items[i + 1]
           h == ReconcileItem(t, i, item)
           u == h.state
           x == h.chunks
           w == cs \o x
<1>1. /\ t \in States /\ Sound(t) /\ cs \in Seq(Chunks) /\ sent \o cs \in Seq(Chunks)
      /\ Covers(t, sent \o cs)
      /\ SameTypes(s, t) /\ Kept(s) \subseteq Kept(t)
  BY DEF ReconciledTo
<1>2. item \in Items /\ i \in Nat /\ \A j \in Index : j \in Nat
  <2>1. i \in Nat /\ \A j \in Index : j \in Nat
    BY IndexIsFinite
  <2>2. Len(items) \in Nat
    BY ItemsOfEvents
  <2>3. i + 1 \in 1 .. Len(items)
    BY <2>1, <2>2
  <2> QED
    BY <2>1, <2>3, ItemsOfEvents
<1> HIDE DEF item
<1>3. /\ Step(t, u, x, i) /\ Of(x, item.type)
      /\ t.outputs[i] \in {None, item.type}
      /\ SameTypes(t, u) /\ HasItem(u, i, item)
      /\ StreamingAt(t, i) /\ t.finished[i] => x = <<>>
  BY <1>1, <1>2, ReconcileItemStep DEF item
<1> HIDE DEF h, u, x
<1>4. /\ w \in Seq(Chunks) /\ (sent \o cs) \o x = sent \o w
      /\ x # <<>> => \E c \in Chunks : x = <<c>> /\ c.output = i
      /\ \A m \in 1 .. Len(w) : \/ m \in 1 .. Len(cs) /\ w[m] = cs[m]
                               \/ x = <<w[m]>>
  <2>0. u \in States
    BY <1>3 DEF Step
  <2>1. w \in Seq(Chunks) /\ (sent \o cs) \o x = sent \o w
    BY <1>1, <1>3, <2>0, ChunksOfStep
  <2>2. x # <<>> => \E c \in Chunks : x = <<c>> /\ c.output = i
    BY <1>1, <1>3, <2>0, ChunksOfStep
  <2>3. \A m \in 1 .. Len(w) : \/ m \in 1 .. Len(cs) /\ w[m] = cs[m]
                               \/ x = <<w[m]>>
    BY <1>1, <1>3, <2>0, ChunksOfStep
  <2> HIDE DEF w
  <2> QED
    BY <2>1, <2>2, <2>3
<1> HIDE DEF w
<1>5. u \in States /\ Sound(u) /\ OnlyOutput(t, u, i)
  BY <1>3 DEF Step
<1>6. Covers(u, sent \o w) /\ sent \o w \in Seq(Chunks)
  <2> DEFINE v == sent \o cs
  <2>1. v \in Seq(Chunks) /\ Covers(t, v)
    BY <1>1
  <2> HIDE DEF v
  <2>2. v \o x \in Seq(Chunks) /\ Covers(u, v \o x)
    BY <1>1, <1>3, <2>1, StepCovers
  <2> QED
    BY <1>4, <2>2 DEF v
<1>7. SameTypes(s, u) /\ Kept(s) \subseteq Kept(u)
  BY <1>1, <1>3, StepKeepsReasoning DEF SameTypes
<1>8. \A j \in Index : j < i + 1 =>
         HasItem(u, j, items[j + 1]) /\ s.outputs[j] \in {None, items[j + 1].type}
  <2> SUFFICES ASSUME NEW j \in Index, j < i + 1
               PROVE  HasItem(u, j, items[j + 1]) /\ s.outputs[j] \in {None, items[j + 1].type}
    OBVIOUS
  <2>1. CASE j = i
    BY <1>1, <1>3, <2>1 DEF SameTypes, item
  <2>2. CASE j # i
    <3>1. j < i
      BY <1>2, <2>2
    <3>2. HasItem(t, j, items[j + 1]) /\ s.outputs[j] \in {None, items[j + 1].type}
      BY <3>1 DEF ReconciledTo
    <3>3. /\ u.calls[j] = t.calls[j] /\ u.text[j] = t.text[j]
          /\ u.reasoning[j] = t.reasoning[j]
      BY <1>5, <2>2 DEF OnlyOutput
    <3> QED
      BY <3>2, <3>3 DEF HasItem
  <2> QED
    BY <2>1, <2>2
<1>9. \A j \in Index : j >= i + 1 => u.calls[j] = s.calls[j]
  <2> SUFFICES ASSUME NEW j \in Index, j >= i + 1 PROVE u.calls[j] = s.calls[j]
    OBVIOUS
  <2>1. j >= i /\ j # i
    BY <1>2
  <2>2. t.calls[j] = s.calls[j]
    BY <2>1 DEF ReconciledTo
  <2> QED
    BY <1>5, <2>1, <2>2 DEF OnlyOutput
<1>10. ASSUME NEW m \in 1 .. Len(w)
       PROVE  /\ w[m].output \in Index /\ w[m].output < i + 1
              /\ TypeOf(w[m].kind) = items[w[m].output + 1].type
              /\ ~s.finished[w[m].output]
  <2>1. CASE m \in 1 .. Len(cs) /\ w[m] = cs[m]
    <3>1. /\ cs[m].output \in Index /\ cs[m].output < i
          /\ TypeOf(cs[m].kind) = items[cs[m].output + 1].type
          /\ ~s.finished[cs[m].output]
      BY <2>1 DEF ReconciledTo
    <3> DEFINE j == cs[m].output
    <3>2. j \in Nat /\ j < i /\ w[m].output = j
      BY <1>2, <2>1, <3>1
    <3> HIDE DEF j
    <3>3. j < i + 1
      BY <1>2, <3>2
    <3> QED
      BY <2>1, <3>1, <3>2, <3>3 DEF j
  <2>2. CASE x = <<w[m]>>
    <3>1. x # <<>>
      BY <2>2
    <3>2. PICK c \in Chunks : x = <<c>> /\ c.output = i
      BY <1>4, <3>1
    <3>3. w[m] = c
      BY <2>2, <3>2
    <3>4. TypeOf(c.kind) = item.type
      BY <1>3, <3>2 DEF Of
    <3>5. ~s.finished[i]
      <4>1. t.calls[i] = s.calls[i]
        BY <1>2 DEF ReconciledTo
      <4>2. StreamingAt(t, i)
        BY <1>1, <4>1 DEF SameTypes, StreamingAt
      <4> QED
        BY <1>1, <1>3, <3>1, <4>2 DEF SameTypes
    <3> QED
      BY <1>2, <3>2, <3>3, <3>4, <3>5 DEF item
  <2> QED
    BY <1>4, <2>1, <2>2
<1>11. ReconciledTo(s, sent, items, i + 1, u, w)
  BY <1>4, <1>5, <1>6, <1>7, <1>8, <1>9, <1>10 DEF ReconciledTo
<1> QED
  BY <1>11 DEF u, x, w, h, item

(* All of them. *)
LEMMA ReconcileStep ==
  ASSUME NEW s \in States, Sound(s), NEW sent \in Seq(Chunks),
         \A j \in Index : StreamingAt(s, j), Covers(s, sent),
         NEW items \in BoundedSeq(Items, MaxIndex + 1), Reconcile(s, items).ok
  PROVE  LET h == Reconcile(s, items)
         IN  ReconciledTo(s, sent, items, Len(items), h.state, h.chunks)
<1> DEFINE n == Len(items)
           h == Reconcile(s, items)
<1>1. PICK f : /\ h = f[n] /\ f[0] = Does(s, <<>>)
               /\ \A k \in 0 .. n : f[k] \in Results
               /\ \A k \in 1 .. n : f[k] = Reconciled(f[k - 1], items, k)
  BY ReconcileIsStepwise
<1>2. n \in Nat /\ \A k \in 1 .. n : k - 1 \in Index /\ k - 1 < n /\ (k - 1) + 1 = k
  BY ItemsOfEvents
<1> DEFINE R(k) == ReconciledTo(s, sent, items, k, f[k].state, f[k].chunks)
           S == {k \in Nat : k <= n /\ f[k].ok => R(k)}
<1>3. 0 \in S
  <2>1. f[0].state = s /\ f[0].chunks = <<>>
    BY <1>1, DoesFields
  <2>2. PICK none : none = <<>>
    OBVIOUS
  <2>3. none \in Seq(Chunks) /\ sent \o none = sent /\ Len(none) = 0
    BY <2>2
  <2>4. \A i \in Index : ~(i < 0)
    BY IndexIsFinite
  <2>5. ReconciledTo(s, sent, items, 0, s, none)
    BY <2>3, <2>4 DEF ReconciledTo, SameTypes
  <2> QED
    BY <2>1, <2>2, <2>5
<1>4. ASSUME NEW k \in S PROVE k + 1 \in S
  <2> SUFFICES ASSUME k + 1 <= n, f[k + 1].ok PROVE R(k + 1)
    OBVIOUS
  <2>1. k + 1 \in 1 .. n /\ (k + 1) - 1 = k /\ k \in Index /\ k < n /\ k <= n
    <3>1. k + 1 \in 1 .. n /\ (k + 1) - 1 = k /\ k < n /\ k <= n
      BY <1>2
    <3> QED
      BY <1>2, <3>1
  <2>2. f[k + 1] = Reconciled(f[k], items, k + 1)
    BY <1>1, <2>1
  <2> DEFINE r == f[k]
             g == ReconcileItem(r.state, k, items[k + 1])
  <2>3. r.ok /\ g.ok /\ f[k + 1] = Does(g.state, r.chunks \o g.chunks)
    BY <2>1, <2>2, DoesFields DEF Reconciled
  <2>4. f[k + 1].state = g.state /\ f[k + 1].chunks = r.chunks \o g.chunks
    <3> DEFINE y == g.state
               z == r.chunks \o g.chunks
    <3>1. f[k + 1] = Does(y, z)
      BY <2>3
    <3> HIDE DEF y, z
    <3>2. f[k + 1].state = y /\ f[k + 1].chunks = z
      BY <3>1, DoesFields
    <3> QED
      BY <3>2 DEF y, z
  <2>5. R(k)
    BY <2>1, <2>3
  <2>6. ReconciledTo(s, sent, items, k + 1, g.state, r.chunks \o g.chunks)
    BY <2>1, <2>3, <2>5, ReconcileOneMore
  <2> QED
    BY <2>4, <2>6
<1>5. n \in S
  <2> HIDE DEF S
  <2> QED
    BY <1>2, <1>3, <1>4, SetInduction
<1>6. f[n].ok
  BY <1>1
<1>7. R(n)
  BY <1>2, <1>5, <1>6
<1> HIDE DEF h, n
<1> QED
  BY <1>1, <1>7 DEF h, n

-----------------------------------------------------------------------------
(* The invariant *)

(* While the stream is open, a chunk is of an output of its type. *)
Fits(s, sent) ==
  \A m \in 1 .. Len(sent) : s.outputs[sent[m].output] = TypeOf(sent[m].kind)

Distinct(sent) ==
  \A j, k \in CallsIn(sent) :
    /\ sent[j].index = sent[k].index <=> sent[j].output = sent[k].output
    /\ sent[j].callID = sent[k].callID /\ sent[k].callID # NoID
         => sent[j].output = sent[k].output

Bounded(s, sent) == Weight(sent) + Cardinality(Kept(s)) <= MaxRetained

(* What the chunks sent say of the state is true as long as the caller has *)
(* had every chunk; once the stream has ended otherwise, nothing changes.  *)
StreamInv ==
  /\ st \in States /\ Sound(st) /\ emitted \in Seq(Chunks)
  /\ Alive => Covers(st, emitted)
  /\ outcome = "open" => Fits(st, emitted) /\ \A i \in Index : StreamingAt(st, i)
  /\ GapFree(emitted) /\ Distinct(emitted) /\ Bounded(st, emitted)
  /\ AnswerIsDelivered

(* What the chunks say of a sound state tells its calls apart and is       *)
(* within its budget.                                                      *)
LEMMA CoversIsDistinct ==
  ASSUME NEW s \in States, NEW sent \in Seq(Chunks), Sound(s), Covers(s, sent)
  PROVE  GapFree(sent) /\ Distinct(sent) /\ Bounded(s, sent)
<1>1. \A k \in CallsIn(sent) :
        /\ sent[k].output \in Index /\ sent[k].callID \in CallIDs \cup {NoID}
        /\ sent[k].index = s.calls[sent[k].output].index
        /\ sent[k].index # -1
        /\ sent[k].callID \in {NoID, s.calls[sent[k].output].callID}
  <2>1. \A k \in CallsIn(sent) : sent[k] \in Chunks
    BY DEF CallsIn
  <2>2. \A k \in CallsIn(sent) : sent[k].output \in Index /\ sent[k].callID \in CallIDs \cup {NoID}
    BY <2>1 DEF Chunks
  <2> QED
    BY <2>2 DEF Covers, Numbered
<1>2. \A i, j \in Index :
        /\ s.calls[i].index = s.calls[j].index /\ s.calls[i].index # -1 => i = j
        /\ s.calls[i].callID # NoID => s.callIDs[s.calls[i].callID] = i
  BY DEF Sound, CallsAreApart, CallIsSound
<1>3. Distinct(sent)
  <2> SUFFICES ASSUME NEW j \in CallsIn(sent), NEW k \in CallsIn(sent)
               PROVE  /\ sent[j].index = sent[k].index <=> sent[j].output = sent[k].output
                      /\ sent[j].callID = sent[k].callID /\ sent[k].callID # NoID
                           => sent[j].output = sent[k].output
    BY DEF Distinct
  <2> DEFINE a == sent[j]
             b == sent[k]
  <2>1. /\ a.output \in Index /\ b.output \in Index
        /\ a.index = s.calls[a.output].index /\ b.index = s.calls[b.output].index
        /\ a.index # -1
        /\ a.callID \in {NoID, s.calls[a.output].callID}
        /\ b.callID \in {NoID, s.calls[b.output].callID}
    BY <1>1
  <2> HIDE DEF a, b
  <2>2. a.index = b.index <=> a.output = b.output
    BY <1>2, <2>1
  <2>3. a.callID = b.callID /\ b.callID # NoID => a.output = b.output
    BY <1>2, <2>1
  <2> QED
    BY <2>2, <2>3 DEF a, b
<1>4. Bounded(s, sent)
  <2>1. Precedes(sent, sent)
    BY LenProperties DEF Precedes
  <2>2. Weight(sent) \in Nat
    BY <2>1, WeightOfEarlier
  <2>3. Kept(s) \subseteq Index
    BY DEF Kept
  <2>4. IsFiniteSet(Kept(s))
    BY <2>3, IndexIsFinite, FS_Subset
  <2>5. Cardinality(Kept(s)) \in Nat
    BY <2>4, FS_CardinalityType
  <2>6. s.retained \in Nat /\ s.retained <= MaxRetained /\ MaxRetained \in Nat
    BY ResponsesAssumption DEF States, Sound
  <2> QED
    BY <2>2, <2>5, <2>6 DEF Covers, InBudget, Bounded
<1> QED
  BY <1>3, <1>4 DEF Covers

(* What was distinct was so earlier. *)
LEMMA EarlierIsDistinct ==
  ASSUME NEW p, NEW sent, Precedes(p, sent), GapFree(sent), Distinct(sent)
  PROVE  GapFree(p) /\ Distinct(p)
<1>1. /\ p \in Seq(Chunks) /\ sent \in Seq(Chunks) /\ Len(p) \in Nat /\ Len(sent) \in Nat
      /\ DOMAIN p = 1 .. Len(p) /\ DOMAIN sent = 1 .. Len(sent)
      /\ \A k \in 1 .. Len(p) : p[k] = sent[k] /\ k \in 1 .. Len(sent)
  BY LenProperties DEF Precedes
<1>2. CallsIn(p) \subseteq CallsIn(sent) /\ CallsIn(p) \subseteq 1 .. Len(p)
  BY <1>1 DEF CallsIn
<1>3. ASSUME NEW k \in CallsIn(p) PROVE IndexesBefore(p, k) = IndexesBefore(sent, k)
  <2>1. k \in 1 .. Len(p)
    BY <1>2
  <2>2. \A j \in 1 .. Len(sent) : j < k => j \in 1 .. Len(p)
    BY <1>1, <2>1
  <2>3. {j \in CallsIn(p) : j < k} = {j \in CallsIn(sent) : j < k}
    BY <1>1, <1>2, <2>2 DEF CallsIn
  <2>4. \A j \in {j \in CallsIn(p) : j < k} : p[j] = sent[j]
    BY <1>1, <1>2
  <2>5. /\ IndexesBefore(p, k) = {p[j].index : j \in {j \in CallsIn(p) : j < k}}
        /\ IndexesBefore(sent, k) = {sent[j].index : j \in {j \in CallsIn(sent) : j < k}}
    BY DEF IndexesBefore
  <2> QED
    BY <2>3, <2>4, <2>5
<1>4. \A k \in CallsIn(p) : k \in CallsIn(sent) /\ p[k] = sent[k]
  BY <1>1, <1>2
<1>5. GapFree(p)
  BY <1>3, <1>4 DEF GapFree
<1>6. Distinct(p)
  BY <1>4 DEF Distinct
<1> QED
  BY <1>5, <1>6

(* What was within the budget was so earlier, when no more was kept. *)
LEMMA EarlierIsBounded ==
  ASSUME NEW p, NEW sent, NEW s, NEW t, Precedes(p, sent), Kept(s) \subseteq Kept(t),
         Bounded(t, sent)
  PROVE  Bounded(s, p)
<1>1. Weight(p) \in Nat /\ Weight(sent) \in Nat /\ Weight(p) <= Weight(sent)
  BY WeightOfEarlier
<1>2. IsFiniteSet(Kept(t))
  <2>1. Kept(t) \subseteq Index
    BY DEF Kept
  <2> QED
    BY <2>1, IndexIsFinite, FS_Subset
<1>3. /\ Cardinality(Kept(s)) \in Nat /\ Cardinality(Kept(t)) \in Nat
      /\ Cardinality(Kept(s)) <= Cardinality(Kept(t))
  BY <1>2, FS_Subset, FS_CardinalityType
<1>4. MaxRetained \in Nat
  BY ResponsesAssumption
<1> QED
  BY <1>1, <1>3, <1>4 DEF Bounded

-----------------------------------------------------------------------------
(* The stream keeps the invariant *)

(* The new chunks are of items that are not finished. *)
NothingLate == \A k \in Len(emitted) + 1 .. Len(emitted') : ~st.finished[emitted'[k].output]

(* A stream that ends, or stutters, keeps what it has. *)
LEMMA FrozenKeepsInv ==
  ASSUME StreamInv, UNCHANGED <<st, emitted, final>>,
         outcome' \in {"error", "gone"} \/ UNCHANGED outcome
  PROVE  StreamInv' /\ NothingLate
<1>1. Len(emitted) + 1 .. Len(emitted') = {}
  BY LenProperties DEF StreamInv
<1>2. NothingLate
  BY <1>1 DEF NothingLate
<1>3. outcome' \in {"error", "gone"} \/ outcome' = outcome
  OBVIOUS
<1>4. /\ (st \in States /\ Sound(st) /\ emitted \in Seq(Chunks))'
      /\ (GapFree(emitted) /\ Distinct(emitted) /\ Bounded(st, emitted))'
  BY DEF StreamInv
<1>5. (Alive => Covers(st, emitted))'
  BY <1>3 DEF StreamInv, Alive
<1>6. (outcome = "open" => Fits(st, emitted) /\ \A i \in Index : StreamingAt(st, i))'
  BY <1>3 DEF StreamInv
<1>7. AnswerIsDelivered'
  BY <1>3 DEF StreamInv, AnswerIsDelivered
<1> QED
  BY <1>2, <1>4, <1>5, <1>6, <1>7 DEF StreamInv

(* What the handler of an event does to the output i. *)
Streams(s, h, i) ==
  /\ Step(s, h.state, h.chunks, i)
  /\ \A c : h.chunks = <<c>> => ~s.finished[i] /\ h.state.outputs[i] = TypeOf(c.kind)
  /\ s.outputs[i] \in {None, h.state.outputs[i]}
  /\ StreamingAt(h.state, i)

(* A handler that streams, and sends what it has to, keeps the invariant. *)
LEMMA HandleKeepsInv ==
  ASSUME StreamInv, NEW h, NEW i \in Index, Handle(h), h.ok => Streams(st, h, i)
  PROVE  StreamInv' /\ NothingLate
<1>1. outcome = "open"
  BY DEF Handle
<1>2. CASE ~h.ok
  <2>1. UNCHANGED <<st, emitted, final>> /\ outcome' = "error"
    BY <1>2 DEF Handle, EndsWith
  <2> QED
    BY <2>1, FrozenKeepsInv
<1>3. CASE h.ok
  <2> DEFINE t == h.state
             x == h.chunks
             w == emitted \o x
  <2>1. /\ Step(st, t, x, i)
        /\ \A c : x = <<c>> => ~st.finished[i] /\ t.outputs[i] = TypeOf(c.kind)
        /\ st.outputs[i] \in {None, t.outputs[i]}
        /\ StreamingAt(t, i)
    BY <1>3 DEF Streams
  <2>2. Sends(h)
    BY <1>3 DEF Handle
  <2>3. /\ st \in States /\ Sound(st) /\ emitted \in Seq(Chunks) /\ Covers(st, emitted)
        /\ Fits(st, emitted) /\ \A j \in Index : StreamingAt(st, j)
    BY <1>1 DEF StreamInv, Alive
  <2>4. CASE emitted' = w /\ st' = t /\ UNCHANGED <<outcome, final>>
    <3>1. emitted' = w /\ st' = t /\ outcome' = "open"
      BY <1>1, <2>4
    <3> HIDE DEF t, x
    <3>2. t \in States /\ Sound(t) /\ OnlyOutput(st, t, i)
      BY <2>1 DEF Step
    <3>3. w \in Seq(Chunks) /\ Covers(t, w)
      BY <2>1, <2>3, StepCovers
    <3>4. GapFree(w) /\ Distinct(w) /\ Bounded(t, w)
      BY <3>2, <3>3, CoversIsDistinct
    <3>5. \A m \in 1 .. Len(w) : \/ m \in 1 .. Len(emitted) /\ w[m] = emitted[m]
                                 \/ x = <<w[m]>> /\ w[m].output = i
      <4> DEFINE cs == emitted
      <4>1. cs \in Seq(Chunks) /\ st \in States
        BY <2>3
      <4> HIDE DEF cs
      <4>2. \A m \in 1 .. Len(cs \o x) :
              \/ m \in 1 .. Len(cs) /\ (cs \o x)[m] = cs[m]
              \/ x = <<(cs \o x)[m]>>
        BY <2>1, <3>2, <4>1, ChunksOfStep
      <4>3. x # <<>> => \E c \in Chunks : x = <<c>> /\ c.output = i
        BY <2>1, <3>2, <4>1, ChunksOfStep
      <4>4. \A y : x = <<y>> => y.output = i
        BY <4>3
      <4> QED
        BY <4>2, <4>4 DEF cs
    <3> HIDE DEF w
    <3>6. Fits(t, w)
      <4> SUFFICES ASSUME NEW m \in 1 .. Len(w)
                   PROVE  t.outputs[w[m].output] = TypeOf(w[m].kind)
        BY DEF Fits
      <4>1. CASE m \in 1 .. Len(emitted) /\ w[m] = emitted[m]
        <5>1. st.outputs[w[m].output] = TypeOf(w[m].kind)
          BY <2>3, <4>1 DEF Fits
        <5>2. w[m] \in Chunks
          BY <3>3
        <5>3. w[m].output \in Index /\ TypeOf(w[m].kind) # None
          BY <5>2 DEF Chunks, TypeOf, None
        <5>4. CASE w[m].output = i
          BY <2>1, <5>1, <5>3, <5>4
        <5>5. CASE w[m].output # i
          BY <3>2, <5>1, <5>3, <5>5 DEF OnlyOutput
        <5> QED
          BY <5>4, <5>5
      <4>2. CASE x = <<w[m]>> /\ w[m].output = i
        BY <2>1, <4>2
      <4> QED
        BY <3>5, <4>1, <4>2
    <3>7. \A j \in Index : StreamingAt(t, j)
      BY <2>1, <2>3, <3>2 DEF OnlyOutput, StreamingAt
    <3>8. NothingLate
      <4> SUFFICES ASSUME NEW k \in Len(emitted) + 1 .. Len(w)
                   PROVE  ~st.finished[w[k].output]
        BY <3>1 DEF NothingLate
      <4>1. k \in 1 .. Len(w) /\ k \notin 1 .. Len(emitted)
        BY <2>3, <3>3, LenProperties
      <4>2. x = <<w[k]>> /\ w[k].output = i
        BY <3>5, <4>1
      <4> QED
        BY <2>1, <4>2
    <3>9. AnswerIsDelivered'
      BY <3>1 DEF AnswerIsDelivered
    <3> QED
      BY <3>1, <3>2, <3>3, <3>4, <3>6, <3>7, <3>8, <3>9 DEF StreamInv
  <2>5. CASE /\ \E k \in 0 .. Len(x) - 1 : emitted' = emitted \o SubSeq(x, 1, k)
             /\ outcome' = "gone" /\ UNCHANGED <<st, final>>
    <3>1. PICK k \in 0 .. Len(x) - 1 : emitted' = emitted \o SubSeq(x, 1, k)
      BY <2>5
    <3> HIDE DEF t, x
    <3>2. x = <<>> \/ \E c : x = <<c>>
      BY <2>1 DEF Step
    <3>3. k = 0
      <4>1. CASE x = <<>>
        <5>1. Len(x) = 0
          BY <4>1
        <5> QED
          BY <5>1
      <4>2. CASE \E c : x = <<c>>
        <5>1. Len(x) = 1
          BY <4>2
        <5> QED
          BY <5>1
      <4> QED
        BY <3>2, <4>1, <4>2
    <3>4. SubSeq(x, 1, 0) = <<>>
      BY <3>2
    <3>5. emitted' = emitted
      BY <2>3, <3>1, <3>3, <3>4
    <3> QED
      BY <2>5, <3>5, FrozenKeepsInv
  <2> QED
    BY <2>2, <2>4, <2>5 DEF Sends
<1> QED
  BY <1>2, <1>3

(* A new state has nothing, and nothing was sent of it. *)
LEMMA InitInv == Init => StreamInv
<1> SUFFICES ASSUME Init PROVE StreamInv
  OBVIOUS
<1> DEFINE s == NewState
           none == <<>>
<1>1. st = s /\ emitted = none /\ outcome = "open"
  BY DEF Init
<1>2. /\ none \in Contents /\ none \in Seq(Chunks) /\ Len(none) = 0 /\ DOMAIN none = {}
      /\ 0 \in Nat /\ MaxRetained \in Nat
  BY ResponsesAssumption DEF Contents
<1>3. NoCall \in CallRecords
  BY NoCallFields
<1>4. s = [outputs   |-> [i \in Index |-> None],
           calls     |-> [i \in Index |-> NoCall],
           callIDs   |-> [c \in CallIDs |-> -1],
           outputIDs |-> [i \in Index |-> NoID],
           itemIDs   |-> [d \in ItemIDs |-> -1],
           reasoning |-> [i \in Index |-> None],
           finished  |-> [i \in Index |-> FALSE],
           text      |-> [i \in Index |-> none],
           nextCall  |-> 0,
           retained  |-> 0]
  BY DEF NewState
<1>5. \A i \in Index : /\ DeliveredData(none, i, "text") = none
                       /\ DeliveredData(none, i, "call") = none
  BY DataOfNothing
<1>6. Weight(none) = 0
  BY WeightOfNothing
<1> HIDE DEF s, none
<1>7. s \in States
  BY <1>2, <1>3, <1>4 DEF States
<1>8. /\ \A i \in Index : /\ s.outputs[i] = None /\ s.calls[i] = NoCall
                          /\ s.outputIDs[i] = NoID /\ s.reasoning[i] = None
                          /\ ~s.finished[i] /\ s.text[i] = none
      /\ \A d \in ItemIDs : s.itemIDs[d] = -1
      /\ s.nextCall = 0 /\ s.retained = 0
  BY <1>4
<1>9. /\ NoCall.args = none /\ NoCall.index = -1 /\ NoCall.callID = NoID
      /\ ~NoCall.sawDelta /\ ~NoCall.completed
  BY NoCallFields DEF none
<1>10. Sound(s)
  <2>1. IDsOwned(s)
    BY <1>8, ResponsesAssumption, IndexIsFinite DEF IDsOwned
  <2>2. \A i \in Index : CallIsSound(s, i)
    BY <1>8, <1>9 DEF CallIsSound, none
  <2>3. CallsAreApart(s)
    BY <1>8, <1>9 DEF CallsAreApart
  <2> QED
    BY <1>2, <1>8, <2>1, <2>2, <2>3 DEF Sound
<1>11. CallsIn(none) = {}
  BY <1>2 DEF CallsIn
<1>12. Covers(s, none)
  <2>1. ASSUME NEW i \in Index PROVE ToldOf(s, none, i)
    <3>1. ChunksOf(none, i, "call") = {}
      BY <1>2 DEF ChunksOf
    <3>2. DeliveredCallIDs(none, i) = {}
      BY <3>1 DEF DeliveredCallIDs
    <3> QED
      BY <1>5, <1>8, <1>9, <3>2 DEF ToldOf
  <2>2. Numbered(s, none)
    <3>1. {none[k].index : k \in CallsIn(none)} = {} /\ 0 .. s.nextCall - 1 = {}
      BY <1>8, <1>11
    <3> QED
      BY <1>11, <3>1 DEF Numbered
  <2>3. GapFree(none)
    BY <1>11 DEF GapFree
  <2>4. InBudget(s, none)
    <3>1. Kept(s) = {}
      BY <1>8 DEF Kept
    <3>2. Cardinality(Kept(s)) = 0
      BY <3>1, FS_EmptySet
    <3> QED
      BY <1>6, <1>8, <3>2 DEF InBudget
  <2> QED
    BY <2>1, <2>2, <2>3, <2>4 DEF Covers
<1>13. GapFree(none) /\ Distinct(none) /\ Bounded(s, none)
  BY <1>2, <1>7, <1>10, <1>12, CoversIsDistinct
<1>14. Fits(s, none) /\ \A i \in Index : StreamingAt(s, i)
  <2>1. 1 .. Len(none) = {}
    BY <1>2
  <2> QED
    BY <1>8, <1>9, <2>1 DEF Fits, StreamingAt
<1>15. AnswerIsDelivered
  BY <1>1 DEF AnswerIsDelivered
<1> QED
  BY <1>1, <1>2, <1>7, <1>10, <1>12, <1>13, <1>14, <1>15 DEF StreamInv

-----------------------------------------------------------------------------
(* The events *)

(* response.output_item.added keeps the invariant. *)
LEMMA OutputItemAddedKeepsInv ==
  ASSUME StreamInv, NEW i \in Index, NEW item \in Items, OutputItemAdded(i, item)
  PROVE  StreamInv' /\ NothingLate
<1> DEFINE h == AddItem(st, i, item)
<1>1. outcome = "open" /\ Handle(h)
  BY DEF OutputItemAdded, Handle
<1>2. st \in States /\ Sound(st) /\ StreamingAt(st, i)
  BY <1>1 DEF StreamInv
<1>3. ASSUME h.ok PROVE Streams(st, h, i)
  <2>1. st.calls[i].index # -1 => st.outputs[i] = "function_call"
    BY <1>2 DEF StreamingAt
  <2>2. /\ Step(st, h.state, h.chunks, i) /\ Only(h.chunks, "call")
        /\ st.outputs[i] = None /\ h.state.outputs[i] = item.type
        /\ h.state.finished = st.finished
        /\ h.state.calls[i].index # -1 => item.type = "function_call"
        /\ h.chunks # <<>> => item.type = "function_call"
    BY <1>2, <1>3, <2>1, AddItemStep
  <2>3. ~st.finished[i]
    BY <1>2, <2>2 DEF StreamingAt
  <2>4. item.type \in ItemTypes
    BY ItemFields
  <2> HIDE DEF h
  <2>5. \A c : h.chunks = <<c>> => h.state.outputs[i] = TypeOf(c.kind)
    <3>1. \A c : h.chunks = <<c>> => h.chunks # <<>> /\ c.kind = "call"
      BY <2>2 DEF Only
    <3> QED
      BY <2>2, <3>1 DEF TypeOf
  <2>6. StreamingAt(h.state, i)
    BY <1>2, <2>2, <2>3 DEF StreamingAt
  <2> QED
    BY <2>2, <2>3, <2>5, <2>6 DEF Streams
<1> HIDE DEF h
<1> QED
  BY <1>1, <1>3, HandleKeepsInv

(* response.output_text.delta keeps the invariant. *)
LEMMA OutputTextDeltaKeepsInv ==
  ASSUME StreamInv, NEW i \in Index, NEW delta \in Texts, OutputTextDelta(i, delta)
  PROVE  StreamInv' /\ NothingLate
<1> DEFINE h == TextDelta(st, i, delta)
<1>1. outcome = "open" /\ Handle(h)
  BY DEF OutputTextDelta, Handle
<1>2. st \in States /\ Sound(st) /\ StreamingAt(st, i)
  BY <1>1 DEF StreamInv
<1>3. ASSUME h.ok PROVE Streams(st, h, i)
  <2>1. /\ Step(st, h.state, h.chunks, i) /\ Only(h.chunks, "text")
        /\ st.outputs[i] = "message" /\ ~st.finished[i]
        /\ SameTypes(st, h.state) /\ SameCalls(st, h.state)
    BY <1>2, <1>3, TextDeltaStep
  <2> HIDE DEF h
  <2>2. \A c : h.chunks = <<c>> => h.state.outputs[i] = TypeOf(c.kind)
    BY <2>1 DEF Only, TypeOf, SameTypes
  <2>3. StreamingAt(h.state, i)
    BY <1>2, <2>1 DEF StreamingAt, SameTypes, SameCalls
  <2> QED
    BY <2>1, <2>2, <2>3 DEF Streams, SameTypes
<1> HIDE DEF h
<1> QED
  BY <1>1, <1>3, HandleKeepsInv

(* A delta of reasoning keeps the invariant. *)
LEMMA ReasoningTextDeltaKeepsInv ==
  ASSUME StreamInv, NEW i \in Index, ReasoningTextDelta(i)
  PROVE  StreamInv' /\ NothingLate
<1> DEFINE h == ReasoningDelta(st, i)
<1>1. outcome = "open" /\ Handle(h)
  BY DEF ReasoningTextDelta, Handle
<1>2. st \in States /\ Sound(st) /\ StreamingAt(st, i)
  BY <1>1 DEF StreamInv
<1>3. ASSUME h.ok PROVE Streams(st, h, i)
  <2>1. /\ Step(st, h.state, h.chunks, i) /\ Only(h.chunks, "reasoning")
        /\ st.outputs[i] = "reasoning" /\ ~st.finished[i] /\ h.state = st
    BY <1>2, <1>3, ReasoningDeltaStep
  <2> HIDE DEF h
  <2>2. \A c : h.chunks = <<c>> => h.state.outputs[i] = TypeOf(c.kind)
    BY <2>1 DEF Only, TypeOf
  <2> QED
    BY <1>2, <2>1, <2>2 DEF Streams
<1> HIDE DEF h
<1> QED
  BY <1>1, <1>3, HandleKeepsInv

(* response.function_call_arguments.delta keeps the invariant. *)
LEMMA FunctionArgsDeltaKeepsInv ==
  ASSUME StreamInv, NEW i \in Index, NEW delta \in ArgumentTexts, FunctionArgsDelta(i, delta)
  PROVE  StreamInv' /\ NothingLate
<1> DEFINE h == AddArguments(st, i, delta)
<1>1. outcome = "open" /\ Handle(h)
  BY DEF FunctionArgsDelta, Handle
<1>2. st \in States /\ Sound(st) /\ StreamingAt(st, i)
  BY <1>1 DEF StreamInv
<1>3. ASSUME h.ok PROVE Streams(st, h, i)
  <2>1. /\ Step(st, h.state, h.chunks, i) /\ Only(h.chunks, "call")
        /\ st.calls[i].index # -1 /\ ~st.calls[i].completed
        /\ SameTypes(st, h.state)
    BY <1>2, <1>3, AddArgumentsStep
  <2> HIDE DEF h
  <2>2. st.outputs[i] = "function_call" /\ ~st.finished[i]
    BY <1>2, <2>1 DEF StreamingAt
  <2>3. \A c : h.chunks = <<c>> => h.state.outputs[i] = TypeOf(c.kind)
    BY <2>1, <2>2 DEF Only, TypeOf, SameTypes
  <2>4. StreamingAt(h.state, i)
    BY <2>1, <2>2 DEF StreamingAt, SameTypes
  <2> QED
    BY <2>1, <2>2, <2>3, <2>4 DEF Streams, SameTypes
<1> HIDE DEF h
<1> QED
  BY <1>1, <1>3, HandleKeepsInv

(* response.function_call_arguments.done keeps the invariant. *)
LEMMA FunctionArgsDoneKeepsInv ==
  ASSUME StreamInv, NEW i \in Index, NEW args \in ArgumentTexts, FunctionArgsDone(i, args)
  PROVE  StreamInv' /\ NothingLate
<1> DEFINE h == FinishArguments(st, i, args)
<1>1. outcome = "open" /\ Handle(h)
  BY DEF FunctionArgsDone, Handle
<1>2. st \in States /\ Sound(st) /\ StreamingAt(st, i)
  BY <1>1 DEF StreamInv
<1>3. ASSUME h.ok PROVE Streams(st, h, i)
  <2>1. /\ Step(st, h.state, h.chunks, i) /\ h.chunks = <<>>
        /\ st.calls[i].index # -1 /\ ~st.calls[i].completed
        /\ SameTypes(st, h.state)
    BY <1>2, <1>3, FinishArgumentsStep
  <2> HIDE DEF h
  <2>2. st.outputs[i] = "function_call" /\ ~st.finished[i]
    BY <1>2, <2>1 DEF StreamingAt
  <2>3. \A c : h.chunks # <<c>>
    BY <2>1
  <2>4. StreamingAt(h.state, i)
    BY <2>1, <2>2 DEF StreamingAt, SameTypes
  <2> QED
    BY <2>1, <2>2, <2>3, <2>4 DEF Streams, SameTypes
<1> HIDE DEF h
<1> QED
  BY <1>1, <1>3, HandleKeepsInv

(* response.output_item.done keeps the invariant. *)
LEMMA OutputItemDoneKeepsInv ==
  ASSUME StreamInv, NEW i \in Index, NEW item \in Items, OutputItemDone(i, item)
  PROVE  StreamInv' /\ NothingLate
<1> DEFINE h == FinishItem(st, i, item)
<1>1. outcome = "open" /\ Handle(h)
  BY DEF OutputItemDone, Handle
<1>2. st \in States /\ Sound(st) /\ StreamingAt(st, i)
  BY <1>1 DEF StreamInv
<1>3. ASSUME h.ok PROVE Streams(st, h, i)
  <2>1. st.calls[i].index # -1 => st.outputs[i] = "function_call"
    BY <1>2 DEF StreamingAt
  <2>2. /\ Step(st, h.state, h.chunks, i) /\ Of(h.chunks, item.type)
        /\ ~st.finished[i] /\ st.outputs[i] \in {None, item.type}
        /\ h.state.outputs[i] = item.type /\ StreamingAt(h.state, i)
    BY <1>2, <1>3, <2>1, FinishItemStep
  <2> HIDE DEF h
  <2>3. \A c : h.chunks = <<c>> => h.state.outputs[i] = TypeOf(c.kind)
    BY <2>2 DEF Of
  <2> QED
    BY <2>2, <2>3 DEF Streams
<1> HIDE DEF h
<1> QED
  BY <1>1, <1>3, HandleKeepsInv

(* The completed response: the caller has it all, or has left, or it did   *)
(* not fit.                                                                *)
LEMMA CompletedKeepsInv ==
  ASSUME StreamInv, NEW items \in BoundedSeq(Items, MaxIndex + 1), Completed(items)
  PROVE  StreamInv' /\ NothingLate
<1> DEFINE step == Complete(st, items)
<1>1. outcome = "open"
  BY DEF Completed
<1>2. CASE ~step.ok
  <2>1. UNCHANGED <<st, emitted, final>> /\ outcome' = "error"
    BY <1>2 DEF Completed, EndsWith
  <2> QED
    BY <2>1, FrozenKeepsInv
<1>3. CASE step.ok
  <2> DEFINE h == Reconcile(st, items)
             t == h.state
             x == h.chunks
             w == emitted \o x
             n == Len(items)
  <2>1. h.ok /\ Covered(t, items) /\ step = h
    BY <1>3, DoesFields DEF Complete
  <2>2. /\ st \in States /\ Sound(st) /\ emitted \in Seq(Chunks) /\ Covers(st, emitted)
        /\ Fits(st, emitted) /\ \A j \in Index : StreamingAt(st, j)
    BY <1>1 DEF StreamInv, Alive
  <2>3. ReconciledTo(st, emitted, items, n, t, x)
    BY <2>1, <2>2, ReconcileStep
  <2>4. \/ /\ emitted' = w /\ st' = t /\ outcome' = "terminal" /\ final' = items
        \/ /\ \E k \in 0 .. Len(x) - 1 : emitted' = emitted \o SubSeq(x, 1, k)
           /\ outcome' = "gone" /\ UNCHANGED <<st, final>>
    BY <1>3, <2>1 DEF Completed
  <2> HIDE DEF t, x, step, h
  <2>5. /\ t \in States /\ Sound(t) /\ x \in Seq(Chunks) /\ w \in Seq(Chunks)
        /\ Covers(t, w) /\ Kept(st) \subseteq Kept(t) /\ SameTypes(st, t)
    BY <2>3 DEF ReconciledTo
  <2>6. /\ \A i \in Index : i < n =>
             HasItem(t, i, items[i + 1]) /\ st.outputs[i] \in {None, items[i + 1].type}
        /\ \A m \in 1 .. Len(x) :
             /\ x[m].output \in Index /\ x[m].output < n
             /\ TypeOf(x[m].kind) = items[x[m].output + 1].type
             /\ ~st.finished[x[m].output]
    BY <2>3 DEF ReconciledTo
  <2>7. GapFree(w) /\ Distinct(w) /\ Bounded(t, w)
    BY <2>5, CoversIsDistinct
  <2>8. /\ Len(emitted) \in Nat /\ Len(x) \in Nat /\ Len(w) = Len(emitted) + Len(x)
        /\ \A m \in 1 .. Len(emitted) + Len(x) :
             w[m] = IF m <= Len(emitted) THEN emitted[m] ELSE x[m - Len(emitted)]
    BY <2>2, <2>5, LenProperties, ConcatProperties
  <2>9. \A m \in 1 .. Len(w) :
          \/ m \in 1 .. Len(emitted) /\ w[m] = emitted[m]
          \/ m - Len(emitted) \in 1 .. Len(x) /\ w[m] = x[m - Len(emitted)]
    BY <2>8
  <2> HIDE DEF w
  <2>10. ASSUME NEW m \in 1 .. Len(w), m \notin 1 .. Len(emitted)
         PROVE  ~st.finished[w[m].output]
    BY <2>6, <2>9, <2>10
  <2>11. CASE /\ emitted' = w /\ st' = t /\ outcome' = "terminal" /\ final' = items
    <3>1. ASSUME NEW m \in 1 .. Len(w)
          PROVE  /\ w[m].output \in Index /\ w[m].output < n
                 /\ TypeOf(w[m].kind) = items[w[m].output + 1].type
      <4>1. CASE m \in 1 .. Len(emitted) /\ w[m] = emitted[m]
        <5> DEFINE j == w[m].output
        <5>1. w[m] \in Chunks
          BY <2>5
        <5>2. j \in Index /\ TypeOf(w[m].kind) # None
          BY <5>1 DEF Chunks, TypeOf, None
        <5>3. st.outputs[j] = TypeOf(w[m].kind)
          BY <2>2, <4>1 DEF Fits
        <5>4. t.outputs[j] = st.outputs[j]
          BY <2>5 DEF SameTypes
        <5>5. j < n
          BY <2>1, <5>2, <5>3, <5>4 DEF Covered, Outputs
        <5>6. st.outputs[j] \in {None, items[j + 1].type}
          BY <2>6, <5>2, <5>5
        <5> QED
          BY <5>2, <5>3, <5>5, <5>6
      <4>2. CASE m - Len(emitted) \in 1 .. Len(x) /\ w[m] = x[m - Len(emitted)]
        BY <2>6, <4>2
      <4> QED
        BY <2>9, <4>1, <4>2
    <3>2. AnswerIsDelivered'
      <4>1. ASSUME NEW k \in 1 .. n
            PROVE  LET item == items[k]
                   IN  /\ item.type = "message" => DeliveredData(w, k - 1, "text") = item.text
                       /\ item.type = "function_call" =>
                            /\ DeliveredData(w, k - 1, "call") = item.args
                            /\ DeliveredCallIDs(w, k - 1) = {item.callID}
                       /\ item.type = "reasoning" => t.reasoning[k - 1] = item.raw
                       /\ item.type \in ItemTypes
        <5>1. items[k] \in Items /\ k - 1 \in Index /\ k - 1 < n /\ (k - 1) + 1 = k
          BY ItemsOfEvents
        <5>2. items[k].type \in ItemTypes
          BY <5>1, ItemFields
        <5> DEFINE item == items[k]
                   i == k - 1
        <5>3. HasItem(t, i, item)
          BY <2>6, <5>1
        <5>4. ToldOf(t, w, i)
          BY <2>5, <5>1 DEF Covers
        <5> HIDE DEF item, i
        <5>5. /\ item.type = "message" => DeliveredData(w, i, "text") = item.text
              /\ item.type = "function_call" =>
                   /\ DeliveredData(w, i, "call") = item.args
                   /\ DeliveredCallIDs(w, i) = {item.callID}
              /\ item.type = "reasoning" => t.reasoning[i] = item.raw
          BY <5>3, <5>4 DEF HasItem, ToldOf
        <5> QED
          BY <5>2, <5>5 DEF item, i
      <4>2. DOMAIN items = 1 .. n
        BY ItemsOfEvents
      <4>3. ASSUME NEW c \in Range(w)
            PROVE  /\ c.output < n
                   /\ items[c.output + 1].type =
                        CASE c.kind = "text" -> "message" [] c.kind = "call" -> "function_call"
                          [] c.kind = "reasoning" -> "reasoning"
        <5>1. PICK m \in 1 .. Len(w) : c = w[m]
          BY <2>5 DEF Range
        <5> QED
          BY <3>1, <5>1 DEF TypeOf
      <4> HIDE DEF n
      <4>4. \A i \in 1 .. n :
              LET item == items[i]
              IN  CASE item.type = "message" -> DeliveredData(w, i - 1, "text") = item.text
                    [] item.type = "function_call" ->
                         /\ DeliveredData(w, i - 1, "call") = item.args
                         /\ DeliveredCallIDs(w, i - 1) = {item.callID}
                    [] item.type = "reasoning" -> t.reasoning[i - 1] = item.raw
        BY <4>1 DEF ItemTypes
      <4> QED
        BY <2>11, <4>2, <4>3, <4>4 DEF AnswerIsDelivered, n
    <3>3. NothingLate
      <4> SUFFICES ASSUME NEW k \in Len(emitted) + 1 .. Len(w)
                   PROVE  ~st.finished[w[k].output]
        BY <2>11 DEF NothingLate
      <4>1. k \in 1 .. Len(w) /\ k \notin 1 .. Len(emitted)
        BY <2>8
      <4> QED
        BY <2>10, <4>1
    <3> QED
      BY <2>5, <2>7, <2>11, <3>2, <3>3 DEF StreamInv
  <2>12. CASE /\ \E k \in 0 .. Len(x) - 1 : emitted' = emitted \o SubSeq(x, 1, k)
              /\ outcome' = "gone" /\ UNCHANGED <<st, final>>
    <3>1. PICK k \in 0 .. Len(x) - 1 : emitted' = emitted \o SubSeq(x, 1, k)
      BY <2>12
    <3>2. k \in 0 .. Len(x)
      BY <2>8
    <3>3. Precedes(emitted', w)
      BY <2>2, <2>5, <3>1, <3>2, CutPrecedes DEF w
    <3>4. GapFree(emitted') /\ Distinct(emitted')
      BY <2>7, <3>3, EarlierIsDistinct
    <3>5. Bounded(st, emitted')
      BY <2>5, <2>7, <3>3, EarlierIsBounded
    <3>6. NothingLate
      <4> SUFFICES ASSUME NEW m \in Len(emitted) + 1 .. Len(emitted')
                   PROVE  ~st.finished[emitted'[m].output]
        BY DEF NothingLate
      <4>1. /\ Len(emitted') \in Nat /\ Len(emitted') <= Len(w)
            /\ \A l \in 1 .. Len(emitted') : emitted'[l] = w[l]
        BY <3>3, LenProperties DEF Precedes
      <4>2. m \in 1 .. Len(w) /\ m \notin 1 .. Len(emitted) /\ m \in 1 .. Len(emitted')
        BY <2>8, <4>1
      <4> QED
        BY <2>10, <4>1, <4>2
    <3>7. AnswerIsDelivered'
      BY <2>12 DEF AnswerIsDelivered
    <3>8. emitted' \in Seq(Chunks)
      BY <3>3 DEF Precedes
    <3> QED
      BY <2>2, <2>12, <3>4, <3>5, <3>6, <3>7, <3>8 DEF StreamInv, Alive
  <2> QED
    BY <2>4, <2>11, <2>12
<1> QED
  BY <1>2, <1>3

-----------------------------------------------------------------------------
(* Every step keeps the invariant, and sends nothing of a finished item. *)
LEMMA NextKeepsInv ==
  ASSUME StreamInv, [Next]_vars
  PROVE  StreamInv' /\ NothingLate
<1>1. CASE UNCHANGED vars
  BY <1>1, FrozenKeepsInv DEF vars
<1>2. ASSUME NEW i \in Index, NEW item \in Items, OutputItemAdded(i, item)
      PROVE  StreamInv' /\ NothingLate
  BY <1>2, OutputItemAddedKeepsInv
<1>3. ASSUME NEW i \in Index, NEW item \in Items, OutputItemDone(i, item)
      PROVE  StreamInv' /\ NothingLate
  BY <1>3, OutputItemDoneKeepsInv
<1>4. ASSUME NEW i \in Index, NEW delta \in Texts, OutputTextDelta(i, delta)
      PROVE  StreamInv' /\ NothingLate
  BY <1>4, OutputTextDeltaKeepsInv
<1>5. ASSUME NEW i \in Index, ReasoningTextDelta(i)
      PROVE  StreamInv' /\ NothingLate
  BY <1>5, ReasoningTextDeltaKeepsInv
<1>6. ASSUME NEW i \in Index, NEW delta \in ArgumentTexts, FunctionArgsDelta(i, delta)
      PROVE  StreamInv' /\ NothingLate
  BY <1>6, FunctionArgsDeltaKeepsInv
<1>7. ASSUME NEW i \in Index, NEW args \in ArgumentTexts, FunctionArgsDone(i, args)
      PROVE  StreamInv' /\ NothingLate
  BY <1>7, FunctionArgsDoneKeepsInv
<1>8. ASSUME NEW items \in BoundedSeq(Items, MaxIndex + 1), Completed(items)
      PROVE  StreamInv' /\ NothingLate
  BY <1>8, CompletedKeepsInv
<1>9. CASE Fail
  <2>1. UNCHANGED <<st, emitted, final>> /\ outcome' = "error"
    BY <1>9 DEF Fail, EndsWith
  <2> QED
    BY <2>1, FrozenKeepsInv
<1> QED
  BY <1>1, <1>2, <1>3, <1>4, <1>5, <1>6, <1>7, <1>8, <1>9 DEF Next

(* The state of a stream and the chunks it sent are always as StreamInv    *)
(* says.                                                                   *)
THEOREM InvHolds == Spec => []StreamInv
<1>1. StreamInv /\ [Next]_vars => StreamInv'
  BY NextKeepsInv
<1> QED
  BY InitInv, <1>1, PTL DEF Spec

(* An item id names one output for the whole stream, and an output has one *)
(* id, whichever of added, done and completed brought it first             *)
(* (claimItemID).                                                          *)
THEOREM IdsAreOwned == Spec => []ItemIdsAreOwned
<1>1. StreamInv => ItemIdsAreOwned
  BY DEF StreamInv, Sound, IDsOwned, ItemIdsAreOwned
<1> QED
  BY InvHolds, <1>1, PTL

(* As long as the caller has had every chunk, the texts, arguments and ids *)
(* of the state are what the caller has, so that a snapshot is compared    *)
(* with what was really delivered.                                         *)
THEOREM StateIsDelivered == Spec => []StateIsWhatWasDelivered
<1>1. StreamInv => StateIsWhatWasDelivered
  BY DEF StreamInv, Covers, ToldOf, StateIsWhatWasDelivered
<1> QED
  BY InvHolds, <1>1, PTL

(* A stream that ends well has delivered exactly the texts and calls of    *)
(* the completed response, and nothing that it does not repeat.            *)
THEOREM TheAnswerIsDelivered == Spec => []AnswerIsDelivered
<1>1. StreamInv => AnswerIsDelivered
  BY DEF StreamInv
<1> QED
  BY InvHolds, <1>1, PTL

(* The indexes of tool calls are handed out without gaps, each to one      *)
(* output, and no two calls show the same id, even to a caller who left    *)
(* in the middle of the completed response.                                *)
THEOREM ToolCallsStayApart == Spec => []ToolCallsAreDistinct
<1>1. StreamInv => ToolCallsAreDistinct
  BY DEF StreamInv, GapFree, Distinct, ToolCallsAreDistinct
<1> QED
  BY InvHolds, <1>1, PTL

(* The text and arguments sent to the caller and the reasoning kept for    *)
(* the terminal message, all that retain is charged, stay in its budget.   *)
THEOREM DeliveryStaysBounded == Spec => []DeliveryIsBounded
<1>1. StreamInv => DeliveryIsBounded
  BY DEF StreamInv, Bounded, DeliveryIsBounded
<1> QED
  BY InvHolds, <1>1, PTL

(* Once an item is finished no chunk of it is sent, not even by the        *)
(* completed response that repeats it.                                     *)
THEOREM FinishedItemsStayQuiet == Spec => FinishedItemsAreQuiet
<1>1. StreamInv /\ [Next]_vars => [NothingLate]_vars
  BY NextKeepsInv
<1>2. [][NothingLate]_vars => FinishedItemsAreQuiet
  BY PTL DEF FinishedItemsAreQuiet, NothingLate
<1> QED
  BY InvHolds, <1>1, <1>2, PTL DEF Spec

=============================================================================
