----------------------------- MODULE RLStepProofs -----------------------------
(***************************************************************************)
(* One step of the RL trainer, for any number of ranks, any batches and    *)
(* outcomes and every way of cutting them.                                 *)
(*                                                                         *)
(* The invariants build on each other.  TogetherInv: where each rank is,   *)
(* by the number of collectives it has passed, and that its plan shares    *)
(* out the rows it was sent.  CollectedInv: what the passes without        *)
(* gradient have computed, and what the driver has put together of it.     *)
(* UsedInv: which rows an update has used, and with which old policy.      *)
(* RewardedInv and AdvantagesInv: the reward function with its cache, and  *)
(* what is computed of its lists.  FlagsInv: what the flag of a gradient   *)
(* that is not finite tells of the rows in hand.                           *)
(***************************************************************************)
EXTENDS RLStep, SeqlenBalancingProofs

-----------------------------------------------------------------------------
(***************************************************************************)
(* The batch and its numbers                                               *)
(***************************************************************************)

Phases == {"next", "rollout", "reward", "logprob", "ref", "advantage", "update", "end", "failed"}
Calls == {"logprob", "ref", "update"}
Places == {"idle", "start", "reduce", "forward", "optimize", "returned"}

\* The rows of a batch and those of a rank.  Products of variables are kept
\* behind names.
Count == config.n * Len(batch)
Size == Count \div DpSize

\* The size of the mini-batches of a call, and their number.
Width == IF phase = "update" THEN config.miniBatch ELSE Size
Minis == CeilDiv(Size, Width)

\* The row at place p of the chunk of rank r.
RowOf(r, p) == Skipped(r, Size) + p

FullRows ==
  [uid : Nat, sample : Samples, slot : Nat, source : Nat, outcome : Outcomes, policy : Nat]

BatchLoaded ==
  \E b \in config.batches : batch = [i \in 1..Len(b) |-> [uid |-> i, sample |-> b[i]]]

FullJoined ==
  /\ full \in [1..Count -> FullRows]
  /\ \A i \in 1..Count : /\ full[i].slot = i /\ full[i].source = full[i].uid
                         /\ full[i].uid = (i - 1) \div config.n + 1
                         /\ full[i].outcome \in config.outcomes

\* Types, and what of the batch there is in each phase.
Shape ==
  /\ config \in Configs /\ steps \in 0..MaxSteps /\ phase \in Phases /\ badForward \in BOOLEAN
  /\ IF phase = "next" THEN batch = << >> ELSE BatchLoaded
  /\ IF phase \in {"next", "rollout"} THEN full = << >> ELSE FullJoined

\* Types of what the ranks have.
RankTypes ==
  /\ pc \in [Ranks -> Places]
  /\ ticks \in [Ranks -> Nat] /\ own \in [Ranks -> Nat]
  /\ micro \in [Ranks -> Nat] /\ mini \in [Ranks -> Nat]
  /\ version \in [Ranks -> Nat] /\ notFinite \in [Ranks -> BOOLEAN]
  /\ DOMAIN plan = Ranks /\ DOMAIN results = Ranks

\* The numbers of a configuration.
LEMMA ConfigNumbers ==
  ASSUME NEW c \in Configs
  PROVE  /\ c.n \in Nat \ {0} /\ c.workers \in Nat \ {0}
         /\ c.miniBatch \in Nat \ {0} /\ c.maxTokens \in Nat \ {0} /\ c.useKl \in BOOLEAN
         /\ \A o \in c.outcomes : o \in Outcomes
         /\ \A b \in c.batches : /\ b \in Seq(Samples) /\ b # << >>
                                 /\ (c.n * Len(b)) % DpSize = 0
  BY ConfigsAssumption, OutcomesAssumption

\* A sequence is a function on its places.
LEMMA Entries ==
  ASSUME NEW S, NEW s \in Seq(S)
  PROVE  s \in [1..Len(s) -> S] /\ Len(s) \in Nat
  OBVIOUS

LEMMA Product ==
  ASSUME NEW a \in Nat \ {0}, NEW b \in Nat \ {0}
  PROVE  a * b \in Nat \ {0}
<1>1. a * b \in Nat /\ (a * b = 0 => a = 0 \/ b = 0)
  OBVIOUS
<1> QED
  BY <1>1

\* A batch that was loaded has rows, as many for each rank.
LEMMA BatchNumbers ==
  ASSUME Shape, phase # "next"
  PROVE  /\ Len(batch) \in Nat \ {0} /\ config.n \in Nat \ {0} /\ DpSize \in Nat \ {0}
         /\ Count \in Nat \ {0} /\ Size \in Nat \ {0} /\ EqualParts(Count, DpSize, Size)
         /\ \A i \in 1..Len(batch) : batch[i].uid = i /\ batch[i].sample \in Samples
<1>1. PICK b \in config.batches : batch = [i \in 1..Len(b) |-> [uid |-> i, sample |-> b[i]]]
  BY DEF Shape, BatchLoaded
<1>2. /\ config.n \in Nat \ {0} /\ b \in Seq(Samples) /\ b # << >>
      /\ (config.n * Len(b)) % DpSize = 0
  BY <1>1, ConfigNumbers DEF Shape
<1>3. Len(b) \in Nat \ {0} /\ Len(batch) = Len(b)
  BY <1>1, <1>2
<1>4. DpSize \in Nat \ {0}
  BY SizesAssumption
<1>5. Count \in Nat \ {0} /\ Count % DpSize = 0
  <2>1. config.n * Len(b) \in Nat \ {0}
    BY <1>2, <1>3, Product
  <2> QED
    BY <1>2, <1>3, <2>1 DEF Count
<1>6. Size \in Nat /\ EqualParts(Count, DpSize, Size)
  BY <1>4, <1>5, ExactDivision DEF Size
<1>7. Size # 0
  BY <1>4, <1>5, <1>6 DEF EqualParts
<1>8. \A i \in 1..Len(b) : b[i] \in Samples
  BY <1>2
<1>9. \A i \in 1..Len(b) : batch[i].uid = i /\ batch[i].sample = b[i]
  BY <1>1
<1> QED
  BY <1>2, <1>3, <1>4, <1>5, <1>6, <1>7, <1>8, <1>9

\* Which row of the batch the i-th rollout is of.
LEMMA RowOfCopy ==
  ASSUME NEW n \in Nat \ {0}, NEW l \in Nat \ {0}, NEW i \in 1..(n * l)
  PROVE  (i - 1) \div n + 1 \in 1..l
<1>1. PICK q \in Nat, r \in 0..(n - 1) : i - 1 = q * n + r /\ q = (i - 1) \div n
  <2>1. PICK m \in Nat : m = i - 1
    OBVIOUS
  <2>2. m \div n \in Nat /\ m % n \in 0..(n - 1) /\ m = (m \div n) * n + (m % n)
    OBVIOUS
  <2> QED
    BY <2>1, <2>2
<1>2. CASE l <= q
  <2>1. l * n <= q * n /\ l * n \in Nat /\ q * n \in Nat
    BY <1>1, <1>2, FactorGrows
  <2>2. n * l = l * n
    OBVIOUS
  <2> QED
    BY <1>1, <2>1, <2>2
<1> QED
  BY <1>1, <1>2

\* What the agent loop is asked for and answers, and a row of full_batch.
Repeated == Repeat(batch, config.n)
Asked == Pad(Repeated, config.workers)
Answers(asked, count, outcome) ==
  [i \in 1..Len(asked) |-> [slot |-> i, source |-> asked[i].uid,
                            outcome |-> outcome[((i - 1) % count) + 1], policy |-> version[1]]]
RolloutRow(repeated, kept, i) ==
  [uid |-> repeated[i].uid, sample |-> repeated[i].sample, slot |-> kept[i].slot,
   source |-> kept[i].source, outcome |-> kept[i].outcome, policy |-> kept[i].policy]

\* union() joins each prompt with a response to it, since padding goes off
\* where it was put on.
LEMMA JoinedRows ==
  ASSUME Shape, Generate
  PROVE  /\ version[1] \in Nat => full' \in [1..Count -> FullRows]
         /\ \A i \in 1..Count : /\ full'[i].slot = i /\ full'[i].source = full'[i].uid
                                /\ full'[i].uid = (i - 1) \div config.n + 1
                                /\ full'[i].outcome \in config.outcomes
                                /\ full'[i].policy = version[1]
<1>1. phase = "rollout"
  BY DEF Generate
<1>2. PICK count \in Nat \ {0}, n \in Nat \ {0}, l \in Nat \ {0} :
        count = Count /\ n = config.n /\ l = Len(batch) /\ count = n * l
  BY <1>1, BatchNumbers DEF Count
<1>3. \A i \in 1..l : batch[i].uid = i /\ batch[i].sample \in Samples
  BY <1>1, <1>2, BatchNumbers
<1>5. /\ Len(Repeated) = count
      /\ \A i \in 1..count : /\ Repeated[i].uid = (i - 1) \div n + 1
                             /\ Repeated[i].sample \in Samples
  <2>1. Repeated = [i \in 1..count |-> batch[(i - 1) \div n + 1]]
    BY <1>2 DEF Repeat, Repeated
  <2>2. \A i \in 1..count : (i - 1) \div n + 1 \in 1..l
    BY <1>2, RowOfCopy
  <2> QED
    BY <1>2, <1>3, <2>1, <2>2
<1>6. PICK size \in Nat : size = PadSize(count, config.workers)
  <2>1. config.workers \in Nat \ {0}
    BY ConfigNumbers DEF Shape
  <2> QED
    BY <2>1, PadSizeBounds
<1>8. Len(Asked) = count + size /\ \A i \in 1..count : Asked[i] = Repeated[i]
  <2>1. Asked = [i \in 1..(count + size) |-> Repeated[((i - 1) % count) + 1]]
    BY <1>5, <1>6 DEF Pad, Asked
  <2>2. \A i \in 1..count : i \in 1..(count + size) /\ ((i - 1) % count) + 1 = i
    OBVIOUS
  <2>3. count + size \in Nat
    OBVIOUS
  <2> QED
    BY <2>1, <2>2, <2>3
<1>9. PICK outcome \in [1..count -> config.outcomes] :
        full' = [i \in 1..count |-> RolloutRow(Repeated, Answers(Asked, count, outcome), i)]
  <2>1. \E outcome \in [1..Len(Repeated) -> config.outcomes] :
          full' = [i \in 1..Len(Repeated) |->
                     RolloutRow(Repeated, Unpad(Answers(Asked, Len(Repeated), outcome),
                                                Len(Asked) - Len(Repeated)), i)]
    BY DEF Generate, Repeated, Asked, Answers, RolloutRow
  <2>3. PICK outcome \in [1..count -> config.outcomes] :
          full' = [i \in 1..count |->
                     RolloutRow(Repeated, Unpad(Answers(Asked, count, outcome),
                                                (count + size) - count), i)]
    BY <1>5, <1>8, <2>1
  <2>4. PICK answers : answers = Answers(Asked, count, outcome)
    OBVIOUS
  <2>5. Len(answers) = count + size
    <3>1. count + size \in Nat
      OBVIOUS
    <3> QED
      BY <1>8, <2>4, <3>1 DEF Answers
  <2>6. PICK kept : kept = Unpad(answers, (count + size) - count)
    OBVIOUS
  <2>7. \A i \in 1..count : kept[i] = answers[i]
    <3>1. kept = SubSeq(answers, 1, count)
      BY <2>5, <2>6 DEF Unpad
    <3> QED
      BY <3>1
  <2>8. \A i \in 1..count : RolloutRow(Repeated, kept, i) = RolloutRow(Repeated, answers, i)
    BY <2>7 DEF RolloutRow
  <2>9. full' = [i \in 1..count |-> RolloutRow(Repeated, kept, i)]
    BY <2>3, <2>4, <2>6
  <2> QED
    BY <2>4, <2>8, <2>9
<1>10. ASSUME NEW i \in 1..count
       PROVE  Answers(Asked, count, outcome)[i]
                = [slot |-> i, source |-> Asked[i].uid, outcome |-> outcome[i],
                   policy |-> version[1]]
  <2>1. i \in 1..(count + size) /\ ((i - 1) % count) + 1 = i
    OBVIOUS
  <2> QED
    BY <1>8, <2>1 DEF Answers
<1>13. ASSUME NEW i \in 1..count
       PROVE  full'[i] = [uid |-> Repeated[i].uid, sample |-> Repeated[i].sample,
                          slot |-> i, source |-> Repeated[i].uid,
                          outcome |-> outcome[i], policy |-> version[1]]
  <2>1. full'[i] = RolloutRow(Repeated, Answers(Asked, count, outcome), i)
    BY <1>9
  <2>2. Asked[i] = Repeated[i]
    BY <1>8
  <2>3. PICK a : a = Answers(Asked, count, outcome)[i]
    OBVIOUS
  <2>4. a.slot = i /\ a.source = Repeated[i].uid /\ a.outcome = outcome[i] /\ a.policy = version[1]
    <3>1. PICK u, o, v : u = Asked[i].uid /\ o = outcome[i] /\ v = version[1]
      OBVIOUS
    <3>2. a = [slot |-> i, source |-> u, outcome |-> o, policy |-> v]
      BY <1>10, <2>3, <3>1
    <3>3. a.slot = i /\ a.source = u /\ a.outcome = o /\ a.policy = v
      BY <3>2
    <3> QED
      BY <2>2, <3>1, <3>3
  <2> QED
    BY <2>1, <2>3, <2>4 DEF RolloutRow
<1>14. \A i \in 1..count : outcome[i] \in config.outcomes /\ outcome[i] \in Outcomes
  BY ConfigNumbers DEF Shape
<1>15. \A i \in 1..count : Repeated[i].uid \in Nat
  <2>1. \A i \in 1..count : (i - 1) \div n + 1 \in Nat
    BY <1>2, RowOfCopy
  <2> QED
    BY <1>5, <2>1
<1>16. ASSUME NEW i \in 1..count
       PROVE  /\ full'[i].slot = i /\ full'[i].source = full'[i].uid
              /\ full'[i].uid = (i - 1) \div n + 1
              /\ full'[i].outcome \in config.outcomes
              /\ full'[i].policy = version[1]
              /\ version[1] \in Nat => full'[i] \in FullRows
  <2>1. Repeated[i].sample \in Samples /\ Repeated[i].uid \in Nat /\ i \in Nat
    BY <1>5, <1>15
  <2>2. outcome[i] \in config.outcomes /\ outcome[i] \in Outcomes
    BY <1>14
  <2>3. PICK row, uid, sample, o, v :
          /\ uid = Repeated[i].uid /\ sample = Repeated[i].sample /\ o = outcome[i]
          /\ v = version[1] /\ row = full'[i]
    OBVIOUS
  <2>4. row = [uid |-> uid, sample |-> sample, slot |-> i, source |-> uid, outcome |-> o,
               policy |-> v]
    BY <1>13, <2>3
  <2>5. v \in Nat => row \in FullRows
    BY <2>1, <2>2, <2>3, <2>4 DEF FullRows
  <2>6. row.slot = i /\ row.source = uid /\ row.uid = uid /\ row.outcome = o /\ row.policy = v
    BY <2>4
  <2> QED
    BY <1>5, <2>2, <2>3, <2>5, <2>6
<1>17. version[1] \in Nat => full' \in [1..count -> FullRows]
  BY <1>9, <1>16
<1> QED
  BY <1>2, <1>16, <1>17
-----------------------------------------------------------------------------
(***************************************************************************)
(* What a call sends to the ranks                                          *)
(***************************************************************************)

\* Mini-batch m of rank r, and all of them.
Sent(r, m) == [j \in 1..PartLength(Size, Width, m) |-> RowOf(r, Skipped(m, Width) + j)]
DataSent == data = [r \in Ranks |-> [m \in 1..Minis |-> Sent(r, m)]]

\* The mini-batches of a rank: none is empty, one begins where the last one
\* ended, and together they are the rows of the rank.
PartsOfWidth(size, width, minis) ==
  /\ \A m \in 1..minis :
       /\ Skipped(m, width) \in Nat /\ PartLength(size, width, m) \in Nat \ {0}
       /\ Skipped(m, width) + PartLength(size, width, m) <= size
       /\ m < minis => Skipped(m + 1, width) = Skipped(m, width) + PartLength(size, width, m)
       /\ m = minis => Skipped(m, width) + PartLength(size, width, m) = size
  /\ Skipped(1, width) = 0
  /\ width = size => minis = 1

LEMMA WidthParts ==
  ASSUME NEW size \in Nat \ {0}, NEW width \in Nat \ {0}
  PROVE  CeilDiv(size, width) \in Nat \ {0} /\ PartsOfWidth(size, width, CeilDiv(size, width))
<1>1. PICK rows \in Seq(Nat) : rows = [i \in 1..size |-> i]
  <2>1. [i \in 1..size |-> i] \in Seq(Nat)
    OBVIOUS
  <2> QED
    BY <2>1
<1>2. Len(rows) = size /\ rows # << >>
  BY <1>1
<1>3. SplitInOrder(rows, width, Split(rows, width))
  BY <1>2, SplitKeepsOrder
<1>4. PICK parts : parts = Split(rows, width)
  OBVIOUS
<1>5. PICK minis \in Nat \ {0} : minis = CeilDiv(size, width) /\ Len(parts) = minis
  BY <1>2, <1>3, <1>4 DEF SplitInOrder
<1>6. ASSUME NEW m \in 1..minis
      PROVE  /\ Skipped(m, width) \in Nat /\ PartLength(size, width, m) \in Nat \ {0}
             /\ Skipped(m, width) + PartLength(size, width, m) <= size
             /\ m < minis => PartLength(size, width, m) = width
             /\ m = minis => Skipped(m, width) + PartLength(size, width, m) = size
  BY <1>2, <1>3, <1>4, <1>5 DEF SplitInOrder
<1>7. \A m \in 1..minis : Skipped(m + 1, width) = Skipped(m, width) + width
  <2> SUFFICES ASSUME NEW m \in 1..minis
               PROVE  Skipped(m + 1, width) = Skipped(m, width) + width
    OBVIOUS
  <2>1. m \in Int /\ (m + 1) - 1 = m /\ m * width = (m - 1) * width + width
    OBVIOUS
  <2> QED
    BY <2>1 DEF Skipped
<1>8. Skipped(1, width) = 0
  BY DEF Skipped
<1>9. width = size => minis = 1
  <2> SUFFICES ASSUME width = size, 1 < minis PROVE FALSE
    OBVIOUS
  <2>1. 1 \in 1..minis /\ 2 \in 1..minis /\ 1 + 1 = 2
    OBVIOUS
  <2>2. Skipped(2, width) = width
    BY <1>7, <1>8, <2>1
  <2> QED
    BY <1>6, <2>1, <2>2
<1>10. \A m \in 1..minis : m < minis =>
         Skipped(m + 1, width) = Skipped(m, width) + PartLength(size, width, m)
  BY <1>6, <1>7
<1> QED
  BY <1>5, <1>6, <1>8, <1>9, <1>10 DEF PartsOfWidth

LEMMA MiniNumbers ==
  ASSUME Shape, phase \in Calls
  PROVE  /\ Minis \in Nat \ {0} /\ Width \in Nat \ {0} /\ Size \in Nat \ {0}
         /\ PartsOfWidth(Size, Width, Minis)
         /\ phase # "update" => Minis = 1
<1>1. phase # "next" /\ Size \in Nat \ {0}
  BY BatchNumbers DEF Calls
<1>2. Width \in Nat \ {0}
  BY <1>1, ConfigNumbers DEF Width, Shape
<1>3. Minis \in Nat \ {0} /\ PartsOfWidth(Size, Width, Minis)
  BY <1>1, <1>2, WidthParts DEF Minis
<1>4. phase # "update" => Width = Size
  BY DEF Width
<1> QED
  BY <1>1, <1>2, <1>3, <1>4 DEF PartsOfWidth

\* A place of the chunk of a rank is a row of the batch, and of no other.
LEMMA RowPlaces ==
  ASSUME Shape, phase # "next", NEW r \in Ranks
  PROVE  /\ Skipped(r, Size) \in Nat
         /\ \A p \in 1..Size : RowOf(r, p) \in 1..Count
         /\ \A p, q \in 1..Size : RowOf(r, p) = RowOf(r, q) => p = q
<1>1. PICK count \in Nat, size \in Nat, ranks \in Nat \ {0} :
        /\ count = Count /\ size = Size /\ ranks = DpSize /\ EqualParts(count, ranks, size)
  BY BatchNumbers
<1>2. Skipped(r, size) \in Nat /\ Skipped(r, size) + size <= count
  BY <1>1, PartWithin DEF Ranks
<1>3. PICK s \in Nat : s = Skipped(r, size)
  BY <1>2
<1>4. \A p \in 1..size : s + p \in 1..count
  BY <1>2, <1>3
<1>5. \A p, q \in 1..size : s + p = s + q => p = q
  BY <1>3
<1> QED
  BY <1>1, <1>3, <1>4, <1>5 DEF RowOf

LEMMA SentRows ==
  ASSUME Shape, phase \in Calls, NEW r \in Ranks, NEW m \in 1..Minis
  PROVE  /\ Sent(r, m) \in Seq(1..Count) /\ Len(Sent(r, m)) = PartLength(Size, Width, m)
         /\ Len(Sent(r, m)) \in Nat \ {0}
         /\ \A j \in 1..Len(Sent(r, m)) : /\ Skipped(m, Width) + j \in 1..Size
                                          /\ Sent(r, m)[j] = RowOf(r, Skipped(m, Width) + j)
         /\ \A i, j \in 1..Len(Sent(r, m)) : Sent(r, m)[i] = Sent(r, m)[j] => i = j
<1>1. PICK s \in Nat, l \in Nat \ {0}, size \in Nat :
        /\ s = Skipped(m, Width) /\ l = PartLength(Size, Width, m) /\ size = Size /\ s + l <= size
  <2>1. phase # "next"
    BY DEF Calls
  <2> QED
    BY <2>1, MiniNumbers, BatchNumbers DEF PartsOfWidth
<1>2. \A j \in 1..l : s + j \in 1..size
  BY <1>1
<1>3. \A j \in 1..l : RowOf(r, s + j) \in 1..Count
  BY <1>1, <1>2, RowPlaces DEF Calls
<1>4. \A i, j \in 1..l : RowOf(r, s + i) = RowOf(r, s + j) => i = j
  <2>1. \A i, j \in 1..l : RowOf(r, s + i) = RowOf(r, s + j) => s + i = s + j
    BY <1>1, <1>2, RowPlaces DEF Calls
  <2> QED
    BY <1>1, <2>1
<1>5. PICK rows : rows = Sent(r, m)
  OBVIOUS
<1>6. rows = [j \in 1..l |-> RowOf(r, s + j)]
  BY <1>1, <1>5 DEF Sent
<1>7. rows \in Seq(1..Count) /\ Len(rows) = l
  BY <1>3, <1>6
<1>8. \A j \in 1..l : rows[j] = RowOf(r, s + j)
  BY <1>6
<1> QED
  BY <1>1, <1>2, <1>4, <1>5, <1>7, <1>8

\* A call sends each rank its chunk, in mini-batches if it is an update.
LEMMA Dispatched ==
  ASSUME Shape, phase \notin {"next", "rollout"}, NEW name \in Calls, Call(name),
         UNCHANGED <<config, batch, full>>
  PROVE  DataSent'
<1>1. PICK count \in Nat \ {0}, size \in Nat \ {0}, ranks \in Nat \ {0} :
        /\ count = Count /\ size = Size /\ ranks = DpSize /\ EqualParts(count, ranks, size)
  BY BatchNumbers
<1>2. phase' = name /\ Count' = count /\ Size' = size /\ Len(full) = count
  <2>1. phase' = name /\ Count' = Count /\ Size' = Size
    BY DEF Call, Count, Size
  <2>2. full \in [1..count -> FullRows]
    BY <1>1 DEF Shape, FullJoined
  <2> QED
    BY <1>1, <2>1, <2>2
<1>3. PICK width \in Nat \ {0} : width = IF name = "update" THEN config.miniBatch ELSE size
  BY ConfigNumbers DEF Shape
<1>4. Width' = width /\ Minis' = CeilDiv(size, width)
  BY <1>2, <1>3 DEF Width, Minis
<1>5. PICK minis \in Nat \ {0} : minis = CeilDiv(size, width) /\ PartsOfWidth(size, width, minis)
  BY WidthParts
<1>6. ASSUME NEW r \in Ranks
      PROVE  data'[r] = [m \in 1..minis |->
               [j \in 1..PartLength(size, width, m) |-> Skipped(r, size) + (Skipped(m, width) + j)]]
  <2>1. PICK chunk : chunk = PartOfPlaces(count, ranks, r)
    OBVIOUS
  <2>2. /\ chunk \in Seq(1..count) /\ Len(chunk) = size
        /\ \A j \in 1..size : chunk[j] = Skipped(r, size) + j
    <3>1. r \in 1..ranks
      BY <1>1 DEF Ranks
    <3>2. /\ PartOfPlaces(count, ranks, r) \in Seq(1..count)
          /\ Len(PartOfPlaces(count, ranks, r)) = size
          /\ \A j \in 1..size : PartOfPlaces(count, ranks, r)[j] = Skipped(r, size) + j
      BY <1>1, <3>1, ChunksOfPlaces
    <3> QED
      BY <2>1, <3>2
  <2>3. data'[r] = IF name = "update" THEN Split(chunk, width) ELSE <<chunk>>
    BY <1>1, <1>2, <1>3, <2>1 DEF Call, PartOfPlaces
  <2>4. CASE name = "update"
    <3>1. PICK parts : parts = Split(chunk, width)
      OBVIOUS
    <3>2. chunk # << >>
      BY <2>2
    <3>3. SplitInOrder(chunk, width, parts) /\ parts \in Seq(Seq(1..count))
      BY <2>2, <3>1, <3>2, SplitKeepsOrder
    <3>4. Len(parts) = minis
      BY <1>5, <2>2, <3>3 DEF SplitInOrder
    <3>5. ASSUME NEW m \in 1..minis
          PROVE  parts[m] = [j \in 1..PartLength(size, width, m) |->
                               Skipped(r, size) + (Skipped(m, width) + j)]
      <4>1. PICK l \in Nat \ {0}, s \in Nat :
              l = PartLength(size, width, m) /\ s = Skipped(m, width) /\ s + l <= size
        BY <1>5 DEF PartsOfWidth
      <4>2. /\ Len(parts[m]) = l /\ parts[m] \in Seq(1..count)
            /\ \A j \in 1..l : parts[m][j] = chunk[s + j]
        <5>1. m \in 1..Len(parts)
          BY <3>4
        <5>2. parts[m] \in Seq(1..count)
          BY <3>3, <5>1
        <5> QED
          BY <2>2, <3>3, <4>1, <5>1, <5>2 DEF SplitInOrder
      <4>3. parts[m] = [j \in 1..l |-> parts[m][j]]
        BY <4>2
      <4>4. \A j \in 1..l : s + j \in 1..size
        BY <4>1
      <4>5. \A j \in 1..l : parts[m][j] = Skipped(r, size) + (s + j)
        BY <2>2, <4>2, <4>4
      <4> QED
        BY <4>1, <4>3, <4>5
    <3>6. parts = [m \in 1..minis |-> parts[m]]
      BY <3>3, <3>4
    <3> QED
      BY <2>3, <2>4, <3>1, <3>5, <3>6
  <2>5. CASE name # "update"
    <3>1. minis = 1 /\ Skipped(1, width) = 0 /\ PartLength(size, width, 1) = size
      <4>1. width = size
        BY <1>3, <2>5
      <4>2. minis = 1 /\ 1 \in 1..minis
        BY <1>5, <4>1 DEF PartsOfWidth
      <4> QED
        BY <1>5, <4>2 DEF PartsOfWidth
    <3>2. chunk = [j \in 1..size |-> Skipped(r, size) + (0 + j)]
      <4>1. chunk = [j \in 1..size |-> chunk[j]]
        BY <2>2
      <4>2. \A j \in 1..size : 0 + j = j
        OBVIOUS
      <4> QED
        BY <2>2, <4>1, <4>2
    <3>3. data'[r] = [m \in 1..1 |-> chunk]
      BY <2>3, <2>5
    <3>4. \A m \in 1..1 : [j \in 1..PartLength(size, width, m) |->
                             Skipped(r, size) + (Skipped(m, width) + j)] = chunk
      BY <3>1, <3>2
    <3> QED
      BY <3>1, <3>3, <3>4
  <2> QED
    BY <2>4, <2>5
<1>7. data' = [r \in Ranks |-> data'[r]]
  BY DEF Call
<1>8. \A r \in Ranks : data'[r] = [m \in 1..Minis' |-> Sent(r, m)']
  BY <1>2, <1>4, <1>5, <1>6 DEF Sent, RowOf
<1> QED
  BY <1>7, <1>8 DEF DataSent
-----------------------------------------------------------------------------
(***************************************************************************)
(* Where the ranks are                                                     *)
(***************************************************************************)

Largest == Max({own[q] : q \in Ranks})
NextVersion(v) == IF \E q \in Ranks : notFinite[q] THEN v ELSE v + 1

\* Every rank is at collective t of the call or has just passed it; m, j and
\* k are the mini-batch, the micro-batch, and the number of these, v is what
\* their optimizers have done.  First: they count and cut.
AtCut(t, v, m) ==
  \A r \in Ranks :
    /\ mini[r] = m /\ version[r] = v
    /\ \/ ticks[r] = t /\ pc[r] \in {"start", "reduce"}
       \/ /\ ticks[r] = t + 1 /\ pc[r] = "forward" /\ micro[r] = 0 /\ Len(plan[r]) = Largest
          /\ \A q \in Ranks : pc[q] # "start"

AtPass(t, v, m, j, k) ==
  /\ j < k
  /\ \A r \in Ranks :
       /\ mini[r] = m /\ version[r] = v
       /\ \/ ticks[r] = t /\ pc[r] = "forward" /\ micro[r] = j /\ Len(plan[r]) = k
          \/ /\ ticks[r] = t + 1 /\ j + 1 < k
             /\ pc[r] = "forward" /\ micro[r] = j + 1 /\ Len(plan[r]) = k
          \/ /\ ticks[r] = t + 1 /\ j + 1 = k
             /\ pc[r] = IF phase = "update" THEN "optimize" ELSE "returned"

AtStep(t, v, m) ==
  /\ phase = "update"
  /\ \A r \in Ranks :
       \/ ticks[r] = t /\ mini[r] = m /\ version[r] = v /\ pc[r] = "optimize"
       \/ /\ ticks[r] = t + 1 /\ mini[r] = m + 1 /\ version[r] = NextVersion(v)
          /\ IF m + 1 < Minis THEN pc[r] \in {"start", "reduce"} ELSE pc[r] = "returned"

At(t, v, m) == AtCut(t, v, m) \/ (\E j, k \in Nat : AtPass(t, v, m, j, k)) \/ AtStep(t, v, m)

\* The ranks go through a call together; between calls their optimizers have
\* taken the same steps.
Lockstep ==
  IF phase \in Calls
  THEN \E t, v \in Nat : \E m \in 0..(Minis - 1) : At(t, v, m)
  ELSE \E v \in Nat : \A r \in Ranks : version[r] = v

\* The largest of some numbers is one of them.
LEMMA LargestOf ==
  ASSUME NEW n \in Nat \ {0}, NEW f \in [1..n -> Nat]
  PROVE  /\ \E q \in 1..n : Max({f[i] : i \in 1..n}) = f[q]
         /\ \A i \in 1..n : f[i] <= Max({f[q] : q \in 1..n})
<1> DEFINE Bound(l, m) == \A i \in 1..n : i <= l => f[i] <= m
           T == {l \in Nat : \E m \in Nat : Bound(l, m)}
<1>1. 0 \in T
  <2>1. Bound(0, 0)
    OBVIOUS
  <2> QED
    BY <2>1
<1>2. ASSUME NEW l \in Nat, l \in T PROVE l + 1 \in T
  <2>1. PICK m \in Nat : Bound(l, m)
    BY <1>2
  <2>2. CASE l + 1 \in 1..n
    <3>1. PICK b \in Nat : b = f[l + 1]
      BY <2>2
    <3>2. Bound(l + 1, m + b) /\ m + b \in Nat /\ l + 1 \in Nat
      BY <2>1, <3>1
    <3> HIDE DEF Bound
    <3> QED
      BY <3>2
  <2>3. CASE l + 1 \notin 1..n
    <3>1. Bound(l + 1, m) /\ l + 1 \in Nat
      BY <2>1, <2>3
    <3> HIDE DEF Bound
    <3> QED
      BY <3>1
  <2> QED
    BY <2>2, <2>3
<1>3. n \in T
  <2> HIDE DEF T
  <2> QED
    BY <1>1, <1>2, Induction
<1> DEFINE B == {m \in Nat : \A i \in 1..n : f[i] <= m}
<1>4. B # {}
  <2>1. PICK m \in Nat : Bound(n, m)
    BY <1>3
  <2>2. m \in B
    BY <2>1
  <2> HIDE DEF B
  <2> QED
    BY <2>2
<1>5. PICK m \in B : \A l \in B : m <= l
  <2> HIDE DEF B
  <2>1. B \in SUBSET Nat
    BY DEF B
  <2> QED
    BY <1>4, <2>1, LeastNumber
<1>6. \E q \in 1..n : f[q] = m
  <2> SUFFICES ASSUME \A q \in 1..n : f[q] # m PROVE FALSE
    OBVIOUS
  <2>1. \A i \in 1..n : f[i] <= m - 1
    BY <1>5
  <2>2. m - 1 \in Nat
    BY <1>5, <2>1
  <2> QED
    BY <1>5, <2>1, <2>2
<1>7. PICK s : s = {f[q] : q \in 1..n}
  OBVIOUS
<1>8. m \in s /\ \A x \in s : m >= x /\ x \in Nat
  BY <1>5, <1>6, <1>7
<1>9. Max(s) = m
  <2>1. \A x \in s : (\A y \in s : x >= y) => x = m
    BY <1>8
  <2> QED
    BY <1>8, <2>1 DEF Max
<1> QED
  BY <1>5, <1>6, <1>7, <1>9

\* What a rank leaves alone when another moves.
Kept(q) ==
  /\ pc'[q] = pc[q] /\ ticks'[q] = ticks[q] /\ own'[q] = own[q] /\ micro'[q] = micro[q]
  /\ mini'[q] = mini[q] /\ version'[q] = version[q] /\ notFinite'[q] = notFinite[q]
  /\ plan'[q] = plan[q] /\ results'[q] = results[q]

LEMMA OthersKept ==
  ASSUME RankTypes, NEW r \in Ranks, Rank(r), NEW q \in Ranks, q # r
  PROVE  Kept(q)
<1>1. CASE CountMicroBatches(r)
  BY <1>1 DEF CountMicroBatches, RankTypes, Kept
<1>2. CASE CutMicroBatches(r)
  BY <1>2 DEF CutMicroBatches, RankTypes, Kept
<1>3. CASE ForwardOnly(r)
  BY <1>3 DEF ForwardOnly, RankTypes, Kept
<1>4. CASE ForwardBackward(r)
  BY <1>4 DEF ForwardBackward, RankTypes, Kept
<1>5. CASE OptimizerStep(r)
  BY <1>5 DEF OptimizerStep, RankTypes, Kept
<1> QED
  BY <1>1, <1>2, <1>3, <1>4, <1>5 DEF Rank

LEMMA DriverKept ==
  ASSUME NEW r \in Ranks, Rank(r)
  PROVE  /\ UNCHANGED driverVars /\ data' = data
         /\ Count' = Count /\ Size' = Size /\ Width' = Width /\ Minis' = Minis
         /\ (Shape => Shape') /\ (FullJoined => FullJoined') /\ (DataSent => DataSent')
<1>1. UNCHANGED driverVars /\ data' = data
  BY DEF Rank, CountMicroBatches, CutMicroBatches, ForwardOnly, ForwardBackward, OptimizerStep
<1>2. /\ config' = config /\ steps' = steps /\ phase' = phase /\ batch' = batch /\ full' = full
      /\ badForward' = badForward
  BY <1>1 DEF driverVars
<1>3. Count' = Count /\ Size' = Size /\ Width' = Width /\ Minis' = Minis
  BY <1>2 DEF Count, Size, Width, Minis
<1>4. FullJoined => FullJoined'
  BY <1>2, <1>3 DEF FullJoined
<1>5. Shape => Shape'
  BY <1>2, <1>4 DEF Shape, BatchLoaded
<1>6. DataSent => DataSent'
  BY <1>1, <1>3 DEF DataSent, Sent, RowOf
<1> QED
  BY <1>1, <1>3, <1>4, <1>5, <1>6

\* The ranks are where they were, or one step further: what the collectives of
\* a call allow.  A rank that moves on has been at the one all others have
\* reached.
LEMMA AllAtCut ==
  ASSUME Shape, RankTypes, Lockstep, phase \in Calls, NEW r \in Ranks, AllHere(r),
         pc[r] = "reduce"
  PROVE  /\ \A q \in Ranks : pc[q] \in {"reduce", "forward"}
         /\ \E t, v \in Nat : \E m \in 0..(Minis - 1) : AtCut(t, v, m) /\ ticks[r] = t
<1>1. PICK t \in Nat, v \in Nat : \E m \in 0..(Minis - 1) : At(t, v, m)
  BY DEF Lockstep
<1>2. PICK m \in 0..(Minis - 1) : At(t, v, m)
  BY <1>1
<1>3. \A q \in Ranks : ticks[q] \in Nat
  BY DEF RankTypes
<1>4. CASE AtCut(t, v, m)
  <2>1. ticks[r] = t
    BY <1>4 DEF AtCut
  <2>2. \A q \in Ranks : pc[q] \in {"reduce", "forward"}
    BY <1>3, <1>4, <2>1 DEF AtCut, AllHere
  <2> QED
    BY <1>4, <2>1, <2>2
<1>5. ASSUME NEW j \in Nat, NEW k \in Nat, AtPass(t, v, m, j, k) PROVE FALSE
  BY <1>5 DEF AtPass
<1>6. CASE AtStep(t, v, m)
  <2>1. ticks[r] = t + 1 /\ mini[r] = m + 1 /\ m + 1 < Minis
    BY <1>6 DEF AtStep
  <2>2. \A q \in Ranks : ticks[q] = t + 1 /\ pc[q] = "reduce"
    BY <1>3, <1>6, <2>1 DEF AtStep, AllHere
  <2>3. \A q \in Ranks : mini[q] = m + 1 /\ version[q] = NextVersion(v)
    BY <1>6, <2>2 DEF AtStep
  <2>4. AtCut(t + 1, NextVersion(v), m + 1)
    BY <2>2, <2>3 DEF AtCut
  <2>5. NextVersion(v) \in Nat /\ t + 1 \in Nat
    BY DEF NextVersion
  <2>6. m + 1 \in 0..(Minis - 1)
    <3>1. PICK minis \in Nat : minis = Minis
      BY MiniNumbers
    <3> QED
      BY <2>1, <3>1
  <2> QED
    BY <2>1, <2>2, <2>4, <2>5, <2>6
<1> QED
  BY <1>2, <1>4, <1>5, <1>6 DEF At

LEMMA AllAtPass ==
  ASSUME Shape, RankTypes, Lockstep, phase \in Calls, NEW r \in Ranks, AllHere(r),
         pc[r] = "forward", Len(plan[r]) \in Nat \ {0}
  PROVE  \E t, v \in Nat : \E m \in 0..(Minis - 1) : \E j, k \in Nat :
           AtPass(t, v, m, j, k) /\ ticks[r] = t /\ micro[r] = j /\ Len(plan[r]) = k
<1>1. PICK t \in Nat, v \in Nat : \E m \in 0..(Minis - 1) : At(t, v, m)
  BY DEF Lockstep
<1>2. PICK m \in 0..(Minis - 1) : At(t, v, m)
  BY <1>1
<1>3. \A q \in Ranks : ticks[q] \in Nat
  BY DEF RankTypes
<1>4. CASE AtCut(t, v, m)
  <2>1. ticks[r] = t + 1 /\ micro[r] = 0
    BY <1>4 DEF AtCut
  <2>2. \A q \in Ranks : ticks[q] = t + 1 /\ pc[q] = "forward"
    BY <1>3, <1>4, <2>1 DEF AtCut, AllHere
  <2>3. PICK k \in Nat \ {0} : k = Len(plan[r])
    OBVIOUS
  <2>4. \A q \in Ranks : /\ mini[q] = m /\ version[q] = v /\ micro[q] = 0
                          /\ Len(plan[q]) = k
    BY <1>4, <2>2, <2>3 DEF AtCut
  <2>5. PICK u \in Nat : u = t + 1
    OBVIOUS
  <2>6. \A q \in Ranks : mini[q] = m /\ version[q] = v /\ Len(plan[q]) = k
    BY <2>4
  <2>7. \A q \in Ranks : ticks[q] = u /\ micro[q] = 0 /\ pc[q] = "forward"
    BY <2>2, <2>4, <2>5
  <2>8. 0 \in Nat /\ k \in Nat /\ 0 < k
    OBVIOUS
  <2>9. AtPass(u, v, m, 0, k)
    BY <2>6, <2>7, <2>8 DEF AtPass
  <2> QED
    BY <2>1, <2>3, <2>5, <2>8, <2>9
<1>5. ASSUME NEW j \in Nat, NEW k \in Nat, AtPass(t, v, m, j, k)
      PROVE  \E u \in Nat : \E i \in Nat :
               AtPass(u, v, m, i, k) /\ ticks[r] = u /\ micro[r] = i /\ Len(plan[r]) = k
  <2>a. t + 1 # t /\ "optimize" # "forward" /\ "returned" # "forward"
    OBVIOUS
  <2>b. \/ ticks[r] = t /\ micro[r] = j /\ Len(plan[r]) = k
        \/ ticks[r] = t + 1 /\ j + 1 < k /\ micro[r] = j + 1 /\ Len(plan[r]) = k
    BY <1>5 DEF AtPass
  <2>1. CASE ticks[r] = t
    <3>1. micro[r] = j /\ Len(plan[r]) = k
      BY <2>1, <2>a, <2>b
    <3> QED
      BY <1>5, <2>1, <3>1
  <2>2. CASE ticks[r] # t
    <3>1. /\ ticks[r] = t + 1 /\ j + 1 < k /\ micro[r] = j + 1 /\ Len(plan[r]) = k
      BY <2>2, <2>b
    <3>2. \A q \in Ranks : ticks[q] = t + 1 /\ pc[q] = "forward"
      BY <1>3, <1>5, <3>1 DEF AtPass, AllHere
    <3>3. \A q \in Ranks : /\ mini[q] = m /\ version[q] = v /\ micro[q] = j + 1
                            /\ Len(plan[q]) = k
      BY <1>5, <3>2 DEF AtPass
    <3>4. AtPass(t + 1, v, m, j + 1, k)
      BY <3>1, <3>2, <3>3 DEF AtPass
    <3> QED
      BY <3>1, <3>4
  <2> QED
    BY <2>1, <2>2
<1>6. ~AtStep(t, v, m)
  BY DEF AtStep
<1>7. CASE \E j, k \in Nat : AtPass(t, v, m, j, k)
  <2>1. PICK j \in Nat, k \in Nat : AtPass(t, v, m, j, k)
    BY <1>7
  <2> QED
    BY <1>5, <2>1
<1> QED
  BY <1>2, <1>4, <1>6, <1>7 DEF At

LEMMA AllAtStep ==
  ASSUME Shape, RankTypes, Lockstep, phase \in Calls, NEW r \in Ranks, AllHere(r),
         pc[r] = "optimize"
  PROVE  \E t, v \in Nat : \E m \in 0..(Minis - 1) :
           AtStep(t, v, m) /\ ticks[r] = t /\ mini[r] = m /\ version[r] = v
<1>1. PICK t \in Nat, v \in Nat : \E m \in 0..(Minis - 1) : At(t, v, m)
  BY DEF Lockstep
<1>2. PICK m \in 0..(Minis - 1) : At(t, v, m)
  BY <1>1
<1>3. \A q \in Ranks : ticks[q] \in Nat
  BY DEF RankTypes
<1>4. ~AtCut(t, v, m)
  BY DEF AtCut
<1>5. ASSUME NEW j \in Nat, NEW k \in Nat, AtPass(t, v, m, j, k)
      PROVE  AtStep(t + 1, v, m) /\ ticks[r] = t + 1 /\ mini[r] = m /\ version[r] = v
  <2>1. ticks[r] = t + 1 /\ j + 1 = k /\ phase = "update" /\ mini[r] = m /\ version[r] = v
    BY <1>5 DEF AtPass
  <2>2. \A q \in Ranks : ticks[q] = t + 1 /\ pc[q] = "optimize"
    BY <1>3, <1>5, <2>1 DEF AtPass, AllHere
  <2>3. \A q \in Ranks : mini[q] = m /\ version[q] = v
    BY <1>5 DEF AtPass
  <2> QED
    BY <2>1, <2>2, <2>3 DEF AtStep
<1>6. AtStep(t, v, m) => ticks[r] = t /\ mini[r] = m /\ version[r] = v
  BY DEF AtStep
<1>7. CASE \E j, k \in Nat : AtPass(t, v, m, j, k)
  <2>1. PICK j \in Nat, k \in Nat : AtPass(t, v, m, j, k)
    BY <1>7
  <2>2. t + 1 \in Nat
    OBVIOUS
  <2> QED
    BY <1>5, <2>1, <2>2
<1> QED
  BY <1>2, <1>4, <1>6, <1>7 DEF At

\* Where a rank is that counts.
LEMMA AtCount ==
  ASSUME Shape, RankTypes, Lockstep, phase \in Calls, NEW r \in Ranks, pc[r] = "start"
  PROVE  \E t, v \in Nat : \E m \in 0..(Minis - 1) :
           \/ AtCut(t, v, m) /\ \A q \in Ranks : pc[q] \in {"start", "reduce"}
           \/ AtStep(t, v, m)
<1>1. PICK t \in Nat, v \in Nat : \E m \in 0..(Minis - 1) : At(t, v, m)
  BY DEF Lockstep
<1>2. PICK m \in 0..(Minis - 1) : At(t, v, m)
  BY <1>1
<1>3. CASE AtCut(t, v, m)
  <2>1. \A q \in Ranks : pc[q] \in {"start", "reduce"}
    BY <1>3 DEF AtCut
  <2> QED
    BY <1>3, <2>1
<1>4. \A j, k \in Nat : ~AtPass(t, v, m, j, k)
  BY DEF AtPass
<1> QED
  BY <1>2, <1>3, <1>4 DEF At

-----------------------------------------------------------------------------
(***************************************************************************)
(* The micro-batches of a rank                                             *)
(***************************************************************************)

\* The rows in hand, cut into as many micro-batches as the plan has.
CutOf(r) == RearrangeMicroBatches(SeqLengths(InHand(r)), Len(plan[r]))

\* The rows at the places of a cut.
PartAt(hand, part) == [j \in 1..Len(part) |-> hand[part[j]]]
RowsAt(hand, cut, k) == [m \in 1..k |-> PartAt(hand, cut[m])]

OwnFits(r) == pc[r] \in {"reduce", "forward"} => own[r] \in 1..Len(InHand(r))

\* The plan a rank works on shares out the rows in hand, and none of its
\* micro-batches is empty.
Planned(r) ==
  pc[r] = "forward" =>
    /\ Len(plan[r]) \in 1..Len(InHand(r)) /\ micro[r] \in 0..(Len(plan[r]) - 1)
    /\ ShareRows(Len(InHand(r)), Len(plan[r]), CutOf(r))
    /\ plan[r] = RowsAt(InHand(r), CutOf(r), Len(plan[r]))

\* In a call every rank is somewhere with the data it was sent; between calls
\* nothing is left of one.
CallState ==
  IF phase \in Calls
  THEN DataSent /\ \A r \in Ranks : pc[r] # "idle"
  ELSE \A r \in Ranks : pc[r] = "idle" /\ plan[r] = << >> /\ mini[r] = 0

Plans == \A r \in Ranks : plan[r] \in Seq(Seq(1..Len(full)))

\* What keeps the ranks together.
TogetherInv ==
  /\ Shape /\ RankTypes /\ CallState /\ Lockstep /\ Plans
  /\ \A r \in Ranks : OwnFits(r) /\ Planned(r)

LEMMA WithinMinis ==
  ASSUME Shape, RankTypes, Lockstep, phase \in Calls, NEW r \in Ranks
  PROVE  /\ pc[r] \notin {"idle", "returned"} => mini[r] \in 0..(Minis - 1)
         /\ pc[r] = "returned" /\ phase = "update" => mini[r] = Minis
         /\ pc[r] = "returned" /\ phase # "update" => mini[r] = 0
<1>1. PICK t \in Nat, v \in Nat : \E m \in 0..(Minis - 1) : At(t, v, m)
  BY DEF Lockstep
<1>2. PICK m \in 0..(Minis - 1) : At(t, v, m)
  BY <1>1
<1>3. PICK minis \in Nat \ {0} : minis = Minis /\ (phase # "update" => minis = 1)
  BY MiniNumbers
<1>4. CASE AtCut(t, v, m)
  BY <1>3, <1>4 DEF AtCut
<1>5. ASSUME NEW j \in Nat, NEW k \in Nat, AtPass(t, v, m, j, k)
      PROVE  mini[r] = m /\ (pc[r] = "returned" => phase # "update")
  BY <1>5 DEF AtPass
<1>6. CASE \E j, k \in Nat : AtPass(t, v, m, j, k)
  BY <1>3, <1>5, <1>6
<1>7. CASE AtStep(t, v, m)
  <2>1. m + 1 \in Nat /\ m + 1 <= minis /\ (m + 1 < minis => m + 1 \in 0..(minis - 1))
    BY <1>3
  <2> QED
    BY <1>3, <1>7, <2>1 DEF AtStep
<1> QED
  BY <1>2, <1>4, <1>6, <1>7 DEF At

\* The rows in hand are a mini-batch.
LEMMA HandSent ==
  ASSUME Shape, DataSent, phase \in Calls, NEW r \in Ranks, mini[r] \in 0..(Minis - 1)
  PROVE  /\ mini[r] + 1 \in 1..Minis /\ InHand(r) = Sent(r, mini[r] + 1)
         /\ InHand(r) \in Seq(1..Count) /\ Len(InHand(r)) \in Nat \ {0}
         /\ Len(InHand(r)) = PartLength(Size, Width, mini[r] + 1)
         /\ \A i, j \in 1..Len(InHand(r)) : InHand(r)[i] = InHand(r)[j] => i = j
         /\ Len(data[r]) = Minis
<1>1. PICK minis \in Nat \ {0} : minis = Minis
  BY MiniNumbers
<1>2. mini[r] + 1 \in 1..Minis
  BY <1>1
<1>3. PICK sent : sent = [m \in 1..minis |-> Sent(r, m)]
  OBVIOUS
<1>4. data[r] = sent
  BY <1>1, <1>3 DEF DataSent
<1>5. Len(sent) = minis /\ \A m \in 1..minis : sent[m] = Sent(r, m)
  BY <1>3
<1>6. InHand(r) = Sent(r, mini[r] + 1)
  BY <1>1, <1>2, <1>4, <1>5 DEF InHand
<1> QED
  BY <1>1, <1>2, <1>4, <1>5, <1>6, SentRows

\* The lengths that the model sees.
LEMMA LengthsOf ==
  ASSUME Shape, phase \in Calls, NEW rows \in Seq(1..Count), Len(rows) # 0
  PROVE  /\ SeqLengths(rows) \in Seq(Nat \ {0}) /\ Len(SeqLengths(rows)) = Len(rows)
         /\ SeqLengths(rows) # << >>
<1>1. full \in [1..Count -> FullRows]
  BY DEF Shape, FullJoined, Calls
<1>2. ASSUME NEW row \in FullRows
      PROVE  /\ row.outcome.length \in Nat \ {0} /\ row.sample.prompt \in Nat
             /\ RefPrompt(row) \in Nat
  <2>1. row.outcome \in Outcomes /\ row.sample \in Samples
    BY DEF FullRows
  <2>2. PICK o \in Outcomes, s \in Samples : o = row.outcome /\ s = row.sample
    BY <2>1
  <2>3. o.length \in Nat \ {0} /\ s.prompt \in 1..PromptLength /\ s.promptRef \in Nat
    BY DEF Outcomes, Samples
  <2>4. PromptLength \in Nat
    BY SizesAssumption
  <2> QED
    BY <2>2, <2>3, <2>4 DEF RefPrompt
<1>3. PICK n \in Nat \ {0} : n = Len(rows)
  OBVIOUS
<1>4. ASSUME NEW k \in 1..n
      PROVE  full[rows[k]].outcome.length
               + (IF phase = "ref" THEN RefPrompt(full[rows[k]]) ELSE full[rows[k]].sample.prompt)
               \in Nat \ {0}
  <2>1. rows[k] \in 1..Count
    <3>1. rows \in [1..n -> 1..Count]
      BY <1>3, Entries
    <3> QED
      BY <3>1
  <2>2. PICK row \in FullRows : row = full[rows[k]]
    BY <1>1, <2>1
  <2>3. PICK a \in Nat \ {0}, b \in Nat :
          /\ a = row.outcome.length
          /\ b = IF phase = "ref" THEN RefPrompt(row) ELSE row.sample.prompt
    BY <1>2
  <2>4. a + b \in Nat \ {0}
    OBVIOUS
  <2> QED
    BY <2>2, <2>3, <2>4
<1>5. PICK lengths : lengths = SeqLengths(rows)
  OBVIOUS
<1>6. lengths \in Seq(Nat \ {0}) /\ Len(lengths) = n
  BY <1>3, <1>4, <1>5 DEF SeqLengths
<1>7. lengths # << >>
  BY <1>6
<1> QED
  BY <1>3, <1>5, <1>6, <1>7

\* A rank needs one micro-batch at least, and no more than it has rows.
LEMMA CountFits ==
  ASSUME NEW lengths \in Seq(Nat \ {0}), lengths # << >>, NEW maxTokens \in Nat \ {0}
  PROVE  MicroBatchCount(lengths, maxTokens) \in 1..Len(lengths)
<1>1. PICK n \in Nat \ {0} : n = Len(lengths)
  OBVIOUS
<1>2. lengths \in [1..n -> Nat] /\ \A i \in 1..n : lengths[i] > 0
  <2>1. \A i \in 1..n : lengths[i] \in Nat \ {0}
    BY <1>1
  <2> QED
    BY <1>1, <2>1
<1>3. Total(lengths) \in Nat \ {0}
  <2>1. Total(lengths) \in Nat /\ Total(lengths) >= n
    BY <1>2, TotalNumber
  <2> QED
    BY <2>1
<1>4. PICK needed \in Nat \ {0} : needed = CeilDiv(Total(lengths), maxTokens)
  BY <1>3, Ceiling
<1>5. Ceil(Total(lengths), maxTokens) = needed
  BY <1>4 DEF Ceil, CeilDiv
<1> QED
  BY <1>1, <1>5 DEF MicroBatchCount

LEMMA Counted ==
  ASSUME TogetherInv, NEW r \in Ranks, CountMicroBatches(r)
  PROVE  own'[r] \in 1..Len(InHand(r))
<1>1. phase \in Calls
  BY DEF TogetherInv, CallState, CountMicroBatches
<1>2. mini[r] \in 0..(Minis - 1)
  BY <1>1, WithinMinis DEF TogetherInv, CountMicroBatches
<1>3. InHand(r) \in Seq(1..Count) /\ Len(InHand(r)) \in Nat \ {0}
  BY <1>1, <1>2, HandSent DEF TogetherInv, CallState
<1>4. PICK lengths \in Seq(Nat \ {0}) :
        lengths = SeqLengths(InHand(r)) /\ Len(lengths) = Len(InHand(r)) /\ lengths # << >>
  BY <1>1, <1>3, LengthsOf DEF TogetherInv
<1>5. config.maxTokens \in Nat \ {0}
  BY ConfigNumbers DEF TogetherInv, Shape
<1>6. own'[r] = MicroBatchCount(lengths, config.maxTokens)
  BY <1>4 DEF CountMicroBatches, TogetherInv, RankTypes
<1> QED
  BY <1>4, <1>5, <1>6, CountFits

\* The largest count fits every rank, since all have as many rows in hand.
LEMMA CutPlan ==
  ASSUME TogetherInv, NEW r \in Ranks, CutMicroBatches(r)
  PROVE  /\ Largest \in 1..Len(InHand(r)) /\ Len(plan'[r]) = Largest
         /\ LET cut == RearrangeMicroBatches(SeqLengths(InHand(r)), Largest) IN
            /\ ShareRows(Len(InHand(r)), Largest, cut)
            /\ plan'[r] = RowsAt(InHand(r), cut, Largest)
         /\ plan'[r] \in Seq(Seq(1..Count))
<1>1. phase \in Calls /\ pc[r] = "reduce" /\ AllHere(r)
  BY DEF TogetherInv, CallState, CutMicroBatches
<1>2. /\ \A q \in Ranks : pc[q] \in {"reduce", "forward"}
      /\ \E t, v \in Nat : \E m \in 0..(Minis - 1) : AtCut(t, v, m) /\ ticks[r] = t
  BY <1>1, AllAtCut DEF TogetherInv
<1>3. PICK m \in 0..(Minis - 1) : \A q \in Ranks : mini[q] = m
  BY <1>2 DEF AtCut
<1>4. PICK l \in Nat \ {0} : l = Len(InHand(r)) /\ l = PartLength(Size, Width, m + 1)
  BY <1>1, <1>3, HandSent DEF TogetherInv, CallState
<1>5. \A q \in Ranks : own[q] \in 1..l
  <2> SUFFICES ASSUME NEW q \in Ranks PROVE own[q] \in 1..l
    OBVIOUS
  <2>1. Len(InHand(q)) = l
    BY <1>1, <1>3, <1>4, HandSent DEF TogetherInv, CallState
  <2> QED
    BY <1>2, <2>1 DEF TogetherInv, OwnFits
<1>6. PICK k \in 1..l : k = Largest
  <2>1. DpSize \in Nat \ {0} /\ own \in [1..DpSize -> Nat]
    BY SizesAssumption DEF TogetherInv, RankTypes, Ranks
  <2>2. \E q \in 1..DpSize : Max({own[i] : i \in 1..DpSize}) = own[q]
    BY <2>1, LargestOf
  <2>3. \E q \in Ranks : Largest = own[q]
    BY <2>2 DEF Largest, Ranks
  <2> QED
    BY <1>5, <2>3
<1>7. InHand(r) \in Seq(1..Count)
  BY <1>1, <1>3, HandSent DEF TogetherInv, CallState
<1>8. PICK lengths \in Seq(Nat \ {0}) :
        lengths = SeqLengths(InHand(r)) /\ Len(lengths) = l /\ lengths # << >>
  BY <1>1, <1>4, <1>7, LengthsOf DEF TogetherInv
<1>9. PICK cut : cut = RearrangeMicroBatches(lengths, k)
  OBVIOUS
<1>10. ShareRows(l, k, cut)
  BY <1>8, <1>9, MicroBatchesShareRows
<1>11. plan'[r] = [i \in 1..k |-> [j \in 1..Len(cut[i]) |-> InHand(r)[cut[i][j]]]]
  BY <1>6, <1>8, <1>9 DEF CutMicroBatches, Largest, TogetherInv, RankTypes
<1>12. \A i \in 1..k : [j \in 1..Len(cut[i]) |-> InHand(r)[cut[i][j]]] \in Seq(1..Count)
  <2> SUFFICES ASSUME NEW i \in 1..k
               PROVE  [j \in 1..Len(cut[i]) |-> InHand(r)[cut[i][j]]] \in Seq(1..Count)
    OBVIOUS
  <2>1. cut \in [1..k -> Seq(1..l)]
    BY <1>10 DEF ShareRows
  <2>2. PICK part \in Seq(1..l) : part = cut[i]
    BY <2>1
  <2>3. InHand(r) \in [1..l -> 1..Count]
    <3>1. InHand(r) \in [1..Len(InHand(r)) -> 1..Count]
      BY <1>7, Entries
    <3> QED
      BY <1>4, <3>1
  <2>4. PICK n \in Nat : n = Len(part) /\ \A j \in 1..n : part[j] \in 1..l
    <3>1. Len(part) \in Nat /\ \A j \in 1..Len(part) : part[j] \in 1..l
      OBVIOUS
    <3> QED
      BY <3>1
  <2>5. \A j \in 1..n : InHand(r)[part[j]] \in 1..Count
    BY <2>3, <2>4
  <2>6. [j \in 1..n |-> InHand(r)[part[j]]] \in Seq(1..Count)
    BY <2>5
  <2> QED
    BY <2>2, <2>4, <2>6
<1>13. plan'[r] \in Seq(Seq(1..Count)) /\ Len(plan'[r]) = k
  <2>1. k \in Nat
    OBVIOUS
  <2> QED
    BY <1>11, <1>12, <2>1
<1>14. plan'[r] = RowsAt(InHand(r), cut, k)
  BY <1>11 DEF RowsAt, PartAt
<1> QED
  BY <1>4, <1>6, <1>8, <1>9, <1>10, <1>13, <1>14

\* The rows of the step, as a sequence.
LEMMA FullLength ==
  ASSUME Shape
  PROVE  Len(full) = IF phase \in {"next", "rollout"} THEN 0 ELSE Count
<1>1. CASE phase \in {"next", "rollout"}
  BY <1>1 DEF Shape
<1>2. CASE phase \notin {"next", "rollout"}
  <2>1. PICK count \in Nat : count = Count
    BY <1>2, BatchNumbers
  <2>2. full \in [1..count -> FullRows]
    BY <1>2, <2>1 DEF Shape, FullJoined
  <2> QED
    BY <1>2, <2>1, <2>2
<1> QED
  BY <1>1, <1>2

\* A rank that is left alone keeps its place in its own data.
LEMMA KeptFits ==
  ASSUME NEW r \in Ranks, Rank(r), NEW q \in Ranks, q # r, TogetherInv
  PROVE  OwnFits(q)' /\ Planned(q)'
<1>1. UNCHANGED <<full, phase>> /\ data' = data
  BY DriverKept DEF driverVars
<1>2. Kept(q)
  BY OthersKept DEF TogetherInv
<1>3. InHand(q)' = InHand(q)
  BY <1>1, <1>2 DEF InHand, Kept
<1>4. SeqLengths(InHand(q))' = SeqLengths(InHand(q))
  BY <1>1, <1>3 DEF SeqLengths
<1>5. CutOf(q)' = CutOf(q)
  BY <1>2, <1>4 DEF CutOf, Kept
<1>6. OwnFits(q) /\ Planned(q)
  BY DEF TogetherInv
<1> QED
  BY <1>2, <1>3, <1>5, <1>6 DEF OwnFits, Planned, Kept

\* A step of a rank keeps what it does not touch; the rest is shown action by
\* action.
LEMMA RankKeeps ==
  ASSUME TogetherInv, NEW r \in Ranks, Rank(r),
         RankTypes', pc'[r] # "idle", OwnFits(r)', Planned(r)',
         plan'[r] \in Seq(Seq(1..Count)),
         \E t, v \in Nat : \E m \in 0..(Minis - 1) : At(t, v, m)'
  PROVE  TogetherInv'
<1>1. phase \in Calls
  BY DEF TogetherInv, CallState, Rank, CountMicroBatches, CutMicroBatches, ForwardOnly,
         ForwardBackward, OptimizerStep
<1>2. phase' = phase /\ full' = full /\ Shape' /\ DataSent' /\ Minis' = Minis
  BY <1>1, DriverKept DEF driverVars, TogetherInv, CallState
<1>3. \A q \in Ranks : pc'[q] # "idle"
  <2> SUFFICES ASSUME NEW q \in Ranks, q # r PROVE pc'[q] # "idle"
    OBVIOUS
  <2>1. Kept(q)
    BY OthersKept DEF TogetherInv
  <2> QED
    BY <1>1, <2>1 DEF Kept, TogetherInv, CallState
<1>4. CallState'
  BY <1>1, <1>2, <1>3 DEF CallState
<1>5. Lockstep'
  BY <1>1, <1>2 DEF Lockstep
<1>6. Plans'
  <2>1. Len(full) = Count
    BY <1>1, FullLength DEF TogetherInv, Calls
  <2>2. \A q \in Ranks : plan'[q] \in Seq(Seq(1..Len(full)))
    <3> SUFFICES ASSUME NEW q \in Ranks, q # r PROVE plan'[q] \in Seq(Seq(1..Len(full)))
      BY <2>1
    <3>1. Kept(q)
      BY OthersKept DEF TogetherInv
    <3> QED
      BY <3>1 DEF Kept, TogetherInv, Plans
  <2> QED
    BY <1>2, <2>2 DEF Plans
<1>7. \A q \in Ranks : OwnFits(q)' /\ Planned(q)'
  <2> SUFFICES ASSUME NEW q \in Ranks, q # r PROVE OwnFits(q)' /\ Planned(q)'
    OBVIOUS
  <2> QED
    BY KeptFits
<1> QED
  BY <1>2, <1>4, <1>5, <1>6, <1>7 DEF TogetherInv

LEMMA PlanOf ==
  ASSUME TogetherInv, NEW r \in Ranks, pc[r] # "idle"
  PROVE  phase \in Calls /\ plan[r] \in Seq(Seq(1..Count)) /\ Len(full) = Count
<1>1. phase \in Calls
  BY DEF TogetherInv, CallState
<1>2. Len(full) = Count
  BY <1>1, FullLength DEF TogetherInv, Calls
<1> QED
  BY <1>1, <1>2 DEF TogetherInv, Plans

LEMMA CountKeeps ==
  ASSUME TogetherInv, NEW r \in Ranks, CountMicroBatches(r)
  PROVE  TogetherInv'
<1>0. Rank(r)
  BY DEF Rank
<1>1. phase \in Calls /\ plan[r] \in Seq(Seq(1..Count))
  BY PlanOf DEF CountMicroBatches
<1>2. own'[r] \in 1..Len(InHand(r))
  BY Counted
<1>3. InHand(r)' = InHand(r)
  BY DEF CountMicroBatches, InHand
<1>4. pc'[r] = "reduce" /\ plan' = plan
  BY DEF CountMicroBatches, TogetherInv, RankTypes
<1>5. OwnFits(r)' /\ Planned(r)'
  BY <1>2, <1>3, <1>4 DEF OwnFits, Planned
<1>6. own'[r] \in Nat
  <2>1. mini[r] \in 0..(Minis - 1)
    BY <1>1, WithinMinis DEF TogetherInv, CountMicroBatches
  <2>2. Len(InHand(r)) \in Nat
    BY <1>1, <2>1, HandSent DEF TogetherInv, CallState
  <2> QED
    BY <1>2, <2>2
<1>7. RankTypes'
  <2>1. own' \in [Ranks -> Nat]
    BY <1>6 DEF CountMicroBatches, TogetherInv, RankTypes
  <2>2. pc' \in [Ranks -> Places]
    BY DEF CountMicroBatches, TogetherInv, RankTypes, Places
  <2> QED
    BY <2>1, <2>2 DEF CountMicroBatches, TogetherInv, RankTypes
<1>8. PICK t \in Nat, v \in Nat : \E m \in 0..(Minis - 1) :
        \/ AtCut(t, v, m) /\ \A q \in Ranks : pc[q] \in {"start", "reduce"}
        \/ AtStep(t, v, m)
  <2>1. pc[r] = "start"
    BY DEF CountMicroBatches
  <2> QED
    BY <1>1, <2>1, AtCount DEF TogetherInv
<1>9. PICK m \in 0..(Minis - 1) :
        \/ AtCut(t, v, m) /\ \A q \in Ranks : pc[q] \in {"start", "reduce"}
        \/ AtStep(t, v, m)
  BY <1>8
<1>10. /\ ticks' = ticks /\ mini' = mini /\ version' = version /\ phase' = phase
       /\ notFinite' = notFinite /\ Minis' = Minis /\ pc[r] = "start"
       /\ \A q \in Ranks : q # r => pc'[q] = pc[q]
  BY <1>0, DriverKept DEF CountMicroBatches, TogetherInv, RankTypes, driverVars
<1>11. CASE AtCut(t, v, m) /\ \A q \in Ranks : pc[q] \in {"start", "reduce"}
  <2>1. AtCut(t, v, m)'
    BY <1>4, <1>10, <1>11 DEF AtCut
  <2> QED
    BY <1>0, <1>1, <1>4, <1>5, <1>7, <2>1, RankKeeps DEF At
<1>12. CASE AtStep(t, v, m)
  <2>1. NextVersion(v)' = NextVersion(v)
    BY <1>10 DEF NextVersion
  <2>2. AtStep(t, v, m)'
    BY <1>4, <1>10, <1>12, <2>1 DEF AtStep
  <2> QED
    BY <1>0, <1>1, <1>4, <1>5, <1>7, <2>2, RankKeeps DEF At
<1> QED
  BY <1>9, <1>11, <1>12

LEMMA CutKeeps ==
  ASSUME TogetherInv, NEW r \in Ranks, CutMicroBatches(r)
  PROVE  TogetherInv'
<1>0. Rank(r)
  BY DEF Rank
<1>1. phase \in Calls /\ pc[r] = "reduce" /\ AllHere(r)
  BY PlanOf DEF CutMicroBatches
<1>2. PICK k \in 1..Len(InHand(r)) : k = Largest
  BY CutPlan
<1>3. PICK cut : cut = RearrangeMicroBatches(SeqLengths(InHand(r)), k)
  OBVIOUS
<1>4. /\ Len(plan'[r]) = k /\ ShareRows(Len(InHand(r)), k, cut)
      /\ plan'[r] = RowsAt(InHand(r), cut, k)
      /\ plan'[r] \in Seq(Seq(1..Count))
  BY <1>2, <1>3, CutPlan
<1>5. /\ UNCHANGED <<full, phase, data, own, mini, version>> /\ Minis' = Minis
      /\ pc'[r] = "forward" /\ micro'[r] = 0 /\ ticks'[r] = ticks[r] + 1
      /\ \A q \in Ranks : q # r => /\ pc'[q] = pc[q] /\ ticks'[q] = ticks[q]
                                   /\ micro'[q] = micro[q] /\ plan'[q] = plan[q]
  BY <1>0, DriverKept DEF CutMicroBatches, TogetherInv, RankTypes, driverVars
<1>6. InHand(r)' = InHand(r) /\ Largest' = Largest
  BY <1>5 DEF InHand, Largest
<1>7. CutOf(r)' = cut
  <2>1. SeqLengths(InHand(r))' = SeqLengths(InHand(r))
    BY <1>5, <1>6 DEF SeqLengths
  <2> QED
    BY <1>3, <1>4, <2>1 DEF CutOf
<1>8. Planned(r)'
  <2>1. Len(InHand(r)) \in Nat /\ 0 \in 0..(k - 1)
    <3>1. mini[r] \in 0..(Minis - 1)
      BY <1>1, WithinMinis DEF TogetherInv
    <3>2. Len(InHand(r)) \in Nat
      BY <1>1, <3>1, HandSent DEF TogetherInv, CallState
    <3> QED
      BY <1>2, <3>2
  <2> QED
    BY <1>2, <1>4, <1>5, <1>6, <1>7, <2>1 DEF Planned
<1>9. OwnFits(r)'
  BY <1>1, <1>5, <1>6 DEF OwnFits, TogetherInv
<1>10. RankTypes'
  BY DEF CutMicroBatches, TogetherInv, RankTypes, Places
<1>11. PICK t \in Nat, v \in Nat : \E m \in 0..(Minis - 1) : AtCut(t, v, m) /\ ticks[r] = t
  BY <1>1, AllAtCut DEF TogetherInv
<1>12. PICK m \in 0..(Minis - 1) : AtCut(t, v, m) /\ ticks[r] = t
  BY <1>11
<1>13. \A q \in Ranks : pc[q] \in {"reduce", "forward"}
  BY <1>1, AllAtCut DEF TogetherInv
<1>14. AtCut(t, v, m)'
  <2>1. \A q \in Ranks : pc'[q] # "start"
    BY <1>5, <1>13
  <2>2. Len(plan'[r]) = Largest
    BY <1>2, <1>4
  <2> QED
    BY <1>5, <1>6, <1>12, <2>1, <2>2 DEF AtCut
<1> QED
  BY <1>0, <1>4, <1>5, <1>8, <1>9, <1>10, <1>14, RankKeeps DEF At

\* What a pass over a micro-batch has in common, with gradient or without.
Passed(r) ==
  /\ phase \in Calls /\ pc[r] = "forward" /\ AllHere(r)
  /\ micro' = [micro EXCEPT ![r] = @ + 1]
  /\ ticks' = [ticks EXCEPT ![r] = @ + 1]
  /\ pc' = [pc EXCEPT ![r] = IF micro[r] + 1 = Len(plan[r])
                             THEN IF phase = "update" THEN "optimize" ELSE "returned"
                             ELSE "forward"]
  /\ UNCHANGED <<driverVars, data, own, plan, mini, version>>

LEMMA PassKeeps ==
  ASSUME TogetherInv, NEW r \in Ranks, Rank(r), Passed(r), RankTypes'
  PROVE  TogetherInv'
<1>1. phase \in Calls /\ pc[r] = "forward" /\ AllHere(r) /\ plan[r] \in Seq(Seq(1..Count))
  BY PlanOf DEF Passed
<1>2. PICK k \in Nat \ {0} : k = Len(plan[r]) /\ micro[r] \in 0..(k - 1)
  <2>1. Len(plan[r]) \in 1..Len(InHand(r)) /\ micro[r] \in 0..(Len(plan[r]) - 1)
    BY <1>1 DEF TogetherInv, Planned
  <2>2. mini[r] \in 0..(Minis - 1)
    BY <1>1, WithinMinis DEF TogetherInv
  <2>3. Len(InHand(r)) \in Nat
    BY <1>1, <2>2, HandSent DEF TogetherInv, CallState
  <2> QED
    BY <2>1, <2>3
<1>3. /\ UNCHANGED <<full, phase, data, own, plan, mini, version>> /\ Minis' = Minis
      /\ pc'[r] = IF micro[r] + 1 = k THEN IF phase = "update" THEN "optimize" ELSE "returned"
                  ELSE "forward"
      /\ micro'[r] = micro[r] + 1 /\ ticks'[r] = ticks[r] + 1
      /\ \A q \in Ranks : q # r => /\ pc'[q] = pc[q] /\ ticks'[q] = ticks[q]
                                   /\ micro'[q] = micro[q]
  BY <1>2, DriverKept DEF Passed, TogetherInv, RankTypes, driverVars
<1>4. InHand(r)' = InHand(r) /\ CutOf(r)' = CutOf(r)
  BY <1>3 DEF InHand, CutOf, SeqLengths
<1>5. OwnFits(r)'
  BY <1>1, <1>3, <1>4 DEF OwnFits, TogetherInv
<1>6. Planned(r)'
  <2> SUFFICES ASSUME pc'[r] = "forward" PROVE Planned(r)'
    BY DEF Planned
  <2>1. micro'[r] \in 0..(Len(plan'[r]) - 1)
    BY <1>2, <1>3
  <2> QED
    BY <1>1, <1>3, <1>4, <2>1 DEF Planned, TogetherInv
<1>7. PICK t \in Nat, v \in Nat : \E m \in 0..(Minis - 1) : \E j, l \in Nat :
        AtPass(t, v, m, j, l) /\ ticks[r] = t /\ micro[r] = j /\ Len(plan[r]) = l
  BY <1>1, <1>2, AllAtPass DEF TogetherInv
<1>8. PICK m \in 0..(Minis - 1) : \E j, l \in Nat :
        AtPass(t, v, m, j, l) /\ ticks[r] = t /\ micro[r] = j /\ Len(plan[r]) = l
  BY <1>7
<1>9. PICK j \in Nat : AtPass(t, v, m, j, k) /\ ticks[r] = t /\ micro[r] = j
  BY <1>2, <1>8
<1>10. AtPass(t, v, m, j, k)'
  <2>1. j + 1 < k \/ j + 1 = k
    BY <1>2, <1>9
  <2> QED
    BY <1>2, <1>3, <1>9, <2>1 DEF AtPass
<1>11. k \in Nat /\ pc'[r] # "idle"
  BY <1>3
<1> QED
  BY <1>1, <1>3, <1>5, <1>6, <1>10, <1>11, RankKeeps DEF At

LEMMA ForwardKeeps ==
  ASSUME TogetherInv, NEW r \in Ranks, ForwardOnly(r)
  PROVE  TogetherInv'
<1>1. Rank(r)
  BY DEF Rank
<1>2. Passed(r)
  BY DEF ForwardOnly, Passed, Calls
<1>3. RankTypes'
  BY DEF ForwardOnly, TogetherInv, RankTypes, Places
<1> QED
  BY <1>1, <1>2, <1>3, PassKeeps

LEMMA BackwardKeeps ==
  ASSUME TogetherInv, NEW r \in Ranks, ForwardBackward(r)
  PROVE  TogetherInv'
<1>1. Rank(r)
  BY DEF Rank
<1>2. Passed(r)
  BY DEF ForwardBackward, Passed, Calls
<1>3. RankTypes'
  <2>1. notFinite' \in [Ranks -> BOOLEAN]
    BY DEF ForwardBackward, TogetherInv, RankTypes, BadGradient
  <2> QED
    BY <2>1, SMTT(30) DEF ForwardBackward, TogetherInv, RankTypes, Places
<1> QED
  BY <1>1, <1>2, <1>3, PassKeeps

LEMMA StepKeeps ==
  ASSUME TogetherInv, NEW r \in Ranks, OptimizerStep(r)
  PROVE  TogetherInv'
<1>0. Rank(r)
  BY DEF Rank
<1>1. phase \in Calls /\ pc[r] = "optimize" /\ AllHere(r) /\ plan[r] \in Seq(Seq(1..Count))
  BY PlanOf DEF OptimizerStep
<1>2. PICK t \in Nat, v \in Nat : \E m \in 0..(Minis - 1) :
        AtStep(t, v, m) /\ ticks[r] = t /\ mini[r] = m /\ version[r] = v
  BY <1>1, AllAtStep DEF TogetherInv
<1>3. PICK m \in 0..(Minis - 1) :
        AtStep(t, v, m) /\ ticks[r] = t /\ mini[r] = m /\ version[r] = v
  BY <1>2
<1>4. PICK minis \in Nat \ {0} : minis = Minis /\ Len(data[r]) = minis
  <2>1. mini[r] \in 0..(Minis - 1)
    BY <1>3
  <2>2. Len(data[r]) = Minis
    BY <1>1, <2>1, HandSent DEF TogetherInv, CallState
  <2>3. Minis \in Nat \ {0}
    BY <1>1, MiniNumbers DEF TogetherInv
  <2> QED
    BY <2>2, <2>3
<1>5. /\ UNCHANGED <<full, phase, data, own, plan, notFinite>> /\ Minis' = Minis
      /\ pc'[r] = IF m + 1 = minis THEN "returned" ELSE "start"
      /\ mini'[r] = m + 1 /\ ticks'[r] = t + 1 /\ version'[r] = NextVersion(v)
      /\ \A q \in Ranks : q # r => /\ pc'[q] = pc[q] /\ ticks'[q] = ticks[q]
                                   /\ mini'[q] = mini[q] /\ version'[q] = version[q]
  BY <1>0, <1>3, <1>4, DriverKept
  DEF OptimizerStep, NormNotFinite, NextVersion, TogetherInv, RankTypes, driverVars
<1>6. RankTypes'
  BY SMTT(30) DEF OptimizerStep, TogetherInv, RankTypes, Places
<1>7. OwnFits(r)' /\ Planned(r)'
  BY <1>5 DEF OwnFits, Planned
<1>8. AtStep(t, v, m)'
  <2>1. NextVersion(v)' = NextVersion(v)
    BY <1>5 DEF NextVersion
  <2>2. m + 1 = minis \/ m + 1 < minis
    BY <1>3, <1>4
  <2> QED
    BY <1>3, <1>4, <1>5, <2>1, <2>2 DEF AtStep
<1> QED
  BY <1>0, <1>1, <1>5, <1>6, <1>7, <1>8, RankKeeps DEF At
-----------------------------------------------------------------------------
(***************************************************************************)
(* The driver                                                              *)
(***************************************************************************)

\* When all ranks have returned, they have taken the same steps.
LEMMA ReturnedTogether ==
  ASSUME TogetherInv, phase \in Calls, AllReturned
  PROVE  \E v \in Nat : \A r \in Ranks : version[r] = v
<1>1. PICK t \in Nat, v \in Nat : \E m \in 0..(Minis - 1) : At(t, v, m)
  BY DEF TogetherInv, Lockstep
<1>2. PICK m \in 0..(Minis - 1) : At(t, v, m)
  BY <1>1
<1>3. 1 \in Ranks
  BY SizesAssumption DEF Ranks
<1>4. CASE AtCut(t, v, m)
  BY <1>3, <1>4 DEF AtCut, AllReturned
<1>5. CASE \E j, k \in Nat : AtPass(t, v, m, j, k)
  BY <1>5 DEF AtPass
<1>6. CASE AtStep(t, v, m)
  <2>1. \A r \in Ranks : version[r] = NextVersion(v)
    BY <1>6 DEF AtStep, AllReturned
  <2>2. NextVersion(v) \in Nat
    BY DEF NextVersion
  <2> QED
    BY <2>1, <2>2
<1> QED
  BY <1>2, <1>4, <1>5, <1>6 DEF At

\* Before a call and after it the optimizers have taken the same steps.
LEMMA SameVersion ==
  ASSUME TogetherInv, phase \notin Calls \/ AllReturned
  PROVE  \E v \in Nat : \A r \in Ranks : version[r] = v
  BY ReturnedTogether DEF TogetherInv, Lockstep

LEMMA CallKeeps ==
  ASSUME TogetherInv, phase \notin {"next", "rollout"}, phase \notin Calls \/ AllReturned,
         NEW name \in Calls, Call(name), badForward' \in BOOLEAN,
         UNCHANGED <<config, steps, batch, full, version>>
  PROVE  TogetherInv'
<1>1. phase' = name /\ Count' = Count
  BY DEF Call, Count
<1>2. Shape'
  BY <1>1 DEF TogetherInv, Shape, BatchLoaded, FullJoined, Calls, Phases
<1>3. DataSent'
  BY Dispatched DEF TogetherInv
<1>4. /\ pc' = [r \in Ranks |-> "start"] /\ ticks' = Zero /\ mini' = Zero /\ micro' = Zero
      /\ own' = Zero /\ plan' = [r \in Ranks |-> << >>] /\ results' = [r \in Ranks |-> << >>]
      /\ notFinite' = [r \in Ranks |-> FALSE]
  BY DEF Call, ResetCall
<1>5. RankTypes'
  BY <1>4 DEF RankTypes, TogetherInv, Zero, Places
<1>6. PICK v \in Nat : \A r \in Ranks : version[r] = v
  BY SameVersion
<1>7. AtCut(0, v, 0)'
  BY <1>4, <1>6 DEF AtCut, Zero
<1>8. Lockstep'
  <2>1. PICK minis \in Nat \ {0} : minis = Minis'
    <3>1. Minis' \in Nat \ {0}
      <4>1. phase # "next"
        OBVIOUS
      <4>2. Size \in Nat \ {0} /\ Size' = Size
        BY <1>1, <4>1, BatchNumbers DEF TogetherInv, Size
      <4>3. Width' \in Nat \ {0}
        BY <4>2, ConfigNumbers DEF Width, TogetherInv, Shape
      <4>4. CeilDiv(Size', Width') \in Nat \ {0}
        BY <4>2, <4>3, WidthParts
      <4> QED
        BY <4>4 DEF Minis
    <3> QED
      BY <3>1
  <2>2. 0 \in 0..(Minis' - 1)
    <3>1. 0 \in 0..(minis - 1)
      OBVIOUS
    <3> QED
      BY <2>1, <3>1
  <2> QED
    BY <1>1, <1>7, <2>2 DEF Lockstep, At
<1>9. Plans' /\ CallState'
  BY <1>1, <1>3, <1>4 DEF Plans, CallState
<1>10. \A r \in Ranks : OwnFits(r)' /\ Planned(r)'
  BY <1>4 DEF OwnFits, Planned
<1> QED
  BY <1>2, <1>5, <1>8, <1>9, <1>10 DEF TogetherInv

LEMMA ProceedKeeps ==
  ASSUME TogetherInv, phase \in Calls, AllReturned,
         NEW name \in {"advantage", "end"}, Proceed(name), badForward' \in BOOLEAN,
         UNCHANGED <<config, steps, batch, full, version>>
  PROVE  TogetherInv'
<1>1. phase' = name /\ Count' = Count
  BY DEF Proceed, Count
<1>2. Shape'
  BY <1>1 DEF TogetherInv, Shape, BatchLoaded, FullJoined, Calls, Phases
<1>4. /\ pc' = Idle /\ ticks' = Zero /\ mini' = Zero /\ micro' = Zero
      /\ own' = Zero /\ plan' = [r \in Ranks |-> << >>] /\ results' = [r \in Ranks |-> << >>]
      /\ notFinite' = [r \in Ranks |-> FALSE]
  BY DEF Proceed, ResetCall
<1>5. RankTypes'
  BY <1>4 DEF RankTypes, TogetherInv, Zero, Idle, Places
<1>6. \E v \in Nat : \A r \in Ranks : version[r] = v
  BY SameVersion
<1>7. Lockstep'
  BY <1>1, <1>6 DEF Lockstep, Calls
<1>8. Plans' /\ CallState'
  BY <1>1, <1>4 DEF Plans, CallState, Calls, Idle, Zero
<1>9. \A r \in Ranks : OwnFits(r)' /\ Planned(r)'
  BY <1>4 DEF OwnFits, Planned, Idle
<1> QED
  BY <1>2, <1>5, <1>7, <1>8, <1>9 DEF TogetherInv

\* A step of the driver between calls.
LEMMA QuietKeeps ==
  ASSUME TogetherInv, phase \notin Calls, phase' \notin Calls, Shape',
         UNCHANGED <<callVars, version>>
  PROVE  TogetherInv'
<1>1. RankTypes'
  BY DEF RankTypes, TogetherInv, callVars
<1>2. \A r \in Ranks : pc'[r] = "idle" /\ plan'[r] = << >> /\ mini'[r] = 0
  BY DEF TogetherInv, CallState, callVars
<1>3. CallState' /\ Lockstep' /\ Plans'
  BY <1>2 DEF CallState, Lockstep, Plans, TogetherInv
<1>4. \A r \in Ranks : OwnFits(r)' /\ Planned(r)'
  BY <1>2 DEF OwnFits, Planned
<1> QED
  BY <1>1, <1>3, <1>4 DEF TogetherInv

LEMMA DriverKeeps ==
  ASSUME TogetherInv, LoadPrompts \/ Driver
  PROVE  TogetherInv'
<1>1. CASE LoadPrompts
  <2>1. Shape'
    <3>1. config \in Configs /\ steps' \in 0..MaxSteps /\ badForward' \in BOOLEAN /\ full' = << >>
      BY <1>1, SizesAssumption DEF LoadPrompts, TogetherInv, Shape
    <3>2. BatchLoaded'
      BY <1>1 DEF LoadPrompts, BatchLoaded
    <3> QED
      BY <1>1, <3>1, <3>2 DEF LoadPrompts, Shape, Phases
  <2> QED
    BY <1>1, <2>1, QuietKeeps DEF LoadPrompts, Calls
<1>2. CASE Generate
  <2>1. version[1] \in Nat
    BY SizesAssumption DEF TogetherInv, RankTypes, Ranks
  <2>2. Shape /\ Count' = Count /\ config' = config /\ batch' = batch
    BY <1>2 DEF TogetherInv, Generate, Count
  <2>3. FullJoined'
    BY <1>2, <2>1, <2>2, JoinedRows DEF FullJoined
  <2>4. Shape'
    <3>1. /\ phase = "rollout" /\ phase' = "reward" /\ steps' = steps
          /\ badForward' = badForward
      BY <1>2 DEF Generate
    <3>2. BatchLoaded'
      BY <2>2, <3>1 DEF Shape, BatchLoaded
    <3>3. config \in Configs /\ steps \in 0..MaxSteps /\ badForward \in BOOLEAN
      BY <2>2 DEF Shape
    <3> QED
      BY <2>2, <2>3, <3>1, <3>2, <3>3 DEF Shape, Phases
  <2> QED
    BY <1>2, <2>4, QuietKeeps DEF Generate, Calls
<1>3. CASE ScoreBatch
  <2>1. badForward' \in BOOLEAN
    BY <1>3 DEF ScoreBatch, TogetherInv, Shape
  <2> QED
    BY <1>3, <2>1, CallKeeps DEF ScoreBatch, Calls
<1>4. CASE RewardRaises
  <2>1. Shape'
    <3>1. FullJoined'
      BY <1>4 DEF RewardRaises, TogetherInv, Shape, FullJoined, Count
    <3> QED
      BY <1>4, <3>1 DEF RewardRaises, TogetherInv, Shape, BatchLoaded, Phases
  <2> QED
    BY <1>4, <2>1, QuietKeeps DEF RewardRaises, Calls
<1>5. CASE CollectLogProbs
  <2>1. badForward' \in BOOLEAN
    BY <1>5 DEF CollectLogProbs
  <2>2. CASE config.useKl
    <3>1. Call("ref")
      BY <1>5, <2>2 DEF CollectLogProbs
    <3> QED
      BY <1>5, <2>1, <3>1, CallKeeps DEF CollectLogProbs, Calls
  <2>3. CASE ~config.useKl
    <3>1. Proceed("advantage")
      BY <1>5, <2>3 DEF CollectLogProbs
    <3> QED
      BY <1>5, <2>1, <3>1, ProceedKeeps DEF CollectLogProbs, Calls
  <2> QED
    BY <2>2, <2>3
<1>6. CASE CollectRefLogProbs
  <2>1. badForward' \in BOOLEAN
    BY <1>6 DEF CollectRefLogProbs, TogetherInv, Shape
  <2> QED
    BY <1>6, <2>1, ProceedKeeps DEF CollectRefLogProbs, Calls
<1>7. CASE ComputeAdvantages
  <2>1. badForward' \in BOOLEAN /\ Shape
    BY <1>7 DEF ComputeAdvantages, TogetherInv, Shape
  <2>2. CASE badForward
    <3>1. Shape'
      <4>1. FullJoined'
        BY <1>7, <2>1 DEF ComputeAdvantages, Shape, FullJoined, Count
      <4> QED
        BY <1>7, <2>1, <2>2, <4>1 DEF ComputeAdvantages, Shape, BatchLoaded, Phases
    <3> QED
      BY <1>7, <2>2, <3>1, QuietKeeps DEF ComputeAdvantages, Calls
  <2>3. CASE ~badForward
    <3>1. Call("update")
      BY <1>7, <2>3 DEF ComputeAdvantages
    <3> QED
      BY <1>7, <2>1, <3>1, CallKeeps DEF ComputeAdvantages, Calls
  <2> QED
    BY <2>2, <2>3
<1>8. CASE CollectUpdate
  <2>1. badForward' \in BOOLEAN
    BY <1>8 DEF CollectUpdate, TogetherInv, Shape
  <2> QED
    BY <1>8, <2>1, ProceedKeeps DEF CollectUpdate, Calls
<1>9. CASE EndStep
  <2>1. Shape'
    BY <1>9 DEF EndStep, TogetherInv, Shape, Phases
  <2> QED
    BY <1>9, <2>1, QuietKeeps DEF EndStep, Calls
<1> QED
  BY <1>1, <1>2, <1>3, <1>4, <1>5, <1>6, <1>7, <1>8, <1>9 DEF Driver

-----------------------------------------------------------------------------
(***************************************************************************)
(* The ranks stay together                                                 *)
(***************************************************************************)

LEMMA TogetherStart ==
  ASSUME Init
  PROVE  TogetherInv
<1>1. Shape
  <2>1. /\ config \in Configs /\ steps = 0 /\ phase = "next" /\ badForward = FALSE
        /\ batch = << >> /\ full = << >>
    BY DEF Init
  <2>2. 0 \in 0..MaxSteps
    BY SizesAssumption
  <2> QED
    BY <2>1, <2>2 DEF Shape, Phases
<1>2. RankTypes
  BY DEF Init, RankTypes, Idle, Zero, Places
<1>3. CallState /\ Plans
  BY DEF Init, CallState, Plans, Calls, Idle, Zero
<1>4. Lockstep
  BY DEF Init, Lockstep, Calls, Zero
<1>5. \A r \in Ranks : OwnFits(r) /\ Planned(r)
  BY DEF Init, OwnFits, Planned, Idle
<1> QED
  BY <1>1, <1>2, <1>3, <1>4, <1>5 DEF TogetherInv

LEMMA TogetherStep ==
  ASSUME TogetherInv, [Next]_vars
  PROVE  TogetherInv'
<1>1. ASSUME NEW r \in Ranks, Rank(r) PROVE TogetherInv'
  BY <1>1, CountKeeps, CutKeeps, ForwardKeeps, BackwardKeeps, StepKeeps DEF Rank
<1>2. CASE UNCHANGED vars
  <2>1. /\ UNCHANGED <<config, steps, phase, batch, full, badForward>> /\ version' = version
        /\ UNCHANGED <<pc, ticks, data, own, plan, micro, mini, results, notFinite>>
    BY <1>2 DEF vars, driverVars, callVars
  <2>2. Count' = Count /\ Size' = Size /\ Width' = Width /\ Minis' = Minis
    BY <2>1 DEF Count, Size, Width, Minis
  <2>3. Shape'
    BY <2>1, <2>2 DEF Shape, BatchLoaded, FullJoined, TogetherInv
  <2>4. RankTypes' /\ Plans'
    BY <2>1 DEF RankTypes, Plans, TogetherInv
  <2>5. CallState'
    BY <2>1, <2>2 DEF CallState, DataSent, Sent, RowOf, TogetherInv
  <2>6. Lockstep'
    <3>1. Largest' = Largest
      BY <2>1 DEF Largest
    <3>2. ASSUME NEW t, NEW v, NEW m, At(t, v, m) PROVE At(t, v, m)'
      <4>1. AtCut(t, v, m) => AtCut(t, v, m)'
        BY <2>1, <3>1 DEF AtCut
      <4>2. \A j, k \in Nat : AtPass(t, v, m, j, k) => AtPass(t, v, m, j, k)'
        BY <2>1 DEF AtPass
      <4>3. AtStep(t, v, m) => AtStep(t, v, m)'
        BY <2>1, <2>2 DEF AtStep, NextVersion
      <4> QED
        BY <3>2, <4>1, <4>2, <4>3 DEF At
    <3>3. Lockstep
      BY DEF TogetherInv
    <3>4. CASE phase \in Calls
      <4>1. PICK t \in Nat, v \in Nat : \E m \in 0..(Minis - 1) : At(t, v, m)
        BY <3>3, <3>4 DEF Lockstep
      <4>2. PICK m \in 0..(Minis - 1) : At(t, v, m)
        BY <4>1
      <4>3. At(t, v, m)'
        BY <3>2, <4>2
      <4> QED
        BY <2>1, <2>2, <3>4, <4>3 DEF Lockstep
    <3>5. CASE phase \notin Calls
      BY <2>1, <3>3, <3>5 DEF Lockstep
    <3> QED
      BY <3>4, <3>5
  <2>7. ASSUME NEW r \in Ranks PROVE OwnFits(r)' /\ Planned(r)'
    <3>1. InHand(r)' = InHand(r)
      BY <2>1 DEF InHand
    <3>2. CutOf(r)' = CutOf(r)
      BY <2>1, <3>1 DEF CutOf, SeqLengths
    <3> QED
      BY <2>1, <3>1, <3>2 DEF OwnFits, Planned, TogetherInv
  <2> QED
    BY <2>3, <2>4, <2>5, <2>6, <2>7 DEF TogetherInv
<1> QED
  BY <1>1, <1>2, DriverKeeps DEF Next

\* The inductive invariant.
THEOREM Together == Spec => []TogetherInv
  BY TogetherStart, TogetherStep, PTL DEF Spec

\* Types, for every configuration, batch, number of ranks and of steps.
THEOREM TypeCorrect == Spec => []TypeOK
<1>1. TogetherInv => TypeOK
  <2> SUFFICES ASSUME TogetherInv PROVE TypeOK
    OBVIOUS
  <2>1. Len(full) \in {0, config.n * Len(batch)}
    BY FullLength DEF TogetherInv, Count
  <2>2. ASSUME NEW r \in Ranks, NEW m \in 1..Len(plan[r]), NEW k \in 1..Len(plan[r][m])
        PROVE  plan[r][m][k] \in Rows
    BY DEF TogetherInv, Plans, Rows
  <2> QED
    BY <2>1, <2>2 DEF TypeOK, TogetherInv, Shape, RankTypes, Phases, Places
<1> QED
  BY <1>1, Together, PTL

\* The optimizers of the ranks take the same steps: no rank is more than one
\* mini-batch ahead of another, and those at the same mini-batch have the same
\* weights.
LEMMA LockstepAgrees ==
  ASSUME TogetherInv
  PROVE  ReplicasAgree
<1>1. CASE phase \notin Calls
  <2>1. \A r \in Ranks : mini[r] = 0
    BY <1>1 DEF TogetherInv, CallState
  <2>2. \E v \in Nat : \A r \in Ranks : version[r] = v
    BY <1>1, SameVersion
  <2> QED
    BY <2>1, <2>2 DEF ReplicasAgree
<1>2. CASE phase \in Calls
  <2>1. PICK t \in Nat, v \in Nat : \E m \in 0..(Minis - 1) : At(t, v, m)
    BY <1>2 DEF TogetherInv, Lockstep
  <2>2. PICK m \in 0..(Minis - 1) : At(t, v, m)
    BY <2>1
  <2>3. PICK next \in {v, v + 1} : next = NextVersion(v)
    BY DEF NextVersion
  <2>4. \A r \in Ranks : \/ mini[r] = m /\ version[r] = v
                         \/ mini[r] = m + 1 /\ version[r] = next
    BY <2>2, <2>3 DEF At, AtCut, AtPass, AtStep
  <2> QED
    BY <2>3, <2>4 DEF ReplicasAgree
<1> QED
  BY <1>1, <1>2
-----------------------------------------------------------------------------
(***************************************************************************)
(* What the ranks have done of their rows                                  *)
(***************************************************************************)

Firsts(list, n) == [i \in 1..n |-> list[i]]
After(list, a, b) == [j \in 1..b |-> list[a + j]]

LEMMA FirstsAndMore ==
  ASSUME NEW S, NEW list \in Seq(S), NEW a \in Nat, NEW b \in Nat, a + b <= Len(list)
  PROVE  Firsts(list, a) \o After(list, a, b) = Firsts(list, a + b)
<1>c. PICK more : more = After(list, a, b)
  OBVIOUS
<1>0. PICK n \in Nat : /\ n = Len(list) /\ list \in [1..n -> S] /\ a + b <= n
                       /\ more = After(list, a, b)
  <2>1. list \in [1..Len(list) -> S] /\ Len(list) \in Nat
    BY Entries
  <2> QED
    BY <1>c, <2>1
<1>1. Firsts(list, a) \in Seq(S) /\ Len(Firsts(list, a)) = a
      /\ \A i \in 1..a : Firsts(list, a)[i] = list[i]
  <2>1. \A i \in 1..a : list[i] \in S
    BY <1>0
  <2> QED
    BY <2>1 DEF Firsts
<1>2. more \in Seq(S) /\ Len(more) = b /\ \A j \in 1..b : more[j] = list[a + j]
  <2>1. \A j \in 1..b : list[a + j] \in S
    BY <1>0
  <2> QED
    BY <1>0, <2>1 DEF After
<1>3. PICK both : both = Firsts(list, a) \o more
  OBVIOUS
<1>4. /\ both \in Seq(S) /\ Len(both) = a + b
      /\ \A i \in 1..a : both[i] = list[i]
      /\ \A j \in 1..b : both[a + j] = list[a + j]
  <2>1. PICK f \in Seq(S) : f = Firsts(list, a)
    BY <1>1
  <2>2. /\ f \o more \in Seq(S) /\ Len(f \o more) = Len(f) + Len(more)
        /\ \A i \in 1..Len(f) : (f \o more)[i] = f[i]
        /\ \A j \in 1..Len(more) : (f \o more)[Len(f) + j] = more[j]
    <3>1. more \in Seq(S)
      BY <1>2
    <3> QED
      BY <3>1, PlacesOfBoth
  <2> QED
    BY <1>1, <1>2, <1>3, <2>1, <2>2
<1>5. \A i \in 1..(a + b) : both[i] = list[i]
  <2> SUFFICES ASSUME NEW i \in 1..(a + b) PROVE both[i] = list[i]
    OBVIOUS
  <2>1. i \in 1..a \/ (i - a \in 1..b /\ a + (i - a) = i)
    OBVIOUS
  <2> QED
    BY <1>4, <2>1
<1>6. both = [i \in 1..(a + b) |-> both[i]]
  BY <1>4
<1> QED
  BY <1>0, <1>3, <1>5, <1>6 DEF Firsts

\* The micro-batches follow each other in the order that they make together.
PartsFollow(n, k, cut, order) ==
  /\ Before(cut, 1) = 0
  /\ \A m \in 1..k :
       /\ Before(cut, m) \in Nat /\ Len(cut[m]) \in Nat
       /\ Before(cut, m) + Len(cut[m]) <= n
       /\ \A j \in 1..Len(cut[m]) : order[Before(cut, m) + j] = cut[m][j] /\ cut[m][j] \in 1..n
       /\ IF m = k THEN Before(cut, m) + Len(cut[m]) = n
          ELSE Before(cut, m + 1) = Before(cut, m) + Len(cut[m])

LEMMA CutFollows ==
  ASSUME NEW n \in Nat \ {0}, NEW k \in 1..n, NEW cut, ShareRows(n, k, cut)
  PROVE  OnePlaceEach(n, FlattenSeq(cut)) /\ PartsFollow(n, k, cut, FlattenSeq(cut))
<1>1. cut \in Seq(Seq(1..n)) /\ Len(cut) = k /\ cut # << >>
  <2>1. cut \in [1..k -> Seq(1..n)]
    BY DEF ShareRows
  <2>2. cut \in Seq(Seq(1..n)) /\ Len(cut) = k
    BY <2>1
  <2> QED
    BY <2>2
<1>2. \A m \in 1..k : cut[m] \in Seq(1..n) /\ cut[m] # << >>
  <2>1. cut \in [1..k -> Seq(1..n)] /\ k <= n
    BY DEF ShareRows
  <2>2. \A m \in 1..k : cut[m] \in Seq(1..n)
    BY <2>1
  <2>3. \A m \in 1..k : cut[m] # << >>
    BY <2>1 DEF ShareRows
  <2> QED
    BY <2>2, <2>3
<1>3. OnePlaceEach(n, FlattenSeq(cut))
  BY JoinedOnce
<1>4. PICK order : order = FlattenSeq(cut) /\ Concat(cut) = order /\ Len(order) = n
  BY <1>3 DEF Concat, OnePlaceEach
<1>5. /\ n = Before(cut, k) + Len(cut[k])
      /\ \A m \in 1..k : Before(cut, m) \in Nat
      /\ \A m \in 1..k : \A j \in 1..Len(cut[m]) :
           /\ Before(cut, m) + j \in 1..n
           /\ order[Before(cut, m) + j] = cut[m][j]
  <2>1. /\ Len(Concat(cut)) = Before(cut, Len(cut)) + Len(cut[Len(cut)])
        /\ \A m \in 1..Len(cut) : Before(cut, m) \in Nat
        /\ \A m \in 1..Len(cut) : \A j \in 1..Len(cut[m]) :
             /\ Before(cut, m) + j \in 1..Len(Concat(cut))
             /\ Concat(cut)[Before(cut, m) + j] = cut[m][j]
    BY <1>1, ConcatPlaces, ZenonT(30)
  <2> QED
    BY <1>1, <1>4, <2>1
<1>6. Before(cut, 1) = 0
  BY DEF Before
<1>7. ASSUME NEW m \in 1..k
      PROVE  /\ Before(cut, m) \in Nat /\ Len(cut[m]) \in Nat
             /\ Before(cut, m) + Len(cut[m]) <= n
             /\ \A j \in 1..Len(cut[m]) : order[Before(cut, m) + j] = cut[m][j]
                                          /\ cut[m][j] \in 1..n
             /\ IF m = k THEN Before(cut, m) + Len(cut[m]) = n
                ELSE Before(cut, m + 1) = Before(cut, m) + Len(cut[m])
  <2>1. PICK part \in Seq(1..n) : part = cut[m] /\ part # << >>
    BY <1>2
  <2>2. PICK l \in Nat \ {0} : l = Len(part) /\ l \in 1..l /\ \A j \in 1..l : part[j] \in 1..n
    <3>1. Len(part) \in Nat \ {0} /\ \A j \in 1..Len(part) : part[j] \in 1..n
      BY <2>1
    <3>2. Len(part) \in 1..Len(part)
      BY <3>1
    <3> QED
      BY <3>1, <3>2
  <2>3. Before(cut, m) + l \in 1..n
    BY <1>5, <2>1, <2>2
  <2>4. m # k => Before(cut, m + 1) = Before(cut, m) + Len(cut[m])
    <3>1. m # k => m \in Nat \ {0} /\ m + 1 \in 1..Len(cut)
      BY <1>1
    <3> QED
      BY <1>1, <3>1, BeforeNext
  <2> QED
    BY <1>5, <2>1, <2>2, <2>3, <2>4, SMTT(30)
<1> QED
  BY <1>3, <1>4, <1>6, <1>7 DEF PartsFollow

\* The micro-batch a rank is at.
LEMMA MicroInHand ==
  ASSUME TogetherInv, NEW r \in Ranks, pc[r] = "forward"
  PROVE  /\ phase \in Calls /\ mini[r] \in 0..(Minis - 1)
         /\ Len(InHand(r)) \in Nat \ {0} /\ Len(plan[r]) \in 1..Len(InHand(r))
         /\ micro[r] + 1 \in 1..Len(plan[r])
         /\ ShareRows(Len(InHand(r)), Len(plan[r]), CutOf(r))
         /\ OnePlaceEach(Len(InHand(r)), FlattenSeq(CutOf(r)))
         /\ PartsFollow(Len(InHand(r)), Len(plan[r]), CutOf(r), FlattenSeq(CutOf(r)))
         /\ InHand(r) \in [1..Len(InHand(r)) -> 1..Count]
         /\ \A m \in 1..Len(plan[r]) :
              plan[r][m] = PartAt(InHand(r), CutOf(r)[m])
<1>1. phase \in Calls
  BY PlanOf
<1>2. mini[r] \in 0..(Minis - 1)
  BY <1>1, WithinMinis DEF TogetherInv
<1>3. InHand(r) \in Seq(1..Count) /\ Len(InHand(r)) \in Nat \ {0}
  BY <1>1, <1>2, HandSent DEF TogetherInv, CallState
<1>4. PICK n \in Nat \ {0} : n = Len(InHand(r))
  BY <1>3
<1>5. /\ Len(plan[r]) \in 1..n /\ micro[r] \in 0..(Len(plan[r]) - 1)
      /\ ShareRows(n, Len(plan[r]), CutOf(r))
      /\ plan[r] = RowsAt(InHand(r), CutOf(r), Len(plan[r]))
  BY <1>4 DEF TogetherInv, Planned
<1>6. PICK k \in 1..n : k = Len(plan[r])
  BY <1>5
<1>7. micro[r] + 1 \in 1..k
  BY <1>5, <1>6
<1>8. /\ OnePlaceEach(n, FlattenSeq(CutOf(r)))
      /\ PartsFollow(n, k, CutOf(r), FlattenSeq(CutOf(r)))
  BY <1>5, <1>6, CutFollows
<1>9. InHand(r) \in [1..n -> 1..Count]
  BY <1>3, <1>4, Entries
<1>10. \A m \in 1..k : plan[r][m] = PartAt(InHand(r), CutOf(r)[m])
  BY <1>5, <1>6 DEF RowsAt
<1> QED
  BY <1>1, <1>2, <1>4, <1>5, <1>6, <1>7, <1>8, <1>9, <1>10

\* What a rank computes of its rows, in the order of the micro-batches.
LogProbs == [row : Nat, policy : Nat, finite : BOOLEAN]
LogProbsInOrder(r) ==
  [i \in 1..Len(InHand(r)) |-> LogProb(r, InHand(r)[FlattenSeq(CutOf(r))[i]])]

\* The log-probs a rank has: those of the micro-batches it has done, and in the
\* end those of its rows, in their order.
LogResults(r) ==
  phase \in {"logprob", "ref"} =>
    /\ pc[r] \in {"start", "reduce"} => results[r] = << >>
    /\ pc[r] = "forward" =>
         results[r] = Firsts(LogProbsInOrder(r), Before(CutOf(r), micro[r] + 1))
    /\ pc[r] = "returned" => results[r] = [p \in 1..Size |-> LogProb(r, RowOf(r, p))]

LEMMA LogProbTyped ==
  ASSUME TogetherInv, NEW r \in Ranks, NEW i \in 1..Count
  PROVE  LogProb(r, i) \in LogProbs
<1>1. version[r] \in Nat /\ i \in Nat
  <2>1. Count \in Int => i \in Nat
    OBVIOUS
  <2> QED
    BY DEF TogetherInv, RankTypes
<1>2. PICK row, policy, finite :
        /\ row = i /\ finite = (full[i].outcome.badIn /= phase)
        /\ policy = IF phase = "ref" THEN 0 ELSE version[r]
  OBVIOUS
<1>3. LogProb(r, i) = [row |-> row, policy |-> policy, finite |-> finite]
  BY <1>2 DEF LogProb
<1>4. row \in Nat /\ policy \in Nat /\ finite \in BOOLEAN
  BY <1>1, <1>2
<1> QED
  BY <1>3, <1>4 DEF LogProbs

\* In the calls for log-probs a rank has its whole chunk in hand.
LEMMA ChunkInHand ==
  ASSUME TogetherInv, NEW r \in Ranks, phase \in {"logprob", "ref"}, mini[r] \in 0..(Minis - 1)
  PROVE  /\ Len(InHand(r)) = Size /\ Size \in Nat \ {0}
         /\ \A p \in 1..Size : InHand(r)[p] = RowOf(r, p)
<1>1. phase \in Calls /\ Shape /\ DataSent
  BY DEF Calls, TogetherInv, CallState
<1>2. PICK size \in Nat \ {0} : size = Size /\ Minis = 1 /\ PartsOfWidth(size, Width, 1)
  BY <1>1, MiniNumbers
<1>3. mini[r] + 1 = 1 /\ 1 \in 1..Minis /\ 1 \in 1..1
  BY <1>2
<1>4. Skipped(1, Width) = 0 /\ PartLength(size, Width, 1) = size
  BY <1>2, <1>3 DEF PartsOfWidth
<1>5. InHand(r) = Sent(r, 1)
  BY <1>1, <1>3, HandSent
<1>6. /\ Len(Sent(r, 1)) = PartLength(Size, Width, 1)
      /\ \A j \in 1..Len(Sent(r, 1)) : Sent(r, 1)[j] = RowOf(r, Skipped(1, Width) + j)
  BY <1>1, <1>3, SentRows
<1>7. \A j \in 1..size : 0 + j = j
  OBVIOUS
<1> QED
  BY <1>2, <1>4, <1>5, <1>6, <1>7

LEMMA SameLogs ==
  ASSUME NEW q \in Ranks, UNCHANGED <<full, phase>>, data' = data, version'[q] = version[q],
         mini'[q] = mini[q], plan'[q] = plan[q]
  PROVE  /\ \A i : LogProb(q, i)' = LogProb(q, i)
         /\ InHand(q)' = InHand(q) /\ CutOf(q)' = CutOf(q)
         /\ LogProbsInOrder(q)' = LogProbsInOrder(q)
<1>1. \A i : LogProb(q, i)' = LogProb(q, i)
  BY DEF LogProb
<1>2. InHand(q)' = InHand(q)
  BY DEF InHand
<1>3. SeqLengths(InHand(q))' = SeqLengths(InHand(q))
  BY <1>2 DEF SeqLengths
<1>4. CutOf(q)' = CutOf(q)
  BY <1>3 DEF CutOf
<1>5. LogProbsInOrder(q)' = LogProbsInOrder(q)
  BY <1>2, <1>4 DEF LogProbsInOrder, LogProb
<1> QED
  BY <1>1, <1>2, <1>4, <1>5

\* A rank that is left alone keeps what it has.
LEMMA LogsKept ==
  ASSUME TogetherInv, NEW r \in Ranks, Rank(r), NEW q \in Ranks, q # r, LogResults(q)
  PROVE  LogResults(q)'
<1>1. Kept(q)
  BY OthersKept DEF TogetherInv
<1>2. UNCHANGED <<full, phase>> /\ data' = data /\ Size' = Size
  BY DriverKept DEF driverVars
<1>3. /\ \A i : LogProb(q, i)' = LogProb(q, i)
      /\ CutOf(q)' = CutOf(q) /\ LogProbsInOrder(q)' = LogProbsInOrder(q)
  BY <1>1, <1>2, SameLogs DEF Kept
<1>4. \A p : RowOf(q, p)' = RowOf(q, p)
  BY <1>2 DEF RowOf
<1>5. [p \in 1..Size |-> LogProb(q, RowOf(q, p))]' = [p \in 1..Size |-> LogProb(q, RowOf(q, p))]
  BY <1>2, <1>3, <1>4 DEF LogProb
<1> QED
  BY <1>1, <1>2, <1>3, <1>5 DEF LogResults, Kept

\* What is computed of the micro-batch that a rank is at comes after what it
\* has.
LEMMA MicroLogs ==
  ASSUME TogetherInv, NEW r \in Ranks, pc[r] = "forward", phase \in {"logprob", "ref"},
         LogResults(r), NEW rows, rows = plan[r][micro[r] + 1]
  PROVE  /\ Len(rows) = Len(CutOf(r)[micro[r] + 1])
         /\ results[r] \o [j \in 1..Len(rows) |-> LogProb(r, rows[j])]
              = Firsts(LogProbsInOrder(r),
                       Before(CutOf(r), micro[r] + 1) + Len(CutOf(r)[micro[r] + 1]))
<1>0. PICK cut : cut = CutOf(r)
  OBVIOUS
<1>1. PICK n \in Nat \ {0} : n = Len(InHand(r)) /\ cut = CutOf(r)
  BY <1>0, MicroInHand
<1>2. PICK k \in 1..n : k = Len(plan[r])
  BY <1>1, MicroInHand
<1>3. PICK m \in 1..k : m = micro[r] + 1
  BY <1>2, MicroInHand
<1>4. PICK order : /\ order = FlattenSeq(cut) /\ OnePlaceEach(n, order)
                   /\ PartsFollow(n, k, cut, order)
  BY <1>1, <1>2, MicroInHand
<1>5. rows = PartAt(InHand(r), cut[m])
  <2>1. \A i \in 1..k : plan[r][i] = PartAt(InHand(r), cut[i])
    BY <1>1, <1>2, MicroInHand
  <2>2. rows = plan[r][m]
    BY <1>3
  <2> QED
    BY <2>1, <2>2
<1>6. PICK b \in Nat, l \in Nat :
        /\ b = Before(cut, m) /\ l = Len(cut[m]) /\ b + l <= n
        /\ \A j \in 1..l : order[b + j] = cut[m][j] /\ cut[m][j] \in 1..n
  BY <1>4 DEF PartsFollow
<1>7. Len(rows) = l /\ \A j \in 1..l : rows[j] = InHand(r)[cut[m][j]]
  BY <1>5, <1>6 DEF PartAt
<1>8. PICK all : all = LogProbsInOrder(r)
  OBVIOUS
<1>9. /\ all = [i \in 1..n |-> all[i]]
      /\ \A i \in 1..n : all[i] = LogProb(r, InHand(r)[order[i]])
  BY <1>1, <1>4, <1>8 DEF LogProbsInOrder
<1>10. all \in [1..n -> LogProbs]
  <2>1. InHand(r) \in [1..n -> 1..Count]
    BY <1>1, MicroInHand
  <2>2. \A i \in 1..n : order[i] \in 1..n
    <3>1. order \in [1..n -> 1..n]
      BY <1>4, Entries DEF OnePlaceEach
    <3> QED
      BY <3>1
  <2>3. \A i \in 1..n : InHand(r)[order[i]] \in 1..Count
    BY <2>1, <2>2
  <2>4. \A i \in 1..n : LogProb(r, InHand(r)[order[i]]) \in LogProbs
    BY <2>3, LogProbTyped
  <2> QED
    BY <1>9, <2>4
<1>11. PICK more : more = [j \in 1..l |-> LogProb(r, rows[j])]
  OBVIOUS
<1>12. more = After(all, b, l)
  <2>1. \A j \in 1..l : LogProb(r, rows[j]) = all[b + j]
    <3> SUFFICES ASSUME NEW j \in 1..l PROVE LogProb(r, rows[j]) = all[b + j]
      OBVIOUS
    <3>1. b + j \in 1..n /\ order[b + j] = cut[m][j]
      BY <1>6
    <3> QED
      BY <1>7, <1>9, <3>1
  <2> QED
    BY <1>11, <2>1 DEF After
<1>13. results[r] = Firsts(all, b)
  BY <1>1, <1>3, <1>6, <1>8 DEF LogResults
<1>14. Firsts(all, b) \o more = Firsts(all, b + l)
  <2>1. b + l <= n
    BY <1>6
  <2>2. all \in Seq(LogProbs) /\ Len(all) = n
    BY <1>10
  <2>3. Firsts(all, b) \o After(all, b, l) = Firsts(all, b + l)
    BY <2>1, <2>2, FirstsAndMore
  <2> QED
    BY <1>12, <2>3
<1> QED
  BY <1>1, <1>3, <1>6, <1>7, <1>8, <1>11, <1>13, <1>14

\* restore_dynamic_batch is given the places of the rows in hand.
PlacesOf(r) ==
  [m \in 1..Len(plan[r]) |->
     [k \in 1..Len(plan[r][m]) |->
        CHOOSE p \in 1..Len(InHand(r)) : InHand(r)[p] = plan[r][m][k]]]

LEMMA PlacesAreCut ==
  ASSUME TogetherInv, NEW r \in Ranks, pc[r] = "forward"
  PROVE  PlacesOf(r) = CutOf(r)
<1>0. PICK cut : cut = CutOf(r)
  OBVIOUS
<1>1. PICK n \in Nat \ {0} : n = Len(InHand(r)) /\ cut = CutOf(r)
  BY <1>0, MicroInHand
<1>2. PICK k \in 1..n : k = Len(plan[r])
  BY <1>1, MicroInHand
<1>3. /\ ShareRows(n, k, cut)
      /\ \A m \in 1..k : plan[r][m] = PartAt(InHand(r), cut[m])
  BY <1>1, <1>2, MicroInHand
<1>4. \A p, q \in 1..n : InHand(r)[p] = InHand(r)[q] => p = q
  <2>1. phase \in Calls /\ mini[r] \in 0..(Minis - 1)
    BY MicroInHand
  <2> QED
    BY <1>1, <2>1, HandSent DEF TogetherInv, CallState
<1>5. cut \in [1..k -> Seq(1..n)]
  BY <1>3 DEF ShareRows
<1>6. ASSUME NEW m \in 1..k
      PROVE  [j \in 1..Len(plan[r][m]) |->
                CHOOSE p \in 1..n : InHand(r)[p] = plan[r][m][j]] = cut[m]
  <2>1. PICK part \in Seq(1..n) : part = cut[m]
    BY <1>5
  <2>2. part \in [1..Len(part) -> 1..n] /\ Len(part) \in Nat
    BY Entries
  <2>3. PICK l \in Nat : l = Len(part)
    BY <2>2
  <2>4. plan[r][m] = [j \in 1..l |-> InHand(r)[part[j]]]
    BY <1>3, <2>1, <2>3 DEF PartAt
  <2>5. Len(plan[r][m]) = l /\ \A j \in 1..l : plan[r][m][j] = InHand(r)[part[j]]
    BY <2>4
  <2>6. ASSUME NEW j \in 1..l
        PROVE  (CHOOSE p \in 1..n : InHand(r)[p] = plan[r][m][j]) = part[j]
    <3>1. part[j] \in 1..n
      BY <2>2, <2>3
    <3>2. \A p \in 1..n : InHand(r)[p] = plan[r][m][j] <=> p = part[j]
      BY <1>4, <2>5, <3>1
    <3> QED
      BY <3>1, <3>2
  <2>7. part = [j \in 1..l |-> part[j]]
    BY <2>2, <2>3
  <2> QED
    BY <2>1, <2>5, <2>6, <2>7
<1>7. cut = [m \in 1..k |-> cut[m]]
  BY <1>5
<1>8. PlacesOf(r) = [m \in 1..k |-> [j \in 1..Len(plan[r][m]) |->
                       CHOOSE p \in 1..n : InHand(r)[p] = plan[r][m][j]]]
  BY <1>1, <1>2 DEF PlacesOf
<1> QED
  BY <1>1, <1>6, <1>7, <1>8

\* All of them, put back into the order of the rows.
LEMMA LogsRestored ==
  ASSUME TogetherInv, NEW r \in Ranks, pc[r] = "forward", phase \in {"logprob", "ref"}
  PROVE  Restore(Firsts(LogProbsInOrder(r), Len(InHand(r))), PlacesOf(r))
           = [p \in 1..Size |-> LogProb(r, RowOf(r, p))]
<1>0. PICK cut : cut = CutOf(r)
  OBVIOUS
<1>1. PICK n \in Nat \ {0} : n = Len(InHand(r)) /\ cut = CutOf(r)
  BY <1>0, MicroInHand
<1>2. PICK k \in 1..n : k = Len(plan[r])
  BY <1>1, MicroInHand
<1>3. ShareRows(n, k, cut) /\ OnePlaceEach(n, FlattenSeq(cut))
  BY <1>1, <1>2, MicroInHand
<1>4. n = Size /\ \A p \in 1..n : InHand(r)[p] = RowOf(r, p)
  BY <1>1, ChunkInHand, MicroInHand
<1>5. PICK ofRow : ofRow = [p \in 1..n |-> LogProb(r, InHand(r)[p])]
  OBVIOUS
<1>6. ofRow = [p \in 1..n |-> ofRow[p]]
  BY <1>5
<1>7. Firsts(LogProbsInOrder(r), n) = InBatchOrder(ofRow, cut)
  <2>1. PICK order : order = FlattenSeq(cut) /\ OnePlaceEach(n, order)
    BY <1>3
  <2>2. Indices(order) = 1..n /\ order \in [1..n -> 1..n]
    BY <2>1, Entries DEF OnePlaceEach, Indices
  <2>3. \A i \in 1..n : order[i] \in 1..n
    BY <2>2
  <2>4. \A i \in 1..n : LogProbsInOrder(r)[i] = ofRow[order[i]]
    BY <1>1, <1>5, <2>1, <2>3 DEF LogProbsInOrder
  <2> QED
    BY <2>1, <2>2, <2>4 DEF Firsts, InBatchOrder
<1>8. Restore(InBatchOrder(ofRow, cut), cut) = ofRow
  BY <1>2, <1>3, <1>6, RestoreUndoesCutting
<1>9. ofRow = [p \in 1..n |-> LogProb(r, RowOf(r, p))]
  BY <1>4, <1>5
<1> QED
  BY <1>1, <1>4, <1>7, <1>8, <1>9, PlacesAreCut

LEMMA LogsForward ==
  ASSUME TogetherInv, NEW r \in Ranks, ForwardOnly(r), LogResults(r)
  PROVE  LogResults(r)'
<1>1. phase \in {"logprob", "ref"} /\ pc[r] = "forward"
  BY DEF ForwardOnly
<1>2. /\ UNCHANGED <<full, phase, data, mini, plan, version>> /\ Size' = Size
      /\ pc'[r] = IF micro[r] + 1 = Len(plan[r]) THEN "returned" ELSE "forward"
      /\ micro'[r] = micro[r] + 1
  BY DEF ForwardOnly, driverVars, TogetherInv, RankTypes, Size, Count
<1>3. PICK m : m = micro[r] + 1 /\ m \in 1..Len(plan[r])
  BY MicroInHand, <1>1
<1>4. PICK rows : rows = plan[r][m]
  OBVIOUS
<1>5. PICK done : done = results[r] \o [j \in 1..Len(rows) |-> LogProb(r, rows[j])]
  OBVIOUS
<1>6. results'[r] = IF m = Len(plan[r]) THEN Restore(done, PlacesOf(r)) ELSE done
  BY <1>3, <1>4, <1>5 DEF ForwardOnly, PlacesOf, TogetherInv, RankTypes
<1>7. done = Firsts(LogProbsInOrder(r), Before(CutOf(r), m) + Len(CutOf(r)[m]))
  BY <1>1, <1>3, <1>4, <1>5, MicroLogs
<1>8. PartsFollow(Len(InHand(r)), Len(plan[r]), CutOf(r), FlattenSeq(CutOf(r)))
  BY <1>1, MicroInHand
<1>9. /\ \A i : LogProb(r, i)' = LogProb(r, i)
      /\ CutOf(r)' = CutOf(r) /\ LogProbsInOrder(r)' = LogProbsInOrder(r)
  BY <1>2, SameLogs
<1>10. CASE m = Len(plan[r])
  <2>1. Before(CutOf(r), m) + Len(CutOf(r)[m]) = Len(InHand(r))
    BY <1>3, <1>8, <1>10 DEF PartsFollow
  <2>2. results'[r] = [p \in 1..Size |-> LogProb(r, RowOf(r, p))]
    BY <1>1, <1>6, <1>7, <1>10, <2>1, LogsRestored
  <2>3. [p \in 1..Size |-> LogProb(r, RowOf(r, p))]' = [p \in 1..Size |-> LogProb(r, RowOf(r, p))]
    BY <1>2 DEF LogProb, RowOf
  <2> QED
    BY <1>2, <1>3, <1>10, <2>2, <2>3 DEF LogResults
<1>11. CASE m # Len(plan[r])
  <2>1. Before(CutOf(r), m) + Len(CutOf(r)[m]) = Before(CutOf(r), m + 1)
    BY <1>3, <1>8, <1>11 DEF PartsFollow
  <2>2. results'[r] = Firsts(LogProbsInOrder(r), Before(CutOf(r), m + 1))
    BY <1>6, <1>7, <1>11, <2>1
  <2> QED
    BY <1>2, <1>3, <1>9, <1>11, <2>2 DEF LogResults
<1> QED
  BY <1>10, <1>11

\* The steps before the first micro-batch.
LEMMA LogsCounted ==
  ASSUME TogetherInv, NEW r \in Ranks, CountMicroBatches(r), LogResults(r)
  PROVE  LogResults(r)'
<1>1. pc[r] = "start" /\ pc'[r] = "reduce" /\ results' = results /\ phase' = phase
  BY DEF CountMicroBatches, driverVars, TogetherInv, RankTypes
<1> QED
  BY <1>1 DEF LogResults

LEMMA LogsCut ==
  ASSUME TogetherInv, TogetherInv', NEW r \in Ranks, CutMicroBatches(r), LogResults(r)
  PROVE  LogResults(r)'
<1>1. /\ pc[r] = "reduce" /\ pc'[r] = "forward" /\ micro'[r] = 0 /\ results' = results
      /\ phase' = phase
  BY DEF CutMicroBatches, driverVars, TogetherInv, RankTypes
<1>2. \A list, cut : Firsts(list, Before(cut, 0 + 1)) = << >>
  BY DEF Firsts, Before
<1> QED
  BY <1>1, <1>2 DEF LogResults
-----------------------------------------------------------------------------
(***************************************************************************)
(* What the driver has collected                                           *)
(***************************************************************************)

LEMMA GatheredLogs ==
  ASSUME TogetherInv, \A r \in Ranks : LogResults(r), phase \in {"logprob", "ref"}, AllReturned
  PROVE  \A i \in 1..Count : \E r \in Ranks : Gathered[i] = LogProb(r, i)
<1>1. PICK count \in Nat, size \in Nat, ranks \in Nat \ {0} :
        /\ count = Count /\ size = Size /\ ranks = DpSize /\ EqualParts(count, ranks, size)
  BY BatchNumbers DEF TogetherInv
<1>2. Ranks = 1..ranks
  BY <1>1 DEF Ranks
<1>3. PICK parts : parts = [r \in 1..ranks |-> results[r]]
  OBVIOUS
<1>4. ASSUME NEW r \in 1..ranks
      PROVE  /\ parts[r] \in Seq(LogProbs) /\ Len(parts[r]) = size
             /\ \A p \in 1..size : parts[r][p] = LogProb(r, RowOf(r, p))
  <2>1. r \in Ranks
    BY <1>2
  <2>2. parts[r] = [p \in 1..size |-> LogProb(r, RowOf(r, p))]
    BY <1>1, <1>3, <2>1 DEF LogResults, AllReturned
  <2>3. \A p \in 1..size : RowOf(r, p) \in 1..Count
    BY <1>1, <2>1, RowPlaces DEF TogetherInv
  <2>4. \A p \in 1..size : LogProb(r, RowOf(r, p)) \in LogProbs
    BY <2>1, <2>3, LogProbTyped
  <2> QED
    BY <2>2, <2>4
<1>5. parts \in Seq(Seq(LogProbs)) /\ Len(parts) = ranks /\ parts # << >>
  BY <1>3, <1>4
<1>6. KeepsPlaces(parts, size, Concat(parts))
  BY <1>4, <1>5, ConcatOfEqualParts
<1>7. Gathered = Concat(parts)
  BY <1>2, <1>3 DEF Gathered
<1> SUFFICES ASSUME NEW i \in 1..count PROVE \E r \in Ranks : Gathered[i] = LogProb(r, i)
  BY <1>1
<1>8. PICK r \in 1..ranks : i \in (Skipped(r, size) + 1)..(Skipped(r, size) + size)
  BY <1>1, PlaceInPart
<1>9. PICK s \in Nat : s = Skipped(r, size)
  BY <1>1, PartWithin
<1>10. PICK p \in 1..size : s + p = i
  <2>1. i - s \in 1..size /\ s + (i - s) = i
    BY <1>8, <1>9
  <2> QED
    BY <2>1
<1>11. Gathered[i] = parts[r][p]
  BY <1>5, <1>6, <1>7, <1>9, <1>10 DEF KeepsPlaces
<1>12. RowOf(r, p) = i
  BY <1>1, <1>9, <1>10 DEF RowOf
<1> QED
  BY <1>2, <1>4, <1>11, <1>12

\* A pass over some row gives a number that is not finite.
Bad(name) == \E i \in 1..Count : full[i].outcome.badIn = name

\* The rows are of the policy that their rank has before its first step.
SamePolicy ==
  phase \in {"reward", "logprob", "ref", "advantage", "update"} =>
    \A r \in Ranks : mini[r] = 0 => \A i \in 1..Count : full[i].policy = version[r]

OldKept ==
  phase \in {"ref", "advantage", "update", "end"} =>
    \A i \in 1..Count : oldLogProbs[i].row = i /\ oldLogProbs[i].policy = full[i].policy

RefKept ==
  IF phase \in {"advantage", "update", "end"}
  THEN refLogProbs # << >> => \A i \in 1..Count : refLogProbs[i].row = i
  ELSE refLogProbs = << >>

BadCounted ==
  /\ phase = "ref" => config.useKl /\ (badForward <=> Bad("logprob"))
  /\ phase \in {"advantage", "update", "end"} =>
       (badForward <=> Bad("logprob") \/ (config.useKl /\ Bad("ref")))
  /\ phase = "update" => ~badForward

Collected == SamePolicy /\ OldKept /\ RefKept /\ BadCounted
CollectedInv == TogetherInv /\ Collected /\ \A r \in Ranks : LogResults(r)

\* What a row of the collected batch is.
LEMMA CollectedRow ==
  ASSUME CollectedInv, phase \in {"logprob", "ref"}, AllReturned, NEW i \in 1..Count
  PROVE  /\ [Gathered[i] EXCEPT !.finite = TRUE].row = i
         /\ phase = "logprob" => [Gathered[i] EXCEPT !.finite = TRUE].policy = full[i].policy
         /\ Gathered[i].finite <=> full[i].outcome.badIn # phase
<1>1. PICK r \in Ranks : Gathered[i] = LogProb(r, i)
  BY GatheredLogs DEF CollectedInv
<1>2. PICK g, policy, finite :
        /\ g = Gathered[i] /\ finite = (full[i].outcome.badIn /= phase)
        /\ policy = IF phase = "ref" THEN 0 ELSE version[r]
  OBVIOUS
<1>3. g = [row |-> i, policy |-> policy, finite |-> finite]
  BY <1>1, <1>2 DEF LogProb
<1>4. [g EXCEPT !.finite = TRUE].row = i /\ [g EXCEPT !.finite = TRUE].policy = policy
      /\ g.finite = finite
  BY <1>3
<1>5. mini[r] = 0
  <2>1. phase \in Calls /\ pc[r] = "returned" /\ phase # "update"
    BY DEF Calls, AllReturned
  <2> QED
    BY <2>1, WithinMinis DEF CollectedInv, TogetherInv
<1>6. phase = "logprob" => policy = full[i].policy
  BY <1>2, <1>5 DEF CollectedInv, Collected, SamePolicy
<1>7. finite \in BOOLEAN /\ (finite <=> full[i].outcome.badIn # phase)
  BY <1>2
<1> QED
  BY <1>2, <1>4, <1>6, <1>7

LEMMA RowsCounted ==
  ASSUME TogetherInv, phase \notin {"next", "rollout"}
  PROVE  Rows = 1..Count
  BY FullLength DEF TogetherInv, Rows

\* A step of the driver between calls leaves no results.
LEMMA NoResults ==
  ASSUME TogetherInv, TogetherInv',
         \/ phase' \notin {"logprob", "ref"}
         \/ \E name \in Calls : Call(name)
  PROVE  \A r \in Ranks : LogResults(r)'
<1>1. CASE phase' \notin {"logprob", "ref"}
  BY <1>1 DEF LogResults
<1>2. CASE \E name \in Calls : Call(name)
  <2>1. \A r \in Ranks : results'[r] = << >> /\ pc'[r] = "start"
    BY <1>2 DEF Call, ResetCall
  <2> QED
    BY <2>1 DEF LogResults
<1> QED
  BY <1>1, <1>2

LEMMA LogProbsCollected ==
  ASSUME CollectedInv, CollectLogProbs
  PROVE  CollectedInv'
<1>1. TogetherInv'
  BY DriverKeeps DEF CollectedInv, Driver
<1>2. phase = "logprob" /\ AllReturned /\ UNCHANGED <<config, batch, full, version, refLogProbs>>
  BY DEF CollectLogProbs
<1>3. Count' = Count /\ Rows = 1..Count
  BY <1>2, RowsCounted DEF Count, CollectedInv
<1>4. /\ \A i \in 1..Count : oldLogProbs'[i] = [Gathered[i] EXCEPT !.finite = TRUE]
      /\ badForward' <=> \E i \in 1..Count : ~Gathered[i].finite
  BY <1>3 DEF CollectLogProbs
<1>5. (badForward' <=> Bad("logprob")) /\ Bad("logprob")' = Bad("logprob")
  <2>1. \A i \in 1..Count : Gathered[i].finite <=> full[i].outcome.badIn # "logprob"
    BY <1>2, CollectedRow
  <2> QED
    BY <1>2, <1>3, <1>4, <2>1 DEF Bad
<1>6. OldKept'
  <2>1. \A i \in 1..Count : oldLogProbs'[i].row = i /\ oldLogProbs'[i].policy = full[i].policy
    BY <1>2, <1>4, CollectedRow
  <2> QED
    BY <1>2, <1>3, <2>1 DEF OldKept
<1>7. IF config.useKl THEN Call("ref") ELSE Proceed("advantage")
  BY DEF CollectLogProbs
<1>8. phase' = (IF config.useKl THEN "ref" ELSE "advantage") /\ config.useKl \in BOOLEAN
  BY <1>7, ConfigNumbers DEF Call, Proceed, CollectedInv, TogetherInv, Shape
<1>9. SamePolicy'
  <2>1. \A r \in Ranks : mini[r] = 0
    <3>1. phase \in Calls /\ phase # "update" /\ \A r \in Ranks : pc[r] = "returned"
      BY <1>2 DEF Calls, AllReturned
    <3> QED
      BY <3>1, WithinMinis DEF CollectedInv, TogetherInv
  <2>2. \A r \in Ranks : \A i \in 1..Count : full[i].policy = version[r]
    BY <1>2, <2>1 DEF CollectedInv, Collected, SamePolicy
  <2> QED
    BY <1>2, <1>3, <2>2 DEF SamePolicy
<1>10. RefKept' /\ BadCounted'
  <2>1. refLogProbs = << >>
    BY <1>2 DEF CollectedInv, Collected, RefKept
  <2> QED
    BY <1>2, <1>5, <1>8, <2>1 DEF RefKept, BadCounted
<1>11. \A r \in Ranks : LogResults(r)'
  <2>1. \/ phase' \notin {"logprob", "ref"}
        \/ \E name \in Calls : Call(name)
    BY <1>7, <1>8 DEF Calls
  <2> QED
    BY <1>1, <2>1, NoResults DEF CollectedInv
<1> QED
  BY <1>1, <1>6, <1>9, <1>10, <1>11 DEF CollectedInv, Collected

LEMMA RefLogProbsCollected ==
  ASSUME CollectedInv, CollectRefLogProbs
  PROVE  CollectedInv'
<1>1. TogetherInv'
  BY DriverKeeps DEF CollectedInv, Driver
<1>2. phase = "ref" /\ AllReturned /\ UNCHANGED <<config, batch, full, version, oldLogProbs>>
      /\ phase' = "advantage"
  BY DEF CollectRefLogProbs, Proceed
<1>3. Count' = Count /\ Rows = 1..Count
  BY <1>2, RowsCounted DEF Count, CollectedInv
<1>4. /\ \A i \in 1..Count : refLogProbs'[i] = [Gathered[i] EXCEPT !.finite = TRUE]
      /\ badForward' <=> badForward \/ \E i \in 1..Count : ~Gathered[i].finite
  BY <1>3 DEF CollectRefLogProbs
<1>5. /\ badForward' <=> badForward \/ Bad("ref")
      /\ Bad("ref")' = Bad("ref") /\ Bad("logprob")' = Bad("logprob")
  <2>1. \A i \in 1..Count : Gathered[i].finite <=> full[i].outcome.badIn # "ref"
    BY <1>2, CollectedRow
  <2> QED
    BY <1>2, <1>3, <1>4, <2>1 DEF Bad
<1>6. OldKept'
  BY <1>2, <1>3 DEF OldKept, CollectedInv, Collected
<1>7. SamePolicy'
  <2>1. \A r \in Ranks : mini[r] = 0
    <3>1. phase \in Calls /\ phase # "update" /\ \A r \in Ranks : pc[r] = "returned"
      BY <1>2 DEF Calls, AllReturned
    <3> QED
      BY <3>1, WithinMinis DEF CollectedInv, TogetherInv
  <2>2. \A r \in Ranks : \A i \in 1..Count : full[i].policy = version[r]
    BY <1>2, <2>1 DEF CollectedInv, Collected, SamePolicy
  <2> QED
    BY <1>2, <1>3, <2>2 DEF SamePolicy
<1>8. RefKept'
  <2>1. \A i \in 1..Count : refLogProbs'[i].row = i
    BY <1>2, <1>4, CollectedRow
  <2> QED
    BY <1>2, <1>3, <2>1 DEF RefKept
<1>9. BadCounted'
  BY <1>2, <1>5 DEF BadCounted, CollectedInv, Collected
<1>10. \A r \in Ranks : LogResults(r)'
  BY <1>1, <1>2, NoResults DEF CollectedInv
<1> QED
  BY <1>1, <1>6, <1>7, <1>8, <1>9, <1>10 DEF CollectedInv, Collected

\* Before a call, and between calls, no rank is in a mini-batch.
LEMMA NoneInMini ==
  ASSUME TogetherInv, phase \notin Calls
  PROVE  \A r \in Ranks : mini[r] = 0
  BY DEF TogetherInv, CallState

\* The other steps of the driver.
LEMMA DriverCollects ==
  ASSUME CollectedInv, LoadPrompts \/ Driver
  PROVE  CollectedInv'
<1>1. TogetherInv'
  BY DriverKeeps DEF CollectedInv
<1>2. CASE LoadPrompts
  <2>1. Collected'
    BY <1>2 DEF LoadPrompts, CollectedInv, Collected, SamePolicy, OldKept, RefKept, BadCounted
  <2>2. phase' \notin {"logprob", "ref"}
    BY <1>2 DEF LoadPrompts
  <2> QED
    BY <1>1, <2>1, <2>2, NoResults DEF CollectedInv
<1>3. CASE Generate
  <2>1. phase = "rollout" /\ phase' = "reward" /\ UNCHANGED <<version, refLogProbs>>
        /\ Count' = Count
    BY <1>3 DEF Generate, Count
  <2>2. PICK v \in Nat : \A r \in Ranks : version[r] = v
    BY <2>1, SameVersion DEF CollectedInv, Calls
  <2>3. \A i \in 1..Count : full'[i].policy = version[1]
    BY <1>3, JoinedRows DEF CollectedInv, TogetherInv
  <2>4. 1 \in Ranks
    BY SizesAssumption DEF Ranks
  <2>5. SamePolicy'
    BY <2>1, <2>2, <2>3, <2>4 DEF SamePolicy
  <2>6. OldKept' /\ RefKept' /\ BadCounted'
    BY <2>1 DEF CollectedInv, Collected, OldKept, RefKept, BadCounted
  <2> QED
    BY <1>1, <2>1, <2>5, <2>6, NoResults DEF CollectedInv, Collected
<1>4. CASE ScoreBatch
  <2>1. /\ phase = "reward" /\ phase' = "logprob" /\ UNCHANGED <<full, version, refLogProbs>>
        /\ Count' = Count /\ Call("logprob")
    BY <1>4 DEF ScoreBatch, Count, Call
  <2>2. \A r \in Ranks : mini[r] = 0
    BY <2>1, NoneInMini DEF CollectedInv, Calls
  <2>3. SamePolicy'
    BY <2>1, <2>2 DEF SamePolicy, CollectedInv, Collected
  <2>4. OldKept' /\ RefKept' /\ BadCounted'
    BY <2>1 DEF CollectedInv, Collected, OldKept, RefKept, BadCounted
  <2>5. \A r \in Ranks : LogResults(r)'
    BY <1>1, <2>1, NoResults DEF CollectedInv, Calls
  <2> QED
    BY <1>1, <2>3, <2>4, <2>5 DEF CollectedInv, Collected
<1>5. CASE RewardRaises
  <2>1. phase = "reward" /\ phase' = "failed" /\ refLogProbs' = refLogProbs
    BY <1>5 DEF RewardRaises
  <2>2. Collected'
    BY <2>1 DEF CollectedInv, Collected, SamePolicy, OldKept, RefKept, BadCounted
  <2> QED
    BY <1>1, <2>1, <2>2, NoResults DEF CollectedInv
<1>6. CASE ComputeAdvantages
  <2>1. /\ phase = "advantage" /\ Count' = Count
        /\ UNCHANGED <<config, full, version, oldLogProbs, refLogProbs, badForward>>
        /\ \/ badForward /\ phase' = "end" /\ mini' = mini
           \/ ~badForward /\ phase' = "update" /\ Call("update")
    BY <1>6 DEF ComputeAdvantages, Count, Call, callVars
  <2>2. \A r \in Ranks : mini[r] = 0
    BY <2>1, NoneInMini DEF CollectedInv, Calls
  <2>3. SamePolicy'
    BY <2>1, <2>2 DEF SamePolicy, CollectedInv, Collected
  <2>4. OldKept' /\ RefKept'
    BY <2>1 DEF CollectedInv, Collected, OldKept, RefKept
  <2>5. BadCounted'
    BY <2>1 DEF CollectedInv, Collected, BadCounted, Bad
  <2>6. \A r \in Ranks : LogResults(r)'
    BY <1>1, <2>1, NoResults DEF CollectedInv, Calls
  <2> QED
    BY <1>1, <2>3, <2>4, <2>5, <2>6 DEF CollectedInv, Collected
<1>7. CASE CollectUpdate
  <2>1. /\ phase = "update" /\ phase' = "end" /\ Count' = Count
        /\ UNCHANGED <<config, full, version, oldLogProbs, refLogProbs, badForward>>
    BY <1>7 DEF CollectUpdate, Count, Proceed
  <2>2. SamePolicy'
    BY <2>1 DEF SamePolicy
  <2>3. OldKept' /\ RefKept'
    BY <2>1 DEF CollectedInv, Collected, OldKept, RefKept
  <2>4. BadCounted'
    BY <2>1 DEF CollectedInv, Collected, BadCounted, Bad
  <2>5. \A r \in Ranks : LogResults(r)'
    BY <1>1, <2>1, NoResults DEF CollectedInv
  <2> QED
    BY <1>1, <2>2, <2>3, <2>4, <2>5 DEF CollectedInv, Collected
<1>8. CASE EndStep
  <2>1. phase' = "next" /\ refLogProbs' = << >>
    BY <1>8 DEF EndStep
  <2>2. Collected'
    BY <2>1 DEF Collected, SamePolicy, OldKept, RefKept, BadCounted
  <2> QED
    BY <1>1, <2>1, <2>2, NoResults DEF CollectedInv
<1> QED
  BY <1>2, <1>3, <1>4, <1>5, <1>6, <1>7, <1>8, LogProbsCollected, RefLogProbsCollected DEF Driver

LEMMA RankCollects ==
  ASSUME CollectedInv, NEW r \in Ranks, Rank(r)
  PROVE  CollectedInv'
<1>1. TogetherInv'
  BY CountKeeps, CutKeeps, ForwardKeeps, BackwardKeeps, StepKeeps DEF CollectedInv, Rank
<1>2. UNCHANGED <<config, batch, full, phase, oldLogProbs, refLogProbs, badForward>>
      /\ Count' = Count
  BY DriverKept DEF driverVars
<1>3. SamePolicy'
  <2>1. ASSUME NEW q \in Ranks, mini'[q] = 0 PROVE mini[q] = 0 /\ version'[q] = version[q]
    <3>1. CASE q # r
      BY <2>1, <3>1, OthersKept DEF Kept, CollectedInv, TogetherInv
    <3>2. CASE q = r /\ OptimizerStep(r)
      <4>1. mini'[r] = mini[r] + 1 /\ mini[r] \in Nat
        BY <3>2 DEF OptimizerStep, CollectedInv, TogetherInv, RankTypes
      <4> QED
        BY <2>1, <3>2, <4>1
    <3>3. CASE q = r /\ ~OptimizerStep(r)
      BY <2>1, <3>3 DEF Rank, CountMicroBatches, CutMicroBatches, ForwardOnly, ForwardBackward
    <3> QED
      BY <3>1, <3>2, <3>3
  <2> QED
    BY <1>2, <2>1 DEF SamePolicy, CollectedInv, Collected
<1>4. OldKept' /\ RefKept'
  BY <1>2 DEF OldKept, RefKept, CollectedInv, Collected
<1>5. BadCounted'
  BY <1>2 DEF BadCounted, Bad, CollectedInv, Collected
<1>6. LogResults(r)'
  <2>1. CASE CountMicroBatches(r)
    BY <2>1, LogsCounted DEF CollectedInv
  <2>2. CASE CutMicroBatches(r)
    BY <1>1, <2>2, LogsCut DEF CollectedInv
  <2>3. CASE ForwardOnly(r)
    BY <2>3, LogsForward DEF CollectedInv
  <2>4. CASE ForwardBackward(r)
    BY <1>2, <2>4 DEF ForwardBackward, LogResults
  <2>5. CASE OptimizerStep(r)
    <3>1. phase \in Calls /\ pc[r] = "optimize" /\ AllHere(r)
      BY <2>5, PlanOf DEF OptimizerStep, CollectedInv
    <3>2. phase = "update"
      BY <3>1, AllAtStep DEF AtStep, CollectedInv, TogetherInv
    <3> QED
      BY <1>2, <3>2 DEF LogResults
  <2> QED
    BY <2>1, <2>2, <2>3, <2>4, <2>5 DEF Rank
<1>7. \A q \in Ranks : LogResults(q)'
  BY <1>6, LogsKept DEF CollectedInv
<1> QED
  BY <1>1, <1>3, <1>4, <1>5, <1>7 DEF CollectedInv, Collected

LEMMA CollectedStep ==
  ASSUME CollectedInv, [Next]_vars
  PROVE  CollectedInv'
<1>1. CASE UNCHANGED vars
  <2>1. TogetherInv'
    BY <1>1, TogetherStep DEF CollectedInv
  <2>2. /\ UNCHANGED <<config, batch, full, phase, oldLogProbs, refLogProbs, badForward>>
        /\ version' = version /\ UNCHANGED <<pc, data, plan, micro, mini, results>>
    BY <1>1 DEF vars, driverVars, callVars
  <2>3. Count' = Count /\ Size' = Size
    BY <2>2 DEF Count, Size
  <2>4. Collected'
    BY <2>2, <2>3 DEF CollectedInv, Collected, SamePolicy, OldKept, RefKept, BadCounted, Bad
  <2>5. ASSUME NEW r \in Ranks PROVE LogResults(r)'
    <3>1. /\ CutOf(r)' = CutOf(r) /\ LogProbsInOrder(r)' = LogProbsInOrder(r)
      BY <2>2, SameLogs
    <3>2. [p \in 1..Size |-> LogProb(r, RowOf(r, p))]' = [p \in 1..Size |-> LogProb(r, RowOf(r, p))]
      BY <2>2, <2>3 DEF LogProb, RowOf
    <3> QED
      BY <2>2, <3>1, <3>2 DEF LogResults, CollectedInv
  <2> QED
    BY <2>1, <2>4, <2>5 DEF CollectedInv
<1> QED
  BY <1>1, DriverCollects, RankCollects DEF Next

LEMMA CollectedStart ==
  ASSUME Init
  PROVE  CollectedInv
<1>1. phase = "next" /\ refLogProbs = << >>
  BY DEF Init
<1>2. Collected
  BY <1>1 DEF Collected, SamePolicy, OldKept, RefKept, BadCounted
<1>3. \A r \in Ranks : LogResults(r)
  BY <1>1 DEF LogResults
<1> QED
  BY <1>2, <1>3, TogetherStart DEF CollectedInv

\* The inductive invariant of the forward passes.
THEOREM Collecting == Spec => []CollectedInv
  BY CollectedStart, CollectedStep, PTL DEF Spec

\* The ranks step their optimizers alike, and none of them in an update that
\* the guard of fit must skip: an update is only begun when no forward pass gave
\* a number that is not finite, although these are replaced before the guard
\* looks.
THEOREM OptimizersTogether == Spec => UpdateTogether
<1>1. CollectedInv => ReplicasAgree
  BY LockstepAgrees DEF CollectedInv
<1>2. ASSUME CollectedInv, [Next]_vars
      PROVE  [version' /= version =>
                \A i \in Rows : full[i].outcome.badIn \notin
                  {"logprob"} \cup (IF config.useKl THEN {"ref"} ELSE {})]_vars
  <2> SUFFICES ASSUME version' # version, NEW i \in Rows
               PROVE  full[i].outcome.badIn \notin
                        {"logprob"} \cup (IF config.useKl THEN {"ref"} ELSE {})
    OBVIOUS
  <2>1. PICK r \in Ranks : OptimizerStep(r)
    BY <1>2 DEF Next, Driver, LoadPrompts, Generate, ScoreBatch, RewardRaises, CollectLogProbs,
       CollectRefLogProbs, ComputeAdvantages, CollectUpdate, EndStep, Rank, CountMicroBatches,
       CutMicroBatches, ForwardOnly, ForwardBackward, vars
  <2>2. phase \in Calls /\ pc[r] = "optimize" /\ AllHere(r)
    BY <1>2, <2>1, PlanOf DEF OptimizerStep, CollectedInv
  <2>3. phase = "update"
    BY <1>2, <2>2, AllAtStep DEF AtStep, CollectedInv, TogetherInv
  <2>4. ~Bad("logprob") /\ ~(config.useKl /\ Bad("ref"))
    BY <1>2, <2>3 DEF CollectedInv, Collected, BadCounted
  <2>5. i \in 1..Count
    BY <1>2, <2>3, RowsCounted DEF CollectedInv
  <2> QED
    BY <2>4, <2>5 DEF Bad
<1> QED
  BY <1>1, <1>2, Collecting, PTL DEF Spec, UpdateTogether, BadForwardSkipsUpdate
-----------------------------------------------------------------------------
(***************************************************************************)
(* What an update has used                                                 *)
(***************************************************************************)

\* A row as the loss should see it.
Fed(i) == [row |-> i, old |-> full[i].policy]
ChunkFed(r) == {Fed(RowOf(r, p)) : p \in 1..Size}
HasFed(r, i) == \E k \in 1..Len(results[r]) : results[r][k] = Fed(i)

\* The rows of the mini-batches that a rank has been through.
Reach(r) ==
  IF pc[r] = "returned" THEN Size
  ELSE IF pc[r] = "optimize"
  THEN Skipped(mini[r] + 1, Width) + PartLength(Size, Width, mini[r] + 1)
  ELSE Skipped(mini[r] + 1, Width)

\* A rank has used these rows, and those of the micro-batches it has done of
\* the mini-batch in hand, and as many rows as that is.
UpdateResults(r) ==
  phase = "update" =>
    /\ results[r] \in Seq(ChunkFed(r))
    /\ \A p \in 1..Reach(r) : HasFed(r, RowOf(r, p))
    /\ Len(results[r])
         = Reach(r) + (IF pc[r] = "forward" THEN Before(CutOf(r), micro[r] + 1) ELSE 0)
    /\ pc[r] = "forward" =>
         \A m \in 1..micro[r] : \A j \in 1..Len(CutOf(r)[m]) :
           HasFed(r, InHand(r)[CutOf(r)[m][j]])

UsedInv == CollectedInv /\ \A r \in Ranks : UpdateResults(r)

\* Nothing of a sequence is lost when it gets longer.
Holds(all, part) == \A k \in 1..Len(part) : \E i \in 1..Len(all) : all[i] = part[k]

LEMMA LongerKeeps ==
  ASSUME NEW S, NEW f \in Seq(S), NEW more \in Seq(S)
  PROVE  /\ f \o more \in Seq(S) /\ Len(f \o more) = Len(f) + Len(more)
         /\ Holds(f \o more, f) /\ Holds(f \o more, more)
<1>1. PICK both : both = f \o more
  OBVIOUS
<1>2. /\ both \in Seq(S) /\ Len(both) = Len(f) + Len(more)
      /\ \A i \in 1..Len(f) : both[i] = f[i]
      /\ \A j \in 1..Len(more) : both[Len(f) + j] = more[j]
  BY <1>1, PlacesOfBoth
<1>3. PICK a \in Nat, b \in Nat : a = Len(f) /\ b = Len(more)
  OBVIOUS
<1>4. \A k \in 1..a : k \in 1..(a + b)
  OBVIOUS
<1>5. \A k \in 1..b : a + k \in 1..(a + b)
  OBVIOUS
<1> QED
  BY <1>1, <1>2, <1>3, <1>4, <1>5 DEF Holds

\* The rows in hand are those that come next.
LEMMA NextRows ==
  ASSUME TogetherInv, NEW r \in Ranks, phase \in Calls, mini[r] \in 0..(Minis - 1)
  PROVE  /\ Skipped(mini[r] + 1, Width) \in Nat /\ Len(InHand(r)) \in Nat \ {0}
         /\ Len(InHand(r)) = PartLength(Size, Width, mini[r] + 1)
         /\ \A j \in 1..Len(InHand(r)) :
              /\ Skipped(mini[r] + 1, Width) + j \in 1..Size
              /\ InHand(r)[j] = RowOf(r, Skipped(mini[r] + 1, Width) + j)
         /\ IF mini[r] + 1 = Minis
            THEN Skipped(mini[r] + 1, Width) + Len(InHand(r)) = Size
            ELSE Skipped(mini[r] + 2, Width) = Skipped(mini[r] + 1, Width) + Len(InHand(r))
<1>1. Shape /\ DataSent
  BY DEF TogetherInv, CallState
<1>2. PICK m \in 1..Minis : m = mini[r] + 1 /\ InHand(r) = Sent(r, m)
  BY <1>1, HandSent
<1>3. PICK minis \in Nat \ {0} : minis = Minis /\ PartsOfWidth(Size, Width, minis)
  BY <1>1, MiniNumbers
<1>4. /\ Skipped(m, Width) \in Nat /\ PartLength(Size, Width, m) \in Nat \ {0}
      /\ m < minis => Skipped(m + 1, Width) = Skipped(m, Width) + PartLength(Size, Width, m)
      /\ m = minis => Skipped(m, Width) + PartLength(Size, Width, m) = Size
  BY <1>2, <1>3 DEF PartsOfWidth
<1>5. /\ Len(Sent(r, m)) = PartLength(Size, Width, m)
      /\ \A j \in 1..Len(Sent(r, m)) : /\ Skipped(m, Width) + j \in 1..Size
                                       /\ Sent(r, m)[j] = RowOf(r, Skipped(m, Width) + j)
  BY <1>1, SentRows
<1>6. mini[r] + 2 = m + 1 /\ (m = minis \/ m < minis)
  BY <1>2, <1>3
<1> QED
  BY <1>2, <1>3, <1>4, <1>5, <1>6

\* The ratio of a row is taken against the policy of the row.
LEMMA OldPolicyOfRow ==
  ASSUME CollectedInv, NEW r \in Ranks, phase = "update", mini[r] \in 0..(Minis - 1),
         NEW i \in 1..Count
  PROVE  OldPolicy(r, i) = full[i].policy
<1>1. CASE Len(data[r]) = 1
  <2>1. Len(data[r]) = Minis
    BY HandSent DEF CollectedInv, TogetherInv, CallState, Calls
  <2>2. mini[r] = 0
    <3>1. mini[r] \in 0..(1 - 1)
      BY <1>1, <2>1
    <3> QED
      BY <3>1
  <2> QED
    BY <1>1, <2>2 DEF OldPolicy, CollectedInv, Collected, SamePolicy
<1>2. CASE Len(data[r]) # 1
  BY <1>2 DEF OldPolicy, CollectedInv, Collected, OldKept
<1> QED
  BY <1>1, <1>2

\* What a micro-batch adds.
Added(r) ==
  [j \in 1..Len(plan[r][micro[r] + 1]) |->
     [row |-> plan[r][micro[r] + 1][j], old |-> OldPolicy(r, plan[r][micro[r] + 1][j])]]

LEMMA MicroFed ==
  ASSUME CollectedInv, NEW r \in Ranks, phase = "update", pc[r] = "forward",
         NEW m, m = micro[r] + 1, NEW l, l = Len(CutOf(r)[m])
  PROVE  /\ Added(r) \in Seq(ChunkFed(r)) /\ Len(Added(r)) = l /\ l \in Nat
         /\ \A j \in 1..l : Added(r)[j] = Fed(InHand(r)[CutOf(r)[m][j]])
<1>0. PICK cut : cut = CutOf(r)
  OBVIOUS
<1>1. TogetherInv /\ mini[r] \in 0..(Minis - 1) /\ phase \in Calls
  BY MicroInHand DEF CollectedInv
<1>2. PICK n \in Nat \ {0} : n = Len(InHand(r)) /\ cut = CutOf(r)
  BY <1>0, <1>1, MicroInHand
<1>3. PICK k \in 1..n : k = Len(plan[r]) /\ m \in 1..k
  BY <1>1, <1>2, MicroInHand
<1>4. plan[r][m] = PartAt(InHand(r), cut[m])
  <2>1. \A i \in 1..k : plan[r][i] = PartAt(InHand(r), cut[i])
    BY <1>1, <1>2, <1>3, MicroInHand
  <2> QED
    BY <1>3, <2>1
<1>5. l \in Nat /\ \A j \in 1..l : cut[m][j] \in 1..n
  <2>1. PartsFollow(n, k, cut, FlattenSeq(cut))
    BY <1>1, <1>2, <1>3, MicroInHand
  <2> QED
    BY <1>2, <1>3, <2>1 DEF PartsFollow
<1>6. Len(plan[r][m]) = l /\ \A j \in 1..l : plan[r][m][j] = InHand(r)[cut[m][j]]
  BY <1>2, <1>4, <1>5 DEF PartAt
<1>7. \A j \in 1..l : \E p \in 1..Size : InHand(r)[cut[m][j]] = RowOf(r, p)
  BY <1>1, <1>2, <1>5, NextRows
<1>8. ASSUME NEW j \in 1..l
      PROVE  /\ [row |-> plan[r][m][j], old |-> OldPolicy(r, plan[r][m][j])]
                  = Fed(InHand(r)[cut[m][j]])
             /\ Fed(InHand(r)[cut[m][j]]) \in ChunkFed(r)
  <2>1. PICK p \in 1..Size : InHand(r)[cut[m][j]] = RowOf(r, p)
    BY <1>7
  <2>2. PICK i : i = RowOf(r, p) /\ i \in 1..Count
    BY <1>1, RowPlaces DEF TogetherInv, Calls
  <2>3. OldPolicy(r, i) = full[i].policy
    BY <1>1, <2>2, OldPolicyOfRow
  <2> QED
    BY <1>6, <2>1, <2>2, <2>3 DEF Fed, ChunkFed
<1>9. Added(r) = [j \in 1..l |-> Fed(InHand(r)[cut[m][j]])]
  BY <1>6, <1>8 DEF Added
<1>10. PICK added : added = Added(r)
  OBVIOUS
<1>11. /\ added \in Seq(ChunkFed(r)) /\ Len(added) = l
       /\ \A j \in 1..l : added[j] = Fed(InHand(r)[cut[m][j]])
  <2>1. /\ added = [j \in 1..l |-> added[j]]
        /\ \A j \in 1..l : added[j] = Fed(InHand(r)[cut[m][j]])
    BY <1>9, <1>10
  <2>2. \A j \in 1..l : added[j] \in ChunkFed(r)
    BY <1>8, <2>1
  <2>3. added \in Seq(ChunkFed(r)) /\ Len(added) = l
    BY <1>5, <2>1, <2>2
  <2> QED
    BY <2>1, <2>3
<1> QED
  BY <1>2, <1>5, <1>10, <1>11

LEMMA UsedBackward ==
  ASSUME UsedInv, NEW r \in Ranks, ForwardBackward(r)
  PROVE  UpdateResults(r)'
<1>0. PICK cut : cut = CutOf(r)
  OBVIOUS
<1>1. /\ phase = "update" /\ pc[r] = "forward" /\ CollectedInv /\ TogetherInv
      /\ phase \in Calls /\ mini[r] \in 0..(Minis - 1)
  BY MicroInHand DEF ForwardBackward, UsedInv, CollectedInv
<1>2. /\ UNCHANGED <<full, phase, data, mini, plan, version>>
      /\ Size' = Size /\ Width' = Width
      /\ pc'[r] = IF micro[r] + 1 = Len(plan[r]) THEN "optimize" ELSE "forward"
      /\ micro'[r] = micro[r] + 1 /\ results'[r] = results[r] \o Added(r)
  BY <1>1 DEF ForwardBackward, driverVars, TogetherInv, RankTypes, Size, Width, Count, Added
<1>3. PICK m : m = micro[r] + 1
  OBVIOUS
<1>4. PICK l : l = Len(CutOf(r)[m])
  OBVIOUS
<1>5. /\ Added(r) \in Seq(ChunkFed(r)) /\ Len(Added(r)) = l /\ l \in Nat
      /\ \A j \in 1..l : Added(r)[j] = Fed(InHand(r)[CutOf(r)[m][j]])
  BY <1>1, <1>3, <1>4, MicroFed
<1>6. PICK n \in Nat \ {0} : /\ n = Len(InHand(r)) /\ cut = CutOf(r)
                             /\ n = PartLength(Size, Width, mini[r] + 1)
  BY <1>0, <1>1, NextRows
<1>7. PICK k \in 1..n : k = Len(plan[r]) /\ m \in 1..k /\ micro[r] = m - 1
  <2>1. Len(plan[r]) \in 1..n /\ micro[r] + 1 \in 1..Len(plan[r])
    BY <1>1, <1>6, MicroInHand
  <2>2. micro[r] \in Nat
    BY <1>1 DEF TogetherInv, RankTypes
  <2>3. micro[r] = m - 1
    BY <1>3, <2>2
  <2> QED
    BY <1>3, <2>1, <2>3
<1>8. PartsFollow(n, k, cut, FlattenSeq(cut)) /\ ShareRows(n, k, cut)
  BY <1>1, <1>6, <1>7, MicroInHand
<1>9. PICK s \in Nat : /\ s = Skipped(mini[r] + 1, Width)
                       /\ \A j \in 1..n : InHand(r)[j] = RowOf(r, s + j)
  BY <1>1, <1>6, NextRows
<1>10. /\ results[r] \in Seq(ChunkFed(r))
       /\ \A p \in 1..s : HasFed(r, RowOf(r, p))
       /\ Len(results[r]) = s + Before(cut, m)
       /\ \A i \in 1..(m - 1) : \A j \in 1..Len(cut[i]) : HasFed(r, InHand(r)[cut[i][j]])
  <2>1. Reach(r) = s
    BY <1>1, <1>9 DEF Reach
  <2> QED
    BY <1>1, <1>3, <1>6, <1>7, <2>1 DEF UsedInv, UpdateResults
<1>11. PICK now, old : now = results'[r] /\ old = results[r]
  OBVIOUS
<1>12. /\ now \in Seq(ChunkFed(r)) /\ Len(now) = Len(old) + l
       /\ \A i \in 1..Len(old) : \E j \in 1..Len(now) : now[j] = old[i]
       /\ \A i \in 1..l : \E j \in 1..Len(now) : now[j] = Added(r)[i]
  <2>1. PICK added : added = Added(r) /\ added \in Seq(ChunkFed(r))
    BY <1>5
  <2>2. old \in Seq(ChunkFed(r)) /\ now = old \o added
    BY <1>2, <1>10, <1>11, <2>1
  <2>3. /\ old \o added \in Seq(ChunkFed(r)) /\ Len(old \o added) = Len(old) + Len(added)
        /\ Holds(old \o added, old) /\ Holds(old \o added, added)
    BY <2>1, <2>2, LongerKeeps
  <2> QED
    BY <1>5, <2>1, <2>2, <2>3 DEF Holds
<1>13. \A i : Fed(i)' = Fed(i)
  BY <1>2 DEF Fed
<1>14. InHand(r)' = InHand(r) /\ CutOf(r)' = cut
  BY <1>2, <1>6, SameLogs
<1>15. ChunkFed(r)' = ChunkFed(r) /\ \A p : RowOf(r, p)' = RowOf(r, p)
  BY <1>2 DEF ChunkFed, Fed, RowOf
<1>16. \A i : HasFed(r, i) => HasFed(r, i)'
  BY <1>11, <1>12, <1>13, SMTT(30) DEF HasFed
<1>17. \A j \in 1..l : HasFed(r, InHand(r)[cut[m][j]])'
  <2> SUFFICES ASSUME NEW j \in 1..l PROVE HasFed(r, InHand(r)[cut[m][j]])'
    OBVIOUS
  <2>1. PICK i : i = InHand(r)[cut[m][j]] /\ InHand(r)'[cut[m][j]] = i
    BY <1>14
  <2>2. Added(r)[j] = Fed(i)
    BY <1>5, <1>6, <2>1
  <2>3. \E p \in 1..Len(now) : now[p] = Fed(i)
    BY <1>12, <2>2
  <2>4. Fed(InHand(r)[cut[m][j]])' = Fed(i)
    BY <1>2, <2>1 DEF Fed
  <2> QED
    BY <1>11, <2>3, <2>4 DEF HasFed
<1>18. \A i \in 1..m : \A j \in 1..Len(cut[i]) : HasFed(r, InHand(r)[cut[i][j]])'
  <2> SUFFICES ASSUME NEW i \in 1..m, NEW j \in 1..Len(cut[i])
               PROVE  HasFed(r, InHand(r)[cut[i][j]])'
    OBVIOUS
  <2>1. i \in 1..(m - 1) \/ i = m
    BY <1>7
  <2>2. CASE i \in 1..(m - 1)
    BY <1>10, <1>14, <1>16, <2>2
  <2>3. CASE i = m
    BY <1>4, <1>6, <1>17, <2>3
  <2> QED
    BY <2>1, <2>2, <2>3
<1>19. \A p \in 1..s : HasFed(r, RowOf(r, p))'
  BY <1>10, <1>15, <1>16
<1>20. CASE m = k
  <2>1. Before(cut, m) + l = n
    BY <1>4, <1>6, <1>7, <1>8, <1>20 DEF PartsFollow
  <2>2. pc'[r] = "optimize" /\ Reach(r)' = s + n
    BY <1>2, <1>3, <1>6, <1>7, <1>9, <1>20 DEF Reach
  <2>3. Len(now) = s + n
    <3>1. Before(cut, m) \in Nat
      BY <1>7, <1>8 DEF PartsFollow
    <3> QED
      BY <1>5, <1>10, <1>11, <1>12, <2>1, <3>1
  <2>4. \A q \in 1..n : HasFed(r, RowOf(r, s + q))'
    <3> SUFFICES ASSUME NEW q \in 1..n PROVE HasFed(r, RowOf(r, s + q))'
      OBVIOUS
    <3>1. PICK i \in 1..k : \E j \in 1..Len(cut[i]) : cut[i][j] = q
      BY <1>8 DEF ShareRows
    <3>2. PICK j \in 1..Len(cut[i]) : cut[i][j] = q
      BY <3>1
    <3>3. HasFed(r, InHand(r)[cut[i][j]])'
      BY <1>18, <1>20, <3>2
    <3>4. InHand(r)[q] = RowOf(r, s + q)
      BY <1>9
    <3>5. Fed(InHand(r)[q])' = Fed(RowOf(r, s + q))'
      BY <1>14, <1>15, <3>4 DEF Fed
    <3> QED
      BY <3>2, <3>3, <3>5 DEF HasFed
  <2>5. \A p \in 1..(s + n) : HasFed(r, RowOf(r, p))'
    <3> SUFFICES ASSUME NEW p \in 1..(s + n) PROVE HasFed(r, RowOf(r, p))'
      OBVIOUS
    <3>1. p \in 1..s \/ (p - s \in 1..n /\ s + (p - s) = p)
      OBVIOUS
    <3>2. CASE p - s \in 1..n /\ s + (p - s) = p
      <4>1. PICK q \in 1..n : s + q = p
        BY <3>2
      <4> QED
        BY <2>4, <4>1
    <3> QED
      BY <1>19, <3>1, <3>2
  <2> QED
    BY <1>11, <1>12, <1>15, <2>2, <2>3, <2>5 DEF UpdateResults
<1>21. CASE m # k
  <2>1. Before(cut, m + 1) = Before(cut, m) + l
    BY <1>4, <1>6, <1>7, <1>8, <1>21 DEF PartsFollow
  <2>2. pc'[r] = "forward" /\ Reach(r)' = s /\ micro'[r] = m
    BY <1>2, <1>3, <1>7, <1>9, <1>21 DEF Reach
  <2>3. Len(now) = s + Before(cut, m + 1)
    <3>1. Before(cut, m) \in Nat
      BY <1>7, <1>8 DEF PartsFollow
    <3> QED
      BY <1>5, <1>10, <1>11, <1>12, <2>1, <3>1
  <2> QED
    BY <1>11, <1>12, <1>14, <1>15, <1>18, <1>19, <2>2, <2>3 DEF UpdateResults
<1> QED
  BY <1>20, <1>21

LEMMA UsedKept ==
  ASSUME UsedInv, NEW r \in Ranks, Rank(r), NEW q \in Ranks, q # r
  PROVE  UpdateResults(q)'
<1>1. Kept(q)
  BY OthersKept DEF UsedInv, CollectedInv, TogetherInv
<1>2. UNCHANGED <<full, phase>> /\ data' = data /\ Size' = Size /\ Width' = Width
  BY DriverKept DEF driverVars
<1>3. InHand(q)' = InHand(q) /\ CutOf(q)' = CutOf(q)
  BY <1>1, <1>2, SameLogs DEF Kept
<1>4. Reach(q)' = Reach(q)
  BY <1>1, <1>2 DEF Reach, Kept
<1>5. ChunkFed(q)' = ChunkFed(q)
  BY <1>2 DEF ChunkFed, Fed, RowOf
<1>6. \A p : HasFed(q, RowOf(q, p))' <=> HasFed(q, RowOf(q, p))
  BY <1>1, <1>2 DEF HasFed, Fed, RowOf, Kept
<1>7. \A p : HasFed(q, InHand(q)[p])' <=> HasFed(q, InHand(q)[p])
  BY <1>1, <1>2, <1>3 DEF HasFed, Fed, Kept
<1> QED
  BY <1>1, <1>2, <1>3, <1>4, <1>5, <1>6, <1>7 DEF UpdateResults, UsedInv, Kept

\* The steps in which a rank uses no row.
LEMMA UsedElse ==
  ASSUME UsedInv, NEW r \in Ranks,
         CountMicroBatches(r) \/ CutMicroBatches(r) \/ OptimizerStep(r)
  PROVE  UpdateResults(r)'
<1>1. /\ UNCHANGED <<full, phase>> /\ data' = data /\ Size' = Size /\ Width' = Width
      /\ Minis' = Minis
  <2>1. Rank(r)
    BY DEF Rank
  <2> QED
    BY <2>1, DriverKept DEF driverVars
<1>2. results' = results
  BY DEF CountMicroBatches, CutMicroBatches, OptimizerStep
<1>3. ChunkFed(r)' = ChunkFed(r)
  BY <1>1 DEF ChunkFed, Fed, RowOf
<1>4. \A p : HasFed(r, RowOf(r, p))' <=> HasFed(r, RowOf(r, p))
  BY <1>1, <1>2 DEF HasFed, Fed, RowOf
<1> SUFFICES ASSUME phase = "update" PROVE UpdateResults(r)'
  BY <1>1 DEF UpdateResults
<1>5. phase \in Calls
  BY DEF Calls
<1>6. CASE CountMicroBatches(r)
  <2>1. pc[r] = "start" /\ pc'[r] = "reduce" /\ mini' = mini
    BY <1>6 DEF CountMicroBatches, UsedInv, CollectedInv, TogetherInv, RankTypes
  <2>2. Reach(r)' = Reach(r)
    BY <1>1, <2>1 DEF Reach
  <2> QED
    BY <1>1, <1>2, <1>3, <1>4, <2>1, <2>2 DEF UpdateResults, UsedInv
<1>7. CASE CutMicroBatches(r)
  <2>1. pc[r] = "reduce" /\ pc'[r] = "forward" /\ micro'[r] = 0 /\ mini' = mini
    BY <1>7 DEF CutMicroBatches, UsedInv, CollectedInv, TogetherInv, RankTypes
  <2>2. Reach(r)' = Reach(r)
    BY <1>1, <2>1 DEF Reach
  <2>3. \A cut : Before(cut, 0 + 1) = 0
    BY DEF Before
  <2>4. 1..0 = {}
    OBVIOUS
  <2>5. /\ results[r] \in Seq(ChunkFed(r)) /\ \A p \in 1..Reach(r) : HasFed(r, RowOf(r, p))
        /\ Len(results[r]) = Reach(r) + 0
    BY <2>1 DEF UpdateResults, UsedInv
  <2> QED
    BY <1>1, <1>2, <1>3, <1>4, <2>1, <2>2, <2>3, <2>4, <2>5 DEF UpdateResults
<1>8. CASE OptimizerStep(r)
  <2>1. TogetherInv /\ mini[r] \in 0..(Minis - 1) /\ pc[r] = "optimize"
    BY <1>5, <1>8, WithinMinis DEF OptimizerStep, UsedInv, CollectedInv, TogetherInv
  <2>2. PICK m \in Nat, minis \in Nat \ {0} :
          m = mini[r] /\ minis = Minis /\ m < minis /\ Len(data[r]) = minis
    <3>1. Len(data[r]) = Minis
      BY <1>5, <2>1, HandSent DEF TogetherInv, CallState
    <3>2. PICK minis \in Nat \ {0} : minis = Minis
      BY <1>5, <2>1, MiniNumbers DEF TogetherInv
    <3>3. mini[r] \in 0..(minis - 1)
      BY <2>1, <3>2
    <3> QED
      BY <3>1, <3>2, <3>3
  <2>3. mini'[r] = m + 1 /\ pc'[r] = IF m + 1 = minis THEN "returned" ELSE "start"
    BY <1>8, <2>1, <2>2 DEF OptimizerStep, TogetherInv, RankTypes
  <2>4. PICK s \in Nat, n \in Nat \ {0} :
          /\ s = Skipped(m + 1, Width) /\ n = PartLength(Size, Width, m + 1)
          /\ IF m + 1 = minis THEN s + n = Size ELSE Skipped(m + 2, Width) = s + n
    BY <1>5, <2>1, <2>2, NextRows
  <2>5. Reach(r) = s + n
    BY <2>1, <2>2, <2>4 DEF Reach
  <2>6. Reach(r)' = s + n
    <3>1. (m + 1) + 1 = m + 2
      OBVIOUS
    <3> QED
      BY <1>1, <2>3, <2>4, <3>1 DEF Reach
  <2>7. /\ results[r] \in Seq(ChunkFed(r)) /\ \A p \in 1..(s + n) : HasFed(r, RowOf(r, p))
        /\ Len(results[r]) = (s + n) + 0
    BY <2>1, <2>5 DEF UpdateResults, UsedInv
  <2>8. pc'[r] # "forward"
    BY <2>3
  <2> QED
    BY <1>1, <1>2, <1>3, <1>4, <2>6, <2>7, <2>8 DEF UpdateResults
<1> QED
  BY <1>6, <1>7, <1>8

LEMMA UsedStart ==
  ASSUME TogetherInv', phase' = "update" => Call("update")
  PROVE  \A r \in Ranks : UpdateResults(r)'
<1> SUFFICES ASSUME phase' = "update", NEW r \in Ranks PROVE UpdateResults(r)'
  BY DEF UpdateResults
<1>1. results'[r] = << >> /\ pc'[r] = "start" /\ mini'[r] = 0
  BY DEF Call, ResetCall, Zero
<1>2. Reach(r)' = 0
  <2>1. PICK width \in Nat : width = Width'
    <3>1. config'.miniBatch \in Nat
      BY ConfigNumbers DEF TogetherInv, Shape
    <3> QED
      BY <3>1 DEF Width
  <2>2. Skipped(0 + 1, width) = 0
    BY DEF Skipped
  <2> QED
    BY <1>1, <2>1, <2>2 DEF Reach
<1> QED
  BY <1>1, <1>2 DEF UpdateResults

LEMMA UsedStep ==
  ASSUME UsedInv, [Next]_vars
  PROVE  UsedInv'
<1>1. CollectedInv'
  BY CollectedStep DEF UsedInv
<1>2. CASE LoadPrompts \/ Driver
  <2>1. phase' = "update" => Call("update")
    BY <1>2 DEF LoadPrompts, Driver, Generate, ScoreBatch, RewardRaises, CollectLogProbs,
       CollectRefLogProbs, ComputeAdvantages, CollectUpdate, EndStep, Call, Proceed
  <2> QED
    BY <1>1, <2>1, UsedStart DEF UsedInv, CollectedInv
<1>3. ASSUME NEW r \in Ranks, Rank(r) PROVE UsedInv'
  <2>1. UpdateResults(r)'
    <3>1. CASE ForwardOnly(r)
      BY <3>1 DEF ForwardOnly, UpdateResults, driverVars
    <3> QED
      BY <1>3, <3>1, UsedBackward, UsedElse DEF Rank
  <2> QED
    BY <1>1, <1>3, <2>1, UsedKept DEF UsedInv
<1>4. CASE UNCHANGED vars
  <2>1. /\ UNCHANGED <<config, batch, full, phase>>
        /\ version' = version /\ UNCHANGED <<pc, data, plan, micro, mini, results>>
    BY <1>4 DEF vars, driverVars, callVars
  <2>2. Size' = Size /\ Width' = Width
    BY <2>1 DEF Size, Width, Count
  <2>3. ASSUME NEW r \in Ranks PROVE UpdateResults(r)'
    <3>1. InHand(r)' = InHand(r) /\ CutOf(r)' = CutOf(r)
      BY <2>1, SameLogs
    <3>2. Reach(r)' = Reach(r) /\ ChunkFed(r)' = ChunkFed(r)
      BY <2>1, <2>2 DEF Reach, ChunkFed, Fed, RowOf
    <3>3. \A p : HasFed(r, RowOf(r, p))' <=> HasFed(r, RowOf(r, p))
      BY <2>1, <2>2 DEF HasFed, Fed, RowOf
    <3>4. \A p : HasFed(r, InHand(r)[p])' <=> HasFed(r, InHand(r)[p])
      BY <2>1, <3>1 DEF HasFed, Fed
    <3> QED
      BY <2>1, <3>1, <3>2, <3>3, <3>4 DEF UpdateResults, UsedInv
  <2> QED
    BY <1>1, <2>3 DEF UsedInv
<1> QED
  BY <1>2, <1>3, <1>4 DEF Next

\* The inductive invariant of the updates.
THEOREM Using == Spec => []UsedInv
<1>1. Init => UsedInv
  <2>1. Init => \A r \in Ranks : UpdateResults(r)
    BY DEF Init, UpdateResults
  <2> QED
    BY <2>1, CollectedStart DEF UsedInv
<1> QED
  BY <1>1, UsedStep, PTL DEF Spec

\* Every ratio of an update is taken against the policy that generated the
\* rollouts, in every mini-batch of every rank.
THEOREM RatioPolicies == Spec => []RatioToRolloutPolicy
<1>1. UsedInv => RatioToRolloutPolicy
  <2> SUFFICES ASSUME UsedInv, phase = "update", NEW r \in Ranks, NEW k \in 1..Len(results[r])
               PROVE  results[r][k].old = full[results[r][k].row].policy
    BY DEF RatioToRolloutPolicy
  <2>1. results[r] \in Seq(ChunkFed(r))
    BY DEF UsedInv, UpdateResults
  <2>2. results[r][k] \in ChunkFed(r)
    BY <2>1
  <2>3. PICK i : results[r][k] = Fed(i)
    BY <2>2 DEF ChunkFed
  <2> QED
    BY <2>3 DEF Fed
<1> QED
  BY <1>1, Using, PTL

\* A number and its quotient.
LEMMA QuotientOfPlace ==
  ASSUME NEW size \in Nat \ {0}, NEW q \in Nat, NEW x \in 0..(size - 1)
  PROVE  (q * size + x) \div size = q
<1>1. PICK d \in Nat, e \in 0..(size - 1) :
        q * size + x = d * size + e /\ d = (q * size + x) \div size
  <2>1. q * size \in Nat
    OBVIOUS
  <2>2. PICK y \in Nat : y = q * size + x
    BY <2>1
  <2>3. y \div size \in Nat /\ y % size \in 0..(size - 1) /\ y = (y \div size) * size + (y % size)
    OBVIOUS
  <2> QED
    BY <2>2, <2>3
<1>2. \A a, b \in Nat : a < b => a * size + size <= b * size
  <2> SUFFICES ASSUME NEW a \in Nat, NEW b \in Nat, a < b PROVE a * size + size <= b * size
    OBVIOUS
  <2>1. (a + 1) * size <= b * size /\ (a + 1) * size = a * size + size
    BY FactorGrows
  <2> QED
    BY <2>1
<1>3. d * size \in Nat /\ q * size \in Nat
  OBVIOUS
<1>4. ~(d < q)
  BY <1>1, <1>2, <1>3
<1>5. ~(q < d)
  BY <1>1, <1>2, <1>3
<1> QED
  BY <1>1, <1>4, <1>5

\* A rank that is through its shard has used every row of it once, however the
\* rows were cut into mini-batches and micro-batches.
THEOREM RowsUsedOnce == Spec => []EachRowOnce
<1>1. UsedInv => EachRowOnce
  <2> SUFFICES ASSUME UsedInv, phase = "update", NEW r \in Ranks, pc[r] = "returned"
               PROVE  /\ Len(results[r]) = Len(full) \div DpSize
                      /\ {results[r][k].row : k \in 1..Len(results[r])}
                           = {i \in Rows : (i - 1) \div (Len(full) \div DpSize) = r - 1}
    BY DEF EachRowOnce
  <2>1. PICK count \in Nat \ {0}, size \in Nat \ {0} :
          /\ count = Count /\ size = Size /\ EqualParts(count, DpSize, size)
          /\ Len(full) = count /\ Rows = 1..count /\ Len(full) \div DpSize = size
    <3>1. Rows = 1..Count /\ Len(full) = Count
      BY RowsCounted, FullLength DEF UsedInv, CollectedInv, TogetherInv
    <3>2. Count \in Nat \ {0} /\ Size \in Nat \ {0} /\ EqualParts(Count, DpSize, Size)
      BY BatchNumbers DEF UsedInv, CollectedInv, TogetherInv
    <3> QED
      BY <3>1, <3>2 DEF Size
  <2>2. /\ results[r] \in Seq(ChunkFed(r)) /\ Len(results[r]) = size
        /\ \A p \in 1..size : HasFed(r, RowOf(r, p))
    <3>1. Reach(r) = size
      BY <2>1 DEF Reach
    <3>2. size + 0 = size
      OBVIOUS
    <3> QED
      BY <3>1, <3>2 DEF UsedInv, UpdateResults
  <2>3. PICK q \in Nat : q = r - 1 /\ q * size \in Nat
    <3>1. r - 1 \in Nat
      BY SizesAssumption DEF Ranks
    <3> QED
      BY <3>1
  <2>4. \A p \in 1..size : RowOf(r, p) = q * size + p /\ RowOf(r, p) \in 1..count
    <3>1. \A p \in 1..size : RowOf(r, p) = q * size + p
      BY <2>1, <2>3 DEF RowOf, Skipped
    <3> QED
      BY <2>1, <3>1, RowPlaces DEF UsedInv, CollectedInv, TogetherInv
  <2>5. \A p \in 1..size : (RowOf(r, p) - 1) \div size = q
    <3> SUFFICES ASSUME NEW p \in 1..size PROVE (RowOf(r, p) - 1) \div size = q
      OBVIOUS
    <3>1. PICK x \in 0..(size - 1) : x = p - 1
      OBVIOUS
    <3>2. RowOf(r, p) - 1 = q * size + x
      BY <2>3, <2>4, <3>1
    <3> QED
      BY <3>2, QuotientOfPlace
  <2>6. \A i \in 1..count : (i - 1) \div size = q => \E p \in 1..size : RowOf(r, p) = i
    <3> SUFFICES ASSUME NEW i \in 1..count, (i - 1) \div size = q
                 PROVE  \E p \in 1..size : RowOf(r, p) = i
      OBVIOUS
    <3>1. PICK y \in Nat : y = i - 1
      OBVIOUS
    <3>2. y % size \in 0..(size - 1) /\ y = (y \div size) * size + (y % size)
      OBVIOUS
    <3>3. PICK x \in 0..(size - 1) : y = q * size + x
      BY <3>1, <3>2
    <3>4. x + 1 \in 1..size /\ q * size + (x + 1) = i
      BY <2>3, <3>1, <3>3
    <3> QED
      BY <2>4, <3>4
  <2>7. ASSUME NEW k \in 1..Len(results[r])
        PROVE  results[r][k].row \in {i \in Rows : (i - 1) \div size = r - 1}
    <3>1. results[r][k] \in ChunkFed(r)
      BY <2>2
    <3>2. PICK p \in 1..size : results[r][k] = Fed(RowOf(r, p))
      BY <2>1, <3>1 DEF ChunkFed
    <3>3. results[r][k].row = RowOf(r, p)
      BY <3>2 DEF Fed
    <3> QED
      BY <2>1, <2>3, <2>4, <2>5, <3>3
  <2>8. ASSUME NEW i \in Rows, (i - 1) \div size = r - 1
        PROVE  \E k \in 1..Len(results[r]) : results[r][k].row = i
    <3>1. PICK p \in 1..size : RowOf(r, p) = i
      BY <2>1, <2>3, <2>6, <2>8
    <3>2. PICK k \in 1..Len(results[r]) : results[r][k] = Fed(i)
      BY <2>2, <3>1 DEF HasFed
    <3> QED
      BY <3>2 DEF Fed
  <2>9. {results[r][k].row : k \in 1..Len(results[r])} = {i \in Rows : (i - 1) \div size = r - 1}
    BY <2>7, <2>8, Zenon
  <2> QED
    BY <2>1, <2>2, <2>9
<1> QED
  BY <1>1, Using, PTL
-----------------------------------------------------------------------------
(***************************************************************************)
(* What belongs to a row                                                   *)
(***************************************************************************)

\* The rows of the prompt that row i is a rollout of.
Copies(n, count, i, rows) ==
  /\ rows \in SUBSET (1..count)
  /\ \A j \in 1..count : j \in rows <=> (j - 1) \div n = (i - 1) \div n

\* The rollouts of a prompt are neighbours, n of them.
LEMMA CopiesOfRow ==
  ASSUME NEW n \in Nat \ {0}, NEW l \in Nat \ {0},
         NEW count \in Nat, count = n * l, NEW i \in 1..count, NEW rows,
         Copies(n, count, i, rows)
  PROVE  Cardinality(rows) = n
<1>2. PICK q \in Nat : q = (i - 1) \div n /\ q + 1 \in 1..l
  <2>1. i \in 1..(n * l)
    OBVIOUS
  <2>2. (i - 1) \div n + 1 \in 1..l
    BY <2>1, RowOfCopy
  <2>3. PICK y \in Nat : y = i - 1
    OBVIOUS
  <2>4. y \div n \in Nat
    OBVIOUS
  <2> QED
    BY <2>2, <2>3, <2>4
<1>3. PICK a \in Nat : a = q * n /\ a + n <= count
  <2>1. (q + 1) * n <= l * n /\ (q + 1) * n = q * n + n /\ l * n = n * l
    BY <1>2, FactorGrows
  <2> QED
    BY <2>1
<1>4. ASSUME NEW j \in 1..count, (j - 1) \div n = q
      PROVE  j \in (a + 1)..(a + n)
  <2>1. PICK y \in Nat : y = j - 1
    OBVIOUS
  <2>2. y % n \in 0..(n - 1) /\ y = (y \div n) * n + (y % n)
    OBVIOUS
  <2>3. y = a + (y % n)
    BY <1>3, <1>4, <2>1, <2>2
  <2> QED
    BY <2>1, <2>2, <2>3
<1>5. ASSUME NEW j \in (a + 1)..(a + n)
      PROVE  j \in 1..count /\ (j - 1) \div n = q
  <2>1. PICK x \in 0..(n - 1) : j = a + x + 1
    <3>1. j - a - 1 \in 0..(n - 1) /\ j = a + (j - a - 1) + 1
      OBVIOUS
    <3> QED
      BY <3>1
  <2>2. j - 1 = q * n + x
    BY <1>3, <2>1
  <2>3. (q * n + x) \div n = q
    BY QuotientOfPlace
  <2> QED
    BY <1>3, <2>2, <2>3
<1>6. rows = (a + 1)..(a + n)
  BY <1>2, <1>4, <1>5 DEF Copies
<1>7. Cardinality((a + 1)..(a + n)) = n
  BY FS_Interval
<1> QED
  BY <1>6, <1>7

\* Positions of n columns of a prompt and all of a response.
InputPositions(positions, width, n, length) ==
  /\ DOMAIN positions = (width - n + 1)..(width + length)
  /\ \A c \in DOMAIN positions :
       positions[c] = IF c <= width THEN c - (width - n) - 1 ELSE n + (c - width) - 1

\* The positions of a prompt and a response without a gap between them.
LEMMA PositionsOfInput ==
  ASSUME NEW width \in Nat \ {0}, NEW n \in 1..width, NEW length \in Nat \ {0},
         NEW positions, InputPositions(positions, width, n, length)
  PROVE  /\ Min(DOMAIN positions) >= 1
         /\ \A c \in DOMAIN positions : positions[c] = c - Min(DOMAIN positions)
<1>2. PICK first \in Nat : first = width - n + 1 /\ first >= 1
  OBVIOUS
<1>3. first \in DOMAIN positions /\ \A c \in DOMAIN positions : c \in Int /\ first <= c
  BY <1>2 DEF InputPositions
<1>4. Min(DOMAIN positions) \in DOMAIN positions
      /\ \A c \in DOMAIN positions : Min(DOMAIN positions) <= c
  BY <1>3 DEF Min
<1>5. Min(DOMAIN positions) = first
  BY <1>3, <1>4
<1>6. ASSUME NEW c \in DOMAIN positions PROVE positions[c] = c - first
  BY <1>2 DEF InputPositions
<1> QED
  BY <1>2, <1>5, <1>6

LEMMA RefPromptFits ==
  ASSUME NEW row \in FullRows
  PROVE  RefPrompt(row) \in Nat /\ RefPrompt(row) >= 1 /\ RefPrompt(row) <= PromptLength
<1>1. PICK s \in Samples : s = row.sample
  BY DEF FullRows
<1>2. s.prompt \in 1..PromptLength /\ s.promptRef \in Nat /\ PromptLength \in Nat \ {0}
  BY SizesAssumption DEF Samples
<1> QED
  BY <1>1, <1>2 DEF RefPrompt

\* Whatever the trainer keeps of a row is about that row: each row joins a
\* prompt with a response to that prompt, of which there are n and none from
\* the padding; log-probs that went through the micro-batches are back at their
\* row and of the policy that generated it; and the response continues the
\* clean prompt without a gap, also when that is cut.
THEOREM RowsKeepTogether == Spec => []RowsStayTogether
<1>1. ASSUME CollectedInv, phase \notin {"next", "rollout"}
      PROVE  RowsStayTogether
  <2>1. PICK count \in Nat \ {0}, n \in Nat \ {0}, l \in Nat \ {0} :
          count = Count /\ n = config.n /\ l = Len(batch) /\ count = n * l
    BY <1>1, BatchNumbers DEF Count, CollectedInv, TogetherInv
  <2>2. Rows = 1..count /\ Len(full) = count
    BY <1>1, <2>1, RowsCounted, FullLength DEF CollectedInv, TogetherInv
  <2>3. \A i \in 1..count : /\ full[i] \in FullRows /\ full[i].slot = i
                            /\ full[i].source = full[i].uid
                            /\ full[i].uid = (i - 1) \div n + 1
    BY <1>1, <2>1 DEF CollectedInv, TogetherInv, Shape, FullJoined
  <2>4. ASSUME NEW i \in 1..count PROVE Cardinality(GroupOf(i)) = n
    <3>1. \A j \in 1..count : (j - 1) \div n \in Int
      BY <2>1
    <3>2. PICK rows : rows = GroupOf(i)
      OBVIOUS
    <3>3. \A j \in 1..count : full[j].uid = full[i].uid <=> (j - 1) \div n = (i - 1) \div n
      BY <2>3, <3>1
    <3>4. Copies(n, count, i, rows)
      BY <2>2, <3>2, <3>3 DEF GroupOf, Copies
    <3>5. Cardinality(rows) = n
      BY <2>1, <3>4, CopiesOfRow
    <3> QED
      BY <3>2, <3>5
  <2>5. ResponsesOfOwnPrompt
    <3>1. \A i \in 1..count : i <= count
      OBVIOUS
    <3> QED
      BY <2>1, <2>2, <2>3, <2>4, <3>1 DEF ResponsesOfOwnPrompt
  <2>6. LogProbsOfOwnRow
    <3>1. OldKept /\ RefKept
      BY <1>1 DEF CollectedInv, Collected
    <3> QED
      BY <2>1, <2>2, <3>1 DEF LogProbsOfOwnRow, OldKept, RefKept
  <2>7. RefPositionsContiguous
    <3> SUFFICES ASSUME NEW i \in Rows
                 PROVE  /\ Min(DOMAIN RefPositions(full[i])) >= 1
                        /\ \A c \in DOMAIN RefPositions(full[i]) :
                             RefPositions(full[i])[c] = c - Min(DOMAIN RefPositions(full[i]))
      BY DEF RefPositionsContiguous
    <3>1. PICK row \in FullRows : row = full[i]
      BY <2>2, <2>3
    <3>2. PICK width \in Nat \ {0}, m \in Nat :
            width = PromptLength /\ m = RefPrompt(row) /\ m \in 1..width
      BY RefPromptFits, SizesAssumption
    <3>3. PICK length \in Nat \ {0} : length = row.outcome.length
      <4>1. row.outcome \in Outcomes
        BY DEF FullRows
      <4> QED
        BY <4>1 DEF Outcomes
    <3>4. PICK positions : positions = RefPositions(row)
      OBVIOUS
    <3>5. InputPositions(positions, width, m, length)
      BY <3>2, <3>3, <3>4 DEF RefPositions, InputPositions
    <3>6. /\ Min(DOMAIN positions) >= 1
          /\ \A c \in DOMAIN positions : positions[c] = c - Min(DOMAIN positions)
      BY <3>2, <3>3, <3>5, PositionsOfInput
    <3> QED
      BY <3>1, <3>4, <3>6
  <2> QED
    BY <2>5, <2>6, <2>7 DEF RowsStayTogether
<1>2. ASSUME CollectedInv, phase \in {"next", "rollout"}
      PROVE  RowsStayTogether
  <2>1. full = << >> /\ refLogProbs = << >>
    BY <1>2 DEF CollectedInv, TogetherInv, Shape, Collected, RefKept
  <2>2. Rows = {}
    BY <2>1 DEF Rows
  <2> QED
    BY <1>2, <2>1, <2>2 DEF RowsStayTogether, ResponsesOfOwnPrompt, LogProbsOfOwnRow,
       RefPositionsContiguous
<1>3. CollectedInv => RowsStayTogether
  BY <1>1, <1>2
<1> QED
  BY <1>3, Collecting, PTL
-----------------------------------------------------------------------------
(***************************************************************************)
(* The reward function                                                     *)
(***************************************************************************)

Detectors == {<< >>} \cup {NewDetector(s) : s \in Samples}

\* The i-th entry of each list is about this row.
RightEntry(lists, i, row) ==
  /\ lists.valid[i] = TrueValid(row)
  /\ lists.valid[i] => lists.z[i] = TrueScore(row) /\ lists.score[i] = TrueScore(row)
  /\ lists.hack[i] = 1 => TrueValid(row) /\ TrueScore(row) = 0
  /\ lists.detector[i] \in {<< >>, NewDetector(row.sample)}

\* The lists after n rows.
ListsOf(lists, n) ==
  /\ lists.z \in Seq(Int) /\ Len(lists.z) = n
  /\ lists.valid \in Seq(BOOLEAN) /\ Len(lists.valid) = n
  /\ lists.hack \in Seq({0, 1}) /\ Len(lists.hack) = n
  /\ lists.score \in Seq(Int) /\ Len(lists.score) = n
  /\ lists.detector \in Seq(Detectors) /\ Len(lists.detector) = n

RightLists(lists, rows, n) == ListsOf(lists, n) /\ \A i \in 1..n : RightEntry(lists, i, rows[i])

\* Whoever asks the cache gets the detector of its own parameters.
OwnDetectors(detectors) ==
  \A s \in Samples : DetectorKey(s) \in DOMAIN detectors =>
                       detectors[DetectorKey(s)] = NewDetector(s)

\* The key of the cache leaves nothing out that a detector depends on.
LEMMA KeyDecides ==
  ASSUME NEW s \in Samples, NEW t \in Samples, DetectorKey(s) = DetectorKey(t)
  PROVE  NewDetector(s) = NewDetector(t)
<1>1. s.task \in {"green", "initials", "acrostics"} /\ t.task \in {"green", "initials", "acrostics"}
  BY DEF Samples
<1>2. \A u \in Samples : Len(DetectorKey(u)) = IF u.task = "acrostics" THEN 2 ELSE 3
  BY DEF DetectorKey
<1>3. s.task = "acrostics" <=> t.task = "acrostics"
  BY <1>2
<1>4. CASE s.task = "acrostics"
  BY <1>3, <1>4 DEF DetectorKey, NewDetector
<1>5. CASE s.task # "acrostics"
  <2>1. s.task = t.task /\ s.seed = t.seed /\ s.fraction = t.fraction
    BY <1>3, <1>5 DEF DetectorKey
  <2> QED
    BY <1>1, <1>5, <2>1 DEF NewDetector
<1> QED
  BY <1>4, <1>5

\* The detector for a row, found or built, and the cache with it.
DetectorFor(detectors, s) ==
  IF DetectorKey(s) \in DOMAIN detectors THEN detectors[DetectorKey(s)] ELSE NewDetector(s)
Extends(more, detectors, s, found) ==
  /\ DOMAIN more = DOMAIN detectors \cup {DetectorKey(s)}
  /\ \A k \in DOMAIN more : more[k] = IF k = DetectorKey(s) THEN found ELSE detectors[k]

LEMMA DetectorAdded ==
  ASSUME NEW detectors, OwnDetectors(detectors), NEW s \in Samples, NEW more,
         Extends(more, detectors, s, DetectorFor(detectors, s))
  PROVE  DetectorFor(detectors, s) = NewDetector(s) /\ OwnDetectors(more)
<1>1. DetectorFor(detectors, s) = NewDetector(s)
  BY DEF OwnDetectors, DetectorFor
<1>2. ASSUME NEW t \in Samples, DetectorKey(t) \in DOMAIN more
      PROVE  more[DetectorKey(t)] = NewDetector(t)
  <2>1. CASE DetectorKey(t) = DetectorKey(s)
    BY <1>1, <1>2, <2>1, KeyDecides DEF Extends
  <2>2. CASE DetectorKey(t) # DetectorKey(s)
    <3>1. DetectorKey(t) \in DOMAIN detectors /\ more[DetectorKey(t)] = detectors[DetectorKey(t)]
      BY <1>2, <2>2 DEF Extends
    <3> QED
      BY <3>1 DEF OwnDetectors
  <2> QED
    BY <2>1, <2>2
<1> QED
  BY <1>1, <1>2 DEF OwnDetectors

\* What a list is with one more entry.
OneMore(S, n, list, e, longer) ==
  /\ longer \in Seq(S) /\ Len(longer) = n + 1 /\ longer[n + 1] = e
  /\ \A i \in 1..n : longer[i] = list[i]

LEMMA AppendEntry ==
  ASSUME NEW S, NEW n \in Nat, NEW list \in Seq(S), Len(list) = n, NEW e \in S
  PROVE  OneMore(S, n, list, e, Append(list, e))
  BY DEF OneMore

\* One more entry of every list.
LEMMA EntryAdded ==
  ASSUME NEW n \in Nat, NEW lists, ListsOf(lists, n), NEW more,
         NEW z \in Int, NEW valid \in BOOLEAN, NEW hack \in {0, 1}, NEW score \in Int,
         NEW detector \in Detectors,
         more.z = Append(lists.z, z), more.valid = Append(lists.valid, valid),
         more.hack = Append(lists.hack, hack), more.score = Append(lists.score, score),
         more.detector = Append(lists.detector, detector)
  PROVE  /\ ListsOf(more, n + 1)
         /\ OneMore(Int, n, lists.z, z, more.z)
         /\ OneMore(BOOLEAN, n, lists.valid, valid, more.valid)
         /\ OneMore({0, 1}, n, lists.hack, hack, more.hack)
         /\ OneMore(Int, n, lists.score, score, more.score)
         /\ OneMore(Detectors, n, lists.detector, detector, more.detector)
<1>1. OneMore(Int, n, lists.z, z, more.z)
  BY AppendEntry DEF ListsOf
<1>2. OneMore(BOOLEAN, n, lists.valid, valid, more.valid)
  BY AppendEntry DEF ListsOf
<1>3. OneMore({0, 1}, n, lists.hack, hack, more.hack)
  <2>1. lists.hack \in Seq({0, 1}) /\ Len(lists.hack) = n
    BY DEF ListsOf
  <2>2. OneMore({0, 1}, n, lists.hack, hack, Append(lists.hack, hack))
    BY <2>1, AppendEntry
  <2> QED
    BY <2>2
<1>4. OneMore(Int, n, lists.score, score, more.score)
  BY AppendEntry DEF ListsOf
<1>5. OneMore(Detectors, n, lists.detector, detector, more.detector)
  BY AppendEntry DEF ListsOf
<1>6. ListsOf(more, n + 1)
  BY <1>1, <1>2, <1>3, <1>4, <1>5 DEF ListsOf, OneMore
<1> QED
  BY <1>1, <1>2, <1>3, <1>4, <1>5, <1>6

\* One round of the loop keeps the lists together in each of its branches, and
\* the cache sound.
LEMMA RowScored ==
  ASSUME NEW rows \in Seq(FullRows), NEW n \in Nat, n + 1 \in 1..Len(rows), NEW lists,
         RightLists(lists, rows, n), OwnDetectors(lists.cache)
  PROVE  /\ RightLists(ScoreRow(lists, rows[n + 1]), rows, n + 1)
         /\ OwnDetectors(ScoreRow(lists, rows[n + 1]).cache)
<1>1. PICK row \in FullRows : row = rows[n + 1]
  OBVIOUS
<1>2. /\ row.sample \in Samples /\ row.outcome \in Outcomes
      /\ row.outcome.length \in Nat /\ row.outcome.z \in Int /\ MinLen \in Nat
  <2>1. row.sample \in Samples /\ row.outcome \in Outcomes
    BY DEF FullRows
  <2> QED
    BY <2>1, SizesAssumption DEF Outcomes
<1> DEFINE short == row.outcome.length < MinLen
           hack == ~short /\ row.sample.task = "acrostics" /\ row.outcome.text = "hack"
           key == DetectorKey(row.sample)
           found == DetectorFor(lists.cache, row.sample)
           worth == IF hack \/ row.outcome.text = "breaks" THEN 0 ELSE row.outcome.z
           z == IF short THEN -1000000 ELSE worth
           flag == IF hack THEN 1 ELSE 0
           score == IF short THEN 0 ELSE worth
           detector == IF ~short /\ ~hack THEN found ELSE << >>
           added == [k \in DOMAIN lists.cache \cup {key} |->
                       IF k = key THEN found ELSE lists.cache[k]]
<1>3. PICK more : more = ScoreRow(lists, row)
  OBVIOUS
<1>4. more = [z |-> Append(lists.z, z), valid |-> Append(lists.valid, ~short),
              hack |-> Append(lists.hack, flag), score |-> Append(lists.score, score),
              detector |-> Append(lists.detector, detector),
              cache |-> IF ~short /\ ~hack THEN added ELSE lists.cache]
  BY <1>3, SMT DEF ScoreRow, DetectorFor
<1>5. found = NewDetector(row.sample) /\ OwnDetectors(added)
  <2>1. Extends(added, lists.cache, row.sample, found)
    BY SMT DEF Extends
  <2> QED
    BY <1>2, <2>1, DetectorAdded, SMT
<1>6. OwnDetectors(more.cache)
  <2> HIDE DEF short, hack, found, z, flag, score, detector, added
  <2>1. more.cache = IF ~short /\ ~hack THEN added ELSE lists.cache
    BY <1>4
  <2> QED
    BY <1>5, <2>1
<1>7. /\ z \in Int /\ (~short) \in BOOLEAN /\ flag \in {0, 1} /\ score \in Int
      /\ detector \in Detectors
  <2>1. NewDetector(row.sample) \in Detectors /\ << >> \in Detectors
    BY <1>2, SMT DEF Detectors
  <2> QED
    BY <1>2, <1>5, <2>1, SMT
<1>8. /\ short <=> ~TrueValid(row)
      /\ ~short => z = TrueScore(row) /\ score = TrueScore(row)
      /\ flag = 1 => ~short /\ TrueScore(row) = 0
      /\ detector \in {<< >>, NewDetector(row.sample)}
  BY <1>2, <1>5, SMT DEF TrueValid, TrueScore
<1> HIDE DEF short, hack, found, worth, z, flag, score, detector, added
<1>9. /\ ListsOf(more, n + 1)
      /\ OneMore(Int, n, lists.z, z, more.z)
      /\ OneMore(BOOLEAN, n, lists.valid, ~short, more.valid)
      /\ OneMore({0, 1}, n, lists.hack, flag, more.hack)
      /\ OneMore(Int, n, lists.score, score, more.score)
      /\ OneMore(Detectors, n, lists.detector, detector, more.detector)
  <2>1. /\ more.z = Append(lists.z, z) /\ more.valid = Append(lists.valid, ~short)
        /\ more.hack = Append(lists.hack, flag) /\ more.score = Append(lists.score, score)
        /\ more.detector = Append(lists.detector, detector)
    BY <1>4
  <2> QED
    BY <1>7, <2>1, EntryAdded DEF RightLists
<1>10. RightEntry(more, n + 1, row)
  <2>1. /\ more.z[n + 1] = z /\ more.valid[n + 1] = (~short) /\ more.hack[n + 1] = flag
        /\ more.score[n + 1] = score /\ more.detector[n + 1] = detector
    BY <1>9 DEF OneMore
  <2>2. TrueValid(row) \in BOOLEAN
    BY DEF TrueValid
  <2> QED
    BY <1>7, <1>8, <2>1, <2>2 DEF RightEntry
<1>11. ASSUME NEW i \in 1..n PROVE RightEntry(more, i, rows[i])
  <2>1. /\ more.z[i] = lists.z[i] /\ more.valid[i] = lists.valid[i]
        /\ more.hack[i] = lists.hack[i] /\ more.score[i] = lists.score[i]
        /\ more.detector[i] = lists.detector[i]
    BY <1>9 DEF OneMore
  <2>2. RightEntry(lists, i, rows[i])
    BY DEF RightLists
  <2> QED
    BY <2>1, <2>2 DEF RightEntry
<1>12. \A i \in 1..(n + 1) : i \in 1..n \/ i = n + 1
  OBVIOUS
<1> QED
  BY <1>1, <1>3, <1>6, <1>9, <1>10, <1>11, <1>12 DEF RightLists

\* The lists after each round of the loop.
NoLists == [z |-> << >>, valid |-> << >>, hack |-> << >>, score |-> << >>,
            detector |-> << >>, cache |-> cache]
Round(rows, after, n) == IF n = 0 THEN NoLists ELSE ScoreRow(after[n - 1], rows[n])
Rounds(rows, m, after) == after = [n \in 0..m |-> Round(rows, after, n)]
AfterRounds(rows) == CHOOSE after : Rounds(rows, Len(rows), after)

LEMMA ScoreRowsIsLast == \A rows : ScoreRows(rows) = AfterRounds(rows)[Len(rows)]
  BY DEF ScoreRows, AfterRounds, Rounds, Round, NoLists

LEMMA RoundsExist ==
  ASSUME NEW rows, NEW l \in Nat, Len(rows) = l
  PROVE  Rounds(rows, l, AfterRounds(rows))
<1> DEFINE T == {m \in Nat : \E g : Rounds(rows, m, g)}
<1>1. 0 \in T
  <2> DEFINE g == [n \in 0..0 |-> NoLists]
  <2>1. Rounds(rows, 0, g)
    BY DEF Rounds, Round
  <2> QED
    BY <2>1
<1>2. ASSUME NEW m \in Nat, m \in T PROVE m + 1 \in T
  <2>1. PICK g : Rounds(rows, m, g)
    BY <1>2
  <2> DEFINE h == [n \in 0..(m + 1) |-> IF n = m + 1 THEN ScoreRow(g[m], rows[m + 1]) ELSE g[n]]
  <2>2. \A n \in 0..m : g[n] = Round(rows, g, n)
    <3>1. g = [n \in 0..m |-> Round(rows, g, n)]
      BY <2>1 DEF Rounds
    <3> QED
      BY <3>1, Zenon
  <2>3. \A n \in 0..m : h[n] = g[n]
    OBVIOUS
  <2>4. h[m + 1] = ScoreRow(g[m], rows[m + 1])
    OBVIOUS
  <2>5. h = [n \in 0..(m + 1) |-> h[n]]
    OBVIOUS
  <2> HIDE DEF h
  <2>6. ASSUME NEW n \in 0..(m + 1) PROVE h[n] = Round(rows, h, n)
    <3>1. CASE n = m + 1
      <4>1. n # 0 /\ n - 1 = m /\ m \in 0..m
        BY <3>1
      <4> QED
        BY <2>3, <2>4, <3>1, <4>1 DEF Round
    <3>2. CASE n # m + 1
      <4>1. n \in 0..m /\ (n # 0 => n - 1 \in 0..m)
        BY <3>2
      <4> QED
        BY <2>2, <2>3, <4>1 DEF Round
    <3> QED
      BY <3>1, <3>2
  <2>7. Rounds(rows, m + 1, h)
    BY <2>5, <2>6 DEF Rounds
  <2>8. m + 1 \in Nat
    OBVIOUS
  <2> QED
    BY <2>7, <2>8
<1>3. l \in T
  <2> HIDE DEF T
  <2> QED
    BY <1>1, <1>2, Induction
<1>4. \E g : Rounds(rows, l, g)
  BY <1>3
<1> QED
  BY <1>4 DEF AfterRounds

\* Whatever branch each row takes, the lists that are returned have one entry
\* for each row, about that row.
LEMMA RowsScored ==
  ASSUME NEW rows \in Seq(FullRows), OwnDetectors(cache)
  PROVE  /\ RightLists(ScoreRows(rows), rows, Len(rows))
         /\ OwnDetectors(ScoreRows(rows).cache)
<1>1. PICK l \in Nat : l = Len(rows)
  OBVIOUS
<1>2. PICK after : after = AfterRounds(rows)
  OBVIOUS
<1>3. \A n \in 0..l : after[n] = Round(rows, after, n)
  <2>1. after = [n \in 0..l |-> Round(rows, after, n)]
    BY <1>1, <1>2, RoundsExist DEF Rounds
  <2> QED
    BY <2>1, Zenon
<1> DEFINE T == {n \in Nat : n <= l => /\ RightLists(after[n], rows, n)
                                       /\ OwnDetectors(after[n].cache)}
<1>4. 0 \in T
  <2>1. after[0] = NoLists
    BY <1>3 DEF Round
  <2>2. PICK lists : lists = after[0]
    OBVIOUS
  <2>3. /\ lists.z = << >> /\ lists.valid = << >> /\ lists.hack = << >> /\ lists.score = << >>
        /\ lists.detector = << >> /\ lists.cache = cache
    BY <2>1, <2>2 DEF NoLists
  <2>4. ListsOf(lists, 0)
    BY <2>3 DEF ListsOf
  <2>5. \A i \in 1..0 : RightEntry(lists, i, rows[i])
    OBVIOUS
  <2> QED
    BY <2>2, <2>3, <2>4, <2>5 DEF RightLists
<1>5. ASSUME NEW n \in Nat, n \in T PROVE n + 1 \in T
  <2>1. n + 1 \in Nat
    OBVIOUS
  <2> SUFFICES ASSUME n + 1 <= l
               PROVE  RightLists(after[n + 1], rows, n + 1) /\ OwnDetectors(after[n + 1].cache)
    BY <2>1
  <2>2. RightLists(after[n], rows, n) /\ OwnDetectors(after[n].cache)
    BY <1>5
  <2>3. n + 1 \in 0..l /\ n + 1 # 0 /\ (n + 1) - 1 = n /\ n + 1 \in 1..Len(rows)
    BY <1>1
  <2>4. after[n + 1] = ScoreRow(after[n], rows[n + 1])
    BY <1>3, <2>3 DEF Round
  <2> QED
    BY <2>2, <2>3, <2>4, RowScored
<1>6. l \in T
  <2> HIDE DEF T
  <2> QED
    BY <1>4, <1>5, Induction
<1>7. ScoreRows(rows) = after[l]
  BY <1>1, <1>2, ScoreRowsIsLast
<1> QED
  BY <1>1, <1>6, <1>7

\* The lists of the reward function are about the rows of the batch.
RewardKept ==
  Scored => DOMAIN reward = DOMAIN NoReward /\ RightLists(reward, full, Len(full))
RewardedInv == TogetherInv /\ OwnDetectors(cache) /\ RewardKept

LEMMA RewardsComputed ==
  ASSUME RewardedInv, ScoreBatch
  PROVE  OwnDetectors(cache') /\ RewardKept'
<1>1. phase = "reward" /\ full' = full
  BY DEF ScoreBatch
<1>2. full \in Seq(FullRows)
  <2>1. PICK count \in Nat \ {0} : count = Count
    BY <1>1, BatchNumbers DEF RewardedInv, TogetherInv
  <2>2. full \in [1..count -> FullRows]
    BY <1>1, <2>1 DEF RewardedInv, TogetherInv, Shape, FullJoined
  <2> QED
    BY <2>1, <2>2
<1>3. PICK lists : lists = ScoreRows(full)
  OBVIOUS
<1>4. RightLists(lists, full, Len(full)) /\ OwnDetectors(lists.cache)
  BY <1>2, <1>3, RowsScored DEF RewardedInv
<1>5. reward' = [k \in DOMAIN NoReward |-> lists[k]] /\ cache' = lists.cache
  BY <1>3 DEF ScoreBatch
<1>6. DOMAIN NoReward = {"z", "valid", "hack", "score", "detector"}
  BY DEF NoReward
<1>7. /\ DOMAIN reward' = DOMAIN NoReward
      /\ reward'.z = lists.z /\ reward'.valid = lists.valid /\ reward'.hack = lists.hack
      /\ reward'.score = lists.score /\ reward'.detector = lists.detector
  BY <1>5, <1>6
<1>8. RightLists(reward', full, Len(full))
  <2>1. ListsOf(reward', Len(full))
    BY <1>4, <1>7 DEF RightLists, ListsOf
  <2>2. \A i \in 1..Len(full) : RightEntry(reward', i, full[i])
    BY <1>4, <1>7 DEF RightLists, RightEntry
  <2> QED
    BY <2>1, <2>2 DEF RightLists
<1> QED
  BY <1>1, <1>4, <1>5, <1>7, <1>8 DEF RewardKept, Scored

LEMMA RewardedStep ==
  ASSUME RewardedInv, [Next]_vars
  PROVE  RewardedInv'
<1>1. TogetherInv'
  BY TogetherStep DEF RewardedInv
<1>2. CASE ScoreBatch
  BY <1>1, <1>2, RewardsComputed DEF RewardedInv
<1>3. CASE ~ScoreBatch
  <2>1. cache' = cache /\ (Scored' => Scored /\ reward' = reward /\ full' = full)
    <3>1. CASE UNCHANGED vars
      BY <3>1 DEF vars, driverVars, Scored
    <3>2. CASE LoadPrompts \/ Generate \/ RewardRaises \/ EndStep
      BY <3>2 DEF LoadPrompts, Generate, RewardRaises, EndStep, Scored
    <3>3. CASE CollectLogProbs \/ CollectRefLogProbs \/ ComputeAdvantages \/ CollectUpdate
      BY <3>3 DEF CollectLogProbs, CollectRefLogProbs, ComputeAdvantages, CollectUpdate, Scored
    <3>4. CASE \E r \in Ranks : Rank(r)
      BY <3>4, DriverKept DEF driverVars, Scored
    <3> QED
      BY <1>3, <3>1, <3>2, <3>3, <3>4 DEF Next, Driver
  <2>2. RewardKept'
    BY <2>1 DEF RewardedInv, RewardKept
  <2> QED
    BY <1>1, <2>1, <2>2 DEF RewardedInv
<1> QED
  BY <1>2, <1>3

LEMMA RewardedStart ==
  ASSUME Init
  PROVE  RewardedInv
<1>1. phase = "next" /\ cache = << >>
  BY DEF Init
<1>2. OwnDetectors(cache)
  <2>1. DOMAIN cache = {}
    BY <1>1
  <2> QED
    BY <2>1 DEF OwnDetectors
<1>3. RewardKept
  BY <1>1 DEF RewardKept, Scored
<1> QED
  BY <1>2, <1>3, TogetherStart DEF RewardedInv

\* The inductive invariant of the rewards and the detectors.
THEOREM Rewarding == Spec => []RewardedInv
  BY RewardedStart, RewardedStep, PTL DEF Spec

\* A row has the reward of its own text, in whichever place of the batch and
\* whichever branch of the loop, and is judged by the detector of its own
\* parameters although detectors are kept over rows and steps.
THEOREM RewardsAreOwn == Spec => []RewardsOfOwnRow
<1>1. ASSUME RewardedInv, Scored PROVE RewardsOfOwnRow
  <2>1. DOMAIN reward = {"z", "valid", "hack", "score", "detector"}
    BY <1>1 DEF RewardedInv, RewardKept, NoReward
  <2>2. ListsOf(reward, Len(full)) /\ \A i \in Rows : RightEntry(reward, i, full[i])
    BY <1>1 DEF RewardedInv, RewardKept, RightLists, Rows
  <2>3. \A k \in DOMAIN reward : Len(reward[k]) = Len(full)
    BY <2>1, <2>2 DEF ListsOf
  <2>4. RewardListsAligned
    BY <2>2, <2>3 DEF RewardListsAligned, RightEntry
  <2>5. OwnDetector
    BY <2>2 DEF OwnDetector, RightEntry
  <2> QED
    BY <2>4, <2>5 DEF RewardsOfOwnRow
<1>2. ASSUME ~Scored PROVE RewardsOfOwnRow
  BY <1>2 DEF RewardsOfOwnRow, RewardListsAligned, OwnDetector
<1>3. RewardedInv => RewardsOfOwnRow
  BY <1>1, <1>2
<1> QED
  BY <1>3, Rewarding, PTL
-----------------------------------------------------------------------------
(***************************************************************************)
(* Advantages                                                              *)
(***************************************************************************)

\* The sums of the first entries.
RunningSums(n, numbers, sums) ==
  /\ sums \in [0..n -> Int] /\ sums[0] = 0
  /\ \A m \in 0..(n - 1) : sums[m + 1] = sums[m] + numbers[m + 1]

LEMMA LastPlace ==
  ASSUME NEW m \in Nat
  PROVE  /\ m + 1 \in 1..(m + 1) /\ 1..(m + 1) \in SUBSET (1..(m + 1))
         /\ 1..(m + 1) # {} /\ (1..(m + 1)) \ {m + 1} = 1..m
  OBVIOUS

LEMMA TotalRuns ==
  ASSUME NEW n \in Nat, NEW numbers \in [1..n -> Int]
  PROVE  \E sums : RunningSums(n, numbers, sums) /\ Total(numbers) = sums[n]
<1>1. PICK sums : sums = SumsOf(n, numbers)
  OBVIOUS
<1>2. \A s \in SUBSET (1..n) : sums[s] = SumStep(numbers, sums, s)
  <2>1. sums = [s \in SUBSET (1..n) |-> SumStep(numbers, sums, s)]
    BY <1>1, SumsExist DEF Sums
  <2> QED
    BY <2>1, Zenon
<1>3. sums[1..0] = 0
  <2>1. 1..0 \in SUBSET (1..n) /\ 1..0 = {}
    OBVIOUS
  <2> QED
    BY <1>2, <2>1 DEF SumStep
<1>4. ASSUME NEW m \in 0..(n - 1) PROVE sums[1..(m + 1)] = sums[1..m] + numbers[m + 1]
  <2>1. m \in Nat /\ 1..(m + 1) \in SUBSET (1..n)
    OBVIOUS
  <2>2. m + 1 \in 1..(m + 1) /\ 1..(m + 1) \in SUBSET (1..(m + 1))
        /\ 1..(m + 1) # {} /\ (1..(m + 1)) \ {m + 1} = 1..m
    BY <2>1, LastPlace
  <2>3. Max(1..(m + 1)) = m + 1
    BY <2>1, <2>2, LargestPlace
  <2>4. sums[1..(m + 1)] = SumStep(numbers, sums, 1..(m + 1))
    BY <1>2, <2>1
  <2> QED
    BY <2>2, <2>3, <2>4 DEF SumStep
<1> DEFINE T == {m \in Nat : m <= n => sums[1..m] \in Int}
<1>5. 0 \in T
  BY <1>3
<1>6. ASSUME NEW m \in Nat, m \in T PROVE m + 1 \in T
  <2> SUFFICES ASSUME m + 1 <= n PROVE sums[1..(m + 1)] \in Int
    OBVIOUS
  <2>1. m \in 0..(n - 1) /\ m + 1 \in 1..n
    OBVIOUS
  <2> QED
    BY <1>4, <1>6, <2>1
<1>7. \A m \in 0..n : sums[1..m] \in Int
  <2>1. Nat \subseteq T
    <3> HIDE DEF T
    <3> QED
      BY <1>5, <1>6, Induction
  <2> QED
    BY <2>1
<1> DEFINE runs == [m \in 0..n |-> sums[1..m]]
<1>8. RunningSums(n, numbers, runs)
  <2>1. \A m \in 0..(n - 1) : m \in 0..n /\ m + 1 \in 0..n
    OBVIOUS
  <2> QED
    BY <1>3, <1>4, <1>7, <2>1 DEF RunningSums
<1>9. Total(numbers) = runs[n]
  BY <1>1, TotalIsSum
<1> QED
  BY <1>8, <1>9

LEMMA Distribute ==
  ASSUME NEW a \in Int, NEW x \in Int, NEW y \in Int
  PROVE  a * (x + y) = a * x + a * y /\ a * x \in Int /\ a * y \in Int /\ a * 0 = 0
  OBVIOUS

DifferenceOf(n, f, g, h, a, b) == \A i \in 1..n : h[i] = a * f[i] - b * g[i]
DifferenceOfSums(f, g, h, a, b) == Total(h) = a * Total(f) - b * Total(g)

\* A difference of multiples adds up to that of the sums.
LEMMA TotalOfDifference ==
  ASSUME NEW n \in Nat, NEW f \in [1..n -> Int], NEW g \in [1..n -> Int],
         NEW h \in [1..n -> Int], NEW a \in Int, NEW b \in Int,
         DifferenceOf(n, f, g, h, a, b)
  PROVE  DifferenceOfSums(f, g, h, a, b)
<1>1. PICK fs : RunningSums(n, f, fs) /\ Total(f) = fs[n]
  BY TotalRuns
<1>2. PICK gs : RunningSums(n, g, gs) /\ Total(g) = gs[n]
  BY TotalRuns
<1>3. PICK hs : RunningSums(n, h, hs) /\ Total(h) = hs[n]
  BY TotalRuns
<1> DEFINE T == {m \in Nat : m <= n => hs[m] = a * fs[m] - b * gs[m]}
<1>4. 0 \in T
  <2>1. a * 0 = 0 /\ b * 0 = 0
    OBVIOUS
  <2> QED
    BY <1>1, <1>2, <1>3, <2>1 DEF RunningSums
<1>5. ASSUME NEW m \in Nat, m \in T PROVE m + 1 \in T
  <2> SUFFICES ASSUME m + 1 <= n PROVE hs[m + 1] = a * fs[m + 1] - b * gs[m + 1]
    OBVIOUS
  <2>1. m \in 0..(n - 1) /\ m \in 0..n /\ m + 1 \in 1..n
    OBVIOUS
  <2>2. PICK x \in Int, y \in Int, u \in Int, v \in Int :
          x = fs[m] /\ y = f[m + 1] /\ u = gs[m] /\ v = g[m + 1]
    BY <1>1, <1>2, <2>1 DEF RunningSums
  <2>3. fs[m + 1] = x + y /\ gs[m + 1] = u + v
    BY <1>1, <1>2, <2>1, <2>2 DEF RunningSums
  <2>4. hs[m + 1] = (a * x - b * u) + (a * y - b * v)
    <3>1. hs[m + 1] = hs[m] + h[m + 1]
      BY <1>3, <2>1 DEF RunningSums
    <3>2. hs[m] = a * x - b * u
      BY <1>5, <2>2
    <3>3. h[m + 1] = a * y - b * v
      BY <2>1, <2>2 DEF DifferenceOf
    <3> QED
      BY <3>1, <3>2, <3>3
  <2>5. a * (x + y) = a * x + a * y /\ b * (u + v) = b * u + b * v
        /\ a * x \in Int /\ a * y \in Int /\ b * u \in Int /\ b * v \in Int
    BY Distribute
  <2>6. (a * x - b * u) + (a * y - b * v) = a * (x + y) - b * (u + v)
    BY <2>5
  <2> QED
    BY <2>3, <2>4, <2>6
<1>6. n \in T
  <2> HIDE DEF T
  <2> QED
    BY <1>4, <1>5, Induction
<1> QED
  BY <1>1, <1>2, <1>3, <1>6 DEF DifferenceOfSums

\* Counting is adding up ones.
LEMMA TotalOfOnes ==
  ASSUME NEW n \in Nat, NEW rows \in SUBSET (1..n), NEW ones \in [1..n -> Int],
         \A i \in 1..n : ones[i] = IF i \in rows THEN 1 ELSE 0
  PROVE  Total(ones) = Cardinality(rows) /\ Cardinality(rows) \in Nat
<1>1. PICK sums : RunningSums(n, ones, sums) /\ Total(ones) = sums[n]
  BY TotalRuns
<1> DEFINE Upto(m) == rows \cap (1..m)
<1>2. \A m \in Nat : IsFiniteSet(Upto(m))
  <2>1. \A m \in Nat : IsFiniteSet(1..m)
    BY FS_Interval
  <2> QED
    BY <2>1, FS_Subset
<1> DEFINE T == {m \in Nat : m <= n => sums[m] = Cardinality(Upto(m))}
<1>3. 0 \in T
  <2>1. Upto(0) = {}
    OBVIOUS
  <2>2. Cardinality(Upto(0)) = 0
    BY <2>1, FS_EmptySet
  <2> QED
    BY <1>1, <2>2 DEF RunningSums
<1>4. ASSUME NEW m \in Nat, m \in T PROVE m + 1 \in T
  <2> SUFFICES ASSUME m + 1 <= n PROVE sums[m + 1] = Cardinality(Upto(m + 1))
    OBVIOUS
  <2>1. m \in 0..(n - 1) /\ m + 1 \in 1..n
    OBVIOUS
  <2>2. sums[m + 1] = sums[m] + ones[m + 1] /\ sums[m] = Cardinality(Upto(m))
    BY <1>1, <1>4, <2>1 DEF RunningSums
  <2>3. Cardinality(Upto(m)) \in Nat
    BY <1>2, FS_CardinalityType
  <2>4. CASE m + 1 \in rows
    <3>1. Upto(m + 1) = Upto(m) \cup {m + 1} /\ m + 1 \notin Upto(m)
      BY <2>4
    <3>2. Cardinality(Upto(m) \cup {m + 1}) = Cardinality(Upto(m)) + 1
      <4> HIDE DEF Upto
      <4> QED
        BY <1>2, <3>1, FS_AddElement
    <3>3. ones[m + 1] = 1
      BY <2>1, <2>4
    <3> HIDE DEF Upto
    <3> QED
      BY <2>2, <2>3, <3>1, <3>2, <3>3
  <2>5. CASE m + 1 \notin rows
    <3>1. Upto(m + 1) = Upto(m)
      BY <2>5
    <3>2. ones[m + 1] = 0
      BY <2>1, <2>5
    <3> HIDE DEF Upto
    <3> QED
      BY <2>2, <2>3, <3>1, <3>2
  <2> QED
    BY <2>4, <2>5
<1>5. n \in T
  <2> HIDE DEF T
  <2> QED
    BY <1>3, <1>4, Induction
<1>6. Upto(n) = rows
  OBVIOUS
<1>7. Cardinality(Upto(n)) \in Nat
  <2> HIDE DEF Upto
  <2> QED
    BY <1>2, FS_CardinalityType
<1>8. sums[n] = Cardinality(Upto(n))
  <2> HIDE DEF Upto
  <2> QED
    BY <1>5
<1> HIDE DEF Upto
<1> QED
  BY <1>1, <1>6, <1>7, <1>8

AdvantagesKept ==
  phase \in {"update", "end"} =>
    /\ advantages = [i \in Rows |-> Advantage(i)]
    /\ lossMask = [i \in Rows |-> reward.valid[i]]
AdvantagesInv == RewardedInv /\ AdvantagesKept

LEMMA AdvantagesStep ==
  ASSUME AdvantagesInv, [Next]_vars
  PROVE  AdvantagesInv'
<1>1. RewardedInv'
  BY RewardedStep DEF AdvantagesInv
<1>2. ASSUME UNCHANGED <<full, reward>>
      PROVE  Rows' = Rows /\ \A i : Advantage(i)' = Advantage(i)
  <2>1. Rows' = Rows
    BY <1>2 DEF Rows
  <2> QED
    BY <1>2, <2>1 DEF Advantage, ValidOf, GroupOf, SumOver
<1>3. CASE ComputeAdvantages
  <2>1. /\ UNCHANGED <<full, reward>> /\ advantages' = [i \in Rows |-> Advantage(i)]
        /\ lossMask' = [i \in Rows |-> reward.valid[i]]
    BY <1>3 DEF ComputeAdvantages
  <2> QED
    BY <1>1, <1>2, <2>1 DEF AdvantagesInv, AdvantagesKept
<1>4. CASE ~ComputeAdvantages
  <2>1. phase' \in {"update", "end"} =>
          phase \in {"update", "end"} /\ UNCHANGED <<full, reward, advantages, lossMask>>
    <3>1. CASE UNCHANGED vars
      BY <3>1 DEF vars, driverVars
    <3>2. CASE LoadPrompts \/ Generate \/ RewardRaises \/ EndStep
      BY <3>2 DEF LoadPrompts, Generate, RewardRaises, EndStep
    <3>3. CASE ScoreBatch \/ CollectLogProbs \/ CollectRefLogProbs \/ CollectUpdate
      BY <3>3 DEF ScoreBatch, CollectLogProbs, CollectRefLogProbs, CollectUpdate, Call, Proceed
    <3>4. CASE \E r \in Ranks : Rank(r)
      BY <3>4, DriverKept DEF driverVars
    <3> QED
      BY <1>4, <3>1, <3>2, <3>3, <3>4 DEF Next, Driver
  <2>2. AdvantagesKept'
    BY <1>2, <2>1 DEF AdvantagesInv, AdvantagesKept
  <2> QED
    BY <1>1, <2>2 DEF AdvantagesInv
<1> QED
  BY <1>3, <1>4

LEMMA AdvantagesStart ==
  ASSUME Init
  PROVE  AdvantagesInv
<1>1. phase = "next"
  BY DEF Init
<1> QED
  BY <1>1, RewardedStart DEF AdvantagesInv, AdvantagesKept

\* The inductive invariant of the advantages.
THEOREM Advancing == Spec => []AdvantagesInv
  BY AdvantagesStart, AdvantagesStep, PTL DEF Spec

\* What the lists of the reward function come to.
LEMMA ScoresKnown ==
  ASSUME RewardedInv, Scored
  PROVE  /\ Len(full) \in Nat
         /\ \A i \in Rows : /\ reward.valid[i] = TrueValid(full[i])
                            /\ TrueValid(full[i]) \in BOOLEAN
                            /\ reward.score[i] \in Int
                            /\ TrueValid(full[i]) => reward.score[i] = TrueScore(full[i])
<1>1. RightLists(reward, full, Len(full))
  BY DEF RewardedInv, RewardKept
<1>2. Len(full) \in Nat
  <2>1. phase \notin {"next", "rollout"}
    BY DEF Scored
  <2> QED
    BY <2>1, FullLength, BatchNumbers DEF RewardedInv, TogetherInv
<1>3. ASSUME NEW i \in Rows PROVE reward.score[i] \in Int
  <2>1. reward.score \in Seq(Int) /\ Len(reward.score) = Len(full)
    BY <1>1 DEF RightLists, ListsOf
  <2> QED
    BY <2>1 DEF Rows
<1>4. \A i \in Rows : RightEntry(reward, i, full[i])
  BY <1>1 DEF RightLists, Rows
<1>5. \A row : TrueValid(row) \in BOOLEAN
  BY DEF TrueValid
<1> QED
  BY <1>2, <1>3, <1>4, <1>5 DEF RightEntry

\* The rows of a group have the same valid rows.
LEMMA SameGroup ==
  ASSUME NEW i \in Rows, NEW j \in ValidOf(i)
  PROVE  j \in Rows /\ reward.valid[j] /\ ValidOf(j) = ValidOf(i)
<1>1. j \in Rows /\ full[j].uid = full[i].uid /\ reward.valid[j]
  BY DEF ValidOf, GroupOf
<1> QED
  BY <1>1 DEF ValidOf, GroupOf

\* The numbers of these rows, 0 for all others.
Masked(n, rows, number) == [i \in 1..n |-> IF i \in rows THEN number[i] ELSE 0]

LEMMA SumOfMasked ==
  ASSUME NEW rows, NEW number
  PROVE  SumOver(rows, number) = Total(Masked(Len(full), rows, number))
  BY DEF SumOver, Masked, Rows

LEMMA MaskedNumbers ==
  ASSUME NEW n \in Nat, NEW rows \in SUBSET (1..n), NEW number, \A i \in rows : number[i] \in Int
  PROVE  Masked(n, rows, number) \in [1..n -> Int] /\ Total(Masked(n, rows, number)) \in Int
<1>1. PICK masked \in [1..n -> Int] : masked = Masked(n, rows, number)
  <2>1. Masked(n, rows, number) \in [1..n -> Int]
    BY DEF Masked
  <2> QED
    BY <2>1
<1>2. PICK sums : RunningSums(n, masked, sums) /\ Total(masked) = sums[n]
  BY TotalRuns
<1>3. sums[n] \in Int
  BY <1>2 DEF RunningSums
<1> QED
  BY <1>1, <1>2, <1>3

\* The deviations of the numbers of some rows from their mean, times the number
\* of these rows.
Deviates(n, rows, number, deviation) ==
  \A i \in rows :
    deviation[i] = Cardinality(rows) * number[i] - Total(Masked(n, rows, number))

\* They add up to zero.
LEMMA DeviationsCancel ==
  ASSUME NEW n \in Nat, NEW rows \in SUBSET (1..n), NEW number, NEW deviation,
         \A i \in rows : number[i] \in Int, Deviates(n, rows, number, deviation)
  PROVE  Total(Masked(n, rows, deviation)) = 0
<1>1. PICK f \in [1..n -> Int] : f = Masked(n, rows, number)
  BY MaskedNumbers
<1>2. PICK g \in [1..n -> Int] : \A i \in 1..n : g[i] = IF i \in rows THEN 1 ELSE 0
  <2>1. [i \in 1..n |-> IF i \in rows THEN 1 ELSE 0] \in [1..n -> Int]
    OBVIOUS
  <2> QED
    BY <2>1
<1>3. Total(g) = Cardinality(rows) /\ Cardinality(rows) \in Nat
  BY <1>2, TotalOfOnes
<1>4. PICK a \in Int, b \in Int : a = Cardinality(rows) /\ b = Total(f)
  BY <1>1, <1>3, MaskedNumbers
<1>5. PICK h : h = Masked(n, rows, deviation)
  OBVIOUS
<1>6. ASSUME NEW i \in 1..n PROVE h[i] = a * f[i] - b * g[i] /\ h[i] \in Int
  <2>1. CASE i \in rows
    <3>1. PICK x \in Int : x = number[i] /\ f[i] = x /\ g[i] = 1 /\ h[i] = a * x - b
      BY <1>1, <1>2, <1>4, <1>5, <2>1 DEF Deviates, Masked
    <3>2. a * x \in Int /\ b * 1 = b
      OBVIOUS
    <3> QED
      BY <3>1, <3>2, SMTT(30)
  <2>2. CASE i \notin rows
    <3>1. f[i] = 0 /\ g[i] = 0 /\ h[i] = 0
      BY <1>1, <1>2, <1>5, <2>2 DEF Masked
    <3>2. a * 0 = 0 /\ b * 0 = 0
      OBVIOUS
    <3> QED
      BY <3>1, <3>2
  <2> QED
    BY <2>1, <2>2
<1>7. h \in [1..n -> Int]
  <2>1. h = [i \in 1..n |-> h[i]]
    BY <1>5 DEF Masked
  <2> QED
    BY <1>6, <2>1
<1>8. DifferenceOf(n, f, g, h, a, b)
  BY <1>6 DEF DifferenceOf
<1>9. Total(h) = a * Total(f) - b * Total(g)
  <2>1. DifferenceOfSums(f, g, h, a, b)
    BY <1>7, <1>8, TotalOfDifference
  <2> QED
    BY <2>1 DEF DifferenceOfSums
<1>10. Total(h) = a * b - b * a
  BY <1>3, <1>4, <1>9
<1>11. a * b \in Int /\ a * b = b * a
  OBVIOUS
<1> QED
  BY <1>5, <1>10, <1>11

\* More of the score is more of its multiple.
LEMMA MultiplesOrder ==
  ASSUME NEW a \in Nat \ {0}, NEW x \in Int, NEW y \in Int
  PROVE  a * x > a * y <=> x > y
<1>1. PICK d \in Int : d = x - y /\ x = y + d
  OBVIOUS
<1>2. a * x = a * y + a * d /\ a * y \in Int /\ a * d \in Int
  BY <1>1, Distribute
<1>3. d > 0 => a * d > 0
  OBVIOUS
<1>4. d <= 0 => a * d <= 0
  OBVIOUS
<1> QED
  BY <1>1, <1>2, <1>3, <1>4

\* Within a group the advantages of the valid rows add up to zero and order the
\* rows as their scores do, whatever the rows that are not valid come to; no
\* other row has one; and the tokens the loss counts are those of the valid rows.
THEOREM ValidRowsAdvance == Spec => []AdvantagesOfValidRows
<1>1. ASSUME AdvantagesInv, phase \in {"update", "end"}
      PROVE  AdvantagesOfValidRows
  <2>1. RewardedInv /\ Scored
    BY <1>1 DEF AdvantagesInv, Scored
  <2>2. PICK n \in Nat : n = Len(full) /\ Rows = 1..n
    BY <2>1, ScoresKnown DEF Rows
  <2>3. \A i \in Rows : /\ reward.valid[i] = TrueValid(full[i]) /\ TrueValid(full[i]) \in BOOLEAN
                        /\ reward.score[i] \in Int
                        /\ TrueValid(full[i]) => reward.score[i] = TrueScore(full[i])
    BY <2>1, ScoresKnown
  <2>4. \A i \in Rows : advantages[i] = Advantage(i) /\ lossMask[i] = reward.valid[i]
    BY <1>1 DEF AdvantagesInv, AdvantagesKept
  <2>5. ASSUME NEW i \in Rows
        PROVE  /\ ValidOf(i) \in SUBSET Rows
               /\ ValidOf(i) = {j \in GroupOf(i) : TrueValid(full[j])}
               /\ i \in ValidOf(i) <=> reward.valid[i]
    <3>1. GroupOf(i) \in SUBSET Rows /\ i \in GroupOf(i)
      BY DEF GroupOf
    <3>2. \A j \in GroupOf(i) : reward.valid[j] <=> TrueValid(full[j])
      BY <2>3, <3>1
    <3> QED
      BY <3>1, <3>2 DEF ValidOf
  <2>6. ASSUME NEW i \in Rows, i \in ValidOf(i), Cardinality(ValidOf(i)) > 1
        PROVE  /\ SumOver(ValidOf(i), advantages) = 0
               /\ \A j \in ValidOf(i) : (advantages[i] > advantages[j])
                                          = (TrueScore(full[i]) > TrueScore(full[j]))
    <3>1. PICK rows \in SUBSET Rows : rows = ValidOf(i) /\ i \in rows
      BY <2>5, <2>6
    <3>2. PICK a \in Nat \ {0}, b \in Int :
            a = Cardinality(rows) /\ a >= 2 /\ b = SumOver(rows, reward.score)
      <4>1. IsFiniteSet(1..n)
        BY FS_Interval
      <4>2. Cardinality(rows) \in Nat
        BY <2>2, <4>1, FS_Subset, FS_CardinalityType
      <4>3. SumOver(rows, reward.score) \in Int
        BY <2>2, <2>3, SumOfMasked, MaskedNumbers
      <4> QED
        BY <2>6, <3>1, <4>2, <4>3
    <3>3. ASSUME NEW j \in rows
          PROVE  advantages[j] = a * reward.score[j] - b
      <4>1. j \in Rows /\ reward.valid[j] /\ ValidOf(j) = rows
        BY <3>1, SameGroup
      <4> QED
        BY <2>4, <3>2, <4>1 DEF Advantage
    <3>4. SumOver(rows, advantages) = 0
      <4>1. Deviates(n, rows, reward.score, advantages)
        BY <2>2, <3>2, <3>3, SumOfMasked DEF Deviates
      <4>2. \A j \in rows : reward.score[j] \in Int
        BY <2>3
      <4>3. Total(Masked(n, rows, advantages)) = 0
        BY <2>2, <4>1, <4>2, DeviationsCancel
      <4> QED
        BY <2>2, <4>3, SumOfMasked
    <3>5. ASSUME NEW j \in rows
          PROVE  (advantages[i] > advantages[j]) = (TrueScore(full[i]) > TrueScore(full[j]))
      <4>1. j \in Rows /\ reward.valid[j] /\ reward.valid[i]
        BY <3>1, SameGroup
      <4>2. PICK x \in Int, y \in Int : /\ x = reward.score[i] /\ y = reward.score[j]
                                        /\ x = TrueScore(full[i]) /\ y = TrueScore(full[j])
        BY <2>3, <4>1
      <4>3. advantages[i] = a * x - b /\ advantages[j] = a * y - b
        BY <3>1, <3>3, <4>2
      <4>4. a * x \in Int /\ a * y \in Int /\ (a * x > a * y <=> x > y)
        BY MultiplesOrder
      <4>5. a * x - b > a * y - b <=> x > y
        BY <4>4
      <4> QED
        BY <4>2, <4>3, <4>5
    <3> QED
      BY <3>1, <3>4, <3>5
  <2>7. ASSUME NEW i \in Rows, i \notin ValidOf(i) \/ ~(Cardinality(ValidOf(i)) > 1)
        PROVE  advantages[i] = 0
    <3>1. Cardinality(ValidOf(i)) \in Nat
      <4>1. IsFiniteSet(1..n)
        BY FS_Interval
      <4> QED
        BY <2>2, <2>5, <4>1, FS_Subset, FS_CardinalityType
    <3> QED
      BY <2>4, <2>5, <2>7, <3>1 DEF Advantage
  <2>8. ValidRowsDecide
    <3> SUFFICES ASSUME NEW i \in Rows, NEW peers, peers = {j \in GroupOf(i) : TrueValid(full[j])}
                 PROVE  IF i \in peers /\ Cardinality(peers) > 1
                        THEN /\ SumOver(peers, advantages) = 0
                             /\ \A j \in peers : (advantages[i] > advantages[j])
                                                   = (TrueScore(full[i]) > TrueScore(full[j]))
                        ELSE advantages[i] = 0
      BY DEF ValidRowsDecide
    <3>1. peers = ValidOf(i)
      BY <2>5
    <3> QED
      BY <2>6, <2>7, <3>1
  <2>9. LossCountsValidRows
    <3>1. ASSUME NEW i \in Rows, advantages[i] # 0 PROVE lossMask[i]
      BY <2>4, <2>5, <2>7, <3>1
    <3> QED
      BY <2>3, <2>4, <3>1 DEF LossCountsValidRows
  <2> QED
    BY <2>8, <2>9 DEF AdvantagesOfValidRows
<1>2. ASSUME phase \notin {"update", "end"} PROVE AdvantagesOfValidRows
  BY <1>2 DEF AdvantagesOfValidRows, ValidRowsDecide, LossCountsValidRows
<1>3. AdvantagesInv => AdvantagesOfValidRows
  BY <1>1, <1>2
<1> QED
  BY <1>3, Advancing, PTL

-----------------------------------------------------------------------------
(***************************************************************************)
(* When the ranks leave a mini-batch without a step                        *)
(***************************************************************************)

\* A row that the loss counts and that has no finite gradient, and the
\* micro-batches and mini-batches with such a row.
Spoils(i) == lossMask[i] /\ full[i].outcome.badIn = "backward"
MicroSpoiled(r, k) == \E j \in 1..Len(plan[r][k]) : Spoils(plan[r][k][j])
MiniSpoiled(r, m) == \E j \in 1..Len(data[r][m]) : Spoils(data[r][m][j])

\* The flag of a rank tells of the micro-batches it has done of the mini-batch
\* in hand, then of the whole of it, until the gradient is next set to zero.
FlagTells(r) ==
  phase = "update" =>
    /\ pc[r] = "forward" => (notFinite[r] <=> \E k \in 1..micro[r] : MicroSpoiled(r, k))
    /\ pc[r] = "optimize" => (notFinite[r] <=> MiniSpoiled(r, mini[r] + 1))
    /\ pc[r] \in {"start", "reduce", "returned"} /\ mini[r] # 0 =>
         (notFinite[r] <=> MiniSpoiled(r, mini[r]))

FlagsInv == TogetherInv /\ \A r \in Ranks : FlagTells(r)

\* The gradient of a micro-batch is that of the rows the loss counts.
LEMMA BadMicro ==
  ASSUME NEW r \in Ranks, NEW k
  PROVE  BadGradient(plan[r][k]) <=> MicroSpoiled(r, k)
  BY DEF BadGradient, LossRows, MicroSpoiled, Spoils

\* The micro-batches share out the rows in hand.
LEMMA SpoiledShared ==
  ASSUME TogetherInv, NEW r \in Ranks, pc[r] = "forward"
  PROVE  MiniSpoiled(r, mini[r] + 1) <=> \E k \in 1..Len(plan[r]) : MicroSpoiled(r, k)
<1>0. PICK cut : cut = CutOf(r)
  OBVIOUS
<1>1. PICK n \in Nat \ {0} : n = Len(InHand(r)) /\ cut = CutOf(r)
  BY <1>0, MicroInHand
<1>2. PICK l \in 1..n : l = Len(plan[r])
  BY <1>1, MicroInHand
<1>3. PartsFollow(n, l, cut, FlattenSeq(cut)) /\ ShareRows(n, l, cut)
  BY <1>1, <1>2, MicroInHand
<1>4. ASSUME NEW k \in 1..l
      PROVE  /\ Len(plan[r][k]) = Len(cut[k])
             /\ \A j \in 1..Len(cut[k]) : plan[r][k][j] = InHand(r)[cut[k][j]] /\ cut[k][j] \in 1..n
  <2>1. Len(cut[k]) \in Nat /\ \A j \in 1..Len(cut[k]) : cut[k][j] \in 1..n
    BY <1>3 DEF PartsFollow
  <2>2. plan[r][k] = PartAt(InHand(r), cut[k])
    BY <1>1, <1>2, MicroInHand
  <2> QED
    BY <2>1, <2>2 DEF PartAt
<1>5. MiniSpoiled(r, mini[r] + 1) <=> \E p \in 1..n : Spoils(InHand(r)[p])
  BY <1>1 DEF MiniSpoiled, InHand
<1>6. ASSUME NEW k \in 1..l, MicroSpoiled(r, k)
      PROVE  \E p \in 1..n : Spoils(InHand(r)[p])
  <2>1. PICK j \in 1..Len(cut[k]) : Spoils(plan[r][k][j])
    BY <1>4, <1>6 DEF MicroSpoiled
  <2> QED
    BY <1>4, <2>1
<1>7. ASSUME NEW p \in 1..n, Spoils(InHand(r)[p])
      PROVE  \E k \in 1..l : MicroSpoiled(r, k)
  <2>1. PICK k \in 1..l : \E j \in 1..Len(cut[k]) : cut[k][j] = p
    BY <1>3 DEF ShareRows
  <2>2. PICK j \in 1..Len(cut[k]) : cut[k][j] = p
    BY <2>1
  <2>3. j \in 1..Len(plan[r][k]) /\ plan[r][k][j] = InHand(r)[p]
    BY <1>4, <2>2
  <2> QED
    BY <1>7, <2>3 DEF MicroSpoiled
<1> QED
  BY <1>2, <1>5, <1>6, <1>7

LEMMA FlagBackward ==
  ASSUME FlagsInv, NEW r \in Ranks, ForwardBackward(r)
  PROVE  FlagTells(r)'
<1>1. /\ TogetherInv /\ phase = "update" /\ pc[r] = "forward"
      /\ notFinite[r] <=> \E k \in 1..micro[r] : MicroSpoiled(r, k)
  BY DEF FlagsInv, FlagTells, ForwardBackward
<1>2. /\ UNCHANGED <<full, lossMask, phase, data, plan, mini>> /\ micro'[r] = micro[r] + 1
      /\ pc'[r] = IF micro[r] + 1 = Len(plan[r]) THEN "optimize" ELSE "forward"
  BY <1>1 DEF ForwardBackward, driverVars, TogetherInv, RankTypes
<1>3. notFinite'[r] <=> notFinite[r] \/ BadGradient(plan[r][micro[r] + 1])
  <2>1. r \in DOMAIN notFinite
    BY <1>1 DEF TogetherInv, RankTypes
  <2>2. notFinite' = [notFinite EXCEPT ![r] = @ \/ BadGradient(plan[r][micro[r] + 1])]
    BY DEF ForwardBackward
  <2> QED
    BY <2>1, <2>2, Zenon
<1>4. PICK m \in Nat : m = micro[r]
  BY <1>1 DEF TogetherInv, RankTypes
<1>5. notFinite'[r] <=> \E k \in 1..(m + 1) : MicroSpoiled(r, k)
  <2>1. \A k \in 1..(m + 1) : k \in 1..m \/ k = m + 1
    OBVIOUS
  <2>2. (\E k \in 1..(m + 1) : MicroSpoiled(r, k))
          <=> (\E k \in 1..m : MicroSpoiled(r, k)) \/ MicroSpoiled(r, m + 1)
    BY <2>1
  <2>3. BadGradient(plan[r][m + 1]) <=> MicroSpoiled(r, m + 1)
    BY BadMicro
  <2> QED
    BY <1>1, <1>3, <1>4, <2>2, <2>3
<1>6. /\ \A k : MicroSpoiled(r, k)' <=> MicroSpoiled(r, k)
      /\ \A k : MiniSpoiled(r, k)' <=> MiniSpoiled(r, k)
  BY <1>2 DEF MicroSpoiled, MiniSpoiled, Spoils
<1>7. CASE m + 1 = Len(plan[r])
  <2>1. MiniSpoiled(r, mini[r] + 1) <=> \E k \in 1..(m + 1) : MicroSpoiled(r, k)
    BY <1>1, <1>7, SpoiledShared
  <2>2. pc'[r] = "optimize" /\ mini'[r] = mini[r]
    BY <1>2, <1>4, <1>7
  <2>3. notFinite'[r] <=> MiniSpoiled(r, mini[r] + 1)
    BY <1>5, <2>1
  <2>4. MiniSpoiled(r, mini[r] + 1)' <=> MiniSpoiled(r, mini[r] + 1)
    BY <1>2 DEF MiniSpoiled, Spoils
  <2> QED
    BY <2>2, <2>3, <2>4 DEF FlagTells
<1>8. CASE m + 1 # Len(plan[r])
  <2>1. pc'[r] = "forward" /\ micro'[r] = m + 1
    BY <1>2, <1>4, <1>8
  <2>2. notFinite'[r] <=> \E k \in 1..micro'[r] : MicroSpoiled(r, k)'
    BY <1>5, <1>6, <2>1
  <2> QED
    BY <2>1, <2>2 DEF FlagTells
<1> QED
  BY <1>7, <1>8

\* The steps of a rank that compute no gradient.
LEMMA FlagElse ==
  ASSUME FlagsInv, NEW r \in Ranks,
         CountMicroBatches(r) \/ CutMicroBatches(r) \/ ForwardOnly(r) \/ OptimizerStep(r)
  PROVE  FlagTells(r)'
<1>1. UNCHANGED <<full, lossMask, phase, data>> /\ TogetherInv
  <2>1. Rank(r)
    BY DEF Rank
  <2> QED
    BY <2>1, DriverKept DEF driverVars, FlagsInv
<1>2. \A m : MiniSpoiled(r, m)' <=> MiniSpoiled(r, m)
  BY <1>1 DEF MiniSpoiled, Spoils
<1>3. CASE CountMicroBatches(r)
  <2>1. pc[r] = "start" /\ pc'[r] = "reduce" /\ UNCHANGED <<mini, notFinite>>
    BY <1>1, <1>3 DEF CountMicroBatches, TogetherInv, RankTypes
  <2> QED
    BY <1>1, <1>2, <2>1 DEF FlagTells, FlagsInv
<1>4. CASE CutMicroBatches(r)
  <2>1. pc'[r] = "forward" /\ micro'[r] = 0 /\ ~notFinite'[r] /\ 1..0 = {}
    BY <1>1, <1>4 DEF CutMicroBatches, TogetherInv, RankTypes
  <2> QED
    BY <2>1 DEF FlagTells
<1>5. CASE ForwardOnly(r)
  BY <1>1, <1>5 DEF ForwardOnly, FlagTells
<1>6. CASE OptimizerStep(r)
  <2>1. /\ pc[r] = "optimize" /\ pc'[r] \in {"start", "returned"} /\ mini'[r] = mini[r] + 1
        /\ notFinite' = notFinite
    BY <1>1, <1>6 DEF OptimizerStep, TogetherInv, RankTypes
  <2>2. phase = "update" => (notFinite[r] <=> MiniSpoiled(r, mini[r] + 1))
    BY <2>1 DEF FlagTells, FlagsInv
  <2>3. MiniSpoiled(r, mini[r])' <=> MiniSpoiled(r, mini[r] + 1)
    BY <1>1, <2>1 DEF MiniSpoiled, Spoils
  <2> QED
    BY <1>1, <2>1, <2>2, <2>3 DEF FlagTells
<1> QED
  BY <1>3, <1>4, <1>5, <1>6

LEMMA FlagsStep ==
  ASSUME FlagsInv, [Next]_vars
  PROVE  FlagsInv'
<1>1. TogetherInv'
  BY TogetherStep DEF FlagsInv
<1>2. CASE LoadPrompts \/ Driver
  <2>1. phase' = "update" => Call("update")
    BY <1>2 DEF LoadPrompts, Driver, Generate, ScoreBatch, RewardRaises, CollectLogProbs,
       CollectRefLogProbs, ComputeAdvantages, CollectUpdate, EndStep, Call, Proceed
  <2>2. ASSUME NEW r \in Ranks, phase' = "update"
        PROVE  pc'[r] = "start" /\ mini'[r] = 0
    BY <2>1, <2>2 DEF Call, ResetCall, Zero
  <2> QED
    BY <1>1, <2>2 DEF FlagsInv, FlagTells
<1>3. ASSUME NEW q \in Ranks, Kept(q), UNCHANGED <<full, lossMask, phase>>, data' = data
      PROVE  FlagTells(q)'
  <2>1. /\ \A k : MicroSpoiled(q, k)' <=> MicroSpoiled(q, k)
        /\ \A k : MiniSpoiled(q, k)' <=> MiniSpoiled(q, k)
    BY <1>3 DEF MicroSpoiled, MiniSpoiled, Spoils, Kept
  <2> QED
    BY <1>3, <2>1 DEF FlagTells, FlagsInv, Kept
<1>4. ASSUME NEW r \in Ranks, Rank(r) PROVE FlagsInv'
  <2>1. FlagTells(r)'
    BY <1>4, FlagBackward, FlagElse DEF Rank
  <2>2. ASSUME NEW q \in Ranks, q # r PROVE FlagTells(q)'
    <3>1. Kept(q)
      BY <1>4, <2>2, OthersKept DEF FlagsInv, TogetherInv
    <3>2. UNCHANGED <<full, lossMask, phase>> /\ data' = data
      BY <1>4, DriverKept DEF driverVars
    <3> QED
      BY <1>3, <3>1, <3>2
  <2> QED
    BY <1>1, <2>1, <2>2 DEF FlagsInv
<1>5. CASE UNCHANGED vars
  <2>1. ASSUME NEW q \in Ranks
        PROVE  Kept(q) /\ UNCHANGED <<full, lossMask, phase>> /\ data' = data
    BY <1>5 DEF vars, driverVars, callVars, Kept
  <2> QED
    BY <1>1, <1>3, <2>1 DEF FlagsInv
<1> QED
  BY <1>2, <1>4, <1>5 DEF Next

\* The driver leaves the ranks alone or starts them afresh.
LEMMA DriverCalls ==
  ASSUME LoadPrompts \/ Driver
  PROVE  UNCHANGED callVars \/ ResetCall
<1>1. LoadPrompts => UNCHANGED callVars
  BY DEF LoadPrompts
<1>2. Generate => UNCHANGED callVars
  BY DEF Generate
<1>3. RewardRaises => UNCHANGED callVars
  BY Zenon DEF RewardRaises
<1>4. EndStep => UNCHANGED callVars
  BY Zenon DEF EndStep
<1>5. ScoreBatch => ResetCall
  BY Zenon DEF ScoreBatch, Call
<1>6. CollectLogProbs => ResetCall
  BY DEF CollectLogProbs, Call, Proceed
<1>7. CollectRefLogProbs => ResetCall
  BY DEF CollectRefLogProbs, Proceed
<1>8. CollectUpdate => ResetCall
  BY DEF CollectUpdate, Proceed
<1>9. ComputeAdvantages => ResetCall \/ UNCHANGED callVars
  BY DEF ComputeAdvantages, Call
<1> QED
  BY <1>1, <1>2, <1>3, <1>4, <1>5, <1>6, <1>7, <1>8, <1>9 DEF Driver

\* The inductive invariant of the flags.
THEOREM Flagging == Spec => []FlagsInv
<1>1. Init => FlagsInv
  <2>1. Init => \A r \in Ranks : FlagTells(r)
    BY DEF Init, FlagTells
  <2> QED
    BY <2>1, TogetherStart DEF FlagsInv
<1> QED
  BY <1>1, FlagsStep, PTL DEF Spec

\* The rows the loss counts are the valid ones.
LEMMA SpoiledByValid ==
  ASSUME AdvantagesInv, phase = "update", NEW r \in Ranks, NEW m \in 1..Minis
  PROVE  MiniSpoiled(r, m) <=> BadValidRow(r, m)
<1>1. RewardedInv /\ Scored /\ TogetherInv /\ phase \in Calls
  BY DEF AdvantagesInv, RewardedInv, Scored, Calls
<1>2. \A i \in Rows : lossMask[i] = TrueValid(full[i])
  BY <1>1, ScoresKnown DEF AdvantagesInv, AdvantagesKept
<1>3. Rows = 1..Count
  BY <1>1, FullLength DEF Rows, TogetherInv, Calls
<1>4. \A j \in 1..Len(data[r][m]) : data[r][m][j] \in Rows
  <2>1. data[r][m] = Sent(r, m)
    <3>1. DataSent
      BY <1>1 DEF TogetherInv, CallState
    <3>2. PICK minis : minis = Minis /\ m \in 1..minis
      OBVIOUS
    <3>3. PICK sent : sent = [i \in 1..minis |-> Sent(r, i)]
      OBVIOUS
    <3>4. data[r] = sent
      BY <3>1, <3>2, <3>3 DEF DataSent
    <3>5. sent[m] = Sent(r, m)
      BY <3>2, <3>3
    <3> QED
      BY <3>4, <3>5
  <2>2. Sent(r, m) \in Seq(1..Count)
    BY <1>1, SentRows DEF TogetherInv
  <2>3. PICK rows : rows = data[r][m]
    OBVIOUS
  <2>4. rows \in Seq(Rows)
    BY <1>3, <2>1, <2>2, <2>3
  <2>5. \A j \in 1..Len(rows) : rows[j] \in Rows
    BY <2>4, Entries
  <2> QED
    BY <2>3, <2>5
<1> QED
  BY <1>2, <1>4 DEF MiniSpoiled, Spoils, BadValidRow

\* A rank leaves a mini-batch without a step if and only if some rank has a
\* valid row in it whose gradient is not finite (dp_actor.py:328-330 with
\* core_algos.py:802-805): a row that is not valid, also where it is alone in
\* its micro-batch, takes no step away, and gives none.
THEOREM ValidRowsAlwaysDecide == Spec => ValidRowsDecideStep
<1>1. ASSUME FlagsInv, AdvantagesInv, [Next]_vars
      PROVE  [\A r \in Ranks : mini'[r] = mini[r] + 1 =>
                (version'[r] = version[r] <=> \E q \in Ranks : BadValidRow(q, mini[r] + 1))]_vars
  <2> SUFFICES ASSUME NEW r \in Ranks, mini'[r] = mini[r] + 1
               PROVE  version'[r] = version[r] <=> \E q \in Ranks : BadValidRow(q, mini[r] + 1)
    OBVIOUS
  <2>1. TogetherInv /\ mini[r] \in Nat /\ version \in [Ranks -> Nat]
    BY <1>1 DEF FlagsInv, TogetherInv, RankTypes
  <2>2. OptimizerStep(r)
    <3>1. mini'[r] # mini[r] /\ mini'[r] # 0
      BY <2>1
    <3>2. CASE LoadPrompts \/ Driver
      <4>1. UNCHANGED callVars => FALSE
        BY <3>1 DEF callVars
      <4>2. ResetCall => FALSE
        BY <3>1 DEF ResetCall, Zero
      <4> QED
        BY <3>2, <4>1, <4>2, DriverCalls
    <3>3. ASSUME NEW q \in Ranks, Rank(q) PROVE OptimizerStep(r)
      <4>1. q = r
        BY <2>1, <3>1, <3>3, OthersKept DEF Kept, TogetherInv
      <4>2. ~CountMicroBatches(r) /\ ~CutMicroBatches(r)
        BY <3>1 DEF CountMicroBatches, CutMicroBatches
      <4>3. ~ForwardOnly(r) /\ ~ForwardBackward(r)
        BY <3>1 DEF ForwardOnly, ForwardBackward
      <4> QED
        BY <3>3, <4>1, <4>2, <4>3 DEF Rank
    <3>4. CASE UNCHANGED vars
      BY <3>1, <3>4 DEF vars, callVars
    <3> QED
      BY <1>1, <3>2, <3>3, <3>4 DEF Next
  <2>3. phase \in Calls /\ pc[r] = "optimize" /\ AllHere(r)
    BY <2>1, <2>2, PlanOf DEF OptimizerStep
  <2>4. PICK t \in Nat, v \in Nat : \E m \in 0..(Minis - 1) :
          AtStep(t, v, m) /\ ticks[r] = t /\ mini[r] = m /\ version[r] = v
    BY <2>1, <2>3, AllAtStep DEF TogetherInv
  <2>5. PICK m \in 0..(Minis - 1) :
          AtStep(t, v, m) /\ ticks[r] = t /\ mini[r] = m /\ version[r] = v
    BY <2>4
  <2>6. phase = "update" /\ m \in Nat /\ m + 1 \in 1..Minis
    <3>1. PICK minis \in Nat \ {0} : minis = Minis
      BY <2>1, <2>3, MiniNumbers DEF TogetherInv
    <3> QED
      BY <2>5, <3>1 DEF AtStep
  <2>7. ASSUME NEW q \in Ranks
        PROVE  notFinite[q] <=> BadValidRow(q, m + 1)
    <3>1. \/ pc[q] = "optimize" /\ mini[q] = m
          \/ pc[q] \in {"start", "reduce", "returned"} /\ mini[q] = m + 1
      BY <2>5 DEF AtStep
    <3>2. m + 1 # 0
      BY <2>6
    <3>3. notFinite[q] <=> MiniSpoiled(q, m + 1)
      BY <1>1, <2>6, <3>1, <3>2 DEF FlagsInv, FlagTells
    <3> QED
      BY <1>1, <2>6, <3>3, SpoiledByValid
  <2>8. version'[r] = version[r] <=> NormNotFinite(r)
    BY <2>1, <2>2 DEF OptimizerStep
  <2> QED
    BY <2>5, <2>7, <2>8 DEF NormNotFinite
<1> QED
  BY <1>1, Flagging, Advancing, PTL DEF Spec, ValidRowsDecideStep

=============================================================================
