-------------------------- MODULE AgentRolloutProofs --------------------------
(***************************************************************************)
(* Rollouts with the agent loop, for any number of servers, ranks, rows    *)
(* and agent loop workers, and turns of any length.                        *)
(***************************************************************************)
EXTENDS AgentRollout, DataFlowProofs, FiniteSetTheorems

-----------------------------------------------------------------------------
(***************************************************************************)
(* Shapes                                                                  *)
(***************************************************************************)
LoopStages == {"pending", "waiting", "tools", "interacting", "generating", "done"}
Marks == {0, 1}
Sources == {"sampled", "zero"}
LoopType ==
  [at : LoopStages, server : Servers \cup {0}, mask : Seq(Marks),
   logprobs : Seq(Sources), assistantTurns : Nat, userTurns : Nat,
   servers : SUBSET Servers, weights : SUBSET Int]

StateType(n) ==
  [seed : {"torch", "engine", "rollout"} \X (Servers \cup {0}), trainer : 0..n, sampler : 0..n]

EngineType == [weights : 0..step \cup {Dummy, Allocated, Released}, cache : BOOLEAN]

Entry == [request : Nat \X Rows, server : Servers]

Shape ==
  /\ config \in Configs /\ step \in 0..MaxSteps /\ trained \in 0..step
  /\ driver \in {"training", "waking", "generating", "sleeping", "failed"}
  /\ mode \in [Workers -> {"trainer", "resumed", "loaded", "rollout"}]
  /\ engine \in [Workers -> EngineType]
  /\ device \in [Workers -> StateType(step)] /\ torchState \in [Workers -> StateType(step)]
  /\ genState \in [Workers -> StateType(step)]
  /\ drained \subseteq Servers
  /\ prefix \in [Servers -> SUBSET Int]
  /\ requests \in [Agents -> [Servers -> Nat]]
  /\ sticky \in [Agents -> Seq(Entry)] /\ \A a \in Agents : Len(sticky[a]) <= CacheSize
  /\ loops \in [Rows -> LoopType]
  /\ \A i \in Rows : loops[i].at = "waiting" => loops[i].server \in Servers
  \* A rank samples once per rollout.
  /\ driver \in {"waking", "generating"} => \A w \in Workers :
       device[w].sampler < step /\ torchState[w].sampler < step /\ genState[w].sampler < step

\* The numbers of a configuration.
LEMMA ConfigNumbers ==
  ASSUME config \in Configs
  PROVE  /\ config.rows \in Nat \ {0} /\ config.agents \in Nat \ {0} /\ config.slack \in Nat
         /\ config.rows % config.agents = 0 /\ config.rows \div config.agents <= CacheSize
         /\ config.free \in BOOLEAN /\ config.logprobs \in BOOLEAN
         /\ ResponseLength \in Nat \ {0} /\ MaxSteps \in Nat
         /\ \A n \in Sizes : n \in Nat \ {0}
  BY AgentConfigsAssumption, LimitsAssumption

\* Every row has an agent loop worker, and a worker no more rows than its
\* request cache has places.
LEMMA RowsOfAgents ==
  ASSUME config \in Configs
  PROVE  /\ \A i \in Rows : AgentOf(i) \in Agents /\ i \in ToSet(RowsOf(AgentOf(i)))
         /\ \A a \in Agents :
              /\ ToSet(RowsOf(a)) \subseteq Rows /\ IsFiniteSet(ToSet(RowsOf(a)))
              /\ Cardinality(ToSet(RowsOf(a))) <= CacheSize
<1>1. /\ config.rows \in Nat /\ config.agents \in Nat \ {0} /\ config.rows % config.agents = 0
      /\ config.rows \div config.agents <= CacheSize
  BY ConfigNumbers
<1>2. PICK rows \in Nat, agents \in Nat \ {0}, size \in Nat :
        rows = config.rows /\ agents = config.agents /\ EqualParts(rows, agents, size) /\ size <= CacheSize
  BY <1>1, ExactDivision
<1> DEFINE part(a) == PartOfPlaces(rows, agents, a)
<1>3. \A a \in Agents : RowsOf(a) = part(a)
  BY <1>2 DEF RowsOf, Rows, PartOfPlaces
<1>4. Rows = 1..rows /\ Agents = 1..agents
  BY <1>2 DEF Rows, Agents
<1> HIDE DEF part
<1>5. /\ \A a \in 1..agents :
           /\ part(a) \in Seq(1..rows)
           /\ IsFiniteSet(ToSet(part(a))) /\ Cardinality(ToSet(part(a))) = size
      /\ \A i \in 1..rows : \E a \in 1..agents : i \in ToSet(part(a))
  <2>1. \A a \in 1..agents :
          /\ PartOfPlaces(rows, agents, a) \in Seq(1..rows)
          /\ IsFiniteSet(ToSet(PartOfPlaces(rows, agents, a)))
          /\ Cardinality(ToSet(PartOfPlaces(rows, agents, a))) = size
    BY <1>2, ChunksOfPlaces
  <2>2. \A i \in 1..rows : \E a \in 1..agents : i \in ToSet(PartOfPlaces(rows, agents, a))
    BY <1>2, ChunksOfPlaces
  <2> QED
    BY <2>1, <2>2 DEF part
<1>6. \A a \in 1..agents : ToSet(part(a)) \subseteq 1..rows
  BY <1>5, ToSetRange
<1>7. \A i \in Rows : \E a \in Agents : i \in ToSet(RowsOf(a))
  BY <1>3, <1>4, <1>5
<1>8. \A i \in Rows : AgentOf(i) \in Agents /\ i \in ToSet(RowsOf(AgentOf(i)))
  BY <1>7 DEF AgentOf
<1> QED
  BY <1>2, <1>3, <1>4, <1>5, <1>6, <1>8

-----------------------------------------------------------------------------
(***************************************************************************)
(* The sequences of a row                                                  *)
(***************************************************************************)

\* A cut sequence is the start of the sequence, as far as the response goes.
LEMMA CutSeq ==
  ASSUME NEW S, NEW s \in Seq(S)
  PROVE  /\ Cut(s) \in Seq(S) /\ Len(Cut(s)) <= ResponseLength
         /\ Len(Cut(s)) = IF Len(s) < ResponseLength THEN Len(s) ELSE ResponseLength
         /\ \A k \in 1..Len(Cut(s)) : Cut(s)[k] = s[k] /\ k \in 1..Len(s)
<1>1. PICK n \in Nat : /\ n = IF Len(s) < ResponseLength THEN Len(s) ELSE ResponseLength
                       /\ n <= Len(s) /\ n <= ResponseLength
  BY LimitsAssumption
<1>2. Cut(s) = SubSeq(s, 1, n)
  BY <1>1 DEF Cut
<1>3. SubSeq(s, 1, n) = [k \in 1..n |-> s[k]]
  BY <1>1
<1>4. \A k \in 1..n : s[k] \in S /\ k \in 1..Len(s)
  BY <1>1
<1>5. Cut(s) \in Seq(S) /\ Len(Cut(s)) = n /\ \A k \in 1..n : Cut(s)[k] = s[k]
  BY <1>2, <1>3, <1>4
<1> QED
  BY <1>1, <1>4, <1>5

\* Tokens are added at the end.
Longer(s, x, n) == s \o Repeated(x, n)

LEMMA LongerSeq ==
  ASSUME NEW S, NEW s \in Seq(S), NEW x \in S, NEW n \in Nat
  PROVE  /\ Longer(s, x, n) \in Seq(S)
         /\ Len(Longer(s, x, n)) = Len(s) + n /\ Len(s) \in Nat
<1>1. Repeated(x, n) \in Seq(S) /\ Len(Repeated(x, n)) = n
  BY DEF Repeated
<1> HIDE DEF Repeated
<1> QED
  BY <1>1 DEF Longer

LEMMA LongerPlaces ==
  ASSUME NEW S, NEW s \in Seq(S), NEW x \in S, NEW n \in Nat
  PROVE  \A k \in 1..(Len(s) + n) : Longer(s, x, n)[k] = IF k <= Len(s) THEN s[k] ELSE x
<1>1. Repeated(x, n) \in Seq(S) /\ Len(Repeated(x, n)) = n
      /\ \A k \in 1..n : Repeated(x, n)[k] = x
  BY DEF Repeated
<1>2. \A k \in (Len(s) + 1)..(Len(s) + n) : k - Len(s) \in 1..n
  OBVIOUS
<1> HIDE DEF Repeated
<1> QED
  BY <1>1, <1>2 DEF Longer

LEMMA MarksSources ==
  0 \in Marks /\ 1 \in Marks /\ "sampled" \in Sources /\ "zero" \in Sources
  BY DEF Marks, Sources

\* What a row is when it moves on.
LEMMA MovedLoop ==
  ASSUME NEW loop \in LoopType, NEW at \in LoopStages
  PROVE  /\ Moved(loop, at) \in LoopType /\ Moved(loop, at).at = at
         /\ Moved(loop, at).server = loop.server /\ Moved(loop, at).servers = loop.servers
         /\ Moved(loop, at).weights = loop.weights
         /\ Moved(loop, at).mask = IF at = "done" THEN Cut(loop.mask) ELSE loop.mask
         /\ Moved(loop, at).logprobs = IF at = "done" THEN Cut(loop.logprobs) ELSE loop.logprobs
<1>1. loop.mask \in Seq(Marks) /\ loop.logprobs \in Seq(Sources)
  BY DEF LoopType
<1>2. Cut(loop.mask) \in Seq(Marks) /\ Cut(loop.logprobs) \in Seq(Sources)
  BY <1>1, CutSeq
<1>3. CASE at = "done"
  <2>1. Moved(loop, at) = [loop EXCEPT !.at = "done", !.mask = Cut(loop.mask),
                                       !.logprobs = Cut(loop.logprobs)]
    BY <1>3 DEF Moved, Finished, LoopType
  <2> HIDE DEF Cut
  <2> QED
    BY <1>2, <1>3, <2>1 DEF LoopType, LoopStages
<1>4. CASE at # "done"
  <2>1. Moved(loop, at) = [loop EXCEPT !.at = at]
    BY <1>4 DEF Moved
  <2> QED
    BY <1>4, <2>1 DEF LoopType, LoopStages
<1> QED
  BY <1>3, <1>4

LEMMA FinishedLoop ==
  ASSUME NEW loop \in LoopType
  PROVE  Finished(loop) = Moved(loop, "done")
  BY DEF Moved

\* Tokens the model did not write.
LEMMA ObservedLoop ==
  ASSUME NEW loop \in LoopType, NEW n \in Nat
  PROVE  /\ Observed(loop, n) \in LoopType
         /\ Observed(loop, n).server = loop.server /\ Observed(loop, n).servers = loop.servers
         /\ Observed(loop, n).weights = loop.weights
         /\ Observed(loop, n).mask = Longer(loop.mask, 0, n)
         /\ Observed(loop, n).logprobs =
              IF loop.logprobs = << >> THEN << >> ELSE Longer(loop.logprobs, "zero", n)
<1>1. loop.mask \in Seq(Marks) /\ loop.logprobs \in Seq(Sources)
      /\ loop.userTurns + 1 \in Nat
  BY DEF LoopType
<1>2. /\ Longer(loop.mask, 0, n) \in Seq(Marks)
      /\ Longer(loop.logprobs, "zero", n) \in Seq(Sources)
  BY <1>1, LongerSeq, MarksSources
<1>3. PICK mask \in Seq(Marks), logprobs \in Seq(Sources) :
        /\ mask = Longer(loop.mask, 0, n)
        /\ logprobs = IF loop.logprobs = << >> THEN << >> ELSE Longer(loop.logprobs, "zero", n)
  BY <1>1, <1>2
<1>4. Observed(loop, n) = [loop EXCEPT !.mask = mask, !.logprobs = logprobs,
                                       !.userTurns = loop.userTurns + 1]
  BY <1>3 DEF Observed, Longer, LoopType
<1> QED
  BY <1>1, <1>3, <1>4 DEF LoopType

\* A turn of the model: n tokens from the weights held and those of the
\* prefixes cached.
Turn(loop, n, held, cached) ==
  [loop EXCEPT
     !.mask = @ \o Repeated(1, n),
     !.logprobs = IF config.logprobs THEN @ \o Repeated("sampled", n) ELSE @,
     !.assistantTurns = @ + 1,
     !.weights = @ \cup held \cup cached]

LEMMA TurnLoop ==
  ASSUME NEW loop \in LoopType, NEW n \in Nat, NEW held \in SUBSET Int, NEW cached \in SUBSET Int
  PROVE  /\ Turn(loop, n, held, cached) \in LoopType
         /\ Turn(loop, n, held, cached).server = loop.server
         /\ Turn(loop, n, held, cached).servers = loop.servers
         /\ Turn(loop, n, held, cached).weights = loop.weights \cup held \cup cached
         /\ Turn(loop, n, held, cached).mask = Longer(loop.mask, 1, n)
         /\ Turn(loop, n, held, cached).logprobs =
              IF config.logprobs THEN Longer(loop.logprobs, "sampled", n) ELSE loop.logprobs
<1>1. loop.mask \in Seq(Marks) /\ loop.logprobs \in Seq(Sources)
      /\ loop.assistantTurns + 1 \in Nat /\ loop.weights \in SUBSET Int
  BY DEF LoopType
<1>2. /\ Longer(loop.mask, 1, n) \in Seq(Marks)
      /\ Longer(loop.logprobs, "sampled", n) \in Seq(Sources)
  BY <1>1, LongerSeq, MarksSources
<1>3. PICK mask \in Seq(Marks), logprobs \in Seq(Sources) :
        /\ mask = Longer(loop.mask, 1, n)
        /\ logprobs = IF config.logprobs THEN Longer(loop.logprobs, "sampled", n)
                      ELSE loop.logprobs
  BY <1>1, <1>2
<1>4. PICK weights \in SUBSET Int : weights = loop.weights \cup held \cup cached
  <2>1. loop.weights \cup held \cup cached \in SUBSET Int
    BY <1>1
  <2> QED
    BY <2>1
<1>5. Turn(loop, n, held, cached) =
        [loop EXCEPT !.mask = mask, !.logprobs = logprobs,
                     !.assistantTurns = loop.assistantTurns + 1, !.weights = weights]
  BY <1>3, <1>4 DEF Turn, Longer, LoopType
<1> QED
  BY <1>1, <1>3, <1>4, <1>5 DEF LoopType

-----------------------------------------------------------------------------
(***************************************************************************)
(* What the actions of a loop do                                           *)
(***************************************************************************)
Held(s) == {engine[<<s, t>>].weights : t \in 1..TpSize}

\* What the configuration fixes for all times.
LEMMA ConfigFixed ==
  [Next]_vars => config' = config /\ Rows' = Rows /\ Agents' = Agents
<1> SUFFICES ASSUME [Next]_vars PROVE config' = config
  BY DEF Rows, Agents
<1>1. BeginRollout \/ AllAwake \/ Collect \/ EndRollout => config' = config
  BY DEF BeginRollout, AllAwake, Collect, EndRollout
<1>2. ASSUME NEW w \in Workers, Worker(w) PROVE config' = config
  BY <1>2 DEF Worker, Resume, UpdateWeights, EnterRollout, EnterTrainer
<1>3. ASSUME NEW s \in Servers, Sleep(s) PROVE config' = config
  BY <1>3 DEF Sleep
<1>4. ASSUME NEW i \in Rows, Loop(i) PROVE config' = config
  BY <1>4 DEF Loop, Send, LoopRaises, Answer, CallTools, Interact
<1> QED
  BY <1>1, <1>2, <1>3, <1>4 DEF Next, vars

\* One entry of a table changes.
LEMMA EntryChange ==
  ASSUME NEW S, NEW T, NEW f \in [S -> T], NEW x \in S, NEW v \in T
  PROVE  /\ [f EXCEPT ![x] = v] \in [S -> T] /\ [f EXCEPT ![x] = v][x] = v
         /\ \A y \in S \ {x} : [f EXCEPT ![x] = v][y] = f[y]
  OBVIOUS

\* A request goes to the server that has it, or to the least loaded one.
LEMMA ChosenServers ==
  ASSUME Shape, NEW a \in Agents, NEW request
  PROVE  /\ Chosen(a, request) \subseteq Servers
         /\ Hits(a, request) \subseteq 1..Len(sticky[a])
<1>1. Hits(a, request) \subseteq 1..Len(sticky[a])
  BY DEF Hits
<1>2. \A k \in 1..Len(sticky[a]) : sticky[a][k].server \in Servers
  <2>1. sticky[a] \in Seq(Entry)
    BY DEF Shape
  <2>2. \A k \in 1..Len(sticky[a]) : sticky[a][k] \in Entry
    BY <2>1
  <2> QED
    BY <2>2 DEF Entry
<1> QED
  BY <1>1, <1>2 DEF Chosen, LeastLoaded

\* The request of row i goes to server s.
SentTo(i, s, new) ==
  LET a == AgentOf(i)
  IN /\ a \in Agents /\ i \in ToSet(RowsOf(a)) /\ s \in Chosen(a, <<step, i>>)
     /\ new.at = "waiting" /\ new.server = s
     /\ new.servers = loops[i].servers \cup {s} /\ new.weights = loops[i].weights
     /\ new.mask = loops[i].mask /\ new.logprobs = loops[i].logprobs
     /\ loops' = [loops EXCEPT ![i] = new]
     /\ requests' = IF Hits(a, <<step, i>>) /= {} THEN requests
                    ELSE [requests EXCEPT ![a][s] = @ + 1]
     /\ sticky' = [sticky EXCEPT ![a] = Touched(a, [request |-> <<step, i>>, server |-> s])]

LEMMA SendFacts ==
  ASSUME Shape, NEW i \in Rows, Send(i)
  PROVE  \E s \in Servers, new \in LoopType : SentTo(i, s, new)
<1>1. AgentOf(i) \in Agents /\ i \in ToSet(RowsOf(AgentOf(i)))
  BY RowsOfAgents DEF Shape
<1>2. PICK s \in Chosen(AgentOf(i), <<step, i>>) :
        /\ requests' = IF Hits(AgentOf(i), <<step, i>>) /= {} THEN requests
                       ELSE [requests EXCEPT ![AgentOf(i)][s] = @ + 1]
        /\ sticky' = [sticky EXCEPT ![AgentOf(i)] =
                        Touched(AgentOf(i), [request |-> <<step, i>>, server |-> s])]
        /\ loops' = [loops EXCEPT ![i].at = "waiting", ![i].server = s,
                                  ![i].servers = @ \cup {s}]
  BY DEF Send
<1>3. s \in Servers
  BY <1>1, <1>2, ChosenServers
<1>4. loops[i] \in LoopType
  BY DEF Shape
<1> DEFINE new == [loops[i] EXCEPT !.at = "waiting", !.server = s, !.servers = @ \cup {s}]
<1>5. loops' = [loops EXCEPT ![i] = new]
  BY <1>2 DEF Shape
<1>6. /\ new \in LoopType /\ new.at = "waiting" /\ new.server = s
      /\ new.servers = loops[i].servers \cup {s} /\ new.weights = loops[i].weights
      /\ new.mask = loops[i].mask /\ new.logprobs = loops[i].logprobs
  <2>1. PICK old \in LoopType : old = loops[i]
    BY <1>4
  <2>2. PICK servers \in SUBSET Servers : servers = old.servers \cup {s}
    BY <1>3 DEF LoopType
  <2>3. new = [old EXCEPT !.at = "waiting", !.server = s, !.servers = servers]
    BY <2>1, <2>2 DEF LoopType
  <2> QED
    BY <1>3, <2>1, <2>2, <2>3 DEF LoopType, LoopStages
<1> HIDE DEF new
<1>7. SentTo(i, s, new)
  BY <1>1, <1>2, <1>5, <1>6 DEF SentTo
<1> QED
  BY <1>3, <1>6, <1>7

LEMMA HeldWeights ==
  ASSUME Shape, NEW s \in Servers
  PROVE  Held(s) \subseteq 0..step \cup {Dummy, Allocated, Released} /\ Held(s) \in SUBSET Int
<1>1. \A t \in 1..TpSize : <<s, t>> \in Workers
  BY DEF Workers
<1>2. \A t \in 1..TpSize : engine[<<s, t>>].weights \in 0..step \cup {Dummy, Allocated, Released}
  BY <1>1 DEF Shape, EngineType
<1>3. 0..step \cup {Dummy, Allocated, Released} \subseteq Int
  BY DEF Shape, Dummy, Allocated, Released
<1> QED
  BY <1>2, <1>3 DEF Held

LEMMA AnswerFacts ==
  ASSUME Shape, NEW i \in Rows, Answer(i)
  PROVE  \E n \in Sizes, at \in LoopStages :
           LET s    == loops[i].server
               turn == Turn(loops[i], n, Held(s), prefix[s])
           IN /\ s \in Servers /\ n \in Nat \ {0} /\ n <= Room(i) /\ at \in AfterAnswer(turn)
              /\ turn \in LoopType /\ Moved(turn, at) \in LoopType
              /\ loops' = [loops EXCEPT ![i] = Moved(turn, at)]
              /\ prefix' = [prefix EXCEPT ![s] = @ \cup Held(s)]
<1>1. loops[i].server \in Servers /\ loops[i] \in LoopType
  BY DEF Answer, Shape
<1>2. PICK n \in Sizes : n <= Room(i) /\
        \E at \in AfterAnswer(Turn(loops[i], n, Held(loops[i].server), prefix[loops[i].server])) :
          loops' = [loops EXCEPT ![i] =
                      Moved(Turn(loops[i], n, Held(loops[i].server), prefix[loops[i].server]), at)]
  BY DEF Answer, Turn, Held
<1>3. n \in Nat \ {0}
  BY LimitsAssumption
<1>4. Turn(loops[i], n, Held(loops[i].server), prefix[loops[i].server]) \in LoopType
  <2>1. prefix[loops[i].server] \in SUBSET Int /\ Held(loops[i].server) \in SUBSET Int
    BY <1>1, HeldWeights DEF Shape
  <2> QED
    BY <1>1, <1>3, <2>1, TurnLoop
<1>5. \A loop : AfterAnswer(loop) \subseteq LoopStages
  BY DEF AfterAnswer, LoopStages
<1>6. prefix' = [prefix EXCEPT ![loops[i].server] = @ \cup Held(loops[i].server)]
  BY DEF Answer, Held
<1> HIDE DEF Turn
<1> QED
  BY <1>1, <1>2, <1>3, <1>4, <1>5, <1>6, MovedLoop

LEMMA CallToolsFacts ==
  ASSUME Shape, NEW i \in Rows, CallTools(i)
  PROVE  \E n \in Sizes :
           LET old == loops[i]
               new == IF Len(old.mask) + n >= ResponseLength THEN Moved(old, "done")
                      ELSE Moved(Observed(old, n), "generating")
           IN /\ n \in Nat \ {0} /\ old \in LoopType /\ old.at = "tools"
              /\ Observed(old, n) \in LoopType
              /\ new \in LoopType /\ loops' = [loops EXCEPT ![i] = new]
<1>1. loops[i] \in LoopType /\ loops[i].at = "tools"
  BY DEF CallTools, Shape
<1>2. PICK n \in Sizes :
        loops' = [loops EXCEPT ![i] =
          IF Len(@.mask) + n >= ResponseLength THEN Finished(@)
          ELSE Moved(Observed(@, n), "generating")]
  BY DEF CallTools
<1>3. n \in Nat \ {0}
  BY LimitsAssumption
<1>4. Observed(loops[i], n) \in LoopType
  BY <1>1, <1>3, ObservedLoop
<1>5. /\ Moved(loops[i], "done") \in LoopType
      /\ Moved(Observed(loops[i], n), "generating") \in LoopType
  BY <1>1, <1>4, MovedLoop DEF LoopStages
<1>6. Finished(loops[i]) = Moved(loops[i], "done")
  BY <1>1, FinishedLoop
<1>7. loops' = [loops EXCEPT ![i] =
         IF Len(loops[i].mask) + n >= ResponseLength THEN Finished(loops[i])
         ELSE Moved(Observed(loops[i], n), "generating")]
  BY <1>2 DEF Shape
<1> QED
  BY <1>1, <1>3, <1>4, <1>5, <1>6, <1>7

LEMMA InteractFacts ==
  ASSUME Shape, NEW i \in Rows, Interact(i)
  PROVE  \E n \in Sizes, at \in {"generating", "done"} :
           LET old == loops[i]
               new == Moved(Observed(old, n), at)
           IN /\ n \in Nat \ {0} /\ old \in LoopType /\ old.at = "interacting"
              /\ Observed(old, n) \in LoopType
              /\ new \in LoopType /\ loops' = [loops EXCEPT ![i] = new]
<1>1. loops[i] \in LoopType /\ loops[i].at = "interacting"
  BY DEF Interact, Shape
<1>2. PICK n \in Sizes, at \in {"generating", "done"} :
        loops' = [loops EXCEPT ![i] = Moved(Observed(@, n), at)]
  BY DEF Interact
<1>3. n \in Nat \ {0}
  BY LimitsAssumption
<1>4. Observed(loops[i], n) \in LoopType
  BY <1>1, <1>3, ObservedLoop
<1>5. Moved(Observed(loops[i], n), at) \in LoopType
  BY <1>4, MovedLoop DEF LoopStages
<1>6. loops' = [loops EXCEPT ![i] = Moved(Observed(loops[i], n), at)]
  BY <1>2 DEF Shape
<1> QED
  BY <1>1, <1>3, <1>4, <1>5, <1>6

-----------------------------------------------------------------------------
(***************************************************************************)
(* The request cache                                                       *)
(***************************************************************************)

\* Two sequences, one after the other.
LEMMA Joined ==
  ASSUME NEW S, NEW p \in Seq(S), NEW q \in Seq(S)
  PROVE  /\ p \o q \in Seq(S) /\ Len(p \o q) = Len(p) + Len(q)
         /\ Len(p) \in Nat /\ Len(q) \in Nat
         /\ \A k \in 1..Len(p) : (p \o q)[k] = p[k]
         /\ \A k \in 1..Len(q) : (p \o q)[Len(p) + k] = q[k]
         /\ Len(p) = 0 => p \o q = q
  OBVIOUS

\* One entry less, and one more at the end.
LEMMA Replaced ==
  ASSUME NEW S, NEW s \in Seq(S), NEW d \in 1..Len(s), NEW e \in S
  PROVE  /\ Append(RemoveAt(s, d), e) \in Seq(S)
         /\ Len(Append(RemoveAt(s, d), e)) = Len(s)
         /\ Append(RemoveAt(s, d), e)[Len(s)] = e
         /\ \A k \in 1..(Len(s) - 1) :
              /\ (IF k < d THEN k ELSE k + 1) \in 1..Len(s) \ {d}
              /\ Append(RemoveAt(s, d), e)[k] = s[IF k < d THEN k ELSE k + 1]
<1>1. PICK n \in Nat : n = Len(s) /\ d \in 1..n
  OBVIOUS
<1>2. PICK b \in Nat, m \in Nat : b = d - 1 /\ m = n - d /\ d + m = n
  <2>1. d - 1 \in Nat /\ n - d \in Nat /\ d + (n - d) = n
    BY <1>1
  <2> QED
    BY <2>1
<1>3. /\ SubSeq(s, 1, b) \in Seq(S) /\ Len(SubSeq(s, 1, b)) = b
      /\ \A k \in 1..b : SubSeq(s, 1, b)[k] = s[k]
  <2>1. 0 + b <= Len(s) /\ 0 \in Nat
    BY <1>1, <1>2
  <2>2. /\ SubSeq(s, 0 + 1, 0 + b) \in Seq(S) /\ Len(SubSeq(s, 0 + 1, 0 + b)) = b
        /\ \A k \in 1..b : 0 + k \in 1..Len(s) /\ SubSeq(s, 0 + 1, 0 + b)[k] = s[0 + k]
    BY <2>1, SubSeqPlaces
  <2>3. 0 + 1 = 1 /\ 0 + b = b /\ \A k \in 1..b : 0 + k = k
    OBVIOUS
  <2> QED
    BY <2>2, <2>3
<1>4. /\ SubSeq(s, d + 1, n) \in Seq(S) /\ Len(SubSeq(s, d + 1, n)) = m
      /\ \A k \in 1..m : SubSeq(s, d + 1, n)[k] = s[d + k]
  <2>1. d + m <= Len(s) /\ d \in Nat
    BY <1>1, <1>2
  <2>2. /\ SubSeq(s, d + 1, d + m) \in Seq(S) /\ Len(SubSeq(s, d + 1, d + m)) = m
        /\ \A k \in 1..m : d + k \in 1..Len(s) /\ SubSeq(s, d + 1, d + m)[k] = s[d + k]
    BY <2>1, SubSeqPlaces
  <2> QED
    BY <1>2, <2>2
<1>6. PICK p \in Seq(S), q \in Seq(S) :
        /\ p = SubSeq(s, 1, b) /\ q = SubSeq(s, d + 1, n)
        /\ Len(p) = b /\ Len(q) = m
        /\ \A k \in 1..b : p[k] = s[k]
        /\ \A k \in 1..m : q[k] = s[d + k]
  BY <1>3, <1>4
<1>7. RemoveAt(s, d) = p \o q
  BY <1>1, <1>2, <1>6 DEF RemoveAt
<1>5. p \in Seq(S) /\ q \in Seq(S)
  BY <1>6
<1>13. PICK pq : /\ pq = p \o q /\ pq \in Seq(S) /\ Len(pq) = Len(p) + Len(q)
                 /\ \A k \in 1..Len(p) : pq[k] = p[k]
                 /\ \A k \in 1..Len(q) : pq[Len(p) + k] = q[k]
  <2>1. /\ p \o q \in Seq(S) /\ Len(p \o q) = Len(p) + Len(q)
        /\ \A k \in 1..Len(p) : (p \o q)[k] = p[k]
        /\ \A k \in 1..Len(q) : (p \o q)[Len(p) + k] = q[k]
    BY <1>5, Joined
  <2> QED
    BY ONLY <2>1, Zenon
<1>8. pq \in Seq(S) /\ Len(pq) = n - 1
  <2>1. Len(pq) = b + m
    BY <1>6, <1>13
  <2>2. b + m = n - 1
    BY <1>1, <1>2
  <2> QED
    BY <1>13, <2>1, <2>2
<1>9. ASSUME NEW k \in 1..(n - 1)
      PROVE  /\ (IF k < d THEN k ELSE k + 1) \in 1..n \ {d}
             /\ pq[k] = s[IF k < d THEN k ELSE k + 1]
  <2>1. CASE k < d
    <3>1. k \in 1..b
      BY <1>1, <1>2, <2>1
    <3>2. pq[k] = p[k]
      BY <1>6, <1>13, <3>1
    <3> QED
      BY <1>1, <1>6, <2>1, <3>1, <3>2
  <2>2. CASE k >= d
    <3>1. k - b \in 1..m /\ d + (k - b) = k + 1 /\ b + (k - b) = k
      BY <1>1, <1>2, <2>2
    <3>2. pq[b + (k - b)] = q[k - b]
      BY <1>6, <1>13, <3>1
    <3>3. q[k - b] = s[d + (k - b)]
      BY <1>6, <3>1
    <3> QED
      BY <1>1, <2>2, <3>1, <3>2, <3>3
  <2> QED
    BY <1>1, <2>1, <2>2
<1>10. PICK r \in Seq(S) : r = RemoveAt(s, d) /\ Len(r) = n - 1
         /\ \A k \in 1..(n - 1) : r[k] = s[IF k < d THEN k ELSE k + 1]
  BY <1>7, <1>8, <1>9, <1>13
<1>11. /\ Append(r, e) \in Seq(S) /\ Len(Append(r, e)) = n /\ Append(r, e)[n] = e
       /\ \A k \in 1..(n - 1) : Append(r, e)[k] = r[k]
  BY <1>1, <1>10
<1>12. \A k \in 1..(n - 1) : /\ (IF k < d THEN k ELSE k + 1) \in 1..n \ {d}
                             /\ Append(r, e)[k] = s[IF k < d THEN k ELSE k + 1]
  BY <1>9, <1>10, <1>11
<1> QED
  BY <1>1, <1>10, <1>11, <1>12

\* c is s without its d-th entry, and e at the end.
InPlaceOf(s, d, e, c) ==
  /\ Len(c) = Len(s)
  /\ c[Len(s)] = e
  /\ \A k \in 1..(Len(s) - 1) :
       /\ (IF k < d THEN k ELSE k + 1) \in 1..Len(s) \ {d}
       /\ c[k] = s[IF k < d THEN k ELSE k + 1]

LEMMA ReplacedInPlace ==
  ASSUME NEW S, NEW s \in Seq(S), NEW d \in 1..Len(s), NEW e \in S
  PROVE  /\ Append(RemoveAt(s, d), e) \in Seq(S)
         /\ InPlaceOf(s, d, e, Append(RemoveAt(s, d), e))
  BY Replaced DEF InPlaceOf

LEMMA RemovedLength ==
  ASSUME NEW S, NEW s \in Seq(S), NEW d \in 1..Len(s)
  PROVE  Len(RemoveAt(s, d)) = Len(s) - 1
<1>1. s[d] \in S
  OBVIOUS
<1>2. Len(Append(RemoveAt(s, d), s[d])) = Len(s) /\ Len(s) \in Nat
  BY <1>1, Replaced
<1>3. Len(Append(RemoveAt(s, d), s[d])) = Len(RemoveAt(s, d)) + 1
  OBVIOUS
<1> QED
  BY <1>2, <1>3

\* The oldest entry is the first.
LEMMA TailRemoves ==
  ASSUME NEW S, NEW s \in Seq(S), s # << >>
  PROVE  Tail(s) = RemoveAt(s, 1)
<1>1. PICK n \in Nat \ {0} : n = Len(s)
  OBVIOUS
<1>2. SubSeq(s, 1, 1 - 1) = << >>
  BY <1>1
<1>3. SubSeq(s, 1 + 1, n) = Tail(s)
  <2>1. SubSeq(s, 2, n) = [k \in 1..(n - 1) |-> s[k + 1]]
    BY <1>1
  <2>2. Tail(s) \in Seq(S) /\ Len(Tail(s)) = n - 1
    BY <1>1
  <2>3. \A k \in 1..(n - 1) : Tail(s)[k] = s[k + 1]
    BY <1>1
  <2> QED
    BY <1>1, <2>1, <2>2, <2>3
<1>4. << >> \o Tail(s) = Tail(s)
  <2>1. Tail(s) \in Seq(S)
    BY <1>1
  <2> QED
    BY <2>1
<1> QED
  BY <1>1, <1>2, <1>3, <1>4 DEF RemoveAt

\* What using an entry does to the cache.
LEMMA TouchedCases ==
  ASSUME Shape, NEW a \in Agents, NEW e \in Entry
  PROVE  \/ /\ Touched(a, e) = Append(sticky[a], e)
            /\ Hits(a, e.request) = {} /\ Len(sticky[a]) < CacheSize
         \/ \E d \in 1..Len(sticky[a]) :
              /\ Touched(a, e) = Append(RemoveAt(sticky[a], d), e)
              /\ \/ d \in Hits(a, e.request)
                 \/ Hits(a, e.request) = {} /\ d = 1 /\ Len(sticky[a]) = CacheSize
<1>1. sticky[a] \in Seq(Entry) /\ Len(sticky[a]) <= CacheSize /\ CacheSize \in Nat \ {0}
      /\ Len(sticky[a]) \in Nat
  BY LimitsAssumption DEF Shape
<1>2. Hits(a, e.request) \subseteq 1..Len(sticky[a])
  BY DEF Hits
<1>3. CASE Hits(a, e.request) = {} /\ Len(sticky[a]) # CacheSize
  BY <1>1, <1>3 DEF Touched
<1>4. CASE Hits(a, e.request) = {} /\ Len(sticky[a]) = CacheSize
  <2>1. Touched(a, e) = Append(Tail(sticky[a]), e)
    BY <1>4 DEF Touched
  <2>2. sticky[a] # << >> /\ 1 \in 1..Len(sticky[a])
    BY <1>1, <1>4
  <2>3. Tail(sticky[a]) = RemoveAt(sticky[a], 1)
    BY <1>1, <2>2, TailRemoves
  <2> QED
    BY <1>4, <2>1, <2>2, <2>3
<1>5. CASE Hits(a, e.request) # {}
  <2>1. PICK d \in Hits(a, e.request) : d = CHOOSE k \in Hits(a, e.request) : TRUE
    BY <1>5
  <2>2. Len(RemoveAt(sticky[a], d)) = Len(sticky[a]) - 1
    BY <1>1, <1>2, RemovedLength
  <2>3. Len(RemoveAt(sticky[a], d)) # CacheSize
    BY <1>1, <2>2
  <2>4. Touched(a, e) = Append(RemoveAt(sticky[a], d), e)
    BY <1>5, <2>1, <2>3 DEF Touched
  <2> QED
    BY <1>2, <2>1, <2>4
<1> QED
  BY <1>3, <1>4, <1>5

LEMMA TouchedType ==
  ASSUME Shape, NEW a \in Agents, NEW e \in Entry
  PROVE  Touched(a, e) \in Seq(Entry) /\ Len(Touched(a, e)) <= CacheSize
<1>1. sticky[a] \in Seq(Entry) /\ Len(sticky[a]) <= CacheSize /\ CacheSize \in Nat
  BY LimitsAssumption DEF Shape
<1>2. CASE Touched(a, e) = Append(sticky[a], e) /\ Len(sticky[a]) < CacheSize
  BY <1>1, <1>2
<1>3. ASSUME NEW d \in 1..Len(sticky[a]), Touched(a, e) = Append(RemoveAt(sticky[a], d), e)
      PROVE  Touched(a, e) \in Seq(Entry) /\ Len(Touched(a, e)) <= CacheSize
  BY <1>1, <1>3, Replaced
<1> QED
  BY <1>2, <1>3, TouchedCases

-----------------------------------------------------------------------------
(***************************************************************************)
(* Shapes are kept                                                         *)
(***************************************************************************)
LEMMA ShapeInit == Init => Shape
<1> SUFFICES ASSUME Init PROVE Shape
  OBVIOUS
<1>1. config \in Configs /\ MaxSteps \in Nat /\ 0 \in 0..MaxSteps /\ 0 \in 0..0
  BY LimitsAssumption DEF Init
<1>2. \A w \in Workers : w[1] \in Servers
  BY DEF Workers
<1>3. /\ mode \in [Workers -> {"trainer", "resumed", "loaded", "rollout"}]
      /\ engine \in [Workers -> EngineType]
  BY DEF Init, EngineType
<1>4. \A x \in {"torch", "engine", "rollout"}, s \in Servers \cup {0} : State(<<x, s>>) \in StateType(0)
  BY <1>1 DEF State, StateType
<1>5. /\ device \in [Workers -> StateType(0)] /\ torchState \in [Workers -> StateType(0)]
      /\ genState \in [Workers -> StateType(0)]
  <2> HIDE DEF State
  <2> QED
    BY <1>2, <1>4 DEF Init
<1>6. << >> \in Seq(Entry) /\ Len(<< >>) = 0 /\ 0 <= CacheSize
  BY LimitsAssumption
<1>7. sticky \in [Agents -> Seq(Entry)] /\ \A a \in Agents : Len(sticky[a]) <= CacheSize
  BY <1>6 DEF Init
<1>8. NewLoop \in LoopType /\ NewLoop.at = "pending"
  BY DEF NewLoop, LoopType, LoopStages
<1>9. /\ loops \in [Rows -> LoopType]
      /\ \A i \in Rows : loops[i].at = "waiting" => loops[i].server \in Servers
  <2> HIDE DEF NewLoop
  <2>1. loops = [i \in Rows |-> NewLoop]
    BY DEF Init
  <2> QED
    BY <1>8, <2>1
<1>10. /\ prefix \in [Servers -> SUBSET Int] /\ requests \in [Agents -> [Servers -> Nat]]
       /\ drained \subseteq Servers
  BY DEF Init
<1>11. step = 0 /\ trained = 0 /\ driver \in {"training", "sleeping"}
  BY DEF Init
<1> QED
  BY <1>1, <1>3, <1>5, <1>7, <1>9, <1>10, <1>11 DEF Shape

\* What an action of the workers has to leave in order.
LEMMA ShapeWorker ==
  ASSUME Shape, NEW w \in Workers, Worker(w)
  PROVE  Shape'
<1>1. config' = config /\ step' = step /\ trained' = trained /\ driver' = driver
      /\ drained' = drained /\ loopVars' = loopVars
  BY DEF Worker, Resume, UpdateWeights, EnterRollout, EnterTrainer
<1>2. /\ mode' \in [Workers -> {"trainer", "resumed", "loaded", "rollout"}]
  BY DEF Worker, Resume, UpdateWeights, EnterRollout, EnterTrainer, Shape
<1>3. engine' \in [Workers -> EngineType]
  <2>1. PICK old \in EngineType : old = engine[w]
    BY DEF Shape
  <2>2. /\ [old EXCEPT !.weights = Allocated] \in EngineType
        /\ [old EXCEPT !.weights = old.weights] \in EngineType
        /\ [old EXCEPT !.cache = TRUE] \in EngineType
        /\ [weights |-> Released, cache |-> FALSE] \in EngineType
    BY DEF EngineType
  <2>3. [old EXCEPT !.weights = trained] \in EngineType
    BY DEF EngineType, Shape
  <2>4. engine \in [Workers -> EngineType]
    BY DEF Shape
  <2>5. CASE Resume(w)
    <3>1. engine' = [engine EXCEPT ![w] =
             [old EXCEPT !.weights = IF config.free THEN Allocated ELSE old.weights]]
      BY <2>1, <2>4, <2>5 DEF Resume
    <3> QED
      BY <2>2, <2>4, <3>1
  <2>6. CASE UpdateWeights(w)
    <3>1. engine' = [engine EXCEPT ![w] = [old EXCEPT !.weights = trained]]
      BY <2>1, <2>4, <2>6 DEF UpdateWeights
    <3> QED
      BY <2>3, <2>4, <3>1
  <2>7. CASE EnterRollout(w)
    <3>1. engine' = [engine EXCEPT ![w] = [old EXCEPT !.cache = TRUE]]
      BY <2>1, <2>4, <2>7 DEF EnterRollout
    <3> QED
      BY <2>2, <2>4, <3>1
  <2>8. CASE EnterTrainer(w)
    <3>1. engine' = [engine EXCEPT ![w] =
             IF config.free THEN [weights |-> Released, cache |-> FALSE] ELSE old]
      BY <2>1, <2>4, <2>8 DEF EnterTrainer
    <3> QED
      BY <2>2, <2>4, <3>1
  <2>9. EngineType' = EngineType
    BY <1>1 DEF EngineType
  <2> QED
    BY <2>5, <2>6, <2>7, <2>8 DEF Worker
<1>4. /\ device' \in [Workers -> StateType(step)] /\ torchState' \in [Workers -> StateType(step)]
      /\ genState' \in [Workers -> StateType(step)]
  <2>1. \A f \in {device, torchState, genState} :
          f \in [Workers -> StateType(step)] /\ f[w] \in StateType(step)
    BY DEF Shape
  <2>2. \A f, g \in {device, torchState, genState} :
          [f EXCEPT ![w] = g[w]] \in [Workers -> StateType(step)]
    BY <2>1
  <2>3. /\ device' \in {device, [device EXCEPT ![w] = genState[w]], [device EXCEPT ![w] = torchState[w]]}
        /\ torchState' \in {torchState, [torchState EXCEPT ![w] = device[w]]}
        /\ genState' \in {genState, [genState EXCEPT ![w] = device[w]]}
    BY DEF Worker, Resume, UpdateWeights, EnterRollout, EnterTrainer
  <2> QED
    BY <2>1, <2>2, <2>3
<1>5. driver \in {"waking", "generating"} => \A v \in Workers :
        device'[v].sampler < step /\ torchState'[v].sampler < step /\ genState'[v].sampler < step
  <2> SUFFICES ASSUME driver \in {"waking", "generating"}, NEW v \in Workers
               PROVE  device'[v].sampler < step /\ torchState'[v].sampler < step
                      /\ genState'[v].sampler < step
    OBVIOUS
  <2>1. \A f \in {device, torchState, genState} :
          f \in [Workers -> StateType(step)] /\ f[w].sampler < step /\ f[v].sampler < step
    BY DEF Shape
  <2>2. /\ device'[v] \in {device[v], device[w], torchState[w], genState[w]}
        /\ torchState'[v] \in {torchState[v], device[w]}
        /\ genState'[v] \in {genState[v], device[w]}
    BY <2>1 DEF Worker, Resume, UpdateWeights, EnterRollout, EnterTrainer
  <2> QED
    BY <2>1, <2>2
<1>6. EngineType' = EngineType /\ Rows' = Rows /\ Agents' = Agents /\ Entry' = Entry
  BY <1>1 DEF EngineType, Rows, Agents, Entry
<1> QED
  BY <1>1, <1>2, <1>3, <1>4, <1>5, <1>6 DEF Shape, loopVars

LEMMA ShapeBegin ==
  ASSUME Shape, BeginRollout
  PROVE  Shape'
<1>1. /\ config' = config /\ step' = step + 1 /\ trained' \in {trained, trained + 1}
      /\ driver' = "waking" /\ mode' = mode /\ engine' = engine /\ drained' = drained
      /\ torchState' = torchState /\ genState' = genState /\ prefix' = prefix
      /\ requests' = requests /\ sticky' = sticky
      /\ device' = [w \in Workers |-> [device[w] EXCEPT !.trainer = @ + 1]]
      /\ loops' = [i \in Rows |-> NewLoop]
  BY DEF BeginRollout
<1>2. step \in Nat /\ step' \in 0..MaxSteps /\ trained' \in 0..step'
  BY <1>1, LimitsAssumption DEF BeginRollout, Shape
<1>3. Rows' = Rows /\ Agents' = Agents /\ Entry' = Entry
  BY <1>1 DEF Rows, Agents, Entry
<1>4. EngineType \subseteq EngineType'
  BY <1>1, <1>2 DEF EngineType
<1>5. StateType(step) \subseteq StateType(step')
  BY <1>1, <1>2 DEF StateType
<1>6. ASSUME NEW w \in Workers
      PROVE  /\ device'[w] \in StateType(step') /\ device'[w].sampler < step'
             /\ torchState[w].sampler < step' /\ genState[w].sampler < step'
  <2>1. PICK old \in StateType(step) : old = device[w]
    BY DEF Shape
  <2>2. device'[w] = [old EXCEPT !.trainer = old.trainer + 1]
    BY <1>1, <2>1
  <2>3. /\ [old EXCEPT !.trainer = old.trainer + 1] \in StateType(step')
        /\ [old EXCEPT !.trainer = old.trainer + 1].sampler < step'
    BY <1>1, <1>2 DEF StateType
  <2>4. torchState[w] \in StateType(step) /\ genState[w] \in StateType(step)
    BY DEF Shape
  <2>5. torchState[w].sampler < step' /\ genState[w].sampler < step'
    BY <1>1, <1>2, <2>4 DEF StateType
  <2> QED
    BY <2>2, <2>3, <2>5
<1>7. NewLoop \in LoopType /\ NewLoop.at = "pending"
  BY DEF NewLoop, LoopType, LoopStages
<1>8. /\ loops' \in [Rows -> LoopType]
      /\ \A i \in Rows : loops'[i].at = "waiting" => loops'[i].server \in Servers
  <2> HIDE DEF NewLoop
  <2> QED
    BY <1>1, <1>7
<1>9. device' \in [Workers -> StateType(step')] /\ torchState' \in [Workers -> StateType(step')]
      /\ genState' \in [Workers -> StateType(step')] /\ engine' \in [Workers -> EngineType']
  <2>1. device' \in [Workers -> StateType(step')]
    BY <1>1, <1>6
  <2>2. /\ torchState \in [Workers -> StateType(step)] /\ genState \in [Workers -> StateType(step)]
        /\ engine \in [Workers -> EngineType]
    BY DEF Shape
  <2> QED
    BY <1>1, <1>4, <1>5, <2>1, <2>2
<1> QED
  BY <1>1, <1>2, <1>3, <1>6, <1>8, <1>9 DEF Shape

LEMMA ShapeDriver ==
  ASSUME Shape, AllAwake \/ Collect \/ EndRollout
  PROVE  Shape'
<1>1. /\ config' = config /\ step' = step /\ trained' = trained /\ mode' = mode
      /\ engine' = engine /\ torchState' = torchState /\ genState' = genState
      /\ prefix' = prefix /\ requests' = requests /\ sticky' = sticky /\ loops' = loops
      /\ driver' \in {"generating", "sleeping", "training"} /\ drained' \subseteq Servers
  BY DEF AllAwake, Collect, EndRollout, workerVars, loopVars, Shape
<1>2. Rows' = Rows /\ Agents' = Agents /\ Entry' = Entry /\ EngineType' = EngineType
  BY <1>1 DEF Rows, Agents, Entry, EngineType
<1>3. driver' = "generating" => driver = "waking" /\ device' = device
  BY DEF AllAwake, Collect, EndRollout, workerVars
<1>4. device' \in [Workers -> StateType(step)]
  <2>1. CASE AllAwake \/ EndRollout
    BY <2>1 DEF AllAwake, EndRollout, workerVars, Shape
  <2>2. CASE Collect
    <3>1. device' = [w \in Workers |-> [device[w] EXCEPT !.sampler = @ + 1]]
      BY <2>2 DEF Collect
    <3>2. ASSUME NEW w \in Workers
          PROVE  [device[w] EXCEPT !.sampler = @ + 1] \in StateType(step)
      <4>1. PICK old \in StateType(step) : old = device[w] /\ old.sampler < step /\ step \in Nat
        BY <2>2, LimitsAssumption DEF Shape, Collect
      <4>2. [old EXCEPT !.sampler = old.sampler + 1] \in StateType(step)
        BY <4>1 DEF StateType
      <4> QED
        BY <4>1, <4>2
    <3> QED
      BY <3>1, <3>2
  <2> QED
    BY <2>1, <2>2
<1>5. driver' # "waking"
  BY <1>1
<1> QED
  BY <1>1, <1>2, <1>3, <1>4, <1>5 DEF Shape

LEMMA ShapeSleep ==
  ASSUME Shape, NEW s \in Servers, Sleep(s)
  PROVE  Shape'
<1>1. /\ config' = config /\ step' = step /\ trained' = trained /\ driver' = driver
      /\ mode' = mode /\ engine' = engine /\ device' = device /\ torchState' = torchState
      /\ genState' = genState /\ requests' = requests /\ sticky' = sticky /\ loops' = loops
      /\ drained' = drained \cup {s} /\ prefix' = [prefix EXCEPT ![s] = {}]
  BY DEF Sleep
<1>2. Rows' = Rows /\ Agents' = Agents /\ Entry' = Entry /\ EngineType' = EngineType
  BY <1>1 DEF Rows, Agents, Entry, EngineType
<1>3. prefix' \in [Servers -> SUBSET Int] /\ drained' \subseteq Servers
  BY <1>1 DEF Shape
<1> QED
  BY <1>1, <1>2, <1>3 DEF Shape

\* The loop of one row changes.
LEMMA ShapeRow ==
  ASSUME Shape, NEW i \in Rows, NEW new \in LoopType, loops' = [loops EXCEPT ![i] = new],
         new.at = "waiting" => new.server \in Servers
  PROVE  /\ loops' \in [Rows -> LoopType] /\ loops'[i] = new
         /\ \A j \in Rows \ {i} : loops'[j] = loops[j]
         /\ \A j \in Rows : loops'[j].at = "waiting" => loops'[j].server \in Servers
<1>1. /\ loops' \in [Rows -> LoopType] /\ loops'[i] = new
      /\ \A j \in Rows \ {i} : loops'[j] = loops[j]
  BY EntryChange DEF Shape
<1> QED
  BY <1>1 DEF Shape

LEMMA ShapeLoop ==
  ASSUME Shape, NEW i \in Rows, Loop(i)
  PROVE  Shape'
<1>1. /\ config' = config /\ step' = step /\ trained' = trained /\ mode' = mode
      /\ engine' = engine /\ torchState' = torchState /\ genState' = genState
      /\ device' = device /\ drained' = drained
  BY DEF Loop, Send, LoopRaises, Answer, CallTools, Interact, workerVars
<1>2. Rows' = Rows /\ Agents' = Agents /\ Entry' = Entry /\ EngineType' = EngineType
  BY <1>1 DEF Rows, Agents, Entry, EngineType
<1>3. driver = "generating" /\ driver' \in {"generating", "failed"}
  BY DEF Loop, Send, LoopRaises, Answer, CallTools, Interact
<1>4. /\ loops' \in [Rows -> LoopType]
      /\ \A j \in Rows : loops'[j].at = "waiting" => loops'[j].server \in Servers
  <2>1. CASE Send(i)
    <3>1. PICK s \in Servers, new \in LoopType : SentTo(i, s, new)
      BY <2>1, SendFacts
    <3>2. loops' = [loops EXCEPT ![i] = new] /\ new.server = s
      BY <3>1 DEF SentTo
    <3> QED
      BY <3>2, ShapeRow
  <2>2. CASE LoopRaises(i)
    BY <2>2 DEF LoopRaises, loopVars, Shape
  <2>3. CASE Answer(i)
    <3>1. PICK n \in Sizes, at \in LoopStages :
            LET turn == Turn(loops[i], n, Held(loops[i].server), prefix[loops[i].server])
            IN /\ turn \in LoopType /\ Moved(turn, at) \in LoopType /\ at \in AfterAnswer(turn)
               /\ loops' = [loops EXCEPT ![i] = Moved(turn, at)]
      BY <2>3, AnswerFacts
    <3>2. PICK turn \in LoopType : Moved(turn, at) \in LoopType /\ at \in AfterAnswer(turn)
                                   /\ loops' = [loops EXCEPT ![i] = Moved(turn, at)]
      BY <3>1
    <3>3. at # "waiting"
      BY <3>2 DEF AfterAnswer
    <3>4. Moved(turn, at).at = at
      BY <3>2, MovedLoop
    <3> QED
      BY <3>2, <3>3, <3>4, ShapeRow
  <2>4. CASE CallTools(i)
    <3>1. PICK new \in LoopType : loops' = [loops EXCEPT ![i] = new] /\ new.at # "waiting"
      <4>1. PICK n \in Sizes :
              LET old == loops[i]
                  new == IF Len(old.mask) + n >= ResponseLength THEN Moved(old, "done")
                         ELSE Moved(Observed(old, n), "generating")
              IN /\ n \in Nat \ {0} /\ old \in LoopType /\ Observed(old, n) \in LoopType
                 /\ new \in LoopType /\ loops' = [loops EXCEPT ![i] = new]
        BY <2>4, CallToolsFacts
      <4>2. /\ Moved(loops[i], "done").at # "waiting"
            /\ Moved(Observed(loops[i], n), "generating").at # "waiting"
        BY <4>1, MovedLoop DEF LoopStages
      <4> QED
        BY <4>1, <4>2
    <3> QED
      BY <3>1, ShapeRow
  <2>5. CASE Interact(i)
    <3>1. PICK n \in Sizes, at \in {"generating", "done"} :
            /\ Observed(loops[i], n) \in LoopType /\ Moved(Observed(loops[i], n), at) \in LoopType
            /\ loops' = [loops EXCEPT ![i] = Moved(Observed(loops[i], n), at)]
      BY <2>5, InteractFacts
    <3>2. Moved(Observed(loops[i], n), at).at # "waiting"
      BY <3>1, MovedLoop DEF LoopStages
    <3> QED
      BY <3>1, <3>2, ShapeRow
  <2> QED
    BY <2>1, <2>2, <2>3, <2>4, <2>5 DEF Loop
<1>5. prefix' \in [Servers -> SUBSET Int]
  <2>1. CASE Answer(i)
    <3>1. loops[i].server \in Servers
          /\ prefix' = [prefix EXCEPT ![loops[i].server] = @ \cup Held(loops[i].server)]
      BY <2>1, AnswerFacts
    <3>2. PICK s \in Servers : s = loops[i].server
      BY <3>1
    <3>3. prefix[s] \cup Held(s) \in SUBSET Int /\ prefix \in [Servers -> SUBSET Int]
      BY HeldWeights DEF Shape
    <3> QED
      BY <3>1, <3>2, <3>3
  <2>2. CASE ~Answer(i)
    BY <2>2 DEF Loop, Send, LoopRaises, CallTools, Interact, loopVars, Shape
  <2> QED
    BY <2>1, <2>2
<1>6. /\ requests' \in [Agents -> [Servers -> Nat]] /\ sticky' \in [Agents -> Seq(Entry)]
      /\ \A a \in Agents : Len(sticky'[a]) <= CacheSize
  <2>1. CASE Send(i)
    <3>0. PICK t \in Servers, row \in LoopType : SentTo(i, t, row)
      BY <2>1, SendFacts
    <3>1. PICK s \in Servers, a \in Agents :
            /\ a = AgentOf(i)
            /\ requests' = IF Hits(a, <<step, i>>) /= {} THEN requests
                           ELSE [requests EXCEPT ![a][s] = @ + 1]
            /\ sticky' = [sticky EXCEPT ![a] =
                            Touched(a, [request |-> <<step, i>>, server |-> s])]
      BY <3>0 DEF SentTo
    <3>2. [request |-> <<step, i>>, server |-> s] \in Entry
      BY LimitsAssumption DEF Entry, Shape
    <3>3. PICK new \in Seq(Entry) :
            new = Touched(a, [request |-> <<step, i>>, server |-> s]) /\ Len(new) <= CacheSize
      BY <3>2, TouchedType
    <3>4. sticky' = [sticky EXCEPT ![a] = new]
      BY <3>1, <3>3
    <3>5. /\ sticky' \in [Agents -> Seq(Entry)] /\ sticky'[a] = new
          /\ \A b \in Agents \ {a} : sticky'[b] = sticky[b]
      BY <3>4, EntryChange DEF Shape
    <3>6. requests' \in [Agents -> [Servers -> Nat]]
      BY <3>1 DEF Shape
    <3> QED
      BY <3>3, <3>5, <3>6 DEF Shape
  <2>2. CASE ~Send(i)
    BY <2>2 DEF Loop, LoopRaises, Answer, CallTools, Interact, loopVars, Shape
  <2> QED
    BY <2>1, <2>2
<1>7. driver = "generating" => \A w \in Workers :
        device[w].sampler < step /\ torchState[w].sampler < step /\ genState[w].sampler < step
  BY DEF Shape
<1> QED
  BY <1>1, <1>2, <1>3, <1>4, <1>5, <1>6, <1>7 DEF Shape

LEMMA ShapeStep ==
  ASSUME Shape, [Next]_vars
  PROVE  Shape'
<1>1. CASE UNCHANGED vars
  BY <1>1 DEF Shape, vars, workerVars, loopVars, Rows, Agents, Entry, EngineType
<1> QED
  BY <1>1, ShapeBegin, ShapeDriver, ShapeWorker, ShapeSleep, ShapeLoop DEF Next

-----------------------------------------------------------------------------
(***************************************************************************)
(* What holds between two steps                                            *)
(***************************************************************************)

\* Who has the workers in each phase of the driver, and which weights.
Training ==
  /\ drained = {}
  /\ \A w \in Workers : mode[w] = "trainer"
  /\ \A s \in Servers : prefix[s] = {}

Waking ==
  /\ drained = {}
  /\ \A i \in Rows : loops[i].weights = {}
  /\ \A s \in Servers : prefix[s] = {}
  /\ \A w \in Workers : mode[w] \in {"loaded", "rollout"} => engine[w].weights = trained

Generating ==
  /\ drained = {}
  /\ \A w \in Workers : mode[w] = "rollout" /\ engine[w].weights = trained
  /\ \A s \in Servers : prefix[s] \subseteq {trained}

Sleeping ==
  /\ \A w \in Workers : \/ mode[w] = "rollout"
                        \/ mode[w] = "trainer" /\ w[1] \in drained
  /\ \A s \in Servers : prefix[s] \subseteq {trained}
  /\ \A s \in drained : prefix[s] = {}

Phases ==
  /\ driver = "training" => Training
  /\ driver = "waking" => Waking
  /\ driver \in {"generating", "failed"} => Generating
  /\ driver = "sleeping" => Sleeping
  /\ driver \in {"training", "waking", "sleeping"} => \A i \in Rows : loops[i].at # "waiting"
  /\ \A i \in Rows : loops[i].weights \subseteq {trained}
  /\ config.free => \A w \in Workers :
       mode[w] = "trainer" => engine[w] = [weights |-> Released, cache |-> FALSE]

\* The two random streams of a worker, wherever they are kept.
RolloutStream(w) == IF mode[w] = "rollout" THEN device[w] ELSE genState[w]
TrainerStream(w) == IF mode[w] = "rollout" THEN torchState[w] ELSE device[w]

Streams ==
  /\ \A w \in Workers : RolloutStream(w).trainer = 0 /\ TrainerStream(w).sampler = 0
  /\ \A w, v \in Workers : w[1] = v[1] => RolloutStream(w) = RolloutStream(v)


-----------------------------------------------------------------------------
(***************************************************************************)
(* Weights and memory                                                      *)
(***************************************************************************)
LEMMA PhasesInit == Init => Phases
<1> SUFFICES ASSUME Init PROVE Phases
  OBVIOUS
<1>1. \A i \in Rows : loops[i].weights = {} /\ loops[i].at = "pending"
  BY DEF Init, NewLoop
<1>2. drained = {} /\ (\A s \in Servers : prefix[s] = {})
  BY DEF Init
<1>3. CASE config.free
  <2>1. driver = "sleeping" /\ \A w \in Workers : mode[w] = "rollout"
    BY <1>3 DEF Init
  <2>2. Sleeping
    BY <1>2, <2>1 DEF Sleeping
  <2> QED
    BY <1>1, <2>1, <2>2 DEF Phases
<1>4. CASE ~config.free
  <2>1. driver = "training" /\ \A w \in Workers : mode[w] = "trainer"
    BY <1>4 DEF Init
  <2>2. Training
    BY <1>2, <2>1 DEF Training
  <2> QED
    BY <1>1, <1>4, <2>1, <2>2 DEF Phases
<1> QED
  BY <1>3, <1>4

LEMMA PhasesWorker ==
  ASSUME Shape, Phases, NEW w \in Workers, Worker(w)
  PROVE  Phases'
<1>1. /\ config' = config /\ trained' = trained /\ driver' = driver /\ drained' = drained
      /\ prefix' = prefix /\ loops' = loops /\ Rows' = Rows
  BY DEF Worker, Resume, UpdateWeights, EnterRollout, EnterTrainer, loopVars, Rows
<1>2. mode \in [Workers -> {"trainer", "resumed", "loaded", "rollout"}] /\ engine \in [Workers -> EngineType]
  BY DEF Shape
<1>3. /\ driver' \in {"training", "waking", "sleeping"} => \A i \in Rows' : loops'[i].at # "waiting"
      /\ \A i \in Rows' : loops'[i].weights \subseteq {trained'}
  BY <1>1 DEF Phases
<1>4. \A v \in Workers \ {w} : mode'[v] = mode[v] /\ engine'[v] = engine[v]
  BY <1>2 DEF Worker, Resume, UpdateWeights, EnterRollout, EnterTrainer
<1>5. CASE Resume(w)
  <2>1. driver = "waking" /\ mode'[w] = "resumed"
    BY <1>2, <1>5 DEF Resume
  <2>2. Waking'
    BY <1>1, <1>2, <1>4, <2>1 DEF Phases, Waking
  <2>3. config'.free => \A v \in Workers :
          mode'[v] = "trainer" => engine'[v] = [weights |-> Released, cache |-> FALSE]
    BY <1>1, <1>4, <2>1 DEF Phases
  <2> QED
    BY <1>1, <1>3, <2>1, <2>2, <2>3 DEF Phases
<1>6. CASE UpdateWeights(w)
  <2>1. mode[w] = "resumed" /\ mode'[w] = "loaded" /\ engine'[w].weights = trained
    BY <1>2, <1>6 DEF UpdateWeights, EngineType
  <2>2. driver = "waking"
    BY <2>1 DEF Phases, Training, Generating, Sleeping, Shape
  <2>3. Waking'
    BY <1>1, <1>2, <1>4, <2>1, <2>2 DEF Phases, Waking
  <2>4. config'.free => \A v \in Workers :
          mode'[v] = "trainer" => engine'[v] = [weights |-> Released, cache |-> FALSE]
    BY <1>1, <1>4, <2>1 DEF Phases
  <2> QED
    BY <1>1, <1>3, <2>2, <2>3, <2>4 DEF Phases
<1>7. CASE EnterRollout(w)
  <2>1. mode[w] = "loaded" /\ mode'[w] = "rollout" /\ engine'[w].weights = engine[w].weights
    BY <1>2, <1>7 DEF EnterRollout, EngineType
  <2>2. driver = "waking"
    BY <2>1 DEF Phases, Training, Generating, Sleeping, Shape
  <2>3. Waking'
    BY <1>1, <1>2, <1>4, <2>1, <2>2 DEF Phases, Waking
  <2>4. config'.free => \A v \in Workers :
          mode'[v] = "trainer" => engine'[v] = [weights |-> Released, cache |-> FALSE]
    BY <1>1, <1>4, <2>1 DEF Phases
  <2> QED
    BY <1>1, <1>3, <2>2, <2>3, <2>4 DEF Phases
<1>8. CASE EnterTrainer(w)
  <2>1. driver = "sleeping" /\ w[1] \in drained /\ mode'[w] = "trainer"
    BY <1>2, <1>8 DEF EnterTrainer
  <2>2. Sleeping'
    BY <1>1, <1>4, <2>1 DEF Phases, Sleeping
  <2>3. config.free => engine'[w] = [weights |-> Released, cache |-> FALSE]
    BY <1>2, <1>8 DEF EnterTrainer
  <2>4. config'.free => \A v \in Workers :
          mode'[v] = "trainer" => engine'[v] = [weights |-> Released, cache |-> FALSE]
    BY <1>1, <1>4, <2>3 DEF Phases
  <2> QED
    BY <1>1, <1>3, <2>1, <2>2, <2>4 DEF Phases
<1> QED
  BY <1>5, <1>6, <1>7, <1>8 DEF Worker

LEMMA PhasesDriver ==
  ASSUME Shape, Phases, BeginRollout \/ AllAwake \/ Collect \/ EndRollout
  PROVE  Phases'
<1>1. config' = config /\ mode' = mode /\ engine' = engine /\ prefix' = prefix /\ Rows' = Rows
  BY DEF BeginRollout, AllAwake, Collect, EndRollout, workerVars, loopVars, Rows
<1>2. config'.free => \A v \in Workers :
        mode'[v] = "trainer" => engine'[v] = [weights |-> Released, cache |-> FALSE]
  BY <1>1 DEF Phases
<1>3. CASE BeginRollout
  <2>1. /\ driver = "training" /\ driver' = "waking" /\ drained' = drained
        /\ \A i \in Rows : loops'[i].weights = {} /\ loops'[i].at = "pending"
    BY <1>3 DEF BeginRollout, NewLoop
  <2>2. Waking'
    BY <1>1, <2>1 DEF Phases, Training, Waking
  <2> QED
    BY <1>1, <1>2, <2>1, <2>2 DEF Phases
<1>4. CASE AllAwake
  <2>1. /\ driver = "waking" /\ driver' = "generating" /\ drained' = drained /\ loops' = loops
        /\ trained' = trained /\ \A w \in Workers : mode[w] = "rollout"
    BY <1>4 DEF AllAwake, workerVars, loopVars
  <2>2. Generating'
    BY <1>1, <2>1 DEF Phases, Waking, Generating
  <2> QED
    BY <1>1, <1>2, <2>1, <2>2 DEF Phases
<1>5. CASE Collect
  <2>1. /\ driver = "generating" /\ driver' = "sleeping" /\ drained' = drained /\ loops' = loops
        /\ trained' = trained /\ \A i \in Rows : loops[i].at = "done"
    BY <1>5 DEF Collect, loopVars
  <2>2. Sleeping'
    BY <1>1, <2>1 DEF Phases, Generating, Sleeping
  <2> QED
    BY <1>1, <1>2, <2>1, <2>2 DEF Phases
<1>6. CASE EndRollout
  <2>1. /\ driver = "sleeping" /\ driver' = "training" /\ drained' = {} /\ loops' = loops
        /\ trained' = trained /\ drained = Servers /\ \A w \in Workers : mode[w] = "trainer"
    BY <1>6 DEF EndRollout, loopVars
  <2>2. Training'
    BY <1>1, <2>1 DEF Phases, Sleeping, Training
  <2> QED
    BY <1>1, <1>2, <2>1, <2>2 DEF Phases
<1> QED
  BY <1>3, <1>4, <1>5, <1>6

LEMMA PhasesSleep ==
  ASSUME Shape, Phases, NEW s \in Servers, Sleep(s)
  PROVE  Phases'
<1>1. /\ config' = config /\ trained' = trained /\ driver' = driver /\ driver = "sleeping"
      /\ mode' = mode /\ engine' = engine /\ loops' = loops /\ Rows' = Rows
      /\ drained' = drained \cup {s} /\ prefix' = [prefix EXCEPT ![s] = {}]
  BY DEF Sleep, Rows
<1>2. /\ prefix'[s] = {} /\ \A t \in Servers \ {s} : prefix'[t] = prefix[t]
      /\ drained \subseteq Servers
  BY <1>1 DEF Shape
<1>3. Sleeping'
  BY <1>1, <1>2 DEF Phases, Sleeping
<1> QED
  BY <1>1, <1>3 DEF Phases

\* What a server answers from while the driver generates: the trainer's weights.
LEMMA HeldCurrent ==
  ASSUME Generating, NEW s \in Servers
  PROVE  Held(s) \subseteq {trained} /\ prefix[s] \subseteq {trained}
<1>1. \A t \in 1..TpSize : <<s, t>> \in Workers
  BY DEF Workers
<1>2. \A t \in 1..TpSize : engine[<<s, t>>].weights = trained
  BY <1>1 DEF Generating
<1> QED
  BY <1>2 DEF Generating, Held

LEMMA PhasesLoop ==
  ASSUME Shape, Phases, NEW i \in Rows, Loop(i)
  PROVE  Phases'
<1>1. /\ config' = config /\ trained' = trained /\ mode' = mode /\ engine' = engine
      /\ drained' = drained /\ Rows' = Rows
      /\ driver = "generating" /\ driver' \in {"generating", "failed"}
  BY DEF Loop, Send, LoopRaises, Answer, CallTools, Interact, workerVars, Rows
<1>2. Generating
  BY <1>1 DEF Phases
<1>3. \A s \in Servers : prefix'[s] \subseteq {trained}
  <2>1. CASE Answer(i)
    <3>1. PICK s \in Servers : prefix' = [prefix EXCEPT ![s] = @ \cup Held(s)]
      BY <2>1, AnswerFacts
    <3>2. prefix \in [Servers -> SUBSET Int]
      BY DEF Shape
    <3>3. Held(s) \subseteq {trained} /\ \A t \in Servers : prefix[t] \subseteq {trained}
      BY <1>2, HeldCurrent
    <3> QED
      BY <3>1, <3>2, <3>3
  <2>2. CASE ~Answer(i)
    BY <1>2, <2>2 DEF Loop, Send, LoopRaises, CallTools, Interact, loopVars, Generating
  <2> QED
    BY <2>1, <2>2
<1>4. Generating'
  BY <1>1, <1>2, <1>3 DEF Generating
<1>5. ASSUME NEW new \in LoopType, loops' = [loops EXCEPT ![i] = new],
             new.weights \subseteq {trained}
      PROVE  \A j \in Rows : loops'[j].weights \subseteq {trained}
  BY <1>5, EntryChange DEF Phases, Shape
<1>6. \A j \in Rows : loops[j].weights \subseteq {trained}
  BY DEF Phases
<1>7. \A j \in Rows : loops'[j].weights \subseteq {trained}
  <2>1. CASE Send(i)
    <3>1. PICK s \in Servers, new \in LoopType : SentTo(i, s, new)
      BY <2>1, SendFacts
    <3>2. loops' = [loops EXCEPT ![i] = new] /\ new.weights = loops[i].weights
      BY <3>1 DEF SentTo
    <3> QED
      BY <1>5, <1>6, <3>2
  <2>2. CASE LoopRaises(i)
    BY <1>6, <2>2 DEF LoopRaises, loopVars
  <2>3. CASE Answer(i)
    <3>1. PICK n \in Sizes, at \in LoopStages, s \in Servers :
            /\ n \in Nat /\ loops[i] \in LoopType
            /\ Turn(loops[i], n, Held(s), prefix[s]) \in LoopType
            /\ Moved(Turn(loops[i], n, Held(s), prefix[s]), at) \in LoopType
            /\ loops' = [loops EXCEPT ![i] = Moved(Turn(loops[i], n, Held(s), prefix[s]), at)]
      <4>1. loops[i] \in LoopType
        BY DEF Shape
      <4> QED
        BY <2>3, <4>1, AnswerFacts
    <3>2. Held(s) \in SUBSET Int /\ prefix[s] \in SUBSET Int
      BY HeldWeights DEF Shape
    <3>7. n \in Nat /\ loops[i] \in LoopType
      BY <3>1
    <3>3. Turn(loops[i], n, Held(s), prefix[s]).weights = loops[i].weights \cup Held(s) \cup prefix[s]
      <4>1. PICK loop \in LoopType, held \in SUBSET Int, cached \in SUBSET Int :
              loop = loops[i] /\ held = Held(s) /\ cached = prefix[s]
        BY <3>2, <3>7
      <4>2. Turn(loop, n, held, cached).weights = loop.weights \cup held \cup cached
        BY <3>7, TurnLoop
      <4> QED
        BY <4>1, <4>2
    <3>4. Held(s) \subseteq {trained} /\ prefix[s] \subseteq {trained}
      BY <1>2, HeldCurrent
    <3>5. PICK turn \in LoopType : /\ Moved(turn, at) \in LoopType
                                   /\ loops' = [loops EXCEPT ![i] = Moved(turn, at)]
                                   /\ turn.weights \subseteq {trained}
      BY <1>6, <3>1, <3>3, <3>4
    <3>6. Moved(turn, at).weights = turn.weights
      BY <3>5, MovedLoop
    <3> QED
      BY <1>5, <3>5, <3>6
  <2>4. CASE CallTools(i)
    <3>1. PICK n \in Sizes :
            LET old == loops[i]
                new == IF Len(old.mask) + n >= ResponseLength THEN Moved(old, "done")
                       ELSE Moved(Observed(old, n), "generating")
            IN /\ n \in Nat \ {0} /\ old \in LoopType /\ Observed(old, n) \in LoopType
               /\ new \in LoopType /\ loops' = [loops EXCEPT ![i] = new]
      BY <2>4, CallToolsFacts
    <3>4. n \in Nat /\ loops[i] \in LoopType
      BY <3>1
    <3>2. /\ Observed(loops[i], n).weights = loops[i].weights
          /\ Moved(loops[i], "done").weights = loops[i].weights
      <4>1. Observed(loops[i], n).weights = loops[i].weights
        BY <3>4, ObservedLoop
      <4>2. Moved(loops[i], "done").weights = loops[i].weights
        BY <3>4, MovedLoop DEF LoopStages
      <4> QED
        BY <4>1, <4>2
    <3>3. Moved(Observed(loops[i], n), "generating").weights = loops[i].weights
      BY <3>1, <3>2, MovedLoop DEF LoopStages
    <3> QED
      BY <1>5, <1>6, <3>1, <3>2, <3>3
  <2>5. CASE Interact(i)
    <3>1. PICK n \in Sizes, at \in {"generating", "done"} :
            /\ n \in Nat \ {0} /\ loops[i] \in LoopType /\ Observed(loops[i], n) \in LoopType
            /\ Moved(Observed(loops[i], n), at) \in LoopType
            /\ loops' = [loops EXCEPT ![i] = Moved(Observed(loops[i], n), at)]
      BY <2>5, InteractFacts
    <3>2. Observed(loops[i], n).weights = loops[i].weights
      BY <3>1, ObservedLoop
    <3>3. Moved(Observed(loops[i], n), at).weights = loops[i].weights
      BY <3>1, <3>2, MovedLoop DEF LoopStages
    <3> QED
      BY <1>5, <1>6, <3>1, <3>3
  <2> QED
    BY <2>1, <2>2, <2>3, <2>4, <2>5 DEF Loop
<1>8. config'.free => \A v \in Workers :
        mode'[v] = "trainer" => engine'[v] = [weights |-> Released, cache |-> FALSE]
  BY <1>1 DEF Phases
<1> QED
  BY <1>1, <1>4, <1>7, <1>8 DEF Phases

LEMMA PhasesStep ==
  ASSUME Shape, Phases, [Next]_vars
  PROVE  Phases'
<1>1. CASE UNCHANGED vars
  BY <1>1 DEF vars, workerVars, loopVars, Phases, Training, Waking, Generating, Sleeping, Rows
<1> QED
  BY <1>1, PhasesDriver, PhasesWorker, PhasesSleep, PhasesLoop DEF Next


-----------------------------------------------------------------------------
(***************************************************************************)
(* Random numbers                                                          *)
(***************************************************************************)
LEMMA StreamsInit == Init => Streams
<1> SUFFICES ASSUME Init PROVE Streams
  OBVIOUS
<1>1. PICK s \in {<<"torch", 0>>, <<"engine", 0>>} : device = [w \in Workers |-> State(s)]
  BY DEF Init
<1>2. /\ torchState = [w \in Workers |-> State(<<"torch", 0>>)]
      /\ genState = [w \in Workers |-> State(<<"rollout", w[1]>>)]
      /\ mode = [w \in Workers |-> IF config.free THEN "rollout" ELSE "trainer"]
  BY DEF Init
<1>3. \A x : State(x).trainer = 0 /\ State(x).sampler = 0
  BY DEF State
<1> QED
  BY <1>1, <1>2, <1>3 DEF Streams, RolloutStream, TrainerStream

\* A worker that enters or leaves rollout mode exchanges its streams as they are.
LEMMA StreamsWorker ==
  ASSUME Shape, Streams, NEW w \in Workers, Worker(w)
  PROVE  Streams'
<1>1. /\ mode \in [Workers -> {"trainer", "resumed", "loaded", "rollout"}]
      /\ \A f \in {device, torchState, genState} : f \in [Workers -> StateType(step)]
  BY DEF Shape
<1>2. \A v \in Workers \ {w} : /\ mode'[v] = mode[v] /\ device'[v] = device[v]
                               /\ torchState'[v] = torchState[v] /\ genState'[v] = genState[v]
  BY <1>1 DEF Worker, Resume, UpdateWeights, EnterRollout, EnterTrainer
<1>3. RolloutStream(w)' = RolloutStream(w) /\ TrainerStream(w)' = TrainerStream(w)
  <2>1. CASE Resume(w) \/ UpdateWeights(w)
    BY <1>1, <2>1 DEF Resume, UpdateWeights, RolloutStream, TrainerStream
  <2>2. CASE EnterRollout(w)
    BY <1>1, <2>2 DEF EnterRollout, RolloutStream, TrainerStream
  <2>3. CASE EnterTrainer(w)
    BY <1>1, <2>3 DEF EnterTrainer, RolloutStream, TrainerStream
  <2> QED
    BY <2>1, <2>2, <2>3 DEF Worker
<1>4. \A v \in Workers : RolloutStream(v)' = RolloutStream(v) /\ TrainerStream(v)' = TrainerStream(v)
  BY <1>2, <1>3 DEF RolloutStream, TrainerStream
<1> HIDE DEF RolloutStream, TrainerStream
<1> QED
  BY <1>4 DEF Streams

LEMMA StreamsStep ==
  ASSUME Shape, Phases, Streams, [Next]_vars
  PROVE  Streams'
<1>1. CASE BeginRollout
  <2>1. /\ mode' = mode /\ torchState' = torchState /\ genState' = genState
        /\ \A w \in Workers : mode[w] = "trainer"
        /\ device' = [w \in Workers |-> [device[w] EXCEPT !.trainer = @ + 1]]
    BY <1>1 DEF BeginRollout, Phases, Training
  <2>2. ASSUME NEW w \in Workers
        PROVE  RolloutStream(w)' = RolloutStream(w) /\ TrainerStream(w)'.sampler = TrainerStream(w).sampler
    <3>1. device[w] \in StateType(step)
      BY DEF Shape
    <3>2. device'[w].sampler = device[w].sampler
      BY <2>1, <3>1 DEF StateType
    <3> QED
      BY <2>1, <3>2 DEF RolloutStream, TrainerStream
  <2> HIDE DEF RolloutStream, TrainerStream
  <2> QED
    BY <2>2 DEF Streams
<1>2. CASE Collect
  <2>1. /\ mode' = mode /\ torchState' = torchState /\ genState' = genState
        /\ \A w \in Workers : mode[w] = "rollout"
        /\ device' = [w \in Workers |-> [device[w] EXCEPT !.sampler = @ + 1]]
    BY <1>2 DEF Collect, Phases, Generating
  <2>2. ASSUME NEW w \in Workers
        PROVE  /\ RolloutStream(w)' = [RolloutStream(w) EXCEPT !.sampler = @ + 1]
               /\ RolloutStream(w)'.trainer = RolloutStream(w).trainer
               /\ TrainerStream(w)' = TrainerStream(w)
    <3>1. device[w] \in StateType(step)
      BY DEF Shape
    <3>2. device'[w].trainer = device[w].trainer
      BY <2>1, <3>1 DEF StateType
    <3> QED
      BY <2>1, <3>2 DEF RolloutStream, TrainerStream
  <2> HIDE DEF RolloutStream, TrainerStream
  <2>3. ASSUME NEW w \in Workers, NEW v \in Workers, w[1] = v[1]
        PROVE  RolloutStream(w)' = RolloutStream(v)'
    BY <2>2, <2>3 DEF Streams
  <2> QED
    BY <2>2, <2>3 DEF Streams
<1>3. CASE mode' = mode /\ device' = device /\ torchState' = torchState /\ genState' = genState
  BY <1>3 DEF Streams, RolloutStream, TrainerStream
<1>4. AllAwake \/ EndRollout \/ (\E s \in Servers : Sleep(s)) \/ (\E i \in Rows : Loop(i))
        \/ UNCHANGED vars =>
      mode' = mode /\ device' = device /\ torchState' = torchState /\ genState' = genState
  BY DEF AllAwake, EndRollout, Sleep, Loop, Send, LoopRaises, Answer, CallTools, Interact,
         workerVars, vars
<1> QED
  BY <1>1, <1>2, <1>3, <1>4, StreamsWorker DEF Next

-----------------------------------------------------------------------------
(***************************************************************************)
(* The device theorems                                                     *)
(***************************************************************************)
RolloutInv == Shape /\ Phases /\ Streams

\* What the next two theorems rest on: the shape of a rollout, what each worker
\* holds in each phase, and whose random stream its device is in.
THEOREM RolloutInvariant == Spec => []RolloutInv
<1>1. Init => RolloutInv
  BY ShapeInit, PhasesInit, StreamsInit DEF RolloutInv
<1>2. RolloutInv /\ [Next]_vars => RolloutInv'
  BY ShapeStep, PhasesStep, StreamsStep DEF RolloutInv
<1> QED
  BY <1>1, <1>2, PTL DEF Spec

\* Every token of a row comes from the weights the trainer has then, however
\* many replicas, ranks and turns: the servers load the weights before the
\* first request and forget their prefixes before they sleep (rollout_mode,
\* generate_sequences, sleep).
THEOREM WeightsAlwaysCurrent == Spec => []CurrentWeights
<1>1. RolloutInv => CurrentWeights
  BY DEF RolloutInv, Phases, CurrentWeights
<1> QED
  BY <1>1, RolloutInvariant, PTL

\* Trainer and engine never use the memory, the requests or the random stream
\* of a device at once, and the ranks of a server sample in step (rollout_mode,
\* trainer_mode).
THEOREM DeviceAlwaysShared == Spec => []DeviceShared
<1>1. RolloutInv => TrainerAlone
  <2> SUFFICES ASSUME RolloutInv, NEW w \in Workers, mode[w] = "trainer"
               PROVE  /\ \A i \in Rows : ~(loops[i].at = "waiting" /\ loops[i].server = w[1])
                      /\ config.free => engine[w] = [weights |-> Released, cache |-> FALSE]
    BY DEF TrainerAlone
  <2>1. driver \in {"training", "waking", "sleeping"}
    BY DEF RolloutInv, Shape, Phases, Generating
  <2> QED
    BY <2>1 DEF RolloutInv, Phases
<1>2. RolloutInv => StreamsKeptApart
  <2> SUFFICES ASSUME RolloutInv PROVE StreamsKeptApart
    OBVIOUS
  <2>1. ASSUME driver = "training", NEW w \in Workers PROVE device[w].sampler = 0
    <3>1. mode[w] = "trainer"
      BY <2>1 DEF RolloutInv, Phases, Training
    <3> QED
      BY <3>1 DEF RolloutInv, Streams, TrainerStream
  <2>2. ASSUME driver = "generating", NEW w \in Workers, NEW v \in Workers
        PROVE  device[w].trainer = 0 /\ (w[1] = v[1] => device[w] = device[v])
    <3>1. mode[w] = "rollout" /\ mode[v] = "rollout"
      BY <2>2 DEF RolloutInv, Phases, Generating
    <3> QED
      BY <3>1 DEF RolloutInv, Streams, RolloutStream
  <2> QED
    BY <2>1, <2>2 DEF StreamsKeptApart
<1> QED
  BY <1>1, <1>2, RolloutInvariant, PTL DEF DeviceShared

-----------------------------------------------------------------------------
(***************************************************************************)
(* Conversations and servers                                               *)
(***************************************************************************)

\* A cached session is one of this rollout or of an earlier one; those of this
\* rollout are the newest, and the servers of a loop are in its entry.
CachedSessions(a) ==
  \A k \in 1..Len(sticky[a]) :
    /\ sticky[a][k].request[1] <= step
    /\ sticky[a][k].request[2] \in ToSet(RowsOf(a))
    /\ \A m \in 1..Len(sticky[a]) : k < m =>
         /\ sticky[a][k].request # sticky[a][m].request
         /\ sticky[a][k].request[1] <= sticky[a][m].request[1]

KnownServers(i) ==
  loops[i].servers # {} =>
    \E k \in 1..Len(sticky[AgentOf(i)]) :
      /\ sticky[AgentOf(i)][k].request = <<step, i>>
      /\ loops[i].servers = {sticky[AgentOf(i)][k].server}

Sessions ==
  /\ \A a \in Agents : CachedSessions(a)
  /\ \A i \in Rows : KnownServers(i)

LEMMA EntryOf ==
  ASSUME Shape, NEW a \in Agents, NEW k \in 1..Len(sticky[a])
  PROVE  /\ sticky[a][k] \in Entry /\ sticky[a][k].server \in Servers
         /\ sticky[a][k].request[1] \in Nat /\ sticky[a][k].request[2] \in Rows
         /\ sticky[a][k].request = <<sticky[a][k].request[1], sticky[a][k].request[2]>>
<1>1. sticky[a] \in Seq(Entry)
  BY DEF Shape
<1>2. sticky[a][k] \in Entry
  BY <1>1
<1> QED
  BY <1>2 DEF Entry

\* A request is in the cache once.
LEMMA OneHit ==
  ASSUME Shape, NEW a \in Agents, CachedSessions(a), NEW request,
         NEW k \in Hits(a, request), NEW m \in Hits(a, request)
  PROVE  k = m
<1>1. /\ k \in 1..Len(sticky[a]) /\ m \in 1..Len(sticky[a])
      /\ sticky[a][k].request = request /\ sticky[a][m].request = request
  BY DEF Hits
<1>2. ~(k < m) /\ ~(m < k)
  BY <1>1 DEF CachedSessions
<1> QED
  BY <1>1, <1>2

\* A full cache that has not seen a row of this rollout begins with an entry
\* of an earlier one: the worker has no more rows than the cache has places.
LEMMA OldestIsOld ==
  ASSUME Shape, NEW a \in Agents, CachedSessions(a), NEW i \in ToSet(RowsOf(a)),
         Hits(a, <<step, i>>) = {}, Len(sticky[a]) = CacheSize
  PROVE  sticky[a][1].request[1] # step
<1> SUFFICES ASSUME sticky[a][1].request[1] = step PROVE FALSE
  OBVIOUS
<1>1. PICK n \in Nat \ {0} : n = CacheSize /\ Len(sticky[a]) = n
  BY LimitsAssumption
<1>2. PICK rows : /\ rows = ToSet(RowsOf(a)) /\ IsFiniteSet(rows)
                  /\ Cardinality(rows) <= n /\ i \in rows
  BY <1>1, RowsOfAgents DEF Shape
<1>3. \A k \in 1..n : sticky[a][k].request[1] = step
  <2> SUFFICES ASSUME NEW k \in 1..n PROVE sticky[a][k].request[1] = step
    OBVIOUS
  <2>1. sticky[a][k].request[1] <= step /\ sticky[a][k].request[1] \in Nat /\ step \in Nat
    BY <1>1, EntryOf, LimitsAssumption DEF CachedSessions, Shape
  <2>2. k = 1 \/ sticky[a][1].request[1] <= sticky[a][k].request[1]
    BY <1>1 DEF CachedSessions
  <2> QED
    BY <2>1, <2>2
<1>4. \A k \in 1..n : sticky[a][k].request = <<step, sticky[a][k].request[2]>>
  BY <1>1, <1>3, EntryOf
<1> DEFINE row == [k \in 1..n |-> sticky[a][k].request[2]]
<1>5. row \in [1..n -> rows \ {i}]
  <2> SUFFICES ASSUME NEW k \in 1..n PROVE sticky[a][k].request[2] \in rows \ {i}
    OBVIOUS
  <2>1. sticky[a][k].request[2] \in rows
    BY <1>1, <1>2 DEF CachedSessions
  <2>2. sticky[a][k].request # <<step, i>>
    BY <1>1 DEF Hits
  <2> QED
    BY <1>4, <2>1, <2>2
<1>6. /\ IsFiniteSet(rows \ {i}) /\ IsFiniteSet(1..n)
      /\ Cardinality(rows \ {i}) < Cardinality(1..n)
  <2>1. IsFiniteSet(rows \ {i}) /\ Cardinality(rows \ {i}) = Cardinality(rows) - 1
    BY <1>2, FS_RemoveElement
  <2>2. Cardinality(rows) \in Nat
    BY <1>2, FS_CardinalityType
  <2>3. IsFiniteSet(1..n) /\ Cardinality(1..n) = n
    BY FS_Interval
  <2> QED
    BY <1>2, <2>1, <2>2, <2>3
<1>7. PICK k \in 1..n, m \in 1..n : k # m /\ row[k] = row[m]
  <2> HIDE DEF row
  <2> QED
    BY <1>5, <1>6, FS_PigeonHole
<1>8. sticky[a][k].request = sticky[a][m].request
  BY <1>4, <1>7
<1> QED
  BY <1>1, <1>7, <1>8 DEF CachedSessions


\* A cache c that has taken entry e in: its first p entries are those at the
\* places f of the cache before, in their order; no entry of this rollout is lost.
Keeps(c, e, a, p, f) ==
  /\ c \in Seq(Entry) /\ Len(c) = p + 1 /\ c[p + 1] = e
  /\ f \in [1..p -> 1..Len(sticky[a])]
  /\ \A k \in 1..p : c[k] = sticky[a][f[k]] /\ f[k] \notin Hits(a, e.request)
  /\ \A k, m \in 1..p : k < m => f[k] < f[m]
  /\ \A q \in 1..Len(sticky[a]) : sticky[a][q].request[1] = step =>
       q \in Hits(a, e.request) \/ \E k \in 1..p : f[k] = q

LEMMA TouchedKeeps ==
  ASSUME Shape, NEW a \in Agents, CachedSessions(a), NEW i \in ToSet(RowsOf(a)),
         NEW e \in Entry, e.request = <<step, i>>
  PROVE  \E p \in Nat : \E f \in [1..p -> 1..Len(sticky[a])] : Keeps(Touched(a, e), e, a, p, f)
<1>1. PICK old \in Seq(Entry), n \in Nat : old = sticky[a] /\ Len(old) = n
  BY DEF Shape
<1>2. Touched(a, e) \in Seq(Entry)
  BY TouchedType
<1>3. CASE /\ Touched(a, e) = Append(sticky[a], e) /\ Hits(a, e.request) = {}
  <2> DEFINE f == [k \in 1..n |-> k]
  <2>1. Len(Append(old, e)) = n + 1 /\ Append(old, e)[n + 1] = e
        /\ \A k \in 1..n : Append(old, e)[k] = old[k]
    BY <1>1
  <2>2. /\ f \in [1..n -> 1..n] /\ (\A k \in 1..n : f[k] = k)
        /\ \A k, m \in 1..n : k < m => f[k] < f[m]
    OBVIOUS
  <2> HIDE DEF f
  <2>3. Keeps(Touched(a, e), e, a, n, f)
    BY <1>1, <1>2, <1>3, <2>1, <2>2 DEF Keeps
  <2> QED
    BY <1>1, <2>2, <2>3
<1>4. ASSUME NEW d \in 1..Len(sticky[a]),
             Touched(a, e) = Append(RemoveAt(sticky[a], d), e),
             \/ d \in Hits(a, e.request)
             \/ Hits(a, e.request) = {} /\ d = 1 /\ Len(sticky[a]) = CacheSize
      PROVE  \E p \in Nat : \E f \in [1..p -> 1..Len(sticky[a])] :
               Keeps(Touched(a, e), e, a, p, f)
  <2>1. d \in 1..n /\ n - 1 \in Nat /\ (n - 1) + 1 = n
    BY <1>1
  <2>2. PICK c \in Seq(Entry) : /\ c = Touched(a, e) /\ Len(c) = n /\ c[n] = e
          /\ \A k \in 1..(n - 1) : /\ (IF k < d THEN k ELSE k + 1) \in 1..n \ {d}
                                   /\ c[k] = old[IF k < d THEN k ELSE k + 1]
    <3>1. old \in Seq(Entry) /\ d \in 1..Len(old)
      BY <1>1
    <3>2. /\ Append(RemoveAt(old, d), e) \in Seq(Entry)
          /\ InPlaceOf(old, d, e, Append(RemoveAt(old, d), e))
      BY <3>1, ReplacedInPlace
    <3>3. PICK c \in Seq(Entry) : c = Append(RemoveAt(old, d), e)
      BY <3>2
    <3> QED
      BY <1>1, <1>4, <3>2, <3>3 DEF InPlaceOf
  <2> DEFINE f == [k \in 1..(n - 1) |-> IF k < d THEN k ELSE k + 1]
  <2>3. /\ f \in [1..(n - 1) -> 1..n]
        /\ \A k \in 1..(n - 1) : f[k] # d /\ c[k] = old[f[k]]
    BY <2>2
  <2>4. \A k, m \in 1..(n - 1) : k < m => f[k] < f[m]
    BY <2>1
  <2>5. \A q \in 1..n \ {d} : \E k \in 1..(n - 1) : f[k] = q
    <3> SUFFICES ASSUME NEW q \in 1..n \ {d} PROVE \E k \in 1..(n - 1) : f[k] = q
      OBVIOUS
    <3>1. CASE q < d
      <4>1. q \in 1..(n - 1) /\ f[q] = q
        BY <2>1, <3>1
      <4> QED
        BY <4>1
    <3>2. CASE q > d
      <4>1. q - 1 \in 1..(n - 1) /\ f[q - 1] = q
        BY <2>1, <3>2
      <4> QED
        BY <4>1
    <3> QED
      BY <2>1, <3>1, <3>2
  <2> HIDE DEF f
  <2>6. \A k \in 1..(n - 1) : f[k] \notin Hits(a, e.request)
    BY <1>4, <2>3, OneHit, Zenon
  <2>7. d \in Hits(a, e.request) \/ sticky[a][d].request[1] # step
    BY <1>4, OldestIsOld
  <2>8. Keeps(c, e, a, n - 1, f)
    BY <1>1, <2>1, <2>2, <2>3, <2>4, <2>5, <2>6, <2>7 DEF Keeps
  <2> QED
    BY <1>1, <2>1, <2>2, <2>3, <2>8
<1> QED
  BY <1>3, <1>4, TouchedCases

\* A request goes to a server that no turn of the conversation contradicts.
LEMMA ChosenSticks ==
  ASSUME Shape, Sessions, NEW i \in Rows, NEW a \in Agents, a = AgentOf(i),
         NEW s \in Chosen(a, <<step, i>>)
  PROVE  /\ loops[i].servers \cup {s} = {s}
         /\ Hits(a, <<step, i>>) = {} => loops[i].servers = {}
<1>1. KnownServers(i) /\ CachedSessions(a)
  BY DEF Sessions
<1>2. CASE loops[i].servers = {}
  BY <1>2
<1>3. CASE loops[i].servers # {}
  <2>1. PICK k \in 1..Len(sticky[a]) : /\ sticky[a][k].request = <<step, i>>
                                       /\ loops[i].servers = {sticky[a][k].server}
    BY <1>1, <1>3 DEF KnownServers
  <2>2. k \in Hits(a, <<step, i>>)
    BY <2>1 DEF Hits
  <2>3. PICK m \in Hits(a, <<step, i>>) : s = sticky[a][m].server
    BY <2>2 DEF Chosen
  <2>4. m = k
    BY <1>1, <2>2, <2>3, OneHit
  <2> QED
    BY <2>1, <2>2, <2>3, <2>4
<1> QED
  BY <1>2, <1>3

LEMMA SessionsSend ==
  ASSUME Shape, Sessions, NEW i \in Rows, Send(i)
  PROVE  Sessions'
<1>1. PICK s \in Servers, new \in LoopType : SentTo(i, s, new)
  BY SendFacts
<1>2. PICK a \in Agents : a = AgentOf(i) /\ i \in ToSet(RowsOf(a)) /\ s \in Chosen(a, <<step, i>>)
  BY <1>1 DEF SentTo
<1>3. /\ loops' = [loops EXCEPT ![i] = new] /\ new.servers = loops[i].servers \cup {s}
  BY <1>1 DEF SentTo
<1>4. PICK e \in Entry : e = [request |-> <<step, i>>, server |-> s]
  <2>1. [request |-> <<step, i>>, server |-> s] \in Entry
    BY LimitsAssumption DEF Entry, Shape
  <2> QED
    BY <2>1
<1>5. e.request = <<step, i>> /\ e.request[1] = step /\ e.request[2] = i /\ e.server = s
  BY <1>4
<1>6. CachedSessions(a)
  BY DEF Sessions
<1>7. PICK c \in Seq(Entry) : c = Touched(a, e)
  BY TouchedType
<1>8. sticky' = [sticky EXCEPT ![a] = c]
  BY <1>1, <1>2, <1>4, <1>7 DEF SentTo
<1>15. PICK p \in Nat : \E f \in [1..p -> 1..Len(sticky[a])] : Keeps(c, e, a, p, f)
  BY <1>2, <1>5, <1>6, <1>7, TouchedKeeps
<1>9. PICK f \in [1..p -> 1..Len(sticky[a])] : Keeps(c, e, a, p, f)
  BY <1>15
<1>10. /\ config' = config /\ step' = step /\ Rows' = Rows /\ Agents' = Agents
       /\ \A b \in Agents : RowsOf(b)' = RowsOf(b)
       /\ \A j \in Rows : AgentOf(j)' = AgentOf(j)
  BY DEF Send, Rows, Agents, RowsOf, AgentOf
<1>11. sticky'[a] = c /\ \A b \in Agents \ {a} : sticky'[b] = sticky[b]
  BY <1>8, EntryChange DEF Shape
<1>12. loops'[i] = new /\ \A j \in Rows \ {i} : loops'[j] = loops[j]
  BY <1>3, EntryChange DEF Shape
<1>13. ASSUME NEW b \in Agents PROVE CachedSessions(b)'
  <2>1. CASE b # a
    BY <1>10, <1>11, <2>1, SMTT(20) DEF Sessions, CachedSessions
  <2>2. CASE b = a
    <3>1. ASSUME NEW k \in 1..p
          PROVE  /\ c[k].request[1] <= step /\ c[k].request[2] \in ToSet(RowsOf(a))
                 /\ c[k].request # e.request
      <4>1. c[k] = sticky[a][f[k]] /\ f[k] \in 1..Len(sticky[a]) /\ f[k] \notin Hits(a, e.request)
        BY <1>9 DEF Keeps
      <4> QED
        BY <1>6, <4>1 DEF CachedSessions, Hits
    <3>2. ASSUME NEW k \in 1..p, NEW m \in 1..p, k < m
          PROVE  c[k].request # c[m].request /\ c[k].request[1] <= c[m].request[1]
      <4>1. /\ c[k] = sticky[a][f[k]] /\ f[k] \in 1..Len(sticky[a])
            /\ c[m] = sticky[a][f[m]] /\ f[m] \in 1..Len(sticky[a]) /\ f[k] < f[m]
        BY <1>9, <3>2 DEF Keeps
      <4> QED
        BY <1>6, <4>1 DEF CachedSessions
    <3>3. c[p + 1] = e /\ Len(c) = p + 1
      BY <1>9 DEF Keeps
    <3>4. ASSUME NEW k \in 1..Len(c)
          PROVE  /\ c[k].request[1] <= step /\ c[k].request[2] \in ToSet(RowsOf(a))
                 /\ \A m \in 1..Len(c) : k < m =>
                      c[k].request # c[m].request /\ c[k].request[1] <= c[m].request[1]
      <4>1. CASE k = p + 1
        <5>1. \A m \in 1..Len(c) : ~(k < m)
          BY <3>3, <4>1
        <5>2. step <= step
          BY LimitsAssumption DEF Shape
        <5> QED
          BY <1>2, <1>5, <3>3, <4>1, <5>1, <5>2
      <4>2. CASE k # p + 1
        <5>1. k \in 1..p
          BY <3>3, <4>2
        <5>2. \A m \in 1..Len(c) : k < m => m \in 1..p \/ m = p + 1
          BY <3>3
        <5> QED
          BY <1>5, <3>1, <3>2, <3>3, <5>1, <5>2
      <4> QED
        BY <4>1, <4>2
    <3> QED
      BY <1>10, <1>11, <2>2, <3>4 DEF CachedSessions
  <2> QED
    BY <2>1, <2>2
<1>14. ASSUME NEW j \in Rows PROVE KnownServers(j)'
  <2>1. KnownServers(j)
    BY DEF Sessions
  <2>2. CASE j = i
    <3>1. p + 1 \in 1..Len(c) /\ c[p + 1] = e
      BY <1>9 DEF Keeps
    <3>2. loops'[i].servers = {s}
      BY <1>2, <1>3, <1>12, ChosenSticks
    <3>3. c[p + 1].request = <<step, i>> /\ loops'[i].servers = {c[p + 1].server}
      BY <1>5, <3>1, <3>2
    <3>4. \E k \in 1..Len(c) : c[k].request = <<step, i>> /\ loops'[i].servers = {c[k].server}
      BY <3>1, <3>3
    <3>5. AgentOf(i)' = a /\ sticky'[a] = c /\ step' = step
      BY <1>2, <1>10, <1>11
    <3>6. KnownServers(i)'
      BY <3>4, <3>5 DEF KnownServers
    <3> QED
      BY <2>2, <3>6
  <2>3. CASE j # i /\ AgentOf(j) # a
    <3>1. AgentOf(j) \in Agents
      BY RowsOfAgents DEF Shape
    <3> QED
      BY <1>10, <1>11, <1>12, <2>1, <2>3, <3>1, SMTT(20) DEF KnownServers
  <2>4. CASE j # i /\ AgentOf(j) = a
    <3> SUFFICES ASSUME loops[j].servers # {}
                 PROVE  \E k \in 1..Len(c) : /\ c[k].request = <<step, j>>
                                             /\ loops[j].servers = {c[k].server}
      <4>1. /\ AgentOf(j)' = a /\ sticky'[a] = c /\ step' = step
            /\ loops'[j] = loops[j]
        BY <1>10, <1>11, <1>12, <2>4
      <4> QED
        BY <4>1, Zenon DEF KnownServers
    <3>1. PICK q \in 1..Len(sticky[a]) : /\ sticky[a][q].request = <<step, j>>
                                         /\ loops[j].servers = {sticky[a][q].server}
      BY <2>1, <2>4 DEF KnownServers
    <3>2. q \notin Hits(a, e.request) /\ sticky[a][q].request[1] = step
      BY <1>5, <2>4, <3>1 DEF Hits
    <3>3. PICK k \in 1..p : f[k] = q
      BY <1>9, <3>2 DEF Keeps
    <3>4. k \in 1..Len(c) /\ c[k] = sticky[a][q]
      BY <1>9, <3>3 DEF Keeps
    <3> QED
      BY <3>1, <3>4
  <2> QED
    BY <2>2, <2>3, <2>4
<1> QED
  BY <1>10, <1>13, <1>14 DEF Sessions


\* The other turns leave the servers of a row as they are.
LEMMA ServersKept ==
  ASSUME Shape, NEW i \in Rows, Answer(i) \/ CallTools(i) \/ Interact(i)
  PROVE  \A j \in Rows : loops'[j].servers = loops[j].servers
<1>1. ASSUME NEW new \in LoopType, loops' = [loops EXCEPT ![i] = new],
             new.servers = loops[i].servers
      PROVE  \A j \in Rows : loops'[j].servers = loops[j].servers
  BY <1>1, EntryChange DEF Shape
<1>2. loops[i] \in LoopType
  BY DEF Shape
<1>3. CASE Answer(i)
  <2>1. PICK n \in Sizes, at \in LoopStages, s \in Servers :
          /\ n \in Nat
          /\ Moved(Turn(loops[i], n, Held(s), prefix[s]), at) \in LoopType
          /\ Turn(loops[i], n, Held(s), prefix[s]) \in LoopType
          /\ loops' = [loops EXCEPT ![i] = Moved(Turn(loops[i], n, Held(s), prefix[s]), at)]
    BY <1>2, <1>3, AnswerFacts
  <2>2. PICK held \in SUBSET Int, cached \in SUBSET Int : held = Held(s) /\ cached = prefix[s]
    BY HeldWeights DEF Shape
  <2>3. PICK loop \in LoopType : loop = loops[i]
    BY <1>2
  <2>4. n \in Nat
    BY <2>1
  <2>5. Turn(loop, n, held, cached) \in LoopType
        /\ Turn(loop, n, held, cached).servers = loop.servers
    <3>1. Turn(loop, n, held, cached) \in LoopType
      BY <2>4, TurnLoop
    <3>2. Turn(loop, n, held, cached).servers = loop.servers
      BY <2>4, TurnLoop
    <3> QED
      BY <3>1, <3>2
  <2>6. /\ Moved(Turn(loop, n, held, cached), at) \in LoopType
        /\ Moved(Turn(loop, n, held, cached), at).servers = loop.servers
    BY <2>5, MovedLoop
  <2> QED
    BY <1>1, <2>1, <2>2, <2>3, <2>6
<1>4. CASE CallTools(i)
  <2>1. PICK n \in Sizes :
          LET old == loops[i]
              new == IF Len(old.mask) + n >= ResponseLength THEN Moved(old, "done")
                     ELSE Moved(Observed(old, n), "generating")
          IN /\ n \in Nat \ {0} /\ new \in LoopType /\ loops' = [loops EXCEPT ![i] = new]
    BY <1>4, CallToolsFacts
  <2>2. n \in Nat
    BY <2>1
  <2>3. Observed(loops[i], n) \in LoopType /\ Observed(loops[i], n).servers = loops[i].servers
    BY <1>2, <2>2, ObservedLoop
  <2>4. /\ Moved(loops[i], "done").servers = loops[i].servers
        /\ Moved(Observed(loops[i], n), "generating").servers = loops[i].servers
    BY <1>2, <2>3, MovedLoop DEF LoopStages
  <2> QED
    BY <1>1, <2>1, <2>4
<1>5. CASE Interact(i)
  <2>1. PICK n \in Sizes, at \in {"generating", "done"} :
          /\ n \in Nat \ {0} /\ Moved(Observed(loops[i], n), at) \in LoopType
          /\ loops' = [loops EXCEPT ![i] = Moved(Observed(loops[i], n), at)]
    BY <1>5, InteractFacts
  <2>2. n \in Nat
    BY <2>1
  <2>3. Observed(loops[i], n) \in LoopType /\ Observed(loops[i], n).servers = loops[i].servers
    BY <1>2, <2>2, ObservedLoop
  <2>4. Moved(Observed(loops[i], n), at).servers = loops[i].servers
    BY <2>3, MovedLoop DEF LoopStages
  <2> QED
    BY <1>1, <2>1, <2>4
<1> QED
  BY <1>3, <1>4, <1>5

\* What the other steps keep.
LEMMA SessionsApart ==
  ASSUME Shape, [Next]_vars, ~BeginRollout, \A i \in Rows : ~Send(i)
  PROVE  /\ step' = step /\ sticky' = sticky /\ requests' = requests
         /\ \A j \in Rows : loops'[j].servers = loops[j].servers
<1>1. AllAwake \/ Collect \/ EndRollout \/ UNCHANGED vars =>
        step' = step /\ sticky' = sticky /\ requests' = requests /\ loops' = loops
  BY DEF AllAwake, Collect, EndRollout, vars, loopVars
<1>2. ASSUME NEW w \in Workers, Worker(w)
      PROVE  step' = step /\ sticky' = sticky /\ requests' = requests /\ loops' = loops
  BY <1>2 DEF Worker, Resume, UpdateWeights, EnterRollout, EnterTrainer, loopVars
<1>3. ASSUME NEW s \in Servers, Sleep(s)
      PROVE  step' = step /\ sticky' = sticky /\ requests' = requests /\ loops' = loops
  BY <1>3 DEF Sleep
<1>4. ASSUME NEW i \in Rows, LoopRaises(i)
      PROVE  step' = step /\ sticky' = sticky /\ requests' = requests /\ loops' = loops
  BY <1>4 DEF LoopRaises, loopVars
<1>5. ASSUME NEW i \in Rows, Answer(i) \/ CallTools(i) \/ Interact(i)
      PROVE  /\ step' = step /\ sticky' = sticky /\ requests' = requests
             /\ \A j \in Rows : loops'[j].servers = loops[j].servers
  BY <1>5, ServersKept DEF Answer, CallTools, Interact
<1> QED
  BY <1>1, <1>2, <1>3, <1>4, <1>5 DEF Next, Loop

LEMMA SessionsInit == Init => Sessions
  BY DEF Init, Sessions, CachedSessions, KnownServers, NewLoop

LEMMA SessionsStep ==
  ASSUME Shape, Sessions, [Next]_vars
  PROVE  Sessions'
<1>1. /\ config' = config /\ Rows' = Rows /\ Agents' = Agents
      /\ \A b : RowsOf(b)' = RowsOf(b)
      /\ \A j : AgentOf(j)' = AgentOf(j)
  BY ConfigFixed DEF Rows, Agents, RowsOf, AgentOf
<1>2. CASE BeginRollout
  <2>1. /\ step' = step + 1 /\ sticky' = sticky
        /\ \A i \in Rows : loops'[i].servers = {}
    BY <1>2 DEF BeginRollout, NewLoop
  <2>2. ASSUME NEW a \in Agents PROVE CachedSessions(a)'
    <3>1. ASSUME NEW k \in 1..Len(sticky[a]) PROVE sticky[a][k].request[1] <= step + 1
      <4>1. sticky[a][k].request[1] \in Nat /\ sticky[a][k].request[1] <= step /\ step \in Nat
        BY EntryOf, LimitsAssumption DEF Sessions, CachedSessions, Shape
      <4> QED
        BY <4>1
    <3> QED
      BY <1>1, <2>1, <3>1 DEF Sessions, CachedSessions
  <2> QED
    BY <1>1, <2>1, <2>2 DEF Sessions, KnownServers
<1>3. CASE ~BeginRollout /\ \A i \in Rows : ~Send(i)
  <2>1. /\ step' = step /\ sticky' = sticky
        /\ \A j \in Rows : loops'[j].servers = loops[j].servers
    BY <1>3, SessionsApart
  <2>2. ASSUME NEW a \in Agents PROVE CachedSessions(a)'
    BY <1>1, <2>1 DEF Sessions, CachedSessions
  <2>3. ASSUME NEW i \in Rows PROVE KnownServers(i)'
    BY <1>1, <2>1 DEF Sessions, KnownServers
  <2> QED
    BY <1>1, <2>2, <2>3 DEF Sessions
<1> QED
  BY <1>2, <1>3, SessionsSend

\* A request counts where it goes, and nowhere else.
LEMMA RequestCounted ==
  ASSUME Shape, NEW a \in Agents, NEW s \in Servers,
         requests' = [requests EXCEPT ![a][s] = @ + 1]
  PROVE  /\ requests'[a][s] = requests[a][s] + 1
         /\ \A b \in Agents, t \in Servers :
              b # a \/ t # s => requests'[b][t] = requests[b][t]
  BY DEF Shape

LEMMA BalancedStep ==
  ASSUME Shape, BalancedRequests, [Next]_vars
  PROVE  BalancedRequests'
<1>1. Agents' = Agents
  BY ConfigFixed
<1>2. CASE requests' = requests
  BY <1>1, <1>2 DEF BalancedRequests
<1>3. ASSUME NEW i \in Rows, Send(i), requests' # requests PROVE BalancedRequests'
  <2>1. PICK s \in Servers, new \in LoopType : SentTo(i, s, new)
    BY <1>3, SendFacts
  <2>2. PICK a \in Agents :
          /\ requests' = [requests EXCEPT ![a][s] = @ + 1] /\ s \in LeastLoaded(a)
    BY <1>3, <2>1 DEF SentTo, Chosen
  <2>3. \A b \in Agents, t \in Servers : requests[b][t] \in Nat
    BY DEF Shape
  <2>4. \A t \in Servers : requests[a][s] <= requests[a][t]
    BY <2>2 DEF LeastLoaded
  <2>5. /\ requests'[a][s] = requests[a][s] + 1
        /\ \A b \in Agents, t \in Servers : b # a \/ t # s => requests'[b][t] = requests[b][t]
    BY <2>2, RequestCounted
  <2>6. ASSUME NEW b \in Agents, NEW t \in Servers, NEW u \in Servers
        PROVE  requests'[b][t] <= requests'[b][u] + 1
    <3>1. requests[b][t] <= requests[b][u] + 1
      BY DEF BalancedRequests
    <3> QED
      BY <2>3, <2>4, <2>5, <3>1
  <2> QED
    BY <1>1, <2>6 DEF BalancedRequests
<1>4. CASE BeginRollout
  BY <1>2, <1>4 DEF BeginRollout
<1> QED
  BY <1>2, <1>3, <1>4, SessionsApart

\* Every turn of a conversation goes to the same server, and a worker never
\* gives one of its servers two conversations more than another
\* (_choose_server with its request cache and its heap).
THEOREM SessionsAlwaysBalanced == Spec => []SessionsBalanced
<1>1. Init => Shape /\ Sessions /\ BalancedRequests
  <2>1. Init => BalancedRequests
    BY DEF Init, BalancedRequests
  <2> QED
    BY <2>1, ShapeInit, SessionsInit
<1>2. Shape /\ Sessions /\ BalancedRequests /\ [Next]_vars =>
        (Shape /\ Sessions /\ BalancedRequests)'
  BY ShapeStep, SessionsStep, BalancedStep
<1>3. Sessions => StickySessions
  <2> SUFFICES ASSUME Sessions, NEW i \in Rows PROVE Cardinality(loops[i].servers) <= 1
    BY DEF StickySessions
  <2>1. CASE loops[i].servers = {}
    BY <2>1, FS_EmptySet
  <2>2. CASE loops[i].servers # {}
    <3>1. PICK s : loops[i].servers = {s}
      BY <2>2 DEF Sessions, KnownServers
    <3> QED
      BY <3>1, FS_Singleton
  <2> QED
    BY <2>1, <2>2
<1> QED
  BY <1>1, <1>2, <1>3, PTL DEF Spec, SessionsBalanced


-----------------------------------------------------------------------------
(***************************************************************************)
(* The tokens of a row                                                     *)
(***************************************************************************)
EndsWithModel(mask) == mask /= << >> /\ mask[Len(mask)] = 1

Aligned(mask, logprobs) ==
  IF config.logprobs
  THEN /\ Len(logprobs) = Len(mask)
       /\ \A k \in 1..Len(mask) : (logprobs[k] = "sampled") <=> (mask[k] = 1)
  ELSE logprobs = << >>

\* A loop that calls tools has room for one more token of the model as long as
\* it goes on.
RowOK(loop) ==
  /\ loop.at = "done" => Len(loop.mask) <= ResponseLength
  /\ loop.at \in {"tools", "interacting"} => loop.mask /= << >>
  /\ config.loop = "tool" =>
       /\ loop.at # "interacting"
       /\ loop.at # "done" => Len(loop.mask) < ResponseLength
       /\ loop.at \in {"tools", "done"} => EndsWithModel(loop.mask)
  /\ Aligned(loop.mask, loop.logprobs)

RowsMade == \A i \in Rows : RowOK(loops[i])

LEMMA AlignedCut ==
  ASSUME NEW mask \in Seq(Marks), NEW logprobs \in Seq(Sources), Aligned(mask, logprobs)
  PROVE  Aligned(Cut(mask), Cut(logprobs))
<1>5. PICK m, p : m = Cut(mask) /\ p = Cut(logprobs)
  OBVIOUS
<1>1. /\ m \in Seq(Marks)
      /\ Len(m) = IF Len(mask) < ResponseLength THEN Len(mask) ELSE ResponseLength
      /\ \A k \in 1..Len(m) : m[k] = mask[k] /\ k \in 1..Len(mask)
  BY <1>5, CutSeq
<1>2. /\ p \in Seq(Sources)
      /\ Len(p) = IF Len(logprobs) < ResponseLength THEN Len(logprobs) ELSE ResponseLength
      /\ \A k \in 1..Len(p) : p[k] = logprobs[k] /\ k \in 1..Len(logprobs)
  BY <1>5, CutSeq
<1>3. CASE config.logprobs
  <2>1. /\ Len(logprobs) = Len(mask)
        /\ \A k \in 1..Len(mask) : (logprobs[k] = "sampled") <=> (mask[k] = 1)
    BY <1>3 DEF Aligned
  <2>2. Len(p) = Len(m)
    BY <1>1, <1>2, <2>1
  <2>3. \A k \in 1..Len(m) : (p[k] = "sampled") <=> (m[k] = 1)
    BY <1>1, <1>2, <2>1, <2>2
  <2> QED
    BY <1>3, <1>5, <2>2, <2>3 DEF Aligned
<1>4. CASE ~config.logprobs
  <2>1. Len(logprobs) = 0 /\ 0 < ResponseLength
    BY <1>4, LimitsAssumption DEF Aligned
  <2>2. p = << >>
    BY <1>2, <2>1
  <2> QED
    BY <1>4, <1>5, <2>2 DEF Aligned
<1> QED
  BY <1>3, <1>4

LEMMA LongerMask ==
  ASSUME NEW mask \in Seq(Marks), NEW x \in Marks, NEW n \in Nat
  PROVE  Len(Longer(mask, x, n)) = Len(mask) + n
  BY LongerSeq

LEMMA LongerLogprobs ==
  ASSUME NEW logprobs \in Seq(Sources), NEW y \in Sources, NEW n \in Nat
  PROVE  Len(Longer(logprobs, y, n)) = Len(logprobs) + n
  BY LongerSeq

\* Tokens x with log-probs y come behind.
LEMMA AlignedMore ==
  ASSUME NEW mask \in Seq(Marks), NEW logprobs \in Seq(Sources),
         Aligned(mask, logprobs), config.logprobs, NEW n \in Nat,
         NEW x \in Marks, NEW y \in Sources, y = "sampled" <=> x = 1
  PROVE  Aligned(Longer(mask, x, n), Longer(logprobs, y, n))
<1>1. PICK m \in Seq(Marks) : m = Longer(mask, x, n)
  BY LongerSeq
<1>2. /\ Len(m) = Len(mask) + n /\ Len(mask) \in Nat
      /\ \A k \in 1..(Len(mask) + n) : m[k] = IF k <= Len(mask) THEN mask[k] ELSE x
  <2>1. Len(Longer(mask, x, n)) = Len(mask) + n
    BY LongerMask
  <2>3. Len(mask) \in Nat
    OBVIOUS
  <2>2. \A k \in 1..(Len(mask) + n) :
          Longer(mask, x, n)[k] = IF k <= Len(mask) THEN mask[k] ELSE x
    BY LongerPlaces
  <2> QED
    BY <1>1, <2>1, <2>2, <2>3
<1>3. PICK p \in Seq(Sources) : p = Longer(logprobs, y, n)
  BY LongerSeq
<1>4. /\ Len(p) = Len(logprobs) + n
      /\ \A k \in 1..(Len(logprobs) + n) : p[k] = IF k <= Len(logprobs) THEN logprobs[k] ELSE y
  <2>1. Len(Longer(logprobs, y, n)) = Len(logprobs) + n
    BY LongerLogprobs
  <2>2. \A k \in 1..(Len(logprobs) + n) :
          Longer(logprobs, y, n)[k] = IF k <= Len(logprobs) THEN logprobs[k] ELSE y
    BY LongerPlaces
  <2> QED
    BY <1>3, <2>1, <2>2
<1>5. /\ Len(logprobs) = Len(mask)
      /\ \A k \in 1..Len(mask) : (logprobs[k] = "sampled") <=> (mask[k] = 1)
  BY DEF Aligned
<1>6. ASSUME NEW k \in 1..Len(m) PROVE (p[k] = "sampled") <=> (m[k] = 1)
  <2>1. k \in 1..(Len(mask) + n) /\ (k <= Len(mask) => k \in 1..Len(mask))
    BY <1>2
  <2> QED
    BY <1>2, <1>4, <1>5, <2>1
<1> QED
  BY <1>1, <1>2, <1>3, <1>4, <1>5, <1>6 DEF Aligned

LEMMA RowMoved ==
  ASSUME NEW loop \in LoopType, NEW at \in LoopStages, Aligned(loop.mask, loop.logprobs)
  PROVE  Aligned(Moved(loop, at).mask, Moved(loop, at).logprobs)
<1>1. loop.mask \in Seq(Marks) /\ loop.logprobs \in Seq(Sources)
  BY DEF LoopType
<1>2. Aligned(Cut(loop.mask), Cut(loop.logprobs))
  BY <1>1, AlignedCut
<1>3. /\ Moved(loop, at).mask = IF at = "done" THEN Cut(loop.mask) ELSE loop.mask
      /\ Moved(loop, at).logprobs = IF at = "done" THEN Cut(loop.logprobs) ELSE loop.logprobs
  BY MovedLoop
<1> QED
  BY <1>2, <1>3

LEMMA RowAnswered ==
  ASSUME config \in Configs, NEW loop \in LoopType, RowOK(loop), loop.at = "waiting",
         NEW n \in Nat \ {0}, NEW held \in SUBSET Int, NEW cached \in SUBSET Int,
         NEW at \in AfterAnswer(Turn(loop, n, held, cached))
  PROVE  RowOK(Moved(Turn(loop, n, held, cached), at))
<1>1. loop.mask \in Seq(Marks) /\ loop.logprobs \in Seq(Sources)
      /\ Len(loop.mask) \in Nat /\ ResponseLength \in Nat \ {0}
  BY LimitsAssumption DEF LoopType
<1>2. n \in Nat
  OBVIOUS
<1>3. PICK turn \in LoopType : turn = Turn(loop, n, held, cached)
  BY <1>2, TurnLoop
<1>4. turn.mask = Longer(loop.mask, 1, n)
  BY <1>2, <1>3, TurnLoop
<1>5. turn.logprobs = IF config.logprobs THEN Longer(loop.logprobs, "sampled", n)
                      ELSE loop.logprobs
  BY <1>2, <1>3, TurnLoop
<1>6. Aligned(loop.mask, loop.logprobs)
  BY DEF RowOK
<1>7. Aligned(turn.mask, turn.logprobs)
  <2>1. CASE config.logprobs
    <3>1. Aligned(Longer(loop.mask, 1, n), Longer(loop.logprobs, "sampled", n))
      BY <1>1, <1>2, <1>6, <2>1, AlignedMore, MarksSources
    <3> QED
      BY <1>4, <1>5, <2>1, <3>1
  <2>2. CASE ~config.logprobs
    BY <1>5, <1>6, <2>2 DEF Aligned
  <2> QED
    BY <2>1, <2>2
<1>8. PICK mask \in Seq(Marks) : /\ mask = turn.mask /\ Len(mask) = Len(loop.mask) + n
        /\ \A k \in (Len(loop.mask) + 1)..(Len(loop.mask) + n) : mask[k] = 1
  <2>1. PICK old \in Seq(Marks) : old = loop.mask
    BY <1>1
  <2>2. Longer(old, 1, n) \in Seq(Marks)
    BY <1>2, LongerSeq, MarksSources
  <2>3. Len(Longer(old, 1, n)) = Len(old) + n /\ Len(old) \in Nat
    BY <1>2, LongerSeq, MarksSources
  <2>4. \A k \in 1..(Len(old) + n) : Longer(old, 1, n)[k] = IF k <= Len(old) THEN old[k] ELSE 1
    BY <1>2, LongerPlaces, MarksSources
  <2>5. \A k \in (Len(old) + 1)..(Len(old) + n) : k \in 1..(Len(old) + n) /\ ~(k <= Len(old))
    BY <2>3
  <2>6. \A k \in (Len(old) + 1)..(Len(old) + n) : Longer(old, 1, n)[k] = 1
    BY <2>4, <2>5
  <2> QED
    BY <1>4, <2>1, <2>2, <2>3, <2>6
<1>9. /\ at \in {"done", "tools", "interacting"}
      /\ at # "done" => Len(mask) < ResponseLength
      /\ at = "interacting" => config.loop = "interaction"
  BY <1>1, <1>3, <1>8 DEF AfterAnswer
<1>16. PICK cut : cut = Cut(mask)
  OBVIOUS
<1>10. /\ cut \in Seq(Marks) /\ Len(cut) <= ResponseLength
       /\ Len(cut) = IF Len(mask) < ResponseLength THEN Len(mask) ELSE ResponseLength
       /\ \A k \in 1..Len(cut) : cut[k] = mask[k]
  BY <1>16, CutSeq
<1>11. EndsWithModel(mask)
  BY <1>1, <1>8 DEF EndsWithModel
<1>12. config.loop = "tool" => EndsWithModel(cut)
  <2> SUFFICES ASSUME config.loop = "tool" PROVE EndsWithModel(cut)
    OBVIOUS
  <2>1. Len(loop.mask) < ResponseLength
    BY DEF RowOK
  <2>2. Len(cut) \in (Len(loop.mask) + 1)..(Len(loop.mask) + n) /\ Len(cut) \in 1..Len(cut)
    BY <1>1, <1>8, <1>10, <2>1
  <2> QED
    BY <1>8, <1>10, <2>2 DEF EndsWithModel
<1>13. PICK new \in LoopType :
         /\ new = Moved(turn, at) /\ new.at = at
         /\ new.mask = IF at = "done" THEN cut ELSE mask
  <2>1. at \in LoopStages
    BY <1>9 DEF LoopStages
  <2> QED
    BY <1>8, <1>16, <2>1, MovedLoop
<1>14. Aligned(new.mask, new.logprobs)
  <2>1. at \in LoopStages
    BY <1>9 DEF LoopStages
  <2> QED
    BY <1>7, <1>13, <2>1, RowMoved
<1>15. RowOK(new)
  BY <1>9, <1>10, <1>11, <1>12, <1>13, <1>14 DEF RowOK, EndsWithModel
<1> QED
  BY <1>3, <1>13, <1>15

LEMMA RowObserved ==
  ASSUME NEW loop \in LoopType, loop.mask /= << >>, Aligned(loop.mask, loop.logprobs),
         NEW n \in Nat
  PROVE  /\ Aligned(Observed(loop, n).mask, Observed(loop, n).logprobs)
         /\ Observed(loop, n).mask \in Seq(Marks)
         /\ Len(Observed(loop, n).mask) = Len(loop.mask) + n
<1>1. loop.mask \in Seq(Marks) /\ loop.logprobs \in Seq(Sources)
  BY DEF LoopType
<1>2. /\ Observed(loop, n).mask = Longer(loop.mask, 0, n)
      /\ Observed(loop, n).logprobs =
           IF loop.logprobs = << >> THEN << >> ELSE Longer(loop.logprobs, "zero", n)
  BY ObservedLoop
<1>3. /\ Longer(loop.mask, 0, n) \in Seq(Marks)
      /\ Len(Longer(loop.mask, 0, n)) = Len(loop.mask) + n
  <2>1. PICK old \in Seq(Marks) : old = loop.mask
    BY <1>1
  <2>2. Longer(old, 0, n) \in Seq(Marks)
    BY LongerSeq, MarksSources
  <2>3. Len(Longer(old, 0, n)) = Len(old) + n
    BY LongerSeq, MarksSources
  <2> QED
    BY <2>1, <2>2, <2>3
<1>4. CASE config.logprobs
  <2>1. loop.logprobs # << >>
    BY <1>1, <1>4 DEF Aligned
  <2>2. Aligned(Longer(loop.mask, 0, n), Longer(loop.logprobs, "zero", n))
    BY <1>1, <1>4, AlignedMore, MarksSources
  <2> QED
    BY <1>2, <1>3, <2>1, <2>2
<1>5. CASE ~config.logprobs
  BY <1>2, <1>3, <1>5 DEF Aligned
<1> QED
  BY <1>4, <1>5


LEMMA RowsInit == Init => RowsMade
<1> SUFFICES ASSUME Init PROVE RowsMade
  OBVIOUS
<1>1. RowOK(NewLoop)
  BY LimitsAssumption DEF RowOK, NewLoop, Aligned
<1> HIDE DEF NewLoop
<1> QED
  BY <1>1 DEF Init, RowsMade

\* Only the row of a loop that moves changes.
LEMMA OneRowChanges ==
  ASSUME Shape, RowsMade, NEW i \in Rows, NEW new \in LoopType,
         loops' = [loops EXCEPT ![i] = new], RowOK(new)
  PROVE  \A j \in Rows : RowOK(loops'[j])
<1>1. loops'[i] = new /\ \A j \in Rows \ {i} : loops'[j] = loops[j]
  BY EntryChange DEF Shape
<1> QED
  BY <1>1 DEF RowsMade

LEMMA RowsLoop ==
  ASSUME Shape, RowsMade, NEW i \in Rows, Loop(i)
  PROVE  \A j \in Rows : RowOK(loops'[j])
<1>1. /\ loops[i] \in LoopType /\ RowOK(loops[i]) /\ ResponseLength \in Nat
      /\ loops[i].mask \in Seq(Marks) /\ Len(loops[i].mask) \in Nat
  BY LimitsAssumption DEF Shape, RowsMade, LoopType
<1>2. CASE Send(i)
  <2>1. PICK s \in Servers, new \in LoopType : SentTo(i, s, new)
    BY <1>2, SendFacts
  <2>2. /\ loops' = [loops EXCEPT ![i] = new] /\ new.at = "waiting"
        /\ new.mask = loops[i].mask /\ new.logprobs = loops[i].logprobs
    BY <2>1 DEF SentTo
  <2>3. loops[i].at # "done"
    BY <1>2 DEF Send
  <2>4. RowOK(new)
    BY <1>1, <2>2, <2>3 DEF RowOK
  <2> QED
    BY <2>2, <2>4, OneRowChanges
<1>3. CASE LoopRaises(i)
  BY <1>3 DEF LoopRaises, loopVars, RowsMade
<1>4. CASE Answer(i)
  <2>1. PICK n \in Sizes, at \in LoopStages, s \in Servers :
          /\ n \in Nat \ {0}
          /\ at \in AfterAnswer(Turn(loops[i], n, Held(s), prefix[s]))
          /\ Moved(Turn(loops[i], n, Held(s), prefix[s]), at) \in LoopType
          /\ loops' = [loops EXCEPT ![i] = Moved(Turn(loops[i], n, Held(s), prefix[s]), at)]
    <3>1. loops[i] \in LoopType
      BY <1>1
    <3> QED
      BY <1>4, <3>1, AnswerFacts
  <2>2. PICK loop \in LoopType, held \in SUBSET Int, cached \in SUBSET Int :
          loop = loops[i] /\ held = Held(s) /\ cached = prefix[s]
    BY <1>1, HeldWeights DEF Shape
  <2>3. /\ RowOK(loop) /\ loop.at = "waiting" /\ n \in Nat \ {0} /\ config \in Configs
        /\ at \in AfterAnswer(Turn(loop, n, held, cached))
    BY <1>1, <1>4, <2>1, <2>2 DEF Answer, Shape
  <2>4. RowOK(Moved(Turn(loop, n, held, cached), at))
    BY <2>3, RowAnswered
  <2> QED
    BY <2>1, <2>2, <2>4, OneRowChanges
<1>5. ASSUME NEW n \in Nat \ {0}, NEW at \in {"generating", "done"},
             loops[i].at \in {"tools", "interacting"},
             at = "generating" /\ config.loop = "tool" => Len(loops[i].mask) + n < ResponseLength,
             at = "done" => config.loop # "tool"
      PROVE  RowOK(Moved(Observed(loops[i], n), at))
  <2>1. n \in Nat /\ at \in LoopStages /\ loops[i].mask /= << >>
        /\ Aligned(loops[i].mask, loops[i].logprobs)
    BY <1>1, <1>5 DEF RowOK, LoopStages
  <2>2. PICK loop \in LoopType : loop = loops[i]
    BY <1>1
  <2>3. PICK longer \in LoopType : longer = Observed(loop, n)
    BY <2>1, ObservedLoop
  <2>4. Aligned(longer.mask, longer.logprobs) /\ longer.mask \in Seq(Marks)
        /\ Len(longer.mask) = Len(loop.mask) + n
    BY <2>1, <2>2, <2>3, RowObserved
  <2>5. PICK new \in LoopType :
          /\ new = Moved(longer, at) /\ new.at = at
          /\ new.mask = IF at = "done" THEN Cut(longer.mask) ELSE longer.mask
    BY <2>1, MovedLoop
  <2>6. Aligned(new.mask, new.logprobs)
    BY <2>1, <2>4, <2>5, RowMoved
  <2>7. Len(Cut(longer.mask)) <= ResponseLength
    BY <2>4, CutSeq
  <2>8. at = "done" => Len(new.mask) <= ResponseLength
    BY <2>5, <2>7
  <2>9. config.loop = "tool" => at = "generating" /\ Len(new.mask) < ResponseLength
    BY <1>5, <2>2, <2>4, <2>5
  <2>10. RowOK(new)
    BY <1>5, <2>5, <2>6, <2>8, <2>9 DEF RowOK
  <2> QED
    BY <2>2, <2>3, <2>5, <2>10
<1>6. CASE CallTools(i)
  <2>1. PICK n \in Sizes :
          LET old == loops[i]
              new == IF Len(old.mask) + n >= ResponseLength THEN Moved(old, "done")
                     ELSE Moved(Observed(old, n), "generating")
          IN /\ n \in Nat \ {0} /\ old.at = "tools" /\ new \in LoopType
             /\ loops' = [loops EXCEPT ![i] = new]
    BY <1>6, CallToolsFacts
  <2>2. CASE Len(loops[i].mask) + n >= ResponseLength
    <3>1. PICK loop \in LoopType : loop = loops[i]
      BY <1>1
    <3>2. PICK new \in LoopType :
            /\ new = Moved(loop, "done") /\ new.at = "done" /\ new.mask = Cut(loop.mask)
      BY MovedLoop DEF LoopStages
    <3>3. Aligned(new.mask, new.logprobs)
      <4>1. Aligned(loop.mask, loop.logprobs) /\ "done" \in LoopStages
        BY <1>1, <3>1 DEF RowOK, LoopStages
      <4> QED
        BY <3>2, <4>1, RowMoved
    <3>4. PICK mask \in Seq(Marks) : mask = loop.mask
      BY <1>1, <3>1
    <3>5. PICK cut : cut = Cut(mask)
      OBVIOUS
    <3>6. /\ cut \in Seq(Marks) /\ Len(cut) <= ResponseLength
          /\ Len(cut) = IF Len(mask) < ResponseLength THEN Len(mask) ELSE ResponseLength
          /\ \A k \in 1..Len(cut) : cut[k] = mask[k]
      BY <3>5, CutSeq
    <3>7. config.loop = "tool" => EndsWithModel(cut)
      <4> SUFFICES ASSUME config.loop = "tool" PROVE EndsWithModel(cut)
        OBVIOUS
      <4>1. Len(mask) < ResponseLength /\ EndsWithModel(mask)
        BY <1>1, <2>1, <3>1, <3>4 DEF RowOK
      <4>2. Len(cut) = Len(mask) /\ Len(mask) \in 1..Len(mask)
        BY <3>6, <4>1 DEF EndsWithModel
      <4> QED
        BY <3>6, <4>1, <4>2 DEF EndsWithModel
    <3>8. RowOK(new)
      BY <3>2, <3>3, <3>4, <3>5, <3>6, <3>7 DEF RowOK
    <3>9. loops' = [loops EXCEPT ![i] = new]
      BY <2>1, <2>2, <3>1, <3>2
    <3> QED
      BY <3>8, <3>9, OneRowChanges
  <2>3. CASE ~(Len(loops[i].mask) + n >= ResponseLength)
    <3>1. Len(loops[i].mask) + n < ResponseLength
      BY <1>1, <2>1, <2>3
    <3>2. RowOK(Moved(Observed(loops[i], n), "generating"))
      BY <1>5, <2>1, <3>1
    <3>3. /\ Moved(Observed(loops[i], n), "generating") \in LoopType
          /\ loops' = [loops EXCEPT ![i] = Moved(Observed(loops[i], n), "generating")]
      BY <2>1, <2>3
    <3> QED
      BY <3>2, <3>3, OneRowChanges
  <2> QED
    BY <2>2, <2>3
<1>7. CASE Interact(i)
  <2>1. PICK n \in Sizes, at \in {"generating", "done"} :
          /\ n \in Nat \ {0} /\ loops[i].at = "interacting"
          /\ Moved(Observed(loops[i], n), at) \in LoopType
          /\ loops' = [loops EXCEPT ![i] = Moved(Observed(loops[i], n), at)]
    BY <1>7, InteractFacts
  <2>2. config.loop # "tool"
    BY <1>1, <2>1 DEF RowOK
  <2>3. RowOK(Moved(Observed(loops[i], n), at))
    BY <1>5, <2>1, <2>2
  <2> QED
    BY <2>1, <2>3, OneRowChanges
<1> QED
  BY <1>2, <1>3, <1>4, <1>6, <1>7 DEF Loop

LEMMA RowsStep ==
  ASSUME Shape, RowsMade, [Next]_vars
  PROVE  RowsMade'
<1>1. Rows' = Rows /\ config' = config
  BY ConfigFixed
<1>3. CASE \A j \in Rows : RowOK(loops'[j])
  BY <1>1, <1>3 DEF RowsMade, RowOK, Aligned
<1>4. CASE BeginRollout
  <2>1. RowOK(NewLoop)
    BY LimitsAssumption DEF RowOK, NewLoop, Aligned
  <2>2. loops' = [j \in Rows |-> NewLoop]
    BY <1>4 DEF BeginRollout
  <2> HIDE DEF NewLoop
  <2>3. \A j \in Rows : RowOK(loops'[j])
    BY <2>1, <2>2
  <2> QED
    BY <1>3, <2>3
<1>5. CASE loops' = loops
  BY <1>3, <1>5 DEF RowsMade
<1>6. AllAwake \/ Collect \/ EndRollout \/ UNCHANGED vars => loops' = loops
  BY DEF AllAwake, Collect, EndRollout, vars, loopVars
<1>7. (\E w \in Workers : Worker(w)) \/ (\E s \in Servers : Sleep(s)) => loops' = loops
  BY DEF Worker, Resume, UpdateWeights, EnterRollout, EnterTrainer, Sleep, loopVars
<1> QED
  BY <1>3, <1>4, <1>5, <1>6, <1>7, RowsLoop DEF Next

\* Every row a loop leaves has a mask and, when asked for, a log-prob for each
\* of its tokens, and one with tools ends on a token of the model, whatever the
\* sizes of turns and answers (ToolAgentLoop.run, _handle_processing_tools_state).
THEOREM RowsAlwaysAligned == Spec => []RowsAligned
<1>1. Init => Shape /\ RowsMade
  BY ShapeInit, RowsInit
<1>2. Shape /\ RowsMade /\ [Next]_vars => (Shape /\ RowsMade)'
  BY ShapeStep, RowsStep
<1>3. RowsMade => RowsAligned
  BY DEF RowsMade, RowOK, Aligned, EndsWithModel, RowsAligned, TokensAligned, ToolRowsEndWithModel
<1> QED
  BY <1>1, <1>2, <1>3, PTL DEF Spec


-----------------------------------------------------------------------------
(***************************************************************************)
(* Counts of requests and the types                                        *)
(***************************************************************************)

\* A worker gives a server at most one request for each conversation begun.
Fresh == {i \in Rows : loops[i].servers = {}}
Quota(n) == config.rows * n

Given ==
  /\ driver \in {"waking", "generating"} => step # 0
  /\ \A a \in Agents, s \in Servers :
       requests[a][s] + (IF step = 0 THEN 0 ELSE Cardinality(Fresh)) <= Quota(step)

LEMMA QuotaGrows ==
  ASSUME config \in Configs, NEW m \in Nat, NEW n \in Nat
  PROVE  /\ Quota(n) \in Nat /\ Quota(0) = 0 /\ Quota(n + 1) = Quota(n) + config.rows
         /\ m <= n => Quota(m) <= Quota(n)
<1>1. PICK rows \in Nat : rows = config.rows
  BY ConfigNumbers
<1>2. /\ m * rows = rows * m /\ n * rows = rows * n
      /\ m <= n => m * rows <= n * rows
      /\ rows * n \in Nat
  BY FactorGrows
<1>3. rows * (n + 1) = rows * n + rows /\ rows * 0 = 0
  OBVIOUS
<1> QED
  BY <1>1, <1>2, <1>3 DEF Quota

LEMMA FreshRows ==
  ASSUME Shape
  PROVE  /\ IsFiniteSet(Rows) /\ Cardinality(Rows) = config.rows
         /\ IsFiniteSet(Fresh) /\ Cardinality(Fresh) \in Nat
         /\ \A rows \in SUBSET Fresh : Cardinality(rows) <= Cardinality(Fresh)
         /\ \A i \in Fresh : Cardinality(Fresh \ {i}) = Cardinality(Fresh) - 1
<1>1. PICK n \in Nat : n = config.rows
  BY ConfigNumbers DEF Shape
<1>2. IsFiniteSet(1..n) /\ Cardinality(1..n) = n
  BY FS_Interval
<1>3. IsFiniteSet(Rows) /\ Cardinality(Rows) = config.rows
  BY <1>1, <1>2 DEF Rows
<1>4. Fresh \subseteq Rows
  BY DEF Fresh
<1>5. IsFiniteSet(Fresh)
  BY <1>3, <1>4, FS_Subset
<1>6. Cardinality(Fresh) \in Nat
  BY <1>5, FS_CardinalityType
<1>7. \A rows \in SUBSET Fresh : Cardinality(rows) <= Cardinality(Fresh)
  BY <1>5, FS_Subset
<1>8. \A i \in Fresh : Cardinality(Fresh \ {i}) = Cardinality(Fresh) - 1
  BY <1>5, FS_RemoveElement
<1> QED
  BY <1>3, <1>5, <1>6, <1>7, <1>8

LEMMA GivenInit == Init => Given
<1> SUFFICES ASSUME Init PROVE Given
  OBVIOUS
<1>1. step = 0 /\ \A a \in Agents, s \in Servers : requests[a][s] = 0
  BY DEF Init
<1>2. Quota(0) = 0
  <2>1. config \in Configs
    BY DEF Init
  <2> QED
    BY <2>1, QuotaGrows
<1>3. driver \notin {"waking", "generating"}
  BY DEF Init
<1> QED
  BY <1>1, <1>2, <1>3 DEF Given

LEMMA GivenSend ==
  ASSUME Shape, Sessions, Given, NEW i \in Rows, Send(i)
  PROVE  Given'
<1>1. PICK s \in Servers, new \in LoopType : SentTo(i, s, new)
  BY SendFacts
<1>2. PICK a \in Agents : a = AgentOf(i) /\ s \in Chosen(a, <<step, i>>)
        /\ requests' = IF Hits(a, <<step, i>>) /= {} THEN requests
                       ELSE [requests EXCEPT ![a][s] = @ + 1]
  BY <1>1 DEF SentTo
<1>3. /\ loops' = [loops EXCEPT ![i] = new] /\ new.servers = loops[i].servers \cup {s}
  BY <1>1 DEF SentTo
<1>4. /\ config' = config /\ step' = step /\ driver' = driver /\ driver = "generating"
      /\ Rows' = Rows /\ Agents' = Agents
  BY DEF Send, Rows, Agents
<1>5. step \in Nat \ {0} /\ \A b \in Agents, t \in Servers : requests[b][t] \in Nat
  BY <1>4, LimitsAssumption DEF Given, Shape
<1>6. Fresh' = Fresh \ {i}
  <2>1. loops'[i] = new /\ \A j \in Rows \ {i} : loops'[j] = loops[j]
    BY <1>3, EntryChange DEF Shape
  <2>2. loops'[i].servers # {}
    BY <1>3, <2>1
  <2> QED
    BY <1>4, <2>1, <2>2 DEF Fresh
<1>7. PICK k \in Nat, n \in Nat, q \in Nat :
        /\ k = Cardinality(Fresh) /\ n = Cardinality(Fresh \ {i}) /\ q = Quota(step)
        /\ n <= k /\ (i \in Fresh => n = k - 1)
  <2>1. Cardinality(Fresh) \in Nat /\ IsFiniteSet(Fresh)
    BY FreshRows
  <2>2. IsFiniteSet(Fresh \ {i}) /\ Cardinality(Fresh \ {i}) <= Cardinality(Fresh)
    BY <2>1, FS_Subset
  <2>3. Cardinality(Fresh \ {i}) \in Nat
    BY <2>2, FS_CardinalityType
  <2>4. i \in Fresh => Cardinality(Fresh \ {i}) = Cardinality(Fresh) - 1
    BY FreshRows
  <2>5. Quota(step) \in Nat
    BY <1>5, QuotaGrows DEF Shape
  <2> QED
    BY <2>1, <2>2, <2>3, <2>4, <2>5
<1>8. \A b \in Agents, t \in Servers : requests[b][t] + k <= q
  BY <1>5, <1>7 DEF Given
<1>9. ASSUME NEW b \in Agents, NEW t \in Servers PROVE requests'[b][t] + n <= q
  <2>1. CASE Hits(a, <<step, i>>) /= {}
    BY <1>2, <1>5, <1>7, <1>8, <2>1
  <2>2. CASE Hits(a, <<step, i>>) = {}
    <3>1. i \in Fresh
      BY <1>2, <2>2, ChosenSticks DEF Fresh
    <3>2. requests' = [requests EXCEPT ![a][s] = @ + 1]
      BY <1>2, <2>2
    <3>3. requests'[b][t] \in {requests[b][t], requests[b][t] + 1}
      BY <1>5, <3>2, RequestCounted
    <3> QED
      BY <1>5, <1>7, <1>8, <3>1, <3>3
  <2> QED
    BY <2>1, <2>2
<1>10. Quota(step)' = q
  BY <1>4, <1>7 DEF Quota
<1> QED
  BY <1>4, <1>5, <1>6, <1>7, <1>9, <1>10 DEF Given

LEMMA GivenStep ==
  ASSUME Shape, Sessions, Given, [Next]_vars
  PROVE  Given'
<1>1. config' = config /\ Rows' = Rows /\ Agents' = Agents
  BY ConfigFixed
<1>2. CASE BeginRollout
  <2>1. /\ step' = step + 1 /\ requests' = requests
        /\ \A i \in Rows : loops'[i].servers = {}
    BY <1>2 DEF BeginRollout, NewLoop
  <2>2. Fresh' = Rows
    BY <1>1, <2>1 DEF Fresh
  <2>3. step \in Nat /\ \A b \in Agents, t \in Servers : requests[b][t] \in Nat
    BY LimitsAssumption DEF Shape
  <2>4. PICK r \in Nat, q \in Nat, k \in Nat :
          /\ r = Cardinality(Rows) /\ r = config.rows /\ q = Quota(step)
          /\ Quota(step + 1) = q + r /\ k = Cardinality(Fresh)
    <3>1. Cardinality(Rows) = config.rows /\ Cardinality(Fresh) \in Nat
      BY FreshRows
    <3>2. Quota(step) \in Nat /\ Quota(step + 1) = Quota(step) + config.rows
      BY <2>3, QuotaGrows DEF Shape
    <3>3. config.rows \in Nat
      BY ConfigNumbers DEF Shape
    <3> QED
      BY <3>1, <3>2, <3>3
  <2>5. Quota(step)' = q + r
    <3>1. Quota(step)' = config.rows * (step + 1) /\ Quota(step + 1) = config.rows * (step + 1)
      BY <1>1, <2>1 DEF Quota
    <3> QED
      BY <2>4, <3>1
  <2>6. ASSUME NEW b \in Agents, NEW t \in Servers
        PROVE  requests'[b][t] + r <= q + r
    <3>1. requests[b][t] + (IF step = 0 THEN 0 ELSE k) <= q
      BY <2>4 DEF Given
    <3> QED
      BY <2>1, <2>3, <2>4, <3>1
  <2>7. step' # 0
    BY <2>1, <2>3
  <2> QED
    BY <1>1, <2>2, <2>4, <2>5, <2>6, <2>7 DEF Given
<1>3. ASSUME step' = step, requests' = requests,
             \A j \in Rows : loops'[j].servers = loops[j].servers,
             driver' \in {"waking", "generating"} => driver \in {"waking", "generating"}
      PROVE  Given'
  <2>1. Fresh' = Fresh
    BY <1>1, <1>3 DEF Fresh
  <2>2. Quota(step)' = Quota(step)
    BY <1>1, <1>3 DEF Quota
  <2> QED
    BY <1>1, <1>3, <2>1, <2>2 DEF Given
<1>4. ~BeginRollout /\ (\A i \in Rows : ~Send(i)) =>
        (driver' \in {"waking", "generating"} => driver \in {"waking", "generating"})
  BY DEF Next, vars, AllAwake, Collect, EndRollout, Worker, Resume, UpdateWeights,
         EnterRollout, EnterTrainer, Sleep, Loop, LoopRaises, Answer, CallTools, Interact
<1> QED
  BY <1>2, <1>3, <1>4, GivenSend, SessionsApart

TypesInv == Shape /\ Phases /\ Sessions /\ RowsMade /\ Given

\* Every variable keeps its type, and a worker gives a server no more requests
\* than it has begun conversations (VARIABLES of AgentRollout).
THEOREM TypesKept == Spec => []TypeOK
<1>1. Init => TypesInv
  BY ShapeInit, PhasesInit, SessionsInit, RowsInit, GivenInit DEF TypesInv
<1>2. TypesInv /\ [Next]_vars => TypesInv'
  BY ShapeStep, PhasesStep, SessionsStep, RowsStep, GivenStep DEF TypesInv
<1>3. TypesInv => TypeOK
  <2> SUFFICES ASSUME TypesInv PROVE TypeOK
    OBVIOUS
  <2>1. /\ Shape /\ step \in Nat /\ MaxSteps \in Nat /\ step <= MaxSteps
        /\ 0..step \subseteq Versions /\ trained \in 0..step
    BY LimitsAssumption DEF TypesInv, Shape, Versions
  <2>2. StateType(step) \subseteq States
    BY <2>1 DEF StateType, States
  <2>3. /\ device \in [Workers -> States] /\ torchState \in [Workers -> States]
        /\ genState \in [Workers -> States]
    BY <2>1, <2>2 DEF Shape
  <2>4. engine \in [Workers -> [weights : Versions \cup {Dummy, Allocated, Released},
                               cache : BOOLEAN]]
    <3>1. EngineType \subseteq [weights : Versions \cup {Dummy, Allocated, Released},
                               cache : BOOLEAN]
      BY <2>1 DEF EngineType
    <3> QED
      BY <2>1, <3>1 DEF Shape
  <2>5. prefix \in [Servers -> SUBSET Versions]
    <3>1. \A s \in Servers : prefix[s] \subseteq {trained}
      BY <2>1 DEF TypesInv, Shape, Phases, Training, Waking, Generating, Sleeping
    <3> QED
      BY <2>1, <3>1 DEF Shape
  <2>6. requests \in [Agents -> [Servers -> 0..(config.rows * MaxSteps)]]
    <3>1. ASSUME NEW a \in Agents, NEW s \in Servers
          PROVE  requests[a][s] \in 0..(config.rows * MaxSteps)
      <4>1. PICK k \in Nat, q \in Nat, m \in Nat :
              /\ k = Cardinality(Fresh) /\ q = Quota(step) /\ m = Quota(MaxSteps) /\ q <= m
        <5>1. Cardinality(Fresh) \in Nat
          BY <2>1, FreshRows
        <5>2. config \in Configs
          BY <2>1 DEF Shape
        <5>3. Quota(step) \in Nat /\ Quota(MaxSteps) \in Nat /\ Quota(step) <= Quota(MaxSteps)
          BY <2>1, <5>2, QuotaGrows
        <5> QED
          BY <5>1, <5>3
      <4>2. requests[a][s] + (IF step = 0 THEN 0 ELSE k) <= q
        BY <4>1 DEF TypesInv, Given
      <4>3. requests[a][s] \in Nat
        BY <2>1 DEF Shape
      <4>4. requests[a][s] \in 0..m
        BY <4>1, <4>2, <4>3
      <4> QED
        BY <4>1, <4>4 DEF Quota
    <3> QED
      BY <2>1, <3>1 DEF Shape
  <2>7. \A i \in Rows :
          /\ loops[i].at \in LoopStages /\ loops[i].server \in Servers \cup {0}
          /\ loops[i].at = "done" => Len(loops[i].mask) <= ResponseLength
    BY <2>1 DEF TypesInv, Shape, LoopType, RowsMade, RowOK
  <2> QED
    BY <2>1, <2>3, <2>4, <2>5, <2>6, <2>7 DEF TypeOK, Shape, LoopStages
<1> QED
  BY <1>1, <1>2, <1>3, PTL DEF Spec

-----------------------------------------------------------------------------
\* The rows come back in the order in which they were given, whatever the order
\* in which the loops end: every worker gathers its rows in their order, and
\* the driver the workers in theirs (generate_sequences of AgentLoopWorker and
\* of AgentLoopManager, DataProto.concat).
THEOREM RowsKeepOrder == Spec => []RowOrder
<1> DEFINE Ordered == config \in Configs /\ RowOrder
<1>1. Init => Ordered
  BY DEF Init, RowOrder
<1>2. Ordered /\ [Next]_vars => Ordered'
  <2> SUFFICES ASSUME Ordered, [Next]_vars PROVE Ordered'
    OBVIOUS
  <2>1. config' = config /\ Rows' = Rows
    BY ConfigFixed DEF Rows
  <2>2. CASE Collect
    <3>1. output' = Concat([a \in Agents |-> RowsOf(a)])
      BY <2>2 DEF Collect
    <3>2. PICK rows \in Nat, agents \in Nat \ {0}, size \in Nat :
            rows = config.rows /\ agents = config.agents /\ EqualParts(rows, agents, size)
      BY ConfigNumbers, ExactDivision
    <3>3. PICK all \in Seq(1..rows) : all = [i \in Rows |-> i] /\ Len(all) = rows
      <4>1. [i \in 1..rows |-> i] \in Seq(1..rows) /\ Len([i \in 1..rows |-> i]) = rows
        OBVIOUS
      <4> QED
        BY <3>2, <4>1 DEF Rows
    <3>4. [a \in Agents |-> RowsOf(a)] = Chunk(all, agents)
      BY <3>2, <3>3 DEF RowsOf, Agents, Chunk
    <3>5. Concat(Chunk(all, agents)) = all
      BY <3>2, <3>3, ConcatOfChunks
    <3> QED
      BY <2>1, <3>1, <3>3, <3>4, <3>5 DEF RowOrder
  <2>3. CASE ~Collect
    <3>1. output' \in {output, << >>}
      BY <2>3 DEF Next, vars, BeginRollout, AllAwake, EndRollout, Worker, Resume, UpdateWeights,
             EnterRollout, EnterTrainer, Sleep, Loop, LoopRaises, Answer, CallTools, Interact, Send
    <3> QED
      BY <2>1, <3>1 DEF RowOrder
  <2> QED
    BY <2>2, <2>3
<1> QED
  BY <1>1, <1>2, PTL DEF Spec

\* Whatever the order in which the loops end and the sizes of turns and answers,
\* the driver gets the rows it asked for, in that order, and each is whole
\* (AgentLoopManager.generate_sequences, ToolAgentLoop.run).
THEOREM RowsAlwaysWhole == Spec => []RowsWhole
  BY RowsAlwaysAligned, RowsKeepOrder, PTL DEF RowsWhole

=============================================================================
