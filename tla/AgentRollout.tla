----------------------------- MODULE AgentRollout -----------------------------
(***************************************************************************)
(* Rollouts with the agent loop: the driver wakes the LLM servers, which   *)
(* live in the processes of the trainer and take its weights, splits the   *)
(* prompts over agent loop workers, whose loops send requests to the       *)
(* servers and call tools, collects the rows and puts the servers to sleep *)
(* (hybrid engine, vLLM, no LoRA).                                         *)
(*                                                                         *)
(* A worker <<s, t>> is tensor-parallel rank t of server s.  A response is *)
(* the sequence of its response_mask; a random state is the seed it began  *)
(* with and how often each of its users has drawn from it.                 *)
(***************************************************************************)
EXTENDS DataFlow, FiniteSets, TLC

CONSTANTS
  Configs,            \* rows, agent loop workers, kind of loop, free_cache_engine, logprobs
  Servers, TpSize,    \* rollout replicas and tensor_model_parallel_size
  CacheSize,          \* max_cache_size of the request cache
  ResponseLength, MaxAssistantTurns, MaxUserTurns,
  Sizes,              \* numbers of tokens an answer, a tool or a user may have
  MaxSteps            \* bound on the number of rollouts

Workers == Servers \X (1..TpSize)

ASSUME ServersAssumption == Servers /= {} /\ TpSize \in Nat \ {0}
ASSUME LimitsAssumption ==
  /\ CacheSize \in Nat \ {0} /\ ResponseLength \in Nat \ {0}
  /\ MaxAssistantTurns \in Nat /\ MaxUserTurns \in Nat
  /\ Sizes \subseteq Nat \ {0} /\ MaxSteps \in Nat
ASSUME AgentConfigsAssumption ==
  \A c \in Configs :
    /\ c.rows \in Nat \ {0} /\ c.agents \in Nat \ {0}
    /\ c.rows % c.agents = 0                    \* the batch is padded
    /\ c.loop \in {"raw", "tool", "interaction"}
    /\ c.free \in BOOLEAN /\ c.logprobs \in BOOLEAN
    /\ c.slack \in Nat                         \* prompt_length less the prompt's length
    /\ c.rows \div c.agents <= CacheSize

VARIABLES
  config,    \* the configuration of the job
  step,      \* rollouts begun
  driver,    \* what the driver does
  trained,   \* version of the trainer's weights
  mode,      \* where each worker is between trainer mode and rollout mode
  engine,    \* the weights each inference engine holds, and whether it has a cache
  device,    \* random state of the device of each worker
  torchState, genState,  \* the two states a worker keeps aside
  drained,   \* servers that have reset their prefix cache for the sleep
  prefix,    \* per server, versions of the weights its cached prefixes come from
  requests,  \* per agent loop worker and server, the requests given to it
  sticky,    \* per agent loop worker, the request cache, least recently used first
  loops,     \* the agent loop of each row
  output     \* the rows of the last rollout

workerVars == <<mode, engine, device, torchState, genState, drained>>
loopVars == <<prefix, requests, sticky, loops>>
vars == <<config, step, driver, trained, workerVars, loopVars, output>>

Rows == 1..config.rows
Agents == 1..config.agents

\* Mutant: the rows are dealt out in turn.
RowsOfInTurn(a) ==
  SelectSeq([i \in Rows |-> i], LAMBDA i : i % config.agents = a % config.agents)

RowsOf(a) == Chunk([i \in Rows |-> i], config.agents)[a]
AgentOf(i) == CHOOSE a \in Agents : i \in ToSet(RowsOf(a))

NewLoop == [at |-> "pending", server |-> 0, mask |-> << >>, logprobs |-> << >>,
            assistantTurns |-> 0, userTurns |-> 0, servers |-> {}, weights |-> {}]

\* What an engine holds instead of a version of the weights: dummy weights at
\* first, memory without contents, or nothing.
Dummy == -1
Allocated == -2
Released == -3

State(seed) == [seed |-> seed, trainer |-> 0, sampler |-> 0]

Init ==
  /\ config \in Configs
  /\ step = 0 /\ trained = 0
  \* With free_cache_engine the manager puts the new servers to sleep first.
  /\ driver = IF config.free THEN "sleeping" ELSE "training"
  /\ mode = [w \in Workers |-> IF config.free THEN "rollout" ELSE "trainer"]
  /\ engine = [w \in Workers |-> [weights |-> Dummy, cache |-> TRUE]]
  /\ torchState = [w \in Workers |-> State(<<"torch", 0>>)]
  /\ genState = [w \in Workers |-> State(<<"rollout", w[1]>>)]
  \* The states are kept before the engine is built, which may seed the device.
  /\ device \in {[w \in Workers |-> State(s)] : s \in {<<"torch", 0>>, <<"engine", 0>>}}
  /\ drained = {}
  /\ prefix = [s \in Servers |-> {}]
  /\ requests = [a \in Agents |-> [s \in Servers |-> 0]]
  /\ sticky = [a \in Agents |-> << >>]
  /\ loops = [i \in Rows |-> NewLoop]
  /\ output = << >>

-----------------------------------------------------------------------------
(***************************************************************************)
(* Workers: rollout_mode and trainer_mode                                  *)
(***************************************************************************)

\* Mutant: the replicas are woken one after the other.
ResumeInTurn(w) ==
  /\ driver = "waking" /\ mode[w] = "trainer"
  /\ \A v \in Workers : v[1] < w[1] => mode[v] = "rollout"
  /\ mode' = [mode EXCEPT ![w] = "resumed"]
  /\ engine' = [engine EXCEPT ![w].weights = IF config.free THEN Allocated ELSE @]
  /\ UNCHANGED <<config, step, driver, trained, device, torchState, genState, drained,
                 loopVars, output>>

\* The shards of the weights are at hand and the engine has room for them.
Resume(w) ==
  /\ driver = "waking" /\ mode[w] = "trainer"
  /\ mode' = [mode EXCEPT ![w] = "resumed"]
  /\ engine' = [engine EXCEPT ![w].weights = IF config.free THEN Allocated ELSE @]
  /\ UNCHANGED <<config, step, driver, trained, device, torchState, genState, drained,
                 loopVars, output>>

\* update_weights reads full tensors, which all ranks of the trainer gather.
UpdateWeights(w) ==
  /\ mode[w] = "resumed"
  /\ \A v \in Workers : mode[v] /= "trainer"
  /\ mode' = [mode EXCEPT ![w] = "loaded"]
  /\ engine' = [engine EXCEPT ![w].weights = trained]
  /\ UNCHANGED <<config, step, driver, trained, device, torchState, genState, drained,
                 loopVars, output>>

\* Room for the cache, and the random state of rollouts.
EnterRollout(w) ==
  /\ mode[w] = "loaded"
  /\ mode' = [mode EXCEPT ![w] = "rollout"]
  /\ engine' = [engine EXCEPT ![w].cache = TRUE]
  /\ torchState' = [torchState EXCEPT ![w] = device[w]]
  /\ device' = [device EXCEPT ![w] = genState[w]]
  /\ UNCHANGED <<config, step, driver, trained, genState, drained, loopVars, output>>

\* Mutant: the engine keeps its weights.
EnterTrainerKeepsWeights(w) ==
  /\ driver = "sleeping" /\ mode[w] = "rollout" /\ w[1] \in drained
  /\ mode' = [mode EXCEPT ![w] = "trainer"]
  /\ engine' = [engine EXCEPT ![w].cache = IF config.free THEN FALSE ELSE @]
  /\ genState' = [genState EXCEPT ![w] = device[w]]
  /\ device' = [device EXCEPT ![w] = torchState[w]]
  /\ UNCHANGED <<config, step, driver, trained, torchState, drained, loopVars, output>>

\* Mutant: the random state of the trainer is not put back.
EnterTrainerKeepsState(w) ==
  /\ driver = "sleeping" /\ mode[w] = "rollout" /\ w[1] \in drained
  /\ mode' = [mode EXCEPT ![w] = "trainer"]
  /\ engine' = [engine EXCEPT ![w] =
       IF config.free THEN [weights |-> Released, cache |-> FALSE] ELSE @]
  /\ genState' = [genState EXCEPT ![w] = device[w]]
  /\ UNCHANGED <<config, step, driver, trained, device, torchState, drained, loopVars, output>>

\* The engine gives its memory back, and the states are exchanged again.
EnterTrainer(w) ==
  /\ driver = "sleeping" /\ mode[w] = "rollout" /\ w[1] \in drained
  /\ mode' = [mode EXCEPT ![w] = "trainer"]
  /\ engine' = [engine EXCEPT ![w] =
       IF config.free THEN [weights |-> Released, cache |-> FALSE] ELSE @]
  /\ genState' = [genState EXCEPT ![w] = device[w]]
  /\ device' = [device EXCEPT ![w] = torchState[w]]
  /\ UNCHANGED <<config, step, driver, trained, torchState, drained, loopVars, output>>

\* Mutant: cached prefixes survive.
SleepKeepsPrefixes(s) ==
  /\ driver = "sleeping" /\ s \notin drained
  /\ \A i \in Rows : loops[i].at = "waiting" => loops[i].server /= s
  /\ drained' = drained \cup {s}
  /\ UNCHANGED <<config, step, driver, trained, mode, engine, device, torchState, genState,
                 prefix, requests, sticky, loops, output>>

\* sleep of a server: the prefix cache is reset, then its workers sleep.
Sleep(s) ==
  /\ driver = "sleeping" /\ s \notin drained
  /\ \A i \in Rows : loops[i].at = "waiting" => loops[i].server /= s
  /\ drained' = drained \cup {s}
  /\ prefix' = [prefix EXCEPT ![s] = {}]
  /\ UNCHANGED <<config, step, driver, trained, mode, engine, device, torchState, genState,
                 requests, sticky, loops, output>>

Worker(w) == Resume(w) \/ UpdateWeights(w) \/ EnterRollout(w) \/ EnterTrainer(w)

-----------------------------------------------------------------------------
(***************************************************************************)
(* The driver: generate_sequences of the manager                           *)
(***************************************************************************)

\* Mutant (Issue #4147): without free_cache_engine nobody is woken.
BeginRolloutUnsynced ==
  /\ driver = "training" /\ step < MaxSteps
  /\ step' = step + 1
  /\ trained' \in {trained, trained + 1}
  /\ driver' = IF config.free THEN "waking" ELSE "generating"
  /\ device' = [w \in Workers |-> [device[w] EXCEPT !.trainer = @ + 1]]
  /\ loops' = [i \in Rows |-> NewLoop]
  /\ output' = << >>
  /\ UNCHANGED <<config, mode, engine, torchState, genState, drained, prefix, requests, sticky>>

\* The trainer may have updated its weights, and drew random numbers (dropout);
\* then the next rollout wakes the servers, whatever free_cache_engine says.
BeginRollout ==
  /\ driver = "training" /\ step < MaxSteps
  /\ step' = step + 1
  /\ trained' \in {trained, trained + 1}
  /\ driver' = "waking"
  /\ device' = [w \in Workers |-> [device[w] EXCEPT !.trainer = @ + 1]]
  /\ loops' = [i \in Rows |-> NewLoop]
  /\ output' = << >>
  /\ UNCHANGED <<config, mode, engine, torchState, genState, drained, prefix, requests, sticky>>

AllAwake ==
  /\ driver = "waking" /\ \A w \in Workers : mode[w] = "rollout"
  /\ driver' = "generating"
  /\ UNCHANGED <<config, step, trained, workerVars, loopVars, output>>

\* Each worker gathers its rows in their order, the driver those of the workers
\* in theirs; every rank has sampled in the meantime.
Collect ==
  /\ driver = "generating" /\ \A i \in Rows : loops[i].at = "done"
  /\ output' = Concat([a \in Agents |-> RowsOf(a)])
  /\ driver' = "sleeping"
  /\ device' = [w \in Workers |-> [device[w] EXCEPT !.sampler = @ + 1]]
  /\ UNCHANGED <<config, step, trained, mode, engine, torchState, genState, drained, loopVars>>

EndRollout ==
  /\ driver = "sleeping" /\ drained = Servers
  /\ \A w \in Workers : mode[w] = "trainer"
  /\ driver' = "training" /\ drained' = {}
  /\ UNCHANGED <<config, step, trained, mode, engine, device, torchState, genState, loopVars,
                 output>>

-----------------------------------------------------------------------------
(***************************************************************************)
(* The agent loops and the server manager of their worker                  *)
(***************************************************************************)

\* Mutant: the heap keeps its order.
LeastLoadedStale(a) == {CHOOSE s \in Servers : TRUE}

\* The head of the heap: least requests so far, ties by the hash of the handle.
LeastLoaded(a) ==
  {s \in Servers : \A t \in Servers : requests[a][s] <= requests[a][t]}

Hits(a, request) == {k \in 1..Len(sticky[a]) : sticky[a][k].request = request}

\* Mutant: the session is forgotten.
ChosenAnew(a, request) == LeastLoaded(a)

Chosen(a, request) ==
  IF Hits(a, request) /= {} THEN {sticky[a][k].server : k \in Hits(a, request)}
  ELSE LeastLoaded(a)

\* The entry used last is the newest; a full cache drops the oldest.
Touched(a, entry) ==
  LET hits   == Hits(a, entry.request)
      others == IF hits = {} THEN sticky[a] ELSE RemoveAt(sticky[a], CHOOSE k \in hits : TRUE)
      kept   == IF Len(others) = CacheSize THEN Tail(others) ELSE others
  IN Append(kept, entry)

\* Tokens an answer may have: max_tokens of the request, within max_model_len.
Room(i) ==
  LET left == config.slack + ResponseLength - Len(loops[i].mask) IN
  IF config.loop = "raw" /\ left > ResponseLength THEN ResponseLength ELSE left

Send(i) ==
  /\ driver = "generating" /\ loops[i].at \in {"pending", "generating"}
  /\ Room(i) > 0
  /\ LET a == AgentOf(i)
         request == <<step, i>>
     IN \E s \in Chosen(a, request) :
          /\ requests' = IF Hits(a, request) /= {} THEN requests
                         ELSE [requests EXCEPT ![a][s] = @ + 1]
          /\ sticky' = [sticky EXCEPT ![a] = Touched(a, [request |-> request, server |-> s])]
          /\ loops' = [loops EXCEPT ![i].at = "waiting", ![i].server = s,
                                    ![i].servers = @ \cup {s}]
  /\ UNCHANGED <<config, step, driver, trained, workerVars, prefix, output>>

\* A request for no token at all is refused; the error ends the job.
LoopRaises(i) ==
  /\ driver = "generating" /\ loops[i].at \in {"pending", "generating"}
  /\ Room(i) <= 0
  /\ driver' = "failed"
  /\ UNCHANGED <<config, step, trained, workerVars, loopVars, output>>

Repeated(x, n) == [k \in 1..n |-> x]

Cut(seq) == SubSeq(seq, 1, IF Len(seq) < ResponseLength THEN Len(seq) ELSE ResponseLength)

\* Mutant: the row is not cut.
FinishedUncut(loop) == [loop EXCEPT !.at = "done"]

\* The row as run returns it.
Finished(loop) == [loop EXCEPT !.at = "done", !.mask = Cut(@), !.logprobs = Cut(@)]

Moved(loop, at) == IF at = "done" THEN Finished(loop) ELSE [loop EXCEPT !.at = at]

\* Where a loop goes with an answer; whether the answer calls tools is open.
AfterAnswer(loop) ==
  IF \/ config.loop = "raw"
     \/ Len(loop.mask) >= ResponseLength
     \/ MaxAssistantTurns > 0 /\ loop.assistantTurns >= MaxAssistantTurns
     \/ MaxUserTurns > 0 /\ loop.userTurns >= MaxUserTurns
  THEN {"done"}
  ELSE {"tools", IF config.loop = "interaction" THEN "interacting" ELSE "done"}

\* The server reads the weights of its ranks and the prefixes it has cached.
Answer(i) ==
  /\ driver = "generating" /\ loops[i].at = "waiting"
  /\ LET s == loops[i].server
         held == {engine[<<s, t>>].weights : t \in 1..TpSize}
     IN /\ prefix' = [prefix EXCEPT ![s] = @ \cup held]
        /\ \E n \in {k \in Sizes : k <= Room(i)} :
             LET loop == [loops[i] EXCEPT
                   !.mask = @ \o Repeated(1, n),
                   !.logprobs = IF config.logprobs THEN @ \o Repeated("sampled", n) ELSE @,
                   !.assistantTurns = @ + 1,
                   !.weights = @ \cup held \cup prefix[s]]
             IN \E at \in AfterAnswer(loop) : loops' = [loops EXCEPT ![i] = Moved(loop, at)]
  /\ UNCHANGED <<config, step, driver, trained, workerVars, requests, sticky, output>>

\* Mutant: no log-probs for the tokens of tools and users.
ObservedWithoutLogprobs(loop, n) ==
  [loop EXCEPT !.mask = @ \o Repeated(0, n), !.userTurns = @ + 1]

\* n tokens that the model did not generate.
Observed(loop, n) ==
  [loop EXCEPT !.mask = @ \o Repeated(0, n),
               !.logprobs = IF @ = << >> THEN @ ELSE @ \o Repeated("zero", n),
               !.userTurns = @ + 1]

\* Mutant: the answer of the tools may fill the response.
CallToolsToTheLimit(i) ==
  /\ driver = "generating" /\ loops[i].at = "tools"
  /\ \E n \in Sizes :
       loops' = [loops EXCEPT ![i] =
         IF Len(@.mask) + n > ResponseLength THEN Finished(@)
         ELSE Moved(Observed(@, n), "generating")]
  /\ UNCHANGED <<config, step, driver, trained, workerVars, prefix, requests, sticky, output>>

\* What the tools answer is dropped, and the loop ends, when it leaves no room
\* for a token of the model.
CallTools(i) ==
  /\ driver = "generating" /\ loops[i].at = "tools"
  /\ \E n \in Sizes :
       loops' = [loops EXCEPT ![i] =
         IF Len(@.mask) + n >= ResponseLength THEN Finished(@)
         ELSE Moved(Observed(@, n), "generating")]
  /\ UNCHANGED <<config, step, driver, trained, workerVars, prefix, requests, sticky, output>>

\* What a user answers is kept, however long it is.
Interact(i) ==
  /\ driver = "generating" /\ loops[i].at = "interacting"
  /\ \E n \in Sizes, at \in {"generating", "done"} :
       loops' = [loops EXCEPT ![i] = Moved(Observed(@, n), at)]
  /\ UNCHANGED <<config, step, driver, trained, workerVars, prefix, requests, sticky, output>>

Loop(i) == Send(i) \/ LoopRaises(i) \/ Answer(i) \/ CallTools(i) \/ Interact(i)

Next ==
  \/ BeginRollout \/ AllAwake \/ Collect \/ EndRollout
  \/ \E w \in Workers : Worker(w)
  \/ \E s \in Servers : Sleep(s)
  \/ \E i \in Rows : Loop(i)

Spec == Init /\ [][Next]_vars

\* Servers answer, tools return and the runtime schedules the actors: as long
\* as something can happen, something does.
FairSpec == Spec /\ WF_vars(Next)

-----------------------------------------------------------------------------
(***************************************************************************)
(* Properties                                                              *)
(***************************************************************************)

Versions == 0..MaxSteps
States == [seed : {"torch", "engine", "rollout"} \X (Servers \cup {0}),
           trainer : 0..MaxSteps, sampler : 0..MaxSteps]

\* The type of every variable but output, which RowOrder fixes (VARIABLES of
\* AgentRollout).
TypeOK ==
  /\ config \in Configs /\ step \in 0..MaxSteps /\ trained \in Versions
  /\ driver \in {"training", "waking", "generating", "sleeping", "failed"}
  /\ mode \in [Workers -> {"trainer", "resumed", "loaded", "rollout"}]
  /\ engine \in [Workers -> [weights : Versions \cup {Dummy, Allocated, Released},
                             cache : BOOLEAN]]
  /\ device \in [Workers -> States] /\ torchState \in [Workers -> States]
  /\ genState \in [Workers -> States]
  /\ drained \subseteq Servers
  /\ prefix \in [Servers -> SUBSET Versions]
  /\ requests \in [Agents -> [Servers -> 0..(config.rows * MaxSteps)]]
  /\ \A a \in Agents : Len(sticky[a]) <= CacheSize
  /\ \A i \in Rows :
       /\ loops[i].at \in {"pending", "waiting", "tools", "interacting", "generating", "done"}
       /\ loops[i].at = "done" => Len(loops[i].mask) <= ResponseLength
       /\ loops[i].server \in Servers \cup {0}

\* The rows come back in the order in which they were given, although loops
\* finish in any order: the trainer joins them to its batch by position
\* (generate_sequences of AgentLoopWorker and of AgentLoopManager).
RowOrder == output /= << >> => output = [i \in Rows |-> i]

\* Every token of a rollout comes from the weights the trainer has then: on
\* every rank of the server, and through every prefix in its cache
\* (rollout_mode, generate_sequences with its note on issue 4147, sleep).
CurrentWeights == \A i \in Rows : loops[i].weights \subseteq {trained}

\* All turns of a conversation go to one server (AsyncLLMServerManager:
\* "Sticky session").
StickySessions == \A i \in Rows : Cardinality(loops[i].servers) <= 1

\* A worker gives its servers the same number of conversations, to within one
\* ("least requests load balancing", _choose_server).
BalancedRequests ==
  \A a \in Agents : \A s, t \in Servers : requests[a][s] <= requests[a][t] + 1

\* Where the turns of the conversations go: all those of one to one server, the
\* conversations evenly to the servers (_choose_server).
SessionsBalanced == StickySessions /\ BalancedRequests

\* A worker in trainer mode has no request under way at its server, and with
\* free_cache_engine its engine holds no memory (trainer_mode, replica sleep).
TrainerAlone ==
  \A w \in Workers : mode[w] = "trainer" =>
    /\ \A i \in Rows : ~(loops[i].at = "waiting" /\ loops[i].server = w[1])
    /\ config.free => engine[w] = [weights |-> Released, cache |-> FALSE]

\* The trainer never draws from a stream a rollout has drawn from, nor a
\* rollout from one of the trainer, and the tensor-parallel ranks of a server
\* agree when they sample (rollout_mode, trainer_mode).
StreamsKeptApart ==
  /\ driver = "training" => \A w \in Workers : device[w].sampler = 0
  /\ driver = "generating" => \A w, v \in Workers :
       device[w].trainer = 0 /\ (w[1] = v[1] => device[w] = device[v])

\* Trainer and engine share a device: memory, requests under way and random
\* numbers are with one of them at a time (rollout_mode, trainer_mode).
DeviceShared == TrainerAlone /\ StreamsKeptApart

\* Each row has one log-prob per token when they are asked for, that of the
\* sampler exactly where the mask says the model wrote the token (ToolAgentLoop).
TokensAligned ==
  \A i \in Rows :
    LET mask == loops[i].mask
        logprobs == loops[i].logprobs
    IN IF config.logprobs
       THEN /\ Len(logprobs) = Len(mask)
            /\ \A k \in 1..Len(mask) : (logprobs[k] = "sampled") <=> (mask[k] = 1)
       ELSE logprobs = << >>

\* A conversation with tools never ends on what a tool wrote, so that the
\* score, put on the last token, lands on one of the model's
\* (_handle_processing_tools_state, _postprocess).
ToolRowsEndWithModel ==
  \A i \in Rows : config.loop = "tool" /\ loops[i].at = "done" =>
    loops[i].mask /= << >> /\ loops[i].mask[Len(loops[i].mask)] = 1

\* What a loop leaves for the loss: every token with its mask and log-prob, and
\* a token of the model under the score (ToolAgentLoop, _postprocess).
RowsAligned == TokensAligned /\ ToolRowsEndWithModel

\* The rows of a rollout are those asked for, in that order, and each is whole.
RowsWhole == RowOrder /\ RowsAligned

\* A rollout that was begun ends, and the workers go back to training, unless
\* a loop raises (wake_up and sleep of all replicas, asyncio.gather).
RolloutEnds == driver = "waking" ~> driver \in {"training", "failed"}

=============================================================================
