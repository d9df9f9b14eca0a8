------------------------------- MODULE Agents -------------------------------
(***************************************************************************)
(* One query over remote agents: CSphRemoteAgentsController with its       *)
(* ThdWorkPool_t, RemoteConnectToAgent, RemoteQueryAgents (epoll) and      *)
(* RemoteWaitForAgents (epoll) of src/src/searchd.cpp, as                  *)
(* SearchHandler_c::RunSubset calls them.                                  *)
(*                                                                         *)
(* Worker threads connect to the agents and send the query; a connection   *)
(* that could not be made is tried again.  Meanwhile the thread of the     *)
(* session waits for agents that are done, reads their replies and merges  *)
(* them.  With one worker thread there is one work about all agents, with  *)
(* more there is a work about each.  Both sides change the states of the   *)
(* agents without a lock.                                                  *)
(*                                                                         *)
(* What an agent and the network do is a choice at the step that sees it;  *)
(* a time limit may pass at any step that looks at it.                     *)
(***************************************************************************)
EXTENDS Integers, Sequences, SequencesExt, AgentPool

CONSTANTS
  N,             \* number of agents
  Persistent,    \* agents with persistent connections
  Blackhole,     \* agents whose replies are not waited for
  HostOf,        \* the host of every agent
  DistThreads,   \* values of dist_threads considered
  RetriesMax,    \* m_iRetriesMax
  Delay,         \* m_iDelay, as a truth value
  LateWait,      \* may a thread be held up, before it waits for a retry, until its time has come?
  LateMark,      \* may one be held up between a look at an agent's state and its change?
  LateBody,      \* may a reply stop in the middle until the time is up?
  ReserveLimit   \* agents that dAgents holds before Reserve copies it

Agent == 1..N
State == {"UNUSED", "CONNECTING", "HANDSHAKE", "ESTABLISHED", "QUERYED", "PREREPLY", "REPLY", "RETRY"}

ASSUME AgentsAssumption ==
  /\ N \in Nat \ {0} /\ Persistent \subseteq Agent /\ Blackhole \subseteq Agent
  /\ HostOf \in [Agent -> Host]
  /\ DistThreads \subseteq Nat /\ RetriesMax \in Nat /\ ReserveLimit \in Nat
  /\ {Delay, LateWait, LateMark, LateBody} \subseteq BOOLEAN

VARIABLES
  agent,   \* dAgents: m_eState, m_iSock, m_bPersistent, m_bSuccess, is there an m_sFailure?
  queue,   \* the works that wait for a thread
  works,   \* m_iWorksCount
  ready,   \* m_iAgentsDone
  event,   \* m_bSent of m_tChanged
  worker,  \* the threads: program point and work
  main,    \* the thread of the session
  merged,  \* history: how often the results of every agent were merged
  failures \* the agents reported in m_dFailuresSet

poolSide == <<queue, works, ready, event, worker>>
mainSide == <<main, merged, failures>>
vars == <<poolVars, agent, poolSide, mainSide>>

-----------------------------------------------------------------------------
(* An agent's connection. *)

NoSock == -1
Unused(a) == [state |-> "UNUSED", sock |-> NoSock, pers |-> a \in Persistent,
              success |-> FALSE, failure |-> FALSE]

\* AgentConn_t::Close: what it leaves, and what it closes.
ClosesSock(r, persist) == r.sock # NoSock /\ (persist \/ ~r.pers)
Closed(r, persist) ==
  IF r.sock = NoSock THEN r
  ELSE [r EXCEPT !.sock = IF ClosesSock(r, persist) THEN NoSock ELSE @,
                 !.state = IF @ = "RETRY" THEN @ ELSE "UNUSED"]

\* AgentConn_t::Fail.
Failed(r) == [Closed(r, TRUE) EXCEPT !.failure = TRUE]
Retry(r)  == [Failed(r) EXCEPT !.state = "RETRY"]

\* Mutant: the socket is forgotten and stays open.
Becomes_KeepsOpen(a, r) ==
  agent' = [agent EXCEPT ![a] = r] /\ UNCHANGED <<open, unread>>

\* The agent a becomes r; a socket it no longer has is closed.
Becomes(a, r) ==
  /\ agent' = [agent EXCEPT ![a] = r]
  /\ CloseFds(IF r.sock = agent[a].sock THEN {} ELSE {agent[a].sock})

-----------------------------------------------------------------------------
(* The works and the threads (PoolThreadFunc). *)

Work    == [agents |-> {}, fn |-> "none", retries |-> 0, late |-> FALSE, done |-> 0]
Started == [pc |-> "pop", work |-> Work, spin |-> 0, todo |-> {}, sent |-> 0]

\* Mutant: only an agent that is done is announced.
Announces_DoneOnly(c) == c.done > 0

\* A work that is finished, or has agents done, is counted and announced.
Announces(c) == c.done > 0 \/ c.fn = "none"

\* The function of the work c has returned: a thread calls it once more, then leaves it
\* to the others.
Returned(w, c) ==
  /\ worker' = [worker EXCEPT ![w] =
       IF c.fn = "none" \/ @.spin = 1 THEN Started
       ELSE [Started EXCEPT !.pc = "run", !.work = c, !.spin = 1]]
  /\ queue' = IF c.fn # "none" /\ worker[w].spin = 1 THEN Append(queue, c) ELSE queue
  /\ ready' = ready + c.done
  /\ works' = IF c.fn = "none" THEN works - 1 ELSE works
  /\ event' = (event \/ Announces(c))

Pop(w) ==
  /\ worker[w].pc = "pop"
  /\ IF queue = <<>>
     THEN worker' = [worker EXCEPT ![w].pc = "exit"] /\ UNCHANGED queue
     ELSE /\ worker' = [worker EXCEPT ![w].pc = "run", ![w].work = Head(queue)]
          /\ queue' = Tail(queue)
  /\ UNCHANGED <<poolVars, agent, works, ready, event, mainSide>>

\* ThdWorkWait: before its time has come the work goes on, after that it waits.
RunWait(w) ==
  /\ worker[w].pc = "run" /\ worker[w].work.fn = "wait"
  /\ LET c == worker[w].work IN \E late \in {c.late, c.late \/ LateWait} :
       Returned(w, [c EXCEPT !.late = late, !.fn = IF late THEN "wait" ELSE "parallel"])
  /\ UNCHANGED <<poolVars, agent, mainSide>>

\* ThdWorkParallel, ThdWorkSequental: the agents to connect to.
RunConnect(w) ==
  /\ worker[w].pc = "run" /\ worker[w].work.fn # "wait"
  /\ LET c == worker[w].work IN
       worker' = [worker EXCEPT ![w].pc = "connect", ![w].sent = 0,
         ![w].todo = IF c.fn = "parallel" \/ c.retries = 0 THEN c.agents
                     ELSE {a \in c.agents : agent[a].state = "RETRY"}]
  /\ UNCHANGED <<poolVars, agent, queue, works, ready, event, mainSide>>

\* RemoteConnectToAgent, for one agent after the other in the order of dAgents: a connection
\* that is there and alive is used, or a new one made.
Connect(w) ==
  /\ worker[w].pc = "connect" /\ worker[w].todo # {}
  /\ LET a == Min(worker[w].todo)
         r == [agent[a] EXCEPT !.state = "UNUSED"]
         fresh == [Closed(r, TRUE) EXCEPT !.success = FALSE]
         free  == Fd \ (open \ {r.sock})
         New(state) == [fresh EXCEPT !.sock = Min(free), !.state = state]
     IN \/ r.sock # NoSock /\ Becomes(a, [r EXCEPT !.state = "ESTABLISHED"])
        \/ Becomes(a, [fresh EXCEPT !.failure = TRUE])
        \/ Becomes(a, Retry(fresh))
        \/ /\ free # {}
           /\ \E state \in {"CONNECTING", "HANDSHAKE"} :
                /\ agent' = [agent EXCEPT ![a] = New(state)]
                /\ open' = (open \ {r.sock}) \cup {New(state).sock}
                /\ unread' = unread \ {r.sock}
  /\ worker' = [worker EXCEPT ![w].todo = @ \ {Min(@)}]
  /\ UNCHANGED <<conns, other, leaked, queue, works, ready, event, mainSide>>

\* SetNextRetry, for a work about one agent: the work that is next.
MayRetry(c) == RetriesMax > 0 /\ Delay /\ c.retries <= RetriesMax
NextRetry(c) ==
  IF MayRetry(c) THEN [c EXCEPT !.fn = "wait", !.retries = @ + 1, !.late = FALSE]
  ELSE [c EXCEPT !.fn = "none"]

\* An agent without even a socket is left to SetNextRetry at once.
Connected(w) ==
  /\ worker[w].pc = "connect" /\ worker[w].todo = {}
  /\ LET c   == worker[w].work
         one == Min(c.agents) IN
     IF c.fn = "parallel" /\ agent[one].state = "UNUSED"
     THEN /\ agent' = [agent EXCEPT ![one].state = IF MayRetry(c) THEN "RETRY" ELSE "UNUSED"]
          /\ Returned(w, NextRetry(c))
     ELSE /\ worker' = [worker EXCEPT ![w].pc = "query"]
          /\ UNCHANGED <<agent, queue, works, ready, event>>
  /\ UNCHANGED <<poolVars, mainSide>>

-----------------------------------------------------------------------------
(* RemoteQueryAgents. *)

Initial == {"CONNECTING", "HANDSHAKE", "ESTABLISHED"}
InWork(w) == worker[w].work.agents
Busy(w) == {a \in InWork(w) : agent[a].state \in Initial}

\* An event on the socket of an agent that has not been sent the query.
QueryEvent(w) ==
  /\ worker[w].pc = "query"
  /\ \E a \in Busy(w) : LET r == agent[a] IN
       \/ /\ r.state = "CONNECTING"
          /\ \/ Becomes(a, Failed(r))
             \/ Becomes(a, [r EXCEPT !.state = "HANDSHAKE"])
       \/ /\ r.state = "HANDSHAKE"
          /\ \/ Becomes(a, Failed(r))
             \/ Becomes(a, Retry(r))
             \/ Becomes(a, [r EXCEPT !.state = "ESTABLISHED"])
  /\ UNCHANGED <<conns, other, leaked, poolSide, mainSide>>

QuerySend(w) ==
  /\ worker[w].pc = "query"
  /\ \E a \in Busy(w) :
       /\ agent[a].state = "ESTABLISHED"
       /\ agent' = [agent EXCEPT ![a].state = "QUERYED"]
       /\ unread' = unread \cup {agent[a].sock}
  /\ worker' = [worker EXCEPT ![w].sent = @ + 1]
  /\ UNCHANGED <<conns, open, other, leaked, queue, works, ready, event, mainSide>>

\* A reply comes while others are still to be asked.
QuerySees(w) ==
  /\ worker[w].pc = "query" /\ Busy(w) # {}
  /\ \E a \in InWork(w) :
       /\ agent[a].state = "QUERYED"
       /\ worker' = [worker EXCEPT ![w].pc = "mark", ![w].todo = {a}]
  /\ UNCHANGED <<poolVars, agent, queue, works, ready, event, mainSide>>

QueryMarks(w) ==
  /\ worker[w].pc = "mark"
  /\ agent' = [agent EXCEPT ![Min(worker[w].todo)].state = "PREREPLY"]
  /\ worker' = [worker EXCEPT ![w].pc = "query", ![w].todo = {}]
  /\ UNCHANGED <<poolVars, queue, works, ready, event, mainSide>>

\* The end of RemoteQueryAgents, and of the function that called it.
QueryDone(w) ==
  /\ worker[w].pc = "query"
  /\ LET late == Busy(w)
         left == [a \in Agent |-> IF a \in late THEN Retry(agent[a]) ELSE agent[a]]
         c    == worker[w].work
         again == \E a \in InWork(w) : left[a].state = "RETRY"
         one  == Min(c.agents)
     IN /\ IF c.fn = "parallel"
           THEN IF again
                THEN /\ agent' = [left EXCEPT ![one].state = IF MayRetry(c) THEN "RETRY" ELSE "UNUSED"]
                     /\ Returned(w, NextRetry(c))
                ELSE agent' = left /\ Returned(w, [c EXCEPT !.fn = "none", !.done = 1])
           ELSE /\ agent' = left
                /\ LET tries == c.retries + IF again THEN 1 ELSE 0 IN
                   Returned(w, [c EXCEPT !.done = @ + worker[w].sent, !.retries = tries,
                     !.fn = IF again /\ RetriesMax > 0 /\ tries <= RetriesMax THEN "sequential" ELSE "none"])
        /\ CloseFds({agent[a].sock : a \in late})
  /\ UNCHANGED <<conns, other, leaked, mainSide>>

WorkerStep(w) ==
  \/ Pop(w) \/ RunWait(w) \/ RunConnect(w) \/ Connect(w) \/ Connected(w)
  \/ QueryEvent(w) \/ QuerySend(w) \/ QuerySees(w) \/ QueryMarks(w) \/ QueryDone(w)

-----------------------------------------------------------------------------
(* The thread of the session: RunSubset. *)

\* dAgents is copied when it grows, and the old copies return what they have rented.
Grown(k) ==
  LET Give(c, a) == IF agent[a].pers THEN AfterReturn(c, HostOf[a], agent[a].sock) ELSE c
  IN IF k = ReserveLimit + 1 THEN FoldLeft(Give, conns, [a \in 1..k - 1 |-> a]) ELSE conns

TakeTraits ==
  /\ main.pc = "take" /\ main.next <= N
  /\ LET a == main.next
         c == Grown(a)
         s == Rented(c, HostOf[a])
     IN IF a \notin Persistent
        THEN UNCHANGED agent /\ conns' = c
        ELSE /\ agent' = [agent EXCEPT ![a].pers = s # NoSlot, ![a].sock = IF s = NoSlot THEN NoSock ELSE s]
             /\ conns' = AfterRent(c, HostOf[a])
  /\ main' = [main EXCEPT !.next = @ + 1]
  /\ UNCHANGED <<open, unread, other, leaked, poolSide, merged, failures>>

\* The constructor of CSphRemoteAgentsController.
StartController ==
  /\ main.pc = "take" /\ main.next > N
  /\ \E t \in DistThreads :
       IF t > 1 /\ N > 1
       THEN /\ works' = N
            /\ queue' = [a \in Agent |-> [Work EXCEPT !.agents = {a}, !.fn = "parallel"]]
            /\ worker' = [w \in Agent |-> IF w <= t THEN Started ELSE [Started EXCEPT !.pc = "exit"]]
       ELSE /\ works' = 1
            /\ queue' = <<[Work EXCEPT !.agents = Agent, !.fn = "sequential"]>>
            /\ worker' = [w \in Agent |-> IF w = 1 THEN Started ELSE [Started EXCEPT !.pc = "exit"]]
  /\ main' = [main EXCEPT !.pc = "wait"]
  /\ UNCHANGED <<poolVars, agent, ready, event, merged, failures>>

WaitAgentsEvent ==
  /\ main.pc = "wait" /\ event
  /\ event' = FALSE
  /\ main' = [main EXCEPT !.pc = "isdone"]
  /\ UNCHANGED <<poolVars, agent, queue, works, ready, worker, merged, failures>>

\* pthread_cond_wait may return without a signal, and WaitEvent does not wait again.
SpuriousWakeup ==
  /\ main.pc = "wait" /\ ~event /\ \A w \in Agent : worker[w].pc # "mark"
  /\ main' = [main EXCEPT !.pc = "isdone"]
  /\ UNCHANGED <<poolVars, agent, poolSide, merged, failures>>

IsDone ==
  /\ main.pc = "isdone"
  /\ main' = [main EXCEPT !.pc = "ready", !.done = works = 0]
  /\ UNCHANGED <<poolVars, agent, poolSide, merged, failures>>

AfterRound == IF main.done THEN "drop" ELSE "wait"

HasReadyAgents ==
  /\ main.pc = "ready"
  /\ main' = [main EXCEPT !.pc = IF ready > main.reported THEN "scan" ELSE AfterRound,
                          !.reported = ready, !.reg = {}]
  /\ UNCHANGED <<poolVars, agent, poolSide, merged, failures>>

\* RemoteWaitForAgents watches the agents it finds when it has none left.
Answering == {"QUERYED", "PREREPLY", "REPLY"}
Scan ==
  /\ main.pc = "scan"
  /\ LET found == {a \in Agent \ Blackhole : agent[a].state \in Answering} IN
       main' = [main EXCEPT !.pc = IF found = {} THEN "close" ELSE "poll", !.reg = found]
  /\ UNCHANGED <<poolVars, agent, poolSide, merged, failures>>

\* A reply that stops in the middle keeps the agent in REPLY.
PollTimeout ==
  /\ main.pc = "poll"
  /\ LateBody \/ \A a \in Agent : agent[a].state # "REPLY"
  /\ main' = [main EXCEPT !.pc = "close"]
  /\ UNCHANGED <<poolVars, agent, poolSide, merged, failures>>

\* The agent a is done with, for this round.
Unwatch(a) == [main EXCEPT !.reg = @ \ {a}, !.pc = IF main.reg = {a} THEN "scan" ELSE "poll"]

ReplyHeader(a) ==
  /\ main.pc = "poll" /\ a \in main.reg /\ agent[a].state \in {"QUERYED", "PREREPLY"}
  /\ \/ Becomes(a, Failed(agent[a])) /\ main' = Unwatch(a)
     \/ Becomes(a, [agent[a] EXCEPT !.state = "REPLY"]) /\ main' = [main EXCEPT !.pc = "body", !.cur = a]
  /\ UNCHANGED <<conns, other, leaked, poolSide, merged, failures>>

\* The part of the reply that came with the header; the worker may have changed the state.
ReplyPart ==
  /\ main.pc = "body"
  /\ main' = [main EXCEPT !.pc = "poll"]
  /\ UNCHANGED <<poolVars, agent, poolSide, merged, failures>>

\* The rest of it: the results, an error, or SEARCHD_RETRY.
ReplyBody(a) ==
  /\ \/ main.pc = "body" /\ main.cur = a
     \/ main.pc = "poll" /\ a \in main.reg
  /\ agent[a].state = "REPLY"
  /\ \/ /\ agent' = [agent EXCEPT ![a] = [Closed(@, FALSE) EXCEPT !.success = TRUE, !.failure = FALSE]]
        /\ open' = IF agent[a].pers THEN open ELSE open \ {agent[a].sock}
        /\ unread' = unread \ {agent[a].sock}
     \/ Becomes(a, Failed(agent[a]))
     \/ Becomes(a, Retry(agent[a]))
  /\ main' = Unwatch(a)
  /\ UNCHANGED <<conns, other, leaked, poolSide, merged, failures>>

\* Mutant: an agent whose reply was noticed while others were asked is forgotten.
TimedOut_QueryedOnly(a) == a \notin Blackhole /\ agent[a].state = "QUERYED"

TimedOut(a) == a \notin Blackhole /\ agent[a].state \in {"QUERYED", "PREREPLY"}

\* Mutant: the results are merged once more in the next round.
Dismissed_KeepsSuccess(r) == [r EXCEPT !.failure = FALSE]

\* An agent whose results have been merged.
Dismissed(r) == [r EXCEPT !.success = FALSE, !.failure = FALSE]

\* The end of RemoteWaitForAgents, and the merge of the results it has got.
CloseTimedOut ==
  /\ main.pc = "close"
  /\ LET left(a) == IF a \in Blackhole THEN Closed(agent[a], TRUE)
                    ELSE IF TimedOut(a) THEN Failed(agent[a]) ELSE agent[a]
         got == {a \in Agent : agent[a].success}
     IN /\ agent' = [a \in Agent |-> IF a \in got THEN Dismissed(agent[a]) ELSE left(a)]
        /\ CloseFds({agent[a].sock : a \in {b \in Agent : left(b).sock # agent[b].sock}})
        /\ merged' = [a \in Agent |-> merged[a] + IF a \in got THEN 1 ELSE 0]
  /\ main' = [main EXCEPT !.pc = AfterRound]
  /\ UNCHANGED <<conns, other, leaked, poolSide, failures>>

\* The failures are reported; the threads are joined; the destructors of the agents run.
DropAgents ==
  /\ main.pc = "drop" /\ \A w \in Agent : worker[w].pc = "exit"
  /\ failures' = {a \in Agent : agent[a].failure}
  /\ main' = [main EXCEPT !.pc = "return", !.next = 1]
  /\ UNCHANGED <<poolVars, agent, poolSide, merged>>

ReturnConnection ==
  /\ main.pc = "return" /\ main.next <= N
  /\ LET a == main.next
         r == agent[a]
     IN /\ agent' = [agent EXCEPT ![a].sock = NoSock, ![a].pers = FALSE]
        /\ IF r.pers
           THEN conns' = AfterReturn(conns, HostOf[a], r.sock) /\ CloseFds(ReturnCloses(conns, HostOf[a], r.sock))
           ELSE UNCHANGED conns /\ CloseFds({r.sock})
  /\ main' = [main EXCEPT !.next = @ + 1, !.pc = IF main.next = N THEN "end" ELSE @]
  /\ UNCHANGED <<other, leaked, poolSide, merged, failures>>

MainStep ==
  /\ LateMark \/ \A w \in Agent : worker[w].pc # "mark"
  /\ \/ TakeTraits \/ StartController \/ WaitAgentsEvent \/ IsDone \/ HasReadyAgents
     \/ Scan \/ PollTimeout \/ ReplyPart \/ CloseTimedOut \/ DropAgents \/ ReturnConnection
     \/ \E a \in Agent : ReplyHeader(a) \/ ReplyBody(a)

-----------------------------------------------------------------------------
PoolStep ==
  /\ \/ OtherRent \/ OtherConnect \/ OtherReturn
     \/ (ReloadBusy \/ (other = NobodyRents /\ main.pc = "end")) /\ InitPersistentPool
  /\ UNCHANGED <<agent, poolSide, mainSide>>

Init ==
  /\ PoolInit
  /\ agent = [a \in Agent |-> Unused(a)]
  /\ queue = <<>> /\ works = 0 /\ ready = 0 /\ event = FALSE
  /\ worker = [w \in Agent |-> [Started EXCEPT !.pc = "exit"]]
  /\ main = [pc |-> "take", next |-> 1, done |-> FALSE, reported |-> 0, reg |-> {}, cur |-> 1]
  /\ merged = [a \in Agent |-> 0] /\ failures = {}

Next == MainStep \/ SpuriousWakeup \/ (\E w \in Agent : WorkerStep(w)) \/ PoolStep
Spec == Init /\ [][Next]_vars

\* The session runs, and so does some worker: sockets become ready or time passes.
FairSpec == Spec /\ WF_vars(MainStep) /\ WF_vars(\E w \in Agent : WorkerStep(w))

-----------------------------------------------------------------------------
(* Properties *)

TypeOK ==
  /\ PoolTypeOK
  /\ agent \in [Agent -> [state : State, sock : Fd \cup {NoSock}, pers : BOOLEAN,
                          success : BOOLEAN, failure : BOOLEAN]]
  /\ works \in 0..N /\ ready \in Nat /\ event \in BOOLEAN /\ Len(queue) <= N
  /\ main.reg \subseteq Agent \ Blackhole /\ merged \in [Agent -> 0..1]

\* The connections that somebody has: the pool, an agent of the query, or the other query.
Owned == Pooled \cup (({agent[a].sock : a \in Agent} \cup {other.sock}) \ {NoSock, NoSlot})

\* A connection is the query's, another query's or in the pool, never two of them, and none
\* is lost: every open descriptor is owned, belongs to something else, or is one that a
\* reload of the config has left open (ResetCloses), which nobody uses any more.  What is
\* owned is open, and a connection in the pool has no part of a reply left to read.
PoolClean ==
  /\ open = OtherFd \cup Owned \cup leaked
  /\ leaked \cap (Owned \cup OtherFd) = {}
  /\ Pooled \subseteq open /\ Pooled \cap unread = {}
  /\ \A i, j \in Slots : i # j => conns[i] # conns[j] \/ conns[i] = -1
  /\ \A a \in Agent : agent[a].sock # NoSock =>
       /\ agent[a].sock \in open \ (Pooled \cup OtherFd) /\ agent[a].sock # other.sock
       /\ \A b \in Agent \ {a} : agent[b].sock # agent[a].sock
  /\ other.sock >= 0 => other.sock \in open \ (Pooled \cup OtherFd)
  /\ OtherFd \subseteq open

\* At the end every agent that is waited for has either given its results, once, or is
\* reported.
AgentsAccounted ==
  main.pc = "end" => \A a \in Agent \ Blackhole : merged[a] = IF a \in failures THEN 0 ELSE 1

\* The query ends, whatever the agents do.
QueryEnds == <>(main.pc = "end")

\* "On temporary failures searchd will attempt up to $count retries per agent."
RetriesBounded == \A w \in Agent : worker[w].pc = "connect" => worker[w].work.retries <= RetriesMax

\* "$delay is the delay between the retries, in milliseconds."
RetryAfterDelay ==
  \A w \in Agent : LET c == worker[w].work IN
    worker[w].pc = "connect" /\ c.fn = "parallel" /\ c.retries > 0 => c.late

\* "Currently, the list of temporary failures includes all kinds of connect() failures and
\* maxed out (too busy) remote agents": a connection that is refused is tried again.
RefusedIsRetried ==
  [][\A a \in Agent : agent[a].state = "CONNECTING" => agent'[a].state # "UNUSED"]_vars

\* Only an agent that was watched to the end of the time limit is timed out.
TimedOutWasWatched ==
  [][CloseTimedOut => \A a \in Agent : TimedOut(a) => a \in main.reg]_vars

\* The session does not touch an agent that a thread is still connecting to.
ConnectingIsLeftAlone ==
  [][MainStep => \A a \in Agent : agent[a].state \in Initial => agent'[a] = agent[a]]_vars
=============================================================================
