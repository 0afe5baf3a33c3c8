------------------------------- MODULE Gossip -------------------------------
(***************************************************************************)
(* The way of a gossiped transaction into the mempool: the swarm loop of   *)
(* crates/nexus-network/src/service.rs, the deduplication of gossip.rs,    *)
(* and the receiving task and stop of crates/nexus-node/src/node.rs.       *)
(*                                                                         *)
(* The swarm loop awaits the send to the node, so a full channel stops the *)
(* loop, commands included.  The receiving task calls Mempool::add, which  *)
(* takes two locks in the opposite order of drain_batch and may block for  *)
(* ever.                                                                   *)
(***************************************************************************)
EXTENDS Integers, SequencesExt

CONSTANTS
    Message,
    Malformed,       \* data that is too large or cannot be decoded
    CacheSize,       \* max_size of the cache
    Ttl,
    ChannelSize,     \* the channel to the node
    CommandSize,     \* the command channel
    MaxTime          \* bound on the clock

VARIABLES
    seen,        \* MessageCache: when a message was marked, or Never
    loop,        \* "select", "stopped", or the message the loop waits to send
    channel,
    commands,
    received,    \* what the node's task has put into the mempool
    stuck,       \* the node's task is blocked in Mempool::add
    clock,
    accepted     \* history: when each message was last taken over

gossipVars == <<seen, loop, channel, commands, received, stuck, clock, accepted>>

Never == -1

Init ==
    /\ seen = [m \in Message |-> Never]
    /\ loop = "select"
    /\ channel = << >>
    /\ commands = << >>
    /\ received = {}
    /\ stuck = FALSE
    /\ clock = 0
    /\ accepted = [m \in Message |-> Never]

-----------------------------------------------------------------------------
Marked(S) == {m \in Message : S[m] # Never}

\* Mutant: a full cache is emptied of what is still fresh.
PruneFresh(S) == [m \in Message |-> IF clock - S[m] < Ttl THEN Never ELSE S[m]]

\* prune: only entries past their time to live go, so the cache may stay larger
\* than its size.
Prune(S) == [m \in Message |-> IF S[m] # Never /\ clock - S[m] < Ttl THEN S[m] ELSE Never]

\* mark_seen
MarkSeen(m) ==
    LET S == [seen EXCEPT ![m] = clock]
    IN IF Cardinality(Marked(S)) > CacheSize THEN Prune(S) ELSE S

\* handle_message of a message that was not seen: it is marked first and then
\* sent, which may have to wait.
HandleMessage(m) ==
    /\ loop = "select"
    /\ m \notin Malformed
    /\ seen[m] = Never
    /\ seen' = MarkSeen(m)
    /\ loop' = m
    /\ accepted' = [accepted EXCEPT ![m] = clock]
    /\ UNCHANGED <<channel, commands, received, stuck, clock>>

SendToNode ==
    /\ loop \in Message
    /\ Len(channel) < ChannelSize
    /\ channel' = Append(channel, loop)
    /\ loop' = "select"
    /\ UNCHANGED <<seen, commands, received, stuck, clock, accepted>>

\* A duplicate and malformed data change nothing.
IgnoreMessage(m) ==
    /\ loop = "select"
    /\ m \in Malformed \/ seen[m] # Never
    /\ UNCHANGED gossipVars

\* NetworkHandle::publish and shutdown wait for room in the command channel.
Command(c) ==
    /\ loop # "stopped"
    /\ Len(commands) < CommandSize
    /\ commands' = Append(commands, c)
    /\ UNCHANGED <<seen, loop, channel, received, stuck, clock, accepted>>

\* A handle whose loop is gone gets ChannelClosed.
CommandRefused == loop = "stopped" /\ UNCHANGED gossipVars

\* Mutant: break leaves the match and not the loop.
RunCommandStays ==
    /\ loop = "select"
    /\ commands # << >>
    /\ commands' = Tail(commands)
    /\ UNCHANGED <<seen, loop, channel, received, stuck, clock, accepted>>

\* The command branch of run_swarm: what is published leaves the node, a
\* shutdown drops the rest of the commands.
RunCommand ==
    /\ loop = "select"
    /\ commands # << >>
    /\ IF Head(commands) = "shutdown"
       THEN loop' = "stopped" /\ commands' = << >>
       ELSE commands' = Tail(commands) /\ UNCHANGED loop
    /\ UNCHANGED <<seen, channel, received, stuck, clock, accepted>>

\* The receiving task hands transactions to the mempool.
Receive ==
    /\ ~stuck
    /\ channel # << >>
    /\ received' = received \cup {Head(channel)}
    /\ channel' = Tail(channel)
    /\ UNCHANGED <<seen, loop, commands, stuck, clock, accepted>>

\* add and drain_batch each hold the lock the other waits for.
ReceiveBlocks ==
    /\ ~stuck
    /\ channel # << >>
    /\ stuck' = TRUE
    /\ channel' = Tail(channel)
    /\ UNCHANGED <<seen, loop, commands, received, clock, accepted>>

\* With both channels full and the task blocked, the loop and the handles wait
\* for room that never comes.
AllWait ==
    /\ stuck /\ loop \in Message
    /\ Len(channel) = ChannelSize /\ Len(commands) = CommandSize
    /\ UNCHANGED gossipVars

ClockTick == clock < MaxTime /\ clock' = clock + 1
             /\ UNCHANGED <<seen, loop, channel, commands, received, stuck, accepted>>

Next ==
    \/ \E m \in Message : HandleMessage(m) \/ IgnoreMessage(m)
    \/ SendToNode
    \/ \E c \in {"publish", "shutdown"} : Command(c)
    \/ CommandRefused
    \/ RunCommand
    \/ Receive \/ ReceiveBlocks \/ AllWait
    \/ ClockTick

\* The tasks keep running; select! picks its branch at random, so neither
\* branch that stays ready again and again is passed over for ever.  The
\* receiving task takes the next message, and may block on it.
Fairness ==
    /\ WF_gossipVars(SendToNode) /\ SF_gossipVars(RunCommand)
    /\ WF_gossipVars(Receive \/ ReceiveBlocks)

Spec == Init /\ [][Next]_gossipVars /\ Fairness

-----------------------------------------------------------------------------
(* Properties *)

\* The loop takes a message over again only when its time to live has passed,
\* whatever the cache had to give up in between: the node sees a transaction
\* once for every such period.
OncePerTtl ==
    [][\A m \in Message : loop' = m /\ loop # m /\ accepted[m] # Never =>
          clock - accepted[m] >= Ttl]_gossipVars

\* Everything the loop has taken over reaches the mempool, unless the receiving
\* task blocks in it.
TakenIsReceived == \A m \in Message : (loop = m) ~> (m \in received \/ stuck)

\* Once the node asks for a shutdown, the loop stops.  Only a receiving task
\* that is blocked can prevent it, and only when the channel in front of it is
\* full and the loop waits to send one more message.
ShutdownStops ==
    ("shutdown" \in ToSet(commands)) ~>
      (loop = "stopped" \/ (stuck /\ loop \in Message /\ Len(channel) = ChannelSize))

\* A full channel alone holds neither a message nor a shutdown up for ever
\* (handle_message, run_swarm).
LoopProgresses == TakenIsReceived /\ ShutdownStops
=============================================================================
