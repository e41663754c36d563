----------------------------- MODULE PoolAgents -----------------------------
(***************************************************************************)
(* node/agents.ts and utils/connection-pool.ts: the keep-alive agents, the *)
(* registry of those that have to be destroyed, which all the clients of a *)
(* process share, and the pair that an axios instance was given. Agents    *)
(* are numbered as they are made. destroy of a Node agent closes its       *)
(* sockets, does not throw, and does not keep the agent from opening new   *)
(* ones.                                                                   *)
(***************************************************************************)
EXTENDS Naturals

CONSTANTS Instance, \* bound: the axios instances
          MaxAgents \* bound: the agents that are made

ASSUME PoolAssumption == MaxAgents \in Nat

VARIABLES
  agents,      \* how many were made
  own,         \* those the application made itself
  agentPair,   \* configuredAgents, and the defaults of the instance: {} before
  activePools, \* the registry
  sockets,     \* the agents that have sockets open
  revived      \* history: those that were used again after they had been destroyed

poolVars == <<agents, own, agentPair, activePools, sockets, revived>>

Agent == 1 .. MaxAgents

PoolTypeOK ==
  /\ agents \in 0 .. MaxAgents /\ own \subseteq Agent /\ agentPair \in [Instance -> SUBSET Agent]
  /\ activePools \subseteq Agent /\ sockets \subseteq Agent /\ revived \subseteq Agent

PoolInit == /\ agents = 0 /\ own = {} /\ agentPair = [i \in Instance |-> {}]
            /\ activePools = {} /\ sockets = {} /\ revived = {}

InUse == own \cup UNION {agentPair[i] : i \in Instance}

-----------------------------------------------------------------------------
\* createHttpAgent and createHttpsAgent
createAgent == /\ agents < MaxAgents /\ agents' = agents + 1
               /\ own' = own \cup {agents'} /\ activePools' = activePools \cup {agents'}
               /\ UNCHANGED <<agentPair, sockets, revived>>

\* configureAxiosConnectionPool: the pair the instance had is destroyed and unregistered.
configureAxiosConnectionPool(i) ==
  LET new == {agents + 1, agents + 2} IN
  /\ agents + 2 <= MaxAgents /\ agents' = agents + 2
  /\ activePools' = (activePools \ agentPair[i]) \cup new
  /\ sockets' = sockets \ agentPair[i]
  /\ agentPair' = [agentPair EXCEPT ![i] = new]
  /\ UNCHANGED <<own, revived>>

\* destroyPoolAgent, which may be called for the agents of an instance, too.
destroyPoolAgent(a) == /\ a \in InUse
                       /\ activePools' = activePools \ {a} /\ sockets' = sockets \ {a}
                       /\ UNCHANGED <<agents, own, agentPair, revived>>

\* destroyAllPoolAgents, by disconnect of any client.
destroyAllPoolAgents == /\ activePools' = {} /\ sockets' = sockets \ activePools
                        /\ UNCHANGED <<agents, own, agentPair, revived>>

\* A request opens a socket; the peer closes idle ones.
OpenSocket(a) == /\ a \in InUse \ sockets /\ sockets' = sockets \cup {a}
                 /\ revived' = IF a \in activePools THEN revived ELSE revived \cup {a}
                 /\ UNCHANGED <<agents, own, agentPair, activePools>>

CloseSocket(a) == /\ a \in sockets /\ sockets' = sockets \ {a}
                  /\ UNCHANGED <<agents, own, agentPair, activePools, revived>>

PoolNext == \/ createAgent \/ destroyAllPoolAgents
            \/ \E i \in Instance : configureAxiosConnectionPool(i)
            \/ \E a \in Agent : destroyPoolAgent(a) \/ OpenSocket(a) \/ CloseSocket(a)

PoolSpec == PoolInit /\ [][PoolNext]_poolVars

-----------------------------------------------------------------------------
\* Open sockets are closed by the next disconnect, unless their agent was used after it
\* had been destroyed; and whatever is replaced by a new configuration has none and is
\* not kept in the registry (tests/connection-pool-registration.test.ts).
PoolsAreTracked == /\ sockets \subseteq activePools \cup revived
                   /\ activePools \cup sockets \subseteq InUse

=============================================================================
