----------------------------- MODULE ClientCalls -----------------------------
(***************************************************************************)
(* client.ts, and the calls the SDK makes to a node through it: connect,   *)
(* getBalance with its cache, getAccountInfo (stellar/account.ts),         *)
(* invokeContract for an application that signs, for createEscrow and for  *)
(* cancelEscrow, readContractState and simulateContractCall. Meanwhile the *)
(* application may switch the network or disconnect.                       *)
(*                                                                         *)
(* Every request runs under withTransientRetry: a transient failure, a     *)
(* deadline included, is repeated after a pause. A call that names an      *)
(* unknown account fails before its first request and is left out.         *)
(***************************************************************************)
EXTENDS Naturals, Calls

CONSTANTS ClientCall, \* bound: the calls made through the client
          Network,
          CacheKey, \* an address, for one account or for none (balanceCacheKey)
          MaxTries  \* attempts of the retry policy

ASSUME ClientAssumption == None \notin Network \cup CacheKey /\ MaxTries \in Nat \ {0}

VARIABLES
  network,   \* network; the Horizon server is always one of it
  soroban,   \* the network whose Soroban server is kept, None before the first use
  connected, \* _connected,
  checked,   \* history: the networks whose servers the connect that set it had asked, {}
             \* after a switch overtook that connect
  cache,     \* cache[k]: the network the cached balance is of, None without one
  call,      \* call[c]: what call c does, where it stands, and what it has captured
  tainted,   \* history: a balance that a switch overtook was cached since that switch
  away       \* history: disconnected with no connect open, and not asked to connect since

clientHistory == <<tainted, away>>
clientVars == <<network, soroban, connected, checked, cache, call, clientHistory>>

Kind == {"connect", "balance", "info", "invoke", "create", "cancel", "read"}

Fresh == [pc |-> "idle", kind |-> "read", stage |-> "none", key |-> None, on |-> None,
          via |-> None, tries |-> 0, rounds |-> 0, requests |-> 0, moved |-> FALSE]

\* A call that has ended, with a result or an error.
Over(pc) == [Fresh EXCEPT !.pc = pc]

ClientTypeOK ==
  /\ network \in Network /\ soroban \in Network \cup {None}
  /\ connected \in BOOLEAN /\ checked \subseteq Network
  /\ cache \in [CacheKey -> Network \cup {None}]
  /\ call \in [ClientCall -> [pc : {"idle", "sent", "paused", "signing", "returned", "failed"},
                        kind : Kind,
                        stage : {"none", "ledgers", "health", "load", "info", "account", "simulate"},
                        key : CacheKey \cup {None},
                        on : Network \cup {None}, \* where the last request went
                        via : Network \cup {None}, \* where the ledgers were asked for; the
                                                   \* network of the transaction's passphrase
                        tries : 0 .. MaxTries, rounds : 0 .. MaxTries, requests : Nat,
                        moved : BOOLEAN]]          \* history: a switch overtook the call
  /\ tainted \in BOOLEAN /\ away \in BOOLEAN

ClientInit ==
  /\ network \in Network /\ soroban = None /\ connected = FALSE /\ checked = {}
  /\ cache = [k \in CacheKey |-> None] /\ call = [c \in ClientCall |-> Fresh]
  /\ tainted = FALSE /\ away = FALSE

Pending == {c \in ClientCall : call[c].pc \in {"sent", "paused"}}

-----------------------------------------------------------------------------
(* Requests.                                                               *)

\* getServer is asked for every attempt, and so is getSorobanServer for a health check;
\* a contract call keeps the server that it began with, and a round of getAccountInfo
\* the URL.
KeepsServer(r) == r.stage \in {"account", "simulate"} \/ (r.stage = "info" /\ r.tries < MaxTries)

\* getSorobanServer makes the server at its first use.
SorobanUsed(uses) == soroban' = IF uses /\ soroban = None THEN network ELSE soroban

Server(r) == IF KeepsServer(r) THEN r.on
             ELSE IF r.stage = "health" /\ soroban # None THEN soroban ELSE network

\* The first attempt of a stage.
Sent(r) == [r EXCEPT !.pc = "sent", !.on = Server(r), !.tries = MaxTries, !.requests = r.requests + 1]

Retry(c) ==
  /\ call[c].pc = "paused"
  /\ call' = [call EXCEPT ![c].pc = "sent", ![c].on = Server(call[c]), ![c].requests = @ + 1]
  /\ SorobanUsed(call[c].stage = "health")
  /\ UNCHANGED <<network, connected, checked, cache, clientHistory>>

\* A call throws; a connect that throws resets the flag, whoever has set it. The flag of
\* cancelEscrow's and invokeContract's result stands for their throwing.
Throws(c) ==
  /\ call' = [call EXCEPT ![c] = Over("failed")]
  /\ IF call[c].kind = "connect" THEN connected' = FALSE /\ checked' = {}
     ELSE UNCHANGED <<connected, checked>>

\* createEscrow makes its escrow whatever became of the invocation, whose result it drops.
InvocationFails(c) ==
  /\ call' = [call EXCEPT ![c] = Over(IF call[c].kind = "create" THEN "returned" ELSE "failed")]
  /\ UNCHANGED <<connected, checked>>

CallFails(c) == IF call[c].kind \in {"invoke", "create", "cancel"} THEN InvocationFails(c) ELSE Throws(c)

\* fetchAccountInfo has retries of its own, inside of those of getAccountInfo.
NextRound(c) == call' = [call EXCEPT ![c].pc = "paused", ![c].rounds = @ - 1, ![c].tries = MaxTries]

RequestFails(c, transient) ==
  LET r == call[c] IN
  /\ r.pc = "sent"
  /\ IF transient /\ r.tries > 1
     THEN call' = [call EXCEPT ![c].pc = "paused", ![c].tries = @ - 1] /\ UNCHANGED <<connected, checked>>
     ELSE IF transient /\ r.stage = "info" /\ r.rounds > 1
     THEN NextRound(c) /\ UNCHANGED <<connected, checked>>
     ELSE CallFails(c)
  /\ UNCHANGED <<network, soroban, cache, clientHistory>>

-----------------------------------------------------------------------------
(* connect, switchNetwork and disconnect.                                  *)

\* Calls differ in name only: they are taken in a fixed order.
IsNext(c) == call[c].pc = "idle" /\ c = CHOOSE d \in ClientCall : call[d].pc = "idle"

Opens(c, kind, stage, key) ==
  /\ IsNext(c)
  /\ call' = [call EXCEPT ![c] = Sent([Fresh EXCEPT !.kind = kind, !.stage = stage, !.key = key,
                                                    !.on = network, !.rounds = MaxTries])]

Connect(c) ==
  /\ Opens(c, "connect", "ledgers", None) /\ away' = FALSE
  /\ UNCHANGED <<network, soroban, connected, checked, cache, tainted>>

LedgersAnswered(c) ==
  /\ call[c].pc = "sent" /\ call[c].stage = "ledgers"
  /\ call' = [call EXCEPT ![c] = Sent([@ EXCEPT !.stage = "health", !.via = call[c].on])]
  /\ SorobanUsed(TRUE) /\ UNCHANGED <<network, connected, checked, cache, clientHistory>>

\* A node that is not healthy is not asked again.
HealthAnswered(c, healthy) ==
  /\ call[c].pc = "sent" /\ call[c].stage = "health"
  /\ IF healthy
     THEN /\ call' = [call EXCEPT ![c] = Over("returned")] /\ connected' = TRUE
          /\ checked' = IF call[c].moved THEN {} ELSE {call[c].via, call[c].on}
     ELSE Throws(c)
  /\ UNCHANGED <<network, soroban, cache, clientHistory>>

\* Every open call goes on.
Overtaken == [c \in ClientCall |-> IF c \in Pending THEN [call[c] EXCEPT !.moved = TRUE] ELSE call[c]]

\* Faulty: the Soroban server is kept.
SwitchKeepsServer(n) ==
  /\ network' = n /\ connected' = FALSE /\ cache' = [k \in CacheKey |-> None]
  /\ call' = Overtaken /\ checked' = {} /\ tainted' = FALSE
  /\ UNCHANGED <<soroban, away>>

SwitchNetwork(n) ==
  /\ network' = n /\ connected' = FALSE /\ cache' = [k \in CacheKey |-> None] /\ soroban' = None
  /\ call' = Overtaken /\ checked' = {} /\ tainted' = FALSE
  /\ UNCHANGED away

\* Also fires for a client that is not connected.
Disconnects ==
  /\ connected' = FALSE /\ checked' = {}
  /\ away' = (\A c \in Pending : call[c].kind # "connect")
  /\ UNCHANGED <<network, soroban, cache, call, tainted>>

-----------------------------------------------------------------------------
(* getBalance and getAccountInfo; neither asks for a connected client.     *)

GetBalance(c, k, skipCache) ==
  /\ IF ~skipCache /\ cache[k] # None
     THEN /\ IsNext(c)
          /\ call' = [call EXCEPT ![c] = Over("returned")]
     ELSE Opens(c, "balance", "load", k)
  /\ UNCHANGED <<network, soroban, connected, checked, cache, clientHistory>>

\* The answer is cached, for whatever network is the current one by now.
BalanceAnswered(c) ==
  /\ call[c].pc = "sent" /\ call[c].stage = "load"
  /\ call' = [call EXCEPT ![c] = Over("returned")]
  /\ cache' = [cache EXCEPT ![call[c].key] = call[c].on] /\ tainted' = (tainted \/ call[c].moved)
  /\ UNCHANGED <<network, soroban, connected, checked, away>>

BalanceExpires(k) ==
  /\ cache[k] # None /\ cache' = [cache EXCEPT ![k] = None]
  /\ UNCHANGED <<network, soroban, connected, checked, call, clientHistory>>

GetAccountInfo(c) ==
  /\ Opens(c, "info", "info", None)
  /\ UNCHANGED <<network, soroban, connected, checked, cache, clientHistory>>

\* An account that is not there is an answer, too; a payload that cannot be parsed costs
\* a round of the outer retries.
AccountAnswered(c, parsed) ==
  /\ call[c].pc = "sent" /\ call[c].stage = "info"
  /\ IF parsed THEN call' = [call EXCEPT ![c] = Over("returned")]
     ELSE IF call[c].rounds > 1 THEN NextRound(c)
     ELSE call' = [call EXCEPT ![c] = Over("failed")]
  /\ UNCHANGED <<network, soroban, connected, checked, cache, clientHistory>>

-----------------------------------------------------------------------------
(* The contract calls.                                                     *)

Invoke(c, kind) ==
  /\ kind \in {"invoke", "create", "cancel"}
  /\ Opens(c, kind, "account", None) /\ SorobanUsed(TRUE)
  /\ UNCHANGED <<network, connected, checked, cache, clientHistory>>

ReadContract(c) ==
  /\ Opens(c, "read", "simulate", None) /\ SorobanUsed(TRUE)
  /\ UNCHANGED <<network, connected, checked, cache, clientHistory>>

\* getAccount answers: the transaction is built, with the passphrase of the network that
\* is the current one by now, and simulated on the server the call began with.
SequenceAnswered(c) ==
  /\ call[c].pc = "sent" /\ call[c].stage = "account"
  /\ call' = [call EXCEPT ![c] = Sent([@ EXCEPT !.stage = "simulate", !.via = network])]
  /\ UNCHANGED <<network, soroban, connected, checked, cache, clientHistory>>

\* Only invokeContract with signAndSubmit has anything signed, and so a hash, without
\* which cancelEscrow fails.
SimulationAnswered(c, success) ==
  /\ call[c].pc = "sent" /\ call[c].stage = "simulate"
  /\ IF ~success \/ call[c].kind = "cancel" THEN CallFails(c)
     ELSE /\ call' = [call EXCEPT ![c] = IF call[c].kind = "invoke" THEN [@ EXCEPT !.pc = "signing"]
                                        ELSE Over("returned")]
          /\ UNCHANGED <<connected, checked>>
  /\ UNCHANGED <<network, soroban, cache, clientHistory>>

SignAndSubmit(c, ok) ==
  /\ call[c].pc = "signing"
  /\ call' = [call EXCEPT ![c] = Over(IF ok THEN "returned" ELSE "failed")]
  /\ UNCHANGED <<network, soroban, connected, checked, cache, clientHistory>>

-----------------------------------------------------------------------------
ClientNext ==
  \/ \E c \in ClientCall, b \in BOOLEAN :
       RequestFails(c, b) \/ HealthAnswered(c, b) \/ AccountAnswered(c, b)
         \/ SimulationAnswered(c, b) \/ SignAndSubmit(c, b)
  \/ \E c \in ClientCall :
       Retry(c) \/ Connect(c) \/ LedgersAnswered(c) \/ BalanceAnswered(c) \/ GetAccountInfo(c)
         \/ ReadContract(c) \/ SequenceAnswered(c)
  \/ \E c \in ClientCall, k \in CacheKey, skipCache \in BOOLEAN : GetBalance(c, k, skipCache)
  \/ \E c \in ClientCall, kind \in Kind : Invoke(c, kind)
  \/ \E n \in Network : SwitchNetwork(n)
  \/ \E k \in CacheKey : BalanceExpires(k)
  \/ Disconnects

ClientSpec == ClientInit /\ [][ClientNext]_clientVars

-----------------------------------------------------------------------------
\* The servers and the cached balances are of the current network, except for a balance
\* whose request was overtaken by the switch.
ServersAreCurrent ==
  soroban \in {None, network} /\ (~tainted => \A k \in CacheKey : cache[k] \in {None, network})

\* A connected client had answers from both servers of the current network, unless a
\* switch overtook that connect; and a client that was disconnected stays so until the
\* next connect, unless one was open then.
ConnectedIsChecked ==
  /\ connected => checked \in {{}, {network}}
  /\ away => ~connected

\* A transaction that is given away to be signed is for the network it was simulated on,
\* unless a switch overtook the call.
SignedAsSimulated ==
  \A c \in ClientCall : call[c].pc = "signing" /\ ~call[c].moved => call[c].via = call[c].on

\* A call costs as many requests for each stage as the policy has attempts; getAccountInfo
\* costs their square.
WithinBudget ==
  \A c \in ClientCall :
    call[c].requests <= IF call[c].kind = "info" THEN MaxTries * MaxTries
                        ELSE IF call[c].kind \in {"balance", "read"} THEN MaxTries ELSE 2 * MaxTries

\* Switching the network, or disconnecting, while calls are under way.
SwitchIsClean == ServersAreCurrent /\ ConnectedIsChecked /\ SignedAsSimulated /\ WithinBudget

=============================================================================
