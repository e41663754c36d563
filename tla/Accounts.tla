------------------------------ MODULE Accounts ------------------------------
(***************************************************************************)
(* accounts/manager.ts, and what client.ts makes of it: useAccount and     *)
(* asAccount. The registry keeps its accounts by id, a second index from   *)
(* address to id, and the id of the active one. Of an account only its     *)
(* address matters here; labels, keys, roles, data and time stamps do not. *)
(*                                                                         *)
(* Everything is synchronous but asAccount, whose callback is awaited: a   *)
(* scope is one call of it, from useAccount to the finally.                *)
(***************************************************************************)
EXTENDS Naturals, SequencesExt

CONSTANTS Id,      \* the ids of accounts; an account without one is given its address
          Address, \* the addresses of accounts
          Scope,   \* bound: the calls of asAccount
          MaxImport, \* bound: the accounts in a snapshot
          None     \* no account

ASSUME AccountsAssumption == None \notin Id /\ None \notin Address /\ MaxImport \in Nat

Ref == Id \cup Address

VARIABLES
  order,       \* byId: the ids in the order of their registration,
  address,     \* and the address of each, None if it is not registered
  idByAddress, \* the secondary index
  activeId,    \* currentActiveId
  scope,       \* scope[k]: where the call stands, what was active before, what it activated
  scopes,      \* the scopes that are open, in the order they were entered
  told,        \* history: the account that is active as far as listeners were told
  silent,      \* history: the selection was dropped and nobody was told, nor of another since
  astray,      \* history: addresses an account left, or one of several accounts of which
               \* was removed, and that were not indexed since
  home,        \* history: the account that was last selected outside of any scope
  disturbed    \* history: in an open scope another account was selected or one that is
               \* to be restored was removed, or a scope ended before one inside it

registry == <<order, address, idByAddress, activeId>>
calls == <<scope, scopes>>
vars == <<registry, calls, told, silent, astray, home, disturbed>>

Registered == ToSet(order)

TypeOK ==
  /\ order \in Seq(Id) /\ IsInjective(order)
  /\ address \in [Id -> Address \cup {None}]
  /\ \A i \in Id : i \in Registered <=> address[i] # None
  /\ idByAddress \in [Address -> Id \cup {None}] /\ activeId \in Id \cup {None}
  /\ scope \in [Scope -> [pc : {"idle", "open", "over"}, previous : Id \cup {None},
                          target : Id \cup {None}]]
  /\ scopes \in Seq(Scope)
  /\ told \in Id \cup {None} /\ silent \in BOOLEAN /\ astray \subseteq Address
  /\ home \in Id \cup {None} /\ disturbed \in BOOLEAN

Init ==
  /\ order = <<>> /\ address = [i \in Id |-> None]
  /\ idByAddress = [a \in Address |-> None] /\ activeId = None
  /\ scope = [k \in Scope |-> [pc |-> "idle", previous |-> None, target |-> None]]
  /\ scopes = <<>> /\ told = None /\ silent = FALSE /\ astray = {}
  /\ home = None /\ disturbed = FALSE

-----------------------------------------------------------------------------
(* Looking up and indexing.                                                *)

\* The account with id ref, or else the one the address index names; None if neither is there.
resolve(ref) ==
  IF ref \in Registered THEN ref
  ELSE IF ref \in Address /\ idByAddress[ref] \in Registered THEN idByAddress[ref]
  ELSE None

\* unindex: the address is given up only if it leads to this account.
Unindexed(i) == IF idByAddress[address[i]] = i THEN [idByAddress EXCEPT ![address[i]] = None]
                ELSE idByAddress

\* The account that is left behind under its old address when it takes address a.
Left(i, a) == {b \in Address : i \in Registered /\ b = address[i] /\ b # a /\ idByAddress[b] = i}

\* The address of account i, if another account has it too.
Shared(i) == {b \in Address : b = address[i] /\ \E j \in Id \ {i} : address[j] = b}

-----------------------------------------------------------------------------
(* What the application and listeners see of a change.                     *)

\* The event 'activated' or 'deactivated', with the account that is active from now on.
Tell(i) == told' = i /\ silent' = FALSE

\* The active account changes and no event says so.
Drop == silent' = (silent \/ activeId # None) /\ UNCHANGED told

Restorable(reg) == \A n \in DOMAIN scopes : scope[scopes[n]].previous \in reg \cup {None}

\* Somebody other than asAccount changes the selection, or the accounts.
Select == IF scopes = <<>> THEN home' = activeId' /\ UNCHANGED disturbed
          ELSE /\ disturbed' = (disturbed \/ activeId' # activeId \/ ~Restorable(ToSet(order')))
               /\ UNCHANGED home

-----------------------------------------------------------------------------
(* The operations of the registry.                                         *)

\* Faulty: a known id is registered once more.
storeTwice(i, a) ==
  /\ order' = Append(order, i)
  /\ address' = [address EXCEPT ![i] = a] /\ idByAddress' = [idByAddress EXCEPT ![a] = i]
  /\ astray' = (astray \cup Left(i, a)) \ {a}

\* Faulty: an address that is indexed already is left alone.
storeFirst(i, a) ==
  /\ order' = IF i \in Registered THEN order ELSE Append(order, i)
  /\ address' = [address EXCEPT ![i] = a]
  /\ idByAddress' = [idByAddress EXCEPT ![a] = IF @ = None THEN i ELSE @]
  /\ astray' = (astray \cup Left(i, a)) \ {a}

\* An account is stored, and its address indexed; a known id keeps its place.
store(i, a) ==
  /\ order' = IF i \in Registered THEN order ELSE Append(order, i)
  /\ address' = [address EXCEPT ![i] = a] /\ idByAddress' = [idByAddress EXCEPT ![a] = i]
  /\ astray' = (astray \cup Left(i, a)) \ {a}

\* Faulty: listeners are told only if nothing was active before.
activateQuietly(i) ==
  /\ activeId' = i
  /\ IF activeId = None THEN Tell(i) ELSE UNCHANGED <<told, silent>>

\* The selection changes, and listeners are told unless it stays as it is.
activateId(i) == /\ activeId' = i
                 /\ IF i # activeId THEN Tell(i) ELSE UNCHANGED <<told, silent>>

\* The registrations: an account that has an address for its id has that address.
Registration == {r \in Id \X Address : r[1] \in Address => r[1] = r[2]}

\* add of a new id or a known one, which is activated if this is asked for, and by
\* default if it is the only account.
add(i, a, requested) ==
  /\ store(i, a)
  /\ IF requested = "yes" \/ (requested = "default" /\ Len(order') = 1)
     THEN activateId(i) ELSE UNCHANGED <<activeId, told, silent>>
  /\ Select /\ UNCHANGED calls

\* update and setData, which tell listeners of the account, and touch, which does not:
\* the account is stored again under its address.
update(ref) == /\ resolve(ref) # None
               /\ store(resolve(ref), address[resolve(ref)])
               /\ UNCHANGED <<activeId, calls, told, silent, home, disturbed>>

\* Faulty: the removed account stays selected.
removeSelected(ref) ==
  LET i == resolve(ref) IN
  /\ i # None
  /\ order' = RemoveAt(order, CHOOSE n \in DOMAIN order : order[n] = i)
  /\ address' = [address EXCEPT ![i] = None] /\ idByAddress' = Unindexed(i)
  /\ astray' = astray \cup Shared(i)
  /\ UNCHANGED <<activeId, told, silent>>
  /\ Select /\ UNCHANGED calls

\* The account is forgotten; if it was active the first of the others takes its place.
remove(ref) ==
  LET i == resolve(ref) IN
  /\ i # None
  /\ order' = RemoveAt(order, CHOOSE n \in DOMAIN order : order[n] = i)
  /\ address' = [address EXCEPT ![i] = None] /\ idByAddress' = Unindexed(i)
  /\ astray' = astray \cup Shared(i)
  /\ IF activeId = i
     THEN activeId' = (IF order' = <<>> THEN None ELSE Head(order')) /\ Tell(activeId')
     ELSE UNCHANGED <<activeId, told, silent>>
  /\ Select /\ UNCHANGED calls

\* activate, and useAccount of the client; an unknown account is an error.
activate(ref) == /\ resolve(ref) # None /\ activateId(resolve(ref))
                 /\ UNCHANGED <<order, address, idByAddress, calls, astray>> /\ Select

deactivate == /\ activeId # None /\ activeId' = None /\ Drop
              /\ UNCHANGED <<order, address, idByAddress, calls, astray>> /\ Select

\* unindex of every account: an address that leads to an account elsewhere stays.
Cleared == [a \in Address |-> IF idByAddress[a] \in Registered /\ address[idByAddress[a]] = a
                              THEN None ELSE idByAddress[a]]

clear == /\ order' = <<>> /\ address' = [i \in Id |-> None] /\ idByAddress' = Cleared
         /\ activeId' = None /\ Drop
         /\ Select /\ UNCHANGED <<calls, astray>>

\* What exportState may have written, here or in another process.
Ids(list) == [n \in DOMAIN list |-> list[n][1]]
Snapshot == {list \in SeqOf(Registration, MaxImport) : IsInjective(Ids(list))}

\* The entry of list with id i, or the last one with address a.
EntryOf(list, i) == CHOOSE n \in DOMAIN list : list[n][1] = i
LastAt(list, a) == CHOOSE n \in DOMAIN list :
                     list[n][2] = a /\ \A m \in DOMAIN list : list[m][2] = a => m <= n

\* clear, and then add, one by one, for list.
AddAll(list) ==
  /\ order' = Ids(list)
  /\ address' = [i \in Id |-> IF i \in ToSet(Ids(list)) THEN list[EntryOf(list, i)][2] ELSE None]
  /\ idByAddress' = [a \in Address |-> IF \E n \in DOMAIN list : list[n][2] = a
                                       THEN list[LastAt(list, a)][1] ELSE Cleared[a]]
  /\ astray' = astray \ {list[n][2] : n \in DOMAIN list}

\* The accounts are replaced, and the one that was active in the snapshot is activated
\* if it is among them. If an account of the snapshot turns out to be invalid, those
\* before it stay, and none is active.
importState(list, wanted) ==
  /\ \/ /\ AddAll(list)
        /\ IF wanted \in ToSet(Ids(list)) THEN activeId' = wanted /\ Tell(wanted)
           ELSE activeId' = None /\ Drop
     \/ /\ list # <<>> /\ AddAll(Front(list)) /\ activeId' = None /\ Drop
  /\ Select /\ UNCHANGED calls

-----------------------------------------------------------------------------
(* asAccount of the client.                                                *)

\* Faulty: what was active before is read after the switch.
enterLate(k, ref) ==
  /\ scope[k].pc = "idle" /\ resolve(ref) # None /\ activateId(resolve(ref))
  /\ scope' = [scope EXCEPT ![k] = [pc |-> "open", previous |-> activeId', target |-> activeId']]
  /\ scopes' = Append(scopes, k)
  /\ UNCHANGED <<order, address, idByAddress, astray, home, disturbed>>

\* Up to the call of fn: an unknown account is an error.
enter(k, ref) ==
  /\ scope[k].pc = "idle" /\ resolve(ref) # None /\ activateId(resolve(ref))
  /\ scope' = [scope EXCEPT ![k] = [pc |-> "open", previous |-> activeId, target |-> activeId']]
  /\ scopes' = Append(scopes, k)
  /\ UNCHANGED <<order, address, idByAddress, astray, home, disturbed>>

\* The finally: what was active before is activated again, which is an error if it
\* has been removed, or else nothing is active.
Restore(i) == IF i = None THEN activeId' = None /\ Drop
              ELSE IF resolve(i) # None THEN activateId(resolve(i))
              ELSE UNCHANGED <<activeId, told, silent>>

leave(k) ==
  /\ scope[k].pc = "open" /\ Restore(scope[k].previous)
  /\ scope' = [scope EXCEPT ![k] = [pc |-> "over", previous |-> None, target |-> None]]
  /\ scopes' = RemoveAt(scopes, CHOOSE n \in DOMAIN scopes : scopes[n] = k)
  /\ IF scopes' = <<>>
     THEN home' = (IF disturbed THEN activeId' ELSE home) /\ disturbed' = FALSE
     ELSE disturbed' = (disturbed \/ k # Last(scopes)) /\ UNCHANGED home
  /\ UNCHANGED <<order, address, idByAddress, astray>>

-----------------------------------------------------------------------------
Next == \/ deactivate \/ clear
        \/ \E r \in Registration, requested \in {"yes", "no", "default"} : add(r[1], r[2], requested)
        \/ \E ref \in Ref : update(ref) \/ remove(ref) \/ activate(ref)
        \/ \E list \in Snapshot, wanted \in Id \cup {None} : importState(list, wanted)
        \/ \E k \in Scope : leave(k) \/ \E ref \in Ref : enter(k, ref)

Spec == Init /\ [][Next]_vars

-----------------------------------------------------------------------------
\* The active account is one that is registered, also after the active account was
\* removed, a snapshot without it imported, or a scope ended whose account is gone.
ActiveIsRegistered == activeId \in Registered \cup {None}

\* Listeners of onChange that follow 'activated' and 'deactivated' know which account
\* is active. deactivate(), clear() and an import tell them nothing of a selection
\* they drop: until the next event they are the exception.
ListenersKnow == ~silent => told = activeId

\* A lookup by address finds an account if and only if one has that address, and one
\* that has it. The exceptions are addresses an account was registered away from, and
\* addresses of which one of several accounts was removed, until they are indexed again.
LookupsAgree ==
  \A a \in Address \ astray :
    /\ resolve(a) # None <=> \E i \in Id : address[i] = a
    /\ resolve(a) # None => address[resolve(a)] = a

\* Scopes of asAccount that are nested act as their account, and leave the selection
\* as they found it, whatever is registered meanwhile, unless somebody else selects
\* an account inside a scope, removes one that is to be restored, or scopes overlap.
ScopedSelection ==
  ~disturbed => activeId = IF scopes = <<>> THEN home ELSE scope[Last(scopes)].target

=============================================================================
