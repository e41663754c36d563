--------------------------- MODULE ServicesProofs ---------------------------
(***************************************************************************)
(* What module Services promises of all its parts together, for any values *)
(* of the constants: calls, thresholds, agents, fees, polls, retries and   *)
(* events. A part shares no state with another, so each has an invariant   *)
(* of its own. A step of the services is a step of one part, or of none,   *)
(* and leaves the others alone.                                            *)
(***************************************************************************)
EXTENDS Services, FiniteSetTheorems, WellFoundedInduction, TLAPS

-----------------------------------------------------------------------------
(* Minima, positions and remainders.                                      *)

\* A nonempty set of natural numbers has a minimum.
LEMMA MinIs ==
  ASSUME NEW S \in SUBSET Nat, S # {}
  PROVE  Min(S) \in S /\ \A n \in S : Min(S) <= n
<1>1. IsWellFoundedOn(OpToRel(<, Nat), Nat)
  BY NatLessThanWellFounded
<1>2. PICK m \in S : \A n \in S : ~(<<n, m>> \in OpToRel(<, Nat))
  BY <1>1, WFMin
<1>3. \A n \in S : n \in Nat /\ m \in Nat /\ ~(<<n, m>> \in OpToRel(<, Nat))
  BY <1>2
<1>4. \A n \in S : n \in Nat /\ m \in Nat /\ ~(n < m)
  BY <1>3 DEF OpToRel
<1>5. \A n \in S : m <= n
  BY <1>4
<1> QED
  BY <1>5 DEF Min

\* A nonempty set of subsets of a finite set has a smallest member: none is a part of it.
LEMMA Smallest ==
  ASSUME NEW C, NEW U \in SUBSET (SUBSET C), IsFiniteSet(C), U # {}
  PROVE  \E S \in U : \A T \in U : T \subseteq S => T = S
<1>1. IsWellFoundedOn(StrictSubsetOrdering(C), FiniteSubsetsOf(C))
  BY FS_StrictSubsetOrderingWellFounded
<1>2. U \subseteq FiniteSubsetsOf(C)
  BY FS_Subset DEF FiniteSubsetsOf
<1>3. PICK S \in U : \A T \in U : ~(<<T, S>> \in StrictSubsetOrdering(C))
  BY <1>1, <1>2, WFMin
<1> QED
  BY <1>3 DEF StrictSubsetOrdering

\* Of a finite set of numbers, Nth counts each once. Below x are those that are smaller.
Below(S, x) == {y \in S : y < x}

LEMMA RankOf ==
  ASSUME NEW S \in SUBSET Nat, IsFiniteSet(S), NEW x \in S
  PROVE  /\ IsFiniteSet(Below(S, x)) /\ Cardinality(Below(S, x)) \in 0 .. Cardinality(S) - 1
         /\ \A z \in S : x < z => Cardinality(Below(S, x)) < Cardinality(Below(S, z))
<1>1. \A z \in S : IsFiniteSet(Below(S, z)) /\ Cardinality(Below(S, z)) \in Nat
  BY FS_Subset, FS_CardinalityType DEF Below
<1>2. Cardinality(S) \in Nat
  BY FS_CardinalityType
<1>3. ASSUME NEW T \in SUBSET S, Below(S, x) \subseteq T, x \in T
      PROVE  Cardinality(Below(S, x)) < Cardinality(T)
  <2>1. IsFiniteSet(T) /\ Cardinality(T) \in Nat
    BY FS_Subset, FS_CardinalityType
  <2>2. Cardinality(Below(S, x)) <= Cardinality(T) /\ (Cardinality(Below(S, x)) = Cardinality(T) => Below(S, x) = T)
    BY <1>3, <2>1, FS_Subset
  <2>3. x \notin Below(S, x)
    BY DEF Below
  <2> QED
    BY <1>1, <1>3, <2>1, <2>2, <2>3
<1>4. Cardinality(Below(S, x)) < Cardinality(S)
  BY <1>3 DEF Below
<1>5. ASSUME NEW z \in S, x < z PROVE Cardinality(Below(S, x)) < Cardinality(Below(S, z))
  <2>1. Below(S, z) \in SUBSET S /\ Below(S, x) \subseteq Below(S, z) /\ x \in Below(S, z)
    <3>1. \A y \in S : y < x => y < z
      BY <1>5
    <3> QED
      BY <1>5, <3>1 DEF Below
  <2> QED
    BY <1>3, <2>1
<1> QED
  BY <1>1, <1>2, <1>4, <1>5

LEMMA NthCounts ==
  ASSUME NEW S \in SUBSET Nat, IsFiniteSet(S)
  PROVE  /\ \A n \in 1 .. Cardinality(S) : Nth(S, n) \in S
         /\ \A x \in S : \E n \in 1 .. Cardinality(S) : x = Nth(S, n)
         /\ \A m, n \in 1 .. Cardinality(S) : m < n => Nth(S, m) < Nth(S, n)
<1> DEFINE N == Cardinality(S)
           f == [x \in S |-> Cardinality(Below(S, x))]
<1>1. N \in Nat
  BY FS_CardinalityType
<1>2. f \in [S -> 0 .. N - 1]
  BY RankOf
<1>3. \A x, z \in S : x < z => f[x] < f[z]
  BY RankOf
<1> HIDE DEF f, N
<1>4. \A x, z \in S : f[x] = f[z] => x = z
  <2> SUFFICES ASSUME NEW x \in S, NEW z \in S, f[x] = f[z], x # z PROVE FALSE
    OBVIOUS
  <2>1. x < z \/ z < x
    OBVIOUS
  <2> QED
    BY <1>1, <1>2, <1>3, <2>1
<1>5. f \in Injection(S, 0 .. N - 1)
  BY <1>2, <1>4 DEF Injection, IsInjective
<1>6. IsFiniteSet(0 .. N - 1) /\ Cardinality(0 .. N - 1) = N
  BY <1>1, FS_Interval
<1>7. f \in Surjection(S, 0 .. N - 1)
  BY <1>5, <1>6, FS_Injection DEF N
<1>8. \A i \in 0 .. N - 1 : \E x \in S : f[x] = i
  BY <1>7 DEF Surjection
<1>9. ASSUME NEW n \in 1 .. N PROVE Nth(S, n) \in S /\ f[Nth(S, n)] = n - 1
  <2>1. n - 1 \in 0 .. N - 1
    BY <1>1
  <2>2. PICK x \in S : f[x] = n - 1
    BY <1>8, <2>1
  <2>3. \A z \in S : f[z] = Cardinality({y \in S : y < z})
    BY DEF f, Below
  <2>4. Nth(S, n) \in S /\ Cardinality({y \in S : y < Nth(S, n)}) = n - 1
    BY <2>2, <2>3 DEF Nth
  <2> QED
    BY <2>3, <2>4
<1>10. ASSUME NEW x \in S PROVE \E n \in 1 .. N : x = Nth(S, n)
  <2>1. f[x] + 1 \in 1 .. N /\ (f[x] + 1) - 1 = f[x]
    BY <1>1, <1>2
  <2>2. Nth(S, f[x] + 1) \in S /\ f[Nth(S, f[x] + 1)] = f[x]
    BY <1>9, <2>1
  <2> QED
    BY <1>4, <2>1, <2>2
<1>11. ASSUME NEW m \in 1 .. N, NEW n \in 1 .. N, m < n PROVE Nth(S, m) < Nth(S, n)
  <2>1. Nth(S, m) \in S /\ Nth(S, n) \in S /\ f[Nth(S, m)] = m - 1 /\ f[Nth(S, n)] = n - 1
    BY <1>9
  <2>2. Nth(S, n) < Nth(S, m) => f[Nth(S, n)] < f[Nth(S, m)]
    BY <1>3, <2>1
  <2>3. m \in Nat /\ n \in Nat /\ ~(n - 1 < m - 1) /\ m - 1 # n - 1
    BY <1>1, <1>11
  <2>4. Nth(S, n) # Nth(S, m)
    BY <2>1, <2>3
  <2>5. \A x, y \in S : x # y => x < y \/ y < x
    OBVIOUS
  <2> QED
    BY <2>1, <2>2, <2>3, <2>4, <2>5
<1> QED
  BY <1>9, <1>10, <1>11 DEF N

LEMMA Divided == ASSUME NEW n \in Nat \ {0}, NEW x \in Nat
                 PROVE  x % n \in 0 .. n - 1 /\ x \div n \in Nat /\ x = n * (x \div n) + (x % n)
OBVIOUS

LEMMA Remains == ASSUME NEW n \in Nat \ {0}, NEW q \in Nat, NEW r \in 0 .. n - 1 PROVE (n * q + r) % n = r
OBVIOUS

\* What counts modulo a multiple of n counts modulo n.
LEMMA TurnsCount ==
  ASSUME NEW n \in Nat \ {0}, NEW t \in Nat \ {0}, t % n = 0, NEW x \in Nat
  PROVE  (x % t) % n = x % n
<1> DEFINE m == t \div n
           a == x \div n
           b == x % n
           p == x \div t
           y == x % t
<1>1. t = n * m /\ m \in Nat
  BY Divided
<1>2. x = n * a + b /\ a \in Nat /\ b \in 0 .. n - 1
  BY Divided
<1>3. x = t * p + y /\ p \in Nat /\ y \in 0 .. t - 1
  BY Divided
<1> HIDE DEF m, a, b, p, y
<1> DEFINE q == a - m * p
<1>4. m * p \in Nat /\ q \in Int
  BY <1>1, <1>2, <1>3
<1>5. y = n * q + b
  <2>1. t * p = n * (m * p)
    BY <1>1, <1>3
  <2>2. n * q = n * a - n * (m * p)
    BY <1>2, <1>4
  <2>3. n * (m * p) \in Nat /\ n * a \in Nat
    BY <1>2, <1>4
  <2> HIDE DEF q
  <2> QED
    BY <1>2, <1>3, <2>1, <2>2, <2>3
<1> HIDE DEF q
<1>6. q \in Nat
  <2> SUFFICES ASSUME q <= -1 PROVE FALSE
    BY <1>4
  <2>1. n * q <= -n
    BY <1>4
  <2>2. n * q \in Int
    BY <1>4
  <2> QED
    BY <1>2, <1>3, <1>5, <2>1, <2>2
<1>7. y % n = b
  BY <1>2, <1>5, <1>6, Remains
<1> QED
  BY <1>7 DEF y, b

\* Of n consecutive numbers one leaves each remainder.
LEMMA EachRemainder ==
  ASSUME NEW n \in Nat \ {0}, NEW x \in Nat, NEW r \in 0 .. n - 1
  PROVE  \E k \in 0 .. n - 1 : (x + k) % n = r
<1> DEFINE q == x \div n
           s == x % n
<1>1. x = n * q + s /\ q \in Nat /\ s \in 0 .. n - 1
  BY Divided
<1> HIDE DEF q, s
<1>2. n * q \in Nat /\ n * (q + 1) = n * q + n
  BY <1>1
<1>3. CASE r >= s
  <2>1. x + (r - s) = n * q + r /\ r - s \in 0 .. n - 1
    BY <1>1, <1>2, <1>3
  <2>2. (x + (r - s)) % n = r
    BY <1>1, <2>1, Remains
  <2> QED
    BY <2>1, <2>2
<1>4. CASE r < s
  <2>1. x + (r - s + n) = n * (q + 1) + r /\ r - s + n \in 0 .. n - 1
    BY <1>1, <1>2, <1>4
  <2>2. (x + (r - s + n)) % n = r
    BY <1>1, <2>1, Remains
  <2> QED
    BY <2>1, <2>2
<1> QED
  BY <1>1, <1>3, <1>4

-----------------------------------------------------------------------------
(* The React hooks.                                                        *)

\* What is known of a call of a hook.
Use == [pc : {"idle", "open", "over"}, kind : {"none", "create", "release", "act", "read"},
        optimistic : BOOLEAN, for : Account \cup {None}, previous : Data \cup {None}]

\* Who expects something, and what is shown for it.
Expected ==
  /\ \A c \in Open : use[c].optimistic => hook = "useEscrow" /\ use[c].kind \in {"create", "release"}
  /\ hook # "useEscrow" /\ shown # None => ~shown.pending
  /\ ~usurped /\ latest \in Open /\ use[latest].optimistic /\ use[latest].previous # None
       => ~use[latest].previous.pending

\* Once the effect has run for an address, the latest call is for that address, unless an
\* update of an earlier render was called since.
Addressed == hook \in {"useProfile", "useBalance"} /\ effective = rendered /\ ~outdated
               /\ latest \in Open => use[latest].for = rendered

\* The connects of useWallet.
Connecting ==
  /\ hook # "useWallet" => ~departed
  /\ departed /\ ~overtaken => Open = {}
  /\ hook = "useWallet" /\ ~overlapped => \A c, d \in Open : c = d

HooksInv == HooksTypeOK /\ HooksAgree /\ Expected /\ Addressed /\ Connecting

LEMMA HooksBegin == HooksInit => HooksInv
<1> SUFFICES ASSUME HooksInit PROVE HooksInv
  OBVIOUS
<1>1. \A c \in Call : use[c] = Idle
  BY DEF HooksInit
<1>2. Open = {}
  BY <1>1 DEF Open, Idle
<1>3. Idle \in Use
  BY DEF Idle, Use
<1>4. use \in [Call -> Use]
  BY <1>3 DEF HooksInit
<1>5. HooksTypeOK
  BY <1>4 DEF HooksInit, HooksTypeOK, Use
<1>6. HooksAgree
  BY <1>2 DEF HooksInit, HooksAgree, LoadingIsLatest, PlaceholdersEnd, ShownIsRendered, DisconnectHolds
<1>7. Expected /\ Addressed /\ Connecting
  BY <1>2 DEF HooksInit, Expected, Addressed, Connecting
<1> QED
  BY <1>5, <1>6, <1>7 DEF HooksInv

\* What a call that is opened captures.
LEMMA OpenedFacts ==
  ASSUME HooksTypeOK, NEW c \in Call, NEW kind \in {"create", "release", "act", "read"},
         NEW optimistic \in BOOLEAN, NEW a \in Account \cup {None}, Opened(c, kind, optimistic, a)
  PROVE  /\ use' \in [Call -> Use]
         /\ c \notin Open /\ Open' = Open \cup {c}
         /\ use'[c].optimistic = optimistic /\ use'[c].kind = kind /\ use'[c].for = a
         /\ use'[c].previous = shown
         /\ \A d \in Call \ {c} : use'[d] = use[d]
<1> DEFINE r == [pc |-> "open", kind |-> kind, optimistic |-> optimistic, for |-> a, previous |-> shown]
<1>1. use \in [Call -> Use] /\ shown \in Data \cup {None}
  BY DEF HooksTypeOK, Use
<1>2. r \in Use /\ r.pc = "open" /\ r.optimistic = optimistic /\ r.kind = kind /\ r.for = a /\ r.previous = shown
  BY <1>1 DEF Use
<1>3. use[c].pc = "idle" /\ use' = [use EXCEPT ![c] = r]
  BY DEF Opened
<1> HIDE DEF r
<1>4. use' \in [Call -> Use] /\ use'[c] = r /\ \A d \in Call \ {c} : use'[d] = use[d]
  BY <1>1, <1>2, <1>3
<1> QED
  BY <1>2, <1>3, <1>4 DEF Open

\* The same of a call that expects nothing.
LEMMA PlainFacts ==
  ASSUME HooksTypeOK, NEW c \in Call, NEW kind \in {"act", "read"}, NEW a \in Account \cup {None},
         Opened(c, kind, FALSE, a)
  PROVE  /\ use' \in [Call -> Use]
         /\ c \notin Open /\ Open' = Open \cup {c}
         /\ use'[c].optimistic = FALSE /\ use'[c].kind = kind /\ use'[c].for = a
         /\ use'[c].previous = shown
         /\ \A d \in Call \ {c} : use'[d] = use[d]
<1>1. kind \in {"create", "release", "act", "read"} /\ FALSE \in BOOLEAN
  OBVIOUS
<1> QED
  BY <1>1, OpenedFacts

\* A call that is answered is over, and the others go on.
LEMMA AnsweredFacts ==
  ASSUME HooksTypeOK, NEW c \in Call, Answered(c)
  PROVE  /\ use' \in [Call -> Use]
         /\ c \in Open /\ Open' = Open \ {c}
         /\ \A d \in Call \ {c} : use'[d] = use[d]
<1> DEFINE r == [Idle EXCEPT !.pc = "over"]
<1>1. use \in [Call -> Use]
  BY DEF HooksTypeOK, Use
<1>2. r \in Use /\ r.pc = "over"
  BY DEF Idle, Use
<1>3. use[c].pc = "open" /\ use' = [use EXCEPT ![c] = r]
  BY DEF Answered
<1> HIDE DEF r
<1>4. use' \in [Call -> Use] /\ use'[c] = r /\ \A d \in Call \ {c} : use'[d] = use[d]
  BY <1>1, <1>2, <1>3
<1> QED
  BY <1>2, <1>3, <1>4 DEF Open

\* What is shown of an answer.
LEMMA ShownOf ==
  ASSUME NEW c \in Call, NEW a \in Account \cup {None}, NEW b \in BOOLEAN
  PROVE  LET s == [of |-> c, for |-> a, pending |-> b] IN s \in Data /\ s.for = a /\ s.pending = b
BY DEF Data

\* What is shown becomes expected, or settled.
LEMMA PendingOf ==
  ASSUME NEW s \in Data, NEW b \in BOOLEAN
  PROVE  LET t == [s EXCEPT !.pending = b] IN t \in Data /\ t.for = s.for /\ t.pending = b
BY DEF Data

\* What a call of useEscrow expects is shown, and taken for settled by nobody.
LEMMA StartEscrowKeeps ==
  ASSUME HooksInv, NEW c \in Call, NEW kind \in {"create", "release", "act", "read"},
         NEW optimistic \in BOOLEAN, StartEscrow(c, kind, optimistic)
  PROVE  HooksInv'
<1>0. HooksTypeOK /\ HooksAgree /\ Expected /\ Addressed /\ Connecting
  BY DEF HooksInv
<1>1. /\ hook = "useEscrow" /\ (optimistic => kind \in {"create", "release"})
      /\ Opened(c, kind, optimistic, None)
      /\ latest' = c /\ loading' = TRUE /\ error' = FALSE
      /\ Usurp /\ UNCHANGED <<hook, rendered, effective, overtaken, departed, overlapped, renders, outdated>>
  BY DEF StartEscrow
<1>2. /\ use' \in [Call -> Use]
      /\ c \notin Open /\ Open' = Open \cup {c}
      /\ use'[c].optimistic = optimistic /\ use'[c].kind = kind /\ use'[c].for = None
      /\ use'[c].previous = shown
      /\ \A d \in Call \ {c} : use'[d] = use[d]
  BY <1>0, <1>1, OpenedFacts
<1>3. shown' \in Data \cup {None} /\ (~optimistic => shown' = shown)
  <2>1. CASE ~optimistic
    BY <1>0, <2>1 DEF StartEscrow, HooksTypeOK
  <2>2. CASE optimistic /\ kind = "create"
    BY <2>2, ShownOf DEF StartEscrow
  <2>3. CASE optimistic /\ kind # "create"
    BY <1>0, <2>3, PendingOf DEF StartEscrow, HooksTypeOK
  <2> QED
    BY <2>1, <2>2, <2>3
<1>4. /\ usurped => usurped'
      /\ latest \in Open /\ use[latest].optimistic => usurped'
      /\ usurped' \in BOOLEAN
  BY <1>0, <1>1 DEF Usurp, HooksTypeOK
<1>5. HooksTypeOK'
  BY <1>0, <1>1, <1>2, <1>3, <1>4 DEF HooksTypeOK, Use
<1>6. LoadingIsLatest' /\ ShownIsRendered' /\ Addressed'
  BY <1>1, <1>2 DEF LoadingIsLatest, ShownIsRendered, Addressed
<1>7. shown # None /\ shown.pending => usurped'
  BY <1>0, <1>4 DEF HooksAgree, PlaceholdersEnd
<1>8. PlaceholdersEnd'
  BY <1>1, <1>2, <1>3, <1>7 DEF PlaceholdersEnd
<1>9. \A d \in Open' : use'[d].optimistic => hook' = "useEscrow" /\ use'[d].kind \in {"create", "release"}
  <2> SUFFICES ASSUME NEW d \in Open', use'[d].optimistic PROVE use'[d].kind \in {"create", "release"}
    BY <1>1
  <2>1. CASE d = c
    BY <1>1, <1>2, <2>1
  <2>2. CASE d # c
    BY <1>0, <1>2, <2>2 DEF Expected, Open
  <2> QED
    BY <2>1, <2>2
<1>10. Expected'
  BY <1>1, <1>2, <1>7, <1>9 DEF Expected
<1>11. DisconnectHolds' /\ Connecting'
  BY <1>0, <1>1 DEF DisconnectHolds, Connecting
<1> QED
  BY <1>5, <1>6, <1>8, <1>10, <1>11 DEF HooksInv, HooksAgree

\* An answer or failure of useEscrow: what it shows is expected no longer.
LEMMA EscrowKeeps ==
  ASSUME HooksInv, NEW c \in Call, EscrowAnswers(c) \/ EscrowFails(c)
  PROVE  HooksInv'
<1>0. HooksTypeOK /\ HooksAgree /\ Expected /\ Addressed /\ Connecting
  BY DEF HooksInv
<1>1. /\ hook = "useEscrow" /\ Answered(c)
      /\ UNCHANGED <<hook, latest, rendered, effective, history>>
  BY DEF EscrowAnswers, EscrowFails
<1>2. /\ use' \in [Call -> Use]
      /\ c \in Open /\ Open' = Open \ {c}
      /\ \A d \in Call \ {c} : use'[d] = use[d]
  BY <1>0, <1>1, AnsweredFacts
<1>3. use[c] \in Use
  BY <1>0 DEF HooksTypeOK, Use
<1>4. /\ latest = c => loading' = FALSE
      /\ latest # c => loading' = loading /\ shown' = shown
      /\ error' = error \/ error' = TRUE
  BY DEF EscrowAnswers, EscrowFails
<1>5. latest = c => /\ shown' \in Data \cup {None}
                    /\ ~usurped /\ shown' # None => ~shown'.pending
  <2> SUFFICES ASSUME latest = c
               PROVE  shown' \in Data \cup {None} /\ (~usurped /\ shown' # None => ~shown'.pending)
    OBVIOUS
  <2>0. shown \in Data \cup {None}
    BY <1>0 DEF HooksTypeOK
  <2>1. ~usurped /\ shown # None /\ shown.pending => use[c].optimistic
    BY <1>0 DEF HooksAgree, PlaceholdersEnd
  <2>2. CASE shown' = shown /\ ~use[c].optimistic
    BY <2>0, <2>1, <2>2
  <2>3. CASE shown' = [of |-> c, for |-> None, pending |-> FALSE] \/ shown' = None
    BY <2>3, ShownOf
  <2>4. CASE shown # None /\ shown' = [shown EXCEPT !.pending = FALSE]
    BY <2>0, <2>4, PendingOf
  <2>5. CASE use[c].optimistic /\ shown' = use[c].previous
    <3>1. use[c].previous \in Data \cup {None}
      BY <1>3 DEF Use
    <3>2. ~usurped /\ use[c].previous # None => ~use[c].previous.pending
      BY <1>0, <1>2, <2>5 DEF Expected
    <3> QED
      BY <2>5, <3>1, <3>2
  <2>6. use[c].kind = "act" => ~use[c].optimistic
    BY <1>0, <1>2 DEF Expected
  <2>7. CASE EscrowAnswers(c)
    <3>1. \/ shown' = [of |-> c, for |-> None, pending |-> FALSE]
          \/ shown' = None
          \/ shown' = IF use[c].optimistic /\ shown # None
                      THEN [shown EXCEPT !.pending = FALSE] ELSE shown
          \/ use[c].kind = "act" /\ shown' = shown
      BY <2>7 DEF EscrowAnswers
    <3> QED
      BY <2>2, <2>3, <2>4, <2>6, <3>1
  <2>8. CASE EscrowFails(c)
    <3>1. shown' = IF use[c].optimistic THEN use[c].previous ELSE shown
      BY <2>8 DEF EscrowFails
    <3> QED
      BY <2>2, <2>5, <3>1
  <2> QED
    BY <2>7, <2>8
<1>6. shown' \in Data \cup {None} /\ loading' \in BOOLEAN /\ error' \in BOOLEAN
  BY <1>0, <1>4, <1>5 DEF HooksTypeOK
<1>7. HooksTypeOK'
  BY <1>0, <1>1, <1>2, <1>6 DEF HooksTypeOK, Use, history
<1>8. LoadingIsLatest' /\ ShownIsRendered' /\ Addressed'
  BY <1>0, <1>1, <1>2, <1>4 DEF HooksAgree, LoadingIsLatest, ShownIsRendered, Addressed
<1>9. latest # c /\ latest \in Open => latest \in Open' /\ use'[latest] = use[latest]
  BY <1>2 DEF Open
<1>10. PlaceholdersEnd'
  BY <1>0, <1>1, <1>4, <1>5, <1>9 DEF HooksAgree, PlaceholdersEnd, history
<1>11. \A d \in Open' : use'[d].optimistic => hook' = "useEscrow" /\ use'[d].kind \in {"create", "release"}
  BY <1>0, <1>1, <1>2 DEF Expected, Open
<1>12. Expected'
  BY <1>0, <1>1, <1>2, <1>9, <1>11 DEF Expected, history
<1>13. DisconnectHolds' /\ Connecting'
  BY <1>0, <1>1 DEF DisconnectHolds, Connecting, history
<1> QED
  BY <1>7, <1>8, <1>10, <1>12, <1>13 DEF HooksInv, HooksAgree

\* A call of a hook that shows nothing before its answer takes the latest number, for the
\* address that is rendered, or it is an outdated update.
LEMMA StartKeeps ==
  ASSUME HooksInv, hook \notin {"useEscrow", "useWallet"}, NEW c \in Call,
         NEW kind \in {"act", "read"}, NEW a \in Account \cup {None},
         Opened(c, kind, FALSE, a), latest' = c, loading' = TRUE, error' = FALSE,
         hook \in {"useProfile", "useBalance"} => a = rendered \/ outdated',
         shown' \in {None, shown}, outdated' \in BOOLEAN,
         UNCHANGED <<hook, rendered, usurped, overtaken, departed, overlapped, renders>>,
         \/ effective' = effective /\ (outdated => outdated')
         \/ effective' = rendered /\ shown' = None
  PROVE  HooksInv'
<1>0. HooksTypeOK /\ HooksAgree /\ Expected /\ Addressed /\ Connecting
  BY DEF HooksInv
<1>2. /\ use' \in [Call -> Use]
      /\ c \notin Open /\ Open' = Open \cup {c}
      /\ use'[c].optimistic = FALSE /\ use'[c].kind = kind /\ use'[c].for = a
      /\ use'[c].previous = shown
      /\ \A d \in Call \ {c} : use'[d] = use[d]
  BY <1>0, PlainFacts
<1>3. HooksTypeOK'
  BY <1>0, <1>2 DEF HooksTypeOK, Use
<1>4. LoadingIsLatest' /\ Addressed'
  BY <1>2 DEF LoadingIsLatest, Addressed
<1>5. ShownIsRendered'
  BY <1>0 DEF HooksAgree, ShownIsRendered
<1>6. shown' # None => ~shown'.pending
  BY <1>0 DEF Expected
<1>7. PlaceholdersEnd'
  BY <1>6 DEF PlaceholdersEnd
<1>8. \A d \in Open' : ~use'[d].optimistic
  BY <1>0, <1>2 DEF Expected, Open
<1>9. Expected'
  BY <1>2, <1>6, <1>8 DEF Expected
<1>10. DisconnectHolds' /\ Connecting'
  BY <1>0 DEF DisconnectHolds, Connecting
<1> QED
  BY <1>3, <1>4, <1>5, <1>7, <1>9, <1>10 DEF HooksInv, HooksAgree

\* Its answer counts if it is the latest one, and is for the address of the call.
LEMMA SettleKeeps ==
  ASSUME HooksInv, hook \notin {"useEscrow", "useWallet"}, NEW c \in Call, NEW ok \in BOOLEAN, Answered(c),
         IF latest = c THEN loading' = FALSE /\ error' = ~ok ELSE UNCHANGED <<loading, error, shown>>,
         latest = c /\ hook \in {"useProfile", "useBalance"}
           => shown' \in {None, shown, [of |-> c, for |-> use[c].for, pending |-> FALSE]},
         latest = c /\ hook \notin {"useProfile", "useBalance"}
           => shown' \in {shown, [of |-> c, for |-> None, pending |-> FALSE]},
         UNCHANGED <<hook, latest, rendered, effective, history>>
  PROVE  HooksInv'
<1>0. HooksTypeOK /\ HooksAgree /\ Expected /\ Addressed /\ Connecting
  BY DEF HooksInv
<1>2. /\ use' \in [Call -> Use]
      /\ c \in Open /\ Open' = Open \ {c}
      /\ \A d \in Call \ {c} : use'[d] = use[d]
  BY <1>0, AnsweredFacts
<1>3. use[c].for \in Account \cup {None}
  BY <1>0 DEF HooksTypeOK
<1>4. /\ shown' \in Data \cup {None}
      /\ shown' # None => ~shown'.pending
      /\ hook \in {"useProfile", "useBalance"} /\ shown' \notin {None, shown} => shown'.for = use[c].for /\ latest = c
  <2>1. shown \in Data \cup {None} /\ (shown # None => ~shown.pending)
    BY <1>0 DEF HooksTypeOK, Expected
  <2>2. [of |-> c, for |-> use[c].for, pending |-> FALSE] \in Data
        /\ [of |-> c, for |-> use[c].for, pending |-> FALSE].for = use[c].for
        /\ [of |-> c, for |-> use[c].for, pending |-> FALSE].pending = FALSE
    BY <1>3, ShownOf
  <2>3. [of |-> c, for |-> None, pending |-> FALSE] \in Data
        /\ [of |-> c, for |-> None, pending |-> FALSE].pending = FALSE
    BY ShownOf
  <2> QED
    BY <2>1, <2>2, <2>3
<1>5. loading' \in BOOLEAN /\ error' \in BOOLEAN
  BY <1>0 DEF HooksTypeOK
<1>6. HooksTypeOK'
  BY <1>0, <1>2, <1>4, <1>5 DEF HooksTypeOK, Use, history
<1>7. LoadingIsLatest' /\ Addressed'
  BY <1>0, <1>2 DEF HooksAgree, LoadingIsLatest, Addressed, Open, history
<1>8. ShownIsRendered'
  BY <1>0, <1>2, <1>4 DEF HooksAgree, ShownIsRendered, Addressed, history
<1>9. PlaceholdersEnd'
  BY <1>4 DEF PlaceholdersEnd
<1>10. \A d \in Open' : ~use'[d].optimistic
  BY <1>0, <1>2 DEF Expected, Open
<1>11. Expected'
  BY <1>4, <1>10 DEF Expected
<1>12. DisconnectHolds' /\ Connecting'
  BY <1>0 DEF DisconnectHolds, Connecting, history
<1> QED
  BY <1>6, <1>7, <1>8, <1>9, <1>11, <1>12 DEF HooksInv, HooksAgree

\* A connect of useWallet.
LEMMA ConnectKeeps == ASSUME HooksInv, NEW c \in Call, ConnectWallet(c) PROVE HooksInv'
<1>0. HooksTypeOK /\ HooksAgree /\ Expected /\ Addressed /\ Connecting
  BY DEF HooksInv
<1>1. /\ hook = "useWallet" /\ Opened(c, "act", FALSE, None)
      /\ loading' = TRUE /\ error' = FALSE /\ departed' = FALSE
      /\ overlapped' = (overlapped \/ Open # {})
      /\ UNCHANGED <<hook, latest, shown, rendered, effective, usurped, overtaken, renders, outdated>>
  BY DEF ConnectWallet
<1>2. /\ use' \in [Call -> Use]
      /\ c \notin Open /\ Open' = Open \cup {c}
      /\ use'[c].optimistic = FALSE
      /\ \A d \in Call \ {c} : use'[d] = use[d]
  BY <1>0, <1>1, OpenedFacts
<1>3. overlapped' \in BOOLEAN
  BY <1>0, <1>1 DEF HooksTypeOK
<1>4. HooksTypeOK'
  BY <1>0, <1>1, <1>2, <1>3 DEF HooksTypeOK, Use
<1>5. LoadingIsLatest' /\ ShownIsRendered' /\ Addressed' /\ DisconnectHolds'
  BY <1>1, <1>2 DEF LoadingIsLatest, ShownIsRendered, Addressed, DisconnectHolds
<1>6. shown # None => ~shown.pending
  BY <1>0, <1>1 DEF Expected
<1>7. PlaceholdersEnd'
  BY <1>1, <1>6 DEF PlaceholdersEnd
<1>8. \A d \in Open' : ~use'[d].optimistic
  BY <1>0, <1>1, <1>2 DEF Expected, Open
<1>9. Expected'
  BY <1>1, <1>6, <1>8 DEF Expected
<1>10. Connecting'
  BY <1>0, <1>1, <1>2 DEF Connecting
<1> QED
  BY <1>4, <1>5, <1>7, <1>9, <1>10 DEF HooksInv, HooksAgree

\* It is answered; without another one that is open nothing is loading any more.
LEMMA ConnectSettlesKeeps ==
  ASSUME HooksInv, NEW c \in Call, NEW ok \in BOOLEAN, ConnectSettles(c, ok) PROVE HooksInv'
<1>0. HooksTypeOK /\ HooksAgree /\ Expected /\ Addressed /\ Connecting
  BY DEF HooksInv
<1>1. /\ hook = "useWallet" /\ Answered(c) /\ loading' = FALSE
      /\ shown' = [of |-> c, for |-> None, pending |-> FALSE] \/ shown' = shown
      /\ error' = error \/ error' = TRUE
      /\ overlapped' = (overlapped /\ Open # {c})
      /\ UNCHANGED <<hook, latest, rendered, effective, usurped, overtaken, departed, renders, outdated>>
  BY DEF ConnectSettles
<1>2. /\ use' \in [Call -> Use]
      /\ c \in Open /\ Open' = Open \ {c}
      /\ \A d \in Call \ {c} : use'[d] = use[d]
  BY <1>0, <1>1, AnsweredFacts
<1>3. shown' \in Data \cup {None} /\ (shown' # None => ~shown'.pending)
  <2>1. CASE shown' = [of |-> c, for |-> None, pending |-> FALSE]
    BY <2>1, ShownOf
  <2>2. CASE shown' = shown
    BY <1>0, <1>1, <2>2 DEF HooksTypeOK, Expected
  <2> QED
    BY <1>1, <2>1, <2>2
<1>4. overlapped' \in BOOLEAN /\ error' \in BOOLEAN
  BY <1>0, <1>1 DEF HooksTypeOK
<1>5. HooksTypeOK'
  BY <1>0, <1>1, <1>2, <1>3, <1>4 DEF HooksTypeOK, Use
<1>6. ~overlapped' => Open' = {}
  BY <1>0, <1>1, <1>2 DEF Connecting
<1>7. LoadingIsLatest' /\ Connecting'
  BY <1>0, <1>1, <1>2, <1>6 DEF LoadingIsLatest, Connecting
<1>8. ShownIsRendered' /\ Addressed' /\ PlaceholdersEnd'
  BY <1>1, <1>3 DEF ShownIsRendered, Addressed, PlaceholdersEnd
<1>9. DisconnectHolds'
  BY <1>0, <1>1, <1>2 DEF DisconnectHolds, Connecting
<1>10. \A d \in Open' : ~use'[d].optimistic
  BY <1>0, <1>1, <1>2 DEF Expected, Open
<1>11. Expected'
  BY <1>1, <1>3, <1>10 DEF Expected
<1> QED
  BY <1>5, <1>7, <1>8, <1>9, <1>11 DEF HooksInv, HooksAgree

\* Steps that leave the calls alone.
LEMMA QuietKeeps ==
  ASSUME HooksInv, \/ \E a \in Account \cup {None} : Render(a)
                   \/ ResetStatus \/ ResetError \/ Disconnect \/ UNCHANGED hooksVars
  PROVE  HooksInv'
<1>0. HooksTypeOK /\ HooksAgree /\ Expected /\ Addressed /\ Connecting
  BY DEF HooksInv
<1>1. ASSUME NEW a \in Account \cup {None}, Render(a) PROVE HooksInv'
  <2>1. /\ hook \in {"useProfile", "useBalance"} /\ effective = rendered
        /\ a # rendered /\ rendered' = a /\ renders' = renders \cup {a}
        /\ UNCHANGED <<hook, latest, loading, error, shown, effective, use, usurped, overtaken, departed,
                       overlapped, outdated>>
    BY <1>1 DEF Render, display
  <2>2. Open' = Open
    BY <2>1 DEF Open
  <2>3. HooksTypeOK'
    BY <1>0, <2>1 DEF HooksTypeOK
  <2>4. LoadingIsLatest' /\ PlaceholdersEnd' /\ ShownIsRendered' /\ DisconnectHolds'
    BY <1>0, <2>1, <2>2 DEF HooksAgree, LoadingIsLatest, PlaceholdersEnd, ShownIsRendered, DisconnectHolds
  <2>5. Expected' /\ Addressed' /\ Connecting'
    BY <1>0, <2>1, <2>2 DEF Expected, Addressed, Connecting
  <2> QED
    BY <2>3, <2>4, <2>5 DEF HooksInv, HooksAgree
<1>2. CASE ResetStatus
  <2>1. /\ hook = "useTransaction"
        /\ latest' = None /\ loading' = FALSE /\ error' = FALSE /\ shown' = None
        /\ UNCHANGED <<hook, rendered, effective, use, usurped, overtaken, departed, overlapped, renders,
                       outdated>>
    BY <1>2 DEF ResetStatus, history
  <2>2. Open' = Open /\ None \notin Open
    BY <2>1, CallsAssumption DEF Open
  <2>3. HooksTypeOK'
    BY <1>0, <2>1 DEF HooksTypeOK
  <2>4. LoadingIsLatest' /\ PlaceholdersEnd' /\ ShownIsRendered' /\ DisconnectHolds'
    BY <2>1, <2>2 DEF LoadingIsLatest, PlaceholdersEnd, ShownIsRendered, DisconnectHolds
  <2>5. Expected' /\ Addressed' /\ Connecting'
    BY <1>0, <2>1, <2>2 DEF Expected, Addressed, Connecting
  <2> QED
    BY <2>3, <2>4, <2>5 DEF HooksInv, HooksAgree
<1>3. CASE ResetError
  <2>1. /\ hook = "useWallet" /\ error' = FALSE
        /\ UNCHANGED <<hook, latest, loading, shown, rendered, effective, use, usurped, overtaken, departed,
                       overlapped, renders, outdated>>
    BY <1>3 DEF ResetError, history
  <2>2. Open' = Open
    BY <2>1 DEF Open
  <2>3. HooksTypeOK'
    BY <1>0, <2>1 DEF HooksTypeOK
  <2>4. LoadingIsLatest' /\ PlaceholdersEnd' /\ ShownIsRendered' /\ DisconnectHolds'
    BY <1>0, <2>1, <2>2 DEF HooksAgree, LoadingIsLatest, PlaceholdersEnd, ShownIsRendered, DisconnectHolds
  <2>5. Expected' /\ Addressed' /\ Connecting'
    BY <1>0, <2>1, <2>2 DEF Expected, Addressed, Connecting
  <2> QED
    BY <2>3, <2>4, <2>5 DEF HooksInv, HooksAgree
<1>4. CASE Disconnect
  <2>1. /\ hook = "useWallet" /\ shown' = None /\ error' = FALSE
        /\ departed' = TRUE /\ overtaken' = (Open # {})
        /\ UNCHANGED <<hook, latest, loading, rendered, effective, use, usurped, overlapped, renders, outdated>>
    BY <1>4 DEF Disconnect
  <2>2. Open' = Open
    BY <2>1 DEF Open
  <2>3. overtaken' \in BOOLEAN
    BY <2>1
  <2>4. HooksTypeOK'
    BY <1>0, <2>1, <2>3 DEF HooksTypeOK
  <2>5. LoadingIsLatest' /\ PlaceholdersEnd' /\ ShownIsRendered' /\ DisconnectHolds'
    BY <1>0, <2>1, <2>2 DEF HooksAgree, LoadingIsLatest, PlaceholdersEnd, ShownIsRendered, DisconnectHolds
  <2>6. Expected' /\ Addressed' /\ Connecting'
    BY <1>0, <2>1, <2>2 DEF Expected, Addressed, Connecting
  <2> QED
    BY <2>4, <2>5, <2>6 DEF HooksInv, HooksAgree
<1>5. CASE UNCHANGED hooksVars
  <2>1. UNCHANGED <<hook, latest, loading, error, shown, rendered, effective, use, usurped, overtaken,
                    departed, overlapped, renders, outdated>>
    BY <1>5 DEF hooksVars, display, history
  <2>2. Open' = Open
    BY <2>1 DEF Open
  <2>3. HooksTypeOK'
    BY <1>0, <2>1 DEF HooksTypeOK
  <2>4. LoadingIsLatest' /\ PlaceholdersEnd' /\ ShownIsRendered' /\ DisconnectHolds'
    BY <1>0, <2>1, <2>2 DEF HooksAgree, LoadingIsLatest, PlaceholdersEnd, ShownIsRendered, DisconnectHolds
  <2>5. Expected' /\ Addressed' /\ Connecting'
    BY <1>0, <2>1, <2>2 DEF Expected, Addressed, Connecting
  <2> QED
    BY <2>3, <2>4, <2>5 DEF HooksInv, HooksAgree
<1> QED
  BY <1>1, <1>2, <1>3, <1>4, <1>5

\* The effect of a component that is rendered with another address, or without one.
LEMMA EffectKeeps == ASSUME HooksInv, NEW c \in Call, Effect(c) PROVE HooksInv'
<1>0. HooksTypeOK /\ HooksAgree /\ Expected /\ Addressed /\ Connecting
  BY DEF HooksInv
<1>1. /\ hook \in {"useProfile", "useBalance"}
      /\ effective' = rendered /\ error' = FALSE /\ shown' = None /\ outdated' = FALSE
      /\ UNCHANGED <<hook, rendered, usurped, overtaken, departed, overlapped, renders>>
  BY DEF Effect
<1>2. rendered \in Account \cup {None}
  BY <1>0 DEF HooksTypeOK
<1>3. CASE rendered # None
  <2>1. latest' = c /\ loading' = TRUE /\ Opened(c, "read", FALSE, rendered)
    BY <1>3 DEF Effect
  <2> QED
    BY <1>1, <1>2, <2>1, StartKeeps
<1>4. CASE rendered = None
  <2>1. latest' = None /\ loading' = FALSE /\ use' = use
    BY <1>4 DEF Effect
  <2>2. Open' = Open /\ None \notin Open
    BY <2>1, CallsAssumption DEF Open
  <2>3. HooksTypeOK'
    BY <1>0, <1>1, <2>1 DEF HooksTypeOK
  <2>4. LoadingIsLatest' /\ PlaceholdersEnd' /\ ShownIsRendered' /\ DisconnectHolds'
    BY <1>1, <2>1, <2>2 DEF LoadingIsLatest, PlaceholdersEnd, ShownIsRendered, DisconnectHolds
  <2>5. Expected' /\ Addressed' /\ Connecting'
    BY <1>0, <1>1, <2>1, <2>2 DEF Expected, Addressed, Connecting
  <2> QED
    BY <2>3, <2>4, <2>5 DEF HooksInv, HooksAgree
<1> QED
  BY <1>3, <1>4

\* An update is for the address of the render that made it; of an earlier one, it is outdated.
LEMMA UpdateKeeps ==
  ASSUME HooksInv, NEW c \in Call, NEW a \in Account \cup {None}, UpdateProfile(c, a) PROVE HooksInv'
<1>0. HooksTypeOK /\ HooksAgree /\ Expected /\ Addressed /\ Connecting
  BY DEF HooksInv
<1>1. /\ hook = "useProfile"
      /\ UNCHANGED <<hook, shown, rendered, effective, usurped, overtaken, departed, overlapped, renders>>
  BY DEF UpdateProfile
<1>2. outdated \in BOOLEAN
  BY <1>0 DEF HooksTypeOK
<1>3. CASE a # None
  <2>1. /\ Opened(c, "act", FALSE, a) /\ latest' = c /\ loading' = TRUE /\ error' = FALSE
        /\ outdated' = (outdated \/ a # rendered)
    BY <1>3 DEF UpdateProfile
  <2>2. outdated' \in BOOLEAN /\ (outdated => outdated') /\ (a = rendered \/ outdated')
    BY <1>2, <2>1
  <2> QED
    BY <1>1, <2>1, <2>2, StartKeeps
<1>4. CASE a = None
  <2>1. error' = TRUE /\ UNCHANGED <<latest, loading, use, outdated>>
    BY <1>4 DEF UpdateProfile
  <2>2. Open' = Open
    BY <2>1 DEF Open
  <2>3. HooksTypeOK'
    BY <1>0, <1>1, <2>1 DEF HooksTypeOK
  <2>4. LoadingIsLatest' /\ PlaceholdersEnd' /\ ShownIsRendered' /\ DisconnectHolds'
    BY <1>0, <1>1, <2>1, <2>2 DEF HooksAgree, LoadingIsLatest, PlaceholdersEnd, ShownIsRendered, DisconnectHolds
  <2>5. Expected' /\ Addressed' /\ Connecting'
    BY <1>0, <1>1, <2>1, <2>2 DEF Expected, Addressed, Connecting
  <2> QED
    BY <2>3, <2>4, <2>5 DEF HooksInv, HooksAgree
<1> QED
  BY <1>3, <1>4

\* No step leaves the invariant: one case for each action.
LEMMA HooksSteps == ASSUME HooksInv, [HooksNext]_hooksVars PROVE HooksInv'
<1>1. ASSUME NEW c \in Call, StartAction(c) PROVE HooksInv'
  <2>1. /\ hook \in {"useTransaction", "useJuror"} /\ Opened(c, "act", FALSE, None)
        /\ latest' = c /\ loading' = TRUE /\ error' = FALSE /\ shown' = None
        /\ UNCHANGED <<hook, rendered, effective, usurped, overtaken, departed, overlapped, renders, outdated>>
    BY <1>1 DEF StartAction, history
  <2>2. outdated \in BOOLEAN
    BY DEF HooksInv, HooksTypeOK
  <2> QED
    BY <2>1, <2>2, StartKeeps
<1>2. ASSUME NEW c \in Call, NEW ok \in BOOLEAN, ActionSettles(c, ok) PROVE HooksInv'
  <2>1. /\ hook \in {"useTransaction", "useJuror"} /\ Answered(c)
        /\ IF latest = c THEN loading' = FALSE /\ error' = ~ok ELSE UNCHANGED <<loading, error, shown>>
        /\ latest = c => shown' \in {shown, [of |-> c, for |-> None, pending |-> FALSE]}
        /\ UNCHANGED <<hook, latest, rendered, effective, history>>
    BY <1>2 DEF ActionSettles
  <2> QED
    BY <2>1, SettleKeeps
<1>3. ASSUME NEW c \in Call, NEW ok \in BOOLEAN, AddressedSettles(c, ok) PROVE HooksInv'
  <2>1. /\ hook \in {"useProfile", "useBalance"} /\ Answered(c)
        /\ IF latest = c THEN loading' = FALSE /\ error' = ~ok ELSE UNCHANGED <<loading, error, shown>>
        /\ latest = c => shown' \in {None, shown, [of |-> c, for |-> use[c].for, pending |-> FALSE]}
        /\ UNCHANGED <<hook, latest, rendered, effective, history>>
    BY <1>3 DEF AddressedSettles
  <2> QED
    BY <2>1, SettleKeeps
<1>4. CASE HooksNext
  BY <1>1, <1>2, <1>3, <1>4, StartEscrowKeeps, EscrowKeeps, EffectKeeps, UpdateKeeps, ConnectKeeps,
     ConnectSettlesKeeps, QuietKeeps DEF HooksNext
<1>5. CASE UNCHANGED hooksVars
  BY <1>5, QuietKeeps
<1> QED
  BY <1>4, <1>5

\* For any number of calls, in any order of their answers, and any addresses: what a hook shows
\* agrees with its calls, in the four ways that HooksAgree lists. What is shown belongs to the
\* rendered address unless an update of an earlier render was called since the effect last ran.
THEOREM HooksStayInAgreement == HooksSpec => []HooksAgree
<1>1. HooksInv => HooksAgree
  BY DEF HooksInv
<1> QED
  BY <1>1, HooksBegin, HooksSteps, PTL DEF HooksSpec

-----------------------------------------------------------------------------
(* The circuit breaker.                                                    *)

\* Every success of a half open breaker was counted as a probe, unless a callback threw.
Counted == thrown \/ successCount <= probes

BreakerInv == BreakerTypeOK /\ failureCount = failures /\ Counted

LEMMA BreakerBegins == BreakerInit => BreakerInv
<1> SUFFICES ASSUME BreakerInit PROVE BreakerInv
  OBVIOUS
<1>1. BreakerTypeOK /\ failureCount = failures
  BY DEF BreakerInit, BreakerTypeOK
<1>2. successCount <= probes
  BY DEF BreakerInit
<1> QED
  BY <1>1, <1>2 DEF BreakerInv, Counted

\* No step leaves the invariant: one case for each action.
LEMMA BreakerSteps == ASSUME BreakerInv, [BreakerNext]_breakerVars PROVE BreakerInv'
<1>0. BreakerTypeOK /\ failureCount = failures /\ Counted
  BY DEF BreakerInv
<1>1. CASE Elapse \/ Look
  BY <1>0, <1>1 DEF Elapse, Look, GetState, BreakerInv, BreakerTypeOK, Counted
<1>2. CASE ResetBreaker
  <2>1. successCount' <= probes'
    BY <1>2 DEF ResetBreaker
  <2>2. BreakerTypeOK' /\ failureCount' = failures'
    BY <1>0, <1>2 DEF ResetBreaker, BreakerTypeOK
  <2> QED
    BY <2>1, <2>2 DEF BreakerInv, Counted
<1>3. ASSUME NEW c \in Call, Execute(c) PROVE BreakerInv'
  BY <1>0, <1>3 DEF Execute, GetState, BreakerInv, BreakerTypeOK, Counted
<1>4. ASSUME NEW c \in Call, Succeeds(c) PROVE BreakerInv'
  <2>1. state' \in {"CLOSED", "OPEN", "HALF_OPEN"} /\ successCount' \in Nat /\ probes' \in Nat
        /\ failureCount' = 0 /\ failures' = 0 /\ running' \subseteq Call
    BY <1>0, <1>4 DEF Succeeds, BreakerTypeOK
  <2>2. thrown' \in BOOLEAN /\ due' \in BOOLEAN
    BY <1>0, <1>4 DEF Succeeds, BreakerTypeOK
  <2>3. CASE Closing \/ state = "CLOSED"
    <3>1. successCount' = 0
      BY <1>4, <2>3 DEF Succeeds
    <3> QED
      BY <2>1, <2>2, <3>1 DEF BreakerInv, BreakerTypeOK, Counted
  <2>4. CASE ~Closing /\ state # "CLOSED"
    <3>1. thrown => thrown'
      BY <1>4, <2>4 DEF Succeeds
    <3>2. successCount <= probes => successCount' <= probes'
      BY <1>0, <1>4, <2>4 DEF Succeeds, BreakerTypeOK
    <3>3. Counted'
      BY <1>0, <3>1, <3>2 DEF Counted
    <3> QED
      BY <2>1, <2>2, <3>3 DEF BreakerInv, BreakerTypeOK
  <2> QED
    BY <2>3, <2>4
<1>5. ASSUME NEW c \in Call, Fails(c) PROVE BreakerInv'
  <2>0. due' = FALSE \/ due' = due
    BY <1>5 DEF Fails, OnFailure
  <2>1. state' \in {"CLOSED", "OPEN", "HALF_OPEN"} /\ running' \subseteq Call
        /\ failureCount' = failures' /\ failures' \in Nat
    BY <1>0, <1>5 DEF Fails, OnFailure, BreakerTypeOK
  <2>2. thrown' = thrown /\ successCount' = successCount /\ probes' = probes
    BY <1>5 DEF Fails
  <2>3. Counted'
    BY <1>0, <2>2 DEF Counted
  <2>4. thrown' \in BOOLEAN /\ due' \in BOOLEAN /\ successCount' \in Nat /\ probes' \in Nat
    BY <1>0, <2>0, <2>2 DEF BreakerTypeOK
  <2> QED
    BY <2>1, <2>3, <2>4 DEF BreakerInv, BreakerTypeOK
<1>6. ASSUME NEW c \in Call, ClosingThrows(c) PROVE BreakerInv'
  <2>0. due' = FALSE \/ due' = due
    BY <1>6 DEF ClosingThrows
  <2>1. state' \in {"CLOSED", "OPEN", "HALF_OPEN"} /\ running' \subseteq Call
        /\ failureCount' = failures' /\ failures' \in Nat /\ successCount' \in Nat /\ probes' \in Nat
    BY <1>0, <1>6 DEF ClosingThrows, BreakerTypeOK
  <2>2. thrown' = TRUE
    BY <1>6 DEF ClosingThrows
  <2>3. thrown' \in BOOLEAN /\ due' \in BOOLEAN /\ Counted'
    BY <1>0, <2>0, <2>2 DEF BreakerTypeOK, Counted
  <2> QED
    BY <2>1, <2>3 DEF BreakerInv, BreakerTypeOK
<1>7. CASE UNCHANGED breakerVars
  BY <1>0, <1>7 DEF breakerVars, BreakerInv, BreakerTypeOK, Counted
<1> QED
  BY <1>1, <1>2, <1>3, <1>4, <1>5, <1>6, <1>7 DEF BreakerNext

\* Each step of the breaker is one of the moves that are allowed to it.
LEMMA BreakerStepMoves ==
  ASSUME BreakerInv, BreakerNext
  PROVE  OpensForFailures /\ RecoversInTime /\ ClosesForSuccesses
<1>0. BreakerTypeOK /\ failureCount = failures /\ Counted
  BY DEF BreakerInv
<1>1. CASE Elapse \/ Look \/ \E c \in Call : Execute(c)
  <2>1. state' # state => state = "OPEN" /\ due /\ state' = "HALF_OPEN"
    BY <1>1 DEF Elapse, Look, Execute, GetState
  <2> QED
    BY <2>1 DEF OpensForFailures, RecoversInTime, ClosesForSuccesses
<1>2. CASE ResetBreaker
  <2>1. state' = "CLOSED"
    BY <1>2 DEF ResetBreaker
  <2> QED
    BY <1>2, <2>1 DEF OpensForFailures, RecoversInTime, ClosesForSuccesses
<1>3. ASSUME NEW c \in Call, Fails(c)
      PROVE  OpensForFailures /\ RecoversInTime /\ ClosesForSuccesses
  <2>1. /\ state' # state => state' = "OPEN"
        /\ state = "CLOSED" /\ state' = "OPEN" => failures' >= FailureThreshold
    BY <1>0, <1>3 DEF Fails, OnFailure
  <2> QED
    BY <1>0, <2>1 DEF OpensForFailures, RecoversInTime, ClosesForSuccesses, BreakerTypeOK
<1>4. ASSUME NEW c \in Call, Succeeds(c) \/ ClosingThrows(c)
      PROVE  OpensForFailures /\ RecoversInTime /\ ClosesForSuccesses
  <2>1. state' # state => state = "HALF_OPEN" /\ successCount + 1 >= SuccessThreshold
    BY <1>4 DEF Succeeds, ClosingThrows, Closing
  <2>2. successCount + 1 >= SuccessThreshold /\ successCount <= probes => probes + 1 >= SuccessThreshold
    BY <1>0, BreakerAssumption DEF BreakerTypeOK
  <2> QED
    BY <1>0, <2>1, <2>2 DEF OpensForFailures, RecoversInTime, ClosesForSuccesses, Counted
<1> QED
  BY <1>1, <1>2, <1>3, <1>4 DEF BreakerNext

\* Whatever the thresholds, the calls and the order of their answers: the breaker opens only
\* for failures, is tried again only when it is due, and closes only for enough successes.
THEOREM BreakerMovesHold == BreakerSpec => BreakerMoves
<1>1. BreakerInv /\ [BreakerNext]_breakerVars
        => [OpensForFailures /\ RecoversInTime /\ ClosesForSuccesses]_breakerVars
  BY BreakerStepMoves
<1> QED
  BY <1>1, BreakerBegins, BreakerSteps, PTL DEF BreakerSpec, BreakerMoves

-----------------------------------------------------------------------------
(* Requests that are shared.                                               *)

\* What a request leaves behind: a call that has none was not made, and one from before
\* the last clear was.
CallsMade == /\ \A c \in Call : follows[c] = None => request[c] = "none"
             /\ obsolete \subseteq {c \in Call : follows[c] # None}
             /\ ~crossed => Flying \cap obsolete = {}

DedupInv == DedupTypeOK /\ CallsMade /\ RequestsAreShared

LEMMA DedupBegins == DedupInit => DedupInv
BY DEF DedupInit, DedupInv, DedupTypeOK, CallsMade, RequestsAreShared, Flying

\* The slot of the promise that is shared is empty only when no request is open.
LEMMA NobodyFlies ==
  ASSUME DedupInv, ~crossed, inFlight = None
  PROVE  Flying = {}
BY CallsAssumption DEF DedupInv, RequestsAreShared, Flying

\* No step leaves the invariant: one case for each action.
LEMMA DedupSteps == ASSUME DedupInv, [DedupNext]_dedupVars PROVE DedupInv'
<1>0. DedupTypeOK /\ CallsMade /\ RequestsAreShared
  BY DEF DedupInv
<1>1. CASE Expire
  BY <1>0, <1>1 DEF Expire, DedupInv, DedupTypeOK, CallsMade, RequestsAreShared, Flying
<1>2. CASE Clear
  <2>1. DedupTypeOK' /\ CallsMade'
    BY <1>0, <1>2 DEF Clear, DedupTypeOK, CallsMade, Flying
  <2>2. ~crossed' => Flying' = {}
    BY <1>2 DEF Clear, Flying
  <2>3. RequestsAreShared'
    BY <1>2, <2>2, CallsAssumption DEF Clear, RequestsAreShared
  <2> QED
    BY <2>1, <2>3 DEF DedupInv
<1>3. ASSUME NEW c \in Call, AnswerFromCache(c) PROVE DedupInv'
  BY <1>0, <1>3, CallsAssumption DEF AnswerFromCache, DedupInv, DedupTypeOK, CallsMade, RequestsAreShared, Flying, Cached
<1>4. ASSUME NEW c \in Call, NEW skip \in BOOLEAN, Follow(c, skip) PROVE DedupInv'
  <2>1. (resolved' = resolved /\ expired' = expired) \/ (resolved' = None /\ expired' = FALSE)
    BY <1>4 DEF Follow, Looked
  <2>2. inFlight \in Call
    BY <1>0, <1>4 DEF Follow, DedupTypeOK
  <2>3. DedupTypeOK' /\ CallsMade'
    BY <1>0, <1>4, <2>1, <2>2, CallsAssumption DEF Follow, DedupTypeOK, CallsMade, Flying
  <2>4. RequestsAreShared'
    BY <1>0, <1>4, <2>1, CallsAssumption DEF Follow, DedupTypeOK, RequestsAreShared, Flying
  <2> QED
    BY <2>3, <2>4 DEF DedupInv
<1>5. ASSUME NEW c \in Call, NEW skip \in BOOLEAN, NEW ttl \in BOOLEAN, Request(c, skip, ttl) PROVE DedupInv'
  <2>1. (resolved' = resolved /\ expired' = expired) \/ (resolved' = None /\ expired' = FALSE)
    BY <1>5 DEF Request, Looked
  <2>2. request' \in [Call -> {"none", "open", "opencached", "settled"}]
        /\ request'[c] \in {"open", "opencached"} /\ \A d \in Call \ {c} : request'[d] = request[d]
    BY <1>0, <1>5 DEF Request, DedupTypeOK
  <2>3. follows' \in [Call -> Call \cup {None}]
        /\ follows'[c] = c /\ \A d \in Call \ {c} : follows'[d] = follows[d]
    BY <1>0, <1>5 DEF Request, DedupTypeOK
  <2>4. Flying' = Flying \cup {c}
    BY <2>2 DEF Flying
  <2>5. c \notin obsolete
    BY <1>0, <1>5 DEF CallsMade, Request
  <2>6. DedupTypeOK'
    BY <1>0, <1>5, <2>1, <2>2, <2>3 DEF Request, DedupTypeOK
  <2>7. CallsMade'
    BY <1>0, <1>5, <2>2, <2>3, <2>4, <2>5, CallsAssumption DEF Request, CallsMade
  <2>8. ~crossed => Flying = {}
    BY <1>5, NobodyFlies DEF Request
  <2>9. RequestsAreShared'
    BY <1>0, <1>5, <2>1, <2>4, <2>8, CallsAssumption DEF Request, RequestsAreShared, DedupTypeOK
  <2> QED
    BY <2>6, <2>7, <2>9 DEF DedupInv
<1>6. ASSUME NEW c \in Call, NEW skip \in BOOLEAN, RequestThrows(c, skip) PROVE DedupInv'
  <2>1. (resolved' = resolved /\ expired' = expired) \/ (resolved' = None /\ expired' = FALSE)
    BY <1>6 DEF RequestThrows, Looked
  <2>2. request' \in [Call -> {"none", "open", "opencached", "settled"}]
        /\ request'[c] = "settled" /\ \A d \in Call \ {c} : request'[d] = request[d]
    BY <1>0, <1>6 DEF RequestThrows, DedupTypeOK
  <2>3. follows' \in [Call -> Call \cup {None}]
        /\ follows'[c] = c /\ \A d \in Call \ {c} : follows'[d] = follows[d]
    BY <1>0, <1>6 DEF RequestThrows, DedupTypeOK
  <2>4. Flying' \subseteq Flying
    BY <2>2 DEF Flying
  <2>5. DedupTypeOK' /\ poisoned'
    BY <1>0, <1>6, <2>1, <2>2, <2>3 DEF RequestThrows, DedupTypeOK
  <2>6. CallsMade'
    BY <1>0, <1>6, <2>2, <2>3, <2>4, CallsAssumption DEF RequestThrows, CallsMade
  <2>7. ~crossed => Flying = {}
    BY <1>6, NobodyFlies DEF RequestThrows
  <2>8. RequestsAreShared'
    BY <1>0, <1>6, <2>1, <2>4, <2>5, <2>7, CallsAssumption DEF RequestThrows, RequestsAreShared, DedupTypeOK
  <2> QED
    BY <2>5, <2>6, <2>8 DEF DedupInv
<1>7. ASSUME NEW c \in Call, NEW ok \in BOOLEAN, Settle(c, ok) PROVE DedupInv'
  <2>1. (resolved' = resolved /\ expired' = expired) \/ (resolved' = c /\ expired' = FALSE)
    BY <1>7 DEF Settle
  <2>2. request' \in [Call -> {"none", "open", "opencached", "settled"}]
        /\ request'[c] = "settled" /\ \A d \in Call \ {c} : request'[d] = request[d]
    BY <1>0, <1>7 DEF Settle, DedupTypeOK
  <2>3. Flying' = Flying \ {c} /\ c \in Flying
    BY <1>7, <2>2 DEF Flying, Settle
  <2>4. follows[c] # None
    BY <1>0, <2>3 DEF CallsMade, Flying
  <2>5. DedupTypeOK' /\ CallsMade'
    BY <1>0, <1>7, <2>1, <2>2, <2>3, <2>4 DEF Settle, DedupTypeOK, CallsMade
  <2>6. ~crossed => c \notin obsolete /\ Flying \subseteq {c}
    BY <1>0, <2>3 DEF CallsMade, RequestsAreShared
  <2>7. RequestsAreShared'
    BY <1>0, <1>7, <2>1, <2>3, <2>6 DEF Settle, RequestsAreShared
  <2> QED
    BY <2>5, <2>7 DEF DedupInv
<1>8. CASE UNCHANGED dedupVars
  BY <1>0, <1>8 DEF dedupVars, DedupInv, DedupTypeOK, CallsMade, RequestsAreShared, Flying
<1> QED
  BY <1>1, <1>2, <1>3, <1>4, <1>5, <1>6, <1>7, <1>8 DEF DedupNext

\* For any number of calls of a key: what RequestsAreShared says of the requests that are
\* shared, of what is cached and of clear holds at all times.
THEOREM RequestsStayShared == DedupSpec => []RequestsAreShared
<1>1. DedupInv => RequestsAreShared
  BY DEF DedupInv
<1> QED
  BY <1>1, DedupBegins, DedupSteps, PTL DEF DedupSpec

-----------------------------------------------------------------------------
(* The agents of the connection pools.                                     *)

\* The agents that are in use were made, and nobody shares one.
Separate == /\ InUse \subseteq 1 .. agents
            /\ \A i \in Instance : agentPair[i] \cap own = {}
            /\ \A i, j \in Instance : i # j => agentPair[i] \cap agentPair[j] = {}

PoolInv == PoolTypeOK /\ Separate /\ PoolsAreTracked

LEMMA PoolBegins == PoolInit => PoolInv
BY PoolAssumption DEF PoolInit, PoolInv, PoolTypeOK, Separate, PoolsAreTracked, InUse, Agent

\* No step leaves the invariant: one case for each kind of agent.
LEMMA PoolSteps == ASSUME PoolInv, [PoolNext]_poolVars PROVE PoolInv'
<1>0. PoolTypeOK /\ Separate /\ PoolsAreTracked
  BY DEF PoolInv
<1>1. CASE createAgent
  <2>1. agents' \in Agent /\ agents' \notin 1 .. agents /\ 1 .. agents \subseteq 1 .. agents'
        /\ agents' \in 1 .. agents' /\ agents' \in 0 .. MaxAgents
    BY <1>0, <1>1, PoolAssumption DEF createAgent, PoolTypeOK, Agent
  <2>2. InUse' = InUse \cup {agents'}
    BY <1>1 DEF createAgent, InUse
  <2>3. PoolTypeOK'
    BY <1>0, <1>1, <2>1 DEF createAgent, PoolTypeOK
  <2>4. \A i \in Instance : agentPair[i] \subseteq InUse
    BY DEF InUse
  <2>5. Separate'
    BY <1>0, <1>1, <2>1, <2>2, <2>4 DEF createAgent, Separate
  <2>6. PoolsAreTracked'
    BY <1>0, <1>1, <2>2 DEF createAgent, PoolsAreTracked
  <2> QED
    BY <2>3, <2>5, <2>6 DEF PoolInv
<1>2. ASSUME NEW i \in Instance, configureAxiosConnectionPool(i) PROVE PoolInv'
  <2> DEFINE new == {agents + 1, agents + 2}
  <2>1. new \subseteq Agent /\ new \cap 1 .. agents = {} /\ 1 .. agents \subseteq 1 .. agents'
        /\ new \subseteq 1 .. agents' /\ agents' \in 0 .. MaxAgents
    BY <1>0, <1>2, PoolAssumption DEF configureAxiosConnectionPool, PoolTypeOK, Agent
  <2>2. /\ activePools' = (activePools \ agentPair[i]) \cup new
        /\ sockets' = sockets \ agentPair[i]
        /\ agentPair' = [agentPair EXCEPT ![i] = new]
        /\ own' = own /\ revived' = revived
    BY <1>2 DEF configureAxiosConnectionPool
  <2> HIDE DEF new
  <2>3. agentPair'[i] = new /\ (\A j \in Instance \ {i} : agentPair'[j] = agentPair[j])
        /\ agentPair' \in [Instance -> SUBSET Agent]
    BY <1>0, <2>1, <2>2 DEF PoolTypeOK
  <2>4. InUse' \subseteq InUse \cup new
    BY <2>2, <2>3 DEF InUse
  <2>5. InUse \ agentPair[i] \subseteq InUse' /\ new \subseteq InUse'
    BY <2>2, <2>3 DEF InUse
  <2>6. PoolTypeOK'
    BY <1>0, <2>1, <2>2, <2>3 DEF PoolTypeOK
  <2>7. \A j \in Instance : agentPair[j] \cap new = {}
    BY <1>0, <2>1 DEF Separate, InUse
  <2>8. own \cap new = {}
    BY <1>0, <2>1 DEF Separate, InUse
  <2>9. Separate'
    BY <1>0, <2>1, <2>2, <2>3, <2>4, <2>7, <2>8 DEF Separate
  <2>10. PoolsAreTracked'
    BY <1>0, <2>2, <2>5 DEF PoolsAreTracked
  <2> QED
    BY <2>6, <2>9, <2>10 DEF PoolInv
<1>3. ASSUME NEW a \in Agent, destroyPoolAgent(a) \/ OpenSocket(a) \/ CloseSocket(a) PROVE PoolInv'
  <2>1. PoolTypeOK'
    BY <1>0, <1>3 DEF destroyPoolAgent, OpenSocket, CloseSocket, PoolTypeOK
  <2>2. Separate' /\ InUse' = InUse
    BY <1>0, <1>3 DEF destroyPoolAgent, OpenSocket, CloseSocket, Separate, InUse
  <2>3. PoolsAreTracked'
    BY <1>0, <1>3, <2>2 DEF destroyPoolAgent, OpenSocket, CloseSocket, PoolsAreTracked
  <2> QED
    BY <2>1, <2>2, <2>3 DEF PoolInv
<1>4. CASE destroyAllPoolAgents \/ UNCHANGED poolVars
  BY <1>0, <1>4 DEF destroyAllPoolAgents, poolVars, PoolInv, PoolTypeOK, Separate, PoolsAreTracked, InUse
<1> QED
  BY <1>1, <1>2, <1>3, <1>4 DEF PoolNext

\* For any number of agents and Axios instances: what PoolsAreTracked says of the sockets
\* that destroyAllPoolAgents closes, and of agents that were replaced, holds at all times.
THEOREM PoolsStayTracked == PoolSpec => []PoolsAreTracked
<1>1. PoolInv => PoolsAreTracked
  BY DEF PoolInv
<1> QED
  BY <1>1, PoolBegins, PoolSteps, PTL DEF PoolSpec

-----------------------------------------------------------------------------
(* Fees: a multiplication that is rounded up, the ladder, the estimate.    *)

Raises(m) == Bps(m) > 10000

\* A multiplier that does not shrink a fee is at least ten thousand basis points.
LEMMA BpsType == ASSUME NEW m \in Nat PROVE Bps(m) \in Nat /\ (m >= One => Bps(m) >= 10000)
BY DEF Bps, One

\* What Times returns is the least fee that is enough.
LEMMA TimesType ==
  ASSUME NEW fee \in Nat, NEW m \in Nat
  PROVE  /\ Times(fee, m) \in Nat
         /\ 10000 * Times(fee, m) >= fee * Bps(m)
<1> DEFINE x == fee * Bps(m)
<1>1. x \in Nat
  BY BpsType, SMT
<1> HIDE DEF x
<1>2. (x + 9999) \div 10000 \in Nat /\ 10000 * ((x + 9999) \div 10000) >= x
  BY <1>1
<1> QED
  BY <1>2 DEF Times, x

\* A quotient that is enough for a factor of at least ten thousand.
LEMMA QuotientRaises ==
  ASSUME NEW fee \in Nat, NEW b \in Nat, NEW t \in Nat, b >= 10000, 10000 * t >= fee * b
  PROVE  fee <= t /\ (b > 10000 /\ fee > 0 => fee < t)
<1>1. fee * b >= fee * 10000
  OBVIOUS
<1>2. b >= 10001 => fee * b >= fee * 10001
  OBVIOUS
<1> QED
  BY <1>1, <1>2

\* A factor of at least one never shrinks a fee, and one that is more in basis points raises it.
LEMMA TimesRaises ==
  ASSUME NEW fee \in Nat, NEW m \in Nat
  PROVE  m >= One => /\ fee <= Times(fee, m)
                     /\ Raises(m) /\ fee > 0 => fee < Times(fee, m)
<1>1. Times(fee, m) \in Nat /\ 10000 * Times(fee, m) >= fee * Bps(m)
  BY TimesType
<1>2. Bps(m) \in Nat /\ (m >= One => Bps(m) >= 10000)
  BY BpsType
<1> QED
  BY <1>1, <1>2, QuotientRaises DEF Raises

\* Of two fees the lower one is multiplied to the lower one.
LEMMA TimesMonotone ==
  ASSUME NEW f \in Nat, NEW g \in Nat, NEW m \in Nat, f <= g
  PROVE  Times(f, m) <= Times(g, m)
<1> DEFINE b == Bps(m) x == f * b y == g * b
<1>1. b \in Nat
  BY BpsType
<1> HIDE DEF b
<1>2. x \in Nat /\ y \in Nat /\ x <= y
  BY <1>1
<1> HIDE DEF x, y
<1>3. (x + 9999) \div 10000 <= (y + 9999) \div 10000
  BY <1>2
<1> QED
  BY <1>3 DEF Times, x, y, b

\* Every bump is an offer above the base fee before it, which is never below the fee.
Offers ==
  /\ txFee <= baseFee \/ rungs = <<>>
  /\ \A i \in DOMAIN rungs : rungs[i] <= baseFee
  /\ multiplier > One

FeesInv == FeesTypeOK /\ Offers /\ LadderClimbs

LEMMA FeesBegin == FeesInit => FeesInv
BY FeesAssumption DEF FeesInit, FeesInv, FeesTypeOK, Offers, LadderClimbs, Raising

\* The greatest of three fees.
LEMMA GreatestOf ==
  ASSUME NEW f \in Nat, NEW g \in Nat, NEW h \in Nat
  PROVE  /\ Greatest({f, g, h}) \in {f, g, h}
         /\ f <= Greatest({f, g, h}) /\ g <= Greatest({f, g, h}) /\ h <= Greatest({f, g, h})
<1>1. \E x \in {f, g, h} : \A y \in {f, g, h} : y <= x
  <2>1. CASE f <= h /\ g <= h
    BY <2>1
  <2>2. CASE f <= g /\ h <= g
    BY <2>2
  <2>3. CASE g <= f /\ h <= f
    BY <2>3
  <2> QED
    BY <2>1, <2>2, <2>3
<1> QED
  BY <1>1 DEF Greatest

\* A bump is an offer above all those before it.
LEMMA BumpSteps == ASSUME FeesInv, NEW p90 \in Nat, Bump(p90) PROVE FeesInv'
<1>0. FeesTypeOK /\ Offers /\ LadderClimbs
  BY DEF FeesInv
<1> DEFINE top == Greatest({baseFee, txFee, p90})
<1>1. top \in Nat /\ baseFee <= top /\ txFee <= top
  BY <1>0, GreatestOf DEF FeesTypeOK
<1>2. baseFee' = Times(top, multiplier) /\ rungs' = Append(rungs, baseFee')
      /\ Len(rungs) < MaxBumps
      /\ txFee' = txFee /\ resourceFee' = resourceFee /\ padding' = padding
      /\ tolerance' = tolerance /\ multiplier' = multiplier
  BY DEF Bump
<1> HIDE DEF top
<1>3. multiplier \in Nat /\ multiplier >= One /\ multiplier > One
  BY <1>0 DEF FeesTypeOK, Offers, One
<1>4. baseFee' \in Nat
  BY <1>1, <1>2, <1>3, TimesType
<1>5. top <= baseFee' /\ (Raises(multiplier) /\ top > 0 => top < baseFee')
  BY <1>1, <1>2, <1>3, TimesRaises
<1>6. rungs \in Seq(Nat) /\ rungs' \in Seq(Nat) /\ Len(rungs') = Len(rungs) + 1
      /\ DOMAIN rungs = 1 .. Len(rungs) /\ DOMAIN rungs' = 1 .. Len(rungs) + 1
      /\ rungs'[Len(rungs) + 1] = baseFee' /\ \A i \in 1 .. Len(rungs) : rungs'[i] = rungs[i]
  BY <1>0, <1>2, <1>4 DEF FeesTypeOK
<1>7. FeesTypeOK'
  BY <1>0, <1>2, <1>4, <1>6, FeesAssumption DEF FeesTypeOK
<1>8. \A i \in 1 .. Len(rungs) : rungs[i] \in Nat /\ rungs[i] <= top
  <2>1. \A i \in 1 .. Len(rungs) : rungs[i] \in Nat /\ rungs[i] <= baseFee
    BY <1>0, <1>6, SMTT(30) DEF Offers
  <2>2. baseFee \in Nat
    BY <1>0 DEF FeesTypeOK
  <2> QED
    BY <1>1, <2>1, <2>2
<1>9. Offers'
  <2>1. \A i \in 1 .. Len(rungs) + 1 : rungs'[i] <= baseFee'
    BY <1>1, <1>4, <1>5, <1>6, <1>8, SMTT(30)
  <2>2. txFee <= baseFee'
    BY <1>0, <1>1, <1>4, <1>5 DEF FeesTypeOK
  <2> QED
    BY <1>2, <1>3, <1>6, <2>1, <2>2 DEF Offers
<1>10. LadderClimbs'
  <2> SUFFICES ASSUME NEW j \in 1 .. Len(rungs) + 1
      PROVE  /\ txFee <= rungs'[j] /\ (Raises(multiplier) /\ txFee > 0 => txFee < rungs'[j])
             /\ \A i \in 1 .. j - 1 :
                  rungs'[i] <= rungs'[j] /\ (Raises(multiplier) /\ txFee > 0 => rungs'[i] < rungs'[j])
    BY <1>2, <1>6 DEF LadderClimbs, Raises, Bps
  <2>0. Len(rungs) \in Nat /\ txFee \in Nat
    BY <1>0 DEF FeesTypeOK
  <2>1. CASE j \in 1 .. Len(rungs)
    <3>1. \A i \in 1 .. j - 1 : i \in 1 .. Len(rungs)
      BY <2>0, <2>1
    <3>2. /\ txFee <= rungs[j] /\ (Raises(multiplier) /\ txFee > 0 => txFee < rungs[j])
          /\ \A i \in 1 .. j - 1 :
               rungs[i] <= rungs[j] /\ (Raises(multiplier) /\ txFee > 0 => rungs[i] < rungs[j])
      BY <1>0, <1>6, <2>1, SMTT(30) DEF LadderClimbs, Raises
    <3>3. rungs'[j] = rungs[j] /\ \A i \in 1 .. j - 1 : rungs'[i] = rungs[i]
      BY <1>6, <2>1, <3>1
    <3> QED
      BY <3>2, <3>3
  <2>2. CASE j = Len(rungs) + 1
    <3>1. txFee <= baseFee' /\ (Raises(multiplier) /\ txFee > 0 => txFee < baseFee')
      BY <1>1, <1>4, <1>5, <2>0
    <3>2. ASSUME NEW i \in 1 .. Len(rungs)
          PROVE  rungs[i] <= baseFee' /\ (Raises(multiplier) /\ txFee > 0 => rungs[i] < baseFee')
      BY <1>1, <1>4, <1>5, <1>8, <2>0
    <3>3. j - 1 = Len(rungs) /\ rungs'[j] = baseFee'
      BY <1>6, <2>0, <2>2
    <3> QED
      BY <1>6, <3>1, <3>2, <3>3
  <2> QED
    BY <2>0, <2>1, <2>2
<1> QED
  BY <1>7, <1>9, <1>10 DEF FeesInv

LEMMA FeesSteps == ASSUME FeesInv, [FeesNext]_feeVars PROVE FeesInv'
<1>1. CASE FeesNext
  BY <1>1, BumpSteps, FeesAssumption DEF FeesNext
<1>2. CASE UNCHANGED feeVars
  BY <1>2 DEF feeVars, FeesInv, FeesTypeOK, Offers, LadderClimbs, Bps
<1> QED
  BY <1>1, <1>2

\* The three levels of an estimate are in order, and each pays for the transaction.
LEMMA EstimateIsEnough == FeesTypeOK => EstimateCovers
<1> SUFFICES ASSUME FeesTypeOK PROVE EstimateCovers
  OBVIOUS
<1> DEFINE least == MinInclusionFee pad == padResourceFee
           min == Times(least, tolerance) rec == Times(least * 2, tolerance) max == Times(least * 10, tolerance)
<1>a. txFee \in Nat /\ resourceFee \in Nat /\ padding \in Nat /\ tolerance \in Nat
  BY DEF FeesTypeOK
<1>0. /\ least \in Nat /\ least * 2 \in Nat /\ least * 10 \in Nat /\ txFee <= least
  BY <1>a DEF MinInclusionFee, BASE_FEE
<1>1. pad \in Nat /\ (padding >= One => resourceFee <= pad)
  <2>1. Times(resourceFee, padding) \in Nat
    BY <1>a, TimesType
  <2>2. padding >= One => resourceFee <= Times(resourceFee, padding)
    BY <1>a, TimesRaises
  <2> QED
    BY <2>1, <2>2 DEF padResourceFee
<1>2. min \in Nat /\ rec \in Nat /\ max \in Nat
  <2> HIDE DEF least
  <2>1. Times(least, tolerance) \in Nat
    BY <1>0, <1>a, TimesType
  <2>2. Times(least * 2, tolerance) \in Nat
    BY <1>0, <1>a, TimesType
  <2>3. Times(least * 10, tolerance) \in Nat
    BY <1>0, <1>a, TimesType
  <2> QED
    BY <2>1, <2>2, <2>3
<1>3. min <= rec
  <2>1. least <= least * 2
    BY <1>0
  <2> HIDE DEF least
  <2> QED
    BY <1>0, <1>a, <2>1, TimesMonotone
<1>4. rec <= max
  <2>1. least * 2 <= least * 10
    BY <1>0
  <2> HIDE DEF least
  <2> QED
    BY <1>0, <1>a, <2>1, TimesMonotone
<1>5. tolerance >= One => least <= min
  BY <1>0, <1>a, TimesRaises
<1>6. /\ TotalFee["min"] = pad + min /\ TotalFee["recommended"] = pad + rec /\ TotalFee["max"] = pad + max
      /\ PreparedFee = txFee + pad
  BY DEF TotalFee, InclusionFee, PreparedFee
<1> HIDE DEF least, pad, min, rec, max
<1>7. /\ pad + min <= pad + rec /\ pad + rec <= pad + max
      /\ (padding >= One => pad >= resourceFee)
      /\ (tolerance >= One => txFee + pad <= pad + min)
  BY <1>0, <1>a, <1>1, <1>2, <1>3, <1>4, <1>5
<1> QED
  BY <1>6, <1>7 DEF EstimateCovers, pad

\* For any fees, paddings, tolerances and multipliers: an estimate is enough for the prepared
\* transaction, and the ladder of fee bumps climbs.
THEOREM FeesSuffice == FeesSpec => []FeesAreEnough
<1>1. FeesInv => FeesAreEnough
  BY EstimateIsEnough DEF FeesInv, FeesAreEnough
<1> QED
  BY <1>1, FeesBegin, FeesSteps, PTL DEF FeesSpec

-----------------------------------------------------------------------------
(* Polling for events.                                                     *)

\* Alone in flight, an answer is not older than what was shown; none is from the future.
Ordered == /\ newestShown <= emitted
           /\ \A p \in Poll : polling[p] = "answered" => answer[p] <= emitted
           /\ \/ overlapping
              \/ /\ \A p, q \in Poll : polling[p] # "idle" /\ polling[q] # "idle" => p = q
                 /\ \A p \in Poll : polling[p] = "answered" => newestShown <= answer[p]

PollInv == PollTypeOK /\ Ordered /\ PollsAreOwned

LEMMA PollsBegin == PollInit => PollInv
<1> SUFFICES ASSUME PollInit PROVE PollInv
  OBVIOUS
<1>1. PollTypeOK
  <2>1. 0 \in 0 .. MaxIntervals /\ 0 \in 0 .. MaxEmitted
    BY PollAssumption
  <2>2. polling \in [Poll -> {"idle", "fetching", "answered"}] /\ answer \in [Poll -> 0 .. MaxEmitted]
    BY <2>1 DEF PollInit
  <2> QED
    BY <2>1, <2>2 DEF PollInit, PollTypeOK
<1>2. newestShown <= emitted
  BY DEF PollInit
<1>3. Ordered
  <2>1. \A p \in Poll : polling[p] = "idle"
    BY DEF PollInit
  <2> QED
    BY <1>2, <2>1 DEF Ordered
<1>4. PollsAreOwned
  BY DEF PollInit, PollsAreOwned
<1> QED
  BY <1>1, <1>3, <1>4 DEF PollInv

\* No step leaves the invariant: one case for each action.
LEMMA PollSteps == ASSUME PollInv, [PollNext]_pollVars PROVE PollInv'
<1>0. PollTypeOK /\ Ordered /\ PollsAreOwned
  BY DEF PollInv
<1>1. CASE startPolling
  <2>1. intervalCount' \in Interval /\ intervalCount' \in 0 .. MaxIntervals
    BY <1>0, <1>1, PollAssumption DEF startPolling, PollTypeOK, Interval
  <2>2. PollTypeOK' /\ Ordered' /\ PollsAreOwned'
    BY <1>0, <1>1, <2>1 DEF startPolling, PollTypeOK, Ordered, PollsAreOwned
  <2> QED
    BY <2>2 DEF PollInv
<1>2. CASE stopPolling
  BY <1>0, <1>2 DEF stopPolling, PollInv, PollTypeOK, Ordered, PollsAreOwned
<1>3. CASE EventEmitted
  <2>1. emitted' \in 0 .. MaxEmitted /\ emitted <= emitted' /\ emitted \in Nat /\ newestShown \in Nat
        /\ \A p \in Poll : answer[p] \in Nat
    BY <1>0, <1>3, PollAssumption DEF EventEmitted, PollTypeOK
  <2>2. Ordered'
    BY <1>0, <1>3, <2>1, PollAssumption DEF EventEmitted, Ordered, PollTypeOK
  <2>3. PollTypeOK' /\ PollsAreOwned'
    BY <1>0, <1>3, <2>1 DEF EventEmitted, PollTypeOK, PollsAreOwned
  <2> QED
    BY <2>2, <2>3 DEF PollInv
<1>4. ASSUME NEW p \in Poll, IntervalTicks(p) PROVE PollInv'
  <2>1. polling' \in [Poll -> {"idle", "fetching", "answered"}]
        /\ polling'[p] = "fetching" /\ \A q \in Poll \ {p} : polling'[q] = polling[q]
    BY <1>0, <1>4 DEF IntervalTicks, PollTypeOK
  <2>2. overlapping' \in BOOLEAN /\ (overlapping => overlapping')
        /\ (overlapping' \/ \A q \in Poll : polling[q] = "idle")
    BY <1>0, <1>4 DEF IntervalTicks, PollTypeOK
  <2>3. PollTypeOK'
    BY <1>0, <1>4, <2>1, <2>2 DEF IntervalTicks, PollTypeOK
  <2>4. Ordered'
    BY <1>0, <1>4, <2>1, <2>2 DEF IntervalTicks, Ordered
  <2>5. PollsAreOwned'
    BY <1>0, <1>4, <2>2 DEF IntervalTicks, PollsAreOwned
  <2> QED
    BY <2>3, <2>4, <2>5 DEF PollInv
<1>5. ASSUME NEW p \in Poll, PollAnswered(p) PROVE PollInv'
  <2>1. polling' \in [Poll -> {"idle", "fetching", "answered"}]
        /\ polling[p] = "fetching" /\ polling'[p] = "answered" /\ \A q \in Poll \ {p} : polling'[q] = polling[q]
    BY <1>0, <1>5 DEF PollAnswered, PollTypeOK
  <2>2. answer' \in [Poll -> 0 .. MaxEmitted]
        /\ answer'[p] = emitted /\ \A q \in Poll \ {p} : answer'[q] = answer[q]
    BY <1>0, <1>5 DEF PollAnswered, PollTypeOK
  <2>3. PollTypeOK'
    BY <1>0, <1>5, <2>1, <2>2 DEF PollAnswered, PollTypeOK
  <2>4. emitted <= emitted
    BY <1>0, PollAssumption DEF PollTypeOK
  <2>5. Ordered'
    BY <1>0, <1>5, <2>1, <2>2, <2>4 DEF PollAnswered, Ordered
  <2>6. PollsAreOwned'
    BY <1>0, <1>5 DEF PollAnswered, PollsAreOwned
  <2> QED
    BY <2>3, <2>5, <2>6 DEF PollInv
<1>6. ASSUME NEW p \in Poll, PollFails(p) PROVE PollInv'
  <2>1. polling' \in [Poll -> {"idle", "fetching", "answered"}]
        /\ polling'[p] = "idle" /\ \A q \in Poll \ {p} : polling'[q] = polling[q]
    BY <1>0, <1>6 DEF PollFails, PollTypeOK
  <2>2. PollTypeOK' /\ Ordered' /\ PollsAreOwned'
    BY <1>0, <1>6, <2>1 DEF PollFails, PollTypeOK, Ordered, PollsAreOwned
  <2> QED
    BY <2>2 DEF PollInv
<1>7. ASSUME NEW p \in Poll, PollDelivers(p) PROVE PollInv'
  <2>1. polling' \in [Poll -> {"idle", "fetching", "answered"}]
        /\ polling[p] = "answered" /\ polling'[p] = "idle" /\ \A q \in Poll \ {p} : polling'[q] = polling[q]
    BY <1>0, <1>7 DEF PollDelivers, PollTypeOK
  <2>2. answer' \in [Poll -> 0 .. MaxEmitted] /\ \A q \in Poll \ {p} : answer'[q] = answer[q]
    BY <1>0, <1>7, PollAssumption DEF PollDelivers, PollTypeOK
  <2>3. newestShown' \in 0 .. MaxEmitted /\ newestShown' <= emitted
    BY <1>0, <1>7, <2>1 DEF PollDelivers, PollTypeOK, Ordered
  <2>4. newestShown <= answer[p] => ~(answer[p] < newestShown)
    BY <1>0, PollAssumption DEF PollTypeOK
  <2>5. backwards' \in BOOLEAN /\ (~overlapping => ~backwards')
    BY <1>0, <1>7, <2>1, <2>4 DEF PollDelivers, PollTypeOK, Ordered, PollsAreOwned
  <2>6. PollTypeOK'
    BY <1>0, <1>7, <2>1, <2>2, <2>3, <2>5 DEF PollDelivers, PollTypeOK
  <2>7. Ordered'
    BY <1>0, <1>7, <2>1, <2>2, <2>3 DEF PollDelivers, Ordered
  <2>8. PollsAreOwned'
    BY <1>0, <1>7, <2>5 DEF PollDelivers, PollsAreOwned
  <2> QED
    BY <2>6, <2>7, <2>8 DEF PollInv
<1>8. CASE UNCHANGED pollVars
  BY <1>0, <1>8 DEF pollVars, PollInv, PollTypeOK, Ordered, PollsAreOwned
<1> QED
  BY <1>1, <1>2, <1>3, <1>4, <1>5, <1>6, <1>7, <1>8 DEF PollNext

\* For any number of intervals and polls: what PollsAreOwned says of the interval that ticks
\* and of the order of the events holds at all times.
THEOREM PollsStayOwned == PollSpec => []PollsAreOwned
<1>1. PollInv => PollsAreOwned
  BY DEF PollInv
<1> QED
  BY <1>1, PollsBegin, PollSteps, PTL DEF PollSpec

-----------------------------------------------------------------------------
(* Requests to the API and their retries.                                  *)

\* How often the request was sent, at each point of a call.
Sendings ==
  /\ pc \in {"called", "ready"} => attempts = 0 /\ sent = 0 /\ processed = 0
  /\ pc = "paused" => sent <= attempts
  /\ pc = "sent" => processed < sent
  /\ sent <= attempts + 1 /\ processed <= sent

Posted == ~MethodRetryable => attempts = 0

HttpInv == HttpTypeOK /\ Sendings /\ Posted /\ ResolvedIsDone /\ BudgetIsSpent

\* The requests that are not retried.
LEMMA PostsAreNot ==
  HttpTypeOK => (~MethodRetryable <=> op \in {"raiseDispute", "upload"} \/ (op = "authenticate" /\ signed))
<1> USE DEF MethodRetryable, HttpRequest, Made, RaiseDispute, GetDispute, GetGigs, GetProfile, PutProfile,
            Upload, RequestChallenge, VerifyAndGetToken, OptedPost, HttpTypeOK
<1>1. CASE op = "authenticate"
  BY <1>1
<1>2. CASE op \in {"raiseDispute", "upload"}
  BY <1>2
<1>3. CASE op \in {"getDispute", "getGigs", "getProfile", "putProfile", "optedPost"}
  BY <1>3
<1> QED
  BY <1>1, <1>2, <1>3 DEF Operation

\* An error is retried within the budget, ends the request, or is made a result of by a hook.
LEMMA ErrorEnds ==
  ASSUME HttpTypeOK, NEW kind \in {"local", "final", "transient"}, NEW configured \in BOOLEAN,
         ResponseError(kind, configured), configured \/ kind = "local", op' = op, signed' = signed
  PROVE  /\ trouble' \in {"none", "local", "final", "transient"} /\ meddled' \in BOOLEAN
         /\ \/ pc' = "paused" /\ attempts' = attempts + 1 /\ attempts' \in 0 .. Retries /\ MethodRetryable /\ configured
            \/ /\ pc' = "rejected" /\ attempts' = attempts
               /\ trouble' = "transient" /\ MethodRetryable => attempts = Retries
            \/ pc' = "resolved" /\ attempts' = attempts /\ meddled'
<1>1. ASSUME NEW k \in {"local", "final", "transient"}, NEW b \in BOOLEAN, RetryHandler(k, b)
      PROVE  /\ trouble' = k
             /\ \/ pc' = "paused" /\ attempts' = attempts + 1 /\ attempts' \in 0 .. Retries /\ MethodRetryable /\ b
                \/ /\ pc' = "rejected" /\ attempts' = attempts
                   /\ trouble' = "transient" /\ MethodRetryable => attempts = Retries \/ ~b
  <2>1. attempts \in 0 .. Retries /\ Retries \in Nat
    BY HttpAssumption DEF HttpTypeOK
  <2>2. CASE b /\ attempts < Retries /\ ShouldRetry(k)
    BY <1>1, <2>1, <2>2 DEF RetryHandler, ShouldRetry
  <2>3. CASE ~(b /\ attempts < Retries /\ ShouldRetry(k))
    <3>1. trouble' = k /\ pc' = "rejected" /\ attempts' = attempts
      BY <1>1, <2>3 DEF RetryHandler
    <3>2. k = "transient" /\ MethodRetryable => ~b \/ ~(attempts < Retries)
      BY <2>3 DEF ShouldRetry
    <3>3. ~(attempts < Retries) => attempts = Retries
      BY <2>1
    <3> QED
      BY <3>1, <3>2, <3>3
  <2> QED
    BY <2>2, <2>3
<1>2. CASE RetryHandler(kind, configured) /\ UNCHANGED meddled
  <2>1. meddled' \in BOOLEAN
    BY <1>2 DEF HttpTypeOK
  <2> QED
    BY <1>1, <1>2, <2>1
<1>3. CASE RetryHandler("local", FALSE) /\ meddled' = TRUE
  BY <1>1, <1>3
<1>4. CASE configured /\ RetryHandler("transient", TRUE) /\ meddled' = TRUE
  BY <1>1, <1>4
<1>5. CASE pc' = "resolved" /\ meddled' = TRUE /\ trouble' = "none" /\ UNCHANGED attempts
  BY <1>5
<1> QED
  BY <1>2, <1>3, <1>4, <1>5 DEF ResponseError

LEMMA HttpBegins == HttpInit => HttpInv
<1> SUFFICES ASSUME HttpInit PROVE HttpInv
  OBVIOUS
<1>1. HttpTypeOK
  <2>1. 0 \in 0 .. Retries
    BY HttpAssumption
  <2> QED
    BY <2>1 DEF HttpInit, HttpTypeOK
<1>2. attempts = 0 /\ sent = 0 /\ processed = 0 /\ pc = "called"
  BY DEF HttpInit
<1> QED
  BY <1>1, <1>2 DEF HttpInv, Sendings, Posted, ResolvedIsDone, BudgetIsSpent

\* A request that is given up or repeated for an error keeps the invariant.
LEMMA ErrorKeeps ==
  ASSUME HttpInv, NEW kind \in {"local", "final", "transient"}, NEW configured \in BOOLEAN,
         ResponseError(kind, configured), UNCHANGED <<op, signed, sent, fresh>>,
         processed' \in Nat, processed <= processed', processed' <= sent,
         configured \/ kind = "local"
  PROVE  HttpInv'
<1>0. HttpTypeOK /\ Sendings /\ Posted
  BY DEF HttpInv
<1>1. /\ trouble' \in {"none", "local", "final", "transient"} /\ meddled' \in BOOLEAN
      /\ \/ pc' = "paused" /\ attempts' = attempts + 1 /\ attempts' \in 0 .. Retries /\ MethodRetryable /\ configured
         \/ /\ pc' = "rejected" /\ attempts' = attempts
            /\ trouble' = "transient" /\ MethodRetryable => attempts = Retries
         \/ pc' = "resolved" /\ attempts' = attempts /\ meddled'
  BY <1>0, ErrorEnds
<1>2. MethodRetryable' <=> MethodRetryable
  BY DEF MethodRetryable, Made
<1>3. attempts \in Nat /\ sent \in Nat /\ processed \in Nat /\ attempts \in 0 .. Retries
  BY <1>0, HttpAssumption DEF HttpTypeOK
<1>4. HttpTypeOK'
  BY <1>0, <1>1, <1>3 DEF HttpTypeOK
<1>5. sent <= attempts + 1
  BY <1>0 DEF Sendings
<1>6. Sendings'
  BY <1>1, <1>3, <1>5 DEF Sendings
<1>7. Posted'
  BY <1>0, <1>1, <1>2 DEF Posted
<1>8. ResolvedIsDone' /\ BudgetIsSpent'
  BY <1>1, <1>2 DEF ResolvedIsDone, BudgetIsSpent
<1> QED
  BY <1>4, <1>6, <1>7, <1>8 DEF HttpInv

\* No step leaves the invariant: one case for each action.
LEMMA HttpSteps == ASSUME HttpInv, [HttpNext]_httpVars PROVE HttpInv'
<1>0. HttpTypeOK /\ Sendings /\ Posted /\ ResolvedIsDone /\ BudgetIsSpent
  BY DEF HttpInv
<1>a. attempts \in Nat /\ sent \in Nat /\ processed \in Nat
  BY <1>0, HttpAssumption DEF HttpTypeOK
<1>b. op' = op /\ signed' = signed => (MethodRetryable' <=> MethodRetryable)
  BY DEF MethodRetryable, Made
<1>1. CASE Malformed \/ Valid \/ MinutePasses \/ ChallengeReceived
  <2>1. op' = op /\ signed' = signed /\ attempts' = attempts /\ sent' = sent /\ processed' = processed
        /\ (trouble' = trouble \/ trouble' = "local") /\ meddled' = meddled
    BY <1>1 DEF Malformed, Valid, MinutePasses, ChallengeReceived
  <2>2. pc' \in {"called", "ready", "sent", "paused", "signing", "resolved", "rejected"}
        /\ fresh' \in BOOLEAN
    BY <1>0, <1>1 DEF Malformed, Valid, MinutePasses, ChallengeReceived, HttpTypeOK
  <2>3. HttpTypeOK'
    BY <1>0, <2>1, <2>2 DEF HttpTypeOK
  <2>4. \/ pc' \in {"signing", "ready"} /\ pc \in {"called", "resolved"} /\ (pc' = "ready" => pc = "called")
        \/ pc' = "rejected" /\ trouble' = "local"
        \/ pc' = pc /\ trouble' = trouble
    BY <1>1 DEF Malformed, Valid, MinutePasses, ChallengeReceived
  <2>5. Sendings'
    BY <1>0, <2>1, <2>4 DEF Sendings
  <2>6. Posted' /\ ResolvedIsDone' /\ BudgetIsSpent'
    BY <1>0, <1>b, <2>1, <2>4 DEF Posted, ResolvedIsDone, BudgetIsSpent
  <2> QED
    BY <2>3, <2>5, <2>6 DEF HttpInv
<1>2. CASE Send
  <2>1. pc \in {"ready", "paused"} /\ pc' = "sent" /\ sent' = sent + 1
        /\ UNCHANGED <<op, signed, attempts, processed, fresh, trouble, meddled>>
    BY <1>2 DEF Send
  <2>2. HttpTypeOK' /\ Sendings'
    BY <1>0, <1>a, <2>1 DEF HttpTypeOK, Sendings
  <2>3. Posted' /\ ResolvedIsDone' /\ BudgetIsSpent'
    BY <1>0, <1>b, <2>1 DEF Posted, ResolvedIsDone, BudgetIsSpent
  <2> QED
    BY <2>2, <2>3 DEF HttpInv
<1>3. ASSUME NEW tooLarge \in BOOLEAN, HookThrows(tooLarge) PROVE HttpInv'
  <2>1. /\ ResponseError("local", FALSE) /\ UNCHANGED <<op, signed, sent, fresh>>
        /\ processed' = processed
    BY <1>3 DEF HookThrows
  <2>2. processed' \in Nat /\ processed <= processed' /\ processed' <= sent
    BY <1>0, <1>a, <2>1 DEF Sendings
  <2> QED
    BY <2>1, <2>2, ErrorKeeps
<1>4. CASE Refused
  <2>1. /\ ResponseError("final", TRUE) /\ UNCHANGED <<op, signed, sent, fresh>>
        /\ processed' = processed
    BY <1>4 DEF Refused
  <2>2. processed' \in Nat /\ processed <= processed' /\ processed' <= sent
    BY <1>0, <1>a, <2>1 DEF Sendings
  <2> QED
    BY <2>1, <2>2, ErrorKeeps
<1>5. CASE Failed
  <2>1. processed < sent
    BY <1>0, <1>5 DEF Sendings, Failed
  <2>2. processed' \in Nat /\ processed <= processed' /\ processed' <= sent
    BY <1>5, <1>a, <2>1 DEF Failed
  <2> QED
    BY <1>5, <2>2, ErrorKeeps DEF Failed
<1>6. CASE Responded
  <2>1. /\ processed < sent /\ processed' = processed + 1
        /\ op' = op /\ signed' = signed /\ sent' = sent /\ fresh' = fresh
    BY <1>0, <1>6 DEF Sendings, Responded
  <2>2. CASE RetryHandler("transient", TRUE) /\ meddled' = TRUE
    <3>1. ResponseError("transient", TRUE)
      BY <2>2 DEF ResponseError
    <3>2. processed' \in Nat /\ processed <= processed' /\ processed' <= sent
      BY <1>a, <2>1
    <3> QED
      BY <2>1, <3>1, <3>2, ErrorKeeps
  <2>3. CASE ~(RetryHandler("transient", TRUE) /\ meddled' = TRUE)
    <3>1. /\ pc' \in {"resolved", "rejected"} /\ attempts' = attempts
          /\ trouble' \in {"none", "local"} /\ meddled' \in BOOLEAN
      BY <1>0, <1>6, <2>3 DEF Responded, ResponseOk, RetryHandler, HttpTypeOK
    <3>2. HttpTypeOK' /\ Sendings'
      BY <1>0, <1>a, <2>1, <3>1 DEF HttpTypeOK, Sendings
    <3>3. Posted' /\ BudgetIsSpent'
      BY <1>0, <1>b, <2>1, <3>1 DEF Posted, BudgetIsSpent
    <3>4. ResolvedIsDone'
      BY <1>a, <2>1 DEF ResolvedIsDone
    <3> QED
      BY <3>2, <3>3, <3>4 DEF HttpInv
  <2> QED
    BY <2>2, <2>3
<1>7. CASE Sign
  <2>1. CASE pc' = "rejected" /\ trouble' = "local" /\ UNCHANGED <<signed, attempts, sent, processed, meddled>>
    <3>1. op' = op /\ fresh' = fresh
      BY <1>7 DEF Sign
    <3>2. HttpTypeOK' /\ Sendings'
      BY <1>0, <2>1, <3>1 DEF HttpTypeOK, Sendings
    <3>3. Posted' /\ ResolvedIsDone' /\ BudgetIsSpent'
      BY <1>0, <1>b, <2>1, <3>1 DEF Posted, ResolvedIsDone, BudgetIsSpent
    <3> QED
      BY <3>2, <3>3 DEF HttpInv
  <2>2. CASE pc' = "ready" /\ attempts' = 0 /\ sent' = 0 /\ processed' = 0
             /\ signed' = TRUE /\ meddled' = FALSE /\ UNCHANGED trouble
    <3>1. op' = op /\ fresh' = fresh /\ 0 \in 0 .. Retries
      BY <1>7, HttpAssumption DEF Sign
    <3>2. HttpTypeOK'
      BY <1>0, <2>2, <3>1 DEF HttpTypeOK
    <3>4. Sendings'
      BY <2>2 DEF Sendings
    <3>3. Posted' /\ ResolvedIsDone' /\ BudgetIsSpent'
      BY <2>2 DEF Posted, ResolvedIsDone, BudgetIsSpent
    <3> QED
      BY <3>2, <3>3, <3>4 DEF HttpInv
  <2> QED
    BY <1>7, <2>1, <2>2 DEF Sign
<1>8. CASE UNCHANGED httpVars
  BY <1>0, <1>b, <1>8 DEF httpVars, HttpInv, HttpTypeOK, Sendings, Posted, ResolvedIsDone, BudgetIsSpent
<1> QED
  BY <1>1, <1>2, <1>3, <1>4, <1>5, <1>6, <1>7, <1>8 DEF HttpNext

\* What the invariant says of the sendings, in the words of the property.
LEMMA HttpImplies == HttpInv => HttpRetriesAreSafe
<1> SUFFICES ASSUME HttpInv PROVE HttpRetriesAreSafe
  OBVIOUS
<1>1. HttpTypeOK /\ Sendings /\ Posted /\ ResolvedIsDone /\ BudgetIsSpent
  BY DEF HttpInv
<1>2. attempts \in 0 .. Retries /\ attempts \in Nat /\ sent \in Nat /\ sent <= attempts + 1 /\ processed <= sent
  BY <1>1, HttpAssumption DEF HttpTypeOK, Sendings
<1>3. op \in {"raiseDispute", "upload"} \/ (op = "authenticate" /\ signed) => attempts = 0
  BY <1>1, PostsAreNot DEF Posted
<1>4. sent <= Retries + 1 /\ (attempts = 0 => sent <= 1)
  BY <1>2, HttpAssumption
<1> QED
  BY <1>1, <1>2, <1>3, <1>4 DEF HttpRetriesAreSafe, PostedOnce

\* For any number of retries: a POST that did not opt in is sent once, and what
\* HttpRetriesAreSafe says of the budget and of a request that is resolved holds at all times.
THEOREM HttpStaysSafe == HttpSpec => []HttpRetriesAreSafe
BY HttpBegins, HttpSteps, HttpImplies, PTL DEF HttpSpec

-----------------------------------------------------------------------------
(* The delivery of events.                                                 *)

\* The two tables agree: of the types whose fields are decoded, a filter's index stands
\* for the field of that topic; of the others, no field has a value.
LEMMA TablesAgree ==
  ASSUME NEW type \in KNOWN_EVENT_TYPES
  PROVE  /\ Len(Fields(type)) \in Nat /\ DOMAIN Fields(type) = 1 .. Len(Fields(type))
         /\ \A i \in DOMAIN Fields(type) :
              i \in DOMAIN FilteredField(type) /\ FilteredField(type)[i] = Fields(type)[i]
         /\ \A i \in DOMAIN Fields(type), j \in DOMAIN FilteredField(type) :
              FilteredField(type)[j] = Fields(type)[i] => i = j
<1>1. CASE type = "escrow_created"
  <2>1. Fields(type) = <<"escrowId", "sender", "recipient">> /\ FilteredField(type) = <<"escrowId", "sender", "recipient">>
    BY <1>1 DEF Fields, FilteredField
  <2>2. Len(<<"escrowId", "sender", "recipient">>) = 3
    OBVIOUS
  <2>3. DOMAIN <<"escrowId", "sender", "recipient">> = 1 .. 3 /\ DOMAIN <<"escrowId", "sender", "recipient">> = 1 .. 3
    OBVIOUS
  <2> QED
    BY <2>1, <2>2, <2>3
<1>2. CASE type = "escrow_released"
  <2>1. Fields(type) = <<"escrowId", "recipient">> /\ FilteredField(type) = <<"escrowId", "recipient">>
    BY <1>2 DEF Fields, FilteredField
  <2>2. Len(<<"escrowId", "recipient">>) = 2
    OBVIOUS
  <2>3. DOMAIN <<"escrowId", "recipient">> = 1 .. 2 /\ DOMAIN <<"escrowId", "recipient">> = 1 .. 2
    OBVIOUS
  <2> QED
    BY <2>1, <2>2, <2>3
<1>3. CASE type = "dispute_raised"
  <2>1. Fields(type) = <<"escrowId", "raisedBy">> /\ FilteredField(type) = <<"escrowId", "raisedBy">>
    BY <1>3 DEF Fields, FilteredField
  <2>2. Len(<<"escrowId", "raisedBy">>) = 2
    OBVIOUS
  <2>3. DOMAIN <<"escrowId", "raisedBy">> = 1 .. 2 /\ DOMAIN <<"escrowId", "raisedBy">> = 1 .. 2
    OBVIOUS
  <2> QED
    BY <2>1, <2>2, <2>3
<1>4. CASE type = "dispute_resolved"
  <2>1. Fields(type) = <<>> /\ FilteredField(type) = <<"escrowId", "resolvedBy">>
    BY <1>4 DEF Fields, FilteredField
  <2>2. Len(<<>>) = 0
    OBVIOUS
  <2>3. DOMAIN <<>> = 1 .. 0 /\ DOMAIN <<"escrowId", "resolvedBy">> = 1 .. 2
    OBVIOUS
  <2> QED
    BY <2>1, <2>2, <2>3
<1>5. CASE type \in {"escrow_funded", "escrow_cancelled"}
  <2>1. Fields(type) = <<>> /\ FilteredField(type) = <<"escrowId", "sender", "recipient">>
    BY <1>5 DEF Fields, FilteredField
  <2>2. Len(<<>>) = 0
    OBVIOUS
  <2>3. DOMAIN <<>> = 1 .. 0 /\ DOMAIN <<"escrowId", "sender", "recipient">> = 1 .. 3
    OBVIOUS
  <2> QED
    BY <2>1, <2>2, <2>3
<1> QED
  BY <1>1, <1>2, <1>3, <1>4, <1>5 DEF KNOWN_EVENT_TYPES

\* The topics of a parsed event hold its fields.
LEMMA FieldsAreTopics ==
  ASSUME FeedTypeOK, Parses(raw)
  PROVE  /\ EventType \in KNOWN_EVENT_TYPES
         /\ \A i \in DOMAIN Fields(EventType) : i + 1 \in DOMAIN raw.topics
<1>1. raw.topics \in Seq(STRING)
  BY FeedAssumption DEF FeedTypeOK
<1>2. EventType \in KNOWN_EVENT_TYPES /\ Len(raw.topics) > Len(Fields(EventType))
  BY DEF Parses, EventType
<1>3. Len(Fields(EventType)) \in Nat /\ DOMAIN Fields(EventType) = 1 .. Len(Fields(EventType))
  BY <1>2, TablesAgree
<1> QED
  BY <1>1, <1>2, <1>3

\* So a filter matches what is parsed exactly if it describes the raw event.
LEMMA MatchIsExact ==
  ASSUME FeedTypeOK, Parses(raw), NEW f \in filters
  PROVE  LET matches == /\ f.topicIndex \in DOMAIN FilteredField(f.type)
                        /\ <<FilteredField(f.type)[f.topicIndex], f.value>> \in EventData(raw)
         IN  /\ matches => TopicIs(f)
             /\ TopicIs(f) /\ f.topicIndex \in DOMAIN Fields(EventType) => matches
<1> DEFINE fields == Fields(EventType)
           named == FilteredField(EventType)
<1>1. f.type = EventType
  BY DEF FeedTypeOK, TopicFilter
<1>2. /\ \A i \in DOMAIN fields : i \in DOMAIN named /\ named[i] = fields[i]
      /\ \A i \in DOMAIN fields, j \in DOMAIN named : named[j] = fields[i] => i = j
      /\ \A i \in DOMAIN fields : i + 1 \in DOMAIN raw.topics
  BY TablesAgree, FieldsAreTopics
<1>3. EventData(raw) = {<<fields[i], raw.topics[i + 1]>> : i \in DOMAIN fields}
  BY DEF EventData, EventType
<1>4. ASSUME f.topicIndex \in DOMAIN named, <<named[f.topicIndex], f.value>> \in EventData(raw)
      PROVE  TopicIs(f)
  <2>1. PICK i \in DOMAIN fields : <<named[f.topicIndex], f.value>> = <<fields[i], raw.topics[i + 1]>>
    BY <1>3, <1>4
  <2>2. named[f.topicIndex] = fields[i] /\ f.value = raw.topics[i + 1]
    BY <2>1
  <2>3. i = f.topicIndex
    BY <1>2, <1>4, <2>2
  <2> QED
    BY <1>2, <2>2, <2>3 DEF TopicIs
<1>5. ASSUME TopicIs(f), f.topicIndex \in DOMAIN fields
      PROVE  f.topicIndex \in DOMAIN named /\ <<named[f.topicIndex], f.value>> \in EventData(raw)
  <2>1. named[f.topicIndex] = fields[f.topicIndex] /\ f.topicIndex \in DOMAIN named
    BY <1>2, <1>5
  <2>2. f.value = raw.topics[f.topicIndex + 1]
    BY <1>5 DEF TopicIs
  <2> QED
    BY <1>3, <1>5, <2>1, <2>2
<1> QED
  BY <1>1, <1>4, <1>5

FeedInv == FeedTypeOK /\ FiltersAreExact

LEMMA DeliverKeeps == ASSUME FeedInv, Deliver PROVE FeedInv'
<1> USE DEF FeedInv
<1>1. UNCHANGED <<raw, filters, eventHandlers>> /\ delivered' = TRUE
  BY DEF Deliver
<1>2. EventType' = EventType /\ EventNames' = EventNames
  BY <1>1 DEF EventType, EventNames
<1>3. given' \in {{}, eventHandlers} /\ skipped' \in BOOLEAN
  BY DEF Deliver
<1>4. FeedTypeOK'
  <2>1. TopicFilter' = TopicFilter
    BY <1>2 DEF TopicFilter
  <2>2. given' \subseteq EventNames
    BY <1>3 DEF FeedTypeOK
  <2> QED
    BY <1>1, <1>2, <1>3, <2>1, <2>2 DEF FeedTypeOK
<1>5. given' # {} => \A f \in filters : TopicIs(f)
  BY MatchIsExact DEF Deliver, matchesTopicFilters
<1>6. /\ isTrustFlowEvent(raw) /\ Parses(raw)
      /\ \A f \in filters : TopicIs(f) /\ f.topicIndex \in DOMAIN Fields(EventType)
      => given' = eventHandlers
  BY MatchIsExact DEF Deliver, matchesTopicFilters
<1>7. skipped' => given' = {}
  BY DEF Deliver
<1>8. isTrustFlowEvent(raw)' = isTrustFlowEvent(raw) /\ Parses(raw)' = Parses(raw)
  BY <1>1 DEF isTrustFlowEvent, Parses, HasAmount
<1>9. \A f : TopicIs(f)' = TopicIs(f)
  BY <1>1 DEF TopicIs
<1> QED
  BY <1>1, <1>2, <1>4, <1>5, <1>6, <1>7, <1>8, <1>9 DEF FiltersAreExact

\* Every other step forgets the delivery.
LEMMA ChangeKeeps ==
  ASSUME FeedInv, Changed, filters' \subseteq TopicFilter, eventHandlers' \subseteq EventNames
  PROVE  FeedInv'
<1>1. raw' = raw /\ given' = {} /\ delivered' = FALSE /\ skipped' = FALSE
  BY DEF Changed
<1>2. EventNames' = EventNames /\ TopicFilter' = TopicFilter
  BY <1>1 DEF EventNames, TopicFilter, EventType
<1>3. FeedTypeOK'
  BY <1>1, <1>2 DEF FeedInv, FeedTypeOK
<1> QED
  BY <1>1, <1>3 DEF FeedInv, FiltersAreExact

LEMMA FeedSteps == ASSUME FeedInv, [FeedNext]_feedVars PROVE FeedInv'
<1> USE DEF FeedInv
<1>1. filters \subseteq TopicFilter /\ eventHandlers \subseteq EventNames
  BY DEF FeedTypeOK
<1>2. ASSUME NEW name \in EventNames, on(name) \/ off(name) PROVE FeedInv'
  BY <1>1, <1>2, ChangeKeeps DEF on, off
<1>3. ASSUME NEW f \in TopicFilter, addTopicFilter(f) \/ removeTopicFilter(f) PROVE FeedInv'
  BY <1>1, <1>3, ChangeKeeps DEF addTopicFilter, removeTopicFilter
<1>4. CASE unsubscribeAll
  BY <1>1, <1>4, ChangeKeeps DEF unsubscribeAll
<1>5. CASE Deliver
  BY <1>5, DeliverKeeps
<1>6. CASE UNCHANGED feedVars
  BY <1>6 DEF feedVars, FeedTypeOK, FiltersAreExact, EventNames, TopicFilter, EventType,
              isTrustFlowEvent, Parses, HasAmount, TopicIs
<1> QED
  BY <1>2, <1>3, <1>4, <1>5, <1>6 DEF FeedNext

\* A handler is given no event that a filter on its topics excludes and, of the types whose
\* fields parseEvent decodes, every event that the filters describe: the two tables of
\* events.ts and monitor.ts agree on every event, however many topics it has.
THEOREM FiltersStayExact == FeedSpec => []FiltersAreExact
<1>1. FeedInit => FeedInv
  BY DEF FeedInit, FeedInv, FeedTypeOK, FiltersAreExact
<1>2. FeedInv /\ [FeedNext]_feedVars => FeedInv'
  BY FeedSteps
<1>3. FeedInv => FiltersAreExact
  BY DEF FeedInv
<1> QED
  BY <1>1, <1>2, <1>3, PTL DEF FeedSpec

-----------------------------------------------------------------------------
(* The walk through the history of events.                                 *)

\* What was given and what is left of the page are the events up to the cursor, in this
\* order, and beyond the cursor of a walk that ended there is nothing in reach.
Walked ==
  /\ fromCursor <= pageCursor /\ pageCursor <= issued
  /\ yielded \cup page = {e \in Issued : fromCursor < e /\ e <= pageCursor}
  /\ \A e \in yielded, f \in page : e < f
  /\ walk \in {"fetching", "ended"} => page = {}
  /\ walk = "ended" => \A e \in Issued : pageCursor < e /\ e <= toldEmpty => ~InReach(e)

HistoryInv == HistoryTypeOK /\ ~twice /\ Walked

LEMMA HistoryBegins == HistoryInit => HistoryInv
<1> SUFFICES ASSUME HistoryInit PROVE HistoryInv
  OBVIOUS
<1>1. issued \in Position /\ fromCursor \in Position /\ pageCursor \in Position /\ 0 \in Position
  BY HistoryAssumption DEF HistoryInit, Position
<1>2. HistoryTypeOK
  BY <1>1 DEF HistoryInit, HistoryTypeOK
<1>3. Walked
  BY <1>1, HistoryAssumption DEF HistoryInit, Walked, Position, Issued
<1> QED
  BY <1>2, <1>3 DEF HistoryInit, HistoryInv

\* What giving the first of the events that are left does.
LEMMA YieldKeeps ==
  ASSUME HistoryInv, NEW events \in SUBSET Issued, NEW c \in Position, Yield(events),
         pageCursor <= c, c <= issued, pageCursor' = c, \A e \in yielded, f \in events : e < f,
         yielded \cup events = {e \in Issued : fromCursor < e /\ e <= c},
         UNCHANGED <<place, issued, fromCursor, walkAborted, toldEmpty>>
  PROVE  HistoryInv'
<1> USE DEF HistoryInv
<1>1. CASE walkAborted /\ walk' = "aborted" /\ page' = events /\ UNCHANGED <<yielded, twice>>
  <2>1. HistoryTypeOK'
    BY <1>1 DEF HistoryTypeOK
  <2>2. Walked'
    BY <1>1, HistoryAssumption DEF HistoryTypeOK, Walked, Position, Issued
  <2> QED
    BY <1>1, <2>1, <2>2
<1>2. ASSUME NEW e \in events, \A f \in events : e <= f,
             walk' = "paused", page' = events \ {e}, yielded' = yielded \cup {e},
             twice' = (twice \/ \E f \in yielded : e <= f)
      PROVE  HistoryInv'
  <2>1. ~(\E f \in yielded : e <= f)
    BY <1>2 DEF HistoryTypeOK, Issued
  <2>2. HistoryTypeOK' /\ ~twice'
    BY <1>2, <2>1 DEF HistoryTypeOK
  <2>3. yielded' \cup page' = {f \in Issued : fromCursor' < f /\ f <= pageCursor'}
    BY <1>2 DEF Issued
  <2>4. \A f \in yielded', g \in page' : f < g
    BY <1>2 DEF HistoryTypeOK, Issued
  <2>5. Walked'
    BY <1>2, <2>3, <2>4, HistoryAssumption DEF HistoryTypeOK, Walked, Position, Issued
  <2> QED
    BY <2>2, <2>5
<1> QED
  BY <1>1, <1>2 DEF Yield

\* A page is a stretch of events that begins after the cursor.
LEMMA PageIsStretch ==
  ASSUME HistoryTypeOK, NEW c \in Position, NEW last \in PageAfter(c),
         \A e \in PageAfter(c) : e <= last
  PROVE  PageAfter(c) = {e \in Issued : c < e /\ e <= last}
<1>1. last \in Issued /\ c < last /\ last <= issued /\ place[last] <= place[c] + HistoryPage
  BY DEF PageAfter
<1>2. ASSUME NEW e \in Issued, c < e, e <= last PROVE e \in PageAfter(c)
  <2>1. e <= issued
    BY <1>1, <1>2, HistoryAssumption DEF HistoryTypeOK, Issued, Position
  <2>2. place[e] \in Nat /\ place[last] \in Nat /\ place[c] \in Nat /\ place[e] <= place[last]
    BY <1>1, <1>2, HistoryAssumption DEF HistoryTypeOK, Issued, Position
  <2> QED
    BY <1>1, <1>2, <2>1, <2>2, HistoryAssumption DEF PageAfter
<1> QED
  BY <1>2 DEF PageAfter

LEMMA EmptyPageKeeps == ASSUME HistoryInv, PageIsEmpty PROVE HistoryInv'
<1> USE DEF HistoryInv
<1>1. /\ UNCHANGED <<place, issued, fromCursor, pageCursor, page, yielded, twice, walkAborted>>
      /\ toldEmpty' = issued /\ walk' = "ended" /\ page = {}
  BY DEF PageIsEmpty, Walked
<1>2. ASSUME NEW e \in Issued, pageCursor < e, e <= issued, InReach(e) PROVE FALSE
  <2>1. pageCursor + 1 \in Issued /\ pageCursor + 1 <= e
    BY <1>2, HistoryAssumption DEF HistoryTypeOK, Issued, Position
  <2>2. fromCursor < pageCursor + 1
    BY DEF HistoryTypeOK, Walked, Position
  <2>3. pageCursor < pageCursor + 1 /\ pageCursor + 1 <= issued
    BY <1>2, <2>1, HistoryAssumption DEF HistoryTypeOK, Position, Issued
  <2>4. \A f \in Issued : fromCursor < f /\ f <= e => place[f] <= place[f - 1] + HistoryPage
    BY <1>2 DEF InReach
  <2>5. place[pageCursor + 1] <= place[pageCursor] + HistoryPage
    <3>1. PICK f \in Issued : f = pageCursor + 1
      BY <2>1
    <3>2. place[f] <= place[f - 1] + HistoryPage
      BY <2>1, <2>2, <2>4, <3>1
    <3>3. f - 1 = pageCursor
      BY <3>1 DEF HistoryTypeOK, Position
    <3> QED
      BY <3>1, <3>2, <3>3
  <2>6. pageCursor + 1 \in PageAfter(pageCursor)
    BY <2>1, <2>3, <2>5 DEF PageAfter
  <2> QED
    BY <2>6 DEF PageIsEmpty
<1>3. \A e : InReach(e)' = InReach(e)
  BY <1>1 DEF InReach
<1>4. Walked'
  BY <1>1, <1>2, <1>3 DEF Walked
<1>5. HistoryTypeOK'
  BY <1>1 DEF HistoryTypeOK
<1> QED
  BY <1>1, <1>4, <1>5

LEMMA HistorySteps == ASSUME HistoryInv, [HistoryNext]_historyVars PROVE HistoryInv'
<1> USE DEF HistoryInv
<1>1. CASE NextEvent
  <2>1. CASE page # {}
    <3>1. Yield(page) /\ UNCHANGED <<place, issued, fromCursor, pageCursor, walkAborted, toldEmpty>>
      BY <1>1, <2>1 DEF NextEvent
    <3>2. page \in SUBSET Issued /\ pageCursor \in Position /\ pageCursor <= pageCursor
      BY HistoryAssumption DEF HistoryTypeOK, Position
    <3> QED
      BY <3>1, <3>2, YieldKeeps DEF Walked
  <2>2. CASE page = {}
    <3>1. /\ UNCHANGED <<place, issued, fromCursor, pageCursor, walkAborted, toldEmpty, page, yielded, twice>>
          /\ walk' \in {"aborted", "fetching"}
      BY <1>1, <2>2 DEF NextEvent
    <3>2. HistoryTypeOK' /\ Walked'
      BY <2>2, <3>1 DEF HistoryTypeOK, Walked
    <3> QED
      BY <3>1, <3>2
  <2> QED
    BY <2>1, <2>2
<1>2. CASE PageArrives
  <2> DEFINE events == PageAfter(pageCursor)
  <2>1. PICK last \in events : (\A e \in events : e <= last) /\ pageCursor' = last
    BY <1>2 DEF PageArrives
  <2>2. events = {e \in Issued : pageCursor < e /\ e <= last}
    BY <2>1, PageIsStretch DEF HistoryTypeOK
  <2>3. last \in Position /\ pageCursor <= last /\ last <= issued /\ events \in SUBSET Issued
    BY <2>1, HistoryAssumption DEF PageAfter, HistoryTypeOK, Position, Issued
  <2>4. yielded = {e \in Issued : fromCursor < e /\ e <= pageCursor}
    BY <1>2 DEF PageArrives, Walked
  <2>5. yielded \cup events = {e \in Issued : fromCursor < e /\ e <= last}
    BY <2>2, <2>3, <2>4, HistoryAssumption DEF HistoryTypeOK, Walked, Position, Issued
  <2>6. \A e \in yielded, f \in events : e < f
    BY <2>2, <2>4, HistoryAssumption DEF HistoryTypeOK, Position, Issued
  <2>7. Yield(events) /\ UNCHANGED <<place, issued, fromCursor, walkAborted, toldEmpty>>
    BY <1>2 DEF PageArrives
  <2> HIDE DEF events
  <2> QED
    BY <2>1, <2>3, <2>5, <2>6, <2>7, YieldKeeps
<1>3. CASE PageIsEmpty
  BY <1>3, EmptyPageKeeps
<1>4. CASE WalkBreaksOff
  BY <1>4 DEF WalkBreaksOff, HistoryTypeOK, Walked
<1>5. CASE AbortWalk
  <2>1. \A e : InReach(e)' = InReach(e)
    BY <1>5 DEF AbortWalk, InReach
  <2> QED
    BY <1>5, <2>1 DEF AbortWalk, HistoryTypeOK, Walked
<1>6. CASE Issue
  <2>1. \A e : InReach(e)' = InReach(e)
    BY <1>6 DEF Issue, InReach
  <2>2. issued' \in Position /\ issued <= issued'
    BY <1>6, HistoryAssumption DEF Issue, HistoryTypeOK, Position
  <2>3. pageCursor <= issued'
    BY <2>2 DEF HistoryTypeOK, Walked, Position
  <2> QED
    BY <1>6, <2>1, <2>2, <2>3 DEF Issue, HistoryTypeOK, Walked
<1>7. CASE UNCHANGED historyVars
  <2>1. \A e : InReach(e)' = InReach(e)
    BY <1>7 DEF historyVars, InReach
  <2> QED
    BY <1>7, <2>1 DEF historyVars, HistoryTypeOK, Walked
<1> QED
  BY <1>1, <1>2, <1>3, <1>4, <1>5, <1>6, <1>7 DEF HistoryNext

LEMMA HistoryImplies == HistoryInv => HistoryIsWhole
<1> SUFFICES ASSUME HistoryInv PROVE HistoryIsWhole
  OBVIOUS
<1> USE DEF HistoryInv
<1>1. ASSUME NEW e \in yielded PROVE fromCursor < e /\ e <= pageCursor
  BY <1>1 DEF Walked
<1>2. ASSUME NEW e \in yielded, NEW f \in Issued, fromCursor < f, f < e PROVE f \in yielded
  <2>1. f <= pageCursor
    BY <1>1, <1>2, HistoryAssumption DEF HistoryTypeOK, Position, Issued
  <2>2. f \in yielded \cup page
    BY <1>2, <2>1 DEF Walked
  <2>3. f \notin page
    BY <1>2 DEF HistoryTypeOK, Walked, Issued
  <2> QED
    BY <2>2, <2>3
<1>3. ASSUME walk = "ended", NEW e \in Issued, fromCursor < e, e <= toldEmpty, InReach(e)
      PROVE  e \in yielded
  <2>1. ~(pageCursor < e) /\ page = {}
    BY <1>3 DEF Walked
  <2>2. e <= pageCursor
    BY <2>1, HistoryAssumption DEF HistoryTypeOK, Position, Issued
  <2> QED
    BY <1>3, <2>1, <2>2 DEF Walked
<1> QED
  BY <1>1, <1>2, <1>3 DEF HistoryIsWhole

\* The caller of getEventsIterator gets the events after its cursor in order, once and
\* without gaps; and a walk that ended by itself has given all that was in reach.
THEOREM HistoryStaysWhole == HistorySpec => []HistoryIsWhole
<1>1. HistoryInv /\ [HistoryNext]_historyVars => HistoryInv'
  BY HistorySteps
<1> QED
  BY <1>1, HistoryBegins, HistoryImplies, PTL DEF HistorySpec

-----------------------------------------------------------------------------
(* The client: SwitchIsClean. The invariant says where a call stands:      *)
(* which kinds of calls have its stage, which network its requests go to   *)
(* while no switch has overtaken it, and how many requests it has had of   *)
(* its budget. There is a lemma for each way in which a call goes on.      *)

CallState == [pc : {"idle", "sent", "paused", "signing", "returned", "failed"},
              kind : Kind,
              stage : {"none", "ledgers", "health", "load", "info", "account", "simulate"},
              key : CacheKey \cup {None},
              on : Network \cup {None},
              via : Network \cup {None},
              tries : 0 .. MaxTries, rounds : 0 .. MaxTries, requests : Nat,
              moved : BOOLEAN]

\* The kinds of calls that have a stage.
KindsOf(st) == CASE st \in {"ledgers", "health"} -> {"connect"}
                 [] st = "load"     -> {"balance"}
                 [] st = "info"     -> {"info"}
                 [] st = "account"  -> {"invoke", "create", "cancel"}
                 [] st = "simulate" -> {"invoke", "create", "cancel", "read"}
                 [] OTHER -> {}

\* The most requests the stages, or rounds, before the one of r cost.
Before(r) == IF r.stage = "info" THEN (MaxTries - r.rounds) * MaxTries
             ELSE IF r.stage = "health" \/ (r.stage = "simulate" /\ r.kind # "read") THEN MaxTries ELSE 0

Flies(r) == r.pc \in {"sent", "paused"}

\* Where an open call that no switch overtook is.
Here(r, n) == ~r.moved => /\ r.on = n
                          /\ r.stage = "health" => r.via = n
                          /\ r.stage = "simulate" /\ r.kind = "invoke" => r.via = n

Costs(r) == /\ r.tries \in 1 .. MaxTries /\ r.rounds \in 1 .. MaxTries
            /\ r.pc = "sent" => r.requests <= Before(r) + (MaxTries - r.tries) + 1
            /\ r.pc = "paused" => r.requests <= Before(r) + (MaxTries - r.tries)

CallOK(r, n) ==
  /\ Flies(r) => r.kind \in KindsOf(r.stage) /\ Here(r, n) /\ Costs(r) /\ r.on \in Network
  /\ r.pc = "signing" => r.kind = "invoke" /\ r.requests <= 2 * MaxTries /\ (~r.moved => r.via = r.on)
  /\ r.pc \in {"idle", "returned", "failed"} => r.requests = 0

CallsOK == \A c \in ClientCall : CallOK(call[c], network)

\* A connect that is open is known to a client that was not disconnected since.
Departed == away => ~connected /\ \A c \in Pending : call[c].kind # "connect"

ClientInv == /\ ClientTypeOK /\ CallsOK /\ ServersAreCurrent /\ Departed
             /\ connected => checked \in {{}, {network}}

LEMMA CallType == ClientTypeOK => call \in [ClientCall -> CallState]
BY DEF ClientTypeOK, CallState

LEMMA FreshOK == Fresh \in CallState /\ Fresh.pc = "idle" /\ Fresh.tries = 0 /\ Fresh.requests = 0 /\ ~Fresh.moved
<1>1. 0 \in 0 .. MaxTries
  BY ClientAssumption
<1> QED
  BY <1>1 DEF Fresh, CallState, Kind

LEMMA OverOK ==
  ASSUME NEW end \in {"idle", "returned", "failed"}, NEW n \in Network
  PROVE  Over(end) \in CallState /\ CallOK(Over(end), n) /\ ~Flies(Over(end)) /\ Over(end).pc = end
<1>1. Over(end) \in CallState /\ Over(end).pc = end /\ Over(end).requests = 0
  BY FreshOK DEF Over, CallState
<1> QED
  BY <1>1 DEF CallOK, Flies

\* The first attempt of a stage changes three fields.
LEMMA SentOK ==
  ASSUME NEW r \in CallState, Server(r) \in Network
  PROVE  /\ Sent(r) \in CallState
         /\ Sent(r).pc = "sent" /\ Sent(r).on = Server(r) /\ Sent(r).tries = MaxTries
         /\ Sent(r).requests = r.requests + 1
         /\ Sent(r).kind = r.kind /\ Sent(r).stage = r.stage /\ Sent(r).via = r.via
         /\ Sent(r).rounds = r.rounds /\ Sent(r).moved = r.moved
<1>1. MaxTries \in 0 .. MaxTries /\ r.requests + 1 \in Nat
  BY ClientAssumption DEF CallState
<1> QED
  BY <1>1 DEF Sent, CallState

\* What a call that is opened begins with.
Begins(kind, st) == \/ kind = "connect" /\ st = "ledgers"
                    \/ kind = "balance" /\ st = "load"
                    \/ kind = "info" /\ st = "info"
                    \/ kind \in {"invoke", "create", "cancel"} /\ st = "account"
                    \/ kind = "read" /\ st = "simulate"

OpenedCall(kind, st, key) == Sent([Fresh EXCEPT !.kind = kind, !.stage = st, !.key = key,
                                               !.on = network, !.rounds = MaxTries])

LEMMA OpenedOK ==
  ASSUME network \in Network, NEW kind, NEW st, NEW key \in CacheKey \cup {None}, Begins(kind, st)
  PROVE  LET r == OpenedCall(kind, st, key) IN r \in CallState /\ CallOK(r, network) /\ r.kind = kind
<1> DEFINE n == network  r == OpenedCall(kind, st, key)
       r0 == [Fresh EXCEPT !.kind = kind, !.stage = st, !.key = key, !.on = network, !.rounds = MaxTries]
<1>1. MaxTries \in 1 .. MaxTries /\ MaxTries \in 0 .. MaxTries /\ MaxTries - MaxTries = 0
      /\ 0 * MaxTries = 0
  BY ClientAssumption
<1>2. /\ kind \in Kind
      /\ st \in {"none", "ledgers", "health", "load", "info", "account", "simulate"} /\ st # "health"
      /\ kind \in KindsOf(st) /\ (st = "simulate" => kind = "read")
  BY DEF Kind, KindsOf, Begins
<1>3. /\ r0 \in CallState
      /\ r0.kind = kind /\ r0.stage = st /\ r0.on = n /\ r0.rounds = MaxTries /\ r0.requests = 0 /\ ~r0.moved
  BY <1>1, <1>2, FreshOK DEF CallState
<1>4. r = Sent(r0)
  BY DEF OpenedCall
<1> HIDE DEF r0, r
<1>5. Server(r0) = n
  BY <1>2, <1>3 DEF Server
<1>6. /\ r \in CallState
      /\ r.pc = "sent" /\ r.on = n /\ r.tries = MaxTries /\ r.requests = 1
      /\ r.kind = kind /\ r.stage = st /\ r.rounds = MaxTries
  BY <1>3, <1>4, <1>5, SentOK
<1>7. Before(r) = 0
  BY <1>1, <1>2, <1>6 DEF Before
<1>8. Costs(r)
  BY <1>1, <1>6, <1>7 DEF Costs
<1>9. Here(r, n)
  BY <1>2, <1>6 DEF Here
<1>10. CallOK(r, n)
  BY <1>2, <1>6, <1>8, <1>9 DEF CallOK, Flies
<1> QED
  BY <1>6, <1>10 DEF r

\* One call goes on, and the network stays.
LEMMA CallGoes ==
  ASSUME ClientTypeOK, CallsOK, NEW c \in ClientCall, NEW r \in CallState, CallOK(r, network),
         call' = [call EXCEPT ![c] = r], network' = network
  PROVE  /\ call' \in [ClientCall -> CallState] /\ CallsOK'
         /\ call'[c] = r /\ \A d \in ClientCall \ {c} : call'[d] = call[d]
<1>1. call \in [ClientCall -> CallState]
  BY CallType
<1>2. /\ call' \in [ClientCall -> CallState]
      /\ call'[c] = r /\ \A d \in ClientCall \ {c} : call'[d] = call[d]
  BY <1>1
<1>3. ASSUME NEW d \in ClientCall PROVE CallOK(call'[d], network')
  <2>1. CASE d = c
    BY <1>2, <2>1
  <2>2. CASE d # c
    <3>1. call'[d] = call[d] /\ CallOK(call[d], network)
      BY <1>2, <2>2 DEF CallsOK
    <3> QED
      BY <3>1
  <2> QED
    BY <2>1, <2>2
<1> QED
  BY <1>2, <1>3 DEF CallsOK

\* The same, of a step that leaves the caches and the history alone, and keeps or resets
\* the flag of the client.
LEMMA CallKeeps ==
  ASSUME ClientInv, NEW c \in ClientCall, NEW r \in CallState, CallOK(r, network),
         call' = [call EXCEPT ![c] = r], network' = network,
         soroban' = soroban \/ soroban' = network,
         cache' = cache, tainted' = tainted, away' = away,
         away /\ Flies(r) => r.kind # "connect",
         (connected' = connected /\ checked' = checked) \/ (connected' = FALSE /\ checked' = {})
  PROVE  ClientInv'
<1>0. ClientTypeOK /\ CallsOK /\ ServersAreCurrent /\ Departed /\ (connected => checked \in {{}, {network}})
  BY DEF ClientInv
<1>1. /\ call' \in [ClientCall -> CallState] /\ CallsOK'
      /\ call'[c] = r /\ \A d \in ClientCall \ {c} : call'[d] = call[d]
  BY <1>0, CallGoes
<1>2. ClientTypeOK'
  <2>1. connected' \in BOOLEAN /\ checked' \subseteq Network
    BY <1>0 DEF ClientTypeOK
  <2>2. network' \in Network /\ soroban' \in Network \cup {None} /\ cache' \in [CacheKey -> Network \cup {None}]
        /\ tainted' \in BOOLEAN /\ away' \in BOOLEAN
    BY <1>0 DEF ClientTypeOK
  <2> QED
    BY <1>1, <2>1, <2>2 DEF ClientTypeOK, CallState
<1>3. ServersAreCurrent'
  BY <1>0 DEF ServersAreCurrent
<1>4. Departed'
  <2>1. ASSUME NEW d \in Pending', away' PROVE call'[d].kind # "connect"
    <3>1. CASE d = c
      BY <1>1, <2>1, <3>1 DEF Flies, Pending
    <3>2. CASE d # c
      BY <1>0, <1>1, <2>1, <3>2 DEF Pending, Departed
    <3> QED
      BY <3>1, <3>2
  <2>2. away' => ~connected'
    BY <1>0 DEF Departed
  <2> QED
    BY <2>1, <2>2 DEF Departed
<1>5. connected' => checked' \in {{}, {network'}}
  BY <1>0
<1> QED
  BY <1>1, <1>2, <1>3, <1>4, <1>5 DEF ClientInv

\* What is known of an open call.
LEMMA OpenCall ==
  ASSUME ClientInv, NEW c \in ClientCall, call[c].pc \in {"sent", "paused"}
  PROVE  /\ call[c] \in CallState /\ call[c].kind \in KindsOf(call[c].stage)
         /\ Here(call[c], network) /\ Costs(call[c]) /\ call[c].on \in Network
         /\ away => call[c].kind # "connect"
         /\ network \in Network /\ call \in [ClientCall -> CallState]
<1>1. call \in [ClientCall -> CallState] /\ network \in Network
  BY CallType DEF ClientInv, ClientTypeOK
<1>2. CallOK(call[c], network)
  BY DEF ClientInv, CallsOK
<1>3. away => call[c].kind # "connect"
  BY DEF ClientInv, Departed, Pending
<1> QED
  BY <1>1, <1>2, <1>3 DEF CallOK, Flies

\* A call ends, and with it the flag of a connect that fails.
LEMMA EndKeeps ==
  ASSUME ClientInv, NEW c \in ClientCall, NEW end \in {"returned", "failed"},
         call' = [call EXCEPT ![c] = Over(end)],
         UNCHANGED <<network, soroban, cache, clientHistory>>,
         (connected' = connected /\ checked' = checked) \/ (connected' = FALSE /\ checked' = {})
  PROVE  ClientInv'
<1>1. network \in Network
  BY DEF ClientInv, ClientTypeOK
<1>2. Over(end) \in CallState /\ CallOK(Over(end), network) /\ ~Flies(Over(end))
  BY <1>1, OverOK
<1> DEFINE r == Over(end)
<1>3. r \in CallState /\ CallOK(r, network) /\ ~Flies(r) /\ call' = [call EXCEPT ![c] = r]
  BY <1>2
<1> HIDE DEF r
<1> QED
  BY <1>3, CallKeeps DEF clientHistory

\* The product of rounds and attempts that are left.
LEMMA RoundsLeft ==
  ASSUME NEW n \in 1 .. MaxTries
  PROVE  /\ (MaxTries - n) * MaxTries \in Nat
         /\ (MaxTries - n) * MaxTries + MaxTries <= MaxTries * MaxTries
         /\ (MaxTries - n) * MaxTries + MaxTries = (MaxTries - (n - 1)) * MaxTries
<1>1. MaxTries \in Nat /\ n \in Nat /\ n >= 1 /\ MaxTries - n \in Nat
  BY ClientAssumption
<1>2. (MaxTries - n) * MaxTries = MaxTries * MaxTries - n * MaxTries
  BY <1>1
<1>3. n * MaxTries >= 1 * MaxTries
  BY <1>1
<1>4. (MaxTries - (n - 1)) * MaxTries = MaxTries * MaxTries - n * MaxTries + MaxTries
  BY <1>1
<1>5. (MaxTries - n) * MaxTries \in Nat
  BY <1>1
<1> QED
  BY <1>1, <1>2, <1>3, <1>4, <1>5

\* A transient failure: the call pauses and has an attempt less.
LEMMA PauseKeeps ==
  ASSUME ClientInv, NEW c \in ClientCall, call[c].pc = "sent", call[c].tries > 1,
         call' = [call EXCEPT ![c].pc = "paused", ![c].tries = @ - 1],
         UNCHANGED <<network, soroban, cache, clientHistory, connected, checked>>
  PROVE  ClientInv'
<1> DEFINE r0 == call[c]  r == [r0 EXCEPT !.pc = "paused", !.tries = @ - 1]
<1>1. /\ r0 \in CallState /\ r0.kind \in KindsOf(r0.stage)
      /\ Here(r0, network) /\ Costs(r0) /\ r0.on \in Network
      /\ away => r0.kind # "connect"
      /\ network \in Network /\ call \in [ClientCall -> CallState] /\ r0.pc = "sent" /\ r0.tries > 1
  BY OpenCall
<1>2. call' = [call EXCEPT ![c] = r]
  BY <1>1
<1> HIDE DEF r0
<1>3. r0.tries - 1 \in 1 .. MaxTries /\ r0.tries - 1 \in 0 .. MaxTries
  BY <1>1, ClientAssumption DEF Costs
<1>4. /\ r \in CallState /\ r.pc = "paused" /\ r.tries = r0.tries - 1
      /\ r.kind = r0.kind /\ r.stage = r0.stage /\ r.on = r0.on /\ r.via = r0.via /\ r.rounds = r0.rounds
      /\ r.requests = r0.requests /\ r.moved = r0.moved
  BY <1>1, <1>3 DEF CallState
<1> HIDE DEF r
<1>5. Before(r) = Before(r0)
  BY <1>4 DEF Before
<1>6. Before(r0) \in Nat
  BY <1>1, RoundsLeft, ClientAssumption DEF Before, Costs
<1>7. Costs(r)
  BY <1>1, <1>3, <1>4, <1>5, <1>6, ClientAssumption DEF Costs, CallState
<1>8. Here(r, network)
  BY <1>1, <1>4 DEF Here
<1>9. CallOK(r, network)
  BY <1>1, <1>4, <1>7, <1>8 DEF CallOK, Flies
<1> QED
  BY <1>1, <1>2, <1>4, <1>9, CallKeeps DEF clientHistory

\* A round of getAccountInfo is used up, and the next has all the attempts again.
LEMMA RoundKeeps ==
  ASSUME ClientInv, NEW c \in ClientCall, call[c].pc = "sent", call[c].stage = "info", call[c].rounds > 1,
         NextRound(c), UNCHANGED <<network, soroban, cache, clientHistory, connected, checked>>
  PROVE  ClientInv'
<1> DEFINE r0 == call[c]  r == [r0 EXCEPT !.pc = "paused", !.rounds = @ - 1, !.tries = MaxTries]
<1>1. /\ r0 \in CallState /\ r0.kind \in KindsOf(r0.stage)
      /\ Here(r0, network) /\ Costs(r0) /\ r0.on \in Network
      /\ away => r0.kind # "connect"
      /\ network \in Network /\ call \in [ClientCall -> CallState]
      /\ r0.pc = "sent" /\ r0.stage = "info" /\ r0.rounds > 1
  BY OpenCall
<1>2. call' = [call EXCEPT ![c] = r]
  BY <1>1 DEF NextRound
<1> HIDE DEF r0
<1>3. /\ r0.rounds \in 1 .. MaxTries /\ r0.rounds - 1 \in 1 .. MaxTries /\ r0.rounds - 1 \in 0 .. MaxTries
      /\ MaxTries \in 1 .. MaxTries /\ MaxTries \in 0 .. MaxTries
  BY <1>1, ClientAssumption DEF Costs
<1>4. /\ r \in CallState /\ r.pc = "paused" /\ r.tries = MaxTries
      /\ r.kind = r0.kind /\ r.stage = "info" /\ r.on = r0.on /\ r.rounds = r0.rounds - 1
      /\ r.requests = r0.requests /\ r.moved = r0.moved
  BY <1>1, <1>3 DEF CallState
<1> HIDE DEF r
<1>5. Before(r0) = (MaxTries - r0.rounds) * MaxTries /\ Before(r) = (MaxTries - (r0.rounds - 1)) * MaxTries
  BY <1>1, <1>4 DEF Before
<1>6. Before(r0) \in Nat /\ Before(r) = Before(r0) + MaxTries
  BY <1>3, <1>5, RoundsLeft
<1>7. r0.requests <= Before(r0) + (MaxTries - r0.tries) + 1 /\ r0.tries \in 1 .. MaxTries
  BY <1>1 DEF Costs
<1>8. r0.requests <= Before(r)
  BY <1>1, <1>6, <1>7, ClientAssumption DEF CallState
<1>9. Costs(r)
  BY <1>1, <1>3, <1>4, <1>6, <1>8, ClientAssumption DEF Costs, CallState
<1>10. Here(r, network)
  BY <1>1, <1>4 DEF Here
<1>11. CallOK(r, network)
  BY <1>1, <1>4, <1>9, <1>10 DEF CallOK, Flies
<1> QED
  BY <1>1, <1>2, <1>4, <1>11, CallKeeps DEF clientHistory

\* A call fails, or createEscrow returns all the same.
LEMMA FailKeeps ==
  ASSUME ClientInv, NEW c \in ClientCall, CallFails(c), UNCHANGED <<network, soroban, cache, clientHistory>>
  PROVE  ClientInv'
<1>1. \E end \in {"returned", "failed"} : call' = [call EXCEPT ![c] = Over(end)]
  BY DEF CallFails, InvocationFails, Throws
<1>2. (connected' = connected /\ checked' = checked) \/ (connected' = FALSE /\ checked' = {})
  BY DEF CallFails, InvocationFails, Throws
<1> QED
  BY <1>1, <1>2, EndKeeps

\* Where the server of a call is found.
LEMMA ServerOf ==
  ASSUME ClientInv, NEW r \in CallState, r.on \in Network
  PROVE  Server(r) \in Network /\ (r.on = network => Server(r) = network)
BY DEF ClientInv, ClientTypeOK, ServersAreCurrent, Server, KeepsServer, CallState

\* A paused call is sent again, which costs one of the requests it has left.
LEMMA RetryKeeps == ASSUME ClientInv, NEW c \in ClientCall, Retry(c) PROVE ClientInv'
<1> DEFINE r0 == call[c]  r == [r0 EXCEPT !.pc = "sent", !.on = Server(r0), !.requests = @ + 1]
<1>1. /\ r0 \in CallState /\ r0.kind \in KindsOf(r0.stage)
      /\ Here(r0, network) /\ Costs(r0) /\ r0.on \in Network
      /\ away => r0.kind # "connect"
      /\ network \in Network /\ call \in [ClientCall -> CallState] /\ r0.pc = "paused"
  BY OpenCall DEF Retry
<1>2. /\ call' = [call EXCEPT ![c] = r] /\ (soroban' = soroban \/ soroban' = network)
      /\ UNCHANGED <<network, connected, checked, cache, clientHistory>>
  BY <1>1 DEF Retry, SorobanUsed
<1> HIDE DEF r0
<1>3. Server(r0) \in Network /\ (r0.on = network => Server(r0) = network)
  BY <1>1, ServerOf
<1>a. r0.requests \in Nat /\ r0.requests + 1 \in Nat
  BY <1>1 DEF CallState
<1>4. /\ r \in CallState /\ r.pc = "sent" /\ r.tries = r0.tries
      /\ r.kind = r0.kind /\ r.stage = r0.stage /\ r.on = Server(r0) /\ r.via = r0.via /\ r.rounds = r0.rounds
      /\ r.requests = r0.requests + 1 /\ r.moved = r0.moved
  BY <1>1, <1>3, <1>a DEF CallState
<1> HIDE DEF r
<1>5. Before(r) = Before(r0)
  BY <1>4 DEF Before
<1>6. Before(r0) \in Nat
  BY <1>1, RoundsLeft, ClientAssumption DEF Before, Costs
<1>7. Costs(r)
  BY <1>1, <1>4, <1>5, <1>6, ClientAssumption DEF Costs, CallState
<1>8. Here(r, network)
  BY <1>1, <1>3, <1>4 DEF Here
<1>9. CallOK(r, network)
  BY <1>1, <1>3, <1>4, <1>7, <1>8 DEF CallOK, Flies
<1> QED
  BY <1>1, <1>2, <1>4, <1>9, CallKeeps DEF clientHistory

\* A call enters its second stage, for which it has as many attempts again.
LEMMA StageKeeps ==
  ASSUME ClientInv, NEW c \in ClientCall, call[c].pc = "sent",
         NEW st, NEW via \in Network,
         \/ call[c].stage = "ledgers" /\ st = "health" /\ via = call[c].on
         \/ call[c].stage = "account" /\ st = "simulate" /\ via = network,
         call' = [call EXCEPT ![c] = Sent([@ EXCEPT !.stage = st, !.via = via])],
         soroban' = soroban \/ soroban' = network,
         UNCHANGED <<network, connected, checked, cache, clientHistory>>
  PROVE  ClientInv'
<1> DEFINE r0 == call[c]  r1 == [r0 EXCEPT !.stage = st, !.via = via]  r == Sent(r1)
<1>1. /\ r0 \in CallState /\ r0.kind \in KindsOf(r0.stage)
      /\ Here(r0, network) /\ Costs(r0) /\ r0.on \in Network
      /\ away => r0.kind # "connect"
      /\ network \in Network /\ call \in [ClientCall -> CallState] /\ r0.pc = "sent"
      /\ \/ r0.stage = "ledgers" /\ st = "health" /\ via = r0.on
         \/ r0.stage = "account" /\ st = "simulate" /\ via = network
  BY OpenCall
<1>2. call' = [call EXCEPT ![c] = r]
  BY <1>1
<1> HIDE DEF r0
<1>3. st \in {"health", "simulate"}
  BY <1>1
<1>4. /\ r1 \in CallState /\ r1.on = r0.on /\ r1.stage = st /\ r1.via = via /\ r1.kind = r0.kind
      /\ r1.rounds = r0.rounds /\ r1.requests = r0.requests /\ r1.moved = r0.moved
  BY <1>1, <1>3 DEF CallState
<1> HIDE DEF r1
<1>5. Server(r1) \in Network /\ (r0.on = network => Server(r1) = network)
  BY <1>1, <1>4, ServerOf
<1>6. /\ r \in CallState /\ r.pc = "sent" /\ r.on = Server(r1) /\ r.tries = MaxTries
      /\ r.requests = r0.requests + 1 /\ r.kind = r0.kind /\ r.stage = st /\ r.via = via
      /\ r.rounds = r0.rounds /\ r.moved = r0.moved
  BY <1>4, <1>5, SentOK
<1> HIDE DEF r
<1>7. r.kind \in KindsOf(st) /\ r.kind # "read"
  BY <1>1, <1>6 DEF KindsOf
<1>8. Before(r0) = 0 /\ Before(r) = MaxTries
  BY <1>1, <1>3, <1>6, <1>7 DEF Before
<1>9. Costs(r)
  BY <1>1, <1>6, <1>8, ClientAssumption DEF Costs, CallState
<1>10. Here(r, network)
  BY <1>1, <1>5, <1>6 DEF Here
<1>11. CallOK(r, network)
  BY <1>5, <1>6, <1>7, <1>9, <1>10 DEF CallOK, Flies
<1> QED
  BY <1>1, <1>2, <1>6, <1>11, CallKeeps DEF clientHistory

\* A simulation that succeeded is given away to be signed.
LEMMA SigningKeeps ==
  ASSUME ClientInv, NEW c \in ClientCall, call[c].pc = "sent", call[c].stage = "simulate", call[c].kind = "invoke",
         call' = [call EXCEPT ![c] = [@ EXCEPT !.pc = "signing"]],
         UNCHANGED <<network, soroban, connected, checked, cache, clientHistory>>
  PROVE  ClientInv'
<1> DEFINE r0 == call[c]  r == [r0 EXCEPT !.pc = "signing"]
<1>1. /\ r0 \in CallState /\ Here(r0, network) /\ Costs(r0)
      /\ network \in Network /\ call \in [ClientCall -> CallState]
      /\ r0.pc = "sent" /\ r0.stage = "simulate" /\ r0.kind = "invoke"
  BY OpenCall
<1>2. call' = [call EXCEPT ![c] = r]
  BY <1>1
<1> HIDE DEF r0
<1>3. /\ r \in CallState /\ r.pc = "signing" /\ r.on = r0.on /\ r.via = r0.via /\ r.kind = "invoke"
      /\ r.requests = r0.requests /\ r.moved = r0.moved
  BY <1>1 DEF CallState
<1> HIDE DEF r
<1>4. Before(r0) = MaxTries
  BY <1>1 DEF Before
<1>5. r0.requests <= 2 * MaxTries
  BY <1>1, <1>4, ClientAssumption DEF Costs, CallState
<1>6. ~r.moved => r.via = r.on
  BY <1>1, <1>3 DEF Here
<1>7. CallOK(r, network) /\ ~Flies(r)
  BY <1>3, <1>5, <1>6 DEF CallOK, Flies
<1> QED
  BY <1>2, <1>3, <1>7, CallKeeps DEF clientHistory

\* A call is opened that is no connect, or there is no flag to mind.
LEMMA OpensKeeps ==
  ASSUME ClientInv, NEW c \in ClientCall, NEW kind, NEW st, NEW key \in CacheKey \cup {None},
         Begins(kind, st), kind # "connect", Opens(c, kind, st, key),
         soroban' = soroban \/ soroban' = network,
         UNCHANGED <<network, connected, checked, cache, clientHistory>>
  PROVE  ClientInv'
<1> DEFINE r == OpenedCall(kind, st, key)
<1>1. network \in Network
  BY DEF ClientInv, ClientTypeOK
<1>2. r \in CallState /\ CallOK(r, network) /\ r.kind = kind
  BY <1>1, OpenedOK
<1>3. call' = [call EXCEPT ![c] = r]
  BY DEF Opens, OpenedCall
<1> HIDE DEF r
<1> QED
  BY <1>2, <1>3, CallKeeps DEF clientHistory

LEMMA ClientBegins == ClientInit => ClientInv
<1> SUFFICES ASSUME ClientInit PROVE ClientInv
  OBVIOUS
<1>1. call \in [ClientCall -> CallState] /\ \A c \in ClientCall : call[c] = Fresh
  BY FreshOK DEF ClientInit
<1>2. ClientTypeOK
  BY <1>1 DEF ClientInit, ClientTypeOK, CallState
<1>3. CallsOK
  BY <1>1, FreshOK DEF CallsOK, CallOK, Flies
<1>4. ServersAreCurrent /\ Departed /\ (connected => checked \in {{}, {network}})
  BY DEF ClientInit, ServersAreCurrent, Departed
<1> QED
  BY <1>2, <1>3, <1>4 DEF ClientInv

\* A connect makes its way, and the client may be connected in the end.
LEMMA ClientConnectKeeps == ASSUME ClientInv, NEW c \in ClientCall, Connect(c) PROVE ClientInv'
<1> DEFINE r == OpenedCall("connect", "ledgers", None)
<1>0. ClientTypeOK /\ CallsOK /\ ServersAreCurrent /\ (connected => checked \in {{}, {network}})
  BY DEF ClientInv
<1>1. network \in Network
  BY <1>0 DEF ClientTypeOK
<1>2. Begins("connect", "ledgers")
  BY DEF Begins
<1>3. r \in CallState /\ CallOK(r, network)
  BY <1>1, <1>2, OpenedOK
<1>4. call' = [call EXCEPT ![c] = r] /\ away' = FALSE
      /\ UNCHANGED <<network, soroban, connected, checked, cache, tainted>>
  BY DEF Connect, Opens, OpenedCall
<1> HIDE DEF r
<1>5. call' \in [ClientCall -> CallState] /\ CallsOK'
  BY <1>0, <1>3, <1>4, CallGoes
<1>6. ClientTypeOK'
  BY <1>0, <1>4, <1>5 DEF ClientTypeOK, CallState
<1>7. ServersAreCurrent' /\ Departed' /\ (connected' => checked' \in {{}, {network'}})
  BY <1>0, <1>4 DEF ServersAreCurrent, Departed
<1> QED
  BY <1>5, <1>6, <1>7 DEF ClientInv

\* A connect is answered by the second server.
LEMMA HealthKeeps == ASSUME ClientInv, NEW c \in ClientCall, NEW up \in BOOLEAN, HealthAnswered(c, up) PROVE ClientInv'
<1>0. ClientTypeOK /\ CallsOK /\ ServersAreCurrent /\ Departed /\ (connected => checked \in {{}, {network}})
  BY DEF ClientInv
<1>1. CASE ~up
  <2>1. Throws(c) /\ UNCHANGED <<network, soroban, cache, clientHistory>>
    BY <1>1 DEF HealthAnswered
  <2>2. call' = [call EXCEPT ![c] = Over("failed")]
        /\ ((connected' = connected /\ checked' = checked) \/ (connected' = FALSE /\ checked' = {}))
    BY <2>1 DEF Throws
  <2> QED
    BY <2>1, <2>2, EndKeeps
<1>2. CASE up
  <2>1. /\ call' = [call EXCEPT ![c] = Over("returned")] /\ connected' = TRUE
        /\ checked' = IF call[c].moved THEN {} ELSE {call[c].via, call[c].on}
        /\ UNCHANGED <<network, soroban, cache, clientHistory>>
        /\ call[c].pc = "sent" /\ call[c].stage = "health"
    BY <1>2 DEF HealthAnswered
  <2>2. call[c].kind \in KindsOf(call[c].stage) /\ Here(call[c], network) /\ network \in Network
    BY <2>1, OpenCall
  <2>3. checked' \in {{}, {network}} /\ call[c].kind = "connect"
    BY <2>1, <2>2 DEF Here, KindsOf
  <2>4. Over("returned") \in CallState /\ CallOK(Over("returned"), network) /\ ~Flies(Over("returned"))
    BY <2>2, OverOK
  <2>5. /\ call' \in [ClientCall -> CallState] /\ CallsOK'
        /\ call'[c] = Over("returned") /\ \A d \in ClientCall \ {c} : call'[d] = call[d]
    BY <1>0, <2>1, <2>4, CallGoes
  <2>6. away' = FALSE /\ tainted' = tainted
    <3>1. c \in Pending
      BY <2>1 DEF Pending
    <3> QED
      BY <1>0, <2>1, <2>3, <3>1 DEF Departed, clientHistory, ClientTypeOK
  <2>7. ClientTypeOK'
    BY <1>0, <2>1, <2>2, <2>3, <2>5, <2>6 DEF ClientTypeOK, CallState
  <2>8. ServersAreCurrent'
    BY <1>0, <2>1, <2>6 DEF ServersAreCurrent
  <2>9. Departed'
    BY <2>6 DEF Departed
  <2> QED
    BY <2>1, <2>3, <2>5, <2>7, <2>8, <2>9 DEF ClientInv
<1> QED
  BY <1>1, <1>2

\* A balance is cached, and the cache is tainted if a switch overtook its request.
LEMMA BalanceKeeps == ASSUME ClientInv, NEW c \in ClientCall, BalanceAnswered(c) PROVE ClientInv'
<1>0. ClientTypeOK /\ CallsOK /\ ServersAreCurrent /\ Departed /\ (connected => checked \in {{}, {network}})
  BY DEF ClientInv
<1>1. /\ call[c].pc = "sent" /\ call[c].stage = "load"
      /\ call' = [call EXCEPT ![c] = Over("returned")]
      /\ cache' = [cache EXCEPT ![call[c].key] = call[c].on] /\ tainted' = (tainted \/ call[c].moved)
      /\ UNCHANGED <<network, soroban, connected, checked, away>>
  BY DEF BalanceAnswered
<1>2. call[c] \in CallState /\ Here(call[c], network) /\ network \in Network /\ call[c].on \in Network
  BY <1>1, OpenCall
<1>3. Over("returned") \in CallState /\ CallOK(Over("returned"), network) /\ ~Flies(Over("returned"))
  BY <1>2, OverOK
<1>4. /\ call' \in [ClientCall -> CallState] /\ CallsOK'
      /\ call'[c] = Over("returned") /\ \A d \in ClientCall \ {c} : call'[d] = call[d]
  BY <1>0, <1>1, <1>3, CallGoes
<1>5. tainted' \in BOOLEAN /\ (~tainted' => ~tainted /\ call[c].on = network)
  BY <1>1, <1>2 DEF Here
<1>6. cache' \in [CacheKey -> Network \cup {None}]
  BY <1>0, <1>1, <1>2 DEF ClientTypeOK
<1>7. ClientTypeOK'
  BY <1>0, <1>1, <1>4, <1>5, <1>6 DEF ClientTypeOK, CallState
<1>8. ServersAreCurrent'
  <2>1. \A k \in CacheKey : cache'[k] \in {cache[k], call[c].on}
    BY <1>0, <1>1 DEF ClientTypeOK
  <2> QED
    BY <1>0, <1>1, <1>5, <2>1 DEF ServersAreCurrent
<1>9. Departed'
  <2>1. Pending' \subseteq Pending /\ \A d \in Pending' : call'[d] = call[d]
    BY <1>3, <1>4 DEF Pending, Flies
  <2> QED
    BY <1>0, <1>1, <2>1 DEF Departed
<1> QED
  BY <1>0, <1>1, <1>4, <1>7, <1>8, <1>9 DEF ClientInv

\* What a switch leaves of an open call.
LEMMA SwitchKeeps == ASSUME ClientInv, NEW n \in Network, SwitchNetwork(n) PROVE ClientInv'
<1>0. ClientTypeOK /\ CallsOK /\ Departed
  BY DEF ClientInv
<1>1. /\ network' = n /\ connected' = FALSE /\ cache' = [k \in CacheKey |-> None] /\ soroban' = None
      /\ call' = Overtaken /\ checked' = {} /\ tainted' = FALSE /\ away' = away
  BY DEF SwitchNetwork
<1>2. call \in [ClientCall -> CallState]
  BY <1>0, CallType
<1>3. ASSUME NEW d \in ClientCall
      PROVE  call'[d] \in CallState /\ CallOK(call'[d], n)
             /\ call'[d].pc = call[d].pc /\ call'[d].kind = call[d].kind
  <2> DEFINE r0 == call[d]
  <2>1. r0 \in CallState /\ CallOK(r0, network)
    BY <1>0, <1>2 DEF CallsOK
  <2>2. CASE d \in Pending
    <3> DEFINE r == [r0 EXCEPT !.moved = TRUE]
    <3>1. call'[d] = r
      BY <1>1, <2>2 DEF Overtaken
    <3>2. Flies(r0)
      BY <2>2 DEF Pending, Flies
    <3> HIDE DEF r0
    <3>3. /\ r \in CallState /\ r.moved = TRUE
          /\ r.pc = r0.pc /\ r.kind = r0.kind /\ r.stage = r0.stage /\ r.on = r0.on
          /\ r.tries = r0.tries /\ r.rounds = r0.rounds /\ r.requests = r0.requests
      BY <2>1 DEF CallState
    <3> HIDE DEF r
    <3>4. r.kind \in KindsOf(r.stage) /\ Costs(r0) /\ r.on \in Network
      BY <2>1, <3>2, <3>3 DEF CallOK
    <3>5. Costs(r)
      BY <3>3, <3>4 DEF Costs, Before
    <3>6. Here(r, n)
      BY <3>3 DEF Here
    <3>7. CallOK(r, n)
      BY <3>2, <3>3, <3>4, <3>5, <3>6 DEF CallOK, Flies
    <3> QED
      BY <3>1, <3>3, <3>7 DEF r0
  <2>3. CASE d \notin Pending
    <3>1. call'[d] = r0
      BY <1>1, <2>3 DEF Overtaken
    <3>2. ~Flies(r0)
      BY <2>3 DEF Pending, Flies
    <3>3. CallOK(r0, n)
      BY <2>1, <3>2 DEF CallOK
    <3> QED
      BY <2>1, <3>1, <3>3
  <2> QED
    BY <2>2, <2>3
<1>4. call' \in [ClientCall -> CallState]
  BY <1>1, <1>3 DEF Overtaken
<1>5. CallsOK'
  BY <1>1, <1>3 DEF CallsOK
<1>6. ClientTypeOK'
  BY <1>0, <1>1, <1>4 DEF ClientTypeOK, CallState
<1>7. ServersAreCurrent'
  BY <1>1 DEF ServersAreCurrent
<1>8. Departed'
  BY <1>0, <1>1, <1>3 DEF Departed, Pending
<1> QED
  BY <1>1, <1>5, <1>6, <1>7, <1>8 DEF ClientInv

LEMMA DisconnectKeeps == ASSUME ClientInv, Disconnects PROVE ClientInv'
<1>0. ClientTypeOK /\ CallsOK /\ ServersAreCurrent
  BY DEF ClientInv
<1>1. /\ connected' = FALSE /\ checked' = {}
      /\ away' = (\A c \in Pending : call[c].kind # "connect")
      /\ UNCHANGED <<network, soroban, cache, call, tainted>>
  BY DEF Disconnects
<1>2. ClientTypeOK' /\ CallsOK' /\ ServersAreCurrent'
  BY <1>0, <1>1 DEF ClientTypeOK, CallsOK, ServersAreCurrent
<1>3. Departed'
  BY <1>1 DEF Departed, Pending
<1> QED
  BY <1>1, <1>2, <1>3 DEF ClientInv

LEMMA ExpiryKeeps == ASSUME ClientInv, NEW k \in CacheKey, BalanceExpires(k) PROVE ClientInv'
<1>0. ClientTypeOK /\ CallsOK /\ ServersAreCurrent /\ Departed /\ (connected => checked \in {{}, {network}})
  BY DEF ClientInv
<1>1. /\ cache' = [cache EXCEPT ![k] = None]
      /\ UNCHANGED <<network, soroban, connected, checked, call, tainted, away>>
  BY DEF BalanceExpires, clientHistory
<1>2. cache' \in [CacheKey -> Network \cup {None}] /\ \A l \in CacheKey : cache'[l] \in {cache[l], None}
  BY <1>0, <1>1 DEF ClientTypeOK
<1>3. ClientTypeOK' /\ CallsOK' /\ ServersAreCurrent'
  BY <1>0, <1>1, <1>2 DEF ClientTypeOK, CallsOK, ServersAreCurrent
<1>4. Departed'
  BY <1>0, <1>1 DEF Departed, Pending
<1> QED
  BY <1>0, <1>1, <1>3, <1>4 DEF ClientInv

LEMMA FailsKeeps == ASSUME ClientInv, NEW c \in ClientCall, NEW transient \in BOOLEAN, RequestFails(c, transient) PROVE ClientInv'
<1>1. call[c].pc = "sent" /\ UNCHANGED <<network, soroban, cache, clientHistory>>
  BY DEF RequestFails
<1>2. CASE transient /\ call[c].tries > 1
  BY <1>1, <1>2, PauseKeeps DEF RequestFails
<1>3. CASE ~(transient /\ call[c].tries > 1) /\ (transient /\ call[c].stage = "info" /\ call[c].rounds > 1)
  BY <1>1, <1>3, RoundKeeps DEF RequestFails
<1>4. CASE ~(transient /\ call[c].tries > 1) /\ ~(transient /\ call[c].stage = "info" /\ call[c].rounds > 1)
  BY <1>1, <1>4, FailKeeps DEF RequestFails
<1> QED
  BY <1>2, <1>3, <1>4

LEMMA AccountKeeps == ASSUME ClientInv, NEW c \in ClientCall, NEW parsed \in BOOLEAN, AccountAnswered(c, parsed) PROVE ClientInv'
<1>1. call[c].pc = "sent" /\ call[c].stage = "info"
      /\ UNCHANGED <<network, soroban, connected, checked, cache, clientHistory>>
  BY DEF AccountAnswered
<1>2. CASE ~parsed /\ call[c].rounds > 1
  BY <1>1, <1>2, RoundKeeps DEF AccountAnswered
<1>3. CASE parsed \/ ~(call[c].rounds > 1)
  <2>1. \E end \in {"returned", "failed"} : call' = [call EXCEPT ![c] = Over(end)]
    BY <1>3 DEF AccountAnswered
  <2> QED
    BY <1>1, <2>1, EndKeeps
<1> QED
  BY <1>2, <1>3

LEMMA SimulationKeeps ==
  ASSUME ClientInv, NEW c \in ClientCall, NEW success \in BOOLEAN, SimulationAnswered(c, success) PROVE ClientInv'
<1>1. call[c].pc = "sent" /\ call[c].stage = "simulate"
      /\ UNCHANGED <<network, soroban, cache, clientHistory>>
  BY DEF SimulationAnswered
<1>2. CASE ~success \/ call[c].kind = "cancel"
  BY <1>1, <1>2, FailKeeps DEF SimulationAnswered
<1>3. CASE ~(~success \/ call[c].kind = "cancel")
  <2>1. /\ call' = [call EXCEPT ![c] = IF call[c].kind = "invoke" THEN [@ EXCEPT !.pc = "signing"]
                                       ELSE Over("returned")]
        /\ UNCHANGED <<connected, checked>>
    BY <1>3 DEF SimulationAnswered
  <2>2. CASE call[c].kind = "invoke"
    <3>1. call' = [call EXCEPT ![c] = [@ EXCEPT !.pc = "signing"]]
      BY <2>1, <2>2
    <3> QED
      BY <1>1, <2>1, <2>2, <3>1, SigningKeeps
  <2>3. CASE call[c].kind # "invoke"
    <3>1. call' = [call EXCEPT ![c] = Over("returned")]
      BY <2>1, <2>3
    <3> QED
      BY <1>1, <2>1, <3>1, EndKeeps
  <2> QED
    BY <2>2, <2>3
<1> QED
  BY <1>2, <1>3

\* No step leaves the invariant: one case for each action.
LEMMA ClientSteps == ASSUME ClientInv, [ClientNext]_clientVars PROVE ClientInv'
<1>1. ASSUME NEW c \in ClientCall, NEW b \in BOOLEAN,
             RequestFails(c, b) \/ HealthAnswered(c, b) \/ AccountAnswered(c, b) \/ SimulationAnswered(c, b)
      PROVE  ClientInv'
  BY <1>1, FailsKeeps, HealthKeeps, AccountKeeps, SimulationKeeps
<1>2. ASSUME NEW c \in ClientCall, NEW ok \in BOOLEAN, SignAndSubmit(c, ok) PROVE ClientInv'
  <2>1. \E end \in {"returned", "failed"} : call' = [call EXCEPT ![c] = Over(end)]
    BY <1>2 DEF SignAndSubmit
  <2>2. UNCHANGED <<network, soroban, connected, checked, cache, clientHistory>>
    BY <1>2 DEF SignAndSubmit
  <2> QED
    BY <2>1, <2>2, EndKeeps
<1>3. ASSUME NEW c \in ClientCall, Retry(c) \/ Connect(c) \/ BalanceAnswered(c) PROVE ClientInv'
  BY <1>3, RetryKeeps, ClientConnectKeeps, BalanceKeeps
<1>4. ASSUME NEW c \in ClientCall, LedgersAnswered(c) PROVE ClientInv'
  <2>1. /\ call[c].pc = "sent" /\ call[c].stage = "ledgers"
        /\ call' = [call EXCEPT ![c] = Sent([@ EXCEPT !.stage = "health", !.via = call[c].on])]
        /\ (soroban' = soroban \/ soroban' = network)
        /\ UNCHANGED <<network, connected, checked, cache, clientHistory>>
    BY <1>4 DEF LedgersAnswered, SorobanUsed
  <2>2. call[c].on \in Network
    BY <2>1, OpenCall
  <2> QED
    BY <2>1, <2>2, StageKeeps
<1>5. ASSUME NEW c \in ClientCall, SequenceAnswered(c) PROVE ClientInv'
  <2>1. /\ call[c].pc = "sent" /\ call[c].stage = "account"
        /\ call' = [call EXCEPT ![c] = Sent([@ EXCEPT !.stage = "simulate", !.via = network])]
        /\ UNCHANGED <<network, soroban, connected, checked, cache, clientHistory>>
    BY <1>5 DEF SequenceAnswered
  <2>2. network \in Network
    BY DEF ClientInv, ClientTypeOK
  <2> QED
    BY <2>1, <2>2, StageKeeps
<1>6. ASSUME NEW c \in ClientCall, GetAccountInfo(c) \/ ReadContract(c) PROVE ClientInv'
  <2>1. CASE GetAccountInfo(c)
    <3>1. Begins("info", "info") /\ "info" # "connect"
      BY DEF Begins
    <3> QED
      BY <2>1, <3>1, OpensKeeps DEF GetAccountInfo
  <2>2. CASE ReadContract(c)
    <3>1. Begins("read", "simulate") /\ "read" # "connect"
      BY DEF Begins
    <3>2. soroban' = soroban \/ soroban' = network
      BY <2>2 DEF ReadContract, SorobanUsed
    <3> QED
      BY <2>2, <3>1, <3>2, OpensKeeps DEF ReadContract
  <2> QED
    BY <1>6, <2>1, <2>2
<1>7. ASSUME NEW c \in ClientCall, NEW k \in CacheKey, NEW skipCache \in BOOLEAN, GetBalance(c, k, skipCache)
      PROVE  ClientInv'
  <2>1. UNCHANGED <<network, soroban, connected, checked, cache, clientHistory>>
    BY <1>7 DEF GetBalance
  <2>2. call' = [call EXCEPT ![c] = Over("returned")] \/ Opens(c, "balance", "load", k)
    BY <1>7 DEF GetBalance
  <2>3. Begins("balance", "load") /\ "balance" # "connect"
    BY DEF Begins
  <2>4. CASE call' = [call EXCEPT ![c] = Over("returned")]
    BY <2>1, <2>4, EndKeeps
  <2>5. CASE Opens(c, "balance", "load", k)
    BY <2>1, <2>3, <2>5, OpensKeeps
  <2> QED
    BY <2>2, <2>4, <2>5
<1>8. ASSUME NEW c \in ClientCall, NEW kind \in Kind, Invoke(c, kind) PROVE ClientInv'
  <2>1. Begins(kind, "account") /\ kind # "connect"
    BY <1>8 DEF Begins, Invoke
  <2>2. soroban' = soroban \/ soroban' = network
    BY <1>8 DEF Invoke, SorobanUsed
  <2> QED
    BY <1>8, <2>1, <2>2, OpensKeeps DEF Invoke
<1>9. ASSUME NEW n \in Network, SwitchNetwork(n) PROVE ClientInv'
  BY <1>9, SwitchKeeps
<1>10. ASSUME NEW k \in CacheKey, BalanceExpires(k) PROVE ClientInv'
  BY <1>10, ExpiryKeeps
<1>11. CASE Disconnects
  BY <1>11, DisconnectKeeps
<1>12. CASE UNCHANGED clientVars
  <2>1. UNCHANGED <<network, soroban, connected, checked, cache, call, tainted, away>>
    BY <1>12 DEF clientVars, clientHistory
  <2> QED
    BY <2>1 DEF ClientInv, ClientTypeOK, CallsOK, ServersAreCurrent, Departed, Pending
<1> QED
  BY <1>1, <1>2, <1>3, <1>4, <1>5, <1>6, <1>7, <1>8, <1>9, <1>10, <1>11, <1>12 DEF ClientNext

\* What the invariant says of a call, in the words of the property.
LEMMA CallWithinBudget ==
  ASSUME ClientInv, NEW c \in ClientCall
  PROVE  /\ call[c].pc = "signing" /\ ~call[c].moved => call[c].via = call[c].on
         /\ call[c].requests <= IF call[c].kind = "info" THEN MaxTries * MaxTries
                                ELSE IF call[c].kind \in {"balance", "read"} THEN MaxTries ELSE 2 * MaxTries
<1> DEFINE r == call[c]
<1>1. r \in CallState /\ CallOK(r, network)
  BY CallType DEF ClientInv, CallsOK
<1> HIDE DEF r
<1>2. MaxTries \in Nat /\ MaxTries >= 1 /\ MaxTries * MaxTries \in Nat /\ r.requests \in Nat
  BY <1>1, ClientAssumption DEF CallState
<1>3. CASE Flies(r)
  <2>1. r.kind \in KindsOf(r.stage) /\ Costs(r)
    BY <1>1, <1>3 DEF CallOK
  <2>2. r.tries \in 1 .. MaxTries /\ r.rounds \in 1 .. MaxTries
    BY <2>1 DEF Costs
  <2>3. r.requests <= Before(r) + (MaxTries - r.tries) + 1 \/ r.requests <= Before(r) + (MaxTries - r.tries)
    BY <1>3, <2>1 DEF Costs, Flies
  <2>4. CASE r.kind = "info"
    <3>1. r.stage = "info"
      BY <2>1, <2>4 DEF KindsOf
    <3>2. Before(r) \in Nat /\ Before(r) + MaxTries <= MaxTries * MaxTries
      BY <2>2, <3>1, RoundsLeft DEF Before
    <3>3. r.requests <= MaxTries * MaxTries
      BY <1>2, <2>2, <2>3, <3>2
    <3> QED
      BY <1>3, <2>4, <3>3 DEF Flies, r
  <2>5. CASE r.kind \in {"balance", "read"}
    <3>1. Before(r) = 0
      BY <2>1, <2>5 DEF KindsOf, Before
    <3>2. r.requests <= MaxTries
      BY <1>2, <2>2, <2>3, <3>1
    <3> QED
      BY <1>3, <2>5, <3>2 DEF Flies, r
  <2>6. CASE r.kind \notin {"info", "balance", "read"}
    <3>1. Before(r) \in {0, MaxTries}
      BY <2>1, <2>6 DEF KindsOf, Before
    <3>2. r.requests <= 2 * MaxTries
      BY <1>2, <2>2, <2>3, <3>1
    <3> QED
      BY <1>3, <2>6, <3>2 DEF Flies, r
  <2> QED
    BY <2>4, <2>5, <2>6
<1>4. CASE r.pc = "signing"
  BY <1>1, <1>4 DEF CallOK, r
<1>5. CASE ~Flies(r) /\ r.pc # "signing"
  <2>1. r.requests = 0
    BY <1>1, <1>5 DEF CallOK, CallState, Flies
  <2> QED
    BY <1>2, <1>5, <2>1 DEF r
<1> QED
  BY <1>3, <1>4, <1>5

LEMMA ClientIsClean == ClientInv => SwitchIsClean
BY CallWithinBudget DEF ClientInv, Departed, SwitchIsClean, ConnectedIsChecked, SignedAsSimulated, WithinBudget

\* For any networks, keys, attempts and number of calls: after a switch the servers and the
\* cached balances are of the new network, a connected client was checked on it, nothing is
\* signed for another one, and no call costs more requests than the policy allows, except
\* as far as SwitchIsClean says that a switch overtook it.
THEOREM SwitchStaysClean == ClientSpec => []SwitchIsClean
BY ClientBegins, ClientSteps, ClientIsClean, PTL DEF ClientSpec

-----------------------------------------------------------------------------
(* The salts of a juror.                                                   *)

\* The order of the Map is one: of two keys one was inserted after the other.
InOrderOf(S) ==
  /\ \A c \in S : c \notin since[c]
  /\ \A c, d \in S : c # d => (d \in since[c] <=> c \notin since[d])
  /\ \A c, d, e \in S : d \in since[c] /\ e \in since[d] => e \in since[c]

SaltsInv == SaltsTypeOK /\ InOrderOf(storedSalts) /\ SaltsAreKept

\* So the oldest of some of the keys is one of them.
LEMMA OldestIs ==
  ASSUME SaltsInv, NEW S \in SUBSET storedSalts, S # {}
  PROVE  Oldest(S) \in S /\ S \subseteq since[Oldest(S)] \cup {Oldest(S)}
<1> DEFINE U == {S \ since[x] : x \in S}
<1>1. S \in SUBSET Commitment /\ IsFiniteSet(Commitment)
  BY SaltsAssumption DEF SaltsInv, SaltsTypeOK
<1>2. IsFiniteSet(S)
  BY <1>1, FS_Subset
<1>7. U \in SUBSET (SUBSET S) /\ U # {}
  OBVIOUS
<1> HIDE DEF U
<1>3. PICK T \in U : \A V \in U : V \subseteq T => V = T
  BY <1>2, <1>7, Smallest
<1>4. PICK o \in S : T = S \ since[o]
  BY <1>3 DEF U
<1>5. ASSUME NEW y \in S, y # o, y \notin since[o] PROVE FALSE
  <2>1. o \in since[y]
    BY <1>5 DEF SaltsInv, InOrderOf
  <2>2. S \ since[y] \subseteq T
    BY <2>1, <1>4 DEF SaltsInv, InOrderOf
  <2>3. S \ since[y] = T
    BY <2>2, <1>3 DEF U
  <2>4. o \in T
    BY <1>4 DEF SaltsInv, InOrderOf
  <2> QED
    BY <2>1, <2>3, <2>4
<1>6. \E x \in S : S \subseteq since[x] \cup {x}
  BY <1>5
<1> QED
  BY <1>6 DEF Oldest

\* What a new salt finds.
Left(c) == Evict(Unexpired, c)

\* What is left when a salt is stored: there is room, and what is gone may be gone.
LEMMA EvictLeavesRoom ==
  ASSUME SaltsInv, NEW c \in Commitment
  PROVE  /\ Left(c) \subseteq storedSalts /\ (c \in Unexpired => c \in Left(c))
         /\ MaxStoredSalts > 0 => Cardinality(Left(c) \cup {c}) <= MaxStoredSalts
         /\ \A d \in storedSalts \ Left(c) :
              Expired(d) \/ (/\ MaxStoredSalts > 0 /\ c \notin Left(c)
                             /\ Cardinality(since[d] \cup {c}) >= MaxStoredSalts)
<1> DEFINE S == Unexpired
<1>1. /\ S \subseteq storedSalts /\ storedSalts \subseteq Commitment /\ IsFiniteSet(Commitment)
      /\ since \in [Commitment -> SUBSET Commitment] /\ MaxStoredSalts \in Nat
      /\ \A d \in storedSalts \ S : Expired(d)
  BY SaltsAssumption DEF SaltsInv, SaltsTypeOK, Unexpired
<1> HIDE DEF S
<1>2. IsFiniteSet(S) /\ IsFiniteSet(storedSalts) /\ Cardinality(S) \in Nat /\ Cardinality(storedSalts) \in Nat
  BY <1>1, FS_Subset, FS_CardinalityType
<1>3. Cardinality(S) <= Cardinality(storedSalts)
  BY <1>1, <1>2, FS_Subset
<1>4. MaxStoredSalts > 0 => Cardinality(storedSalts) <= MaxStoredSalts
  BY DEF SaltsInv, SaltsAreKept
<1>5. CASE MaxStoredSalts > 0 /\ Cardinality(S) >= MaxStoredSalts /\ c \notin S
  <2> DEFINE o == Oldest(S)
  <2>1. Left(c) = S \ {o}
    BY <1>5 DEF Evict, S, Left
  <2>2. S # {}
    BY <1>1, <1>5, FS_EmptySet
  <2>3. o \in S /\ S \subseteq since[o] \cup {o}
    BY <1>1, <2>2, OldestIs
  <2> HIDE DEF o
  <2>4. IsFiniteSet(Left(c)) /\ Cardinality(Left(c)) = Cardinality(S) - 1
    BY <1>2, <2>1, <2>3, FS_RemoveElement
  <2>5. Cardinality(Left(c) \cup {c}) = Cardinality(S)
    <3>1. c \notin Left(c)
      BY <1>5, <2>1
    <3>2. Cardinality(Left(c) \cup {c}) = Cardinality(Left(c)) + 1
      BY <2>4, <3>1, FS_AddElement
    <3> QED
      BY <1>2, <2>4, <3>2
  <2>6. IsFiniteSet(since[o]) /\ IsFiniteSet(since[o] \cup {c})
    BY <1>1, <2>3, FS_Subset, FS_AddElement
  <2>7. Cardinality(since[o] \cup {c}) >= Cardinality(Left(c) \cup {c})
    BY <2>1, <2>3, <2>6, FS_Subset
  <2>8. Cardinality(since[o] \cup {c}) >= MaxStoredSalts
    BY <1>1, <1>2, <1>5, <2>5, <2>6, <2>7, FS_CardinalityType
  <2>9. \A d \in storedSalts \ Left(c) : d \in S => d = o
    BY <2>1
  <2>10. Left(c) \subseteq storedSalts /\ c \notin Left(c) /\ (c \in Unexpired => c \in Left(c))
    BY <1>1, <1>5, <2>1 DEF S
  <2>11. MaxStoredSalts > 0 => Cardinality(Left(c) \cup {c}) <= MaxStoredSalts
    BY <1>2, <1>3, <1>4, <1>1, <2>5
  <2> QED
    BY <1>1, <1>5, <2>8, <2>9, <2>10, <2>11
<1>6. CASE ~(MaxStoredSalts > 0 /\ Cardinality(S) >= MaxStoredSalts /\ c \notin S)
  <2>1. Left(c) = S
    BY <1>6 DEF Evict, S, Left
  <2>2. CASE c \in S
    <3>1. Left(c) \cup {c} = S
      BY <2>1, <2>2
    <3> QED
      BY <1>1, <1>2, <1>3, <1>4, <2>1, <3>1 DEF S
  <2>3. CASE c \notin S
    <3>1. Cardinality(Left(c) \cup {c}) = Cardinality(S) + 1
      BY <1>2, <2>1, <2>3, FS_AddElement
    <3> QED
      BY <1>1, <1>2, <1>6, <2>1, <2>3, <3>1 DEF S
  <2> QED
    BY <2>2, <2>3
<1> QED
  BY <1>5, <1>6

LEMMA CommitKeeps == ASSUME SaltsInv, NEW c \in Commitment, Commit(c) PROVE SaltsInv'
<1> DEFINE left == Left(c)
<1>1. /\ clock \in Nat /\ storedSalts \subseteq Commitment /\ MaxStoredSalts \in Nat /\ SaltTtl \in Nat
      /\ clock \in 0 .. MaxClock /\ MaxClock \in Nat
      /\ expiresAt \in [Commitment -> 0 .. MaxClock + SaltTtl]
      /\ wanted \subseteq Commitment /\ since \in [Commitment -> SUBSET Commitment]
      /\ InOrderOf(storedSalts) /\ SaltsAreKept
  BY SaltsAssumption DEF SaltsInv, SaltsTypeOK
<1>2. /\ left \subseteq storedSalts
      /\ MaxStoredSalts > 0 => Cardinality(left \cup {c}) <= MaxStoredSalts
      /\ \A d \in storedSalts \ left :
           Expired(d) \/ (/\ MaxStoredSalts > 0 /\ c \notin left
                          /\ Cardinality(since[d] \cup {c}) >= MaxStoredSalts)
  BY EvictLeavesRoom
<1>3. /\ storedSalts' = left \cup {c} /\ wanted' = wanted \cup {c} /\ clock' = clock
      /\ expiresAt' = [expiresAt EXCEPT ![c] = clock + SaltTtl]
      /\ since' = [d \in Commitment |-> IF c \in left THEN since[d]
                                        ELSE IF d = c THEN {} ELSE since[d] \cup {c}]
  BY DEF Commit, Left
<1> HIDE DEF left
<1>4. clock + SaltTtl \in 0 .. MaxClock + SaltTtl
  BY <1>1
<1>5. SaltsTypeOK'
  BY <1>1, <1>2, <1>3, <1>4 DEF SaltsTypeOK
<1>6. InOrderOf(storedSalts)'
  <2>1. CASE c \in left
    <3>1. storedSalts' \subseteq storedSalts /\ since' = since
      BY <1>1, <1>2, <1>3, <2>1
    <3> QED
      BY <1>1, <3>1 DEF InOrderOf
  <2>2. CASE c \notin left
    <3>1. /\ \A d \in left : d \in storedSalts /\ d # c
          /\ \A d \in left : since'[d] = since[d] \cup {c}
          /\ since'[c] = {}
      BY <1>1, <1>2, <1>3, <2>2
    <3>2. \A d \in storedSalts' : d \notin since'[d]
      BY <1>1, <1>3, <3>1 DEF InOrderOf
    <3>3. \A d, e \in storedSalts' : d # e => (e \in since'[d] <=> d \notin since'[e])
      BY <1>1, <1>3, <3>1 DEF InOrderOf
    <3>4. \A d, e, f \in storedSalts' : e \in since'[d] /\ f \in since'[e] => f \in since'[d]
      BY <1>1, <1>3, <3>1 DEF InOrderOf
    <3> QED
      BY <3>2, <3>3, <3>4 DEF InOrderOf
  <2> QED
    BY <2>1, <2>2
<1>7. \A d \in wanted' \ storedSalts' :
        (Expired(d) \/ (MaxStoredSalts > 0 /\ Cardinality(since[d]) >= MaxStoredSalts))'
  <2> SUFFICES ASSUME NEW d \in wanted, d \notin left, d # c
               PROVE  (Expired(d) \/ (MaxStoredSalts > 0 /\ Cardinality(since[d]) >= MaxStoredSalts))'
    BY <1>3
  <2>1. d \in Commitment /\ expiresAt'[d] = expiresAt[d] /\ clock' = clock
    BY <1>1, <1>3
  <2>2. Expired(d) => Expired(d)'
    BY <2>1 DEF Expired
  <2>3. CASE d \in storedSalts
    <3>1. ~(c \in left) => since'[d] = since[d] \cup {c}
      BY <1>3, <2>1
    <3> QED
      BY <1>2, <2>2, <2>3, <3>1
  <2>4. CASE d \notin storedSalts /\ ~Expired(d)
    <3>1. MaxStoredSalts > 0 /\ Cardinality(since[d]) >= MaxStoredSalts
      BY <1>1, <2>4 DEF SaltsAreKept
    <3>2. since[d] \subseteq since'[d] /\ since'[d] \subseteq Commitment
      BY <1>1, <1>3, <2>1
    <3>3. Cardinality(since[d]) <= Cardinality(since'[d])
          /\ Cardinality(since[d]) \in Nat /\ Cardinality(since'[d]) \in Nat
      BY <3>2, SaltsAssumption, FS_Subset, FS_CardinalityType
    <3> QED
      BY <1>1, <3>1, <3>3
  <2> QED
    BY <2>2, <2>3, <2>4
<1>8. SaltsAreKept'
  BY <1>2, <1>3, <1>7 DEF SaltsAreKept
<1> QED
  BY <1>5, <1>6, <1>8 DEF SaltsInv

\* The other steps insert nothing, and what they remove is expired or no longer wanted.
LEMMA DropKeeps ==
  ASSUME SaltsInv, SaltsTypeOK', storedSalts' \subseteq storedSalts, UNCHANGED since,
         \A d \in wanted' \ storedSalts' : d \in wanted /\ (d \in storedSalts => Expired(d)),
         \A d \in Commitment : Expired(d) => Expired(d)'
  PROVE  SaltsInv'
<1>1. InOrderOf(storedSalts)'
  BY DEF SaltsInv, InOrderOf
<1>2. IsFiniteSet(Commitment) /\ storedSalts \subseteq Commitment /\ MaxStoredSalts \in Nat /\ wanted \subseteq Commitment
  BY SaltsAssumption DEF SaltsInv, SaltsTypeOK
<1>3. IsFiniteSet(storedSalts) /\ IsFiniteSet(storedSalts')
  BY <1>2, FS_Subset
<1>4. /\ Cardinality(storedSalts') <= Cardinality(storedSalts)
      /\ Cardinality(storedSalts) \in Nat /\ Cardinality(storedSalts') \in Nat
  BY <1>3, FS_Subset, FS_CardinalityType
<1>5. MaxStoredSalts > 0 => Cardinality(storedSalts') <= MaxStoredSalts
  BY <1>2, <1>4 DEF SaltsInv, SaltsAreKept
<1>6. \A d \in wanted' \ storedSalts' :
        (Expired(d) \/ (MaxStoredSalts > 0 /\ Cardinality(since[d]) >= MaxStoredSalts))'
  BY <1>2 DEF SaltsInv, SaltsAreKept
<1> QED
  BY <1>1, <1>5, <1>6 DEF SaltsInv, SaltsAreKept

LEMMA SaltsBegin == SaltsInit => SaltsInv
<1> SUFFICES ASSUME SaltsInit PROVE SaltsInv
  OBVIOUS
<1>1. SaltsTypeOK
  BY SaltsAssumption DEF SaltsInit, SaltsTypeOK
<1>2. InOrderOf(storedSalts) /\ SaltsAreKept
  BY SaltsAssumption, FS_EmptySet DEF SaltsInit, InOrderOf, SaltsAreKept
<1> QED
  BY <1>1, <1>2 DEF SaltsInv

LEMMA SaltsSteps == ASSUME SaltsInv, [SaltsNext]_saltVars PROVE SaltsInv'
<1>1. ASSUME NEW c \in Commitment, Commit(c) PROVE SaltsInv'
  BY <1>1, CommitKeeps
<1>2. ASSUME NEW c \in Commitment, Read(c) PROVE SaltsInv'
  <2>1. SaltsTypeOK' /\ \A d \in Commitment : Expired(d) => Expired(d)'
    BY <1>2 DEF Read, SaltsInv, SaltsTypeOK, Expired
  <2> QED
    BY <1>2, <2>1, DropKeeps DEF Read
<1>3. ASSUME NEW c \in Commitment, RemoveSalt(c) PROVE SaltsInv'
  <2>1. SaltsTypeOK' /\ \A d \in Commitment : Expired(d) => Expired(d)'
    BY <1>3 DEF RemoveSalt, SaltsInv, SaltsTypeOK, Expired
  <2> QED
    BY <1>3, <2>1, DropKeeps DEF RemoveSalt
<1>4. CASE ClearSalts
  <2>1. SaltsTypeOK' /\ \A d \in Commitment : Expired(d) => Expired(d)'
    BY <1>4 DEF ClearSalts, SaltsInv, SaltsTypeOK, Expired
  <2> QED
    BY <1>4, <2>1, DropKeeps DEF ClearSalts
<1>5. CASE Pass
  <2>1. SaltsTypeOK'
    BY <1>5, SaltsAssumption DEF Pass, SaltsInv, SaltsTypeOK
  <2>2. \A d \in Commitment : Expired(d) => Expired(d)'
    BY <1>5, SaltsAssumption DEF Pass, SaltsInv, SaltsTypeOK, Expired
  <2>3. storedSalts' \subseteq storedSalts /\ UNCHANGED <<since, wanted, storedSalts>>
    BY <1>5 DEF Pass
  <2> QED
    BY <2>1, <2>2, <2>3, DropKeeps
<1>6. CASE UNCHANGED saltVars
  BY <1>6 DEF saltVars, SaltsInv, SaltsTypeOK, InOrderOf, SaltsAreKept, Expired
<1> QED
  BY <1>1, <1>2, <1>3, <1>4, <1>5, <1>6 DEF SaltsNext

\* For any commitments, maximum and lifetime: there are never more salts than the maximum, and
\* one that is gone was removed, has expired, or has seen as many others come after it.
THEOREM SaltsStayKept == SaltsSpec => []SaltsAreKept
<1>1. SaltsInv => SaltsAreKept
  BY DEF SaltsInv
<1> QED
  BY <1>1, SaltsBegin, SaltsSteps, PTL DEF SaltsSpec

-----------------------------------------------------------------------------
(* The gateways of the IPFS storage.                                       *)

\* How far resolve has come, and the abort since.
Progress ==
  /\ Len(replies) <= Len(gateways) /\ (resolving = "waiting" => Len(replies) < Len(gateways))
  /\ resolving = "failed" => Len(replies) = Len(gateways)
  /\ \A i \in DOMAIN replies : replies[i] = "json" <=> (i = Len(replies) /\ resolving = "resolved")
  /\ abortAfter # None =>
       /\ Asked <= abortAfter
       /\ abortAfter \in DOMAIN replies => replies[abortAfter] # "error"

GatewayInv == GatewayTypeOK /\ Progress

\* The gateways are the list, or the primary and then the others, which differ from it.
LEMMA GatewaysAre ==
  ASSUME config \in Config
  PROVE  /\ gateways \in Seq(Gateway) /\ Len(gateways) <= MaxGateways + 1
         /\ config.gateways = <<>> =>
              /\ gateways[1] = config.primary
              /\ \A i \in DOMAIN gateways : gateways[i] = config.primary => i = 1
<1> DEFINE F == config.fallbacks
           rest == [n \in 1 .. Cardinality(Others) |-> F[Nth(Others, n)]]
<1>1. MaxGateways \in Nat /\ config.primary \in Gateway
  BY GatewaysAssumption DEF Config
<1>2. PICK m \in 0 .. MaxGateways : F \in [1 .. m -> Gateway]
  BY DEF Config, GatewayLists
<1>3. PICK k \in 0 .. MaxGateways : config.gateways \in [1 .. k -> Gateway]
  BY DEF Config, GatewayLists
<1>4. /\ F \in Seq(Gateway) /\ Len(F) = m /\ DOMAIN F = 1 .. m
      /\ config.gateways \in Seq(Gateway) /\ Len(config.gateways) = k
  BY <1>1, <1>2, <1>3
<1>5. /\ IsFiniteSet(Others) /\ Others \in SUBSET Nat /\ Others \subseteq 1 .. m
      /\ Cardinality(Others) \in Nat /\ Cardinality(Others) <= m
  <2>1. IsFiniteSet(1 .. m) /\ Cardinality(1 .. m) = m
    BY <1>1, FS_Interval
  <2>2. Others \subseteq 1 .. m
    BY <1>4 DEF Others
  <2>3. IsFiniteSet(Others) /\ Cardinality(Others) <= m
    BY <2>1, <2>2, FS_Subset
  <2>4. Others \in SUBSET Nat
    BY <2>2
  <2> QED
    BY <2>2, <2>3, <2>4, FS_CardinalityType
<1>6. \A n \in 1 .. Cardinality(Others) : Nth(Others, n) \in Others
  BY <1>5, NthCounts
<1>7. \A n \in 1 .. Cardinality(Others) : F[Nth(Others, n)] \in Gateway /\ F[Nth(Others, n)] # config.primary
  BY <1>2, <1>5, <1>6 DEF Others
<1>8. /\ rest \in Seq(Gateway) /\ Len(rest) = Cardinality(Others)
      /\ \A n \in 1 .. Len(rest) : rest[n] # config.primary
  BY <1>5, <1>7
<1>9. CASE config.gateways # <<>>
  BY <1>1, <1>3, <1>4, <1>9 DEF gateways
<1>10. CASE config.gateways = <<>>
  <2>1. gateways = <<config.primary>> \o rest
    BY <1>10 DEF gateways
  <2> HIDE DEF rest
  <2>2. <<config.primary>> \in Seq(Gateway) /\ Len(<<config.primary>>) = 1
    BY <1>1
  <2>3. gateways \in Seq(Gateway) /\ Len(gateways) = 1 + Len(rest) /\ gateways[1] = config.primary
    BY <1>8, <2>1, <2>2
  <2>4. \A i \in DOMAIN gateways : i # 1 => i - 1 \in 1 .. Len(rest) /\ gateways[i] = rest[i - 1]
    BY <1>8, <2>1, <2>2, <2>3
  <2> QED
    BY <1>1, <1>5, <1>8, <2>3, <2>4
<1> QED
  BY <1>9, <1>10

LEMMA GatewayBegins == GatewayInit => GatewayInv
<1> SUFFICES ASSUME GatewayInit PROVE GatewayInv
  OBVIOUS
<1>1. GatewayTypeOK
  BY DEF GatewayInit, GatewayTypeOK
<1>2. Len(gateways) \in Nat /\ Len(replies) = 0 /\ DOMAIN replies = {}
  BY GatewaysAre DEF GatewayInit
<1> QED
  BY <1>1, <1>2 DEF GatewayInit, GatewayInv, Progress

LEMMA GatewaySteps == ASSUME GatewayInv, [GatewayNext]_gatewayVars PROVE GatewayInv'
<1>1. /\ config \in Config /\ replies \in Seq(Reply) /\ Len(replies) \in Nat
      /\ DOMAIN replies = 1 .. Len(replies)
      /\ resolving \in {"between", "waiting", "resolved", "failed", "cancelled", "refused"}
      /\ abortAfter \in {None} \cup 0 .. MaxGateways + 1 /\ MaxGateways \in Nat /\ None \notin Nat
  BY GatewaysAssumption DEF GatewayInv, GatewayTypeOK
<1>2. Len(gateways) \in Nat /\ Len(gateways) <= MaxGateways + 1
  BY <1>1, GatewaysAre
<1>3. ASSUME UNCHANGED config PROVE gateways' = gateways
  BY <1>3 DEF gateways, Others
<1>4. Progress
  BY DEF GatewayInv
<1>5. CASE Abort
  <2>2. Asked \in 0 .. MaxGateways + 1 /\ Asked \notin DOMAIN replies
    BY <1>1, <1>2, <1>4, <1>5 DEF Progress, Asked, Abort
  <2>3. GatewayTypeOK'
    BY <1>1, <1>5, <2>2 DEF Abort, GatewayTypeOK
  <2>4. Asked' = Asked /\ abortAfter' = Asked /\ gateways' = gateways /\ UNCHANGED <<replies, resolving>>
    BY <1>3, <1>5 DEF Abort, Asked
  <2>5. Progress'
    BY <1>1, <1>2, <1>4, <2>2, <2>4 DEF Progress
  <2> QED
    BY <2>3, <2>5 DEF GatewayInv
<1>6. CASE AskNext
  <2>1. GatewayTypeOK' /\ gateways' = gateways
    BY <1>1, <1>3, <1>6 DEF AskNext, GatewayTypeOK
  <2>2. Progress'
    BY <1>1, <1>2, <1>4, <1>6, <2>1 DEF AskNext, Progress, Asked
  <2> QED
    BY <2>1, <2>2 DEF GatewayInv
<1>7. CASE Cancelled \/ AllFailed
  <2>1. GatewayTypeOK' /\ gateways' = gateways
    BY <1>1, <1>3, <1>7 DEF Cancelled, AllFailed, GatewayTypeOK
  <2>2. Progress'
    BY <1>1, <1>2, <1>4, <1>7, <2>1 DEF Cancelled, AllFailed, Progress, Asked
  <2> QED
    BY <2>1, <2>2 DEF GatewayInv
<1>8. ASSUME NEW reply \in Reply, GatewayAnswers(reply) PROVE GatewayInv'
  <2>1. /\ replies' \in Seq(Reply) /\ Len(replies') = Len(replies) + 1 /\ DOMAIN replies' = 1 .. Len(replies) + 1
        /\ \A i \in 1 .. Len(replies) : replies'[i] = replies[i]
        /\ replies'[Len(replies) + 1] = reply
    BY <1>1, <1>8 DEF GatewayAnswers
  <2>2. GatewayTypeOK' /\ gateways' = gateways
    BY <1>1, <1>3, <1>8, <2>1 DEF GatewayAnswers, GatewayTypeOK
  <2>3. Len(replies) < Len(gateways) /\ resolving = "waiting" /\ resolving' = IF reply = "json" THEN "resolved" ELSE "between"
    BY <1>4, <1>8 DEF GatewayAnswers, Progress
  <2>4. Asked' = Asked /\ Asked = Len(replies) + 1
    BY <1>1, <2>1, <2>3 DEF Asked
  <2>5. abortAfter # None => /\ Asked <= abortAfter /\ reply # "error"
                             /\ abortAfter \in DOMAIN replies => replies[abortAfter] # "error"
    BY <1>4, <1>8 DEF Progress, GatewayAnswers
  <2>6. abortAfter' = abortAfter
    BY <1>8 DEF GatewayAnswers
  <2>7. \A i \in DOMAIN replies' : replies'[i] = "json" <=> (i = Len(replies') /\ resolving' = "resolved")
    BY <1>1, <1>4, <2>1, <2>3 DEF Progress
  <2>8. abortAfter' # None => /\ Asked' <= abortAfter'
                              /\ abortAfter' \in DOMAIN replies' => replies'[abortAfter'] # "error"
    BY <1>1, <2>1, <2>4, <2>5, <2>6
  <2>9. Progress'
    BY <1>1, <1>2, <2>1, <2>2, <2>3, <2>7, <2>8 DEF Progress
  <2> QED
    BY <2>2, <2>9 DEF GatewayInv
<1>9. CASE UNCHANGED gatewayVars
  <2>1. GatewayTypeOK' /\ gateways' = gateways
    BY <1>3, <1>9 DEF gatewayVars, GatewayInv, GatewayTypeOK
  <2>2. Progress'
    BY <1>4, <1>9, <2>1 DEF gatewayVars, Progress, Asked
  <2> QED
    BY <2>1, <2>2 DEF GatewayInv
<1> QED
  BY <1>5, <1>6, <1>7, <1>8, <1>9 DEF GatewayNext

LEMMA GatewayImplies == GatewayInv => GatewaysInOrder
<1> SUFFICES ASSUME GatewayInv PROVE GatewaysInOrder
  OBVIOUS
<1>1. config \in Config /\ Progress
  BY DEF GatewayInv, GatewayTypeOK
<1> QED
  BY <1>1, GatewaysAre DEF Progress, GatewaysInOrder

\* For any gateways and configured lists: the document is the first that was served, a failure
\* means that every gateway was asked, and the primary once; an abort stops the asking.
THEOREM GatewaysStayInOrder == GatewaySpec => []GatewaysInOrder
BY GatewayBegins, GatewaySteps, GatewayImplies, PTL DEF GatewaySpec

-----------------------------------------------------------------------------
(* The RPC endpoints.                                                      *)

\* No endpoint has more checks than the bound.
InFlight(e) == asked[e] + found[e] + missed[e]

EndpointsInv == /\ EndpointsTypeOK /\ (destroyed => healthy = {})
                /\ \A e \in Endpoint : InFlight(e) <= MaxInFlight

\* The choices come round: whatever the index, the next ones are all the healthy endpoints.
LEMMA TurnsComeRound == EndpointsInv => TurnsAreTaken
<1> SUFFICES ASSUME EndpointsInv, healthy # {}
             PROVE  {RpcUrlAt((currentIndex + k) % Turns) : k \in 0 .. Cardinality(healthy) - 1} = healthy
  BY DEF EndpointsInv, TurnsAreTaken
<1> DEFINE n == Cardinality(healthy)
<1>1. healthy \in SUBSET Endpoint /\ healthy \in SUBSET Nat /\ currentIndex \in Nat
      /\ Turns \in Nat \ {0} /\ Endpoints \in Nat
  BY EndpointsAssumption DEF EndpointsInv, EndpointsTypeOK, Endpoint
<1>2. IsFiniteSet(Endpoint) /\ Cardinality(Endpoint) = Endpoints
  BY <1>1, FS_Interval, EndpointsAssumption DEF Endpoint
<1>3. IsFiniteSet(healthy) /\ n \in Nat /\ n <= Endpoints /\ n # 0
  BY <1>1, <1>2, FS_Subset, FS_CardinalityType, FS_EmptySet
<1>4. n \in Nat \ {0} /\ Turns % n = 0
  BY <1>1, <1>3, EndpointsAssumption DEF Endpoint
<1>5. /\ \A i \in 1 .. n : Nth(healthy, i) \in healthy
      /\ \A e \in healthy : \E i \in 1 .. n : e = Nth(healthy, i)
  BY <1>1, <1>3, NthCounts
<1> HIDE DEF n
<1>6. ASSUME NEW k \in 0 .. n - 1
      PROVE  /\ RpcUrlAt((currentIndex + k) % Turns) = Nth(healthy, ((currentIndex + k) % n) + 1)
             /\ (currentIndex + k) % n \in 0 .. n - 1
  <2>1. currentIndex + k \in Nat
    BY <1>1, <1>4
  <2>2. ((currentIndex + k) % Turns) % n = (currentIndex + k) % n
    BY <1>1, <1>4, <2>1, TurnsCount
  <2>3. RpcUrlAt((currentIndex + k) % Turns) = Nth(healthy, (((currentIndex + k) % Turns) % n) + 1)
    BY DEF RpcUrlAt, n
  <2> QED
    BY <1>4, <2>1, <2>2, <2>3, Divided
<1>7. ASSUME NEW k \in 0 .. n - 1 PROVE RpcUrlAt((currentIndex + k) % Turns) \in healthy
  <2>1. ((currentIndex + k) % n) + 1 \in 1 .. n
    BY <1>4, <1>6
  <2> QED
    BY <1>5, <1>6, <2>1
<1>8. ASSUME NEW e \in healthy PROVE \E k \in 0 .. n - 1 : e = RpcUrlAt((currentIndex + k) % Turns)
  <2>1. PICK i \in 1 .. n : e = Nth(healthy, i)
    BY <1>5
  <2>2. i - 1 \in 0 .. n - 1 /\ (i - 1) + 1 = i
    BY <1>4
  <2>3. n \in Nat \ {0} /\ currentIndex \in Nat
    BY <1>1, <1>4
  <2>4. PICK k \in 0 .. n - 1 : (currentIndex + k) % n = i - 1
    BY <2>2, <2>3, EachRemainder
  <2>5. RpcUrlAt((currentIndex + k) % Turns) = Nth(healthy, ((currentIndex + k) % n) + 1)
    BY <1>6
  <2>6. RpcUrlAt((currentIndex + k) % Turns) = Nth(healthy, i)
    BY <2>2, <2>4, <2>5
  <2> QED
    BY <2>1, <2>6
<1> QED
  BY <1>7, <1>8 DEF n

LEMMA ZeroCounts == Zero \in [Endpoint -> 0 .. failureThreshold] /\ Zero \in [Endpoint -> 0 .. MaxInFlight]
<1>1. 0 \in 0 .. failureThreshold /\ 0 \in 0 .. MaxInFlight
  BY EndpointsAssumption DEF failureThreshold
<1> QED
  BY <1>1 DEF Zero

LEMMA EndpointsBegin == EndpointsInit => EndpointsInv
<1> SUFFICES ASSUME EndpointsInit PROVE EndpointsInv
  OBVIOUS
<1>1. Turns \in Nat \ {0} /\ MaxInFlight \in Nat /\ MaxReports \in Nat /\ MaxOutages \in Nat
  BY EndpointsAssumption
<1>2. 0 \in 0 .. Turns - 1 /\ 0 \in 0 .. MaxOutages /\ 0 \in 0 .. MaxReports
  BY <1>1
<1>3. {asked, found, missed} \subseteq [Endpoint -> 0 .. MaxInFlight]
  BY ZeroCounts DEF EndpointsInit
<1>4. \A e \in Endpoint : InFlight(e) <= MaxInFlight
  BY <1>1 DEF EndpointsInit, Zero, InFlight
<1> QED
  BY <1>2, <1>3, <1>4, ZeroCounts DEF EndpointsInit, EndpointsInv, EndpointsTypeOK

LEMMA ReportKeeps ==
  ASSUME EndpointsInv, NEW e \in Endpoint, reportSuccess(e) \/ reportFailure(e), UNCHANGED destroyed
  PROVE  /\ healthy' \subseteq Endpoint /\ consecutiveFailures' \in [Endpoint -> 0 .. failureThreshold]
         /\ destroyed' => healthy' = {}
BY DEF EndpointsInv, EndpointsTypeOK, reportSuccess, reportFailure, failureThreshold


\* A step that leaves the checks alone.
LEMMA QuietEndpoints ==
  ASSUME EndpointsInv, EndpointsTypeOK', destroyed' => healthy' = {}, UNCHANGED <<asked, found, missed>>
  PROVE  EndpointsInv'
BY DEF EndpointsInv, InFlight

\* A check is begun, is decided or is reported.
LEMMA ChecksKeep ==
  ASSUME EndpointsInv, UNCHANGED <<currentIndex, serving, outages, reports>>,
         healthy' \subseteq Endpoint, consecutiveFailures' \in [Endpoint -> 0 .. failureThreshold],
         healthCheckTimer' \in BOOLEAN, destroyed' \in BOOLEAN, destroyed' => healthy' = {},
         asked' \in [Endpoint -> Nat], found' \in [Endpoint -> Nat], missed' \in [Endpoint -> Nat],
         \A d \in Endpoint : InFlight(d)' <= MaxInFlight
  PROVE  EndpointsInv'
<1>1. \A d \in Endpoint : /\ asked'[d] \in 0 .. MaxInFlight /\ found'[d] \in 0 .. MaxInFlight
                          /\ missed'[d] \in 0 .. MaxInFlight
  BY EndpointsAssumption DEF InFlight
<1>2. {asked', found', missed'} \subseteq [Endpoint -> 0 .. MaxInFlight]
  BY <1>1
<1> QED
  BY <1>2 DEF EndpointsInv, EndpointsTypeOK

LEMMA EndpointsSteps == ASSUME EndpointsInv, [EndpointsNext]_endpointVars PROVE EndpointsInv'
<1>1. /\ Turns \in Nat \ {0} /\ MaxInFlight \in Nat /\ MaxReports \in Nat /\ MaxOutages \in Nat
      /\ Endpoints \in Nat
  BY EndpointsAssumption
<1>13. /\ asked \in [Endpoint -> Nat] /\ found \in [Endpoint -> Nat] /\ missed \in [Endpoint -> Nat]
       /\ \A d \in Endpoint : InFlight(d) <= MaxInFlight
       /\ healthy \subseteq Endpoint /\ consecutiveFailures \in [Endpoint -> 0 .. failureThreshold]
       /\ healthCheckTimer \in BOOLEAN /\ destroyed \in BOOLEAN /\ (destroyed => healthy = {})
  BY <1>1 DEF EndpointsInv, EndpointsTypeOK
<1>2. CASE getCurrentRpcUrl
  <2>1. EndpointsTypeOK'
    BY <1>1, <1>2 DEF getCurrentRpcUrl, EndpointsInv, EndpointsTypeOK
  <2> QED
    BY <1>2, <1>13, <2>1, QuietEndpoints DEF getCurrentRpcUrl
<1>3. ASSUME performHealthCheck, UNCHANGED <<healthy, consecutiveFailures, currentIndex, destroyed, found, missed,
                                  serving, outages, reports>>, healthCheckTimer' \in BOOLEAN
      PROVE  EndpointsInv'
  <2>1. CASE destroyed
    BY <1>3, <1>13, <2>1, ChecksKeep DEF performHealthCheck, InFlight
  <2>2. CASE ~destroyed
    <3>1. asked' = [e \in Endpoint |-> asked[e] + 1] /\ \A e \in Endpoint : InFlight(e) < MaxInFlight
      BY <1>3, <2>2 DEF performHealthCheck, InFlight
    <3>2. asked' \in [Endpoint -> Nat]
      BY <1>13, <3>1
    <3>3. \A e \in Endpoint : InFlight(e)' <= MaxInFlight
      BY <1>1, <1>3, <1>13, <3>1 DEF InFlight
    <3> QED
      BY <1>3, <1>13, <3>2, <3>3, ChecksKeep
  <2> QED
    BY <2>1, <2>2
<1>4. CASE startHealthChecks \/ HealthCheckTicks
  BY <1>3, <1>4, <1>13 DEF startHealthChecks, HealthCheckTicks
<1>5. CASE stopHealthChecks
  <2>1. EndpointsTypeOK'
    BY <1>5 DEF stopHealthChecks, EndpointsInv, EndpointsTypeOK
  <2> QED
    BY <1>5, <1>13, <2>1, QuietEndpoints DEF stopHealthChecks
<1>6. CASE destroyEndpoints
  <2>1. EndpointsTypeOK'
    BY <1>6, ZeroCounts DEF destroyEndpoints, EndpointsInv, EndpointsTypeOK
  <2> QED
    BY <1>6, <2>1, QuietEndpoints DEF destroyEndpoints
<1>7. ASSUME NEW e \in Endpoint, Reported(e) PROVE EndpointsInv'
  <2>1. EndpointsTypeOK' /\ (destroyed' => healthy' = {})
    BY <1>1, <1>7, ReportKeeps DEF Reported, EndpointsInv, EndpointsTypeOK
  <2> QED
    BY <1>7, <2>1, QuietEndpoints DEF Reported
<1>8. ASSUME NEW e \in Endpoint, CheckSettles(e) PROVE EndpointsInv'
  <2>1. asked' \in [Endpoint -> Nat] /\ found' \in [Endpoint -> Nat] /\ missed' \in [Endpoint -> Nat]
    BY <1>8, <1>13 DEF CheckSettles, Bumped
  <2>2. \A d \in Endpoint : InFlight(d)' <= MaxInFlight
    BY <1>1, <1>8, <1>13 DEF CheckSettles, Bumped, InFlight
  <2> QED
    BY <1>8, <1>13, <2>1, <2>2, ChecksKeep DEF CheckSettles
<1>9. ASSUME NEW e \in Endpoint, CheckFailed(e) PROVE EndpointsInv'
  <2>1. missed' \in [Endpoint -> Nat]
    BY <1>9, <1>13 DEF CheckFailed, Bumped
  <2>2. \A d \in Endpoint : InFlight(d)' <= MaxInFlight
    BY <1>1, <1>9, <1>13 DEF CheckFailed, Bumped, InFlight
  <2>3. healthy' \subseteq Endpoint /\ consecutiveFailures' \in [Endpoint -> 0 .. failureThreshold]
        /\ (destroyed' => healthy' = {})
    BY <1>9, ReportKeeps DEF CheckFailed
  <2> QED
    BY <1>9, <1>13, <2>1, <2>2, <2>3, ChecksKeep DEF CheckFailed
<1>10. ASSUME NEW e \in Endpoint, CheckSucceeded(e) PROVE EndpointsInv'
  <2>1. found' \in [Endpoint -> Nat]
    BY <1>10, <1>13 DEF CheckSucceeded, Bumped
  <2>2. \A d \in Endpoint : InFlight(d)' <= MaxInFlight
    BY <1>1, <1>10, <1>13 DEF CheckSucceeded, Bumped, InFlight
  <2>3. healthy' \subseteq Endpoint /\ consecutiveFailures' \in [Endpoint -> 0 .. failureThreshold]
        /\ (destroyed' => healthy' = {})
    BY <1>10, ReportKeeps DEF CheckSucceeded
  <2> QED
    BY <1>10, <1>13, <2>1, <2>2, <2>3, ChecksKeep DEF CheckSucceeded
<1>11. ASSUME NEW e \in Endpoint, Outage(e) PROVE EndpointsInv'
  <2>1. EndpointsTypeOK'
    BY <1>1, <1>11 DEF Outage, EndpointsInv, EndpointsTypeOK
  <2> QED
    BY <1>11, <1>13, <2>1, QuietEndpoints DEF Outage
<1>12. CASE UNCHANGED endpointVars
  BY <1>12, <1>13, QuietEndpoints DEF endpointVars, EndpointsInv, EndpointsTypeOK
<1> QED
  BY <1>2, <1>4, <1>5, <1>6, <1>7, <1>8, <1>9, <1>10, <1>11, <1>12 DEF EndpointsNext, Checked

\* For any number of endpoints, bounds and fairness: as long as they stay the same, the next
\* choices are all the healthy endpoints, and no late answer fills the Map that destroy emptied.
THEOREM TurnsStayTaken == EndpointsSpec => []TurnsAreTaken
BY EndpointsBegin, EndpointsSteps, TurnsComeRound, PTL DEF EndpointsSpec

-----------------------------------------------------------------------------
(* The retries of the requests to a node.                                  *)

\* A failure is a chain of layers.
LEMMA FailureType ==
  ASSUME NEW f \in Failures
  PROVE  /\ f \in Seq(Layer) /\ Len(f) \in Nat \ {0} /\ DOMAIN f = 1 .. Len(f)
         /\ \A i \in 1 .. Len(f) : f[i] \in Layer
BY RetryingAssumption

\* The layer whose status is the one of the chain from i on.
First(f, i, m) == m \in Chain(f, i) /\ f[m].status # 0 /\ \A j \in Chain(f, i) : j < m => f[j].status = 0

LEMMA StatusIs ==
  ASSUME NEW f \in Seq(Layer), NEW i \in DOMAIN f
  PROVE  \/ StatusFrom(f, i) = 0 /\ \A j \in Chain(f, i) : f[j].status = 0
         \/ \E m \in DOMAIN f : First(f, i, m) /\ StatusFrom(f, i) = f[m].status
<1>1. CASE WithStatus(f, i) = {}
  BY <1>1 DEF StatusFrom, WithStatus
<1>2. CASE WithStatus(f, i) # {}
  <2> DEFINE m == Min(WithStatus(f, i))
  <2>1. WithStatus(f, i) \in SUBSET Nat /\ WithStatus(f, i) \subseteq DOMAIN f
    BY DEF WithStatus, Chain
  <2>2. m \in WithStatus(f, i) /\ \A j \in WithStatus(f, i) : m <= j
    BY <1>2, <2>1, MinIs
  <2>3. StatusFrom(f, i) = f[m].status
    BY <1>2 DEF StatusFrom
  <2> HIDE DEF m
  <2>4. \A j \in Chain(f, i) : j \in WithStatus(f, i) \/ f[j].status = 0
    BY DEF WithStatus
  <2>5. \A j \in Chain(f, i) : j < m => f[j].status = 0
    BY <2>1, <2>2, <2>4 DEF Chain
  <2> QED
    BY <2>1, <2>2, <2>3, <2>5 DEF First, WithStatus
<1> QED
  BY <1>1, <1>2

LEMMA StatusIsOf ==
  ASSUME NEW f \in Seq(Layer), NEW i \in DOMAIN f, NEW m \in DOMAIN f, First(f, i, m)
  PROVE  StatusFrom(f, i) = f[m].status /\ StatusFrom(f, i) # 0
<1>1. m \in Chain(f, i) /\ f[m].status # 0
  BY DEF First
<1>2. PICK n \in DOMAIN f : First(f, i, n) /\ StatusFrom(f, i) = f[n].status
  BY <1>1, StatusIs
<1>3. n = m
  BY <1>2 DEF First
<1> QED
  BY <1>1, <1>2, <1>3

LEMMA NoStatus ==
  ASSUME NEW f \in Seq(Layer), NEW i \in DOMAIN f, \A j \in Chain(f, i) : f[j].status = 0
  PROVE  StatusFrom(f, i) = 0
BY StatusIs DEF First

\* A failure is judged at the first layer that is not passed on.
LEMMA JudgedIs ==
  ASSUME NEW f \in Seq(Layer), f # <<>>
  PROVE  /\ Judged(f) \in DOMAIN f /\ ~PassedOn(f, Judged(f))
         /\ \A j \in DOMAIN f : j < Judged(f) => PassedOn(f, j)
<1> DEFINE S == {i \in DOMAIN f : ~PassedOn(f, i)}
<1>1. Len(f) \in DOMAIN f /\ ~PassedOn(f, Len(f))
  BY DEF PassedOn
<1>2. S \in SUBSET Nat /\ S # {}
  BY <1>1
<1>3. Judged(f) = Min(S)
  BY DEF Judged
<1>4. Judged(f) \in S /\ \A j \in S : Judged(f) <= j
  BY <1>2, <1>3, MinIs
<1> QED
  BY <1>4

LEMMA JudgedAt ==
  ASSUME NEW f \in Seq(Layer), f # <<>>, NEW k \in DOMAIN f, ~PassedOn(f, k),
         \A j \in DOMAIN f : j < k => PassedOn(f, j)
  PROVE  Judged(f) = k
<1>1. /\ Judged(f) \in DOMAIN f /\ ~PassedOn(f, Judged(f))
      /\ \A j \in DOMAIN f : j < Judged(f) => PassedOn(f, j)
  BY JudgedIs
<1> QED
  BY <1>1

\* What nothing says is final is tried again.
LEMMA NothingFinalIsTransient ==
  ASSUME NEW f \in Seq(Layer), f # <<>>, NothingFinal(f)
  PROVE  IsTransient(f)
<1> DEFINE k == Judged(f)
<1>1. k \in DOMAIN f
  BY JudgedIs
<1>2. f[k] \in Layer /\ f[k].marked # "final" /\ f[k].code # "deterministic"
  BY <1>1 DEF NothingFinal
<1>3. ~FinalStatus(StatusFrom(f, k))
  <2>1. \A m \in DOMAIN f : ~FinalStatus(f[m].status)
    BY DEF NothingFinal
  <2>2. ~FinalStatus(0)
    BY DEF FinalStatus
  <2>3. StatusFrom(f, k) = 0 \/ \E m \in DOMAIN f : StatusFrom(f, k) = f[m].status
    BY <1>1, StatusIs
  <2> QED
    BY <2>1, <2>2, <2>3
<1> HIDE DEF k
<1>4. Verdict(f, k)
  BY <1>2, <1>3 DEF Verdict, Layer
<1> QED
  BY <1>4 DEF IsTransient, k

\* What is refused is not, however deep in the chain its status is.
LEMMA RefusedIsFinal ==
  ASSUME NEW f \in Seq(Layer), f # <<>>, RefusedFor(f)
  PROVE  ~IsTransient(f)
<1>1. PICK m \in DOMAIN f : /\ m <= Depth /\ FinalStatus(f[m].status) /\ f[1].marked = "no"
                            /\ \A j \in 1 .. m - 1 : f[j].status = 0
  BY DEF RefusedFor
<1>2. 1 \in DOMAIN f
  OBVIOUS
<1>3. First(f, 1, m)
  <2>1. m \in Chain(f, 1)
    BY <1>1, <1>2 DEF Chain, Depth
  <2>2. f[m].status # 0
    BY <1>1 DEF FinalStatus
  <2> QED
    BY <1>1, <2>1, <2>2 DEF First, Chain
<1>4. StatusFrom(f, 1) = f[m].status /\ StatusFrom(f, 1) # 0
  BY <1>2, <1>3, StatusIsOf
<1>5. Judged(f) = 1
  BY <1>2, <1>4, JudgedAt DEF PassedOn
<1> QED
  BY <1>1, <1>4, <1>5 DEF IsTransient, Verdict

-----------------------------------------------------------------------------
\* A failure with a layer before it.
LEMMA WrappedIs ==
  ASSUME NEW f \in Seq(Layer), f # <<>>, NEW g, g = <<Wrapper>> \o f
  PROVE  /\ g \in Seq(Layer) /\ g # <<>> /\ Len(g) = Len(f) + 1 /\ Len(f) \in Nat \ {0}
         /\ DOMAIN f = 1 .. Len(f) /\ DOMAIN g = 1 .. Len(f) + 1
         /\ g[1] = Wrapper /\ \A i \in DOMAIN f : g[i + 1] = f[i] /\ i + 1 \in DOMAIN g
         /\ \A j \in DOMAIN g : j # 1 => j - 1 \in DOMAIN f /\ g[j] = f[j - 1]
<1>1. Wrapper \in Layer
  BY DEF Wrapper, Layer, Absent
<1>2. <<Wrapper>> \in Seq(Layer) /\ Len(<<Wrapper>>) = 1 /\ <<Wrapper>>[1] = Wrapper
  BY <1>1
<1>3. g \in Seq(Layer) /\ Len(g) = Len(f) + 1 /\ Len(f) \in Nat \ {0}
  BY <1>2
<1>4. g[1] = Wrapper
  BY <1>2
<1>5. \A i \in 1 .. Len(f) : g[i + 1] = f[i]
  BY <1>2
<1>6. \A j \in 1 .. Len(f) + 1 : j # 1 => j - 1 \in 1 .. Len(f) /\ g[j] = f[j - 1]
  BY <1>2
<1> QED
  BY <1>3, <1>4, <1>5, <1>6

LEMMA WrappedStatus ==
  ASSUME NEW f \in Seq(Layer), f # <<>>, NEW g, g = <<Wrapper>> \o f, NEW i \in DOMAIN f
  PROVE  StatusFrom(g, i + 1) = StatusFrom(f, i)
<1>1. /\ g \in Seq(Layer) /\ Len(f) \in Nat \ {0}
      /\ DOMAIN f = 1 .. Len(f) /\ DOMAIN g = 1 .. Len(f) + 1
      /\ \A j \in DOMAIN f : g[j + 1] = f[j] /\ j + 1 \in DOMAIN g
  BY WrappedIs
<1>2. \A j \in DOMAIN f : j + 1 \in Chain(g, i + 1) <=> j \in Chain(f, i)
  BY <1>1 DEF Chain, Depth
<1>3. \A j \in Chain(g, i + 1) : j - 1 \in Chain(f, i) /\ j - 1 \in DOMAIN f /\ g[j] = f[j - 1]
  <2> SUFFICES ASSUME NEW j \in Chain(g, i + 1) PROVE j - 1 \in Chain(f, i) /\ j - 1 \in DOMAIN f /\ g[j] = f[j - 1]
    OBVIOUS
  <2>1. j - 1 \in DOMAIN f /\ (j - 1) + 1 = j
    BY <1>1 DEF Chain
  <2> QED
    BY <1>1, <1>2, <2>1
<1>4. CASE \A j \in Chain(f, i) : f[j].status = 0
  <2>1. \A j \in Chain(g, i + 1) : g[j].status = 0
    BY <1>3, <1>4
  <2> QED
    BY <1>1, <1>4, <2>1, NoStatus
<1>5. ASSUME NEW m \in DOMAIN f, First(f, i, m), StatusFrom(f, i) = f[m].status
      PROVE  StatusFrom(g, i + 1) = f[m].status
  <2>1. m + 1 \in Chain(g, i + 1) /\ g[m + 1].status # 0 /\ m + 1 \in DOMAIN g
    BY <1>1, <1>2, <1>5 DEF First
  <2>2. ASSUME NEW j \in Chain(g, i + 1), j < m + 1 PROVE g[j].status = 0
    <3>1. j - 1 \in Chain(f, i) /\ g[j] = f[j - 1] /\ j - 1 < m
      <4>1. j \in DOMAIN g /\ DOMAIN g \subseteq Nat /\ m \in Nat
        BY <1>1 DEF Chain
      <4> QED
        BY <1>3, <2>2, <4>1
    <3> QED
      BY <1>5, <3>1 DEF First
  <2>3. First(g, i + 1, m + 1)
    BY <2>1, <2>2 DEF First
  <2>4. i + 1 \in DOMAIN g
    BY <1>1
  <2>5. StatusFrom(g, i + 1) = g[m + 1].status
    BY <1>1, <2>1, <2>3, <2>4, StatusIsOf
  <2> QED
    BY <1>1, <2>5
<1> QED
  BY <1>4, <1>5, StatusIs

\* A layer in front changes no verdict.
LEMMA WrappingKeeps ==
  ASSUME NEW f \in Seq(Layer), f # <<>>, f[1].marked = "no" \/ StatusFrom(f, 1) = 0
  PROVE  IsTransient(<<Wrapper>> \o f) <=> IsTransient(f)
<1> DEFINE g == <<Wrapper>> \o f
           k == Judged(f)
<1>1. /\ g \in Seq(Layer) /\ g # <<>> /\ Len(g) = Len(f) + 1 /\ Len(f) \in Nat \ {0}
      /\ DOMAIN f = 1 .. Len(f) /\ DOMAIN g = 1 .. Len(f) + 1
      /\ g[1] = Wrapper /\ \A i \in DOMAIN f : g[i + 1] = f[i] /\ i + 1 \in DOMAIN g
      /\ \A j \in DOMAIN g : j # 1 => j - 1 \in DOMAIN f /\ g[j] = f[j - 1]
  BY WrappedIs
<1>2. \A i \in DOMAIN f : StatusFrom(g, i + 1) = StatusFrom(f, i)
  BY WrappedStatus
<1>3. /\ k \in DOMAIN f /\ ~PassedOn(f, k)
      /\ \A j \in DOMAIN f : j < k => PassedOn(f, j)
  BY JudgedIs
<1> HIDE DEF g, k
<1>4. \A i \in DOMAIN f : PassedOn(g, i + 1) <=> PassedOn(f, i)
  BY <1>1, <1>2 DEF PassedOn
<1>5. CASE StatusFrom(g, 1) = 0
  <2>1. PassedOn(g, 1)
    BY <1>1, <1>5 DEF PassedOn, Wrapper
  <2>2. ASSUME NEW j \in DOMAIN g, j < k + 1 PROVE PassedOn(g, j)
    <3>1. CASE j = 1
      BY <2>1, <3>1
    <3>2. CASE j # 1
      <4>1. j - 1 \in DOMAIN f /\ j - 1 < k /\ (j - 1) + 1 = j
        BY <1>1, <1>3, <2>2, <3>2
      <4>2. PassedOn(f, j - 1)
        BY <1>3, <4>1
      <4>3. PassedOn(g, (j - 1) + 1)
        BY <1>4, <4>1, <4>2
      <4> QED
        BY <4>1, <4>3
    <3> QED
      BY <3>1, <3>2
  <2>3. k + 1 \in DOMAIN g /\ ~PassedOn(g, k + 1)
    BY <1>1, <1>3, <1>4
  <2>4. Judged(g) = k + 1
    BY <1>1, <2>2, <2>3, JudgedAt
  <2>5. Verdict(g, k + 1) <=> Verdict(f, k)
    BY <1>1, <1>2, <1>3 DEF Verdict
  <2> QED
    BY <2>4, <2>5 DEF IsTransient, g, k
<1>6. CASE StatusFrom(g, 1) # 0
  <2>1. PICK m \in DOMAIN g : First(g, 1, m) /\ StatusFrom(g, 1) = g[m].status
    BY <1>1, <1>6, StatusIs
  <2>2. m # 1 /\ m - 1 \in DOMAIN f /\ g[m] = f[m - 1]
    BY <1>1, <2>1 DEF First, Wrapper
  <2>3. m - 1 \in Chain(f, 1)
    BY <1>1, <2>1, <2>2 DEF First, Chain, Depth
  <2>4. ASSUME NEW j \in Chain(f, 1), j < m - 1 PROVE f[j].status = 0
    <3>1. j \in DOMAIN f /\ j + 1 \in DOMAIN g /\ j + 1 < m /\ g[j + 1] = f[j]
      BY <1>1, <2>4 DEF Chain
    <3>2. j + 1 \in Chain(g, 1)
      BY <1>1, <2>1, <3>1 DEF First, Chain, Depth
    <3> QED
      BY <2>1, <3>1, <3>2 DEF First
  <2>5. First(f, 1, m - 1)
    BY <2>1, <2>2, <2>3, <2>4 DEF First
  <2>6. 1 \in DOMAIN f /\ 1 \in DOMAIN g
    BY <1>1
  <2>7. StatusFrom(f, 1) = StatusFrom(g, 1) /\ StatusFrom(f, 1) # 0
    BY <2>1, <2>2, <2>5, <2>6, StatusIsOf
  <2>8. f[1].marked = "no" /\ g[1].marked = "no"
    BY <1>1, <2>7 DEF Wrapper
  <2>9. ~PassedOn(f, 1) /\ ~PassedOn(g, 1)
    BY <2>7 DEF PassedOn
  <2>10. \A j \in DOMAIN f : ~(j < 1)
    BY <1>1
  <2>11. \A j \in DOMAIN g : ~(j < 1)
    BY <1>1
  <2>12. Judged(f) = 1
    BY <2>6, <2>9, <2>10, JudgedAt
  <2>13. Judged(g) = 1
    BY <1>1, <2>6, <2>9, <2>11, JudgedAt
  <2> QED
    BY <2>7, <2>8, <2>12, <2>13 DEF IsTransient, Verdict, g
<1> QED
  BY <1>5, <1>6

-----------------------------------------------------------------------------
\* A power of two is a natural number: that many subsets a set has.
LEMMA PowerOfTwo == ASSUME NEW n \in Nat PROVE 2 ^ n \in Nat
<1>1. IsFiniteSet(1 .. n) /\ Cardinality(1 .. n) = n
  BY FS_Interval
<1>2. IsFiniteSet(SUBSET (1 .. n)) /\ Cardinality(SUBSET (1 .. n)) = 2 ^ n
  BY <1>1, FS_SUBSET
<1> QED
  BY <1>2, FS_CardinalityType

LEMMA BackoffIs ==
  ASSUME NEW n \in Nat \ {0}, NEW f \in Seq(Layer), f # <<>>
  PROVE  /\ Hint(f) \in Int /\ Backoff(n, f) \in 0 .. MaxDelay
         /\ Hint(f) >= 0 => Backoff(n, f) <= Hint(f)
<1>1. Hint(f) \in Int
  <2>1. CASE WithHeader(f) = {}
    BY <2>1 DEF Hint, Absent
  <2>2. CASE WithHeader(f) # {}
    <3>1. WithHeader(f) \in SUBSET Nat /\ WithHeader(f) \subseteq DOMAIN f
      BY DEF WithHeader, Chain
    <3>2. Min(WithHeader(f)) \in DOMAIN f
      BY <2>2, <3>1, MinIs
    <3>3. f[Min(WithHeader(f))] \in Layer
      BY <3>2
    <3> QED
      BY <2>2, <3>3 DEF Hint, Layer
  <2> QED
    BY <2>1, <2>2
<1> DEFINE x == IF Hint(f) >= 0 THEN Hint(f) ELSE BaseDelay * 2 ^ (n - 1)
<1>2. n - 1 \in Nat /\ BaseDelay \in Nat /\ MaxDelay \in Nat
  BY RetryingAssumption
<1>3. 2 ^ (n - 1) \in Nat
  BY <1>2, PowerOfTwo
<1>4. x \in Nat
  BY <1>1, <1>2, <1>3
<1>5. Backoff(n, f) = Min({MaxDelay, x})
  BY DEF Backoff
<1>6. Hint(f) >= 0 => x = Hint(f)
  OBVIOUS
<1> HIDE DEF x
<1>7. {MaxDelay, x} \in SUBSET Nat /\ {MaxDelay, x} # {}
  BY <1>2, <1>4
<1>8. Backoff(n, f) \in {MaxDelay, x} /\ Backoff(n, f) <= MaxDelay /\ Backoff(n, f) <= x
  BY <1>5, <1>7, MinIs
<1> QED
  BY <1>1, <1>2, <1>4, <1>6, <1>8

LEMMA JitteredIs ==
  ASSUME NEW d \in Nat, NEW percent \in Nat, NEW t \in Jittered(d, percent)
  PROVE  t \in 0 .. d /\ (percent <= 50 => 2 * t >= d)
<1> DEFINE q == 100 - Min({percent, 100})
           least == (d * q + 50) \div 100
<1>1. {percent, 100} \in SUBSET Nat /\ {percent, 100} # {}
  OBVIOUS
<1>2. Min({percent, 100}) \in {percent, 100} /\ Min({percent, 100}) <= 100 /\ Min({percent, 100}) <= percent
  BY <1>1, MinIs
<1>3. q \in 0 .. 100 /\ (percent <= 50 => q >= 50)
  BY <1>2
<1>4. t \in least .. d
  BY DEF Jittered
<1> HIDE DEF q
<1>5. d * q \in Nat /\ (q >= 50 => d * q >= d * 50)
  BY <1>3
<1>6. least \in Nat /\ 100 * least + 99 >= d * q + 50
  BY <1>5
<1> HIDE DEF least
<1>7. percent <= 50 => 2 * least >= d
  BY <1>3, <1>5, <1>6
<1> QED
  BY <1>4, <1>6, <1>7

-----------------------------------------------------------------------------
RetryInv ==
  /\ RetryTypeOK
  /\ loop = "sleeping" =>
       /\ failure \in Failures /\ attempt < Attempts(policy)
       /\ delay \in Jittered(Backoff(attempt, failure), policy.jitter)
       /\ policy.judged => IsTransient(failure)
  /\ loop = "rejected" /\ attempt < Attempts(policy) =>
       failure \in Failures /\ (policy.judged => ~IsTransient(failure))

LEMMA AttemptsType == ASSUME NEW p \in RetryPolicy PROVE Attempts(p) \in Nat \ {0} /\ p.jitter \in Nat /\ p.judged \in BOOLEAN
<1>1. p \in Policy
  BY RetryingAssumption
<1> QED
  BY <1>1 DEF Attempts, DefaultAttempts, Policy

LEMMA RetryBegins == RetryInit => RetryInv
<1> SUFFICES ASSUME RetryInit PROVE RetryInv
  OBVIOUS
<1>1. Attempts(policy) \in Nat \ {0} /\ MaxDelay \in Nat
  BY AttemptsType, RetryingAssumption DEF RetryInit
<1> QED
  BY <1>1 DEF RetryInit, RetryInv, RetryTypeOK

LEMMA RetrySteps == ASSUME RetryInv, [RetryNext]_retryVars PROVE RetryInv'
<1>1. /\ policy \in RetryPolicy /\ Attempts(policy) \in Nat \ {0} /\ attempt \in 1 .. Attempts(policy)
      /\ policy.jitter \in Nat /\ MaxDelay \in Nat /\ delay \in 0 .. MaxDelay
      /\ failure = <<>> \/ failure \in Failures
      /\ loop \in {"trying", "sleeping", "resolved", "rejected"}
  BY AttemptsType, RetryingAssumption DEF RetryInv, RetryTypeOK
<1>2. ASSUME UNCHANGED policy PROVE Attempts(policy)' = Attempts(policy)
  BY <1>2 DEF Attempts
<1>3. CASE Succeed
  BY <1>1, <1>2, <1>3 DEF Succeed, RetryInv, RetryTypeOK
<1>4. ASSUME NEW f \in Failures, Fail(f) PROVE RetryInv'
  <2>1. failure' = f /\ policy' = policy /\ attempt' = attempt /\ Attempts(policy)' = Attempts(policy)
    BY <1>2, <1>4 DEF Fail
  <2>2. CASE (policy.judged => IsTransient(f)) /\ attempt < Attempts(policy)
    <3>1. loop' = "sleeping" /\ delay' \in Jittered(Backoff(attempt, f), policy.jitter)
      BY <1>4, <2>2 DEF Fail
    <3>2. Backoff(attempt, f) \in 0 .. MaxDelay
      BY <1>1, FailureType, BackoffIs
    <3>3. \A t \in Jittered(Backoff(attempt, f), policy.jitter) : t \in 0 .. Backoff(attempt, f)
      BY <1>1, <3>2, JitteredIs
    <3>4. delay' \in 0 .. MaxDelay
      BY <1>1, <3>1, <3>2, <3>3
    <3> QED
      BY <1>1, <2>1, <2>2, <3>1, <3>4 DEF RetryInv, RetryTypeOK
  <2>3. CASE ~((policy.judged => IsTransient(f)) /\ attempt < Attempts(policy))
    <3>1. loop' = "rejected" /\ delay' = 0
      BY <1>4, <2>3 DEF Fail
    <3> QED
      BY <1>1, <2>1, <2>3, <3>1 DEF RetryInv, RetryTypeOK
  <2> QED
    BY <2>2, <2>3
<1>5. CASE Again
  BY <1>1, <1>2, <1>5 DEF Again, RetryInv, RetryTypeOK
<1>6. CASE UNCHANGED retryVars
  <2>1. UNCHANGED <<policy, loop, attempt, failure, delay>> /\ Attempts(policy)' = Attempts(policy)
    BY <1>2, <1>6 DEF retryVars
  <2> QED
    BY <2>1 DEF RetryInv, RetryTypeOK
<1> QED
  BY <1>3, <1>4, <1>5, <1>6 DEF RetryNext

LEMMA RetryImplies == RetryInv => NodeRetriesAreSafe
<1> SUFFICES ASSUME RetryInv PROVE NodeRetriesAreSafe
  OBVIOUS
<1>1. /\ policy \in RetryPolicy /\ attempt \in Nat \ {0} /\ policy.jitter \in Nat
      /\ MaxDelay \in Nat /\ delay \in 0 .. MaxDelay
      /\ failure # <<>> => failure \in Failures
  BY AttemptsType, RetryingAssumption DEF RetryInv, RetryTypeOK
<1>2. failure \in Failures => failure \in Seq(Layer) /\ failure # <<>>
  BY RetryingAssumption
<1>3. VerdictsAreJust
  BY <1>2, NothingFinalIsTransient, RefusedIsFinal DEF RetryInv, VerdictsAreJust
<1>4. WrappingKeepsVerdict
  BY <1>1, <1>2, WrappingKeeps DEF WrappingKeepsVerdict
<1>5. PausesAreBounded
  <2> SUFFICES ASSUME loop = "sleeping"
               PROVE  /\ delay <= MaxDelay /\ (Hint(failure) >= 0 => delay <= Hint(failure))
                      /\ policy.jitter <= 50 => 2 * delay >= Backoff(attempt, failure)
    BY DEF PausesAreBounded
  <2>1. /\ Hint(failure) \in Int /\ Backoff(attempt, failure) \in 0 .. MaxDelay
        /\ Hint(failure) >= 0 => Backoff(attempt, failure) <= Hint(failure)
    BY <1>1, <1>2, BackoffIs DEF RetryInv
  <2>2. delay \in Jittered(Backoff(attempt, failure), policy.jitter)
    BY DEF RetryInv
  <2>3. Backoff(attempt, failure) \in Nat
    BY <1>1, <2>1
  <2>4. delay \in 0 .. Backoff(attempt, failure) /\ (policy.jitter <= 50 => 2 * delay >= Backoff(attempt, failure))
    BY <1>1, <2>2, <2>3, JitteredIs
  <2> QED
    BY <1>1, <2>1, <2>3, <2>4
<1> QED
  BY <1>3, <1>4, <1>5 DEF NodeRetriesAreSafe

\* For any failures, policies and delays: what classifyFailure says of a chain of causes is
\* just, a wrapper does not change it, and a pause keeps to its cap, the schedule and the server.
THEOREM NodeRetriesStaySafe == RetrySpec => []NodeRetriesAreSafe
BY RetryBegins, RetrySteps, RetryImplies, PTL DEF RetrySpec

-----------------------------------------------------------------------------
(* The balance monitor.                                                    *)

LEMMA MonitorBegins == MonitorInit => MonitorTypeOK
<1>1. 0 \in 0 .. MaxHandlers
  BY MonitorAssumption
<1> QED
  BY <1>1 DEF MonitorInit, MonitorTypeOK

LEMMA MonitorSteps == ASSUME MonitorTypeOK, [MonitorNext]_monitorVars PROVE MonitorTypeOK'
<1> USE MonitorAssumption DEF MonitorTypeOK, Emitting
<1>1. CASE StartMonitor \/ StopMonitor \/ CheckNow \/ Tick
  BY <1>1 DEF StartMonitor, StopMonitor, Tick, CheckNow, Begin
<1>2. CASE FetchAnswers \/ FetchFails \/ HandlerHangs
  BY <1>2 DEF FetchAnswers, FetchFails, HandlerHangs, Emit
<1>3. CASE HandlerSettles
  BY <1>3 DEF HandlerSettles
<1>4. CASE Emitted
  BY <1>4 DEF Emitted, Emit
<1>5. CASE WebhookEnds \/ Forget
  BY <1>5 DEF WebhookEnds, Forget
<1>6. CASE UNCHANGED monitorVars
  BY <1>6 DEF monitorVars
<1> QED
  BY <1>1, <1>2, <1>3, <1>4, <1>5, <1>6 DEF MonitorNext, Serve

-----------------------------------------------------------------------------
(* All parts together.                                                     *)

ServicesInv ==
  /\ part \in Part
  /\ HooksInv /\ BreakerInv /\ DedupInv /\ ClientInv /\ MonitorTypeOK /\ HttpInv /\ SaltsInv /\ FeedInv
  /\ PollInv /\ GatewayInv /\ RetryInv /\ PoolInv /\ FeesInv /\ EndpointsInv /\ HistoryInv

\* A step of the services is a step of each part, or leaves it alone.
LEMMA StepsOfParts ==
  ASSUME [ServicesNext]_<<part, services>>
  PROVE  /\ UNCHANGED part
         /\ [HooksNext]_hooksVars /\ [BreakerNext]_breakerVars /\ [DedupNext]_dedupVars
         /\ [ClientNext]_clientVars /\ [MonitorNext]_monitorVars /\ [HttpNext]_httpVars
         /\ [SaltsNext]_saltVars /\ [FeedNext]_feedVars /\ [PollNext]_pollVars
         /\ [GatewayNext]_gatewayVars /\ [RetryNext]_retryVars /\ [PoolNext]_poolVars
         /\ [FeesNext]_feeVars /\ [EndpointsNext]_endpointVars /\ [HistoryNext]_historyVars
<1>1. CASE UNCHANGED <<part, services>>
  BY <1>1 DEF services
<1>2. CASE ServicesNext
  <2>1. OthersRest
    BY <1>2 DEF ServicesNext, Hooking, Breaking, Sharing, Calling, Monitoring, Requesting, Voting, Feeding,
                Polled, Resolving, Repeating, Pooling, Bumping, Rotating, Walking
  <2>2. /\ part = "hooks" => HooksNext
        /\ part = "breaker" => BreakerNext
        /\ part = "dedup" => DedupNext
        /\ part = "client" => ClientNext
        /\ part = "balance" => MonitorNext
        /\ part = "http" => HttpNext
        /\ part = "salts" => SaltsNext
        /\ part = "feed" => FeedNext
        /\ part = "polling" => PollNext
        /\ part = "gateways" => GatewayNext
        /\ part = "retry" => RetryNext
        /\ part = "pools" => PoolNext
        /\ part = "fees" => FeesNext
        /\ part = "endpoints" => EndpointsNext
        /\ part = "history" => HistoryNext
    BY <1>2 DEF ServicesNext, Hooking, Breaking, Sharing, Calling, Monitoring, Requesting, Voting, Feeding,
                Polled, Resolving, Repeating, Pooling, Bumping, Rotating, Walking
  <2> QED
    BY <2>1, <2>2 DEF OthersRest
<1> QED
  BY <1>1, <1>2

LEMMA ServicesBegin == ServicesInit => ServicesInv
<1> SUFFICES ASSUME ServicesInit PROVE ServicesInv
  OBVIOUS
<1>1. /\ part \in Part
      /\ HooksInit /\ BreakerInit /\ DedupInit /\ ClientInit /\ MonitorInit /\ HttpInit
      /\ SaltsInit /\ FeedInit /\ PollInit /\ GatewayInit /\ RetryInit /\ PoolInit /\ FeesInit
      /\ EndpointsInit /\ HistoryInit
  BY DEF ServicesInit
<1>2. MonitorTypeOK
  BY <1>1, MonitorBegins
<1>3. FeedInv
  BY <1>1 DEF FeedInit, FeedInv, FeedTypeOK, FiltersAreExact
<1>4. HooksInv /\ BreakerInv /\ DedupInv /\ ClientInv /\ HttpInv
  BY <1>1, HooksBegin, BreakerBegins, DedupBegins, ClientBegins, HttpBegins
<1>5. SaltsInv /\ PollInv /\ GatewayInv /\ RetryInv
  BY <1>1, SaltsBegin, PollsBegin, GatewayBegins, RetryBegins
<1>6. PoolInv /\ FeesInv /\ EndpointsInv /\ HistoryInv
  BY <1>1, PoolBegins, FeesBegin, EndpointsBegin, HistoryBegins
<1> QED
  BY <1>1, <1>2, <1>3, <1>4, <1>5, <1>6 DEF ServicesInv

LEMMA ServicesSteps == ASSUME ServicesInv, [ServicesNext]_<<part, services>> PROVE ServicesInv'
<1>1. /\ UNCHANGED part
      /\ [HooksNext]_hooksVars /\ [BreakerNext]_breakerVars /\ [DedupNext]_dedupVars
      /\ [ClientNext]_clientVars /\ [MonitorNext]_monitorVars /\ [HttpNext]_httpVars
      /\ [SaltsNext]_saltVars /\ [FeedNext]_feedVars /\ [PollNext]_pollVars
      /\ [GatewayNext]_gatewayVars /\ [RetryNext]_retryVars /\ [PoolNext]_poolVars
      /\ [FeesNext]_feeVars /\ [EndpointsNext]_endpointVars /\ [HistoryNext]_historyVars
  BY StepsOfParts
<1>2. /\ part \in Part
      /\ HooksInv /\ BreakerInv /\ DedupInv /\ ClientInv /\ MonitorTypeOK /\ HttpInv /\ SaltsInv /\ FeedInv
      /\ PollInv /\ GatewayInv /\ RetryInv /\ PoolInv /\ FeesInv /\ EndpointsInv /\ HistoryInv
  BY DEF ServicesInv
<1>3. (part \in Part)'
  BY <1>1, <1>2 DEF Part
<1>4. HooksInv' /\ BreakerInv' /\ DedupInv' /\ ClientInv' /\ MonitorTypeOK' /\ HttpInv'
  BY <1>1, <1>2, HooksSteps, BreakerSteps, DedupSteps, ClientSteps, MonitorSteps, HttpSteps
<1>5. SaltsInv' /\ FeedInv' /\ PollInv' /\ GatewayInv' /\ RetryInv'
  BY <1>1, <1>2, SaltsSteps, FeedSteps, PollSteps, GatewaySteps, RetrySteps
<1>6. PoolInv' /\ FeesInv' /\ EndpointsInv' /\ HistoryInv'
  BY <1>1, <1>2, PoolSteps, FeesSteps, EndpointsSteps, HistorySteps
<1> QED
  BY <1>3, <1>4, <1>5, <1>6 DEF ServicesInv

\* What every part keeps is what is promised of it.
LEMMA ServicesImply ==
  ServicesInv => ServicesTypeOK /\ CallersAreServed /\ RetriesAreSafe /\ HooksAgree /\ SwitchIsClean
<1> SUFFICES ASSUME ServicesInv
             PROVE  ServicesTypeOK /\ CallersAreServed /\ RetriesAreSafe /\ HooksAgree /\ SwitchIsClean
  OBVIOUS
<1>1. ServicesTypeOK
  BY DEF ServicesInv, ServicesTypeOK, HooksInv, BreakerInv, DedupInv, ClientInv, HttpInv, SaltsInv, FeedInv,
         PollInv, GatewayInv, RetryInv, PoolInv, FeesInv, EndpointsInv, HistoryInv
<1>2. CallersAreServed
  <2>1. GatewaysInOrder /\ HistoryIsWhole /\ TurnsAreTaken
    BY GatewayImplies, HistoryImplies, TurnsComeRound DEF ServicesInv
  <2>2. RequestsAreShared /\ SaltsAreKept /\ FiltersAreExact /\ PollsAreOwned /\ PoolsAreTracked
    BY DEF ServicesInv, DedupInv, SaltsInv, FeedInv, PollInv, PoolInv
  <2> QED
    BY <2>1, <2>2 DEF CallersAreServed
<1>3. RetriesAreSafe
  BY HttpImplies, RetryImplies, EstimateIsEnough DEF ServicesInv, RetriesAreSafe, FeesInv, FeesAreEnough
<1>4. HooksAgree /\ SwitchIsClean
  BY ClientIsClean DEF ServicesInv, HooksInv
<1> QED
  BY <1>1, <1>2, <1>3, <1>4

\* The state of every part has its type: no step writes what the code could not have written.
THEOREM ServicesAreTyped == ServicesSpec => []ServicesTypeOK
BY ServicesBegin, ServicesSteps, ServicesImply, PTL DEF ServicesSpec

\* Whichever part is used, in any sequence of calls, answers and failures: what is kept or
\* fetched for a caller is what was asked for, in the eight ways that CallersAreServed lists.
THEOREM CallersStayServed == ServicesSpec => []CallersAreServed
BY ServicesBegin, ServicesSteps, ServicesImply, PTL DEF ServicesSpec

\* For any failures, policies, requests and fees: no retry repeats what it must not, gives up
\* for no reason, exceeds its budget or pauses longer than its cap, and a higher fee is enough.
THEOREM RetriesStaySafe == ServicesSpec => []RetriesAreSafe
BY ServicesBegin, ServicesSteps, ServicesImply, PTL DEF ServicesSpec

\* The steps of the services are those of the circuit breaker, of which this is known, or leave it alone.
LEMMA ServicesMoveBreaker ==
  ServicesInv /\ [ServicesNext]_<<part, services>>
    => [OpensForFailures /\ RecoversInTime /\ ClosesForSuccesses]_breakerVars
BY StepsOfParts, BreakerStepMoves DEF ServicesInv

\* The hooks, the client and the circuit breaker keep their promises among the other parts: what
\* a hook shows agrees with its calls (its own address's data unless an update of an earlier
\* render was called since the effect ran), a switch of networks leaves nothing of the old one
\* behind, and the breaker moves only for a reason.
THEOREM OthersKeepTheirPromises == ServicesSpec => []HooksAgree /\ []SwitchIsClean /\ BreakerMoves
BY ServicesBegin, ServicesSteps, ServicesImply, ServicesMoveBreaker, PTL DEF ServicesSpec, BreakerMoves

=============================================================================
