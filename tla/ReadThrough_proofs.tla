------------------------- MODULE ReadThrough_proofs -------------------------
(*************************************************************************)
(* What a read through a connector answers, and the token it reads with, *)
(* for every number of threads, every table, query and Lifetime, Margin  *)
(* and Delay.                                                            *)
(*                                                                       *)
(* The pair of fields of the token cache can be one thread's token under *)
(* another's expiry. What bounds the damage is time: a thread that has   *)
(* been answered leaves _ensure_token within Delay, so the token stored  *)
(* last is at most one Delay older than the answer of any thread still   *)
(* inside, and the expiry is stamped at most one Delay after that        *)
(* answer.                                                               *)
(*                                                                       *)
(* An answer is what its filters mean for two reasons. Condition by      *)
(* condition, what is sent to a service or asked of SQLite holds of a    *)
(* row when the filter does, each operator for a reason of its own: that *)
(* is about filters only. And page by page, what a thread has collected  *)
(* are the first rows of the answer, as far as its cursor: that is the   *)
(* invariant.                                                            *)
(*************************************************************************)
EXTENDS ReadThrough, FiniteSetTheorems, SequenceTheorems, WellFoundedInduction, TLAPS

Inside == {"cached", "storing", "stamping", "returning"}

\* The part of TypeOK the argument needs
Shape ==
    /\ clock \in Nat
    /\ token \in Nat \cup {NoToken}
    /\ tokenExpiry \in Int
    /\ pc \in [Callers -> Places]
    /\ DOMAIN query = Callers
    /\ issued \in [Callers -> Nat]
    /\ held \in [Callers -> Nat \cup {NoToken}]
    /\ since \in [Callers -> Nat]
    /\ taken \in [Callers -> Nat]

\* A stay is no longer than Delay
Stays == \A t \in Callers : pc[t] \in Inside => since[t] <= clock /\ clock <= since[t] + Delay

\* An answer not yet stored was counted from when the stay began
Answers == \A t \in Callers : pc[t] = "storing" => issued[t] = since[t] + Lifetime

\* The token stored last is not much older than a stay that has stored one, or
\* that found one in the cache
Stored ==
    \A t \in Callers :
        /\ pc[t] \in {"stamping", "returning"} =>
               token # NoToken /\ since[t] + Lifetime <= token + Delay
        /\ pc[t] = "cached" => token # NoToken /\ since[t] + Margin <= token + 2 * Delay

\* An expiry is never counted from the future
Stamped == tokenExpiry + Margin <= clock + Lifetime

Holds ==
    \A t \in Callers :
        (pc[t] = "paging" /\ query[t].source = "feishu") =>
            held[t] \in Nat /\ taken[t] + Margin <= held[t] + 3 * Delay

IInv == Shape /\ Stays /\ Answers /\ Stored /\ Stamped /\ TokenOutlivesItsExpiry /\ Holds

USE DEF Inside

LEMMA Numbers ==
    /\ Lifetime \in Nat /\ Margin \in Nat /\ Delay \in Nat /\ MaxClock \in Nat
    /\ Margin <= Lifetime /\ NoToken \notin Int
BY ReadThroughAssumption DEF ReadThroughAssumption

LEMMA InitInv == Init => IInv
BY Numbers DEF Init, IInv, Shape, Stays, Answers, Stored, Stamped, TokenOutlivesItsExpiry,
               Holds, Places

\* A step that leaves the cache alone and takes one thread from outside to a
\* place outside of _ensure_token and off its Feishu pages
LEMMA Outside ==
    ASSUME IInv, NEW t \in Callers, NEW place \in Places \ (Inside \cup {"paging"}),
           pc' = [pc EXCEPT ![t] = place],
           DOMAIN query' = Callers,
           \A u \in Callers : u # t => query'[u] = query[u],
           held' \in [Callers -> Nat \cup {NoToken}],
           \A u \in Callers : u # t => held'[u] = held[u] /\ taken'[u] = taken[u],
           taken' \in [Callers -> Nat],
           UNCHANGED <<clock, tokenVars, issued, since>>
    PROVE  IInv'
<1>1. Shape' BY DEF IInv, Shape, tokenVars
<1>2. Stays' /\ Answers' /\ Stored' /\ Stamped' /\ TokenOutlivesItsExpiry'
  BY DEF IInv, Shape, Stays, Answers, Stored, Stamped, TokenOutlivesItsExpiry, tokenVars
<1>3. Holds' BY DEF IInv, Shape, Holds
<1> QED BY <1>1, <1>2, <1>3 DEF IInv

LEMMA AskInv ==
    ASSUME IInv, NEW t \in Callers, Ask(t)
    PROVE  IInv'
<1>1. PICK q \in Queries[t], place \in {"refused", "answered", "failed", "checking", "paging"} :
          Start(t, q, place) /\ (place = "paging" => q.source # "feishu")
  BY DEF Ask, Refuse, ReadFile, FileFails, CallService
<1>2. CASE place # "paging"
  BY <1>1, <1>2, Outside DEF Start, IInv, Shape, Places
<1>3. CASE place = "paging"
  <2>1. Shape' BY <1>1 DEF IInv, Shape, Start, tokenVars, Places
  <2>2. Stays' /\ Answers' /\ Stored' /\ Stamped' /\ TokenOutlivesItsExpiry'
    BY <1>1, <1>3 DEF IInv, Shape, Stays, Answers, Stored, Stamped, TokenOutlivesItsExpiry,
                      Start, tokenVars
  <2>3. Holds' BY <1>1, <1>3 DEF IInv, Shape, Holds, Start
  <2> QED BY <2>1, <2>2, <2>3 DEF IInv
<1> QED BY <1>2, <1>3
LEMMA ReadCacheInv ==
    ASSUME IInv, NEW t \in Callers, ReadCache(t)
    PROVE  IInv'
<1>1. Shape' BY Numbers DEF IInv, Shape, ReadCache, Goto, tokenVars, Places
<1>2. Stays' BY Numbers DEF IInv, Shape, Stays, ReadCache, Goto, tokenVars
<1>3. Answers' BY Numbers DEF IInv, Shape, Stays, Answers, ReadCache, Goto, tokenVars
<1>4. Stored' BY Numbers DEF IInv, Shape, Stays, Answers, Stored, Stamped, TokenOutlivesItsExpiry, ReadCache, Goto, tokenVars
<1>5. Stamped' BY Numbers DEF IInv, Shape, Stays, Stamped, ReadCache, Goto, tokenVars
<1>6. TokenOutlivesItsExpiry' BY Numbers DEF IInv, Shape, Stays, Answers, Stored, Stamped, TokenOutlivesItsExpiry, ReadCache, Goto, tokenVars
<1>7. Holds' BY Numbers DEF IInv, Shape, Stays, Stored, Holds, ReadCache, Goto, tokenVars
<1> QED BY <1>1, <1>2, <1>3, <1>4, <1>5, <1>6, <1>7 DEF IInv

LEMMA RenewInv ==
    ASSUME IInv, NEW t \in Callers, Renew(t)
    PROVE  IInv'
<1>1. Shape' BY Numbers DEF IInv, Shape, Renew, Goto, tokenVars, Places
<1>2. Stays' BY Numbers DEF IInv, Shape, Stays, Renew, Goto, tokenVars
<1>3. Answers' BY Numbers DEF IInv, Shape, Stays, Answers, Renew, Goto, tokenVars
<1>4. Stored' BY Numbers DEF IInv, Shape, Stays, Answers, Stored, Stamped, TokenOutlivesItsExpiry, Renew, Goto, tokenVars
<1>5. Stamped' BY Numbers DEF IInv, Shape, Stays, Stamped, Renew, Goto, tokenVars
<1>6. TokenOutlivesItsExpiry' BY Numbers DEF IInv, Shape, Stays, Answers, Stored, Stamped, TokenOutlivesItsExpiry, Renew, Goto, tokenVars
<1>7. Holds' BY Numbers DEF IInv, Shape, Stays, Stored, Holds, Renew, Goto, tokenVars
<1> QED BY <1>1, <1>2, <1>3, <1>4, <1>5, <1>6, <1>7 DEF IInv

LEMMA StoreTokenInv ==
    ASSUME IInv, NEW t \in Callers, StoreToken(t)
    PROVE  IInv'
<1>1. Shape' BY Numbers DEF IInv, Shape, StoreToken, Goto, tokenVars, Places
<1>2. Stays' BY Numbers DEF IInv, Shape, Stays, StoreToken, Goto, tokenVars
<1>3. Answers' BY Numbers DEF IInv, Shape, Stays, Answers, StoreToken, Goto, tokenVars
<1>4. Stored' BY Numbers DEF IInv, Shape, Stays, Answers, Stored, Stamped, TokenOutlivesItsExpiry, StoreToken, Goto, tokenVars
<1>5. Stamped' BY Numbers DEF IInv, Shape, Stays, Stamped, StoreToken, Goto, tokenVars
<1>6. TokenOutlivesItsExpiry' BY Numbers DEF IInv, Shape, Stays, Answers, Stored, Stamped, TokenOutlivesItsExpiry, StoreToken, Goto, tokenVars
<1>7. Holds' BY Numbers DEF IInv, Shape, Stays, Stored, Holds, StoreToken, Goto, tokenVars
<1> QED BY <1>1, <1>2, <1>3, <1>4, <1>5, <1>6, <1>7 DEF IInv

LEMMA StampExpiryInv ==
    ASSUME IInv, NEW t \in Callers, StampExpiry(t)
    PROVE  IInv'
<1>1. Shape' BY Numbers DEF IInv, Shape, StampExpiry, Goto, tokenVars, Places
<1>2. Stays' BY Numbers DEF IInv, Shape, Stays, StampExpiry, Goto, tokenVars
<1>3. Answers' BY Numbers DEF IInv, Shape, Stays, Answers, StampExpiry, Goto, tokenVars
<1>4. Stored' BY Numbers DEF IInv, Shape, Stays, Answers, Stored, Stamped, TokenOutlivesItsExpiry, StampExpiry, Goto, tokenVars
<1>5. Stamped' BY Numbers DEF IInv, Shape, Stays, Stamped, StampExpiry, Goto, tokenVars
<1>6. TokenOutlivesItsExpiry' BY Numbers DEF IInv, Shape, Stays, Answers, Stored, Stamped, TokenOutlivesItsExpiry, StampExpiry, Goto, tokenVars
<1>7. Holds' BY Numbers DEF IInv, Shape, Stays, Stored, Holds, StampExpiry, Goto, tokenVars
<1> QED BY <1>1, <1>2, <1>3, <1>4, <1>5, <1>6, <1>7 DEF IInv

LEMMA TakeTokenInv ==
    ASSUME IInv, NEW t \in Callers, TakeToken(t)
    PROVE  IInv'
<1>1. Shape' BY Numbers DEF IInv, Shape, TakeToken, Goto, tokenVars, Places
<1>2. Stays' BY Numbers DEF IInv, Shape, Stays, TakeToken, Goto, tokenVars
<1>3. Answers' BY Numbers DEF IInv, Shape, Stays, Answers, TakeToken, Goto, tokenVars
<1>4. Stored' BY Numbers DEF IInv, Shape, Stays, Answers, Stored, Stamped, TokenOutlivesItsExpiry, TakeToken, Goto, tokenVars
<1>5. Stamped' BY Numbers DEF IInv, Shape, Stays, Stamped, TakeToken, Goto, tokenVars
<1>6. TokenOutlivesItsExpiry' BY Numbers DEF IInv, Shape, Stays, Answers, Stored, Stamped, TokenOutlivesItsExpiry, TakeToken, Goto, tokenVars
<1>7. Holds' BY Numbers DEF IInv, Shape, Stays, Stored, Holds, TakeToken, Goto, tokenVars
<1> QED BY <1>1, <1>2, <1>3, <1>4, <1>5, <1>6, <1>7 DEF IInv

LEMMA EndInv ==
    ASSUME IInv, NEW t \in Callers, NEW place \in {"answered", "expired", "failed"}, End(t, place)
    PROVE  IInv'
BY Outside DEF End, Goto, IInv, Shape, Places

LEMMA PageInv ==
    ASSUME IInv, NEW t \in Callers, Page(t)
    PROVE  IInv'
<1>1. CASE End(t, "answered")
  BY <1>1, EndInv
<1>2. CASE UNCHANGED <<clock, tokenVars, pc, query, issued, held, outcome, cutOff, since, taken>>
  BY <1>2 DEF IInv, Shape, Stays, Answers, Stored, Stamped, TokenOutlivesItsExpiry, Holds,
              tokenVars
<1> QED BY <1>1, <1>2 DEF Page

LEMMA TickInv ==
    ASSUME IInv, Tick
    PROVE  IInv'
<1> USE DEF Tick, tokenVars, threadVars
<1>1. Shape' BY DEF IInv, Shape
<1>2. Stays' BY Numbers DEF IInv, Shape, Stays
<1>3. Answers' /\ Stored' BY Numbers DEF IInv, Shape, Answers, Stored
<1>4. Stamped' BY Numbers DEF IInv, Shape, Stamped
<1>5. TokenOutlivesItsExpiry' /\ Holds'
  BY DEF IInv, TokenOutlivesItsExpiry, Holds
<1> QED BY <1>1, <1>2, <1>3, <1>4, <1>5 DEF IInv

\* Every step of Next keeps the invariant
LEMMA NextInv == IInv /\ [Next]_vars => IInv'
<1> SUFFICES ASSUME IInv, [Next]_vars PROVE IInv'
  OBVIOUS
<1>1. CASE Tick BY <1>1, TickInv
<1>2. ASSUME NEW t \in Callers, Ask(t) PROVE IInv' BY <1>2, AskInv
<1>3. ASSUME NEW t \in Callers, Proceed(t) PROVE IInv'
  BY <1>3, ReadCacheInv, RenewInv, StoreTokenInv, StampExpiryInv, TakeTokenInv, PageInv, EndInv
     DEF Proceed, TokenRejected, TransportFails
<1>4. CASE UNCHANGED vars
  BY <1>4 DEF IInv, Shape, Stays, Answers, Stored, Stamped, TokenOutlivesItsExpiry, Holds,
              vars, tokenVars, threadVars
<1> QED BY <1>1, <1>2, <1>3, <1>4 DEF Next

\* The unlocked cache of feishu_bitable.py never holds a token shorter-lived than
\* its expiry says, up to two stays in _ensure_token, for any number of threads.
THEOREM TokenOutlivesItsExpiryHolds == Spec => []TokenOutlivesItsExpiry
<1>1. IInv => TokenOutlivesItsExpiry BY DEF IInv
<1> QED BY InitInv, NextInv, <1>1, PTL DEF Spec

\* No call of feishu_bitable.py is rejected for a token it took less than Margin
\* minus three stays ago: with stays within a third of Margin, a token handed out
\* has not expired.
THEOREM YoungTokensAreTakenHolds == Spec => []YoungTokensAreTaken
<1>1. IInv => YoungTokensAreTaken BY DEF IInv, Holds, YoungTokensAreTaken
<1> QED BY InitInv, NextInv, <1>1, PTL DEF Spec

-----------------------------------------------------------------------------
\* The rows in the order of the table

LEMMA BoundedIsFinite ==
    ASSUME NEW n \in Nat, NEW chosen \in SUBSET (1 .. n)
    PROVE  IsFiniteSet(chosen) /\ Cardinality(chosen) \in Nat
<1>1. IsFiniteSet(1 .. n)
  BY FS_Interval
<1>2. IsFiniteSet(chosen)
  BY <1>1, FS_Subset
<1> QED BY <1>2, FS_CardinalityType

\* Counting upwards meets the k-th of the chosen.
LEMMA KthChosen ==
    ASSUME NEW n \in Nat, NEW chosen \in SUBSET (1 .. n), NEW k \in 1 .. Cardinality(chosen)
    PROVE  \E i \in chosen : Cardinality({j \in chosen : j < i}) = k - 1
<1> DEFINE UpTo(i) == {j \in chosen : j <= i}
           T == {i \in Nat : Cardinality(UpTo(i)) >= k}
<1>1. IsFiniteSet(chosen) /\ Cardinality(chosen) \in Nat
  BY BoundedIsFinite
<1>2. \A i : IsFiniteSet(UpTo(i)) /\ Cardinality(UpTo(i)) \in Nat
  BY <1>1, FS_Subset, FS_CardinalityType
<1>3. UpTo(n) = chosen
  <2>1. \A j \in chosen : j <= n
    OBVIOUS
  <2> QED BY <2>1
<1>4. n \in T /\ T \subseteq Nat
  BY <1>1, <1>3
<1>5. PICK m \in T : \A y \in T : ~(<<y, m>> \in OpToRel(<, Nat))
  <2> HIDE DEF T
  <2> QED BY <1>4, NatLessThanWellFounded, WFMin
<1>6. \A x, y \in Nat : <<x, y>> \in OpToRel(<, Nat) <=> x < y
  BY Zenon DEF OpToRel
<1>7. m \in Nat /\ \A y \in T : ~(y < m)
  <2> HIDE DEF T
  <2> QED BY <1>4, <1>5, <1>6
<1>8. Cardinality(UpTo(m)) >= k
  OBVIOUS
<1>9. m # 0
  <2>1. \A j \in chosen : ~(j <= 0)
    OBVIOUS
  <2>2. UpTo(0) = {} /\ Cardinality(UpTo(0)) = 0
    BY <2>1, FS_EmptySet
  <2> HIDE DEF UpTo
  <2> QED BY <1>8, <2>2
<1>10. m - 1 \in Nat /\ m - 1 < m
  BY <1>7, <1>9
<1>11. Cardinality(UpTo(m - 1)) < k
  <2>1. m - 1 \notin T
    <3> HIDE DEF T
    <3> QED BY <1>7, <1>10
  <2>2. ~(Cardinality(UpTo(m - 1)) >= k)
    BY <1>10, <2>1
  <2> HIDE DEF UpTo
  <2> QED BY <1>1, <1>2, <2>2
<1>12. UpTo(m) = IF m \in chosen THEN UpTo(m - 1) \cup {m} ELSE UpTo(m - 1)
  <2>1. \A j \in chosen : j <= m <=> (j <= m - 1 \/ j = m)
    BY <1>7
  <2> QED BY <2>1
<1>13. m \notin UpTo(m - 1) /\ {j \in chosen : j < m} = UpTo(m - 1)
  <2>1. ~(m <= m - 1) /\ \A j \in chosen : j < m <=> j <= m - 1
    BY <1>7
  <2> QED BY <2>1
<1>14. Cardinality(UpTo(m - 1) \cup {m}) = Cardinality(UpTo(m - 1)) + 1
  <2> HIDE DEF UpTo
  <2> QED BY <1>2, <1>13, FS_AddElement
<1> HIDE DEF UpTo, T
<1>15. m \in chosen /\ Cardinality(UpTo(m - 1)) = k - 1
  BY <1>1, <1>2, <1>8, <1>11, <1>12, <1>14
<1> QED BY <1>13, <1>15

LEMMA TableFacts ==
    /\ Table \in Seq([FilterFields -> Values \cup {Null}]) /\ DOMAIN Table = 1 .. Len(Table)
    /\ Len(Table) \in Nat /\ Len(Columns) \in Nat
    /\ \A i \in DOMAIN Table : Table[i] \in [FilterFields -> Values \cup {Null}]
<1> DEFINE Row == [FilterFields -> Values \cup {Null}]
<1>1. Table \in Seq(Row) /\ Len(Columns) \in Nat
  BY ReadThroughAssumption DEF ReadThroughAssumption
<1> HIDE DEF Row
<1>2. DOMAIN Table = 1 .. Len(Table) /\ Len(Table) \in Nat /\ \A i \in DOMAIN Table : Table[i] \in Row
  BY <1>1
<1> QED BY <1>1, <1>2 DEF Row

\* A choice of rows, in order, is a sequence of them.
LEMMA InOrderSeq ==
    ASSUME NEW chosen \in SUBSET DOMAIN Table
    PROVE  InOrder[chosen] \in Seq(Nat)
<1> DEFINE kth(k) == CHOOSE i \in chosen : Cardinality({j \in chosen : j < i}) = k - 1
<1>1. /\ chosen \subseteq 1 .. Len(Table) /\ Len(Table) \in Nat
  BY TableFacts
<1>2. Cardinality(chosen) \in Nat
  BY <1>1, BoundedIsFinite
<1>3. \A k \in 1 .. Cardinality(chosen) : kth(k) \in chosen
  BY <1>1, KthChosen
<1>4. \A k \in 1 .. Cardinality(chosen) : kth(k) \in Nat
  <2> HIDE DEF kth
  <2> QED BY <1>1, <1>3
<1>5. InOrder[chosen] = [k \in 1 .. Cardinality(chosen) |-> kth(k)]
  BY DEF InOrder
<1> HIDE DEF kth
<1>6. [k \in 1 .. Cardinality(chosen) |-> kth(k)] \in Seq(Nat)
  BY <1>2, <1>4
<1> QED BY <1>5, <1>6

LEMMA ServedSeq ==
    ASSUME NEW q
    PROVE  Served(q) \in Seq(Nat) /\ ServedRows(q) \in Seq(Nat) /\ FileRows(q) \in Seq(Nat)
           /\ ServedColumns \in Seq(Nat)
<1>1. ServedRows(q) \in Seq(Nat)
  BY InOrderSeq DEF ServedRows
<1>2. FileRows(q) \in Seq(Nat)
  BY InOrderSeq DEF FileRows
<1>3. ServedColumns \in Seq(Nat)
  BY TableFacts DEF ServedColumns
<1> QED BY <1>1, <1>2, <1>3 DEF Served

-----------------------------------------------------------------------------
\* Filters

LEMMA ValueFacts ==
    /\ Values \subseteq Int /\ EmptyText \in Values /\ Null \notin Values
    /\ \A v \in Values : EmptyText <= v
    /\ \A v \in Values : Folded[v] \in Values
    /\ Within \subseteq Values \X Values
BY FiltersAssumption DEF FiltersAssumption

\* What an operator takes is a value, and so is each of an `in` or a range.
LEMMA FilterValues ==
    ASSUME NEW f, FilterOK(f)
    PROVE  /\ \A i \in DOMAIN f.value : f.value[i] \in Values
           /\ f.operator \in {"eq", "contains", "date_before", "date_after"} => f.value[1] \in Values
           /\ f.operator = "date_between" => f.value[1] \in Values /\ f.value[2] \in Values
<1>1. f.value \in Seq(Values)
  BY DEF FilterOK
<1>2. \A i \in DOMAIN f.value : f.value[i] \in Values
  BY <1>1
<1>3. DOMAIN f.value = 1 .. Len(f.value)
  BY <1>1
<1> QED BY <1>2, <1>3 DEF FilterOK

\* What is sent for a filter means what the filter does, on every row.
LEMMA GroupMeans ==
    ASSUME NEW f, FilterOK(f), Pushable(f), f.names \subseteq FilterFields,
           NEW row \in [FilterFields -> Values \cup {Null}]
    PROVE  (LET g == Group(f)
            IN  IF g.any THEN \E c \in g.of : ServiceHolds(c, row)
                         ELSE \A c \in g.of : ServiceHolds(c, row)) <=> Satisfies(f, row)
<1> DEFINE g == Group(f)
           holds == IF g.any THEN \E c \in g.of : ServiceHolds(c, row)
                             ELSE \A c \in g.of : ServiceHolds(c, row)
<1>1. ASSUME NEW n, NEW operator, NEW v, operator \notin {"at_least", "at_most"}
      PROVE  ServiceHolds(ConditionFor(n, operator, v), row) <=> Means(operator, v, row[n])
  BY <1>1 DEF ServiceHolds, ConditionFor
<1>2. f.operator \in Operators /\ f.virtual \in BOOLEAN
  BY DEF FilterOK
<1>3. CASE f.virtual
  <2>1. f.operator \notin {"at_least", "at_most"}
    BY <1>2 DEF Operators
  <2>2. g = [any |-> TRUE, of |-> {ConditionFor(n, f.operator, f.value) : n \in f.names}]
    BY <1>3 DEF Group
  <2>3. holds <=> \E n \in f.names : ServiceHolds(ConditionFor(n, f.operator, f.value), row)
    BY <2>2
  <2> QED BY <1>1, <2>1, <2>3 DEF Satisfies
<1>4. CASE ~f.virtual /\ f.operator = "in"
  <2>1. g = [any |-> TRUE,
             of  |-> UNION {{ConditionFor(n, "eq", <<f.value[i]>>) : i \in DOMAIN f.value} : n \in f.names}]
    BY <1>4 DEF Group
  <2>2. holds <=> \E n \in f.names : \E i \in DOMAIN f.value :
                     ServiceHolds(ConditionFor(n, "eq", <<f.value[i]>>), row)
    <3> DEFINE of(n) == {ConditionFor(n, "eq", <<f.value[i]>>) : i \in DOMAIN f.value}
    <3>1. g.any /\ g.of = UNION {of(n) : n \in f.names}
      BY <2>1
    <3>2. holds <=> \E n \in f.names : \E c \in of(n) : ServiceHolds(c, row)
      <4> HIDE DEF of, g
      <4> QED BY <3>1
    <3>3. \A n : (\E c \in of(n) : ServiceHolds(c, row))
                   <=> \E i \in DOMAIN f.value : ServiceHolds(ConditionFor(n, "eq", <<f.value[i]>>), row)
      OBVIOUS
    <3> HIDE DEF of, holds
    <3> QED BY <3>2, <3>3
  <2>3. \A n, i : ServiceHolds(ConditionFor(n, "eq", <<f.value[i]>>), row) <=> row[n] = f.value[i]
    <3>1. \A n, i : ServiceHolds(ConditionFor(n, "eq", <<f.value[i]>>), row)
                       <=> Means("eq", <<f.value[i]>>, row[n])
      BY <1>1
    <3>2. \A x, cell : Means("eq", <<x>>, cell) <=> cell = x
      BY DEF Means
    <3> QED BY <3>1, <3>2
  <2>4. \A n : Means("in", f.value, row[n]) <=> \E i \in DOMAIN f.value : row[n] = f.value[i]
    BY DEF Means
  <2>5. Satisfies(f, row) <=> \E n \in f.names : Means("in", f.value, row[n])
    BY <1>4 DEF Satisfies
  <2>6. holds <=> Satisfies(f, row)
    <3> HIDE DEF holds
    <3> QED BY <2>2, <2>3, <2>4, <2>5
  <2> QED BY <2>6
<1>5. CASE ~f.virtual /\ f.operator = "date_between"
  <2> DEFINE low(n) == ConditionFor(n, "at_least", <<f.value[1]>>)
             high(n) == ConditionFor(n, "at_most", <<f.value[2]>>)
  <2>1. g = [any |-> FALSE, of |-> {low(n) : n \in f.names} \cup {high(n) : n \in f.names}]
    BY <1>5 DEF Group
  <2>2. PICK n \in f.names : f.names = {n}
    BY <1>5 DEF FilterOK
  <2>3. holds <=> ServiceHolds(low(n), row) /\ ServiceHolds(high(n), row)
    <3> HIDE DEF low, high
    <3>1. g.of = {low(n), high(n)} /\ ~g.any
      BY <2>1, <2>2
    <3> QED BY <3>1
  <2>4. ServiceHolds(low(n), row) <=> ~Blank(row[n]) /\ row[n] >= f.value[1]
    BY DEF ServiceHolds, ConditionFor
  <2>5. ServiceHolds(high(n), row) <=> ~Blank(row[n]) /\ row[n] <= f.value[2]
    BY DEF ServiceHolds, ConditionFor
  <2>6. Satisfies(f, row) <=> ~Blank(row[n]) /\ f.value[1] <= row[n] /\ row[n] <= f.value[2]
    BY <1>5, <2>2 DEF Satisfies, Means
  <2>7. ~Blank(row[n]) => row[n] \in Int /\ f.value[1] \in Int
    <3>1. row[n] \in Values \cup {Null} /\ f.value[1] \in Values
      BY <1>5, FilterValues
    <3> QED BY <3>1, ValueFacts DEF Blank
  <2>8. ~Blank(row[n]) => (row[n] >= f.value[1] <=> f.value[1] <= row[n])
    BY <2>7
  <2> HIDE DEF low, high, holds
  <2> QED BY <2>3, <2>4, <2>5, <2>6, <2>8 DEF holds
<1>6. CASE ~f.virtual /\ f.operator \notin {"in", "date_between"}
  <2>1. PICK n \in f.names : f.names = {n}
    BY <1>6 DEF FilterOK
  <2>2. g = [any |-> FALSE, of |-> {ConditionFor(m, f.operator, f.value) : m \in f.names}]
    BY <1>6 DEF Group
  <2>3. g.of = {ConditionFor(n, f.operator, f.value)} /\ ~g.any
    BY <2>1, <2>2
  <2>4. f.operator \notin {"at_least", "at_most"}
    BY <1>2 DEF Operators
  <2> QED BY <1>1, <2>1, <2>3, <2>4 DEF Satisfies
<1> QED BY <1>2, <1>3, <1>4, <1>5, <1>6

\* A service answers with the rows the filters mean.
LEMMA ServedMeans ==
    ASSUME NEW q, QueryOK(q), ~Refuses(q), q.kind = "records", q.source # "file"
    PROVE  ServedRows(q) = InOrder[{i \in DOMAIN Table : \A f \in q.filters : Satisfies(f, Table[i])}]
<1>1. \A f \in q.filters : FilterOK(f) /\ Pushable(f) /\ f.names \subseteq FilterFields
  BY DEF QueryOK, Refuses
<1>2. ASSUME NEW i \in DOMAIN Table
      PROVE  BodyHolds(Body(q.filters), Table[i]) <=> \A f \in q.filters : Satisfies(f, Table[i])
  <2>1. Table[i] \in [FilterFields -> Values \cup {Null}]
    BY TableFacts
  <2>2. \A f \in q.filters :
           (LET g == Group(f)
            IN  IF g.any THEN \E c \in g.of : ServiceHolds(c, Table[i])
                         ELSE \A c \in g.of : ServiceHolds(c, Table[i])) <=> Satisfies(f, Table[i])
    BY <1>1, <2>1, GroupMeans
  <2> QED BY <2>2 DEF BodyHolds, Body
<1>3. {i \in DOMAIN Table : BodyHolds(Body(q.filters), Table[i])}
        = {i \in DOMAIN Table : \A f \in q.filters : Satisfies(f, Table[i])}
  BY <1>2
<1> QED BY <1>3 DEF ServedRows

\* Filters whose meaning on a file is that of a service but for case
Alike(f) == /\ f.names \subseteq KnownFields /\ f.operator # "date_before"
            /\ f.operator = "date_between" => f.value[1] # EmptyText

LEMMA ConditionMeans ==
    ASSUME NEW f, FilterOK(f), f.operator # "date_before",
           f.operator = "date_between" => f.value[1] # EmptyText,
           NEW cell \in Values \cup {Null}
    PROVE  condition(f.operator, f.value, cell)
             <=> IF f.operator \in {"eq", "contains"} /\ cell # Null
                 THEN \E w \in Unfold(f.value[1]), c \in Unfold(cell) : Means(f.operator, <<w>>, c)
                 ELSE Means(f.operator, f.value, cell)
<1> DEFINE v == f.value
<1>1. f.operator \in Operators
  BY DEF FilterOK
<1>2. CASE f.operator = "is_empty"
  BY <1>2 DEF condition, Means
<1>3. CASE f.operator = "eq"
  <2>1. condition("eq", v, cell) <=> cell # Null /\ Folded[cell] = Folded[v[1]]
    BY DEF condition
  <2>2. v[1] \in Values
    BY <1>3, FilterValues
  <2>3. CASE cell = Null
    BY <1>3, <2>1, <2>2, <2>3, ValueFacts DEF Means
  <2>4. CASE cell # Null
    <3>2. cell \in Values
      BY <2>4
    <3>3. (\E w \in Unfold(v[1]), c \in Unfold(cell) : c = w) <=> Folded[cell] = Folded[v[1]]
      BY <2>2, <3>2 DEF Unfold
    <3>4. \A w, c : Means(f.operator, <<w>>, c) <=> c = w
      BY <1>3 DEF Means
    <3>5. (\E w \in Unfold(v[1]), c \in Unfold(cell) : Means(f.operator, <<w>>, c))
             <=> (\E w \in Unfold(v[1]), c \in Unfold(cell) : c = w)
      BY <3>4, Zenon
    <3> QED BY <1>3, <2>1, <2>4, <3>3, <3>5
  <2> QED BY <2>3, <2>4
<1>4. CASE f.operator = "contains"
  <2>1. condition("contains", v, cell)
          <=> cell # Null /\ \E w \in Unfold(v[1]), c \in Unfold(cell) : <<w, c>> \in Within
    BY DEF condition
  <2>2. CASE cell = Null
    BY <1>4, <2>1, <2>2, ValueFacts DEF Means
  <2>3. CASE cell # Null
    <3>1. \A w, c : Means("contains", <<w>>, c) <=> <<w, c>> \in Within
      BY DEF Means
    <3> QED BY <1>4, <2>1, <2>3, <3>1
  <2> QED BY <2>2, <2>3
<1>5. CASE f.operator = "in"
  <2>1. condition("in", v, cell) <=> cell # Null /\ \E i \in DOMAIN v : cell = v[i]
    BY DEF condition
  <2>2. Means("in", v, cell) <=> \E i \in DOMAIN v : cell = v[i]
    BY DEF Means
  <2>3. \A i \in DOMAIN v : v[i] # Null
    BY FilterValues, ValueFacts
  <2> QED BY <1>5, <2>1, <2>2, <2>3
<1>6. CASE f.operator = "date_after"
  <2>1. condition("date_after", v, cell) <=> cell # Null /\ cell > v[1]
    BY DEF condition
  <2>2. Means("date_after", v, cell) <=> ~Blank(cell) /\ cell > v[1]
    BY DEF Means
  <2>3. cell = EmptyText => ~(cell > v[1])
    <3>1. v[1] \in Int /\ EmptyText \in Int /\ EmptyText <= v[1]
      BY <1>6, FilterValues, ValueFacts
    <3> QED BY <3>1
  <2> QED BY <1>6, <2>1, <2>2, <2>3 DEF Blank
<1>7. CASE f.operator = "date_between"
  <2>1. condition("date_between", v, cell) <=> cell # Null /\ v[1] <= cell /\ cell <= v[2]
    BY DEF condition
  <2>2. Means("date_between", v, cell) <=> ~Blank(cell) /\ v[1] <= cell /\ cell <= v[2]
    BY DEF Means
  <2>3. cell = EmptyText => ~(v[1] <= cell)
    <3>1. v[1] \in Int /\ EmptyText \in Int /\ EmptyText <= v[1] /\ v[1] # EmptyText
      BY <1>7, FilterValues, ValueFacts
    <3> QED BY <3>1
  <2> QED BY <1>7, <2>1, <2>2, <2>3 DEF Blank
<1> QED BY <1>1, <1>2, <1>3, <1>4, <1>5, <1>6, <1>7 DEF Operators

\* A file is read for the rows the filters mean, but for case.
LEMMA FileMeans ==
    ASSUME NEW q, QueryOK(q), \A f \in q.filters : Alike(f)
    PROVE  FileRows(q)
             = InOrder[{i \in DOMAIN Table : \A f \in q.filters : SatisfiesFolded(f, Table[i])}]
<1>1. ASSUME NEW f \in q.filters, NEW i \in DOMAIN Table
      PROVE  (\E n \in f.names : condition(f.operator, f.value, Column(Table[i], n)))
               <=> SatisfiesFolded(f, Table[i])
  <2>1. FilterOK(f) /\ Alike(f)
    BY DEF QueryOK
  <2>2. \A n \in f.names : Table[i][n] \in Values \cup {Null} /\ Column(Table[i], n) = Table[i][n]
    BY <2>1, TableFacts DEF Alike, FilterFields, Column
  <2>3. \A n \in f.names :
           condition(f.operator, f.value, Table[i][n])
             <=> IF f.operator \in {"eq", "contains"} /\ Table[i][n] # Null
                 THEN \E w \in Unfold(f.value[1]), c \in Unfold(Table[i][n]) : Means(f.operator, <<w>>, c)
                 ELSE Means(f.operator, f.value, Table[i][n])
    BY <2>1, <2>2, ConditionMeans DEF Alike
  <2> QED BY <2>2, <2>3 DEF SatisfiesFolded
<1>2. {i \in DOMAIN Table : build_where(q.filters, Table[i])}
        = {i \in DOMAIN Table : \A f \in q.filters : SatisfiesFolded(f, Table[i])}
  BY <1>1 DEF build_where
<1> QED BY <1>2 DEF FileRows

-----------------------------------------------------------------------------
\* Prefixes

LEMMA PrefixSeq ==
    ASSUME NEW s \in Seq(Nat), NEW n \in Nat
    PROVE  Prefix(s, n) \in Seq(Nat)
<1> DEFINE m == IF n < Len(s) THEN n ELSE Len(s)
<1>1. m \in Int /\ \A i \in 1 .. m : s[i] \in Nat
  OBVIOUS
<1> HIDE DEF m
<1>2. SubSeq(s, 1, m) \in Seq(Nat)
  BY <1>1, SubSeqProperties
<1> QED BY <1>2 DEF Prefix, m

\* The first rows of what was collected are the first rows of the answer, once
\* there are enough of them or they are all.
LEMMA PrefixOfPart ==
    ASSUME NEW s \in Seq(Nat), NEW n \in Nat, NEW m \in 0 .. Len(s), n <= m \/ m = Len(s)
    PROVE  Prefix(SubSeq(s, 1, m), n) = Prefix(s, n) /\ Len(SubSeq(s, 1, m)) = m
<1>1. Len(s) \in Nat /\ m \in Nat
  OBVIOUS
<1>2. SubSeq(s, 1, m) \in Seq(Nat) /\ Len(SubSeq(s, 1, m)) = m
  <2>1. \A i \in 1 .. m : s[i] \in Nat
    OBVIOUS
  <2>2. Len(SubSeq(s, 1, m)) = IF 1 <= m THEN m - 1 + 1 ELSE 0
    BY <1>1, <2>1, SubSeqProperties
  <2> QED BY <1>1, <2>1, <2>2, SubSeqProperties
<1>3. CASE m = Len(s)
  BY <1>3, SubSeqFull
<1>4. CASE m # Len(s) /\ n = 0
  BY <1>1, <1>2, <1>4, SubSeqEmpty DEF Prefix
<1>5. CASE m # Len(s) /\ n # 0
  <2>1. 1 \in 1 .. Len(s) /\ m \in 1 .. Len(s) /\ 1 \in 1 .. m - 1 + 1 /\ n \in 1 .. m - 1 + 1
    BY <1>1, <1>5
  <2>2. SubSeq(SubSeq(s, 1, m), 1, n) = SubSeq(s, 1 + 1 - 1, 1 + n - 1)
    BY <1>2, <2>1, SubSeqOfSubSeq
  <2>3. Prefix(s, n) = SubSeq(s, 1, n)
    BY <1>1, <1>5 DEF Prefix
  <2>4. (IF n < m THEN n ELSE m) = n /\ 1 + 1 - 1 = 1 /\ 1 + n - 1 = n
    BY <1>1, <1>5
  <2>5. Prefix(SubSeq(s, 1, m), n) = SubSeq(SubSeq(s, 1, m), 1, n)
    BY <1>2, <2>4 DEF Prefix
  <2> QED BY <1>2, <2>2, <2>3, <2>4, <2>5
<1> QED BY <1>2, <1>3, <1>4, <1>5

-----------------------------------------------------------------------------
\* What a thread has of its answer, at each place

Working == {"checking", "cached", "renewing", "storing", "stamping", "returning", "paging"}

\* What a call of query answers: all that was asked for, or the first rows of it when
\* the service broke off
AnswerOf(t, q, out, cuts) ==
    \/ out = Prefix(IF q.source = "file" THEN FileRows(q) ELSE ServedRows(q), q.limit)
    \/ t \in cuts /\ q.source # "file" /\ \E n \in 0 .. q.limit : out = Prefix(ServedRows(q), n)

KeptAt(t, q, place, c, rows, out, cuts) ==
    /\ place \in Working => q # NoQuery /\ ~Refuses(q) /\ q.source # "file"
    /\ place = "paging" => c \in 0 .. Len(Served(q)) /\ rows = SubSeq(Served(q), 1, c)
    /\ place = "answered" =>
           /\ q # NoQuery /\ ~Refuses(q)
           /\ q.kind = "records" => AnswerOf(t, q, out, cuts)

Kept(t) == KeptAt(t, query[t], pc[t], cursor[t], collected[t], outcome[t], cutOff)

RInv == IInv /\ TypeOK /\ \A t \in Callers : Kept(t)

LEMMA QueryFacts ==
    ASSUME NEW t \in Callers, NEW q \in Queries[t]
    PROVE  q # NoQuery /\ QueryOK(q) /\ q.limit \in Nat
BY ReadThroughAssumption DEF ReadThroughAssumption, QueryOK

LEMMA ReadInit == Init => RInv
<1> SUFFICES ASSUME Init PROVE RInv
  OBVIOUS
<1>1. IInv
  BY InitInv
<1>2. TypeOK
  BY Numbers DEF Init, TypeOK, Times, Places
<1>3. ASSUME NEW t \in Callers PROVE Kept(t)
  BY DEF Init, Kept, KeptAt, Working
<1> QED BY <1>1, <1>2, <1>3 DEF RInv

LEMMA AskReads ==
    ASSUME RInv, NEW t \in Callers, Ask(t)
    PROVE  TypeOK' /\ \A u \in Callers : Kept(u)'
<1>1. PICK q \in Queries[t] :
          Refuse(t, q) \/ ReadFile(t, q) \/ FileFails(t, q) \/ CallService(t, q)
  BY DEF Ask
<1>2. q # NoQuery /\ QueryOK(q) /\ q.limit \in Nat
  BY QueryFacts
<1>3. /\ Served(q) \in Seq(Nat) /\ FileRows(q) \in Seq(Nat)
      /\ ServedColumns \in Seq(Nat) /\ Prefix(FileRows(q), q.limit) \in Seq(Nat)
  BY <1>2, ServedSeq, PrefixSeq
<1> DEFINE From(place, out) ==
               /\ Start(t, q, place) /\ outcome' = [outcome EXCEPT ![t] = out]
               /\ place # "refused" => ~Refuses(q)
               /\ place \in {"checking", "paging"} => q.source # "file"
               /\ place = "answered" =>
                      q.source = "file" /\ (q.kind = "records" => out = Prefix(FileRows(q), q.limit))
<1>4. PICK place \in {"refused", "answered", "failed", "checking", "paging"}, out \in Seq(Nat) : From(place, out)
  <2>1. <<>> \in Seq(Nat)
    OBVIOUS
  <2>2. CASE Refuse(t, q)
    <3>1. From("refused", <<>>)
      BY <2>2 DEF Refuse
    <3> HIDE DEF From
    <3> QED BY <2>1, <3>1
  <2>3. CASE ReadFile(t, q)
    <3> DEFINE out == IF q.kind = "columns" THEN ServedColumns ELSE Prefix(FileRows(q), q.limit)
    <3>1. From("answered", out) /\ out \in Seq(Nat)
      BY <1>3, <2>3 DEF ReadFile
    <3> HIDE DEF From, out
    <3> QED BY <3>1
  <2>5. CASE FileFails(t, q)
    <3>1. From("failed", <<>>)
      BY <2>5 DEF FileFails
    <3> HIDE DEF From
    <3> QED BY <2>1, <3>1
  <2>4. CASE CallService(t, q)
    <3> DEFINE place == IF q.source = "feishu" THEN "checking" ELSE "paging"
    <3>1. From(place, <<>>) /\ place \in {"checking", "paging"}
      BY <2>4 DEF CallService
    <3> HIDE DEF From, place
    <3> QED BY <2>1, <3>1
  <2> HIDE DEF From
  <2> QED BY <1>1, <2>2, <2>3, <2>4, <2>5
<1>5. TypeOK'
  BY <1>4 DEF RInv, IInv, Shape, TypeOK, Start, tokenVars, Places, Times
<1>6. ASSUME NEW u \in Callers PROVE Kept(u)'
  <2>1. DOMAIN query = Callers /\ pc \in [Callers -> Places] /\ outcome \in [Callers -> Seq(Nat)]
    BY DEF RInv, IInv, Shape, TypeOK
  <2>2. CASE u # t
    <3>1. query'[u] = query[u] /\ pc'[u] = pc[u] /\ cursor'[u] = cursor[u]
          /\ collected'[u] = collected[u] /\ outcome'[u] = outcome[u]
          /\ (u \in cutOff' <=> u \in cutOff)
      BY <1>4, <2>1, <2>2 DEF Start
    <3>2. Kept(u)
      BY DEF RInv
    <3> QED BY <3>1, <3>2 DEF Kept, KeptAt, AnswerOf
  <2>3. CASE u = t
    <3>1. query'[t] = q /\ pc'[t] = place /\ outcome'[t] = out
          /\ cursor'[t] = 0 /\ collected'[t] = <<>> /\ t \notin cutOff'
      BY <1>4, <2>1 DEF Start, RInv, TypeOK
    <3>2. Len(Served(q)) \in Nat /\ SubSeq(Served(q), 1, 0) = <<>>
      BY <1>3, SubSeqEmpty
    <3>4. place = "answered" /\ q.kind = "records" => AnswerOf(t, q, out, cutOff')
      BY <1>4 DEF AnswerOf
    <3>3. KeptAt(t, q, place, 0, <<>>, out, cutOff')
      BY <1>2, <1>4, <3>2, <3>4 DEF KeptAt, Working
    <3> QED BY <2>3, <3>1, <3>3 DEF Kept
  <2> QED BY <2>2, <2>3
<1> QED BY <1>5, <1>6

\* A step inside _ensure_token leaves the rows alone.
LEMMA TokenSteps ==
    ASSUME RInv, NEW t \in Callers, NEW place \in Working, pc[t] \in Working \ {"paging"},
           pc' = [pc EXCEPT ![t] = place],
           UNCHANGED <<query, cursor, collected, outcome, cutOff>>
    PROVE  /\ \A u \in Callers : Kept(u)'
           /\ \A u \in Callers : pc'[u] # "paging" => cursor'[u] = 0 /\ collected'[u] = <<>>
<1>1. pc \in [Callers -> Places] /\ query[t] \in Queries[t] \cup {NoQuery}
      /\ cursor[t] = 0 /\ collected[t] = <<>>
  BY DEF RInv, TypeOK, Working
<1>2. ASSUME NEW u \in Callers PROVE Kept(u)'
  <2>1. CASE u # t
    <3>1. query'[u] = query[u] /\ pc'[u] = pc[u] /\ cursor'[u] = cursor[u]
          /\ collected'[u] = collected[u] /\ outcome'[u] = outcome[u]
      BY <1>1, <2>1
    <3> QED BY <3>1 DEF RInv, Kept
  <2>2. CASE u = t
    <3>1. query'[t] = query[t] /\ pc'[t] = place /\ outcome'[t] = outcome[t]
          /\ cursor'[t] = 0 /\ collected'[t] = <<>>
      BY <1>1
    <3>2. Len(Served(query[t])) \in Nat /\ SubSeq(Served(query[t]), 1, 0) = <<>>
      BY ServedSeq, SubSeqEmpty
    <3>3. Kept(t)
      BY DEF RInv
    <3>4. KeptAt(t, query[t], place, 0, <<>>, outcome[t], cutOff)
      BY <3>2, <3>3 DEF Kept, KeptAt, Working
    <3> QED BY <2>2, <3>1, <3>4 DEF Kept
  <2> QED BY <2>1, <2>2
<1>3. ASSUME NEW u \in Callers, pc'[u] # "paging" PROVE cursor'[u] = 0 /\ collected'[u] = <<>>
  BY <1>1, <1>3 DEF RInv, TypeOK
<1> QED BY <1>2, <1>3

LEMMA EnsureTokenReads ==
    ASSUME RInv, NEW t \in Callers,
           ReadCache(t) \/ Renew(t) \/ StoreToken(t) \/ StampExpiry(t) \/ TakeToken(t)
    PROVE  TypeOK' /\ \A u \in Callers : Kept(u)'
<1> USE Numbers
<1>1. CASE ReadCache(t)
  <2>1. PICK place \in {"cached", "renewing"} : pc' = [pc EXCEPT ![t] = place]
    BY <1>1 DEF ReadCache, Goto
  <2>2. /\ \A u \in Callers : Kept(u)'
        /\ \A u \in Callers : pc'[u] # "paging" => cursor'[u] = 0 /\ collected'[u] = <<>>
    BY <1>1, <2>1, TokenSteps DEF ReadCache, Working
  <2>3. since' \in [Callers -> Times]
    BY <1>1 DEF ReadCache, RInv, TypeOK
  <2> QED BY <1>1, <2>1, <2>2, <2>3 DEF ReadCache, RInv, TypeOK, tokenVars, Places
<1>2. CASE Renew(t)
  <2>1. /\ \A u \in Callers : Kept(u)'
        /\ \A u \in Callers : pc'[u] # "paging" => cursor'[u] = 0 /\ collected'[u] = <<>>
    BY <1>2, TokenSteps DEF Renew, Goto, Working
  <2>2. since' \in [Callers -> Times] /\ issued' \in [Callers -> Nat] /\ pc' \in [Callers -> Places]
    BY <1>2 DEF Renew, Goto, RInv, TypeOK, Times, Places
  <2> QED BY <1>2, <2>1, <2>2 DEF Renew, RInv, TypeOK, tokenVars
<1>3. CASE StoreToken(t)
  <2>1. /\ \A u \in Callers : Kept(u)'
        /\ \A u \in Callers : pc'[u] # "paging" => cursor'[u] = 0 /\ collected'[u] = <<>>
    BY <1>3, TokenSteps DEF StoreToken, Goto, Working
  <2>2. pc' \in [Callers -> Places] /\ token' \in Nat
    BY <1>3 DEF StoreToken, Goto, RInv, TypeOK, Places
  <2> QED BY <1>3, <2>1, <2>2 DEF StoreToken, RInv, TypeOK
<1>4. CASE StampExpiry(t)
  <2>1. /\ \A u \in Callers : Kept(u)'
        /\ \A u \in Callers : pc'[u] # "paging" => cursor'[u] = 0 /\ collected'[u] = <<>>
    BY <1>4, TokenSteps DEF StampExpiry, Goto, Working
  <2>2. pc' \in [Callers -> Places] /\ tokenExpiry' \in Int
    BY <1>4 DEF StampExpiry, Goto, RInv, TypeOK, Places, Times
  <2> QED BY <1>4, <2>1, <2>2 DEF StampExpiry, RInv, TypeOK
<1>5. CASE TakeToken(t)
  <2>1. /\ \A u \in Callers : Kept(u)'
        /\ \A u \in Callers : pc'[u] # "paging" => cursor'[u] = 0 /\ collected'[u] = <<>>
    BY <1>5, TokenSteps DEF TakeToken, Goto, Working
  <2>2. /\ pc' \in [Callers -> Places] /\ held' \in [Callers -> Nat \cup {NoToken}]
        /\ issued' \in [Callers -> Nat]
    BY <1>5 DEF TakeToken, Goto, RInv, TypeOK, Places
  <2>3. taken' \in [Callers -> Times] /\ since' \in [Callers -> Times]
    BY <1>5 DEF TakeToken, RInv, TypeOK, Times
  <2> QED BY <1>5, <2>1, <2>2, <2>3 DEF TakeToken, RInv, TypeOK, tokenVars
<1> QED BY <1>1, <1>2, <1>3, <1>4, <1>5

LEMMA EndReads ==
    ASSUME RInv, NEW t \in Callers, NEW place \in {"answered", "expired", "failed"},
           NEW out \in Seq(Nat), End(t, place), outcome' = [outcome EXCEPT ![t] = out],
           cutOff' \in {cutOff, cutOff \cup {t}},
           KeptAt(t, query[t], place, 0, <<>>, out, cutOff')
    PROVE  TypeOK' /\ \A u \in Callers : Kept(u)'
<1>1. pc \in [Callers -> Places] /\ outcome \in [Callers -> Seq(Nat)]
      /\ cursor \in [Callers -> Nat] /\ collected \in [Callers -> Seq(Nat)]
  BY DEF RInv, TypeOK
<1>2. /\ pc' = [pc EXCEPT ![t] = place] /\ cursor' = [cursor EXCEPT ![t] = 0]
      /\ collected' = [collected EXCEPT ![t] = <<>>] /\ query' = query
      /\ held' = [held EXCEPT ![t] = NoToken] /\ taken' = [taken EXCEPT ![t] = 0]
      /\ UNCHANGED <<clock, token, tokenExpiry, issued, since>>
  BY DEF End, Goto, tokenVars
<1>3. TypeOK'
  <2>1. <<>> \in Seq(Nat)
    OBVIOUS
  <2>2. /\ pc' \in [Callers -> Places] /\ cursor' \in [Callers -> Nat]
        /\ collected' \in [Callers -> Seq(Nat)] /\ outcome' \in [Callers -> Seq(Nat)]
    BY <1>1, <1>2, <2>1 DEF Places
  <2>3. held' \in [Callers -> Nat \cup {NoToken}] /\ taken' \in [Callers -> Times]
    BY <1>2, Numbers DEF RInv, TypeOK, Times
  <2>4. ASSUME NEW u \in Callers, pc'[u] # "paging" PROVE cursor'[u] = 0 /\ collected'[u] = <<>>
    BY <1>1, <1>2, <2>4 DEF RInv, TypeOK
  <2>5. cutOff' \in SUBSET Callers
    BY DEF RInv, TypeOK
  <2> QED BY <1>2, <2>2, <2>3, <2>4, <2>5 DEF RInv, TypeOK
<1>4. ASSUME NEW u \in Callers PROVE Kept(u)'
  <2>1. CASE u # t
    <3>1. query'[u] = query[u] /\ pc'[u] = pc[u] /\ cursor'[u] = cursor[u]
          /\ collected'[u] = collected[u] /\ outcome'[u] = outcome[u]
          /\ (u \in cutOff' <=> u \in cutOff)
      BY <1>1, <1>2, <2>1
    <3>2. Kept(u)
      BY DEF RInv
    <3> QED BY <3>1, <3>2 DEF Kept, KeptAt, AnswerOf
  <2>2. CASE u = t
    <3>1. query'[t] = query[t] /\ pc'[t] = place /\ outcome'[t] = out
          /\ cursor'[t] = 0 /\ collected'[t] = <<>>
      BY <1>1, <1>2
    <3> QED BY <2>2, <3>1 DEF Kept
  <2> QED BY <2>1, <2>2
<1> QED BY <1>3, <1>4

\* A page continues where the last one ended, so what is collected is a prefix
\* of the answer, and the whole of it when the call ends.
LEMMA PageReads ==
    ASSUME RInv, NEW t \in Callers, Page(t)
    PROVE  TypeOK' /\ \A u \in Callers : Kept(u)'
<1> DEFINE q == query[t]
           all == Served(q)
<1>1. /\ pc \in [Callers -> Places] /\ cursor \in [Callers -> Nat]
      /\ collected \in [Callers -> Seq(Nat)] /\ outcome \in [Callers -> Seq(Nat)]
      /\ q \in Queries[t] \cup {NoQuery}
  BY DEF RInv, TypeOK
<1>2. /\ pc[t] = "paging" /\ q # NoQuery /\ ~Refuses(q) /\ q.source # "file"
      /\ cursor[t] \in 0 .. Len(all) /\ collected[t] = SubSeq(all, 1, cursor[t])
  BY DEF RInv, Kept, KeptAt, Working, Page
<1>3. QueryOK(q) /\ q.limit \in Nat
  BY <1>1, <1>2, QueryFacts
<1>4. all \in Seq(Nat) /\ ServedRows(q) \in Seq(Nat) /\ Len(all) \in Nat
  BY ServedSeq
<1>5. PICK n \in 0 .. Len(all) - cursor[t], says \in {"last", "more", "stuck"} :
          /\ says = "last" => n = Len(all) - cursor[t]
          /\ LET got  == collected[t] \o SubSeq(all, cursor[t] + 1, cursor[t] + n)
                 full == q.kind = "records" /\ n > 0 /\ Len(got) >= q.limit
             IN  IF full \/ says # "more"
                 THEN /\ End(t, "answered")
                      /\ outcome' = [outcome EXCEPT ![t] =
                             IF q.kind = "records" THEN Prefix(got, q.limit) ELSE got]
                      /\ cutOff' = IF full \/ says = "last" THEN cutOff ELSE cutOff \cup {t}
                 ELSE /\ cursor' = [cursor EXCEPT ![t] = @ + n]
                      /\ collected' = [collected EXCEPT ![t] = got]
                      /\ UNCHANGED <<clock, tokenVars, pc, query, issued, held, outcome, cutOff,
                                     since, taken>>
  BY DEF Page
<1> DEFINE m == cursor[t] + n
           got == collected[t] \o SubSeq(all, cursor[t] + 1, m)
           full == q.kind = "records" /\ n > 0 /\ Len(got) >= q.limit
<1> HIDE DEF q, all
<1>6. m \in 0 .. Len(all)
  BY <1>2, <1>4
<1>7. got = SubSeq(all, 1, m) /\ got \in Seq(Nat) /\ Len(got) = m
  <2>1. 1 \in 1 .. Len(all) + 1 /\ cursor[t] \in 1 - 1 .. Len(all) /\ m \in cursor[t] .. Len(all)
    BY <1>2, <1>4
  <2>2. got = SubSeq(all, 1, m)
    <3> HIDE DEF m
    <3> QED BY <1>2, <1>4, <2>1, ConcatAdjacentSubSeq
  <2> HIDE DEF m, got
  <2>3. \A i \in 1 .. m : all[i] \in Nat
    BY <1>4, <1>6
  <2>4. SubSeq(all, 1, m) \in Seq(Nat) /\ Len(SubSeq(all, 1, m)) = IF 1 <= m THEN m - 1 + 1 ELSE 0
    BY <1>6, <2>3, SubSeqProperties
  <2> QED BY <1>6, <2>2, <2>4
<1>8. CASE full \/ says # "more"
  <2> DEFINE out == IF q.kind = "records" THEN Prefix(got, q.limit) ELSE got
             cut == ~(full \/ says = "last")
  <2>1. /\ End(t, "answered") /\ outcome' = [outcome EXCEPT ![t] = out]
        /\ cutOff' = IF cut THEN cutOff \cup {t} ELSE cutOff
    BY <1>5, <1>8 DEF q
  <2>2. out \in Seq(Nat)
    BY <1>3, <1>7, PrefixSeq
  <2>3. q.kind = "records" => AnswerOf(t, q, out, cutOff')
    <3> SUFFICES ASSUME q.kind = "records" PROVE AnswerOf(t, q, Prefix(got, q.limit), cutOff')
      OBVIOUS
    <3>1. all = ServedRows(q)
      BY DEF all, Served
    <3>2. cut \/ q.limit <= m \/ m = Len(all)
      BY <1>2, <1>4, <1>5, <1>7
    <3> HIDE DEF m, got, cut
    <3>3. CASE q.limit <= m \/ m = Len(all)
      <4>1. Prefix(SubSeq(all, 1, m), q.limit) = Prefix(all, q.limit)
        BY <1>3, <1>4, <1>6, <3>3, PrefixOfPart
      <4> QED BY <1>2, <1>7, <3>1, <4>1 DEF AnswerOf
    <3>4. CASE cut /\ ~(q.limit <= m)
      <4>1. m \in 0 .. q.limit /\ ~(q.limit < Len(got)) /\ Len(got) = m
        BY <1>3, <1>4, <1>6, <1>7, <3>4
      <4>2. Prefix(got, q.limit) = SubSeq(got, 1, m)
        BY <4>1 DEF Prefix
      <4>3. SubSeq(got, 1, m) = got
        BY <1>7, <4>1, SubSeqFull
      <4>4. Prefix(all, m) = SubSeq(all, 1, m)
        BY <1>4, <1>6 DEF Prefix
      <4>5. Prefix(got, q.limit) = Prefix(ServedRows(q), m)
        BY <1>7, <3>1, <4>2, <4>3, <4>4
      <4>6. t \in cutOff'
        BY <2>1, <3>4
      <4> QED BY <1>2, <4>1, <4>5, <4>6 DEF AnswerOf
    <3> QED BY <3>2, <3>3, <3>4
  <2> HIDE DEF out, cut
  <2>5. KeptAt(t, q, "answered", 0, <<>>, out, cutOff')
    BY <1>2, <2>3 DEF KeptAt, Working
  <2>6. cutOff' \in {cutOff, cutOff \cup {t}}
    BY <2>1
  <2> QED BY <2>1, <2>2, <2>5, <2>6, EndReads DEF q
<1>9. CASE ~(full \/ says # "more")
  <2>1. /\ cursor' = [cursor EXCEPT ![t] = m] /\ collected' = [collected EXCEPT ![t] = got]
        /\ UNCHANGED <<clock, tokenVars, pc, query, issued, held, outcome, cutOff, since, taken>>
    BY <1>5, <1>9 DEF q
  <2> HIDE DEF m, got
  <2>2. TypeOK'
    BY <1>2, <1>6, <1>7, <2>1 DEF RInv, TypeOK, tokenVars
  <2>3. ASSUME NEW u \in Callers PROVE Kept(u)'
    <3>1. CASE u # t
      <4>1. query'[u] = query[u] /\ pc'[u] = pc[u] /\ cursor'[u] = cursor[u]
            /\ collected'[u] = collected[u] /\ outcome'[u] = outcome[u] /\ cutOff' = cutOff
        BY <1>1, <2>1, <3>1
      <4> QED BY <4>1 DEF RInv, Kept
    <3>2. CASE u = t
      <4>1. query'[t] = q /\ pc'[t] = "paging" /\ cursor'[t] = m /\ collected'[t] = got
            /\ outcome'[t] = outcome[t]
        BY <1>1, <1>2, <2>1 DEF q
      <4>2. KeptAt(t, q, "paging", m, got, outcome[t], cutOff)
        BY <1>2, <1>6, <1>7 DEF KeptAt, Working, all
      <4> QED BY <2>1, <3>2, <4>1, <4>2 DEF Kept
    <3> QED BY <3>1, <3>2
  <2> QED BY <2>2, <2>3
<1> QED BY <1>8, <1>9

LEMMA FailReads ==
    ASSUME RInv, NEW t \in Callers, TokenRejected(t) \/ TransportFails(t)
    PROVE  TypeOK' /\ \A u \in Callers : Kept(u)'
<1>1. PICK place \in {"expired", "failed"} : End(t, place) /\ UNCHANGED <<outcome, cutOff>>
  BY DEF TokenRejected, TransportFails
<1>2. outcome \in [Callers -> Seq(Nat)]
  BY DEF RInv, TypeOK
<1>3. outcome' = [outcome EXCEPT ![t] = outcome[t]] /\ outcome[t] \in Seq(Nat)
  BY <1>1, <1>2
<1>4. KeptAt(t, query[t], place, 0, <<>>, outcome[t], cutOff')
  BY DEF KeptAt, Working
<1> QED BY <1>1, <1>3, <1>4, EndReads

LEMMA ReadStep == RInv /\ [Next]_vars => RInv'
<1> SUFFICES ASSUME RInv, [Next]_vars PROVE RInv'
  OBVIOUS
<1>1. IInv'
  BY NextInv DEF RInv
<1>2. CASE Tick
  <2>1. clock' \in Times
    BY <1>2, Numbers DEF Tick, RInv, TypeOK, Times
  <2>2. UNCHANGED <<tokenVars, threadVars>>
    BY <1>2 DEF Tick
  <2>3. TypeOK'
    BY <2>1, <2>2 DEF RInv, TypeOK, tokenVars, threadVars
  <2>4. \A u \in Callers : Kept(u)'
    BY <2>2 DEF RInv, Kept, threadVars
  <2> QED BY <1>1, <2>3, <2>4 DEF RInv
<1>3. ASSUME NEW t \in Callers, Ask(t) PROVE RInv'
  BY <1>1, <1>3, AskReads DEF RInv
<1>4. ASSUME NEW t \in Callers, Proceed(t) PROVE RInv'
  BY <1>1, <1>4, EnsureTokenReads, PageReads, FailReads DEF Proceed, RInv
<1>5. CASE UNCHANGED vars
  <2>1. TypeOK'
    BY <1>5 DEF RInv, TypeOK, vars, tokenVars, threadVars
  <2>2. \A u \in Callers : Kept(u)'
    BY <1>5 DEF RInv, Kept, vars, threadVars
  <2> QED BY <1>1, <2>1, <2>2 DEF RInv
<1> QED BY <1>2, <1>3, <1>4, <1>5 DEF Next

\* What the threads of feishu_bitable.py, tencent_docs.py and local_file.py hold:
\* a call that is not at its pages has no position and no rows of them left.
THEOREM ReadsAreTyped == Spec => []TypeOK
<1>1. RInv => TypeOK BY DEF RInv
<1> QED BY ReadInit, ReadStep, <1>1, PTL DEF Spec

\* The answer of query in feishu_bitable.py and tencent_docs.py is the rows that
\* the filters mean, from the first to the limit, for every table, every filter
\* that can be pushed down and every way the service cuts its pages; it is a part
\* of them, from the first on, only after a page that says more without a page_token.
THEOREM RemoteAnswersHold == Spec => []RemoteAnswersAreWhole
<1>1. ASSUME RInv PROVE RemoteAnswersAreWhole
  <2> DEFINE meant(q) == InOrder[{i \in DOMAIN Table : \A f \in q.filters : Satisfies(f, Table[i])}]
  <2> SUFFICES ASSUME NEW t \in Callers, pc[t] = "answered", query[t].kind = "records",
                      query[t].source # "file"
               PROVE  \/ outcome[t] = Prefix(meant(query[t]), query[t].limit)
                      \/ t \in cutOff /\ \E n \in 0 .. query[t].limit :
                                             outcome[t] = Prefix(meant(query[t]), n)
    BY DEF RemoteAnswersAreWhole
  <2>1. query[t] \in Queries[t] \cup {NoQuery} /\ Kept(t)
    BY <1>1 DEF RInv, TypeOK
  <2>2. /\ query[t] # NoQuery /\ ~Refuses(query[t])
        /\ AnswerOf(t, query[t], outcome[t], cutOff)
    BY <2>1 DEF Kept, KeptAt
  <2>3. QueryOK(query[t])
    BY <2>1, <2>2, QueryFacts
  <2>4. ServedRows(query[t]) = meant(query[t])
    BY <2>2, <2>3, ServedMeans
  <2> HIDE DEF meant
  <2> QED BY <2>2, <2>4 DEF AnswerOf
<1> QED BY ReadInit, ReadStep, <1>1, PTL DEF Spec

\* What the WHERE clause of sqlite_filter.py chooses from a file is what a service
\* is asked for, but for case, for filters on columns of the file that leave no
\* bound of a range blank and ask for no date_before.
THEOREM FileAnswersHold == Spec => []FileAnswersMeanTheSame
<1>1. ASSUME RInv PROVE FileAnswersMeanTheSame
  <2> SUFFICES ASSUME NEW t \in Callers, pc[t] = "answered", query[t].kind = "records",
                      query[t].source = "file", \A f \in query[t].filters : Alike(f)
               PROVE  outcome[t] = Prefix(InOrder[{i \in DOMAIN Table :
                          \A f \in query[t].filters : SatisfiesFolded(f, Table[i])}], query[t].limit)
    BY DEF FileAnswersMeanTheSame, Alike
  <2>1. query[t] \in Queries[t] \cup {NoQuery} /\ Kept(t)
    BY <1>1 DEF RInv, TypeOK
  <2>2. query[t] # NoQuery /\ outcome[t] = Prefix(FileRows(query[t]), query[t].limit)
    BY <2>1 DEF Kept, KeptAt, AnswerOf
  <2>3. QueryOK(query[t])
    BY <2>1, <2>2, QueryFacts
  <2> QED BY <2>2, <2>3, FileMeans
<1> QED BY ReadInit, ReadStep, <1>1, PTL DEF Spec
=============================================================================
