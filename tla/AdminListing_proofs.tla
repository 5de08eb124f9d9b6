------------------------- MODULE AdminListing_proofs -------------------------
(***************************************************************************)
(* Proofs about AdminListing, for any number of accounts, page size and    *)
(* searches.  An account that was there when the walk began and is alone   *)
(* with its created_at has, in every snapshot, a definite number of newer  *)
(* accounts before it; that number only grows.  So an account a page did   *)
(* not show is behind that page, and stays behind it.                      *)
(***************************************************************************)
EXTENDS AdminListing, FiniteSetTheorems, TLAPS

(* Who is listed before u, wherever the ties of the others go.             *)
Newer(u) == {v \in user_filters(walk.term) : created[v] > created[u]}

(* Where the next page to be answered starts.                              *)
Ahead == IF walk.at = "answered" THEN offset_for(walk.page + 1) ELSE offset_for(walk.page)

UnseenAreAhead ==
    \A u \in walk.known : Placed(u) /\ u \notin walk.shown => Cardinality(Newer(u)) >= Ahead

CountIsOld ==
    walk.at = "page" =>
        /\ walk.total <= Cardinality(user_filters(walk.term))
        /\ ~walk.late => walk.total = Cardinality(user_filters(walk.term))

IInv ==
    /\ TypeOK
    /\ walk # None => /\ walk.known \subseteq user_filters(walk.term)
                      /\ walk.at = "answered" /\ walk.items # <<>> =>
                             walk.page <= Cardinality(Users)
                      /\ walk.at # "answered" => walk.page <= Cardinality(Users) + 1
                      /\ CountIsOld
                      /\ UnseenAreAhead
    /\ PageHoldsWhatTotalPromises
    /\ NobodyMissed
    /\ TotalPagesSuffice

(***************************************************************************)
(* Numbers and sequences                                                   *)
(***************************************************************************)

LEMMA Multiples ==
    ASSUME NEW a \in Nat, NEW b \in Nat, NEW n \in Nat, a >= b
    PROVE  a * n >= b * n
<1>1. (a - b) * n >= 0
  <2>1. a - b \in Nat
    OBVIOUS
  <2>2. \A k \in Nat : k * n >= 0
    BY SMT
  <2>3. QED
    BY <2>1, <2>2
<1>2. a * n = b * n + (a - b) * n
  BY SMT
<1>3. a * n \in Int /\ b * n \in Int /\ (a - b) * n \in Int
  BY SMT
<1>4. QED
  BY <1>1, <1>2, <1>3

(* What paginate computes is rounded up.                                   *)
LEMMA TotalPagesCover ==
    ASSUME NEW total \in Nat, NEW page \in Nat, page >= total_pages(total)
    PROVE  page * Limit >= total
<1>1. Limit \in Nat \ {0}
  BY ConstantsOK
<1> DEFINE q == (total + Limit - 1) \div Limit
<1>2. q \in Nat /\ page >= q
  BY <1>1, SMT DEF total_pages
<1>3. q * Limit > total + Limit - 1 - Limit
  BY <1>1, SMT
<1>4. page * Limit >= q * Limit
  <2> HIDE DEF q
  <2>1. QED
    BY <1>1, <1>2, Multiples
<1> HIDE DEF q
<1>5. page * Limit \in Int /\ q * Limit \in Int
  BY <1>1, <1>2, SMT
<1>6. QED
  BY <1>1, <1>3, <1>4, <1>5

LEMMA Offsets ==
    ASSUME NEW page \in Nat \ {0}
    PROVE  /\ offset_for(page) \in Nat /\ offset_for(page + 1) = offset_for(page) + Limit
           /\ page - 1 <= offset_for(page) /\ offset_for(page + 1) = page * Limit
           /\ offset_for(1) = 0
<1>1. Limit \in Nat \ {0}
  BY ConstantsOK
<1>2. \A n \in Nat : n * Limit \in Nat /\ n <= n * Limit /\ (n + 1) * Limit = n * Limit + Limit
  BY <1>1, SMT
<1>3. page - 1 \in Nat /\ (page - 1) + 1 = page /\ (page + 1) - 1 = page
  OBVIOUS
<1>4. 0 * Limit = 0
  BY <1>1, SMT
<1>5. QED
  BY <1>2, <1>3, <1>4 DEF offset_for

(* LIMIT and OFFSET of a list.                                             *)
LEMMA SliceFacts ==
    ASSUME NEW S, NEW n \in Nat, NEW order \in [1..n -> S], NEW from \in Nat
    PROVE  /\ Slice(order, from) \in Seq(S) /\ Len(order) = n
           /\ Range(Slice(order, from)) \subseteq S
           /\ \/ Len(Slice(order, from)) = Limit /\ from + Limit <= n
              \/ Len(Slice(order, from)) = n - from /\ from < n /\ n < from + Limit
              \/ Len(Slice(order, from)) = 0 /\ n <= from
           /\ \A i \in 1..n : from < i /\ i <= from + Limit => order[i] \in Range(Slice(order, from))
<1> DEFINE to == Least(from + Limit, n)
           items == Slice(order, from)
<1>1. Limit \in Nat
  BY ConstantsOK
<1>2. order \in Seq(S) /\ Len(order) = n
  BY SMT
<1>2a. items = SubSeq(order, from + 1, to)
  BY <1>2 DEF Slice
<1> HIDE DEF items
<1>3. to \in Nat /\ to <= n /\ to <= from + Limit /\ (to = n \/ to = from + Limit)
  BY <1>1 DEF Least
<1> HIDE DEF to
<1>4. /\ items \in Seq(S)
      /\ Len(items) = IF from + 1 <= to THEN to - (from + 1) + 1 ELSE 0
      /\ \A i \in (from + 1)..to : items[i - (from + 1) + 1] = order[i]
  <2>1. /\ SubSeq(order, from + 1, to) \in Seq(S)
        /\ Len(SubSeq(order, from + 1, to)) = IF from + 1 <= to THEN to - (from + 1) + 1 ELSE 0
        /\ \A i \in (from + 1)..to : SubSeq(order, from + 1, to)[i - (from + 1) + 1] = order[i]
    BY <1>2, <1>3, SMT
  <2>2. QED
    BY <1>2a, <2>1
<1>5. \/ Len(items) = Limit /\ from + Limit <= n
      \/ Len(items) = n - from /\ from < n /\ n < from + Limit
      \/ Len(items) = 0 /\ n <= from
  BY <1>1, <1>3, <1>4 DEF to, Least
<1>6. ASSUME NEW i \in 1..n, from < i, i <= from + Limit PROVE order[i] \in Range(items)
  <2>1. i \in (from + 1)..to
    BY <1>1, <1>3, <1>6
  <2>2. items[i - (from + 1) + 1] = order[i] /\ i - (from + 1) + 1 \in 1..Len(items)
    BY <1>3, <1>4, <2>1
  <2>3. DOMAIN items = 1..Len(items)
    BY <1>4
  <2>4. QED
    BY <2>2, <2>3 DEF Range
<1>7. Range(items) \subseteq S
  <2>1. QED
    BY <1>4 DEF Range
<1>8. QED
  BY <1>2, <1>4, <1>5, <1>6, <1>7 DEF to, items

(* In any order by created_at, an account without its equal comes right    *)
(* after the newer ones.                                                   *)
LEMMA Rank ==
    ASSUME NEW F, IsFiniteSet(F), NEW age \in [F -> Nat], NEW order \in SetToSeqs(F),
           \A i, j \in 1..Cardinality(F) : i < j => age[order[i]] >= age[order[j]],
           NEW u \in F, \A v \in F \ {u} : age[v] # age[u]
    PROVE  \E i \in 1..Cardinality(F) :
               order[i] = u /\ Cardinality({v \in F : age[v] > age[u]}) = i - 1
<1> DEFINE n == Cardinality(F)
           N == {v \in F : age[v] > age[u]}
<1>1. n \in Nat
  BY FS_CardinalityType
<1>2. order \in [1..n -> F] /\ \A i, j \in 1..n : i # j => order[i] # order[j]
  BY DEF SetToSeqs
<1>3. \A v \in F : \E i \in 1..n : order[i] = v
  <2>1. order \in Injection(1..n, F)
    BY <1>2 DEF Injection, IsInjective
  <2>2. IsFiniteSet(1..n) /\ Cardinality(1..n) = n
    BY <1>1, FS_Interval
  <2>3. order \in Surjection(1..n, F)
    BY <2>1, <2>2, FS_Injection
  <2>4. QED
    BY <2>3 DEF Surjection
<1>4. PICK i \in 1..n : order[i] = u
  BY <1>3
<1> HIDE DEF n
<1> DEFINE g == [j \in 1..(i - 1) |-> order[j]]
<1>5. \A j \in 1..n : order[j] \in F /\ age[order[j]] \in Nat
  BY <1>2
<1>6. \A j \in 1..n : order[j] \in N <=> j < i
  <2>1. SUFFICES ASSUME NEW j \in 1..n PROVE order[j] \in N <=> j < i
    OBVIOUS
  <2>2. CASE j < i
    <3>1. age[order[j]] >= age[u] /\ order[j] # u
      BY <1>1, <1>2, <1>4, <2>2 DEF n
    <3>2. QED
      BY <1>1, <1>4, <1>5, <2>2, <3>1
  <2>3. CASE j = i
    BY <1>1, <1>4, <1>5, <2>3
  <2>4. CASE i < j
    <3>1. age[u] >= age[order[j]]
      BY <1>1, <1>2, <1>4, <2>4 DEF n
    <3>2. QED
      BY <1>1, <1>4, <1>5, <2>4, <3>1
  <2>5. QED
    BY <1>1, <2>2, <2>3, <2>4
<1>7. g \in Bijection(1..(i - 1), N)
  <2>1. g \in [1..(i - 1) -> N]
    BY <1>1, <1>6
  <2>2. \A j, k \in 1..(i - 1) : g[j] = g[k] => j = k
    BY <1>1, <1>2
  <2>3. \A v \in N : \E j \in 1..(i - 1) : g[j] = v
    BY <1>1, <1>3, <1>6
  <2>4. QED
    BY <2>1, <2>2, <2>3 DEF Bijection, Injection, Surjection, IsInjective
<1>8. i - 1 \in Nat /\ ExistsBijection(1..(i - 1), N)
  <2>1. i - 1 \in Nat
    BY <1>1
  <2> HIDE DEF g, N
  <2>2. ExistsBijection(1..(i - 1), N)
    BY <1>7 DEF ExistsBijection
  <2>3. QED
    BY <2>1, <2>2
<1>9. Cardinality(N) = i - 1
  BY <1>8, FS_CountingElements
<1>10. QED
  BY <1>4, <1>9 DEF n

(***************************************************************************)
(* Accounts only appear                                                    *)
(***************************************************************************)

LEMMA Finite ==
    ASSUME NEW T \in SUBSET Users
    PROVE  /\ IsFiniteSet(T) /\ Cardinality(T) \in Nat
           /\ Cardinality(T) <= Cardinality(Users) /\ Cardinality(Users) \in Nat
           /\ \A S \in SUBSET T : Cardinality(S) \in Nat /\ Cardinality(S) <= Cardinality(T)
<1>1. IsFiniteSet(T)
  BY ConstantsOK, FS_Subset
<1>2. QED
  BY <1>1, ConstantsOK, FS_Subset, FS_CardinalityType

LEMMA Listed == \A term : user_filters(term) \in SUBSET Users
<1>1. QED
  BY DEF user_filters, Committed

LEMMA InitIInv == Init => IInv
<1>1. SUFFICES ASSUME Init PROVE IInv
  OBVIOUS
<1>2. 0 \in Times
  BY ConstantsOK DEF Times
<1>3. TypeOK
  BY <1>1, <1>2 DEF Init, TypeOK
<1>4. QED
  BY <1>1, <1>3 DEF Init, IInv, PageHoldsWhatTotalPromises, NobodyMissed, TotalPagesSuffice

(* Neither the table nor the walk changes.                                 *)
LEMMA SameIInv ==
    ASSUME IInv, TypeOK', UNCHANGED <<created, walk>>
    PROVE  IInv'
<1>1. /\ Committed' = Committed /\ \A term : user_filters(term)' = user_filters(term)
      /\ \A u : (Placed(u)' <=> Placed(u)) /\ Newer(u)' = Newer(u)
      /\ Ahead' = Ahead
  BY DEF Committed, user_filters, Placed, Newer, Ahead
<1>2. walk # None => CountIsOld' /\ UnseenAreAhead'
  BY <1>1 DEF IInv, CountIsOld, UnseenAreAhead
<1>3. PageHoldsWhatTotalPromises' /\ NobodyMissed' /\ TotalPagesSuffice'
  BY <1>1 DEF IInv, PageHoldsWhatTotalPromises, NobodyMissed, TotalPagesSuffice
<1>4. QED
  BY <1>1, <1>2, <1>3 DEF IInv

LEMMA QuietIInv ==
    ASSUME IInv, \/ \E u \in Users : Begin(u) \/ Rollback(u)
                 \/ Tick
    PROVE  IInv'
<1>1. UNCHANGED <<created, walk>>
  BY DEF Begin, Rollback, Tick
<1>2. TypeOK'
  <2>1. now' \in Times /\ begun' \in [Users -> Times \cup {None}]
    BY ConstantsOK DEF IInv, TypeOK, Begin, Rollback, Tick, Times
  <2>2. \A u \in Users : begun'[u] = None \/ created[u] = None
    BY DEF IInv, TypeOK, Begin, Rollback, Tick
  <2>3. QED
    BY <1>1, <2>1, <2>2 DEF IInv, TypeOK
<1>3. QED
  BY <1>1, <1>2, SameIInv

(* A signup becomes visible, in front of the rows it is newer than and     *)
(* behind the others.                                                      *)
LEMMA CommitIInv ==
    ASSUME IInv, NEW u \in Users, Commit(u)
    PROVE  IInv'
<1>1. /\ begun[u] # None /\ created[u] = None /\ begun[u] \in Times
      /\ created' = [created EXCEPT ![u] = begun[u]]
      /\ \A v \in Committed : created'[v] = created[v]
  BY DEF IInv, TypeOK, Commit, Committed
<1>2. Committed \subseteq Committed'
  BY <1>1 DEF Committed
<1>3. \A term : user_filters(term) \subseteq user_filters(term)'
  BY <1>2 DEF user_filters
<1>4. \A v \in Committed : Placed(v)' => Placed(v)
  BY <1>1, <1>2 DEF Placed
<1>5. CASE walk = None
  <2>1. walk' = None
    BY <1>5 DEF Commit
  <2>2. TypeOK'
    BY <1>1, <2>1 DEF IInv, TypeOK, Commit
  <2>3. QED
    BY <2>1, <2>2 DEF IInv, PageHoldsWhatTotalPromises, NobodyMissed, TotalPagesSuffice
<1>6. CASE walk # None
  <2> DEFINE F == user_filters(walk.term)
             G == {v \in Committed' \ Staff : v \in Matches[walk.term]}
  <2>1. /\ walk' # None /\ walk' \in Walk /\ walk \in Walk
        /\ walk'.term = walk.term /\ walk'.at = walk.at /\ walk'.page = walk.page
        /\ walk'.known = walk.known /\ walk'.shown = walk.shown
        /\ walk'.total = walk.total /\ walk'.items = walk.items
        /\ walk.at # "page" => walk'.late = walk.late
        /\ walk.at = "page" => walk'.late = TRUE
    <3>1. walk \in Walk
      BY <1>6 DEF IInv, TypeOK
    <3>2. CASE walk.at = "page"
      <4>1. walk' = [walk EXCEPT !.late = TRUE]
        BY <1>6, <3>2 DEF Commit
      <4>2. walk' \in Walk
        BY <3>1, <4>1 DEF Walk
      <4>3. walk' # None
        BY <4>2, ConstantsOK
      <4>4. QED
        BY <3>1, <3>2, <4>1, <4>2, <4>3 DEF Walk
    <3>3. CASE walk.at # "page"
      BY <1>6, <3>1, <3>3 DEF Commit
    <3>4. QED
      BY <3>2, <3>3
  <2>2. TypeOK'
    <3>1. begun' \in [Users -> Times \cup {None}] /\ created' \in [Users -> Times \cup {None}]
      BY <1>1 DEF IInv, TypeOK, Commit
    <3>2. \A v \in Users : begun'[v] = None \/ created'[v] = None
      BY <1>1 DEF IInv, TypeOK, Commit
    <3>3. QED
      BY <1>6, <2>1, <3>1, <3>2 DEF IInv, TypeOK, Commit
  <2>3. /\ user_filters(walk.term)' = G /\ G \in SUBSET Users /\ F \in SUBSET G
        /\ F \subseteq Committed
    BY <1>2, <2>1 DEF user_filters, Committed
  <2>4. Cardinality(F) \in Nat /\ Cardinality(G) \in Nat /\ Cardinality(F) <= Cardinality(G)
    BY <2>3, Finite
  <2>5. CountIsOld'
    <3>1. walk.at = "page" => walk.total <= Cardinality(F)
      BY <1>6 DEF IInv, CountIsOld
    <3>2. walk.total \in Nat
      BY <2>1, Finite DEF Walk
    <3>3. QED
      BY <2>1, <2>3, <2>4, <3>1, <3>2 DEF CountIsOld
  <2>6. UnseenAreAhead'
    <3>1. SUFFICES ASSUME NEW v \in walk.known, Placed(v)', v \notin walk.shown
                   PROVE  Cardinality({x \in G : created'[x] > created'[v]}) >= Ahead
      BY <2>1, <2>3 DEF UnseenAreAhead, Newer, Ahead
    <3>2. v \in F /\ v \in Committed /\ Placed(v)
      BY <1>4, <1>6, <2>3, <3>1 DEF IInv
    <3>3. Cardinality(Newer(v)) >= Ahead
      BY <1>6, <3>1, <3>2 DEF IInv, UnseenAreAhead
    <3>4. Newer(v) \in SUBSET {x \in G : created'[x] > created'[v]}
      BY <1>1, <2>3, <3>2 DEF Newer
    <3>5. {x \in G : created'[x] > created'[v]} \in SUBSET Users
      BY <2>3
    <3>6. /\ Cardinality(Newer(v)) <= Cardinality({x \in G : created'[x] > created'[v]})
          /\ Cardinality(Newer(v)) \in Nat
          /\ Cardinality({x \in G : created'[x] > created'[v]}) \in Nat
      BY <3>4, <3>5, Finite
    <3>7. Ahead \in Nat
      <4>1. walk.page \in Nat \ {0} /\ walk.page + 1 \in Nat \ {0}
        BY <2>1, Finite DEF Walk
      <4>2. QED
        BY <4>1, Offsets DEF Ahead
    <3>8. QED
      BY <3>3, <3>6, <3>7
  <2>7. walk'.known \subseteq user_filters(walk.term)'
    BY <1>6, <2>1, <2>3 DEF IInv
  <2>8. PageHoldsWhatTotalPromises'
    BY <1>6, <2>1 DEF IInv, PageHoldsWhatTotalPromises
  <2>9. NobodyMissed' /\ TotalPagesSuffice'
    <3>1. \A v \in walk.known : Placed(v)' => Placed(v)
      BY <1>4, <1>6, <2>3 DEF IInv
    <3>2. NobodyMissed'
      BY <1>6, <2>1, <3>1 DEF IInv, NobodyMissed
    <3>3. TotalPagesSuffice'
      BY <1>6, <2>1, <3>1 DEF IInv, TotalPagesSuffice
    <3>4. QED
      BY <3>2, <3>3
  <2>10. QED
    BY <1>6, <2>1, <2>2, <2>5, <2>6, <2>7, <2>8, <2>9 DEF IInv
<1>7. QED
  BY <1>5, <1>6

(***************************************************************************)
(* The walk                                                                *)
(***************************************************************************)

(* The pages asked for are numbers, and so are the offsets.                *)
LEMMA WalkFacts ==
    ASSUME TypeOK, walk # None
    PROVE  /\ walk \in Walk /\ walk.page \in Nat \ {0} /\ walk.total \in Nat
           /\ walk.shown \in SUBSET Users /\ walk.known \in SUBSET Users
           /\ walk.term \in Searches /\ walk.items \in Seq(Users)
           /\ Cardinality(Users) \in Nat
<1>1. walk \in Walk
  BY DEF TypeOK
<1>2. Cardinality(Users) \in Nat
  BY Finite
<1>3. QED
  BY <1>1, <1>2 DEF Walk

(* The walk moves on, the accounts stay.                                   *)
LEMMA WalkTyped ==
    ASSUME TypeOK, UNCHANGED <<now, begun, created>>, walk' \in Walk,
           Range(walk'.items) \subseteq walk'.shown, walk'.shown \cap Staff = {}
    PROVE  TypeOK'
<1>1. QED
  BY DEF TypeOK

LEMMA StartWalkIInv ==
    ASSUME IInv, NEW term \in Searches, StartWalk(term)
    PROVE  IInv'
<1> DEFINE w == [term |-> term, at |-> "request", page |-> 1, known |-> user_filters(term),
                 shown |-> {}, total |-> 0, items |-> <<>>, late |-> FALSE]
<1>1. walk' = w /\ UNCHANGED <<now, begun, created>>
  BY DEF StartWalk
<1>2. w \in Walk
  <2>1. Cardinality(Users) \in Nat /\ user_filters(term) \in SUBSET Users
    BY Finite, Listed
  <2>2. QED
    BY <2>1 DEF Walk
<1>3. TypeOK'
  BY <1>1, <1>2, WalkTyped DEF IInv, Range
<1>4. walk' # None
  BY <1>1, <1>2, ConstantsOK
<1>5. \A u : Cardinality(Newer(u))' >= Ahead' \/ u \notin walk'.known
  <2>1. SUFFICES ASSUME NEW u PROVE Cardinality(Newer(u)') >= Ahead'
    OBVIOUS
  <2>2. Newer(u)' = {v \in user_filters(term) : created[v] > created[u]}
    BY <1>1 DEF Newer, user_filters, Committed
  <2>3. Newer(u)' \in SUBSET Users
    BY <2>2, Listed
  <2>4. Ahead' = 0
    BY <1>1, Offsets DEF Ahead
  <2>5. Cardinality(Newer(u)') \in Nat
    BY <2>3, Finite
  <2>6. QED
    BY <2>4, <2>5
<1>6. walk'.known \subseteq user_filters(walk.term)'
  BY <1>1 DEF user_filters, Committed
<1>7. UnseenAreAhead' /\ CountIsOld'
  BY <1>1, <1>5 DEF UnseenAreAhead, CountIsOld
<1>8. walk'.page <= Cardinality(Users) + 1
  BY <1>1, Finite
<1>9. QED
  BY <1>1, <1>3, <1>6, <1>7, <1>8
     DEF IInv, PageHoldsWhatTotalPromises, NobodyMissed, TotalPagesSuffice

LEMMA CountIInv ==
    ASSUME IInv, Count
    PROVE  IInv'
<1> DEFINE n == Cardinality(user_filters(walk.term))
           w == [walk EXCEPT !.at = "page", !.late = FALSE, !.total = n]
<1>1. walk # None /\ walk.at = "request" /\ walk' = w /\ UNCHANGED <<now, begun, created>>
  BY DEF Count
<1>2. walk \in Walk /\ walk.page \in Nat \ {0}
  BY <1>1, WalkFacts DEF IInv
<1>3. n \in 0..Cardinality(Users) /\ n \in Nat
  BY Listed, Finite
<1> HIDE DEF n
<1>4. /\ w \in Walk /\ w.at = "page" /\ w.late = FALSE /\ w.total = n /\ w.term = walk.term
      /\ w.page = walk.page /\ w.known = walk.known /\ w.shown = walk.shown
      /\ w.items = walk.items
  BY <1>2, <1>3 DEF Walk
<1> HIDE DEF w
<1>6. TypeOK'
  BY <1>1, <1>4, WalkTyped DEF IInv, TypeOK
<1>7. /\ user_filters(walk.term)' = user_filters(walk.term)
      /\ \A u : (Placed(u)' <=> Placed(u)) /\ Newer(u)' = Newer(u)
      /\ Ahead' = Ahead
  BY <1>1, <1>4 DEF Placed, Newer, user_filters, Committed, Ahead
<1>8. CountIsOld'
  BY <1>1, <1>3, <1>4, <1>7 DEF CountIsOld, n
<1>9. UnseenAreAhead'
  BY <1>1, <1>4, <1>7 DEF IInv, UnseenAreAhead
<1>10. QED
  BY <1>1, <1>4, <1>6, <1>7, <1>8, <1>9
     DEF IInv, PageHoldsWhatTotalPromises, NobodyMissed, TotalPagesSuffice

LEMMA NextPageIInv ==
    ASSUME IInv, NextPage
    PROVE  IInv'
<1> DEFINE k == walk.page + 1
           w == [walk EXCEPT !.at = "request", !.page = k]
<1>1. /\ walk # None /\ walk.at = "answered" /\ walk.items # <<>> /\ walk' = w
      /\ UNCHANGED <<now, begun, created>>
  BY DEF NextPage
<1>2. walk \in Walk /\ walk.page \in Nat \ {0} /\ Cardinality(Users) \in Nat
  BY <1>1, WalkFacts DEF IInv
<1>3. walk.page <= Cardinality(Users)
  BY <1>1 DEF IInv
<1>4. k \in 1..(Cardinality(Users) + 1) /\ k = walk.page + 1
  BY <1>2, <1>3
<1> HIDE DEF k
<1>5. /\ w \in Walk /\ w.at = "request" /\ w.term = walk.term /\ w.page = k
      /\ w.known = walk.known /\ w.shown = walk.shown /\ w.items = walk.items
  BY <1>2, <1>4 DEF Walk
<1> HIDE DEF w
<1>6. TypeOK'
  BY <1>1, <1>5, WalkTyped DEF IInv, TypeOK
<1>7. /\ user_filters(walk.term)' = user_filters(walk.term)
      /\ \A u : (Placed(u)' <=> Placed(u)) /\ Newer(u)' = Newer(u)
      /\ Ahead' = Ahead
  BY <1>1, <1>4, <1>5 DEF Placed, Newer, user_filters, Committed, Ahead
<1>8. UnseenAreAhead' /\ CountIsOld'
  BY <1>1, <1>5, <1>7 DEF IInv, UnseenAreAhead, CountIsOld
<1>9. walk'.page <= Cardinality(Users) + 1
  BY <1>1, <1>4, <1>5
<1>10. QED
  BY <1>1, <1>5, <1>6, <1>7, <1>8, <1>9
     DEF IInv, PageHoldsWhatTotalPromises, NobodyMissed, TotalPagesSuffice

LEMMA EndWalkIInv ==
    ASSUME IInv, EndWalk
    PROVE  IInv'
<1>1. walk' = None /\ UNCHANGED <<now, begun, created>>
  BY DEF EndWalk
<1>2. TypeOK'
  BY <1>1 DEF IInv, TypeOK
<1>3. QED
  BY <1>1, <1>2 DEF IInv, PageHoldsWhatTotalPromises, NobodyMissed, TotalPagesSuffice

(* A page: who is still unseen after it comes behind it.                   *)
LEMMA PageIInv ==
    ASSUME IInv, Page
    PROVE  IInv'
<1> DEFINE F == user_filters(walk.term)
           n == Cardinality(F)
           from == offset_for(walk.page)
<1>1. PICK order \in SetToSeqs(F) :
          LET items == Slice(order, from)
          IN  /\ Sorted(order)
              /\ walk' = [walk EXCEPT !.at = "answered", !.items = items,
                                      !.shown = @ \cup Range(items)]
  BY DEF Page
<1> DEFINE items == Slice(order, from)
           w == [walk EXCEPT !.at = "answered", !.items = items, !.shown = @ \cup Range(items)]
<1>2. /\ walk # None /\ walk.at = "page" /\ walk' = w /\ Sorted(order)
      /\ UNCHANGED <<now, begun, created>>
  BY <1>1 DEF Page
<1>3. /\ walk \in Walk /\ walk.page \in Nat \ {0} /\ walk.total \in Nat
      /\ Cardinality(Users) \in Nat
  BY <1>2, WalkFacts DEF IInv
<1>4. F \in SUBSET Users /\ IsFiniteSet(F) /\ n \in Nat /\ n <= Cardinality(Users)
  BY Listed, Finite
<1>5. /\ from \in Nat /\ offset_for(walk.page + 1) = from + Limit /\ Limit \in Nat \ {0}
      /\ walk.page - 1 <= from /\ from + Limit = walk.page * Limit
  BY <1>3, Offsets, ConstantsOK
<1>6. order \in [1..n -> F]
  BY DEF SetToSeqs
<1>7. F \cap Staff = {}
  BY DEF user_filters
<1> HIDE DEF F, n, from
<1>8. /\ items \in Seq(F) /\ Len(order) = n /\ Range(items) \subseteq F
      /\ \/ Len(items) = Limit /\ from + Limit <= n
         \/ Len(items) = n - from /\ from < n /\ n < from + Limit
         \/ Len(items) = 0 /\ n <= from
      /\ \A i \in 1..n : from < i /\ i <= from + Limit => order[i] \in Range(items)
  <2> HIDE DEF items
  <2>1. n \in Nat /\ order \in [1..n -> F] /\ from \in Nat
    BY <1>4, <1>5, <1>6
  <2>2. Slice(order, from) \in Seq(F)
    BY <2>1, SliceFacts
  <2>3. Range(Slice(order, from)) \subseteq F
    BY <2>1, SliceFacts
  <2>4. Len(order) = n
    BY <2>1, SliceFacts
  <2>5. \/ Len(Slice(order, from)) = Limit /\ from + Limit <= n
        \/ Len(Slice(order, from)) = n - from /\ from < n /\ n < from + Limit
        \/ Len(Slice(order, from)) = 0 /\ n <= from
    BY <2>1, SliceFacts
  <2>6. \A i \in 1..n : from < i /\ i <= from + Limit => order[i] \in Range(Slice(order, from))
    BY <2>1, SliceFacts
  <2>7. QED
    BY <2>2, <2>3, <2>4, <2>5, <2>6 DEF items
<1> HIDE DEF items
<1>9. items \in Seq(Users) /\ Range(items) \subseteq Users /\ Len(items) \in Nat
  BY <1>4, <1>8
<1>10. /\ w \in Walk /\ w.at = "answered" /\ w.term = walk.term /\ w.page = walk.page
       /\ w.known = walk.known /\ w.shown = walk.shown \cup Range(items) /\ w.items = items
       /\ w.total = walk.total /\ w.late = walk.late
  BY <1>3, <1>9 DEF Walk
<1> HIDE DEF w
<1>11. TypeOK'
  <2>1. walk.shown \cap Staff = {}
    BY <1>2 DEF IInv, TypeOK
  <2>2. QED
    BY <1>2, <1>7, <1>8, <1>10, <2>1, WalkTyped DEF IInv
<1>12. /\ user_filters(walk.term)' = F
       /\ \A u : (Placed(u)' <=> Placed(u)) /\ Newer(u)' = Newer(u)
       /\ Ahead = from /\ Ahead' = from + Limit
  BY <1>2, <1>5, <1>10 DEF F, from, Placed, Newer, user_filters, Committed, Ahead
<1>13. walk.total <= n /\ (~walk.late => walk.total = n)
  BY <1>2 DEF IInv, CountIsOld, n, F
<1>14. ASSUME NEW u \in walk.known, Placed(u), u \notin w.shown
       PROVE  \E i \in 1..n : i > from + Limit /\ Cardinality(Newer(u)) = i - 1
  <2>1. u \in F /\ u \notin walk.shown /\ u \notin Range(items)
    BY <1>2, <1>10, <1>14 DEF IInv, F
  <2>2. Cardinality(Newer(u)) >= from
    BY <1>2, <1>12, <1>14, <2>1 DEF IInv, UnseenAreAhead
  <2> DEFINE age == [v \in F |-> created[v]]
  <2>3. /\ age \in [F -> Nat] /\ \A v \in F : age[v] = created[v]
        /\ F \subseteq Committed
    <3>1. \A v \in F : v \in Committed /\ v \in Users
      BY DEF F, user_filters, Committed
    <3>2. \A v \in F : created[v] \in Nat
      BY <3>1, ConstantsOK DEF IInv, TypeOK, Times, Committed
    <3>3. QED
      BY <3>1, <3>2
  <2> HIDE DEF age
  <2>4. \A i, j \in 1..Cardinality(F) : i < j => age[order[i]] >= age[order[j]]
    BY <1>2, <1>6, <2>3 DEF Sorted, n
  <2>5. \A v \in F \ {u} : age[v] # age[u]
    BY <1>14, <2>1, <2>3 DEF Placed
  <2>6. PICK i \in 1..Cardinality(F) :
            order[i] = u /\ Cardinality({v \in F : age[v] > age[u]}) = i - 1
    BY <1>4, <2>1, <2>3, <2>4, <2>5, Rank
  <2>7. {v \in F : age[v] > age[u]} = Newer(u)
    BY <2>1, <2>3 DEF Newer, F
  <2>8. i \in 1..n /\ order[i] = u /\ Cardinality(Newer(u)) = i - 1
    BY <2>6, <2>7 DEF n
  <2>9. from < i
    BY <1>4, <1>5, <2>2, <2>8
  <2>10. ~(i <= from + Limit)
    BY <1>8, <2>1, <2>8, <2>9
  <2>11. QED
    BY <1>4, <1>5, <2>8, <2>10
<1>15. UnseenAreAhead' /\ CountIsOld'
  <2>1. CountIsOld'
    BY <1>2, <1>10 DEF CountIsOld
  <2>2. \A u \in walk.known : Placed(u) /\ u \notin w.shown =>
            Cardinality(Newer(u)) >= from + Limit
    BY <1>4, <1>5, <1>14
  <2>3. QED
    BY <1>2, <1>10, <1>12, <2>1, <2>2 DEF UnseenAreAhead
<1>16. PageHoldsWhatTotalPromises'
  <2>1. Len(items) >= Least(Limit, Max0(walk.total, from))
    BY <1>3, <1>4, <1>5, <1>8, <1>13 DEF Least, Max0
  <2>2. QED
    BY <1>2, <1>10, <2>1 DEF PageHoldsWhatTotalPromises, from
<1>17. NobodyMissed'
  <2>1. ASSUME items = <<>>, NEW u \in walk.known, Placed(u) PROVE u \in w.shown
    <3>1. SUFFICES ASSUME u \notin w.shown PROVE FALSE
      OBVIOUS
    <3>2. PICK i \in 1..n : i > from + Limit
      BY <1>14, <2>1, <3>1
    <3>3. Len(items) = 0
      BY <2>1
    <3>4. QED
      BY <1>4, <1>5, <1>8, <3>2, <3>3 DEF Least, Max0
  <2>2. QED
    BY <1>2, <1>10, <1>12, <2>1 DEF NobodyMissed
<1>18. TotalPagesSuffice'
  <2>1. ASSUME walk.page >= total_pages(walk.total), ~walk.late,
               NEW u \in walk.known, Placed(u)
        PROVE  u \in w.shown
    <3>1. SUFFICES ASSUME u \notin w.shown PROVE FALSE
      OBVIOUS
    <3>2. PICK i \in 1..n : i > from + Limit
      BY <1>14, <2>1, <3>1
    <3>3. from + Limit >= walk.total /\ walk.total = n
      BY <1>3, <1>5, <1>13, <2>1, TotalPagesCover
    <3>4. QED
      BY <1>4, <1>5, <3>2, <3>3
  <2>2. QED
    BY <1>2, <1>10, <1>12, <2>1 DEF TotalPagesSuffice
<1>19. w.items # <<>> => w.page <= Cardinality(Users)
  <2>1. SUFFICES ASSUME items # <<>> PROVE walk.page <= Cardinality(Users)
    BY <1>10
  <2>2. Len(items) > 0
    BY <1>9, <2>1
  <2>3. from < n
    BY <1>4, <1>5, <1>8, <2>2 DEF Least, Max0
  <2>4. QED
    BY <1>3, <1>4, <1>5, <2>3
<1>20. walk'.known \subseteq user_filters(walk.term)'
  BY <1>2, <1>10, <1>12 DEF IInv, F
<1>21. QED
  BY <1>2, <1>10, <1>11, <1>15, <1>16, <1>17, <1>18, <1>19, <1>20 DEF IInv

(***************************************************************************)
(* The theorems                                                            *)
(***************************************************************************)

LEMMA StepIInv == IInv /\ [Next]_vars => IInv'
<1>1. SUFFICES ASSUME IInv, [Next]_vars PROVE IInv'
  OBVIOUS
<1>2. CASE UNCHANGED vars
  BY <1>1, <1>2, SameIInv DEF vars, IInv, TypeOK
<1>3. QED
  BY <1>1, <1>2, QuietIInv, CommitIInv, StartWalkIInv, CountIInv, PageIInv, NextPageIInv,
     EndWalkIInv DEF Next

THEOREM Invariant == Spec => []IInv
<1>1. QED
  BY InitIInv, StepIInv, PTL DEF Spec

(* Types; the page number of a client that stops at an empty page is       *)
(* bounded, and staff are never listed.                                    *)
THEOREM TypeCorrect == Spec => []TypeOK
<1>1. IInv => TypeOK
  BY DEF IInv
<1>2. QED
  BY <1>1, Invariant, PTL

(* The total never promises more than the page holds (paginate's two       *)
(* statements, in this order).                                             *)
THEOREM TotalsAreHonest == Spec => []PageHoldsWhatTotalPromises
<1>1. IInv => PageHoldsWhatTotalPromises
  BY DEF IInv
<1>2. QED
  BY <1>1, Invariant, PTL

(* A walk up to an empty page misses nobody who was there when it began.   *)
THEOREM WalksAreComplete == Spec => []NobodyMissed
<1>1. IInv => NobodyMissed
  BY DEF IInv
<1>2. QED
  BY <1>1, Invariant, PTL

(* Neither does one up to total_pages, if the last count still holds at    *)
(* its page.                                                               *)
THEOREM TotalPagesAreEnough == Spec => []TotalPagesSuffice
<1>1. IInv => TotalPagesSuffice
  BY DEF IInv
<1>2. QED
  BY <1>1, Invariant, PTL
=============================================================================
