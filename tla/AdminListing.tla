---------------------------- MODULE AdminListing ----------------------------
(***************************************************************************)
(* GET /admin/users (app/modules/admin, app/core/pagination.py): a staff   *)
(* client walks the pages of the accounts with role USER while people sign *)
(* up.  Each answer takes two statements, the count and the page, each     *)
(* with a snapshot of its own; the pages of a walk are separate requests.  *)
(*                                                                         *)
(* created_at is the time a signup's transaction began; the row appears    *)
(* when it commits, so it may appear behind rows that are newer.  No code  *)
(* deletes an account, or changes its role or what a search looks at.      *)
(***************************************************************************)
EXTENDS Naturals, FiniteSets, SequencesExt

CONSTANTS
    Users,    \* primary keys
    Staff,    \* those of them created with role ADMIN or SUPER_ADMIN
    Searches, \* search texts, the blank one included
    Matches,  \* whose email, name or phone number contains a text
    Limit,    \* accounts on a page
    MaxTime,  \* bound on the clock
    None

Max0(a, b) == IF a > b THEN a - b ELSE 0 \* a - b, not below 0
Least(a, b) == IF a < b THEN a ELSE b

VARIABLES
    now,     \* the clock
    begun,   \* users -> start of the transaction that inserts the row, or None
    created, \* users -> created_at of the committed row, or None
    walk     \* the client's walk over the pages, None before it

vars == <<now, begun, created, walk>>

Times == 0..MaxTime

(* page: the one asked for; done: the pages answered.  known: committed    *)
(* when the walk began.  total: the last count; late: something was        *)
(* committed between that count and its page; items: the last page.        *)
Walk == [term : Searches, at : {"request", "page", "answered"}, page : 1..(Cardinality(Users) + 1),
         known : SUBSET Users, shown : SUBSET Users, total : 0..Cardinality(Users),
         items : Seq(Users), late : BOOLEAN]

ASSUME ConstantsOK ==
    /\ Staff \subseteq Users /\ IsFiniteSet(Users) /\ None \notin Nat \cup Walk
    /\ Matches \in [Searches -> SUBSET Users]
    /\ Limit \in Nat \ {0} /\ MaxTime \in Nat

Init ==
    /\ now = 0
    /\ begun = [u \in Users |-> None]
    /\ created = [u \in Users |-> None]
    /\ walk = None

Committed == {u \in Users : created[u] # None}

(* Mutation: everybody is listed.                                          *)
user_filters_Everybody(term) == {u \in Committed : u \in Matches[term]}

(* role = USER and, unless the text is blank, one of three ILIKEs.         *)
user_filters(term) == {u \in Committed \ Staff : u \in Matches[term]}

offset_for(page) == (page - 1) * Limit

(* Mutation: rounded down.                                                 *)
total_pages_Floor(total) == total \div Limit

(* ceil(total_count / limit)                                               *)
total_pages(total) == (total + Limit - 1) \div Limit

-----------------------------------------------------------------------------
(* A signup, first Google login or starting process.                       *)
Begin(u) ==
    /\ begun[u] = None /\ created[u] = None
    /\ begun' = [begun EXCEPT ![u] = now]
    /\ UNCHANGED <<now, created, walk>>

Commit(u) ==
    /\ begun[u] # None
    /\ created' = [created EXCEPT ![u] = begun[u]]
    /\ begun' = [begun EXCEPT ![u] = None]
    /\ walk' = IF walk # None /\ walk.at = "page" THEN [walk EXCEPT !.late = TRUE] ELSE walk
    /\ UNCHANGED now

Rollback(u) ==
    /\ begun[u] # None
    /\ begun' = [begun EXCEPT ![u] = None]
    /\ UNCHANGED <<now, created, walk>>

StartWalk(term) ==
    /\ walk = None
    /\ walk' = [term |-> term, at |-> "request", page |-> 1, known |-> user_filters(term),
                shown |-> {}, total |-> 0, items |-> <<>>, late |-> FALSE]
    /\ UNCHANGED <<now, begun, created>>

(* Mutation: the count forgets the filters.                                *)
Count_Everybody ==
    /\ walk # None /\ walk.at = "request"
    /\ walk' = [walk EXCEPT !.at = "page", !.late = FALSE, !.total = Cardinality(Committed)]
    /\ UNCHANGED <<now, begun, created>>

(* The first statement: how many there are.                                *)
Count ==
    /\ walk # None /\ walk.at = "request"
    /\ walk' = [walk EXCEPT !.at = "page", !.late = FALSE,
                            !.total = Cardinality(user_filters(walk.term))]
    /\ UNCHANGED <<now, begun, created>>

(* Mutation: no ORDER BY.                                                  *)
Sorted_Anyhow(order) == TRUE

(* ORDER BY created_at DESC: any order among equals.                       *)
Sorted(order) == \A i, j \in DOMAIN order : i < j => created[order[i]] >= created[order[j]]

(* OFFSET and LIMIT.                                                       *)
Slice(order, from) == SubSeq(order, from + 1, Least(from + Limit, Len(order)))

(* SELECT ... LIMIT OFFSET, and the answer.                                *)
Page ==
    /\ walk # None /\ walk.at = "page"
    /\ \E order \in SetToSeqs(user_filters(walk.term)) :
           /\ Sorted(order)
           /\ LET items == Slice(order, offset_for(walk.page))
              IN  walk' = [walk EXCEPT !.at = "answered", !.items = items,
                                       !.shown = @ \cup Range(items)]
    /\ UNCHANGED <<now, begun, created>>

(* The client goes on while a page is not empty.                           *)
NextPage ==
    /\ walk # None /\ walk.at = "answered" /\ walk.items # <<>>
    /\ walk' = [walk EXCEPT !.at = "request", !.page = @ + 1]
    /\ UNCHANGED <<now, begun, created>>

(* The walk is over or given up, for instance because the session ended.   *)
EndWalk ==
    /\ walk # None
    /\ walk' = None
    /\ UNCHANGED <<now, begun, created>>

Tick ==
    /\ now < MaxTime
    /\ now' = now + 1
    /\ UNCHANGED <<begun, created, walk>>

Next ==
    \/ \E u \in Users : Begin(u) \/ Commit(u) \/ Rollback(u)
    \/ \E term \in Searches : StartWalk(term)
    \/ Count \/ Page \/ NextPage \/ EndWalk \/ Tick

Spec == Init /\ [][Next]_vars

-----------------------------------------------------------------------------
(* Types, and nobody is both on the way and there, nor shown who is staff. *)
TypeOK ==
    /\ now \in Times
    /\ begun \in [Users -> Times \cup {None}]
    /\ created \in [Users -> Times \cup {None}]
    /\ \A u \in Users : begun[u] = None \/ created[u] = None
    /\ walk \in Walk \cup {None}
    /\ walk # None => Range(walk.items) \subseteq walk.shown /\ walk.shown \cap Staff = {}

(* Alone with its created_at: the only accounts with a definite position.  *)
Placed(u) == \A v \in Committed \ {u} : created[v] # created[u]

(* The answer's total never promises more than its items hold: the page is *)
(* read after the count, and accounts only appear.                         *)
PageHoldsWhatTotalPromises ==
    walk # None /\ walk.at = "answered" =>
        Len(walk.items) >= Least(Limit, Max0(walk.total, offset_for(walk.page)))

(* A client that goes on to an empty page has seen everybody who was there *)
(* when it began, whoever signs up or commits late in the meantime: rows   *)
(* are pushed towards pages still to be read, never to earlier ones.       *)
NobodyMissed ==
    walk # None /\ walk.at = "answered" /\ walk.items = <<>> =>
        \A u \in walk.known : Placed(u) => u \in walk.shown

(* A client that stops at total_pages has too, unless an account was       *)
(* committed between the count and the page of the last answer.            *)
TotalPagesSuffice ==
    walk # None /\ walk.at = "answered" /\ walk.page >= total_pages(walk.total) /\ ~walk.late =>
        \A u \in walk.known : Placed(u) => u \in walk.shown
=============================================================================
