-------------------------------- MODULE Page --------------------------------
(***************************************************************************)
(* pkg/page between a client that walks a listing page by page, or asks    *)
(* for one page of its choice, and a table that other clients change       *)
(* meanwhile.  The handler is the one of the package comment: normalise,   *)
(* list with Offset and Limit, build the Result, map it to the API's type. *)
(*                                                                         *)
(* The repository's List (external) is two queries, a count and a select   *)
(* ordered by id, in either order and with no transaction around them.     *)
(* Numbers are the wrapping integers of GoInt.                             *)
(***************************************************************************)
EXTENDS GoInt, Sequences

CONSTANTS
    DefaultPageSize,
    MaxPageSize,
    Sizes,          \* page sizes clients send
    Numbers,        \* page numbers of clients that ask for one page
    MaxDeletes      \* bound on the rows deleted during the walk

MaxInt == 2^(W - 1) - 1

ASSUME PageAssumption ==
    /\ DefaultPageSize \in 1 .. MaxPageSize /\ MaxPageSize \in 1 .. MaxInt
    /\ Sizes \subseteq -MaxInt .. MaxInt /\ Numbers \subseteq -MaxInt .. MaxInt
    /\ MaxDeletes \in Nat

VARIABLES
    table,      \* ids of the rows, in order
    fresh,      \* the next row's id
    deletes,    \* rows deleted since the walk began
    start,      \* rows that were there when the walk began
    walking,    \* the client goes on to the next page
    ask,        \* the client's request, a Param
    pc,         \* "ask", "list", "denied" or "done"
    list,       \* what the select returned
    total,      \* what the count returned
    result,     \* the last Result the client got
    seen        \* what the client has been given so far

vars == <<table, fresh, deletes, start, walking, ask, pc, list, total, result, seen>>

None == <<>>    \* a query that has not run; <<r>> is one that returned r

\* Empty: the answer of a guard that short-circuits the queries.
Empty == [total |-> 0, pages |-> 0, list |-> <<>>]

Init ==
    /\ \E n \in 0 .. MaxInt : table = [i \in 1 .. n |-> i] /\ fresh = n + 1
    /\ deletes = 0
    /\ start = table
    /\ walking \in BOOLEAN
    /\ ask \in [no : IF walking THEN {1} ELSE Numbers, size : Sizes]
    /\ pc = "ask"
    /\ list = None
    /\ total = None
    /\ result = Empty
    /\ seen = <<>>

-----------------------------------------------------------------------------
(* pkg/page                                                                *)

\* A clamp that comes before the default.
NormalizeNoCap(p) ==
    [no |-> IF p.no < 1 THEN 1 ELSE p.no,
     size |-> IF p.size <= 0 THEN DefaultPageSize ELSE p.size]

\* Param.Normalize
Normalize(p) ==
    [no |-> IF p.no < 1 THEN 1 ELSE p.no,
     size |-> CASE p.size <= 0 -> DefaultPageSize
                [] p.size > MaxPageSize -> MaxPageSize
                [] OTHER -> p.size]

\* Pages that share a row.
OffsetOneEarly(p) ==
    LET n == Normalize(p) IN IF n.no = 1 THEN 0 ELSE Wrap((n.no - 1) * n.size - 1)

\* Param.Offset
Offset(p) == LET n == Normalize(p) IN Wrap((n.no - 1) * n.size)

\* Param.Limit
Limit(p) == Normalize(p).size

\* Rounding up by adding first.
NewAddFirst(l, t, pageSize) ==
    LET size == IF pageSize <= 0 THEN 1 ELSE pageSize
    IN  [total |-> t, list |-> l, pages |-> Wrap(t + (size - 1)) \div size]

\* New: pages of the size used, the last one perhaps partly filled.
New(l, t, pageSize) ==
    LET size == IF pageSize <= 0 THEN 1 ELSE pageSize
    IN  [total |-> t, list |-> l,
         pages |-> (t \div size) + (IF t % size # 0 THEN 1 ELSE 0)]

\* The API's row type; the conversion is the caller's.
DTO(id) == [id |-> id]

\* Map with the conversion DTO: the same totals around converted rows.
Map(r) == [r EXCEPT !.list = [i \in DOMAIN r.list |-> DTO(r.list[i])]]

-----------------------------------------------------------------------------
\* The request reaches the handler.
Request ==
    /\ pc = "ask"
    /\ pc' = "list"
    /\ list' = None /\ total' = None
    /\ UNCHANGED <<table, fresh, deletes, start, walking, ask, result, seen>>

\* A guard of the handler answers with Empty instead.
Deny ==
    /\ pc = "ask" /\ seen = <<>>
    /\ pc' = "denied"
    /\ result' = Empty
    /\ UNCHANGED <<table, fresh, deletes, start, walking, ask, list, total, seen>>

\* SELECT ... ORDER BY id LIMIT Limit OFFSET Offset; a negative offset is an error.
Select ==
    /\ pc = "list" /\ list = None
    /\ Offset(ask) >= 0
    /\ LET end == Offset(ask) + Limit(ask)
       IN  list' = <<SubSeq(table, Offset(ask) + 1, IF end <= Len(table) THEN end ELSE Len(table))>>
    /\ UNCHANGED <<table, fresh, deletes, start, walking, ask, pc, total, result, seen>>

SelectFails ==
    /\ pc = "list" /\ list = None
    /\ Offset(ask) < 0
    /\ pc' = "denied"
    /\ UNCHANGED <<table, fresh, deletes, start, walking, ask, list, total, result, seen>>

Count ==
    /\ pc = "list" /\ total = None
    /\ total' = <<Len(table)>>
    /\ UNCHANGED <<table, fresh, deletes, start, walking, ask, pc, list, result, seen>>

\* The handler answers; a walking client asks for the next page while there
\* is one.
Respond ==
    /\ pc = "list" /\ None \notin {list, total}
    /\ result' = Map(New(list[1], total[1], Limit(ask)))
    /\ seen' = seen \o result'.list
    /\ IF walking /\ ask.no < result'.pages
       THEN ask' = [ask EXCEPT !.no = @ + 1] /\ pc' = "ask"
       ELSE pc' = "done" /\ UNCHANGED ask
    /\ UNCHANGED <<table, fresh, deletes, start, walking, list, total>>

\* Other clients (external).
Insert ==
    /\ pc \in {"ask", "list"}
    /\ fresh <= MaxInt /\ Len(table) < MaxInt
    /\ table' = Append(table, fresh)
    /\ fresh' = fresh + 1
    /\ UNCHANGED <<deletes, start, walking, ask, pc, list, total, result, seen>>

Delete(i) ==
    /\ pc \in {"ask", "list"}
    /\ deletes < MaxDeletes
    /\ deletes' = deletes + 1
    /\ table' = SubSeq(table, 1, i - 1) \o SubSeq(table, i + 1, Len(table))
    /\ UNCHANGED <<fresh, start, walking, ask, pc, list, total, result, seen>>

Next ==
    \/ Request \/ Deny \/ Select \/ SelectFails \/ Count \/ Respond \/ Insert
    \/ \E i \in DOMAIN table : Delete(i)

Spec == Init /\ [][Next]_vars

-----------------------------------------------------------------------------
\* A client that follows Pages is given no row twice, whatever is inserted or
\* deleted between its requests and between the two queries of each.
NoRowTwice == \A i, j \in DOMAIN seen : seen[i] = seen[j] => i = j

\* A walk that has ended has returned every row that was there when it began
\* (unless rows were deleted, which shifts the later ones), up to tables as
\* large as an int64 can count.
WalkComplete ==
    walking /\ pc = "done" /\ deletes = 0 =>
        \A i \in DOMAIN start : \E j \in DOMAIN seen : seen[j] = DTO(start[i])

\* An answer never holds more than MaxPageSize rows, and with an unchanged
\* table and an offset an int64 can hold it is the page that was asked for.
PageExact ==
    pc = "done" /\ ~ walking =>
        LET size == CASE ask.size <= 0 -> DefaultPageSize
                      [] ask.size >= MaxPageSize -> MaxPageSize
                      [] OTHER -> ask.size
            first == IF ask.no <= 1 THEN 0 ELSE (ask.no - 1) * size
        IN  /\ Len(seen) <= MaxPageSize
            /\ fresh = Len(start) + 1 /\ deletes = 0 /\ first <= MaxInt =>
                  seen = [i \in 1 .. Len(seen) |-> DTO(first + i)]
                      /\ Len(seen) = IF first >= Len(table) THEN 0
                                     ELSE IF Len(table) - first < size THEN Len(table) - first
                                     ELSE size

=============================================================================
