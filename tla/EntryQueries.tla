----------------------------- MODULE EntryQueries -----------------------------
(***************************************************************************)
(* Field-level queries over the published read model.  The query engine of *)
(* the domain decides what matches.  The in-memory store runs it over all  *)
(* rows, the Postgres store over the rows that an SQL prefilter lets pass, *)
(* which must therefore never hold back a row the engine would keep.       *)
(***************************************************************************)
EXTENDS Integers, FiniteSets, SequencesExt

CONSTANTS Texts,        \* the strings of the instance
          Collation,    \* their order: [Texts -> Nat]
          Within,       \* the pairs of a text and a text that contains it
          Numerals,     \* what JavaScript's Number() makes of some of the texts
          ArrayText,    \* what String() makes of an array
          Bodies,       \* what the field "body" may hold: a value for some locales
          Comparands,   \* what a filter may compare with
          Locales, Default,
          Companions,   \* bound: the bodies that a second row may be published behind
          ScanLimit     \* queryScanLimit

\* What the constants are assumed to be.
QueriesAssumption ==
  /\ Default \in Locales /\ ScanLimit \in Nat
  /\ DOMAIN Numerals \subseteq Texts /\ Within \subseteq Texts \X Texts

VARIABLES rows,     \* published_entries in publish order
          query,    \* the query asked last
          memory,   \* what the in-memory store answers
          postgres  \* what the Postgres store answers

vars == <<rows, query, memory, postgres>>

\* A value and its type.
Str(s) == <<"string", s>>
Num(n) == <<"number", n>>
Bool(b) == <<"boolean", b>>
Arr(S) == <<"array", S>>
Null == <<"null">>
Undefined == <<"undefined">>
Is(x) == x[1]
Val(x) == x[2]

\* String(v).
Text(x) == CASE Is(x) = "string" -> Val(x)
             [] Is(x) = "boolean" -> IF Val(x) THEN "true" ELSE "false"
             [] Is(x) = "number" -> CHOOSE s \in DOMAIN Numerals : Numerals[s] = Val(x) /\ s # ""
             [] Is(x) = "array" -> ArrayText

-------------------------------------------------------------------------------
(***************************************************************************)
(* Locales.                                                                *)
(***************************************************************************)
\* fallbackChain without configured fallbacks: the requested locale, then the default.
Chain(locale) == IF locale = Default THEN <<locale>> ELSE <<locale, Default>>

Present(lv, l) == l \in DOMAIN lv /\ lv[l] # Null

\* resolveLocalizedValue: what a response shows of a field.
Shown(lv, locale) ==
  LET there == SelectSeq(Chain(locale), LAMBDA l : Present(lv, l))
  IN IF there = <<>> THEN Undefined ELSE lv[there[1]]

\* comparableValue: behind the chain, any locale that has a value, the first in key order.
ComparableValue(lv, locale) ==
  LET rest == {l \in DOMAIN lv : Present(lv, l)}
  IN IF Shown(lv, locale) # Undefined \/ rest = {} THEN Shown(lv, locale)
     ELSE lv[CHOOSE l \in rest : \A m \in rest : Collation[l] <= Collation[m]]

-------------------------------------------------------------------------------
(***************************************************************************)
(* The query engine, runEntryQuery.                                        *)
(***************************************************************************)
Coerce(c, x) ==
  CASE Is(c) = "string" /\ Is(x) = "number" /\ Val(c) \in DOMAIN Numerals -> Num(Numerals[Val(c)])
    [] Is(c) = "string" /\ Is(x) = "boolean" /\ Val(c) \in {"true", "false"} -> Bool(Val(c) = "true")
    [] OTHER -> c

\* Missing values sort last.
CompareValues(a, b) ==
  CASE a = Undefined /\ b = Undefined -> 0
    [] a = Undefined -> 1
    [] b = Undefined -> -1
    [] Is(a) = "number" /\ Is(b) = "number" -> Val(a) - Val(b)
    [] OTHER -> Collation[Text(a)] - Collation[Text(b)]

Wanted(c) == IF Is(c) = "array" THEN Val(c) ELSE {c}

MatchArray(op, x, c) ==
  CASE op = "exists" -> (c = Bool(TRUE)) = (Val(x) # {})
    [] op \in {"eq", "in"} -> Wanted(c) \intersect Val(x) # {}
    [] op \in {"ne", "nin"} -> Wanted(c) \intersect Val(x) = {}
    [] OTHER -> FALSE

MatchOp(op, x, c) ==
  IF Is(x) = "array" THEN MatchArray(op, x, c)
  ELSE CASE op = "exists" -> (c = Bool(TRUE)) = (x # Undefined)
         [] op = "in" -> \E w \in Wanted(c) : Coerce(w, x) = x
         [] op = "nin" -> \A w \in Wanted(c) : Coerce(w, x) # x
         [] op = "match" -> x # Undefined /\ <<Text(c), Text(x)>> \in Within
         [] op = "eq" -> Coerce(c, x) = x
         [] op = "ne" -> Coerce(c, x) # x
         [] op = "gt" -> CompareValues(x, Coerce(c, x)) > 0
         [] op = "lte" -> CompareValues(x, Coerce(c, x)) <= 0

ResolveField(row, field, locale) ==
  IF field = "sys.contentType" THEN Str(row.type) ELSE ComparableValue(row.body, locale)

MatchesFilters(row, q) == \A f \in q.filters : MatchOp(f.op, ResolveField(row, f.field, q.locale), f.value)

MatchesSearch(row, q) ==
  LET x == ComparableValue(row.body, q.locale)
  IN q.search = "" \/ (Is(x) = "string" /\ <<q.search, Val(x)>> \in Within)

\* A stable sort, then the page.
RunEntryQuery(S, q) ==
  LET kept == SelectSeq(S, LAMBDA row : MatchesFilters(row, q) /\ MatchesSearch(row, q))
      key(i) == ComparableValue(kept[i].body, q.locale)
      before(i, j) ==
        LET c == CompareValues(key(i), key(j)) IN
        CASE q.order = "asc" -> c < 0 \/ (c = 0 /\ i < j)
          [] q.order = "desc" -> c > 0 \/ (c = 0 /\ i < j)
          [] OTHER -> i < j
      order == SetToSortSeq(DOMAIN kept, before)
      sorted == [i \in DOMAIN order |-> kept[order[i]].id]
  IN SubSeq(sorted, q.skip + 1, IF q.skip + q.limit <= Len(sorted) THEN q.skip + q.limit ELSE Len(sorted))

-------------------------------------------------------------------------------
(***************************************************************************)
(* The SQL prefilters.                                                     *)
(***************************************************************************)
\* Variant: an empty comparand is not taken for a number.
ComparandForms_NoEmpty(c) ==
  CASE Is(c) = "string" ->
         {c} \union (IF Val(c) \in DOMAIN Numerals \ {""} THEN {Num(Numerals[Val(c)])} ELSE {})
             \union (IF Val(c) \in {"true", "false"} THEN {Bool(Val(c) = "true")} ELSE {})
    [] Is(c) \in {"number", "boolean"} -> {c, Str(Text(c))}
    [] OTHER -> {c}

\* The JSON values that a comparand may equal once it has been coerced.
ComparandForms(c) ==
  CASE Is(c) = "string" ->
         {c} \union (IF Val(c) \in DOMAIN Numerals THEN {Num(Numerals[Val(c)])} ELSE {})
             \union (IF Val(c) \in {"true", "false"} THEN {Bool(Val(c) = "true")} ELSE {})
    [] Is(c) \in {"number", "boolean"} -> {c, Str(Text(c))}
    [] OTHER -> {c}

\* jsonb's @>: equality, or an array that has the scalar, or all members of the array.
JsonContains(x, form) ==
  \/ x = form
  \/ Is(x) = "array" /\ IF Is(form) = "array" THEN Val(form) \subseteq Val(x) ELSE form \in Val(x)

FieldValueMatches(body, values) ==
  \E l \in DOMAIN body, c \in values : \E form \in ComparandForms(c) : JsonContains(body[l], form)

\* jsonb_each_text and ILIKE.
FieldTextLike(body, needle) ==
  \E l \in DOMAIN body : body[l] # Null /\ <<needle, Text(body[l])>> \in Within

\* What is not pushed down lets every row pass.
FilterPrefilter(row, f) ==
  IF f.field = "sys.contentType"
  THEN CASE f.op = "eq" /\ Is(f.value) = "string" -> row.type = Val(f.value)
         [] f.op = "in" /\ Is(f.value) = "array" /\ Val(f.value) # {} -> \E w \in Val(f.value) : row.type = Text(w)
         [] OTHER -> TRUE
  ELSE CASE f.op = "eq" -> FieldValueMatches(row.body, {f.value})
         [] f.op = "in" /\ Is(f.value) = "array" /\ Val(f.value) # {} -> FieldValueMatches(row.body, Val(f.value))
         [] f.op = "match" /\ Is(f.value) = "string" /\ Val(f.value) # "" -> FieldTextLike(row.body, Val(f.value))
         [] f.op = "exists" /\ f.value = Bool(TRUE) -> DOMAIN row.body # {}
         [] OTHER -> TRUE

SearchPrefilter(row, search) == search = "" \/ FieldTextLike(row.body, search)

-------------------------------------------------------------------------------
(***************************************************************************)
(* listPublished of both stores.                                           *)
(***************************************************************************)
TooBroad == <<0>>    \* QueryTooBroadError, told from any list of ids

ListMemory(q) == RunEntryQuery(rows, q)

\* A query without field-level parts is answered in SQL alone.
Advanced(q) == q.filters # {} \/ q.search # "" \/ q.order # "none"

ListPostgres(q) ==
  LET candidates == SelectSeq(rows, LAMBDA row :
        (\A f \in q.filters : FilterPrefilter(row, f)) /\ SearchPrefilter(row, q.search))
      ids == [i \in DOMAIN rows |-> rows[i].id]
  IN CASE ~Advanced(q) -> SubSeq(ids, q.skip + 1, IF q.skip + q.limit <= Len(ids) THEN q.skip + q.limit ELSE Len(ids))
       [] Len(candidates) > ScanLimit -> TooBroad
       [] OTHER -> RunEntryQuery(candidates, q)

Filters ==
  [field : {"body"}, op : {"eq", "ne", "gt", "lte", "match"}, value : {c \in Comparands : Is(c) # "array"}]
    \union [field : {"body"}, op : {"eq", "in", "nin"}, value : {c \in Comparands : Is(c) = "array"}]
    \union [field : {"body"}, op : {"exists"}, value : {Bool(TRUE), Bool(FALSE)}]
    \union [field : {"sys.contentType"}, op : {"eq", "in", "ne"}, value : Comparands]

\* entryQueryFrom: eq compares with one text, in and nin with a list of texts.
Parsed(f) == f.op \in {"eq", "ne"} => Is(f.value) # "array"

None == [filters |-> {}, search |-> "", order |-> "none", locale |-> Default, skip |-> 0, limit |-> 0]

Init == rows = <<>> /\ query = None /\ memory = <<>> /\ postgres = <<>>

Publish(body, type) ==
  /\ query = None
  /\ rows = <<>> \/ (Len(rows) = 1 /\ rows[1].body \in Companions)
  /\ rows' = Append(rows, [id |-> Len(rows) + 1, type |-> type, body |-> body])
  /\ UNCHANGED <<query, memory, postgres>>

Ask(filters, search, order, locale) ==
  /\ query = None
  /\ \E page \in {<<0, 2>>, <<1, 1>>} :
       query' = [filters |-> filters, search |-> search, order |-> order, locale |-> locale,
                 skip |-> page[1], limit |-> page[2]]
  /\ memory' = ListMemory(query') /\ postgres' = ListPostgres(query')
  /\ UNCHANGED rows

Next ==
  \/ \E body \in Bodies, type \in {"a", "ab"} : Publish(body, type)
  \/ \E f \in Filters, locale \in Locales : Ask({f}, "", "desc", locale)
  \/ \E search \in Texts, locale \in Locales, order \in {"none", "asc"} : Ask({}, search, order, locale)

Spec == Init /\ [][Next]_vars

-------------------------------------------------------------------------------
\* query-pushdown.ts: a prefilter "must never exclude a row the engine would have kept".
\* The stores answer every query alike, unless Postgres finds too many candidates.
StoresAnswerAlike == postgres \in {memory, TooBroad}

\* The same for the queries that the query string of the HTTP API can express.
ParsedQueriesAnswerAlike == (\A f \in query.filters : Parsed(f)) => StoresAnswerAlike

\* delivery.ts: sharing the chain "keeps a filter from matching a locale the rendered
\* response would never contain" - as long as some locale of the chain has a value.
FilterMatchesWhatIsShown ==
  \A i \in DOMAIN rows, f \in query.filters :
    LET shown == Shown(rows[i].body, query.locale) IN
    /\ f.field = "body" /\ f.op = "eq" /\ query.skip = 0 /\ shown # Undefined
    /\ rows[i].id \in ToSet(memory)
    => Is(shown) = "array" \/ Coerce(f.value, shown) = shown
===============================================================================
