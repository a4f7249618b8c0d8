------------------------------ MODULE SqlFilters ------------------------------
(***************************************************************************)
(* WHERE clauses from the parser's tree to the rows they keep              *)
(* (galaxdb-embedded filter_from_expr and its companions, row_codec        *)
(* filter_matches), against SQL's three-valued logic.  A row is the value  *)
(* of its one column; `sem` says whether SEMANTIC_MATCH holds of it.       *)
(***************************************************************************)
EXTENDS Integers, Sequences

CONSTANTS SmallInts, Depth

VARIABLE where   \* the clause, the row and the vector verdict under study

None == [op |-> "none"]
NullV == <<"null", 0>>
IntV(n) == <<"int", n>>
TextV == <<"text", 0>>          \* a text that is no number
Missing == <<"missing", 0>>     \* the row does not carry the column

ColumnValues == {IntV(n) : n \in SmallInts} \cup {NullV, TextV, Missing}
Literals == {IntV(n) : n \in SmallInts} \cup {NullV}
Comparisons == {"=", "<>", "<", ">", "<=", ">="}

Cmp(c, flipped, v) == [op |-> "cmp", cmp |-> c, flipped |-> flipped, val |-> v]

Leaves == {Cmp(c, f, v) : c \in Comparisons, f \in BOOLEAN, v \in Literals}
            \cup {[op |-> "foreign", val |-> v] : v \in Literals}   \* e.g. col IN (v)
            \cup {[op |-> "notdup"], [op |-> "semantic"]}

Trees[d \in Nat] ==
  IF d = 0 THEN Leaves
  ELSE LET t == Trees[d - 1] IN
         t \cup {[op |-> o, l |-> x, r |-> y] : o \in {"and", "or"}, x \in t, y \in Leaves}
           \cup {[op |-> "nested", e |-> x] : x \in t}

SfInit == where \in [e : Trees[Depth], row : ColumnValues, sem : BOOLEAN]

SfNext == UNCHANGED where
SfSpec == SfInit /\ [][SfNext]_where

---------------------------------------------------------------------------

Order(c, a, b) == CASE c = "<" -> a < b [] c = ">" -> a > b
                    [] c = "<=" -> a <= b [] c = ">=" -> a >= b

FlipNone(c) == c

FlipCmpOp(c) == CASE c = "<" -> ">" [] c = ">" -> "<"
                  [] c = "<=" -> ">=" [] c = ">=" -> "<=" [] OTHER -> c

BuildCmp(c, v) == [op |-> "cmp", cmp |-> c, val |-> v]

RECURSIVE FilterFromExpr(_)
FilterFromExpr(e) ==
  CASE e.op = "cmp" -> BuildCmp(IF e.flipped THEN FlipCmpOp(e.cmp) ELSE e.cmp, e.val)
    [] e.op \in {"and", "or"} ->
         LET l == FilterFromExpr(e.l) r == FilterFromExpr(e.r) IN
         IF l = None \/ r = None THEN None ELSE [op |-> e.op, l |-> l, r |-> r]
    [] e.op = "nested" -> FilterFromExpr(e.e)
    [] e.op = "notdup" -> e
    [] OTHER -> None

RECURSIVE FilterFromExprNoSemantic(_)
FilterFromExprNoSemantic(e) ==
  IF e.op # "and" THEN FilterFromExpr(e)
  ELSE LET l == FilterFromExprNoSemantic(e.l) r == FilterFromExprNoSemantic(e.r) IN
       IF l = None THEN r ELSE IF r = None THEN l ELSE [op |-> "and", l |-> l, r |-> r]

RECURSIVE HasSemanticMatch(_)
HasSemanticMatch(e) ==
  \/ e.op = "semantic"
  \/ e.op = "and" /\ (HasSemanticMatch(e.l) \/ HasSemanticMatch(e.r))

RECURSIVE StripSemanticMatch(_)
StripSemanticMatch(e) ==
  CASE e.op = "semantic" -> None
    [] e.op = "and" ->
         LET l == StripSemanticMatch(e.l) r == StripSemanticMatch(e.r) IN
         IF l = None THEN r ELSE IF r = None THEN l ELSE [e EXCEPT !.l = l, !.r = r]
    [] e.op = "nested" ->
         LET i == StripSemanticMatch(e.e) IN IF i = None THEN None ELSE [e EXCEPT !.e = i]
    [] OTHER -> e

(* compare: equality of the stored value with the literal, types included. *)
Equal(row, c, v) == row # Missing /\ (IF c = "=" THEN row = v ELSE row # v)

(* cmp_order: both sides as floats, or no match. *)
Ordered(row, c, v) == row[1] = "int" /\ v[1] = "int" /\ Order(c, row[2], v[2])

RECURSIVE FilterMatches(_, _)
FilterMatches(f, row) ==
  CASE f.op = "cmp" -> IF f.cmp \in {"=", "<>"} THEN Equal(row, f.cmp, f.val)
                       ELSE Ordered(row, f.cmp, f.val)
    [] f.op = "and" -> FilterMatches(f.l, row) /\ FilterMatches(f.r, row)
    [] f.op = "or" -> FilterMatches(f.l, row) \/ FilterMatches(f.r, row)
    [] OTHER -> TRUE     \* NotDuplicate: the scan's own pass

(* A native scan, UPDATE or DELETE: no filter keeps every row. *)
Kept(f, row) == f = None \/ FilterMatches(f, row)

(* select_readonly: the vector path, or the scan.  The hybrid plan carries *)
(* the rest of the clause; its search never applies it (exec_hybrid_search *)
(* with HnswWithPostFilter).                                               *)
Selects(e, row, sem) ==
  IF HasSemanticMatch(e) THEN sem ELSE Kept(FilterFromExpr(e), row)

---------------------------------------------------------------------------
(* SQL's reading: "t", "f" or "u". *)
Of(b) == IF b THEN "t" ELSE "f"

RECURSIVE Truth(_, _, _)
Truth(e, row, sem) ==
  LET Side(x) == Truth(x, row, sem) IN
  CASE e.op = "cmp" ->
         IF e.val = NullV \/ row[1] # "int" THEN "u"
         ELSE Of(CASE e.cmp = "=" -> row = e.val [] e.cmp = "<>" -> row # e.val
                   [] e.flipped -> Order(e.cmp, e.val[2], row[2])
                   [] OTHER -> Order(e.cmp, row[2], e.val[2]))
    [] e.op = "foreign" -> IF e.val = NullV \/ row[1] # "int" THEN "u" ELSE Of(row = e.val)
    [] e.op = "semantic" -> Of(sem)
    [] e.op = "notdup" -> "t"
    [] e.op = "nested" -> Side(e.e)
    [] e.op = "and" -> IF "f" \in {Side(e.l), Side(e.r)} THEN "f"
                       ELSE IF "u" \in {Side(e.l), Side(e.r)} THEN "u" ELSE "t"
    [] e.op = "or" -> IF "t" \in {Side(e.l), Side(e.r)} THEN "t"
                      ELSE IF "u" \in {Side(e.l), Side(e.r)} THEN "u" ELSE "f"

RECURSIVE Contains(_, _)
Contains(e, ops) ==
  \/ e.op \in ops
  \/ e.op \in {"and", "or"} /\ (Contains(e.l, ops) \/ Contains(e.r, ops))
  \/ e.op = "nested" /\ Contains(e.e, ops)

RECURSIVE ComparesNull(_, _)
ComparesNull(e, row) ==
  \/ e.op = "cmp" /\ e.cmp \in {"=", "<>"} /\ (e.val = NullV \/ row \in {NullV, TextV})
  \/ e.op \in {"and", "or"} /\ (ComparesNull(e.l, row) \/ ComparesNull(e.r, row))
  \/ e.op = "nested" /\ ComparesNull(e.e, row)

RECURSIVE AndChain(_)
AndChain(e) ==
  \/ ~Contains(e, {"semantic"}) \/ e.op = "semantic"
  \/ e.op = "and" /\ AndChain(e.l) /\ AndChain(e.r)

(* A SELECT, UPDATE or DELETE touches exactly the rows SQL's logic selects *)
(* for every clause built from the supported comparisons, whichever side   *)
(* the column is on and however they nest.  With SEMANTIC_MATCH in a       *)
(* conjunction, the filter of the hybrid plan and the clause handed to the *)
(* analytical engine both mean, with the vector verdict, what the original *)
(* meant.  Left out are comparisons that test a NULL or a value of another *)
(* type for (in)equality, and clauses with a form the translation does not *)
(* know (filter_from_expr, strip_semantic_match_expr, filter_matches).     *)
FilterExactUnlessForeign ==
  LET e == where.e
      row == where.row
      sem == where.sem
      stripped == StripSemanticMatch(e)
      selected == Truth(e, row, sem) = "t" IN
  (~Contains(e, {"foreign"}) /\ ~ComparesNull(e, row) /\ AndChain(e)) =>
    IF HasSemanticMatch(e)
    THEN /\ (sem /\ Kept(FilterFromExprNoSemantic(e), row)) <=> selected
         /\ (sem /\ (stripped = None \/ Truth(stripped, row, sem) = "t")) <=> selected
    ELSE Selects(e, row, sem) <=> selected

(* "anything that is not provably a simple single-table scan is routed to  *)
(* DataFusion, which either executes it or returns a typed error -- never  *)
(* a silent wrong result" (galaxdb-sql classify.rs): what a single-table   *)
(* SELECT returns is what its WHERE clause selects.                        *)
NativeSelectExact ==
  (/\ ~ComparesNull(where.e, where.row)
   /\ ~Contains(where.e, {"semantic", "notdup"}))
     => (Selects(where.e, where.row, where.sem) <=> Truth(where.e, where.row, where.sem) = "t")
=============================================================================
