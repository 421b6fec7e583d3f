----------------------------- MODULE OrderedTable -----------------------------
(***************************************************************************)
(* The OrderedDict in which either guardrail keeps what it counts: one row  *)
(* for each name, the row used longest ago first, and no more rows than     *)
(* max_tracked (guardrails/rate_limit.py, guardrails/budget.py).           *)
(***************************************************************************)
EXTENDS Integers, Sequences, SequencesExt

HasRow(table, name) == \E i \in DOMAIN table : table[i].who = name
RowAt(table, name) == CHOOSE i \in DOMAIN table : table[i].who = name
Names(table) == {table[i].who : i \in DOMAIN table}

\* The row replaces the one of its name, or is new, and is the last; a new one may
\* push the coldest out (_evict_if_needed, _prune_table).
Latest(table, row, limit) ==
  LET rest == IF HasRow(table, row.who) THEN RemoveAt(table, RowAt(table, row.who)) ELSE table
      longer == Append(rest, row)
  IN  IF Len(longer) > limit THEN Tail(longer) ELSE longer
=============================================================================
