---------------------------- MODULE StudyStats ----------------------------
(* The study time a browser reports and the server merges                  *)
(* (src/backend/system/auth_store.py).  A report holds the ranges of time  *)
(* studied and a duration; a browser repeats reports and sends them in any *)
(* order, so merging has to be insensitive to both.  One metric of one     *)
(* project and day stands for the five the table keeps: the code treats    *)
(* every metric of every row alike.                                        *)
EXTENDS Integers, Sequences, FiniteSets, FiniteSetsExt

CONSTANT MaxMs          \* ranges end by this time (bound)

ASSUME StudyStatsAssumption == MaxMs \in Nat \ {0}


Spans == {r \in [from : 0..MaxMs, to : 0..MaxMs] : r.from < r.to}

\* The points of time that a sequence of ranges covers.
Points(rs) == UNION {rs[i].from .. (rs[i].to - 1) : i \in DOMAIN rs}

\* mutant: a joined range ends where the later one ends.
JoinedShort(kept, r) ==
  LET last == kept[Len(kept)]
  IN  IF kept # <<>> /\ r.from <= last.to
        THEN [kept EXCEPT ![Len(kept)].to = r.to]
        ELSE Append(kept, r)

(* _normalize_study_ranges: sort by start, then join each range to the     *)
(* last one kept when they touch or overlap.                               *)
Joined(kept, r) ==
  LET last == kept[Len(kept)]
  IN  IF kept # <<>> /\ r.from <= last.to
        THEN [kept EXCEPT ![Len(kept)].to = Max({last.to, r.to})]
        ELSE Append(kept, r)

\* Python sorts by start and keeps the order of ranges that start together.
Precedes(rs, i, j) == rs[i].from < rs[j].from \/ (rs[i].from = rs[j].from /\ i < j)
Place(rs, i) == Cardinality({j \in DOMAIN rs : j = i \/ Precedes(rs, j, i)})
SortedByStart(rs) == [n \in DOMAIN rs |-> rs[CHOOSE i \in DOMAIN rs : Place(rs, i) = n]]

NormalizeRanges(rs) ==
  LET sorted == SortedByStart(rs)
      merged[n \in 0..Len(rs)] == IF n = 0 THEN <<>> ELSE Joined(merged[n - 1], sorted[n])
  IN  merged[Len(rs)]

SumRanges(rs) ==
  LET sum[n \in 0..Len(rs)] == IF n = 0 THEN 0 ELSE sum[n - 1] + (rs[n].to - rs[n].from)
  IN  sum[Len(rs)]

NoStudy == [ms |-> 0, ranges |-> <<>>]

\* A report as the route builds it: the duration covers at least the ranges.
Report(ms, rs) ==
  LET norm == NormalizeRanges(rs)
  IN  [ms |-> Max({ms, SumRanges(norm)}), ranges |-> norm]

\* upsert_user_project_daily_study_stats for one metric of one row.
Merge(old, new) ==
  LET norm == NormalizeRanges(old.ranges \o new.ranges)
  IN  [ms |-> Max({old.ms, new.ms, SumRanges(norm)}), ranges |-> norm]
===========================================================================
