------------------------------- MODULE UsageScan -------------------------------
(***************************************************************************)
(* reconcile_usage: the provider's usage list read page by page, while the *)
(* list may change between two pages.                                      *)
(***************************************************************************)
EXTENDS Integers, Sums, SequencesExt

CONSTANTS
  UsageIds,   \* ids of usage rows
  CostOf,     \* their costs
  PageSize,
  MaxPages,
  Unread

ASSUME ScanAssumption ==
  /\ PageSize \in Nat \ {0} /\ MaxPages \in Nat
  /\ IsFiniteSet(UsageIds) /\ CostOf \in [UsageIds -> Nat]
  /\ Unread \notin Nat

VARIABLES
  listed,   \* the provider's rows, in its order
  trend,    \* whether rows are being added or removed
  scan,     \* the page to read next, what was kept, and the announced total
  report    \* the result given in the last step

scanVars == <<listed, trend, scan, report>>

Lists == {l \in SeqOf(UsageIds, Cardinality(UsageIds)) : IsInjective(l)}

Fresh == [page |-> 1, ids |-> {}, cost |-> 0, total |-> Unread]

ScanInit ==
  /\ listed \in Lists
  /\ trend \in {"grows", "shrinks"}
  /\ scan = Fresh /\ report = Unread

PageRows(n) ==
  LET from == (n - 1) * PageSize
      to   == IF from + PageSize < Len(listed) THEN from + PageSize ELSE Len(listed)
  IN  SubSeq(listed, from + 1, to)

Pages(total) == (total + PageSize - 1) \div PageSize

(* Faulty: only the first page's total is used, never compared again.      *)
AnyTotal(total) == TRUE

SameTotal(total) == scan.total \in {Unread, total}

(* Of rows that differ in their ids, as the scan makes sure they do.       *)
CostSum(ids) == SumOf([i \in ids |-> CostOf[i]])

(* One page: the total as announced before, exactly its rows, none seen    *)
(* already; the last page ends the scan, too many pages end it in error.   *)
ReadPage ==
  LET rows  == PageRows(scan.page)
      total == Len(listed)
      next  == [page |-> scan.page + 1, ids |-> scan.ids \cup ToSet(rows),
                cost |-> scan.cost + CostSum(ToSet(rows)), total |-> total]
  IN  /\ scan.page <= MaxPages
      /\ IF ~SameTotal(total) \/ ToSet(rows) \cap scan.ids # {}
         THEN scan' = Fresh /\ report' = Unread
         ELSE IF scan.page >= Pages(total)
              THEN scan' = Fresh /\ report' = next
              ELSE scan' = next /\ report' = Unread
      /\ UNCHANGED <<listed, trend>>

(* An unreadable page, or more pages than the limit.                       *)
AbandonScan ==
  /\ scan # Fresh
  /\ scan' = Fresh /\ report' = Unread
  /\ UNCHANGED <<listed, trend>>

(* The provider settles a call late, or drops a row.                       *)
ListChanges ==
  /\ \/ trend = "grows" /\ \E i \in UsageIds \ ToSet(listed), p \in 1 .. Len(listed) + 1 :
          listed' = InsertAt(listed, p, i)
     \/ trend = "shrinks" /\ \E p \in DOMAIN listed : listed' = RemoveAt(listed, p)
  /\ report' = Unread
  /\ UNCHANGED <<trend, scan>>

ScanNext == ReadPage \/ AbandonScan \/ ListChanges

ScanSpec == ScanInit /\ [][ScanNext]_scanVars

-------------------------------------------------------------------------------
(* While the provider's list only grows, or only shrinks, a scan that ends *)
(* well has counted every row of the list once and nothing else.           *)
ScanMeansList ==
  report # Unread => report.ids = ToSet(listed) /\ report.cost = CostSum(ToSet(listed))
===============================================================================
