------------------------------ MODULE Statistics ------------------------------
(***************************************************************************)
(* The statistics of inventories, customers, devices and agents: several   *)
(* counts of one table, read one after the other outside any transaction,  *)
(* while rows are created, changed and removed.                            *)
(***************************************************************************)
EXTENDS Naturals, FiniteSets, Sequences

CONSTANTS
  MaxRows,    \* bound: rows a behaviour creates
  MaxWrites   \* bound: changes and removals of rows in a behaviour

VARIABLES
  stats,   \* the statistics of this behaviour
  rows,    \* the rows of its table
  writes,  \* changes and removals so far
  answer   \* the request: the counts it has read, and the writes meanwhile

vars == <<stats, rows, writes, answer>>

\* What the counts tell apart: the class of an inventory, the status of a
\* customer or of an agent's user, whether a device is used.
Class == {"first", "second", "other"}
\* A row that was removed, for good or not, is of no class.
Removed == "removed"
Row == Class \cup {Removed}

\* What each count counts, in the order of the reads; total: which one counts
\* all; parts: those that are parts of it.
\* By class, then all, then the removed ones.
GetInventoryStats ==
  [counts |-> << Class, Class, {Removed} >>, parts |-> {1}, total |-> 2, removals |-> TRUE]
\* Mutant: barred customers are not counted in the total.
CustomersNotBarred ==
  [counts |-> << {"first"}, {"second"}, Class \ {"first"} >>, parts |-> {1, 2}, total |-> 3,
   removals |-> TRUE]
\* Barred, then active ones, then all; the number of new ones stands alone.
GetCustomerStats ==
  [counts |-> << {"first"}, {"second"}, Class >>, parts |-> {1, 2}, total |-> 3,
   removals |-> TRUE]
\* Used, then unused ones, then all: no device is anything else.  The number
\* of tokenable ones stands alone.
GetDeviceStats ==
  [counts |-> << {"first"}, Class \ {"first"}, Class >>, parts |-> {1, 2}, total |-> 3,
   removals |-> TRUE]
\* All, then the active, then the barred ones.
GetAgentsStatistics ==
  [counts |-> << Class, {"second"}, {"first"} >>, parts |-> {2, 3}, total |-> 1,
   removals |-> FALSE]

AllStats == {GetInventoryStats, GetCustomerStats, GetDeviceStats, GetAgentsStatistics}

Idle == [at |-> "idle", read |-> <<>>, created |-> FALSE, removed |-> FALSE, changed |-> FALSE]

-----------------------------------------------------------------------------
(* Writes of other requests *)

Note(created, removed, changed) ==
  answer' = IF answer.at # "counting" THEN answer
            ELSE [answer EXCEPT !.created = @ \/ created, !.removed = @ \/ removed,
                                !.changed = @ \/ changed]

CreateRow ==
  /\ Len(rows) < MaxRows
  /\ \E c \in Class : rows' = Append(rows, c)
  /\ Note(TRUE, FALSE, FALSE)
  /\ UNCHANGED <<stats, writes>>

ChangeRow ==
  /\ writes < MaxWrites
  /\ \E r \in DOMAIN rows, c \in Class : rows[r] # Removed /\ rows' = [rows EXCEPT ![r] = c]
  /\ writes' = writes + 1
  /\ Note(FALSE, FALSE, TRUE)
  /\ UNCHANGED stats

RemoveRow ==
  /\ stats.removals
  /\ writes < MaxWrites
  /\ \E r \in DOMAIN rows : rows[r] # Removed /\ rows' = [rows EXCEPT ![r] = Removed]
  /\ writes' = writes + 1
  /\ Note(FALSE, TRUE, FALSE)
  /\ UNCHANGED stats

-----------------------------------------------------------------------------
(* The request *)

Ask ==
  /\ answer.at # "counting"
  /\ answer' = [Idle EXCEPT !.at = "counting"]
  /\ UNCHANGED <<stats, rows, writes>>

CountOf(classes) == Cardinality({r \in DOMAIN rows : rows[r] \in classes})

Count ==
  LET read == Append(answer.read, CountOf(stats.counts[Len(answer.read) + 1]))
  IN
  /\ answer.at = "counting"
  /\ answer' = [answer EXCEPT !.read = read,
                  !.at = IF Len(read) = Len(stats.counts) THEN "answered" ELSE "counting"]
  /\ UNCHANGED <<stats, rows, writes>>

Init ==
  /\ stats \in AllStats
  /\ rows = <<>>
  /\ writes = 0
  /\ answer = Idle

Next == CreateRow \/ ChangeRow \/ RemoveRow \/ Ask \/ Count

Spec == Init /\ [][Next]_vars

-----------------------------------------------------------------------------
(* Correctness *)

\* The rows and the counts keep their shape.
TypeOK ==
  /\ rows \in Seq(Row)
  /\ writes \in Nat
  /\ answer \in [at : {"idle", "counting", "answered"}, read : Seq(Nat),
                 created : BOOLEAN, removed : BOOLEAN, changed : BOOLEAN]

\* The parts among the counts that were read; there are three counts.
Part(i) == IF i \in stats.parts \cap DOMAIN answer.read THEN answer.read[i] ELSE 0
SumOfParts == Part(1) + Part(2) + Part(3)

\* Of the writes since the first count, those that keep the parts within it.
Harmless ==
  /\ ~answer.changed
  /\ IF stats.total = 1 THEN ~answer.created ELSE ~answer.removed

\* The parts of an answer are never more than its total: where the total is
\* read last, whatever is created meanwhile; where it is read first, whatever
\* is removed meanwhile.  Without a write, parts that leave no class out make
\* the total.
StatsAddUp ==
  answer.at = "answered" /\ Harmless =>
    /\ SumOfParts <= answer.read[stats.total]
    /\ ~answer.created /\ ~answer.removed /\ UNION {stats.counts[i] : i \in stats.parts} = Class
         => SumOfParts = answer.read[stats.total]

-----------------------------------------------------------------------------
(* Why: while the counts are read, with nothing but harmless writes *)

Whole == answer.read[stats.total]
ClassesOf(I) == UNION {stats.counts[i] : i \in I}
NothingWritten == ~answer.created /\ ~answer.removed

\* A total that was read first covers the parts read and those to be read; one
\* that comes last has the parts read below it.
TotalFirst ==
  1 \in DOMAIN answer.read =>
    SumOfParts + CountOf(ClassesOf(stats.parts \ DOMAIN answer.read)) <= Whole
TotalLast ==
  IF stats.total \in DOMAIN answer.read
  THEN /\ SumOfParts <= Whole
       /\ NothingWritten /\ ClassesOf(stats.parts) = Class => SumOfParts = Whole
  ELSE LET counted == CountOf(ClassesOf(stats.parts \cap DOMAIN answer.read))
       IN SumOfParts <= counted /\ (NothingWritten => SumOfParts = counted)

CountsFit ==
  answer.at = "counting" /\ Harmless => IF stats.total = 1 THEN TotalFirst ELSE TotalLast

\* Three counts, one after the other.
InOrder ==
  /\ stats \in AllStats
  /\ answer.at = "idle" => answer.read = <<>>
  /\ answer.at = "counting" => Len(answer.read) < 3
  /\ answer.at = "answered" => Len(answer.read) = 3

StatsInv == TypeOK /\ InOrder /\ CountsFit /\ StatsAddUp
=============================================================================
