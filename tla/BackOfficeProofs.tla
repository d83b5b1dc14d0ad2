----------------------------- MODULE BackOfficeProofs -----------------------------
(***************************************************************************)
(* Proofs about the back office as MCBackOffice composes it: what is proved *)
(* of a part holds of every behaviour of the whole, for any companies,      *)
(* users, serials, names, rows, slots and numbers of requests.              *)
(***************************************************************************)
EXTENDS MCBackOffice, FiniteSetTheorems, FunctionTheorems, SequenceTheorems, TLAPS,
        WellFoundedInduction

-----------------------------------------------------------------------------
(* The constants of the parts *)

LEMMA SlotsAreFinite ==
  /\ T!IsFiniteSet(Slot) /\ A!IsFiniteSet(Slot) /\ D!IsFiniteSet(Slot) /\ L!IsFiniteSet(Slot)
  /\ M!IsFiniteSet(Slot) /\ A!IsFiniteSet(User)
BY SlotsFinite, UsersFinite
   DEF IsFiniteSet, T!IsFiniteSet, M!IsFiniteSet, A!IsFiniteSet, D!IsFiniteSet, L!IsFiniteSet

LEMMA BoundsAreNumbers ==
  MaxRequests \in Nat /\ MaxOverlapping \in Nat /\ MaxRequests + 1 \in Nat
  /\ MaxOverlapping + 1 \in Nat
BY RequestBounds

-----------------------------------------------------------------------------
(* A behaviour of the whole is one of its part *)

\* Everything there is.
all == <<part, requests, tenancy, memberships, accounts, devicesOf, catalogue, clients, rows,
         listings, statistics>>

\* A step of the whole is a step of its part, or stutters.
LEMMA PartSteps ==
  ASSUME [Next]_all
  PROVE  /\ part' = part
         /\ part = "tenancy" => [T!Next]_T!vars
         /\ part = "memberships" => [M!Next]_M!vars
         /\ part = "accounts" => [A!Next]_A!vars
         /\ part = "devices" => [D!Next]_D!vars
         /\ part = "catalogue" => [C!Next]_C!vars
         /\ part = "clients" => [L!Next]_L!vars
         /\ part = "listings" => [P!Next]_P!vars
         /\ part = "statistics" => [S!Next]_S!vars
<1>1. CASE UNCHANGED all
  BY <1>1 DEF all, requests, tenancy, memberships, accounts, devicesOf, clients, T!vars, M!vars,
     M!tables, A!vars, A!tables, D!vars, D!tables, catalogue, C!vars, C!catalogue,
     L!vars, L!clients, listings, P!vars, statistics, S!vars
<1>2. CASE Next BY <1>2 DEF Next
<1> QED BY <1>1, <1>2

LEMMA PartBegins ==
  ASSUME Init
  PROVE  /\ part = "tenancy" => T!Init
         /\ part = "memberships" => M!Init
         /\ part = "accounts" => A!Init
         /\ part = "devices" => D!Init
         /\ part = "catalogue" => C!Init
         /\ part = "clients" => L!Init
         /\ part = "listings" => P!Init
         /\ part = "statistics" => S!Init
BY DEF Init

-----------------------------------------------------------------------------
(* Tenants and stores *)

TenancyInv == part = "tenancy" => T!StoreInv

LEMMA TenancyInit == Init => TenancyInv
BY PartBegins, T!StoreInit, SlotsAreFinite, BoundsAreNumbers, LegacyAreCompanies DEF TenancyInv

LEMMA TenancyNext == TenancyInv /\ [Next]_all => TenancyInv'
BY PartSteps, T!StoreNext, SlotsAreFinite, BoundsAreNumbers DEF TenancyInv

\* Tenants, stores and the role Admin of the back office: at most one main
\* store that is not removed, as long as no two requests overlap.
THEOREM OneMainStoreHolds == Spec => []OneMainStore
<1>1. TenancyInv => OneMainStore BY T!StoreMeansOne, SlotsAreFinite, BoundsAreNumbers
      DEF TenancyInv, OneMainStore
<1> QED BY TenancyInit, TenancyNext, <1>1, PTL DEF Spec, all

\* A company that was set up with a main store keeps one that is not removed.
THEOREM MainStoreKeptHolds == Spec => []MainStoreKept
<1>1. TenancyInv => MainStoreKept BY T!StoreMeansKept, SlotsAreFinite, BoundsAreNumbers
      DEF TenancyInv, MainStoreKept
<1> QED BY TenancyInit, TenancyNext, <1>1, PTL DEF Spec, all

\* A company whose domain is final has the role Admin, whatever overlaps.
THEOREM FinalHasAdminHolds == Spec => []FinalHasAdmin
<1>1. TenancyInv => FinalHasAdmin BY DEF TenancyInv, FinalHasAdmin, T!StoreInv
<1> QED BY TenancyInit, TenancyNext, <1>1, PTL DEF Spec, all

\* The migration of the stores leaves nobody out in silence.
THEOREM MigrationCoversHolds == Spec => []MigrationCovers
<1>1. TenancyInv => MigrationCovers BY T!StoreMeansCovered, SlotsAreFinite, BoundsAreNumbers
      DEF TenancyInv, MigrationCovers
<1> QED BY TenancyInit, TenancyNext, <1>1, PTL DEF Spec, all

-----------------------------------------------------------------------------
(* Users and memberships *)

MembershipsInv == part = "memberships" => M!AloneInv

LEMMA MembershipsInit == Init => MembershipsInv
BY PartBegins, M!AloneInit, SlotsAreFinite, BoundsAreNumbers, FirstIsUser DEF MembershipsInv

LEMMA MembershipsNext == MembershipsInv /\ [Next]_all => MembershipsInv'
BY PartSteps, M!AloneNext, SlotsAreFinite, BoundsAreNumbers, FirstIsUser DEF MembershipsInv

\* A user is a member of a tenant once, as long as no two requests overlap.
THEOREM OneMembershipHolds == Spec => []OneMembership
<1>1. MembershipsInv => OneMembership BY M!MeansOne, SlotsAreFinite, BoundsAreNumbers
      DEF MembershipsInv, OneMembership
<1> QED BY MembershipsInit, MembershipsNext, <1>1, PTL DEF Spec, all

\* A membership names a role that exists, as long as no two requests overlap.
THEOREM MemberHasRoleHolds == Spec => []MemberHasRole
<1>1. MembershipsInv => MemberHasRole BY M!MeansRole, SlotsAreFinite, BoundsAreNumbers
      DEF MembershipsInv, MemberHasRole
<1> QED BY MembershipsInit, MembershipsNext, <1>1, PTL DEF Spec, all

\* A user works in stores of its tenant only, whatever fails or overlaps.
THEOREM StoreIsOwnHolds == Spec => []StoreIsOwn
<1>1. MembershipsInv => StoreIsOwn BY M!MeansStoreIsOwn, SlotsAreFinite, BoundsAreNumbers
      DEF MembershipsInv, StoreIsOwn, M!AloneInv
<1> QED BY MembershipsInit, MembershipsNext, <1>1, PTL DEF Spec, all

\* Only a failure or deleteUser leaves a user without a membership.
THEOREM StrandedByFailureHolds == Spec => []StrandedByFailure
<1>1. MembershipsInv => StrandedByFailure
  BY DEF MembershipsInv, StrandedByFailure, M!AloneInv, M!MemberInv
<1> QED BY MembershipsInit, MembershipsNext, <1>1, PTL DEF Spec, all

\* The migration of the memberships leaves nobody without a store in silence.
THEOREM EverybodyAssignedHolds == Spec => []EverybodyAssigned
<1>1. MembershipsInv => EverybodyAssigned BY M!MeansAssigned, SlotsAreFinite, BoundsAreNumbers
      DEF MembershipsInv, EverybodyAssigned
<1> QED BY MembershipsInit, MembershipsNext, <1>1, PTL DEF Spec, all

-----------------------------------------------------------------------------
(* Links *)

AccountsInv == part = "accounts" => A!OneInv

LEMMA AccountsInit == Init => AccountsInv
BY PartBegins, A!OneInit, SlotsAreFinite, BoundsAreNumbers DEF AccountsInv

LEMMA AccountsNext == AccountsInv /\ [Next]_all => AccountsInv'
BY PartSteps, A!OneNext, SlotsAreFinite, BoundsAreNumbers DEF AccountsInv

\* A link that was followed to the end, or replaced, opens nothing again.
THEOREM DeadLinksStayDeadHolds == Spec => []DeadLinksStayDead
<1>1. AccountsInv => DeadLinksStayDead
  BY A!DeadIsDead, SlotsAreFinite, BoundsAreNumbers DEF AccountsInv, DeadLinksStayDead, A!OneInv
<1> QED BY AccountsInit, AccountsNext, <1>1, PTL DEF Spec, all

\* A user has at most one reset link that works, as long as no two requests
\* overlap.
THEOREM OneResetLinkHolds == Spec => []OneResetLink
<1>1. AccountsInv => OneResetLink
  BY A!OneIsOne, SlotsAreFinite, BoundsAreNumbers DEF AccountsInv, OneResetLink, A!OneInv
<1> QED BY AccountsInit, AccountsNext, <1>1, PTL DEF Spec, all

-----------------------------------------------------------------------------
(* Devices *)

DevicesInv == part = "devices" => D!SentInv /\ D!CountInv

LEMMA DevicesInit == Init => DevicesInv
BY PartBegins, D!SentInit, D!CountInit, SlotsAreFinite, BoundsAreNumbers
   DEF DevicesInv

LEMMA DevicesNext == DevicesInv /\ [Next]_all => DevicesInv'
BY PartSteps, D!SentNext, D!CountNext, SlotsAreFinite, BoundsAreNumbers
   DEF DevicesInv

\* Nobody gets a token that was given out before.
THEOREM TokensSentOnceHolds == Spec => []TokensSentOnce
<1>1. DevicesInv => TokensSentOnce BY DEF DevicesInv, TokensSentOnce, D!SentInv
<1> QED BY DevicesInit, DevicesNext, <1>1, PTL DEF Spec, all

\* The count of a device is at or past every token it has, as long as no two
\* requests overlap and nobody changes the count.
THEOREM CountCoversTokensHolds == Spec => []CountCoversTokens
<1>1. DevicesInv => CountCoversTokens BY DEF DevicesInv, CountCoversTokens, D!CountInv
<1> QED BY DevicesInit, DevicesNext, <1>1, PTL DEF Spec, all

-----------------------------------------------------------------------------
(* Customers, sales and contracts *)

ClientsInv == part = "clients" => L!SaleInv /\ L!SignatureInv

LEMMA ClientsInit == Init => ClientsInv
BY PartBegins, L!SaleInit, L!SignatureInit, SlotsAreFinite, BoundsAreNumbers DEF ClientsInv

LEMMA ClientsNext == ClientsInv /\ [Next]_all => ClientsInv'
BY PartSteps, L!SaleNext, L!SignatureNext, SlotsAreFinite, BoundsAreNumbers DEF ClientsInv

\* The customer of a sale is there, unless the sale raced with a deletion.
THEOREM CustomerIsThereHolds == Spec => []CustomerIsThere
<1>1. ClientsInv => CustomerIsThere BY DEF ClientsInv, CustomerIsThere, L!SaleInv
<1> QED BY ClientsInit, ClientsNext, <1>1, PTL DEF Spec, all

\* A signature that was accepted stays on the contract, as long as no two
\* requests overlap and the storage provider answers with a url; where it does
\* not, no signature is on any.
THEOREM SignaturesKeptHolds == Spec => []SignaturesKept
<1>1. ClientsInv => SignaturesKept BY DEF ClientsInv, SignaturesKept, L!SignatureInv
<1> QED BY ClientsInit, ClientsNext, <1>1, PTL DEF Spec, all

\* A contract is dated if and only if its owner's signature is on it.
THEOREM DatedByOwnerHolds == Spec => []DatedByOwner
<1>1. ClientsInv => DatedByOwner BY DEF ClientsInv, DatedByOwner, L!SignatureInv
<1> QED BY ClientsInit, ClientsNext, <1>1, PTL DEF Spec, all

-----------------------------------------------------------------------------
(* Statistics: counting the rows of a table *)

\* The rows of a table that are of these classes.
RowsIn(classes, table) == {r \in DOMAIN table : table[r] \in classes}

LEMMA CountIsOfRows ==
  ASSUME NEW classes
  PROVE  /\ S!CountOf(classes) = Cardinality(RowsIn(classes, rows))
         /\ S!CountOf(classes)' = Cardinality(RowsIn(classes, rows'))
BY DEF S!CountOf, RowsIn, S!Cardinality, Cardinality

\* A table of rows has a number of them in any classes.
LEMMA CountIsNumber ==
  ASSUME NEW table \in Seq(S!Row), NEW classes
  PROVE  /\ IsFiniteSet(RowsIn(classes, table))
         /\ Cardinality(RowsIn(classes, table)) \in Nat
<1>1. Len(table) \in Nat /\ DOMAIN table = 1..Len(table) BY LenProperties
<1>2. IsFiniteSet(1..Len(table)) BY <1>1, FS_Interval
<1>3. RowsIn(classes, table) \in SUBSET (1..Len(table)) BY <1>1 DEF RowsIn
<1>4. IsFiniteSet(RowsIn(classes, table)) BY <1>2, <1>3, FS_Subset
<1> QED BY <1>4, FS_CardinalityType

\* Of no class, there is no row.
LEMMA CountNone ==
  ASSUME NEW table \in Seq(S!Row)
  PROVE  Cardinality(RowsIn({}, table)) = 0
<1>1. RowsIn({}, table) = {} BY DEF RowsIn
<1> QED BY <1>1, FS_EmptySet

\* Classes apart are counted apart.
LEMMA CountsAdd ==
  ASSUME NEW table \in Seq(S!Row), NEW a, NEW b, a \cap b = {}
  PROVE  Cardinality(RowsIn(a \cup b, table))
           = Cardinality(RowsIn(a, table)) + Cardinality(RowsIn(b, table))
<1>1. RowsIn(a \cup b, table) = RowsIn(a, table) \cup RowsIn(b, table) BY DEF RowsIn
<1>2. RowsIn(a, table) \cap RowsIn(b, table) = {} BY DEF RowsIn
<1>3. IsFiniteSet(RowsIn(a, table)) /\ IsFiniteSet(RowsIn(b, table)) BY CountIsNumber
<1>4. /\ Cardinality(RowsIn(a, table)) \in Nat
      /\ Cardinality(RowsIn(b, table)) \in Nat
  BY CountIsNumber
<1>5. Cardinality(RowsIn(a, table) \cap RowsIn(b, table)) = 0 BY <1>2, FS_EmptySet
<1> DEFINE x == Cardinality(RowsIn(a, table))
           y == Cardinality(RowsIn(b, table))
           z == Cardinality(RowsIn(a, table) \cap RowsIn(b, table))
           u == Cardinality(RowsIn(a \cup b, table))
<1>6. u = x + y - z BY <1>1, <1>3, FS_Union
<1>7. x \in Nat /\ y \in Nat /\ z = 0 BY <1>4, <1>5
<1>8. u = x + y
  <2> HIDE DEF x, y, z, u
  <2> QED BY <1>6, <1>7
<1> QED BY <1>8

\* A row more, or a class more, never makes a count less.
LEMMA CountGrows ==
  ASSUME NEW table \in Seq(S!Row), NEW later \in Seq(S!Row), NEW a, NEW b,
         \A r \in DOMAIN table : table[r] \in a => r \in DOMAIN later /\ later[r] \in b
  PROVE  Cardinality(RowsIn(a, table)) <= Cardinality(RowsIn(b, later))
<1>1. RowsIn(a, table) \in SUBSET RowsIn(b, later) BY DEF RowsIn
<1>2. IsFiniteSet(RowsIn(b, later)) BY CountIsNumber
<1> QED BY <1>1, <1>2, FS_Subset

-----------------------------------------------------------------------------
(* Statistics: the counts fit together *)

\* Parts are apart from one another and from their total, which counts all;
\* a total comes before or after all its parts.
LEMMA StatisticsShape ==
  ASSUME stats \in S!AllStats
  PROVE  /\ Len(stats.counts) = 3
         /\ stats.parts \subseteq 1..3
         /\ stats.total \in 1..3
         /\ stats.counts[stats.total] = S!Class
         /\ \A i \in stats.parts : stats.counts[i] \subseteq S!Class
         /\ \A i, j \in stats.parts : i # j => stats.counts[i] \cap stats.counts[j] = {}
         /\ stats.total = 1 => S!ClassesOf(stats.parts) # S!Class /\ ~stats.removals
         /\ IF stats.total = 1 THEN \A i \in stats.parts : i > 1
            ELSE \A i \in stats.parts : i < stats.total
<1>1. CASE stats = S!GetInventoryStats
  BY <1>1 DEF S!GetInventoryStats, S!Class, S!Removed
<1>2. CASE stats = S!GetCustomerStats
  BY <1>2 DEF S!GetCustomerStats, S!Class, S!Removed
<1>3. CASE stats = S!GetDeviceStats
  BY <1>3 DEF S!GetDeviceStats, S!Class, S!Removed
<1>4. CASE stats = S!GetAgentsStatistics
  <2>1. "other" \in S!Class /\ "other" \notin S!ClassesOf({2, 3})
    BY <1>4 DEF S!GetAgentsStatistics, S!Class, S!ClassesOf
  <2> QED BY <1>4, <2>1 DEF S!GetAgentsStatistics, S!Class, S!Removed
<1> QED BY <1>1, <1>2, <1>3, <1>4 DEF S!AllStats

\* What the counts are fit for, whether or not there is one more to read.
StatisticsFit == S!Harmless => IF stats.total = 1 THEN S!TotalFirst ELSE S!TotalLast

\* Parts are numbers.
LEMMA PartsAreNumbers ==
  ASSUME S!TypeOK
  PROVE  /\ \A i \in 1..3 : S!Part(i) \in Nat
         /\ S!SumOfParts \in Nat
<1>1. \A i \in DOMAIN answer.read : answer.read[i] \in Nat
  BY ElementOfSeq, LenProperties DEF S!TypeOK
<1>2. S!Part(1) \in Nat /\ S!Part(2) \in Nat /\ S!Part(3) \in Nat BY <1>1 DEF S!Part
<1>3. \A i \in 1..3 : i = 1 \/ i = 2 \/ i = 3 OBVIOUS
<1> QED BY <1>2, <1>3 DEF S!SumOfParts

\* Whoever writes meanwhile leaves what was read alone.
LEMMA NoteDoes ==
  ASSUME S!TypeOK, NEW c \in BOOLEAN, NEW r \in BOOLEAN, NEW h \in BOOLEAN,
         S!Note(c, r, h)
  PROVE  /\ answer' \in [at : {"idle", "counting", "answered"}, read : Seq(Nat),
                         created : BOOLEAN, removed : BOOLEAN, changed : BOOLEAN]
         /\ answer'.at = answer.at /\ answer'.read = answer.read
         /\ answer.at # "counting" => answer' = answer
         /\ answer.at = "counting" =>
              /\ answer'.created = (answer.created \/ c)
              /\ answer'.removed = (answer.removed \/ r)
              /\ answer'.changed = (answer.changed \/ h)
BY DEF S!Note, S!TypeOK

\* The parts read do not depend on the rows.
LEMMA PartsKept ==
  ASSUME S!TypeOK, stats' = stats, answer'.read = answer.read
  PROVE  /\ S!SumOfParts' = S!SumOfParts
         /\ S!Whole' = S!Whole
         /\ \A I : S!ClassesOf(I)' = S!ClassesOf(I)
<1>1. \A i : S!Part(i)' = S!Part(i) BY DEF S!Part
<1> QED BY <1>1 DEF S!SumOfParts, S!Whole, S!ClassesOf

\* The count of the parts read so far, and of those to come.
LEMMA PartsCounted ==
  ASSUME stats' = stats, NEW read, answer'.read = read
  PROVE  /\ S!CountOf(S!ClassesOf(stats.parts \cap DOMAIN answer.read))'
              = Cardinality(RowsIn(S!ClassesOf(stats.parts \cap DOMAIN read), rows'))
         /\ S!CountOf(S!ClassesOf(stats.parts \ DOMAIN answer.read))'
              = Cardinality(RowsIn(S!ClassesOf(stats.parts \ DOMAIN read), rows'))
BY DEF S!CountOf, S!ClassesOf, RowsIn, S!Cardinality, Cardinality

-----------------------------------------------------------------------------
(* Statistics: what the writes of others leave fit *)

LEMMA CreateFits ==
  ASSUME S!StatsInv, S!CreateRow
  PROVE  S!StatsInv'
<1> USE DEF S!StatsInv
<1>1. stats' = stats /\ writes' = writes /\ S!Note(TRUE, FALSE, FALSE) BY DEF S!CreateRow
<1>2. PICK c \in S!Class : rows' = Append(rows, c) BY DEF S!CreateRow
<1>3. rows' \in Seq(S!Row) /\ \A r \in DOMAIN rows : r \in DOMAIN rows' /\ rows'[r] = rows[r]
  BY <1>2, AppendProperties, LenProperties DEF S!TypeOK, S!Row
<1>4. S!TypeOK' BY <1>1, <1>3, NoteDoes DEF S!TypeOK
<1>5. S!InOrder' BY <1>1, NoteDoes DEF S!InOrder
<1>6. answer'.at # "counting" => S!StatsAddUp' BY <1>1, NoteDoes
      DEF S!StatsAddUp, S!Harmless, S!SumOfParts, S!Part
<1>7. answer'.at = "counting" => S!StatsAddUp' BY DEF S!StatsAddUp
<1>8. S!CountsFit'
  <2> SUFFICES ASSUME answer'.at = "counting", S!Harmless'
               PROVE  IF stats.total = 1 THEN S!TotalFirst' ELSE S!TotalLast'
    BY <1>1 DEF S!CountsFit
  <2>1. answer.at = "counting" /\ stats.total # 1 /\ S!Harmless
    BY <1>1, NoteDoes DEF S!Harmless
  <2>2. S!TotalLast BY <2>1 DEF S!CountsFit
  <2>3. answer'.read = answer.read /\ ~S!NothingWritten' BY <1>1, <2>1, NoteDoes
        DEF S!NothingWritten
  <2>4. /\ S!SumOfParts' = S!SumOfParts
        /\ S!Whole' = S!Whole
        /\ \A I : S!ClassesOf(I)' = S!ClassesOf(I)
    BY <1>1, <2>3, PartsKept
  <2>5. CASE stats.total \in DOMAIN answer.read
    BY <1>1, <2>1, <2>2, <2>3, <2>4, <2>5 DEF S!TotalLast
  <2>6. CASE stats.total \notin DOMAIN answer.read
    <3> DEFINE K == S!ClassesOf(stats.parts \cap DOMAIN answer.read)
    <3>1. S!SumOfParts <= S!CountOf(K) BY <2>2, <2>6 DEF S!TotalLast
    <3>2. Cardinality(RowsIn(K, rows)) <= Cardinality(RowsIn(K, rows'))
      BY <1>3, CountGrows DEF S!TypeOK
    <3>3. /\ Cardinality(RowsIn(K, rows)) \in Nat
          /\ Cardinality(RowsIn(K, rows')) \in Nat
      BY <1>3, CountIsNumber DEF S!TypeOK
    <3>4. S!SumOfParts <= Cardinality(RowsIn(K, rows'))
      <4> DEFINE x == Cardinality(RowsIn(K, rows))
                 y == Cardinality(RowsIn(K, rows'))
      <4>1. S!SumOfParts <= x BY <3>1, CountIsOfRows
      <4>2. S!SumOfParts \in Nat BY PartsAreNumbers
      <4>3. x \in Nat /\ y \in Nat /\ x <= y BY <3>2, <3>3
      <4>4. S!SumOfParts <= y
        <5> HIDE DEF x, y
        <5> QED BY <4>1, <4>2, <4>3
      <4> QED BY <4>4
    <3>5. S!CountOf(S!ClassesOf(stats.parts \cap DOMAIN answer.read))'
            = Cardinality(RowsIn(K, rows'))
      BY <1>1, <2>3, PartsCounted
    <3> QED BY <1>1, <2>1, <2>3, <2>4, <2>6, <3>4, <3>5 DEF S!TotalLast
  <2> QED BY <2>5, <2>6
<1> QED BY <1>4, <1>5, <1>6, <1>7, <1>8

LEMMA ChangeFits ==
  ASSUME S!StatsInv, S!ChangeRow \/ S!RemoveRow
  PROVE  S!StatsInv'
<1> USE DEF S!StatsInv
<1>1. stats' = stats /\ writes' = writes + 1 BY DEF S!ChangeRow, S!RemoveRow
<1>2. rows' \in Seq(S!Row)
  <2>1. PICK r \in DOMAIN rows, c \in S!Row : rows' = [rows EXCEPT ![r] = c]
    <3>1. CASE S!ChangeRow BY <3>1 DEF S!ChangeRow, S!Row
    <3>2. CASE S!RemoveRow BY <3>2 DEF S!RemoveRow, S!Row
    <3> QED BY <3>1, <3>2
  <2>2. rows \in Seq(S!Row) /\ r \in 1..Len(rows) BY LenProperties DEF S!TypeOK
  <2> QED BY <2>1, <2>2, ExceptSeq
<1>3. S!Note(FALSE, FALSE, TRUE) \/ (S!Note(FALSE, TRUE, FALSE) /\ stats.removals)
  BY DEF S!ChangeRow, S!RemoveRow
<1>4. /\ answer' \in [at : {"idle", "counting", "answered"}, read : Seq(Nat),
                      created : BOOLEAN, removed : BOOLEAN, changed : BOOLEAN]
      /\ answer'.at = answer.at /\ answer'.read = answer.read
      /\ answer.at # "counting" => answer' = answer
      /\ answer.at = "counting" => answer'.changed \/ (answer'.removed /\ stats.removals)
  BY <1>3, NoteDoes
<1>5. S!TypeOK' BY <1>1, <1>2, <1>4 DEF S!TypeOK
<1>6. S!InOrder' BY <1>1, <1>4 DEF S!InOrder
<1>7. S!StatsAddUp'
  BY <1>1, <1>4 DEF S!StatsAddUp, S!Harmless, S!SumOfParts, S!Part
<1>8. S!CountsFit'
  <2>1. answer'.at = "counting" => ~S!Harmless'
    BY <1>1, <1>4, StatisticsShape DEF S!Harmless, S!InOrder
  <2> QED BY <2>1 DEF S!CountsFit
<1> QED BY <1>5, <1>6, <1>7, <1>8

\* A request begins with nothing read.
LEMMA AskFits ==
  ASSUME S!StatsInv, S!Ask
  PROVE  S!StatsInv'
<1> USE DEF S!StatsInv
<1>1. /\ stats' = stats /\ rows' = rows /\ writes' = writes
      /\ answer' = [S!Idle EXCEPT !.at = "counting"]
  BY DEF S!Ask
<1>2. /\ answer'.at = "counting" /\ answer'.read = <<>>
      /\ answer'.created = FALSE /\ answer'.removed = FALSE /\ answer'.changed = FALSE
  BY <1>1 DEF S!Idle
<1>3. S!TypeOK'
  <2>1. <<>> \in Seq(Nat) BY EmptySeq
  <2> QED BY <1>1, <2>1 DEF S!TypeOK, S!Idle
<1>4. DOMAIN answer'.read = {} /\ Len(answer'.read) = 0 BY <1>2
<1>5. S!InOrder' BY <1>1, <1>2, <1>4 DEF S!InOrder
<1>6. S!StatsAddUp' BY <1>2 DEF S!StatsAddUp
<1>7. S!SumOfParts' = 0 BY <1>4 DEF S!SumOfParts, S!Part
<1>8. S!CountsFit'
  <2>1. S!CountOf(S!ClassesOf(stats.parts \cap DOMAIN answer.read))'
          = Cardinality(RowsIn(S!ClassesOf(stats.parts \cap DOMAIN <<>>), rows'))
    BY <1>1, <1>2, PartsCounted
  <2>2. S!ClassesOf(stats.parts \cap DOMAIN <<>>) = {} BY DEF S!ClassesOf
  <2>3. Cardinality(RowsIn({}, rows')) = 0 BY <1>3, CountNone DEF S!TypeOK
  <2>4. S!CountOf(S!ClassesOf(stats.parts \cap DOMAIN answer.read))' = 0
    BY <2>1, <2>2, <2>3
  <2>5. S!TotalLast' BY <1>4, <1>7, <2>4 DEF S!TotalLast
  <2>6. S!TotalFirst' BY <1>4 DEF S!TotalFirst
  <2> QED BY <2>5, <2>6 DEF S!CountsFit
<1> QED BY <1>3, <1>5, <1>6, <1>8

-----------------------------------------------------------------------------
(* Statistics: one count more *)

\* What Count does: it reads a number.
LEMMA CountDoes ==
  ASSUME S!StatsInv, S!Count
  PROVE  \E n \in 0..2 :
           LET c == Cardinality(RowsIn(stats.counts[n + 1], rows))
           IN  /\ Len(answer.read) = n
               /\ stats' = stats /\ rows' = rows /\ writes' = writes
               /\ c \in Nat
               /\ answer'.read = Append(answer.read, c)
               /\ answer'.at = IF n = 2 THEN "answered" ELSE "counting"
               /\ answer'.created = answer.created
               /\ answer'.removed = answer.removed
               /\ answer'.changed = answer.changed
               /\ S!TypeOK'
<1> USE DEF S!StatsInv
<1> DEFINE n == Len(answer.read)
           c == Cardinality(RowsIn(stats.counts[n + 1], rows))
<1>1. answer.read \in Seq(Nat) BY DEF S!TypeOK
<1>2. n \in 0..2
  <2>1. n \in Nat BY <1>1, LenProperties
  <2>2. n < 3 BY DEF S!Count, S!InOrder
  <2> HIDE DEF n
  <2> QED BY <2>1, <2>2
<1>3. c \in Nat BY CountIsNumber DEF S!TypeOK
<1>4. S!CountOf(stats.counts[n + 1]) = c BY CountIsOfRows
<1>5. Append(answer.read, c) \in Seq(Nat) /\ Len(Append(answer.read, c)) = n + 1
  BY <1>1, <1>3, AppendProperties
<1>6. Len(stats.counts) = 3 BY StatisticsShape DEF S!InOrder
<1>7. answer' = [answer EXCEPT !.read = Append(answer.read, c),
                   !.at = IF n + 1 = 3 THEN "answered" ELSE "counting"]
  BY <1>4, <1>5, <1>6 DEF S!Count
<1>8. stats' = stats /\ rows' = rows /\ writes' = writes BY DEF S!Count
<1>9. /\ answer'.read = Append(answer.read, c)
      /\ answer'.at = IF n = 2 THEN "answered" ELSE "counting"
      /\ answer'.created = answer.created
      /\ answer'.removed = answer.removed
      /\ answer'.changed = answer.changed
  <2> HIDE DEF n, c
  <2> QED BY <1>2, <1>7 DEF S!TypeOK
<1>10. S!TypeOK'
  <2> HIDE DEF c
  <2> QED BY <1>2, <1>5, <1>7, <1>8 DEF S!TypeOK
<1> QED BY <1>2, <1>3, <1>8, <1>9, <1>10


\* The parts read: those read before, and this count if it is one of them.
LEMMA CountedSum ==
  ASSUME S!StatsInv, NEW n \in 0..2, NEW c \in Nat, Len(answer.read) = n,
         stats' = stats, answer'.read = Append(answer.read, c)
  PROVE  /\ DOMAIN answer.read = 1..n
         /\ DOMAIN answer'.read = 1..n + 1
         /\ \A i \in 1..n : answer'.read[i] = answer.read[i]
         /\ answer'.read[n + 1] = c
         /\ S!SumOfParts' = S!SumOfParts + (IF n + 1 \in stats.parts THEN c ELSE 0)
<1> USE DEF S!StatsInv
<1>1. answer.read \in Seq(Nat) BY DEF S!TypeOK
<1>2. /\ DOMAIN answer.read = 1..n
      /\ DOMAIN answer'.read = 1..n + 1
      /\ \A i \in 1..n : answer'.read[i] = answer.read[i]
      /\ answer'.read[n + 1] = c
  BY <1>1, AppendProperties, LenProperties
<1>3. \A i \in 1..3 : S!Part(i) \in Nat BY PartsAreNumbers
<1>4. \A i \in 1..3 : i # n + 1 => S!Part(i)' = S!Part(i) BY <1>2 DEF S!Part
<1>5. S!Part(n + 1) = 0 BY <1>2 DEF S!Part
<1>6. S!Part(n + 1)' = IF n + 1 \in stats.parts THEN c ELSE 0 BY <1>2 DEF S!Part
<1> HIDE DEF S!StatsInv
<1>7. CASE n = 0 BY <1>3, <1>4, <1>5, <1>6, <1>7 DEF S!SumOfParts
<1>8. CASE n = 1
  <2>1. S!Part(1)' = S!Part(1) /\ S!Part(3)' = S!Part(3) BY <1>4, <1>8
  <2>2. S!Part(2) = 0 /\ S!Part(2)' = IF n + 1 \in stats.parts THEN c ELSE 0
    BY <1>5, <1>6, <1>8
  <2>3. S!Part(1) \in Nat /\ S!Part(3) \in Nat BY <1>3
  <2> QED BY <2>1, <2>2, <2>3 DEF S!SumOfParts
<1>9. CASE n = 2
  <2>1. S!Part(1)' = S!Part(1) /\ S!Part(2)' = S!Part(2) BY <1>4, <1>9
  <2>2. S!Part(3) = 0 /\ S!Part(3)' = IF n + 1 \in stats.parts THEN c ELSE 0
    BY <1>5, <1>6, <1>9
  <2>3. S!Part(1) \in Nat /\ S!Part(2) \in Nat BY <1>3
  <2> QED BY <2>1, <2>2, <2>3 DEF S!SumOfParts
<1> QED BY <1>2, <1>7, <1>8, <1>9

\* One part more among the classes.
LEMMA OneClassMore ==
  ASSUME stats \in S!AllStats, rows \in Seq(S!Row), NEW I \in SUBSET stats.parts,
         NEW j \in stats.parts \ I
  PROVE  Cardinality(RowsIn(S!ClassesOf(I \cup {j}), rows))
           = Cardinality(RowsIn(S!ClassesOf(I), rows))
             + Cardinality(RowsIn(stats.counts[j], rows))
<1>1. S!ClassesOf(I \cup {j}) = S!ClassesOf(I) \cup stats.counts[j] BY DEF S!ClassesOf
<1>2. S!ClassesOf(I) \cap stats.counts[j] = {} BY StatisticsShape DEF S!ClassesOf
<1> QED BY <1>1, <1>2, CountsAdd

\* Of the classes of some parts, there are at most as many rows as in all.
LEMMA PartsWithinAll ==
  ASSUME stats \in S!AllStats, rows \in Seq(S!Row), NEW I \in SUBSET stats.parts
  PROVE  /\ Cardinality(RowsIn(S!ClassesOf(I), rows)) <= Cardinality(RowsIn(S!Class, rows))
         /\ Cardinality(RowsIn(S!ClassesOf(I), rows)) \in Nat
         /\ Cardinality(RowsIn(S!Class, rows)) \in Nat
<1>1. S!ClassesOf(I) \subseteq S!Class BY StatisticsShape DEF S!ClassesOf
<1> QED BY <1>1, CountGrows, CountIsNumber

LEMMA CountFits ==
  ASSUME S!StatsInv, S!Count
  PROVE  S!StatsInv'
<1> USE DEF S!StatsInv
<1>1. PICK n \in 0..2 :
        LET c == Cardinality(RowsIn(stats.counts[n + 1], rows))
        IN  /\ Len(answer.read) = n
            /\ stats' = stats /\ rows' = rows /\ writes' = writes
            /\ c \in Nat
            /\ answer'.read = Append(answer.read, c)
            /\ answer'.at = IF n = 2 THEN "answered" ELSE "counting"
            /\ answer'.created = answer.created
            /\ answer'.removed = answer.removed
            /\ answer'.changed = answer.changed
            /\ S!TypeOK'
  BY CountDoes
<1>2. PICK c : c = Cardinality(RowsIn(stats.counts[n + 1], rows)) OBVIOUS
<1>3. /\ Len(answer.read) = n
      /\ stats' = stats /\ rows' = rows
      /\ c \in Nat
      /\ answer'.read = Append(answer.read, c)
      /\ answer'.at = IF n = 2 THEN "answered" ELSE "counting"
      /\ answer.at = "counting"
  BY <1>1, <1>2 DEF S!Count
<1>4. /\ DOMAIN answer.read = 1..n
      /\ DOMAIN answer'.read = 1..n + 1
      /\ \A i \in 1..n : answer'.read[i] = answer.read[i]
      /\ answer'.read[n + 1] = c
      /\ S!SumOfParts' = S!SumOfParts + (IF n + 1 \in stats.parts THEN c ELSE 0)
  BY <1>3, CountedSum
<1>5. /\ S!Harmless' = S!Harmless
      /\ S!NothingWritten' = S!NothingWritten
      /\ \A I : S!ClassesOf(I)' = S!ClassesOf(I)
  BY <1>1 DEF S!Harmless, S!NothingWritten, S!ClassesOf
<1>6. stats \in S!AllStats /\ rows \in Seq(S!Row) BY DEF S!InOrder, S!TypeOK
<1>7. /\ stats.parts \subseteq 1..3 /\ stats.total \in 1..3
      /\ stats.counts[stats.total] = S!Class
      /\ stats.total = 1 => S!ClassesOf(stats.parts) # S!Class
      /\ IF stats.total = 1 THEN \A i \in stats.parts : i > 1
         ELSE \A i \in stats.parts : i < stats.total
  BY <1>6, StatisticsShape
<1>8. S!SumOfParts \in Nat BY PartsAreNumbers
<1>9. ASSUME S!Harmless, stats.total = 1
      PROVE  S!TotalFirst'
  <2> DEFINE before == stats.parts \ (1..n)
             after == stats.parts \ (1..n + 1)
             x == Cardinality(RowsIn(S!ClassesOf(before), rows))
             y == Cardinality(RowsIn(S!ClassesOf(after), rows))
  <2>1. S!CountOf(S!ClassesOf(stats.parts \ DOMAIN answer.read))' = y
    BY <1>3, <1>4, <1>1, PartsCounted
  <2>2. x \in Nat /\ y \in Nat BY <1>6, PartsWithinAll
  <2>3. S!SumOfParts' + y <= S!Whole'
    <3>1. CASE n = 0
      <4>1. y <= c BY <1>2, <1>6, <1>7, <1>9, <3>1, PartsWithinAll
      <4>2. S!SumOfParts = 0 BY <1>4, <3>1 DEF S!SumOfParts, S!Part
      <4>3. S!Whole' = c BY <1>3, <1>4, <1>9, <3>1 DEF S!Whole
      <4>4. S!SumOfParts' = 0 BY <1>4, <1>7, <1>9, <3>1, <4>2
      <4> HIDE DEF y
      <4> QED BY <1>3, <2>2, <4>1, <4>3, <4>4
    <3>2. CASE n # 0
      <4>1. S!SumOfParts + x <= S!Whole
        <5>1. S!TotalFirst BY <1>3, <1>9 DEF S!CountsFit
        <5>2. 1 \in DOMAIN answer.read BY <1>4, <3>2
        <5>3. S!CountOf(S!ClassesOf(stats.parts \ DOMAIN answer.read)) = x
          BY <1>4, CountIsOfRows
        <5> QED BY <5>1, <5>2, <5>3 DEF S!TotalFirst
      <4>2. S!Whole' = S!Whole BY <1>3, <1>4, <1>9, <3>2 DEF S!Whole
      <4>3. CASE n + 1 \in stats.parts
        <5>1. x = y + c
          <6>1. before = after \cup {n + 1} /\ n + 1 \notin after BY <4>3
          <6>2. after \in SUBSET stats.parts OBVIOUS
          <6>3. Cardinality(RowsIn(S!ClassesOf(after \cup {n + 1}), rows)) = y + c
            BY <1>2, <1>6, <4>3, <6>1, <6>2, OneClassMore
          <6> QED BY <6>1, <6>3
        <5> HIDE DEF x, y
        <5> QED BY <1>3, <1>4, <1>8, <2>2, <4>1, <4>2, <4>3, <5>1
      <4>4. CASE n + 1 \notin stats.parts
        <5>1. before = after BY <4>4
        <5>2. x = y BY <5>1
        <5> HIDE DEF x, y
        <5> QED BY <1>3, <1>4, <1>8, <2>2, <4>1, <4>2, <4>4, <5>2
      <4> QED BY <4>3, <4>4
    <3> QED BY <3>1, <3>2
  <2> QED BY <2>1, <2>3 DEF S!TotalFirst
<1>10. ASSUME S!Harmless, stats.total # 1
       PROVE  S!TotalLast'
  <2>1. S!TotalLast BY <1>3, <1>10 DEF S!CountsFit
  <2> DEFINE before == stats.parts \cap (1..n)
             after == stats.parts \cap (1..n + 1)
             x == Cardinality(RowsIn(S!ClassesOf(before), rows))
             y == Cardinality(RowsIn(S!ClassesOf(after), rows))
  <2>2. x \in Nat /\ y \in Nat BY <1>6, PartsWithinAll
  <2>3. CASE stats.total <= n
    <3>1. stats.total \in DOMAIN answer.read /\ stats.total \in DOMAIN answer'.read
      BY <1>4, <1>7, <2>3
    <3>2. S!SumOfParts <= S!Whole
          /\ (S!NothingWritten /\ S!ClassesOf(stats.parts) = S!Class => S!SumOfParts = S!Whole)
      BY <2>1, <3>1 DEF S!TotalLast
    <3>3. n + 1 \notin stats.parts BY <1>7, <1>10, <2>3
    <3>4. S!SumOfParts' = S!SumOfParts BY <1>4, <1>8, <3>3
    <3>5. S!Whole' = S!Whole BY <1>3, <1>4, <1>7, <2>3 DEF S!Whole
    <3> QED BY <1>3, <1>5, <3>1, <3>2, <3>4, <3>5 DEF S!TotalLast
  <2>4. CASE stats.total > n
    <3>1. S!SumOfParts <= x /\ (S!NothingWritten => S!SumOfParts = x)
      <4>1. stats.total \notin DOMAIN answer.read BY <1>4, <1>7, <2>4
      <4>2. S!CountOf(S!ClassesOf(stats.parts \cap DOMAIN answer.read)) = x
        BY <1>4, CountIsOfRows
      <4> QED BY <2>1, <4>1, <4>2 DEF S!TotalLast
    <3>2. CASE stats.total = n + 1
      <4>1. before = stats.parts BY <1>7, <1>10, <3>2
      <4>2. c = Cardinality(RowsIn(S!Class, rows)) BY <1>2, <1>7, <3>2
      <4>3. x <= c BY <1>6, <4>2, PartsWithinAll
      <4>4. S!ClassesOf(stats.parts) = S!Class => x = c BY <4>1, <4>2
      <4>5. S!SumOfParts' = S!SumOfParts BY <1>4, <1>7, <1>8, <1>10, <3>2
      <4>6. S!Whole' = c BY <1>3, <1>4, <3>2 DEF S!Whole
      <4>7. stats.total \in DOMAIN answer'.read BY <1>4, <3>2
      <4>8. S!SumOfParts' <= S!Whole'
            /\ (S!NothingWritten /\ S!ClassesOf(stats.parts) = S!Class
                  => S!SumOfParts' = S!Whole')
        <5> HIDE DEF x
        <5> QED BY <1>3, <1>8, <2>2, <3>1, <4>3, <4>4, <4>5, <4>6
      <4> QED BY <1>3, <1>5, <4>7, <4>8 DEF S!TotalLast
    <3>3. CASE stats.total # n + 1
      <4>1. stats.total \notin DOMAIN answer'.read BY <1>4, <1>7, <2>4, <3>3
      <4>2. S!CountOf(S!ClassesOf(stats.parts \cap DOMAIN answer.read))' = y
        BY <1>1, <1>3, <1>4, PartsCounted
      <4>3. S!SumOfParts' <= y /\ (S!NothingWritten => S!SumOfParts' = y)
        <5>1. CASE n + 1 \in stats.parts
          <6>1. y = x + c
            <7>1. after = before \cup {n + 1} /\ n + 1 \notin before BY <5>1
            <7>2. before \in SUBSET stats.parts OBVIOUS
            <7>3. Cardinality(RowsIn(S!ClassesOf(before \cup {n + 1}), rows)) = x + c
              BY <1>2, <1>6, <5>1, <7>1, <7>2, OneClassMore
            <7> QED BY <7>1, <7>3
          <6> HIDE DEF x, y
          <6> QED BY <1>3, <1>4, <1>8, <2>2, <3>1, <5>1, <6>1
        <5>2. CASE n + 1 \notin stats.parts
          <6>1. after = before BY <5>2
          <6>2. y = x BY <6>1
          <6> HIDE DEF x, y
          <6> QED BY <1>3, <1>4, <1>8, <2>2, <3>1, <5>2, <6>2
        <5> QED BY <5>1, <5>2
      <4> QED BY <1>3, <1>5, <4>1, <4>2, <4>3 DEF S!TotalLast
    <3> QED BY <3>2, <3>3
  <2> QED BY <1>7, <2>3, <2>4
<1>11. S!CountsFit' BY <1>3, <1>5, <1>9, <1>10 DEF S!CountsFit
<1>12. S!InOrder'
  <2>1. Len(answer'.read) = n + 1 BY <1>3, AppendProperties DEF S!TypeOK
  <2> QED BY <1>3, <1>6, <2>1 DEF S!InOrder
<1>13. S!StatsAddUp'
  <2> SUFFICES ASSUME n = 2, S!Harmless'
               PROVE  /\ S!SumOfParts' <= S!Whole'
                      /\ S!NothingWritten' /\ S!ClassesOf(stats.parts) = S!Class
                           => S!SumOfParts' = S!Whole'
    BY <1>3, <1>5 DEF S!StatsAddUp, S!NothingWritten, S!ClassesOf, S!Whole
  <2>1. DOMAIN answer'.read = 1..3 BY <1>4
  <2>2. CASE stats.total = 1
    <3>1. stats.parts \ (1..3) = {} BY <1>7
    <3>2. S!CountOf(S!ClassesOf(stats.parts \ DOMAIN answer.read))' = 0
      <4>1. S!CountOf(S!ClassesOf(stats.parts \ DOMAIN answer.read))'
              = Cardinality(RowsIn(S!ClassesOf(stats.parts \ (1..3)), rows))
        BY <1>1, <1>3, <2>1, PartsCounted
      <4>2. S!ClassesOf({}) = {} BY DEF S!ClassesOf
      <4> QED BY <1>6, <3>1, <4>1, <4>2, CountNone
    <3>3. S!TotalFirst' BY <1>5, <1>9, <2>2
    <3>4. S!SumOfParts' + 0 <= S!Whole' BY <2>1, <3>2, <3>3 DEF S!TotalFirst
    <3>5. S!SumOfParts' \in Nat BY <1>4, <1>8, <1>3
    <3> QED BY <1>7, <2>2, <3>4, <3>5
  <2>3. CASE stats.total # 1
    <3>1. S!TotalLast' BY <1>5, <1>10, <2>3
    <3>2. stats'.total \in DOMAIN answer'.read BY <1>3, <1>7, <2>1
    <3> QED BY <1>3, <1>5, <3>1, <3>2 DEF S!TotalLast
  <2> QED BY <2>2, <2>3
<1> QED BY <1>1, <1>11, <1>12, <1>13

-----------------------------------------------------------------------------
(* Statistics: every behaviour *)

LEMMA StatisticsNext == S!StatsInv /\ [S!Next]_S!vars => S!StatsInv'
<1> SUFFICES ASSUME S!StatsInv, [S!Next]_S!vars
             PROVE  S!StatsInv'
  OBVIOUS
<1>1. CASE UNCHANGED S!vars
  BY <1>1 DEF S!vars, S!StatsInv, S!TypeOK, S!InOrder, S!CountsFit, S!StatsAddUp, S!Harmless,
     S!TotalFirst, S!TotalLast, S!Whole, S!NothingWritten, S!ClassesOf, S!CountOf,
     S!SumOfParts, S!Part
<1>2. CASE S!Next BY <1>2, CreateFits, ChangeFits, AskFits, CountFits DEF S!Next
<1> QED BY <1>1, <1>2

LEMMA StatisticsInit == S!Init => S!StatsInv
<1> SUFFICES ASSUME S!Init PROVE S!StatsInv OBVIOUS
<1>1. rows \in Seq(S!Row) /\ <<>> \in Seq(Nat) BY EmptySeq DEF S!Init
<1> QED BY <1>1 DEF S!Init, S!Idle, S!StatsInv, S!TypeOK, S!InOrder, S!CountsFit, S!StatsAddUp

StatisticsInv == part = "statistics" => S!StatsInv

LEMMA StatisticsInvInit == Init => StatisticsInv
BY PartBegins, StatisticsInit DEF StatisticsInv

LEMMA StatisticsInvNext == StatisticsInv /\ [Next]_all => StatisticsInv'
BY PartSteps, StatisticsNext DEF StatisticsInv

\* The parts of a statistic are never more than its total, as long as the rows
\* written while it is counted are of a kind its order of reads allows for.
THEOREM StatsAddUpHolds == Spec => []StatsAddUp
<1>1. StatisticsInv => StatsAddUp BY DEF StatisticsInv, StatsAddUp, S!StatsInv
<1> QED BY StatisticsInvInit, StatisticsInvNext, <1>1, PTL DEF Spec, all

-----------------------------------------------------------------------------
(* Listings: the place of a row in the order *)

\* The rows of a table that a query finds, filtered or not, which of two may
\* come first, and how many come before row r.
Found(l, table, f) ==
  {r \in DOMAIN table :
     /\ table[r].state \in (IF l.hides THEN {"live"} ELSE {"live", "soft"})
     /\ f => table[r].tag = "a"}
ComesFirst(l, table, q, r) == l.by # "none" => table[q].key <= table[r].key
Before(l, table, f, r) == {q \in Found(l, table, f) : q # r /\ ComesFirst(l, table, q, r)}
Place(l, table, f, r) == Cardinality(Before(l, table, f, r))

LEMMA PlacesAre ==
  /\ P!Matching = Found(list, rows, walk.filter)
  /\ P!Matching' = Found(list', rows', walk'.filter)
  /\ \A q, r : P!MayPrecede(q, r) = ComesFirst(list, rows, q, r)
  /\ \A r : P!Cardinality(P!Ahead(r)) = Place(list, rows, walk.filter, r)
  /\ \A r : P!Cardinality(P!Ahead(r))' = Place(list', rows', walk'.filter, r)
BY DEF P!Matching, P!Matches, Found, P!MayPrecede, ComesFirst, P!Ahead, Before, Place,
   P!Cardinality, Cardinality

\* There are finitely many rows, so there are numbers of them.
LEMMA PlaceIsNumber ==
  ASSUME NEW l, NEW table \in Seq(P!Row), NEW f, NEW r
  PROVE  /\ IsFiniteSet(Found(l, table, f)) /\ Found(l, table, f) \subseteq 1..Len(table)
         /\ IsFiniteSet(Before(l, table, f, r))
         /\ Cardinality(Found(l, table, f)) \in Nat
         /\ Place(l, table, f, r) \in Nat
<1>1. Len(table) \in Nat /\ DOMAIN table = 1..Len(table) BY LenProperties
<1>2. IsFiniteSet(1..Len(table)) BY <1>1, FS_Interval
<1>3. Found(l, table, f) \in SUBSET (1..Len(table)) BY <1>1 DEF Found
<1>4. IsFiniteSet(Found(l, table, f)) BY <1>2, <1>3, FS_Subset
<1>5. Before(l, table, f, r) \in SUBSET Found(l, table, f) BY DEF Before
<1>6. IsFiniteSet(Before(l, table, f, r)) BY <1>4, <1>5, FS_Subset
<1> QED BY <1>3, <1>4, <1>6, FS_CardinalityType DEF Place

\* A row that is found has fewer before it than are found.
LEMMA PlaceWithinFound ==
  ASSUME NEW l, NEW table \in Seq(P!Row), NEW f, NEW r \in Found(l, table, f)
  PROVE  Place(l, table, f, r) < Cardinality(Found(l, table, f))
<1> DEFINE F == Found(l, table, f)
           n == Cardinality(F)
           m == Cardinality(F \ {r})
           k == Place(l, table, f, r)
<1>1. IsFiniteSet(F) /\ n \in Nat /\ k \in Nat BY PlaceIsNumber
<1>2. IsFiniteSet(F \ {r}) /\ m = n - 1 BY <1>1, FS_RemoveElement
<1>3. Before(l, table, f, r) \in SUBSET (F \ {r}) BY DEF Before
<1>4. k <= m BY <1>2, <1>3, FS_Subset DEF Place
<1> HIDE DEF n, m, k
<1>5. k < n BY <1>1, <1>2, <1>4
<1> QED BY <1>5 DEF n, k

\* Where fewer rows come before, the place is no later.
LEMMA PlaceNoLater ==
  ASSUME NEW l, NEW table \in Seq(P!Row), NEW f, NEW later \in Seq(P!Row), NEW r,
         Before(l, later, f, r) \subseteq Before(l, table, f, r)
  PROVE  Place(l, later, f, r) <= Place(l, table, f, r)
<1>1. IsFiniteSet(Before(l, table, f, r)) BY PlaceIsNumber
<1> QED BY <1>1, FS_Subset DEF Place

\* The rows of a table can be compared.
LEMMA KeysCompare ==
  ASSUME NEW table \in Seq(P!Row)
  PROVE  \A r \in DOMAIN table : table[r].key \in Nat
<1> TAKE r \in DOMAIN table
<1>1. table[r] \in P!Row BY ElementOfSeq, LenProperties
<1> QED BY <1>1, KeysAreNumbers DEF P!Row

\* One row is written and keeps what it is sorted by: the others move back
\* unless it leaves, and forward unless it comes, but for behind them all.
LEMMA WriteMoves ==
  ASSUME NEW l, NEW f, NEW table \in Seq(P!Row), NEW later \in Seq(P!Row), NEW r,
         DOMAIN table \subseteq DOMAIN later, r \in DOMAIN later,
         \A q \in DOMAIN later \ {r} : q \in DOMAIN table /\ later[q] = table[q],
         r \in DOMAIN table => later[r].key = table[r].key,
         NEW x \in DOMAIN table
  PROVE  /\ (r \in Found(l, table, f) => r \in Found(l, later, f))
              => Place(l, table, f, x) <= Place(l, later, f, x)
         /\ (\/ r \in Found(l, later, f) => r \in Found(l, table, f)
             \/ l.by # "none" /\ \A q \in DOMAIN table \ {r} : table[q].key < later[r].key)
              => Place(l, later, f, x) <= Place(l, table, f, x)
<1>1. \A q \in DOMAIN table : q \in DOMAIN later /\ later[q].key = table[q].key OBVIOUS
<1>2. \A q \in DOMAIN table : ComesFirst(l, later, q, x) = ComesFirst(l, table, q, x)
  BY <1>1 DEF ComesFirst
<1>3. \A q : q # r => (q \in Found(l, later, f) <=> q \in Found(l, table, f))
  BY DEF Found
<1>4. Found(l, table, f) \subseteq DOMAIN table BY DEF Found
<1>5. ASSUME r \in Found(l, table, f) => r \in Found(l, later, f)
      PROVE  Place(l, table, f, x) <= Place(l, later, f, x)
  <2>1. Before(l, table, f, x) \subseteq Before(l, later, f, x)
    BY <1>2, <1>3, <1>4, <1>5 DEF Before
  <2> QED BY <2>1, PlaceNoLater
<1>6. ASSUME r \in Found(l, later, f) => r \in Found(l, table, f)
      PROVE  Place(l, later, f, x) <= Place(l, table, f, x)
  <2>1. Before(l, later, f, x) \subseteq Before(l, table, f, x)
    BY <1>2, <1>3, <1>4, <1>6 DEF Before
  <2> QED BY <2>1, PlaceNoLater
<1>7. ASSUME l.by # "none", \A q \in DOMAIN table \ {r} : table[q].key < later[r].key
      PROVE  Place(l, later, f, x) <= Place(l, table, f, x)
  <2>1. r # x => ~(later[r].key <= later[x].key)
    <3>1. later[r].key \in Nat /\ later[x].key \in Nat BY <1>1, KeysCompare
    <3> QED BY <1>1, <1>7, <3>1
  <2>2. r \notin Before(l, later, f, x) BY <1>7, <2>1 DEF Before, ComesFirst
  <2>3. Before(l, later, f, x) \subseteq Before(l, table, f, x)
    BY <1>2, <1>3, <1>4, <2>2 DEF Before
  <2> QED BY <2>3, PlaceNoLater
<1> QED BY <1>5, <1>6, <1>7
-----------------------------------------------------------------------------
(* Listings: the rows of a page *)

\* From 1 to n there are n numbers.
LEMMA AsManyAsCounted ==
  ASSUME NEW n \in Nat
  PROVE  IsFiniteSet(1..n) /\ Cardinality(1..n) = n
<1>1. IsFiniteSet(1..n) /\ Cardinality(1..n) = IF 1 > n THEN 0 ELSE n - 1 + 1 BY FS_Interval
<1>2. (IF 1 > n THEN 0 ELSE n - 1 + 1) = n OBVIOUS
<1> QED BY <1>1, <1>2

\* An order lists what the query finds, each row once, none before one it has
\* to follow.
LEMMA OrderIs ==
  ASSUME rows \in Seq(P!Row), NEW order \in P!Orders
  PROVE  LET F == Found(list, rows, walk.filter)
             n == Cardinality(F)
         IN  /\ n \in Nat
             /\ order \in [1..n -> F] /\ Len(order) = n
             /\ \A i, j \in 1..n : order[i] = order[j] => i = j
             /\ \A i, j \in 1..n : i < j => ComesFirst(list, rows, order[i], order[j])
             /\ \A r \in F : \E i \in 1..n : order[i] = r
<1> DEFINE F == Found(list, rows, walk.filter)
           n == Cardinality(F)
<1>1. n \in Nat /\ IsFiniteSet(F) BY PlaceIsNumber
<1>2. order \in P!SetToSeqs(F)
      /\ \A i, j \in DOMAIN order : i < j => ComesFirst(list, rows, order[i], order[j])
  BY PlacesAre DEF P!Orders
<1>3. order \in [1..n -> F] /\ \A i, j \in 1..n : order[i] = order[j] => i = j
  BY <1>2 DEF P!SetToSeqs, P!Cardinality, Cardinality
<1>4. Len(order) = n
  <2>1. order \in Seq(F) BY <1>1, <1>3
  <2> QED BY <1>1, <1>3, <2>1, LenProperties
<1>5. order \in Injection(1..n, F) BY <1>3 DEF Injection, IsInjective
<1>6. IsFiniteSet(1..n) /\ Cardinality(1..n) = n BY <1>1, AsManyAsCounted
<1>7. order \in Surjection(1..n, F) BY <1>1, <1>5, <1>6, FS_Injection
<1>8. \A r \in F : \E i \in 1..n : order[i] = r BY <1>7 DEF Surjection
<1> QED BY <1>1, <1>2, <1>3, <1>4, <1>8

\* Where the query orders the rows one way only, a row is as far down as there
\* are rows before it.
LEMMA PlaceInOrder ==
  ASSUME rows \in Seq(P!Row), P!Ordered, NEW order \in P!Orders,
         NEW i \in 1..Cardinality(Found(list, rows, walk.filter))
  PROVE  Place(list, rows, walk.filter, order[i]) = i - 1
<1> DEFINE F == Found(list, rows, walk.filter)
           n == Cardinality(F)
           B == Before(list, rows, walk.filter, order[i])
<1>1. /\ n \in Nat /\ order \in [1..n -> F]
      /\ \A a, b \in 1..n : order[a] = order[b] => a = b
      /\ \A a, b \in 1..n : a < b => ComesFirst(list, rows, order[a], order[b])
      /\ \A r \in F : \E a \in 1..n : order[a] = r
  BY OrderIs
<1>2. F \subseteq DOMAIN rows /\ F \subseteq Nat
  BY LenProperties DEF Found
<1>3. \A q, r \in F : q # r /\ ComesFirst(list, rows, q, r) => ~ComesFirst(list, rows, r, q)
  <2>1. list.by # "none" /\ \A q, r \in F : rows[q].key = rows[r].key => q = r
    BY <1>2 DEF P!Ordered
  <2>2. \A q \in F : rows[q].key \in Nat BY <1>2, KeysCompare
  <2> QED BY <2>1, <2>2 DEF ComesFirst
<1>4. B = {order[a] : a \in 1..(i - 1)}
  <2>1. ASSUME NEW a \in 1..(i - 1) PROVE order[a] \in B
    <3>1. a \in 1..n /\ a < i BY <1>1
    <3> QED BY <1>1, <3>1 DEF Before
  <2>2. ASSUME NEW q \in B PROVE q \in {order[a] : a \in 1..(i - 1)}
    <3>1. PICK a \in 1..n : order[a] = q BY <1>1 DEF Before
    <3>2. q # order[i] /\ ComesFirst(list, rows, q, order[i]) BY DEF Before
    <3>3. a # i BY <3>1, <3>2
    <3>4. ~(i < a) BY <1>1, <1>3, <3>1, <3>2
    <3>5. a \in 1..(i - 1) BY <1>1, <3>3, <3>4
    <3> QED BY <3>1, <3>5
  <2> QED BY <2>1, <2>2
<1>5. Cardinality(B) = i - 1
  <2> DEFINE f == [a \in 1..(i - 1) |-> order[a]]
             k == i - 1
  <2>1. k \in Nat BY <1>1
  <2>2. f \in Bijection(1..k, B)
    <3>1. \A a \in 1..k : a \in 1..n BY <1>1
    <3>2. f \in [1..k -> B] BY <1>4
    <3>3. \A a, b \in 1..k : f[a] = f[b] => a = b BY <1>1, <3>1
    <3>4. \A q \in B : \E a \in 1..k : f[a] = q BY <1>4
    <3> QED BY <3>2, <3>3, <3>4 DEF Bijection, Injection, Surjection, IsInjective
  <2>3. IsFiniteSet(1..k) /\ Cardinality(1..k) = k BY <2>1, AsManyAsCounted
  <2>4. ExistsBijection(1..k, B) BY <2>2 DEF ExistsBijection
  <2> QED BY <2>3, <2>4, FS_Bijection
<1> QED BY <1>5 DEF Place

\* A page is the part of an order that skip and take cut out of it.
LEMMA PageIs ==
  ASSUME rows \in Seq(P!Row), NEW order \in P!Orders,
         walk.page \in Nat, walk.page >= 1, walk.limit \in Nat
  PROVE  LET n == Cardinality(Found(list, rows, walk.filter))
             skip == (walk.page - 1) * walk.limit
             page == P!Page(order)
         IN  /\ skip \in Nat
             /\ page \in Seq(Found(list, rows, walk.filter))
             /\ \A a, b \in 1..Len(page) : page[a] = page[b] => a = b
             /\ \A a \in 1..Len(page) :
                  \E i \in 1..n : page[a] = order[i] /\ skip < i /\ i <= skip + walk.limit
             /\ \A i \in 1..n : skip < i /\ i <= skip + walk.limit
                  => \E a \in 1..Len(page) : page[a] = order[i]
<1> DEFINE F == Found(list, rows, walk.filter)
           n == Cardinality(F)
           page == P!Page(order)
<1>1. /\ n \in Nat /\ order \in [1..n -> F] /\ Len(order) = n
      /\ \A i, j \in 1..n : order[i] = order[j] => i = j
  BY OrderIs
<1>2. PICK skip : skip = (walk.page - 1) * walk.limit OBVIOUS
<1>3. skip \in Nat BY <1>2
<1>4. PICK last : last = IF skip + walk.limit < n THEN skip + walk.limit ELSE n OBVIOUS
<1>5. last \in Nat /\ last <= n /\ last <= skip + walk.limit BY <1>1, <1>3, <1>4
<1>6. page = SubSeq(order, skip + 1, last) BY <1>1, <1>2, <1>4 DEF P!Page
<1> HIDE DEF page, n
<1>7. \A i \in (skip + 1)..last : order[i] \in F BY <1>1, <1>3, <1>5
<1>8. /\ page \in Seq(F)
      /\ Len(page) = IF skip + 1 <= last THEN last - (skip + 1) + 1 ELSE 0
      /\ \A a \in 1..(last - (skip + 1) + 1) : page[a] = order[skip + 1 + a - 1]
  BY <1>3, <1>5, <1>6, <1>7, SubSeqProperties
<1>9. ASSUME NEW a \in 1..Len(page)
      PROVE  skip + a \in 1..n /\ skip + a <= last /\ page[a] = order[skip + a]
  <2>1. a \in 1..(last - (skip + 1) + 1) /\ skip + 1 + a - 1 = skip + a BY <1>3, <1>5, <1>8
  <2>2. page[a] = order[skip + a] BY <1>8, <2>1
  <2>3. a \in Nat /\ a >= 1 /\ a <= last - skip BY <1>3, <1>5, <2>1
  <2>4. skip + a <= last /\ skip + a \in Nat /\ skip + a >= 1 BY <1>3, <1>5, <2>3
  <2>5. skip + a <= n BY <1>1, <1>5, <2>4
  <2> QED BY <1>1, <2>2, <2>4, <2>5
<1>10. \A a, b \in 1..Len(page) : page[a] = page[b] => a = b BY <1>1, <1>3, <1>8, <1>9
<1>11. ASSUME NEW a \in 1..Len(page)
       PROVE  \E i \in 1..n : page[a] = order[i] /\ skip < i /\ i <= skip + walk.limit
  <2>1. PICK i : i = skip + a OBVIOUS
  <2>2. i \in 1..n /\ i <= last /\ page[a] = order[i] BY <1>9, <2>1
  <2>3. skip < i /\ i <= skip + walk.limit BY <1>3, <1>5, <1>8, <2>1, <2>2
  <2> QED BY <2>2, <2>3
<1>12. ASSUME NEW i \in 1..n, skip < i, i <= skip + walk.limit
       PROVE  \E a \in 1..Len(page) : page[a] = order[i]
  <2>1. i <= last BY <1>1, <1>3, <1>4, <1>12
  <2>2. i - skip \in 1..Len(page) /\ skip + (i - skip) = i BY <1>3, <1>5, <1>8, <1>12, <2>1
  <2> QED BY <1>9, <2>2
<1> QED BY <1>2, <1>3, <1>8, <1>10, <1>11, <1>12 DEF n, page

\* Where the query orders the rows one way only, a page has the rows whose
\* places it covers.
LEMMA PageHasPlaces ==
  ASSUME rows \in Seq(P!Row), P!Ordered, NEW order \in P!Orders,
         walk.page \in Nat, walk.page >= 1, walk.limit \in Nat
  PROVE  LET skip == (walk.page - 1) * walk.limit
         IN  \A r : r \in P!ToSet(P!Page(order))
               <=> /\ r \in Found(list, rows, walk.filter)
                   /\ Place(list, rows, walk.filter, r) >= skip
                   /\ Place(list, rows, walk.filter, r) < skip + walk.limit
<1> DEFINE F == Found(list, rows, walk.filter)
           n == Cardinality(F)
           page == P!Page(order)
<1>1. PICK skip : skip = (walk.page - 1) * walk.limit OBVIOUS
<1>2. /\ skip \in Nat /\ n \in Nat
      /\ page \in Seq(F)
      /\ \A a \in 1..Len(page) :
           \E i \in 1..n : page[a] = order[i] /\ skip < i /\ i <= skip + walk.limit
      /\ \A i \in 1..n : skip < i /\ i <= skip + walk.limit
           => \E a \in 1..Len(page) : page[a] = order[i]
  BY <1>1, PageIs, PlaceIsNumber
<1>3. P!ToSet(page) = {page[a] : a \in 1..Len(page)}
  BY <1>2, LenProperties DEF P!ToSet
<1>4. \A i \in 1..n : order[i] \in F /\ Place(list, rows, walk.filter, order[i]) = i - 1
  BY OrderIs, PlaceInOrder
<1>5. \A r \in F : \E i \in 1..n : order[i] = r BY OrderIs
<1> HIDE DEF page, n, F
<1>6. ASSUME NEW r \in P!ToSet(page)
      PROVE  /\ r \in F /\ Place(list, rows, walk.filter, r) >= skip
             /\ Place(list, rows, walk.filter, r) < skip + walk.limit
  <2>1. PICK i \in 1..n : r = order[i] /\ skip < i /\ i <= skip + walk.limit
    BY <1>2, <1>3, <1>6
  <2>2. r \in F /\ Place(list, rows, walk.filter, r) = i - 1 BY <1>4, <2>1
  <2> QED BY <1>2, <2>1, <2>2
<1>7. ASSUME NEW r \in F, Place(list, rows, walk.filter, r) >= skip,
             Place(list, rows, walk.filter, r) < skip + walk.limit
      PROVE  r \in P!ToSet(page)
  <2>1. PICK i \in 1..n : order[i] = r BY <1>5
  <2>2. Place(list, rows, walk.filter, r) = i - 1 BY <1>4, <2>1
  <2>3. skip < i /\ i <= skip + walk.limit BY <1>2, <1>7, <2>2
  <2> QED BY <1>2, <1>3, <2>1, <2>3
<1> QED BY <1>1, <1>6, <1>7 DEF F, page

\* What was shown before, and the rows of one page more.
LEMMA ShownTogether ==
  ASSUME NEW s \in Seq(Nat), NEW t \in Seq(Nat)
  PROVE  /\ s \o t \in Seq(Nat)
         /\ P!ToSet(s \o t) = P!ToSet(s) \cup P!ToSet(t)
         /\ P!IsInjective(s) /\ P!IsInjective(t) /\ P!ToSet(s) \cap P!ToSet(t) = {}
              => P!IsInjective(s \o t)
<1>1. /\ s \o t \in Seq(Nat) /\ Len(s \o t) = Len(s) + Len(t)
      /\ \A i \in 1..Len(s) + Len(t) :
           (s \o t)[i] = IF i <= Len(s) THEN s[i] ELSE t[i - Len(s)]
  BY ConcatProperties
<1>2. /\ Len(s) \in Nat /\ Len(t) \in Nat
      /\ DOMAIN s = 1..Len(s) /\ DOMAIN t = 1..Len(t)
      /\ DOMAIN (s \o t) = 1..Len(s) + Len(t)
  BY <1>1, LenProperties
<1>3. /\ \A i \in 1..Len(s) : i \in 1..Len(s) + Len(t) /\ (s \o t)[i] = s[i]
      /\ \A j \in 1..Len(t) : Len(s) + j \in 1..Len(s) + Len(t) /\ (s \o t)[Len(s) + j] = t[j]
      /\ \A k \in 1..Len(s) + Len(t) :
           k \in 1..Len(s) \/ (k - Len(s) \in 1..Len(t) /\ k = Len(s) + (k - Len(s)))
  BY <1>1, <1>2
<1>4. P!ToSet(s \o t) = P!ToSet(s) \cup P!ToSet(t)
  <2>1. ASSUME NEW e \in P!ToSet(s \o t) PROVE e \in P!ToSet(s) \cup P!ToSet(t)
    <3>1. PICK k \in 1..Len(s) + Len(t) : e = (s \o t)[k] BY <1>2, <2>1 DEF P!ToSet
    <3>2. CASE k \in 1..Len(s) BY <1>2, <1>3, <3>1, <3>2 DEF P!ToSet
    <3>3. CASE k - Len(s) \in 1..Len(t) /\ k = Len(s) + (k - Len(s))
      BY <1>2, <1>3, <3>1, <3>3 DEF P!ToSet
    <3> QED BY <1>3, <3>2, <3>3
  <2>2. P!ToSet(s) \subseteq P!ToSet(s \o t)
    <3>1. \A i \in 1..Len(s) : \E k \in 1..Len(s) + Len(t) : s[i] = (s \o t)[k] BY <1>3
    <3> QED BY <1>2, <3>1 DEF P!ToSet
  <2>3. P!ToSet(t) \subseteq P!ToSet(s \o t)
    <3>1. \A j \in 1..Len(t) : \E k \in 1..Len(s) + Len(t) : t[j] = (s \o t)[k] BY <1>3
    <3> QED BY <1>2, <3>1 DEF P!ToSet
  <2> QED BY <2>1, <2>2, <2>3
<1>5. ASSUME P!IsInjective(s), P!IsInjective(t), P!ToSet(s) \cap P!ToSet(t) = {}
      PROVE  P!IsInjective(s \o t)
  <2>1. \A i \in 1..Len(s), j \in 1..Len(t) : s[i] # t[j] BY <1>2, <1>5 DEF P!ToSet
  <2>2. \A i, j \in 1..Len(s) : s[i] = s[j] => i = j BY <1>2, <1>5 DEF P!IsInjective
  <2>3. \A i, j \in 1..Len(t) : t[i] = t[j] => i = j BY <1>2, <1>5 DEF P!IsInjective
  <2>4. ASSUME NEW k \in 1..Len(s) + Len(t), NEW m \in 1..Len(s) + Len(t),
               (s \o t)[k] = (s \o t)[m]
        PROVE  k = m
    <3>1. CASE k \in 1..Len(s) /\ m \in 1..Len(s) BY <1>3, <2>2, <2>4, <3>1
    <3>2. CASE k \in 1..Len(s) /\ m \notin 1..Len(s) BY <1>1, <1>2, <1>3, <2>1, <2>4, <3>2
    <3>3. CASE k \notin 1..Len(s) /\ m \in 1..Len(s) BY <1>1, <1>2, <1>3, <2>1, <2>4, <3>3
    <3>4. CASE k \notin 1..Len(s) /\ m \notin 1..Len(s)
      <4>1. /\ k - Len(s) \in 1..Len(t) /\ m - Len(s) \in 1..Len(t)
            /\ t[k - Len(s)] = t[m - Len(s)]
        BY <1>1, <1>2, <1>3, <2>4, <3>4
      <4>2. k - Len(s) = m - Len(s) BY <2>3, <4>1
      <4> QED BY <1>2, <4>2
    <3> QED BY <3>1, <3>2, <3>3, <3>4
  <2> QED BY <1>2, <2>4 DEF P!IsInjective
<1> QED BY <1>1, <1>4, <1>5

\* There is a page after this one as long as the rows do not fit until here.
LEMMA PagesGoOn ==
  ASSUME NEW t \in Nat, NEW p \in Nat, NEW l \in Nat \ {0}, t > p * l
  PROVE  p < (t + l - 1) \div l
<1> DEFINE q == (t + l - 1) \div l
<1>1. q \in Nat /\ t + l - 1 < (q + 1) * l BY Z3
<1>2. ASSUME q <= p PROVE FALSE
  <2> HIDE DEF q
  <2>1. (q + 1) * l = q * l + l BY <1>1
  <2>2. q * l <= p * l BY <1>1, <1>2
  <2>3. q * l \in Nat /\ p * l \in Nat BY <1>1
  <2> QED BY <1>1, <2>1, <2>2, <2>3
<1> QED BY <1>1, <1>2

-----------------------------------------------------------------------------
(* Listings: what a walk has passed *)

\* The types of a walk, as its steps need them.
LEMMA WalkIs ==
  ASSUME P!WalkInv
  PROVE  /\ rows \in Seq(P!Row)
         /\ walk.limit \in Nat /\ walk.page \in Nat /\ walk.page >= 1
         /\ walk.shown \in Seq(Nat) /\ walk.total \in Nat
         /\ P!ToSet(walk.shown) \subseteq DOMAIN rows /\ walk.start \subseteq DOMAIN rows
         /\ walk.page * walk.limit \in Nat
         /\ (walk.page - 1) * walk.limit \in Nat
         /\ (walk.page - 1) * walk.limit + walk.limit = walk.page * walk.limit
<1>1. /\ rows \in Seq(P!Row)
      /\ walk.limit \in Nat /\ walk.page \in Nat /\ walk.page >= 1
      /\ walk.shown \in Seq(Nat) /\ walk.total \in Nat
  BY LimitsAreNumbers DEF P!WalkInv, P!TypeOK, P!InPlace
<1>2. /\ walk.page * walk.limit \in Nat
      /\ (walk.page - 1) * walk.limit \in Nat
      /\ (walk.page - 1) * walk.limit + walk.limit = walk.page * walk.limit
  <2>1. \A p, l \in Nat : p >= 1 =>
          p * l \in Nat /\ (p - 1) * l \in Nat /\ (p - 1) * l + l = p * l
    BY Z3
  <2> QED BY <1>1, <2>1
<1>3. P!ToSet(walk.shown) \subseteq DOMAIN rows /\ walk.start \subseteq DOMAIN rows
  BY DEF P!WalkInv, P!InPlace
<1> QED BY <1>1, <1>2, <1>3

\* What is known of the rows shown, and of those that are not, when so much was
\* written.
WalkAt(l, table, w, passed) ==
  /\ w.writes \subseteq {"append", "leave"} =>
       /\ P!IsInjective(w.shown)
       /\ \A r \in P!ToSet(w.shown) : Place(l, table, w.filter, r) < passed
  /\ w.writes \subseteq {"append", "insert", "tear"} =>
       \A r \in w.start \ P!ToSet(w.shown) : Place(l, table, w.filter, r) >= passed
  /\ /\ w.writes \subseteq {"append", "insert"} \cup (IF l.reads = "rows" THEN {"tear"} ELSE {})
     /\ "count" \in w.read
     => \A r \in w.start \ P!ToSet(w.shown) :
          Place(l, table, w.filter, r) >= w.page * w.limit => w.total > w.page * w.limit

\* The invariant of a walk that is at a page, in terms of places.
LEMMA WalkMeans ==
  ASSUME P!WalkInv, walk.at = "page", P!Ordered
  PROVE  WalkAt(list, rows, walk, P!Passed)
<1>1. walk.writes \subseteq {"append", "leave"} =>
        /\ P!IsInjective(walk.shown)
        /\ \A r \in P!ToSet(walk.shown) : Place(list, rows, walk.filter, r) < P!Passed
  BY PlacesAre DEF P!WalkInv, P!ShownPassed, P!NoRowTwice, P!Doubled
<1>2. walk.writes \subseteq {"append", "insert", "tear"} =>
        \A r \in walk.start \ P!ToSet(walk.shown) : Place(list, rows, walk.filter, r) >= P!Passed
  BY PlacesAre DEF P!WalkInv, P!PassedShown
<1>3. walk.writes \subseteq P!Hidden /\ "count" \in walk.read =>
        \A r \in walk.start \ P!ToSet(walk.shown) :
          Place(list, rows, walk.filter, r) >= walk.page * walk.limit
            => walk.total > walk.page * walk.limit
  BY PlacesAre DEF P!WalkInv, P!TotalGoesOn
<1> QED BY <1>1, <1>2, <1>3 DEF WalkAt, P!Hidden

\* It holds after a step if these do.
LEMMA WalkFits ==
  ASSUME P!TypeOK', P!InPlace', walk'.at = "page",
         P!Ordered' => WalkAt(list', rows', walk', P!Passed')
  PROVE  P!WalkInv'
<1>1. P!NoRowTwice' BY DEF P!NoRowTwice, P!Doubled, WalkAt
<1>2. P!WalkShowsEveryRow' BY DEF P!WalkShowsEveryRow
<1>3. P!ShownPassed' BY PlacesAre DEF P!ShownPassed, P!Doubled, WalkAt
<1>4. P!PassedShown' BY PlacesAre DEF P!PassedShown, WalkAt
<1>5. P!TotalGoesOn' BY PlacesAre DEF P!TotalGoesOn, P!Hidden, WalkAt
<1> QED BY <1>1, <1>2, <1>3, <1>4, <1>5 DEF P!WalkInv

-----------------------------------------------------------------------------
(* Listings: other requests *)

\* What a write means to the walk.
LEMMA MeaningTells ==
  ASSUME rows \in Seq(P!Row), NEW row, NEW r,
         r \in DOMAIN rows', rows'[r] = row, list' = list, walk'.filter = walk.filter
  PROVE  /\ P!Meaning(r, row) \subseteq P!Write
         /\ P!Meaning(r, row) \subseteq {"append", "leave", "insert", "tear"} =>
              (r \in DOMAIN rows => rows'[r].key = rows[r].key)
         /\ P!Meaning(r, row) \subseteq {"append", "insert", "tear"} =>
              (r \in Found(list, rows, walk.filter) => r \in Found(list, rows', walk.filter))
         /\ P!Meaning(r, row) \subseteq {"append", "leave"} =>
              \/ r \in Found(list, rows', walk.filter) => r \in Found(list, rows, walk.filter)
              \/ \A q \in DOMAIN rows \ {r} : rows[q].key < rows'[r].key
         /\ "insert" \in P!Meaning(r, row) => walk.read = {}
<1>1. r \in Found(list, rows', walk.filter) <=> P!Matches(row)
  BY DEF Found, P!Matches
<1>2. r \in Found(list, rows, walk.filter) <=> r \in DOMAIN rows /\ P!Matches(rows[r])
  BY DEF Found, P!Matches
<1>3. CASE r \in DOMAIN rows /\ row.key # rows[r].key
  BY <1>3 DEF P!Meaning, P!Write
<1>4. CASE ~(r \in DOMAIN rows /\ row.key # rows[r].key)
  <2>1. CASE (r \in DOMAIN rows /\ P!Matches(rows[r])) = P!Matches(row)
    <3>1. P!Meaning(r, row) = {} BY <1>4, <2>1 DEF P!Meaning
    <3> QED BY <1>1, <1>2, <1>4, <2>1, <3>1
  <2>2. CASE r \in DOMAIN rows /\ P!Matches(rows[r]) /\ ~P!Matches(row)
    <3>1. P!Meaning(r, row) = {"leave"} BY <1>4, <2>2 DEF P!Meaning
    <3> QED BY <1>1, <1>2, <1>4, <2>2, <3>1 DEF P!Write
  <2>3. CASE ~(r \in DOMAIN rows /\ P!Matches(rows[r])) /\ P!Matches(row)
    <3>1. CASE \A q \in DOMAIN rows \ {r} : rows[q].key < row.key
      <4>1. P!Meaning(r, row) = {"append"} BY <1>4, <2>3, <3>1 DEF P!Meaning
      <4> QED BY <1>1, <1>2, <1>4, <2>3, <3>1, <4>1 DEF P!Write
    <3>2. CASE ~(\A q \in DOMAIN rows \ {r} : rows[q].key < row.key)
      <4>1. P!Meaning(r, row) = IF walk.read = {} THEN {"insert"} ELSE {"tear"}
        BY <1>4, <2>3, <3>2 DEF P!Meaning
      <4> QED BY <1>1, <1>2, <1>4, <2>3, <4>1 DEF P!Write
    <3> QED BY <3>1, <3>2
  <2> QED BY <2>1, <2>2, <2>3 DEF P!Matches
<1> QED BY <1>3, <1>4

\* A write is noted, and nothing else of the walk changes.
LEMMA NoteTells ==
  ASSUME P!TypeOK, NEW row, NEW r, P!Note(r, row), list' = list, rows' \in Seq(P!Row),
         P!Meaning(r, row) \subseteq P!Write
  PROVE  /\ P!TypeOK'
         /\ walk.at = "page" /\ walk'.at = "page"
         /\ walk'.filter = walk.filter /\ walk'.limit = walk.limit
         /\ walk'.page = walk.page /\ walk'.read = walk.read
         /\ walk'.total = walk.total /\ walk'.shown = walk.shown
         /\ walk'.start = walk.start
         /\ walk'.writes = walk.writes \cup P!Meaning(r, row)
<1>1. PICK wrote \in SUBSET P!Write : wrote = walk.writes \cup P!Meaning(r, row) BY DEF P!TypeOK
<1>2. PICK n \in Nat : n = walk.changes + 1 BY DEF P!TypeOK
<1>3. walk' = [walk EXCEPT !.changes = n, !.writes = wrote] /\ walk.at = "page"
  BY <1>1, <1>2 DEF P!Note
<1> QED BY <1>1, <1>3 DEF P!TypeOK

\* Whatever is written to one row.
LEMMA WriteFits ==
  ASSUME P!WalkInv, NEW row, NEW r, P!Note(r, row), list' = list,
         rows' \in Seq(P!Row), r \in DOMAIN rows', rows'[r] = row,
         DOMAIN rows \subseteq DOMAIN rows',
         \A q \in DOMAIN rows' \ {r} : q \in DOMAIN rows /\ rows'[q] = rows[q]
  PROVE  P!WalkInv'
<1>1. rows \in Seq(P!Row) /\ P!TypeOK /\ P!InPlace BY WalkIs DEF P!WalkInv
<1> DEFINE W == P!Meaning(r, row)
           f == walk.filter
<1>2. walk'.filter = walk.filter BY <1>1 DEF P!Note, P!TypeOK
<1>3. /\ W \subseteq P!Write
      /\ W \subseteq {"append", "leave", "insert", "tear"} =>
           (r \in DOMAIN rows => rows'[r].key = rows[r].key)
      /\ W \subseteq {"append", "insert", "tear"} =>
           (r \in Found(list, rows, f) => r \in Found(list, rows', f))
      /\ W \subseteq {"append", "leave"} =>
           \/ r \in Found(list, rows', f) => r \in Found(list, rows, f)
           \/ \A q \in DOMAIN rows \ {r} : rows[q].key < rows'[r].key
      /\ "insert" \in W => walk.read = {}
  BY <1>1, <1>2, MeaningTells
<1>4. /\ P!TypeOK'
      /\ walk.at = "page" /\ walk'.at = "page"
      /\ walk'.filter = walk.filter /\ walk'.limit = walk.limit
      /\ walk'.page = walk.page /\ walk'.read = walk.read
      /\ walk'.total = walk.total /\ walk'.shown = walk.shown
      /\ walk'.start = walk.start
      /\ walk'.writes = walk.writes \cup W
  BY <1>1, <1>3, NoteTells
<1> HIDE DEF W
<1>5. P!InPlace'
  <2>1. P!ToSet(walk'.shown) \cup walk'.start \subseteq DOMAIN rows'
    BY <1>1, <1>4 DEF P!InPlace
  <2>2. ASSUME walk'.writes \subseteq {"append", "insert", "tear"}
        PROVE  walk'.start \subseteq P!Matching'
    <3>1. walk.start \subseteq Found(list, rows, f)
      BY <1>1, <1>4, <2>2, PlacesAre DEF P!InPlace
    <3>2. Found(list, rows, f) \subseteq Found(list, rows', f)
      <4>1. r \in Found(list, rows, f) => r \in Found(list, rows', f) BY <1>3, <1>4, <2>2
      <4>2. \A q \in DOMAIN rows \ {r} : q \in DOMAIN rows' /\ rows'[q] = rows[q] OBVIOUS
      <4> QED BY <4>1, <4>2 DEF Found
    <3> QED BY <1>4, <3>1, <3>2, PlacesAre
  <2>3. /\ walk'.at = "end" => walk'.read = {}
        /\ walk'.page >= 1
        /\ list'.reads = "rows" /\ "count" \in walk'.read => "rows" \in walk'.read
    BY <1>1, <1>4 DEF P!InPlace
  <2> QED BY <2>1, <2>2, <2>3 DEF P!InPlace
<1>6. ASSUME P!Ordered' PROVE WalkAt(list', rows', walk', P!Passed')
  <2>1. CASE "move" \in W BY <1>4, <2>1 DEF WalkAt
  <2>2. CASE "move" \notin W
    <3>1. r \in DOMAIN rows => rows'[r].key = rows[r].key BY <1>3, <2>2 DEF P!Write
    <3>2. P!Ordered /\ list.by # "none"
      <4>1. list'.by # "none"
            /\ \A x, y \in DOMAIN rows' : rows'[x].key = rows'[y].key => x = y
        BY <1>6 DEF P!Ordered
      <4>2. \A x \in DOMAIN rows : x \in DOMAIN rows' /\ rows'[x].key = rows[x].key BY <3>1
      <4> QED BY <4>1, <4>2 DEF P!Ordered
    <3>3. WalkAt(list, rows, walk, P!Passed) BY <1>4, <3>2, WalkMeans
    <3>4. P!Passed' = P!Passed BY <1>4 DEF P!Passed
    <3>5. /\ P!ToSet(walk.shown) \subseteq DOMAIN rows /\ walk.start \subseteq DOMAIN rows
          /\ walk.page * walk.limit \in Nat /\ P!Passed \in Nat
      BY WalkIs DEF P!Passed
    <3>6. \A x : Place(list, rows, f, x) \in Nat /\ Place(list, rows', f, x) \in Nat
      BY <1>1, PlaceIsNumber
    <3>7. ASSUME W \subseteq {"append", "insert", "tear"}, NEW x \in DOMAIN rows
          PROVE  Place(list, rows, f, x) <= Place(list, rows', f, x)
      BY <1>1, <1>3, <3>1, <3>7, WriteMoves
    <3>8. ASSUME W \subseteq {"append", "leave"}, NEW x \in DOMAIN rows
          PROVE  Place(list, rows', f, x) <= Place(list, rows, f, x)
      BY <1>1, <1>3, <3>1, <3>2, <3>8, WriteMoves
    <3>9. ASSUME walk'.writes \subseteq {"append", "leave"}
          PROVE  /\ P!IsInjective(walk'.shown)
                 /\ \A x \in P!ToSet(walk'.shown) :
                      Place(list', rows', walk'.filter, x) < P!Passed'
      <4>1. /\ P!IsInjective(walk.shown)
            /\ \A x \in P!ToSet(walk.shown) : Place(list, rows, f, x) < P!Passed
        BY <1>4, <3>3, <3>9 DEF WalkAt
      <4>2. \A x \in P!ToSet(walk.shown) : Place(list, rows', f, x) < P!Passed
        BY <1>4, <3>5, <3>6, <3>8, <3>9, <4>1
      <4> QED BY <1>4, <3>4, <4>1, <4>2
    <3>10. ASSUME walk'.writes \subseteq {"append", "insert", "tear"},
                  NEW x \in walk'.start \ P!ToSet(walk'.shown)
           PROVE  /\ Place(list, rows, f, x) >= P!Passed
                  /\ Place(list', rows', walk'.filter, x) >= P!Passed'
      <4>1. x \in DOMAIN rows /\ Place(list, rows, f, x) >= P!Passed
        BY <1>4, <3>3, <3>5, <3>10 DEF WalkAt
      <4>2. Place(list, rows, f, x) <= Place(list, rows', f, x) BY <1>4, <3>7, <3>10, <4>1
      <4> QED BY <1>4, <3>4, <3>5, <3>6, <4>1, <4>2
    <3>11. ASSUME walk'.writes \subseteq
                    {"append", "insert"} \cup (IF list'.reads = "rows" THEN {"tear"} ELSE {}),
                  "count" \in walk'.read, NEW x \in walk'.start \ P!ToSet(walk'.shown),
                  Place(list', rows', walk'.filter, x) >= walk'.page * walk'.limit
           PROVE  walk'.total > walk'.page * walk'.limit
      <4>1. Place(list, rows, f, x) >= walk.page * walk.limit => walk.total > walk.page * walk.limit
        BY <1>4, <3>3, <3>11 DEF WalkAt
      <4>2. CASE list.reads = "rows"
        <5>1. P!Passed = walk.page * walk.limit BY <1>1, <1>4, <3>11, <4>2 DEF P!Passed, P!InPlace
        <5>2. Place(list, rows, f, x) >= P!Passed BY <3>10, <3>11
        <5> QED BY <1>4, <4>1, <5>1, <5>2
      <4>3. CASE list.reads # "rows"
        <5>1. W \subseteq {"append"} BY <1>3, <1>4, <3>11, <4>3
        <5>2. x \in DOMAIN rows BY <1>4, <3>5, <3>11
        <5>3. Place(list, rows', f, x) <= Place(list, rows, f, x) BY <3>8, <5>1, <5>2
        <5> QED BY <1>4, <3>5, <3>6, <3>11, <4>1, <5>3
      <4> QED BY <4>2, <4>3
    <3> QED BY <3>9, <3>10, <3>11 DEF WalkAt
  <2> QED BY <2>1, <2>2
<1> QED BY <1>4, <1>5, <1>6, WalkFits

LEMMA CreateRowFits ==
  ASSUME P!WalkInv, P!CreateRow
  PROVE  P!WalkInv'
<1>1. PICK e \in P!Row : rows' = Append(rows, e) /\ P!Note(Len(rows) + 1, e)
  <2>1. PICK k \in P!Keys, t \in P!Tags :
          /\ rows' = Append(rows, [key |-> k, tag |-> t, state |-> "live"])
          /\ P!Note(Len(rows) + 1, [key |-> k, tag |-> t, state |-> "live"])
    BY DEF P!CreateRow
  <2>2. k \in Key /\ t \in {"a", "b"}
    <3>1. (CHOOSE x \in Key : TRUE) \in Key BY KeysAreNumbers
    <3> QED BY <3>1 DEF P!Keys, P!Tags
  <2>3. [key |-> k, tag |-> t, state |-> "live"] \in P!Row BY <2>2 DEF P!Row
  <2> QED BY <2>1, <2>3
<1>2. list' = list BY DEF P!CreateRow
<1>3. PICK r : r = Len(rows) + 1 OBVIOUS
<1>4. /\ rows' \in Seq(P!Row) /\ r \in DOMAIN rows' /\ rows'[r] = e
      /\ DOMAIN rows \subseteq DOMAIN rows'
      /\ \A q \in DOMAIN rows' \ {r} : q \in DOMAIN rows /\ rows'[q] = rows[q]
  <2>1. rows \in Seq(P!Row) BY WalkIs
  <2> QED BY <1>1, <1>3, <2>1, AppendProperties, LenProperties
<1> QED BY <1>1, <1>2, <1>3, <1>4, WriteFits

\* A row that is there is replaced.
LEMMA ReplaceFits ==
  ASSUME P!WalkInv, NEW r \in DOMAIN rows, NEW row \in P!Row, P!Replace(r, row)
  PROVE  P!WalkInv'
<1>1. rows \in Seq(P!Row) BY WalkIs
<1>2. list' = list /\ rows' = [rows EXCEPT ![r] = row] /\ P!Note(r, row) BY DEF P!Replace
<1>3. rows' \in Seq(P!Row) /\ DOMAIN rows' = DOMAIN rows
  <2>1. r \in 1..Len(rows) BY <1>1, LenProperties
  <2> QED BY <1>1, <1>2, <2>1, ExceptSeq
<1>4. rows'[r] = row /\ \A q \in DOMAIN rows' \ {r} : q \in DOMAIN rows /\ rows'[q] = rows[q]
  BY <1>2
<1> QED BY <1>2, <1>3, <1>4, WriteFits

LEMMA UpdateRowFits ==
  ASSUME P!WalkInv, P!UpdateRow
  PROVE  P!WalkInv'
<1>1. PICK r \in DOMAIN rows : \E k \in (IF list.by = "column" THEN P!Keys ELSE {rows[r].key}),
                                  t \in P!Tags :
        P!Replace(r, [rows[r] EXCEPT !.key = k, !.tag = t])
  BY DEF P!UpdateRow
<1>2. rows[r] \in P!Row BY WalkIs, LenProperties, ElementOfSeq
<1>3. PICK k \in Key, t \in {"a", "b"} : P!Replace(r, [rows[r] EXCEPT !.key = k, !.tag = t])
  <2>1. (CHOOSE x \in Key : TRUE) \in Key /\ rows[r].key \in Key
    BY <1>2, KeysAreNumbers DEF P!Row
  <2> QED BY <1>1, <2>1 DEF P!Keys, P!Tags
<1>4. [rows[r] EXCEPT !.key = k, !.tag = t] \in P!Row BY <1>2 DEF P!Row
<1> QED BY <1>3, <1>4, ReplaceFits

LEMMA RemoveRowFits ==
  ASSUME P!WalkInv, P!RemoveRow
  PROVE  P!WalkInv'
<1>1. PICK r \in DOMAIN rows, how \in {"soft", "hard"} :
        P!Replace(r, [rows[r] EXCEPT !.state = how])
  <2>1. list.removals \subseteq {"soft", "hard"} BY DEF P!WalkInv, P!TypeOK, P!Listing
  <2> QED BY <2>1 DEF P!RemoveRow
<1>2. rows[r] \in P!Row BY WalkIs, LenProperties, ElementOfSeq
<1>3. [rows[r] EXCEPT !.state = how] \in P!Row BY <1>2 DEF P!Row
<1> QED BY <1>1, <1>3, ReplaceFits

-----------------------------------------------------------------------------
(* Listings: the requests of the walk *)

\* A page of rows.
LEMMA ReadRowsFits ==
  ASSUME P!WalkInv, P!ReadRows
  PROVE  P!WalkInv'
<1>1. P!TypeOK /\ P!InPlace BY DEF P!WalkInv
<1>2. /\ rows \in Seq(P!Row)
      /\ walk.limit \in Nat /\ walk.page \in Nat /\ walk.page >= 1
      /\ walk.shown \in Seq(Nat)
      /\ P!ToSet(walk.shown) \subseteq DOMAIN rows /\ walk.start \subseteq DOMAIN rows
      /\ walk.page * walk.limit \in Nat
      /\ (walk.page - 1) * walk.limit \in Nat
      /\ (walk.page - 1) * walk.limit + walk.limit = walk.page * walk.limit
  BY WalkIs
<1> DEFINE f == walk.filter
<1>3. PICK order \in P!Orders :
        walk' = [walk EXCEPT !.read = @ \cup {"rows"}, !.shown = @ \o P!Page(order)]
  BY DEF P!ReadRows
<1>4. PICK page : page = P!Page(order) OBVIOUS
<1>5. /\ walk.at = "page" /\ "rows" \notin walk.read
      /\ list' = list /\ rows' = rows
      /\ walk' = [walk EXCEPT !.read = walk.read \cup {"rows"}, !.shown = walk.shown \o page]
  BY <1>3, <1>4 DEF P!ReadRows
<1>6. /\ page \in Seq(Nat) /\ P!IsInjective(page) /\ P!ToSet(page) \subseteq DOMAIN rows
  <2>1. page \in Seq(Found(list, rows, walk.filter)) BY <1>2, <1>4, PageIs
  <2>2. \A a, b \in 1..Len(page) : page[a] = page[b] => a = b BY <1>2, <1>4, PageIs
  <2>3. /\ Len(page) \in Nat /\ DOMAIN page = 1..Len(page)
        /\ \A a \in 1..Len(page) : page[a] \in Found(list, rows, walk.filter)
    BY <2>1, LenProperties, ElementOfSeq
  <2>4. Found(list, rows, walk.filter) \subseteq DOMAIN rows BY DEF Found
  <2>5. DOMAIN rows \subseteq Nat BY <1>2, LenProperties
  <2>6. page \in Seq(Nat) BY <2>1, <2>4, <2>5
  <2> QED BY <2>2, <2>3, <2>4, <2>6 DEF P!IsInjective, P!ToSet
<1>7. /\ walk.shown \o page \in Seq(Nat)
      /\ P!ToSet(walk.shown \o page) = P!ToSet(walk.shown) \cup P!ToSet(page)
      /\ P!IsInjective(walk.shown) /\ P!ToSet(walk.shown) \cap P!ToSet(page) = {}
           => P!IsInjective(walk.shown \o page)
  BY <1>2, <1>6, ShownTogether
<1>8. /\ P!TypeOK'
      /\ walk'.at = "page" /\ walk'.filter = walk.filter /\ walk'.limit = walk.limit
      /\ walk'.page = walk.page /\ walk'.read = walk.read \cup {"rows"}
      /\ walk'.total = walk.total /\ walk'.shown = walk.shown \o page
      /\ walk'.start = walk.start /\ walk'.writes = walk.writes
  BY <1>1, <1>5, <1>7 DEF P!TypeOK
<1>9. P!InPlace'
  <2>1. P!ToSet(walk'.shown) \cup walk'.start \subseteq DOMAIN rows'
    BY <1>2, <1>5, <1>6, <1>7, <1>8
  <2>2. P!Matching' = P!Matching BY <1>5, <1>8, PlacesAre
  <2> QED BY <1>1, <1>5, <1>8, <2>1, <2>2 DEF P!InPlace
<1>10. /\ P!Ordered' = P!Ordered
       /\ P!Passed' = walk.page * walk.limit /\ P!Passed = (walk.page - 1) * walk.limit
  BY <1>5, <1>8 DEF P!Ordered, P!Passed
<1>11. \A r : Place(list, rows, f, r) \in Nat BY <1>2, PlaceIsNumber
<1>12. P!Passed \in Nat /\ P!Passed' \in Nat /\ P!Passed <= P!Passed' BY <1>2, <1>10
<1>13. ASSUME P!Ordered PROVE WalkAt(list, rows, walk', P!Passed')
  <2>1. WalkAt(list, rows, walk, P!Passed) BY <1>5, <1>13, WalkMeans
  <2>2. \A r : r \in P!ToSet(page)
          <=> /\ r \in Found(list, rows, f)
              /\ Place(list, rows, f, r) >= P!Passed
              /\ Place(list, rows, f, r) < P!Passed'
    BY <1>2, <1>4, <1>10, <1>13, PageHasPlaces
  <2>3. ASSUME walk'.writes \subseteq {"append", "leave"}
        PROVE  /\ P!IsInjective(walk'.shown)
               /\ \A r \in P!ToSet(walk'.shown) : Place(list, rows, walk'.filter, r) < P!Passed'
    <3>1. /\ P!IsInjective(walk.shown)
          /\ \A r \in P!ToSet(walk.shown) : Place(list, rows, f, r) < P!Passed
      BY <1>8, <2>1, <2>3 DEF WalkAt
    <3>2. P!ToSet(walk.shown) \cap P!ToSet(page) = {} BY <1>11, <1>12, <2>2, <3>1
    <3>3. \A r \in P!ToSet(walk.shown) \cup P!ToSet(page) : Place(list, rows, f, r) < P!Passed'
      BY <1>11, <1>12, <2>2, <3>1
    <3> QED BY <1>7, <1>8, <3>1, <3>2, <3>3
  <2>4. ASSUME walk'.writes \subseteq {"append", "insert", "tear"},
               NEW r \in walk'.start \ P!ToSet(walk'.shown)
        PROVE  Place(list, rows, walk'.filter, r) >= P!Passed'
    <3>1. r \in walk.start \ P!ToSet(walk.shown) /\ r \notin P!ToSet(page) BY <1>7, <1>8, <2>4
    <3>2. Place(list, rows, f, r) >= P!Passed BY <1>8, <2>1, <2>4, <3>1 DEF WalkAt
    <3>3. r \in Found(list, rows, f) BY <1>1, <1>8, <2>4, <3>1, PlacesAre DEF P!InPlace
    <3> QED BY <1>8, <1>11, <1>12, <2>2, <3>1, <3>2, <3>3
  <2>5. ASSUME walk'.writes \subseteq
                 {"append", "insert"} \cup (IF list.reads = "rows" THEN {"tear"} ELSE {}),
               "count" \in walk'.read, NEW r \in walk'.start \ P!ToSet(walk'.shown),
               Place(list, rows, walk'.filter, r) >= walk'.page * walk'.limit
        PROVE  walk'.total > walk'.page * walk'.limit
    <3>1. r \in walk.start \ P!ToSet(walk.shown) /\ "count" \in walk.read BY <1>7, <1>8, <2>5
    <3> QED BY <1>8, <2>1, <2>5, <3>1 DEF WalkAt
  <2> QED BY <2>3, <2>4, <2>5 DEF WalkAt
<1> QED BY <1>5, <1>8, <1>9, <1>10, <1>13, WalkFits

\* The number of rows, whatever the page.
LEMMA ReadCountFits ==
  ASSUME P!WalkInv, P!ReadCount
  PROVE  P!WalkInv'
<1>1. P!TypeOK /\ P!InPlace BY DEF P!WalkInv
<1>2. rows \in Seq(P!Row) /\ walk.page * walk.limit \in Nat BY WalkIs
<1> DEFINE f == walk.filter
<1>3. PICK total : total = Cardinality(Found(list, rows, f)) OBVIOUS
<1>4. total \in Nat BY <1>2, <1>3, PlaceIsNumber
<1>5. /\ walk.at = "page" /\ list' = list /\ rows' = rows
      /\ list.reads = "rows" => "rows" \in walk.read
      /\ walk' = [walk EXCEPT !.read = walk.read \cup {"count"}, !.total = total]
  <2>1. P!Cardinality(P!Matching) = total
    BY <1>3, PlacesAre DEF P!Cardinality, Cardinality
  <2> QED BY <2>1 DEF P!ReadCount
<1>6. /\ P!TypeOK'
      /\ walk'.at = "page" /\ walk'.filter = walk.filter /\ walk'.limit = walk.limit
      /\ walk'.page = walk.page /\ walk'.read = walk.read \cup {"count"}
      /\ walk'.total = total /\ walk'.shown = walk.shown
      /\ walk'.start = walk.start /\ walk'.writes = walk.writes
  BY <1>1, <1>4, <1>5 DEF P!TypeOK
<1>7. P!InPlace'
  <2>1. P!Matching' = P!Matching BY <1>5, <1>6, PlacesAre
  <2> QED BY <1>1, <1>5, <1>6, <2>1 DEF P!InPlace
<1>8. P!Ordered' = P!Ordered /\ P!Passed' = P!Passed BY <1>5, <1>6 DEF P!Ordered, P!Passed
<1>9. ASSUME P!Ordered PROVE WalkAt(list, rows, walk', P!Passed)
  <2>1. WalkAt(list, rows, walk, P!Passed) BY <1>5, <1>9, WalkMeans
  <2>2. ASSUME walk'.writes \subseteq
                 {"append", "insert"} \cup (IF list.reads = "rows" THEN {"tear"} ELSE {}),
               NEW r \in walk'.start \ P!ToSet(walk'.shown),
               Place(list, rows, walk'.filter, r) >= walk'.page * walk'.limit
        PROVE  walk'.total > walk'.page * walk'.limit
    <3>1. r \in Found(list, rows, f) BY <1>1, <1>6, <2>2, PlacesAre DEF P!InPlace
    <3>2. Place(list, rows, f, r) < total BY <1>2, <1>3, <3>1, PlaceWithinFound
    <3>3. Place(list, rows, f, r) \in Nat BY <1>2, PlaceIsNumber
    <3> QED BY <1>2, <1>4, <1>6, <2>2, <3>2, <3>3
  <2> QED BY <1>6, <2>1, <2>2 DEF WalkAt
<1> QED BY <1>5, <1>6, <1>7, <1>8, <1>9, WalkFits

\* A page is over: on to the next one, or to the end.
LEMMA AnswerFits ==
  ASSUME P!WalkInv, P!Answer
  PROVE  P!WalkInv'
<1>1. P!TypeOK /\ P!InPlace BY DEF P!WalkInv
<1>2. /\ rows \in Seq(P!Row)
      /\ walk.limit \in Nat /\ walk.page \in Nat /\ walk.total \in Nat
      /\ walk.page * walk.limit \in Nat
  BY WalkIs
<1>3. walk.read = {"rows", "count"} /\ list' = list /\ rows' = rows BY DEF P!Answer
<1>4. walk.at = "page" BY <1>1, <1>3 DEF P!InPlace, P!TypeOK
<1>5. P!Passed = walk.page * walk.limit BY <1>3 DEF P!Passed
<1>6. CASE walk.page < P!TotalPages(walk.total)
  <2>1. walk' = [walk EXCEPT !.read = {}, !.at = "page", !.page = walk.page + 1]
    BY <1>2, <1>6 DEF P!Answer
  <2>2. /\ P!TypeOK'
        /\ walk'.at = "page" /\ walk'.filter = walk.filter /\ walk'.limit = walk.limit
        /\ walk'.page = walk.page + 1 /\ walk'.read = {}
        /\ walk'.shown = walk.shown /\ walk'.start = walk.start
        /\ walk'.writes = walk.writes
    <3>1. PICK p \in Nat : p = walk.page + 1 BY <1>2
    <3>2. walk' = [walk EXCEPT !.read = {}, !.at = "page", !.page = p] BY <2>1, <3>1
    <3> QED BY <1>1, <1>3, <3>1, <3>2 DEF P!TypeOK
  <2>3. P!InPlace'
    <3>1. P!Matching' = P!Matching BY <1>3, <2>2, PlacesAre
    <3>2. walk'.page >= 1 BY <1>2, <2>2
    <3> QED BY <1>1, <1>3, <2>2, <3>1, <3>2 DEF P!InPlace
  <2>4. P!Ordered' = P!Ordered BY <1>3 DEF P!Ordered
  <2>5. P!Passed' = P!Passed
    <3>1. P!Passed' = ((walk.page + 1) - 1) * walk.limit BY <2>2 DEF P!Passed
    <3>2. (walk.page + 1) - 1 = walk.page BY <1>2
    <3> QED BY <1>5, <3>1, <3>2
  <2>6. ASSUME P!Ordered PROVE WalkAt(list, rows, walk', P!Passed)
    <3>1. WalkAt(list, rows, walk, P!Passed) BY <1>4, <2>6, WalkMeans
    <3> QED BY <2>2, <3>1 DEF WalkAt
  <2> QED BY <1>3, <2>2, <2>3, <2>4, <2>5, <2>6, WalkFits
<1>7. CASE ~(walk.page < P!TotalPages(walk.total))
  <2>1. walk' = [walk EXCEPT !.read = {}, !.at = "end", !.page = walk.page]
    <3>1. walk' = [walk EXCEPT !.read = {}, !.at = "end", !.page = walk.page + 0]
      BY <1>7 DEF P!Answer
    <3>2. walk.page + 0 = walk.page BY <1>2
    <3> QED BY <3>1, <3>2
  <2>2. /\ P!TypeOK'
        /\ walk'.at = "end" /\ walk'.filter = walk.filter /\ walk'.limit = walk.limit
        /\ walk'.page = walk.page /\ walk'.read = {}
        /\ walk'.shown = walk.shown /\ walk'.start = walk.start
        /\ walk'.writes = walk.writes
    BY <1>1, <1>2, <1>3, <2>1 DEF P!TypeOK
  <2>3. P!InPlace'
    <3>1. P!Matching' = P!Matching BY <1>3, <2>2, PlacesAre
    <3> QED BY <1>1, <1>3, <2>2, <3>1 DEF P!InPlace
  <2>4. P!Ordered' = P!Ordered BY <1>3 DEF P!Ordered
  <2>5. P!NoRowTwice' BY <2>2, <2>4 DEF P!WalkInv, P!NoRowTwice, P!Doubled, P!IsInjective
  <2>6. P!WalkShowsEveryRow'
    <3> SUFFICES ASSUME P!Ordered', walk'.limit > 0, walk'.writes \subseteq P!Hidden',
                        NEW r \in walk'.start, r \notin P!ToSet(walk'.shown)
                 PROVE  FALSE
      BY DEF P!WalkShowsEveryRow
    <3>1. walk.total > walk.page * walk.limit
      <4>1. WalkAt(list, rows, walk, P!Passed) BY <1>4, <2>4, WalkMeans
      <4>2. walk.writes \subseteq
              {"append", "insert"} \cup (IF list.reads = "rows" THEN {"tear"} ELSE {})
        BY <1>3, <2>2 DEF P!Hidden
      <4>3. walk.writes \subseteq {"append", "insert", "tear"} BY <4>2
      <4>4. Place(list, rows, walk.filter, r) >= walk.page * walk.limit
        BY <1>5, <2>2, <4>1, <4>3 DEF WalkAt
      <4> QED BY <1>3, <2>2, <4>1, <4>2, <4>4 DEF WalkAt
    <3>2. walk.limit \in Nat \ {0} BY <1>2, <2>2
    <3>3. walk.page < (walk.total + walk.limit - 1) \div walk.limit
      BY <1>2, <3>1, <3>2, PagesGoOn
    <3> QED BY <1>7, <3>2, <3>3 DEF P!TotalPages
  <2> QED BY <2>2, <2>3, <2>5, <2>6
      DEF P!WalkInv, P!ShownPassed, P!PassedShown, P!TotalGoesOn
<1> QED BY <1>6, <1>7

-----------------------------------------------------------------------------
(* Listings: every behaviour *)

LEMMA WalkNext == P!WalkInv /\ [P!Next]_P!vars => P!WalkInv'
<1> SUFFICES ASSUME P!WalkInv, [P!Next]_P!vars
             PROVE  P!WalkInv'
  OBVIOUS
<1>1. CASE UNCHANGED P!vars
  <2>1. list' = list /\ rows' = rows /\ walk' = walk BY <1>1 DEF P!vars
  <2>2. P!Matching' = P!Matching BY <2>1, PlacesAre
  <2>3. P!TypeOK' /\ P!InPlace' BY <2>1, <2>2 DEF P!WalkInv, P!TypeOK, P!InPlace
  <2>4. P!Ordered' = P!Ordered /\ P!Passed' = P!Passed BY <2>1 DEF P!Ordered, P!Passed
  <2>5. CASE walk.at = "page" BY <2>1, <2>3, <2>4, <2>5, WalkMeans, WalkFits
  <2>6. CASE walk.at # "page"
    <3>1. P!ShownPassed' /\ P!PassedShown' /\ P!TotalGoesOn'
      BY <2>1, <2>6 DEF P!ShownPassed, P!PassedShown, P!TotalGoesOn
    <3>2. P!NoRowTwice' BY <2>1, <2>4 DEF P!WalkInv, P!NoRowTwice, P!Doubled
    <3>3. P!WalkShowsEveryRow' BY <2>1, <2>4 DEF P!WalkInv, P!WalkShowsEveryRow, P!Hidden
    <3> QED BY <2>3, <3>1, <3>2, <3>3 DEF P!WalkInv
  <2> QED BY <2>5, <2>6
<1>2. CASE P!Next
  BY <1>2, CreateRowFits, UpdateRowFits, RemoveRowFits, ReadRowsFits, ReadCountFits, AnswerFits
     DEF P!Next
<1> QED BY <1>1, <1>2

\* Every listing is one.
LEMMA ListingsAre == P!Listings \subseteq P!Listing
<1>1. ASSUME NEW h \in BOOLEAN, NEW m \in SUBSET {"soft", "hard"}
      PROVE  P!RowsFirst(h, m) \in P!Listing
  BY DEF P!RowsFirst, P!Listing, P!By
<1>2. ASSUME NEW m \in SUBSET {"soft", "hard"}
      PROVE  P!Together(m) \in P!Listing
  BY DEF P!Together, P!Listing, P!By
<1>3. /\ P!GetInventories \in P!Listing /\ P!GetAllProducts \in P!Listing
      /\ P!GetCustomers \in P!Listing
  BY <1>1 DEF P!GetInventories, P!GetAllProducts, P!GetCustomers
<1>4. P!GetAgents \in P!Listing
  <2>1. P!RowsFirst(FALSE, {}) \in P!Listing BY <1>1
  <2> QED BY <2>1 DEF P!GetAgents, P!Listing, P!By
<1>5. P!GetUsers \in P!Listing /\ P!FetchDevices \in P!Listing
  <2>1. P!RowsFirst(FALSE, {"hard"}) \in P!Listing BY <1>1
  <2> QED BY <2>1 DEF P!GetUsers, P!FetchDevices, P!Listing, P!By
<1>6. P!GetAllContracts \in P!Listing BY DEF P!GetAllContracts, P!Listing, P!By
<1>7. P!GetAllSales \in P!Listing BY <1>6 DEF P!GetAllSales, P!Listing, P!By
<1>8. P!FindStores \in P!Listing /\ P!FindTenants \in P!Listing
  BY <1>2 DEF P!FindStores, P!FindTenants
<1>9. P!GetStoreUsers \in P!Listing
  <2>1. P!Together({"hard"}) \in P!Listing BY <1>2
  <2> QED BY <2>1 DEF P!GetStoreUsers, P!Listing, P!By
<1>10. P!GetAllInventorySales \in P!Listing
  <2>1. P!Together({}) \in P!Listing BY <1>2
  <2> QED BY <2>1 DEF P!GetAllInventorySales, P!Listing, P!By
<1> QED BY <1>3, <1>4, <1>5, <1>6, <1>7, <1>8, <1>9, <1>10 DEF P!Listings, P!GetUnassignedUsers

\* A walk that begins has shown nothing.
LEMMA WalkInit == P!Init => P!WalkInv
<1> SUFFICES ASSUME P!Init PROVE P!WalkInv OBVIOUS
<1>1. list \in P!Listing BY ListingsAre DEF P!Init
<1> DEFINE Keyed == IF list.by = "none" THEN {CHOOSE k \in Key : TRUE} ELSE Key
           Tagged(f) == IF f THEN {"a", "b"} ELSE {"a"}
           Sorted(n, keys) == \A i, j \in 1..n : i < j => keys[i] <= keys[j]
           Begins(f, limit, n, keys, tags) ==
             /\ rows = [i \in 1..n |-> [key |-> keys[i], tag |-> tags[i], state |-> "live"]]
             /\ walk = P!Begun(f, limit, {i \in 1..n : tags[i] = "a"})
<1>2. PICK filter \in BOOLEAN, limit \in Limit, n \in 0..MaxRows :
        \E keys \in [1..n -> Keyed], tags \in [1..n -> Tagged(filter)] :
          Begins(filter, limit, n, keys, tags)
  <2>1. PICK filter \in (IF list.filters THEN BOOLEAN ELSE {FALSE}), limit \in Limit,
             n \in 0..MaxRows :
          \E keys \in [1..n -> Keyed], tags \in [1..n -> Tagged(filter)] :
            Begins(filter, limit, n, keys, tags)
    <3>1. \E filter \in (IF list.filters THEN BOOLEAN ELSE {FALSE}), limit \in Limit,
             n \in 0..MaxRows :
            \E keys \in [1..n -> Keyed], tags \in [1..n -> Tagged(filter)] :
              /\ Sorted(n, keys)
              /\ Begins(filter, limit, n, keys, tags)
      BY Zenon DEF P!Init
    <3> HIDE DEF Keyed, Tagged, Sorted, Begins
    <3> QED BY <3>1, Zenon
  <2>2. filter \in BOOLEAN BY <2>1
  <2> HIDE DEF Keyed, Tagged, Begins
  <2> QED BY <2>1, <2>2
<1>3. PICK keys \in [1..n -> Key], tags \in [1..n -> Tagged(filter)] :
        Begins(filter, limit, n, keys, tags)
  <2>1. Keyed \subseteq Key
    <3>1. (CHOOSE k \in Key : TRUE) \in Key BY KeysAreNumbers
    <3> QED BY <3>1
  <2> HIDE DEF Keyed, Tagged, Begins
  <2>2. PICK keys \in [1..n -> Keyed], tags \in [1..n -> Tagged(filter)] :
          Begins(filter, limit, n, keys, tags)
    BY <1>2
  <2>3. keys \in [1..n -> Key] BY <2>1, <2>2
  <2> QED BY <2>2, <2>3
<1>4. n \in Nat BY LimitsAreNumbers
<1>5. \A i \in 1..n : tags[i] \in {"a", "b"} /\ (~filter => tags[i] = "a") BY <1>3
<1>6. rows \in Seq(P!Row) /\ DOMAIN rows = 1..n
      /\ \A i \in 1..n : rows[i] = [key |-> keys[i], tag |-> tags[i], state |-> "live"]
  <2>1. \A i \in 1..n : [key |-> keys[i], tag |-> tags[i], state |-> "live"] \in P!Row
    BY <1>3, <1>5 DEF P!Row
  <2>2. rows \in [1..n -> P!Row] BY <1>3, <2>1
  <2>3. rows \in Seq(P!Row) BY <1>4, <2>2
  <2> QED BY <1>3, <2>3
<1>7. PICK found : found = {i \in 1..n : tags[i] = "a"} OBVIOUS
<1>8. /\ walk.at = "page" /\ walk.page = 1 /\ walk.read = {} /\ walk.shown = <<>>
      /\ walk.start = found /\ walk.filter = filter /\ walk.limit = limit
  BY <1>3, <1>7 DEF P!Begun
<1>9. P!TypeOK
  <2>1. <<>> \in Seq(Nat) BY EmptySeq
  <2>2. found \in SUBSET Nat BY <1>4, <1>7
  <2> QED BY <1>1, <1>3, <1>6, <1>7, <2>1, <2>2 DEF P!TypeOK, P!Begun
<1>10. P!ToSet(walk.shown) = {} /\ P!IsInjective(walk.shown)
  BY <1>8 DEF P!ToSet, P!IsInjective
<1>11. P!InPlace
  <2>1. found \subseteq P!Matching
    BY <1>5, <1>6, <1>7, <1>8 DEF P!Matching, P!Matches
  <2>2. found \subseteq DOMAIN rows BY <1>6, <1>7
  <2> QED BY <1>8, <1>10, <2>1, <2>2 DEF P!InPlace
<1>12. P!PassedShown
  <2>1. P!Passed = 0
    <3>1. limit \in Nat /\ (1 - 1) * limit = 0 BY LimitsAreNumbers
    <3> QED BY <1>8, <3>1 DEF P!Passed
  <2>2. \A r : Place(list, rows, walk.filter, r) \in Nat BY <1>6, PlaceIsNumber
  <2>3. \A r : P!Cardinality(P!Ahead(r)) >= 0 BY <2>2, PlacesAre
  <2> QED BY <2>1, <2>3 DEF P!PassedShown
<1> QED BY <1>8, <1>9, <1>10, <1>11, <1>12
    DEF P!WalkInv, P!ShownPassed, P!TotalGoesOn, P!NoRowTwice, P!WalkShowsEveryRow

ListingsInv == part = "listings" => P!WalkInv

LEMMA ListingsInit == Init => ListingsInv
BY PartBegins, WalkInit DEF ListingsInv

LEMMA ListingsNext == ListingsInv /\ [Next]_all => ListingsInv'
BY PartSteps, WalkNext DEF ListingsInv

\* A walk to the last page of a listing shows every row the query found when it
\* began, whatever comes meanwhile, as long as nothing it found leaves or moves
\* and, where the number is not read last, nothing comes within a page.
THEOREM WalkShowsEveryRowHolds == Spec => []WalkShowsEveryRow
<1>1. ListingsInv => WalkShowsEveryRow BY DEF ListingsInv, WalkShowsEveryRow, P!WalkInv
<1> QED BY ListingsInit, ListingsNext, <1>1, PTL DEF Spec, all

\* A walk through a listing shows no row twice, whatever leaves meanwhile, as
\* long as nothing moves and rows come behind all others only.
THEOREM NoRowTwiceHolds == Spec => []NoRowTwice
<1>1. ListingsInv => NoRowTwice BY DEF ListingsInv, NoRowTwice, P!WalkInv
<1> QED BY ListingsInit, ListingsNext, <1>1, PTL DEF Spec, all

-----------------------------------------------------------------------------
(* Catalogue: a request is served *)

CatalogueRequest ==
  [op : C!Op, at : C!At, names : Seq(C!Entry), row : Nat, sub : Nat,
   list : Seq(Nat \X Parts), price : Price \cup {0}, stock : Stock \cup {0}]
CatalogueTables ==
  /\ categories \in Seq(C!CategoryRow)
  /\ inventories \in Seq(C!InventoryRow)
  /\ batches \in Seq(C!BatchRow)
  /\ products \in Seq(C!ProductRow)
  /\ parts \subseteq C!PartRow /\ C!IsFiniteSet(parts)
  /\ half \subseteq {"addInventory", "addProduct"} \X Nat

\* What CatalogueInv says of the tables and of the requests.
LEMMA CatalogueIs ==
  ASSUME C!CatalogueInv
  PROVE  /\ CatalogueTables
         /\ req \in [Slot -> CatalogueRequest] /\ started \in Nat /\ overlap \in BOOLEAN
         /\ \A s \in Slot : req[s] \in CatalogueRequest /\ C!Knows(req[s])
         /\ DOMAIN categories = 1..Len(categories) /\ Len(categories) \in Nat
         /\ DOMAIN inventories = 1..Len(inventories) /\ Len(inventories) \in Nat
         /\ DOMAIN batches = 1..Len(batches) /\ Len(batches) \in Nat
         /\ DOMAIN products = 1..Len(products) /\ Len(products) \in Nat
<1>1. CatalogueTables /\ req \in [Slot -> CatalogueRequest] /\ started \in Nat
      /\ overlap \in BOOLEAN /\ \A s \in Slot : C!Knows(req[s])
  BY DEF C!CatalogueInv, C!TypeOK, C!RequestsOK, CatalogueTables, CatalogueRequest
<1>2. /\ DOMAIN categories = 1..Len(categories) /\ Len(categories) \in Nat
      /\ DOMAIN inventories = 1..Len(inventories) /\ Len(inventories) \in Nat
      /\ DOMAIN batches = 1..Len(batches) /\ Len(batches) \in Nat
      /\ DOMAIN products = 1..Len(products) /\ Len(products) \in Nat
  BY <1>1, LenProperties DEF CatalogueTables
<1> QED BY <1>1, <1>2

\* The request of slot s becomes r: rows only come and are filled, a new row
\* is the one r fills, and a row that s was filling is full or noted as half.
LEMMA CatalogueServed ==
  ASSUME C!CatalogueInv, NEW s \in Slot, NEW r \in CatalogueRequest, C!Knows(r),
         req' = [req EXCEPT ![s] = r], started' \in Nat, overlap' \in BOOLEAN,
         CatalogueTables',
         half \subseteq half', parts \subseteq parts',
         \A b \in DOMAIN batches :
           b \in DOMAIN batches' /\ batches'[b].inventory = batches[b].inventory,
         \A i \in DOMAIN inventories' : i \in DOMAIN inventories \/ (r.at = "batch" /\ r.row = i),
         \A p \in DOMAIN products' : p \in DOMAIN products \/ (r.at = "parts" /\ r.row = p),
         req[s].at = "batch" =>
           \/ <<"addInventory", req[s].row>> \in half'
           \/ \E b \in DOMAIN batches' : batches'[b].inventory = req[s].row,
         req[s].at = "parts" =>
           \/ <<"addProduct", req[s].row>> \in half'
           \/ \E q \in parts' : q.product = req[s].row
  PROVE  C!CatalogueInv'
<1>1. req \in [Slot -> CatalogueRequest] /\ \A o \in Slot : C!Knows(req[o]) BY CatalogueIs
<1>2. req' \in [Slot -> CatalogueRequest] /\ req'[s] = r /\ \A o \in Slot \ {s} : req'[o] = req[o]
  BY <1>1
<1>3. C!TypeOK' BY <1>2 DEF C!TypeOK, C!RequestsOK, CatalogueTables, CatalogueRequest
<1>4. \A o \in Slot : C!Knows(req'[o]) BY <1>1, <1>2
<1>5. C!InventoriesFull /\ C!ProductsFull BY DEF C!CatalogueInv
<1>6. C!InventoriesFull'
  <2> SUFFICES ASSUME NEW i \in DOMAIN inventories'
               PROVE  \/ \E b \in DOMAIN batches' : batches'[b].inventory = i
                      \/ <<"addInventory", i>> \in half'
                      \/ \E o \in Slot : req'[o].at = "batch" /\ req'[o].row = i
    BY DEF C!InventoriesFull
  <2>1. CASE i \notin DOMAIN inventories BY <1>2, <2>1
  <2>2. CASE i \in DOMAIN inventories
    <3>1. CASE \E b \in DOMAIN batches : batches[b].inventory = i BY <3>1
    <3>2. CASE <<"addInventory", i>> \in half BY <3>2
    <3>3. CASE \E o \in Slot : req[o].at = "batch" /\ req[o].row = i BY <1>2, <3>3
    <3> QED BY <1>5, <2>2, <3>1, <3>2, <3>3 DEF C!InventoriesFull
  <2> QED BY <2>1, <2>2
<1>7. C!ProductsFull'
  <2> SUFFICES ASSUME NEW p \in DOMAIN products'
               PROVE  \/ \E q \in parts' : q.product = p
                      \/ <<"addProduct", p>> \in half'
                      \/ \E o \in Slot : req'[o].at = "parts" /\ req'[o].row = p
    BY DEF C!ProductsFull
  <2>1. CASE p \notin DOMAIN products BY <1>2, <2>1
  <2>2. CASE p \in DOMAIN products
    <3>1. CASE \E q \in parts : q.product = p BY <3>1
    <3>2. CASE <<"addProduct", p>> \in half BY <3>2
    <3>3. CASE \E o \in Slot : req[o].at = "parts" /\ req[o].row = p BY <1>2, <3>3
    <3> QED BY <1>5, <2>2, <3>1, <3>2, <3>3 DEF C!ProductsFull
  <2> QED BY <2>1, <2>2
<1> QED BY <1>3, <1>4, <1>6, <1>7 DEF C!CatalogueInv

\* A request that is at no row yet goes on, or ends, and leaves the tables
\* alone but for rows that stay where they are.
LEMMA CatalogueGoes ==
  ASSUME C!CatalogueInv, NEW s \in Slot, NEW r \in CatalogueRequest, C!Knows(r),
         req[s].at \notin {"batch", "parts"},
         req' = [req EXCEPT ![s] = r], started' = started, overlap' = overlap,
         CatalogueTables', batches' = batches, parts' = parts, half' = half,
         DOMAIN inventories' = DOMAIN inventories, DOMAIN products' = DOMAIN products
  PROVE  C!CatalogueInv'
<1>1. started' \in Nat /\ overlap' \in BOOLEAN BY CatalogueIs
<1> QED BY <1>1, CatalogueServed

LEMMA IdleInCatalogue == C!Idle \in CatalogueRequest /\ C!Knows(C!Idle)
<1>1. <<>> \in Seq(C!Entry) /\ <<>> \in Seq(Nat \X Parts) /\ Len(<<>>) = 0 BY EmptySeq
<1> QED BY <1>1 DEF C!Idle, CatalogueRequest, C!Knows, C!Op, C!At

\* A request that arrives.
LEMMA CatalogueAccepts ==
  ASSUME C!CatalogueInv, NEW s \in Slot, NEW r \in CatalogueRequest, C!Knows(r), C!Begin(s, r)
  PROVE  C!CatalogueInv'
<1>1. CatalogueTables /\ started \in Nat /\ overlap \in BOOLEAN /\ C!Knows(req[s])
  BY CatalogueIs
<1>2. /\ req[s].op = "idle" /\ req' = [req EXCEPT ![s] = r] /\ started' = started + 1
      /\ UNCHANGED C!catalogue /\ overlap' \in BOOLEAN
  BY <1>1 DEF C!Begin, C!Accept, C!Busy
<1>3. req[s].at \notin {"batch", "parts"} BY <1>1, <1>2 DEF C!Knows
<1>4. CatalogueTables' BY <1>1, <1>2 DEF CatalogueTables, C!catalogue
<1>5. /\ batches' = batches /\ parts' = parts /\ half' = half
      /\ inventories' = inventories /\ products' = products
  BY <1>2 DEF C!catalogue
<1>6. started' \in Nat BY <1>1, <1>2
<1> QED BY <1>2, <1>3, <1>4, <1>5, <1>6, CatalogueServed

\* A request as a client asks it.
LEMMA CatalogueAsked ==
  ASSUME NEW op \in C!Op, NEW i \in Nat, NEW r, r = C!Ask(op, i)
  PROVE  /\ r \in CatalogueRequest /\ r.op = op /\ r.at = "find"
         /\ r.list = <<>> /\ Len(r.list) = 0
         /\ op \notin {"addCategories", "addProductCategory", "renameCategory",
                       "addInventory", "addBatch"} => C!Knows(r)
<1>1. C!Idle \in CatalogueRequest /\ C!Idle.list = <<>> /\ Len(<<>>) = 0
  BY IdleInCatalogue, EmptySeq DEF C!Idle
<1>2. r \in CatalogueRequest /\ r.op = op /\ r.at = "find" /\ r.list = <<>>
  BY <1>1 DEF C!Ask, CatalogueRequest, C!At
<1> QED BY <1>1, <1>2 DEF C!Knows

\* Categories in a request, with or without a subcategory.
LEMMA EntryLists ==
  ASSUME NEW n \in CategoryName, NEW m \in CategoryName
  PROVE  /\ <<C!Bare(n)>> \in Seq(C!Entry) /\ <<C!Bare(n)>> # <<>>
         /\ <<C!Bare(n), C!Bare(m)>> \in Seq(C!Entry) /\ <<C!Bare(n), C!Bare(m)>> # <<>>
         /\ <<[name |-> n, subs |-> <<m>>]>> \in Seq(C!Entry)
         /\ <<[name |-> n, subs |-> <<m>>]>> # <<>>
<1>1. \A d, e \in C!Entry : /\ <<e>> \in Seq(C!Entry) /\ <<e>> # <<>>
                            /\ <<d, e>> \in Seq(C!Entry) /\ <<d, e>> # <<>>
  OBVIOUS
<1>2. <<>> \in Seq(CategoryName) /\ <<m>> \in Seq(CategoryName) OBVIOUS
<1>3. C!Bare(n) \in C!Entry /\ C!Bare(m) \in C!Entry BY <1>2 DEF C!Bare, C!Entry
<1>4. [name |-> n, subs |-> <<m>>] \in C!Entry BY <1>2 DEF C!Entry
<1> QED BY <1>1, <1>3, <1>4

\* What the clients ask.
LEMMA CatalogueStarts ==
  ASSUME C!CatalogueInv, NEW s \in Slot, C!Start(s)
  PROVE  C!CatalogueInv'
<1>1. /\ DOMAIN categories \subseteq Nat /\ DOMAIN inventories \subseteq Nat
      /\ DOMAIN products \subseteq Nat
  BY CatalogueIs
<1>2. SUFFICES \E r : r \in CatalogueRequest /\ C!Knows(r) /\ C!Begin(s, r)
  BY CatalogueAccepts
<1>3. ASSUME NEW n \in CategoryName
      PROVE  <<C!Bare(n)>> \in Seq(C!Entry) /\ <<C!Bare(n)>> # <<>>
  BY EntryLists
<1>4. CASE C!AskCreateCategories(s)
  <2>1. PICK names \in Seq(C!Entry), p \in Nat :
          names # <<>> /\ C!Begin(s, [C!Ask("addCategories", p) EXCEPT !.names = names])
    <3>1. PICK n \in CategoryName, m \in CategoryName :
            \/ \E p \in {0, 1, C!Unknown} :
                 C!Begin(s, [C!Ask("addCategories", p) EXCEPT !.names = <<C!Bare(n)>>])
            \/ \E given \in {<<[name |-> n, subs |-> <<m>>]>>, <<C!Bare(n), C!Bare(m)>>} :
                 C!Begin(s, [C!Ask("addCategories", 0) EXCEPT !.names = given])
      BY <1>4 DEF C!AskCreateCategories
    <3>2. CASE \E p \in {0, 1, C!Unknown} :
                 C!Begin(s, [C!Ask("addCategories", p) EXCEPT !.names = <<C!Bare(n)>>])
      <4>1. PICK p \in {0, 1, C!Unknown} :
              C!Begin(s, [C!Ask("addCategories", p) EXCEPT !.names = <<C!Bare(n)>>])
        BY <3>2
      <4>2. p \in Nat BY DEF C!Unknown
      <4> QED BY <4>1, <4>2, EntryLists, Zenon
    <3>3. CASE \E given \in {<<[name |-> n, subs |-> <<m>>]>>, <<C!Bare(n), C!Bare(m)>>} :
                 C!Begin(s, [C!Ask("addCategories", 0) EXCEPT !.names = given])
      <4>1. PICK given \in {<<[name |-> n, subs |-> <<m>>]>>, <<C!Bare(n), C!Bare(m)>>} :
              C!Begin(s, [C!Ask("addCategories", 0) EXCEPT !.names = given])
        BY <3>3
      <4>2. given \in Seq(C!Entry) /\ given # <<>> BY EntryLists, Zenon
      <4>3. 0 \in Nat OBVIOUS
      <4> QED BY <4>1, <4>2, <4>3, Zenon
    <3> QED BY <3>1, <3>2, <3>3
  <2>2. PICK q : q = C!Ask("addCategories", p) OBVIOUS
  <2>3. /\ q \in CatalogueRequest /\ q.op = "addCategories" /\ q.at = "find"
        /\ q.list = <<>> /\ Len(q.list) = 0
    BY <2>2, CatalogueAsked DEF C!Op
  <2>4. PICK r : r = [q EXCEPT !.names = names] OBVIOUS
  <2>5. r \in CatalogueRequest /\ C!Knows(r) BY <1>3, <2>1, <2>3, <2>4 DEF CatalogueRequest, C!Knows
  <2> QED BY <2>1, <2>2, <2>4, <2>5
<1>5. CASE C!AskUpdateCategory(s)
  <2>1. PICK c \in Nat, names \in Seq(C!Entry) :
          names # <<>> /\ C!Begin(s, [C!Ask("renameCategory", c) EXCEPT !.names = names])
    BY <1>1, <1>3, <1>5 DEF C!AskUpdateCategory
  <2>2. PICK q : q = C!Ask("renameCategory", c) OBVIOUS
  <2>3. /\ q \in CatalogueRequest /\ q.op = "renameCategory" /\ q.at = "find"
        /\ q.list = <<>> /\ Len(q.list) = 0
    BY <2>2, CatalogueAsked DEF C!Op
  <2>4. PICK r : r = [q EXCEPT !.names = names] OBVIOUS
  <2>5. /\ r \in CatalogueRequest /\ r.op = q.op /\ r.at = "find" /\ r.list = q.list
        /\ r.names = names
    BY <2>1, <2>3, <2>4 DEF CatalogueRequest
  <2>6. C!Knows(r) BY <2>1, <2>3, <2>5 DEF C!Knows
  <2> QED BY <2>1, <2>2, <2>4, <2>5, <2>6
<1>6. CASE C!AskDeleteCategory(s)
  <2>1. PICK c \in Nat :
          C!Begin(s, C!Ask("removeCategory", c))
    BY <1>1, <1>3, <1>6 DEF C!AskDeleteCategory
  <2>2. PICK q : q = C!Ask("removeCategory", c) OBVIOUS
  <2>3. /\ q \in CatalogueRequest /\ q.op = "removeCategory" /\ q.at = "find"
        /\ q.list = <<>> /\ Len(q.list) = 0 /\ C!Knows(q)
    BY <2>2, CatalogueAsked DEF C!Op
  <2> QED BY <2>1, <2>2, <2>3
<1>7. CASE C!AskCreateInventory(s)
  <2>1. PICK c \in Nat, d \in Nat, p \in Price, n \in Stock :
          C!Begin(s, [C!Ask("addInventory", c) EXCEPT !.sub = d, !.price = p, !.stock = n])
    BY <1>1, <1>3, <1>7 DEF C!AskCreateInventory
  <2>2. PICK q : q = C!Ask("addInventory", c) OBVIOUS
  <2>3. /\ q \in CatalogueRequest /\ q.op = "addInventory" /\ q.at = "find"
        /\ q.list = <<>> /\ Len(q.list) = 0
    BY <2>2, CatalogueAsked DEF C!Op
  <2>4. PICK r : r = [q EXCEPT !.sub = d, !.price = p, !.stock = n] OBVIOUS
  <2>5. r \in CatalogueRequest BY <2>1, <2>3, <2>4 DEF CatalogueRequest
  <2>6. /\ r.op = q.op /\ r.at = "find" /\ r.list = q.list /\ r.price = p /\ r.stock = n
    BY <2>3, <2>4 DEF CatalogueRequest
  <2>7. C!Knows(r) BY <2>1, <2>3, <2>6 DEF C!Knows
  <2> QED BY <2>1, <2>2, <2>4, <2>5, <2>7
<1>8. CASE C!AskCreateBatch(s)
  <2>1. PICK i \in Nat, p \in Price, n \in Stock :
          C!Begin(s, [C!Ask("addBatch", i) EXCEPT !.price = p, !.stock = n])
    BY <1>1, <1>3, <1>8 DEF C!AskCreateBatch
  <2>2. PICK q : q = C!Ask("addBatch", i) OBVIOUS
  <2>3. /\ q \in CatalogueRequest /\ q.op = "addBatch" /\ q.at = "find"
        /\ q.list = <<>> /\ Len(q.list) = 0
    BY <2>2, CatalogueAsked DEF C!Op
  <2>4. PICK r : r = [q EXCEPT !.price = p, !.stock = n] OBVIOUS
  <2>5. r \in CatalogueRequest BY <2>1, <2>3, <2>4 DEF CatalogueRequest
  <2>6. /\ r.op = q.op /\ r.at = "find" /\ r.list = q.list /\ r.price = p /\ r.stock = n
    BY <2>3, <2>4 DEF CatalogueRequest
  <2>7. C!Knows(r) BY <2>1, <2>3, <2>6 DEF C!Knows
  <2> QED BY <2>1, <2>2, <2>4, <2>5, <2>7
<1>9. CASE C!AskUpdateInventory(s)
  <2>1. PICK i \in Nat, c \in Nat :
          C!Begin(s, [C!Ask("updateInventory", i) EXCEPT !.sub = c])
    BY <1>1, <1>3, <1>9 DEF C!AskUpdateInventory
  <2>2. PICK q : q = C!Ask("updateInventory", i) OBVIOUS
  <2>3. /\ q \in CatalogueRequest /\ q.op = "updateInventory" /\ q.at = "find"
        /\ q.list = <<>> /\ Len(q.list) = 0 /\ C!Knows(q)
    BY <2>2, CatalogueAsked DEF C!Op
  <2>4. PICK r : r = [q EXCEPT !.sub = c] OBVIOUS
  <2>5. r \in CatalogueRequest /\ C!Knows(r) BY <1>3, <2>1, <2>3, <2>4 DEF CatalogueRequest, C!Knows
  <2> QED BY <2>1, <2>2, <2>4, <2>5
<1>10. CASE C!AskDeleteInventory(s)
  <2>1. PICK i \in Nat :
          C!Begin(s, C!Ask("removeInventory", i))
    BY <1>1, <1>3, <1>10 DEF C!AskDeleteInventory
  <2>2. PICK q : q = C!Ask("removeInventory", i) OBVIOUS
  <2>3. /\ q \in CatalogueRequest /\ q.op = "removeInventory" /\ q.at = "find"
        /\ q.list = <<>> /\ Len(q.list) = 0 /\ C!Knows(q)
    BY <2>2, CatalogueAsked DEF C!Op
  <2> QED BY <2>1, <2>2, <2>3
<1>11. CASE C!AskCreateProductCategory(s)
  <2>1. PICK names \in Seq(C!Entry) :
          names # <<>> /\ C!Begin(s, [C!Ask("addProductCategory", 0) EXCEPT !.names = names])
    BY <1>1, <1>3, <1>11 DEF C!AskCreateProductCategory
  <2>2. PICK q : q = C!Ask("addProductCategory", 0) OBVIOUS
  <2>3. /\ q \in CatalogueRequest /\ q.op = "addProductCategory" /\ q.at = "find"
        /\ q.list = <<>> /\ Len(q.list) = 0
    BY <2>2, CatalogueAsked DEF C!Op
  <2>4. PICK r : r = [q EXCEPT !.names = names] OBVIOUS
  <2>5. /\ r \in CatalogueRequest /\ r.op = q.op /\ r.at = "find" /\ r.list = q.list
        /\ r.names = names
    BY <2>1, <2>3, <2>4 DEF CatalogueRequest
  <2>6. C!Knows(r) BY <2>1, <2>3, <2>5 DEF C!Knows
  <2> QED BY <2>1, <2>2, <2>4, <2>5, <2>6
<1>12. CASE C!AskCreateProduct(s)
  <2>1. PICK c \in Nat, ask \in Seq(Nat \X Parts) :
          Len(ask) <= 2 /\ C!Begin(s, [C!Ask("addProduct", c) EXCEPT !.list = ask])
    <3>0. PICK c \in Nat, n \in 0..2 : \E ask \in [1..n -> (DOMAIN inventories) \X Parts] :
            C!Begin(s, [C!Ask("addProduct", c) EXCEPT !.list = ask])
      BY <1>1, <1>12 DEF C!AskCreateProduct
    <3>1. PICK ask \in [1..n -> (DOMAIN inventories) \X Parts] :
            C!Begin(s, [C!Ask("addProduct", c) EXCEPT !.list = ask])
      BY <3>0
    <3>2. ask \in [1..n -> Nat \X Parts] /\ n \in Nat BY <1>1
    <3>3. ask \in Seq(Nat \X Parts) BY <3>2, SeqDef
    <3>4. Len(ask) = n BY <3>2, <3>3, LenProperties
    <3>5. Len(ask) <= 2 BY <3>4
    <3>6. c \in Nat OBVIOUS
    <3> QED BY <3>1, <3>3, <3>5, <3>6, Zenon
  <2>2. PICK q : q = C!Ask("addProduct", c) OBVIOUS
  <2>3. /\ q \in CatalogueRequest /\ q.op = "addProduct" /\ q.at = "find"
        /\ q.list = <<>> /\ Len(q.list) = 0
    BY <2>2, CatalogueAsked DEF C!Op
  <2>4. PICK r : r = [q EXCEPT !.list = ask] OBVIOUS
  <2>5. r \in CatalogueRequest /\ C!Knows(r) BY <1>3, <2>1, <2>3, <2>4 DEF CatalogueRequest, C!Knows
  <2> QED BY <2>1, <2>2, <2>4, <2>5
<1>13. CASE C!AskUpdateProduct(s)
  <2>1. PICK i \in Nat, c \in Nat :
          C!Begin(s, [C!Ask("updateProduct", i) EXCEPT !.sub = c])
    BY <1>1, <1>3, <1>13 DEF C!AskUpdateProduct
  <2>2. PICK q : q = C!Ask("updateProduct", i) OBVIOUS
  <2>3. /\ q \in CatalogueRequest /\ q.op = "updateProduct" /\ q.at = "find"
        /\ q.list = <<>> /\ Len(q.list) = 0 /\ C!Knows(q)
    BY <2>2, CatalogueAsked DEF C!Op
  <2>4. PICK r : r = [q EXCEPT !.sub = c] OBVIOUS
  <2>5. r \in CatalogueRequest /\ C!Knows(r) BY <1>3, <2>1, <2>3, <2>4 DEF CatalogueRequest, C!Knows
  <2> QED BY <2>1, <2>2, <2>4, <2>5
<1>14. CASE C!AskDeleteProduct(s)
  <2>1. PICK i \in Nat :
          C!Begin(s, C!Ask("removeProduct", i))
    BY <1>1, <1>3, <1>14 DEF C!AskDeleteProduct
  <2>2. PICK q : q = C!Ask("removeProduct", i) OBVIOUS
  <2>3. /\ q \in CatalogueRequest /\ q.op = "removeProduct" /\ q.at = "find"
        /\ q.list = <<>> /\ Len(q.list) = 0 /\ C!Knows(q)
    BY <2>2, CatalogueAsked DEF C!Op
  <2> QED BY <2>1, <2>2, <2>3
<1> QED
  BY <1>4, <1>5, <1>6, <1>7, <1>8, <1>9, <1>10, <1>11, <1>12, <1>13, <1>14 DEF C!Start

-----------------------------------------------------------------------------
(* Catalogue: what requests read and write *)

\* A row of a table changes; the table is one still.
LEMMA RowChanged ==
  ASSUME NEW R, NEW table \in Seq(R), NEW i, NEW row, i \in DOMAIN table => row \in R,
         NEW now, now = [table EXCEPT ![i] = row]
  PROVE  now \in Seq(R) /\ DOMAIN now = DOMAIN table
<1>1. DOMAIN table = 1..Len(table) /\ Len(table) \in Nat /\ table \in [1..Len(table) -> R]
  BY LenProperties
<1>2. PICK n \in Nat : n = Len(table) BY <1>1
<1>3. table \in [1..n -> R] /\ DOMAIN table = 1..n BY <1>1, <1>2
<1>4. now \in [1..n -> R] BY <1>3
<1>5. now \in Seq(R) BY <1>4, SeqDef
<1> QED BY <1>3, <1>4, <1>5

\* A row is added to a table.
LEMMA RowAdded ==
  ASSUME NEW R, NEW table \in Seq(R), NEW row \in R, NEW now, now = Append(table, row)
  PROVE  /\ now \in Seq(R) /\ Len(now) = Len(table) + 1 /\ Len(now) \in Nat
         /\ DOMAIN now = 1..Len(now) /\ DOMAIN table = 1..Len(table) /\ Len(table) \in Nat
         /\ DOMAIN now = DOMAIN table \cup {Len(now)}
         /\ now[Len(now)] = row
         /\ \A i \in DOMAIN table : i \in DOMAIN now /\ now[i] = table[i]
<1>1. now \in Seq(R) /\ Len(now) = Len(table) + 1 /\ Len(table) \in Nat
  BY AppendProperties, LenProperties
<1>2. DOMAIN now = 1..Len(now) /\ DOMAIN table = 1..Len(table) BY <1>1, LenProperties
<1>3. now[Len(table) + 1] = row /\ \A i \in 1..Len(table) : now[i] = table[i]
  BY AppendProperties
<1>4. PICK n \in Nat : n = Len(table) BY <1>1
<1>5. Len(now) = n + 1 /\ 1..(n + 1) = 1..n \cup {n + 1} BY <1>1, <1>4
<1> QED BY <1>1, <1>2, <1>3, <1>4, <1>5

\* A request ends; what it was filling is noted.
LEMMA CatalogueFails ==
  ASSUME C!CatalogueInv, NEW s \in Slot, C!Fail(s)
  PROVE  C!CatalogueInv'
<1>1. /\ CatalogueTables /\ started \in Nat /\ overlap \in BOOLEAN
      /\ req[s] \in CatalogueRequest /\ C!Knows(req[s])
  BY CatalogueIs
<1>2. /\ half' = half \cup C!Cut(s) /\ req' = [req EXCEPT ![s] = C!Idle]
      /\ started' = started /\ overlap' = overlap
      /\ categories' = categories /\ inventories' = inventories /\ batches' = batches
      /\ products' = products /\ parts' = parts
  BY DEF C!Fail, C!Finish, C!Set
<1>3. /\ req[s].at = "batch" => C!Cut(s) = {<<"addInventory", req[s].row>>}
      /\ req[s].at = "parts" => C!Cut(s) = {<<"addProduct", req[s].row>>}
      /\ req[s].at \notin {"batch", "parts"} => C!Cut(s) = {}
  BY <1>1 DEF C!Cut, C!Knows
<1>4. C!Cut(s) \subseteq {"addInventory", "addProduct"} \X Nat
  BY <1>1, <1>3 DEF CatalogueRequest
<1>5. CatalogueTables' BY <1>1, <1>2, <1>4 DEF CatalogueTables
<1>6. started' \in Nat /\ overlap' \in BOOLEAN BY <1>1, <1>2
<1> QED BY <1>2, <1>3, <1>5, <1>6, IdleInCatalogue, CatalogueServed

\* A sale takes a unit of a batch.
LEMMA CatalogueSells ==
  ASSUME C!CatalogueInv, C!Sell
  PROVE  C!CatalogueInv'
<1>1. CatalogueTables BY CatalogueIs
<1>2. PICK b \in DOMAIN batches :
        batches' = [batches EXCEPT ![b].left = @ - 1]
  BY DEF C!Sell
<1>3. /\ categories' = categories /\ inventories' = inventories /\ products' = products
      /\ parts' = parts /\ half' = half /\ req' = req /\ started' = started
      /\ overlap' = overlap
  BY DEF C!Sell
<1>4. PICK row : row = [batches[b] EXCEPT !.left = @ - 1] OBVIOUS
<1>5. batches[b] \in C!BatchRow
  BY <1>1, <1>2, LenProperties, ElementOfSeq DEF CatalogueTables
<1>6. row \in C!BatchRow /\ row.inventory = batches[b].inventory
  BY <1>2, <1>4, <1>5 DEF C!BatchRow
<1>7. batches' = [batches EXCEPT ![b] = row] BY <1>2, <1>4
<1>8. batches' \in Seq(C!BatchRow) /\ DOMAIN batches' = DOMAIN batches
  BY <1>1, <1>6, <1>7, RowChanged DEF CatalogueTables
<1>9. \A c \in DOMAIN batches : batches'[c].inventory = batches[c].inventory
  BY <1>2, <1>6, <1>7
<1>10. C!TypeOK' BY <1>1, <1>3, <1>8 DEF CatalogueTables, C!CatalogueInv, C!TypeOK, C!RequestsOK
<1>11. C!InventoriesFull' BY <1>3, <1>8, <1>9 DEF C!CatalogueInv, C!InventoriesFull
<1>12. C!ProductsFull' BY <1>3 DEF C!CatalogueInv, C!ProductsFull
<1>13. \A o \in Slot : C!Knows(req'[o]) BY <1>3 DEF C!CatalogueInv
<1> QED BY <1>10, <1>11, <1>12, <1>13 DEF C!CatalogueInv

\* A request is refused, or has read what it needs.
LEMMA CatalogueRefuses ==
  ASSUME C!CatalogueInv, NEW s \in Slot, req[s].at \notin {"batch", "parts"}, C!Refuse(s)
  PROVE  C!CatalogueInv'
<1>1. CatalogueTables BY CatalogueIs
<1>2. /\ req' = [req EXCEPT ![s] = C!Idle] /\ started' = started /\ overlap' = overlap
      /\ UNCHANGED C!catalogue
  BY DEF C!Refuse, C!Finish, C!Set
<1>3. CatalogueTables' BY <1>1, <1>2 DEF CatalogueTables, C!catalogue
<1>4. /\ batches' = batches /\ parts' = parts /\ half' = half
      /\ inventories' = inventories /\ products' = products
  BY <1>2 DEF C!catalogue
<1> QED BY <1>2, <1>3, <1>4, IdleInCatalogue, CatalogueGoes

LEMMA CatalogueMoves ==
  ASSUME C!CatalogueInv, NEW s \in Slot, req[s].at \notin {"batch", "parts"},
         NEW a \in {"parent", "write", "inventories"},
         req[s].op = "addProduct" => req[s].list # <<>>,
         C!Goto(s, a), UNCHANGED C!catalogue
  PROVE  C!CatalogueInv'
<1>1. CatalogueTables /\ req[s] \in CatalogueRequest /\ C!Knows(req[s]) BY CatalogueIs
<1>2. PICK r : r = [req[s] EXCEPT !.at = a] OBVIOUS
<1>3. /\ r \in CatalogueRequest /\ r.op = req[s].op /\ r.at = a /\ r.names = req[s].names
      /\ r.list = req[s].list /\ r.price = req[s].price /\ r.stock = req[s].stock
  BY <1>1, <1>2 DEF CatalogueRequest, C!At
<1>4. C!Knows(r) BY <1>1, <1>3 DEF C!Knows
<1>5. req' = [req EXCEPT ![s] = r] /\ started' = started /\ overlap' = overlap
  BY <1>2 DEF C!Goto, C!Set
<1>6. CatalogueTables' BY <1>1 DEF CatalogueTables, C!catalogue
<1>7. /\ batches' = batches /\ parts' = parts /\ half' = half
      /\ inventories' = inventories /\ products' = products
  BY DEF C!catalogue
<1> QED BY <1>3, <1>4, <1>5, <1>6, <1>7, CatalogueGoes

\* What a request reads.
LEMMA CatalogueReads ==
  ASSUME C!CatalogueInv, NEW s \in Slot,
         \/ C!FindCategory(s) \/ C!FindParent(s) \/ C!FindProductCategory(s) \/ C!FindRow(s)
         \/ C!FindCategoryOfInventory(s) \/ C!FindCategoryOfProduct(s) \/ C!FindInventories(s)
  PROVE  C!CatalogueInv'
<1>1. C!Knows(req[s]) BY CatalogueIs
<1>2. /\ req[s].at \notin {"batch", "parts"}
      /\ C!Refuse(s) \/ \E a \in {"parent", "write", "inventories"} :
                          /\ C!Goto(s, a) /\ UNCHANGED C!catalogue
                          /\ req[s].op = "addProduct" => req[s].list # <<>>
  <2>1. CASE C!FindCategory(s) BY <2>1 DEF C!FindCategory, C!Running
  <2>2. CASE C!FindParent(s) BY <2>2 DEF C!FindParent, C!Running
  <2>3. CASE C!FindProductCategory(s) BY <2>3 DEF C!FindProductCategory, C!Running
  <2>4. CASE C!FindRow(s) BY <2>4 DEF C!FindRow
  <2>5. CASE C!FindCategoryOfInventory(s) BY <2>5 DEF C!FindCategoryOfInventory, C!Running
  <2>6. CASE C!FindCategoryOfProduct(s) BY <2>6 DEF C!FindCategoryOfProduct, C!Running
  <2>7. CASE C!FindInventories(s) BY <1>1, <2>7 DEF C!FindInventories, C!Running, C!Knows
  <2> QED BY <2>1, <2>2, <2>3, <2>4, <2>5, <2>6, <2>7
<1> QED BY <1>2, CatalogueRefuses, CatalogueMoves

\* A request writes a category, or changes a row of a table, and ends.
LEMMA CatalogueWrites ==
  ASSUME C!CatalogueInv, NEW s \in Slot, req[s].at \notin {"batch", "parts"}, C!Finish(s),
         categories' \in Seq(C!CategoryRow),
         inventories' \in Seq(C!InventoryRow), DOMAIN inventories' = DOMAIN inventories,
         products' \in Seq(C!ProductRow), DOMAIN products' = DOMAIN products,
         batches' = batches, parts' = parts, half' = half
  PROVE  C!CatalogueInv'
<1>1. CatalogueTables BY CatalogueIs
<1>2. CatalogueTables' BY <1>1 DEF CatalogueTables
<1>3. req' = [req EXCEPT ![s] = C!Idle] /\ started' = started /\ overlap' = overlap
  BY DEF C!Finish, C!Set
<1> QED BY <1>2, <1>3, IdleInCatalogue, CatalogueGoes

\* The rows of a category and its subcategories that a request inserts.
LEMMA CategoryInserted ==
  ASSUME C!CatalogueInv, NEW names \in Seq(CategoryName), NEW type \in C!CategoryTypes,
         NEW p \in Nat, C!InsertCategory(names, type, p)
  PROVE  /\ categories' \in Seq(C!CategoryRow)
         /\ inventories' = inventories /\ batches' = batches /\ products' = products
         /\ parts' = parts /\ half' = half
<1>1. categories \in Seq(C!CategoryRow) /\ Len(categories) \in Nat
  BY CatalogueIs DEF CatalogueTables
<1>2. PICK new : new = [i \in DOMAIN names |->
        [name |-> names[i], type |-> type,
         parent |-> IF i = 1 THEN p ELSE Len(categories) + 1, live |-> TRUE]]
  OBVIOUS
<1>3. DOMAIN names = 1..Len(names) /\ Len(names) \in Nat
      /\ \A i \in DOMAIN names : names[i] \in CategoryName
  BY LenProperties, ElementOfSeq
<1>4. ASSUME NEW i \in DOMAIN names
      PROVE  [name |-> names[i], type |-> type,
              parent |-> IF i = 1 THEN p ELSE Len(categories) + 1, live |-> TRUE]
               \in C!CategoryRow
  BY <1>1, <1>3 DEF C!CategoryRow
<1>5. new \in [1..Len(names) -> C!CategoryRow] BY <1>2, <1>3, <1>4
<1>6. new \in Seq(C!CategoryRow) BY <1>3, <1>5, SeqDef
<1>7. categories' = categories \o new BY <1>2 DEF C!InsertCategory
<1>8. categories' \in Seq(C!CategoryRow) BY <1>1, <1>6, <1>7, ConcatProperties
<1> QED BY <1>8 DEF C!InsertCategory

\* createInventoryCategory inserts a category of its list.
LEMMA CategoryWritten ==
  ASSUME C!CatalogueInv, NEW s \in Slot, C!WriteCategory(s)
  PROVE  C!CatalogueInv'
<1>1. CatalogueTables /\ req[s] \in CatalogueRequest /\ C!Knows(req[s]) BY CatalogueIs
<1>2. req[s].op = "addCategories" /\ req[s].at = "write"
  BY DEF C!WriteCategory, C!Running
<1>3. req[s].names \in Seq(C!Entry) /\ req[s].names # <<>> /\ req[s].row \in Nat
  BY <1>1, <1>2 DEF CatalogueRequest, C!Knows
<1>4. Head(req[s].names) \in C!Entry /\ Tail(req[s].names) \in Seq(C!Entry)
  BY <1>3, HeadTailProperties
<1>5. PICK n \in Seq(CategoryName), rest \in Seq(C!Entry) :
        /\ n = <<Head(req[s].names).name>> \o Head(req[s].names).subs
        /\ rest = Tail(req[s].names)
  <2>1. PICK c \in C!Entry : c = Head(req[s].names) BY <1>4
  <2>2. c.name \in CategoryName /\ c.subs \in Seq(CategoryName) BY DEF C!Entry
  <2>3. \A x \in CategoryName : <<x>> \in Seq(CategoryName) OBVIOUS
  <2>4. <<c.name>> \o c.subs \in Seq(CategoryName) BY <2>2, <2>3, ConcatProperties
  <2> QED BY <1>4, <2>1, <2>4
<1>6. \/ /\ C!InsertCategory(n, "INVENTORY", req[s].row)
         /\ IF rest = <<>> THEN C!Finish(s)
            ELSE C!Set(s, [req[s] EXCEPT !.at = "find", !.names = rest])
      \/ C!Refuse(s)
  BY <1>5 DEF C!WriteCategory
<1>7. CASE C!Refuse(s) BY <1>2, <1>7, CatalogueRefuses
<1>8. CASE C!InsertCategory(n, "INVENTORY", req[s].row)
  <2>1. /\ categories' \in Seq(C!CategoryRow)
        /\ inventories' = inventories /\ batches' = batches /\ products' = products
        /\ parts' = parts /\ half' = half
    BY <1>3, <1>8, CategoryInserted DEF C!CategoryTypes
  <2>2. CatalogueTables' BY <1>1, <2>1 DEF CatalogueTables
  <2>3. CASE C!Finish(s)
    BY <1>1, <1>2, <2>1, <2>2, <2>3, CatalogueWrites DEF CatalogueTables
  <2>4. CASE rest # <<>> /\ C!Set(s, [req[s] EXCEPT !.at = "find", !.names = rest])
    <3>1. PICK r : r = [req[s] EXCEPT !.at = "find", !.names = rest] OBVIOUS
    <3>2. /\ r \in CatalogueRequest /\ r.op = "addCategories" /\ r.at = "find"
          /\ r.names = rest /\ r.list = req[s].list
      BY <1>1, <1>2, <3>1 DEF CatalogueRequest, C!At
    <3>3. C!Knows(r) BY <1>1, <2>4, <3>2 DEF C!Knows
    <3>4. req' = [req EXCEPT ![s] = r] /\ started' = started /\ overlap' = overlap
      BY <2>4, <3>1 DEF C!Set
    <3> QED BY <1>2, <2>1, <2>2, <3>2, <3>3, <3>4, CatalogueGoes
  <2>5. C!Finish(s) \/ (rest # <<>> /\ C!Set(s, [req[s] EXCEPT !.at = "find", !.names = rest]))
    <3>1. CASE C!Refuse(s) BY <3>1 DEF C!Refuse
    <3>2. CASE ~C!Refuse(s) BY <1>6, <3>2
    <3> QED BY <3>1, <3>2
  <2> QED BY <2>3, <2>4, <2>5
<1> QED BY <1>6, <1>7, <1>8

\* What is written in one step at the end of a request.
LEMMA CatalogueEnds ==
  ASSUME C!CatalogueInv, NEW s \in Slot,
         \/ C!WriteProductCategory(s) \/ C!RenameCategory(s) \/ C!RemoveCategory(s)
         \/ C!UpdateInventory(s) \/ C!DeleteInventory(s) \/ C!UpdateProduct(s)
         \/ C!DeleteProduct(s)
  PROVE  C!CatalogueInv'
<1>1. /\ categories \in Seq(C!CategoryRow) /\ inventories \in Seq(C!InventoryRow)
      /\ products \in Seq(C!ProductRow)
      /\ req[s] \in CatalogueRequest /\ C!Knows(req[s])
  BY CatalogueIs DEF CatalogueTables
<1>2. req[s].names \in Seq(C!Entry) /\ req[s].row \in Nat /\ req[s].sub \in Nat
  BY <1>1 DEF CatalogueRequest
<1>3. req[s].names # <<>> => req[s].names[1].name \in CategoryName
  <2>1. SUFFICES ASSUME req[s].names # <<>> PROVE req[s].names[1].name \in CategoryName OBVIOUS
  <2>2. Len(req[s].names) \in Nat \ {0} BY <1>2, <2>1, EmptySeq
  <2>3. 1 \in 1..Len(req[s].names) BY <2>2
  <2>4. req[s].names[1] \in C!Entry BY <1>2, <2>3, ElementOfSeq
  <2> QED BY <2>4 DEF C!Entry
<1>4. /\ \A i \in DOMAIN categories : categories[i] \in C!CategoryRow
      /\ \A i \in DOMAIN inventories : inventories[i] \in C!InventoryRow
      /\ \A i \in DOMAIN products : products[i] \in C!ProductRow
  BY <1>1, LenProperties, ElementOfSeq
<1>5. CASE C!WriteProductCategory(s)
  <2>1. req[s].op = "addProductCategory" /\ req[s].at = "write"
    BY <1>5 DEF C!WriteProductCategory, C!Running
  <2>2. PICK n \in CategoryName : n = req[s].names[1].name BY <1>1, <1>3, <2>1 DEF C!Knows
  <2>3. CASE C!Refuse(s) BY <2>1, <2>3, CatalogueRefuses
  <2>4. CASE C!InsertCategory(<<n>>, "PRODUCT", 0) /\ C!Finish(s)
    <3>0. <<n>> \in Seq(CategoryName) OBVIOUS
    <3>1. /\ categories' \in Seq(C!CategoryRow)
          /\ inventories' = inventories /\ batches' = batches /\ products' = products
          /\ parts' = parts /\ half' = half
      BY <2>4, <3>0, CategoryInserted DEF C!CategoryTypes
    <3> QED BY <1>1, <2>1, <2>4, <3>1, CatalogueWrites
  <2> QED BY <1>5, <2>2, <2>3, <2>4 DEF C!WriteProductCategory
<1>6. CASE C!RenameCategory(s)
  <2>1. req[s].op = "renameCategory" /\ req[s].at = "write"
    BY <1>6 DEF C!RenameCategory, C!Running
  <2>2. PICK n \in CategoryName : n = req[s].names[1].name BY <1>1, <1>3, <2>1 DEF C!Knows
  <2>3. PICK c \in Nat : c = req[s].row BY <1>2
  <2>4. \/ C!Refuse(s)
        \/ /\ categories' = [categories EXCEPT ![c].name = n] /\ C!Finish(s)
           /\ inventories' = inventories /\ batches' = batches /\ products' = products
           /\ parts' = parts /\ half' = half
    BY <1>6, <2>2, <2>3 DEF C!RenameCategory
  <2>5. CASE C!Refuse(s) BY <2>1, <2>5, CatalogueRefuses
  <2>6. CASE /\ categories' = [categories EXCEPT ![c].name = n] /\ C!Finish(s)
             /\ inventories' = inventories /\ batches' = batches /\ products' = products
             /\ parts' = parts /\ half' = half
    <3>1. PICK row : row = [categories[c] EXCEPT !.name = n] OBVIOUS
    <3>2. c \in DOMAIN categories => row \in C!CategoryRow BY <1>4, <3>1 DEF C!CategoryRow
    <3>3. categories' = [categories EXCEPT ![c] = row] BY <2>6, <3>1
    <3>4. categories' \in Seq(C!CategoryRow) BY <1>1, <3>2, <3>3, RowChanged
    <3> QED BY <1>1, <2>1, <2>6, <3>4, CatalogueWrites
  <2> QED BY <2>4, <2>5, <2>6
<1>7. CASE C!RemoveCategory(s)
  <2>1. req[s].at = "write" BY <1>7 DEF C!RemoveCategory, C!Running
  <2>2. PICK c \in Nat : c = req[s].row BY <1>2
  <2>3. /\ categories' = [categories EXCEPT ![c].live = FALSE] /\ C!Finish(s)
        /\ inventories' = inventories /\ batches' = batches /\ products' = products
        /\ parts' = parts /\ half' = half
    BY <1>7, <2>2 DEF C!RemoveCategory
  <2>4. PICK row : row = [categories[c] EXCEPT !.live = FALSE] OBVIOUS
  <2>5. c \in DOMAIN categories => row \in C!CategoryRow BY <1>4, <2>4 DEF C!CategoryRow
  <2>6. categories' = [categories EXCEPT ![c] = row] BY <2>3, <2>4
  <2>7. categories' \in Seq(C!CategoryRow) BY <1>1, <2>5, <2>6, RowChanged
  <2> QED BY <1>1, <2>1, <2>3, <2>7, CatalogueWrites
<1>8. CASE C!UpdateInventory(s)
  <2>1. req[s].at = "write" BY <1>8 DEF C!UpdateInventory, C!Running
  <2>2. PICK i \in Nat, c \in Nat : i = req[s].row /\ c = req[s].sub BY <1>2
  <2>3. /\ inventories' = [inventories EXCEPT ![i].category = c] /\ C!Finish(s)
        /\ categories' = categories /\ batches' = batches /\ products' = products
        /\ parts' = parts /\ half' = half
    BY <1>8, <2>2 DEF C!UpdateInventory
  <2>4. PICK row : row = [inventories[i] EXCEPT !.category = c] OBVIOUS
  <2>5. i \in DOMAIN inventories => row \in C!InventoryRow BY <1>4, <2>4 DEF C!InventoryRow
  <2>6. inventories' = [inventories EXCEPT ![i] = row] BY <2>3, <2>4
  <2>7. inventories' \in Seq(C!InventoryRow) /\ DOMAIN inventories' = DOMAIN inventories
    BY <1>1, <2>5, <2>6, RowChanged
  <2> QED BY <1>1, <2>1, <2>3, <2>7, CatalogueWrites
<1>9. CASE C!DeleteInventory(s)
  <2>1. req[s].at = "write" BY <1>9 DEF C!DeleteInventory, C!Running
  <2>2. PICK i \in Nat : i = req[s].row BY <1>2
  <2>3. /\ inventories' = [inventories EXCEPT ![i].live = FALSE] /\ C!Finish(s)
        /\ categories' = categories /\ batches' = batches /\ products' = products
        /\ parts' = parts /\ half' = half
    BY <1>9, <2>2 DEF C!DeleteInventory
  <2>4. PICK row : row = [inventories[i] EXCEPT !.live = FALSE] OBVIOUS
  <2>5. i \in DOMAIN inventories => row \in C!InventoryRow BY <1>4, <2>4 DEF C!InventoryRow
  <2>6. inventories' = [inventories EXCEPT ![i] = row] BY <2>3, <2>4
  <2>7. inventories' \in Seq(C!InventoryRow) /\ DOMAIN inventories' = DOMAIN inventories
    BY <1>1, <2>5, <2>6, RowChanged
  <2> QED BY <1>1, <2>1, <2>3, <2>7, CatalogueWrites
<1>10. CASE C!UpdateProduct(s)
  <2>1. req[s].at = "write" BY <1>10 DEF C!UpdateProduct, C!Running
  <2>2. PICK i \in Nat, c \in Nat : i = req[s].row /\ c = req[s].sub BY <1>2
  <2>3. /\ products' = [products EXCEPT ![i].category = c] /\ C!Finish(s)
        /\ categories' = categories /\ inventories' = inventories /\ batches' = batches
        /\ parts' = parts /\ half' = half
    BY <1>10, <2>2 DEF C!UpdateProduct
  <2>4. PICK row : row = [products[i] EXCEPT !.category = c] OBVIOUS
  <2>5. i \in DOMAIN products => row \in C!ProductRow BY <1>4, <2>4 DEF C!ProductRow
  <2>6. products' = [products EXCEPT ![i] = row] BY <2>3, <2>4
  <2>7. products' \in Seq(C!ProductRow) /\ DOMAIN products' = DOMAIN products
    BY <1>1, <2>5, <2>6, RowChanged
  <2> QED BY <1>1, <2>1, <2>3, <2>7, CatalogueWrites
<1>11. CASE C!DeleteProduct(s)
  <2>1. req[s].at = "write" BY <1>11 DEF C!DeleteProduct, C!Running
  <2>2. PICK i \in Nat : i = req[s].row BY <1>2
  <2>3. /\ products' = [products EXCEPT ![i].live = FALSE] /\ C!Finish(s)
        /\ categories' = categories /\ inventories' = inventories /\ batches' = batches
        /\ parts' = parts /\ half' = half
    BY <1>11, <2>2 DEF C!DeleteProduct
  <2>4. PICK row : row = [products[i] EXCEPT !.live = FALSE] OBVIOUS
  <2>5. i \in DOMAIN products => row \in C!ProductRow BY <1>4, <2>4 DEF C!ProductRow
  <2>6. products' = [products EXCEPT ![i] = row] BY <2>3, <2>4
  <2>7. products' \in Seq(C!ProductRow) /\ DOMAIN products' = DOMAIN products
    BY <1>1, <2>5, <2>6, RowChanged
  <2> QED BY <1>1, <2>1, <2>3, <2>7, CatalogueWrites
<1> QED BY <1>5, <1>6, <1>7, <1>8, <1>9, <1>10, <1>11

-----------------------------------------------------------------------------
(* Catalogue: what is created in two writes *)

\* An inventory is created, and its first batch is to come.
LEMMA InventoryCreated ==
  ASSUME C!CatalogueInv, NEW s \in Slot, C!CreateInventory(s)
  PROVE  C!CatalogueInv'
<1>1. /\ CatalogueTables /\ req[s] \in CatalogueRequest /\ C!Knows(req[s])
      /\ started \in Nat /\ overlap \in BOOLEAN
  BY CatalogueIs
<1>2. req[s].op = "addInventory" /\ req[s].at = "write" /\ req[s].row \in Nat /\ req[s].sub \in Nat
  BY <1>1 DEF C!CreateInventory, C!Running, CatalogueRequest
<1>3. PICK new : new = [category |-> req[s].row, sub |-> req[s].sub, live |-> TRUE] OBVIOUS
<1>4. new \in C!InventoryRow BY <1>2, <1>3 DEF C!InventoryRow
<1>5. /\ inventories' = Append(inventories, new)
      /\ categories' = categories /\ batches' = batches /\ products' = products
      /\ parts' = parts /\ half' = half /\ started' = started /\ overlap' = overlap
      /\ req' = [req EXCEPT ![s] = [req[s] EXCEPT !.at = "batch", !.row = Len(inventories')]]
  BY <1>3 DEF C!CreateInventory, C!Set
<1>6. /\ inventories' \in Seq(C!InventoryRow) /\ Len(inventories') \in Nat
      /\ DOMAIN inventories' = DOMAIN inventories \cup {Len(inventories')}
  BY <1>1, <1>4, <1>5, RowAdded DEF CatalogueTables
<1>7. PICK n \in Nat : n = Len(inventories') BY <1>6
<1>8. PICK r : r = [req[s] EXCEPT !.at = "batch", !.row = n] OBVIOUS
<1>9. /\ r \in CatalogueRequest /\ r.op = "addInventory" /\ r.at = "batch" /\ r.row = n
      /\ r.list = req[s].list /\ r.price = req[s].price /\ r.stock = req[s].stock
  BY <1>1, <1>2, <1>8 DEF CatalogueRequest, C!At
<1>10. C!Knows(r) BY <1>1, <1>2, <1>9 DEF C!Knows
<1>11. req' = [req EXCEPT ![s] = r] BY <1>5, <1>7, <1>8
<1>12. CatalogueTables' BY <1>1, <1>5, <1>6 DEF CatalogueTables
<1>13. /\ started' \in Nat /\ overlap' \in BOOLEAN /\ half \subseteq half' /\ parts \subseteq parts'
       /\ \A b \in DOMAIN batches :
            b \in DOMAIN batches' /\ batches'[b].inventory = batches[b].inventory
       /\ \A i \in DOMAIN inventories' : i \in DOMAIN inventories \/ (r.at = "batch" /\ r.row = i)
       /\ \A p \in DOMAIN products' : p \in DOMAIN products \/ (r.at = "parts" /\ r.row = p)
  BY <1>1, <1>5, <1>6, <1>7, <1>9
<1>14. req[s].at # "batch" /\ req[s].at # "parts" BY <1>2
<1> QED BY <1>9, <1>10, <1>11, <1>12, <1>13, <1>14, CatalogueServed

\* A batch is inserted: the first of a new inventory, or one more.
LEMMA BatchInserted ==
  ASSUME C!CatalogueInv, NEW s \in Slot, C!CreateFirstBatch(s) \/ C!CreateInventoryBatch(s)
  PROVE  C!CatalogueInv'
<1>1. /\ CatalogueTables /\ req[s] \in CatalogueRequest /\ C!Knows(req[s])
      /\ started \in Nat /\ overlap \in BOOLEAN
  BY CatalogueIs
<1>2. /\ req[s].op \in {"addInventory", "addBatch"} /\ req[s].at # "parts"
      /\ req[s].row \in Nat /\ C!InsertBatch(s)
  BY <1>1 DEF C!CreateFirstBatch, C!CreateInventoryBatch, C!Running, CatalogueRequest
<1>3. req[s].price \in Price /\ req[s].stock \in Stock /\ req[s].stock \in Nat
  BY <1>1, <1>2, StockIsCounted DEF C!Knows
<1>4. PICK new : new = [inventory |-> req[s].row, price |-> req[s].price,
                        stock |-> req[s].stock, left |-> req[s].stock]
  OBVIOUS
<1>5. new \in C!BatchRow /\ new.inventory = req[s].row BY <1>2, <1>3, <1>4 DEF C!BatchRow
<1>6. /\ batches' = Append(batches, new) /\ req' = [req EXCEPT ![s] = C!Idle]
      /\ categories' = categories /\ inventories' = inventories /\ products' = products
      /\ parts' = parts /\ half' = half /\ started' = started /\ overlap' = overlap
  BY <1>2, <1>4 DEF C!InsertBatch, C!Finish, C!Set
<1>7. /\ batches' \in Seq(C!BatchRow) /\ Len(batches') \in DOMAIN batches'
      /\ batches'[Len(batches')] = new
      /\ \A b \in DOMAIN batches : b \in DOMAIN batches' /\ batches'[b] = batches[b]
  <2>1. /\ batches' \in Seq(C!BatchRow) /\ DOMAIN batches' = DOMAIN batches \cup {Len(batches')}
        /\ batches'[Len(batches')] = new
        /\ \A b \in DOMAIN batches : b \in DOMAIN batches' /\ batches'[b] = batches[b]
    BY <1>1, <1>5, <1>6, RowAdded DEF CatalogueTables
  <2> QED BY <2>1
<1>8. CatalogueTables' BY <1>1, <1>6, <1>7 DEF CatalogueTables
<1>9. /\ started' \in Nat /\ overlap' \in BOOLEAN /\ half \subseteq half' /\ parts \subseteq parts'
      /\ \A b \in DOMAIN batches :
           b \in DOMAIN batches' /\ batches'[b].inventory = batches[b].inventory
  BY <1>1, <1>6, <1>7
<1>10. \E b \in DOMAIN batches' : batches'[b].inventory = req[s].row BY <1>5, <1>7
<1>11. DOMAIN inventories' = DOMAIN inventories /\ DOMAIN products' = DOMAIN products BY <1>6
<1> QED BY <1>2, <1>6, <1>8, <1>9, <1>10, <1>11, IdleInCatalogue, CatalogueServed

\* A product is created, and its parts are to come.
LEMMA ProductCreated ==
  ASSUME C!CatalogueInv, NEW s \in Slot, C!CreateProduct(s)
  PROVE  C!CatalogueInv'
<1>1. /\ CatalogueTables /\ req[s] \in CatalogueRequest /\ C!Knows(req[s])
      /\ started \in Nat /\ overlap \in BOOLEAN
  BY CatalogueIs
<1>2. req[s].op = "addProduct" /\ req[s].at = "write" /\ req[s].row \in Nat
  BY <1>1 DEF C!CreateProduct, C!Running, CatalogueRequest
<1>3. PICK new : new = [category |-> req[s].row, live |-> TRUE] OBVIOUS
<1>4. new \in C!ProductRow BY <1>2, <1>3 DEF C!ProductRow
<1>5. /\ products' = Append(products, new)
      /\ categories' = categories /\ batches' = batches /\ inventories' = inventories
      /\ parts' = parts /\ half' = half /\ started' = started /\ overlap' = overlap
      /\ req' = [req EXCEPT ![s] = [req[s] EXCEPT !.at = "parts", !.row = Len(products')]]
  BY <1>3 DEF C!CreateProduct, C!Set
<1>6. /\ products' \in Seq(C!ProductRow) /\ Len(products') \in Nat
      /\ DOMAIN products' = DOMAIN products \cup {Len(products')}
  BY <1>1, <1>4, <1>5, RowAdded DEF CatalogueTables
<1>7. PICK n \in Nat : n = Len(products') BY <1>6
<1>8. PICK r : r = [req[s] EXCEPT !.at = "parts", !.row = n] OBVIOUS
<1>9. /\ r \in CatalogueRequest /\ r.op = "addProduct" /\ r.at = "parts" /\ r.row = n
      /\ r.list = req[s].list
  BY <1>1, <1>2, <1>8 DEF CatalogueRequest, C!At
<1>10. C!Knows(r) BY <1>1, <1>2, <1>9 DEF C!Knows
<1>11. req' = [req EXCEPT ![s] = r] BY <1>5, <1>7, <1>8
<1>12. CatalogueTables' BY <1>1, <1>5, <1>6 DEF CatalogueTables
<1>13. /\ started' \in Nat /\ overlap' \in BOOLEAN /\ half \subseteq half' /\ parts \subseteq parts'
       /\ \A b \in DOMAIN batches :
            b \in DOMAIN batches' /\ batches'[b].inventory = batches[b].inventory
       /\ \A i \in DOMAIN inventories' : i \in DOMAIN inventories \/ (r.at = "batch" /\ r.row = i)
       /\ \A p \in DOMAIN products' : p \in DOMAIN products \/ (r.at = "parts" /\ r.row = p)
  BY <1>1, <1>5, <1>6, <1>7, <1>9
<1>14. req[s].at # "batch" /\ req[s].at # "parts" BY <1>2
<1> QED BY <1>9, <1>10, <1>11, <1>12, <1>13, <1>14, CatalogueServed

\* The parts of a product are created, or its list names an inventory twice.
LEMMA PartsCreated ==
  ASSUME C!CatalogueInv, NEW s \in Slot, C!CreateParts(s)
  PROVE  C!CatalogueInv'
<1>1. /\ CatalogueTables /\ req[s] \in CatalogueRequest /\ C!Knows(req[s])
      /\ started \in Nat /\ overlap \in BOOLEAN
  BY CatalogueIs
<1>2. /\ req[s].op = "addProduct" /\ req[s].at = "parts"
      /\ C!Finish(s) /\ categories' = categories /\ inventories' = inventories
      /\ batches' = batches /\ products' = products
  BY DEF C!CreateParts, C!Running
<1> DEFINE p == req[s].row
           asked == req[s].list
<1>3. p \in Nat /\ asked \in Seq(Nat \X Parts) BY <1>1 DEF CatalogueRequest
<1>4. /\ DOMAIN asked = 1..Len(asked) /\ Len(asked) \in Nat /\ Len(asked) <= 2 /\ Len(asked) # 0
      /\ \A k \in 1..Len(asked) : asked[k] \in Nat \X Parts
  <2>1. asked # <<>> /\ Len(asked) <= 2 BY <1>1, <1>2, <1>3 DEF C!Knows
  <2> HIDE DEF asked
  <2>2. DOMAIN asked = 1..Len(asked) /\ Len(asked) \in Nat BY <1>3, LenProperties
  <2>3. Len(asked) # 0 BY <1>3, <2>1, EmptySeq
  <2>4. \A k \in 1..Len(asked) : asked[k] \in Nat \X Parts BY <1>3, ElementOfSeq
  <2> QED BY <2>1, <2>2, <2>3, <2>4
<1> DEFINE Rows(n) == {[product |-> p, inventory |-> asked[k][1], quantity |-> asked[k][2]] :
                         k \in 1..n}
           twice == {k \in DOMAIN asked : \E j \in 1..(k - 1) : asked[j][1] = asked[k][1]}
<1>5. \/ /\ twice = {} /\ parts' = parts \cup Rows(Len(asked)) /\ half' = half
      \/ /\ twice # {}
         /\ \E n \in {0, C!Min(twice) - 1} : parts' = parts \cup Rows(n)
         /\ half' = half \cup C!Cut(s)
  BY DEF C!CreateParts
<1>6. ASSUME NEW n \in 0..Len(asked)
      PROVE  Rows(n) \subseteq C!PartRow
  BY <1>3, <1>4 DEF C!PartRow
<1>7. twice # {} => C!Min(twice) - 1 \in 0..Len(asked)
  <2>1. twice \subseteq {2}
    <3> SUFFICES ASSUME NEW k \in DOMAIN asked, NEW j \in 1..(k - 1) PROVE k = 2 OBVIOUS
    <3> QED BY <1>4
  <2>2. twice # {} => twice = {2} /\ 2 \in DOMAIN asked BY <2>1
  <2>3. C!Min({2}) = 2 BY DEF C!Min
  <2> HIDE DEF twice
  <2>4. twice # {} => C!Min(twice) = 2 BY <2>2, <2>3
  <2> QED BY <1>4, <2>2, <2>4
<1>8. \E n \in 0..Len(asked) : parts' = parts \cup Rows(n)
  <2> HIDE DEF Rows, twice
  <2>1. 0 \in 0..Len(asked) /\ Len(asked) \in 0..Len(asked) BY <1>4
  <2> QED BY <1>5, <1>7, <2>1
<1>9. parts \subseteq parts' /\ parts' \subseteq C!PartRow
  BY <1>1, <1>6, <1>8 DEF CatalogueTables
<1>10. C!Cut(s) = {<<"addProduct", p>>} BY <1>2, <1>3 DEF C!Cut
<1>11. C!IsFiniteSet(parts')
  <2>1. PICK n \in 0..Len(asked) : parts' = parts \cup Rows(n) BY <1>8
  <2>2. n \in Int BY <1>4, <2>1
  <2> DEFINE row == [k \in 1..n |->
                      [product |-> p, inventory |-> asked[k][1], quantity |-> asked[k][2]]]
  <2>3. row \in Surjection(1..n, Rows(n))
    <3>1. \A q \in Rows(n) : \E k \in 1..n : row[k] = q OBVIOUS
    <3>2. row \in [1..n -> Rows(n)] OBVIOUS
    <3> QED BY <3>1, <3>2 DEF Surjection
  <2> HIDE DEF row, Rows
  <2>4. IsFiniteSet(1..n) BY <2>2, FS_Interval
  <2>5. IsFiniteSet(Rows(n)) BY <2>3, <2>4, FS_Surjection
  <2>6. IsFiniteSet(parts)
    BY <1>1 DEF CatalogueTables, IsFiniteSet, C!IsFiniteSet
  <2>7. IsFiniteSet(parts') BY <2>1, <2>5, <2>6, FS_Union
  <2> QED BY <2>7 DEF IsFiniteSet, C!IsFiniteSet
<1>12. half \subseteq half' /\ half' \subseteq {"addInventory", "addProduct"} \X Nat
  <2>1. half \subseteq {"addInventory", "addProduct"} \X Nat BY <1>1 DEF CatalogueTables
  <2>2. C!Cut(s) \subseteq {"addInventory", "addProduct"} \X Nat BY <1>3, <1>10
  <2>3. half' = half \/ half' = half \cup C!Cut(s) BY <1>5
  <2> HIDE DEF p, asked, Rows, twice
  <2> QED BY <2>1, <2>2, <2>3
<1>13. <<"addProduct", p>> \in half' \/ \E q \in parts' : q.product = p
  <2>1. CASE twice # {} BY <1>5, <1>10, <2>1
  <2>2. CASE twice = {}
    <3>1. PICK q : q = [product |-> p, inventory |-> asked[1][1], quantity |-> asked[1][2]]
      OBVIOUS
    <3>2. 1 \in 1..Len(asked) BY <1>4
    <3>3. q \in Rows(Len(asked)) BY <3>1, <3>2
    <3>4. q.product = p BY <3>1
    <3> QED BY <1>5, <2>2, <3>3, <3>4
  <2> QED BY <2>1, <2>2
<1> HIDE DEF Rows, twice
<1>14. CatalogueTables' BY <1>1, <1>2, <1>9, <1>12, <1>11 DEF CatalogueTables
<1>15. /\ req' = [req EXCEPT ![s] = C!Idle] /\ started' \in Nat /\ overlap' \in BOOLEAN
  BY <1>1, <1>2 DEF C!Finish, C!Set
<1>16. /\ \A b \in DOMAIN batches :
            b \in DOMAIN batches' /\ batches'[b].inventory = batches[b].inventory
       /\ DOMAIN inventories' = DOMAIN inventories /\ DOMAIN products' = DOMAIN products
  BY <1>2
<1>17. /\ req[s].at # "batch"
       /\ <<"addProduct", req[s].row>> \in half' \/ \E q \in parts' : q.product = req[s].row
  BY <1>2, <1>3, <1>13
<1> QED
  BY <1>9, <1>12, <1>14, <1>15, <1>16, <1>17, IdleInCatalogue, CatalogueServed

-----------------------------------------------------------------------------
(* Catalogue: every behaviour *)

\* A new catalogue, and a step of it.
LEMMA CatalogueInitInv ==
  ASSUME C!Init
  PROVE  C!CatalogueInv
<1>1. PICK name \in CategoryName, sub \in CategoryName :
        categories = C!FirstCategories(name, sub)
  <2>1. (CHOOSE n \in CategoryName : TRUE) \in CategoryName BY TwoNames
  <2>2. \A k : (CHOOSE m \in CategoryName : m # k) \in CategoryName BY TwoNames
  <2>3. PICK k \in CategoryName : k = CHOOSE n \in CategoryName : TRUE BY <2>1
  <2>4. PICK j \in CategoryName : j = CHOOSE m \in CategoryName : m # k BY <2>2
  <2> QED BY <2>3, <2>4 DEF C!Init
<1>2. categories \in Seq(C!CategoryRow)
  BY <1>1 DEF C!FirstCategories, C!CategoryRow, C!CategoryTypes
<1>3. /\ inventories = << [category |-> 1, sub |-> 2, live |-> TRUE] >>
      /\ products = <<>> /\ parts = {} /\ half = {}
      /\ req = [s \in Slot |-> C!Idle] /\ started = 0 /\ overlap = FALSE
  BY DEF C!Init, C!InitRequests
<1>4. PICK p \in Price, q \in Price, n \in Stock :
        batches = << [inventory |-> 1, price |-> p, stock |-> n, left |-> n],
                     [inventory |-> 1, price |-> q, stock |-> n, left |-> n] >>
  BY DEF C!Init
<1>5. n \in Nat BY StockIsCounted
<1>6. batches \in Seq(C!BatchRow) /\ 1 \in DOMAIN batches /\ batches[1].inventory = 1
  BY <1>4, <1>5 DEF C!BatchRow
<1>7. inventories \in Seq(C!InventoryRow) /\ DOMAIN inventories = {1}
  BY <1>3 DEF C!InventoryRow
<1>8. products \in Seq(C!ProductRow) /\ DOMAIN products = {} /\ C!IsFiniteSet(parts)
  <2>1. C!IsFiniteSet({}) BY FS_EmptySet DEF IsFiniteSet, C!IsFiniteSet
  <2> QED BY <1>3, <2>1
<1>9. \A s \in Slot : req[s] = C!Idle BY <1>3
<1>10. C!TypeOK
  BY <1>2, <1>3, <1>6, <1>7, <1>8, <1>9, IdleInCatalogue
  DEF C!TypeOK, C!RequestsOK, CatalogueRequest
<1>11. \A s \in Slot : C!Knows(req[s]) BY <1>9, IdleInCatalogue
<1>12. C!InventoriesFull BY <1>6, <1>7 DEF C!InventoriesFull
<1>13. C!ProductsFull BY <1>8 DEF C!ProductsFull
<1> QED BY <1>10, <1>11, <1>12, <1>13 DEF C!CatalogueInv

LEMMA CatalogueNextInv ==
  ASSUME C!CatalogueInv, C!Next
  PROVE  C!CatalogueInv'
<1>1. CASE C!Sell BY <1>1, CatalogueSells
<1>2. ASSUME NEW s \in Slot, C!Start(s) \/ C!Fail(s) \/ C!Step(s)
      PROVE  C!CatalogueInv'
  <2>1. CASE C!Start(s) BY <2>1, CatalogueStarts
  <2>2. CASE C!Fail(s) BY <2>2, CatalogueFails
  <2>3. CASE C!Step(s)
    BY <2>3, CatalogueReads, CategoryWritten, CatalogueEnds, InventoryCreated, BatchInserted,
       ProductCreated, PartsCreated
    DEF C!Step
  <2> QED BY <1>2, <2>1, <2>2, <2>3
<1> QED BY <1>1, <1>2 DEF C!Next

LEMMA CatalogueStutters ==
  ASSUME C!CatalogueInv, UNCHANGED C!vars
  PROVE  C!CatalogueInv'
<1>1. /\ categories' = categories /\ inventories' = inventories /\ batches' = batches
      /\ products' = products /\ parts' = parts /\ half' = half
      /\ req' = req /\ started' = started /\ overlap' = overlap
  BY DEF C!vars, C!catalogue
<1>2. C!TypeOK' BY <1>1 DEF C!CatalogueInv, C!TypeOK, C!RequestsOK
<1>3. \A s \in Slot : C!Knows(req'[s]) BY <1>1 DEF C!CatalogueInv
<1>4. C!InventoriesFull' BY <1>1 DEF C!CatalogueInv, C!InventoriesFull
<1>5. C!ProductsFull' BY <1>1 DEF C!CatalogueInv, C!ProductsFull
<1> QED BY <1>2, <1>3, <1>4, <1>5 DEF C!CatalogueInv

\* What is not full is half, or being filled.
LEMMA CatalogueEmpties ==
  ASSUME C!CatalogueInv
  PROVE  C!NothingEmpty
<1>1. C!InventoriesFull /\ C!ProductsFull /\ \A s \in Slot : C!Knows(req[s])
  BY DEF C!CatalogueInv
<1>2. ASSUME NEW i \in DOMAIN inventories
      PROVE  \/ C!BatchesOf(i) # {}
             \/ <<"addInventory", i>> \in half \cup UNION {C!Cut(s) : s \in Slot}
  <2>1. CASE \E b \in DOMAIN batches : batches[b].inventory = i BY <2>1 DEF C!BatchesOf
  <2>2. CASE <<"addInventory", i>> \in half BY <2>2
  <2>3. CASE \E s \in Slot : req[s].at = "batch" /\ req[s].row = i
    <3>1. PICK s \in Slot : req[s].at = "batch" /\ req[s].row = i BY <2>3
    <3>2. <<"addInventory", i>> \in C!Cut(s) BY <1>1, <3>1 DEF C!Cut, C!Knows
    <3> QED BY <3>2
  <2> QED BY <1>1, <2>1, <2>2, <2>3 DEF C!InventoriesFull
<1>3. ASSUME NEW p \in DOMAIN products
      PROVE  \/ \E r \in parts : r.product = p
             \/ <<"addProduct", p>> \in half \cup UNION {C!Cut(s) : s \in Slot}
  <2>1. CASE \E r \in parts : r.product = p BY <2>1
  <2>2. CASE <<"addProduct", p>> \in half BY <2>2
  <2>3. CASE \E s \in Slot : req[s].at = "parts" /\ req[s].row = p
    <3>1. PICK s \in Slot : req[s].at = "parts" /\ req[s].row = p BY <2>3
    <3>2. <<"addProduct", p>> \in C!Cut(s) BY <1>1, <3>1 DEF C!Cut, C!Knows
    <3> QED BY <3>2
  <2> QED BY <1>1, <2>1, <2>2, <2>3 DEF C!ProductsFull
<1> QED BY <1>2, <1>3 DEF C!NothingEmpty

CatalogueOK == part = "catalogue" => C!CatalogueInv

LEMMA CatalogueInit == Init => CatalogueOK
BY PartBegins, CatalogueInitInv DEF CatalogueOK

LEMMA CatalogueNext == CatalogueOK /\ [Next]_all => CatalogueOK'
<1> SUFFICES ASSUME CatalogueOK, [Next]_all, part' = "catalogue" PROVE C!CatalogueInv'
  BY DEF CatalogueOK
<1>1. C!CatalogueInv /\ [C!Next]_C!vars BY PartSteps DEF CatalogueOK
<1>2. CASE C!Next BY <1>1, <1>2, CatalogueNextInv
<1>3. CASE UNCHANGED C!vars BY <1>1, <1>3, CatalogueStutters
<1> QED BY <1>1, <1>2, <1>3

\* An inventory without a batch and a product without parts are what a failure
\* between two writes left, or are being filled.
THEOREM NothingEmptyHolds == Spec => []NothingEmpty
<1>1. CatalogueOK => NothingEmpty BY CatalogueEmpties DEF CatalogueOK, NothingEmpty
<1> QED BY CatalogueInit, CatalogueNext, <1>1, PTL DEF Spec, all

-----------------------------------------------------------------------------
(* Sums: what the recursion of SumFunction computes *)

\* Subsets of a finite set are well founded, so what a set inherits from its
\* proper subsets holds of all; the library's induction theorems would need an
\* operator for the property, here it is a set.
LEMMA SubsetInduction ==
  ASSUME NEW U, IsFiniteSet(U), NEW I,
         \A s \in SUBSET U : (\A t \in SUBSET s : t # s => t \in I) => s \in I
  PROVE  SUBSET U \subseteq I
<1> SUFFICES ASSUME (SUBSET U) \ I # {} PROVE FALSE
  OBVIOUS
<1>1. IsWellFoundedOn(StrictSubsetOrdering(U), SUBSET U)
  <2>1. IsWellFoundedOn(StrictSubsetOrdering(U), FiniteSubsetsOf(U))
    BY FS_StrictSubsetOrderingWellFounded
  <2>2. FiniteSubsetsOf(U) = SUBSET U
    BY FS_FiniteSubsetsOfFinite
  <2> QED
    BY <2>1, <2>2
<1>2. PICK s \in (SUBSET U) \ I :
        \A t \in (SUBSET U) \ I : ~ (<<t, s>> \in StrictSubsetOrdering(U))
  <2> DEFINE rest == (SUBSET U) \ I
  <2>1. rest \subseteq SUBSET U /\ rest # {}
    OBVIOUS
  <2> HIDE DEF rest
  <2>2. \E s \in rest : \A t \in rest : ~ (<<t, s>> \in StrictSubsetOrdering(U))
    BY <1>1, <2>1, WFMin
  <2> QED
    BY <2>2 DEF rest
<1>3. ASSUME NEW t \in SUBSET s, t # s PROVE t \in I
  BY <1>2, <1>3 DEF StrictSubsetOrdering
<1> QED
  BY <1>2, <1>3

\* The same for numbers.
LEMMA NatSetInduction ==
  ASSUME NEW I, 0 \in I, \A n \in Nat : n \in I => n + 1 \in I
  PROVE  Nat \subseteq I
<1> DEFINE rest == Nat \ I
<1>1. CASE rest = {}
  BY <1>1
<1>2. CASE rest # {}
  <2>1. IsWellFoundedOn(OpToRel(<, Nat), Nat)
    BY NatLessThanWellFounded
  <2>2. PICK n \in rest : \A m \in rest : ~ (<<m, n>> \in OpToRel(<, Nat))
    <3>1. rest \subseteq Nat
      OBVIOUS
    <3> HIDE DEF rest
    <3> QED
      BY <1>2, <2>1, <3>1, WFMin
  <2>3. \A m \in rest : ~ (m < n)
    BY <2>2 DEF OpToRel
  <2>4. n # 0 /\ n - 1 \in Nat /\ n - 1 \notin rest
    BY <2>3
  <2> QED
    BY <2>4
<1> QED
  BY <1>1, <1>2

Chosen(s) == CHOOSE x \in s : TRUE

\* One step of the recursion from the sums F of the values f.
OneMore(F, f, s) == IF s = {} THEN 0 ELSE f[Chosen(s)] + F[s \ {Chosen(s)}]

\* F has the sums over every subset of U.
IsSums(F, f, U) == F = [s \in SUBSET U |-> OneMore(F, f, s)]
Sums(f) == CHOOSE F : IsSums(F, f, DOMAIN f)

\* The community module's sum is the sum over the whole domain.
LEMMA SumIs ==
  ASSUME NEW f
  PROVE  C!SumFunction(f) = Sums(f)[DOMAIN f]
BY Zenon
   DEF C!SumFunction, C!SumFunctionOnSet, C!FoldFunctionOnSet, C!MapThenFoldSet,
       Sums, IsSums, OneMore, Chosen

LEMMA ChosenIsIn ==
  ASSUME NEW s, s # {}
  PROVE  Chosen(s) \in s
BY DEF Chosen

\* The recursion has a solution.
LEMMA SumsExist ==
  ASSUME NEW U, IsFiniteSet(U), NEW f \in [U -> Int]
  PROVE  \E F : IsSums(F, f, U)
<1> DEFINE Upto(F, n) == \A s \in SUBSET U : Cardinality(s) <= n => F[s] = OneMore(F, f, s)
           I == {n \in Nat : \E F \in [SUBSET U -> Int] : Upto(F, n)}
<1>1. \A s \in SUBSET U : IsFiniteSet(s) /\ Cardinality(s) \in Nat
  <2>1. ASSUME NEW s \in SUBSET U PROVE IsFiniteSet(s)
    BY FS_Subset
  <2> QED
    BY <2>1, FS_CardinalityType
<1>2. 0 \in I
  <2> DEFINE F == [s \in SUBSET U |-> 0]
  <2>1. F \in [SUBSET U -> Int]
    OBVIOUS
  <2>2. \A s \in SUBSET U : Cardinality(s) <= 0 => s = {}
    BY <1>1, FS_EmptySet
  <2>3. Upto(F, 0)
    BY <2>2 DEF OneMore
  <2> QED
    BY <2>1, <2>3
<1>3. ASSUME NEW n \in Nat, n \in I PROVE n + 1 \in I
  <2>1. PICK F \in [SUBSET U -> Int] : Upto(F, n)
    BY <1>3
  <2> DEFINE G == [s \in SUBSET U |-> OneMore(F, f, s)]
  <2>2. G \in [SUBSET U -> Int]
    <3>1. ASSUME NEW s \in SUBSET U, s # {} PROVE f[Chosen(s)] \in Int /\ F[s \ {Chosen(s)}] \in Int
      BY <3>1, ChosenIsIn
    <3> QED
      BY <3>1 DEF OneMore
  <2>3. ASSUME NEW s \in SUBSET U, Cardinality(s) <= n + 1 PROVE G[s] = OneMore(G, f, s)
    <3>1. CASE s = {}
      BY <3>1 DEF OneMore
    <3>2. CASE s # {}
      <4> DEFINE r == s \ {Chosen(s)}
      <4>1. Cardinality(r) <= n /\ r \in SUBSET U
        <5>1. Cardinality(r) = Cardinality(s) - 1
          BY <1>1, <3>2, ChosenIsIn, FS_RemoveElement
        <5> QED
          BY <1>1, <2>3, <5>1
      <4>2. G[r] = F[r]
        BY <2>1, <4>1
      <4> QED
        BY <3>2, <4>2 DEF OneMore
    <3> QED
      BY <3>1, <3>2
  <2>4. Upto(G, n + 1)
    BY <2>3
  <2> HIDE DEF G
  <2>5. \E H \in [SUBSET U -> Int] : Upto(H, n + 1)
    BY <2>2, <2>4, Zenon
  <2> QED
    BY <2>5
<1>4. Cardinality(U) \in I
  <2> HIDE DEF I
  <2> QED
    BY <1>1, <1>2, <1>3, NatSetInduction
<1>5. PICK F \in [SUBSET U -> Int] : Upto(F, Cardinality(U))
  BY <1>4
<1>6. \A s \in SUBSET U : Cardinality(s) <= Cardinality(U)
  BY FS_Subset
<1>7. F = [s \in SUBSET U |-> OneMore(F, f, s)]
  BY <1>5, <1>6
<1> QED
  BY <1>7 DEF IsSums

\* The elements are added in any order.
Additive(F, f, U) ==
  /\ F \in [SUBSET U -> Int]
  /\ F[{}] = 0
  /\ \A s \in SUBSET U : \A x \in s : F[s] = f[x] + F[s \ {x}]

\* So the sums are those that adding any element last gives.
LEMMA SumsAre ==
  ASSUME NEW U, IsFiniteSet(U), NEW f \in [U -> Int]
  PROVE  /\ Additive(Sums(f), f, U)
         /\ C!SumFunction(f) = Sums(f)[U]
<1> DEFINE F == Sums(f)
<1>1. DOMAIN f = U
  OBVIOUS
<1>2. F = [s \in SUBSET U |-> OneMore(F, f, s)]
  <2>1. \E G : IsSums(G, f, DOMAIN f)
    BY <1>1, SumsExist
  <2>2. IsSums(F, f, DOMAIN f)
    BY <2>1, Zenon DEF Sums
  <2> QED
    BY <1>1, <2>2 DEF IsSums
<1>3. F \in [SUBSET U -> Int]
  <2> DEFINE I == {s \in SUBSET U : F[s] \in Int}
  <2>1. ASSUME NEW s \in SUBSET U, \A t \in SUBSET s : t # s => t \in I PROVE s \in I
    <3>1. CASE s = {}
      BY <1>2, <3>1 DEF OneMore
    <3>2. CASE s # {}
      <4>1. Chosen(s) \in s
        BY <3>2, ChosenIsIn
      <4>2. s \ {Chosen(s)} \in I
        BY <2>1, <4>1
      <4>3. F[s] = f[Chosen(s)] + F[s \ {Chosen(s)}]
        BY <1>2, <3>2 DEF OneMore
      <4> QED
        BY <4>1, <4>2, <4>3
    <3> QED
      BY <3>1, <3>2
  <2>2. SUBSET U \subseteq I
    <3> HIDE DEF I
    <3> QED
      BY <2>1, SubsetInduction
  <2> QED
    BY <1>2, <2>2
<1>4. F[{}] = 0
  BY <1>2 DEF OneMore
<1>5. \A s \in SUBSET U : \A x \in s : F[s] = f[x] + F[s \ {x}]
  <2> DEFINE I == {s \in SUBSET U : \A x \in s : F[s] = f[x] + F[s \ {x}]}
  <2>1. ASSUME NEW s \in SUBSET U, \A t \in SUBSET s : t # s => t \in I PROVE s \in I
    <3>1. SUFFICES ASSUME NEW x \in s PROVE F[s] = f[x] + F[s \ {x}]
      OBVIOUS
    <3> DEFINE c == Chosen(s)
    <3>2. c \in s
      BY ChosenIsIn
    <3>3. F[s] = f[c] + F[s \ {c}]
      BY <1>2 DEF OneMore
    <3>4. CASE x = c
      BY <3>3, <3>4
    <3>5. CASE x # c
      <4> HIDE DEF c
      <4>1. F[s \ {c}] = f[x] + F[(s \ {c}) \ {x}]
        BY <2>1, <3>2, <3>5
      <4>2. F[s \ {x}] = f[c] + F[(s \ {x}) \ {c}]
        BY <2>1, <3>2, <3>5
      <4>3. (s \ {c}) \ {x} = (s \ {x}) \ {c}
        OBVIOUS
      <4>4. F[(s \ {x}) \ {c}] \in Int /\ f[x] \in Int /\ f[c] \in Int
        BY <1>3, <3>2
      <4>5. PICK k \in Int : k = F[(s \ {x}) \ {c}]
        BY <4>4
      <4> HIDE DEF F
      <4>6. F[s \ {c}] = f[x] + k
        BY <4>1, <4>3, <4>5
      <4>7. F[s \ {x}] = f[c] + k
        BY <4>2, <4>5
      <4>8. F[s] = f[c] + (f[x] + k)
        BY <3>3, <4>6
      <4>9. f[c] + (f[x] + k) = f[x] + (f[c] + k)
        BY <4>4
      <4> QED
        BY <4>7, <4>8, <4>9
    <3> QED
      BY <3>4, <3>5
  <2>2. SUBSET U \subseteq I
    <3> HIDE DEF I
    <3> QED
      BY <2>1, SubsetInduction
  <2> QED
    BY <2>2
<1>6. C!SumFunction(f) = F[U]
  BY <1>1, SumIs
<1> QED
  BY <1>3, <1>4, <1>5, <1>6 DEF Additive

LEMMA LinearAdds ==
  ASSUME NEW m \in Int, NEW n \in Int, NEW x \in Int, NEW y \in Int, NEW u \in Int, NEW v \in Int,
         m * x <= n * u, m * y <= n * v
  PROVE  m * (x + y) <= n * (u + v)
<1>1. m * (x + y) = m * x + m * y /\ n * (u + v) = n * u + n * v
  OBVIOUS
<1>2. m * x \in Int /\ m * y \in Int /\ n * u \in Int /\ n * v \in Int
  OBVIOUS
<1> QED
  BY <1>1, <1>2

\* What holds of the parts up to a factor holds of the sums.
LEMMA SumsCompare ==
  ASSUME NEW U, IsFiniteSet(U), NEW f \in [U -> Int], NEW g \in [U -> Int],
         NEW m \in Int, NEW n \in Int, \A x \in U : m * f[x] <= n * g[x]
  PROVE  m * C!SumFunction(f) <= n * C!SumFunction(g)
<1> DEFINE F == Sums(f)
           G == Sums(g)
           I == {s \in SUBSET U : m * F[s] <= n * G[s]}
<1>1. Additive(F, f, U)
  BY SumsAre
<1>2. Additive(G, g, U)
  BY SumsAre
<1>3. C!SumFunction(f) = F[U] /\ C!SumFunction(g) = G[U]
  BY SumsAre
<1> HIDE DEF F, G
<1> USE DEF Additive
<1>4. ASSUME NEW s \in SUBSET U, \A t \in SUBSET s : t # s => t \in I PROVE s \in I
  <2>1. CASE s = {}
    BY <1>1, <1>2, <2>1
  <2>2. ASSUME NEW x \in s PROVE m * F[s] <= n * G[s]
    <3>1. s \ {x} \in I /\ x \in U
      BY <1>4, <2>2
    <3>2. m * (f[x] + F[s \ {x}]) <= n * (g[x] + G[s \ {x}])
      BY <1>1, <1>2, <3>1, LinearAdds
    <3> QED
      BY <1>1, <1>2, <3>2
  <2> QED
    BY <2>1, <2>2
<1>5. SUBSET U \subseteq I
  <2> HIDE DEF I
  <2> QED
    BY <1>4, SubsetInduction
<1>6. U \in I
  BY <1>5
<1> QED
  BY <1>3, <1>6

LEMMA SumIsNumber ==
  ASSUME NEW U, IsFiniteSet(U), NEW f \in [U -> Int]
  PROVE  C!SumFunction(f) \in Int
<1>1. Additive(Sums(f), f, U) /\ C!SumFunction(f) = Sums(f)[U]
  BY SumsAre
<1> QED
  BY <1>1 DEF Additive

\* A factor on one side, or on none.
LEMMA SumsBound ==
  ASSUME NEW U, IsFiniteSet(U), NEW f \in [U -> Int], NEW g \in [U -> Int], NEW m \in Int
  PROVE  /\ (\A x \in U : m * f[x] <= g[x]) => m * C!SumFunction(f) <= C!SumFunction(g)
         /\ (\A x \in U : f[x] <= m * g[x]) => C!SumFunction(f) <= m * C!SumFunction(g)
<1> DEFINE one == 1
<1>1. one \in Int /\ \A z \in Int : one * z = z
  OBVIOUS
<1> HIDE DEF one
<1>2. C!SumFunction(f) \in Int /\ C!SumFunction(g) \in Int
  BY SumIsNumber
<1>3. ASSUME \A x \in U : m * f[x] <= g[x] PROVE m * C!SumFunction(f) <= C!SumFunction(g)
  <2>1. \A x \in U : m * f[x] <= one * g[x]
    BY <1>1, <1>3
  <2>2. m * C!SumFunction(f) <= one * C!SumFunction(g)
    BY <1>1, <2>1, SumsCompare
  <2> QED
    BY <1>1, <1>2, <2>2
<1>4. ASSUME \A x \in U : f[x] <= m * g[x] PROVE C!SumFunction(f) <= m * C!SumFunction(g)
  <2>1. \A x \in U : one * f[x] <= m * g[x]
    BY <1>1, <1>4
  <2>2. one * C!SumFunction(f) <= m * C!SumFunction(g)
    BY <1>1, <2>1, SumsCompare
  <2> QED
    BY <1>1, <1>2, <2>2
<1> QED
  BY <1>3, <1>4

LEMMA SumsGrow ==
  ASSUME NEW U, IsFiniteSet(U), NEW f \in [U -> Int], NEW g \in [U -> Int],
         \A x \in U : f[x] <= g[x]
  PROVE  C!SumFunction(f) <= C!SumFunction(g)
<1> DEFINE one == 1
<1>1. one \in Int /\ \A z \in Int : one * z = z
  OBVIOUS
<1> HIDE DEF one
<1>2. C!SumFunction(g) \in Int
  BY SumIsNumber
<1>3. \A x \in U : f[x] <= one * g[x]
  BY <1>1
<1>4. C!SumFunction(f) <= one * C!SumFunction(g)
  BY <1>1, <1>3, SumsBound
<1> QED
  BY <1>1, <1>2, <1>4

\* What is zero need not be added.
LEMMA SumOfSome ==
  ASSUME NEW U, IsFiniteSet(U), NEW V \in SUBSET U, NEW f \in [U -> Int], NEW g \in [V -> Int],
         \A x \in V : g[x] = f[x], \A x \in U \ V : f[x] = 0
  PROVE  C!SumFunction(f) = C!SumFunction(g)
<1> DEFINE F == Sums(f)
           G == Sums(g)
           I == {s \in SUBSET U : F[s] = G[s \cap V]}
<1>1. Additive(F, f, U)
  BY SumsAre
<1>2. IsFiniteSet(V)
  BY FS_Subset
<1>3. Additive(G, g, V)
  BY <1>2, SumsAre
<1>4. C!SumFunction(f) = F[U] /\ C!SumFunction(g) = G[V]
  BY <1>2, SumsAre
<1> HIDE DEF F, G
<1> USE DEF Additive
<1>5. ASSUME NEW s \in SUBSET U, \A t \in SUBSET s : t # s => t \in I PROVE s \in I
  <2>1. CASE s = {}
    <3>1. s \cap V = {}
      BY <2>1
    <3> QED
      BY <1>1, <1>3, <2>1, <3>1
  <2>2. ASSUME NEW x \in s PROVE F[s] = G[s \cap V]
    <3>1. s \ {x} \in I /\ x \in U
      BY <1>5, <2>2
    <3>2. F[s] = f[x] + G[(s \ {x}) \cap V]
      BY <1>1, <3>1
    <3>3. CASE x \in V
      <4>1. (s \ {x}) \cap V = (s \cap V) \ {x} /\ x \in s \cap V /\ s \cap V \in SUBSET V
        BY <3>3
      <4>2. G[s \cap V] = g[x] + G[(s \cap V) \ {x}]
        BY <1>3, <4>1
      <4> QED
        BY <3>2, <3>3, <4>1, <4>2
    <3>4. CASE x \notin V
      <4>1. (s \ {x}) \cap V = s \cap V /\ s \cap V \in SUBSET V
        BY <3>4
      <4>2. f[x] = 0 /\ G[s \cap V] \in Int
        BY <1>3, <3>1, <3>4, <4>1
      <4>3. F[s] = f[x] + G[s \cap V]
        BY <3>2, <4>1
      <4> QED
        BY <4>2, <4>3
    <3> QED
      BY <3>3, <3>4
  <2> QED
    BY <2>1, <2>2
<1>6. SUBSET U \subseteq I
  <2> HIDE DEF I
  <2> QED
    BY <1>5, SubsetInduction
<1>7. U \in I /\ U \cap V = V
  BY <1>6
<1> QED
  BY <1>4, <1>7

\* Among finitely many there is a highest and a lowest.
LEMMA HighestExists ==
  ASSUME NEW U, IsFiniteSet(U), U # {}, NEW f \in [U -> Int]
  PROVE  \E x \in U : \A y \in U : f[y] <= f[x]
<1> DEFINE I == {s \in SUBSET U : s # {} => \E x \in s : \A y \in s : f[y] <= f[x]}
<1>1. ASSUME NEW s \in SUBSET U, \A t \in SUBSET s : t # s => t \in I PROVE s \in I
  <2> SUFFICES ASSUME NEW x \in s PROVE \E z \in s : \A y \in s : f[y] <= f[z]
    OBVIOUS
  <2>1. s \ {x} \in I
    BY <1>1
  <2>2. CASE s \ {x} = {}
    <3>1. \A y \in s : y = x
      BY <2>2
    <3> QED
      BY <3>1
  <2>3. CASE s \ {x} # {}
    <3>1. PICK z \in s \ {x} : \A y \in s \ {x} : f[y] <= f[z]
      BY <2>1, <2>3
    <3>2. CASE f[x] <= f[z]
      <4>1. \A y \in s : f[y] <= f[z]
        BY <3>1, <3>2
      <4> QED
        BY <4>1
    <3>3. CASE ~ (f[x] <= f[z])
      <4>1. \A y \in s : f[y] <= f[x]
        BY <3>1, <3>3
      <4> QED
        BY <4>1
    <3> QED
      BY <3>2, <3>3
  <2> QED
    BY <2>2, <2>3
<1>2. SUBSET U \subseteq I
  <2> HIDE DEF I
  <2> QED
    BY <1>1, SubsetInduction
<1>3. U \in I
  BY <1>2
<1> QED
  BY <1>3

LEMMA LowestExists ==
  ASSUME NEW U, IsFiniteSet(U), U # {}, NEW f \in [U -> Int]
  PROVE  \E x \in U : \A y \in U : f[x] <= f[y]
<1> DEFINE g == [x \in U |-> - f[x]]
<1>1. g \in [U -> Int] /\ \A x \in U : g[x] = - f[x]
  OBVIOUS
<1> HIDE DEF g
<1>2. PICK x \in U : \A y \in U : g[y] <= g[x]
  BY <1>1, HighestExists
<1>3. \A y \in U : f[x] <= f[y]
  BY <1>1, <1>2
<1> QED
  BY <1>3

\* An extreme value is what Min or Max chooses.
LEMMA ExtremeIsChosen ==
  ASSUME NEW E \in SUBSET Int, NEW e \in E
  PROVE  /\ (\A x \in E : e <= x) => C!Min(E) = e
         /\ (\A x \in E : x <= e) => C!Max(E) = e
<1>1. ASSUME \A x \in E : e <= x PROVE C!Min(E) = e
  <2>1. \A y \in E : (\A x \in E : y <= x) => y = e
    BY <1>1
  <2> QED
    BY <1>1, <2>1 DEF C!Min
<1>2. ASSUME \A x \in E : x <= e PROVE C!Max(E) = e
  <2>1. \A y \in E : (\A x \in E : y >= x) => y = e
    BY <1>2
  <2>2. \A x \in E : e >= x
    BY <1>2
  <2> QED
    BY <2>1, <2>2 DEF C!Max
<1> QED
  BY <1>1, <1>2

-----------------------------------------------------------------------------
(* Catalogue: prices *)

LEMMA TimesGrows ==
  ASSUME NEW m \in Int, NEW n \in Int, NEW k \in Nat, m <= n
  PROVE  m * k <= n * k /\ m * k <= k * n /\ k * m <= n * k /\ m * k \in Int /\ n * k \in Int
<1>1. PICK d \in Nat : n = m + d
  <2>1. n - m \in Nat /\ n = m + (n - m)
    OBVIOUS
  <2> QED
    BY <2>1
<1>2. (m + d) * k = m * k + d * k /\ d * k \in Nat /\ m * k \in Int /\ k * (m + d) = (m + d) * k
      /\ k * m = m * k
  OBVIOUS
<1> QED
  BY <1>1, <1>2

\* The batches that have units, and their prices.
LEMMA BatchesAre ==
  ASSUME C!CatalogueInv
  PROVE  /\ IsFiniteSet(DOMAIN batches)
         /\ \A b \in DOMAIN batches : batches[b].price \in Int /\ batches[b].left \in Int
         /\ \A i : /\ C!InStock(i) \subseteq C!BatchesOf(i)
                   /\ C!BatchesOf(i) \subseteq DOMAIN batches
                   /\ IsFiniteSet(C!BatchesOf(i)) /\ IsFiniteSet(C!InStock(i))
                   /\ \A b \in C!BatchesOf(i) : b \notin C!InStock(i) => batches[b].left <= 0
<1>1. batches \in Seq(C!BatchRow) /\ DOMAIN batches = 1..Len(batches) /\ Len(batches) \in Nat
  BY CatalogueIs DEF CatalogueTables
<1>2. IsFiniteSet(DOMAIN batches)
  BY <1>1, FS_Interval
<1>3. \A b \in DOMAIN batches : batches[b] \in C!BatchRow
  BY <1>1, ElementOfSeq
<1>4. \A b \in DOMAIN batches : batches[b].price \in Int /\ batches[b].left \in Int
  BY <1>3, PricesAreCounted DEF C!BatchRow
<1>5. ASSUME NEW i
      PROVE  /\ C!InStock(i) \subseteq C!BatchesOf(i)
             /\ C!BatchesOf(i) \subseteq DOMAIN batches
             /\ \A b \in C!BatchesOf(i) : b \notin C!InStock(i) => batches[b].left <= 0
  BY <1>4 DEF C!InStock, C!BatchesOf
<1>6. ASSUME NEW i PROVE IsFiniteSet(C!BatchesOf(i)) /\ IsFiniteSet(C!InStock(i))
  <2>1. C!BatchesOf(i) \in SUBSET DOMAIN batches /\ C!InStock(i) \in SUBSET DOMAIN batches
    BY <1>5
  <2> QED
    BY <1>2, <2>1, FS_Subset
<1> QED
  BY <1>2, <1>4, <1>5, <1>6

\* Among the batches with units one has the lowest price and one the highest,
\* and what they cost is what Min and Max find.
Cheapest(i, b) == \A c \in C!InStock(i) : batches[b].price <= batches[c].price
Dearest(i, b) == \A c \in C!InStock(i) : batches[c].price <= batches[b].price

LEMMA ExtremesExist ==
  ASSUME C!CatalogueInv, NEW i, C!InStock(i) # {}
  PROVE  /\ \E b \in C!InStock(i) : Cheapest(i, b)
         /\ \E b \in C!InStock(i) : Dearest(i, b)
<1> DEFINE f == [b \in C!InStock(i) |-> batches[b].price]
<1>1. IsFiniteSet(C!InStock(i)) /\ \A b \in C!InStock(i) : batches[b].price \in Int
  BY BatchesAre
<1>2. f \in [C!InStock(i) -> Int] /\ \A b \in C!InStock(i) : f[b] = batches[b].price
  BY <1>1
<1> HIDE DEF f
<1>3. PICK b \in C!InStock(i) : \A c \in C!InStock(i) : f[b] <= f[c]
  BY <1>1, <1>2, LowestExists
<1>4. PICK d \in C!InStock(i) : \A c \in C!InStock(i) : f[c] <= f[d]
  BY <1>1, <1>2, HighestExists
<1> QED
  BY <1>2, <1>3, <1>4 DEF Cheapest, Dearest

LEMMA ExtremesAre ==
  ASSUME C!CatalogueInv, NEW i, NEW q \in Nat, NEW b \in C!InStock(i)
  PROVE  /\ Cheapest(i, b) =>
              /\ C!Min({batches[c].price : c \in C!InStock(i)}) = batches[b].price
              /\ C!Min(C!PricesOf(i, q)) = batches[b].price * q
         /\ Dearest(i, b) =>
              /\ C!Max({batches[c].price : c \in C!InStock(i)}) = batches[b].price
              /\ C!Max(C!PricesOf(i, q)) = batches[b].price * q
<1> DEFINE E == {batches[c].price : c \in C!InStock(i)}
           Q == C!PricesOf(i, q)
<1>1. \A c \in C!InStock(i) : batches[c].price \in Int
  BY BatchesAre
<1>2. \A c, d \in C!InStock(i) :
        batches[c].price <= batches[d].price => batches[c].price * q <= batches[d].price * q
  BY <1>1, TimesGrows
<1>3. \A c \in C!InStock(i) : batches[c].price * q \in Int
  BY <1>1, TimesGrows
<1>4. Q = {batches[c].price * q : c \in C!InStock(i)}
  BY DEF C!PricesOf
<1>5. E \in SUBSET Int /\ batches[b].price \in E
  BY <1>1
<1>6. Q \in SUBSET Int /\ batches[b].price * q \in Q
  BY <1>3, <1>4
<1>7. ASSUME Cheapest(i, b)
      PROVE  (\A x \in E : batches[b].price <= x) /\ (\A x \in Q : batches[b].price * q <= x)
  BY <1>2, <1>4, <1>7 DEF Cheapest
<1>8. ASSUME Dearest(i, b)
      PROVE  (\A x \in E : x <= batches[b].price) /\ (\A x \in Q : x <= batches[b].price * q)
  BY <1>2, <1>4, <1>8 DEF Dearest
<1> HIDE DEF E, Q
<1>9. Cheapest(i, b) => C!Min(E) = batches[b].price /\ C!Min(Q) = batches[b].price * q
  BY <1>5, <1>6, <1>7, ExtremeIsChosen
<1>10. Dearest(i, b) => C!Max(E) = batches[b].price /\ C!Max(Q) = batches[b].price * q
  BY <1>5, <1>6, <1>8, ExtremeIsChosen
<1> QED
  BY <1>9, <1>10 DEF E, Q

\* The value of what is in stock, if no batch was sold beyond its stock, is
\* between its units at the lowest and at the highest price.
LEMMA ValueInRange ==
  ASSUME C!CatalogueInv, NEW i, NEW lo \in C!InStock(i), NEW hi \in C!InStock(i),
         Cheapest(i, lo), Dearest(i, hi), \A b \in C!BatchesOf(i) : batches[b].left >= 0
  PROVE  LET value == C!SumFunction([b \in C!BatchesOf(i) |-> batches[b].left * batches[b].price])
         IN /\ batches[lo].price * C!Left(i) <= value
            /\ value <= batches[hi].price * C!Left(i)
            /\ C!Left(i) \in Nat /\ value \in Int
<1> DEFINE U == C!BatchesOf(i)
           units == [b \in U |-> batches[b].left]
           worth == [b \in U |-> batches[b].left * batches[b].price]
<1>1. /\ IsFiniteSet(U) /\ U \subseteq DOMAIN batches /\ C!InStock(i) \subseteq U
      /\ \A b \in U : batches[b].left \in Nat /\ batches[b].price \in Int
      /\ \A b \in U : b \notin C!InStock(i) => batches[b].left = 0
  <2>1. /\ \A b \in DOMAIN batches : batches[b].price \in Int /\ batches[b].left \in Int
        /\ C!InStock(i) \subseteq C!BatchesOf(i)
        /\ C!BatchesOf(i) \subseteq DOMAIN batches
        /\ IsFiniteSet(C!BatchesOf(i))
        /\ \A b \in C!BatchesOf(i) : b \notin C!InStock(i) => batches[b].left <= 0
    BY BatchesAre
  <2>2. \A b \in U : batches[b].left \in Int /\ batches[b].left >= 0
    BY <2>1
  <2>3. \A b \in U : batches[b].left \in Nat
    BY <2>2
  <2>4. \A b \in U : b \notin C!InStock(i) => batches[b].left = 0
    BY <2>1, <2>2
  <2> QED
    BY <2>1, <2>3, <2>4
<1>2. \A b \in U : batches[b].left * batches[b].price \in Int
  BY <1>1
<1>3. units \in [U -> Int] /\ \A b \in U : units[b] = batches[b].left
  BY <1>1
<1>4. worth \in [U -> Int] /\ \A b \in U : worth[b] = batches[b].left * batches[b].price
  BY <1>2
<1>5. C!Left(i) = C!SumFunction(units)
  BY DEF C!Left
<1> HIDE DEF units, worth, U
<1>6. C!SumFunction(units) \in Nat /\ C!SumFunction(worth) \in Int
  <2>1. C!SumFunction(units) \in Int
    BY <1>1, <1>3, SumIsNumber
  <2>2. C!SumFunction(worth) \in Int
    BY <1>1, <1>4, SumIsNumber
  <2> DEFINE zero == 0
  <2>3. zero \in Int /\ \A z \in Int : zero * z = 0
    OBVIOUS
  <2> HIDE DEF zero
  <2>4. \A b \in U : zero * units[b] <= units[b]
    BY <1>1, <1>3, <2>3
  <2>5. zero * C!SumFunction(units) <= C!SumFunction(units)
    BY <1>1, <1>3, <2>3, <2>4, SumsBound
  <2> QED
    BY <2>1, <2>2, <2>3, <2>5
<1> DEFINE m == batches[lo].price
           n == batches[hi].price
<1>7. m \in Int /\ n \in Int
  BY <1>1
<1>8. ASSUME NEW b \in U
      PROVE  m * units[b] <= worth[b] /\ worth[b] <= n * units[b]
  <2>1. CASE b \in C!InStock(i)
    <3>1. m <= batches[b].price /\ batches[b].price <= n
      BY <2>1 DEF Cheapest, Dearest
    <3>2. /\ m * batches[b].left <= batches[b].left * batches[b].price
          /\ batches[b].left * batches[b].price <= n * batches[b].left
      <4>1. PICK k \in Nat : k = batches[b].left
        BY <1>1
      <4>2. PICK q \in Int : q = batches[b].price
        BY <1>1
      <4> HIDE DEF m, n
      <4>3. m * k <= k * q
        BY <1>7, <3>1, <4>2, TimesGrows
      <4>4. q * k <= n * k
        BY <1>7, <3>1, <4>2, TimesGrows
      <4>5. k * q = q * k
        OBVIOUS
      <4> QED
        BY <4>1, <4>2, <4>3, <4>4, <4>5
    <3> HIDE DEF m, n
    <3> QED
      BY <1>3, <1>4, <3>2
  <2>2. CASE b \notin C!InStock(i)
    <3>1. batches[b].left = 0 /\ batches[b].price \in Int
      BY <1>1, <2>2
    <3>2. units[b] = 0 /\ worth[b] = 0
      BY <1>3, <1>4, <3>1
    <3> HIDE DEF m, n
    <3> QED
      BY <1>7, <3>2
  <2> QED
    BY <2>1, <2>2
<1> HIDE DEF m, n
<1>9. m * C!SumFunction(units) <= C!SumFunction(worth)
  <2>1. \A b \in U : m * units[b] <= worth[b]
    BY <1>8
  <2> QED
    BY <1>1, <1>3, <1>4, <1>7, <2>1, SumsBound
<1>10. C!SumFunction(worth) <= n * C!SumFunction(units)
  <2>1. \A b \in U : worth[b] <= n * units[b]
    BY <1>8
  <2> QED
    BY <1>1, <1>3, <1>4, <1>7, <2>1, SumsBound
<1>11. m * C!Left(i) <= C!SumFunction(worth) /\ C!SumFunction(worth) <= n * C!Left(i)
  BY <1>5, <1>6, <1>9, <1>10
<1>12. C!SumFunction(worth) = C!SumFunction([b \in C!BatchesOf(i) |-> batches[b].left * batches[b].price])
  BY DEF worth, U
<1> QED
  BY <1>5, <1>6, <1>11, <1>12 DEF m, n

\* Whole units of the currency, below and above.
LEMMA WholeUnits ==
  ASSUME NEW x \in Int
  PROVE  /\ C!Floor(x) \in Int /\ C!Floor(x) * Finest \in Int
         /\ C!Floor(x) * Finest <= x /\ x < C!Floor(x) * Finest + Finest
         /\ C!Ceil(x) \in Int /\ C!Ceil(x) * Finest \in Int
         /\ x <= C!Ceil(x) * Finest /\ C!Ceil(x) * Finest - Finest < x
<1>1. PICK d \in Nat \ {0} : d = Finest BY PricesAreCounted
<1>2. \A y \in Int : /\ y \div d \in Int /\ (y \div d) * d \in Int
                     /\ (y \div d) * d <= y /\ y < (y \div d) * d + d
  OBVIOUS
<1>3. PICK q \in Int : q = (-x) \div d BY <1>2
<1>4. q * d \in Int /\ q * d <= -x /\ -x < q * d + d BY <1>2, <1>3
<1>5. (-q) * d = -(q * d) OBVIOUS
<1>6. -q \in Int /\ (-q) * d \in Int /\ x <= (-q) * d /\ (-q) * d - d < x BY <1>4, <1>5
<1>7. C!Ceil(x) = -q BY <1>1, <1>3 DEF C!Ceil
<1>8. C!Floor(x) = x \div d BY <1>1 DEF C!Floor
<1> QED BY <1>1, <1>2, <1>6, <1>7, <1>8

\* Hence the answer of an inventory that has units.
AnswerIsOfStock(i) ==
  LET a == C!InventoryAnswer(i)
      lowest == a.min * Finest
      highest == a.max * Finest
  IN /\ \A b \in C!InStock(i) : lowest <= batches[b].price /\ batches[b].price <= highest
     /\ \E b \in C!InStock(i) : batches[b].price < lowest + Finest
     /\ \E b \in C!InStock(i) : highest - Finest < batches[b].price
     /\ (\A b \in C!BatchesOf(i) : batches[b].left >= 0) =>
          lowest * a.remaining <= a.value /\ a.value <= highest * a.remaining

LEMMA AnswerInRange ==
  ASSUME C!CatalogueInv, NEW i, C!InStock(i) # {}
  PROVE  AnswerIsOfStock(i)
<1> DEFINE a == C!InventoryAnswer(i)
           prices == {batches[b].price : b \in C!InStock(i)}
           value == C!SumFunction([b \in C!BatchesOf(i) |-> batches[b].left * batches[b].price])
<1>1. C!BatchesOf(i) # {} /\ prices # {} BY DEF C!InStock
<1>2. /\ a.remaining = C!Left(i) /\ a.value = value
      /\ a.min = C!Floor(C!Min(prices)) /\ a.max = C!Ceil(C!Max(prices))
  BY <1>1 DEF C!InventoryAnswer
<1>3. PICK lo, hi \in C!InStock(i) : Cheapest(i, lo) /\ Dearest(i, hi) BY ExtremesExist
<1>4. C!Min(prices) = batches[lo].price /\ C!Max(prices) = batches[hi].price
  <2>1. 0 \in Nat
    OBVIOUS
  <2>2. C!Min(prices) = batches[lo].price
    BY <1>3, <2>1, ExtremesAre
  <2>3. C!Max(prices) = batches[hi].price
    BY <1>3, <2>1, ExtremesAre
  <2> QED
    BY <2>2, <2>3
<1>5. \A b \in C!InStock(i) : batches[b].price \in Int BY BatchesAre
<1>6. PICK m \in Int, n \in Int : m = batches[lo].price /\ n = batches[hi].price BY <1>5
<1> HIDE DEF prices, value, a
<1>7. a.min = C!Floor(m) /\ a.max = C!Ceil(n) BY <1>2, <1>4, <1>6
<1>8. PICK lowest \in Int, highest \in Int :
        /\ lowest = a.min * Finest /\ highest = a.max * Finest
        /\ lowest <= m /\ m < lowest + Finest /\ n <= highest /\ highest - Finest < n
  BY <1>7, WholeUnits
<1>9. \A b \in C!InStock(i) : m <= batches[b].price /\ batches[b].price <= n
  BY <1>3, <1>6 DEF Cheapest, Dearest
<1>10. \A b \in C!InStock(i) : lowest <= batches[b].price /\ batches[b].price <= highest
  BY <1>5, <1>8, <1>9
<1>11. (\E b \in C!InStock(i) : batches[b].price < lowest + Finest)
       /\ (\E b \in C!InStock(i) : highest - Finest < batches[b].price)
  BY <1>3, <1>6, <1>8
<1>12. ASSUME \A b \in C!BatchesOf(i) : batches[b].left >= 0
       PROVE  lowest * a.remaining <= a.value /\ a.value <= highest * a.remaining
  <2>1. m * C!Left(i) <= value /\ value <= n * C!Left(i) /\ C!Left(i) \in Nat /\ value \in Int
    BY <1>3, <1>6, <1>12, ValueInRange DEF value
  <2>2. PICK k \in Nat, v \in Int : k = C!Left(i) /\ v = value BY <2>1
  <2>3. lowest * k <= m * k /\ n * k <= highest * k BY <1>8, TimesGrows
  <2>4. m * k <= v /\ v <= n * k BY <2>1, <2>2
  <2>5. lowest * k \in Int /\ m * k \in Int /\ n * k \in Int /\ highest * k \in Int OBVIOUS
  <2>6. lowest * k <= v /\ v <= highest * k BY <2>3, <2>4, <2>5
  <2> QED BY <1>2, <2>2, <2>6
<1> QED BY <1>8, <1>10, <1>11, <1>12 DEF AnswerIsOfStock, a

\* What a product costs: the least of the ways to take its parts is to take the
\* cheapest batch for each, the most is to take the dearest.
LEMMA PriceRangeIs ==
  ASSUME C!CatalogueInv, IsFiniteSet(parts), NEW p
  PROVE  LET V == {r \in parts : r.product = p /\ C!InStock(r.inventory) # {}}
             ways == {w \in [V -> DOMAIN batches] : \A r \in V : w[r] \in C!InStock(r.inventory)}
             costs == {C!SumFunction([r \in V |-> batches[w[r]].price * r.quantity]) : w \in ways}
         IN C!PriceRange(p) = [min |-> C!ToFixed(C!Min(costs)), max |-> C!ToFixed(C!Max(costs))]
<1> DEFINE U == {r \in parts : r.product = p}
           V == {r \in parts : r.product = p /\ C!InStock(r.inventory) # {}}
           ways == {w \in [V -> DOMAIN batches] : \A r \in V : w[r] \in C!InStock(r.inventory)}
           Taken(w) == [r \in V |-> batches[w[r]].price * r.quantity]
           costs == {C!SumFunction(Taken(w)) : w \in ways}
           Some(r) == C!PricesOf(r.inventory, r.quantity)
           least == [r \in U |-> IF Some(r) = {} THEN 0 ELSE C!Min(Some(r))]
           most == [r \in U |-> IF Some(r) = {} THEN 0 ELSE C!Max(Some(r))]
           lo == [r \in V |-> CHOOSE b \in C!InStock(r.inventory) : Cheapest(r.inventory, b)]
           hi == [r \in V |-> CHOOSE b \in C!InStock(r.inventory) : Dearest(r.inventory, b)]
<1>1. \A r \in parts : r.quantity \in Nat
  <2>1. parts \subseteq C!PartRow
    BY CatalogueIs DEF CatalogueTables
  <2> QED
    BY <2>1, PricesAreCounted DEF C!PartRow
<1>2. IsFiniteSet(U) /\ V \in SUBSET U /\ IsFiniteSet(V)
  <2>1. U \subseteq parts /\ V \subseteq U
    OBVIOUS
  <2>2. IsFiniteSet(U)
    BY <2>1, FS_Subset
  <2>3. IsFiniteSet(V)
    BY <2>1, <2>2, FS_Subset
  <2> QED
    BY <2>1, <2>2, <2>3
<1>3. \A b \in DOMAIN batches : batches[b].price \in Int
  BY BatchesAre
<1>4. \A i : C!InStock(i) \subseteq DOMAIN batches
  BY BatchesAre
<1>5. ASSUME NEW w \in ways
      PROVE  /\ Taken(w) \in [V -> Int]
             /\ \A r \in V : Taken(w)[r] = batches[w[r]].price * r.quantity
  <2>1. ASSUME NEW r \in V PROVE batches[w[r]].price * r.quantity \in Int
    <3>1. r.quantity \in Nat /\ batches[w[r]].price \in Int
      BY <1>1, <1>3
    <3> QED
      BY <3>1, TimesGrows
  <2>2. Taken(w) = [r \in V |-> batches[w[r]].price * r.quantity]
    OBVIOUS
  <2> DEFINE t == Taken(w)
  <2>3. t = [r \in V |-> batches[w[r]].price * r.quantity]
    BY <2>2
  <2> HIDE DEF t, V
  <2>4. \A r \in V : t[r] = batches[w[r]].price * r.quantity
    BY <2>3
  <2>5. t \in [V -> Int]
    BY <2>1, <2>3
  <2> QED
    BY <2>4, <2>5 DEF t
<1>6. ASSUME NEW r \in V
      PROVE  /\ lo[r] \in C!InStock(r.inventory) /\ Cheapest(r.inventory, lo[r])
             /\ hi[r] \in C!InStock(r.inventory) /\ Dearest(r.inventory, hi[r])
  <2>1. C!InStock(r.inventory) # {}
    OBVIOUS
  <2>2. /\ \E b \in C!InStock(r.inventory) : Cheapest(r.inventory, b)
        /\ \E b \in C!InStock(r.inventory) : Dearest(r.inventory, b)
    BY <2>1, ExtremesExist
  <2>3. /\ lo[r] = CHOOSE b \in C!InStock(r.inventory) : Cheapest(r.inventory, b)
        /\ hi[r] = CHOOSE b \in C!InStock(r.inventory) : Dearest(r.inventory, b)
    OBVIOUS
  <2> HIDE DEF lo, hi
  <2> QED
    BY <2>2, <2>3, Zenon
<1>7. lo \in ways /\ hi \in ways
  <2>1. lo \in [V -> DOMAIN batches] /\ hi \in [V -> DOMAIN batches]
    <3>1. lo = [r \in V |-> lo[r]] /\ hi = [r \in V |-> hi[r]]
      OBVIOUS
    <3> HIDE DEF lo, hi, V
    <3>2. \A r \in V : lo[r] \in DOMAIN batches /\ hi[r] \in DOMAIN batches
      BY <1>4, <1>6
    <3> QED
      BY <3>1, <3>2
  <2> HIDE DEF lo, hi, V
  <2> QED
    BY <1>6, <2>1
<1>8. \A r \in U : r \notin V => Some(r) = {}
  BY DEF C!PricesOf
<1>9. ASSUME NEW r \in V
      PROVE  /\ Some(r) # {}
             /\ C!Min(Some(r)) = batches[lo[r]].price * r.quantity
             /\ C!Max(Some(r)) = batches[hi[r]].price * r.quantity
  <2>1. Some(r) # {}
    BY DEF C!PricesOf
  <2>2. r.quantity \in Nat
    BY <1>1
  <2> HIDE DEF lo, hi
  <2>3. C!Min(Some(r)) = batches[lo[r]].price * r.quantity
    BY <1>6, <2>2, ExtremesAre
  <2>4. C!Max(Some(r)) = batches[hi[r]].price * r.quantity
    BY <1>6, <2>2, ExtremesAre
  <2> QED
    BY <2>1, <2>3, <2>4
<1>10. /\ \A r \in U : least[r] = IF Some(r) = {} THEN 0 ELSE C!Min(Some(r))
       /\ \A r \in U : most[r] = IF Some(r) = {} THEN 0 ELSE C!Max(Some(r))
       /\ least = [r \in U |-> least[r]] /\ most = [r \in U |-> most[r]]
  OBVIOUS
<1>11. /\ C!PriceRange(p) = [min |-> C!ToFixed(C!SumFunction(least)),
                              max |-> C!ToFixed(C!SumFunction(most))]
       /\ V \in SUBSET parts
  BY DEF C!PriceRange
<1> HIDE DEF least, most, lo, hi
<1>12. /\ \A r \in V : least[r] = Taken(lo)[r] /\ most[r] = Taken(hi)[r]
       /\ \A r \in U \ V : least[r] = 0 /\ most[r] = 0
  <2>1. ASSUME NEW r \in V PROVE least[r] = Taken(lo)[r] /\ most[r] = Taken(hi)[r]
    <3>1. least[r] = batches[lo[r]].price * r.quantity /\ most[r] = batches[hi[r]].price * r.quantity
      BY <1>2, <1>9, <1>10
    <3> QED
      BY <3>1
  <2>2. ASSUME NEW r \in U \ V PROVE least[r] = 0 /\ most[r] = 0
    BY <1>8, <1>10
  <2> QED
    BY <2>1, <2>2
<1> DEFINE Tlo == Taken(lo)
           Thi == Taken(hi)
<1>13. /\ Tlo \in [V -> Int] /\ Thi \in [V -> Int]
       /\ \A r \in V : Tlo[r] = batches[lo[r]].price * r.quantity
       /\ \A r \in V : Thi[r] = batches[hi[r]].price * r.quantity
  BY <1>5, <1>7
<1>14. /\ \A r \in V : least[r] = Tlo[r] /\ most[r] = Thi[r]
       /\ C!SumFunction(Tlo) = C!SumFunction(Taken(lo)) /\ C!SumFunction(Thi) = C!SumFunction(Taken(hi))
  BY <1>12
<1> HIDE DEF Tlo, Thi, U, V, Some, Taken, ways
<1>15. least \in [U -> Int] /\ most \in [U -> Int]
  <2>1. \A r \in U : least[r] \in Int /\ most[r] \in Int
    BY <1>12, <1>13, <1>14
  <2> QED
    BY <1>10, <2>1
<1>16. C!SumFunction(least) = C!SumFunction(Tlo)
  <2>1. \A r \in V : Tlo[r] = least[r]
    BY <1>14
  <2>2. \A r \in U \ V : least[r] = 0
    BY <1>12
  <2>3. least \in [U -> Int] /\ Tlo \in [V -> Int]
    BY <1>13, <1>15
  <2> QED
    BY <1>2, <2>1, <2>2, <2>3, SumOfSome
<1>17. C!SumFunction(most) = C!SumFunction(Thi)
  <2>1. \A r \in V : Thi[r] = most[r]
    BY <1>14
  <2>2. \A r \in U \ V : most[r] = 0
    BY <1>12
  <2>3. most \in [U -> Int] /\ Thi \in [V -> Int]
    BY <1>13, <1>15
  <2> QED
    BY <1>2, <2>1, <2>2, <2>3, SumOfSome
<1>18. ASSUME NEW w \in ways
       PROVE  /\ C!SumFunction(Taken(w)) \in Int
              /\ C!SumFunction(Tlo) <= C!SumFunction(Taken(w))
              /\ C!SumFunction(Taken(w)) <= C!SumFunction(Thi)
  <2> DEFINE t == Taken(w)
  <2>1. t \in [V -> Int] /\ \A r \in V : t[r] = batches[w[r]].price * r.quantity
    BY <1>5
  <2>2. \A r \in V : Tlo[r] <= t[r] /\ t[r] <= Thi[r]
    <3>1. ASSUME NEW r \in V PROVE w[r] \in C!InStock(r.inventory) /\ r \in parts
      BY <1>11 DEF ways
    <3>2. ASSUME NEW r \in V
          PROVE  /\ batches[lo[r]].price * r.quantity <= batches[w[r]].price * r.quantity
                 /\ batches[w[r]].price * r.quantity <= batches[hi[r]].price * r.quantity
      <4>1. /\ batches[lo[r]].price <= batches[w[r]].price
            /\ batches[w[r]].price <= batches[hi[r]].price
        BY <1>6, <3>1 DEF Cheapest, Dearest
      <4>2. /\ batches[lo[r]].price \in Int /\ batches[w[r]].price \in Int
            /\ batches[hi[r]].price \in Int /\ r.quantity \in Nat
        BY <1>1, <1>3, <1>4, <1>6, <3>1
      <4> QED
        BY <4>1, <4>2, TimesGrows
    <3> QED
      BY <1>13, <2>1, <3>2
  <2> HIDE DEF t
  <2>3. C!SumFunction(t) \in Int
    BY <1>2, <2>1, SumIsNumber
  <2>4. C!SumFunction(Tlo) <= C!SumFunction(t)
    BY <1>2, <1>13, <2>1, <2>2, SumsGrow
  <2>5. C!SumFunction(t) <= C!SumFunction(Thi)
    BY <1>2, <1>13, <2>1, <2>2, SumsGrow
  <2> QED
    BY <2>3, <2>4, <2>5 DEF t
<1>19. costs \in SUBSET Int
  BY <1>18
<1>20. C!SumFunction(Tlo) \in costs /\ C!SumFunction(Thi) \in costs
  BY <1>7, <1>14
<1>21. \A x \in costs : C!SumFunction(Tlo) <= x /\ x <= C!SumFunction(Thi)
  BY <1>18
<1>22. costs = {C!SumFunction([r \in V |-> batches[w[r]].price * r.quantity]) : w \in ways}
  BY DEF Taken
<1> HIDE DEF costs
<1>23. C!Min(costs) = C!SumFunction(Tlo)
  BY <1>19, <1>20, <1>21, ExtremeIsChosen
<1>24. C!Max(costs) = C!SumFunction(Thi)
  BY <1>19, <1>20, <1>21, ExtremeIsChosen
<1>25. C!PriceRange(p) = [min |-> C!ToFixed(C!Min(costs)), max |-> C!ToFixed(C!Max(costs))]
  BY <1>11, <1>16, <1>17, <1>23, <1>24
<1> QED
  BY <1>22, <1>25, Zenon DEF V, ways, costs, Taken

\* Both parts of the property, in every state of the invariant.
LEMMA CataloguePrices ==
  ASSUME C!CatalogueInv
  PROVE  C!PricesAreOfStock
<1>1. IsFiniteSet(parts)
  BY CatalogueIs DEF CatalogueTables, IsFiniteSet, C!IsFiniteSet
<1> QED
  BY <1>1, AnswerInRange, PriceRangeIs DEF C!PricesAreOfStock, AnswerIsOfStock

\* The prices an answer shows are of what can be bought: the lowest and the
\* highest one of an inventory enclose those of its batches with units, as
\* closely as whole units of the currency can, and its value, unless a batch
\* was oversold; the ends of a product's price range are the least and the most
\* that its parts cost, over all ways to take them from such batches.
THEOREM PricesAreOfStockHolds == Spec => []PricesAreOfStock
<1>1. CatalogueOK => PricesAreOfStock
  BY CataloguePrices DEF CatalogueOK, PricesAreOfStock
<1> QED
  BY CatalogueInit, CatalogueNext, <1>1, PTL DEF Spec, all

-----------------------------------------------------------------------------
(* Every part *)

PartIsOne ==
  part \in {"tenancy", "memberships", "accounts", "devices", "catalogue", "clients",
            "listings", "statistics"}

LEMMA PartIsOneInit == Init => PartIsOne
BY DEF Init, PartIsOne

LEMMA PartIsOneNext == PartIsOne /\ [Next]_all => PartIsOne'
BY PartSteps DEF PartIsOne

\* Every table and every request of every part keeps its shape.
THEOREM TypeOKHolds == Spec => []TypeOK
<1>1. ASSUME PartIsOne, TenancyInv, MembershipsInv, AccountsInv, DevicesInv, CatalogueOK,
             ClientsInv, ListingsInv, StatisticsInv
      PROVE  TypeOK
  <2>1. /\ part = "tenancy" => T!TypeOK
        /\ part = "memberships" => M!TypeOK
        /\ part = "accounts" => A!TypeOK
        /\ part = "devices" => D!TypeOK
        /\ part = "catalogue" => C!TypeOK
        /\ part = "clients" => L!TypeInv
        /\ part = "listings" => P!TypeOK
        /\ part = "statistics" => S!TypeOK
    BY <1>1 DEF TenancyInv, MembershipsInv, AccountsInv, DevicesInv, CatalogueOK, ClientsInv,
       ListingsInv, StatisticsInv, T!StoreInv, T!TypeInv, M!AloneInv, M!MemberInv, M!TypeInv,
       A!OneInv, A!DeadInv, A!TypeInv, D!SentInv, D!TypeInv, C!CatalogueInv, L!SaleInv,
       P!WalkInv, S!StatsInv
  <2> QED BY <1>1, <2>1 DEF PartIsOne, TypeOK
<1> QED
  BY PartIsOneInit, PartIsOneNext, TenancyInit, TenancyNext, MembershipsInit, MembershipsNext,
     AccountsInit, AccountsNext, DevicesInit, DevicesNext, CatalogueInit, CatalogueNext,
     ClientsInit, ClientsNext, ListingsInit, ListingsNext, StatisticsInvInit,
     StatisticsInvNext, <1>1, PTL DEF Spec, all
=============================================================================
