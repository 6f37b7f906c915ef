------------------------ MODULE AnnotationTableProofs ------------------------
(***************************************************************************)
(* Facts about the operators of AnnotationTable: what inserting a row does *)
(* to the rows, versions, lineage and keys of a finite table.              *)
(***************************************************************************)
EXTENDS AnnotationTable, FiniteSetTheorems, SequenceTheorems, TLAPS

(* With a complete lineage the next version is one above the row count:    *)
(* current_max + 1 is what a gapless history makes it.                     *)
LEMMA NextOfCompleteLineage ==
    ASSUME NEW rows, NEW i,
           LineageComplete(rows, i),
           Cardinality(RowsOf(rows, i)) \in Nat
    PROVE  NextVersion(rows, i) = Cardinality(RowsOf(rows, i)) + 1
<1> DEFINE n == Cardinality(RowsOf(rows, i))
           S == VersionsOf(rows, i) \cup {0}
<1>1. S = 0 .. n
  BY DEF LineageComplete
<1>2. Max(S) \in S /\ \A y \in S : Max(S) >= y
  BY <1>1 DEF Max
<1>3. Max(S) = n
  BY <1>1, <1>2
<1> QED
  BY <1>3 DEF NextVersion, MaxVersion

(* The rows of an image, or of a job, after one row is added.              *)
LEMMA RowsAfterInsert ==
    ASSUME NEW rows, IsFiniteSet(rows),
           NEW i, NEW v, NEW j,
           ~KeyTaken(rows, i, v)
    PROVE  /\ IsFiniteSet(Insert(rows, i, v, j))
           /\ Cardinality(RowsOf(Insert(rows, i, v, j), i))
                = Cardinality(RowsOf(rows, i)) + 1
           /\ VersionsOf(Insert(rows, i, v, j), i) = VersionsOf(rows, i) \cup {v}
           /\ \A k : k # i => RowsOf(Insert(rows, i, v, j), k) = RowsOf(rows, k)
           /\ Cardinality(JobRows(Insert(rows, i, v, j), j))
                = Cardinality(JobRows(rows, j)) + 1
           /\ \A k : k # j => JobRows(Insert(rows, i, v, j), k) = JobRows(rows, k)
<1> DEFINE row == [image |-> i, version |-> v, job |-> j]
           new == Insert(rows, i, v, j)
<1>1. row \notin rows
  BY DEF KeyTaken
<1>2. RowsOf(new, i) = RowsOf(rows, i) \cup {row} /\ row \notin RowsOf(rows, i)
  BY <1>1 DEF RowsOf, Insert
<1>3. JobRows(new, j) = JobRows(rows, j) \cup {row} /\ row \notin JobRows(rows, j)
  BY <1>1 DEF JobRows, Insert
<1>4. IsFiniteSet(RowsOf(rows, i)) /\ IsFiniteSet(JobRows(rows, j))
  BY FS_Subset DEF RowsOf, JobRows
<1>5. IsFiniteSet(new)
  BY FS_AddElement DEF Insert
<1>6. Cardinality(RowsOf(new, i)) = Cardinality(RowsOf(rows, i)) + 1
  BY <1>2, <1>4, FS_AddElement
<1>7. Cardinality(JobRows(new, j)) = Cardinality(JobRows(rows, j)) + 1
  BY <1>3, <1>4, FS_AddElement
<1>8. VersionsOf(new, i) = VersionsOf(rows, i) \cup {v}
  BY <1>2 DEF VersionsOf
<1>9. /\ \A k : k # i => RowsOf(new, k) = RowsOf(rows, k)
      /\ \A k : k # j => JobRows(new, k) = JobRows(rows, k)
  BY DEF RowsOf, JobRows, Insert
<1> QED
  BY <1>5, <1>6, <1>7, <1>8, <1>9

(* Counting the rows of a finite table gives a number.                     *)
LEMMA RowCounts ==
    ASSUME NEW rows, IsFiniteSet(rows)
    PROVE  /\ \A i : Cardinality(RowsOf(rows, i)) \in Nat
           /\ \A j : Cardinality(JobRows(rows, j)) \in Nat
  BY FS_Subset, FS_CardinalityType DEF RowsOf, JobRows

(* The empty table has a complete lineage of every image.                  *)
LEMMA EmptyTable ==
    /\ IsFiniteSet({})
    /\ \A i : LineageComplete({}, i) /\ Cardinality(RowsOf({}, i)) = 0
    /\ \A j : Cardinality(JobRows({}, j)) = 0
  BY FS_EmptySet DEF LineageComplete, VersionsOf, RowsOf, JobRows

(* Inserting a version that is free and at most one above the row count    *)
(* keeps the lineage of every image complete.                              *)
LEMMA InsertKeepsLineage ==
    ASSUME NEW rows, IsFiniteSet(rows), NEW Image, NEW i \in Image, NEW j,
           \A k \in Image : LineageComplete(rows, k),
           NEW v, v \in 1 .. Cardinality(RowsOf(rows, i)) + 1,
           ~KeyTaken(rows, i, v)
    PROVE  \A k \in Image : LineageComplete(Insert(rows, i, v, j), k)
<1> DEFINE n == Cardinality(RowsOf(rows, i))
           new == Insert(rows, i, v, j)
<1>1. n \in Nat
  BY RowCounts
<1>2. VersionsOf(rows, i) = 1 .. n
  BY DEF LineageComplete
<1>3. v \notin VersionsOf(rows, i)
  BY DEF VersionsOf, RowsOf, KeyTaken
<1>4. v = n + 1
  BY <1>1, <1>2, <1>3
<1>5. /\ Cardinality(RowsOf(new, i)) = n + 1
      /\ VersionsOf(new, i) = VersionsOf(rows, i) \cup {v}
      /\ \A k : k # i => RowsOf(new, k) = RowsOf(rows, k)
  BY RowsAfterInsert
<1> HIDE DEF n, new
<1>6. 1 .. n + 1 = (1 .. n) \cup {n + 1}
  BY <1>1
<1>7. VersionsOf(new, i) = 1 .. n + 1
  BY <1>2, <1>4, <1>5, <1>6
<1>8. ASSUME NEW k \in Image, k # i
      PROVE  LineageComplete(new, k)
  BY <1>5, <1>8 DEF LineageComplete, VersionsOf
<1>9. \A k \in Image : LineageComplete(new, k)
  BY <1>5, <1>7, <1>8 DEF LineageComplete
<1> QED
  BY <1>9 DEF new

(* No two rows have the same image and version.                            *)
Keyed(rows) ==
    \A a, b \in rows : a.image = b.image /\ a.version = b.version => a = b

(* The unique key holds on: an insert that meets it is refused.            *)
LEMMA InsertKeepsKeys ==
    ASSUME NEW rows, Keyed(rows), NEW i, NEW v, NEW j, ~KeyTaken(rows, i, v)
    PROVE  Keyed(Insert(rows, i, v, j))
  BY DEF Keyed, KeyTaken, Insert

(* A row of a keyed table is the one its key finds.                        *)
LEMMA RowAtKey ==
    ASSUME NEW rows, Keyed(rows), NEW r \in rows
    PROVE  RowAt(rows, r.image, r.version) = r
<1>1. \E q \in rows : q.image = r.image /\ q.version = r.version
  OBVIOUS
<1>2. /\ RowAt(rows, r.image, r.version) \in rows
      /\ RowAt(rows, r.image, r.version).image = r.image
      /\ RowAt(rows, r.image, r.version).version = r.version
  BY <1>1 DEF RowAt
<1> QED
  BY <1>2 DEF Keyed

(* In a larger keyed table the key finds the same row.                     *)
LEMMA RowAtStays ==
    ASSUME NEW rows, NEW new, rows \subseteq new, Keyed(new),
           NEW i, NEW v \in VersionsOf(rows, i)
    PROVE  /\ RowAt(new, i, v) = RowAt(rows, i, v)
           /\ RowAt(rows, i, v) \in rows
<1>1. PICK r \in rows : r.image = i /\ r.version = v
  BY DEF VersionsOf, RowsOf
<1>2. Keyed(rows)
  BY DEF Keyed
<1>3. RowAt(rows, i, v) = r
  BY <1>1, <1>2, RowAtKey
<1>4. RowAt(new, i, v) = r
  BY <1>1, RowAtKey
<1> QED
  BY <1>3, <1>4

(* The lineage of a complete image is a sequence of jobs.                  *)
LEMMA LineageIsASeq ==
    ASSUME NEW rows, IsFiniteSet(rows), Keyed(rows),
           NEW Author, \A r \in rows : r.job \in Author,
           NEW i, LineageComplete(rows, i)
    PROVE  /\ Lineage(rows, i) \in Seq(Author)
           /\ Len(Lineage(rows, i)) = Cardinality(RowsOf(rows, i))
           /\ \A v \in 1 .. Cardinality(RowsOf(rows, i)) :
                 Lineage(rows, i)[v] = RowAt(rows, i, v).job
<1> DEFINE n == Cardinality(RowsOf(rows, i))
<1>1. n \in Nat
  BY RowCounts
<1>2. \A v \in 1 .. n : RowAt(rows, i, v).job \in Author
  <2> SUFFICES ASSUME NEW v \in 1 .. n
               PROVE  RowAt(rows, i, v).job \in Author
    OBVIOUS
  <2>1. v \in VersionsOf(rows, i)
    BY DEF LineageComplete
  <2>2. RowAt(rows, i, v) \in rows
    BY <2>1, RowAtStays
  <2> QED
    BY <2>2
<1>3. Lineage(rows, i) \in [1 .. n -> Author]
  BY <1>2 DEF Lineage
<1>4. Lineage(rows, i) \in Seq(Author)
  BY <1>1, <1>3, SeqDef
<1>5. Len(Lineage(rows, i)) = n
  <2>1. DOMAIN Lineage(rows, i) = 1 .. n
    BY DEF Lineage
  <2>2. /\ Len(Lineage(rows, i)) \in Nat
        /\ DOMAIN Lineage(rows, i) = 1 .. Len(Lineage(rows, i))
    BY <1>4, LenProperties
  <2> HIDE DEF n
  <2> QED
    BY <1>1, <2>1, <2>2
<1> QED
  BY <1>4, <1>5 DEF Lineage

(* Inserting the next version of an image appends to its log.              *)
LEMMA InsertAppends ==
    ASSUME NEW rows, IsFiniteSet(rows), Keyed(rows),
           NEW i, LineageComplete(rows, i),
           NEW v, v \in 1 .. Cardinality(RowsOf(rows, i)) + 1,
           ~KeyTaken(rows, i, v),
           NEW j
    PROVE  Lineage(Insert(rows, i, v, j), i) = Append(Lineage(rows, i), j)
<1> DEFINE n == Cardinality(RowsOf(rows, i))
           row == [image |-> i, version |-> v, job |-> j]
           new == Insert(rows, i, v, j)
           authors == {r.job : r \in new}
           s == Lineage(rows, i)
           t == Lineage(new, i)
<1>1. n \in Nat
  BY RowCounts
<1>2. /\ IsFiniteSet(new)
      /\ Cardinality(RowsOf(new, i)) = n + 1
      /\ VersionsOf(new, i) = VersionsOf(rows, i) \cup {v}
  BY RowsAfterInsert
<1>3. /\ rows \subseteq new /\ row \in new
      /\ \A r \in new : r.job \in authors
  BY DEF Insert
<1>4. Keyed(new)
  BY InsertKeepsKeys
<1>5. v = n + 1
  <2>1. v \notin VersionsOf(rows, i)
    BY DEF KeyTaken, VersionsOf, RowsOf
  <2> QED
    BY <1>1, <2>1 DEF LineageComplete
<1>6. LineageComplete(new, i)
  <2>1. 1 .. n + 1 = (1 .. n) \cup {n + 1}
    BY <1>1
  <2> HIDE DEF n, new
  <2> QED
    BY <1>2, <1>5, <2>1 DEF LineageComplete, n
<1>7. /\ s \in Seq(authors) /\ Len(s) = n
      /\ \A u \in 1 .. n : s[u] = RowAt(rows, i, u).job
  BY <1>3, LineageIsASeq
<1>8. /\ t \in Seq(authors) /\ Len(t) = n + 1
      /\ \A u \in 1 .. n + 1 : t[u] = RowAt(new, i, u).job
  BY <1>2, <1>3, <1>4, <1>6, LineageIsASeq
<1>9. \A u \in 1 .. n : RowAt(new, i, u) = RowAt(rows, i, u)
  <2> SUFFICES ASSUME NEW u \in 1 .. n
               PROVE  RowAt(new, i, u) = RowAt(rows, i, u)
    OBVIOUS
  <2>1. u \in VersionsOf(rows, i)
    BY DEF LineageComplete
  <2> QED
    BY <1>3, <1>4, <2>1, RowAtStays
<1>10. RowAt(new, i, n + 1).job = j
  BY <1>3, <1>4, <1>5, RowAtKey
<1>11. j \in authors
  BY <1>3
<1> HIDE DEF s, t, n, new, authors
<1>12. Append(s, j) \in Seq(authors) /\ Len(Append(s, j)) = n + 1
  BY <1>7, <1>11
<1>13. \A u \in 1 .. n + 1 : Append(s, j)[u] = t[u]
  BY <1>1, <1>7, <1>8, <1>9, <1>10, <1>11
<1>14. t = Append(s, j)
  BY <1>8, <1>12, <1>13, SeqEqual
<1> QED
  BY <1>14 DEF s, t, new

(* Inserting a version of one image leaves the logs of the others alone.   *)
LEMMA InsertLeavesOthers ==
    ASSUME NEW rows, IsFiniteSet(rows), Keyed(rows),
           NEW i, NEW v, ~KeyTaken(rows, i, v), NEW j,
           NEW k, k # i, LineageComplete(rows, k)
    PROVE  Lineage(Insert(rows, i, v, j), k) = Lineage(rows, k)
<1> DEFINE new == Insert(rows, i, v, j)
<1>1. Keyed(new) /\ rows \subseteq new
  BY InsertKeepsKeys DEF Insert
<1>2. Cardinality(RowsOf(new, k)) = Cardinality(RowsOf(rows, k))
  BY RowsAfterInsert
<1>3. \A u \in 1 .. Cardinality(RowsOf(rows, k)) : RowAt(new, k, u) = RowAt(rows, k, u)
  <2> SUFFICES ASSUME NEW u \in 1 .. Cardinality(RowsOf(rows, k))
               PROVE  RowAt(new, k, u) = RowAt(rows, k, u)
    OBVIOUS
  <2>1. u \in VersionsOf(rows, k)
    BY DEF LineageComplete
  <2> QED
    BY <1>1, <2>1, RowAtStays
<1> QED
  BY <1>2, <1>3 DEF Lineage

=============================================================================
