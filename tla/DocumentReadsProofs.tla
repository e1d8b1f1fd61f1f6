------------------------ MODULE DocumentReadsProofs ------------------------
(***************************************************************************)
(* The proof that a walk through GET /jobs misses no job, for any number   *)
(* of jobs and any size of the pages.  It rests on the invariant of        *)
(* DocumentsProofs: what is within its retention is never deleted, and     *)
(* rows older than an expired one are expired as well.                     *)
(***************************************************************************)
EXTENDS DocumentReads, DocumentsProofs

\* The rows listed before that of j, and how many there are: its offset.
Newer(j) == {k \in Stored : Older(j, k)}
Rank(j)  == Cardinality(Newer(j))

ListingType ==
  listing \in [step: {"idle", "walking", "missed"}, offset: Nat, watch: Jobs \cup {None}]

\* The job looked for is still ahead, unless it is past its retention.
WatchAhead ==
  listing.step = "walking" =>
    \/ listing.watch \in Aged
    \/ listing.watch \in Stored /\ listing.offset <= Rank(listing.watch)

ReadsInv == ListingType /\ WatchAhead /\ ListingMissesNone
-----------------------------------------------------------------------------
(* The order of the list.                                                  *)

LEMMA Ordered ==
  ASSUME Inv
  PROVE  /\ \A j : ~Older(j, j)
         /\ \A j, k, l : Older(j, k) /\ Older(k, l) => Older(j, l)
         /\ \A j, k \in Stored : j # k => Older(j, k) \/ Older(k, j)
<1>1. /\ DOMAIN created = 1..Len(created) /\ Len(created) \in Nat
      /\ \A a, b \in DOMAIN created : created[a] = created[b] => a = b
      /\ Range(created) = {j \in Jobs : row[j] # "none"}
  BY DEF Inv, TypeOK, IsInjective
<1>2. \A j : ~Older(j, j)
  BY <1>1 DEF Older
<1>3. \A j, k, l : Older(j, k) /\ Older(k, l) => Older(j, l)
  BY <1>1 DEF Older
<1>4. ASSUME NEW j \in Stored, NEW k \in Stored, j # k PROVE Older(j, k) \/ Older(k, j)
  <2>1. j \in Range(created) /\ k \in Range(created)
    BY <1>1 DEF Stored
  <2>2. PICK a \in DOMAIN created, b \in DOMAIN created : created[a] = j /\ created[b] = k
    BY <2>1 DEF Range
  <2>3. a < b \/ b < a
    BY <1>1, <1>4, <2>2
  <2> QED
    BY <2>2, <2>3 DEF Older
<1> QED
  BY <1>2, <1>3, <1>4

LEMMA Countable ==
  ASSUME Inv
  PROVE  /\ IsFiniteSet(Stored)
         /\ \A j : IsFiniteSet(Newer(j)) /\ Rank(j) \in Nat
<1>1. Stored \subseteq {j \in Jobs : row[j] # "none"}
  BY DEF Stored
<1>2. IsFiniteSet(Stored)
  BY <1>1, RowsFinite, FS_Subset
<1>3. \A j : Newer(j) \subseteq Stored
  BY DEF Newer
<1> QED
  BY <1>2, <1>3, FS_Subset, FS_CardinalityType DEF Rank

LEMMA CountableNext == Inv' => (\A j : IsFiniteSet(Newer(j)) /\ Rank(j) \in Nat)'
<1>1. Inv => \A j : IsFiniteSet(Newer(j)) /\ Rank(j) \in Nat
  BY Countable
<1> QED
  BY <1>1, PTL

\* An older row comes later in the list.
LEMMA OlderIsLater ==
  ASSUME Inv, NEW j \in Stored, NEW k \in Stored, Older(j, k)
  PROVE  Rank(k) < Rank(j)
<1>1. k \notin Newer(k) /\ Newer(k) \cup {k} \subseteq Newer(j)
  BY Ordered DEF Newer
<1>2. IsFiniteSet(Newer(k) \cup {k}) /\ Cardinality(Newer(k) \cup {k}) = Rank(k) + 1
  BY <1>1, Countable, FS_AddElement DEF Rank
<1>3. Cardinality(Newer(k) \cup {k}) <= Rank(j)
  BY <1>1, Countable, FS_Subset DEF Rank
<1> QED
  BY <1>2, <1>3, Countable

\* A page is empty only at the end of the list: the ranks of a row and of the
\* newer ones are as many as the offsets up to its own, so none is left out.
LEMMA PageReached ==
  ASSUME Inv, NEW j \in Stored, NEW o \in Nat, o <= Rank(j)
  PROVE  Page(o) # {}
<1> DEFINE N == Newer(j) \cup {j}
           f == [k \in N |-> Rank(k)]
<1>1. N \subseteq Stored /\ j \notin Newer(j)
  BY Ordered DEF Newer
<1>2. IsFiniteSet(N) /\ Cardinality(N) = Rank(j) + 1
  BY <1>1, Countable, FS_AddElement DEF Rank
<1>3. \A k \in N : Rank(k) \in 0..Rank(j)
  <2>1. \A k \in Newer(j) : Rank(k) < Rank(j)
    BY OlderIsLater DEF Newer
  <2> QED
    BY <2>1, Countable
<1>4. \A k, l \in N : Rank(k) = Rank(l) => k = l
  <2> SUFFICES ASSUME NEW k \in N, NEW l \in N, k # l PROVE Rank(k) # Rank(l)
    OBVIOUS
  <2>1. Older(k, l) \/ Older(l, k)
    BY <1>1, Ordered
  <2>2. Rank(l) < Rank(k) \/ Rank(k) < Rank(l)
    BY <1>1, <2>1, OlderIsLater
  <2> QED
    BY <2>2, Countable
<1>5. f \in Injection(N, 0..Rank(j))
  BY <1>3, <1>4 DEF Injection, IsInjective
<1>6. IsFiniteSet(0..Rank(j)) /\ Cardinality(0..Rank(j)) = Rank(j) + 1
  BY Countable, FS_Interval
<1>7. f \in Surjection(N, 0..Rank(j))
  BY <1>2, <1>5, <1>6, FS_Injection
<1>8. o \in 0..Rank(j)
  BY Countable
<1>9. PICK k \in N : f[k] = o
  BY <1>7, <1>8 DEF Surjection
<1>10. k \in Stored /\ Cardinality({l \in Stored : Older(k, l)}) = o
  BY <1>1, <1>9 DEF Rank, Newer
<1>11. o \in o..(o + Limit - 1)
  BY LimitAssumption
<1> QED
  BY <1>10, <1>11 DEF Page
-----------------------------------------------------------------------------
(* What the writers do to the list.                                        *)

\* Rows are added at its new end, and they expire from the old one.
LEMMA ListGrows ==
  Inv /\ [Next]_vars =>
    /\ Len(created) <= Len(created') /\ \A i \in 1..Len(created) : created'[i] = created[i]
    /\ aged <= aged'
<1> SUFFICES ASSUME Inv, [Next]_vars
             PROVE  /\ Len(created) <= Len(created')
                    /\ \A i \in 1..Len(created) : created'[i] = created[i]
                    /\ aged <= aged'
  OBVIOUS
<1>1. created \in Seq(Jobs) /\ Len(created) \in Nat /\ aged \in Nat
  BY DEF Inv, TypeOK
<1>2. CASE UNCHANGED <<created, aged>>
  BY <1>1, <1>2
<1>3. ASSUME NEW u \in Uploads, CheckBacklog(u) \/ SavePdf(u) \/ UploadFails(u)
      PROVE  UNCHANGED <<created, aged>>
  BY <1>3 DEF CheckBacklog, SavePdf, UploadFails
<1>4. ASSUME NEW u \in Uploads, InsertJob(u)
      PROVE  /\ Len(created) <= Len(created') /\ aged' = aged
             /\ \A i \in 1..Len(created) : created'[i] = created[i]
  <2>1. upload[u].job \in Jobs /\ created' = Append(created, upload[u].job) /\ aged' = aged
    BY <1>4 DEF InsertJob, Inv, TypeOK
  <2> QED
    BY <1>1, <2>1
<1>5. ASSUME NEW j \in Jobs,
             \/ ClaimJob(j) \/ StartJob(j) \/ SettleJob(j) \/ RequeueJob(j)
             \/ LateError(j) \/ DeleteFile(j) \/ DeleteFileFails(j)
      PROVE  UNCHANGED <<created, aged>>
  BY <1>5 DEF ClaimJob, StartJob, SettleJob, RequeueJob, LateError, DeleteFile, DeleteFileFails
<1>6. ASSUME NEW h \in Handlers, (\E j \in Jobs : RetryLoad(h, j)) \/ RetryCommit(h) \/ RetryFails(h)
      PROVE  UNCHANGED <<created, aged>>
  BY <1>6 DEF RetryLoad, RetryCommit, RetryFails
<1>7. ASSUME Expire PROVE created' = created /\ aged' = aged + 1
  BY <1>7 DEF Expire
<1>8. ASSUME StartCleanup \/ SelectBatch \/ CommitBatch \/ CleanupDies
      PROVE  UNCHANGED <<created, aged>>
  BY <1>8 DEF StartCleanup, SelectBatch, CommitBatch, CleanupDies
<1>9. CASE UNCHANGED vars
  BY <1>2, <1>9 DEF vars
<1> QED
  BY <1>1, <1>2, <1>3, <1>4, <1>5, <1>6, <1>7, <1>8, <1>9 DEF Next

\* What has expired stays expired.  The rows before one that has not have not
\* expired either, so none of them is deleted: a row moves down the list only.
LEMMA RowsMoveDown ==
  ASSUME Inv, Inv', [Next]_vars, NEW j \in Jobs
  PROVE  /\ j \in Aged => j \in Aged'
         /\ j \in Stored /\ j \notin Aged' => j \in Stored' /\ Rank(j) <= Rank(j)'
<1>1. /\ DOMAIN created = 1..Len(created) /\ Len(created) \in Nat /\ aged \in 0..Len(created)
      /\ Range(created) = {k \in Jobs : row[k] # "none"}
  BY DEF Inv, TypeOK
<1>2. /\ DOMAIN created' = 1..Len(created') /\ Len(created') \in Nat /\ aged' \in 0..Len(created')
      /\ Range(created') = {k \in Jobs : row'[k] # "none"}
      /\ \A a, b \in DOMAIN created' : created'[a] = created'[b] => a = b
  BY DEF Inv, TypeOK, IsInjective
<1>3. /\ Len(created) <= Len(created') /\ \A i \in 1..Len(created) : created'[i] = created[i]
      /\ aged <= aged'
  BY ListGrows
<1>4. j \in Aged => j \in Aged'
  <2> SUFFICES ASSUME j \in Aged PROVE j \in Aged'
    OBVIOUS
  <2>1. PICK i \in 1..aged : created[i] = j
    BY DEF Aged
  <2>2. i \in 1..aged' /\ created'[i] = j
    BY <1>1, <1>2, <1>3, <2>1
  <2> QED
    BY <2>2 DEF Aged
<1>5. \A k \in Stored : k \notin Aged' => k \in Stored'
  <2> SUFFICES ASSUME NEW k \in Stored, k \notin Aged' PROVE k \in Stored'
    OBVIOUS
  <2>1. k \in Jobs /\ k \in Range(created)
    BY <1>1 DEF Stored
  <2>2. PICK i \in 1..Len(created) : created[i] = k
    BY <1>1, <2>1 DEF Range
  <2>3. i \in DOMAIN created' /\ created'[i] = k
    BY <1>1, <1>2, <1>3, <2>2
  <2>4. k \in Range(created')
    BY <2>3 DEF Range
  <2>5. row'[k] # "none"
    BY <1>2, <2>4
  <2>6. row'[k] # "deleted"
    BY <2>1, <2>5 DEF Inv, RetentionKept
  <2> QED
    BY <2>1, <2>5, <2>6 DEF Stored
<1>6. ASSUME j \in Stored, j \notin Aged' PROVE j \in Stored' /\ Rank(j) <= Rank(j)'
  <2>1. \A k \in Newer(j) : k \in Newer(j)'
    <3> SUFFICES ASSUME NEW k \in Newer(j) PROVE k \in Newer(j)'
      OBVIOUS
    <3>1. k \in Stored /\ Older(j, k)
      BY DEF Newer
    <3>2. PICK a \in DOMAIN created, b \in DOMAIN created :
            a < b /\ created[a] = j /\ created[b] = k
      BY <3>1 DEF Older
    <3>3. /\ a \in DOMAIN created' /\ b \in DOMAIN created' /\ a < b
          /\ created'[a] = j /\ created'[b] = k
      BY <1>1, <1>2, <1>3, <3>2
    <3>4. a \notin 1..aged'
      BY <1>6, <3>3 DEF Aged
    <3>5. k \notin Aged'
      <4> SUFFICES ASSUME NEW i \in 1..aged', created'[i] = k PROVE FALSE
        BY DEF Aged
      <4>1. i = b
        BY <1>2, <3>3
      <4> QED
        BY <1>1, <1>2, <3>3, <3>4, <4>1
    <3>6. Older(j, k)'
      BY <3>3 DEF Older
    <3> QED
      BY <1>5, <3>1, <3>5, <3>6 DEF Newer
  <2>2. Newer(j) \subseteq Newer(j)'
    BY <2>1
  <2>3. IsFiniteSet(Newer(j)')
    BY CountableNext
  <2>4. Cardinality(Newer(j)) <= Cardinality(Newer(j)')
    BY <2>2, <2>3, FS_Subset
  <2> QED
    BY <1>5, <1>6, <2>4 DEF Rank
<1> QED
  BY <1>4, <1>6
-----------------------------------------------------------------------------
(* The walk.                                                               *)

LEMMA ReadsInvInit == ReadsInit => ReadsInv
BY DEF ReadsInit, NoListing, ReadsInv, ListingType, WatchAhead, ListingMissesNone

LEMMA StartAhead == Inv /\ ReadsInv /\ StartListing => ReadsInv'
<1> SUFFICES ASSUME Inv, ReadsInv, StartListing PROVE ReadsInv'
  OBVIOUS
<1>1. PICK j \in Stored : listing' = [step |-> "walking", offset |-> 0, watch |-> j]
  BY DEF StartListing
<1>2. j \in Jobs /\ Rank(j) \in Nat
  BY Countable DEF Stored
<1>3. Stored' = Stored /\ Rank(j)' = Rank(j)
  BY DEF StartListing, vars, Stored, Rank, Newer, Older
<1> QED
  BY <1>1, <1>2, <1>3 DEF ReadsInv, ListingType, WatchAhead, ListingMissesNone

LEMMA PageAhead == Inv /\ ReadsInv /\ NextPage => ReadsInv'
<1> SUFFICES ASSUME Inv, ReadsInv, NextPage PROVE ReadsInv'
  OBVIOUS
<1> DEFINE w == listing.watch
           o == listing.offset
<1>1. Aged' = Aged /\ Stored' = Stored /\ \A j : Rank(j)' = Rank(j)
  BY DEF NextPage, vars, Aged, Stored, Rank, Newer, Older
<1>2. /\ listing.step = "walking" /\ ListingType /\ o \in Nat /\ Limit \in Nat
      /\ w \in Aged \/ (w \in Stored /\ o <= Rank(w))
  BY LimitAssumption DEF NextPage, ReadsInv, ListingType, WatchAhead
<1>3. CASE w \in Page(o)
  <2>1. listing' = NoListing
    BY <1>3 DEF NextPage
  <2> QED
    BY <2>1 DEF NoListing, ReadsInv, ListingType, WatchAhead, ListingMissesNone
<1>4. CASE w \notin Page(o) /\ Page(o) = {}
  <2>1. listing' = [listing EXCEPT !.step = "missed", !.offset = 0]
    BY <1>4 DEF NextPage
  <2>2. w \in Aged
    BY <1>2, <1>4, PageReached
  <2> QED
    BY <1>1, <1>2, <2>1, <2>2 DEF ReadsInv, ListingType, WatchAhead, ListingMissesNone
<1>5. CASE w \notin Page(o) /\ Page(o) # {}
  <2>1. listing' = [listing EXCEPT !.offset = @ + Limit]
    BY <1>5 DEF NextPage
  <2>2. w \in Stored /\ o <= Rank(w) => o + Limit <= Rank(w)
    <3> SUFFICES ASSUME w \in Stored, o <= Rank(w) PROVE o + Limit <= Rank(w)
      OBVIOUS
    <3>1. Rank(w) \notin o..(o + Limit - 1)
      BY <1>5 DEF Page, Rank, Newer
    <3> QED
      BY <1>2, <3>1, Countable
  <2>3. /\ listing'.step = "walking" /\ listing'.offset = o + Limit /\ listing'.watch = w
        /\ ListingType'
    BY <1>2, <2>1 DEF ListingType
  <2> QED
    BY <1>1, <1>2, <2>2, <2>3 DEF ReadsInv, WatchAhead, ListingMissesNone
<1> QED
  BY <1>3, <1>4, <1>5

LEMMA WritersBehind == Inv /\ Inv' /\ ReadsInv /\ [Next]_vars /\ UNCHANGED listing => ReadsInv'
<1> SUFFICES ASSUME Inv, Inv', ReadsInv, [Next]_vars, UNCHANGED listing PROVE ReadsInv'
  OBVIOUS
<1> DEFINE w == listing.watch
<1>1. \A j \in Jobs : j \in Aged => j \in Aged'
  BY RowsMoveDown
<1>2. Aged \subseteq Jobs
  BY DEF Aged, Inv, TypeOK
<1>3. ListingType'
  BY DEF ReadsInv, ListingType
<1>4. ListingMissesNone'
  BY <1>1, <1>2 DEF ReadsInv, ListingMissesNone
<1>5. WatchAhead'
  <2> SUFFICES ASSUME listing.step = "walking", w \notin Aged'
               PROVE  w \in Stored' /\ listing.offset <= Rank(w)'
    BY DEF WatchAhead
  <2>1. w \in Stored /\ w \in Jobs /\ listing.offset <= Rank(w) /\ listing.offset \in Nat
    BY <1>1, <1>2 DEF ReadsInv, WatchAhead, ListingType, Stored
  <2>2. w \in Stored' /\ Rank(w) <= Rank(w)'
    BY <2>1, RowsMoveDown
  <2>3. Rank(w) \in Nat
    BY Countable
  <2>4. Rank(w)' \in Nat
    BY CountableNext
  <2> QED
    BY <2>1, <2>2, <2>3, <2>4
<1> QED
  BY <1>3, <1>4, <1>5 DEF ReadsInv

\* Reading changes nothing: the writers are those of Documents.
LEMMA WritersKept == ReadsSpec => Spec
<1>1. ReadsInit => Init
  BY DEF ReadsInit
<1>2. [ReadsNext]_readVars => [Next]_vars
  BY DEF ReadsNext, readVars, StartListing, NextPage
<1> QED
  BY <1>1, <1>2, PTL DEF ReadsSpec, Spec

\* Uploads between two pages make a client see rows twice, but deletions
\* never pass over one that is within its retention and was stored when the
\* walk began.
THEOREM NoneMissed == ReadsSpec => []ListingMissesNone
<1>1. ReadsSpec => []Inv
  BY WritersKept, InvAlways, PTL
<1>2. Inv /\ Inv' /\ ReadsInv /\ [ReadsNext]_readVars => ReadsInv'
  <2> SUFFICES ASSUME Inv, Inv', ReadsInv, [ReadsNext]_readVars PROVE ReadsInv'
    OBVIOUS
  <2>1. CASE Next /\ UNCHANGED listing
    BY <2>1, WritersBehind
  <2>2. CASE UNCHANGED readVars
    BY <2>2, WritersBehind DEF readVars
  <2> QED
    BY <2>1, <2>2, StartAhead, PageAhead DEF ReadsNext
<1>3. ReadsInv => ListingMissesNone
  BY DEF ReadsInv
<1> QED
  BY <1>1, <1>2, <1>3, ReadsInvInit, PTL DEF ReadsSpec
=============================================================================
