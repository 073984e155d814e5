----------------------------- MODULE ReposProofs ------------------------------
(***************************************************************************)
(* Proofs about the repositories of the hub: the import jobs of one and    *)
(* the registry of all.                                                    *)
(*                                                                         *)
(* Import jobs: what a cursor says has been mirrored is among the rows,    *)
(* for the cursor in the job's row and for the one in the memory of the    *)
(* process that runs it, which may count the rows it is about to commit.   *)
(*                                                                         *)
(* The registry: a mirror a row points to exists on the forge, so no other *)
(* row is given its name; and what a client that pages through a list has  *)
(* not seen yet lies behind the pages it has read.                         *)
(***************************************************************************)
EXTENDS MCRepos, FiniteSetTheorems, TLAPS

LEMMA Greatest ==
    ASSUME NEW n \in Nat, NEW S \in SUBSET (0 .. n), S # {}
    PROVE  \E m \in S : \A x \in S : x <= m
<1> DEFINE R == {p \in Nat \X Nat : p[1] < p[2]}
           T == {n - x : x \in S}
<1>1. IsWellFoundedOn(R, Nat)
  BY NatLessThanWellFounded DEF OpToRel
<1> HIDE DEF R
<1>2. T \subseteq Nat /\ T # {}
  <2>1. \A x \in S : x \in 0 .. n /\ n - x \in Nat
    OBVIOUS
  <2> QED BY <2>1
<1> HIDE DEF T
<1>3. PICK t \in T : \A y \in T : ~(<<y, t>> \in R)
  BY <1>1, <1>2, WFMin
<1>4. PICK m \in S : t = n - m
  BY DEF T
<1>5. ASSUME NEW x \in S PROVE x <= m
  <2>1. n - x \in T /\ ~(n - x < t)
    BY <1>2, <1>3 DEF R, T
  <2> QED BY <1>4, <2>1
<1> QED BY <1>5

LEMMA MaxIs ==
    ASSUME NEW S \in SUBSET Int, NEW m \in S, \A x \in S : x <= m
    PROVE  Max(S) = m
<1>1. Max(S) \in S /\ \A y \in S : Max(S) >= y
  BY DEF Max
<1>2. Max(S) >= m /\ Max(S) <= m /\ Max(S) \in Int
  BY <1>1
<1> QED BY <1>2

LEMMA MinIs ==
    ASSUME NEW S \in SUBSET Int, NEW m \in S, \A x \in S : m <= x
    PROVE  Min(S) = m
<1>1. Min(S) \in S /\ \A y \in S : Min(S) <= y
  BY DEF Min
<1>2. Min(S) >= m /\ Min(S) <= m /\ Min(S) \in Int
  BY <1>1
<1> QED BY <1>2

LEMMA MaxOfTwo ==
    ASSUME NEW a \in Int, NEW b \in Int
    PROVE  Max({a, b}) = IF a >= b THEN a ELSE b
<1>1. CASE a >= b
  BY <1>1, MaxIs
<1>2. CASE ~(a >= b)
  BY <1>2, MaxIs
<1> QED BY <1>1, <1>2

LEMMA MinOfTwo ==
    ASSUME NEW a \in Int, NEW b \in Int
    PROVE  Min({a, b}) = IF a <= b THEN a ELSE b
<1>1. CASE a <= b
  BY <1>1, MinIs
<1>2. CASE ~(a <= b)
  BY <1>2, MinIs
<1> QED BY <1>1, <1>2

-----------------------------------------------------------------------------
(* The import jobs of one repository.                                     *)

Cursor == [phase : Phases, number : Nat, page : Nat \ {0}, seen : Nat, stored : 0 .. MaxIssues,
           commits : 0 .. MaxCommits, partial : BOOLEAN, polls : 0 .. PollAttempts, git : BOOLEAN,
           policy_read : BOOLEAN, include : {"none", "issues", "all"}]
JobRow == [status : {"none", "queued", "running", "failed", "done"}, cursor : Cursor, before : Nat]
Resting == {"idle", "add", "reuse"}
RunnerRow == [pc : Resting \cup {"step", "write", "migrated", "upsert", "mirrored", "index", "indexed"},
              cursor : Cursor, rows : SUBSET Nat, new : SUBSET Nat,
              policy : {"", "unset", "default", "file"}]

\* What a cursor says has been mirrored is among the rows.
CursorSound(c, n, before, held, read) ==
    /\ c.seen <= n /\ c.number <= n
    /\ ~c.partial => Wanted(c, c.seen) \cup Wanted(c, c.number) \subseteq held
    /\ ~c.partial /\ c.phase \in {"index_commits", "done"} => Wanted(c, before) \subseteq held
    /\ c.phase # "done" => ~c.git /\ c.commits = (c.page - 1) * Size /\ 1 .. c.commits \subseteq read
    /\ ~c.partial /\ c.phase = "done" => 1 .. Commits \subseteq read

Owned(rp, policy) == policy = "unset" <=> rp.kind = "upstream"

JobSound(w, f, rp, iss, com) ==
    /\ CursorSound(w.cursor, f.issues, w.before, iss, com)
    /\ w.before <= f.issues
    /\ w.status # "none" => rp.row
    /\ w.status = "done" => w.cursor.phase = "done"
    /\ w.cursor.policy_read => Owned(rp, rp.policy)

\* The rows a runner is about to commit count for its own cursor only.
Pending(r, pc) == IF r.pc = pc THEN r.rows ELSE {}
RunnerSound(r, w, f, rp, iss, com) ==
    /\ CursorSound(r.cursor, f.issues, w.before, iss \cup Pending(r, "upsert"), com \cup Pending(r, "index"))
    /\ r.pc \notin Resting => w.status = "running"
    /\ r.pc = "migrated" => f.migration # "none" /\ r.cursor.phase = "migrate"
    /\ r.pc \in {"upsert", "mirrored"} => r.cursor.phase \in {"mirror_issues", "index_commits"}
    /\ Pending(r, "upsert") \subseteq 1 .. f.issues
    /\ Pending(r, "index") \subseteq (1 .. Commits) \cap (1 .. MaxCommits)
    /\ r.policy # "" => r.pc \in {"index", "indexed"} /\ Owned(rp, r.policy)
    /\ r.cursor.policy_read /\ r.policy = "" => Owned(rp, rp.policy)

HubSound(f, rp, iss, com) ==
    /\ f \in [migration : {"none", "running", "finished"}, issues : 0 .. LastIssues]
    /\ rp \in Repo
    /\ rp.forgejo => rp.row /\ f.migration # "none"
    /\ iss \subseteq 1 .. LastIssues
    /\ com \subseteq (1 .. Commits) \cap (1 .. MaxCommits)

ImportSound ==
    /\ HubSound(forge, repo, issues, commits)
    /\ job \in [Jobs -> JobRow] /\ runner \in [Jobs -> RunnerRow]
    /\ \A j \in Jobs : /\ JobSound(job[j], forge, repo, issues, commits)
                       /\ RunnerSound(runner[j], job[j], forge, repo, issues, commits)

\* What no step takes back.
Grows(f, rp, iss, com, f2, rp2, iss2, com2) ==
    /\ f.issues <= f2.issues /\ (f.migration # "none" => f2.migration # "none")
    /\ (rp.row => rp2.row) /\ rp2.kind = rp.kind
    /\ (Owned(rp, rp.policy) => Owned(rp2, rp2.policy))
    /\ iss \subseteq iss2 /\ com \subseteq com2
-----------------------------------------------------------------------------
(* Pages, and the rows there is room for.                                  *)

LEMMA Block ==
    ASSUME NEW k \in Nat \ {0}, NEW b \in Nat
    PROVE  (k - 1) \div Size = b <=> b * Size < k /\ k <= (b + 1) * Size
<1> DEFINE q == (k - 1) \div Size
<1>1. Size \in Nat \ {0}
  BY RepoImportAssumption
<1>2. q \in Nat /\ q * Size <= k - 1 /\ k - 1 < (q + 1) * Size
  BY <1>1
<1> HIDE DEF q
<1>3. CASE q = b
  <2>1. b * Size \in Int /\ (b + 1) * Size \in Int
    BY <1>1
  <2> QED BY <1>2, <1>3, <2>1 DEF q
<1>4. CASE q < b
  <2>1. (q + 1) * Size <= b * Size /\ b * Size \in Int /\ (q + 1) * Size \in Int
    BY <1>1, <1>2, <1>4
  <2> QED BY <1>2, <1>4, <2>1 DEF q
<1>5. CASE q > b
  <2>1. (b + 1) * Size <= q * Size /\ (b + 1) * Size \in Int /\ q * Size \in Int
    BY <1>1, <1>2, <1>5
  <2> QED BY <1>2, <1>5, <2>1 DEF q
<1> QED BY <1>2, <1>3, <1>4, <1>5

LEMMA Euclid ==
    ASSUME NEW s \in Nat, NEW z \in Nat \ {0}
    PROVE  s = z * (s \div z) + (s % z) /\ s % z \in Nat /\ s \div z \in Nat
<1>1. s = z * (s \div z) + (s % z)
  BY Z3
<1>2. s % z \in Nat /\ s \div z \in Nat
  OBVIOUS
<1> QED BY <1>1, <1>2

LEMMA Offset ==
    ASSUME NEW k \in Nat \ {0}, NEW s \in Nat, (k - 1) \div Size = s \div Size
    PROVE  (k - 1) % Size >= s % Size <=> k > s
<1>1. Size \in Nat \ {0} /\ k - 1 \in Nat
  BY RepoImportAssumption
<1>2. s = Size * (s \div Size) + (s % Size) /\ s % Size \in Nat /\ s \div Size \in Nat
  BY <1>1, Euclid
<1>3. k - 1 = Size * ((k - 1) \div Size) + ((k - 1) % Size) /\ (k - 1) % Size \in Nat
  BY <1>1, Euclid
<1> DEFINE u == Size * (s \div Size)
           v == s % Size
           w == (k - 1) % Size
<1>4. u \in Int /\ s = u + v /\ v \in Nat /\ w \in Nat /\ k - 1 = u + w
  BY <1>1, <1>2, <1>3
<1> HIDE DEF u, v, w
<1>5. w >= v <=> k > s
  BY <1>4
<1> QED BY <1>5 DEF v, w

LEMMA Bounded ==
    ASSUME NEW n \in Nat, NEW S \in SUBSET (1 .. n)
    PROVE  IsFiniteSet(S) /\ Cardinality(S) \in Nat /\ Cardinality(S) <= n
<1>1. IsFiniteSet(1 .. n) /\ Cardinality(1 .. n) = n
  BY FS_Interval
<1> QED BY <1>1, FS_Subset, FS_CardinalityType

\* Numbers between two bounds.
LEMMA Between ==
    ASSUME NEW a \in Nat, NEW b \in Nat, a <= b, NEW S \in SUBSET ((a + 1) .. b)
    PROVE  IsFiniteSet(S) /\ Cardinality(S) \in Nat /\ Cardinality(S) <= b - a
<1> DEFINE l == a + 1
<1>1. IsFiniteSet(l .. b) /\ Cardinality(l .. b) = IF l > b THEN 0 ELSE b - l + 1
  BY FS_Interval
<1>2. Cardinality(l .. b) = b - a
  BY <1>1
<1>3. IsFiniteSet(S) /\ Cardinality(S) <= Cardinality(l .. b)
  BY <1>1, FS_Subset
<1>4. Cardinality(S) \in Nat
  BY <1>3, FS_CardinalityType
<1> QED BY <1>2, <1>3, <1>4

LEMMA SmallestAll ==
    ASSUME NEW n \in Nat, NEW S \in SUBSET (1 .. n), NEW m \in Nat, Cardinality(S) <= m
    PROVE  Smallest(S, m) = S
<1> SUFFICES ASSUME NEW x \in S PROVE Cardinality({y \in S : y < x}) < m
  BY DEF Smallest
<1> DEFINE B == {y \in S : y < x}
<1>1. IsFiniteSet(S)
  BY Bounded
<1>2. B \in SUBSET S /\ x \notin B /\ x \in S
  OBVIOUS
<1> HIDE DEF B
<1>3. Cardinality(B) <= Cardinality(S) /\ (Cardinality(S) = Cardinality(B) => S = B) /\ IsFiniteSet(B)
  BY <1>1, <1>2, FS_Subset
<1>4. Cardinality(S) \in Nat /\ Cardinality(B) \in Nat
  BY <1>1, <1>3, FS_CardinalityType
<1>5. Cardinality(B) < m
  BY <1>2, <1>3, <1>4
<1> QED BY <1>5 DEF B

LEMMA SmallestFits ==
    ASSUME NEW n \in Nat, NEW S \in SUBSET (1 .. n), NEW m \in Nat
    PROVE  /\ Smallest(S, m) \subseteq S /\ IsFiniteSet(Smallest(S, m))
           /\ Cardinality(Smallest(S, m)) \in Nat /\ Cardinality(Smallest(S, m)) <= m
<1> DEFINE T == Smallest(S, m)
<1>1. T \in SUBSET S /\ T \in SUBSET (1 .. n) /\ \A x \in T : Cardinality({y \in S : y < x}) < m
  BY DEF Smallest
<1> HIDE DEF T
<1>2. IsFiniteSet(T) /\ Cardinality(T) \in Nat
  BY <1>1, Bounded
<1>3. Cardinality(T) <= m
  <2>1. CASE T = {}
    BY <2>1, FS_EmptySet
  <2>2. CASE T # {}
    <3>1. T \in SUBSET (0 .. n)
      BY <1>1
    <3>2. PICK x \in T : \A y \in T : y <= x
      BY <2>2, <3>1, Greatest
    <3> DEFINE B == {y \in S : y < x}
    <3>3. Cardinality(B) < m
      BY <1>1
    <3>9. B \in SUBSET S
      OBVIOUS
    <3>8. B \in SUBSET (1 .. n) /\ x \in Int
      <4> HIDE DEF B
      <4> QED BY <1>1, <3>9
    <3>4. T \subseteq B \cup {x} /\ x \notin B
      BY <1>1, <3>2, <3>8
    <3> HIDE DEF B
    <3>5. IsFiniteSet(B) /\ Cardinality(B) \in Nat
      BY <3>8, Bounded
    <3>6. IsFiniteSet(B \cup {x}) /\ Cardinality(B \cup {x}) = Cardinality(B) + 1
      BY <3>4, <3>5, FS_AddElement
    <3>7. Cardinality(T) <= Cardinality(B \cup {x})
      BY <3>4, <3>6, FS_Subset
    <3> QED BY <1>2, <3>3, <3>5, <3>6, <3>7
  <2> QED BY <2>1, <2>2
<1> QED BY <1>1, <1>2, <1>3 DEF T

\* Of consecutive numbers the smallest come first.
LEMMA SmallestFirst ==
    ASSUME NEW a \in Nat, NEW b \in Nat, NEW m \in Nat, NEW l, l = a + 1
    PROVE  Smallest(l .. b, m) = {x \in l .. b : x <= a + m}
<1>1. l \in Int
  OBVIOUS
<1>2. ASSUME NEW x \in l .. b PROVE Cardinality({y \in l .. b : y < x}) = x - l
  <2>1. {y \in l .. b : y < x} = l .. (x - 1)
    BY <1>1
  <2> DEFINE r == x - 1
  <2>2. r \in Int /\ r - l + 1 = x - l /\ (l > r => x - l = 0)
    BY <1>1
  <2> HIDE DEF r
  <2>3. Cardinality(l .. r) = IF l > r THEN 0 ELSE r - l + 1
    BY <1>1, <2>2, FS_Interval
  <2> QED BY <2>1, <2>2, <2>3 DEF r
<1>3. ASSUME NEW x \in l .. b PROVE Cardinality({y \in l .. b : y < x}) < m <=> x <= a + m
  <2>1. Cardinality({y \in l .. b : y < x}) = x - l
    BY <1>2
  <2> QED BY <1>1, <2>1
<1> QED BY <1>3 DEF Smallest

-----------------------------------------------------------------------------
(* A page of issues.                                                       *)

BlockEnd(c) == (c.seen \div Size + 1) * Size

LEMMA IssuePage ==
    ASSUME NEW c \in Cursor, forge.issues \in Nat
    PROVE  /\ BlockEnd(c) \in Nat /\ c.seen < BlockEnd(c)
           /\ stream_issues(c) = {i \in 1 .. forge.issues : i > c.seen /\ i > c.number /\ i <= BlockEnd(c)}
           /\ ~More(c) => forge.issues < BlockEnd(c)
<1>1. Size \in Nat \ {0} /\ c.seen \in Nat /\ c.number \in Nat
  BY RepoImportAssumption DEF Cursor
<1>2. PICK s : s = c.seen
  OBVIOUS
<1>3. PICK q : q = s \div Size
  OBVIOUS
<1>4. PICK e : e = (q + 1) * Size
  OBVIOUS
<1>5. PICK n : n = forge.issues
  OBVIOUS
<1>6. s \in Nat /\ n \in Nat /\ q \in Nat /\ q * Size <= s /\ s < e
  BY <1>1, <1>2, <1>3, <1>4, <1>5
<1>7. BlockEnd(c) = e
  BY <1>2, <1>3, <1>4 DEF BlockEnd
<1>8. e \in Nat /\ q * Size \in Nat /\ e = q * Size + Size
  BY <1>1, <1>4, <1>6
<1>9. ASSUME NEW i \in 1 .. n PROVE (i - 1) \div Size = q <=> q * Size < i /\ i <= e
  <2>1. i \in Nat \ {0}
    OBVIOUS
  <2> QED BY <1>4, <1>6, <2>1, Block
<1>10. RawPage(c.seen) = {i \in 1 .. n : q * Size < i /\ i <= e}
  <2>1. RawPage(c.seen) = {i \in 1 .. n : (i - 1) \div Size = q}
    BY <1>2, <1>3, <1>5 DEF RawPage
  <2> QED BY <1>9, <2>1
<1>11. stream_issues(c) = {i \in 1 .. n : i > s /\ i > c.number /\ i <= e}
  <2>1. ASSUME NEW i \in 1 .. n, q * Size < i, i <= e PROVE (i - 1) % Size >= s % Size <=> i > s
    <3>1. i \in Nat \ {0} /\ (i - 1) \div Size = s \div Size
      BY <1>3, <1>9, <2>1
    <3> QED BY <1>6, <3>1, Offset
  <2>2. stream_issues(c) = {i \in {k \in 1 .. n : q * Size < k /\ k <= e} : (i - 1) % Size >= s % Size /\ i > c.number}
    BY <1>2, <1>10 DEF stream_issues
  <2>3. \A i \in 1 .. n : i > s => q * Size < i
    BY <1>6, <1>8
  <2> QED BY <2>1, <2>2, <2>3
<1>12. ASSUME n >= e PROVE More(c)
  <2> DEFINE l == q * Size + 1
             B == l .. e
             R == RawPage(c.seen)
  <2>1. B \subseteq R
    BY <1>6, <1>8, <1>10, <1>12
  <2>2. l \in Int /\ e \in Int /\ l <= e /\ e - l + 1 = Size
    BY <1>1, <1>8
  <2>3. R \in SUBSET (1 .. n)
    BY <1>10
  <2> HIDE DEF l, R
  <2>4. Cardinality(B) = Size
    BY <2>2, FS_Interval
  <2> HIDE DEF B
  <2>5. IsFiniteSet(R) /\ Cardinality(R) \in Nat
    BY <1>6, <2>3, Bounded
  <2>6. Cardinality(B) <= Cardinality(R)
    BY <2>1, <2>5, FS_Subset
  <2>7. Cardinality(R) >= Size
    BY <1>1, <2>4, <2>5, <2>6
  <2> QED BY <2>7 DEF More, R
<1>13. ~More(c) => n < e
  BY <1>6, <1>8, <1>12
<1> QED BY <1>2, <1>5, <1>6, <1>7, <1>8, <1>11, <1>13

\* The rows of a page, and how far the cursor goes with it.
LEMMA PageKept ==
    ASSUME NEW c \in Cursor, forge.issues \in Nat, c.seen <= forge.issues, c.number <= forge.issues
    PROVE  /\ Kept(c) \subseteq stream_issues(c) /\ Cardinality(Kept(c)) \in Nat /\ c.stored + Cardinality(Kept(c)) <= MaxIssues
           /\ ~Overfull(c) => Kept(c) = Included(c)
           /\ Advanced(c).seen \in Nat /\ Advanced(c).seen <= forge.issues
           /\ Advanced(c).seen <= BlockEnd(c)
           /\ Advanced(c).number \in Nat /\ (Advanced(c).number = c.number \/ Advanced(c).number \in Kept(c))
<1> DEFINE P == stream_issues(c)
           e == BlockEnd(c)
           n == forge.issues
           k == Kept(c)
           p == Cardinality(P)
<1>1. Size \in Nat \ {0} /\ MaxIssues \in Nat /\ c.seen \in Nat /\ c.number \in Nat /\ c.stored \in Nat /\ c.stored <= MaxIssues
  BY RepoImportAssumption DEF Cursor
<1>2. /\ e \in Nat /\ c.seen < e
      /\ P = {i \in 1 .. n : i > c.seen /\ i > c.number /\ i <= e}
  BY IssuePage
<1>3. n \in Nat /\ c.seen <= n
  OBVIOUS
<1> HIDE DEF e, n, P
<1>4. IsFiniteSet(P) /\ p \in Nat /\ p <= n - c.seen /\ p <= e - c.seen
  <2>1. P \in SUBSET ((c.seen + 1) .. n) /\ P \in SUBSET ((c.seen + 1) .. e)
    BY <1>1, <1>2, <1>3
  <2>2. IsFiniteSet(P) /\ p \in Nat /\ p <= n - c.seen
    BY <1>1, <1>3, <2>1, Between
  <2>3. p <= e - c.seen
    BY <1>1, <1>2, <2>1, Between
  <2> QED BY <2>2, <2>3
<1>5. Room(c) \in Nat /\ c.stored + Room(c) <= MaxIssues
  BY <1>1 DEF Room
<1>6. Included(c) \in SUBSET (1 .. n) /\ Included(c) \subseteq P
  BY <1>2 DEF Included, P
<1>7. k \subseteq Included(c) /\ IsFiniteSet(k) /\ Cardinality(k) \in Nat /\ Cardinality(k) <= Room(c)
  BY <1>3, <1>5, <1>6, SmallestFits DEF Kept
<1>8. ~Overfull(c) => k = Included(c)
  <2> SUFFICES ASSUME ~Overfull(c) PROVE k = Included(c)
    OBVIOUS
  <2>1. Cardinality(Included(c)) \in Nat
    BY <1>3, <1>6, Bounded
  <2>2. Cardinality(Included(c)) <= Room(c)
    BY <1>5, <2>1 DEF Overfull
  <2> QED BY <1>3, <1>5, <1>6, <2>2, SmallestAll DEF Kept
<1> HIDE DEF k
<1>9. Advanced(c).seen \in Nat /\ c.seen <= Advanced(c).seen /\ Advanced(c).seen <= c.seen + p
  <2> DEFINE consumed == IF Overfull(c) THEN p ELSE IF More(c) THEN c.seen + p ELSE 0
             v == IF consumed = 0 THEN p ELSE consumed
  <2>1. Advanced(c).seen = Max({c.seen, v})
    BY DEF Advanced, Cursor, P
  <2>2. v \in Nat /\ v <= c.seen + p
    BY <1>1, <1>4
  <2> HIDE DEF v
  <2>3. Max({c.seen, v}) = IF c.seen >= v THEN c.seen ELSE v
    BY <1>1, <2>2, MaxOfTwo
  <2> QED BY <1>1, <1>4, <2>1, <2>2, <2>3
<1>10. Advanced(c).number \in Nat /\ (Advanced(c).number = c.number \/ Advanced(c).number \in k)
  <2> DEFINE v == Max0(k)
  <2>1. Advanced(c).number = Max({c.number, v})
    BY DEF Advanced, Cursor, k
  <2>2. v \in Nat /\ (v = 0 \/ v \in k)
    <3>1. CASE k = {}
      BY <3>1 DEF Max0
    <3>2. CASE k # {}
      <4>1. k \in SUBSET (0 .. n) /\ k \in SUBSET Int
        BY <1>3, <1>6, <1>7
      <4>2. PICK m \in k : \A x \in k : x <= m
        BY <1>3, <3>2, <4>1, Greatest
      <4>3. Max(k) = m
        BY <4>1, <4>2, MaxIs
      <4>4. v = m /\ m \in Nat
        BY <1>3, <3>2, <4>1, <4>3 DEF Max0
      <4> QED BY <4>2, <4>4
    <3> QED BY <3>1, <3>2
  <2> HIDE DEF v
  <2>3. Max({c.number, v}) = IF c.number >= v THEN c.number ELSE v
    BY <1>1, <2>2, MaxOfTwo
  <2> QED BY <1>1, <2>1, <2>2, <2>3
<1>11. Advanced(c).seen <= n /\ Advanced(c).seen <= e
  BY <1>1, <1>2, <1>3, <1>4, <1>9
<1>12. c.stored + Cardinality(k) <= MaxIssues
  BY <1>1, <1>5, <1>7
<1> QED BY <1>6, <1>7, <1>8, <1>9, <1>10, <1>11, <1>12 DEF P, e, n, k

\* The cursor a page leaves behind.
Turned(c) == [Advanced(c) EXCEPT !.phase = IF Overfull(c) \/ ~More(c) THEN "index_commits" ELSE @]

LEMMA PageTurned ==
    ASSUME NEW c \in Cursor, forge.issues \in Nat, NEW before \in Nat, before <= forge.issues, NEW held, NEW read,
           CursorSound(c, forge.issues, before, held, read), c.phase = "mirror_issues"
    PROVE  /\ Turned(c) \in Cursor /\ Turned(c).policy_read = c.policy_read
           /\ Turned(c).phase \in {"mirror_issues", "index_commits"}
           /\ CursorSound(Turned(c), forge.issues, before, held \cup Kept(c), read)
           /\ Kept(c) \subseteq 1 .. forge.issues
<1> DEFINE n == forge.issues
           a == Advanced(c)
           d == Turned(c)
           k == Kept(c)
           e == BlockEnd(c)
<1>1. c.seen \in Nat /\ c.number \in Nat /\ c.seen <= n /\ c.number <= n /\ n \in Nat
  BY DEF Cursor, CursorSound
<1>2. /\ k \subseteq stream_issues(c) /\ Cardinality(k) \in Nat /\ c.stored + Cardinality(k) <= MaxIssues
      /\ ~Overfull(c) => k = Included(c)
      /\ a.seen \in Nat /\ a.seen <= n /\ a.seen <= e
      /\ a.number \in Nat /\ (a.number = c.number \/ a.number \in k)
  BY <1>1, PageKept
<1>3. /\ e \in Nat /\ stream_issues(c) = {i \in 1 .. n : i > c.seen /\ i > c.number /\ i <= e}
      /\ ~More(c) => n < e
  BY IssuePage
<1>4. k \subseteq 1 .. n /\ \A i \in k : i <= e
  BY <1>2, <1>3
<1>5. /\ a \in [phase : Phases, number : Nat, page : Nat \ {0}, seen : Nat, stored : Nat,
                commits : 0 .. MaxCommits, partial : BOOLEAN, polls : 0 .. PollAttempts, git : BOOLEAN,
                policy_read : BOOLEAN, include : {"none", "issues", "all"}]
      /\ a.phase = c.phase /\ a.page = c.page /\ a.commits = c.commits /\ a.git = c.git
      /\ a.policy_read = c.policy_read /\ a.include = c.include
      /\ a.stored = c.stored + Cardinality(k) /\ a.partial = (c.partial \/ Overfull(c))
  <2> DEFINE num == a.number
             see == a.seen
             sto == c.stored + Cardinality(k)
             par == c.partial \/ Overfull(c)
  <2>1. a = [c EXCEPT !.stored = sto, !.partial = par, !.seen = see, !.number = num]
    BY DEF Advanced, Cursor
  <2>2. sto \in Nat /\ par \in BOOLEAN
    BY <1>2 DEF Cursor, Overfull
  <2>3. num \in Nat /\ see \in Nat
    BY <1>2
  <2> HIDE DEF num, see, sto, par, a
  <2>4. /\ a.phase = c.phase /\ a.page = c.page /\ a.commits = c.commits /\ a.git = c.git
        /\ a.policy_read = c.policy_read /\ a.include = c.include
        /\ a.stored = sto /\ a.partial = par
    BY <2>1 DEF Cursor
  <2>5. a \in [phase : Phases, number : Nat, page : Nat \ {0}, seen : Nat, stored : Nat,
                commits : 0 .. MaxCommits, partial : BOOLEAN, polls : 0 .. PollAttempts, git : BOOLEAN,
                policy_read : BOOLEAN, include : {"none", "issues", "all"}]
    BY <2>1, <2>2, <2>3 DEF Cursor
  <2> QED BY <2>4, <2>5 DEF sto, par
<1>6. a.stored \in 0 .. MaxIssues
  BY <1>2, <1>5, RepoImportAssumption
<1> HIDE DEF a
<1> DEFINE ph == IF Overfull(c) \/ ~More(c) THEN "index_commits" ELSE "mirror_issues"
<1>7. d = [a EXCEPT !.phase = ph]
  BY <1>5 DEF Turned, a
<1>8. ph \in {"mirror_issues", "index_commits"} /\ ph \in Phases /\ (ph = "index_commits" /\ ~Overfull(c) => n < e)
  BY <1>3 DEF Phases
<1> HIDE DEF ph, d, k, n, e
<1>9. d \in Cursor
  <2>1. a \in Cursor
    BY <1>5, <1>6 DEF Cursor
  <2> QED BY <1>7, <1>8, <2>1 DEF Cursor
<1>10. /\ d.phase = ph /\ d.page = c.page /\ d.commits = c.commits /\ d.git = c.git
       /\ d.policy_read = c.policy_read /\ d.include = c.include
       /\ d.partial = (c.partial \/ Overfull(c)) /\ d.seen = a.seen /\ d.number = a.number
  BY <1>5, <1>7
<1>11. ASSUME ~d.partial, NEW i \in 1 .. n, i <= e, c.include = "all" \/ (c.include = "issues" /\ i \notin PullRequests)
       PROVE  i \in held \cup k
  <2>1. ~c.partial /\ ~Overfull(c)
    BY <1>10, <1>11
  <2>2. CASE i <= c.seen
    <3>1. i \in Wanted(c, c.seen)
      BY <1>1, <1>11, <2>2 DEF Wanted
    <3> QED BY <2>1, <3>1 DEF CursorSound
  <2>3. CASE i <= c.number
    <3>1. i \in Wanted(c, c.number)
      BY <1>1, <1>11, <2>3 DEF Wanted
    <3> QED BY <2>1, <3>1 DEF CursorSound
  <2>4. CASE i > c.seen /\ i > c.number
    <3>1. i \in stream_issues(c)
      BY <1>3, <1>11, <2>4 DEF n, e
    <3>2. i \in Included(c)
      BY <1>11, <3>1 DEF Included
    <3> QED BY <1>2, <2>1, <3>2 DEF k
  <2> QED BY <1>1, <2>2, <2>3, <2>4
<1>12. ASSUME NEW m \in Nat, m <= n, m <= e, ~d.partial PROVE Wanted(d, m) \subseteq held \cup k
  <2> SUFFICES ASSUME NEW i \in Wanted(d, m) PROVE i \in held \cup k
    OBVIOUS
  <2>1. i \in 1 .. m /\ (c.include = "all" \/ (c.include = "issues" /\ i \notin PullRequests))
    BY <1>10 DEF Wanted
  <2>2. i \in 1 .. n /\ i <= e
    BY <1>1, <1>3, <1>12, <2>1 DEF n, e
  <2> QED BY <1>11, <1>12, <2>1, <2>2
<1>13. ~d.partial => Wanted(d, d.seen) \subseteq held \cup k
  BY <1>2, <1>10, <1>12 DEF a, n, e
<1>14. ~d.partial => Wanted(d, d.number) \subseteq held \cup k
  <2> SUFFICES ASSUME ~d.partial PROVE Wanted(d, d.number) \subseteq held \cup k
    OBVIOUS
  <2>1. CASE a.number \in k
    <3>1. a.number \in Nat /\ a.number <= n /\ a.number <= e
      BY <1>1, <1>4, <2>1 DEF k, n, e
    <3> QED BY <1>10, <1>12, <3>1
  <2>2. CASE a.number = c.number
    <3>1. Wanted(d, d.number) = Wanted(c, c.number) /\ ~c.partial
      BY <1>10, <2>2 DEF Wanted
    <3> QED BY <3>1 DEF CursorSound
  <2> QED BY <1>2, <2>1, <2>2 DEF a, k
<1>15. d.seen <= n /\ d.number <= n
  BY <1>1, <1>2, <1>4, <1>10 DEF a, k, n
<1>16. ~d.partial /\ d.phase \in {"index_commits", "done"} => Wanted(d, before) \subseteq held \cup k
  <2> SUFFICES ASSUME ~d.partial, d.phase \in {"index_commits", "done"} PROVE Wanted(d, before) \subseteq held \cup k
    OBVIOUS
  <2>1. n < e /\ n \in Nat /\ e \in Nat /\ before <= n
    BY <1>1, <1>3, <1>8, <1>10 DEF n, e
  <2>2. before <= e
    BY <2>1
  <2> QED BY <1>12, <2>1, <2>2
<1>17. d.phase # "done" => ~d.git /\ d.commits = (d.page - 1) * Size /\ 1 .. d.commits \subseteq read
  <2>1. ~c.git /\ c.commits = (c.page - 1) * Size /\ 1 .. c.commits \subseteq read
    BY DEF CursorSound
  <2> QED BY <1>10, <2>1
<1>18. d.phase # "done"
  BY <1>8, <1>10
<1>19. CursorSound(d, n, before, held \cup k, read)
  BY <1>13, <1>14, <1>15, <1>16, <1>17, <1>18 DEF CursorSound
<1> QED BY <1>4, <1>8, <1>9, <1>10, <1>19 DEF d, k, n

-----------------------------------------------------------------------------
(* A page of commits.                                                      *)

\* What is kept of the rows after the first b: all, when there is room for them.
RowsFollow(b, room, page, found, kept) ==
    /\ kept \subseteq (1 .. Commits) \cap (1 .. MaxCommits)
    /\ Cardinality(kept) \in Nat /\ b + Cardinality(kept) <= MaxCommits
    /\ page = {} /\ ~(Cardinality(found) > room) => 1 .. Commits \subseteq kept
    /\ page # {} /\ ~(Cardinality(found) > room) =>
         /\ \A i \in 1 .. Commits : b < i /\ i <= b + Size => i \in kept
         /\ Cardinality(page) >= Size => Cardinality(kept) = Size /\ b + Size <= Commits
         /\ ~(Cardinality(page) >= Size) => Commits < b + Size

\* The commits an answer and the room leave: the page, or the local mirror.
LEMMA CommitRows ==
    ASSUME NEW b \in Nat, NEW p \in Nat \ {0}, b = (p - 1) * Size, b <= MaxCommits,
           NEW room, room = IF b >= MaxCommits THEN 0 ELSE MaxCommits - b,
           NEW page, page = {} \/ page = ApiPage(p),
           NEW found, found = IF page = {} THEN stream(room + 1) ELSE page,
           NEW kept, kept = Smallest(found, room)
    PROVE  RowsFollow(b, room, page, found, kept)
<1>1. Size \in Nat \ {0} /\ MaxCommits \in Nat /\ Commits \in Nat
  BY RepoImportAssumption
<1>2. room \in Nat /\ b + room = MaxCommits
  BY <1>1
<1>3. kept = Smallest(found, room)
  OBVIOUS
<1>4. ASSUME NEW t \in Nat, found \in SUBSET (1 .. t) PROVE Cardinality(kept) \in Nat /\ Cardinality(kept) <= room
  BY ONLY <1>2, <1>3, <1>4, SmallestFits
<1>5. ASSUME page = {}, NEW r, r = room + 1, NEW t, t = IF Commits <= r THEN Commits ELSE r
      PROVE  /\ kept \subseteq (1 .. Commits) \cap (1 .. MaxCommits)
             /\ Cardinality(kept) \in Nat /\ Cardinality(kept) <= room
             /\ ~(Cardinality(found) > room) => 1 .. Commits \subseteq kept
  <2>1. r \in Nat /\ t \in Nat /\ t <= Commits
    BY <1>1, <1>2, <1>5
  <2>2. found = 1 .. t
    <3>1. found = Smallest(1 .. Commits, r)
      BY <1>5 DEF stream
    <3>2. 1 = 0 + 1 /\ 0 \in Nat
      OBVIOUS
    <3>3. Smallest(1 .. Commits, r) = {x \in 1 .. Commits : x <= 0 + r}
      BY ONLY <1>1, <2>1, <3>2, SmallestFirst
    <3>4. {x \in 1 .. Commits : x <= 0 + r} = 1 .. t
      BY ONLY <1>1, <1>5, <2>1
    <3> QED BY <3>1, <3>3, <3>4
  <2>3. kept = {x \in 1 .. t : x <= 0 + room}
    <3>1. 1 = 0 + 1 /\ 0 \in Nat
      OBVIOUS
    <3>2. kept = Smallest(1 .. t, room)
      BY <1>3, <2>2
    <3>3. Smallest(1 .. t, room) = {x \in 1 .. t : x <= 0 + room}
      BY ONLY <1>2, <2>1, <3>1, SmallestFirst
    <3> QED BY <3>2, <3>3
  <2>4. found \in SUBSET (1 .. t) /\ Cardinality(found) = t
    <3>1. 1 \in Int /\ t \in Int
      BY <2>1
    <3>2. Cardinality(1 .. t) = IF 1 > t THEN 0 ELSE t - 1 + 1
      BY <3>1, FS_Interval
    <3> QED BY <2>1, <2>2, <3>2
  <2>5. Cardinality(kept) \in Nat /\ Cardinality(kept) <= room
    BY <1>4, <2>1, <2>4
  <2>6. kept \subseteq (1 .. Commits) \cap (1 .. MaxCommits)
    BY <1>1, <1>2, <2>1, <2>3
  <2>7. ~(t > room) => 1 .. Commits \subseteq kept
    BY <1>1, <1>2, <1>5, <2>1, <2>3
  <2> QED BY <2>4, <2>5, <2>6, <2>7
<1>6. ASSUME page # {}, NEW t, t = IF Commits <= b + Size THEN Commits ELSE b + Size
      PROVE  /\ kept \subseteq (1 .. Commits) \cap (1 .. MaxCommits)
             /\ Cardinality(kept) \in Nat /\ Cardinality(kept) <= room /\ found = page
             /\ ~(Cardinality(found) > room) =>
                  /\ \A i \in 1 .. Commits : b < i /\ i <= b + Size => i \in kept
                  /\ Cardinality(page) >= Size => Cardinality(kept) = Size /\ b + Size <= Commits
                  /\ ~(Cardinality(page) >= Size) => Commits < b + Size
  <2>1. page = (b + 1) .. t
    <3>1. ASSUME NEW k \in 1 .. Commits PROVE (k - 1) \div Size = p - 1 <=> b < k /\ k <= b + Size
      <4> DEFINE q == p - 1
      <4>1. q \in Nat /\ k \in Nat \ {0}
        OBVIOUS
      <4> HIDE DEF q
      <4>2. (k - 1) \div Size = q <=> q * Size < k /\ k <= (q + 1) * Size
        BY <4>1, Block
      <4>3. q * Size = b /\ (q + 1) * Size = q * Size + Size
        BY <1>1, <4>1 DEF q
      <4> QED BY <4>2, <4>3 DEF q
    <3>2. page = {k \in 1 .. Commits : b < k /\ k <= b + Size}
      BY <1>6, <3>1 DEF ApiPage
    <3>3. {k \in 1 .. Commits : b < k /\ k <= b + Size} = (b + 1) .. t
      BY <1>1, <1>6
    <3> QED BY <3>2, <3>3
  <2>2. t \in Nat /\ t <= Commits /\ b + Size \in Nat
    BY <1>1, <1>6
  <2>3. b < t /\ found = page
    <3>1. PICK k : k \in page
      BY <1>6
    <3>2. b < t
      BY <2>1, <2>2, <3>1
    <3>3. found = page
      BY <1>6
    <3> QED BY <3>2, <3>3
  <2>4. PICK l : l = b + 1
    OBVIOUS
  <2>5. l \in Int /\ found = l .. t
    BY <2>1, <2>3, <2>4
  <2>6. kept = {x \in l .. t : x <= b + room}
    BY <1>2, <1>3, <2>2, <2>4, <2>5, SmallestFirst
  <2>7. Cardinality(found) = t - b
    <3>1. t \in Int /\ l <= t /\ t - l + 1 = t - b
      BY <2>2, <2>3, <2>4
    <3>2. Cardinality(l .. t) = IF l > t THEN 0 ELSE t - l + 1
      BY <2>5, <3>1, FS_Interval
    <3>3. ~(l > t)
      BY <2>5, <3>1
    <3> QED BY <2>5, <3>1, <3>2, <3>3
  <2>8. Cardinality(kept) \in Nat /\ Cardinality(kept) <= room
    <3>1. found \in SUBSET (1 .. t)
      BY <2>2, <2>4, <2>5
    <3> QED BY <1>4, <2>2, <3>1
  <2>9. kept \subseteq (1 .. Commits) \cap (1 .. MaxCommits)
    BY <1>1, <1>2, <2>2, <2>4, <2>6
  <2>10. ASSUME ~(t - b > room) PROVE kept = found
    <3>1. \A x \in l .. t : x <= b + room
      BY <1>2, <2>2, <2>5, <2>10
    <3> QED BY <2>5, <2>6, <3>1
  <2>11. t - b >= Size => t - b = Size /\ b + Size <= Commits
    BY <1>1, <1>6, <2>2
  <2>12. ~(t - b >= Size) => Commits < b + Size
    BY <1>1, <1>6, <2>2
  <2>13. \A i \in 1 .. Commits : b < i /\ i <= b + Size => i \in found
    BY <1>1, <1>6, <2>2, <2>4, <2>5
  <2> QED BY <2>3, <2>7, <2>8, <2>9, <2>10, <2>11, <2>12, <2>13
<1>7. /\ kept \subseteq (1 .. Commits) \cap (1 .. MaxCommits)
      /\ Cardinality(kept) \in Nat /\ Cardinality(kept) <= room
  BY <1>5, <1>6
<1>8. b + Cardinality(kept) <= MaxCommits
  BY <1>2, <1>7
<1> QED BY <1>5, <1>6, <1>7, <1>8 DEF RowsFollow

\* What an answer, or the local mirror, makes of the cursor.
CommitRoom(c) == IF c.commits >= MaxCommits THEN 0 ELSE MaxCommits - c.commits
PageOf(c, answered) == IF answered THEN ApiPage(c.page) ELSE {}
FallsBack(c, answered) == PageOf(c, answered) = {} /\ ~c.git
RowsOf(c, answered) == IF FallsBack(c, answered) THEN stream(CommitRoom(c) + 1) ELSE PageOf(c, answered)
KeptOf(c, answered) == Smallest(RowsOf(c, answered), CommitRoom(c))
HasNext(c, answered) == answered /\ Cardinality(PageOf(c, answered)) >= Size
CountOf(c, answered) == c.commits + Cardinality(KeptOf(c, answered))
IsFull(c, answered) == Cardinality(RowsOf(c, answered)) > CommitRoom(c)
IsDone(c, answered) ==
    ~HasNext(c, answered) \/ IsFull(c, answered) \/ FallsBack(c, answered) \/ CountOf(c, answered) >= MaxCommits
Indexed(c, answered) ==
    [c EXCEPT !.policy_read = TRUE, !.git = @ \/ FallsBack(c, answered), !.page = @ + 1,
              !.commits = CountOf(c, answered),
              !.partial = @ \/ IsFull(c, answered) \/ (IsDone(c, answered) /\ HasNext(c, answered)),
              !.phase = IF IsDone(c, answered) THEN "done" ELSE @]

LEMMA CommitsRead ==
    ASSUME NEW c \in Cursor, NEW n, NEW before, NEW held, NEW read,
           CursorSound(c, n, before, held, read), c.phase = "index_commits", NEW answered \in BOOLEAN
    PROVE  /\ Indexed(c, answered) \in Cursor
           /\ CursorSound(Indexed(c, answered), n, before, held, read \cup KeptOf(c, answered))
           /\ KeptOf(c, answered) \subseteq (1 .. Commits) \cap (1 .. MaxCommits)
<1> DEFINE room == CommitRoom(c)
           page == PageOf(c, answered)
           fallback == FallsBack(c, answered)
           found == RowsOf(c, answered)
           kept == KeptOf(c, answered)
           next == HasNext(c, answered)
           count == CountOf(c, answered)
           full == IsFull(c, answered)
           done == IsDone(c, answered)
           d == Indexed(c, answered)
<1>21. room = (IF c.commits >= MaxCommits THEN 0 ELSE MaxCommits - c.commits) /\ page = (IF answered THEN ApiPage(c.page) ELSE {})
  BY DEF CommitRoom, PageOf
<1>22. fallback = (page = {} /\ ~c.git)
  BY DEF FallsBack
<1>23. found = IF fallback THEN stream(room + 1) ELSE page
  BY DEF RowsOf
<1>24. kept = Smallest(found, room) /\ count = c.commits + Cardinality(kept)
  BY DEF KeptOf, CountOf
<1>25. next = (answered /\ Cardinality(page) >= Size)
  BY DEF HasNext
<1>26. full = (Cardinality(found) > room)
  BY DEF IsFull
<1>27. done = (~next \/ full \/ fallback \/ count >= MaxCommits)
  BY DEF IsDone
<1>28. d = [c EXCEPT !.policy_read = TRUE, !.git = @ \/ fallback, !.page = @ + 1, !.commits = count,
                     !.partial = @ \/ full \/ (done /\ next), !.phase = IF done THEN "done" ELSE @]
  BY DEF Indexed
<1> HIDE DEF room, page, fallback, found, kept, next, count, full, done, d
<1> USE <1>21, <1>22, <1>23, <1>24, <1>25, <1>26, <1>27, <1>28
<1>1. Size \in Nat \ {0} /\ MaxCommits \in Nat /\ Commits \in Nat
  BY RepoImportAssumption
<1>2. /\ ~c.git /\ c.commits = (c.page - 1) * Size /\ 1 .. c.commits \subseteq read
      /\ c.commits \in Nat /\ c.commits <= MaxCommits /\ c.page \in Nat \ {0}
  BY <1>1 DEF CursorSound, Cursor
<1>3. fallback = (page = {}) /\ (page = {} \/ page = ApiPage(c.page)) /\ found = IF page = {} THEN stream(room + 1) ELSE page
  BY <1>2
<1>4. PICK b, p : b = c.commits /\ p = c.page
  OBVIOUS
<1>5. b \in Nat /\ p \in Nat \ {0} /\ b = (p - 1) * Size /\ b <= MaxCommits
      /\ room = (IF b >= MaxCommits THEN 0 ELSE MaxCommits - b)
      /\ (page = {} \/ page = ApiPage(p))
  <2>1. room = IF b >= MaxCommits THEN 0 ELSE MaxCommits - b
    BY <1>4
  <2>2. b \in Nat /\ p \in Nat \ {0} /\ b <= MaxCommits
    BY <1>2, <1>4
  <2>3. b = (p - 1) * Size /\ (page = {} \/ page = ApiPage(p))
    BY <1>2, <1>3, <1>4
  <2> QED BY <2>1, <2>2, <2>3
<1>6. /\ kept \subseteq (1 .. Commits) \cap (1 .. MaxCommits)
      /\ Cardinality(kept) \in Nat /\ b + Cardinality(kept) <= MaxCommits
      /\ page = {} /\ ~(Cardinality(found) > room) => 1 .. Commits \subseteq kept
      /\ page # {} /\ ~(Cardinality(found) > room) =>
           /\ \A i \in 1 .. Commits : b < i /\ i <= b + Size => i \in kept
           /\ Cardinality(page) >= Size => Cardinality(kept) = Size /\ b + Size <= Commits
           /\ ~(Cardinality(page) >= Size) => Commits < b + Size
  <2>1. found = IF page = {} THEN stream(room + 1) ELSE page
    BY <1>3
  <2>2. kept = Smallest(found, room)
    OBVIOUS
  <2>3. page = {} \/ page = ApiPage(p)
    BY <1>5
  <2>4. b \in Nat /\ b = (p - 1) * Size /\ b <= MaxCommits /\ p \in Nat \ {0}
    BY <1>5
  <2>5. room = IF b >= MaxCommits THEN 0 ELSE MaxCommits - b
    BY <1>5
  <2>6. RowsFollow(b, room, page, found, kept)
    BY ONLY <2>1, <2>2, <2>3, <2>4, <2>5, CommitRows
  <2> QED BY <2>6 DEF RowsFollow
<1>7. full \in BOOLEAN /\ done \in BOOLEAN /\ next \in BOOLEAN /\ fallback \in BOOLEAN
  OBVIOUS
<1>8. count \in 0 .. MaxCommits /\ p + 1 \in Nat \ {0} /\ count = b + Cardinality(kept)
  BY <1>1, <1>4, <1>5, <1>6
<1> DEFINE git == c.git \/ fallback
           partial == c.partial \/ full \/ (done /\ next)
           phase == IF done THEN "done" ELSE "index_commits"
           pg == p + 1
<1>9. d = [c EXCEPT !.policy_read = TRUE, !.git = git, !.page = pg, !.commits = count, !.partial = partial, !.phase = phase]
  BY <1>4
<1>10. git \in BOOLEAN /\ partial \in BOOLEAN /\ phase \in Phases /\ pg \in Nat \ {0}
  BY <1>8 DEF Phases
<1> HIDE DEF git, partial, phase, pg
<1>11. d \in Cursor
  BY <1>8, <1>9, <1>10 DEF Cursor
<1>12. /\ d.git = git /\ d.page = pg /\ d.commits = count /\ d.partial = partial /\ d.phase = phase
       /\ d.seen = c.seen /\ d.number = c.number /\ d.include = c.include
  BY <1>9 DEF Cursor
<1>13. ~d.partial => ~c.partial /\ ~full /\ (done => ~next)
  BY <1>12 DEF partial
<1>14. d.phase # "done" => ~done
  BY <1>12 DEF phase
<1>15. ASSUME ~done PROVE ~d.git /\ d.commits = (d.page - 1) * Size /\ 1 .. d.commits \subseteq read \cup kept
  <2>1. next /\ ~full /\ ~fallback /\ page # {} /\ Cardinality(page) >= Size
    BY <1>3, <1>15
  <2>2. Cardinality(kept) = Size /\ b + Size <= Commits /\ \A i \in 1 .. Commits : b < i /\ i <= b + Size => i \in kept
    BY <1>6, <2>1
  <2>3. count = b + Size
    BY <1>8, <2>2
  <2>4. b + Size = p * Size
    <3>1. p * Size = (p - 1) * Size + Size
      BY <1>1, <1>5
    <3> QED BY <1>5, <3>1
  <2>5. d.page - 1 = p
    BY <1>5, <1>12 DEF pg
  <2>6. 1 .. count \subseteq read \cup kept
    BY <1>1, <1>2, <1>4, <1>5, <2>2, <2>3
  <2>7. ~git
    BY <1>2, <2>1 DEF git
  <2> QED BY <1>12, <2>3, <2>4, <2>5, <2>6, <2>7
<1>16. ASSUME done, ~d.partial PROVE 1 .. Commits \subseteq read \cup kept
  <2>1. ~full /\ ~next
    BY <1>13, <1>16
  <2>2. CASE page = {}
    BY <1>6, <2>1, <2>2
  <2>3. CASE page # {}
    <3>1. answered
      BY <2>3
    <3>3. ~(Cardinality(page) >= Size) /\ ~(Cardinality(found) > room)
      <4>1. (next <=> answered /\ Cardinality(page) >= Size) /\ (full <=> Cardinality(found) > room)
        OBVIOUS
      <4> QED BY ONLY <2>1, <3>1, <4>1
    <3>2. Commits < b + Size /\ \A i \in 1 .. Commits : b < i /\ i <= b + Size => i \in kept
      BY <1>6, <2>3, <3>3
    <3>4. ASSUME NEW i \in 1 .. Commits PROVE i \in read \cup kept
      <4>1. CASE i <= b
        BY <1>2, <1>4, <1>5, <4>1
      <4>2. CASE b < i
        BY <1>1, <1>5, <3>2, <4>2
      <4> QED BY <1>1, <1>5, <4>1, <4>2
    <3> QED BY <3>4
  <2> QED BY <2>2, <2>3
<1>17. Wanted(d, d.seen) = Wanted(c, c.seen) /\ Wanted(d, d.number) = Wanted(c, c.number) /\ Wanted(d, before) = Wanted(c, before)
  BY <1>12 DEF Wanted
<1>18. d.phase = "done" => done
  BY <1>12 DEF phase
<1>19. CursorSound(d, n, before, held, read \cup kept)
  BY <1>12, <1>13, <1>14, <1>15, <1>16, <1>17, <1>18 DEF CursorSound
<1> QED BY <1>6, <1>11, <1>19 DEF d, kept

-----------------------------------------------------------------------------
(* The invariant under a step of one job.                                  *)

LEMMA CursorKept ==
    ASSUME NEW c \in Cursor, NEW n \in Nat, NEW n2 \in Nat, n <= n2, NEW before,
           NEW held, NEW held2, held \subseteq held2, NEW read, NEW read2, read \subseteq read2,
           CursorSound(c, n, before, held, read)
    PROVE  CursorSound(c, n2, before, held2, read2)
<1>1. c.seen \in Nat /\ c.number \in Nat
  BY DEF Cursor
<1>2. c.seen <= n2 /\ c.number <= n2
  BY <1>1 DEF CursorSound
<1> QED BY <1>2 DEF CursorSound

LEMMA JobKept ==
    ASSUME NEW w \in JobRow, NEW f, NEW rp, NEW iss, NEW com, NEW f2, NEW rp2, NEW iss2, NEW com2,
           HubSound(f, rp, iss, com), HubSound(f2, rp2, iss2, com2), Grows(f, rp, iss, com, f2, rp2, iss2, com2),
           JobSound(w, f, rp, iss, com)
    PROVE  JobSound(w, f2, rp2, iss2, com2)
<1>1. f.issues \in Nat /\ f2.issues \in Nat /\ f.issues <= f2.issues /\ iss \subseteq iss2 /\ com \subseteq com2
  BY RepoImportAssumption DEF HubSound, Grows
<1>2. w.cursor \in Cursor /\ w.before \in Nat
  BY DEF JobRow
<1>3. CursorSound(w.cursor, f.issues, w.before, iss, com)
  BY DEF JobSound
<1>4. CursorSound(w.cursor, f2.issues, w.before, iss2, com2)
  BY <1>1, <1>2, <1>3, CursorKept
<1>5. w.before <= f2.issues
  BY <1>1, <1>2 DEF JobSound
<1> QED BY <1>4, <1>5 DEF JobSound, Grows

LEMMA RunnerKept ==
    ASSUME NEW r \in RunnerRow, NEW w, NEW f, NEW rp, NEW iss, NEW com, NEW f2, NEW rp2, NEW iss2, NEW com2,
           HubSound(f, rp, iss, com), HubSound(f2, rp2, iss2, com2), Grows(f, rp, iss, com, f2, rp2, iss2, com2),
           RunnerSound(r, w, f, rp, iss, com)
    PROVE  RunnerSound(r, w, f2, rp2, iss2, com2)
<1>1. f.issues \in Nat /\ f2.issues \in Nat /\ f.issues <= f2.issues /\ iss \subseteq iss2 /\ com \subseteq com2
  BY RepoImportAssumption DEF HubSound, Grows
<1>2. r.cursor \in Cursor
  BY DEF RunnerRow
<1> DEFINE u == Pending(r, "upsert")
           x == Pending(r, "index")
<1>3. CursorSound(r.cursor, f.issues, w.before, iss \cup u, com \cup x)
  BY DEF RunnerSound
<1> HIDE DEF u, x
<1>4. iss \cup u \subseteq iss2 \cup u /\ com \cup x \subseteq com2 \cup x
  BY <1>1
<1>5. CursorSound(r.cursor, f2.issues, w.before, iss2 \cup u, com2 \cup x)
  BY <1>1, <1>2, <1>3, <1>4, CursorKept
<1>6. u \subseteq 1 .. f2.issues
  <2>1. u \subseteq 1 .. f.issues
    BY DEF RunnerSound, u
  <2> QED BY <1>1, <2>1
<1>7. rp2.kind = rp.kind /\ (Owned(rp, rp.policy) => Owned(rp2, rp2.policy)) /\ (f.migration # "none" => f2.migration # "none")
  BY DEF Grows
<1>8. Owned(rp, r.policy) => Owned(rp2, r.policy)
  BY <1>7 DEF Owned
<1>9. /\ r.pc \notin Resting => w.status = "running"
      /\ r.pc = "migrated" => f.migration # "none" /\ r.cursor.phase = "migrate"
      /\ r.pc \in {"upsert", "mirrored"} => r.cursor.phase \in {"mirror_issues", "index_commits"}
      /\ Pending(r, "index") \subseteq (1 .. Commits) \cap (1 .. MaxCommits)
      /\ r.policy # "" => r.pc \in {"index", "indexed"} /\ Owned(rp, r.policy)
      /\ r.cursor.policy_read /\ r.policy = "" => Owned(rp, rp.policy)
  BY DEF RunnerSound
<1> QED BY <1>5, <1>6, <1>7, <1>8, <1>9 DEF RunnerSound, u, x

\* A step of j leaves the other jobs sound.
LEMMA OneMoves ==
    ASSUME ImportSound, NEW j \in Jobs, NEW w \in JobRow, NEW r \in RunnerRow,
           job' = [job EXCEPT ![j] = w] \/ (UNCHANGED job /\ w = job[j]),
           runner' = [runner EXCEPT ![j] = r] \/ (UNCHANGED runner /\ r = runner[j]),
           HubSound(forge', repo', issues', commits'),
           Grows(forge, repo, issues, commits, forge', repo', issues', commits'),
           JobSound(w, forge', repo', issues', commits'), RunnerSound(r, w, forge', repo', issues', commits')
    PROVE  ImportSound'
<1>1. /\ job' \in [Jobs -> JobRow] /\ runner' \in [Jobs -> RunnerRow]
      /\ \A k \in Jobs : job'[k] = IF k = j THEN w ELSE job[k]
      /\ \A k \in Jobs : runner'[k] = IF k = j THEN r ELSE runner[k]
  BY DEF ImportSound
<1>2. ASSUME NEW k \in Jobs, k # j
      PROVE  /\ JobSound(job'[k], forge', repo', issues', commits')
             /\ RunnerSound(runner'[k], job'[k], forge', repo', issues', commits')
  <2>1. PICK v, u : v = job[k] /\ u = runner[k]
    OBVIOUS
  <2>2. v \in JobRow /\ u \in RunnerRow /\ job'[k] = v /\ runner'[k] = u
    BY <1>1, <1>2, <2>1 DEF ImportSound
  <2>3. /\ HubSound(forge, repo, issues, commits) /\ JobSound(v, forge, repo, issues, commits)
        /\ RunnerSound(u, v, forge, repo, issues, commits)
    BY <2>1 DEF ImportSound
  <2>4. JobSound(v, forge', repo', issues', commits')
    BY <2>2, <2>3, JobKept
  <2>5. RunnerSound(u, v, forge', repo', issues', commits')
    BY <2>2, <2>3, RunnerKept
  <2> QED BY <2>2, <2>4, <2>5
<1>3. JobSound(job'[j], forge', repo', issues', commits') /\ RunnerSound(runner'[j], job'[j], forge', repo', issues', commits')
  BY <1>1
<1> QED BY <1>1, <1>2, <1>3 DEF ImportSound

\* A step of nobody's job.
LEMMA NoneMoves ==
    ASSUME ImportSound, UNCHANGED <<job, runner>>, HubSound(forge', repo', issues', commits'),
           Grows(forge, repo, issues, commits, forge', repo', issues', commits')
    PROVE  ImportSound'
<1>1. ASSUME NEW k \in Jobs
      PROVE  /\ JobSound(job'[k], forge', repo', issues', commits')
             /\ RunnerSound(runner'[k], job'[k], forge', repo', issues', commits')
  <2>1. PICK v, u : v = job[k] /\ u = runner[k]
    OBVIOUS
  <2>2. v \in JobRow /\ u \in RunnerRow /\ job'[k] = v /\ runner'[k] = u
    BY <2>1 DEF ImportSound
  <2>3. /\ HubSound(forge, repo, issues, commits) /\ JobSound(v, forge, repo, issues, commits)
        /\ RunnerSound(u, v, forge, repo, issues, commits)
    BY <2>1 DEF ImportSound
  <2>4. JobSound(v, forge', repo', issues', commits')
    BY <2>2, <2>3, JobKept
  <2>5. RunnerSound(u, v, forge', repo', issues', commits')
    BY <2>2, <2>3, RunnerKept
  <2> QED BY <2>2, <2>4, <2>5
<1> QED BY <1>1 DEF ImportSound

LEMMA NewSound ==
    ASSUME NEW phase \in {"validate", "mirror_issues"}, NEW incl \in {"none", "issues", "all"},
           NEW n \in Nat, NEW before, NEW held, NEW read
    PROVE  NewCursor(phase, incl) \in Cursor /\ CursorSound(NewCursor(phase, incl), n, before, held, read)
<1> DEFINE c == NewCursor(phase, incl)
<1>1. c \in Cursor
  BY RepoImportAssumption DEF NewCursor, Cursor, Phases
<1>2. c.seen = 0 /\ c.number = 0 /\ c.commits = 0 /\ c.page = 1 /\ ~c.git /\ c.phase \notin {"index_commits", "done"}
  BY DEF NewCursor
<1> HIDE DEF c
<1>3. Wanted(c, 0) = {} /\ 1 .. 0 = {}
  BY DEF Wanted
<1>4. (c.page - 1) * Size = 0
  BY <1>2, RepoImportAssumption
<1>5. CursorSound(c, n, before, held, read)
  BY <1>2, <1>3, <1>4 DEF CursorSound
<1> QED BY <1>1, <1>5 DEF c

LEMMA IdleSound ==
    ASSUME NEW w, NEW f, NEW rp, NEW iss, NEW com, HubSound(f, rp, iss, com)
    PROVE  Idle \in RunnerRow /\ RunnerSound(Idle, w, f, rp, iss, com)
<1>1. f.issues \in Nat
  BY RepoImportAssumption DEF HubSound
<1>2. Idle.cursor = NewCursor("validate", "all") /\ Idle.pc = "idle" /\ Idle.policy = ""
  BY DEF Idle
<1>3. NewCursor("validate", "all") \in Cursor
  BY <1>1, NewSound
<1>4. CursorSound(NewCursor("validate", "all"), f.issues, w.before, iss \cup Pending(Idle, "upsert"), com \cup Pending(Idle, "index"))
  BY <1>1, NewSound
<1>5. Idle \in RunnerRow
  <2>1. PICK c : c = NewCursor("validate", "all")
    OBVIOUS
  <2>2. Idle = [pc |-> "idle", cursor |-> c, rows |-> {}, new |-> {}, policy |-> ""]
    BY <2>1 DEF Idle
  <2>3. c \in Cursor /\ {} \in SUBSET Nat
    BY <1>3, <2>1
  <2> QED BY ONLY <2>2, <2>3 DEF RunnerRow, Resting
<1>6. Pending(Idle, "upsert") = {} /\ Pending(Idle, "index") = {} /\ ~Idle.cursor.policy_read
  <2>1. Pending(Idle, "upsert") = {} /\ Pending(Idle, "index") = {}
    BY <1>2 DEF Pending
  <2>2. NewCursor("validate", "all").policy_read = FALSE
    BY DEF NewCursor
  <2> QED BY <1>2, <2>1, <2>2
<1>7. Idle.pc \in Resting /\ Idle.pc \notin {"upsert", "mirrored"} /\ Idle.pc # "migrated"
  BY <1>2 DEF Resting
<1> QED BY <1>2, <1>4, <1>5, <1>6, <1>7 DEF RunnerSound

\* A runner between two commits.
LEMMA OnSound ==
    ASSUME NEW w, NEW f, NEW rp, NEW iss, NEW com, HubSound(f, rp, iss, com), w.status = "running",
           NEW pc \in {"step", "write", "migrated"}, NEW d \in Cursor,
           CursorSound(d, f.issues, w.before, iss, com), d.policy_read => Owned(rp, rp.policy),
           pc = "migrated" => f.migration # "none" /\ d.phase = "migrate",
           NEW r, r = [Idle EXCEPT !.pc = pc, !.cursor = d]
    PROVE  r \in RunnerRow /\ RunnerSound(r, w, f, rp, iss, com)
<1>1. Idle \in RunnerRow
  BY IdleSound
<1>2. r \in RunnerRow
  BY <1>1 DEF RunnerRow
<1>3. r.pc = pc /\ r.cursor = d /\ r.policy = ""
  BY DEF Idle
<1>4. Pending(r, "upsert") = {} /\ Pending(r, "index") = {}
  BY <1>3 DEF Pending
<1>5. iss \cup {} = iss /\ com \cup {} = com
  OBVIOUS
<1> QED BY <1>2, <1>3, <1>4, <1>5 DEF RunnerSound

LEMMA StoredSound ==
    ASSUME NEW w \in JobRow, NEW f, NEW rp, NEW iss, NEW com, HubSound(f, rp, iss, com), rp.row, w.before <= f.issues,
           CursorSound(w.cursor, f.issues, w.before, iss, com), w.cursor.policy_read => Owned(rp, rp.policy),
           w.status = "done" => w.cursor.phase = "done"
    PROVE  JobSound(w, f, rp, iss, com)
BY DEF JobSound

LEMMA PhaseSound ==
    ASSUME NEW c \in Cursor, NEW n, NEW before, NEW held, NEW read, CursorSound(c, n, before, held, read),
           c.phase # "done", NEW ph \in Phases \ {"done"},
           ph = "index_commits" => c.include = "none" \/ c.phase = "index_commits",
           NEW d, d = [c EXCEPT !.phase = ph]
    PROVE  d \in Cursor /\ CursorSound(d, n, before, held, read) /\ d.phase = ph /\ d.policy_read = c.policy_read
<1>1. d \in Cursor
  BY DEF Cursor
<1>2. /\ d.phase = ph /\ d.number = c.number /\ d.page = c.page /\ d.seen = c.seen /\ d.commits = c.commits
      /\ d.partial = c.partial /\ d.git = c.git /\ d.policy_read = c.policy_read /\ d.include = c.include
  BY DEF Cursor
<1>3. Wanted(d, d.seen) = Wanted(c, c.seen) /\ Wanted(d, d.number) = Wanted(c, c.number) /\ Wanted(d, before) = Wanted(c, before)
  BY <1>2 DEF Wanted
<1>4. c.include = "none" => Wanted(c, before) = {}
  BY DEF Wanted
<1> QED BY <1>1, <1>2, <1>3, <1>4 DEF CursorSound

-----------------------------------------------------------------------------
(* The steps.                                                              *)

LEMMA JobFacts ==
    ASSUME ImportSound, NEW j \in Jobs
    PROVE  /\ job[j] \in JobRow /\ runner[j] \in RunnerRow
           /\ runner[j].cursor \in Cursor /\ job[j].cursor \in Cursor /\ job[j].before \in Nat
           /\ HubSound(forge, repo, issues, commits) /\ forge.issues \in Nat
           /\ JobSound(job[j], forge, repo, issues, commits)
           /\ RunnerSound(runner[j], job[j], forge, repo, issues, commits)
<1>1. job[j] \in JobRow /\ runner[j] \in RunnerRow /\ HubSound(forge, repo, issues, commits)
  BY DEF ImportSound
<1>2. runner[j].cursor \in Cursor /\ job[j].cursor \in Cursor /\ job[j].before \in Nat
  BY <1>1 DEF JobRow, RunnerRow
<1>3. forge.issues \in Nat
  BY <1>1, RepoImportAssumption DEF HubSound
<1> QED BY <1>1, <1>2, <1>3 DEF ImportSound

LEMMA Same ==
    ASSUME ImportSound, UNCHANGED <<forge, repo, issues, commits>>
    PROVE  /\ HubSound(forge', repo', issues', commits')
           /\ Grows(forge, repo, issues, commits, forge', repo', issues', commits')
<1>1. HubSound(forge, repo, issues, commits)
  BY DEF ImportSound
<1>2. forge.issues \in Nat
  BY <1>1, RepoImportAssumption DEF HubSound
<1> QED BY <1>1, <1>2 DEF Grows

\* Only the runner's memory changes.
LEMMA RunnerMoves ==
    ASSUME ImportSound, NEW j \in Jobs, NEW r \in RunnerRow, runner' = [runner EXCEPT ![j] = r],
           UNCHANGED <<forge, repo, job, issues, commits>>, RunnerSound(r, job[j], forge, repo, issues, commits)
    PROVE  ImportSound'
<1>1. PICK w : w = job[j]
  OBVIOUS
<1>2. w \in JobRow /\ JobSound(w, forge, repo, issues, commits)
  BY <1>1, JobFacts
<1>3. HubSound(forge', repo', issues', commits') /\ Grows(forge, repo, issues, commits, forge', repo', issues', commits')
  BY Same
<1>4. JobSound(w, forge', repo', issues', commits') /\ RunnerSound(r, w, forge', repo', issues', commits')
  BY <1>1, <1>2
<1> QED BY <1>1, <1>2, <1>3, <1>4, OneMoves

LEMMA RunnerStops ==
    ASSUME ImportSound, NEW j \in Jobs, runner' = [runner EXCEPT ![j] = Idle], UNCHANGED <<forge, repo, job, issues, commits>>
    PROVE  ImportSound'
<1>1. PICK r, w : r = Idle /\ w = job[j]
  OBVIOUS
<1>2. HubSound(forge, repo, issues, commits)
  BY JobFacts
<1>3. r \in RunnerRow /\ RunnerSound(r, w, forge, repo, issues, commits)
  BY <1>1, <1>2, IdleSound
<1> QED BY <1>1, <1>3, RunnerMoves

\* A runner goes on with another cursor.
LEMMA RunnerGoesOn ==
    ASSUME ImportSound, NEW j \in Jobs, runner[j].pc \notin Resting, NEW pc \in {"step", "write"}, NEW d \in Cursor,
           CursorSound(d, forge.issues, job[j].before, issues, commits), d.policy_read => Owned(repo, repo.policy),
           Goes(j, pc, d), UNCHANGED <<forge, repo, job, issues, commits>>
    PROVE  ImportSound'
<1>1. PICK r, w : r = [Idle EXCEPT !.pc = pc, !.cursor = d] /\ w = job[j]
  OBVIOUS
<1>2. HubSound(forge, repo, issues, commits) /\ w.status = "running"
  BY <1>1, JobFacts DEF RunnerSound
<1>3. CursorSound(d, forge.issues, w.before, issues, commits)
  BY <1>1
<1>4. pc \in {"step", "write", "migrated"} /\ pc # "migrated"
  OBVIOUS
<1>5. r \in RunnerRow /\ RunnerSound(r, w, forge, repo, issues, commits)
  BY <1>1, <1>2, <1>3, <1>4, OnSound
<1>6. runner' = [runner EXCEPT ![j] = r]
  BY <1>1 DEF Goes
<1> QED BY <1>1, <1>5, <1>6, RunnerMoves

\* What a runner that is between two commits has in memory.
LEMMA AtStep ==
    ASSUME ImportSound, NEW j \in Jobs, runner[j].pc \in {"step", "write", "migrated", "mirrored", "indexed"}
    PROVE  /\ runner[j].cursor \in Cursor /\ job[j].status = "running" /\ runner[j].pc \notin Resting /\ repo.row
           /\ CursorSound(runner[j].cursor, forge.issues, job[j].before, issues, commits)
           /\ runner[j].pc # "indexed" => runner[j].policy = "" /\ (runner[j].cursor.policy_read => Owned(repo, repo.policy))
<1>1. PICK r, w : r = runner[j] /\ w = job[j]
  OBVIOUS
<1>2. r.cursor \in Cursor /\ RunnerSound(r, w, forge, repo, issues, commits) /\ JobSound(w, forge, repo, issues, commits)
  BY <1>1, JobFacts
<1>3. Pending(r, "upsert") = {} /\ Pending(r, "index") = {} /\ r.pc \notin Resting
  BY <1>1 DEF Pending, Resting
<1>4. issues \cup {} = issues /\ commits \cup {} = commits
  OBVIOUS
<1>5. CursorSound(r.cursor, forge.issues, w.before, issues, commits)
  BY <1>2, <1>3, <1>4 DEF RunnerSound
<1>6. r.pc # "indexed" => r.policy = "" /\ (r.cursor.policy_read => Owned(repo, repo.policy))
  BY <1>1, <1>2 DEF RunnerSound
<1>7. w.status = "running" /\ repo.row
  BY <1>2, <1>3 DEF RunnerSound, JobSound
<1> QED BY <1>1, <1>2, <1>3, <1>5, <1>6, <1>7

\* The runner commits its job's row, in a status that is not the last.
LEMMA JobCommits ==
    ASSUME ImportSound, NEW j \in Jobs, repo.row, NEW w \in JobRow, NEW r \in RunnerRow,
           job' = [job EXCEPT ![j] = w], runner' = [runner EXCEPT ![j] = r], UNCHANGED <<issues, commits>>,
           w.before = job[j].before, CursorSound(w.cursor, forge.issues, w.before, issues, commits),
           w.status = "done" => w.cursor.phase = "done", w.cursor.policy_read => Owned(repo', repo'.policy),
           HubSound(forge', repo', issues', commits'), forge'.issues = forge.issues,
           Grows(forge, repo, issues, commits, forge', repo', issues', commits'),
           RunnerSound(r, w, forge', repo', issues', commits')
    PROVE  ImportSound'
<1>1. repo'.row /\ w.before <= forge'.issues /\ CursorSound(w.cursor, forge'.issues, w.before, issues', commits')
  BY JobFacts DEF JobSound, Grows
<1>2. JobSound(w, forge', repo', issues', commits')
  BY <1>1, StoredSound
<1> QED BY <1>2, OneMoves

\* Writing the sync state alone.
LEMMA SyncWritten ==
    ASSUME ImportSound, NEW st \in {"pending", "cloning", "issues", "indexing", "ready", "error"},
           repo' = [repo EXCEPT !.sync = st], UNCHANGED <<issues, commits>>,
           forge' \in [migration : {"none", "running", "finished"}, issues : 0 .. LastIssues],
           forge'.issues = forge.issues, forge.migration # "none" => forge'.migration # "none"
    PROVE  /\ HubSound(forge', repo', issues', commits')
           /\ Grows(forge, repo, issues, commits, forge', repo', issues', commits')
           /\ \A policy : Owned(repo, policy) => Owned(repo', policy)
           /\ repo'.policy = repo.policy
<1>1. HubSound(forge, repo, issues, commits)
  BY DEF ImportSound
<1>2. /\ repo' \in Repo /\ repo'.kind = repo.kind /\ repo'.row = repo.row /\ repo'.forgejo = repo.forgejo
      /\ repo'.policy = repo.policy
  BY <1>1 DEF HubSound, Repo
<1>3. forge.issues \in Nat
  BY <1>1, RepoImportAssumption DEF HubSound
<1> QED BY <1>1, <1>2, <1>3 DEF HubSound, Grows, Owned

LEMMA FailStep ==
    ASSUME ImportSound, NEW j \in Jobs, runner[j].pc = "step", NEW d \in Cursor,
           CursorSound(d, forge.issues, job[j].before, issues, commits), d.policy_read => Owned(repo, repo.policy),
           _fail(j, d, ""), UNCHANGED <<issues, commits>>,
           forge' \in [migration : {"none", "running", "finished"}, issues : 0 .. LastIssues],
           forge'.issues = forge.issues, forge.migration # "none" => forge'.migration # "none"
    PROVE  ImportSound'
<1>1. PICK w, r : w = [job[j] EXCEPT !.status = "failed", !.cursor = d] /\ r = Idle
  OBVIOUS
<1>2. job' = [job EXCEPT ![j] = w] /\ runner' = [runner EXCEPT ![j] = r] /\ repo' = [repo EXCEPT !.sync = "error"]
  BY <1>1 DEF _fail, Cached
<1>3. w \in JobRow /\ w.cursor = d /\ w.before = job[j].before /\ w.status = "failed"
  BY <1>1, JobFacts DEF JobRow
<1>4. /\ HubSound(forge', repo', issues', commits')
      /\ Grows(forge, repo, issues, commits, forge', repo', issues', commits')
      /\ \A policy : Owned(repo, policy) => Owned(repo', policy)
      /\ repo'.policy = repo.policy
  BY <1>2, SyncWritten
<1>5. r \in RunnerRow /\ RunnerSound(r, w, forge', repo', issues', commits')
  BY <1>1, <1>4, IdleSound
<1>6. repo.row
  BY AtStep
<1> QED BY <1>2, <1>3, <1>4, <1>5, <1>6, JobCommits

LEMMA CreateJobStep ==
    ASSUME ImportSound, NEW j \in Jobs, create_job(j)
    PROVE  ImportSound'
<1>1. PICK r : r = [runner[j] EXCEPT !.pc = IF repo.row THEN "reuse" ELSE "add"]
  OBVIOUS
<1>2. runner[j].pc = "idle" /\ runner' = [runner EXCEPT ![j] = r] /\ UNCHANGED <<forge, repo, job, issues, commits>>
  BY <1>1 DEF create_job
<1>3. /\ runner[j] \in RunnerRow /\ RunnerSound(runner[j], job[j], forge, repo, issues, commits)
  BY JobFacts
<1>4. r \in RunnerRow /\ r.pc \in {"add", "reuse"} /\ r.cursor = runner[j].cursor /\ r.policy = runner[j].policy
  BY <1>1, <1>3 DEF RunnerRow, Resting
<1>5. Pending(r, "upsert") = Pending(runner[j], "upsert") /\ Pending(r, "index") = Pending(runner[j], "index")
  BY <1>2, <1>4 DEF Pending
<1>6. RunnerSound(r, job[j], forge, repo, issues, commits)
  BY <1>2, <1>3, <1>4, <1>5 DEF RunnerSound, Resting
<1> QED BY <1>2, <1>4, <1>6, RunnerMoves

LEMMA CreateCommitStep ==
    ASSUME ImportSound, NEW j \in Jobs, create_job_commit(j)
    PROVE  ImportSound'
<1>1. runner' = [runner EXCEPT ![j] = Idle] /\ UNCHANGED <<forge, issues, commits>>
  BY DEF create_job_commit
<1>2. CASE UNCHANGED <<repo, job>>
  BY <1>1, <1>2, RunnerStops
<1>3. CASE ~UNCHANGED <<repo, job>>
  <2>1. PICK body \in RepoImportRequest \cup RepoSyncRequest :
          /\ job' = [job EXCEPT ![j] = [status |-> "queued", before |-> forge.issues,
                                        cursor |-> NewCursor(start_phase(body), include(body))]]
          /\ repo' = [repo EXCEPT !.row = TRUE, !.sync = "pending"]
    BY <1>3 DEF create_job_commit
  <2>2. PICK ph, inc : ph = start_phase(body) /\ inc = include(body)
    OBVIOUS
  <2>3. ph \in {"validate", "mirror_issues"} /\ inc \in {"none", "issues", "all"}
    BY <2>2 DEF start_phase, include
  <2>4. PICK w, r : w = [status |-> "queued", before |-> forge.issues, cursor |-> NewCursor(ph, inc)] /\ r = Idle
    OBVIOUS
  <2>5. HubSound(forge, repo, issues, commits) /\ forge.issues \in Nat
    BY JobFacts
  <2>6. NewCursor(ph, inc) \in Cursor /\ CursorSound(NewCursor(ph, inc), forge.issues, forge.issues, issues, commits)
    BY <2>3, <2>5, NewSound
  <2>7. /\ w \in JobRow /\ w.cursor = NewCursor(ph, inc) /\ w.before = forge.issues /\ w.status = "queued"
        /\ ~w.cursor.policy_read
    <3>1. NewCursor(ph, inc).policy_read = FALSE
      BY DEF NewCursor
    <3>2. PICK d : d = NewCursor(ph, inc)
      OBVIOUS
    <3>3. w = [status |-> "queued", before |-> forge.issues, cursor |-> d] /\ d \in Cursor
      BY <2>4, <2>6, <3>2
    <3>4. w \in JobRow /\ w.cursor = d /\ w.before = forge.issues /\ w.status = "queued"
      BY ONLY <3>3, <2>5 DEF JobRow
    <3> QED BY <3>1, <3>2, <3>4
  <2>8. repo' \in Repo /\ repo'.kind = repo.kind /\ repo'.row /\ repo'.forgejo = repo.forgejo /\ repo'.policy = repo.policy
    BY <2>1, <2>5 DEF HubSound, Repo
  <2>9. HubSound(forge', repo', issues', commits')
    BY <1>1, <2>5, <2>8 DEF HubSound
  <2>10. Grows(forge, repo, issues, commits, forge', repo', issues', commits')
    BY <1>1, <2>5, <2>8 DEF Grows, Owned
  <2>11. JobSound(w, forge', repo', issues', commits')
    BY <1>1, <2>5, <2>6, <2>7, <2>8 DEF JobSound
  <2>12. r \in RunnerRow /\ RunnerSound(r, w, forge', repo', issues', commits')
    BY <2>4, <2>9, IdleSound
  <2>13. job' = [job EXCEPT ![j] = w] /\ runner' = [runner EXCEPT ![j] = r]
    BY <1>1, <2>1, <2>2, <2>4
  <2> QED BY <2>7, <2>9, <2>10, <2>11, <2>12, <2>13, OneMoves
<1> QED BY <1>2, <1>3

LEMMA RunStep ==
    ASSUME ImportSound, NEW j \in Jobs, run(j)
    PROVE  ImportSound'
<1>1. PICK d : d = job[j].cursor
  OBVIOUS
<1>2. PICK w, r, pc : pc = "step" /\ w = [job[j] EXCEPT !.status = "running"] /\ r = [Idle EXCEPT !.pc = pc, !.cursor = d]
  OBVIOUS
<1>3. /\ job[j].status # "none" /\ job' = [job EXCEPT ![j] = w] /\ runner' = [runner EXCEPT ![j] = r]
      /\ UNCHANGED <<forge, repo, issues, commits>>
  BY <1>1, <1>2 DEF run
<1>4. /\ job[j] \in JobRow /\ d \in Cursor /\ HubSound(forge, repo, issues, commits)
      /\ JobSound(job[j], forge, repo, issues, commits)
  BY <1>1, JobFacts
<1>5. w \in JobRow /\ w.status = "running" /\ w.cursor = d /\ w.before = job[j].before
  BY <1>1, <1>2, <1>4 DEF JobRow
<1>6. /\ CursorSound(d, forge.issues, w.before, issues, commits) /\ repo.row /\ (d.policy_read => Owned(repo, repo.policy))
  BY <1>1, <1>3, <1>4, <1>5 DEF JobSound
<1>7. pc \in {"step", "write", "migrated"} /\ pc # "migrated"
  BY <1>2
<1>8. r \in RunnerRow /\ RunnerSound(r, w, forge, repo, issues, commits)
  <2>1. r = [Idle EXCEPT !.pc = pc, !.cursor = d] /\ d \in Cursor /\ w.status = "running" /\ pc \in {"step", "write", "migrated"}
    BY <1>2, <1>4, <1>5, <1>6, <1>7
  <2>2. HubSound(forge, repo, issues, commits) /\ CursorSound(d, forge.issues, w.before, issues, commits)
    BY <1>2, <1>4, <1>5, <1>6, <1>7
  <2>3. (d.policy_read => Owned(repo, repo.policy)) /\ (pc = "migrated" => forge.migration # "none" /\ d.phase = "migrate")
    BY <1>2, <1>4, <1>5, <1>6, <1>7
  <2> QED BY ONLY <2>1, <2>2, <2>3, OnSound
<1>9. HubSound(forge', repo', issues', commits') /\ Grows(forge, repo, issues, commits, forge', repo', issues', commits')
  BY <1>3, Same
<1>10. RunnerSound(r, w, forge', repo', issues', commits') /\ forge'.issues = forge.issues /\ repo' = repo
  BY <1>3, <1>8
<1> QED BY <1>3, <1>5, <1>6, <1>8, <1>9, <1>10, JobCommits

LEMMA WriteStep ==
    ASSUME ImportSound, NEW j \in Jobs, _write(j)
    PROVE  ImportSound'
<1>1. PICK d : d = runner[j].cursor
  OBVIOUS
<1>2. PICK w, r, pc : pc = "step" /\ w = [job[j] EXCEPT !.cursor = d] /\ r = [Idle EXCEPT !.pc = pc, !.cursor = d]
  OBVIOUS
<1>3. PICK st : st = IF job[j].cursor.phase = "validate" THEN "pending" ELSE repo.sync
  OBVIOUS
<1>4. /\ runner[j].pc = "write" /\ job' = [job EXCEPT ![j] = w] /\ runner' = [runner EXCEPT ![j] = r]
      /\ repo' = [repo EXCEPT !.sync = st] /\ UNCHANGED <<forge, issues, commits>>
  BY <1>1, <1>2, <1>3 DEF _write, Goes
<1>5. job[j] \in JobRow /\ HubSound(forge, repo, issues, commits)
  BY JobFacts
<1>6. st \in {"pending", "cloning", "issues", "indexing", "ready", "error"}
  BY <1>3, <1>5 DEF HubSound, Repo
<1>7. /\ d \in Cursor /\ job[j].status = "running" /\ repo.row
      /\ CursorSound(d, forge.issues, job[j].before, issues, commits)
      /\ (d.policy_read => Owned(repo, repo.policy))
  BY <1>1, <1>4, AtStep
<1>8. w \in JobRow /\ w.status = "running" /\ w.cursor = d /\ w.before = job[j].before
  BY <1>2, <1>5, <1>7 DEF JobRow
<1>9. /\ HubSound(forge', repo', issues', commits')
      /\ Grows(forge, repo, issues, commits, forge', repo', issues', commits')
      /\ \A policy : Owned(repo, policy) => Owned(repo', policy)
      /\ repo'.policy = repo.policy
  <2>1. /\ forge' \in [migration : {"none", "running", "finished"}, issues : 0 .. LastIssues]
        /\ forge'.issues = forge.issues /\ (forge.migration # "none" => forge'.migration # "none")
    BY <1>4, <1>5 DEF HubSound
  <2> QED BY <1>4, <1>6, <2>1, SyncWritten
<1>10. /\ CursorSound(d, forge'.issues, w.before, issues', commits') /\ (d.policy_read => Owned(repo', repo'.policy))
       /\ forge'.issues = forge.issues
  BY <1>4, <1>7, <1>8, <1>9
<1>11. pc \in {"step", "write", "migrated"} /\ pc # "migrated"
  BY <1>2
<1>12. r \in RunnerRow /\ RunnerSound(r, w, forge', repo', issues', commits')
  <2>1. r = [Idle EXCEPT !.pc = pc, !.cursor = d] /\ d \in Cursor /\ w.status = "running" /\ pc \in {"step", "write", "migrated"}
    BY <1>2, <1>7, <1>8, <1>9, <1>10, <1>11
  <2>2. HubSound(forge', repo', issues', commits') /\ CursorSound(d, forge'.issues, w.before, issues', commits')
    BY <1>2, <1>7, <1>8, <1>9, <1>10, <1>11
  <2>3. (d.policy_read => Owned(repo', repo'.policy)) /\ (pc = "migrated" => forge'.migration # "none" /\ d.phase = "migrate")
    BY <1>2, <1>7, <1>8, <1>9, <1>10, <1>11
  <2> QED BY ONLY <2>1, <2>2, <2>3, OnSound
<1> QED BY <1>4, <1>7, <1>8, <1>9, <1>10, <1>12, JobCommits

LEMMA ValidateStep ==
    ASSUME ImportSound, NEW j \in Jobs, _step_validate(j) \/ _step_mirror_issues_none(j)
    PROVE  ImportSound'
<1>1. PICK c : c = runner[j].cursor
  OBVIOUS
<1>2. PICK ph \in {"migrate", "index_commits"} :
        /\ runner[j].pc = "step" /\ c.phase \in {"validate", "mirror_issues"} /\ (ph = "index_commits" => c.include = "none")
        /\ Goes(j, "write", [c EXCEPT !.phase = ph]) /\ UNCHANGED <<forge, repo, job, issues, commits>>
  BY <1>1 DEF _step_validate, _step_mirror_issues_none, At
<1>3. /\ c \in Cursor /\ runner[j].pc \notin Resting
      /\ CursorSound(c, forge.issues, job[j].before, issues, commits)
      /\ (c.policy_read => Owned(repo, repo.policy))
  BY <1>1, <1>2, AtStep
<1>4. PICK d : d = [c EXCEPT !.phase = ph]
  OBVIOUS
<1>5. ph \in Phases \ {"done"} /\ c.phase # "done" /\ (ph = "index_commits" => c.include = "none" \/ c.phase = "index_commits")
  BY <1>2 DEF Phases
<1>6. d \in Cursor /\ CursorSound(d, forge.issues, job[j].before, issues, commits) /\ d.policy_read = c.policy_read
  BY <1>3, <1>4, <1>5, PhaseSound
<1>7. Goes(j, "write", d) /\ "write" \in {"step", "write"} /\ (d.policy_read => Owned(repo, repo.policy))
  BY <1>2, <1>3, <1>4, <1>6
<1> QED BY <1>2, <1>3, <1>6, <1>7, RunnerGoesOn

LEMMA StartStep ==
    ASSUME ImportSound, NEW j \in Jobs, _step_migrate(j) \/ migrate_retried(j) \/ StepFails(j)
    PROVE  ImportSound'
<1>1. PICK c : c = runner[j].cursor
  OBVIOUS
<1>2. runner[j].pc = "step" /\ UNCHANGED <<issues, commits>>
  BY DEF _step_migrate, migrate_retried, StepFails, At
<1>3. /\ c \in Cursor /\ runner[j].pc \notin Resting /\ repo.row /\ job[j].status = "running"
      /\ CursorSound(c, forge.issues, job[j].before, issues, commits)
      /\ (c.policy_read => Owned(repo, repo.policy))
  BY <1>1, <1>2, AtStep
<1>4. HubSound(forge, repo, issues, commits) /\ forge.issues \in Nat
  BY JobFacts
<1>5. forge' = trigger_migration \/ forge' = forge
  BY DEF _step_migrate, migrate_retried, StepFails
<1>6. /\ forge' \in [migration : {"none", "running", "finished"}, issues : 0 .. LastIssues]
      /\ forge'.issues = forge.issues /\ (forge.migration # "none" => forge'.migration # "none")
      /\ (forge' = trigger_migration => forge'.migration # "none")
  BY <1>4, <1>5 DEF trigger_migration, HubSound
<1>7. CASE _fail(j, c, "")
  BY <1>2, <1>3, <1>6, <1>7, FailStep
<1>8. CASE ~_fail(j, c, "")
  <2>1. /\ c.phase = "migrate" /\ forge' = trigger_migration /\ Goes(j, "migrated", c) /\ UNCHANGED <<repo, job>>
    BY <1>1, <1>8 DEF _step_migrate, migrate_retried, StepFails, At
  <2>2. PICK pc, r, w : pc = "migrated" /\ r = [Idle EXCEPT !.pc = pc, !.cursor = c] /\ w = job[j]
    OBVIOUS
  <2>3. runner' = [runner EXCEPT ![j] = r]
    BY <2>1, <2>2 DEF Goes
  <2>4. HubSound(forge', repo', issues', commits')
    BY <1>2, <1>4, <1>6, <2>1 DEF HubSound
  <2>5. Grows(forge, repo, issues, commits, forge', repo', issues', commits')
    BY <1>2, <1>4, <1>6, <2>1 DEF Grows
  <2>6. w \in JobRow /\ JobSound(w, forge, repo, issues, commits) /\ w.status = "running"
    BY <1>3, <2>2, JobFacts
  <2>7. JobSound(w, forge', repo', issues', commits')
    BY <1>4, <2>4, <2>5, <2>6, JobKept
  <2>8. r \in RunnerRow /\ RunnerSound(r, w, forge', repo', issues', commits')
    <3>1. r = [Idle EXCEPT !.pc = pc, !.cursor = c] /\ c \in Cursor /\ w.status = "running" /\ pc \in {"step", "write", "migrated"}
      BY <1>3, <2>2, <2>6
    <3>2. HubSound(forge', repo', issues', commits') /\ CursorSound(c, forge'.issues, w.before, issues', commits')
      BY <1>2, <1>3, <1>6, <2>2, <2>4
    <3>3. (c.policy_read => Owned(repo', repo'.policy)) /\ (pc = "migrated" => forge'.migration # "none" /\ c.phase = "migrate")
      BY <1>3, <1>6, <2>1
    <3> QED BY ONLY <3>1, <3>2, <3>3, OnSound
  <2> QED BY <2>1, <2>2, <2>3, <2>4, <2>5, <2>6, <2>7, <2>8, OneMoves
<1> QED BY <1>7, <1>8

\* A runner that commits a cursor and then writes the next phase.
LEMMA PhaseCommits ==
    ASSUME ImportSound, NEW j \in Jobs, runner[j].pc \notin Resting, repo.row, job[j].status = "running",
           NEW d \in Cursor, CursorSound(d, forge.issues, job[j].before, issues, commits),
           NEW e \in Cursor, CursorSound(e, forge.issues, job[j].before, issues, commits),
           job' = [job EXCEPT ![j].cursor = d], Goes(j, "write", e), UNCHANGED <<forge, issues, commits>>,
           HubSound(forge', repo', issues', commits'),
           Grows(forge, repo, issues, commits, forge', repo', issues', commits'),
           d.policy_read \/ e.policy_read => Owned(repo', repo'.policy)
    PROVE  ImportSound'
<1>1. PICK w, r, pc : pc = "write" /\ w = [job[j] EXCEPT !.cursor = d] /\ r = [Idle EXCEPT !.pc = pc, !.cursor = e]
  OBVIOUS
<1>2. job[j] \in JobRow
  BY JobFacts
<1>3. w \in JobRow /\ w.status = "running" /\ w.cursor = d /\ w.before = job[j].before
  BY <1>1, <1>2 DEF JobRow
<1>4. job' = [job EXCEPT ![j] = w] /\ runner' = [runner EXCEPT ![j] = r]
  BY <1>1 DEF Goes
<1>5. r \in RunnerRow /\ RunnerSound(r, w, forge', repo', issues', commits')
  <2>1. r = [Idle EXCEPT !.pc = pc, !.cursor = e] /\ e \in Cursor /\ w.status = "running" /\ pc \in {"step", "write", "migrated"}
    BY <1>1, <1>3
  <2>2. HubSound(forge', repo', issues', commits') /\ CursorSound(e, forge'.issues, w.before, issues', commits')
    BY <1>3
  <2>3. (e.policy_read => Owned(repo', repo'.policy)) /\ (pc = "migrated" => forge'.migration # "none" /\ e.phase = "migrate")
    BY <1>1
  <2> QED BY ONLY <2>1, <2>2, <2>3, OnSound
<1>6. forge'.issues = forge.issues /\ CursorSound(w.cursor, forge.issues, w.before, issues, commits)
      /\ (w.cursor.policy_read => Owned(repo', repo'.policy))
  BY <1>3
<1> QED BY <1>3, <1>4, <1>5, <1>6, JobCommits

LEMMA MigrateCommitStep ==
    ASSUME ImportSound, NEW j \in Jobs, _step_migrate_commit(j)
    PROVE  ImportSound'
<1>1. PICK c : c = runner[j].cursor
  OBVIOUS
<1>2. /\ runner[j].pc = "migrated" /\ repo' = [repo EXCEPT !.forgejo = TRUE, !.sync = "cloning"]
      /\ job' = [job EXCEPT ![j].cursor = c] /\ Goes(j, "write", [c EXCEPT !.phase = "poll"])
      /\ UNCHANGED <<forge, issues, commits>>
  BY <1>1 DEF _step_migrate_commit
<1>3. /\ c \in Cursor /\ runner[j].pc \notin Resting /\ repo.row /\ job[j].status = "running"
      /\ CursorSound(c, forge.issues, job[j].before, issues, commits)
      /\ (c.policy_read => Owned(repo, repo.policy))
  BY <1>1, <1>2, AtStep
<1>4. HubSound(forge, repo, issues, commits) /\ forge.issues \in Nat /\ forge.migration # "none" /\ c.phase = "migrate"
  <2>1. RunnerSound(runner[j], job[j], forge, repo, issues, commits)
    BY JobFacts
  <2> QED BY <1>1, <1>2, <2>1, JobFacts DEF RunnerSound
<1>5. PICK d : d = [c EXCEPT !.phase = "poll"]
  OBVIOUS
<1>6. d \in Cursor /\ CursorSound(d, forge.issues, job[j].before, issues, commits) /\ d.policy_read = c.policy_read
  <2>1. c.phase # "done" /\ "poll" \in Phases \ {"done"} /\ ("poll" = "index_commits" => c.include = "none" \/ c.phase = "index_commits")
    BY <1>4 DEF Phases
  <2> QED BY <1>3, <1>5, <2>1, PhaseSound
<1>7. repo' \in Repo /\ repo'.kind = repo.kind /\ repo'.row = repo.row /\ repo'.policy = repo.policy
  BY <1>2, <1>4 DEF HubSound, Repo
<1>8. HubSound(forge', repo', issues', commits') /\ Grows(forge, repo, issues, commits, forge', repo', issues', commits')
  <2>1. HubSound(forge', repo', issues', commits')
    BY <1>2, <1>3, <1>4, <1>7 DEF HubSound
  <2>2. Grows(forge, repo, issues, commits, forge', repo', issues', commits')
    BY <1>2, <1>4, <1>7 DEF Grows, Owned
  <2> QED BY <2>1, <2>2
<1>9. (c.policy_read \/ d.policy_read => Owned(repo', repo'.policy)) /\ Goes(j, "write", d)
  BY <1>2, <1>3, <1>5, <1>6, <1>7 DEF Owned
<1> QED BY <1>2, <1>3, <1>6, <1>8, <1>9, PhaseCommits

LEMMA PolledSound ==
    ASSUME NEW c \in Cursor, NEW n, NEW before, NEW held, NEW read, CursorSound(c, n, before, held, read),
           NEW k \in 0 .. PollAttempts, NEW d, d = [c EXCEPT !.polls = k]
    PROVE  /\ d \in Cursor /\ CursorSound(d, n, before, held, read) /\ d.phase = c.phase /\ d.policy_read = c.policy_read
<1>1. d \in Cursor
  BY DEF Cursor
<1>2. /\ d.phase = c.phase /\ d.number = c.number /\ d.page = c.page /\ d.seen = c.seen /\ d.commits = c.commits
      /\ d.partial = c.partial /\ d.git = c.git /\ d.policy_read = c.policy_read /\ d.include = c.include
  BY DEF Cursor
<1>3. Wanted(d, d.seen) = Wanted(c, c.seen) /\ Wanted(d, d.number) = Wanted(c, c.number) /\ Wanted(d, before) = Wanted(c, before)
  BY <1>2 DEF Wanted
<1> QED BY <1>1, <1>2, <1>3 DEF CursorSound

LEMMA PollStep ==
    ASSUME ImportSound, NEW j \in Jobs, _step_poll(j)
    PROVE  ImportSound'
<1>1. PICK c : c = runner[j].cursor
  OBVIOUS
<1>2. PICK p : p = [c EXCEPT !.polls = @ + 1]
  OBVIOUS
<1>3. /\ runner[j].pc = "step" /\ c.phase = "poll" /\ UNCHANGED <<forge, issues, commits>>
      /\ IF p.polls > PollAttempts
         THEN _fail(j, [p EXCEPT !.polls = PollAttempts], "")
         ELSE /\ job' = [job EXCEPT ![j].cursor = p]
              /\ Goes(j, "write", IF migration_finished THEN [p EXCEPT !.phase = "mirror_issues"] ELSE p)
              /\ UNCHANGED repo
  BY <1>1, <1>2 DEF _step_poll, At
<1>4. /\ c \in Cursor /\ runner[j].pc \notin Resting /\ repo.row /\ job[j].status = "running"
      /\ CursorSound(c, forge.issues, job[j].before, issues, commits)
      /\ (c.policy_read => Owned(repo, repo.policy))
  BY <1>1, <1>3, AtStep
<1>5. PollAttempts \in Nat /\ c.polls \in Nat /\ p.polls = c.polls + 1
  BY <1>2, <1>4, RepoImportAssumption DEF Cursor
<1>6. CASE p.polls > PollAttempts
  <2>1. PICK d : d = [c EXCEPT !.polls = PollAttempts]
    OBVIOUS
  <2>2. d = [p EXCEPT !.polls = PollAttempts]
    BY <1>2, <1>4, <2>1 DEF Cursor
  <2>3. PollAttempts \in 0 .. PollAttempts
    BY <1>5
  <2>4. d \in Cursor /\ CursorSound(d, forge.issues, job[j].before, issues, commits) /\ d.policy_read = c.policy_read
    BY <1>4, <2>1, <2>3, PolledSound
  <2>5. /\ forge' \in [migration : {"none", "running", "finished"}, issues : 0 .. LastIssues]
        /\ forge'.issues = forge.issues /\ (forge.migration # "none" => forge'.migration # "none")
    BY <1>3, JobFacts DEF HubSound
  <2>6. _fail(j, d, "")
    BY <1>3, <1>6, <2>2
  <2> QED BY <1>3, <1>4, <2>4, <2>5, <2>6, FailStep
<1>7. CASE ~(p.polls > PollAttempts)
  <2>1. PICK k : k = c.polls + 1
    OBVIOUS
  <2>2. k \in 0 .. PollAttempts /\ p = [c EXCEPT !.polls = k]
    BY <1>2, <1>5, <1>7, <2>1
  <2>3. p \in Cursor /\ CursorSound(p, forge.issues, job[j].before, issues, commits) /\ p.phase = c.phase /\ p.policy_read = c.policy_read
    BY <1>4, <2>2, PolledSound
  <2>4. PICK e : e = IF migration_finished THEN [p EXCEPT !.phase = "mirror_issues"] ELSE p
    OBVIOUS
  <2>5. e \in Cursor /\ CursorSound(e, forge.issues, job[j].before, issues, commits) /\ e.policy_read = p.policy_read
    <3>1. PICK q : q = [p EXCEPT !.phase = "mirror_issues"]
      OBVIOUS
    <3>2. p.phase # "done" /\ "mirror_issues" \in Phases \ {"done"}
          /\ ("mirror_issues" = "index_commits" => p.include = "none" \/ p.phase = "index_commits")
      BY <1>3, <2>3 DEF Phases
    <3>3. q \in Cursor /\ CursorSound(q, forge.issues, job[j].before, issues, commits) /\ q.policy_read = p.policy_read
      BY <2>3, <3>1, <3>2, PhaseSound
    <3> QED BY <2>3, <2>4, <3>1, <3>3
  <2>6. /\ job' = [job EXCEPT ![j].cursor = p] /\ Goes(j, "write", e) /\ UNCHANGED <<forge, repo, issues, commits>>
    BY <1>3, <1>7, <2>4
  <2>7. HubSound(forge', repo', issues', commits') /\ Grows(forge, repo, issues, commits, forge', repo', issues', commits')
    BY <2>6, Same
  <2>8. p.policy_read \/ e.policy_read => Owned(repo', repo'.policy)
    BY <1>4, <2>3, <2>5, <2>6
  <2> QED BY <1>4, <2>3, <2>5, <2>6, <2>7, <2>8, PhaseCommits
<1> QED BY <1>6, <1>7

LEMMA MirrorStep ==
    ASSUME ImportSound, NEW j \in Jobs, _step_mirror_issues(j)
    PROVE  ImportSound'
<1>1. PICK c : c = runner[j].cursor
  OBVIOUS
<1>2. PICK k, d, w : k = Kept(c) /\ d = Turned(c) /\ w = job[j]
  OBVIOUS
<1>3. PICK r : r = [pc |-> IF k = {} THEN "mirrored" ELSE "upsert", cursor |-> d, rows |-> k, new |-> k \ issues, policy |-> ""]
  OBVIOUS
<1>4. /\ runner[j].pc = "step" /\ c.phase = "mirror_issues" /\ UNCHANGED <<forge, repo, job, issues, commits>>
      /\ runner' = [runner EXCEPT ![j] = r]
  BY <1>1, <1>2, <1>3 DEF _step_mirror_issues, At, Turned
<1>5. /\ c \in Cursor /\ w.status = "running"
      /\ CursorSound(c, forge.issues, w.before, issues, commits)
      /\ (c.policy_read => Owned(repo, repo.policy))
  BY <1>1, <1>2, <1>4, AtStep
<1>6. forge.issues \in Nat /\ w.before \in Nat /\ w.before <= forge.issues
  BY <1>2, JobFacts DEF JobSound
<1>7. /\ d \in Cursor /\ d.policy_read = c.policy_read /\ d.phase \in {"mirror_issues", "index_commits"}
      /\ CursorSound(d, forge.issues, w.before, issues \cup k, commits)
      /\ k \subseteq 1 .. forge.issues
  BY <1>2, <1>4, <1>5, <1>6, PageTurned
<1>8. r \in RunnerRow
  <2>2. \A i \in k : i \in Nat
    BY <1>6, <1>7
  <2>1. k \in SUBSET Nat /\ k \ issues \in SUBSET Nat
    BY <2>2
  <2> QED BY ONLY <1>3, <1>7, <2>1 DEF RunnerRow, Resting
<1>9. r.pc \in {"mirrored", "upsert"} /\ r.pc \notin Resting /\ r.cursor = d /\ r.policy = "" /\ (r.pc = "mirrored" => k = {}) /\ r.rows = k
  BY <1>3 DEF Resting
<1>10. Pending(r, "upsert") = k /\ Pending(r, "index") = {}
  BY <1>9 DEF Pending
<1>11. RunnerSound(r, w, forge, repo, issues, commits)
  <2>1. commits \cup {} = commits
    OBVIOUS
  <2>2. CursorSound(r.cursor, forge.issues, w.before, issues \cup Pending(r, "upsert"), commits \cup Pending(r, "index"))
    BY <1>7, <1>9, <1>10, <2>1
  <2>3. r.pc # "migrated"
    BY <1>9
  <2> QED BY <1>5, <1>7, <1>9, <1>10, <2>2, <2>3 DEF RunnerSound
<1> QED BY <1>2, <1>4, <1>8, <1>11, RunnerMoves

LEMMA UpsertIssuesStep ==
    ASSUME ImportSound, NEW j \in Jobs, _upsert_issues(j)
    PROVE  ImportSound'
<1>1. CASE runner[j].new \cap issues # {}
  <2>1. runner' = [runner EXCEPT ![j] = Idle] /\ UNCHANGED <<forge, repo, job, issues, commits>>
    BY <1>1 DEF _upsert_issues
  <2> QED BY <2>1, RunnerStops
<1>2. CASE ~(runner[j].new \cap issues # {})
  <2>1. PICK q, r, w : q = runner[j] /\ r = [q EXCEPT !.pc = "mirrored"] /\ w = job[j]
    OBVIOUS
  <2>2. /\ q.pc = "upsert" /\ issues' = issues \cup q.rows /\ repo' = [repo EXCEPT !.sync = "issues"]
        /\ runner' = [runner EXCEPT ![j] = r] /\ UNCHANGED <<forge, job, commits>>
    BY <1>2, <2>1 DEF _upsert_issues
  <2>3. /\ q \in RunnerRow /\ RunnerSound(q, w, forge, repo, issues, commits) /\ w \in JobRow
        /\ JobSound(w, forge, repo, issues, commits) /\ HubSound(forge, repo, issues, commits) /\ forge.issues \in Nat
    BY <2>1, JobFacts
  <2>4. r \in RunnerRow /\ r.pc = "mirrored" /\ r.cursor = q.cursor /\ r.policy = q.policy
    BY <2>1, <2>3 DEF RunnerRow
  <2>5. /\ Pending(q, "upsert") = q.rows /\ Pending(q, "index") = {}
        /\ Pending(r, "upsert") = {} /\ Pending(r, "index") = {}
    BY <2>2, <2>4 DEF Pending
  <2>6. q.rows \subseteq 1 .. forge.issues
    BY <2>3, <2>5 DEF RunnerSound
  <2>7. repo' \in Repo /\ repo'.kind = repo.kind /\ repo'.row = repo.row /\ repo'.policy = repo.policy /\ repo'.forgejo = repo.forgejo
    BY <2>2, <2>3 DEF HubSound, Repo
  <2>8. HubSound(forge', repo', issues', commits')
    <3>1. forge.issues <= LastIssues /\ LastIssues \in Nat
      BY <2>3, RepoImportAssumption DEF HubSound
    <3>2. 1 .. forge.issues \subseteq 1 .. LastIssues
      BY <2>3, <3>1
    <3>3. issues' \subseteq 1 .. LastIssues
      BY <2>2, <2>3, <2>6, <3>2 DEF HubSound
    <3> QED BY <2>2, <2>3, <2>7, <3>3 DEF HubSound
  <2>9. Grows(forge, repo, issues, commits, forge', repo', issues', commits')
    BY <2>2, <2>3, <2>7 DEF Grows, Owned
  <2>10. JobSound(w, forge', repo', issues', commits')
    BY <2>3, <2>8, <2>9, JobKept
  <2>11. RunnerSound(r, w, forge', repo', issues', commits')
    <3>1. issues' \cup {} = issues \cup q.rows /\ commits' \cup {} = commits \cup {}
      BY <2>2
    <3>2. CursorSound(r.cursor, forge'.issues, w.before, issues' \cup Pending(r, "upsert"), commits' \cup Pending(r, "index"))
      BY <2>2, <2>3, <2>4, <2>5, <3>1 DEF RunnerSound
    <3>3. w.status = "running" /\ q.policy = "" /\ (q.cursor.policy_read => Owned(repo, repo.policy)) /\ q.cursor.phase \in {"mirror_issues", "index_commits"}
      BY <2>2, <2>3 DEF RunnerSound, Resting
    <3>4. r.cursor.policy_read => Owned(repo', repo'.policy)
      BY <2>4, <2>7, <3>3 DEF Owned
    <3>5. r.pc # "migrated"
      BY <2>4
    <3> QED BY <2>4, <2>5, <3>2, <3>3, <3>4, <3>5 DEF RunnerSound
  <2>12. UNCHANGED job /\ w = job[j]
    BY <2>1, <2>2
  <2> QED BY <2>2, <2>3, <2>4, <2>8, <2>9, <2>10, <2>11, <2>12, OneMoves
<1> QED BY <1>1, <1>2

LEMMA MirrorStateStep ==
    ASSUME ImportSound, NEW j \in Jobs, _mirror_state(j)
    PROVE  ImportSound'
<1>1. PICK c : c = runner[j].cursor
  OBVIOUS
<1>2. PICK d : d = [c EXCEPT !.phase = "mirror_issues"]
  OBVIOUS
<1>3. PICK st : st = IF runner[j].rows = {} THEN "issues" ELSE repo.sync
  OBVIOUS
<1>4. /\ runner[j].pc = "mirrored" /\ job' = [job EXCEPT ![j].cursor = d] /\ Goes(j, "write", c)
      /\ repo' = [repo EXCEPT !.sync = st] /\ UNCHANGED <<forge, issues, commits>>
  BY <1>1, <1>2, <1>3 DEF _mirror_state
<1>5. /\ c \in Cursor /\ runner[j].pc \notin Resting /\ repo.row /\ job[j].status = "running"
      /\ CursorSound(c, forge.issues, job[j].before, issues, commits)
      /\ (c.policy_read => Owned(repo, repo.policy))
  BY <1>1, <1>4, AtStep
<1>6. HubSound(forge, repo, issues, commits) /\ c.phase \in {"mirror_issues", "index_commits"}
  <2>1. RunnerSound(runner[j], job[j], forge, repo, issues, commits)
    BY JobFacts
  <2> QED BY <1>1, <1>4, <2>1, JobFacts DEF RunnerSound
<1>7. d \in Cursor /\ CursorSound(d, forge.issues, job[j].before, issues, commits) /\ d.policy_read = c.policy_read
  <2>1. c.phase # "done" /\ "mirror_issues" \in Phases \ {"done"}
        /\ ("mirror_issues" = "index_commits" => c.include = "none" \/ c.phase = "index_commits")
    BY <1>6 DEF Phases
  <2> QED BY <1>2, <1>5, <2>1, PhaseSound
<1>8. st \in {"pending", "cloning", "issues", "indexing", "ready", "error"}
  BY <1>3, <1>6 DEF HubSound, Repo
<1>9. /\ HubSound(forge', repo', issues', commits')
      /\ Grows(forge, repo, issues, commits, forge', repo', issues', commits')
      /\ \A policy : Owned(repo, policy) => Owned(repo', policy)
      /\ repo'.policy = repo.policy
  <2>1. /\ forge' \in [migration : {"none", "running", "finished"}, issues : 0 .. LastIssues]
        /\ forge'.issues = forge.issues /\ (forge.migration # "none" => forge'.migration # "none")
    BY <1>4, <1>6 DEF HubSound
  <2> QED BY <1>4, <1>8, <2>1, SyncWritten
<1>10. d.policy_read \/ c.policy_read => Owned(repo', repo'.policy)
  BY <1>5, <1>7, <1>9
<1> QED BY <1>4, <1>5, <1>7, <1>9, <1>10, PhaseCommits

\* The policy a page of commits writes, and a row that has it.
LEMMA CachedSound ==
    ASSUME NEW rp \in Repo, NEW policy \in {"", "unset", "default", "file"}, policy # "" => Owned(rp, policy)
    PROVE  /\ Cached(rp, policy) \in Repo
           /\ Cached(rp, policy).kind = rp.kind /\ Cached(rp, policy).row = rp.row /\ Cached(rp, policy).forgejo = rp.forgejo
           /\ Cached(rp, policy).policy = IF policy = "" THEN rp.policy ELSE policy
           /\ (Owned(rp, rp.policy) => Owned(Cached(rp, policy), Cached(rp, policy).policy))
           /\ (policy # "" => Owned(Cached(rp, policy), Cached(rp, policy).policy))
<1>1. /\ Cached(rp, policy) \in Repo
      /\ Cached(rp, policy).kind = rp.kind /\ Cached(rp, policy).row = rp.row /\ Cached(rp, policy).forgejo = rp.forgejo
      /\ Cached(rp, policy).policy = IF policy = "" THEN rp.policy ELSE policy
  BY DEF Cached, Repo
<1> QED BY <1>1 DEF Owned

LEMMA IndexStep ==
    ASSUME ImportSound, ~GitFaults, NEW j \in Jobs, _step_index_commits(j)
    PROVE  ImportSound'
<1> DEFINE c == runner[j].cursor
           room == IF c.commits >= MaxCommits THEN 0 ELSE MaxCommits - c.commits
<1>1. PICK answered \in BOOLEAN, readable \in BOOLEAN, text \in read_file :
         LET policy == IF c.policy_read THEN "" ELSE _refresh_repo_policy(text)
             page == IF answered THEN ApiPage(c.page) ELSE {}
             fallback == page = {} /\ ~c.git
             found == IF fallback THEN stream(room + 1) ELSE page
             kept == Smallest(found, room)
             next == answered /\ Cardinality(page) >= Size
             read == c.commits + Cardinality(kept)
             full == Cardinality(found) > room
             done == ~next \/ full \/ fallback \/ read >= MaxCommits IN
         /\ IF answered /\ readable THEN UNCHANGED faults ELSE Fault
         /\ ~readable => GitFaults
         /\ c.policy_read => text = ""
         /\ IF fallback /\ ~readable
            THEN _fail(j, [c EXCEPT !.git = TRUE, !.policy_read = TRUE], policy)
            ELSE /\ runner' = [runner EXCEPT ![j] =
                      [pc |-> IF kept = {} THEN "indexed" ELSE "index", rows |-> kept, new |-> kept \ commits,
                       policy |-> policy,
                       cursor |-> [c EXCEPT !.policy_read = TRUE, !.git = @ \/ fallback,
                                            !.page = @ + 1, !.commits = read,
                                            !.partial = @ \/ full \/ (done /\ next),
                                            !.phase = IF done THEN "done" ELSE @]]]
                 /\ UNCHANGED <<repo, job>>
  BY DEF _step_index_commits
<1> DEFINE w == job[j]
           policy == IF c.policy_read THEN "" ELSE _refresh_repo_policy(text)
           kept == KeptOf(c, answered)
           d == Indexed(c, answered)
           r == [pc |-> IF kept = {} THEN "indexed" ELSE "index", rows |-> kept, new |-> kept \ commits,
                 policy |-> policy, cursor |-> d]
<1>2. readable
  BY <1>1
<1>3. runner[j].pc = "step" /\ c.phase = "index_commits" /\ UNCHANGED <<forge, issues, commits>>
  BY DEF _step_index_commits, At
<1>4. runner' = [runner EXCEPT ![j] = r] /\ UNCHANGED <<repo, job>>
  BY <1>1, <1>2 DEF Indexed, KeptOf, CommitRoom, PageOf, FallsBack, RowsOf, HasNext, CountOf, IsFull, IsDone
<1>5. policy = IF c.policy_read THEN "" ELSE _refresh_repo_policy(text)
  OBVIOUS
<1>14. r = [pc |-> IF kept = {} THEN "indexed" ELSE "index", rows |-> kept, new |-> kept \ commits,
            policy |-> policy, cursor |-> d]
  OBVIOUS
<1>16. /\ c \in Cursor /\ w.status = "running"
       /\ CursorSound(c, forge.issues, w.before, issues, commits)
       /\ (c.policy_read => Owned(repo, repo.policy))
  BY <1>3, AtStep
<1>17. /\ d \in Cursor /\ CursorSound(d, forge.issues, w.before, issues, commits \cup kept)
       /\ kept \subseteq (1 .. Commits) \cap (1 .. MaxCommits)
  <2> HIDE DEF c, w, room
  <2> QED BY <1>3, <1>16, CommitsRead
<1> HIDE DEF c, w, room, policy, kept, d, r
<1>18. /\ policy \in {"", "unset", "default", "file"} /\ (policy # "" => Owned(repo, policy))
       /\ (policy = "" => Owned(repo, repo.policy))
  <2>1. CASE c.policy_read
    BY <1>5, <1>16, <2>1
  <2>2. CASE ~c.policy_read
    <3>1. policy = _refresh_repo_policy(text) /\ text \in {"", "file"} /\ repo.kind \in {"upstream", "workspace"}
      BY <1>5, <2>2, JobFacts DEF read_file, HubSound, Repo
    <3> QED BY <3>1 DEF _refresh_repo_policy, _clear_repo_policy, Owned
  <2> QED BY <2>1, <2>2
<1>19. r \in RunnerRow
  <2>1. \A i \in kept : i \in Nat
    BY <1>17
  <2>2. kept \in SUBSET Nat /\ kept \ commits \in SUBSET Nat
    BY <2>1
  <2> QED BY ONLY <1>14, <1>17, <1>18, <2>2 DEF RunnerRow, Resting
<1>20. /\ r.pc \in {"indexed", "index"} /\ r.pc \notin Resting /\ r.cursor = d /\ r.policy = policy
       /\ (r.pc = "indexed" => kept = {}) /\ r.rows = kept
  BY <1>14 DEF Resting
<1>21. Pending(r, "upsert") = {} /\ Pending(r, "index") = kept
  BY <1>20 DEF Pending
<1>22. RunnerSound(r, w, forge, repo, issues, commits)
  <2>1. issues \cup {} = issues
    OBVIOUS
  <2>2. CursorSound(r.cursor, forge.issues, w.before, issues \cup Pending(r, "upsert"), commits \cup Pending(r, "index"))
    BY <1>17, <1>20, <1>21, <2>1
  <2>3. r.pc # "migrated" /\ r.pc \notin {"upsert", "mirrored"}
    BY <1>20
  <2> QED BY <1>16, <1>17, <1>18, <1>20, <1>21, <2>2, <2>3 DEF RunnerSound
<1> QED BY <1>3, <1>4, <1>19, <1>22, RunnerMoves DEF w

LEMMA UpsertCommitsStep ==
    ASSUME ImportSound, NEW j \in Jobs, _upsert_commits(j)
    PROVE  ImportSound'
<1>1. CASE runner[j].new \cap commits # {}
  <2>1. runner' = [runner EXCEPT ![j] = Idle] /\ UNCHANGED <<forge, repo, job, issues, commits>>
    BY <1>1 DEF _upsert_commits
  <2> QED BY <2>1, RunnerStops
<1>2. CASE ~(runner[j].new \cap commits # {})
  <2>1. PICK q, w : q = runner[j] /\ w = job[j]
    OBVIOUS
  <2>2. PICK r : r = [q EXCEPT !.pc = "indexed", !.policy = ""]
    OBVIOUS
  <2>3. /\ q.pc = "index" /\ commits' = commits \cup q.rows
        /\ repo' = [Cached(repo, q.policy) EXCEPT !.sync = "indexing"]
        /\ runner' = [runner EXCEPT ![j] = r] /\ UNCHANGED <<forge, job, issues>>
    BY <1>2, <2>1, <2>2 DEF _upsert_commits
  <2>4. /\ q \in RunnerRow /\ RunnerSound(q, w, forge, repo, issues, commits) /\ w \in JobRow
        /\ JobSound(w, forge, repo, issues, commits) /\ HubSound(forge, repo, issues, commits) /\ forge.issues \in Nat
    BY <2>1, JobFacts
  <2>5. r \in RunnerRow /\ r.pc = "indexed" /\ r.cursor = q.cursor /\ r.policy = ""
    BY <2>2, <2>4 DEF RunnerRow
  <2>6. /\ Pending(q, "upsert") = {} /\ Pending(q, "index") = q.rows
        /\ Pending(r, "upsert") = {} /\ Pending(r, "index") = {}
    BY <2>3, <2>5 DEF Pending
  <2>7. /\ q.rows \subseteq (1 .. Commits) \cap (1 .. MaxCommits) /\ w.status = "running"
        /\ (q.policy # "" => Owned(repo, q.policy))
        /\ (q.cursor.policy_read /\ q.policy = "" => Owned(repo, repo.policy))
    BY <2>3, <2>4, <2>6 DEF RunnerSound, Resting
  <2>8. PICK m : m = Cached(repo, q.policy)
    OBVIOUS
  <2>9. /\ m \in Repo /\ m.kind = repo.kind /\ m.row = repo.row /\ m.forgejo = repo.forgejo
        /\ (Owned(repo, repo.policy) => Owned(m, m.policy))
        /\ (q.policy # "" => Owned(m, m.policy))
    <3>1. repo \in Repo /\ q.policy \in {"", "unset", "default", "file"}
      BY <2>4 DEF HubSound, RunnerRow
    <3> QED BY <2>7, <2>8, <3>1, CachedSound
  <2>10. /\ repo' \in Repo /\ repo'.kind = m.kind /\ repo'.row = m.row /\ repo'.forgejo = m.forgejo /\ repo'.policy = m.policy
    <3>1. repo' = [m EXCEPT !.sync = "indexing"]
      BY <2>3, <2>8
    <3> QED BY <2>9, <3>1 DEF Repo
  <2>11. (Owned(repo, repo.policy) => Owned(repo', repo'.policy)) /\ (q.policy # "" => Owned(repo', repo'.policy))
    BY <2>9, <2>10 DEF Owned
  <2>12. HubSound(forge', repo', issues', commits')
    <3>1. commits' \subseteq (1 .. Commits) \cap (1 .. MaxCommits)
      BY <2>3, <2>4, <2>7 DEF HubSound
    <3>2. repo' \in Repo /\ (repo'.forgejo => repo'.row /\ forge'.migration # "none")
      BY <2>3, <2>4, <2>9, <2>10 DEF HubSound
    <3>3. forge' = forge /\ issues' = issues
      BY <2>3
    <3> QED BY <2>4, <3>1, <3>2, <3>3 DEF HubSound
  <2>13. Grows(forge, repo, issues, commits, forge', repo', issues', commits')
    <3>1. forge' = forge /\ forge.issues \in Nat /\ issues' = issues /\ commits \subseteq commits'
      BY <2>3, <2>4
    <3>2. (repo.row => repo'.row) /\ repo'.kind = repo.kind
      BY <2>9, <2>10
    <3>3. Owned(repo, repo.policy) => Owned(repo', repo'.policy)
      BY <2>11
    <3>4. forge.issues <= forge'.issues /\ (forge.migration # "none" => forge'.migration # "none")
      BY <3>1
    <3>5. issues \subseteq issues' /\ commits \subseteq commits'
      BY <3>1
    <3> QED BY <3>2, <3>3, <3>4, <3>5 DEF Grows
  <2>14. JobSound(w, forge', repo', issues', commits')
    BY <2>4, <2>12, <2>13, JobKept
  <2>15. RunnerSound(r, w, forge', repo', issues', commits')
    <3>1. issues' \cup {} = issues \cup {} /\ commits' \cup {} = commits \cup q.rows
      BY <2>3
    <3>2. CursorSound(r.cursor, forge'.issues, w.before, issues' \cup Pending(r, "upsert"), commits' \cup Pending(r, "index"))
      BY <2>3, <2>4, <2>5, <2>6, <3>1 DEF RunnerSound
    <3>3. r.cursor.policy_read => Owned(repo', repo'.policy)
      BY <2>5, <2>7, <2>11
    <3>4. r.pc \notin {"upsert", "mirrored"} /\ r.pc # "migrated"
      BY <2>5
    <3> QED BY <2>5, <2>6, <2>7, <3>2, <3>3, <3>4 DEF RunnerSound
  <2>16. UNCHANGED job /\ w = job[j]
    BY <2>1, <2>3
  <2> QED BY <2>3, <2>4, <2>5, <2>12, <2>13, <2>14, <2>15, <2>16, OneMoves
<1> QED BY <1>1, <1>2

LEMMA IndexStateStep ==
    ASSUME ImportSound, NEW j \in Jobs, _step_index_commits_state(j)
    PROVE  ImportSound'
<1>1. PICK c, q : c = runner[j].cursor /\ q = runner[j].policy
  OBVIOUS
<1>2. PICK m, st, n : /\ m = Cached(repo, q) /\ st = IF runner[j].rows = {} THEN "indexing" ELSE m.sync
                      /\ n = IF c.phase = "done" THEN c.commits ELSE m.commits
  OBVIOUS
<1>3. /\ runner[j].pc = "indexed" /\ job' = [job EXCEPT ![j].cursor = c] /\ Goes(j, "write", c)
      /\ repo' = [m EXCEPT !.sync = st, !.commits = n] /\ UNCHANGED <<forge, issues, commits>>
  BY <1>1, <1>2 DEF _step_index_commits_state
<1>4. /\ c \in Cursor /\ runner[j].pc \notin Resting /\ repo.row /\ job[j].status = "running"
      /\ CursorSound(c, forge.issues, job[j].before, issues, commits)
  BY <1>1, <1>3, AtStep
<1>5. /\ HubSound(forge, repo, issues, commits) /\ forge.issues \in Nat /\ q \in {"", "unset", "default", "file"}
      /\ (q # "" => Owned(repo, q)) /\ (c.policy_read /\ q = "" => Owned(repo, repo.policy))
  <2>1. runner[j] \in RunnerRow /\ RunnerSound(runner[j], job[j], forge, repo, issues, commits)
    BY JobFacts
  <2>2. (q # "" => Owned(repo, q)) /\ (c.policy_read /\ q = "" => Owned(repo, repo.policy))
    BY <1>1, <2>1 DEF RunnerSound
  <2> QED BY <1>1, <2>1, <2>2, JobFacts DEF RunnerRow
<1>6. /\ m \in Repo /\ m.kind = repo.kind /\ m.row = repo.row /\ m.forgejo = repo.forgejo
      /\ (Owned(repo, repo.policy) => Owned(m, m.policy))
      /\ (q # "" => Owned(m, m.policy))
  <2>1. repo \in Repo
    BY <1>5 DEF HubSound
  <2> QED BY <1>2, <1>5, <2>1, CachedSound
<1>7. st \in {"pending", "cloning", "issues", "indexing", "ready", "error"} /\ n \in 0 .. MaxCommits
  BY <1>2, <1>4, <1>6 DEF Repo, Cursor
<1>8. /\ repo' \in Repo /\ repo'.kind = m.kind /\ repo'.row = m.row /\ repo'.forgejo = m.forgejo /\ repo'.policy = m.policy
  BY <1>3, <1>6, <1>7 DEF Repo
<1>9. (Owned(repo, repo.policy) => Owned(repo', repo'.policy)) /\ (q # "" => Owned(repo', repo'.policy))
  BY <1>6, <1>8 DEF Owned
<1>10. HubSound(forge', repo', issues', commits')
  <2>1. repo' \in Repo /\ (repo'.forgejo => repo'.row /\ forge'.migration # "none")
    BY <1>3, <1>5, <1>6, <1>8 DEF HubSound
  <2>2. forge' = forge /\ issues' = issues /\ commits' = commits
    BY <1>3
  <2> QED BY <1>5, <2>1, <2>2 DEF HubSound
<1>11. Grows(forge, repo, issues, commits, forge', repo', issues', commits')
  <2>1. forge' = forge /\ forge.issues \in Nat /\ issues' = issues /\ commits' = commits
    BY <1>3, <1>5
  <2>2. (repo.row => repo'.row) /\ repo'.kind = repo.kind
    BY <1>6, <1>8
  <2>3. Owned(repo, repo.policy) => Owned(repo', repo'.policy)
    BY <1>9
  <2>4. forge.issues <= forge'.issues /\ (forge.migration # "none" => forge'.migration # "none")
    BY <2>1
  <2>5. issues \subseteq issues' /\ commits \subseteq commits'
    BY <2>1
  <2> QED BY <2>2, <2>3, <2>4, <2>5 DEF Grows
<1>12. c.policy_read \/ c.policy_read => Owned(repo', repo'.policy)
  BY <1>5, <1>9
<1> QED BY <1>3, <1>4, <1>10, <1>11, <1>12, PhaseCommits

LEMMA FinishStep ==
    ASSUME ImportSound, NEW j \in Jobs, _finish(j)
    PROVE  ImportSound'
<1>1. PICK c, r : c = runner[j].cursor /\ r = Idle
  OBVIOUS
<1>2. PICK w : w = [job[j] EXCEPT !.status = "done", !.cursor = c]
  OBVIOUS
<1>3. PICK n, k : n = Cardinality(issues) /\ k = Cardinality(commits)
  OBVIOUS
<1>4. /\ runner[j].pc = "step" /\ c.phase = "done"
      /\ repo' = [repo EXCEPT !.sync = "ready", !.issues = n, !.commits = k]
      /\ job' = [job EXCEPT ![j] = w] /\ runner' = [runner EXCEPT ![j] = r]
      /\ UNCHANGED <<forge, issues, commits>>
  BY <1>1, <1>2, <1>3 DEF _finish, At
<1>5. /\ c \in Cursor /\ repo.row
      /\ CursorSound(c, forge.issues, job[j].before, issues, commits)
      /\ (c.policy_read => Owned(repo, repo.policy))
  BY <1>1, <1>4, AtStep
<1>6. job[j] \in JobRow /\ HubSound(forge, repo, issues, commits) /\ forge.issues \in Nat
  BY JobFacts
<1>7. n \in 0 .. LastIssues /\ k \in 0 .. MaxCommits
  <2>1. issues \in SUBSET (1 .. LastIssues) /\ commits \in SUBSET (1 .. MaxCommits)
    BY <1>6 DEF HubSound
  <2>2. LastIssues \in Nat /\ MaxCommits \in Nat
    BY RepoImportAssumption
  <2>3. n \in Nat /\ n <= LastIssues
    BY <1>3, <2>1, <2>2, Bounded
  <2>4. k \in Nat /\ k <= MaxCommits
    BY <1>3, <2>1, <2>2, Bounded
  <2> QED BY <2>2, <2>3, <2>4
<1>8. repo' \in Repo /\ repo'.kind = repo.kind /\ repo'.row = repo.row /\ repo'.forgejo = repo.forgejo /\ repo'.policy = repo.policy
  BY <1>4, <1>6, <1>7 DEF HubSound, Repo
<1>9. HubSound(forge', repo', issues', commits')
  BY <1>4, <1>6, <1>8 DEF HubSound
<1>10. Grows(forge, repo, issues, commits, forge', repo', issues', commits')
  BY <1>4, <1>6, <1>8 DEF Grows, Owned
<1>11. w \in JobRow /\ w.status = "done" /\ w.cursor = c /\ w.before = job[j].before
  BY <1>2, <1>5, <1>6 DEF JobRow
<1>12. r \in RunnerRow /\ RunnerSound(r, w, forge', repo', issues', commits')
  BY <1>1, <1>9, IdleSound
<1>13. /\ CursorSound(w.cursor, forge.issues, w.before, issues, commits) /\ (w.status = "done" => w.cursor.phase = "done")
       /\ (w.cursor.policy_read => Owned(repo', repo'.policy)) /\ forge'.issues = forge.issues
  BY <1>4, <1>5, <1>8, <1>11 DEF Owned
<1> QED BY <1>4, <1>5, <1>9, <1>10, <1>11, <1>12, <1>13, JobCommits

LEMMA ImportStarts == ImportInit => ImportSound
<1> SUFFICES ASSUME ImportInit PROVE ImportSound
  OBVIOUS
<1>1. /\ forge = [migration |-> "none", issues |-> FirstIssues]
      /\ repo \in {NoRepo, [NoRepo EXCEPT !.row = TRUE, !.kind = "workspace"], [NoRepo EXCEPT !.row = TRUE, !.policy = "file"]}
      /\ issues = {} /\ commits = {}
  BY DEF ImportInit
<1>2. forge \in [migration : {"none", "running", "finished"}, issues : 0 .. LastIssues] /\ forge.issues \in Nat
  BY <1>1, RepoImportAssumption
<1>3. NoRepo \in Repo /\ NoRepo.forgejo = FALSE
  BY RepoImportAssumption DEF NoRepo, Repo
<1>4. repo \in Repo /\ ~repo.forgejo
  BY <1>1, <1>3 DEF Repo
<1>5. HubSound(forge, repo, issues, commits)
  BY <1>1, <1>2, <1>4 DEF HubSound
<1>6. PICK w, r : w = NoJob /\ r = Idle
  OBVIOUS
<1>7. job = [j \in Jobs |-> w] /\ runner = [j \in Jobs |-> r]
  BY <1>6 DEF ImportInit
<1>8. NewCursor("validate", "all") \in Cursor
      /\ CursorSound(NewCursor("validate", "all"), forge.issues, 0, issues, commits)
  BY <1>2, NewSound
<1>9. r \in RunnerRow /\ RunnerSound(r, w, forge, repo, issues, commits)
  BY <1>5, <1>6, IdleSound
<1>10. w \in JobRow /\ JobSound(w, forge, repo, issues, commits)
  <2>1. PICK c : c = NewCursor("validate", "all")
    OBVIOUS
  <2>2. c.policy_read = FALSE
    BY <2>1 DEF NewCursor
  <2>3. w = [status |-> "none", cursor |-> c, before |-> 0]
    BY <1>6, <2>1 DEF NoJob
  <2>4. w \in JobRow /\ w.cursor = c /\ w.before = 0 /\ w.status = "none"
    BY <1>8, <2>1, <2>3 DEF JobRow
  <2> QED BY <1>2, <1>8, <2>1, <2>2, <2>4 DEF JobSound
<1> QED BY <1>5, <1>7, <1>9, <1>10 DEF ImportSound

LEMMA ImportStep == ImportSound /\ ~GitFaults /\ [ImportNext]_importVars => ImportSound'
<1> SUFFICES ASSUME ImportSound, ~GitFaults, [ImportNext]_importVars PROVE ImportSound'
  OBVIOUS
<1>1. HubSound(forge, repo, issues, commits)
  BY DEF ImportSound
<1>2. CASE MigrationEnds
  <2>1. UNCHANGED <<repo, job, runner, issues, commits>> /\ forge' = [forge EXCEPT !.migration = "finished"]
    BY <1>2 DEF MigrationEnds
  <2>2. /\ forge' \in [migration : {"none", "running", "finished"}, issues : 0 .. LastIssues]
        /\ forge'.issues = forge.issues /\ forge'.migration # "none" /\ forge.issues \in Int
    BY <1>1, <2>1, RepoImportAssumption DEF HubSound
  <2>3. HubSound(forge', repo', issues', commits')
    BY <1>1, <2>1, <2>2 DEF HubSound
  <2>4. Grows(forge, repo, issues, commits, forge', repo', issues', commits')
    BY <2>1, <2>2 DEF Grows
  <2> QED BY <2>1, <2>3, <2>4, NoneMoves
<1>3. CASE IssueOpened
  <2>1. /\ UNCHANGED <<repo, job, runner, issues, commits>> /\ forge' = [forge EXCEPT !.issues = @ + 1]
        /\ forge.issues < LastIssues
    BY <1>3 DEF IssueOpened
  <2>2. /\ forge' \in [migration : {"none", "running", "finished"}, issues : 0 .. LastIssues]
        /\ forge.issues <= forge'.issues /\ forge'.migration = forge.migration
    BY <1>1, <2>1, RepoImportAssumption DEF HubSound
  <2>3. HubSound(forge', repo', issues', commits')
    BY <1>1, <2>1, <2>2 DEF HubSound
  <2>4. Grows(forge, repo, issues, commits, forge', repo', issues', commits')
    BY <2>1, <2>2 DEF Grows
  <2> QED BY <2>1, <2>3, <2>4, NoneMoves
<1>4. ASSUME NEW j \in Jobs, Step(j) PROVE ImportSound'
  <2>1. CASE create_job(j)
    BY <2>1, CreateJobStep
  <2>2. CASE create_job_commit(j)
    BY <2>2, CreateCommitStep
  <2>3. CASE run(j)
    BY <2>3, RunStep
  <2>4. CASE run_returns(j) \/ RunnerDies(j)
    <3>1. runner' = [runner EXCEPT ![j] = Idle] /\ UNCHANGED <<forge, repo, job, issues, commits>>
      BY <2>4 DEF run_returns, RunnerDies
    <3> QED BY <3>1, RunnerStops
  <2>5. CASE _step_migrate(j) \/ migrate_retried(j) \/ StepFails(j)
    BY <2>5, StartStep
  <2>6. CASE _write(j)
    BY <2>6, WriteStep
  <2>7. CASE _step_validate(j) \/ _step_mirror_issues_none(j)
    BY <2>7, ValidateStep
  <2>8. CASE _step_migrate_commit(j)
    BY <2>8, MigrateCommitStep
  <2>9. CASE _step_poll(j)
    BY <2>9, PollStep
  <2>10. CASE _step_mirror_issues(j)
    BY <2>10, MirrorStep
  <2>11. CASE _upsert_issues(j)
    BY <2>11, UpsertIssuesStep
  <2>12. CASE _mirror_state(j)
    BY <2>12, MirrorStateStep
  <2>13. CASE _step_index_commits(j)
    BY <2>13, IndexStep
  <2>14. CASE _upsert_commits(j)
    BY <2>14, UpsertCommitsStep
  <2>15. CASE _step_index_commits_state(j)
    BY <2>15, IndexStateStep
  <2>16. CASE _finish(j)
    BY <2>16, FinishStep
  <2> QED BY <1>4, <2>1, <2>2, <2>3, <2>4, <2>5, <2>6, <2>7, <2>8, <2>9, <2>10, <2>11, <2>12, <2>13, <2>14, <2>15, <2>16 DEF Step
<1>5. CASE UNCHANGED importVars
  <2>1. UNCHANGED <<forge, repo, job, runner, issues, commits>>
    BY <1>5 DEF importVars
  <2> QED BY <2>1, Same, NoneMoves
<1> QED BY <1>2, <1>3, <1>4, <1>5 DEF ImportNext

\* What the run checks of the import jobs follows.
LEMMA ImportTrue ==
    ImportSound => ImportTypeOK /\ MirrorComplete /\ CursorBehindRows /\ HistoryTold /\ PolicyOwned
<1> SUFFICES ASSUME ImportSound
             PROVE  ImportTypeOK /\ MirrorComplete /\ CursorBehindRows /\ HistoryTold /\ PolicyOwned
  OBVIOUS
<1>1. HubSound(forge, repo, issues, commits)
  BY DEF ImportSound
<1>2. ASSUME NEW c \in Cursor PROVE CursorType(c)
  <2>1. /\ c.phase \in Phases /\ c.number \in Nat /\ c.page \in Nat /\ c.seen \in Nat /\ c.stored \in Nat
        /\ c.commits \in Nat /\ c.polls \in Nat /\ c.partial \in BOOLEAN /\ c.git \in BOOLEAN /\ c.policy_read \in BOOLEAN
        /\ c.include \in {"none", "issues", "all"}
    BY <1>2 DEF Cursor
  <2>2. c.stored <= MaxIssues /\ c.commits <= MaxCommits /\ c.polls <= PollAttempts
    BY <1>2, RepoImportAssumption DEF Cursor
  <2> QED BY <2>1, <2>2 DEF CursorType
<1>3. ASSUME NEW j \in Jobs PROVE ImportJob(job[j]) /\ CursorType(runner[j].cursor)
  <2>1. /\ job[j] \in JobRow /\ job[j].cursor \in Cursor /\ runner[j].cursor \in Cursor /\ job[j].before \in Nat
        /\ JobSound(job[j], forge, repo, issues, commits)
    BY JobFacts
  <2>2. job[j].before \in 0 .. LastIssues
    <3>1. forge.issues \in 0 .. LastIssues
      BY <1>1 DEF HubSound
    <3> QED BY <2>1, <3>1, RepoImportAssumption DEF JobSound
  <2> QED BY <1>2, <2>1, <2>2 DEF ImportJob, JobRow
<1>4. ImportTypeOK
  <2>1. forge.migration \in {"none", "running", "finished"} /\ forge.issues \in 0 .. LastIssues
    BY <1>1 DEF HubSound
  <2> QED BY <1>1, <1>3, <2>1 DEF ImportTypeOK, HubSound
<1>5. MirrorComplete
  <2> SUFFICES ASSUME NEW j \in Jobs, Complete(j) PROVE Wanted(job[j].cursor, job[j].before) \subseteq issues
    BY DEF MirrorComplete
  <2>1. job[j].status = "done" /\ ~job[j].cursor.partial
    BY DEF Complete, job_payload, partial_of
  <2>2. JobSound(job[j], forge, repo, issues, commits)
    BY JobFacts
  <2> QED BY <2>1, <2>2 DEF JobSound, CursorSound
<1>6. CursorBehindRows
  <2> SUFFICES ASSUME NEW j \in Jobs, ~job[j].cursor.partial
               PROVE  Wanted(job[j].cursor, Max({job[j].cursor.seen, job[j].cursor.number})) \cap (1 .. forge.issues) \subseteq issues
    BY DEF CursorBehindRows
  <2>1. PICK c : c = job[j].cursor
    OBVIOUS
  <2>2. c \in Cursor /\ JobSound(job[j], forge, repo, issues, commits)
    BY <2>1, JobFacts
  <2>3. Wanted(c, c.seen) \subseteq issues /\ Wanted(c, c.number) \subseteq issues
    BY <2>1, <2>2 DEF JobSound, CursorSound
  <2>4. Max({c.seen, c.number}) = IF c.seen >= c.number THEN c.seen ELSE c.number
    BY <2>2, MaxOfTwo DEF Cursor
  <2> QED BY <2>1, <2>3, <2>4
<1>7. HistoryTold
  <2> SUFFICES ASSUME NEW j \in Jobs, Complete(j) PROVE commits = 1 .. Commits
    BY DEF HistoryTold
  <2>1. job[j].status = "done" /\ ~job[j].cursor.partial
    BY DEF Complete, job_payload, partial_of
  <2>2. JobSound(job[j], forge, repo, issues, commits)
    BY JobFacts
  <2>3. 1 .. Commits \subseteq commits
    BY <2>1, <2>2 DEF JobSound, CursorSound
  <2> QED BY <1>1, <2>3 DEF HubSound
<1>8. PolicyOwned
  <2> SUFFICES ASSUME NEW j \in Jobs, job[j].cursor.policy_read PROVE repo.policy = "unset" <=> repo.kind = "upstream"
    BY DEF PolicyOwned
  <2> QED BY JobFacts DEF JobSound, Owned
<1> QED BY <1>4, <1>5, <1>6, <1>7, <1>8

-----------------------------------------------------------------------------
(* A row's place in a list.                                                *)

LEMMA Places ==
    ASSUME NEW found, IsFiniteSet(found), NEW more, IsFiniteSet(more), found \subseteq more, NEW r \in found,
           r >= r
    PROVE  /\ Place(found, r) \in Nat \ {0} /\ Place(found, r) <= Cardinality(found)
           /\ Cardinality(found) \in Nat
           /\ Place(more, r) \in Nat /\ Place(found, r) <= Place(more, r)
<1> DEFINE A == {x \in found : x >= r}
           B == {x \in more : x >= r}
<1>1. A \in SUBSET found /\ B \in SUBSET more /\ A \in SUBSET B /\ r \in A
  OBVIOUS
<1>2. Place(found, r) = Cardinality(A) /\ Place(more, r) = Cardinality(B)
  BY DEF Place
<1> HIDE DEF A, B
<1>3. IsFiniteSet(A) /\ IsFiniteSet(B) /\ Cardinality(A) <= Cardinality(found)
  BY <1>1, FS_Subset
<1>4. Cardinality(A) <= Cardinality(B)
  BY <1>1, <1>3, FS_Subset
<1>5. Cardinality(A) \in Nat /\ Cardinality(B) \in Nat /\ Cardinality(found) \in Nat
  BY <1>3, FS_CardinalityType
<1>6. Cardinality(A) # 0
  BY <1>1, <1>3, FS_EmptySet
<1> QED BY <1>2, <1>3, <1>4, <1>5, <1>6

\* The last page is reached when every place is on a page read.
LEMMA LastPage ==
    ASSUME NEW total \in Nat, NEW size \in Nat \ {0}, NEW page \in Nat, page >= Pages(total, size)
    PROVE  total <= page * size
<1> DEFINE q == Pages(total, size)
<1>1. q \in Int /\ total + size - 1 < (q + 1) * size
  BY DEF Pages
<1> HIDE DEF q
<1>2. q <= page
  BY DEF q
<1>3. q * size <= page * size /\ (q + 1) * size = q * size + size
  BY <1>1, <1>2
<1> QED BY <1>1, <1>3

-----------------------------------------------------------------------------
(* The registry: rows and their mirrors.                                   *)

IsSeq(f) == \E S : f \in Seq(S)

RowFields == {"slug", "kind", "url", "mirror"}
CallerFields == {"pc", "slug", "kind", "url", "id"}

\* A mirror a row points to exists on the forge, so no other row is given it.
RegistrySound ==
    /\ IsSeq(repos)
    /\ \A i \in Ids : DOMAIN repos[i] = RowFields
    /\ \A i \in Ids : repos[i].mirror # NoMirror => repos[i].mirror \in DOMAIN forgeHolds
    /\ RowsApart

CallersSound ==
    /\ DOMAIN caller = Callers
    /\ \A c \in Callers :
          /\ DOMAIN caller[c] = CallerFields
          /\ caller[c].pc \in {"idle", "create", "job", "migrate"}
          /\ caller[c].pc \in {"idle", "create"} => caller[c].id = 0
          /\ caller[c].pc = "job" => caller[c].id = 0 \/ caller[c].id \in Ids
          /\ caller[c].pc = "migrate" => caller[c].id \in Ids

\* What the client has not seen yet lies behind the pages it has read.
Unread(r) == Place(Listed(walk.what), r) > (walk.page - 1) * walk.size
WalkSound ==
    /\ issueRows \subseteq 1 .. MaxIssueRows
    /\ walk.pc \in {"idle", "read", "end"}
    /\ walk.pc # "idle" =>
          /\ DOMAIN walk = {"pc", "what", "size", "page", "seen", "there"}
          /\ walk.size \in Nat \ {0} /\ walk.page \in Nat \ {0}
          /\ walk.there \subseteq Listed(walk.what)
    /\ walk.pc = "read" => \A r \in walk.there : r \in walk.seen \/ Unread(r)
    /\ walk.pc = "end" => walk.there \subseteq walk.seen

RegistryInv == RegistrySound /\ CallersSound /\ WalkSound

LEMMA Appended ==
    ASSUME NEW f, IsSeq(f), NEW x
    PROVE  /\ IsSeq(Append(f, x)) /\ Len(f) \in Nat /\ Len(Append(f, x)) = Len(f) + 1
           /\ \A i \in 1 .. Len(f) : Append(f, x)[i] = f[i]
           /\ Append(f, x)[Len(f) + 1] = x
<1>1. PICK S : f \in Seq(S)
  BY DEF IsSeq
<1>2. f \in Seq(S \cup {x})
  <2>1. f \in [1 .. Len(f) -> S] /\ Len(f) \in Nat
    BY <1>1
  <2>2. f \in [1 .. Len(f) -> S \cup {x}]
    BY <2>1
  <2> QED BY <2>1, <2>2
<1> DEFINE T == S \cup {x}
<1>3. x \in T
  OBVIOUS
<1> HIDE DEF T
<1>4. f \in Seq(T)
  BY <1>2 DEF T
<1>5. Append(f, x) \in Seq(T) /\ Len(f) \in Nat /\ Len(Append(f, x)) = Len(f) + 1
  BY <1>3, <1>4
<1>6. \A i \in 1 .. Len(f) : Append(f, x)[i] = f[i]
  BY <1>3, <1>4
<1>7. Append(f, x)[Len(f) + 1] = x
  BY <1>3, <1>4
<1> QED BY <1>5, <1>6, <1>7 DEF IsSeq

LEMMA Replaced ==
    ASSUME NEW f, IsSeq(f), NEW i \in 1 .. Len(f), NEW x, NEW g, g = [f EXCEPT ![i] = x]
    PROVE  /\ IsSeq(g) /\ Len(g) = Len(f) /\ Len(f) \in Nat
           /\ \A k \in 1 .. Len(f) : g[k] = IF k = i THEN x ELSE f[k]
<1>1. PICK S : f \in Seq(S)
  BY DEF IsSeq
<1> DEFINE n == Len(f)
<1>2. n \in Nat /\ f \in [1 .. n -> S]
  BY <1>1
<1>3. g \in [1 .. n -> S \cup {x}] /\ \A k \in 1 .. n : g[k] = IF k = i THEN x ELSE f[k]
  BY <1>2
<1> HIDE DEF n
<1>4. g \in Seq(S \cup {x})
  BY <1>2, <1>3
<1>5. Len(g) = n
  <2>1. DOMAIN g = 1 .. n
    BY <1>3
  <2>2. Len(g) \in Nat /\ DOMAIN g = 1 .. Len(g)
    BY <1>4
  <2> QED BY <1>2, <2>1, <2>2
<1> QED BY <1>2, <1>3, <1>4, <1>5 DEF IsSeq, n

LEMMA RegistryStarts == ReposInit => RegistryInv
<1> SUFFICES ASSUME ReposInit PROVE RegistryInv
  OBVIOUS
<1>1. repos = <<>> /\ issueRows = {} /\ walk.pc = "idle" /\ caller = [c \in Callers |-> AtRest]
  BY DEF ReposInit
<1>2. IsSeq(repos) /\ Len(repos) = 0 /\ Ids = {}
  <2>1. repos \in Seq({}) /\ Len(repos) = 0
    BY <1>1
  <2> QED BY <2>1 DEF IsSeq, Ids
<1>3. RegistrySound
  BY <1>2 DEF RegistrySound, RowsApart
<1>4. CallersSound
  BY <1>1 DEF CallersSound, AtRest, CallerFields
<1>5. WalkSound
  BY <1>1 DEF WalkSound
<1> QED BY <1>3, <1>4, <1>5 DEF RegistryInv

\* A request goes on, or is answered.
LEMMA CallerMoves ==
    ASSUME CallersSound, NEW c \in Callers, NEW s, caller' = [caller EXCEPT ![c] = s], DOMAIN s = CallerFields,
           s.pc \in {"idle", "create", "job", "migrate"}, s.pc \in {"idle", "create"} => s.id = 0,
           s.pc = "job" => s.id = 0 \/ s.id \in Ids', s.pc = "migrate" => s.id \in Ids',
           Ids \subseteq Ids'
    PROVE  CallersSound'
<1>1. \A d \in Callers : caller'[d] = IF d = c THEN s ELSE caller[d]
  BY DEF CallersSound
<1>2. DOMAIN caller' = Callers
  BY DEF CallersSound
<1> QED BY <1>1, <1>2 DEF CallersSound

LEMMA Answered ==
    ASSUME CallersSound, NEW c \in Callers, Answer(c), Ids \subseteq Ids'
    PROVE  CallersSound'
<1> DEFINE s == AtRest
<1>1. DOMAIN s = CallerFields /\ s.pc = "idle" /\ s.id = 0
  BY DEF AtRest, CallerFields
<1>2. caller' = [caller EXCEPT ![c] = s]
  BY DEF Answer
<1> HIDE DEF s
<1> QED BY <1>1, <1>2, CallerMoves

\* Rows that are added leave what the client has not seen behind its pages.
LEMMA WalkStays ==
    ASSUME WalkSound, IsSeq(repos), IsSeq(repos'), Len(repos) <= Len(repos'), issueRows \subseteq issueRows',
           issueRows' \subseteq 1 .. MaxIssueRows, walk' = walk
    PROVE  WalkSound'
<1>1. Len(repos) \in Nat /\ Len(repos') \in Nat
  BY DEF IsSeq
<1>2. Ids \subseteq Ids'
  BY <1>1 DEF Ids
<1>3. IsFiniteSet(Ids) /\ IsFiniteSet(Ids')
  BY <1>1, FS_Interval DEF Ids
<1>4. IsFiniteSet(issueRows) /\ IsFiniteSet(issueRows')
  <2>1. IsFiniteSet(1 .. MaxIssueRows)
    BY ReposAssumption, FS_Interval
  <2> QED BY <2>1, FS_Subset
<1> DEFINE old == Listed(walk.what)
           new == Listed(walk.what)'
<1>5. old \subseteq new /\ IsFiniteSet(old) /\ IsFiniteSet(new) /\ old \subseteq Int
  <2>1. old = IF walk.what = "repos" THEN Ids ELSE issueRows
    BY DEF Listed, list_repos, list_issues
  <2>2. new = IF walk.what = "repos" THEN Ids' ELSE issueRows'
    BY DEF Listed, list_repos, list_issues
  <2>3. Ids \subseteq Int /\ issueRows \subseteq Int
    BY <1>1 DEF Ids, WalkSound
  <2> HIDE DEF old, new
  <2> QED BY <1>2, <1>3, <1>4, <2>1, <2>2, <2>3
<1>6. ASSUME walk.pc = "read", NEW r \in walk.there, Unread(r) PROVE Unread(r)'
  <2>1. r \in old /\ r \in Int
    BY <1>5, <1>6 DEF WalkSound
  <2>2. Place(old, r) <= Place(new, r) /\ Place(old, r) \in Nat /\ Place(new, r) \in Nat
    BY <1>5, <2>1, Places
  <2>3. Unread(r) <=> Place(old, r) > (walk.page - 1) * walk.size
    BY DEF Unread
  <2>4. Unread(r)' <=> Place(new, r) > (walk.page - 1) * walk.size
    BY DEF Unread
  <2>5. (walk.page - 1) * walk.size \in Int
    BY <1>6 DEF WalkSound
  <2> QED BY <1>6, <2>2, <2>3, <2>4, <2>5
<1>7. walk'.there = walk.there /\ (walk.there \subseteq old => walk.there \subseteq new)
  BY <1>5
<1> HIDE DEF old, new
<1>8. (walk.pc # "idle" => walk.there \subseteq Listed(walk.what))'
  BY <1>7 DEF WalkSound, old, new
<1>9. (walk.pc = "read" => \A r \in walk.there : r \in walk.seen \/ Unread(r))'
  BY <1>6 DEF WalkSound
<1> QED BY <1>8, <1>9 DEF WalkSound

\* A list is of finitely many numbers.
LEMMA ListsFinite ==
    ASSUME RegistrySound, WalkSound, NEW what
    PROVE  IsFiniteSet(Listed(what)) /\ Listed(what) \subseteq Int
<1>1. Len(repos) \in Nat
  BY DEF RegistrySound, IsSeq
<1>2. IsFiniteSet(Ids) /\ Ids \subseteq Int
  BY <1>1, FS_Interval DEF Ids
<1>3. MaxIssueRows \in Int /\ 1 \in Int
  BY ReposAssumption
<1>4. IsFiniteSet(1 .. MaxIssueRows) /\ issueRows \in SUBSET (1 .. MaxIssueRows)
  BY <1>3, FS_Interval DEF WalkSound
<1>5. IsFiniteSet(issueRows)
  BY <1>4, FS_Subset
<1>6. issueRows \subseteq Int
  BY <1>4
<1> QED BY <1>2, <1>5, <1>6 DEF Listed, list_repos, list_issues

\* A page read: what is on it is seen, what is not lies behind it.
LEMMA PageRead ==
    ASSUME RegistryInv, WalkReads
    PROVE  WalkSound'
<1> DEFINE found == Listed(walk.what)
           size == walk.size
           page == walk.page
<1>1. /\ walk.pc = "read" /\ size \in Nat \ {0} /\ page \in Nat \ {0} /\ walk.there \subseteq found
      /\ DOMAIN walk = {"pc", "what", "size", "page", "seen", "there"}
      /\ \A r \in walk.there : r \in walk.seen \/ Place(found, r) > (page - 1) * size
  BY DEF WalkReads, RegistryInv, WalkSound, Unread
<1>2. /\ walk' = [walk EXCEPT !.seen = @ \cup Page(found, page, size), !.page = @ + 1,
                              !.pc = IF page >= Pages(Cardinality(found), size) THEN "end" ELSE "read"]
      /\ UNCHANGED <<repos, issueRows>>
  BY DEF WalkReads
<1>3. /\ walk'.there = walk.there /\ walk'.what = walk.what /\ walk'.size = size /\ walk'.page = page + 1
      /\ walk'.seen = walk.seen \cup Page(found, page, size)
      /\ walk'.pc = IF page >= Pages(Cardinality(found), size) THEN "end" ELSE "read"
      /\ DOMAIN walk' = DOMAIN walk
  BY <1>1, <1>2
<1>4. Listed(walk.what)' = found
  BY <1>2, <1>3 DEF Listed, list_repos, list_issues, Ids
<1>5. IsFiniteSet(found) /\ found \subseteq Int
  BY ListsFinite DEF RegistryInv
<1> HIDE DEF found
<1>6. ASSUME NEW r \in found PROVE Place(found, r) \in Nat /\ Place(found, r) <= Cardinality(found) /\ Cardinality(found) \in Nat
  <2>1. r >= r
    BY <1>5
  <2> QED BY <1>5, <2>1, Places
<1>7. ASSUME NEW r \in found, Place(found, r) > (page - 1) * size, Place(found, r) <= page * size
      PROVE  r \in Page(found, page, size)
  <2>1. (page - 1) * size \in Int /\ Place(found, r) \in Nat
    BY <1>1, <1>6
  <2>2. (page - 1) * size + 1 <= Place(found, r)
    BY <1>7, <2>1
  <2> QED BY <1>7, <2>2 DEF Page, _paging
<1>8. ASSUME NEW r \in walk.there PROVE r \in walk'.seen \/ Place(found, r) > page * size
  <2>1. r \in found /\ Place(found, r) \in Nat /\ page * size \in Int
    BY <1>1, <1>6
  <2> QED BY <1>1, <1>3, <1>7, <2>1
<1>9. (walk.pc = "read" => \A r \in walk.there : r \in walk.seen \/ Unread(r))'
  <2> DEFINE p == walk'.page - 1
  <2>1. p = page
    BY <1>1, <1>3
  <2> HIDE DEF p
  <2>3. p * walk'.size = page * size
    BY <1>3, <2>1
  <2>2. ASSUME NEW r PROVE Unread(r)' <=> Place(found, r) > page * size
    <3>1. Unread(r)' <=> Place(Listed(walk.what)', r) > p * walk'.size
      BY DEF Unread, p
    <3> QED BY <1>4, <2>3, <3>1
  <2> QED BY <1>3, <1>8, <2>2
<1>10. (walk.pc = "end" => walk.there \subseteq walk.seen)'
  <2> SUFFICES ASSUME page >= Pages(Cardinality(found), size), NEW r \in walk.there PROVE r \in walk'.seen
    BY <1>3
  <2>1. r \in found /\ Place(found, r) \in Nat /\ Place(found, r) <= Cardinality(found) /\ Cardinality(found) \in Nat
    BY <1>1, <1>6
  <2>2. Cardinality(found) <= page * size
    BY <1>1, <2>1, LastPage
  <2>3. page * size \in Int
    BY <1>1
  <2> QED BY <1>8, <2>1, <2>2, <2>3
<1>11. (issueRows \subseteq 1 .. MaxIssueRows)' /\ walk'.pc \in {"read", "end"} /\ walk'.page \in Nat \ {0}
  BY <1>1, <1>2, <1>3 DEF RegistryInv, WalkSound
<1> QED BY <1>1, <1>3, <1>4, <1>9, <1>10, <1>11 DEF WalkSound

LEMMA WalkStarts ==
    ASSUME RegistryInv, WalkBegins
    PROVE  WalkSound'
<1>1. PICK what \in {"repos", "issues"}, raw \in PerPage :
        walk' = [pc |-> "read", what |-> what, size |-> per_page(raw), page |-> 1, seen |-> {}, there |-> Listed(what)]
  BY DEF WalkBegins
<1>2. UNCHANGED <<repos, issueRows>>
  BY DEF WalkBegins
<1>3. per_page(raw) \in Nat \ {0}
  <2>1. raw \in Int /\ MAX_PER_PAGE \in Int
    BY ReposAssumption
  <2>2. Min({raw, MAX_PER_PAGE}) \in Int
    BY <2>1, MinOfTwo
  <2>3. Max({1, Min({raw, MAX_PER_PAGE})}) = IF 1 >= Min({raw, MAX_PER_PAGE}) THEN 1 ELSE Min({raw, MAX_PER_PAGE})
    BY <2>2, MaxOfTwo
  <2> QED BY <2>2, <2>3 DEF per_page
<1>4. Listed(what)' = Listed(what)
  BY <1>2 DEF Listed, list_repos, list_issues, Ids
<1>5. /\ walk'.pc = "read" /\ walk'.what = what /\ walk'.size = per_page(raw) /\ walk'.page = 1
      /\ walk'.there = Listed(what)
      /\ DOMAIN walk' = {"pc", "what", "size", "page", "seen", "there"}
  BY <1>1
<1>6. ASSUME NEW r \in Listed(what) PROVE Place(Listed(what), r) > 0
  <2>4. IsFiniteSet(Listed(what)) /\ r \in Int
    BY <1>6, ListsFinite DEF RegistryInv
  <2>5. r >= r
    BY <2>4
  <2>6. Place(Listed(what), r) \in Nat \ {0}
    BY <1>6, <2>4, <2>5, Places
  <2> QED BY <2>6
<1>7. (walk.pc = "read" => \A r \in walk.there : r \in walk.seen \/ Unread(r))'
  <2>1. (1 - 1) * per_page(raw) = 0
    BY <1>3
  <2> QED BY <1>4, <1>5, <1>6, <2>1 DEF Unread
<1>8. (issueRows \subseteq 1 .. MaxIssueRows)'
  BY <1>2 DEF RegistryInv, WalkSound
<1> QED BY <1>3, <1>4, <1>5, <1>7, <1>8 DEF WalkSound

\* A row is added under a slug no row has.
LEMMA RowAdded ==
    ASSUME RegistrySound, NEW row, DOMAIN row = RowFields, row.mirror = NoMirror, repo_by_slug(row.slug) = {},
           repos' = Append(repos, row), forgeHolds' = forgeHolds
    PROVE  RegistrySound' /\ Len(repos) \in Nat /\ Len(repos') = Len(repos) + 1 /\ IsSeq(repos') /\ Ids \subseteq Ids'
<1> DEFINE n == Len(repos)
<1>1. /\ IsSeq(repos') /\ n \in Nat /\ Len(repos') = n + 1
      /\ \A i \in 1 .. n : repos'[i] = repos[i]
      /\ repos'[n + 1] = row
  <2>1. IsSeq(repos)
    BY DEF RegistrySound
  <2> QED BY <2>1, Appended
<1> HIDE DEF n
<1>2. Ids = 1 .. n /\ Ids' = 1 .. (n + 1)
  BY <1>1 DEF Ids, n
<1>3. \A i \in Ids' : i \in Ids \/ i = n + 1
  BY <1>1, <1>2
<1>4. \A i \in Ids : repos[i].slug # row.slug
  BY DEF repo_by_slug
<1>5. RowsApart'
  <2> SUFFICES ASSUME NEW i \in Ids', NEW j \in Ids', i # j
               PROVE  /\ repos'[i].slug # repos'[j].slug
                      /\ (repos'[i].mirror = NoMirror \/ repos'[i].mirror # repos'[j].mirror)
    BY DEF RowsApart
  <2>1. CASE i \in Ids /\ j \in Ids
    BY <1>1, <1>2, <2>1 DEF RegistrySound, RowsApart
  <2>2. CASE i = n + 1 /\ j \in Ids
    BY <1>1, <1>2, <1>4, <2>2
  <2>3. CASE i \in Ids /\ j = n + 1
    <3>1. repos'[i] = repos[i] /\ repos'[j] = row /\ repos[i].slug # row.slug
      BY <1>1, <1>2, <1>4, <2>3
    <3> QED BY <3>1
  <2> QED BY <1>3, <2>1, <2>2, <2>3
<1>6. \A i \in Ids' : DOMAIN repos'[i] = RowFields /\ (repos'[i].mirror # NoMirror => repos'[i].mirror \in DOMAIN forgeHolds)
  BY <1>1, <1>2, <1>3 DEF RegistrySound
<1> QED BY <1>1, <1>2, <1>5, <1>6 DEF RegistrySound, n

\* A row is imported from elsewhere, or given a mirror nobody has.
LEMMA RowChanged ==
    ASSUME RegistrySound, NEW i \in Ids, NEW row, DOMAIN row = RowFields, row.slug = repos[i].slug,
           repos' = [repos EXCEPT ![i] = row],
           \/ row.mirror = repos[i].mirror /\ forgeHolds' = forgeHolds
           \/ row.mirror \notin DOMAIN forgeHolds /\ DOMAIN forgeHolds' = DOMAIN forgeHolds \cup {row.mirror}
    PROVE  RegistrySound' /\ Len(repos) \in Nat /\ Len(repos') = Len(repos) /\ IsSeq(repos') /\ Ids' = Ids
<1>1. /\ IsSeq(repos') /\ Len(repos') = Len(repos) /\ Len(repos) \in Nat
      /\ \A k \in Ids : repos'[k] = IF k = i THEN row ELSE repos[k]
  <2>1. IsSeq(repos) /\ i \in 1 .. Len(repos)
    BY DEF RegistrySound, Ids
  <2>2. /\ IsSeq(repos') /\ Len(repos') = Len(repos) /\ Len(repos) \in Nat
        /\ \A k \in 1 .. Len(repos) : repos'[k] = IF k = i THEN row ELSE repos[k]
    <3>1. PICK f, g : f = repos /\ g = repos'
      OBVIOUS
    <3>2. IsSeq(f) /\ i \in 1 .. Len(f)
      BY <2>1, <3>1
    <3>3. g = [f EXCEPT ![i] = row]
      BY <3>1
    <3>4. IsSeq(g) /\ Len(g) = Len(f) /\ Len(f) \in Nat
      BY ONLY <3>2, <3>3, Replaced
    <3>5. \A k \in 1 .. Len(f) : g[k] = IF k = i THEN row ELSE f[k]
      BY ONLY <3>2, <3>3, Replaced
    <3> QED BY <3>1, <3>4, <3>5
  <2> QED BY <2>2 DEF Ids
<1>2. Ids' = Ids
  BY <1>1 DEF Ids
<1>3. RowsApart'
  <2> SUFFICES ASSUME NEW a \in Ids, NEW b \in Ids, a # b
               PROVE  /\ repos'[a].slug # repos'[b].slug
                      /\ (repos'[a].mirror = NoMirror \/ repos'[a].mirror # repos'[b].mirror)
    BY <1>2 DEF RowsApart
  <2>1. \A k \in Ids : k # i => repos[k].mirror = NoMirror \/ repos[k].mirror \in DOMAIN forgeHolds
    BY DEF RegistrySound
  <2>2. repos[a].slug # repos[b].slug /\ (repos[a].mirror = NoMirror \/ repos[a].mirror # repos[b].mirror)
        /\ (repos[b].mirror = NoMirror \/ repos[b].mirror # repos[a].mirror)
    BY DEF RegistrySound, RowsApart
  <2>3. CASE a # i /\ b # i
    BY <1>1, <2>2, <2>3
  <2>4. CASE a = i /\ b # i
    <3>1. repos'[a] = row /\ repos'[b] = repos[b]
      BY <1>1, <2>4
    <3>2. row.mirror = NoMirror \/ row.mirror # repos[b].mirror
      BY <2>1, <2>2, <2>4
    <3> QED BY <2>2, <2>4, <3>1, <3>2
  <2>5. CASE a # i /\ b = i
    <3>1. repos'[a] = repos[a] /\ repos'[b] = row
      BY <1>1, <2>5
    <3>2. repos[a].mirror = NoMirror \/ repos[a].mirror # row.mirror
      BY <2>1, <2>2, <2>5
    <3> QED BY <2>2, <2>5, <3>1, <3>2
  <2> QED BY <2>3, <2>4, <2>5
<1>4. \A k \in Ids : DOMAIN repos'[k] = RowFields /\ (repos'[k].mirror # NoMirror => repos'[k].mirror \in DOMAIN forgeHolds')
  BY <1>1 DEF RegistrySound
<1> QED BY <1>1, <1>2, <1>3, <1>4 DEF RegistrySound

LEMMA RegistryStays ==
    ASSUME RegistrySound, UNCHANGED <<repos, forgeHolds>>
    PROVE  RegistrySound' /\ Ids' = Ids /\ IsSeq(repos) /\ IsSeq(repos') /\ Len(repos) <= Len(repos')
<1>1. repos' = repos /\ forgeHolds' = forgeHolds /\ Ids' = Ids
  BY DEF Ids
<1>2. IsSeq(repos) /\ Len(repos) \in Nat
  BY DEF RegistrySound, IsSeq
<1> QED BY <1>1, <1>2 DEF RegistrySound, RowsApart

\* A step that only asks.
LEMMA AskStep ==
    ASSUME RegistryInv, NEW c \in Callers, create_repo(c) \/ import_repo(c) \/ sync_repo(c)
    PROVE  RegistryInv'
<1>1. UNCHANGED <<repos, forgeHolds, issueRows, walk>>
  BY DEF create_repo, import_repo, sync_repo
<1>2. RegistrySound /\ CallersSound /\ WalkSound
  BY DEF RegistryInv
<1>3. RegistrySound' /\ Ids' = Ids /\ IsSeq(repos) /\ IsSeq(repos') /\ Len(repos) <= Len(repos')
  BY <1>1, <1>2, RegistryStays
<1>4. WalkSound'
  <2>1. walk' = walk /\ issueRows \subseteq issueRows' /\ issueRows' \subseteq 1 .. MaxIssueRows
    BY <1>1, <1>2 DEF WalkSound
  <2> QED BY <1>2, <1>3, <2>1, WalkStays
<1>5. /\ DOMAIN caller[c] = CallerFields
      /\ caller[c].pc = "idle" => caller[c].id = 0
  BY <1>2 DEF CallersSound
<1>6. CASE Answer(c)
  BY <1>2, <1>3, <1>4, <1>6, Answered DEF RegistryInv
<1>7. CASE ~Answer(c)
  <2>1. PICK s : CallerGoes(c, s) /\ DOMAIN s = CallerFields /\
                 ((s.pc = "create" /\ s.id = 0) \/ (s.pc = "job" /\ (s.id = 0 \/ s.id \in Ids)))
    <3>1. CASE create_repo(c)
      <4>1. PICK sl \in LocalSlugs : CallerGoes(c, [caller[c] EXCEPT !.pc = "create", !.slug = sl, !.kind = "workspace"])
        BY <1>7, <3>1 DEF create_repo
      <4>2. caller[c].pc = "idle"
        BY <3>1 DEF create_repo
      <4> DEFINE s == [caller[c] EXCEPT !.pc = "create", !.slug = sl, !.kind = "workspace"]
      <4>3. DOMAIN s = CallerFields /\ s.pc = "create" /\ s.id = 0
        BY <1>5, <4>2 DEF CallerFields
      <4> QED BY <4>1, <4>3
    <3>2. CASE import_repo(c)
      <4>1. PICK source \in Sources :
              CallerGoes(c, [caller[c] EXCEPT !.pc = "job", !.slug = slug(source), !.url = source])
        BY <1>7, <3>2 DEF import_repo
      <4>2. caller[c].pc = "idle"
        BY <3>2 DEF import_repo
      <4> DEFINE s == [caller[c] EXCEPT !.pc = "job", !.slug = slug(source), !.url = source]
      <4>3. DOMAIN s = CallerFields /\ s.pc = "job" /\ s.id = 0
        BY <1>5, <4>2 DEF CallerFields
      <4> QED BY <4>1, <4>3
    <3>3. CASE sync_repo(c)
      <4>1. PICK i \in Ids :
              CallerGoes(c, [caller[c] EXCEPT !.pc = "job", !.slug = repos[i].slug, !.url = repos[i].url, !.id = i])
        BY <1>7, <3>3 DEF sync_repo
      <4> DEFINE s == [caller[c] EXCEPT !.pc = "job", !.slug = repos[i].slug, !.url = repos[i].url, !.id = i]
      <4>3. DOMAIN s = CallerFields /\ s.pc = "job" /\ s.id = i
        BY <1>5 DEF CallerFields
      <4> QED BY <4>1, <4>3
    <3> QED BY <3>1, <3>2, <3>3
  <2>2. caller' = [caller EXCEPT ![c] = s]
    BY <2>1 DEF CallerGoes
  <2>3. CallersSound'
    BY <1>2, <1>3, <2>1, <2>2, CallerMoves
  <2> QED BY <1>3, <1>4, <2>3 DEF RegistryInv
<1> QED BY <1>6, <1>7

\* A row committed by hand, unless its slug was taken meanwhile.
LEMMA CreateStep ==
    ASSUME RegistryInv, NEW c \in Callers, create_repo_commit(c)
    PROVE  RegistryInv'
<1> DEFINE row == [slug |-> caller[c].slug, kind |-> caller[c].kind, url |-> Nowhere, mirror |-> NoMirror]
<1>1. /\ UNCHANGED <<forgeHolds, issueRows, walk>> /\ Answer(c)
      /\ repos' = IF repo_by_slug(caller[c].slug) = {} THEN Append(repos, row) ELSE repos
  BY DEF create_repo_commit
<1>2. RegistrySound /\ CallersSound /\ WalkSound
  BY DEF RegistryInv
<1>3. DOMAIN row = RowFields /\ row.mirror = NoMirror /\ row.slug = caller[c].slug
  BY DEF RowFields
<1> HIDE DEF row
<1>4. RegistrySound' /\ Ids \subseteq Ids' /\ IsSeq(repos') /\ Len(repos) <= Len(repos')
  <2>1. CASE repo_by_slug(caller[c].slug) = {}
    <3>1. RegistrySound' /\ Len(repos) \in Nat /\ Len(repos') = Len(repos) + 1 /\ IsSeq(repos') /\ Ids \subseteq Ids'
      BY <1>1, <1>2, <1>3, <2>1, RowAdded
    <3> QED BY <3>1
  <2>2. CASE repo_by_slug(caller[c].slug) # {}
    <3>1. UNCHANGED <<repos, forgeHolds>>
      BY <1>1, <2>2
    <3> QED BY <1>2, <3>1, RegistryStays
  <2> QED BY <2>1, <2>2
<1>5. WalkSound'
  <2>1. walk' = walk /\ issueRows \subseteq issueRows' /\ issueRows' \subseteq 1 .. MaxIssueRows /\ IsSeq(repos)
    BY <1>1, <1>2 DEF WalkSound, RegistrySound
  <2> QED BY <1>2, <1>4, <2>1, WalkStays
<1>6. CallersSound'
  BY <1>1, <1>2, <1>4, Answered
<1> QED BY <1>4, <1>5, <1>6 DEF RegistryInv

\* The job of an import: the row it names, or a new one.
LEMMA JobStep ==
    ASSUME RegistryInv, NEW c \in Callers, import_job(c)
    PROVE  RegistryInv'
<1> DEFINE named == IF caller[c].id # 0 THEN {caller[c].id} ELSE repo_by_slug(caller[c].slug)
<1>1. /\ UNCHANGED <<forgeHolds, issueRows, walk>> /\ caller[c].pc = "job"
      /\ named # {} => \E i \in named : /\ repos' = [repos EXCEPT ![i].url = caller[c].url]
                                       /\ CallerGoes(c, [caller[c] EXCEPT !.pc = "migrate", !.id = i])
      /\ named = {} =>
          /\ repos' = Append(repos, [slug |-> caller[c].slug, kind |-> "upstream", url |-> caller[c].url, mirror |-> NoMirror])
          /\ CallerGoes(c, [caller[c] EXCEPT !.pc = "migrate", !.id = Len(repos) + 1])
  BY DEF import_job
<1>2. RegistrySound /\ CallersSound /\ WalkSound
  BY DEF RegistryInv
<1>3. /\ DOMAIN caller[c] = CallerFields /\ (caller[c].id = 0 \/ caller[c].id \in Ids)
      /\ named \subseteq Ids
      /\ named = {} => repo_by_slug(caller[c].slug) = {}
  BY <1>1, <1>2 DEF CallersSound, repo_by_slug
<1> HIDE DEF named
<1>4. PICK i : /\ RegistrySound' /\ Ids \subseteq Ids' /\ IsSeq(repos') /\ Len(repos) <= Len(repos')
               /\ i \in Ids' /\ CallerGoes(c, [caller[c] EXCEPT !.pc = "migrate", !.id = i])
  <2>1. CASE named # {}
    <3>1. PICK i \in named : /\ repos' = [repos EXCEPT ![i].url = caller[c].url]
                             /\ CallerGoes(c, [caller[c] EXCEPT !.pc = "migrate", !.id = i])
      BY <1>1, <2>1
    <3> DEFINE row == [repos[i] EXCEPT !.url = caller[c].url]
    <3>2. i \in Ids /\ DOMAIN repos[i] = RowFields
      BY <1>2, <1>3 DEF RegistrySound
    <3>3. DOMAIN row = RowFields /\ row.slug = repos[i].slug /\ row.mirror = repos[i].mirror
      BY <3>2 DEF RowFields
    <3>4. repos' = [repos EXCEPT ![i] = row]
      BY <3>1
    <3> HIDE DEF row
    <3>5. RegistrySound' /\ Len(repos) \in Nat /\ Len(repos') = Len(repos) /\ IsSeq(repos') /\ Ids' = Ids
      BY <1>1, <1>2, <3>2, <3>3, <3>4, RowChanged
    <3>6. i \in Ids' /\ Ids \subseteq Ids' /\ Len(repos) <= Len(repos')
      BY <3>2, <3>5
    <3> QED BY <3>1, <3>5, <3>6
  <2>2. CASE named = {}
    <3> DEFINE row == [slug |-> caller[c].slug, kind |-> "upstream", url |-> caller[c].url, mirror |-> NoMirror]
    <3>1. repos' = Append(repos, row) /\ CallerGoes(c, [caller[c] EXCEPT !.pc = "migrate", !.id = Len(repos) + 1])
      BY <1>1, <2>2
    <3>2. DOMAIN row = RowFields /\ row.mirror = NoMirror /\ row.slug = caller[c].slug
      BY DEF RowFields
    <3> HIDE DEF row
    <3>3. repo_by_slug(row.slug) = {}
      BY <1>3, <2>2, <3>2
    <3>4. RegistrySound' /\ Len(repos) \in Nat /\ Len(repos') = Len(repos) + 1 /\ IsSeq(repos') /\ Ids \subseteq Ids'
      BY <1>1, <1>2, <3>1, <3>2, <3>3, RowAdded
    <3>5. Len(repos) + 1 \in Ids'
      BY <3>4 DEF Ids
    <3>6. Len(repos) <= Len(repos')
      BY <3>4
    <3> QED BY <3>1, <3>4, <3>5, <3>6
  <2> QED BY <2>1, <2>2
<1>5. WalkSound'
  <2>1. walk' = walk /\ issueRows \subseteq issueRows' /\ issueRows' \subseteq 1 .. MaxIssueRows /\ IsSeq(repos)
    BY <1>1, <1>2 DEF WalkSound, RegistrySound
  <2> QED BY <1>2, <1>4, <2>1, WalkStays
<1>6. CallersSound'
  <2> DEFINE s == [caller[c] EXCEPT !.pc = "migrate", !.id = i]
  <2>1. DOMAIN s = CallerFields /\ s.pc = "migrate" /\ s.id = i
    BY <1>3 DEF CallerFields
  <2>2. caller' = [caller EXCEPT ![c] = s]
    BY <1>4 DEF CallerGoes
  <2> HIDE DEF s
  <2> QED BY <1>2, <1>4, <2>1, <2>2, CallerMoves
<1> QED BY <1>4, <1>5, <1>6 DEF RegistryInv

\* A mirror is made under a name the forge does not have.
LEMMA MigrateStep ==
    ASSUME RegistryInv, NEW c \in Callers, migrate_source(c)
    PROVE  RegistryInv'
<1> DEFINE i == caller[c].id
           name == _forgejo_name(slug(repos[i].url))
<1>1. /\ UNCHANGED <<issueRows, walk>> /\ caller[c].pc = "migrate" /\ Answer(c)
      /\ \/ /\ name \notin DOMAIN forgeHolds
            /\ forgeHolds' = [n \in DOMAIN forgeHolds \cup {name} |->
                                 IF n = name THEN repos[i].url ELSE forgeHolds[n]]
            /\ repos' = [repos EXCEPT ![i].mirror = name]
         \/ UNCHANGED <<forgeHolds, repos>>
  BY DEF migrate_source
<1>2. RegistrySound /\ CallersSound /\ WalkSound
  BY DEF RegistryInv
<1>3. i \in Ids /\ DOMAIN repos[i] = RowFields
  BY <1>1, <1>2 DEF CallersSound, RegistrySound
<1> HIDE DEF i, name
<1>4. RegistrySound' /\ Ids \subseteq Ids' /\ IsSeq(repos') /\ Len(repos) <= Len(repos')
  <2>1. CASE UNCHANGED <<repos, forgeHolds>>
    BY <1>2, <2>1, RegistryStays
  <2>2. CASE ~UNCHANGED <<repos, forgeHolds>>
    <3> DEFINE row == [repos[i] EXCEPT !.mirror = name]
    <3>1. /\ name \notin DOMAIN forgeHolds /\ DOMAIN forgeHolds' = DOMAIN forgeHolds \cup {name}
          /\ repos' = [repos EXCEPT ![i] = row]
      BY <1>1, <2>2
    <3>2. DOMAIN row = RowFields /\ row.slug = repos[i].slug /\ row.mirror = name
      BY <1>3 DEF RowFields
    <3> HIDE DEF row
    <3>3. RegistrySound' /\ Len(repos) \in Nat /\ Len(repos') = Len(repos) /\ IsSeq(repos') /\ Ids' = Ids
      BY <1>2, <1>3, <3>1, <3>2, RowChanged
    <3> QED BY <3>3
  <2> QED BY <2>1, <2>2
<1>5. WalkSound'
  <2>1. walk' = walk /\ issueRows \subseteq issueRows' /\ issueRows' \subseteq 1 .. MaxIssueRows /\ IsSeq(repos)
    BY <1>1, <1>2 DEF WalkSound, RegistrySound
  <2> QED BY <1>2, <1>4, <2>1, WalkStays
<1>6. CallersSound'
  BY <1>1, <1>2, <1>4, Answered
<1> QED BY <1>4, <1>5, <1>6 DEF RegistryInv

LEMMA RegistryStep == RegistryInv /\ [ReposNext]_registryVars => RegistryInv'
<1> SUFFICES ASSUME RegistryInv, [ReposNext]_registryVars PROVE RegistryInv'
  OBVIOUS
<1>1. RegistrySound /\ CallersSound /\ WalkSound
  BY DEF RegistryInv
<1>2. ASSUME UNCHANGED <<repos, forgeHolds, caller>> PROVE RegistrySound' /\ CallersSound'
  <2>1. RegistrySound' /\ Ids' = Ids
    BY <1>1, <1>2, RegistryStays
  <2> QED BY <1>1, <1>2, <2>1 DEF CallersSound
<1>3. ASSUME UNCHANGED <<repos, forgeHolds, caller, walk>>, issueRows \subseteq issueRows', issueRows' \subseteq 1 .. MaxIssueRows
      PROVE  RegistryInv'
  <2>1. RegistrySound' /\ IsSeq(repos) /\ IsSeq(repos') /\ Len(repos) <= Len(repos')
    BY <1>1, <1>3, RegistryStays
  <2>2. WalkSound'
    BY <1>1, <1>3, <2>1, WalkStays
  <2> QED BY <1>2, <1>3, <2>2 DEF RegistryInv
<1>4. ASSUME NEW c \in Callers,
             \/ create_repo(c) \/ create_repo_commit(c) \/ import_repo(c) \/ sync_repo(c)
             \/ import_job(c) \/ migrate_source(c)
      PROVE  RegistryInv'
  BY <1>4, AskStep, CreateStep, JobStep, MigrateStep
<1>5. CASE MirroredIssue
  <2>1. UNCHANGED <<repos, forgeHolds, caller, walk>> /\ issueRows \subseteq issueRows' /\ issueRows' \subseteq 1 .. MaxIssueRows
    BY <1>1, <1>5 DEF MirroredIssue, WalkSound
  <2> QED BY <1>3, <2>1
<1>6. CASE WalkBegins
  <2>1. UNCHANGED <<repos, forgeHolds, caller>> /\ WalkSound'
    BY <1>6, WalkStarts DEF WalkBegins
  <2> QED BY <1>2, <2>1 DEF RegistryInv
<1>7. CASE WalkReads
  <2>1. UNCHANGED <<repos, forgeHolds, caller>> /\ WalkSound'
    BY <1>7, PageRead DEF WalkReads
  <2> QED BY <1>2, <2>1 DEF RegistryInv
<1>8. CASE WalkEnds
  <2>1. UNCHANGED <<repos, forgeHolds, caller, issueRows>> /\ walk' = [pc |-> "idle"]
    BY <1>8 DEF WalkEnds
  <2>2. WalkSound'
    BY <1>1, <2>1 DEF WalkSound
  <2> QED BY <1>2, <2>1, <2>2 DEF RegistryInv
<1>9. CASE UNCHANGED registryVars
  <2>1. UNCHANGED <<repos, forgeHolds, caller, walk>> /\ issueRows \subseteq issueRows' /\ issueRows' \subseteq 1 .. MaxIssueRows
    BY <1>1, <1>9 DEF registryVars, WalkSound
  <2> QED BY <1>3, <2>1
<1> QED BY <1>4, <1>5, <1>6, <1>7, <1>8, <1>9 DEF ReposNext

LEMMA RegistryTrue == RegistryInv => ReposTrue
BY DEF RegistryInv, RegistrySound, WalkSound, ReposTrue, WalkSeesAll

-----------------------------------------------------------------------------

HubInv == ImportSound /\ RegistryInv

\* A finished import mirrored every issue and commit, its cursor was never ahead
\* of the rows it stands for, and only a workspace's own file set its review
\* policy (upsert_page, upsert_commits); a client that pages through what was
\* mirrored sees every row that was there, and two repositories share no slug
\* and no mirror (migrate_source): for any number of jobs, callers, issues,
\* commits and pages, however steps die between their commits, as long as the
\* local mirror can be read, for an import completes without a history it
\* failed to read (_step_index_commits).
THEOREM RepositoriesHold ==
    ASSUME ~GitFaults
    PROVE  Init /\ [][Next]_<<importVars, registryVars, contextVars, runnerVars, part>> => []RepositoriesTrue
<1>1. Init => HubInv
  BY ImportStarts, RegistryStarts DEF Init, HubInv
<1>2. HubInv /\ [Next]_<<importVars, registryVars, contextVars, runnerVars, part>> => HubInv'
  <2> SUFFICES ASSUME HubInv, [Next]_<<importVars, registryVars, contextVars, runnerVars, part>>
               PROVE  HubInv'
    OBVIOUS
  <2>1. [ImportNext]_importVars /\ [ReposNext]_registryVars
    BY DEF Next
  <2> QED BY <2>1, ImportStep, RegistryStep DEF HubInv
<1>3. HubInv => RepositoriesTrue
  BY ImportTrue, RegistryTrue DEF HubInv, RepositoriesTrue
<1> QED BY <1>1, <1>2, <1>3, PTL
=============================================================================
